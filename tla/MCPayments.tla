------------------------------ MODULE MCPayments ------------------------------
EXTENDS Payments, TLC

CONSTANTS o1, o2, r1, r2, r3, k1, m1, m2, c1

RequestSymmetry == Permutations(Requests)
=============================================================================
