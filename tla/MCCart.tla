-------------------------------- MODULE MCCart --------------------------------
EXTENDS Cart, TLC

CONSTANTS r1, r2, r3, r4, s1, s2, p1, p2, k1

RequestSymmetry == Permutations(Requests)
=============================================================================
