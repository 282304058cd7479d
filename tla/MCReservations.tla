---------------------------- MODULE MCReservations ----------------------------
EXTENDS Reservations, TLC

CONSTANTS q1, q2, q3, old, a1, a2, l1, p1, p2, u1, k1, d1, d2

RequestSymmetry == Permutations(Requests)
=============================================================================
