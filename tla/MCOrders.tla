------------------------------ MODULE MCOrders ------------------------------
EXTENDS Orders, TLC

CONSTANTS q1, q2, q3, s1, s2, l1, l2, far, t1, u1, Max

(* At the table, at the table of another location, for later, and far away.*)
MCTableLocation == t1 :> l1

Body(l, type, t, client, at) ==
  [location |-> l, type |-> type, table |-> t, client |-> client, scheduled |-> at]

MCInputs ==
  {Body(l1, "dine_in", t1, u1, None), Body(l2, "dine_in", t1, Guest, None),
   Body(l1, "delivery", None, u1, 1), Body(far, "delivery", None, u1, None)}

MCOrdersPerMonth == Free :> 1 @@ Max :> -1

RequestSymmetry == Permutations(Requests) \cup Permutations(Subscribers)
=============================================================================
