------------------------------ MODULE MCFloor ------------------------------
EXTENDS Floor, TLC

CONSTANTS A, B, R, S, N, x, y, z, b1, b2, own, adm, sup, new, t1, t2, t3, t4, c1, c2, c3, q1, q2, q3

(* Two restaurants of agency A, R with a bot, two tables and a waiter,     *)
(* called to one of them.  The admin's session is about to expire.         *)
Row(r, slug, bot) ==
  [restaurant |-> r, slug |-> slug, active |-> TRUE, bot |-> bot, waiter |-> r = R]

MCExisting ==
  [agencies |-> A :> "active" @@ B :> "none",
   restaurants |-> R :> [agency |-> A, slug |-> x, active |-> TRUE]
                   @@ S :> [agency |-> A, slug |-> y, active |-> TRUE] @@ N :> None,
   locations |-> <<Row(R, x, b1), Row(S, y, None), None>>,
   sessions |-> own :> [role |-> "agency_owner", of |-> A, exp |-> 1]
                @@ adm :> [role |-> "restaurant_admin", of |-> R, exp |-> 0]
                @@ sup :> [role |-> "superadmin", of |-> None, exp |-> 1] @@ new :> None,
   tables |-> t1 :> [restaurant |-> R, location |-> 1, number |-> 1]
              @@ t2 :> [restaurant |-> R, location |-> 1, number |-> 2] @@ t3 :> None @@ t4 :> None,
   calls |-> c1 :> [table |-> t1, status |-> "active"] @@ c2 :> None @@ c3 :> None]

RequestSymmetry == Permutations(Requests) \cup Permutations({t3, t4})
=============================================================================
