------------------------------- MODULE MCMenu -------------------------------
EXTENDS Menu, TLC

CONSTANTS k1, k2, f, p1, p2, v1, v2, g1, g2, o1, o2, o3, x, y, z, ru, q1, q2, q3

Row(k, from, until, photo) ==
  [category |-> k, priced |-> TRUE, available |-> TRUE, from |-> from, until |-> until, photo |-> photo]

(* One product with a photo, sold at night, with a variant and a group of  *)
(* two options; a photo just uploaded.                                     *)
MCExisting ==
  [categories |-> {k1, f},
   products |-> p1 :> Row(k1, 3, 1, x) @@ p2 :> None,
   variants |-> v1 :> [product |-> p1, active |-> TRUE, available |-> TRUE] @@ v2 :> None,
   groups |-> g1 :> [product |-> p1, min |-> 0, max |-> 1, active |-> TRUE] @@ g2 :> None,
   options |-> o1 :> [group |-> g1, active |-> TRUE, available |-> TRUE]
               @@ o2 :> [group |-> g1, active |-> TRUE, available |-> TRUE] @@ o3 :> None,
   translations |-> {<<k1, ru>>, <<o1, ru>>},
   stored |-> {x, y}, urls |-> x :> "given" @@ y :> "uploaded" @@ z :> "unknown"]

MCOffered == {Row(k1, 1, 3, y), Row(k2, None, None, None), Row(f, 1, None, x)}

RequestSymmetry == Permutations(Requests)
=============================================================================
