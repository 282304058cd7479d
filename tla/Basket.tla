-------------------------------- MODULE Basket --------------------------------
(***************************************************************************)
(* What the cart promises a guest, with no request, lock or retry in       *)
(* sight: a basket changes as its guest likes until it is ordered, it is   *)
(* ordered at most once and never empty, and the order is what the basket  *)
(* held, for good.                                                         *)
(*                                                                         *)
(* Cart implements this specification (Cart!Ordering).                     *)
(***************************************************************************)
CONSTANTS Baskets, Ids, None,
  Contents,   \* what a basket can hold
  Empty       \* the content of an empty one

VARIABLES
  content,    \* [Baskets -> Contents]
  placed,     \* [Baskets -> Ids \cup {None}]: the order placed for a basket
  bought      \* [Ids -> Contents \cup {None}]: what was ordered

vars == <<content, placed, bought>>

TypeOK ==
  /\ content \in [Baskets -> Contents]
  /\ placed \in [Baskets -> Ids \cup {None}]
  /\ bought \in [Ids -> Contents \cup {None}]

Init ==
  /\ content = [b \in Baskets |-> Empty]
  /\ placed = [b \in Baskets |-> None]
  /\ bought = [i \in Ids |-> None]

(* The guest, or a product that leaves the menu, changes open baskets. *)
Change ==
  /\ content' \in [Baskets -> Contents]
  /\ \A b \in Baskets : placed[b] # None => content'[b] = content[b]
  /\ UNCHANGED <<placed, bought>>

Order(b, i) ==
  /\ placed[b] = None /\ bought[i] = None
  /\ content[b] # Empty
  /\ placed' = [placed EXCEPT ![b] = i]
  /\ bought' = [bought EXCEPT ![i] = content[b]]
  /\ UNCHANGED content

Next == Change \/ \E b \in Baskets, i \in Ids : Order(b, i)

Spec == Init /\ [][Next]_vars
=============================================================================
