---------------------------- MODULE PaymentLedger ----------------------------
(***************************************************************************)
(* What the payment service promises of an order, with no request, no      *)
(* provider protocol and no lock in sight: at any time at most one payment *)
(* of an order is open, money taken is recorded on the order for good, and *)
(* a restaurant never withdraws an order it has been paid for.             *)
(*                                                                         *)
(* Payments implements this specification (Payments!Ledger).               *)
(***************************************************************************)
CONSTANTS Orders, Ids, None

VARIABLES
  phase,      \* [Ids -> Phases]: what has become of each payment
  owner,      \* [Ids -> Orders \cup {None}]: the order it pays for
  taken,      \* the orders money was taken for
  withdrawn   \* the orders that were cancelled

vars == <<phase, owner, taken, withdrawn>>

Phases == {"none", "open", "paid", "void"}

TypeOK ==
  /\ phase \in [Ids -> Phases]
  /\ owner \in [Ids -> Orders \cup {None}]
  /\ taken \subseteq Orders
  /\ withdrawn \subseteq Orders

Init ==
  /\ phase = [p \in Ids |-> "none"]
  /\ owner = [p \in Ids |-> None]
  /\ taken = {}
  /\ withdrawn = {}

(* A payment is opened for an order that has no other open one. *)
Open(p, o) ==
  /\ phase[p] = "none"
  /\ \A q \in Ids : owner[q] = o => phase[q] # "open"
  /\ phase' = [phase EXCEPT ![p] = "open"]
  /\ owner' = [owner EXCEPT ![p] = o]
  /\ UNCHANGED <<taken, withdrawn>>

(* The provider reports the money: payment and order change together. *)
Settle(p) ==
  /\ phase[p] = "open"
  /\ phase' = [phase EXCEPT ![p] = "paid"]
  /\ taken' = taken \cup {owner[p]}
  /\ UNCHANGED <<owner, withdrawn>>

(* A payment is given up before, or refunded after, it was settled. *)
Void(p) ==
  /\ phase[p] \in {"open", "paid"}
  /\ phase' = [phase EXCEPT ![p] = "void"]
  /\ UNCHANGED <<owner, taken, withdrawn>>

(* The restaurant cancels an order nobody has paid for. *)
Withdraw(o) ==
  /\ o \notin taken
  /\ withdrawn' = withdrawn \cup {o}
  /\ UNCHANGED <<phase, owner, taken>>

Next ==
  \/ \E p \in Ids : Settle(p) \/ Void(p) \/ \E o \in Orders : Open(p, o)
  \/ \E o \in Orders : Withdraw(o)

Spec == Init /\ [][Next]_vars
=============================================================================
