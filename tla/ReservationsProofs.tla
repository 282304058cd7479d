------------------------- MODULE ReservationsProofs -------------------------
(***************************************************************************)
(* Theorems about Reservations, for any number of requests, admins, rows   *)
(* and phone numbers and any limits: a key names one reservation, guests   *)
(* stay within their limits, a repeated request is not refused for them,   *)
(* and the timestamps tell a history of the status graph.                  *)
(***************************************************************************)
EXTENDS Reservations, FiniteSetTheorems, TLAPS

-----------------------------------------------------------------------------
(* The inductive invariant *)

(* A row exists when its request was answered so, and keeps what was       *)
(* asked for.                                                              *)
RowsFit ==
  /\ \A r \in Rows : Exists(r) => reservations[r].form \in Form
  /\ \A c \in Requests : /\ Exists(c) <=> requests[c].pc = "created"
                         /\ Exists(c) => reservations[c].form = requests[c].form
                         /\ requests[c].pc # "idle" => requests[c].form \in Form

(* uq_reservations_idempotency *)
KeyUnique ==
  \A r, s \in Rows :
    /\ Exists(r) /\ Exists(s) /\ reservations[r].form.key # None
    /\ reservations[r].form.location = reservations[s].form.location
    /\ reservations[r].form.key = reservations[s].form.key
    => r = s

(* What a request was given exists and is what it asked for. *)
Answers ==
  \A c \in Requests : requests[c].pc \in Accepted =>
    /\ requests[c].result \in Rows /\ Exists(requests[c].result)
    /\ reservations[requests[c].result].form = requests[c].form

(* A guest counts and inserts under the lock of location and phone. *)
Guarded == {"replay_locked", "count_created", "count_active", "insert"}
LockHeld ==
  \A c \in Requests :
    /\ requests[c].pc \in (Guarded \ {"insert"}) \cup {"lock"} => IsGuest(requests[c].form)
    /\ requests[c].pc \in Guarded /\ IsGuest(requests[c].form) =>
         lock[Pair(requests[c].form)] = c

(* A guest's counts stay below the limits until the INSERT. *)
Counted ==
  \A c \in Requests :
    requests[c].pc \in {"count_active", "insert"} /\ IsGuest(requests[c].form) =>
      LET rows == GuestRows(Pair(requests[c].form))
      IN /\ Cardinality(rows \cap recent) < MaxCreated
         /\ requests[c].pc = "insert" => Cardinality(rows \cap ActiveRows) < MaxActive

(* Past the second lookup a guest's reservation does not exist already. *)
NoTwin ==
  \A c \in Requests :
    /\ requests[c].pc \in Guarded \ {"replay_locked"} /\ IsGuest(requests[c].form)
    => \A r \in KeyRows(requests[c].form) : reservations[r].form # requests[c].form

(* An admin has locked a row alone, and read what it holds. *)
RowSeen ==
  \A a \in Admins : admin[a].row # None =>
    /\ Exists(admin[a].row) /\ admin[a].seen = reservations[admin[a].row].status
    /\ \A b \in Admins : admin[b].row = admin[a].row => a = b

IInv == /\ TypeOK /\ RowsFit /\ KeyUnique /\ Answers /\ LockHeld /\ Counted /\ NoTwin /\ RowSeen
        /\ GuestLimits /\ StampsTellHistory

-----------------------------------------------------------------------------
(* Steps *)

(* Request c goes on with pc and result; what it asked for stays. *)
Turned(c, pc, result) ==
  requests' = [requests EXCEPT ![c] = [pc |-> pc, form |-> requests[c].form,
                                       enabled |-> requests[c].enabled, result |-> result]]

LEMMA RequestRecord ==
  ASSUME NEW r \in RequestState, NEW pc
  PROVE  [r EXCEPT !.pc = pc]
           = [pc |-> pc, form |-> r.form, enabled |-> r.enabled, result |-> r.result]
BY DEF RequestState

LEMMA RequestTyped == ASSUME TypeOK, NEW c \in Requests PROVE requests[c] \in RequestState
BY DEF TypeOK

LEMMA GotoTurns ==
  ASSUME TypeOK, NEW c \in Requests, NEW pc, Goto(c, pc)
  PROVE  Turned(c, pc, requests[c].result)
<1>1. requests' = [requests EXCEPT ![c] = [requests[c] EXCEPT !.pc = pc]]
  BY DEF Goto
<1>2. [requests[c] EXCEPT !.pc = pc]
        = [pc |-> pc, form |-> requests[c].form, enabled |-> requests[c].enabled,
           result |-> requests[c].result]
  BY RequestRecord, RequestTyped
<1>3. QED
  BY <1>1, <1>2 DEF Turned

LEMMA ReplayTurns ==
  ASSUME TypeOK, NEW c \in Requests, ReplayOrConflict(c)
  PROVE  /\ EndTransaction(c)
         /\ \/ /\ Turned(c, "conflict", requests[c].result)
            \/ \E r \in KeyRows(requests[c].form) :
                 /\ reservations[r].form = requests[c].form
                 /\ Turned(c, "replayed", r)
<1>1. PICK r \in KeyRows(requests[c].form) :
        requests' = [requests EXCEPT ![c] =
          IF reservations[r].form = requests[c].form
            THEN [requests[c] EXCEPT !.pc = "replayed", !.result = r]
            ELSE [requests[c] EXCEPT !.pc = "conflict"]]
  BY DEF ReplayOrConflict
<1>2. CASE reservations[r].form = requests[c].form
  <2> DEFINE turned == [requests[c] EXCEPT !.pc = "replayed"]
  <2>1. turned = [pc |-> "replayed", form |-> requests[c].form, enabled |-> requests[c].enabled,
                  result |-> requests[c].result]
    BY RequestRecord, RequestTyped
  <2>2. [requests[c] EXCEPT !.pc = "replayed", !.result = r] = [turned EXCEPT !.result = r]
    OBVIOUS
  <2> HIDE DEF turned
  <2>3. [turned EXCEPT !.result = r] = [pc |-> "replayed", form |-> requests[c].form,
                                        enabled |-> requests[c].enabled, result |-> r]
    BY <2>1
  <2>4. Turned(c, "replayed", r)
    BY <1>1, <1>2, <2>2, <2>3 DEF Turned
  <2>5. QED
    BY <1>2, <2>4 DEF ReplayOrConflict
<1>3. CASE reservations[r].form # requests[c].form
  <2>1. [requests[c] EXCEPT !.pc = "conflict"]
          = [pc |-> "conflict", form |-> requests[c].form, enabled |-> requests[c].enabled,
             result |-> requests[c].result]
    BY RequestRecord, RequestTyped
  <2>2. Turned(c, "conflict", requests[c].result)
    BY <1>1, <1>3, <2>1 DEF Turned
  <2>3. QED
    BY <2>2 DEF ReplayOrConflict
<1>4. QED
  BY <1>2, <1>3

(* What a lookup under or before the lock does. *)
LookedUp(c, onward) ==
  \/ /\ KeyRows(requests[c].form) = {}
     /\ Turned(c, onward, requests[c].result)
     /\ UNCHANGED lock
  \/ Turned(c, "conflict", requests[c].result) /\ EndTransaction(c)
  \/ /\ \E r \in KeyRows(requests[c].form) :
          reservations[r].form = requests[c].form /\ Turned(c, "replayed", r)
     /\ EndTransaction(c)

LEMMA FirstReplayTurns ==
  ASSUME TypeOK, NEW c \in Requests, FirstReplay(c)
  PROVE  LookedUp(c, Onward(requests[c].form, requests[c].enabled))
<1>1. CASE KeyRows(requests[c].form) = {} /\ Goto(c, Onward(requests[c].form, requests[c].enabled))
           /\ UNCHANGED lock
  BY <1>1, GotoTurns DEF LookedUp
<1>2. CASE ReplayOrConflict(c)
  BY <1>2, ReplayTurns DEF LookedUp
<1>3. QED
  BY <1>1, <1>2 DEF FirstReplay

LEMMA SecondReplayTurns ==
  ASSUME TypeOK, NEW c \in Requests, SecondReplay(c) PROVE LookedUp(c, "count_created")
<1>1. CASE KeyRows(requests[c].form) = {} /\ Goto(c, "count_created") /\ UNCHANGED lock
  BY <1>1, GotoTurns DEF LookedUp
<1>2. CASE ReplayOrConflict(c)
  BY <1>2, ReplayTurns DEF LookedUp
<1>3. QED
  BY <1>1, <1>2 DEF SecondReplay

LEMMA TakeLockTurns ==
  ASSUME TypeOK, NEW c \in Requests, TakeLock(c)
  PROVE  /\ \/ requests[c].form.key # None /\ Turned(c, "replay_locked", requests[c].result)
            \/ requests[c].form.key = None /\ Turned(c, "count_created", requests[c].result)
         /\ lock' = [lock EXCEPT ![Pair(requests[c].form)] = c]
BY GotoTurns DEF TakeLock

LEMMA CountTurns ==
  ASSUME TypeOK, NEW c \in Requests
  PROVE  /\ CountCreated(c) =>
              \/ /\ ~ Cardinality(RowsOf(Pair(requests[c].form)) \cap recent) >= MaxCreated
                 /\ Turned(c, "count_active", requests[c].result) /\ UNCHANGED lock
              \/ Turned(c, "too_many_created", requests[c].result) /\ EndTransaction(c)
         /\ CountActive(c) =>
              \/ /\ ~ Cardinality(RowsOf(Pair(requests[c].form)) \cap ActiveRows) >= MaxActive
                 /\ Turned(c, "insert", requests[c].result) /\ UNCHANGED lock
              \/ Turned(c, "too_many_active", requests[c].result) /\ EndTransaction(c)
BY GotoTurns DEF CountCreated, CountActive, Refuse

LEMMA InsertTurns ==
  ASSUME TypeOK, NEW c \in Requests, InsertReservation(c)
  PROVE  /\ EndTransaction(c)
         /\ \/ Turned(c, "replay_race", requests[c].result) /\ UNCHANGED <<reservations, recent>>
            \/ /\ KeyRows(requests[c].form) = {}
               /\ Turned(c, "created", c)
               /\ reservations' = [reservations EXCEPT ![c] = NewRow(requests[c].form)]
               /\ recent' = recent \cup {c}
<1>1. CASE KeyTaken(requests[c].form)
  BY <1>1, GotoTurns DEF InsertReservation
<1>2. CASE ~ KeyTaken(requests[c].form)
  <2> DEFINE turned == [requests[c] EXCEPT !.pc = "created"]
  <2>1. turned = [pc |-> "created", form |-> requests[c].form, enabled |-> requests[c].enabled,
                  result |-> requests[c].result]
    BY RequestRecord, RequestTyped
  <2>2. [requests[c] EXCEPT !.pc = "created", !.result = c] = [turned EXCEPT !.result = c]
    OBVIOUS
  <2> HIDE DEF turned
  <2>3. [turned EXCEPT !.result = c] = [pc |-> "created", form |-> requests[c].form,
                                        enabled |-> requests[c].enabled, result |-> c]
    BY <2>1
  <2>4. requests' = [requests EXCEPT ![c] = [requests[c] EXCEPT !.pc = "created", !.result = c]]
    BY <1>2 DEF InsertReservation
  <2>5. Turned(c, "created", c)
    BY <2>2, <2>3, <2>4 DEF Turned
  <2>6. QED
    BY <1>2, <2>5 DEF InsertReservation, KeyTaken
<1>3. QED
  BY <1>1, <1>2

(* The other requests are not touched. *)
LEMMA TurnedParts ==
  ASSUME TypeOK, NEW c \in Requests, NEW pc, NEW result, Turned(c, pc, result)
  PROVE  /\ requests'[c].pc = pc /\ requests'[c].form = requests[c].form
         /\ requests'[c].enabled = requests[c].enabled /\ requests'[c].result = result
         /\ \A d \in Requests : d # c => requests'[d] = requests[d]
         /\ requests' = [requests EXCEPT ![c] = [pc |-> pc, form |-> requests[c].form,
                          enabled |-> requests[c].enabled, result |-> result]]
BY DEF Turned, TypeOK

Inserted(c) ==
  /\ requests[c].pc = "insert" /\ KeyRows(requests[c].form) = {}
  /\ Turned(c, "created", c)
  /\ reservations' = [reservations EXCEPT ![c] = NewRow(requests[c].form)]
  /\ recent' = recent \cup {c}

TurnedOnly(c) ==
  /\ UNCHANGED <<reservations, recent>>
  /\ \E pc \in InFlight \cup {"replayed"} \cup Refused, result \in Rows \cup {None} :
       /\ Turned(c, pc, result)
       /\ pc = "replayed" => /\ result \in KeyRows(requests[c].form)
                            /\ reservations[result].form = requests[c].form

LEMMA OnwardPc == \A form, flag : Onward(form, flag) \in {"disabled", "lock", "insert"}
BY DEF Onward

LEMMA LookedUpOnly ==
  ASSUME TypeOK, NEW c \in Requests, NEW onward \in InFlight \cup Refused, LookedUp(c, onward),
         UNCHANGED <<reservations, recent>>
  PROVE  TurnedOnly(c) /\ (UNCHANGED lock \/ EndTransaction(c))
<1>1. requests[c].result \in Rows \cup {None}
  BY DEF TypeOK, RequestState
<1>2. "conflict" \in Refused /\ KeyRows(requests[c].form) \subseteq Rows
  BY DEF Refused, KeyRows
<1>3. CASE Turned(c, onward, requests[c].result) /\ UNCHANGED lock
  BY <1>1, <1>3 DEF TurnedOnly, InFlight, Refused
<1>4. CASE Turned(c, "conflict", requests[c].result) /\ EndTransaction(c)
  BY <1>1, <1>2, <1>4 DEF TurnedOnly
<1>5. CASE /\ \E r \in KeyRows(requests[c].form) :
                reservations[r].form = requests[c].form /\ Turned(c, "replayed", r)
           /\ EndTransaction(c)
  BY <1>2, <1>5 DEF TurnedOnly
<1>6. QED
  BY <1>3, <1>4, <1>5 DEF LookedUp

LEMMA TurnsOnly ==
  ASSUME TypeOK, NEW c \in Requests, NEW pc \in InFlight \cup Refused,
         Turned(c, pc, requests[c].result), UNCHANGED <<reservations, recent>>
  PROVE  TurnedOnly(c)
<1>1. requests[c].result \in Rows \cup {None}
  BY DEF TypeOK, RequestState
<1>2. pc # "replayed"
  BY DEF InFlight, Refused
<1>3. QED
  BY <1>1, <1>2 DEF TurnedOnly

(* A step of a request inserts its row or turns only its state. *)
LEMMA StepTurns ==
  ASSUME TypeOK, NEW c \in Requests, CreateStep(c)
  PROVE  /\ requests[c].pc \in InFlight /\ UNCHANGED <<enabled, admin>>
         /\ TurnedOnly(c) \/ Inserted(c)
         /\ UNCHANGED lock \/ EndTransaction(c) \/ TakeLock(c)
<1>0. {"replay_locked", "count_created", "count_active", "insert", "replay_race",
       "too_many_created", "too_many_active"} \subseteq InFlight \cup Refused
  BY DEF InFlight, Refused
<1>1. CASE FirstReplay(c)
  <2>1. Onward(requests[c].form, requests[c].enabled) \in InFlight \cup Refused
    BY OnwardPc DEF InFlight, Refused
  <2>2. QED
    BY <1>1, <2>1, FirstReplayTurns, LookedUpOnly DEF FirstReplay, InFlight
<1>2. CASE TakeLock(c)
  <2>1. requests[c].pc \in InFlight /\ UNCHANGED <<enabled, reservations, recent, admin>>
    BY <1>2 DEF TakeLock, InFlight
  <2>2. QED
    BY <1>0, <1>2, <2>1, TakeLockTurns, TurnsOnly
<1>3. CASE SecondReplay(c)
  BY <1>3, SecondReplayTurns, LookedUpOnly DEF SecondReplay, InFlight
<1>4. CASE CountCreated(c) \/ CountActive(c)
  <2>1. requests[c].pc \in InFlight /\ UNCHANGED <<enabled, reservations, recent, admin>>
    BY <1>4 DEF CountCreated, CountActive, InFlight
  <2>2. QED
    BY <1>0, <1>4, <2>1, CountTurns, TurnsOnly
<1>5. CASE InsertReservation(c)
  <2>1. CASE Turned(c, "replay_race", requests[c].result) /\ UNCHANGED <<reservations, recent>>
    BY <1>0, <1>5, <2>1, InsertTurns, TurnsOnly DEF InsertReservation, InFlight
  <2>2. QED
    BY <1>5, <2>1, InsertTurns DEF InsertReservation, Inserted, InFlight
<1>6. CASE ThirdReplay(c)
  <2>1. LookedUp(c, "conflict")
    BY <1>6, ReplayTurns DEF ThirdReplay, LookedUp
  <2>2. QED
    BY <1>6, <2>1, LookedUpOnly DEF ThirdReplay, InFlight, Refused
<1>7. QED
  BY <1>1, <1>2, <1>3, <1>4, <1>5, <1>6 DEF CreateStep

-----------------------------------------------------------------------------
(* Types, and rows as their requests ask for them *)

Base == TypeOK /\ RowsFit

LEMMA Names ==
  /\ "idle" \notin InFlight \cup Accepted \cup Refused \cup {"lost"}
  /\ InFlight \cap (Accepted \cup Refused) = {} /\ Accepted \cap Refused = {}
  /\ "created" \notin InFlight \cup {"replayed"} \cup Refused
  /\ "lost" \notin InFlight \cup Accepted \cup Refused
  /\ "requested" \in ReservationStatuses /\ "requested" # "none"
  /\ _STATUS_TIMESTAMP_FIELDS \subseteq ReservationStatuses /\ "none" \notin ReservationStatuses
BY DEF InFlight, Accepted, Refused, ReservationStatuses, _STATUS_TIMESTAMP_FIELDS

LEMMA LockType ==
  ASSUME TypeOK, NEW c \in Requests, requests[c].form \in Form,
         UNCHANGED lock \/ EndTransaction(c) \/ TakeLock(c)
  PROVE  lock' \in [Locations \X Digits -> Requests \cup {None}]
<1>1. Pair(requests[c].form) \in Locations \X Digits
  BY DEF Pair, Form
<1>2. CASE EndTransaction(c)
  BY <1>2 DEF EndTransaction, TypeOK
<1>3. CASE TakeLock(c)
  BY <1>1, <1>3 DEF TakeLock, TypeOK
<1>4. QED
  BY <1>2, <1>3 DEF TypeOK

LEMMA TurnedType ==
  ASSUME TypeOK, NEW c \in Requests, NEW pc, NEW result \in Rows \cup {None}, Turned(c, pc, result),
         pc \in InFlight \cup Accepted \cup Refused
  PROVE  requests' \in [Requests -> RequestState]
<1>1. [pc |-> pc, form |-> requests[c].form, enabled |-> requests[c].enabled, result |-> result]
        \in RequestState
  BY DEF TypeOK, RequestState
<1>2. QED
  BY <1>1 DEF Turned, TypeOK

LEMMA TurnedBase ==
  ASSUME Base, NEW c \in Requests, requests[c].pc \in InFlight, UNCHANGED <<enabled, admin>>,
         UNCHANGED lock \/ EndTransaction(c) \/ TakeLock(c), TurnedOnly(c)
  PROVE  Base'
<1>1. PICK pc \in InFlight \cup {"replayed"} \cup Refused, result \in Rows \cup {None} :
        Turned(c, pc, result)
  BY DEF TurnedOnly
<1>2. requests[c].form \in Form /\ ~Exists(c)
  BY Names DEF Base, RowsFit
<1>3. requests' \in [Requests -> RequestState]
  BY <1>1, TurnedType DEF Base, Accepted
<1>4. TypeOK'
  BY <1>2, <1>3, LockType DEF Base, TypeOK, TurnedOnly
<1>5. /\ requests'[c].pc = pc /\ requests'[c].form = requests[c].form
      /\ \A d \in Requests : d # c => requests'[d] = requests[d]
  BY <1>1, TurnedParts DEF Base
<1>6. \A r \in Rows : reservations'[r] = reservations[r]
  BY DEF TurnedOnly
<1>7. /\ requests'[c].pc \notin {"created", "idle"} /\ ~Exists(c)'
      /\ requests'[c].form \in Form
  BY <1>1, <1>2, <1>5, <1>6, Names DEF Exists, Rows
<1>8. RowsFit'
  <2>1. \A r \in Rows : Exists(r)' => reservations'[r].form \in Form
    BY <1>6 DEF Base, RowsFit, Exists
  <2>2. ASSUME NEW d \in Requests
        PROVE  /\ Exists(d)' <=> requests'[d].pc = "created"
               /\ Exists(d)' => reservations'[d].form = requests'[d].form
               /\ requests'[d].pc # "idle" => requests'[d].form \in Form
    <3>1. CASE d = c
      BY <1>7, <3>1
    <3>2. CASE d # c
      BY <1>5, <1>6, <3>2 DEF Base, RowsFit, Exists, Rows
    <3>3. QED
      BY <3>1, <3>2
  <2>3. QED
    BY <2>1, <2>2 DEF RowsFit
<1>9. QED
  BY <1>4, <1>8 DEF Base

LEMMA InsertedBase ==
  ASSUME Base, NEW c \in Requests, UNCHANGED <<enabled, admin>>,
         UNCHANGED lock \/ EndTransaction(c) \/ TakeLock(c), Inserted(c)
  PROVE  Base'
<1>1. requests[c].form \in Form /\ c \in Rows
  BY DEF Base, RowsFit, Inserted, Rows
<1>2. requests' \in [Requests -> RequestState]
  BY <1>1, TurnedType DEF Base, Accepted, Inserted
<1>3. NewRow(requests[c].form) \in Row
  BY <1>1, Names DEF NewRow, Row
<1>4. TypeOK'
  BY <1>1, <1>2, <1>3, LockType DEF Base, TypeOK, Inserted
<1>5. /\ requests'[c].pc = "created" /\ requests'[c].form = requests[c].form
      /\ \A d \in Requests : d # c => requests'[d] = requests[d]
  BY TurnedParts DEF Base, Inserted
<1>6. /\ reservations'[c] = [status |-> "requested", form |-> requests[c].form, stamps |-> {}]
      /\ \A r \in Rows : r # c => reservations'[r] = reservations[r]
  BY <1>1 DEF Base, TypeOK, Inserted, NewRow
<1>7. RowsFit'
  BY <1>1, <1>5, <1>6, Names DEF Base, RowsFit, Exists, Rows
<1>8. QED
  BY <1>4, <1>7 DEF Base

LEMMA ArriveParts ==
  ASSUME TypeOK, NEW c \in Requests, NEW form \in Form, Arrive(c, form)
  PROVE  /\ requests[c].pc = "idle"
         /\ requests'[c].pc \in {"replay", "disabled", "lock", "insert"}
         /\ requests'[c].pc = "lock" => IsGuest(form)
         /\ requests'[c].pc = "insert" => ~IsGuest(form)
         /\ requests'[c].form = form
         /\ requests' \in [Requests -> RequestState]
         /\ \A d \in Requests : d # c => requests'[d] = requests[d]
         /\ UNCHANGED <<enabled, reservations, recent, lock, admin>>
<1> DEFINE flag == form.location \in enabled
           pc == IF form.key # None THEN "replay" ELSE Onward(form, flag)
<1>1. requests' = [requests EXCEPT ![c] = [pc |-> pc, form |-> form, enabled |-> flag, result |-> None]]
  BY DEF Arrive
<1>2. /\ pc \in {"replay", "disabled", "lock", "insert"}
      /\ pc = "lock" => IsGuest(form)
      /\ pc = "insert" => ~IsGuest(form)
  BY DEF Onward
<1>3. [pc |-> pc, form |-> form, enabled |-> flag, result |-> None] \in RequestState
  BY <1>2 DEF RequestState, InFlight, Refused
<1> HIDE DEF pc, flag
<1>4. QED
  BY <1>1, <1>2, <1>3 DEF Arrive, TypeOK

LEMMA ArriveBase ==
  ASSUME Base, NEW c \in Requests, NEW form \in Form, Arrive(c, form) PROVE Base'
<1>1. TypeOK'
  BY ArriveParts DEF Base, TypeOK
<1>2. ASSUME NEW d \in Requests
      PROVE  /\ Exists(d)' <=> requests'[d].pc = "created"
             /\ Exists(d)' => reservations'[d].form = requests'[d].form
             /\ requests'[d].pc # "idle" => requests'[d].form \in Form
  <2>1. CASE d = c
    BY <2>1, ArriveParts DEF Base, RowsFit, Exists
  <2>2. CASE d # c
    BY <2>2, ArriveParts DEF Base, RowsFit, Exists
  <2>3. QED
    BY <2>1, <2>2
<1>3. \A r \in Rows : Exists(r)' => reservations'[r].form \in Form
  BY ArriveParts DEF Base, RowsFit, Exists
<1>4. QED
  BY <1>1, <1>2, <1>3 DEF Base, RowsFit

(* What the admin's second step does to the row. *)
Written(a) ==
  /\ admin[a].row # None /\ admin[a].target \in RESERVATION_STATUS_TRANSITIONS[admin[a].seen]
  /\ reservations' = [reservations EXCEPT ![admin[a].row] =
       [status |-> admin[a].target, form |-> reservations[admin[a].row].form,
        stamps |-> reservations[admin[a].row].stamps \cup {admin[a].target}]]

LEMMA RowRecord ==
  ASSUME NEW row \in Row, NEW target
  PROVE  [row EXCEPT !.status = target, !.stamps = row.stamps \cup {target}]
           = [status |-> target, form |-> row.form, stamps |-> row.stamps \cup {target}]
<1> DEFINE turned == [row EXCEPT !.status = target]
           stamps == row.stamps \cup {target}
<1>1. turned = [status |-> target, form |-> row.form, stamps |-> row.stamps]
  BY DEF Row
<1>2. [row EXCEPT !.status = target, !.stamps = row.stamps \cup {target}] = [turned EXCEPT !.stamps = stamps]
  OBVIOUS
<1> HIDE DEF turned, stamps
<1>3. [turned EXCEPT !.stamps = stamps] = [status |-> target, form |-> row.form, stamps |-> stamps]
  BY <1>1
<1>4. QED
  BY <1>2, <1>3 DEF stamps

LEMMA TransitionParts ==
  ASSUME TypeOK, NEW a \in Admins, TransitionStatus(a)
  PROVE  /\ UNCHANGED reservations \/ Written(a)
         /\ admin[a].row \in Rows
         /\ admin' = [admin EXCEPT ![a] = [row |-> None, target |-> admin[a].target, seen |-> admin[a].seen]]
         /\ UNCHANGED <<enabled, recent, requests, lock>>
<1>1. admin[a].row \in Rows /\ admin[a].row # None
  BY DEF TransitionStatus, TypeOK, AdminState
<1>2. admin' = [admin EXCEPT ![a] = [row |-> None, target |-> admin[a].target, seen |-> admin[a].seen]]
  <2>1. admin' = [admin EXCEPT ![a] = [admin[a] EXCEPT !.row = None]]
    BY DEF TransitionStatus
  <2>2. [admin[a] EXCEPT !.row = None] = [row |-> None, target |-> admin[a].target, seen |-> admin[a].seen]
    BY DEF TypeOK, AdminState
  <2>3. QED
    BY <2>1, <2>2
<1>3. CASE admin[a].target \in RESERVATION_STATUS_TRANSITIONS[admin[a].seen]
  <2> DEFINE r == admin[a].row
  <2>1. reservations' = [reservations EXCEPT ![r] =
          [reservations[r] EXCEPT !.status = admin[a].target,
                                  !.stamps = reservations[r].stamps \cup {admin[a].target}]]
    BY <1>3 DEF TransitionStatus
  <2>2. reservations[r] \in Row
    BY <1>1 DEF TypeOK
  <2>3. Written(a)
    BY <1>1, <1>3, <2>1, <2>2, RowRecord DEF Written
  <2>4. QED
    BY <1>1, <1>2, <2>3 DEF TransitionStatus
<1>4. CASE ~ admin[a].target \in RESERVATION_STATUS_TRANSITIONS[admin[a].seen]
  BY <1>1, <1>2, <1>4 DEF TransitionStatus
<1>5. QED
  BY <1>3, <1>4

LEMMA WrittenBase ==
  ASSUME Base, RowSeen, NEW a \in Admins, TransitionStatus(a) PROVE Base'
<1>0. /\ admin[a].row \in Rows /\ Exists(admin[a].row)
      /\ UNCHANGED <<enabled, recent, requests, lock>>
      /\ admin' \in [Admins -> AdminState]
  <2>1. admin[a].row # None
    BY DEF TransitionStatus
  <2>2. [row |-> None, target |-> admin[a].target, seen |-> admin[a].seen] \in AdminState
    BY DEF Base, TypeOK, AdminState
  <2>3. QED
    BY <2>1, <2>2, TransitionParts DEF Base, RowSeen, TypeOK
<1>1. CASE UNCHANGED reservations
  BY <1>0, <1>1 DEF Base, TypeOK, RowsFit, Exists
<1>2. CASE Written(a)
  <2> DEFINE r == admin[a].row
             row == [status |-> admin[a].target, form |-> reservations[r].form,
                     stamps |-> reservations[r].stamps \cup {admin[a].target}]
  <2>1. admin[a].target \in _STATUS_TIMESTAMP_FIELDS /\ reservations[r] \in Row
    BY <1>0 DEF Base, TypeOK, AdminState
  <2>2. row \in Row
    BY <2>1, Names DEF Row
  <2>3. reservations' = [reservations EXCEPT ![r] = row]
    BY <1>2 DEF Written
  <2>4. /\ reservations'[r].form = reservations[r].form
        /\ reservations'[r].status # "none"
        /\ \A s \in Rows : s # r => reservations'[s] = reservations[s]
    BY <1>0, <2>1, <2>3, Names DEF Base, TypeOK
  <2>5. TypeOK'
    BY <1>0, <2>2, <2>3 DEF Base, TypeOK
  <2>6. \A s \in Rows : /\ Exists(s)' <=> Exists(s)
                        /\ reservations'[s].form = reservations[s].form
    BY <1>0, <2>4 DEF Exists
  <2>7. RowsFit'
    BY <1>0, <2>6 DEF Base, RowsFit, Rows
  <2>8. QED
    BY <2>5, <2>7 DEF Base
<1>3. QED
  BY <1>1, <1>2, TransitionParts DEF Base

LEMMA RestartParts ==
  ASSUME TypeOK, NEW c \in Requests, WorkerRestart
  PROVE  /\ requests'[c].form = requests[c].form /\ requests'[c].result = requests[c].result
         /\ requests[c].pc \in InFlight => requests'[c].pc = "lost"
         /\ requests[c].pc \notin InFlight => requests'[c] = requests[c]
         /\ requests'[c] \in RequestState
<1>1. requests'[c] = IF requests[c].pc \in InFlight THEN [requests[c] EXCEPT !.pc = "lost"]
                                                    ELSE requests[c]
  BY DEF WorkerRestart
<1>2. QED
  BY <1>1, RequestRecord, RequestTyped DEF RequestState

LEMMA OtherBase ==
  ASSUME Base,
         \/ \E a \in Admins, r \in Rows, target \in _STATUS_TIMESTAMP_FIELDS :
              LockReservation(a, r, target)
         \/ \E l \in Locations : UpdateLocation(l)
         \/ \E r \in recent : LeaveWindow(r)
         \/ UNCHANGED vars
  PROVE  Base' /\ UNCHANGED <<reservations, requests, lock>> /\ recent' \subseteq recent
<1>1. UNCHANGED <<reservations, requests, lock>> /\ recent' \subseteq recent
  BY DEF LockReservation, UpdateLocation, LeaveWindow, vars
<1>2. RowsFit'
  BY <1>1 DEF Base, RowsFit, Exists
<1>3. admin' \in [Admins -> AdminState]
  <2>1. CASE UNCHANGED admin
    BY <2>1 DEF Base, TypeOK
  <2>2. ASSUME NEW a \in Admins, NEW r \in Rows, NEW target \in _STATUS_TIMESTAMP_FIELDS,
               LockReservation(a, r, target)
        PROVE  admin' \in [Admins -> AdminState]
    <3>1. reservations[r].status \in ReservationStatuses
      BY <2>2 DEF LockReservation, Exists, Base, TypeOK, Row
    <3>2. [row |-> r, target |-> target, seen |-> reservations[r].status] \in AdminState
      BY <3>1 DEF AdminState
    <3>3. QED
      BY <2>2, <3>2 DEF LockReservation, Base, TypeOK
  <2>3. QED
    BY <2>1, <2>2 DEF UpdateLocation, LeaveWindow, vars
<1>4. enabled' \subseteq Locations
  BY DEF LockReservation, UpdateLocation, LeaveWindow, vars, Base, TypeOK
<1>5. QED
  BY <1>1, <1>2, <1>3, <1>4 DEF Base, TypeOK

LEMMA RestartBase == ASSUME Base, WorkerRestart PROVE Base'
<1>1. requests' \in [Requests -> RequestState]
  <2>1. DOMAIN requests' = Requests /\ requests' = [c \in Requests |-> requests'[c]]
    BY DEF WorkerRestart
  <2>2. QED
    BY <2>1, RestartParts DEF Base
<1>2. admin' \in [Admins -> AdminState]
  <2>1. ASSUME NEW a \in Admins PROVE [admin[a] EXCEPT !.row = None] \in AdminState
    BY DEF Base, TypeOK, AdminState
  <2>2. QED
    BY <2>1 DEF WorkerRestart
<1>3. TypeOK'
  BY <1>1, <1>2 DEF Base, TypeOK, WorkerRestart
<1>4. ASSUME NEW c \in Requests
      PROVE  /\ Exists(c)' <=> requests'[c].pc = "created"
             /\ Exists(c)' => reservations'[c].form = requests'[c].form
             /\ requests'[c].pc # "idle" => requests'[c].form \in Form
  BY RestartParts, Names DEF Base, RowsFit, WorkerRestart, Exists
<1>5. \A r \in Rows : Exists(r)' => reservations'[r].form \in Form
  BY DEF Base, RowsFit, WorkerRestart, Exists
<1>6. QED
  BY <1>3, <1>4, <1>5 DEF Base, RowsFit

LEMMA BaseStep == ASSUME Base, RowSeen, [Next]_vars PROVE Base'
<1>1. ASSUME NEW c \in Requests, CreateStep(c) PROVE Base'
  BY <1>1, StepTurns, TurnedBase, InsertedBase DEF Base
<1>2. QED
  BY <1>1, ArriveBase, WrittenBase, OtherBase, RestartBase DEF Next

-----------------------------------------------------------------------------
(* The rows: only an INSERT adds one, nothing changes what it asked for *)

LEMMA NoneNoRow == ASSUME NEW r \in Rows PROVE r # None
BY ConstantsAssumption

RowsStay == \A r \in Rows : /\ Exists(r) <=> reservations'[r].status # "none"
                            /\ reservations'[r].form = reservations[r].form

(* What InsertReservation adds. *)
LEMMA InsertedParts ==
  ASSUME Base, NEW c \in Requests, Inserted(c)
  PROVE  /\ requests[c].form \in Form /\ c \in Rows /\ ~Exists(c)
         /\ reservations'[c] = [status |-> "requested", form |-> requests[c].form, stamps |-> {}]
         /\ \A r \in Rows : r # c => reservations'[r] = reservations[r]
         /\ requests'[c].pc = "created" /\ requests'[c].result = c
         /\ requests'[c].form = requests[c].form
         /\ \A d \in Requests : d # c => requests'[d] = requests[d]
<1>1. requests[c].form \in Form /\ c \in Rows /\ ~Exists(c)
  BY DEF Base, RowsFit, Inserted, Rows
<1>2. /\ reservations'[c] = [status |-> "requested", form |-> requests[c].form, stamps |-> {}]
      /\ \A r \in Rows : r # c => reservations'[r] = reservations[r]
  BY <1>1 DEF Base, TypeOK, Inserted, NewRow
<1>3. QED
  BY <1>1, <1>2, TurnedParts DEF Base, Inserted

LEMMA WrittenParts ==
  ASSUME Base, RowSeen, NEW a \in Admins, TransitionStatus(a), Written(a)
  PROVE  LET r == admin[a].row IN
         /\ r \in Rows /\ Exists(r)
         /\ admin[a].target \in RESERVATION_STATUS_TRANSITIONS[reservations[r].status]
         /\ reservations[r].status \in ReservationStatuses
         /\ reservations'[r].status = admin[a].target
         /\ reservations'[r].form = reservations[r].form
         /\ reservations'[r].stamps = reservations[r].stamps \cup {admin[a].target}
         /\ admin[a].target \in _STATUS_TIMESTAMP_FIELDS
         /\ \A s \in Rows : s # r => reservations'[s] = reservations[s]
<1>1. admin[a].row \in Rows /\ admin[a].row # None
  BY TransitionParts, NoneNoRow DEF Base
<1>2. Exists(admin[a].row) /\ admin[a].seen = reservations[admin[a].row].status
  BY <1>1 DEF RowSeen
<1>3. reservations[admin[a].row].status \in ReservationStatuses
  BY <1>1, <1>2 DEF Base, TypeOK, Row, Exists
<1>4. admin[a].target \in _STATUS_TIMESTAMP_FIELDS
  BY DEF Base, TypeOK, AdminState
<1>5. QED
  BY <1>1, <1>2, <1>3, <1>4 DEF Written, Base, TypeOK

LEMMA OthersStay ==
  ASSUME Base, RowSeen, [Next]_vars
  PROVE  RowsStay \/ \E c \in Requests : Inserted(c) /\ CreateStep(c)
<1>1. ASSUME UNCHANGED reservations PROVE RowsStay
  BY <1>1 DEF RowsStay, Exists
<1>2. ASSUME NEW c \in Requests, CreateStep(c)
      PROVE  RowsStay \/ Inserted(c)
  BY <1>1, <1>2, StepTurns DEF Base, TurnedOnly
<1>3. ASSUME NEW a \in Admins, TransitionStatus(a) PROVE RowsStay
  <2>1. CASE Written(a)
    <3>1. admin[a].target # "none"
      BY <1>3, <2>1, WrittenParts, Names
    <3>2. QED
      BY <1>3, <2>1, <3>1, WrittenParts DEF RowsStay, Exists
  <2>2. QED
    BY <1>1, <1>3, <2>1, TransitionParts DEF Base
<1>4. QED
  BY <1>1, <1>2, <1>3 DEF Next, Arrive, LockReservation, UpdateLocation, LeaveWindow,
                          WorkerRestart, vars

LEMMA RowSeenStep == ASSUME Base, RowSeen, [Next]_vars PROVE RowSeen'
<1>1. CASE UNCHANGED <<reservations, admin>>
  BY <1>1 DEF RowSeen, Exists
<1>2. ASSUME NEW c \in Requests, CreateStep(c) PROVE RowSeen'
  <2>1. CASE Inserted(c)
    <3>0. /\ ~Exists(c)
          /\ \A r \in Rows : r # c => reservations'[r] = reservations[r]
      BY <2>1, InsertedParts
    <3>1. ASSUME NEW a \in Admins, admin[a].row # None
          PROVE  admin[a].row # c /\ admin[a].row \in Rows
      <4>1. Exists(admin[a].row)
        BY <3>1 DEF RowSeen
      <4>2. QED
        BY <3>0, <3>1, <4>1 DEF Base, TypeOK, AdminState
    <3>2. UNCHANGED admin
      BY <1>2, StepTurns DEF Base
    <3>3. \A a \in Admins : admin[a].row # None =>
            reservations'[admin[a].row] = reservations[admin[a].row]
      BY <3>0, <3>1
    <3>4. QED
      BY <3>2, <3>3 DEF RowSeen, Exists
  <2>2. QED
    BY <1>1, <1>2, <2>1, StepTurns DEF Base, TurnedOnly
<1>3. ASSUME NEW a \in Admins, TransitionStatus(a) PROVE RowSeen'
  <2>1. /\ admin'[a].row = None
        /\ \A b \in Admins : b # a => admin'[b] = admin[b]
    BY <1>3, TransitionParts DEF Base, TypeOK
  <2>2. ASSUME NEW b \in Admins, admin'[b].row # None
        PROVE  /\ b # a /\ admin[b].row \in Rows /\ admin[b].row # admin[a].row
               /\ reservations'[admin[b].row] = reservations[admin[b].row]
    <3>1. b # a /\ admin[b].row \in Rows
      BY <2>1, <2>2 DEF Base, TypeOK, AdminState
    <3>2. admin[b].row # admin[a].row
      BY <1>3, <2>1, <2>2, <3>1 DEF RowSeen
    <3>3. QED
      BY <1>3, <3>1, <3>2, TransitionParts, WrittenParts DEF Base
  <2>3. QED
    BY <2>1, <2>2 DEF RowSeen, Exists
<1>4. ASSUME NEW a \in Admins, NEW r \in Rows, NEW target \in _STATUS_TIMESTAMP_FIELDS,
             LockReservation(a, r, target)
      PROVE  RowSeen'
  <2>1. /\ admin'[a].row = r /\ admin'[a].seen = reservations[r].status
        /\ \A b \in Admins : b # a => admin'[b] = admin[b] /\ admin[b].row # r
        /\ Exists(r) /\ UNCHANGED reservations
    BY <1>4 DEF LockReservation, RowFree, Base, TypeOK
  <2>2. QED
    BY <2>1 DEF RowSeen, Exists
<1>5. CASE WorkerRestart
  <2>1. \A a \in Admins : admin'[a].row = None
    BY <1>5 DEF WorkerRestart, Base, TypeOK, AdminState
  <2>2. QED
    BY <2>1 DEF RowSeen
<1>6. QED
  BY <1>1, <1>2, <1>3, <1>4, <1>5 DEF Next, Arrive, UpdateLocation, LeaveWindow, vars

-----------------------------------------------------------------------------
(* A key names one reservation *)

LEMMA KeyUniqueStep == ASSUME Base, RowSeen, KeyUnique, [Next]_vars PROVE KeyUnique'
<1>1. CASE RowsStay
  BY <1>1 DEF RowsStay, KeyUnique, Exists
<1>2. ASSUME NEW c \in Requests, Inserted(c) PROVE KeyUnique'
  <2>1. ASSUME NEW s \in Rows, s # c, Exists(s), requests[c].form.key # None
        PROVE  \/ reservations[s].form.location # requests[c].form.location
               \/ reservations[s].form.key # requests[c].form.key
    BY <1>2, <2>1 DEF Inserted, KeyRows
  <2>2. /\ reservations'[c] = [status |-> "requested", form |-> requests[c].form, stamps |-> {}]
        /\ \A r \in Rows : r # c => reservations'[r] = reservations[r]
    BY <1>2, InsertedParts
  <2>3. ASSUME NEW r \in Rows, NEW s \in Rows,
               reservations'[r].status # "none", reservations'[s].status # "none",
               reservations'[r].form.key # None,
               reservations'[r].form.location = reservations'[s].form.location,
               reservations'[r].form.key = reservations'[s].form.key
        PROVE  r = s
    <3>1. CASE r = c /\ s # c
      BY <2>1, <2>2, <2>3, <3>1 DEF Exists
    <3>2. CASE s = c /\ r # c
      BY <2>1, <2>2, <2>3, <3>2 DEF Exists
    <3>3. CASE r # c /\ s # c
      BY <2>2, <2>3, <3>3 DEF Exists, KeyUnique
    <3>4. QED
      BY <3>1, <3>2, <3>3
  <2>4. QED
    BY <2>3 DEF KeyUnique, Exists
<1>3. QED
  BY <1>1, <1>2, OthersStay

(* The answers already given hold; a new one is a replay or an INSERT. *)
LEMMA AnswersStep == ASSUME Base, RowSeen, Answers, [Next]_vars PROVE Answers'
<1>1. ASSUME NEW d \in Requests, requests'[d].pc = requests[d].pc,
             requests'[d].form = requests[d].form, requests'[d].result = requests[d].result,
             requests'[d].pc \in Accepted
      PROVE  /\ requests'[d].result \in Rows
             /\ reservations'[requests'[d].result].status # "none"
             /\ reservations'[requests'[d].result].form = requests'[d].form
  <2>1. /\ requests[d].result \in Rows /\ Exists(requests[d].result)
        /\ reservations[requests[d].result].form = requests[d].form
    BY <1>1 DEF Answers
  <2>2. CASE RowsStay
    BY <1>1, <2>1, <2>2 DEF RowsStay
  <2>3. ASSUME NEW c \in Requests, Inserted(c)
        PROVE  reservations'[requests[d].result] = reservations[requests[d].result]
    BY <2>1, <2>3, InsertedParts
  <2>4. QED
    BY <1>1, <2>1, <2>2, <2>3, OthersStay DEF Exists
<1>2. ASSUME NEW d \in Requests, requests'[d].pc \in Accepted, requests'[d] # requests[d]
      PROVE  /\ requests'[d].result \in Rows
             /\ reservations'[requests'[d].result].status # "none"
             /\ reservations'[requests'[d].result].form = requests'[d].form
  <2>1. ASSUME NEW c \in Requests, CreateStep(c)
        PROVE  /\ requests'[d].result \in Rows
               /\ reservations'[requests'[d].result].status # "none"
               /\ reservations'[requests'[d].result].form = requests'[d].form
    <3>1. CASE Inserted(c)
      <4>1. /\ reservations'[c] = [status |-> "requested", form |-> requests[c].form, stamps |-> {}]
            /\ c \in Rows /\ requests'[c].result = c /\ requests'[c].form = requests[c].form
            /\ \A e \in Requests : e # c => requests'[e] = requests[e]
        BY <3>1, InsertedParts
      <4>2. d = c
        BY <1>2, <4>1
      <4>3. QED
        BY <4>1, <4>2
    <3>2. CASE TurnedOnly(c)
      <4>1. PICK pc \in InFlight \cup {"replayed"} \cup Refused, result \in Rows \cup {None} :
              /\ Turned(c, pc, result)
              /\ pc = "replayed" => /\ result \in KeyRows(requests[c].form)
                                   /\ reservations[result].form = requests[c].form
        BY <3>2 DEF TurnedOnly
      <4>2. d = c /\ requests'[c].pc = pc /\ requests'[c].result = result
            /\ requests'[c].form = requests[c].form
        BY <1>2, <4>1, TurnedParts DEF Base
      <4>3. pc = "replayed"
        BY <1>2, <4>2, Names DEF Accepted
      <4>4. QED
        BY <3>2, <4>1, <4>2, <4>3 DEF TurnedOnly, KeyRows, Exists
    <3>3. QED
      BY <2>1, <3>1, <3>2, StepTurns DEF Base
  <2>2. ASSUME NEW c \in Requests, NEW form \in Form, Arrive(c, form) PROVE FALSE
    BY <1>2, <2>2, ArriveParts DEF Base, Accepted
  <2>3. ASSUME WorkerRestart PROVE FALSE
    BY <1>2, <2>3, RestartParts, Names DEF Base
  <2>4. ASSUME UNCHANGED requests PROVE FALSE
    BY <1>2, <2>4
  <2>5. QED
    BY <2>1, <2>2, <2>3, <2>4 DEF Next, LockReservation, UpdateLocation, LeaveWindow,
                                  TransitionStatus, vars
<1>3. QED
  BY <1>1, <1>2 DEF Answers, Exists

LEMMA IdempotentFollows == ASSUME Answers, KeyUnique PROVE IdempotentReplay
BY DEF Answers, KeyUnique, IdempotentReplay

-----------------------------------------------------------------------------
(* A guest's way from the lock to the INSERT *)

(* What a step of request c itself may do. *)
Progress(c) ==
  LET form == requests[c].form  pc == requests'[c].pc IN
  /\ requests'[c].form = form
  /\ pc \in (Guarded \ {"insert"}) \cup {"lock"} => IsGuest(form)
  /\ pc \in Guarded /\ IsGuest(form) =>
       \/ TakeLock(c) /\ pc = IF form.key # None THEN "replay_locked" ELSE "count_created"
       \/ requests[c].pc \in Guarded /\ UNCHANGED lock
  /\ pc \in Guarded \ {"replay_locked"} /\ IsGuest(form) =>
       KeyRows(form) = {} \/ requests[c].pc \in Guarded \ {"replay_locked"}
  /\ pc = "count_active" => ~ Cardinality(RowsOf(Pair(form)) \cap recent) >= MaxCreated
  /\ pc = "insert" /\ IsGuest(form) =>
       /\ requests[c].pc = "count_active"
       /\ ~ Cardinality(RowsOf(Pair(form)) \cap ActiveRows) >= MaxActive
  /\ pc \in Refused \ {"conflict"} =>
       KeyRows(form) = {} \/ requests[c].pc \in {"count_created", "count_active"}

(* Where a request that ended stands. *)
LEMMA Ended ==
  ASSUME TypeOK, NEW c \in Requests, NEW pc \in {"conflict", "replayed", "replay_race", "created"},
         NEW result, Turned(c, pc, result)
  PROVE  Progress(c)
<1>1. requests'[c].pc = pc /\ requests'[c].form = requests[c].form
  BY TurnedParts
<1>2. pc \notin Guarded /\ pc # "lock" /\ pc \notin Refused \ {"conflict"}
  BY DEF Guarded, Refused
<1>3. pc # "count_active" /\ pc # "insert"
  OBVIOUS
<1>4. QED
  BY <1>1, <1>2, <1>3 DEF Progress

LEMMA LookedUpProgress ==
  ASSUME TypeOK, NEW c \in Requests, NEW onward, LookedUp(c, onward),
         Turned(c, onward, requests[c].result) /\ KeyRows(requests[c].form) = {} /\ UNCHANGED lock
           => Progress(c)
  PROVE  Progress(c)
BY Ended DEF LookedUp

LEMMA StepProgress ==
  ASSUME TypeOK, LockHeld, NEW c \in Requests, CreateStep(c) PROVE Progress(c)
<1> DEFINE form == requests[c].form
<1>1. CASE FirstReplay(c)
  <2> DEFINE onward == Onward(form, requests[c].enabled)
  <2>1. ASSUME Turned(c, onward, requests[c].result), KeyRows(form) = {} PROVE Progress(c)
    <3>1. /\ onward \in {"disabled", "lock", "insert"}
          /\ onward = "lock" => IsGuest(form)
          /\ onward = "insert" => ~IsGuest(form)
      BY DEF Onward
    <3> HIDE DEF onward
    <3>2. requests'[c].pc = onward /\ requests'[c].form = form
      BY <2>1, TurnedParts
    <3>3. QED
      BY <2>1, <3>1, <3>2 DEF Progress, Guarded
  <2>2. QED
    BY <1>1, <2>1, FirstReplayTurns, LookedUpProgress
<1>2. CASE TakeLock(c)
  <2>1. /\ requests'[c].pc = IF form.key # None THEN "replay_locked" ELSE "count_created"
        /\ requests'[c].form = form
    BY <1>2, TakeLockTurns, TurnedParts
  <2>2. IsGuest(form)
    BY <1>2 DEF TakeLock, LockHeld
  <2>3. form.key = None => KeyRows(form) = {}
    BY DEF KeyRows
  <2>4. requests'[c].pc \notin Refused
    BY <2>1 DEF Refused
  <2>5. CASE form.key # None
    <3>1. requests'[c].pc = "replay_locked"
      BY <2>1, <2>5
    <3>2. QED
      BY <1>2, <2>1, <2>2, <2>4, <3>1 DEF Progress
  <2>6. CASE form.key = None
    <3>1. requests'[c].pc = "count_created"
      BY <2>1, <2>6
    <3>2. QED
      BY <1>2, <2>1, <2>2, <2>3, <2>4, <2>6, <3>1 DEF Progress
  <2>7. QED
    BY <2>5, <2>6
<1>3. CASE SecondReplay(c)
  <2>1. IsGuest(form) /\ requests[c].pc = "replay_locked"
    BY <1>3 DEF SecondReplay, LockHeld, Guarded
  <2>2. ASSUME Turned(c, "count_created", requests[c].result), KeyRows(form) = {}, UNCHANGED lock
        PROVE  Progress(c)
    <3>1. requests'[c].pc = "count_created" /\ requests'[c].form = form
      BY <2>2, TurnedParts
    <3>2. QED
      BY <2>1, <2>2, <3>1 DEF Progress, Guarded, Refused
  <2>3. QED
    BY <1>3, <2>2, SecondReplayTurns, LookedUpProgress
<1>4. CASE CountCreated(c)
  <2>1. IsGuest(form) /\ requests[c].pc = "count_created"
    BY <1>4 DEF CountCreated, LockHeld, Guarded
  <2>2. /\ requests'[c].form = form
        /\ \/ /\ requests'[c].pc = "count_active" /\ UNCHANGED lock
              /\ ~ Cardinality(RowsOf(Pair(form)) \cap recent) >= MaxCreated
           \/ requests'[c].pc = "too_many_created"
    BY <1>4, CountTurns, TurnedParts
  <2>3. QED
    BY <2>1, <2>2 DEF Progress, Guarded, Refused
<1>5. CASE CountActive(c)
  <2>1. IsGuest(form) /\ requests[c].pc = "count_active"
    BY <1>5 DEF CountActive, LockHeld, Guarded
  <2>2. /\ requests'[c].form = form
        /\ \/ /\ requests'[c].pc = "insert" /\ UNCHANGED lock
              /\ ~ Cardinality(RowsOf(Pair(form)) \cap ActiveRows) >= MaxActive
           \/ requests'[c].pc = "too_many_active"
    BY <1>5, CountTurns, TurnedParts
  <2>3. QED
    BY <2>1, <2>2 DEF Progress, Guarded, Refused
<1>6. CASE InsertReservation(c)
  BY <1>6, InsertTurns, Ended
<1>7. CASE ThirdReplay(c)
  BY <1>7, ReplayTurns, Ended DEF ThirdReplay
<1>8. QED
  BY <1>1, <1>2, <1>3, <1>4, <1>5, <1>6, <1>7 DEF CreateStep

LEMMA LockHeldStep == ASSUME Base, LockHeld, [Next]_vars PROVE LockHeld'
<1>1. CASE UNCHANGED <<requests, lock>>
  BY <1>1 DEF LockHeld
<1>2. ASSUME NEW c \in Requests, CreateStep(c) PROVE LockHeld'
  <2>1. Progress(c) /\ \A d \in Requests : d # c => requests'[d] = requests[d]
    BY <1>2, StepProgress, StepTurns, TurnedParts DEF Base, TurnedOnly, Inserted
  <2>2. /\ requests[c].pc # "idle" /\ requests[c].form \in Form
        /\ Pair(requests[c].form) \in Locations \X Digits
    BY <1>2, StepTurns, Names DEF Base, RowsFit, Pair, Form
  <2>3. ASSUME NEW d \in Requests, requests'[d].pc \in Guarded, IsGuest(requests'[d].form)
        PROVE  lock'[Pair(requests'[d].form)] = d
    <3>1. CASE d = c
      <4>1. CASE TakeLock(c)
        BY <2>1, <2>2, <3>1, <4>1 DEF Progress, TakeLock, Base, TypeOK
      <4>2. QED
        BY <2>1, <2>3, <3>1, <4>1 DEF Progress, LockHeld
    <3>2. CASE d # c
      <4>1. requests[d].form \in Form /\ lock[Pair(requests[d].form)] = d
        BY <2>1, <2>3, <3>2 DEF LockHeld, Base, RowsFit, Guarded
      <4>2. Pair(requests[d].form) \in Locations \X Digits /\ d # None
        BY <4>1, NoneNoRow DEF Pair, Form, Rows
      <4>3. CASE EndTransaction(c)
        BY <2>1, <3>2, <4>1, <4>2, <4>3 DEF EndTransaction
      <4>4. CASE TakeLock(c)
        BY <2>1, <3>2, <4>1, <4>2, <4>4 DEF TakeLock, Base, TypeOK
      <4>5. CASE UNCHANGED lock
        BY <2>1, <3>2, <4>1, <4>5
      <4>6. QED
        BY <1>2, <4>3, <4>4, <4>5, StepTurns DEF Base
    <3>3. QED
      BY <3>1, <3>2
  <2>4. ASSUME NEW d \in Requests, requests'[d].pc \in (Guarded \ {"insert"}) \cup {"lock"}
        PROVE  IsGuest(requests'[d].form)
    BY <2>1, <2>4 DEF Progress, LockHeld
  <2>5. QED
    BY <2>3, <2>4 DEF LockHeld
<1>3. ASSUME NEW c \in Requests, NEW form \in Form, Arrive(c, form) PROVE LockHeld'
  <2>1. /\ requests'[c].pc \in Guarded => requests'[c].pc = "insert"
        /\ requests'[c].pc \in {"insert", "lock"} => (requests'[c].pc = "lock" <=> IsGuest(form))
        /\ requests'[c].form = form
        /\ \A d \in Requests : d # c => requests'[d] = requests[d]
        /\ UNCHANGED lock
    BY <1>3, ArriveParts DEF Base, Guarded
  <2>2. ASSUME NEW d \in Requests
        PROVE  /\ requests'[d].pc \in (Guarded \ {"insert"}) \cup {"lock"} => IsGuest(requests'[d].form)
               /\ requests'[d].pc \in Guarded /\ IsGuest(requests'[d].form) =>
                    lock'[Pair(requests'[d].form)] = d
    <3>1. CASE d = c
      BY <2>1, <3>1
    <3>2. CASE d # c
      BY <2>1, <3>2 DEF LockHeld
    <3>3. QED
      BY <3>1, <3>2
  <2>3. QED
    BY <2>2 DEF LockHeld
<1>4. CASE WorkerRestart
  <2>1. \A c \in Requests : requests'[c].pc \notin Guarded \cup {"lock"}
    BY <1>4, RestartParts DEF Base, Guarded, InFlight
  <2>2. QED
    BY <2>1 DEF LockHeld
<1>5. ASSUME NEW a \in Admins, TransitionStatus(a) PROVE LockHeld'
  BY <1>1, <1>5 DEF TransitionStatus
<1>6. QED
  BY <1>1, <1>2, <1>3, <1>4, <1>5, OtherBase DEF Next

-----------------------------------------------------------------------------
(* What guests hold under a location and phone *)

Held(rows, pair) ==
  {c \in Requests : /\ rows[c].status # "none" /\ Pair(rows[c].form) = pair
                    /\ IsGuest(rows[c].form)}
Active(rows) == {r \in Rows : rows[r].status \in ACTIVE_RESERVATION_STATUSES}

LEMMA HeldIs ==
  \A pair : /\ GuestRows(pair) = Held(reservations, pair)
            /\ GuestRows(pair) \subseteq RowsOf(pair)
            /\ ActiveRows = Active(reservations)
BY DEF GuestRows, RowsOf, ActiveRows, Held, Active, Exists, Rows

(* Two guests with the same location and phone are not both under way. *)
LEMMA OneGuest ==
  ASSUME LockHeld, NEW c \in Requests, NEW d \in Requests,
         requests[c].pc \in Guarded, requests[d].pc \in Guarded,
         IsGuest(requests[c].form), IsGuest(requests[d].form),
         Pair(requests[c].form) = Pair(requests[d].form)
  PROVE  c = d
BY DEF LockHeld

(* A reservation goes on to an active status from an active one only. *)
LEMMA NeverActiveAgain ==
  ASSUME NEW s \in ReservationStatuses, NEW t \in RESERVATION_STATUS_TRANSITIONS[s],
         t \in ACTIVE_RESERVATION_STATUSES
  PROVE  s \in ACTIVE_RESERVATION_STATUSES
BY DEF ReservationStatuses, RESERVATION_STATUS_TRANSITIONS, ACTIVE_RESERVATION_STATUSES

(* What guests hold grows by the INSERT of a guest alone. *)
Grown(c, pair) ==
  /\ requests[c].pc = "insert" /\ IsGuest(requests[c].form) /\ Pair(requests[c].form) = pair
  /\ requests'[c].pc = "created"
  /\ \A d \in Requests : d # c => requests'[d] = requests[d]
  /\ Held(reservations', pair) \cap recent' \subseteq (Held(reservations, pair) \cap recent) \cup {c}
  /\ Held(reservations', pair) \cap Active(reservations')
       \subseteq (Held(reservations, pair) \cap Active(reservations)) \cup {c}

Shrunk(pair) ==
  /\ Held(reservations', pair) \cap recent' \subseteq Held(reservations, pair) \cap recent
  /\ Held(reservations', pair) \cap Active(reservations')
       \subseteq Held(reservations, pair) \cap Active(reservations)

LEMMA HeldStep ==
  ASSUME Base, RowSeen, [Next]_vars, NEW pair
  PROVE  Shrunk(pair) \/ \E c \in Requests : Grown(c, pair)
<1>1. ASSUME UNCHANGED reservations, recent' \subseteq recent PROVE Shrunk(pair)
  BY <1>1 DEF Shrunk, Held, Active
<1>2. ASSUME NEW c \in Requests, Inserted(c) PROVE Shrunk(pair) \/ Grown(c, pair)
  <2>1. /\ reservations'[c] = [status |-> "requested", form |-> requests[c].form, stamps |-> {}]
        /\ \A r \in Rows : r # c => reservations'[r] = reservations[r]
        /\ requests'[c].pc = "created" /\ requests[c].pc = "insert"
        /\ \A d \in Requests : d # c => requests'[d] = requests[d]
        /\ recent' = recent \cup {c}
    BY <1>2, InsertedParts DEF Inserted
  <2>2. \A d \in Requests : d # c /\ d \in Held(reservations', pair) => d \in Held(reservations, pair)
    BY <2>1 DEF Held, Rows
  <2>3. \A r \in Rows : r # c /\ r \in Active(reservations') => r \in Active(reservations)
    BY <2>1 DEF Active
  <2>4. Held(reservations', pair) \subseteq Requests /\ Requests \subseteq Rows
    BY DEF Held, Rows
  <2>5. c \in Held(reservations', pair) => IsGuest(requests[c].form) /\ Pair(requests[c].form) = pair
    BY <2>1 DEF Held
  <2>6. CASE c \in Held(reservations', pair)
    BY <2>1, <2>2, <2>3, <2>4, <2>5, <2>6 DEF Grown
  <2>7. CASE c \notin Held(reservations', pair)
    BY <2>1, <2>2, <2>3, <2>4, <2>7 DEF Shrunk
  <2>8. QED
    BY <2>6, <2>7
<1>3. ASSUME NEW c \in Requests, CreateStep(c) PROVE Shrunk(pair) \/ Grown(c, pair)
  <2>1. CASE Inserted(c)
    BY <1>2, <2>1
  <2>2. CASE TurnedOnly(c)
    BY <1>1, <2>2 DEF TurnedOnly
  <2>3. QED
    BY <1>3, <2>1, <2>2, StepTurns DEF Base
<1>4. ASSUME NEW a \in Admins, TransitionStatus(a) PROVE Shrunk(pair)
  <2>1. UNCHANGED recent
    BY <1>4 DEF TransitionStatus
  <2>2. CASE Written(a)
    <3> DEFINE r == admin[a].row
    <3>1. /\ r \in Rows /\ reservations[r].status # "none"
          /\ reservations'[r].form = reservations[r].form
          /\ \A s \in Rows : s # r => reservations'[s] = reservations[s]
      BY <1>4, <2>2, WrittenParts DEF Exists
    <3>2. /\ admin[a].target \in RESERVATION_STATUS_TRANSITIONS[reservations[r].status]
          /\ reservations[r].status \in ReservationStatuses
          /\ reservations'[r].status = admin[a].target
      BY <1>4, <2>2, WrittenParts
    <3>3. reservations'[r].status \in ACTIVE_RESERVATION_STATUSES
            => reservations[r].status \in ACTIVE_RESERVATION_STATUSES
      BY <3>2, NeverActiveAgain
    <3> HIDE DEF r
    <3>4. Active(reservations') \subseteq Active(reservations)
      BY <3>1, <3>3 DEF Active
    <3>5. Held(reservations', pair) \subseteq Held(reservations, pair)
      <4>1. ASSUME NEW d \in Requests, d \in Held(reservations', pair)
            PROVE  d \in Held(reservations, pair)
        <5>1. CASE d = r
          BY <3>1, <4>1, <5>1 DEF Held
        <5>2. CASE d # r
          BY <3>1, <4>1, <5>2 DEF Held, Rows
        <5>3. QED
          BY <5>1, <5>2
      <4>2. Held(reservations', pair) \subseteq Requests
        BY DEF Held
      <4>3. QED
        BY <4>1, <4>2
    <3>6. QED
      BY <2>1, <3>4, <3>5 DEF Shrunk
  <2>3. QED
    BY <1>1, <1>4, <2>1, <2>2, TransitionParts DEF Base
<1>5. ASSUME \/ \E c \in Requests, form \in Form : Arrive(c, form)
             \/ WorkerRestart
      PROVE  Shrunk(pair)
  BY <1>1, <1>5 DEF Arrive, WorkerRestart
<1>6. QED
  BY <1>1, <1>3, <1>4, <1>5, OtherBase DEF Next

(* Cardinalities of sets of rows *)
LEMMA CardRows ==
  ASSUME NEW S \in SUBSET Rows
  PROVE  /\ Cardinality(S) \in Nat
         /\ \A T : T \subseteq S => Cardinality(T) \in Nat /\ Cardinality(T) <= Cardinality(S)
         /\ \A T, x : T \subseteq S \cup {x} => Cardinality(T) \in Nat /\ Cardinality(T) <= Cardinality(S) + 1
<1>1. IsFiniteSet(S)
  BY FS_Subset, ConstantsAssumption
<1>2. Cardinality(S) \in Nat
  BY <1>1, FS_CardinalityType
<1>3. ASSUME NEW T, T \subseteq S PROVE Cardinality(T) \in Nat /\ Cardinality(T) <= Cardinality(S)
  BY <1>1, <1>3, FS_Subset, FS_CardinalityType
<1>4. ASSUME NEW T, NEW x, T \subseteq S \cup {x}
      PROVE  Cardinality(T) \in Nat /\ Cardinality(T) <= Cardinality(S) + 1
  <2>1. /\ IsFiniteSet(S \cup {x})
        /\ Cardinality(S \cup {x}) = IF x \in S THEN Cardinality(S) ELSE Cardinality(S) + 1
    BY <1>1, FS_AddElement
  <2>2. IsFiniteSet(T) /\ Cardinality(T) <= Cardinality(S \cup {x})
    BY <1>4, <2>1, FS_Subset
  <2>3. Cardinality(T) \in Nat
    BY <2>2, FS_CardinalityType
  <2>4. QED
    BY <1>2, <2>1, <2>2, <2>3
<1>5. QED
  BY <1>2, <1>3, <1>4

LEMMA HeldRows ==
  ASSUME NEW rows, NEW pair
  PROVE  /\ Held(rows, pair) \cap recent \in SUBSET Rows
         /\ Held(rows, pair) \cap Active(rows) \in SUBSET Rows
BY DEF Held, Active, Rows

LEMMA LimitsStep ==
  ASSUME Base, RowSeen, Counted, GuestLimits, [Next]_vars PROVE GuestLimits'
<1>1. ASSUME NEW pair \in Locations \X Digits
      PROVE  /\ Cardinality(Held(reservations', pair) \cap recent') <= MaxCreated
             /\ Cardinality(Held(reservations', pair) \cap Active(reservations')) <= MaxActive
  <2> DEFINE made == Held(reservations, pair) \cap recent
             open == Held(reservations, pair) \cap Active(reservations)
             made2 == Held(reservations', pair) \cap recent'
             open2 == Held(reservations', pair) \cap Active(reservations')
  <2>1. made \in SUBSET Rows /\ open \in SUBSET Rows
    BY HeldRows
  <2>2. Cardinality(made) <= MaxCreated /\ Cardinality(open) <= MaxActive
    BY HeldIs DEF GuestLimits
  <2>3. MaxCreated \in Nat /\ MaxActive \in Nat
    BY ConstantsAssumption
  <2>4. CASE Shrunk(pair)
    <3>1. made2 \subseteq made /\ open2 \subseteq open
      BY <2>4 DEF Shrunk
    <3> HIDE DEF made, open, made2, open2
    <3>2. /\ Cardinality(made) \in Nat /\ Cardinality(made2) \in Nat /\ Cardinality(made2) <= Cardinality(made)
          /\ Cardinality(open) \in Nat /\ Cardinality(open2) \in Nat /\ Cardinality(open2) <= Cardinality(open)
      BY <2>1, <3>1, CardRows
    <3>3. Cardinality(made2) <= MaxCreated /\ Cardinality(open2) <= MaxActive
      BY <2>2, <2>3, <3>2
    <3>4. QED
      BY <3>3 DEF made2, open2
  <2>5. ASSUME NEW c \in Requests, Grown(c, pair)
        PROVE  /\ Cardinality(made2) <= MaxCreated
               /\ Cardinality(open2) <= MaxActive
    <3>1. made2 \subseteq made \cup {c} /\ open2 \subseteq open \cup {c}
      BY <2>5 DEF Grown
    <3>2. Cardinality(made) < MaxCreated /\ Cardinality(open) < MaxActive
      BY <2>5, HeldIs DEF Grown, Counted
    <3> HIDE DEF made, open, made2, open2
    <3>3. /\ Cardinality(made) \in Nat /\ Cardinality(made2) \in Nat
          /\ Cardinality(made2) <= Cardinality(made) + 1
          /\ Cardinality(open) \in Nat /\ Cardinality(open2) \in Nat
          /\ Cardinality(open2) <= Cardinality(open) + 1
      BY <2>1, <3>1, CardRows
    <3>4. QED
      BY <2>3, <3>2, <3>3
  <2>6. QED
    BY <2>4, <2>5, HeldStep
<1>2. QED
  BY <1>1 DEF GuestLimits, GuestRows, RowsOf, ActiveRows, Exists, Held, Active, Rows

(* A change of pc that is not a step of the request itself does not bring  *)
(* it between its lock and its INSERT.                                     *)
LEMMA GuardedBy ==
  ASSUME Base, LockHeld, [Next]_vars, NEW d \in Requests,
         requests'[d].pc \in Guarded, IsGuest(requests'[d].form)
  PROVE  \/ requests'[d] = requests[d]
         \/ CreateStep(d) /\ Progress(d)
<1>1. ASSUME NEW c \in Requests, CreateStep(c)
      PROVE  requests'[d] = requests[d] \/ (CreateStep(d) /\ Progress(d))
  <2>1. Progress(c) /\ \A e \in Requests : e # c => requests'[e] = requests[e]
    BY <1>1, StepProgress, StepTurns, TurnedParts DEF Base, TurnedOnly, Inserted
  <2>2. QED
    BY <1>1, <2>1
<1>2. ASSUME NEW c \in Requests, NEW form \in Form, Arrive(c, form)
      PROVE  requests'[d] = requests[d]
  <2>1. /\ requests'[c].form = form
        /\ requests'[c].pc \in Guarded => ~IsGuest(form)
        /\ \A e \in Requests : e # c => requests'[e] = requests[e]
    BY <1>2, ArriveParts DEF Base, Guarded
  <2>2. QED
    BY <2>1
<1>3. CASE WorkerRestart
  <2>1. requests[d].pc \notin InFlight
    BY <1>3, RestartParts DEF Base, Guarded
  <2>2. QED
    BY <1>3, <2>1, RestartParts DEF Base
<1>4. CASE UNCHANGED requests
  BY <1>4
<1>5. QED
  BY <1>1, <1>2, <1>3, <1>4 DEF Next, LockReservation, TransitionStatus, UpdateLocation,
                                LeaveWindow, vars

LEMMA CountedStep ==
  ASSUME Base, RowSeen, LockHeld, Counted, [Next]_vars PROVE Counted'
<1>1. ASSUME NEW d \in Requests, NEW pair, pair = Pair(requests'[d].form),
             requests'[d].pc \in {"count_active", "insert"}, IsGuest(requests'[d].form)
      PROVE  /\ Cardinality(Held(reservations', pair) \cap recent') < MaxCreated
             /\ requests'[d].pc = "insert" =>
                  Cardinality(Held(reservations', pair) \cap Active(reservations')) < MaxActive
  <2> DEFINE made == Held(reservations, pair) \cap recent
             open == Held(reservations, pair) \cap Active(reservations)
             made2 == Held(reservations', pair) \cap recent'
             open2 == Held(reservations', pair) \cap Active(reservations')
             madeAll == RowsOf(pair) \cap recent
             openAll == RowsOf(pair) \cap ActiveRows
  <2>1. requests'[d].pc \in Guarded
    BY <1>1 DEF Guarded
  <2>2. requests'[d] = requests[d] \/ (CreateStep(d) /\ Progress(d))
    BY <1>1, <2>1, GuardedBy
  <2>3. /\ requests'[d].form = requests[d].form
        /\ requests[d].pc \in Guarded
    BY <1>1, <2>1, <2>2 DEF Progress
  <2>4. ~ \E c \in Requests : Grown(c, pair)
    <3>1. ASSUME NEW c \in Requests, Grown(c, pair) PROVE FALSE
      <4>1. c # d /\ requests[c].pc \in Guarded
        BY <1>1, <3>1 DEF Grown, Guarded
      <4>2. QED
        BY <1>1, <2>3, <3>1, <4>1, OneGuest DEF Grown
    <3>2. QED
      BY <3>1
  <2>5. made2 \subseteq made /\ open2 \subseteq open
    BY <2>4, HeldStep DEF Shrunk
  <2>6. made \in SUBSET Rows /\ open \in SUBSET Rows
    BY HeldRows
  <2>7. /\ made \subseteq madeAll /\ open \subseteq openAll
        /\ madeAll \in SUBSET Rows /\ openAll \in SUBSET Rows
    BY HeldIs DEF RowsOf
  <2>8. /\ Cardinality(made) < MaxCreated
        /\ requests'[d].pc = "insert" => Cardinality(open) < MaxActive
    <3>1. CASE requests'[d] = requests[d]
      BY <1>1, <3>1, HeldIs DEF Counted
    <3>2. CASE Progress(d)
      <4>1. requests'[d].pc = "count_active" => ~ Cardinality(madeAll) >= MaxCreated
        BY <1>1, <2>3, <3>2 DEF Progress
      <4>2. requests'[d].pc = "insert" => requests[d].pc = "count_active"
                                          /\ ~ Cardinality(openAll) >= MaxActive
        BY <1>1, <2>3, <3>2 DEF Progress
      <4>3. requests'[d].pc = "insert" => Cardinality(made) < MaxCreated
        BY <1>1, <2>3, <4>2, HeldIs DEF Counted
      <4> HIDE DEF made, open, madeAll, openAll
      <4>4. /\ Cardinality(madeAll) \in Nat /\ Cardinality(made) \in Nat
            /\ Cardinality(made) <= Cardinality(madeAll)
            /\ Cardinality(openAll) \in Nat /\ Cardinality(open) \in Nat
            /\ Cardinality(open) <= Cardinality(openAll)
        BY <2>7, CardRows
      <4>5. QED
        BY <1>1, <4>1, <4>2, <4>3, <4>4, ConstantsAssumption
    <3>3. QED
      BY <2>2, <3>1, <3>2
  <2> HIDE DEF made, open, made2, open2
  <2>9. /\ Cardinality(made) \in Nat /\ Cardinality(made2) \in Nat /\ Cardinality(made2) <= Cardinality(made)
        /\ Cardinality(open) \in Nat /\ Cardinality(open2) \in Nat /\ Cardinality(open2) <= Cardinality(open)
    BY <2>5, <2>6, CardRows
  <2>10. /\ Cardinality(made2) < MaxCreated
         /\ requests'[d].pc = "insert" => Cardinality(open2) < MaxActive
    BY <2>8, <2>9, ConstantsAssumption
  <2>11. QED
    BY <2>10 DEF made2, open2
<1>2. QED
  BY <1>1 DEF Counted, GuestRows, RowsOf, ActiveRows, Exists, Held, Active, Rows

-----------------------------------------------------------------------------
(* A guest's reservation is not made twice, nor refused when it exists *)

LEMMA NoTwinStep ==
  ASSUME Base, RowSeen, LockHeld, NoTwin, [Next]_vars PROVE NoTwin'
<1>1. ASSUME NEW d \in Requests, requests'[d].pc \in Guarded \ {"replay_locked"},
             IsGuest(requests'[d].form), NEW r \in Rows, reservations'[r].status # "none",
             reservations'[r].form = requests'[d].form, requests'[d].form.key # None
      PROVE  FALSE
  <2>1. requests'[d] = requests[d] \/ (CreateStep(d) /\ Progress(d))
    BY <1>1, GuardedBy
  <2>2. /\ requests'[d].form = requests[d].form
        /\ requests[d].pc \in Guarded
    BY <1>1, <2>1 DEF Progress
  <2>3. CASE Exists(r) /\ reservations[r].form = requests[d].form
    <3>1. r \in KeyRows(requests[d].form)
      BY <1>1, <2>2, <2>3 DEF KeyRows
    <3>2. requests[d].pc \in Guarded \ {"replay_locked"}
      BY <1>1, <2>1, <2>2, <3>1 DEF Progress
    <3>3. QED
      BY <1>1, <2>2, <2>3, <3>1, <3>2 DEF NoTwin
  <2>4. CASE ~(Exists(r) /\ reservations[r].form = requests[d].form)
    <3>1. PICK c \in Requests : Inserted(c)
      BY <1>1, <2>2, <2>4, OthersStay DEF RowsStay
    <3>2. /\ reservations'[c] = [status |-> "requested", form |-> requests[c].form, stamps |-> {}]
          /\ \A s \in Rows : s # c => reservations'[s] = reservations[s]
          /\ requests'[c].pc = "created" /\ requests[c].pc = "insert"
      BY <3>1, InsertedParts DEF Inserted
    <3>3. r = c
      BY <1>1, <2>2, <2>4, <3>2 DEF Exists
    <3>4. requests[c].form = requests[d].form /\ c # d /\ requests[c].pc \in Guarded
      BY <1>1, <2>2, <3>2, <3>3 DEF Guarded
    <3>5. QED
      BY <1>1, <2>2, <3>4, OneGuest
  <2>5. QED
    BY <2>3, <2>4
<1>2. QED
  BY <1>1 DEF NoTwin, KeyRows, Exists

-----------------------------------------------------------------------------
(* The timestamps *)

LEMMA Graph ==
  ASSUME NEW s \in ReservationStatuses, NEW t \in RESERVATION_STATUS_TRANSITIONS[s]
  PROVE  /\ s \notin Terminal
         /\ s = "seated" => t = "completed"
         /\ t \in ReservationStatuses
BY DEF Terminal, ReservationStatuses, RESERVATION_STATUS_TRANSITIONS

(* Who is seated, completed or missed was confirmed or seated just before. *)
LEMMA SeatedFrom ==
  ASSUME NEW s \in ReservationStatuses, NEW t \in RESERVATION_STATUS_TRANSITIONS[s],
         t \in {"seated", "completed", "no_show"}
  PROVE  s \in {"confirmed", "seated"}
BY DEF ReservationStatuses, RESERVATION_STATUS_TRANSITIONS

LEMMA StampsStep ==
  ASSUME Base, RowSeen, StampsTellHistory, [Next]_vars PROVE StampsTellHistory'
<1>1. ASSUME UNCHANGED reservations PROVE StampsTellHistory'
  BY <1>1 DEF StampsTellHistory
<1>2. ASSUME NEW c \in Requests, Inserted(c) PROVE StampsTellHistory'
  <2>1. /\ reservations'[c] = [status |-> "requested", form |-> requests[c].form, stamps |-> {}]
        /\ \A r \in Rows : r # c => reservations'[r] = reservations[r]
    BY <1>2, InsertedParts
  <2>2. /\ reservations'[c].status = "requested" /\ reservations'[c].stamps = {}
        /\ "requested" \notin _STATUS_TIMESTAMP_FIELDS
    BY <2>1 DEF _STATUS_TIMESTAMP_FIELDS
  <2>3. ASSUME NEW r \in Rows
        PROVE  LET row == reservations'[r] IN
               /\ row.stamps \cap Terminal \subseteq {row.status}
               /\ "seated" \in row.stamps => row.status \in {"seated", "completed"}
               /\ r \in Requests /\ row.status \in _STATUS_TIMESTAMP_FIELDS => row.status \in row.stamps
               /\ r \in Requests /\ row.stamps \cap {"seated", "completed", "no_show"} # {} =>
                    "confirmed" \in row.stamps
    <3>1. CASE r = c
      BY <2>2, <3>1
    <3>2. CASE r # c
      BY <2>1, <3>2 DEF StampsTellHistory
    <3>3. QED
      BY <3>1, <3>2
  <2>4. QED
    BY <2>3 DEF StampsTellHistory
<1>3. ASSUME NEW a \in Admins, TransitionStatus(a), Written(a) PROVE StampsTellHistory'
  <2> DEFINE s == admin[a].row
             target == admin[a].target
             old == reservations[s]
  <2>1. /\ s \in Rows /\ Exists(s)
        /\ target \in RESERVATION_STATUS_TRANSITIONS[old.status]
        /\ old.status \in ReservationStatuses
        /\ reservations'[s].status = target
        /\ reservations'[s].stamps = old.stamps \cup {target}
        /\ target \in _STATUS_TIMESTAMP_FIELDS
        /\ \A r \in Rows : r # s => reservations'[r] = reservations[r]
    BY <1>3, WrittenParts
  <2>2. old.status \notin Terminal /\ (old.status = "seated" => target = "completed")
    BY <2>1, Graph
  <2>3. /\ old.stamps \cap Terminal \subseteq {old.status}
        /\ "seated" \in old.stamps => old.status \in {"seated", "completed"}
    BY <2>1 DEF StampsTellHistory
  <2>4. "completed" \in Terminal
    BY DEF Terminal, ReservationStatuses, RESERVATION_STATUS_TRANSITIONS
  <2> HIDE DEF s, target, old
  <2>5. /\ (old.stamps \cup {target}) \cap Terminal \subseteq {target}
        /\ "seated" \in old.stamps \cup {target} => target \in {"seated", "completed"}
    BY <2>2, <2>3, <2>4
  <2>8. ASSUME s \in Requests, (old.stamps \cup {target}) \cap {"seated", "completed", "no_show"} # {}
        PROVE  "confirmed" \in old.stamps
    <3>1. /\ old.status \in _STATUS_TIMESTAMP_FIELDS => old.status \in old.stamps
          /\ old.stamps \cap {"seated", "completed", "no_show"} # {} => "confirmed" \in old.stamps
      BY <2>1, <2>8 DEF StampsTellHistory, old
    <3>2. target \in {"seated", "completed", "no_show"} => old.status \in {"confirmed", "seated"}
      BY <2>1, SeatedFrom
    <3>3. {"confirmed", "seated"} \subseteq _STATUS_TIMESTAMP_FIELDS
      BY DEF _STATUS_TIMESTAMP_FIELDS
    <3>4. QED
      BY <2>8, <3>1, <3>2, <3>3
  <2>6. ASSUME NEW r \in Rows
        PROVE  LET row == reservations'[r] IN
               /\ row.stamps \cap Terminal \subseteq {row.status}
               /\ "seated" \in row.stamps => row.status \in {"seated", "completed"}
               /\ r \in Requests /\ row.status \in _STATUS_TIMESTAMP_FIELDS => row.status \in row.stamps
               /\ r \in Requests /\ row.stamps \cap {"seated", "completed", "no_show"} # {} =>
                    "confirmed" \in row.stamps
    <3>1. CASE r = s
      BY <2>1, <2>5, <2>8, <3>1
    <3>2. CASE r # s
      BY <2>1, <3>2 DEF StampsTellHistory
    <3>3. QED
      BY <3>1, <3>2
  <2>7. QED
    BY <2>6 DEF StampsTellHistory
<1>4. ASSUME NEW a \in Admins, TransitionStatus(a) PROVE StampsTellHistory'
  BY <1>1, <1>3, <1>4, TransitionParts DEF Base
<1>5. ASSUME NEW c \in Requests, CreateStep(c) PROVE StampsTellHistory'
  BY <1>1, <1>2, <1>5, StepTurns DEF Base, TurnedOnly
<1>6. QED
  BY <1>1, <1>4, <1>5, OtherBase DEF Next, Arrive, WorkerRestart

-----------------------------------------------------------------------------
(* The theorems *)

LEMMA InitInvariant == Init => IInv
<1> SUFFICES ASSUME Init PROVE IInv
  OBVIOUS
<1>1. PICK old \in [OldRows -> [status : {"new", "confirmed", "completed", "cancelled"},
                                form : {f \in Form : f.client = None /\ f.key = None},
                                stamps : {{}}]] :
        reservations = [r \in Rows |-> IF r \in OldRows THEN old[r] ELSE NoRow]
  BY DEF Init
<1>2. ASSUME NEW r \in OldRows
      PROVE  /\ reservations[r] \in Row /\ reservations[r].form \in Form
             /\ reservations[r].form.key = None /\ reservations[r].stamps = {}
  <2>1. reservations[r] = old[r]
    BY <1>1 DEF Rows
  <2>2. old[r] \in [status : {"new", "confirmed", "completed", "cancelled"},
                    form : {f \in Form : f.client = None /\ f.key = None}, stamps : {{}}]
    OBVIOUS
  <2>3. QED
    BY <2>1, <2>2 DEF Row, ReservationStatuses
<1>3. ASSUME NEW c \in Requests
      PROVE  /\ reservations[c] = [status |-> "none", form |-> None, stamps |-> {}]
             /\ requests[c] = [pc |-> "idle", form |-> None, enabled |-> FALSE, result |-> None]
  BY <1>1, ConstantsAssumption DEF Init, Rows, NoRow
<1>4. \A c \in Requests : reservations[c].status = "none" /\ reservations[c].stamps = {}
                          /\ requests[c].pc = "idle"
  BY <1>3
<1>5. TypeOK
  <2>1. \A c \in Requests : reservations[c] \in Row /\ requests[c] \in RequestState
    <3>1. [status |-> "none", form |-> None, stamps |-> {}] \in Row
      BY DEF Row
    <3>2. [pc |-> "idle", form |-> None, enabled |-> FALSE, result |-> None] \in RequestState
      BY DEF RequestState
    <3>3. QED
      BY <1>3, <3>1, <3>2
  <2>2. reservations \in [Rows -> Row]
    <3>1. \A r \in Rows : reservations[r] \in Row
      BY <1>2, <2>1 DEF Rows
    <3>2. reservations = [r \in Rows |-> reservations[r]]
      BY <1>1
    <3>3. QED
      BY <3>1, <3>2
  <2>3. requests \in [Requests -> RequestState]
    BY <2>1 DEF Init
  <2>4. admin \in [Admins -> AdminState]
    BY DEF Init, AdminState, _STATUS_TIMESTAMP_FIELDS, ReservationStatuses
  <2>5. QED
    BY <2>2, <2>3, <2>4 DEF Init, TypeOK, Rows
<1>6. RowsFit /\ KeyUnique
  BY <1>2, <1>4 DEF RowsFit, KeyUnique, Exists, Rows
<1>7. Answers /\ LockHeld /\ Counted /\ NoTwin
  BY <1>4 DEF Answers, LockHeld, Counted, NoTwin, Accepted, Guarded
<1>8. RowSeen
  BY DEF Init, RowSeen
<1>9. GuestLimits
  <2>1. \A pair : Held(reservations, pair) = {}
    BY <1>4 DEF Held
  <2>2. ASSUME NEW pair \in Locations \X Digits
        PROVE  /\ Cardinality(GuestRows(pair) \cap recent) <= MaxCreated
               /\ Cardinality(GuestRows(pair) \cap ActiveRows) <= MaxActive
    <3>1. GuestRows(pair) \cap recent = {} /\ GuestRows(pair) \cap ActiveRows = {}
      BY <2>1, HeldIs
    <3>2. Cardinality({}) = 0
      BY FS_EmptySet
    <3>3. 0 <= MaxCreated /\ 0 <= MaxActive
      BY ConstantsAssumption
    <3>4. QED
      BY <3>1, <3>2, <3>3
  <2>3. QED
    BY <2>2 DEF GuestLimits
<1>10. StampsTellHistory
  <2>1. \A r \in Rows : reservations[r].stamps = {}
    BY <1>2, <1>4 DEF Rows
  <2>2. \A c \in Requests : reservations[c].status \notin _STATUS_TIMESTAMP_FIELDS
    BY <1>4 DEF _STATUS_TIMESTAMP_FIELDS
  <2>3. QED
    BY <1>4, <2>1, <2>2 DEF StampsTellHistory
<1>11. QED
  BY <1>5, <1>6, <1>7, <1>8, <1>9, <1>10 DEF IInv

LEMMA StepInvariant == IInv /\ [Next]_vars => IInv'
BY BaseStep, RowSeenStep, KeyUniqueStep, AnswersStep, LockHeldStep, CountedStep, NoTwinStep,
   LimitsStep, StampsStep DEF IInv, Base

LEMMA Invariant == Spec => []IInv
BY InitInvariant, StepInvariant, PTL DEF Spec

(* The tables, the requests, the locks and the admins' sessions hold what  *)
(* their types and CHECKs allow in every state.                            *)
THEOREM TypesHold == Spec => []TypeOK
<1>1. IInv => TypeOK
  BY DEF IInv
<1>2. QED
  BY <1>1, Invariant, PTL

(* create_reservation_idempotent: requests accepted for one key were given *)
(* one reservation, the one they asked for.                                *)
THEOREM ReplaysAgree == Spec => []IdempotentReplay
<1>1. IInv => IdempotentReplay
  BY IdempotentFollows DEF IInv
<1>2. QED
  BY <1>1, Invariant, PTL

(* The guests of a location and phone stay within both limits, however     *)
(* many requests run in parallel.                                          *)
THEOREM LimitsHold == Spec => []GuestLimits
<1>1. IInv => GuestLimits
  BY DEF IInv
<1>2. QED
  BY <1>1, Invariant, PTL

(* transition_status: the timestamps tell a history of the status graph,   *)
(* also when several admins decide on the same reservation.                *)
THEOREM HistoriesTold == Spec => []StampsTellHistory
<1>1. IInv => StampsTellHistory
  BY DEF IInv
<1>2. QED
  BY <1>1, Invariant, PTL

LEMMA RefusedByTwin ==
  ASSUME IInv, [Next]_vars, NEW c \in Requests, requests[c].pc \in InFlight,
         requests'[c].pc \in Refused \ {"conflict"}, NEW r \in KeyRows(requests[c].form)
  PROVE  reservations[r].form # requests[c].form
<1>1. ASSUME NEW d \in Requests, CreateStep(d) PROVE reservations[r].form # requests[c].form
  <2>1. Progress(d) /\ \A e \in Requests : e # d => requests'[e] = requests[e]
    BY <1>1, StepProgress, StepTurns, TurnedParts DEF IInv, TurnedOnly, Inserted
  <2>2. d = c
    BY <2>1, Names
  <2>3. requests[c].pc \in {"count_created", "count_active"}
    BY <2>1, <2>2 DEF Progress
  <2>4. QED
    BY <2>3 DEF IInv, NoTwin, LockHeld, Guarded
<1>2. ASSUME NEW d \in Requests, NEW form \in Form, Arrive(d, form) PROVE FALSE
  <2>1. c # d
    BY <1>2, ArriveParts, Names DEF IInv
  <2>2. QED
    BY <1>2, <2>1, ArriveParts, Names DEF IInv
<1>3. ASSUME WorkerRestart PROVE FALSE
  BY <1>3, RestartParts, Names DEF IInv
<1>4. ASSUME UNCHANGED requests PROVE FALSE
  BY <1>4, Names
<1>5. QED
  BY <1>1, <1>2, <1>3, <1>4 DEF Next, LockReservation, TransitionStatus, UpdateLocation,
                                LeaveWindow, vars

(* A repeated request is not refused for the flag or the limits while its  *)
(* own reservation exists.                                                 *)
THEOREM RetriesNotRefused == Spec => RetryNotRefused
<1>1. IInv /\ [Next]_vars =>
        [\A c \in Requests :
           requests[c].pc \in InFlight /\ requests'[c].pc \in Refused \ {"conflict"} =>
             \A r \in KeyRows(requests[c].form) :
               reservations[r].form # requests[c].form]_vars
  BY RefusedByTwin
<1>2. QED
  BY <1>1, Invariant, PTL DEF Spec, RetryNotRefused
=============================================================================
