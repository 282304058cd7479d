----------------------------- MODULE Reservations -----------------------------
(***************************************************************************)
(* Table reservations: POST /api/reservations for guests and verified      *)
(* Telegram users, and the admin's status changes, over the reservations   *)
(* table at READ COMMITTED.                                                *)
(*                                                                         *)
(* Each query of create_reservation_idempotent is a step; a guest takes a  *)
(* transaction-level advisory lock on (location, phone) and keeps it until *)
(* its transaction ends.  transition_status locks the row with its SELECT  *)
(* and commits in a second step.  A request inserts at most one row, which *)
(* carries its name.  Refusals that change nothing and read nothing of     *)
(* this state (foreign or inactive location, malformed input) are left out.*)
(***************************************************************************)
EXTENDS StatusTransitions, FiniteSets, Naturals

CONSTANTS
  Requests,     \* the POST requests, and the reservations they insert
  OldRows,      \* reservations made before phase 15
  Admins,       \* concurrent sessions of the restaurant's admin
  Locations,    \* the restaurant's active locations
  Digits,       \* phone numbers, digits only
  Users,        \* verified Telegram users; a guest has none
  Keys,         \* values of the Idempotency-Key header
  Details,      \* name, guests, time and comment of a reservation
  MaxCreated,   \* settings.RESERVATION_GUEST_MAX_CREATED_PER_60_MIN
  MaxActive,    \* settings.RESERVATION_GUEST_MAX_ACTIVE
  None          \* SQL NULL

Rows == Requests \cup OldRows

ASSUME ConstantsAssumption ==
  /\ IsFiniteSet(Rows) /\ Requests \cap OldRows = {}
  /\ MaxCreated \in Nat /\ MaxActive \in Nat
  /\ None \notin Rows \cup Users \cup Keys

VARIABLES
  enabled,       \* the locations with is_reservation_enabled
  reservations,  \* [Rows -> row]; status "none" while the row does not exist
  recent,        \* the rows whose created_at is in the last 60 minutes
  requests,      \* [Requests -> [pc, form, enabled, result]]
  lock,          \* [Locations \X Digits -> Requests \cup {None}]: advisory locks
  admin          \* [Admins -> [row, target, seen]]: the PATCH in progress

vars == <<enabled, reservations, recent, requests, lock, admin>>

(* What a request asks for, and what a row keeps of it. *)
Form == [location : Locations, digits : Digits, client : Users \cup {None},
         key : Keys \cup {None}, details : Details]
IsGuest(form) == form.client = None
Pair(form) == <<form.location, form.digits>>

ACTIVE_RESERVATION_STATUSES == {"new", "requested", "confirmed"}
Terminal == {s \in ReservationStatuses : RESERVATION_STATUS_TRANSITIONS[s] = {}}
_STATUS_TIMESTAMP_FIELDS == {"confirmed", "seated", "completed", "cancelled", "no_show"}

InFlight == {"replay", "lock", "replay_locked", "count_created", "count_active",
             "insert", "replay_race"}
Accepted == {"created", "replayed"}
Refused == {"disabled", "too_many_created", "too_many_active", "conflict"}

Row == [status : ReservationStatuses \cup {"none"}, form : Form \cup {None},
        stamps : SUBSET _STATUS_TIMESTAMP_FIELDS]
NoRow == [status |-> "none", form |-> None, stamps |-> {}]
RequestState ==
  [pc : InFlight \cup Accepted \cup Refused \cup {"idle", "lost"},
   form : Form \cup {None}, enabled : BOOLEAN, result : Rows \cup {None}]
AdminState == [row : Rows \cup {None}, target : _STATUS_TIMESTAMP_FIELDS,
               seen : ReservationStatuses]

(* Type invariant: columns hold what their type and CHECK allow. *)
TypeOK ==
  /\ enabled \subseteq Locations
  /\ reservations \in [Rows -> Row]
  /\ recent \subseteq Rows
  /\ requests \in [Requests -> RequestState]
  /\ lock \in [Locations \X Digits -> Requests \cup {None}]
  /\ admin \in [Admins -> AdminState]

Exists(r) == reservations[r].status # "none"

(* The old rows have no key, no Telegram id and no timestamps, and one of  *)
(* the four statuses of migration 0001.                                    *)
Init ==
  /\ enabled = Locations
  /\ \E old \in [OldRows -> [status : {"new", "confirmed", "completed", "cancelled"},
                             form : {f \in Form : f.client = None /\ f.key = None},
                             stamps : {{}}]] :
       reservations = [r \in Rows |-> IF r \in OldRows THEN old[r] ELSE NoRow]
  /\ recent = OldRows
  /\ requests = [c \in Requests |-> [pc |-> "idle", form |-> None,
                                     enabled |-> FALSE, result |-> None]]
  /\ lock = [pair \in Locations \X Digits |-> None]
  /\ admin = [a \in Admins |-> [row |-> None, target |-> "confirmed", seen |-> "new"]]

-----------------------------------------------------------------------------
(* create_reservation_idempotent *)

Goto(c, pc) == requests' = [requests EXCEPT ![c].pc = pc]

(* Mutant: a session-level lock. *)
EndTransaction_SessionLock(c) == c \in Requests /\ UNCHANGED lock

(* The end of the transaction releases its advisory lock. *)
EndTransaction(c) ==
  lock' = [pair \in Locations \X Digits |-> IF lock[pair] = c THEN None ELSE lock[pair]]

Refuse(c, pc) == Goto(c, pc) /\ EndTransaction(c)

(* What follows a lookup that found nothing: the flag, as it was when the  *)
(* location was read, then the guest's lock or the INSERT.                 *)
Onward(form, flag) == IF ~flag THEN "disabled"
                      ELSE IF IsGuest(form) THEN "lock" ELSE "insert"

Arrive(c, form) ==
  /\ requests[c].pc = "idle"
  /\ LET flag == form.location \in enabled IN
     requests' = [requests EXCEPT ![c] =
       [pc |-> IF form.key # None THEN "replay" ELSE Onward(form, flag),
        form |-> form, enabled |-> flag, result |-> None]]
  /\ UNCHANGED <<enabled, reservations, recent, lock, admin>>

KeyRows(form) ==
  {r \in Rows : /\ Exists(r) /\ form.key # None
                /\ reservations[r].form.location = form.location
                /\ reservations[r].form.key = form.key}

(* The key is taken: a replay if the six fields agree, else 409.           *)
ReplayOrConflict(c) ==
  /\ \E r \in KeyRows(requests[c].form) :
       requests' = [requests EXCEPT ![c] =
         IF reservations[r].form = requests[c].form
           THEN [@ EXCEPT !.pc = "replayed", !.result = r]
           ELSE [@ EXCEPT !.pc = "conflict"]]
  /\ EndTransaction(c)

FirstReplay(c) ==
  /\ requests[c].pc = "replay"
  /\ \/ /\ KeyRows(requests[c].form) = {}
        /\ Goto(c, Onward(requests[c].form, requests[c].enabled))
        /\ UNCHANGED lock
     \/ ReplayOrConflict(c)
  /\ UNCHANGED <<enabled, reservations, recent, admin>>

(* Mutants: the lock is not waited for; the second lookup is left out. *)
TakeLock_Ignored(c) ==
  /\ requests[c].pc = "lock"
  /\ Goto(c, IF requests[c].form.key # None THEN "replay_locked" ELSE "count_created")
  /\ UNCHANGED <<enabled, reservations, recent, lock, admin>>
TakeLock_NoSecondReplay(c) ==
  /\ requests[c].pc = "lock"
  /\ lock[Pair(requests[c].form)] = None
  /\ lock' = [lock EXCEPT ![Pair(requests[c].form)] = c]
  /\ Goto(c, "count_created")
  /\ UNCHANGED <<enabled, reservations, recent, admin>>

(* pg_advisory_xact_lock waits. *)
TakeLock(c) ==
  /\ requests[c].pc = "lock"
  /\ lock[Pair(requests[c].form)] = None
  /\ lock' = [lock EXCEPT ![Pair(requests[c].form)] = c]
  /\ Goto(c, IF requests[c].form.key # None THEN "replay_locked" ELSE "count_created")
  /\ UNCHANGED <<enabled, reservations, recent, admin>>

SecondReplay(c) ==
  /\ requests[c].pc = "replay_locked"
  /\ \/ /\ KeyRows(requests[c].form) = {}
        /\ Goto(c, "count_created")
        /\ UNCHANGED lock
     \/ ReplayOrConflict(c)
  /\ UNCHANGED <<enabled, reservations, recent, admin>>

RowsOf(pair) == {r \in Rows : Exists(r) /\ Pair(reservations[r].form) = pair}
ActiveRows == {r \in Rows : reservations[r].status \in ACTIVE_RESERVATION_STATUSES}

CountCreated(c) ==
  /\ requests[c].pc = "count_created"
  /\ IF Cardinality(RowsOf(Pair(requests[c].form)) \cap recent) >= MaxCreated
       THEN Refuse(c, "too_many_created")
       ELSE Goto(c, "count_active") /\ UNCHANGED lock
  /\ UNCHANGED <<enabled, reservations, recent, admin>>

CountActive(c) ==
  /\ requests[c].pc = "count_active"
  /\ IF Cardinality(RowsOf(Pair(requests[c].form)) \cap ActiveRows) >= MaxActive
       THEN Refuse(c, "too_many_active")
       ELSE Goto(c, "insert") /\ UNCHANGED lock
  /\ UNCHANGED <<enabled, reservations, recent, admin>>

(* Mutants: no unique index; a column requested_at that does not exist. *)
KeyTaken_NoIndex(form) == form.location \notin Locations
NewRow_Stamped(form) == [status |-> "requested", form |-> form, stamps |-> {"requested"}]

(* uq_reservations_idempotency *)
KeyTaken(form) == KeyRows(form) # {}
NewRow(form) == [status |-> "requested", form |-> form, stamps |-> {}]

InsertReservation(c) ==
  /\ requests[c].pc = "insert"
  /\ IF KeyTaken(requests[c].form)
       THEN /\ Goto(c, "replay_race")
            /\ UNCHANGED <<reservations, recent>>
       ELSE /\ reservations' = [reservations EXCEPT ![c] = NewRow(requests[c].form)]
            /\ recent' = recent \cup {c}
            /\ requests' = [requests EXCEPT ![c] = [@ EXCEPT !.pc = "created", !.result = c]]
  /\ EndTransaction(c)
  /\ UNCHANGED <<enabled, admin>>

ThirdReplay(c) ==
  /\ requests[c].pc = "replay_race"
  /\ ReplayOrConflict(c)
  /\ UNCHANGED <<enabled, reservations, recent, admin>>

-----------------------------------------------------------------------------
(* transition_status: SELECT ... FOR UPDATE, then the checks and the write. *)

(* Mutant: the row is read without FOR UPDATE. *)
RowFree_NoLock(r) == r \in Rows
RowFree(r) == \A a \in Admins : admin[a].row # r

LockReservation(a, r, target) ==
  /\ admin[a].row = None
  /\ Exists(r) /\ RowFree(r)
  /\ admin' = [admin EXCEPT ![a] =
                 [row |-> r, target |-> target, seen |-> reservations[r].status]]
  /\ UNCHANGED <<enabled, reservations, recent, requests, lock>>

TransitionStatus(a) ==
  LET r == admin[a].row  target == admin[a].target  row == reservations[r] IN
  /\ r # None
  /\ IF target \in RESERVATION_STATUS_TRANSITIONS[admin[a].seen]
       THEN reservations' = [reservations EXCEPT ![r] =
              [row EXCEPT !.status = target, !.stamps = row.stamps \cup {target}]]
       ELSE UNCHANGED reservations
  /\ admin' = [admin EXCEPT ![a].row = None]
  /\ UNCHANGED <<enabled, recent, requests, lock>>

-----------------------------------------------------------------------------
(* PATCH /me/locations/{id} with is_reservation_enabled. *)
UpdateLocation(l) ==
  /\ enabled' = IF l \in enabled THEN enabled \ {l} ELSE enabled \cup {l}
  /\ UNCHANGED <<reservations, recent, requests, lock, admin>>

(* Sixty minutes after created_at, which is when the transaction began and *)
(* not when the row became visible: rows leave the window in any order.    *)
LeaveWindow(r) ==
  /\ recent' = recent \ {r}
  /\ UNCHANGED <<enabled, reservations, requests, lock, admin>>

(* The single worker restarts: open transactions roll back, their locks go. *)
WorkerRestart ==
  /\ requests' = [c \in Requests |->
       IF requests[c].pc \in InFlight THEN [requests[c] EXCEPT !.pc = "lost"]
                                      ELSE requests[c]]
  /\ lock' = [pair \in Locations \X Digits |-> None]
  /\ admin' = [a \in Admins |-> [admin[a] EXCEPT !.row = None]]
  /\ UNCHANGED <<enabled, reservations, recent>>

-----------------------------------------------------------------------------
CreateStep(c) ==
  \/ FirstReplay(c) \/ TakeLock(c) \/ SecondReplay(c) \/ CountCreated(c)
  \/ CountActive(c) \/ InsertReservation(c) \/ ThirdReplay(c)

Next ==
  \/ \E c \in Requests : CreateStep(c) \/ \E form \in Form : Arrive(c, form)
  \/ \E a \in Admins :
       \/ \E r \in Rows, target \in _STATUS_TIMESTAMP_FIELDS : LockReservation(a, r, target)
       \/ TransitionStatus(a)
  \/ \E l \in Locations : UpdateLocation(l)
  \/ \E r \in recent : LeaveWindow(r)
  \/ WorkerRestart

Spec == Init /\ [][Next]_vars

(* A request that started runs on; PostgreSQL grants an advisory lock in   *)
(* the order it was asked for, hence strong fairness.                      *)
FairSpec == Spec /\ \A c \in Requests : SF_vars(CreateStep(c))

-----------------------------------------------------------------------------
(* Safety. *)

GuestRows(pair) ==
  {c \in Requests : /\ c \in RowsOf(pair) /\ IsGuest(reservations[c].form)}

(* MC-07: for each location and phone, guests never hold more than         *)
(* MaxActive active reservations nor made more than MaxCreated in the last *)
(* hour, however many of their requests run in parallel and whatever an    *)
(* admin does between their counts and their INSERT.                       *)
GuestLimits ==
  \A pair \in Locations \X Digits :
    /\ Cardinality(GuestRows(pair) \cap recent) <= MaxCreated
    /\ Cardinality(GuestRows(pair) \cap ActiveRows) <= MaxActive

(* Requests accepted for the same location and key were given the same     *)
(* reservation, asked for the same thing, and it is the one stored.        *)
IdempotentReplay ==
  \A c, d \in Requests :
    /\ requests[c].pc \in Accepted /\ requests[d].pc \in Accepted
    /\ requests[c].form.location = requests[d].form.location
    /\ requests[c].form.key = requests[d].form.key /\ requests[c].form.key # None
    => /\ requests[c].result = requests[d].result
       /\ reservations[requests[c].result].form = requests[c].form
       /\ requests[d].form = requests[c].form

(* A repeated request is not refused for the flag or the limits: when it   *)
(* is, no reservation with its key and its fields exists, also when it     *)
(* raced its twin for the lock.                                            *)
RetryNotRefused ==
  [][\A c \in Requests :
       requests[c].pc \in InFlight /\ requests'[c].pc \in Refused \ {"conflict"} =>
         \A r \in KeyRows(requests[c].form) :
           reservations[r].form # requests[c].form]_vars

(* The timestamps tell the history the status graph allows: at most one    *)
(* end, the one in status, and none after a seating but its completion; a  *)
(* reservation made by a request has been confirmed before it is seated,   *)
(* completed or missed (an old row may stand confirmed without a stamp).   *)
(* Two admins who decide at the same time do not both get their way.       *)
StampsTellHistory ==
  \A r \in Rows : LET row == reservations[r] IN
    /\ row.stamps \cap Terminal \subseteq {row.status}
    /\ "seated" \in row.stamps => row.status \in {"seated", "completed"}
    /\ r \in Requests /\ row.status \in _STATUS_TIMESTAMP_FIELDS => row.status \in row.stamps
    /\ r \in Requests /\ row.stamps \cap {"seated", "completed", "no_show"} # {} =>
         "confirmed" \in row.stamps

-----------------------------------------------------------------------------
(* Liveness: a request is answered, or dies with the worker; whoever ends, *)
(* created or refused, gives the advisory lock back.                       *)
RequestsAnswered ==
  \A c \in Requests : requests[c].pc \in InFlight ~> requests[c].pc \notin InFlight

=============================================================================
