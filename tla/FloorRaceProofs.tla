-------------------------- MODULE FloorRaceProofs --------------------------
(***************************************************************************)
(* More theorems about Floor: what checks that commit later leave behind.  *)
(* Bots are not shared between restaurants, a cached bot is the location's *)
(* bot and a QR code finds its table, up to what the property names: two   *)
(* requests in progress at one time, or one that failed after its commit.  *)
(***************************************************************************)
EXTENDS FloorProofs

-----------------------------------------------------------------------------
(* Requests *)

(* A request that has committed what it does.                              *)
Acted(q) == req[q].pc \in {"after", "done", "failed"}

(* Another request that overlapped q has done one of S; two that           *)
(* overlapped have done one of S and one of T.                             *)
Met(q, S) == \E p \in Requests : p # q /\ {p, q} \in overlap /\ Acted(p) /\ req[p].op \in S
Excused(S, T) == \E p, q \in Requests : /\ p # q /\ {p, q} \in overlap
                                        /\ Acted(p) /\ Acted(q)
                                        /\ req[p].op \in S /\ req[q].op \in T

LEMMA ExcusedOverlap == \A S, T : Excused(S, T) => Overlapping(S, T)
BY DEF Excused, Overlapping

LEMMA BeginTurns ==
  ASSUME NEW q \in Requests, TenancyBegin(q) \/ FloorBegin(q)
  PROVE  /\ req[q].pc = "idle"
         /\ \E pc, op, seen : To(q, pc, op, seen)
<1>1. ASSUME TenancyBegin(q) PROVE \E pc, op, seen : To(q, pc, op, seen)
  BY <1>1 DEF TenancyBegin, Login, Logout, CreateAgency, UpdateAgency, FreezeRestaurant,
              DeleteRestaurant, TransferRestaurant, CreateRestaurantBegin, UpdateRestaurantBegin,
              CreateLocation, UpdateLocation, DeleteLocationBegin, ReadLocation, Spend, Begin
<1>2. ASSUME FloorBegin(q) PROVE \E pc, op, seen : To(q, pc, op, seen)
  BY <1>2 DEF FloorBegin, CreateTableBegin, DeleteTable, CreateWaiterCallBegin, UpdateStatusBegin,
              Spend, Begin
<1>3. QED
  BY <1>1, <1>2 DEF TenancyBegin, FloorBegin

LEMMA StepTurns ==
  ASSUME NEW q \in Requests, TenancyStep(q) \/ FloorStep(q)
  PROVE  \/ req[q].pc \in {"commit", "after"} /\ Finish(q)
         \/ req[q].pc = "after" /\ UpdateRestaurantFails(q)
         \/ UpdateRestaurantCommit(q)
BY DEF TenancyStep, FloorStep, CreateRestaurantCommit, UpdateRestaurantInvalidate,
       UpdateRestaurantFails,
       DeleteRestaurantInvalidate, DeleteLocationCommit, GetLocationBot, CreateTableCommit,
       CreateWaiterCallCommit, UpdateStatusCommit, At

(* Whose step it is. *)
LEMMA Turns ==
  ASSUME [Next]_vars
  PROVE  \/ UNCHANGED <<req, overlap>>
         \/ Restart
         \/ \E q \in Requests : TenancyBegin(q) \/ FloorBegin(q) \/ TenancyStep(q) \/ FloorStep(q)
BY DEF Next, TenancyNext, FloorNext, Tick, vars, tenancyVars, requestVars

LEMMA ToOthers ==
  ASSUME TypeInv, NEW q \in Requests, NEW pc, NEW op, NEW seen, To(q, pc, op, seen)
  PROVE  /\ req'[q] = [pc |-> pc, op |-> op, seen |-> seen]
         /\ req'[q].pc = pc /\ req'[q].op = op /\ req'[q].seen = seen
         /\ \A p \in Requests : p # q => req'[p] = req[p]
<1>1. req'[q] = [pc |-> pc, op |-> op, seen |-> seen]
  BY TypeParts DEF TypeInv, RequestsType, To
<1>2. req'[q].pc = pc /\ req'[q].op = op /\ req'[q].seen = seen
  BY <1>1
<1>3. QED
  BY <1>1, <1>2, TypeParts DEF TypeInv, RequestsType, To

(* What a request has done is not taken back. *)
LEMMA ActedStays ==
  ASSUME TypeInv, [Next]_vars, NEW q \in Requests, Acted(q)
  PROVE  Acted(q)' /\ req'[q].op = req[q].op
<1>1. CASE UNCHANGED <<req, overlap>>
  BY <1>1 DEF Acted
<1>2. CASE Restart
  BY <1>2 DEF Restart, Acted, Running
<1>3. ASSUME NEW p \in Requests,
             TenancyBegin(p) \/ FloorBegin(p) \/ TenancyStep(p) \/ FloorStep(p)
      PROVE  Acted(q)' /\ req'[q].op = req[q].op
  <2>1. PICK pc, op, seen : To(p, pc, op, seen)
    <3>1. CASE TenancyBegin(p) \/ FloorBegin(p)
      BY <3>1, BeginTurns
    <3>2. CASE TenancyStep(p) \/ FloorStep(p)
      BY <3>2, StepTurns DEF UpdateRestaurantCommit, UpdateRestaurantFails, Finish, Fail, Proceed
    <3>3. QED
      BY <1>3, <3>1, <3>2
  <2>2. CASE p # q
    BY <2>1, <2>2, ToOthers DEF Acted
  <2>3. CASE p = q
    <3>1. TenancyStep(q) \/ FloorStep(q)
      BY <1>3, <2>3, BeginTurns DEF Acted
    <3>2. Finish(q) \/ Fail(q)
      BY <3>1, StepTurns DEF UpdateRestaurantCommit, UpdateRestaurantFails, At, Acted
    <3>3. To(q, "done", req[q].op, None) \/ To(q, "failed", req[q].op, req[q].seen)
      BY <3>2 DEF Finish, Fail
    <3>4. ASSUME NEW end \in {"done", "failed"}, NEW kept, To(q, end, req[q].op, kept)
          PROVE  Acted(q)' /\ req'[q].op = req[q].op
      <4>1. req'[q].pc = end /\ req'[q].op = req[q].op
        BY <3>4, ToOthers
      <4>2. QED
        BY <4>1 DEF Acted
    <3>5. QED
      BY <3>3, <3>4
  <2>4. QED
    BY <2>2, <2>3
<1>4. QED
  BY <1>1, <1>2, <1>3, Turns

LEMMA MetStays ==
  ASSUME TypeInv, [Next]_vars, NEW q \in Requests, NEW S, Met(q, S)
  PROVE  Met(q, S)'
<1>1. PICK p \in Requests : p # q /\ {p, q} \in overlap /\ Acted(p) /\ req[p].op \in S
  BY DEF Met
<1>2. Acted(p)' /\ req'[p].op = req[p].op
  BY <1>1, ActedStays
<1>3. {p, q} \in overlap'
  BY <1>1, FrameStep DEF Frame
<1>4. QED
  BY <1>1, <1>2, <1>3 DEF Met

LEMMA ExcusedStays ==
  ASSUME TypeInv, [Next]_vars, NEW S, NEW T, Excused(S, T)
  PROVE  Excused(S, T)'
<1>1. PICK p, q \in Requests : /\ p # q /\ {p, q} \in overlap
                               /\ Acted(p) /\ Acted(q)
                               /\ req[p].op \in S /\ req[q].op \in T
  BY DEF Excused
<1>2. Acted(p)' /\ req'[p].op = req[p].op /\ Acted(q)' /\ req'[q].op = req[q].op
  BY <1>1, ActedStays
<1>3. {p, q} \in overlap'
  BY <1>1, FrameStep DEF Frame
<1>4. QED
  BY <1>1, <1>2, <1>3 DEF Excused

(* How a request comes to be waiting for its commit. *)
LEMMA BeginIs ==
  ASSUME TypeInv, NEW q \in Requests, NEW op, NEW seen, Begin(q, op, seen)
  PROVE  req'[q].op = op /\ req'[q].seen = seen
BY ToOthers DEF Begin

LEMMA ProceedIs ==
  ASSUME TypeInv, NEW q \in Requests, Proceed(q)
  PROVE  req'[q].pc = "after" /\ req'[q].op = req[q].op /\ req'[q].seen = req[q].seen
BY ToOthers DEF Proceed

LEMMA OthersStay ==
  ASSUME TypeInv, NEW q \in Requests, NEW p \in Requests, p # q,
         TenancyBegin(p) \/ FloorBegin(p) \/ TenancyStep(p) \/ FloorStep(p)
  PROVE  req'[q] = req[q]
<1>1. PICK pc, op, seen : To(p, pc, op, seen)
  <2>1. CASE TenancyBegin(p) \/ FloorBegin(p)
    BY <2>1, BeginTurns
  <2>2. CASE TenancyStep(p) \/ FloorStep(p)
    BY <2>2, StepTurns DEF UpdateRestaurantCommit, UpdateRestaurantFails, Finish, Fail, Proceed
  <2>3. QED
    BY <2>1, <2>2
<1>2. QED
  BY <1>1, ToOthers

BegunAs(q) ==
  \/ \E a \in Agencies, slug \in Slugs, bot \in Bots \cup {None} :
       /\ CreateRestaurantBegin(q, a, slug, bot)
       /\ req'[q].op = <<"create_restaurant", a, slug, bot>>
  \/ \E r \in Restaurants, bot \in Bots :
       UpdateRestaurantBegin(q, r, bot) /\ req'[q].op = <<"update_restaurant", r, bot>>
  \/ \E r \in Restaurants, l \in Locations :
       DeleteLocationBegin(q, r, l) /\ req'[q].op = <<"delete_location", l>>
  \/ \E l \in Locations : ReadLocation(q, l) /\ req'[q].op = <<"get_location_bot", l>>
  \/ \E r \in Restaurants, l \in Locations, n \in Numbers :
       CreateTableBegin(q, r, n) /\ l \in LocationsOf(r) /\ req'[q].op = <<"create_table", l, n>>
  \/ \E t \in Tables : CreateWaiterCallBegin(q, t) /\ req'[q].op = <<"create_waiter_call", t>>
  \/ \E r \in Restaurants, c \in Calls, status \in CallStatuses :
       UpdateStatusBegin(q, r, c, status) /\ req'[q].op = <<"update_status", c, status>>

LEMMA BeginnersAs ==
  ASSUME TypeInv, NEW q \in Requests
  PROVE  /\ \A a \in Agencies, slug \in Slugs, bot \in Bots \cup {None} :
              CreateRestaurantBegin(q, a, slug, bot) => BegunAs(q)
         /\ \A r \in Restaurants, bot \in Bots : UpdateRestaurantBegin(q, r, bot) => BegunAs(q)
         /\ \A r \in Restaurants, l \in Locations : DeleteLocationBegin(q, r, l) => BegunAs(q)
         /\ \A l \in Locations : ReadLocation(q, l) => BegunAs(q)
         /\ \A r \in Restaurants, n \in Numbers : CreateTableBegin(q, r, n) => BegunAs(q)
         /\ \A t \in Tables : CreateWaiterCallBegin(q, t) => BegunAs(q)
         /\ \A r \in Restaurants, c \in Calls, status \in CallStatuses :
              UpdateStatusBegin(q, r, c, status) => BegunAs(q)
<1>1. ASSUME NEW a \in Agencies, NEW slug \in Slugs, NEW bot \in Bots \cup {None},
             CreateRestaurantBegin(q, a, slug, bot)
      PROVE  BegunAs(q)
  BY <1>1, BeginIs DEF CreateRestaurantBegin, BegunAs
<1>2. ASSUME NEW r \in Restaurants, NEW bot \in Bots, UpdateRestaurantBegin(q, r, bot)
      PROVE  BegunAs(q)
  BY <1>2, BeginIs DEF UpdateRestaurantBegin, BegunAs
<1>3. ASSUME NEW r \in Restaurants, NEW l \in Locations, DeleteLocationBegin(q, r, l)
      PROVE  BegunAs(q)
  BY <1>3, BeginIs DEF DeleteLocationBegin, BegunAs
<1>4. ASSUME NEW l \in Locations, ReadLocation(q, l) PROVE BegunAs(q)
  BY <1>4, BeginIs DEF ReadLocation, BegunAs
<1>5. ASSUME NEW r \in Restaurants, NEW n \in Numbers, CreateTableBegin(q, r, n) PROVE BegunAs(q)
  <2>1. PICK l \in LocationsOf(r) : Begin(q, <<"create_table", l, n>>, None)
    BY <1>5 DEF CreateTableBegin
  <2>2. l \in Locations /\ req'[q].op = <<"create_table", l, n>>
    BY <2>1, BeginIs DEF LocationsOf
  <2>3. QED
    BY <1>5, <2>1, <2>2 DEF BegunAs
<1>6. ASSUME NEW t \in Tables, CreateWaiterCallBegin(q, t) PROVE BegunAs(q)
  BY <1>6, BeginIs DEF CreateWaiterCallBegin, BegunAs
<1>7. ASSUME NEW r \in Restaurants, NEW c \in Calls, NEW status \in CallStatuses,
             UpdateStatusBegin(q, r, c, status)
      PROVE  BegunAs(q)
  BY <1>7, BeginIs DEF UpdateStatusBegin, BegunAs
<1>8. QED
  BY <1>1, <1>2, <1>3, <1>4, <1>5, <1>6, <1>7

LEMMA Begun ==
  ASSUME TypeInv, [Next]_vars, NEW q \in Requests, req'[q].pc = "commit"
  PROVE  req'[q] = req[q] \/ (req[q].pc = "idle" /\ BegunAs(q))
<1>1. CASE UNCHANGED <<req, overlap>>
  BY <1>1
<1>2. CASE Restart
  BY <1>2 DEF Restart, Running
<1>3. CASE TenancyStep(q) \/ FloorStep(q)
  <2>1. PICK pc \in {"done", "failed", "after"} : \E op, seen : To(q, pc, op, seen)
    BY <1>3, StepTurns DEF UpdateRestaurantCommit, UpdateRestaurantFails, Finish, Fail, Proceed
  <2>2. req'[q].pc \in {"done", "failed", "after"}
    BY <2>1, ToOthers
  <2>3. QED
    BY <2>2
<1>4. ASSUME \/ Spend(q)
             \/ \E r \in Restaurants : DeleteRestaurant(q, r)
      PROVE  FALSE
  <2>1. PICK pc, op, seen : pc # "commit" /\ To(q, pc, op, seen)
    BY <1>4 DEF Spend, DeleteRestaurant
  <2>2. req'[q].pc = pc
    BY <2>1, ToOthers
  <2>3. QED
    BY <2>1, <2>2
<1>5. CASE TenancyBegin(q)
  BY <1>4, <1>5, BeginnersAs
     DEF TenancyBegin, Login, Logout, CreateAgency, UpdateAgency, FreezeRestaurant,
         TransferRestaurant, CreateLocation, UpdateLocation
<1>6. CASE FloorBegin(q)
  BY <1>4, <1>6, BeginnersAs DEF FloorBegin, DeleteTable
<1>7. QED
  BY <1>1, <1>2, <1>3, <1>5, <1>6, OthersStay, Turns

(* How a request comes to have work after its commit, and when it does it. *)
LEMMA Continued ==
  ASSUME TypeInv, [Next]_vars, NEW q \in Requests, req'[q].pc = "after"
  PROVE  \/ req'[q] = req[q]
         \/ UpdateRestaurantCommit(q)
         \/ req'[q].op[1] = "delete_restaurant"
<1>1. CASE UNCHANGED <<req, overlap>>
  BY <1>1
<1>2. CASE Restart
  BY <1>2 DEF Restart, Running
<1>3. CASE TenancyStep(q) \/ FloorStep(q)
  <2>1. \/ UpdateRestaurantCommit(q)
        \/ To(q, "done", req[q].op, None)
        \/ To(q, "failed", req[q].op, req[q].seen)
    BY <1>3, StepTurns DEF UpdateRestaurantFails, Finish, Fail
  <2>2. /\ To(q, "done", req[q].op, None) => req'[q].pc = "done"
        /\ To(q, "failed", req[q].op, req[q].seen) => req'[q].pc = "failed"
    BY ToOthers
  <2>3. QED
    BY <2>1, <2>2
<1>4. ASSUME TenancyBegin(q) \/ FloorBegin(q), ~ \E r \in Restaurants : DeleteRestaurant(q, r)
      PROVE  FALSE
  <2>1. PICK pc, op, seen : pc # "after" /\ To(q, pc, op, seen)
    <3>1. CASE TenancyBegin(q)
      BY <1>4, <3>1
         DEF TenancyBegin, Login, Logout, CreateAgency, UpdateAgency, FreezeRestaurant,
             TransferRestaurant, CreateRestaurantBegin, UpdateRestaurantBegin, CreateLocation,
             UpdateLocation, DeleteLocationBegin, ReadLocation, Spend, Begin
    <3>2. CASE FloorBegin(q)
      BY <3>2 DEF FloorBegin, CreateTableBegin, DeleteTable, CreateWaiterCallBegin,
                  UpdateStatusBegin, Spend, Begin
    <3>3. QED
      BY <1>4, <3>1, <3>2
  <2>2. req'[q].pc = pc
    BY <2>1, ToOthers
  <2>3. QED
    BY <2>1, <2>2
<1>5. ASSUME NEW r \in Restaurants, DeleteRestaurant(q, r) PROVE req'[q].op[1] = "delete_restaurant"
  <2>1. req'[q] = [pc |-> "after", op |-> <<"delete_restaurant", r>>, seen |-> None]
    BY <1>5, TypeParts DEF TypeInv, RequestsType, DeleteRestaurant, To
  <2>2. QED
    BY <2>1
<1>6. QED
  BY <1>1, <1>2, <1>3, <1>4, <1>5, OthersStay, Turns

LEMMA AfterStays ==
  ASSUME TypeInv, [Next]_vars, NEW q \in Requests, At(q, "after", "update_restaurant")
  PROVE  req'[q] = req[q] \/ UpdateRestaurantInvalidate(q) \/ UpdateRestaurantFails(q) \/ Restart
<1>1. CASE TenancyStep(q) \/ FloorStep(q)
  BY <1>1 DEF TenancyStep, FloorStep, CreateRestaurantCommit, UpdateRestaurantCommit,
              DeleteRestaurantInvalidate, DeleteLocationCommit, GetLocationBot, CreateTableCommit,
              CreateWaiterCallCommit, UpdateStatusCommit, At
<1>2. ~ (TenancyBegin(q) \/ FloorBegin(q))
  BY BeginTurns DEF At
<1>3. QED
  BY <1>1, <1>2, OthersStay, Turns

(* A commit, and what it means to the others that wait for theirs.         *)
Commits(q) == req[q].pc = "commit" /\ (Finish(q) \/ Proceed(q))

LEMMA CommitActs ==
  ASSUME TypeInv, NEW q \in Requests, Commits(q)
  PROVE  Acted(q)' /\ req'[q].op = req[q].op
<1>1. To(q, "done", req[q].op, None) \/ To(q, "after", req[q].op, req[q].seen)
  BY DEF Commits, Finish, Proceed
<1>2. req'[q].pc \in {"after", "done"} /\ req'[q].op = req[q].op
  BY <1>1, ToOthers
<1>3. QED
  BY <1>2 DEF Acted

LEMMA CommitMeets ==
  ASSUME TypeInv, [Next]_vars, RunPairs, NEW S, NEW p \in Requests, Commits(p), req[p].op \in S,
         NEW q \in Requests, req[q].pc = "commit", req'[q].pc = "commit"
  PROVE  Met(q, S)'
<1>1. Acted(p)' /\ req'[p].op = req[p].op
  BY CommitActs
<1>2. p # q
  BY <1>1 DEF Acted
<1>3. {p, q} \in overlap
  BY <1>2 DEF RunPairs, Running, Commits
<1>4. {p, q} \in overlap'
  BY <1>3, FrameStep DEF Frame
<1>5. QED
  BY <1>1, <1>2, <1>4 DEF Met

LEMMA CommitExcused ==
  ASSUME TypeInv, [Next]_vars, NEW S, NEW T, NEW q \in Requests, Commits(q), req[q].op \in T,
         Met(q, S)
  PROVE  Excused(S, T)'
<1>1. Acted(q)' /\ req'[q].op = req[q].op
  BY CommitActs
<1>2. Met(q, S)'
  BY MetStays
<1>3. QED
  BY <1>1, <1>2 DEF Met, Excused

-----------------------------------------------------------------------------
(* Locations *)

(* q gives location l a bot.                                               *)
GivesBot(q, l, bot) ==
  \/ UpdateRestaurantCommit(q) /\ l \in Rows /\ req[q].seen = l /\ req[q].op[3] = bot
  \/ CreateRestaurantCommit(q) /\ l \notin Rows /\ req[q].op[4] = bot

(* A step writes at most one location: its restaurant stays, its slug is   *)
(* new among all, its bot is given to it by a request.                     *)
Writes(l, row) ==
  /\ locations' = [locations EXCEPT ![l] = row]
  /\ l \in Rows => row.restaurant = locations[l].restaurant
  /\ \/ l \in Rows /\ row.slug = locations[l].slug
     \/ \A k \in Rows : k # l => locations[k].slug # row.slug
  /\ \/ l \in Rows /\ row.bot = locations[l].bot
     \/ l \notin Rows /\ row.bot = None
     \/ \E q \in Requests : GivesBot(q, l, row.bot)

OneWritten == \/ locations' = locations
              \/ \E l \in Locations, row \in LocationRow : Writes(l, row)

LEMMA CreateRestaurantWrites ==
  ASSUME TypeInv, NEW q \in Requests, CreateRestaurantCommit(q) PROVE OneWritten
<1>1. SUFFICES ASSUME ~ UNCHANGED <<restaurants, locations>> PROVE OneWritten
  BY DEF OneWritten
<1>2. PICK r \in Restaurants, l \in Locations :
        /\ \A k \in Locations : locations[k] # None => locations[k].slug # req[q].op[3]
        /\ l = First({k \in Locations : locations[k] = None})
        /\ locations' = [locations EXCEPT ![l] =
             [restaurant |-> r, slug |-> req[q].op[3], active |-> TRUE, bot |-> req[q].op[4],
              waiter |-> FALSE]]
  BY <1>1 DEF CreateRestaurantCommit
<1>3. l \notin Rows
  BY <1>2, NewLocation
<1>4. req[q].op[3] \in Slugs /\ req[q].op[4] \in Bots \cup {None}
  BY AtParts, OperationParts DEF CreateRestaurantCommit, Fits
<1>5. PICK row : row = [restaurant |-> r, slug |-> req[q].op[3], active |-> TRUE,
                        bot |-> req[q].op[4], waiter |-> FALSE]
  OBVIOUS
<1>6. row \in LocationRow
  BY <1>4, <1>5 DEF LocationRow
<1>7. row.slug = req[q].op[3] /\ row.bot = req[q].op[4]
  BY <1>5
<1>8. locations' = [locations EXCEPT ![l] = row]
  BY <1>2, <1>5
<1>9. GivesBot(q, l, row.bot)
  BY <1>3, <1>7 DEF GivesBot
<1>10. \A k \in Rows : k # l => locations[k].slug # row.slug
  BY <1>2, <1>7 DEF Rows
<1>11. Writes(l, row)
  BY <1>3, <1>8, <1>9, <1>10 DEF Writes
<1>12. QED
  BY <1>6, <1>11 DEF OneWritten

LEMMA UpdateRestaurantWrites ==
  ASSUME TypeInv, NEW q \in Requests, UpdateRestaurantCommit(q) PROVE OneWritten
<1>0. locations \in [Locations -> LocationRow \cup {None}]
  BY TypeParts DEF TypeInv, RowsType
<1>1. locations' = [k \in Locations |->
                      IF k = req[q].seen THEN [locations[k] EXCEPT !.bot = req[q].op[3]]
                      ELSE locations[k]]
  BY DEF UpdateRestaurantCommit
<1>2. req[q].seen \in Rows \cup {None} /\ req[q].op[3] \in Bots
  BY AtParts, OperationParts DEF UpdateRestaurantCommit, Fits
<1>3. CASE req[q].seen = None
  <2>1. \A k \in Locations : k # None
    BY TenancyAssumption
  <2>2. locations' = [k \in Locations |-> locations[k]]
    BY <1>1, <1>3, <2>1
  <2>3. QED
    BY <1>0, <2>2 DEF OneWritten
<1>4. CASE req[q].seen \in Rows
  <2>1. PICK l \in Locations : l = req[q].seen /\ l \in Rows
    BY <1>4 DEF Rows
  <2>2. PICK row : row = [locations[l] EXCEPT !.bot = req[q].op[3]]
    OBVIOUS
  <2>3. locations[l] \in LocationRow
    BY <1>0, <2>1 DEF Rows
  <2>4. row \in LocationRow
    BY <1>2, <2>2, <2>3 DEF LocationRow
  <2>5. /\ row.restaurant = locations[l].restaurant /\ row.slug = locations[l].slug
        /\ row.bot = req[q].op[3]
    BY <2>2, <2>3 DEF LocationRow
  <2>6. locations' = [locations EXCEPT ![l] = row]
    BY <1>0, <1>1, <2>1, <2>2
  <2>7. GivesBot(q, l, row.bot)
    BY <2>1, <2>5 DEF GivesBot
  <2>8. Writes(l, row)
    BY <2>1, <2>5, <2>6, <2>7 DEF Writes
  <2>9. QED
    BY <2>4, <2>8 DEF OneWritten
<1>5. QED
  BY <1>2, <1>3, <1>4

LEMMA CreateLocationWrites ==
  ASSUME TypeInv, NEW q \in Requests, NEW r \in Restaurants, NEW slug \in Slugs,
         CreateLocation(q, r, slug)
  PROVE  OneWritten
<1>1. PICK l \in Locations, waiter \in BOOLEAN :
        /\ l = First({k \in Locations : locations[k] = None})
        /\ locations' = [locations EXCEPT ![l] =
             [restaurant |-> r, slug |-> slug, active |-> TRUE, bot |-> None, waiter |-> waiter]]
  BY DEF CreateLocation
<1>2. l \notin Rows
  BY <1>1, NewLocation
<1>3. PICK row : row = [restaurant |-> r, slug |-> slug, active |-> TRUE, bot |-> None,
                        waiter |-> waiter]
  OBVIOUS
<1>4. row \in LocationRow /\ row.slug = slug /\ row.bot = None
  BY <1>3 DEF LocationRow
<1>5. \A k \in Rows : k # None
  BY TenancyAssumption DEF Rows
<1>6. \A k \in Rows : locations[k].slug # slug
  BY <1>5 DEF CreateLocation, SlugFree, Rows
<1>7. Writes(l, row)
  BY <1>1, <1>2, <1>3, <1>4, <1>6 DEF Writes
<1>8. QED
  BY <1>4, <1>7 DEF OneWritten

LEMMA UpdateLocationWrites ==
  ASSUME TypeInv, NEW q \in Requests, NEW r \in Restaurants, NEW l \in Locations,
         UpdateLocation(q, r, l)
  PROVE  OneWritten
<1>0. l \in Rows
  BY DEF UpdateLocation, LocationsOf, Rows
<1>1. locations[l] \in LocationRow
  BY <1>0, TypeParts DEF TypeInv, RowsType, Rows
<1>2. CASE \E slug \in Slugs : SlugFree(slug, l) /\ locations' = [locations EXCEPT ![l].slug = slug]
  <2>1. PICK slug \in Slugs : /\ SlugFree(slug, l)
                              /\ locations' = [locations EXCEPT ![l] = [locations[l] EXCEPT !.slug = slug]]
    BY <1>2
  <2>2. PICK row : row = [locations[l] EXCEPT !.slug = slug]
    OBVIOUS
  <2>3. /\ row \in LocationRow
        /\ row.restaurant = locations[l].restaurant /\ row.slug = slug /\ row.bot = locations[l].bot
    BY <1>1, <2>2 DEF LocationRow
  <2>4. \A k \in Rows : k # l => locations[k].slug # slug
    BY <2>1 DEF SlugFree, Rows
  <2>5. Writes(l, row)
    BY <1>0, <2>1, <2>2, <2>3, <2>4 DEF Writes
  <2>6. QED
    BY <2>3, <2>5 DEF OneWritten
<1>3. CASE \E waiter \in BOOLEAN : locations' = [locations EXCEPT ![l].waiter = waiter]
  <2>1. PICK waiter \in BOOLEAN :
          locations' = [locations EXCEPT ![l] = [locations[l] EXCEPT !.waiter = waiter]]
    BY <1>3
  <2>2. PICK row : row = [locations[l] EXCEPT !.waiter = waiter]
    OBVIOUS
  <2>3. /\ row \in LocationRow /\ row.restaurant = locations[l].restaurant
        /\ row.slug = locations[l].slug /\ row.bot = locations[l].bot
    BY <1>1, <2>2 DEF LocationRow
  <2>4. Writes(l, row)
    BY <1>0, <2>1, <2>2, <2>3 DEF Writes
  <2>5. QED
    BY <2>3, <2>4 DEF OneWritten
<1>4. QED
  BY <1>2, <1>3 DEF UpdateLocation

LEMMA DeleteLocationWrites ==
  ASSUME TypeInv, NEW q \in Requests, DeleteLocationCommit(q) PROVE OneWritten
<1>0. PICK l \in Locations : l = req[q].op[2] /\ l \in Rows
  BY AtParts, OperationParts DEF DeleteLocationCommit, Fits
<1>1. locations[l] \in LocationRow
  BY <1>0, TypeParts DEF TypeInv, RowsType, Rows
<1>2. locations' = [locations EXCEPT ![l] = [locations[l] EXCEPT !.active = FALSE]]
  BY <1>0 DEF DeleteLocationCommit
<1>3. PICK row : row = [locations[l] EXCEPT !.active = FALSE]
  OBVIOUS
<1>4. /\ row \in LocationRow /\ row.restaurant = locations[l].restaurant
      /\ row.slug = locations[l].slug /\ row.bot = locations[l].bot
  BY <1>1, <1>3 DEF LocationRow
<1>5. Writes(l, row)
  BY <1>0, <1>2, <1>3, <1>4 DEF Writes
<1>6. QED
  BY <1>4, <1>5 DEF OneWritten

LEMMA OneWrittenStep == ASSUME TypeInv, [Next]_vars PROVE OneWritten
<1>0. CASE UNCHANGED locations
  BY <1>0 DEF OneWritten
<1>1. ASSUME NEW q \in Requests, TenancyBegin(q) PROVE OneWritten
  BY <1>0, <1>1, CreateLocationWrites, UpdateLocationWrites
     DEF TenancyBegin, Login, Logout, CreateAgency, UpdateAgency, FreezeRestaurant, DeleteRestaurant,
         TransferRestaurant, CreateRestaurantBegin, UpdateRestaurantBegin, DeleteLocationBegin,
         ReadLocation, rowVars
<1>2. ASSUME NEW q \in Requests, TenancyStep(q) PROVE OneWritten
  BY <1>0, <1>2, CreateRestaurantWrites, UpdateRestaurantWrites, DeleteLocationWrites
     DEF TenancyStep, UpdateRestaurantInvalidate, UpdateRestaurantFails,
         DeleteRestaurantInvalidate, GetLocationBot, rowVars
<1>3. ASSUME NEW q \in Requests, FloorBegin(q) \/ FloorStep(q) PROVE UNCHANGED locations
  BY <1>3 DEF FloorBegin, CreateTableBegin, DeleteTable, CreateWaiterCallBegin, UpdateStatusBegin,
              FloorStep, CreateTableCommit, CreateWaiterCallCommit, UpdateStatusCommit,
              unchangedTenancy, rowVars
<1>4. CASE Restart \/ Tick
  BY <1>0, <1>4 DEF Restart, Tick, rowVars
<1>5. CASE UNCHANGED vars
  BY <1>0, <1>5 DEF vars, tenancyVars, rowVars
<1>6. QED
  BY <1>0, <1>1, <1>2, <1>3, <1>4, <1>5 DEF Next, TenancyNext, FloorNext

(* What becomes of the rows there are, and where a bot comes from. *)
LEMMA RowStays ==
  ASSUME TypeInv, [Next]_vars, NEW l \in Rows
  PROVE  l \in Rows' /\ locations'[l].restaurant = locations[l].restaurant
<1>0. l \in Locations /\ RowsType
  BY TypeParts DEF TypeInv, Rows
<1>1. l \in Rows'
  BY RowsStep
<1>2. CASE locations' = locations
  BY <1>1, <1>2
<1>3. ASSUME NEW k \in Locations, NEW row \in LocationRow, Writes(k, row)
      PROVE  locations'[l].restaurant = locations[l].restaurant
  <2>1. locations'[l] = IF l = k THEN row ELSE locations[l]
    BY <1>0, <1>3 DEF Writes, RowsType
  <2>2. QED
    BY <1>3, <2>1 DEF Writes
<1>4. QED
  BY <1>1, <1>2, <1>3, OneWrittenStep DEF OneWritten

LEMMA BotMoves ==
  ASSUME TypeInv, [Next]_vars, NEW l \in Rows'
  PROVE  \/ l \in Rows /\ locations'[l].bot = locations[l].bot
         \/ l \notin Rows /\ locations'[l].bot = None
         \/ \E q \in Requests : GivesBot(q, l, locations'[l].bot)
<1>0. l \in Locations /\ RowsType
  BY TypeParts DEF TypeInv, Rows
<1>1. CASE locations' = locations
  BY <1>1 DEF Rows
<1>2. ASSUME NEW k \in Locations, NEW row \in LocationRow, Writes(k, row)
      PROVE  \/ l \in Rows /\ locations'[l].bot = locations[l].bot
             \/ l \notin Rows /\ locations'[l].bot = None
             \/ \E q \in Requests : GivesBot(q, l, locations'[l].bot)
  <2>1. locations'[l] = IF l = k THEN row ELSE locations[l]
    BY <1>0, <1>2 DEF Writes, RowsType
  <2>2. CASE l = k
    BY <1>2, <2>1, <2>2 DEF Writes
  <2>3. CASE l # k
    <3>1. l \in Rows
      BY <1>0, <2>1, <2>3 DEF Rows
    <3>2. QED
      BY <2>1, <2>3, <3>1
  <2>4. QED
    BY <2>2, <2>3
<1>3. QED
  BY <1>1, <1>2, OneWrittenStep DEF OneWritten

-----------------------------------------------------------------------------
(* Bots *)

(* Requests that give a bot to a location. *)
Giving(bot) == ({"create_restaurant"} \X Agencies \X Slugs \X {bot})
               \cup ({"update_restaurant"} \X Restaurants \X {bot})

(* update_restaurant is about a location of its restaurant.                *)
Chosen ==
  \A q \in Requests : /\ req[q].pc \in {"commit", "after"} /\ req[q].op[1] = "update_restaurant"
                      /\ req[q].seen # None
                      => locations[req[q].seen].restaurant = req[q].op[2]

(* _bot_token_in_use judges l for what q is about to write. *)
Judged(q, l) == req[q].op[1] = "update_restaurant" => locations[l].restaurant # req[q].op[2]

(* Restaurants that share a bot were given it by requests that overlapped; *)
(* one that is about to give a bot in use overlapped the one that gave it. *)
BotInv ==
  /\ \A k, l \in Rows, bot \in Bots :
       /\ locations[k].bot = bot /\ locations[l].bot = bot
       /\ locations[k].restaurant # locations[l].restaurant
       => Excused(Giving(bot), Giving(bot))
  /\ \A q \in Requests, bot \in Bots, l \in Rows :
       /\ req[q].pc = "commit" /\ req[q].op \in Giving(bot)
       /\ locations[l].bot = bot /\ Judged(q, l)
       => Met(q, Giving(bot))

LEMMA PrimaryLocation ==
  ASSUME NEW r \in Restaurants, _get_primary_location(r) # None
  PROVE  _get_primary_location(r) \in LocationsOf(r)
<1>1. ActiveLocations(r) # {}
  BY DEF _get_primary_location, First
<1>2. ActiveLocations(r) \in SUBSET Locations
  BY DEF ActiveLocations, LocationsOf
<1>3. First(ActiveLocations(r)) \in ActiveLocations(r)
  BY <1>1, <1>2, FirstExists
<1>4. QED
  BY <1>3 DEF _get_primary_location, ActiveLocations

LEMMA ChosenStep == ASSUME TypeInv, Chosen, [Next]_vars PROVE Chosen'
<1> SUFFICES ASSUME NEW q \in Requests, req'[q].pc \in {"commit", "after"},
                    req'[q].op[1] = "update_restaurant", req'[q].seen # None
             PROVE  locations'[req'[q].seen].restaurant = req'[q].op[2]
  BY DEF Chosen
<1>1. ASSUME req[q].pc \in {"commit", "after"}, req'[q].op = req[q].op, req'[q].seen = req[q].seen
      PROVE  locations'[req'[q].seen].restaurant = req'[q].op[2]
  <2>1. locations[req[q].seen].restaurant = req[q].op[2]
    BY <1>1 DEF Chosen
  <2>2. req[q].seen \in Rows
    BY <1>1 DEF TypeInv, Ops, Fits
  <2>3. QED
    BY <1>1, <2>1, <2>2, RowStays
<1>2. CASE req'[q] = req[q]
  BY <1>1, <1>2
<1>3. CASE UpdateRestaurantCommit(q)
  <2>1. req[q].pc = "commit" /\ Proceed(q)
    BY <1>3 DEF UpdateRestaurantCommit, At
  <2>2. req'[q].op = req[q].op /\ req'[q].seen = req[q].seen
    BY <2>1, ProceedIs
  <2>3. QED
    BY <1>1, <2>1, <2>2
<1>4. CASE BegunAs(q)
  <2>1. PICK r \in Restaurants, bot \in Bots :
          UpdateRestaurantBegin(q, r, bot) /\ req'[q].op = <<"update_restaurant", r, bot>>
    BY <1>4 DEF BegunAs
  <2>2. PICK op, seen : Begin(q, op, seen) /\ seen = _get_primary_location(r)
    BY <2>1 DEF UpdateRestaurantBegin
  <2>3. req'[q].seen = _get_primary_location(r) /\ locations' = locations
    BY <2>1, <2>2, BeginIs DEF UpdateRestaurantBegin, rowVars
  <2>4. _get_primary_location(r) \in LocationsOf(r)
    BY <2>3, PrimaryLocation
  <2>5. QED
    BY <2>1, <2>3, <2>4 DEF LocationsOf
<1>5. QED
  BY <1>2, <1>3, <1>4, Begun, Continued

(* Who gives a bot is about to do so, to a location of its restaurant.     *)
LEMMA GiverCommits ==
  ASSUME TypeInv, Chosen, NEW q \in Requests, NEW l \in Locations, NEW bot \in Bots,
         GivesBot(q, l, bot)
  PROVE  /\ Commits(q) /\ req[q].op \in Giving(bot)
         /\ \/ req[q].op[1] = "create_restaurant" /\ l \notin Rows
            \/ /\ req[q].op \in {"update_restaurant"} \X {locations[l].restaurant} \X Bots
               /\ req[q].op[1] = "update_restaurant" /\ l \in Rows
               /\ req[q].op[2] = locations[l].restaurant
               /\ req'[q].pc = "after" /\ req'[q].op = req[q].op /\ req'[q].seen = l
<1>1. CASE UpdateRestaurantCommit(q) /\ l \in Rows /\ req[q].seen = l /\ req[q].op[3] = bot
  <2>1. /\ req[q].pc = "commit" /\ Proceed(q) /\ req[q].op[1] = "update_restaurant"
        /\ req[q].op \in Operation
    BY <1>1, AtParts DEF UpdateRestaurantCommit, Fits, At
  <2>2. l # None
    BY TenancyAssumption
  <2>3. req[q].op[2] = locations[l].restaurant
    BY <1>1, <2>1, <2>2 DEF Chosen
  <2>4. req[q].op = <<"update_restaurant", req[q].op[2], req[q].op[3]>> /\ req[q].op[2] \in Restaurants
    BY <2>1, OperationParts
  <2>5. req[q].op \in {"update_restaurant"} \X Restaurants \X {bot}
    BY <1>1, <2>4
  <2>6. req[q].op \in {"update_restaurant"} \X {locations[l].restaurant} \X Bots
    BY <1>1, <2>3, <2>4
  <2>7. To(q, "after", req[q].op, req[q].seen)
    BY <2>1 DEF Proceed
  <2>8. req'[q].pc = "after" /\ req'[q].op = req[q].op /\ req'[q].seen = l
    BY <1>1, <2>7, ToOthers
  <2>9. QED
    BY <1>1, <2>1, <2>3, <2>5, <2>6, <2>8 DEF Commits, Giving
<1>2. CASE CreateRestaurantCommit(q) /\ l \notin Rows /\ req[q].op[4] = bot
  <2>1. /\ req[q].pc = "commit" /\ Finish(q) /\ req[q].op[1] = "create_restaurant"
        /\ req[q].op \in Operation
    BY <1>2, AtParts DEF CreateRestaurantCommit, Fits, At
  <2>2. /\ req[q].op = <<"create_restaurant", req[q].op[2], req[q].op[3], req[q].op[4]>>
        /\ req[q].op[2] \in Agencies /\ req[q].op[3] \in Slugs
    BY <2>1, OperationParts
  <2>3. req[q].op \in {"create_restaurant"} \X Agencies \X Slugs \X {bot}
    BY <1>2, <2>2
  <2>4. QED
    BY <1>2, <2>1, <2>3 DEF Commits, Giving
<1>3. QED
  BY <1>1, <1>2 DEF GivesBot

(* A location given a bot that another restaurant has. *)
LEMMA SharedExcused ==
  ASSUME TypeInv, Chosen, BotInv, [Next]_vars, NEW bot \in Bots,
         NEW k \in Locations, NEW row \in LocationRow, Writes(k, row), row.bot = bot,
         NEW l \in Rows, locations[l].bot = bot, locations[l].restaurant # row.restaurant
  PROVE  Excused(Giving(bot), Giving(bot))'
<1>1. CASE k \in Rows /\ row.bot = locations[k].bot
  <2>1. Excused(Giving(bot), Giving(bot))
    BY <1>1 DEF Writes, BotInv
  <2>2. QED
    BY <2>1, ExcusedStays DEF Giving
<1>2. CASE \E q \in Requests : GivesBot(q, k, bot)
  <2>1. PICK q \in Requests : GivesBot(q, k, bot)
    BY <1>2
  <2>2. Commits(q) /\ req[q].op \in Giving(bot) /\ Judged(q, l)
    BY <2>1, GiverCommits DEF Writes, Judged
  <2>3. Met(q, Giving(bot))
    BY <2>2 DEF BotInv, Commits
  <2>4. QED
    BY <2>2, <2>3, CommitExcused DEF Giving
<1>3. row.bot # None
  BY TenancyAssumption
<1>4. QED
  BY <1>1, <1>2, <1>3 DEF Writes

LEMMA BotStep == ASSUME TypeInv, RunPairs, Chosen, BotInv, [Next]_vars PROVE BotInv'
<1>0. RowsType
  BY TypeParts DEF TypeInv
<1>1. ASSUME NEW bot \in Bots, NEW k \in Rows', NEW l \in Rows',
             locations'[k].bot = bot, locations'[l].bot = bot,
             locations'[k].restaurant # locations'[l].restaurant
      PROVE  Excused(Giving(bot), Giving(bot))'
  <2>1. CASE locations' = locations
    <3>1. Excused(Giving(bot), Giving(bot))
      BY <1>1, <2>1 DEF BotInv, Rows
    <3>2. QED
      BY <3>1, ExcusedStays DEF Giving
  <2>2. ASSUME NEW w \in Locations, NEW row \in LocationRow, Writes(w, row)
        PROVE  Excused(Giving(bot), Giving(bot))'
    <3>0. \A j \in Locations : locations'[j] = IF j = w THEN row ELSE locations[j]
      BY <1>0, <2>2 DEF Writes, RowsType
    <3>1. k \in Locations /\ l \in Locations /\ k # l
      BY <1>1 DEF Rows
    <3>2. CASE k = w
      <4>1. l \in Rows /\ locations'[l] = locations[l] /\ locations'[k] = row
        BY <3>0, <3>1, <3>2 DEF Rows
      <4>2. QED
        BY <1>1, <2>2, <3>2, <4>1, SharedExcused
    <3>3. CASE l = w
      <4>1. k \in Rows /\ locations'[k] = locations[k] /\ locations'[l] = row
        BY <3>0, <3>1, <3>3 DEF Rows
      <4>2. QED
        BY <1>1, <2>2, <3>3, <4>1, SharedExcused
    <3>4. CASE k # w /\ l # w
      <4>1. /\ k \in Rows /\ locations'[k] = locations[k]
            /\ l \in Rows /\ locations'[l] = locations[l]
        BY <3>0, <3>1, <3>4 DEF Rows
      <4>2. Excused(Giving(bot), Giving(bot))
        BY <1>1, <4>1 DEF BotInv
      <4>3. QED
        BY <4>2, ExcusedStays DEF Giving
    <3>5. QED
      BY <3>2, <3>3, <3>4
  <2>3. QED
    BY <2>1, <2>2, OneWrittenStep DEF OneWritten
<1>2. ASSUME NEW q \in Requests, NEW bot \in Bots, NEW l \in Rows',
             req'[q].pc = "commit", req'[q].op \in Giving(bot),
             locations'[l].bot = bot, Judged(q, l)'
      PROVE  Met(q, Giving(bot))'
  <2>0. l \in Locations /\ bot # None
    BY TenancyAssumption DEF Rows
  <2>1. CASE req'[q] = req[q]
    <3>1. CASE l \in Rows /\ locations'[l].bot = locations[l].bot
      <4>1. Judged(q, l)
        BY <1>2, <2>1, <3>1, RowStays DEF Judged
      <4>2. Met(q, Giving(bot))
        BY <1>2, <2>1, <3>1, <4>1 DEF BotInv
      <4>3. QED
        BY <4>2, MetStays DEF Giving
    <3>2. ASSUME NEW p \in Requests, GivesBot(p, l, bot) PROVE Met(q, Giving(bot))'
      <4>1. Commits(p) /\ req[p].op \in Giving(bot)
        BY <2>0, <3>2, GiverCommits
      <4>2. QED
        BY <1>2, <2>1, <4>1, CommitMeets DEF Giving
    <3>3. QED
      BY <1>2, <2>0, <3>1, <3>2, BotMoves
  <2>2. CASE BegunAs(q)
    <3>1. CASE \E a \in Agencies, slug \in Slugs, b \in Bots \cup {None} :
                 /\ CreateRestaurantBegin(q, a, slug, b)
                 /\ req'[q].op = <<"create_restaurant", a, slug, b>>
      <4>1. PICK a \in Agencies, slug \in Slugs, b \in Bots \cup {None} :
              /\ CreateRestaurantBegin(q, a, slug, b)
              /\ req'[q].op = <<"create_restaurant", a, slug, b>>
        BY <3>1
      <4>2. b = bot /\ locations' = locations
        BY <1>2, <4>1 DEF Giving, CreateRestaurantBegin, rowVars
      <4>3. ~ _bot_token_in_use(bot, None)
        BY <2>0, <4>1, <4>2 DEF CreateRestaurantBegin
      <4>4. l \in Rows /\ locations[l] \in LocationRow /\ locations[l].bot = bot
        BY <1>0, <1>2, <4>2 DEF Rows, RowsType
      <4>5. locations[l].restaurant # None
        BY <4>4, TenancyAssumption DEF LocationRow
      <4>6. QED
        BY <4>3, <4>4, <4>5 DEF _bot_token_in_use, Rows
    <3>2. CASE \E r \in Restaurants, b \in Bots :
                 /\ UpdateRestaurantBegin(q, r, b)
                 /\ req'[q].op = <<"update_restaurant", r, b>>
      <4>1. PICK r \in Restaurants, b \in Bots :
              UpdateRestaurantBegin(q, r, b) /\ req'[q].op = <<"update_restaurant", r, b>>
        BY <3>2
      <4>2. b = bot /\ locations' = locations
        BY <1>2, <4>1 DEF Giving, UpdateRestaurantBegin, rowVars
      <4>3. ~ _bot_token_in_use(bot, r)
        BY <4>1, <4>2 DEF UpdateRestaurantBegin
      <4>4. l \in Rows /\ locations[l].bot = bot
        BY <1>2, <4>2 DEF Rows
      <4>5. locations[l].restaurant # r
        BY <1>2, <4>1, <4>2 DEF Judged
      <4>6. QED
        BY <4>3, <4>4, <4>5 DEF _bot_token_in_use, Rows
    <3>3. QED
      BY <1>2, <2>2, <3>1, <3>2 DEF BegunAs, Giving
  <2>3. QED
    BY <1>2, <2>1, <2>2, Begun
<1>3. QED
  BY <1>1, <1>2 DEF BotInv

LEMMA BotInit == Init => RunPairs /\ Chosen /\ BotInv
<1> SUFFICES ASSUME Init PROVE RunPairs /\ Chosen /\ BotInv
  OBVIOUS
<1>1. \A q \in Requests : req[q].pc = "idle"
  BY DEF Init, TenancyInit, Idle
<1>2. locations = Existing.locations
  BY DEF Init, TenancyInit
<1>3. ASSUME NEW k \in Rows, NEW l \in Rows, NEW bot \in Bots,
             locations[k].bot = bot, locations[l].bot = bot
      PROVE  locations[k].restaurant = locations[l].restaurant
  <2>1. bot # None
    BY TenancyAssumption
  <2>2. QED
    BY <1>2, <1>3, <2>1, FoundAssumption DEF Rows
<1>4. QED
  BY <1>1, <1>3 DEF RunPairs, Running, Chosen, BotInv

(* A bot that get_telegram_user accepts is one of a location. *)
LEMMA AcceptedBot ==
  ASSUME NEW r \in Restaurants, NEW bot \in Bots, get_telegram_user(r, bot)
  PROVE  \E l \in LocationsOf(r) : locations[l].bot = bot
<1> DEFINE rows == {l \in ActiveLocations(r) : locations[l].bot # None}
<1>1. First(rows) # None /\ locations[First(rows)].bot = bot
  BY DEF get_telegram_user, _bot_location
<1>2. rows # {} /\ rows \in SUBSET Locations
  BY <1>1 DEF First, ActiveLocations, LocationsOf
<1>3. First(rows) \in rows
  BY <1>2, FirstExists
<1>4. QED
  BY <1>1, <1>3 DEF ActiveLocations

(* A bot's users are accepted by two restaurants only after two requests   *)
(* that gave the bot were in progress at one time: each asked whether the  *)
(* token was in use before the other had committed.                        *)
THEOREM BotIsolationHolds == Spec => []BotIsolation
<1>1. BotInv => BotIsolation
  <2> SUFFICES ASSUME BotInv, NEW r \in Restaurants, NEW s \in Restaurants, NEW bot \in Bots,
                      r # s, get_telegram_user(r, bot), get_telegram_user(s, bot)
               PROVE  Overlapping(Giving(bot), Giving(bot))
    BY DEF BotIsolation, Giving
  <2>1. PICK k \in LocationsOf(r) : locations[k].bot = bot
    BY AcceptedBot
  <2>2. PICK l \in LocationsOf(s) : locations[l].bot = bot
    BY AcceptedBot
  <2>3. k \in Rows /\ l \in Rows /\ locations[k].restaurant # locations[l].restaurant
    BY <2>1, <2>2 DEF LocationsOf, Rows
  <2>4. Excused(Giving(bot), Giving(bot))
    BY <2>1, <2>2, <2>3 DEF BotInv
  <2>5. QED
    BY <2>4, ExcusedOverlap
<1>2. TypeInv /\ RunPairs /\ [Next]_vars => RunPairs'
  BY FrameStep DEF Frame
<1>3. QED
  BY <1>1, <1>2, RevokedInit, RevokedNext, TypeInit, TypeStep, BotInit, ChosenStep, BotStep, PTL
     DEF Spec

-----------------------------------------------------------------------------
(* The cache of bots *)

Changing(r) == {"update_restaurant"} \X {r} \X Bots
Using(l) == {<<"get_location_bot", l>>}

(* A change of the location's bot has committed and not yet got to the     *)
(* invalidation, or failed before it.                                      *)
Changed(q) == At(q, "after", "update_restaurant") \/ At(q, "failed", "update_restaurant")
Invalidating(l) == \E q \in Requests : Changed(q) /\ req[q].seen = l

LEMMA ChangedStays ==
  ASSUME TypeInv, [Next]_vars, NEW q \in Requests, Changed(q),
         ~ UpdateRestaurantInvalidate(q), ~ Restart
  PROVE  Changed(q)' /\ req'[q].seen = req[q].seen
<1>1. CASE At(q, "failed", "update_restaurant")
  <2>1. req'[q] = req[q]
    BY <1>1, FrameStep DEF Frame, Over, At
  <2>2. QED
    BY <1>1, <2>1 DEF Changed, At
<1>2. CASE UpdateRestaurantFails(q)
  <2>1. To(q, "failed", req[q].op, req[q].seen) /\ req[q].op[1] = "update_restaurant"
    BY <1>2 DEF UpdateRestaurantFails, Fail, At
  <2>2. req'[q].pc = "failed" /\ req'[q].op = req[q].op /\ req'[q].seen = req[q].seen
    BY <2>1, ToOthers
  <2>3. QED
    BY <2>1, <2>2 DEF Changed, At
<1>3. CASE req'[q] = req[q]
  BY <1>3 DEF Changed, At
<1>4. QED
  BY <1>1, <1>2, <1>3, AfterStays DEF Changed

(* What a message is about to put into the cache is the location's bot, or *)
(* was changed while the message was on its way.                           *)
CacheInv ==
  /\ \A q \in Requests, l \in Locations :
       req[q].pc = "commit" /\ req[q].op \in Using(l) =>
         /\ l \in Rows
         /\ req[q].seen = locations[l].bot \/ Met(q, Changing(locations[l].restaurant))
  /\ \A l \in Locations : botCache[l] # None =>
       /\ l \in Rows
       /\ \/ botCache[l] = locations[l].bot
          \/ Invalidating(l)
          \/ Excused(Changing(locations[l].restaurant), Using(l))

LEMMA CacheMoves ==
  ASSUME TypeInv, [Next]_vars, NEW l \in Locations, botCache'[l] # None
  PROVE  \/ botCache'[l] = botCache[l]
         \/ \E q \in Requests : /\ GetLocationBot(q) /\ req[q].op[2] = l
                                /\ botCache'[l] = req[q].seen
<1>0. botCache \in [Locations -> Bots \cup {None}]
  BY TypeParts DEF TypeInv, CacheType
<1>1. CASE UNCHANGED botCache
  BY <1>1
<1>2. CASE Restart
  BY <1>2 DEF Restart
<1>3. ASSUME NEW q \in Requests, GetLocationBot(q)
      PROVE  \/ botCache'[l] = botCache[l]
             \/ req[q].op[2] = l /\ botCache'[l] = req[q].seen
  <2>1. botCache' = [botCache EXCEPT ![req[q].op[2]] =
                       IF botCache[req[q].op[2]] = None THEN req[q].seen ELSE botCache[req[q].op[2]]]
    BY <1>3 DEF GetLocationBot
  <2>2. QED
    BY <1>0, <2>1
<1>4. ASSUME NEW k, invalidate_bot_cache(k) PROVE botCache'[l] = botCache[l]
  BY <1>4 DEF invalidate_bot_cache
<1>5. ASSUME NEW q \in Requests, TenancyStep(q), ~ GetLocationBot(q)
      PROVE  botCache'[l] = botCache[l]
  <2>1. CASE UpdateRestaurantInvalidate(q) \/ DeleteRestaurantInvalidate(q)
    BY <1>4, <2>1 DEF UpdateRestaurantInvalidate, DeleteRestaurantInvalidate
  <2>2. CASE \/ CreateRestaurantCommit(q) \/ UpdateRestaurantCommit(q) \/ UpdateRestaurantFails(q)
             \/ DeleteLocationCommit(q)
    BY <2>2 DEF CreateRestaurantCommit, UpdateRestaurantCommit, UpdateRestaurantFails,
                DeleteLocationCommit
  <2>3. QED
    BY <1>5, <2>1, <2>2 DEF TenancyStep
<1>6. ASSUME NEW q \in Requests, TenancyBegin(q) PROVE UNCHANGED botCache
  BY <1>6 DEF TenancyBegin, Login, Logout, CreateAgency, UpdateAgency, FreezeRestaurant,
              DeleteRestaurant, TransferRestaurant, CreateRestaurantBegin, UpdateRestaurantBegin,
              CreateLocation, UpdateLocation, DeleteLocationBegin, ReadLocation
<1>7. ASSUME NEW q \in Requests, FloorBegin(q) \/ FloorStep(q) PROVE UNCHANGED botCache
  BY <1>7 DEF FloorBegin, CreateTableBegin, DeleteTable, CreateWaiterCallBegin, UpdateStatusBegin,
              FloorStep, CreateTableCommit, CreateWaiterCallCommit, UpdateStatusCommit,
              unchangedTenancy
<1>8. CASE Tick \/ UNCHANGED vars
  BY <1>1, <1>8 DEF Tick, vars, tenancyVars
<1>9. QED
  BY <1>1, <1>2, <1>3, <1>5, <1>6, <1>7, <1>8 DEF Next, TenancyNext, FloorNext

(* A location's bot is changed by update_restaurant alone. *)
LEMMA BotChanges ==
  ASSUME TypeInv, Chosen, [Next]_vars, NEW l \in Rows, locations'[l].bot # locations[l].bot
  PROVE  \E p \in Requests : /\ Commits(p) /\ req[p].op \in Changing(locations[l].restaurant)
                             /\ req[p].op[1] = "update_restaurant"
                             /\ req'[p].pc = "after" /\ req'[p].op = req[p].op /\ req'[p].seen = l
<1>1. l \in Rows' /\ l \in Locations
  BY RowStays DEF Rows
<1>2. PICK p \in Requests : GivesBot(p, l, locations'[l].bot)
  BY <1>1, BotMoves
<1>3. CASE UpdateRestaurantCommit(p)
  <2>1. req[p].op[3] \in Bots /\ locations'[l].bot = req[p].op[3]
    BY <1>2, <1>3, AtParts, OperationParts DEF GivesBot, UpdateRestaurantCommit, CreateRestaurantCommit, Fits, At
  <2>2. locations'[l].bot \in Bots
    BY <2>1
  <2>3. QED
    BY <1>1, <1>2, <2>2, GiverCommits DEF Changing
<1>4. QED
  BY <1>2, <1>3 DEF GivesBot

LEMMA CacheInvStep == ASSUME TypeInv, RunPairs, Chosen, CacheInv, [Next]_vars PROVE CacheInv'
<1>0. RowsType
  BY TypeParts DEF TypeInv
<1>1. ASSUME NEW q \in Requests, NEW l \in Locations, req'[q].pc = "commit", req'[q].op \in Using(l)
      PROVE  /\ l \in Rows'
             /\ req'[q].seen = locations'[l].bot \/ Met(q, Changing(locations[l].restaurant))'
  <2>1. CASE req'[q] = req[q]
    <3>1. /\ l \in Rows
          /\ req[q].seen = locations[l].bot \/ Met(q, Changing(locations[l].restaurant))
      BY <1>1, <2>1 DEF CacheInv
    <3>2. PICK r \in Restaurants : r = locations[l].restaurant
      BY <1>0, <3>1 DEF RowsType, Rows, LocationRow
    <3>3. l \in Rows' /\ locations'[l].restaurant = r
      BY <3>1, <3>2, RowStays
    <3>4. CASE Met(q, Changing(locations[l].restaurant))
      <4>1. Met(q, Changing(r))'
        BY <3>2, <3>4, MetStays DEF Changing
      <4>2. QED
        BY <3>1, <3>2, <3>3, <4>1
    <3>5. CASE req[q].seen = locations[l].bot /\ locations'[l].bot # locations[l].bot
      <4>1. PICK p \in Requests : Commits(p) /\ req[p].op \in Changing(r)
        BY <3>1, <3>2, <3>5, BotChanges
      <4>2. Met(q, Changing(r))'
        BY <1>1, <2>1, <4>1, CommitMeets DEF Changing
      <4>3. QED
        BY <3>1, <3>2, <3>3, <4>2
    <3>6. QED
      BY <2>1, <3>1, <3>3, <3>4, <3>5
  <2>2. CASE BegunAs(q)
    <3>1. PICK k \in Locations : ReadLocation(q, k) /\ req'[q].op = <<"get_location_bot", k>>
      BY <1>1, <2>2 DEF BegunAs, Using
    <3>2. k = l
      BY <1>1, <3>1 DEF Using
    <3>3. PICK op, seen : Begin(q, op, seen) /\ seen = locations[l].bot
      BY <3>1, <3>2 DEF ReadLocation
    <3>4. req'[q].seen = locations[l].bot
      BY <3>3, BeginIs
    <3>5. QED
      BY <3>1, <3>2, <3>4 DEF ReadLocation, rowVars, Rows
  <2>3. QED
    BY <1>1, <2>1, <2>2, Begun
<1>2. ASSUME NEW l \in Locations, botCache'[l] # None
      PROVE  /\ l \in Rows'
             /\ \/ botCache'[l] = locations'[l].bot
                \/ Invalidating(l)'
                \/ Excused(Changing(locations[l].restaurant), Using(l))'
  <2>1. CASE botCache'[l] = botCache[l]
    <3>1. /\ l \in Rows
          /\ \/ botCache[l] = locations[l].bot
             \/ Invalidating(l)
             \/ Excused(Changing(locations[l].restaurant), Using(l))
      BY <1>2, <2>1 DEF CacheInv
    <3>2. l \in Rows'
      BY <3>1, RowStays
    <3>3. CASE botCache[l] = locations[l].bot
      <4>1. CASE locations'[l].bot = locations[l].bot
        BY <2>1, <3>1, <3>2, <3>3, <4>1
      <4>2. CASE locations'[l].bot # locations[l].bot
        <5>1. PICK p \in Requests : /\ req[p].op[1] = "update_restaurant"
                                    /\ req'[p].pc = "after" /\ req'[p].op = req[p].op
                                    /\ req'[p].seen = l
          BY <3>1, <4>2, BotChanges
        <5>2. Invalidating(l)'
          BY <5>1 DEF Invalidating, Changed, At
        <5>3. QED
          BY <3>1, <3>2, <5>2
      <4>3. QED
        BY <4>1, <4>2
    <3>4. CASE Invalidating(l)
      <4>1. PICK q \in Requests : Changed(q) /\ req[q].seen = l
        BY <3>4 DEF Invalidating
      <4>2. ~ UpdateRestaurantInvalidate(q) /\ ~ Restart
        BY <1>2, <4>1 DEF UpdateRestaurantInvalidate, invalidate_bot_cache, Restart
      <4>3. Changed(q)' /\ req'[q].seen = l
        BY <4>1, <4>2, ChangedStays
      <4>4. Invalidating(l)'
        BY <4>3 DEF Invalidating
      <4>5. QED
        BY <3>1, <3>2, <4>4
    <3>5. CASE Excused(Changing(locations[l].restaurant), Using(l))
      <4>1. PICK r : r = locations[l].restaurant
        OBVIOUS
      <4>2. Excused(Changing(r), Using(l))'
        BY <3>5, <4>1, ExcusedStays DEF Changing, Using
      <4>3. QED
        BY <3>1, <3>2, <4>1, <4>2, RowStays
    <3>6. QED
      BY <3>1, <3>3, <3>4, <3>5
  <2>2. ASSUME NEW q \in Requests, GetLocationBot(q), req[q].op[2] = l, botCache'[l] = req[q].seen
        PROVE  /\ l \in Rows'
               /\ \/ botCache'[l] = locations'[l].bot
                  \/ Invalidating(l)'
                  \/ Excused(Changing(locations[l].restaurant), Using(l))'
    <3>1. Commits(q) /\ req[q].op \in Using(l) /\ locations' = locations
      <4>1. req[q].pc = "commit" /\ req[q].op[1] = "get_location_bot" /\ req[q].op \in Operation
        BY <2>2, AtParts DEF GetLocationBot, At, Fits
      <4>2. req[q].op = <<"get_location_bot", l>>
        BY <2>2, <4>1, OperationParts
      <4>3. QED
        BY <2>2, <4>1, <4>2 DEF GetLocationBot, Commits, Using, rowVars
    <3>2. /\ l \in Rows
          /\ req[q].seen = locations[l].bot \/ Met(q, Changing(locations[l].restaurant))
      BY <3>1 DEF CacheInv, Commits
    <3>3. l \in Rows'
      BY <3>2, RowStays
    <3>4. CASE req[q].seen = locations[l].bot
      BY <2>2, <3>1, <3>2, <3>3, <3>4
    <3>5. CASE Met(q, Changing(locations[l].restaurant))
      <4>1. PICK r : r = locations[l].restaurant
        OBVIOUS
      <4>2. Excused(Changing(r), Using(l))'
        BY <3>1, <3>5, <4>1, CommitExcused DEF Changing, Using
      <4>3. QED
        BY <3>2, <3>3, <4>1, <4>2, RowStays
    <3>6. QED
      BY <3>2, <3>4, <3>5
  <2>3. QED
    BY <1>2, <2>1, <2>2, CacheMoves
<1>3. QED
  BY <1>1, <1>2 DEF CacheInv

LEMMA CacheInit == Init => CacheInv
BY DEF Init, TenancyInit, Idle, CacheInv

(* A cached bot is the location's bot, but for the time between the commit *)
(* of update_restaurant and its invalidation, which never comes when the   *)
(* request fails in between, and after a message that read the location    *)
(* before the change and fills the cache after it.                         *)
THEOREM CacheFreshHolds == Spec => []CacheFresh
<1>1. CacheInv => CacheFresh
  <2> SUFFICES ASSUME CacheInv, NEW l \in Locations, botCache[l] # None,
                      botCache[l] # locations[l].bot
               PROVE  \/ Invalidating(l)
                      \/ Overlapping(Changing(locations[l].restaurant), Using(l))
    BY DEF CacheFresh, Invalidating, Changed, Changing, Using
  <2>1. Invalidating(l) \/ Excused(Changing(locations[l].restaurant), Using(l))
    BY DEF CacheInv
  <2>2. QED
    BY <2>1, ExcusedOverlap
<1>2. TypeInv /\ RunPairs /\ [Next]_vars => RunPairs'
  BY FrameStep DEF Frame
<1>3. QED
  BY <1>1, <1>2, RevokedInit, RevokedNext, TypeInit, TypeStep, BotInit, ChosenStep, CacheInit,
     CacheInvStep, PTL
     DEF Spec

-----------------------------------------------------------------------------
(* Tables *)

Creations(r, n) == {"create_table"} \X LocationsOf(r) \X {n}

(* A table belongs to its location's restaurant; slugs are unique among    *)
(* locations and numbers in a location, but for a restaurant a number is   *)
(* only judged before the commit.                                          *)
Placed == \A t \in Tables : tables[t] # None =>
            /\ tables[t].location \in Rows
            /\ locations[tables[t].location].restaurant = tables[t].restaurant
SlugsApart == \A k, l \in Rows : k # l => locations[k].slug # locations[l].slug
NumbersApart == \A t, u \in Tables : t # u /\ tables[t] # None /\ tables[u] # None =>
                  tables[t].location # tables[u].location \/ tables[t].number # tables[u].number

TableInv ==
  /\ Placed /\ SlugsApart /\ NumbersApart
  /\ \A q \in Requests, l \in Locations, n \in Numbers, r \in Restaurants, t \in Tables :
       /\ req[q].pc = "commit" /\ req[q].op = <<"create_table", l, n>> /\ r = locations[l].restaurant
       /\ t \in TablesOf(r) /\ tables[t].number = n
       => Met(q, Creations(r, n))
  /\ \A r \in Restaurants, n \in Numbers, t, u \in Tables :
       /\ t # u /\ t \in TablesOf(r) /\ u \in TablesOf(r)
       /\ tables[t].number = n /\ tables[u].number = n
       => Excused(Creations(r, n), Creations(r, n))

(* What a step does to the tables. *)
Tables_Create(q, t, l, n) ==
  /\ Commits(q) /\ req[q].op = <<"create_table", l, n>> /\ l \in Rows /\ NumberFree(l, n)
  /\ tables' = [tables EXCEPT ![t] =
       [restaurant |-> locations[l].restaurant, location |-> l, number |-> n]]

LEMMA TableMoves ==
  ASSUME TypeInv, [Next]_vars
  PROVE  \/ tables' = tables
         \/ \E t \in Tables : tables' = [tables EXCEPT ![t] = None]
         \/ \E q \in Requests, t \in Tables, l \in Locations, n \in Numbers : Tables_Create(q, t, l, n)
<1>1. ASSUME NEW q \in Requests, CreateTableCommit(q)
      PROVE  \/ tables' = tables
             \/ \E t \in Tables, l \in Locations, n \in Numbers : Tables_Create(q, t, l, n)
  <2>1. /\ Commits(q) /\ req[q].op[1] = "create_table" /\ req[q].op \in Operation
        /\ req[q].op[2] \in Rows /\ req[q].op[3] \in Numbers
    BY <1>1, AtParts DEF CreateTableCommit, At, Fits, Commits
  <2>2. PICK l \in Locations, n \in Numbers :
          req[q].op = <<"create_table", l, n>> /\ l = req[q].op[2] /\ n = req[q].op[3] /\ l \in Rows
    BY <2>1, OperationParts
  <2>3. \/ tables' = tables
        \/ /\ NumberFree(l, n)
           /\ \E t \in Tables : tables' = [tables EXCEPT ![t] =
                [restaurant |-> locations[l].restaurant, location |-> l, number |-> n]]
    BY <1>1, <2>2 DEF CreateTableCommit
  <2>4. QED
    BY <2>1, <2>2, <2>3 DEF Tables_Create
<1>2. ASSUME NEW q \in Requests, FloorBegin(q)
      PROVE  tables' = tables \/ \E t \in Tables : tables' = [tables EXCEPT ![t] = None]
  BY <1>2 DEF FloorBegin, CreateTableBegin, DeleteTable, CreateWaiterCallBegin, UpdateStatusBegin,
              floorVars
<1>3. ASSUME NEW q \in Requests, CreateWaiterCallCommit(q) \/ UpdateStatusCommit(q)
      PROVE  tables' = tables
  BY <1>3 DEF CreateWaiterCallCommit, UpdateStatusCommit
<1>4. CASE UNCHANGED floorVars
  BY <1>4 DEF floorVars
<1>5. QED
  BY <1>1, <1>2, <1>3, <1>4 DEF Next, FloorNext, FloorStep, vars, floorVars

(* What becomes of one table, and of the others when it is created.        *)
LEMMA TableStays ==
  ASSUME TypeInv, [Next]_vars, NEW t \in Tables, tables'[t] # None
  PROVE  \/ tables'[t] = tables[t]
         \/ \E q \in Requests, l \in Locations, n \in Numbers :
              /\ Tables_Create(q, t, l, n)
              /\ tables'[t] = [restaurant |-> locations[l].restaurant, location |-> l, number |-> n]
              /\ \A u \in Tables : u # t => tables'[u] = tables[u]
<1>0. tables \in [Tables -> TableRow \cup {None}]
  BY TypeParts DEF TypeInv, FloorType
<1>1. ASSUME NEW u \in Tables, tables' = [tables EXCEPT ![u] = None] PROVE tables'[t] = tables[t]
  BY <1>0, <1>1
<1>2. ASSUME NEW q \in Requests, NEW u \in Tables, NEW l \in Locations, NEW n \in Numbers,
             Tables_Create(q, u, l, n), u # t
      PROVE  tables'[t] = tables[t]
  BY <1>0, <1>2 DEF Tables_Create
<1>3. ASSUME NEW q \in Requests, NEW l \in Locations, NEW n \in Numbers, Tables_Create(q, t, l, n)
      PROVE  /\ tables'[t] = [restaurant |-> locations[l].restaurant, location |-> l, number |-> n]
             /\ \A u \in Tables : u # t => tables'[u] = tables[u]
  BY <1>0, <1>3 DEF Tables_Create
<1>4. QED
  BY <1>1, <1>2, <1>3, TableMoves

LEMMA SlugStep == ASSUME TypeInv, SlugsApart, [Next]_vars PROVE SlugsApart'
<1>0. RowsType
  BY TypeParts DEF TypeInv
<1>1. CASE locations' = locations
  BY <1>1 DEF SlugsApart, Rows
<1>2. ASSUME NEW w \in Locations, NEW row \in LocationRow, Writes(w, row) PROVE SlugsApart'
  <2>1. \A j \in Locations : locations'[j] = IF j = w THEN row ELSE locations[j]
    BY <1>0, <1>2 DEF Writes, RowsType
  <2>2. \A k \in Rows' : k # w => k \in Rows /\ locations'[k].slug = locations[k].slug
    BY <2>1 DEF Rows
  <2>3. \A k \in Rows : k # w => locations[k].slug # row.slug
    BY <1>2 DEF Writes, SlugsApart
  <2>4. locations'[w].slug = row.slug
    BY <2>1
  <2>5. ASSUME NEW k \in Rows', NEW l \in Rows', k # l PROVE locations'[k].slug # locations'[l].slug
    <3>1. CASE k = w
      BY <2>2, <2>3, <2>4, <2>5, <3>1
    <3>2. CASE l = w
      BY <2>2, <2>3, <2>4, <2>5, <3>2
    <3>3. CASE k # w /\ l # w
      BY <2>2, <2>5, <3>3 DEF SlugsApart
    <3>4. QED
      BY <3>1, <3>2, <3>3
  <2>6. QED
    BY <2>5 DEF SlugsApart
<1>3. QED
  BY <1>1, <1>2, OneWrittenStep DEF OneWritten

LEMMA CreationsGrow ==
  ASSUME TypeInv, [Next]_vars, NEW r \in Restaurants, NEW n \in Numbers
  PROVE  Creations(r, n) \subseteq Creations(r, n)'
<1>1. LocationsOf(r) \subseteq LocationsOf(r)'
  BY RowStays DEF LocationsOf, Rows
<1>2. QED
  BY <1>1 DEF Creations

LEMMA MetCreations ==
  ASSUME TypeInv, [Next]_vars, NEW r \in Restaurants, NEW n \in Numbers, NEW q \in Requests, NEW S,
         S = Creations(r, n), Met(q, S)'
  PROVE  Met(q, Creations(r, n))'
BY CreationsGrow DEF Met

LEMMA ExcusedCreations ==
  ASSUME TypeInv, [Next]_vars, NEW r \in Restaurants, NEW n \in Numbers, NEW S,
         S = Creations(r, n), Excused(S, S)'
  PROVE  Excused(Creations(r, n), Creations(r, n))'
BY CreationsGrow DEF Excused

LEMMA TableInvStep == ASSUME TypeInv, RunPairs, TableInv, [Next]_vars PROVE TableInv'
<1>0. RowsType /\ FloorType
  BY TypeParts DEF TypeInv
<1>1. Placed'
  <2> SUFFICES ASSUME NEW t \in Tables, tables'[t] # None
               PROVE  /\ tables'[t].location \in Rows'
                      /\ locations'[tables'[t].location].restaurant = tables'[t].restaurant
    BY DEF Placed
  <2>1. CASE tables'[t] = tables[t]
    <3>1. tables[t].location \in Rows /\ locations[tables[t].location].restaurant = tables[t].restaurant
      BY <2>1 DEF TableInv, Placed
    <3>2. QED
      BY <2>1, <3>1, RowStays
  <2>2. ASSUME NEW q \in Requests, NEW l \in Locations, NEW n \in Numbers, Tables_Create(q, t, l, n),
               tables'[t] = [restaurant |-> locations[l].restaurant, location |-> l, number |-> n]
        PROVE  /\ tables'[t].location \in Rows'
               /\ locations'[tables'[t].location].restaurant = tables'[t].restaurant
    <3>1. tables'[t].location = l /\ tables'[t].restaurant = locations[l].restaurant
      BY <2>2
    <3>2. l \in Rows
      BY <2>2 DEF Tables_Create
    <3>3. QED
      BY <3>1, <3>2, RowStays
  <2>3. QED
    BY <2>1, <2>2, TableStays
<1>2. SlugsApart'
  BY SlugStep DEF TableInv
<1>3. NumbersApart'
  <2> DEFINE Apart(t, u) == tables'[t].location # tables'[u].location
                            \/ tables'[t].number # tables'[u].number
  <2> SUFFICES ASSUME NEW t \in Tables, NEW u \in Tables, t # u, tables'[t] # None, tables'[u] # None
               PROVE  Apart(t, u)
    BY DEF NumbersApart
  <2>1. CASE tables'[t] = tables[t] /\ tables'[u] = tables[u]
    BY <2>1 DEF TableInv, NumbersApart
  <2>2. ASSUME NEW a \in Tables, NEW b \in Tables, a # b, tables'[b] # None,
               NEW q \in Requests, NEW l \in Locations, NEW n \in Numbers, Tables_Create(q, a, l, n),
               tables'[a] = [restaurant |-> locations[l].restaurant, location |-> l, number |-> n],
               \A v \in Tables : v # a => tables'[v] = tables[v]
        PROVE  Apart(a, b)
    <3>1. tables'[b] = tables[b] /\ tables[b] # None
      BY <2>2
    <3>2. tables'[a].location = l /\ tables'[a].number = n
      BY <2>2
    <3>3. tables[b].location # l \/ tables[b].number # n
      BY <2>2, <3>1 DEF Tables_Create, NumberFree
    <3>4. QED
      BY <3>1, <3>2, <3>3
  <2>3. CASE tables'[t] # tables[t]
    <3>1. Apart(t, u)
      BY <2>2, <2>3, TableStays
    <3>2. QED
      BY <3>1
  <2>4. CASE tables'[u] # tables[u]
    <3>1. Apart(u, t)
      BY <2>2, <2>4, TableStays
    <3>2. QED
      BY <3>1
  <2>5. QED
    BY <2>1, <2>3, <2>4
<1>4. ASSUME NEW q \in Requests, NEW l \in Locations, NEW n \in Numbers, NEW r \in Restaurants,
             NEW t \in Tables, req'[q].pc = "commit", req'[q].op = <<"create_table", l, n>>,
             r = locations'[l].restaurant, t \in TablesOf(r)', tables'[t].number = n
      PROVE  Met(q, Creations(r, n))'
  <2>0. PICK S : S = Creations(r, n)
    OBVIOUS
  <2>1. tables'[t] # None /\ tables'[t].restaurant = r
    BY <1>4 DEF TablesOf
  <2>2. CASE req'[q] = req[q]
    <3>1. l \in Rows
      BY <1>4, <2>2 DEF TypeInv, Ops, Fits
    <3>2. locations[l].restaurant = r
      BY <1>4, <3>1, RowStays
    <3>3. CASE tables'[t] = tables[t]
      <4>1. t \in TablesOf(r)
        BY <2>1, <3>3 DEF TablesOf
      <4>2. Met(q, S)
        BY <1>4, <2>0, <2>2, <3>2, <3>3, <4>1 DEF TableInv
      <4>3. QED
        BY <2>0, <4>2, MetStays, MetCreations
    <3>4. ASSUME NEW p \in Requests, NEW k \in Locations, NEW m \in Numbers, Tables_Create(p, t, k, m),
                 tables'[t] = [restaurant |-> locations[k].restaurant, location |-> k, number |-> m]
          PROVE  Met(q, Creations(r, n))'
      <4>1. locations[k].restaurant = r /\ m = n
        BY <1>4, <2>1, <3>4
      <4>2. k \in LocationsOf(r)
        BY <3>4, <4>1 DEF Tables_Create, LocationsOf, Rows
      <4>3. Commits(p) /\ req[p].op \in S
        BY <2>0, <3>4, <4>1, <4>2 DEF Tables_Create, Creations
      <4>4. Met(q, S)'
        BY <1>4, <2>2, <4>3, CommitMeets
      <4>5. QED
        BY <2>0, <4>4, MetCreations
    <3>5. QED
      BY <2>1, <3>3, <3>4, TableStays
  <2>3. CASE BegunAs(q)
    <3>1. PICK s \in Restaurants, k \in Locations, m \in Numbers :
            /\ CreateTableBegin(q, s, m) /\ k \in LocationsOf(s)
            /\ req'[q].op = <<"create_table", k, m>>
      BY <1>4, <2>3 DEF BegunAs
    <3>2. k = l /\ m = n
      BY <1>4, <3>1
    <3>3. locations' = locations /\ tables' = tables
      BY <3>1 DEF CreateTableBegin, unchangedTenancy, rowVars, floorVars
    <3>4. s = r
      BY <1>4, <3>1, <3>2, <3>3 DEF LocationsOf
    <3>5. t \in TablesOf(s) /\ tables[t].number = m
      BY <1>4, <2>1, <3>2, <3>3, <3>4 DEF TablesOf
    <3>6. QED
      BY <3>1, <3>5 DEF CreateTableBegin
  <2>4. QED
    BY <1>4, <2>2, <2>3, Begun
<1>5. ASSUME NEW r \in Restaurants, NEW n \in Numbers, NEW t \in Tables, NEW u \in Tables, t # u,
             t \in TablesOf(r)', u \in TablesOf(r)', tables'[t].number = n, tables'[u].number = n
      PROVE  Excused(Creations(r, n), Creations(r, n))'
  <2>0. PICK S : S = Creations(r, n)
    OBVIOUS
  <2>1. CASE tables'[t] = tables[t] /\ tables'[u] = tables[u]
    <3>1. t \in TablesOf(r) /\ u \in TablesOf(r)
      BY <1>5, <2>1 DEF TablesOf
    <3>2. Excused(S, S)
      BY <1>5, <2>0, <2>1, <3>1 DEF TableInv
    <3>3. QED
      BY <2>0, <3>2, ExcusedStays, ExcusedCreations
  <2>2. ASSUME NEW a \in Tables, NEW b \in Tables, a # b, a \in TablesOf(r)', b \in TablesOf(r)',
               tables'[a].number = n, tables'[b].number = n, tables'[a] # tables[a]
        PROVE  Excused(Creations(r, n), Creations(r, n))'
    <3>1. tables'[a] # None /\ tables'[a].restaurant = r
      BY <2>2 DEF TablesOf
    <3>2. PICK q \in Requests, l \in Locations, m \in Numbers :
            /\ Tables_Create(q, a, l, m)
            /\ tables'[a] = [restaurant |-> locations[l].restaurant, location |-> l, number |-> m]
            /\ \A v \in Tables : v # a => tables'[v] = tables[v]
      BY <2>2, <3>1, TableStays
    <3>3. locations[l].restaurant = r /\ m = n
      BY <2>2, <3>1, <3>2
    <3>4. b \in TablesOf(r) /\ tables[b].number = n
      BY <2>2, <3>2 DEF TablesOf
    <3>5. Commits(q) /\ req[q].op = <<"create_table", l, n>> /\ l \in LocationsOf(r)
      BY <3>2, <3>3 DEF Tables_Create, LocationsOf, Rows
    <3>6. Met(q, S)
      BY <2>0, <3>3, <3>4, <3>5 DEF TableInv, Commits
    <3>7. req[q].op \in S
      BY <2>0, <3>5 DEF Creations
    <3>8. Excused(S, S)'
      BY <3>5, <3>6, <3>7, CommitExcused
    <3>9. QED
      BY <2>0, <3>8, ExcusedCreations
  <2>3. QED
    BY <1>5, <2>1, <2>2
<1>6. QED
  BY <1>1, <1>2, <1>3, <1>4, <1>5 DEF TableInv

LEMMA TableInit == Init => TableInv
<1> SUFFICES ASSUME Init PROVE TableInv
  OBVIOUS
<1>1. \A q \in Requests : req[q].pc = "idle"
  BY DEF Init, TenancyInit, Idle
<1>2. locations = Existing.locations /\ tables = Existing.tables
  BY DEF Init, TenancyInit
<1>3. SlugsApart
  BY <1>2, FoundAssumption DEF SlugsApart, Rows
<1>4. \A t \in Tables : tables[t] # None => tables[t] \in TableRow
  BY <1>2, FloorAssumption
<1>5. Placed
  BY <1>2, <1>4, FoundAssumption DEF Placed, Rows, TableRow
<1>6. \A t, u \in Tables : /\ t # u /\ tables[t] # None /\ tables[u] # None
                           /\ tables[t].restaurant = tables[u].restaurant
                           => tables[t].number # tables[u].number
  BY <1>2, FoundAssumption
<1>7. NumbersApart
  BY <1>5, <1>6 DEF NumbersApart, Placed
<1>8. \A r \in Restaurants, t, u \in Tables :
        t # u /\ t \in TablesOf(r) /\ u \in TablesOf(r) => tables[t].number # tables[u].number
  BY <1>6 DEF TablesOf
<1>9. QED
  BY <1>1, <1>3, <1>5, <1>7, <1>8 DEF TableInv

(* A QR code leads to its location. *)
LEMMA SlugFinds ==
  ASSUME SlugsApart, NEW l \in Rows, locations[l].active, RestaurantActive(locations[l].restaurant)
  PROVE  LocationOfSlug(locations[l].slug) = l
<1> DEFINE named == {k \in Locations : locations[k] # None /\ locations[k].active
                                       /\ locations[k].slug = locations[l].slug}
<1>1. l \in named /\ named \in SUBSET Locations /\ l # None
  BY TenancyAssumption DEF Rows
<1>2. First(named) \in named
  BY <1>1, FirstExists
<1>3. \A k \in named : k = l
  BY DEF SlugsApart, Rows
<1>4. First(named) = l
  BY <1>2, <1>3
<1>5. QED
  BY <1>1, <1>4 DEF LocationOfSlug

(* The QR code of a table finds it and no other, whatever slugs are given  *)
(* and changed; two tables of a restaurant have one number only after two  *)
(* that were created at one time.                                          *)
THEOREM QRFindsTableHolds == Spec => []QRFindsTable
<1>1. TypeInv /\ TableInv => QRFindsTable
  <2> SUFFICES ASSUME TypeInv, TableInv, NEW t \in Tables, tables[t] # None
               PROVE  /\ /\ locations[tables[t].location].active
                         /\ RestaurantActive(tables[t].restaurant)
                         => TablesByNumber(locations[tables[t].location].slug, tables[t].number) = {t}
                      /\ (\E u \in TablesOf(tables[t].restaurant) :
                            u # t /\ tables[u].number = tables[t].number)
                         => Overlapping(Creations(tables[t].restaurant, tables[t].number),
                                        Creations(tables[t].restaurant, tables[t].number))
    BY DEF QRFindsTable, Creations
  <2>1. tables[t] \in TableRow
    BY TypeParts DEF TypeInv, FloorType
  <2>2. PICK l, r, n : l = tables[t].location /\ r = tables[t].restaurant /\ n = tables[t].number
    OBVIOUS
  <2>3. r \in Restaurants /\ n \in Numbers
    BY <2>1, <2>2 DEF TableRow
  <2>4. l \in Rows /\ locations[l].restaurant = r
    BY <2>2 DEF TableInv, Placed
  <2>5. ASSUME locations[l].active, RestaurantActive(r)
        PROVE  TablesByNumber(locations[l].slug, n) = {t}
    <3>1. LocationOfSlug(locations[l].slug) = l
      BY <2>4, <2>5, SlugFinds DEF TableInv
    <3>2. QED
      BY <2>2, <3>1 DEF TablesByNumber, TableInv, NumbersApart
  <2>6. ASSUME NEW u \in TablesOf(r), u # t, tables[u].number = n
        PROVE  Overlapping(Creations(r, n), Creations(r, n))
    <3>1. u \in Tables /\ t \in TablesOf(r)
      BY <2>2 DEF TablesOf
    <3>2. Excused(Creations(r, n), Creations(r, n))
      BY <2>2, <2>3, <2>6, <3>1 DEF TableInv
    <3>3. QED
      BY <3>2, ExcusedOverlap
  <2>7. QED
    BY <2>2, <2>5, <2>6
<1>2. TypeInv /\ RunPairs /\ [Next]_vars => RunPairs'
  BY FrameStep DEF Frame
<1>3. QED
  BY <1>1, <1>2, RevokedInit, RevokedNext, TypeInit, TypeStep, BotInit, TableInit, TableInvStep, PTL
     DEF Spec
=============================================================================
