---------------------------- MODULE FloorProofs ----------------------------
(***************************************************************************)
(* Theorems about Floor, and with it about Tenancy: a revoked token stays  *)
(* out however often revoked_tokens is purged; everything has its type; a  *)
(* restaurant keeps an active location unless two deletions overlap.       *)
(***************************************************************************)
EXTENDS Floor, FiniteSetTheorems, WellFoundedInduction, TLAPS

-----------------------------------------------------------------------------
(* Revoked tokens *)

(* A session keeps its claims; what a purge has forgotten has expired.     *)
SessionTypes ==
  /\ now \in Nat
  /\ sessions \in [Tokens -> Claims \cup {None}]
  /\ revoked \subseteq loggedOut /\ loggedOut \subseteq Tokens

RevokedInv ==
  /\ SessionTypes
  /\ \A s \in loggedOut : /\ sessions[s] # None
                          /\ s \in revoked \/ 2 * sessions[s].exp < now

LEMMA ClaimsExpire == \A c \in Claims : c.exp \in Nat
BY DEF Claims

LEMMA RevokedInit == Init => RevokedInv
BY TenancyAssumption DEF Init, TenancyInit, RevokedInv, SessionTypes

LEMMA BuildTokenKeeps ==
  ASSUME RevokedInv, NEW role, NEW of, BuildToken(role, of),
         NEW exp, exp = now \div 2 + TokenLife,
         [role |-> role, of |-> of, exp |-> exp] \in Claims,
         UNCHANGED <<now, revoked, loggedOut>>
  PROVE  RevokedInv'
<1>1. PICK s \in Tokens :
        /\ sessions[s] = None
        /\ sessions' = [sessions EXCEPT ![s] = [role |-> role, of |-> of, exp |-> exp]]
  BY DEF BuildToken
<1>2. s \notin loggedOut
  BY <1>1 DEF RevokedInv
<1>3. \A t \in loggedOut : sessions'[t] = sessions[t]
  BY <1>1, <1>2 DEF RevokedInv, SessionTypes
<1>4. SessionTypes'
  BY <1>1 DEF RevokedInv, SessionTypes
<1>5. QED
  BY <1>3, <1>4 DEF RevokedInv

LEMMA LoginKeeps ==
  ASSUME RevokedInv, NEW q \in Requests, Login(q) PROVE RevokedInv'
<1> DEFINE exp == now \div 2 + TokenLife
<1>0. exp \in Nat
  BY TenancyAssumption DEF RevokedInv, SessionTypes
<1>1. UNCHANGED <<now, revoked, loggedOut>>
  BY DEF Login
<1>2. ASSUME NEW a \in Agencies, BuildToken("agency_owner", a) PROVE RevokedInv'
  <2>1. [role |-> "agency_owner", of |-> a, exp |-> exp] \in Claims
    BY <1>0 DEF Claims
  <2>2. QED
    BY <1>1, <1>2, <2>1, BuildTokenKeeps
<1>3. ASSUME NEW r \in Restaurants, BuildToken("restaurant_admin", r) PROVE RevokedInv'
  <2>1. [role |-> "restaurant_admin", of |-> r, exp |-> exp] \in Claims
    BY <1>0 DEF Claims
  <2>2. QED
    BY <1>1, <1>3, <2>1, BuildTokenKeeps
<1>4. CASE BuildToken("superadmin", None)
  <2>1. [role |-> "superadmin", of |-> None, exp |-> exp] \in Claims
    BY <1>0 DEF Claims
  <2>2. QED
    BY <1>1, <1>4, <2>1, BuildTokenKeeps
<1>5. QED
  BY <1>2, <1>3, <1>4 DEF Login

LEMMA LogoutKeeps ==
  ASSUME RevokedInv, NEW q \in Requests, Logout(q) PROVE RevokedInv'
<1>1. PICK s \in Tokens :
        /\ sessions[s] # None
        /\ \/ revoked' = revoked \cup {s} /\ loggedOut' = loggedOut \cup {s}
           \/ UNCHANGED <<revoked, loggedOut>>
        /\ UNCHANGED <<now, sessions>>
  BY DEF Logout, get_current_agency, get_current_restaurant_admin, get_current_superadmin,
         Authenticates, decode_token
<1>2. QED
  BY <1>1 DEF RevokedInv, SessionTypes

LEMMA RestartKeeps == ASSUME RevokedInv, Restart PROVE RevokedInv'
<1>1. /\ revoked' \subseteq revoked
      /\ \A s \in revoked \ revoked' : 2 * sessions[s].exp < now
      /\ UNCHANGED <<now, sessions, loggedOut>>
  BY DEF Restart, Purged
<1>2. QED
  BY <1>1 DEF RevokedInv, SessionTypes

LEMMA TickKeeps == ASSUME RevokedInv, Tick PROVE RevokedInv'
<1>1. now' = now + 1 /\ UNCHANGED <<sessions, revoked, loggedOut>>
  BY DEF Tick
<1>2. ASSUME NEW s \in loggedOut PROVE sessions[s].exp \in Nat
  BY ClaimsExpire DEF RevokedInv, SessionTypes
<1>3. QED
  BY <1>1, <1>2 DEF RevokedInv, SessionTypes

LEMMA RevokedNext == ASSUME RevokedInv, [Next]_vars PROVE RevokedInv'
<1>1. CASE UNCHANGED authVars
  BY <1>1 DEF RevokedInv, SessionTypes, authVars
<1>2. ASSUME NEW q \in Requests, Login(q) \/ Logout(q) PROVE RevokedInv'
  BY <1>2, LoginKeeps, LogoutKeeps
<1>3. CASE Restart \/ Tick
  BY <1>3, RestartKeeps, TickKeeps
<1>4. ASSUME NEW q \in Requests, TenancyBegin(q) PROVE RevokedInv'
  BY <1>1, <1>2, <1>4
     DEF TenancyBegin, CreateAgency, UpdateAgency, FreezeRestaurant, DeleteRestaurant,
         TransferRestaurant, CreateRestaurantBegin, UpdateRestaurantBegin, CreateLocation,
         UpdateLocation, DeleteLocationBegin, ReadLocation
<1>5. ASSUME NEW q \in Requests, TenancyStep(q) PROVE UNCHANGED authVars
  BY <1>5 DEF TenancyStep, CreateRestaurantCommit, UpdateRestaurantCommit,
              UpdateRestaurantInvalidate,
              UpdateRestaurantFails, DeleteRestaurantInvalidate, DeleteLocationCommit,
              GetLocationBot
<1>6. ASSUME NEW q \in Requests, FloorBegin(q) \/ FloorStep(q) PROVE UNCHANGED authVars
  BY <1>6 DEF FloorBegin, CreateTableBegin, DeleteTable, CreateWaiterCallBegin, UpdateStatusBegin,
              FloorStep, CreateTableCommit, CreateWaiterCallCommit, UpdateStatusCommit,
              unchangedTenancy
<1>7. CASE UNCHANGED vars
  BY <1>1, <1>7 DEF vars, tenancyVars, authVars
<1>8. QED
  BY <1>1, <1>3, <1>4, <1>5, <1>6, <1>7 DEF Next, TenancyNext, FloorNext

(* A token whose revocation was written is accepted at most within the     *)
(* second in which it expires, whatever the purges of restarts delete.     *)
THEOREM RevokedStaysOutHolds == Spec => []RevokedStaysOut
<1>1. RevokedInv => RevokedStaysOut
  <2> SUFFICES ASSUME RevokedInv, NEW s \in loggedOut, decode_token(s)
               PROVE  now \div 2 = sessions[s].exp
    BY DEF RevokedStaysOut
  <2>1. sessions[s].exp \in Nat /\ now \in Nat
    BY ClaimsExpire DEF RevokedInv, SessionTypes
  <2>2. 2 * sessions[s].exp < now /\ sessions[s].exp >= now \div 2
    BY DEF RevokedInv, decode_token
  <2>3. QED
    BY <2>1, <2>2
<1>2. QED
  BY <1>1, RevokedInit, RevokedNext, PTL DEF Spec

-----------------------------------------------------------------------------
(* Types *)

Less == OpToRel(<, Nat)

LEMMA LessDef == \A x, y \in Nat : x < y => <<x, y>> \in Less
BY DEF Less, OpToRel

(* first() of a query that finds locations finds one of them. *)
LEMMA FirstExists ==
  ASSUME NEW rows \in SUBSET Locations, rows # {} PROVE First(rows) \in rows
<1>1. rows \subseteq Nat
  BY TenancyAssumption DEF Locations
<1>2. PICK l \in rows : \A k \in rows : ~ (<<k, l>> \in Less)
  BY <1>1, NatLessThanWellFounded, WFMin DEF Less
<1>3. ASSUME NEW k \in rows PROVE l <= k
  <2>1. k \in Nat /\ l \in Nat
    BY <1>1
  <2>2. ~ (k < l)
    BY <1>2, <2>1, LessDef
  <2>3. QED
    BY <2>1, <2>2
<1>4. QED
  BY <1>3 DEF First

Rows == {l \in Locations : locations[l] # None}

(* What a request in progress is about: rows that exist, values of use.    *)
Fits(op, seen, rows) ==
  /\ op \in Operation
  /\ op[1] = "update_restaurant" => seen \in rows \cup {None}
  /\ op[1] \in {"delete_location", "create_table"} => op[2] \in rows
  /\ op[1] = "create_table" => op[3] \in Numbers
  /\ op[1] = "get_location_bot" => seen \in Bots

Ops == \A q \in Requests : req[q].pc \in {"commit", "after"} => Fits(req[q].op, req[q].seen, Rows)

TypeInv == TypeOK /\ Ops

(* The parts of an operation by its name. *)
LEMMA OperationParts ==
  ASSUME NEW op \in Operation
  PROVE  /\ op[1] = "create_restaurant" =>
              op = <<"create_restaurant", op[2], op[3], op[4]>> /\ op[2] \in Agencies
              /\ op[3] \in Slugs /\ op[4] \in Bots \cup {None}
         /\ op[1] = "update_restaurant" =>
              op = <<"update_restaurant", op[2], op[3]>> /\ op[2] \in Restaurants /\ op[3] \in Bots
         /\ op[1] = "delete_restaurant" => op = <<"delete_restaurant", op[2]>> /\ op[2] \in Restaurants
         /\ op[1] = "delete_location" => op = <<"delete_location", op[2]>> /\ op[2] \in Locations
         /\ op[1] = "get_location_bot" => op = <<"get_location_bot", op[2]>> /\ op[2] \in Locations
         /\ op[1] = "create_table" =>
              op = <<"create_table", op[2], op[3]>> /\ op[2] \in Locations /\ op[3] \in Nat
         /\ op[1] = "create_waiter_call" => op = <<"create_waiter_call", op[2]>> /\ op[2] \in Tables
         /\ op[1] = "update_status" =>
              op = <<"update_status", op[2], op[3]>> /\ op[2] \in Calls /\ op[3] \in CallStatuses
BY DEF Operation

LEMMA OperationNames ==
  /\ \A a \in Agencies, slug \in Slugs, bot \in Bots \cup {None} :
       <<"create_restaurant", a, slug, bot>> \in Operation
  /\ \A r \in Restaurants, bot \in Bots : <<"update_restaurant", r, bot>> \in Operation
  /\ \A r \in Restaurants : <<"delete_restaurant", r>> \in Operation
  /\ \A l \in Locations : <<"delete_location", l>> \in Operation
  /\ \A l \in Locations : <<"get_location_bot", l>> \in Operation
  /\ \A l \in Locations, n \in Nat : <<"create_table", l, n>> \in Operation
  /\ \A t \in Tables : <<"create_waiter_call", t>> \in Operation
  /\ \A c \in Calls, status \in CallStatuses : <<"update_status", c, status>> \in Operation
BY DEF Operation

Pc == {"idle", "commit", "after", "done", "failed"}
Seen == Locations \cup Bots \cup {None}

(* A step of q keeps the types of the requests when what q turns to fits.  *)
LEMMA ToKeeps ==
  ASSUME TypeInv, NEW q \in Requests, NEW pc \in Pc, NEW op \in Operation \cup {None},
         NEW seen \in Seen, To(q, pc, op, seen),
         pc \in {"commit", "after"} => Fits(op, seen, Rows'),
         Rows \subseteq Rows'
  PROVE  req' \in [Requests -> RequestState] /\ Ops'
<1>1. req \in [Requests -> RequestState]
  BY DEF TypeInv, TypeOK, TenancyTypeOK
<1>2. [pc |-> pc, op |-> op, seen |-> seen] \in RequestState
  BY DEF RequestState, Pc, Seen
<1>3. req' = [req EXCEPT ![q] = [pc |-> pc, op |-> op, seen |-> seen]]
  BY DEF To
<1>4. req' \in [Requests -> RequestState]
  BY <1>1, <1>2, <1>3
<1>5. ASSUME NEW p \in Requests, req'[p].pc \in {"commit", "after"}
      PROVE  Fits(req'[p].op, req'[p].seen, Rows')
  <2>1. CASE p = q
    BY <1>1, <1>3, <1>5, <2>1
  <2>2. CASE p # q
    <3>1. req'[p] = req[p]
      BY <1>1, <1>3, <2>2
    <3>2. Fits(req[p].op, req[p].seen, Rows)
      BY <1>5, <3>1 DEF TypeInv, Ops
    <3>3. Fits(req[p].op, req[p].seen, Rows')
      BY <3>2 DEF Fits
    <3>4. QED
      BY <3>1, <3>3
  <2>3. QED
    BY <2>1, <2>2
<1>6. Ops'
  BY <1>5 DEF Ops
<1>7. QED
  BY <1>4, <1>6

RowsType ==
  /\ agencies \in [Agencies -> Agency]
  /\ restaurants \in [Restaurants -> RestaurantRow \cup {None}]
  /\ locations \in [Locations -> LocationRow \cup {None}]
CacheType == botCache \in [Locations -> Bots \cup {None}]
FloorType == /\ tables \in [Tables -> TableRow \cup {None}]
             /\ calls \in [Calls -> CallRow \cup {None}]
RequestsType == req \in [Requests -> RequestState] /\ overlap \subseteq SUBSET Requests

LEMMA TypeParts ==
  TypeOK <=> /\ RowsType /\ CacheType /\ FloorType /\ RequestsType
             /\ now \in Time /\ sessions \in [Tokens -> Claims \cup {None}]
             /\ revoked \subseteq Tokens /\ loggedOut \subseteq Tokens
BY DEF TypeOK, TenancyTypeOK, RowsType, CacheType, FloorType, RequestsType

(* What a request has begun, by the name of its operation. *)
LEMMA AtParts ==
  ASSUME TypeInv, NEW q \in Requests, NEW pc \in {"commit", "after"}, NEW name, At(q, pc, name)
  PROVE  Fits(req[q].op, req[q].seen, Rows) /\ req[q].op[1] = name /\ req[q].pc = pc
BY DEF At, TypeInv, Ops

(* Rows are not deleted and keep their types. *)
LEMMA LocationSet ==
  ASSUME RowsType, NEW l \in Locations, NEW row \in LocationRow,
         locations' = [locations EXCEPT ![l] = row]
  PROVE  locations' \in [Locations -> LocationRow \cup {None}] /\ Rows \subseteq Rows'
<1>1. row # None
  BY TenancyAssumption
<1>2. QED
  BY <1>1 DEF RowsType, Rows

LEMMA AgencyRows ==
  ASSUME TypeInv, NEW q \in Requests, NEW a \in Agencies, CreateAgency(q, a) \/ UpdateAgency(q, a)
  PROVE  RowsType' /\ Rows' = Rows
BY TypeParts DEF TypeInv, CreateAgency, UpdateAgency, RowsType, Rows, Agency

LEMMA RestaurantRows ==
  ASSUME TypeInv, NEW q \in Requests, NEW r \in Restaurants,
         FreezeRestaurant(q, r) \/ DeleteRestaurant(q, r)
           \/ \E a \in Agencies : TransferRestaurant(q, r, a)
  PROVE  RowsType' /\ Rows' = Rows
<1>0. RowsType
  BY TypeParts DEF TypeInv
<1>1. UNCHANGED <<agencies, locations>>
  BY DEF FreezeRestaurant, DeleteRestaurant, TransferRestaurant
<1>2. restaurants[r] # None
  BY TenancyAssumption DEF FreezeRestaurant, DeleteRestaurant, TransferRestaurant, RestaurantsOf
<1>3. restaurants[r] \in RestaurantRow
  BY <1>0, <1>2 DEF RowsType
<1>4. \E row \in RestaurantRow : restaurants' = [restaurants EXCEPT ![r] = row]
  <2>1. CASE \E active \in BOOLEAN : restaurants' = [restaurants EXCEPT ![r].active = active]
    <3>1. PICK active \in BOOLEAN : restaurants' = [restaurants EXCEPT ![r].active = active]
      BY <2>1
    <3>2. [restaurants[r] EXCEPT !.active = active] \in RestaurantRow
      BY <1>3 DEF RestaurantRow
    <3>3. restaurants' = [restaurants EXCEPT ![r] = [restaurants[r] EXCEPT !.active = active]]
      BY <3>1
    <3>4. QED
      BY <3>2, <3>3
  <2>2. CASE \E a \in Agencies : restaurants' = [restaurants EXCEPT ![r].agency = a]
    <3>1. PICK a \in Agencies : restaurants' = [restaurants EXCEPT ![r].agency = a]
      BY <2>2
    <3>2. [restaurants[r] EXCEPT !.agency = a] \in RestaurantRow
      BY <1>3 DEF RestaurantRow
    <3>3. restaurants' = [restaurants EXCEPT ![r] = [restaurants[r] EXCEPT !.agency = a]]
      BY <3>1
    <3>4. QED
      BY <3>2, <3>3
  <2>3. QED
    BY <2>1, <2>2 DEF FreezeRestaurant, DeleteRestaurant, TransferRestaurant
<1>5. QED
  BY <1>0, <1>1, <1>4 DEF RowsType, Rows

LEMMA CreateRestaurantRows ==
  ASSUME TypeInv, NEW q \in Requests, CreateRestaurantCommit(q)
  PROVE  RowsType' /\ Rows \subseteq Rows'
<1>0. RowsType
  BY TypeParts DEF TypeInv
<1>1. /\ req[q].op[2] \in Agencies /\ req[q].op[3] \in Slugs
      /\ req[q].op[4] \in Bots \cup {None}
  <2>1. req[q].op \in Operation /\ req[q].op[1] = "create_restaurant"
    BY AtParts DEF CreateRestaurantCommit, Fits
  <2>2. QED
    BY <2>1, OperationParts
<1>2. CASE UNCHANGED <<restaurants, locations>>
  BY <1>0, <1>2 DEF CreateRestaurantCommit, RowsType, Rows
<1>3. CASE ~ UNCHANGED <<restaurants, locations>>
  <2>1. PICK r \in Restaurants, l \in Locations :
          /\ restaurants' = [restaurants EXCEPT ![r] =
               [agency |-> req[q].op[2], slug |-> req[q].op[3], active |-> TRUE]]
          /\ locations' = [locations EXCEPT ![l] =
               [restaurant |-> r, slug |-> req[q].op[3], active |-> TRUE, bot |-> req[q].op[4],
                waiter |-> FALSE]]
    BY <1>3 DEF CreateRestaurantCommit
  <2>2. [agency |-> req[q].op[2], slug |-> req[q].op[3], active |-> TRUE] \in RestaurantRow
    BY <1>1 DEF RestaurantRow
  <2>3. [restaurant |-> r, slug |-> req[q].op[3], active |-> TRUE, bot |-> req[q].op[4],
         waiter |-> FALSE] \in LocationRow
    BY <1>1 DEF LocationRow
  <2>4. locations' \in [Locations -> LocationRow \cup {None}] /\ Rows \subseteq Rows'
    BY <1>0, <2>1, <2>3, LocationSet
  <2>5. restaurants' \in [Restaurants -> RestaurantRow \cup {None}]
    BY <1>0, <2>1, <2>2 DEF RowsType
  <2>6. QED
    BY <1>0, <2>4, <2>5 DEF RowsType, CreateRestaurantCommit
<1>4. QED
  BY <1>2, <1>3

(* A location is changed in one of its fields. *)
LEMMA LocationFields ==
  ASSUME NEW row \in LocationRow
  PROVE  /\ \A bot \in Bots : [row EXCEPT !.bot = bot] \in LocationRow
         /\ \A slug \in Slugs : [row EXCEPT !.slug = slug] \in LocationRow
         /\ \A flag \in BOOLEAN : [row EXCEPT !.waiter = flag] \in LocationRow
         /\ \A flag \in BOOLEAN : [row EXCEPT !.active = flag] \in LocationRow
BY DEF LocationRow

LEMMA UpdateRestaurantRows ==
  ASSUME TypeInv, NEW q \in Requests, UpdateRestaurantCommit(q)
  PROVE  RowsType' /\ Rows \subseteq Rows'
<1>0. RowsType
  BY TypeParts DEF TypeInv
<1> DEFINE l == req[q].seen
<1>1. l \in Rows \cup {None} /\ req[q].op[3] \in Bots
  <2>1. req[q].op \in Operation /\ req[q].op[1] = "update_restaurant" /\ l \in Rows \cup {None}
    BY AtParts DEF UpdateRestaurantCommit, Fits
  <2>2. QED
    BY <2>1, OperationParts
<1>2. locations' = [k \in Locations |->
        IF k = l THEN [locations[k] EXCEPT !.bot = req[q].op[3]] ELSE locations[k]]
  BY DEF UpdateRestaurantCommit
<1>3. CASE l = None
  <2>1. \A k \in Locations : k # l
    BY <1>3, TenancyAssumption
  <2>2. locations' = locations
    BY <1>0, <1>2, <2>1 DEF RowsType
  <2>3. QED
    BY <1>0, <2>2 DEF UpdateRestaurantCommit, RowsType, Rows
<1>4. CASE l \in Rows
  <2>1. l \in Locations /\ locations[l] \in LocationRow
    BY <1>0, <1>4 DEF Rows, RowsType
  <2>2. [locations[l] EXCEPT !.bot = req[q].op[3]] \in LocationRow
    BY <1>1, <2>1, LocationFields
  <2>3. locations' = [locations EXCEPT ![l] = [locations[l] EXCEPT !.bot = req[q].op[3]]]
    BY <1>0, <1>2, <2>1 DEF RowsType
  <2>4. locations' \in [Locations -> LocationRow \cup {None}] /\ Rows \subseteq Rows'
    BY <1>0, <2>1, <2>2, <2>3, LocationSet
  <2>5. QED
    BY <1>0, <2>4 DEF UpdateRestaurantCommit, RowsType
<1>5. QED
  BY <1>1, <1>3, <1>4

LEMMA LocationRows ==
  ASSUME TypeInv, NEW q \in Requests,
         \/ \E r \in Restaurants, slug \in Slugs : CreateLocation(q, r, slug)
         \/ \E r \in Restaurants, l \in Locations : UpdateLocation(q, r, l)
         \/ DeleteLocationCommit(q)
  PROVE  RowsType' /\ Rows \subseteq Rows'
<1>0. RowsType
  BY TypeParts DEF TypeInv
<1>1. UNCHANGED <<agencies, restaurants>>
  BY DEF CreateLocation, UpdateLocation, DeleteLocationCommit
<1>2. SUFFICES \E l \in Locations, row \in LocationRow : locations' = [locations EXCEPT ![l] = row]
  BY <1>0, <1>1, LocationSet DEF RowsType
<1>3. CASE \E r \in Restaurants, slug \in Slugs : CreateLocation(q, r, slug)
  <2>1. PICK r \in Restaurants, slug \in Slugs, l \in Locations, waiter \in BOOLEAN :
          locations' = [locations EXCEPT ![l] =
            [restaurant |-> r, slug |-> slug, active |-> TRUE, bot |-> None, waiter |-> waiter]]
    BY <1>3 DEF CreateLocation
  <2>2. [restaurant |-> r, slug |-> slug, active |-> TRUE, bot |-> None, waiter |-> waiter]
          \in LocationRow
    BY DEF LocationRow
  <2>3. QED
    BY <2>1, <2>2
<1>4. CASE \E r \in Restaurants, l \in Locations : UpdateLocation(q, r, l)
  <2>1. PICK r \in Restaurants, l \in Locations : UpdateLocation(q, r, l)
    BY <1>4
  <2>2. locations[l] \in LocationRow
    BY <1>0, <2>1 DEF UpdateLocation, LocationsOf, RowsType
  <2>3. CASE \E slug \in Slugs : locations' = [locations EXCEPT ![l].slug = slug]
    <3>1. PICK slug \in Slugs : locations' = [locations EXCEPT ![l] = [locations[l] EXCEPT !.slug = slug]]
      BY <2>3
    <3>2. QED
      BY <2>2, <3>1, LocationFields
  <2>4. CASE \E waiter \in BOOLEAN : locations' = [locations EXCEPT ![l].waiter = waiter]
    <3>1. PICK flag \in BOOLEAN : locations' = [locations EXCEPT ![l] = [locations[l] EXCEPT !.waiter = flag]]
      BY <2>4
    <3>2. QED
      BY <2>2, <3>1, LocationFields
  <2>5. QED
    BY <2>1, <2>3, <2>4 DEF UpdateLocation
<1>5. CASE DeleteLocationCommit(q)
  <2>1. req[q].op[2] \in Rows
    BY <1>5, AtParts DEF DeleteLocationCommit, Fits
  <2>2. req[q].op[2] \in Locations /\ locations[req[q].op[2]] \in LocationRow
    BY <1>0, <2>1 DEF Rows, RowsType
  <2>3. locations' = [locations EXCEPT ![req[q].op[2]] = [locations[req[q].op[2]] EXCEPT !.active = FALSE]]
    BY <1>5 DEF DeleteLocationCommit
  <2>4. QED
    BY <2>2, <2>3, LocationFields
<1>6. QED
  BY <1>3, <1>4, <1>5

LEMMA RowsStep == ASSUME TypeInv, [Next]_vars PROVE RowsType' /\ Rows \subseteq Rows'
<1>1. CASE UNCHANGED rowVars
  BY <1>1, TypeParts DEF TypeInv, RowsType, rowVars, Rows
<1>2. ASSUME NEW q \in Requests, TenancyBegin(q) PROVE RowsType' /\ Rows \subseteq Rows'
  <2>1. CASE UNCHANGED rowVars
    BY <1>1, <2>1
  <2>2. CASE \E a \in Agencies : CreateAgency(q, a) \/ UpdateAgency(q, a)
    BY <2>2, AgencyRows
  <2>3. CASE \E r \in Restaurants : \/ FreezeRestaurant(q, r) \/ DeleteRestaurant(q, r)
                                    \/ \E a \in Agencies : TransferRestaurant(q, r, a)
    BY <2>3, RestaurantRows
  <2>4. CASE \/ \E r \in Restaurants, slug \in Slugs : CreateLocation(q, r, slug)
             \/ \E r \in Restaurants, l \in Locations : UpdateLocation(q, r, l)
    BY <2>4, LocationRows
  <2>5. QED
    BY <1>2, <2>1, <2>2, <2>3, <2>4
       DEF TenancyBegin, Login, Logout, CreateRestaurantBegin, UpdateRestaurantBegin,
           DeleteLocationBegin, ReadLocation
<1>3. ASSUME NEW q \in Requests, TenancyStep(q) PROVE RowsType' /\ Rows \subseteq Rows'
  BY <1>1, <1>3, CreateRestaurantRows, UpdateRestaurantRows, LocationRows
     DEF TenancyStep, UpdateRestaurantInvalidate,
         UpdateRestaurantFails, DeleteRestaurantInvalidate, GetLocationBot
<1>4. ASSUME NEW q \in Requests, FloorBegin(q) \/ FloorStep(q) PROVE UNCHANGED rowVars
  BY <1>4 DEF FloorBegin, CreateTableBegin, DeleteTable, CreateWaiterCallBegin, UpdateStatusBegin,
              FloorStep, CreateTableCommit, CreateWaiterCallCommit, UpdateStatusCommit,
              unchangedTenancy
<1>5. CASE Restart \/ Tick
  BY <1>1, <1>5 DEF Restart, Tick
<1>6. CASE UNCHANGED vars
  BY <1>1, <1>6 DEF vars, tenancyVars
<1>7. QED
  BY <1>1, <1>2, <1>3, <1>4, <1>5, <1>6 DEF Next, TenancyNext, FloorNext

LEMMA CacheStep == ASSUME TypeInv, [Next]_vars PROVE CacheType'
<1>0. CacheType /\ RowsType
  BY TypeParts DEF TypeInv
<1>1. CASE UNCHANGED botCache
  BY <1>0, <1>1 DEF CacheType
<1>2. ASSUME NEW l, invalidate_bot_cache(l) PROVE CacheType'
  BY <1>0, <1>2 DEF invalidate_bot_cache, CacheType
<1>3. ASSUME NEW q \in Requests, GetLocationBot(q) PROVE CacheType'
  <2>1. req[q].op \in Operation /\ req[q].op[1] = "get_location_bot" /\ req[q].seen \in Bots
    BY <1>3, AtParts DEF GetLocationBot, Fits
  <2>2. req[q].op[2] \in Locations
    BY <2>1, OperationParts
  <2>3. botCache' = [botCache EXCEPT ![req[q].op[2]] =
                       IF botCache[req[q].op[2]] = None THEN req[q].seen ELSE botCache[req[q].op[2]]]
    BY <1>3 DEF GetLocationBot
  <2>4. QED
    BY <1>0, <2>1, <2>2, <2>3 DEF CacheType
<1>4. ASSUME NEW q \in Requests, TenancyStep(q) PROVE CacheType'
  BY <1>1, <1>2, <1>3, <1>4
     DEF TenancyStep, CreateRestaurantCommit, UpdateRestaurantCommit, UpdateRestaurantInvalidate,
         UpdateRestaurantFails,
         DeleteRestaurantInvalidate, DeleteLocationCommit
<1>5. ASSUME NEW q \in Requests, TenancyBegin(q) PROVE UNCHANGED botCache
  BY <1>5
     DEF TenancyBegin, Login, Logout, CreateAgency, UpdateAgency, FreezeRestaurant, DeleteRestaurant,
         TransferRestaurant, CreateRestaurantBegin, UpdateRestaurantBegin, CreateLocation,
         UpdateLocation, DeleteLocationBegin, ReadLocation
<1>6. ASSUME NEW q \in Requests, FloorBegin(q) \/ FloorStep(q) PROVE UNCHANGED botCache
  BY <1>6 DEF FloorBegin, CreateTableBegin, DeleteTable, CreateWaiterCallBegin, UpdateStatusBegin,
              FloorStep, CreateTableCommit, CreateWaiterCallCommit, UpdateStatusCommit,
              unchangedTenancy
<1>7. CASE Restart \/ Tick
  BY <1>1, <1>7 DEF Restart, Tick, CacheType
<1>8. CASE UNCHANGED vars
  BY <1>1, <1>8 DEF vars, tenancyVars
<1>9. QED
  BY <1>1, <1>4, <1>5, <1>6, <1>7, <1>8 DEF Next, TenancyNext, FloorNext

LEMMA TablesStep ==
  ASSUME TypeInv, NEW q \in Requests, CreateTableCommit(q) PROVE FloorType'
<1>0. FloorType /\ RowsType
  BY TypeParts DEF TypeInv
<1> DEFINE l == req[q].op[2]
           n == req[q].op[3]
<1>1. /\ req[q].op \in Operation /\ req[q].op[1] = "create_table"
      /\ l \in Rows /\ n \in Numbers
  BY AtParts DEF CreateTableCommit, Fits
<1>2. locations[l].restaurant \in Restaurants /\ l \in Locations
  BY <1>0, <1>1 DEF Rows, RowsType, LocationRow
<1>3. CASE UNCHANGED tables
  BY <1>0, <1>3 DEF CreateTableCommit, FloorType
<1>4. ASSUME NEW t \in Tables,
             tables' = [tables EXCEPT ![t] =
               [restaurant |-> locations[l].restaurant, location |-> l, number |-> n]]
      PROVE  FloorType'
  <2>1. [restaurant |-> locations[l].restaurant, location |-> l, number |-> n] \in TableRow
    BY <1>1, <1>2 DEF TableRow
  <2>2. UNCHANGED calls
    BY DEF CreateTableCommit
  <2>3. QED
    BY <1>0, <1>4, <2>1, <2>2 DEF FloorType
<1>5. QED
  BY <1>3, <1>4 DEF CreateTableCommit

LEMMA CallsStep ==
  ASSUME TypeInv, NEW q \in Requests,
         \/ \E r \in Restaurants, t \in Tables : DeleteTable(q, r, t)
         \/ CreateWaiterCallCommit(q) \/ UpdateStatusCommit(q)
  PROVE  FloorType'
<1>0. FloorType
  BY TypeParts DEF TypeInv
<1>1. CASE \E r \in Restaurants, t \in Tables : DeleteTable(q, r, t)
  BY <1>0, <1>1 DEF DeleteTable, FloorType
<1>2. CASE CreateWaiterCallCommit(q)
  <2>1. req[q].op[2] \in Tables
    BY <1>2, AtParts, OperationParts DEF CreateWaiterCallCommit, Fits
  <2>2. [table |-> req[q].op[2], status |-> "active"] \in CallRow
    BY <2>1 DEF CallRow, CallStatus
  <2>3. QED
    BY <1>0, <1>2, <2>2 DEF CreateWaiterCallCommit, FloorType
<1>3. CASE UpdateStatusCommit(q)
  <2> DEFINE c == req[q].op[2]
  <2>1. c \in Calls /\ req[q].op[3] \in CallStatus
    BY <1>3, AtParts, OperationParts, FloorAssumption DEF UpdateStatusCommit, Fits
  <2>2. CASE calls[c] = None
    BY <1>0, <1>3, <2>1, <2>2 DEF UpdateStatusCommit, FloorType
  <2>3. CASE calls[c] # None
    <3>1. [calls[c] EXCEPT !.status = req[q].op[3]] \in CallRow
      BY <1>0, <2>1, <2>3 DEF FloorType, CallRow
    <3>2. calls' = [calls EXCEPT ![c] = [calls[c] EXCEPT !.status = req[q].op[3]]]
      BY <1>3, <2>3 DEF UpdateStatusCommit
    <3>3. UNCHANGED tables
      BY <1>3 DEF UpdateStatusCommit
    <3>4. QED
      BY <1>0, <2>1, <3>1, <3>2, <3>3 DEF FloorType
  <2>4. QED
    BY <2>2, <2>3
<1>4. QED
  BY <1>1, <1>2, <1>3

LEMMA FloorTypeStep == ASSUME TypeInv, [Next]_vars PROVE FloorType'
<1>1. CASE UNCHANGED floorVars
  BY <1>1, TypeParts DEF TypeInv, FloorType, floorVars
<1>2. ASSUME NEW q \in Requests, FloorBegin(q) \/ FloorStep(q) PROVE FloorType'
  BY <1>1, <1>2, TablesStep, CallsStep
     DEF FloorBegin, CreateTableBegin, CreateWaiterCallBegin, UpdateStatusBegin, FloorStep
<1>3. CASE UNCHANGED vars
  BY <1>1, <1>3 DEF vars
<1>4. QED
  BY <1>1, <1>2, <1>3 DEF Next, FloorNext

LEMMA PairsKeep ==
  ASSUME TypeInv, NEW q \in Requests, overlap' = overlap \cup {{q, p} : p \in Running} \/ UNCHANGED overlap
  PROVE  overlap' \subseteq SUBSET Requests
BY TypeParts DEF TypeInv, RequestsType, Running

LEMMA BeginKeeps ==
  ASSUME TypeInv, NEW q \in Requests, NEW op \in Operation, NEW seen \in Seen, Begin(q, op, seen),
         Fits(op, seen, Rows'), Rows \subseteq Rows'
  PROVE  RequestsType' /\ Ops'
BY ToKeeps, PairsKeep DEF Begin, RequestsType, Pc

LEMMA DoneKeeps ==
  ASSUME TypeInv, NEW q \in Requests, Spend(q) \/ Finish(q) \/ Fail(q), Rows \subseteq Rows'
  PROVE  RequestsType' /\ Ops'
<1>1. req[q].op \in Operation \cup {None} /\ req[q].seen \in Seen
  BY TypeParts DEF TypeInv, RequestsType, RequestState, Seen
<1>2. \E pc \in {"done", "failed"}, op \in Operation \cup {None}, seen \in Seen : To(q, pc, op, seen)
  BY <1>1 DEF Spend, Finish, Fail, Seen
<1>3. UNCHANGED overlap
  BY DEF Spend, Finish, Fail
<1>4. QED
  BY <1>2, <1>3, ToKeeps, PairsKeep DEF RequestsType, Pc, Seen

LEMMA ProceedKeeps ==
  ASSUME TypeInv, NEW q \in Requests, Proceed(q), Rows \subseteq Rows',
         Fits(req[q].op, req[q].seen, Rows)
  PROVE  RequestsType' /\ Ops'
<1>1. req[q].op \in Operation /\ req[q].seen \in Seen
  BY TypeParts DEF TypeInv, RequestsType, RequestState, Fits, Seen
<1>2. Fits(req[q].op, req[q].seen, Rows')
  BY DEF Fits
<1>3. To(q, "after", req[q].op, req[q].seen) /\ UNCHANGED overlap
  BY DEF Proceed
<1>4. QED
  BY <1>1, <1>2, <1>3, ToKeeps, PairsKeep DEF RequestsType, Pc

LEMMA RestartRequests == ASSUME TypeInv, Restart PROVE RequestsType' /\ Ops'
<1>0. req \in [Requests -> RequestState] /\ overlap \subseteq SUBSET Requests
  BY TypeParts DEF TypeInv, RequestsType
<1>1. ASSUME NEW q \in Requests
      PROVE  [pc |-> "done", seen |-> None,
              op |-> IF req[q].pc = "after" THEN req[q].op ELSE None] \in RequestState
  BY <1>0 DEF RequestState
<1>2. /\ req' = [q \in Requests |->
                   IF q \in Running
                     THEN [pc |-> "done", seen |-> None,
                           op |-> IF req[q].pc = "after" THEN req[q].op ELSE None]
                     ELSE req[q]]
      /\ UNCHANGED overlap
  BY DEF Restart
<1>3. req' \in [Requests -> RequestState]
  BY <1>0, <1>1, <1>2
<1>4. ASSUME NEW q \in Requests PROVE req'[q].pc \notin {"commit", "after"}
  BY <1>0, <1>2 DEF Running, RequestState
<1>5. QED
  BY <1>0, <1>2, <1>3, <1>4 DEF RequestsType, Ops

LEMMA BeginRequests ==
  ASSUME TypeInv, NEW q \in Requests, TenancyBegin(q), Rows \subseteq Rows'
  PROVE  RequestsType' /\ Ops'
<1>0. RowsType
  BY TypeParts DEF TypeInv
<1>1. CASE Spend(q)
  BY <1>1, DoneKeeps
<1>2. ASSUME NEW a \in Agencies, NEW slug \in Slugs, NEW bot \in Bots \cup {None},
             CreateRestaurantBegin(q, a, slug, bot)
      PROVE  RequestsType' /\ Ops'
  <2> DEFINE op == <<"create_restaurant", a, slug, bot>>
  <2>1. op \in Operation
    BY OperationNames
  <2>2. Fits(op, None, Rows')
    BY <2>1 DEF Fits
  <2>3. QED
    BY <1>2, <2>1, <2>2, BeginKeeps DEF CreateRestaurantBegin, Seen
<1>3. ASSUME NEW r \in Restaurants, NEW bot \in Bots, UpdateRestaurantBegin(q, r, bot)
      PROVE  RequestsType' /\ Ops'
  <2> DEFINE op == <<"update_restaurant", r, bot>>
             seen == _get_primary_location(r)
  <2>1. op \in Operation
    BY OperationNames
  <2>2. ActiveLocations(r) \in SUBSET Locations /\ ActiveLocations(r) \subseteq Rows
    BY DEF ActiveLocations, LocationsOf, Rows
  <2>3. seen \in Rows \cup {None}
    BY <2>2, FirstExists DEF _get_primary_location, First
  <2>4. seen \in Seen /\ seen \in Rows' \cup {None}
    BY <2>3 DEF Seen, Rows
  <2>5. Fits(op, seen, Rows')
    BY <2>1, <2>4 DEF Fits
  <2>6. Begin(q, op, seen)
    BY <1>3 DEF UpdateRestaurantBegin
  <2> HIDE DEF op, seen
  <2>7. QED
    BY <2>1, <2>4, <2>5, <2>6, BeginKeeps
<1>4. ASSUME NEW r \in Restaurants, DeleteRestaurant(q, r) PROVE RequestsType' /\ Ops'
  <2> DEFINE op == <<"delete_restaurant", r>>
  <2>1. op \in Operation
    BY OperationNames
  <2>2. Fits(op, None, Rows')
    BY <2>1 DEF Fits
  <2>3. QED
    BY <1>4, <2>1, <2>2, ToKeeps, PairsKeep DEF DeleteRestaurant, Seen, Pc, RequestsType
<1>5. ASSUME NEW r \in Restaurants, NEW l \in Locations, DeleteLocationBegin(q, r, l)
      PROVE  RequestsType' /\ Ops'
  <2> DEFINE op == <<"delete_location", l>>
  <2>1. op \in Operation
    BY OperationNames
  <2>2. l \in Rows'
    BY <1>5 DEF DeleteLocationBegin, ActiveLocations, LocationsOf, Rows
  <2>3. Fits(op, None, Rows')
    BY <2>1, <2>2 DEF Fits
  <2>4. QED
    BY <1>5, <2>1, <2>3, BeginKeeps DEF DeleteLocationBegin, Seen
<1>6. ASSUME NEW l \in Locations, ReadLocation(q, l) PROVE RequestsType' /\ Ops'
  <2> DEFINE op == <<"get_location_bot", l>>
  <2>1. op \in Operation
    BY OperationNames
  <2>2. locations[l].bot \in Bots
    BY <1>0, <1>6 DEF ReadLocation, RowsType, LocationRow
  <2>3. Fits(op, locations[l].bot, Rows')
    BY <2>1, <2>2 DEF Fits
  <2>4. QED
    BY <1>6, <2>1, <2>2, <2>3, BeginKeeps DEF ReadLocation, Seen
<1>7. QED
  BY <1>1, <1>2, <1>3, <1>4, <1>5, <1>6
     DEF TenancyBegin, Login, Logout, CreateAgency, UpdateAgency, FreezeRestaurant,
         TransferRestaurant, CreateLocation, UpdateLocation

LEMMA FloorBeginRequests ==
  ASSUME TypeInv, NEW q \in Requests, FloorBegin(q), Rows \subseteq Rows'
  PROVE  RequestsType' /\ Ops'
<1>1. CASE Spend(q)
  BY <1>1, DoneKeeps
<1>2. ASSUME NEW r \in Restaurants, NEW n \in Numbers, CreateTableBegin(q, r, n)
      PROVE  RequestsType' /\ Ops'
  <2>1. PICK l \in LocationsOf(r) : Begin(q, <<"create_table", l, n>>, None)
    BY <1>2 DEF CreateTableBegin
  <2>2. l \in Locations /\ l \in Rows'
    BY DEF LocationsOf, Rows
  <2>3. <<"create_table", l, n>> \in Operation
    BY <2>2, OperationNames, FloorAssumption
  <2>4. Fits(<<"create_table", l, n>>, None, Rows')
    BY <2>2, <2>3 DEF Fits
  <2>5. QED
    BY <2>1, <2>3, <2>4, BeginKeeps DEF Seen
<1>3. ASSUME NEW t \in Tables, CreateWaiterCallBegin(q, t) PROVE RequestsType' /\ Ops'
  <2>1. <<"create_waiter_call", t>> \in Operation
    BY OperationNames
  <2>2. Fits(<<"create_waiter_call", t>>, None, Rows')
    BY <2>1 DEF Fits
  <2>3. QED
    BY <1>3, <2>1, <2>2, BeginKeeps DEF CreateWaiterCallBegin, Seen
<1>4. ASSUME NEW r \in Restaurants, NEW c \in Calls, NEW status \in CallStatuses,
             UpdateStatusBegin(q, r, c, status)
      PROVE  RequestsType' /\ Ops'
  <2>1. <<"update_status", c, status>> \in Operation
    BY OperationNames
  <2>2. Fits(<<"update_status", c, status>>, None, Rows')
    BY <2>1 DEF Fits
  <2>3. QED
    BY <1>4, <2>1, <2>2, BeginKeeps DEF UpdateStatusBegin, Seen
<1>5. QED
  BY <1>1, <1>2, <1>3, <1>4 DEF FloorBegin, DeleteTable

LEMMA RequestsStep == ASSUME TypeInv, [Next]_vars PROVE RequestsType' /\ Ops'
<1>0. Rows \subseteq Rows'
  BY RowsStep
<1>1. CASE UNCHANGED <<req, overlap>>
  BY <1>0, <1>1, TypeParts DEF TypeInv, RequestsType, Ops, Fits
<1>2. ASSUME NEW q \in Requests, UpdateRestaurantCommit(q) PROVE RequestsType' /\ Ops'
  BY <1>0, <1>2, AtParts, ProceedKeeps DEF UpdateRestaurantCommit
<1>3. ASSUME NEW q \in Requests, TenancyStep(q) \/ FloorStep(q) PROVE RequestsType' /\ Ops'
  BY <1>0, <1>2, <1>3, DoneKeeps
     DEF TenancyStep, CreateRestaurantCommit, UpdateRestaurantInvalidate,
         UpdateRestaurantFails, DeleteLocationCommit,
         DeleteRestaurantInvalidate, GetLocationBot, FloorStep, CreateTableCommit,
         CreateWaiterCallCommit, UpdateStatusCommit
<1>4. CASE Tick
  BY <1>1, <1>4 DEF Tick, requestVars
<1>5. CASE UNCHANGED vars
  BY <1>1, <1>5 DEF vars, tenancyVars, requestVars
<1>6. QED
  BY <1>0, <1>3, <1>4, <1>5, BeginRequests, FloorBeginRequests, RestartRequests
     DEF Next, TenancyNext, FloorNext

LEMMA TimeStep == ASSUME now \in Time, [Next]_vars PROVE now' \in Time
<1>1. CASE Tick
  BY <1>1, TenancyAssumption DEF Tick, Time
<1>2. CASE ~ Tick
  BY <1>2
     DEF Next, TenancyNext, FloorNext, TenancyBegin, TenancyStep, FloorBegin, FloorStep, vars,
         tenancyVars, authVars, unchangedTenancy, Restart, Login, Logout, CreateAgency, UpdateAgency,
         FreezeRestaurant, DeleteRestaurant, TransferRestaurant, CreateRestaurantBegin,
         UpdateRestaurantBegin, CreateLocation, UpdateLocation, DeleteLocationBegin, ReadLocation,
         CreateRestaurantCommit, UpdateRestaurantCommit, UpdateRestaurantInvalidate,
         UpdateRestaurantFails,
         DeleteRestaurantInvalidate, DeleteLocationCommit, GetLocationBot, CreateTableBegin,
         DeleteTable, CreateWaiterCallBegin, UpdateStatusBegin, CreateTableCommit,
         CreateWaiterCallCommit, UpdateStatusCommit
<1>3. QED
  BY <1>1, <1>2

LEMMA TypeInit == Init => TypeInv
<1> SUFFICES ASSUME Init PROVE TypeInv
  OBVIOUS
<1>1. RowsType /\ CacheType /\ FloorType
  BY TenancyAssumption, FloorAssumption DEF Init, TenancyInit, RowsType, CacheType, FloorType
<1>2. RequestsType /\ Ops
  BY DEF Init, TenancyInit, RequestsType, RequestState, Idle, Ops
<1>3. now \in Time
  BY TenancyAssumption DEF Init, TenancyInit, Time
<1>4. QED
  BY <1>1, <1>2, <1>3, TypeParts, TenancyAssumption DEF Init, TenancyInit, TypeInv

LEMMA TypeStep == RevokedInv /\ TypeInv /\ [Next]_vars => TypeInv'
<1> SUFFICES ASSUME RevokedInv, TypeInv, [Next]_vars PROVE TypeInv'
  OBVIOUS
<1>1. RowsType' /\ CacheType' /\ FloorType' /\ RequestsType' /\ Ops'
  BY RowsStep, CacheStep, FloorTypeStep, RequestsStep
<1>2. now' \in Time
  BY TimeStep, TypeParts DEF TypeInv
<1>3. sessions' \in [Tokens -> Claims \cup {None}] /\ revoked' \subseteq Tokens /\ loggedOut' \subseteq Tokens
  BY RevokedNext DEF RevokedInv, SessionTypes
<1>4. TypeOK'
  BY <1>1, <1>2, <1>3
     DEF TypeOK, TenancyTypeOK, RowsType, CacheType, FloorType, RequestsType
<1>5. QED
  BY <1>1, <1>4 DEF TypeInv

(* Everything has its type, and with it what a request in progress has     *)
(* read: a row it is about still exists at its commit.                     *)
THEOREM TypeInvariant == Spec => []TypeOK
<1>1. TypeInv => TypeOK
  BY DEF TypeInv
<1>2. QED
  BY <1>1, TypeStep, RevokedInit, RevokedNext, TypeInit, PTL DEF Spec

-----------------------------------------------------------------------------
(* The active location *)

(* Deletions of a location that have counted and not yet committed, and    *)
(* those of a restaurant's locations that have.                            *)
Pending(l) == {q \in Requests : req[q].pc = "commit" /\ req[q].op = <<"delete_location", l>>}
Deleted(r) == {q \in Requests : req[q].pc = "done"
                                /\ \E l \in LocationsOf(r) : req[q].op = <<"delete_location", l>>}

(* Requests in progress at one time are in overlap.                        *)
RunPairs == \A p, q \in Running : p # q => {p, q} \in overlap

Clash(r) == \E p, q \in Deleted(r) : p # q /\ {p, q} \in overlap

(* A deletion in progress leaves another active location, or was counted   *)
(* before one that has committed meanwhile.                                *)
Left(r) ==
  /\ ActiveLocations(r) # {}
  /\ \A l \in LocationsOf(r) : \A q \in Pending(l) :
       \/ \E k \in ActiveLocations(r) : k # l
       \/ \E p \in Deleted(r) : {p, q} \in overlap

RemainInv ==
  /\ RunPairs
  /\ \A l \in Locations : Pending(l) # {} => restaurants[locations[l].restaurant] # None
  /\ \A r \in Restaurants : restaurants[r] # None => Clash(r) \/ Left(r)

Over == {"done", "failed"}

(* What no step does to requests: change one that is over, forget that two *)
(* overlapped, begin one without noting which others are in progress.      *)
Frame ==
  /\ \A q \in Requests : req[q].pc \in Over => req'[q] = req[q]
  /\ overlap \subseteq overlap'
  /\ RunPairs => RunPairs'

NoNewPending == \A l \in Locations : Pending(l)' \subseteq Pending(l)

LEMMA DoneFrame ==
  ASSUME TypeInv, NEW q \in Requests, req[q].pc \notin Over,
         Spend(q) \/ Finish(q) \/ Fail(q) \/ (Proceed(q) /\ req[q].pc = "commit")
  PROVE  Frame /\ NoNewPending
<1>0. req \in [Requests -> RequestState]
  BY TypeParts DEF TypeInv, RequestsType
<1>1. PICK pc, op, seen :
        /\ pc \in {"done", "failed", "after"}
        /\ req' = [req EXCEPT ![q] = [pc |-> pc, op |-> op, seen |-> seen]]
        /\ pc = "after" => req[q].pc = "commit"
  BY DEF Spend, Finish, Fail, Proceed, To
<1>2. overlap' = overlap
  BY DEF Spend, Finish, Fail, Proceed
<1>3. ASSUME NEW p \in Requests
      PROVE  req'[p] = IF p = q THEN [pc |-> pc, op |-> op, seen |-> seen] ELSE req[p]
  BY <1>0, <1>1
<1>4. Running' \subseteq Running
  BY <1>1, <1>3 DEF Running, Over
<1>5. RunPairs => RunPairs'
  BY <1>2, <1>4 DEF RunPairs
<1>6. NoNewPending
  BY <1>1, <1>3 DEF NoNewPending, Pending
<1>7. QED
  BY <1>2, <1>3, <1>5, <1>6 DEF Frame

LEMMA BeginFrame ==
  ASSUME TypeInv, NEW q \in Requests, req[q].pc = "idle", NEW pc \in {"commit", "after"},
         NEW op, NEW seen, To(q, pc, op, seen), overlap' = overlap \cup {{q, p} : p \in Running}
  PROVE  /\ Frame
         /\ \A l \in Locations :
              Pending(l)' \subseteq Pending(l) \/ (pc = "commit" /\ op = <<"delete_location", l>>)
<1>0. req \in [Requests -> RequestState]
  BY TypeParts DEF TypeInv, RequestsType
<1>1. ASSUME NEW p \in Requests
      PROVE  req'[p] = IF p = q THEN [pc |-> pc, op |-> op, seen |-> seen] ELSE req[p]
  BY <1>0 DEF To
<1>2. Running' \subseteq Running \cup {q}
  BY <1>1 DEF Running
<1>3. ASSUME RunPairs, NEW p \in Running', NEW u \in Running', p # u PROVE {p, u} \in overlap'
  <2>1. CASE p = q
    <3>1. u \in Running
      BY <1>2, <1>3, <2>1
    <3>2. QED
      BY <2>1, <3>1
  <2>2. CASE u = q
    <3>1. p \in Running /\ {p, u} = {q, p}
      BY <1>2, <1>3, <2>2
    <3>2. QED
      BY <3>1
  <2>3. CASE p # q /\ u # q
    BY <1>2, <1>3, <2>3 DEF RunPairs
  <2>4. QED
    BY <2>1, <2>2, <2>3
<1>4. RunPairs => RunPairs'
  BY <1>3 DEF RunPairs
<1>5. ASSUME NEW l \in Locations, ~ (pc = "commit" /\ op = <<"delete_location", l>>)
      PROVE  Pending(l)' \subseteq Pending(l)
  <2>1. q \notin Pending(l)'
    <3>1. req'[q].pc = pc /\ req'[q].op = op
      BY <1>1
    <3>2. QED
      BY <1>5, <3>1 DEF Pending
  <2>2. ASSUME NEW p \in Requests, p # q PROVE req'[p] = req[p]
    BY <1>1, <2>2
  <2>3. QED
    BY <2>1, <2>2 DEF Pending
<1>6. QED
  BY <1>1, <1>4, <1>5 DEF Frame, Over

(* A deletion begins in one way. *)
LEMMA FrameStep ==
  ASSUME TypeInv, [Next]_vars
  PROVE  /\ Frame
         /\ \A l \in Locations :
              \/ Pending(l)' \subseteq Pending(l)
              \/ \E q \in Requests, r \in Restaurants :
                   req[q].pc = "idle" /\ DeleteLocationBegin(q, r, l)
<1>0. CASE Frame /\ NoNewPending
  BY <1>0 DEF NoNewPending
<1>1. ASSUME NEW q \in Requests, req[q].pc \notin Over,
             Spend(q) \/ Finish(q) \/ Fail(q) \/ (Proceed(q) /\ req[q].pc = "commit")
      PROVE  Frame /\ NoNewPending
  BY <1>1, DoneFrame
<1>2. ASSUME NEW q \in Requests, req[q].pc = "idle", NEW op, NEW seen, Begin(q, op, seen),
             op[1] # "delete_location"
      PROVE  Frame /\ NoNewPending
  <2>1. \A l \in Locations : op # <<"delete_location", l>>
    BY <1>2
  <2>2. To(q, "commit", op, seen) /\ overlap' = overlap \cup {{q, p} : p \in Running}
    BY <1>2 DEF Begin
  <2>3. QED
    BY <1>2, <2>1, <2>2, BeginFrame DEF NoNewPending
<1>3. ASSUME NEW q \in Requests, req[q].pc = "idle", NEW r \in Restaurants, DeleteRestaurant(q, r)
      PROVE  Frame /\ NoNewPending
  BY <1>3, BeginFrame DEF DeleteRestaurant, NoNewPending
<1>4. ASSUME NEW q \in Requests, req[q].pc = "idle", NEW r \in Restaurants, NEW l \in Locations,
             DeleteLocationBegin(q, r, l)
      PROVE  /\ Frame
             /\ \A k \in Locations : k # l => Pending(k)' \subseteq Pending(k)
  <2>1. \A k \in Locations : k # l => <<"delete_location", k>> # <<"delete_location", l>>
    OBVIOUS
  <2>2. /\ To(q, "commit", <<"delete_location", l>>, None)
        /\ overlap' = overlap \cup {{q, p} : p \in Running}
    BY <1>4 DEF DeleteLocationBegin, Begin
  <2>3. QED
    BY <1>4, <2>1, <2>2, BeginFrame
<1>5. ASSUME NEW q \in Requests, TenancyBegin(q),
             ~ \E r \in Restaurants, l \in Locations : DeleteLocationBegin(q, r, l)
      PROVE  Frame /\ NoNewPending
  <2>1. \A a \in Agencies, slug \in Slugs, bot \in Bots \cup {None} :
          <<"create_restaurant", a, slug, bot>>[1] # "delete_location"
    OBVIOUS
  <2>2. \A r \in Restaurants, bot \in Bots : <<"update_restaurant", r, bot>>[1] # "delete_location"
    OBVIOUS
  <2>3. \A l \in Locations : <<"get_location_bot", l>>[1] # "delete_location"
    OBVIOUS
  <2>4. req[q].pc = "idle"
    BY <1>5 DEF TenancyBegin
  <2>5. CASE Spend(q)
    BY <1>1, <2>4, <2>5 DEF Over
  <2>6. QED
    BY <1>2, <1>3, <1>5, <2>1, <2>2, <2>3, <2>4, <2>5
       DEF TenancyBegin, Login, Logout, CreateAgency, UpdateAgency, FreezeRestaurant,
           TransferRestaurant, CreateLocation, UpdateLocation, CreateRestaurantBegin,
           UpdateRestaurantBegin, ReadLocation
<1>6. ASSUME NEW q \in Requests, FloorBegin(q) PROVE Frame /\ NoNewPending
  <2>1. \A l \in Locations, n \in Numbers : <<"create_table", l, n>>[1] # "delete_location"
    OBVIOUS
  <2>2. \A t \in Tables : <<"create_waiter_call", t>>[1] # "delete_location"
    OBVIOUS
  <2>3. \A c \in Calls, status \in CallStatuses :
          <<"update_status", c, status>>[1] # "delete_location"
    OBVIOUS
  <2>4. req[q].pc = "idle"
    BY <1>6 DEF FloorBegin
  <2>5. CASE Spend(q)
    BY <1>1, <2>4, <2>5 DEF Over
  <2>6. QED
    BY <1>2, <1>6, <2>1, <2>2, <2>3, <2>4, <2>5
       DEF FloorBegin, CreateTableBegin, LocationsOf, DeleteTable, CreateWaiterCallBegin,
           UpdateStatusBegin
<1>7. ASSUME NEW q \in Requests, TenancyStep(q) \/ FloorStep(q) PROVE Frame /\ NoNewPending
  BY <1>1, <1>7
     DEF TenancyStep, CreateRestaurantCommit, UpdateRestaurantCommit, UpdateRestaurantInvalidate,
         UpdateRestaurantFails,
         DeleteRestaurantInvalidate, DeleteLocationCommit, GetLocationBot, FloorStep,
         CreateTableCommit, CreateWaiterCallCommit, UpdateStatusCommit, At, Over
<1>8. CASE Restart
  <2>1. /\ req' = [q \in Requests |->
                     IF q \in Running
                       THEN [pc |-> "done", seen |-> None,
                             op |-> IF req[q].pc = "after" THEN req[q].op ELSE None]
                       ELSE req[q]]
        /\ overlap' = overlap
    BY <1>8 DEF Restart
  <2>2. Running' = {}
    BY <2>1 DEF Running
  <2>3. \A l \in Locations : Pending(l)' = {}
    BY <2>2 DEF Pending, Running
  <2>4. \A q \in Requests : req[q].pc \in Over => req'[q] = req[q]
    BY <2>1 DEF Running, Over
  <2>5. Frame
    BY <2>1, <2>2, <2>4 DEF Frame, RunPairs
  <2>6. QED
    BY <2>3, <2>5
<1>9. CASE UNCHANGED <<req, overlap>>
  BY <1>9 DEF Frame, RunPairs, Running, Pending
<1>10. QED
  <2>1. CASE Tick
    BY <1>9, <2>1 DEF Tick, requestVars
  <2>2. CASE UNCHANGED vars
    BY <1>9, <2>2 DEF vars, tenancyVars, requestVars
  <2>3. ASSUME NEW q \in Requests, TenancyBegin(q),
               NEW r \in Restaurants, NEW l \in Locations, DeleteLocationBegin(q, r, l)
        PROVE  Frame /\ \A k \in Locations : k # l => Pending(k)' \subseteq Pending(k)
    BY <1>4, <2>3 DEF TenancyBegin
  <2>4. CASE \E q \in Requests : TenancyBegin(q)
    <3>1. PICK q \in Requests : TenancyBegin(q)
      BY <2>4
    <3>2. req[q].pc = "idle"
      BY <3>1 DEF TenancyBegin
    <3>3. CASE \E r \in Restaurants, l \in Locations : DeleteLocationBegin(q, r, l)
      BY <2>3, <3>1, <3>2, <3>3
    <3>4. QED
      BY <1>0, <1>5, <3>1, <3>3
  <2>5. QED
    BY <1>0, <1>6, <1>7, <1>8, <2>1, <2>2, <2>4 DEF Next, TenancyNext, FloorNext

(* What a step does to one location that is there. *)
LEMMA LocationKept ==
  ASSUME TypeInv, NEW l \in Locations, NEW row, locations' = [locations EXCEPT ![l] = row],
         l \in Rows => row.restaurant = locations[l].restaurant /\ row.active = locations[l].active
  PROVE  \A k \in Rows : /\ locations'[k].restaurant = locations[k].restaurant
                         /\ locations'[k].active = locations[k].active
<1>1. locations \in [Locations -> LocationRow \cup {None}]
  BY TypeParts DEF TypeInv, RowsType
<1>2. \A k \in Locations : locations'[k] = IF k = l THEN row ELSE locations[k]
  BY <1>1
<1>3. Rows \subseteq Locations
  BY DEF Rows
<1> HIDE DEF Rows
<1>4. QED
  BY <1>2, <1>3

LEMMA NewLocation == First({k \in Locations : locations[k] = None}) \notin Rows
<1> DEFINE free == {k \in Locations : locations[k] = None}
<1>1. CASE free = {}
  <2>1. First(free) = None
    BY <1>1 DEF First
  <2>2. QED
    BY <2>1, TenancyAssumption DEF Rows
<1>2. CASE free # {}
  <2>1. First(free) \in free
    BY <1>2, FirstExists
  <2>2. QED
    BY <2>1 DEF Rows
<1>3. QED
  BY <1>1, <1>2

RowsKept ==
  /\ \A l \in Rows : /\ locations'[l].restaurant = locations[l].restaurant
                     /\ locations'[l].active = locations[l].active
  /\ \A r \in Restaurants : restaurants[r] # None => restaurants'[r] # None
  /\ \A r \in Restaurants : restaurants'[r] # None =>
       restaurants[r] # None \/ ActiveLocations(r)' # {}

LEMMA CreatedKept ==
  ASSUME TypeInv, NEW q \in Requests, CreateRestaurantCommit(q) PROVE RowsKept
<1>0. RowsType
  BY TypeParts DEF TypeInv
<1>1. CASE UNCHANGED <<restaurants, locations>>
  BY <1>1 DEF RowsKept
<1>2. CASE ~ UNCHANGED <<restaurants, locations>>
  <2>1. PICK r \in Restaurants, l \in Locations :
          /\ restaurants[r] = None
          /\ l = First({k \in Locations : locations[k] = None})
          /\ restaurants' = [restaurants EXCEPT ![r] =
               [agency |-> req[q].op[2], slug |-> req[q].op[3], active |-> TRUE]]
          /\ locations' = [locations EXCEPT ![l] =
               [restaurant |-> r, slug |-> req[q].op[3], active |-> TRUE, bot |-> req[q].op[4],
                waiter |-> FALSE]]
    BY <1>2 DEF CreateRestaurantCommit
  <2>2. l \notin Rows
    BY <2>1, NewLocation
  <2>3. \A k \in Rows : /\ locations'[k].restaurant = locations[k].restaurant
                        /\ locations'[k].active = locations[k].active
    BY <2>1, <2>2, LocationKept
  <2>4. restaurants'[r] # None
    <3>1. RowsType'
      BY CreateRestaurantRows
    <3>2. restaurants'[r] = [agency |-> req[q].op[2], slug |-> req[q].op[3], active |-> TRUE]
      BY <1>0, <2>1 DEF RowsType
    <3>3. req[q].op[2] \in Agencies /\ req[q].op[3] \in Slugs
      BY AtParts, OperationParts DEF CreateRestaurantCommit, Fits
    <3>4. restaurants'[r] \in RestaurantRow
      BY <3>2, <3>3 DEF RestaurantRow
    <3>5. QED
      BY <3>4, TenancyAssumption
  <2>5. \A s \in Restaurants : s # r => restaurants'[s] = restaurants[s]
    BY <1>0, <2>1 DEF RowsType
  <2>6. l \in ActiveLocations(r)'
    <3>1. locations'[l] = [restaurant |-> r, slug |-> req[q].op[3], active |-> TRUE,
                           bot |-> req[q].op[4], waiter |-> FALSE]
      BY <1>0, <2>1 DEF RowsType
    <3>2. req[q].op[3] \in Slugs /\ req[q].op[4] \in Bots \cup {None}
      BY AtParts, OperationParts DEF CreateRestaurantCommit, Fits
    <3>3. locations'[l] \in LocationRow
      BY <3>1, <3>2 DEF LocationRow
    <3>4. locations'[l] # None
      BY <3>3, TenancyAssumption
    <3>5. QED
      BY <3>1, <3>4 DEF ActiveLocations, LocationsOf
  <2>7. QED
    BY <2>1, <2>3, <2>4, <2>5, <2>6 DEF RowsKept
<1>3. QED
  BY <1>1, <1>2

LEMMA UpdatedKept ==
  ASSUME TypeInv, NEW q \in Requests, UpdateRestaurantCommit(q) PROVE RowsKept
<1>0. RowsType
  BY TypeParts DEF TypeInv
<1>1. ASSUME NEW k \in Rows
      PROVE  /\ locations'[k].restaurant = locations[k].restaurant
             /\ locations'[k].active = locations[k].active
  <2>1. k \in Locations /\ locations[k] \in LocationRow
    BY <1>0 DEF Rows, RowsType
  <2>2. locations'[k] = IF k = req[q].seen THEN [locations[k] EXCEPT !.bot = req[q].op[3]]
                                           ELSE locations[k]
    BY <2>1 DEF UpdateRestaurantCommit
  <2>3. QED
    BY <2>1, <2>2 DEF LocationRow
<1>2. restaurants' = restaurants
  BY DEF UpdateRestaurantCommit
<1>3. QED
  BY <1>1, <1>2 DEF RowsKept

LEMMA LocationsKept ==
  ASSUME TypeInv, NEW q \in Requests, NEW r \in Restaurants,
         \/ \E slug \in Slugs : CreateLocation(q, r, slug)
         \/ \E l \in Locations : UpdateLocation(q, r, l)
  PROVE  RowsKept
<1>0. RowsType
  BY TypeParts DEF TypeInv
<1>1. restaurants' = restaurants
  BY DEF CreateLocation, UpdateLocation
<1>2. SUFFICES \A l \in Rows : /\ locations'[l].restaurant = locations[l].restaurant
                               /\ locations'[l].active = locations[l].active
  BY <1>1 DEF RowsKept
<1>3. CASE \E slug \in Slugs : CreateLocation(q, r, slug)
  <2>1. PICK l, row :
          /\ l \in Locations
          /\ l = First({k \in Locations : locations[k] = None})
          /\ locations' = [locations EXCEPT ![l] = row]
    BY <1>3 DEF CreateLocation
  <2>2. l \notin Rows
    BY <2>1, NewLocation
  <2>3. QED
    BY <2>1, <2>2, LocationKept
<1>4. CASE \E l \in Locations : UpdateLocation(q, r, l)
  <2>1. PICK l \in Locations : UpdateLocation(q, r, l)
    BY <1>4
  <2>2. locations[l] \in LocationRow
    BY <1>0, <2>1 DEF UpdateLocation, LocationsOf, RowsType
  <2>3. CASE \E slug \in Slugs : locations' = [locations EXCEPT ![l].slug = slug]
    <3>1. PICK slug \in Slugs : locations' = [locations EXCEPT ![l] = [locations[l] EXCEPT !.slug = slug]]
      BY <2>3
    <3>2. /\ [locations[l] EXCEPT !.slug = slug].restaurant = locations[l].restaurant
          /\ [locations[l] EXCEPT !.slug = slug].active = locations[l].active
      BY <2>2 DEF LocationRow
    <3>3. QED
      BY <3>1, <3>2, LocationKept
  <2>4. CASE \E flag \in BOOLEAN : locations' = [locations EXCEPT ![l].waiter = flag]
    <3>1. PICK flag \in BOOLEAN : locations' = [locations EXCEPT ![l] = [locations[l] EXCEPT !.waiter = flag]]
      BY <2>4
    <3>2. /\ [locations[l] EXCEPT !.waiter = flag].restaurant = locations[l].restaurant
          /\ [locations[l] EXCEPT !.waiter = flag].active = locations[l].active
      BY <2>2 DEF LocationRow
    <3>3. QED
      BY <3>1, <3>2, LocationKept
  <2>5. QED
    BY <2>1, <2>3, <2>4 DEF UpdateLocation
<1>5. QED
  BY <1>3, <1>4

LEMMA RowsKeptStep ==
  ASSUME TypeInv, [Next]_vars, ~ \E q \in Requests : DeleteLocationCommit(q) PROVE RowsKept
<1>1. CASE UNCHANGED <<restaurants, locations>>
  BY <1>1 DEF RowsKept
<1>2. ASSUME NEW q \in Requests, NEW r \in Restaurants,
             \/ FreezeRestaurant(q, r) \/ DeleteRestaurant(q, r)
             \/ \E a \in Agencies : TransferRestaurant(q, r, a)
      PROVE  RowsKept
  <2>1. restaurants[r] # None
    BY <1>2, TenancyAssumption DEF FreezeRestaurant, DeleteRestaurant, TransferRestaurant, RestaurantsOf
  <2>2. restaurants'[r] # None
    <3>1. RowsType /\ RowsType'
      BY RowsStep, TypeParts DEF TypeInv
    <3>2. restaurants[r] \in RestaurantRow
      BY <2>1, <3>1 DEF RowsType
    <3>3. \/ \E active \in BOOLEAN : restaurants'[r] = [restaurants[r] EXCEPT !.active = active]
          \/ \E a \in Agencies : restaurants'[r] = [restaurants[r] EXCEPT !.agency = a]
      BY <1>2, <3>1 DEF FreezeRestaurant, DeleteRestaurant, TransferRestaurant, RowsType
    <3>4. restaurants'[r] \in RestaurantRow
      BY <3>2, <3>3 DEF RestaurantRow
    <3>5. QED
      BY <3>4, TenancyAssumption
  <2>3. \A s \in Restaurants : s # r => restaurants'[s] = restaurants[s]
    BY <1>2, TypeParts DEF TypeInv, RowsType, FreezeRestaurant, DeleteRestaurant, TransferRestaurant
  <2>4. locations' = locations
    BY <1>2 DEF FreezeRestaurant, DeleteRestaurant, TransferRestaurant
  <2>5. QED
    BY <2>1, <2>2, <2>3, <2>4 DEF RowsKept
<1>3. ASSUME NEW q \in Requests, TenancyBegin(q) PROVE RowsKept
  BY <1>1, <1>2, <1>3, LocationsKept
     DEF TenancyBegin, Login, Logout, CreateAgency, UpdateAgency, CreateRestaurantBegin,
         UpdateRestaurantBegin, DeleteLocationBegin, ReadLocation, rowVars
<1>4. ASSUME NEW q \in Requests, TenancyStep(q) PROVE RowsKept
  BY <1>1, <1>4, CreatedKept, UpdatedKept
     DEF TenancyStep, UpdateRestaurantInvalidate,
         UpdateRestaurantFails, DeleteRestaurantInvalidate, GetLocationBot, rowVars
<1>5. ASSUME NEW q \in Requests, FloorBegin(q) \/ FloorStep(q) PROVE UNCHANGED rowVars
  BY <1>5 DEF FloorBegin, CreateTableBegin, DeleteTable, CreateWaiterCallBegin, UpdateStatusBegin,
              FloorStep, CreateTableCommit, CreateWaiterCallCommit, UpdateStatusCommit,
              unchangedTenancy
<1>6. CASE Restart \/ Tick
  BY <1>1, <1>6 DEF Restart, Tick, rowVars
<1>7. CASE UNCHANGED vars
  BY <1>1, <1>7 DEF vars, tenancyVars, rowVars
<1>8. QED
  BY <1>1, <1>3, <1>4, <1>5, <1>6, <1>7 DEF Next, TenancyNext, FloorNext, rowVars

(* A deletion in progress is of a location that exists. *)
LEMMA PendingExist == ASSUME TypeInv, NEW l \in Locations, Pending(l) # {} PROVE l \in Rows
<1>1. PICK q \in Requests : req[q].pc = "commit" /\ req[q].op = <<"delete_location", l>>
  BY DEF Pending
<1>2. Fits(req[q].op, req[q].seen, Rows)
  BY <1>1 DEF TypeInv, Ops
<1>3. QED
  BY <1>1, <1>2 DEF Fits

(* Guard I-4: when a location may be deleted another one is active. *)
LEMMA AnotherActive ==
  ASSUME NEW r, NEW l, MayDeactivate(r) PROVE \E k \in ActiveLocations(r) : k # l
<1>1. SUFFICES ASSUME ActiveLocations(r) \subseteq {l} PROVE FALSE
  OBVIOUS
<1>2. Cardinality({l}) = 1 /\ IsFiniteSet({l})
  BY FS_Singleton
<1>3. Cardinality(ActiveLocations(r)) <= 1 /\ Cardinality(ActiveLocations(r)) \in Nat
  BY <1>1, <1>2, FS_Subset, FS_CardinalityType
<1>4. QED
  BY <1>3 DEF MayDeactivate

LEMMA BegunDeletion ==
  ASSUME NEW q \in Requests, NEW r \in Restaurants, NEW l \in Locations, DeleteLocationBegin(q, r, l)
  PROVE  /\ restaurants[r] # None /\ l \in LocationsOf(r)
         /\ UNCHANGED <<restaurants, locations>>
         /\ \E k \in ActiveLocations(r) : k # l
BY AnotherActive
   DEF DeleteLocationBegin, Admin, get_current_restaurant_admin, Serving, RestaurantActive,
       ActiveLocations, rowVars

(* What has been deleted stays so.                                         *)
LEMMA DeletedStays ==
  ASSUME TypeInv, Frame, Rows \subseteq Rows',
         \A l \in Rows : locations'[l].restaurant = locations[l].restaurant,
         NEW r \in Restaurants
  PROVE  /\ LocationsOf(r) \subseteq LocationsOf(r)'
         /\ Deleted(r) \subseteq Deleted(r)'
         /\ Clash(r) => Clash(r)'
<1>1. LocationsOf(r) \subseteq LocationsOf(r)'
  BY DEF LocationsOf, Rows
<1>2. Deleted(r) \subseteq Deleted(r)'
  BY <1>1 DEF Deleted, Frame, Over
<1>3. Clash(r) => Clash(r)'
  BY <1>2 DEF Clash, Frame
<1>4. QED
  BY <1>1, <1>2, <1>3

(* Steps that commit no deletion. *)
LEMMA RemainOther ==
  ASSUME TypeInv, RemainInv, [Next]_vars, ~ \E q \in Requests : DeleteLocationCommit(q)
  PROVE  RemainInv'
<1>1. RowsKept /\ Rows \subseteq Rows'
  BY RowsKeptStep, RowsStep
<1>2. Frame
  BY FrameStep
<1>3. ASSUME NEW l \in Locations, NEW q \in Pending(l)'
      PROVE  q \in Pending(l) \/ \E p \in Requests, r \in Restaurants : DeleteLocationBegin(p, r, l)
  BY <1>3, FrameStep
<1>4. ASSUME NEW l \in Locations, Pending(l)' # {}
      PROVE  restaurants'[locations'[l].restaurant] # None
  <2>1. CASE Pending(l) # {}
    <3>1. l \in Rows
      BY <2>1, PendingExist
    <3>2. locations[l].restaurant \in Restaurants
      BY <3>1, TypeParts DEF TypeInv, RowsType, Rows, LocationRow
    <3>3. restaurants[locations[l].restaurant] # None
      BY <2>1 DEF RemainInv
    <3>4. QED
      BY <1>1, <3>1, <3>2, <3>3 DEF RowsKept
  <2>2. CASE Pending(l) = {}
    <3>1. PICK p \in Requests, r \in Restaurants : DeleteLocationBegin(p, r, l)
      BY <1>3, <1>4, <2>2
    <3>2. QED
      BY <3>1, BegunDeletion DEF LocationsOf
  <2>3. QED
    BY <2>1, <2>2
<1>5. ASSUME NEW r \in Restaurants, restaurants'[r] # None PROVE Clash(r)' \/ Left(r)'
  <2>0. /\ LocationsOf(r) \subseteq LocationsOf(r)'
        /\ Deleted(r) \subseteq Deleted(r)'
        /\ Clash(r) => Clash(r)'
    BY <1>1, <1>2, DeletedStays DEF RowsKept
  <2>1. CASE restaurants[r] = None
    <3>1. ActiveLocations(r)' # {}
      BY <1>1, <1>5, <2>1 DEF RowsKept
    <3>2. ASSUME NEW l \in LocationsOf(r)', NEW q \in Pending(l)' PROVE FALSE
      <4>0. l \in Locations
        BY DEF LocationsOf
      <4>1. CASE q \in Pending(l)
        <5>1. l \in Rows /\ restaurants[locations[l].restaurant] # None
          BY <4>0, <4>1, PendingExist DEF RemainInv
        <5>2. locations[l].restaurant = r
          BY <1>1, <5>1 DEF RowsKept, LocationsOf
        <5>3. QED
          BY <2>1, <5>1, <5>2
      <4>2. CASE \E p \in Requests, s \in Restaurants : DeleteLocationBegin(p, s, l)
        BY <1>5, <2>1, <4>0, <4>2, BegunDeletion
      <4>3. QED
        BY <1>3, <4>0, <4>1, <4>2
    <3>3. QED
      BY <3>1, <3>2 DEF Left
  <2>2. CASE restaurants[r] # None /\ Left(r)
    <3>1. ActiveLocations(r) \subseteq ActiveLocations(r)'
      BY <1>1, <2>0 DEF ActiveLocations, LocationsOf, RowsKept, Rows
    <3>2. ASSUME NEW l \in LocationsOf(r)', NEW q \in Pending(l)'
          PROVE  \/ \E k \in ActiveLocations(r)' : k # l
                 \/ \E p \in Deleted(r)' : {p, q} \in overlap'
      <4>0. l \in Locations
        BY DEF LocationsOf
      <4>1. CASE q \in Pending(l)
        <5>1. l \in Rows
          BY <4>0, <4>1, PendingExist
        <5>2. l \in LocationsOf(r)
          BY <1>1, <5>1 DEF RowsKept, LocationsOf, Rows
        <5>3. QED
          BY <1>2, <2>0, <2>2, <3>1, <4>1, <5>2 DEF Left, Frame
      <4>2. CASE \E p \in Requests, s \in Restaurants : DeleteLocationBegin(p, s, l)
        <5>1. PICK p \in Requests, s \in Restaurants : DeleteLocationBegin(p, s, l)
          BY <4>2
        <5>2. locations' = locations /\ l \in LocationsOf(s) /\ \E k \in ActiveLocations(s) : k # l
          BY <4>0, <5>1, BegunDeletion
        <5>3. s = r
          BY <5>2 DEF LocationsOf
        <5>4. QED
          BY <3>1, <5>2, <5>3
      <4>3. QED
        BY <1>3, <4>0, <4>1, <4>2
    <3>3. QED
      BY <2>2, <3>1, <3>2 DEF Left
  <2>3. QED
    BY <2>0, <2>1, <2>2 DEF RemainInv
<1>6. QED
  BY <1>2, <1>4, <1>5 DEF RemainInv, Frame

(* The commit of a deletion: no other one begins. *)
LEMMA RemainDelete ==
  ASSUME TypeInv, RemainInv, [Next]_vars, NEW q \in Requests, DeleteLocationCommit(q)
  PROVE  RemainInv'
<1> DEFINE d == req[q].op[2]
<1>0. RowsType /\ req \in [Requests -> RequestState]
  BY TypeParts DEF TypeInv, RequestsType
<1>1. /\ req[q].op = <<"delete_location", d>> /\ d \in Locations /\ d \in Rows
      /\ req[q].pc = "commit"
  BY AtParts, OperationParts DEF DeleteLocationCommit, Fits
<1>2. /\ locations' = [locations EXCEPT ![d] = [locations[d] EXCEPT !.active = FALSE]]
      /\ restaurants' = restaurants
  BY DEF DeleteLocationCommit
<1>3. locations[d] \in LocationRow
  BY <1>0, <1>1 DEF Rows, RowsType
<1>4. \A k \in Locations : k # d => locations'[k] = locations[k]
  BY <1>0, <1>2 DEF RowsType
<1>5. locations'[d].restaurant = locations[d].restaurant
  BY <1>0, <1>1, <1>2, <1>3 DEF RowsType, LocationRow
<1>6. \A l \in Rows : locations'[l].restaurant = locations[l].restaurant
  BY <1>4, <1>5 DEF Rows
<1>7. Frame /\ NoNewPending
  BY <1>1, DoneFrame DEF DeleteLocationCommit, Over
<1>8. Rows \subseteq Rows'
  BY RowsStep
<1>9. req'[q].pc = "done" /\ req'[q].op = <<"delete_location", d>>
  BY <1>0, <1>1 DEF DeleteLocationCommit, Finish, To
<1>10. ASSUME NEW l \in Locations, Pending(l)' # {}
       PROVE  restaurants'[locations'[l].restaurant] # None
  <2>1. Pending(l) # {} /\ l \in Rows
    BY <1>7, <1>10, PendingExist DEF NoNewPending
  <2>2. QED
    BY <1>2, <1>6, <2>1 DEF RemainInv
<1>11. ASSUME NEW r \in Restaurants, restaurants'[r] # None PROVE Clash(r)' \/ Left(r)'
  <2>0. /\ LocationsOf(r) \subseteq LocationsOf(r)'
        /\ Deleted(r) \subseteq Deleted(r)'
        /\ Clash(r) => Clash(r)'
    BY <1>6, <1>7, <1>8, DeletedStays
  <2>1. LocationsOf(r)' \subseteq LocationsOf(r)
    BY <1>1, <1>4, <1>5 DEF LocationsOf, Rows
  <2>2. CASE Clash(r)
    BY <2>0, <2>2
  <2>3. CASE Left(r) /\ d \notin LocationsOf(r)
    <3>1. ActiveLocations(r) \subseteq ActiveLocations(r)'
      BY <1>4, <2>0, <2>3 DEF ActiveLocations, LocationsOf
    <3>2. ASSUME NEW l \in LocationsOf(r)', NEW p \in Pending(l)'
          PROVE  \/ \E k \in ActiveLocations(r)' : k # l
                 \/ \E u \in Deleted(r)' : {u, p} \in overlap'
      <4>1. l \in LocationsOf(r) /\ p \in Pending(l)
        BY <1>7, <2>1 DEF NoNewPending, LocationsOf
      <4>2. QED
        BY <1>7, <2>0, <2>3, <3>1, <4>1 DEF Left, Frame
    <3>3. QED
      BY <2>3, <3>1, <3>2 DEF Left
  <2>4. CASE Left(r) /\ d \in LocationsOf(r)
    <3>1. q \in Pending(d) /\ q \in Deleted(r)'
      BY <1>1, <1>9, <2>0, <2>4 DEF Pending, Deleted
    <3>2. CASE \E p \in Deleted(r) : {p, q} \in overlap
      <4>1. PICK p \in Deleted(r) : {p, q} \in overlap
        BY <3>2
      <4>2. p # q
        BY <1>1 DEF Deleted
      <4>3. QED
        BY <1>7, <2>0, <3>1, <4>1, <4>2 DEF Clash, Frame
    <3>3. CASE \E k \in ActiveLocations(r) : k # d
      <4>1. ActiveLocations(r)' # {}
        BY <1>4, <2>0, <3>3 DEF ActiveLocations, LocationsOf
      <4>2. ASSUME NEW l \in LocationsOf(r)', NEW p \in Pending(l)' PROVE {q, p} \in overlap'
        <5>1. p \in Running /\ q \in Running /\ p # q
          BY <1>1, <1>7, <1>9 DEF NoNewPending, Pending, Running, LocationsOf
        <5>2. QED
          BY <1>7, <5>1 DEF RemainInv, RunPairs, Frame
      <4>3. QED
        BY <3>1, <4>1, <4>2 DEF Left
    <3>4. QED
      BY <2>4, <3>1, <3>2, <3>3 DEF Left
  <2>5. QED
    BY <1>2, <1>11, <2>2, <2>3, <2>4 DEF RemainInv
<1>12. QED
  BY <1>7, <1>10, <1>11 DEF RemainInv, Frame

LEMMA RemainInit == Init => RemainInv
<1> SUFFICES ASSUME Init PROVE RemainInv
  OBVIOUS
<1>1. Running = {} /\ \A l \in Locations : Pending(l) = {}
  BY DEF Init, TenancyInit, Running, Pending, Idle
<1>2. ASSUME NEW r \in Restaurants, restaurants[r] # None PROVE Left(r)
  <2>1. ActiveLocations(r) # {}
    BY <1>2, ExistingAssumption DEF Init, TenancyInit, ActiveLocations, LocationsOf
  <2>2. QED
    BY <1>1, <2>1 DEF Left, LocationsOf
<1>3. QED
  BY <1>1, <1>2 DEF RemainInv, RunPairs

(* A restaurant has an active location until two deletions of its          *)
(* locations, each of which counted the other's location, have committed.  *)
THEOREM ActiveLocationRemainsHolds == Spec => []ActiveLocationRemains
<1>1. TypeInv /\ RemainInv /\ [Next]_vars => RemainInv'
  BY RemainOther, RemainDelete
<1>2. RevokedInv /\ TypeInv /\ [Next]_vars => TypeInv'
  BY TypeStep
<1>3. RemainInv => ActiveLocationRemains
  <2> SUFFICES ASSUME RemainInv, NEW r \in Restaurants, restaurants[r] # None, ActiveLocations(r) = {}
               PROVE  LET deletions == {"delete_location"} \X LocationsOf(r)
                      IN Overlapping(deletions, deletions)
    BY DEF ActiveLocationRemains
  <2>1. PICK p, q \in Deleted(r) : p # q /\ {p, q} \in overlap
    BY DEF RemainInv, Left, Clash
  <2>2. /\ req[p].op \in {"delete_location"} \X LocationsOf(r)
        /\ req[q].op \in {"delete_location"} \X LocationsOf(r)
    BY DEF Deleted
  <2>3. QED
    BY <2>1, <2>2 DEF Overlapping, Deleted
<1>4. QED
  BY <1>1, <1>2, <1>3, RevokedInit, RevokedNext, TypeInit, RemainInit, PTL DEF Spec
=============================================================================
