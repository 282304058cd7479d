------------------------------- MODULE Floor -------------------------------
(***************************************************************************)
(* The dining room: tables with their QR codes and the calls of the waiter *)
(* (routers/restaurants.py, routers/waiter_calls.py), beside everything    *)
(* agencies, admins and the superadmin do meanwhile (Tenancy).             *)
(***************************************************************************)
EXTENDS Tenancy

CONSTANT Numbers  \* table numbers

VARIABLES
  tables,  \* restaurant_tables, [Tables -> row or None]
  calls    \* waiter_calls, [Calls -> row or None]

floorVars == <<tables, calls>>
vars == <<tenancyVars, floorVars>>

TableRow == [restaurant : Restaurants, location : Locations, number : Numbers]
CallStatus == {"active", "accepted", "completed", "cancelled"}
CallRow == [table : Tables, status : CallStatus]

ASSUME FloorAssumption ==
  /\ Numbers \subseteq Nat /\ CallStatuses \subseteq CallStatus
  /\ None \notin TableRow \cup CallRow \cup Tables
  /\ Existing.tables \in [Tables -> TableRow \cup {None}]
  /\ Existing.calls \in [Calls -> CallRow \cup {None}]

(* The rows found at the start obey the foreign keys and unique indexes,    *)
(* and no race has shared a bot or a table's number.                        *)
ASSUME FoundAssumption ==
  /\ \A k, l \in Locations :
       /\ k # l /\ Existing.locations[k] # None /\ Existing.locations[l] # None
       => /\ Existing.locations[k].slug # Existing.locations[l].slug
          /\ \/ Existing.locations[k].bot # Existing.locations[l].bot
             \/ Existing.locations[k].bot = None
             \/ Existing.locations[k].restaurant = Existing.locations[l].restaurant
  /\ \A t \in Tables : Existing.tables[t] # None =>
       /\ Existing.locations[Existing.tables[t].location] # None
       /\ Existing.locations[Existing.tables[t].location].restaurant = Existing.tables[t].restaurant
  /\ \A t, u \in Tables :
       /\ t # u /\ Existing.tables[t] # None /\ Existing.tables[u] # None
       /\ Existing.tables[t].restaurant = Existing.tables[u].restaurant
       => Existing.tables[t].number # Existing.tables[u].number

(* Type invariant. *)
TypeOK ==
  /\ TenancyTypeOK
  /\ tables \in [Tables -> TableRow \cup {None}]
  /\ calls \in [Calls -> CallRow \cup {None}]

Init == TenancyInit /\ tables = Existing.tables /\ calls = Existing.calls

unchangedTenancy == UNCHANGED <<rowVars, authVars, botCache>>

-----------------------------------------------------------------------------
(* Tables *)

TablesOf(r) == {t \in Tables : tables[t] # None /\ tables[t].restaurant = r}

(* The number must be new in the restaurant; without location_id the table *)
(* goes to the first active location, else to the first.                   *)
CreateTableBegin(q, r, n) ==
  /\ Admin(r)
  /\ \A t \in TablesOf(r) : tables[t].number # n
  /\ \E l \in LocationsOf(r) :
       /\ l \in ActiveLocations(r) \/ (ActiveLocations(r) = {} /\ l = First(LocationsOf(r)))
       /\ Begin(q, <<"create_table", l, n>>, None)
  /\ unchangedTenancy /\ UNCHANGED floorVars

(* uq_table_location_number *)
NumberFree(l, n) == \A t \in Tables : tables[t] # None => <<tables[t].location, tables[t].number>> # <<l, n>>

CreateTableCommit(q) ==
  LET l == req[q].op[2]
      n == req[q].op[3]
  IN /\ At(q, "commit", "create_table")
     /\ Finish(q)
     /\ \/ /\ NumberFree(l, n)
           /\ \E t \in Tables :
                /\ tables[t] = None
                /\ tables' = [tables EXCEPT ![t] =
                     [restaurant |-> locations[l].restaurant, location |-> l, number |-> n]]
        \/ ~NumberFree(l, n) /\ UNCHANGED tables
     /\ unchangedTenancy /\ UNCHANGED calls

(* The table's calls go with it (ON DELETE CASCADE). *)
DeleteTable(q, r, t) ==
  /\ Admin(r) /\ t \in TablesOf(r)
  /\ Spend(q)
  /\ tables' = [tables EXCEPT ![t] = None]
  /\ calls' = [c \in Calls |-> IF calls[c] # None /\ calls[c].table = t THEN None ELSE calls[c]]
  /\ unchangedTenancy

(* Mutant: the restaurant's slug is looked up first. *)
LocationOfSlug_RestaurantFirst(slug) ==
  LET named == {r \in Restaurants : RestaurantActive(r) /\ restaurants[r].slug = slug}
      l == First({k \in Locations :
                    locations[k] # None /\ locations[k].active /\ locations[k].slug = slug})
  IN IF named # {} THEN _get_primary_location(CHOOSE r \in named : TRUE)
     ELSE IF l # None /\ RestaurantActive(locations[l].restaurant) THEN l ELSE None

(* GET /{slug} and GET /{slug}/table/{number}: an active location's slug,  *)
(* else an active restaurant's, which stands for its first active location.*)
LocationOfSlug(slug) ==
  LET l == First({k \in Locations :
                    locations[k] # None /\ locations[k].active /\ locations[k].slug = slug})
      named == {r \in Restaurants : RestaurantActive(r) /\ restaurants[r].slug = slug}
  IN IF l # None THEN (IF RestaurantActive(locations[l].restaurant) THEN l ELSE None)
     ELSE IF named = {} THEN None
     ELSE _get_primary_location(CHOOSE r \in named : TRUE)

(* The rows the query of get_table_by_number may take its first from. *)
TablesByNumber(slug, n) ==
  {t \in Tables : /\ tables[t] # None /\ tables[t].number = n
                  /\ tables[t].location = LocationOfSlug(slug)}

-----------------------------------------------------------------------------
(* Waiter calls *)

OpenCalls(t) == {c \in Calls : calls[c] # None /\ calls[c].table = t
                               /\ calls[c].status \in {"active", "accepted"}}

(* FOR UPDATE locks the open calls there are, not their absence. *)
CreateWaiterCallBegin(q, t) ==
  /\ tables[t] # None /\ Serving(tables[t].restaurant)
  /\ locations[tables[t].location].waiter
  /\ OpenCalls(t) = {}
  /\ Begin(q, <<"create_waiter_call", t>>, None)
  /\ unchangedTenancy /\ UNCHANGED floorVars

(* A table deleted meanwhile makes the INSERT fail. *)
CreateWaiterCallCommit(q) ==
  LET t == req[q].op[2]
  IN /\ At(q, "commit", "create_waiter_call")
     /\ Finish(q)
     /\ \/ /\ tables[t] # None
           /\ \E c \in Calls :
                calls[c] = None /\ calls' = [calls EXCEPT ![c] = [table |-> t, status |-> "active"]]
        \/ tables[t] = None /\ UNCHANGED calls
     /\ unchangedTenancy /\ UNCHANGED tables

WAITER_CALL_STATUS_TRANSITIONS ==
  [status \in CallStatus |->
     CASE status = "active"   -> {"accepted", "cancelled"}
       [] status = "accepted" -> {"completed", "cancelled"}
       [] OTHER               -> {}]

UpdateStatusBegin(q, r, c, status) ==
  /\ Admin(r) /\ calls[c] # None /\ calls[c].table \in TablesOf(r)
  /\ status \in WAITER_CALL_STATUS_TRANSITIONS[calls[c].status]
  /\ Begin(q, <<"update_status", c, status>>, None)
  /\ unchangedTenancy /\ UNCHANGED floorVars

(* The transition was judged on the row as read; a row that is gone makes  *)
(* the UPDATE fail.                                                        *)
UpdateStatusCommit(q) ==
  LET c == req[q].op[2]
  IN /\ At(q, "commit", "update_status")
     /\ Finish(q)
     /\ calls' = [calls EXCEPT ![c] = IF @ = None THEN None ELSE [@ EXCEPT !.status = req[q].op[3]]]
     /\ unchangedTenancy /\ UNCHANGED tables

-----------------------------------------------------------------------------
FloorBegin(q) ==
  /\ req[q].pc = "idle"
  /\ \/ \E r \in Restaurants, n \in Numbers : CreateTableBegin(q, r, n)
     \/ \E r \in Restaurants, t \in Tables : DeleteTable(q, r, t)
     \/ \E t \in Tables : CreateWaiterCallBegin(q, t)
     \/ \E r \in Restaurants, c \in Calls, status \in CallStatuses :
          UpdateStatusBegin(q, r, c, status)

FloorStep(q) == CreateTableCommit(q) \/ CreateWaiterCallCommit(q) \/ UpdateStatusCommit(q)

FloorNext == \E q \in Requests : FloorBegin(q) \/ FloorStep(q)

Next == (TenancyNext /\ UNCHANGED floorVars) \/ FloorNext

Spec == Init /\ [][Next]_vars

-----------------------------------------------------------------------------
(* Properties *)

(* "Если два запроса придут одновременно — второй будет ждать пока первый  *)
(* завершит commit, и затем найдёт уже существующий активный вызов и       *)
(* вернёт 400" (waiter_calls.py:62): a table has one open call, also when  *)
(* several guests ask at once and admins change the status of calls.       *)
OneCallPerTable == \A t \in Tables : Cardinality(OpenCalls(t)) <= 1

(* The QR code of a table, its location's slug and its number, finds that  *)
(* table and no other while location and restaurant are active, whatever   *)
(* slugs are given to other locations and restaurants; and a number names  *)
(* one table of the restaurant unless two were created at one time.        *)
QRFindsTable ==
  \A t \in Tables : tables[t] # None =>
    LET l == tables[t].location
        n == tables[t].number
        creations == {"create_table"} \X LocationsOf(tables[t].restaurant) \X {n}
    IN /\ locations[l].active /\ RestaurantActive(tables[t].restaurant) =>
            TablesByNumber(locations[l].slug, n) = {t}
       /\ (\E u \in TablesOf(tables[t].restaurant) : u # t /\ tables[u].number = n) =>
            Overlapping(creations, creations)
=============================================================================
