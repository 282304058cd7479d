------------------------------- MODULE Orders -------------------------------
(***************************************************************************)
(* Orders of one restaurant: POST /api/orders with the monthly quota of    *)
(* the subscription, what follows the commit (usage event, background      *)
(* notifications), the admin's status changes, subscribe, the loop that    *)
(* should activate scheduled orders, and the views of clients, admin and   *)
(* kitchen.  The cart's checkout inserts orders too, past the quota.       *)
(*                                                                         *)
(* Each query of create_order that others can get in front of is a step.   *)
(* The item loop is one step that accepts or refuses: its rules are in     *)
(* Menu.  The quota lock is an advisory try-lock of the transaction.       *)
(***************************************************************************)
EXTENDS StatusTransitions, FiniteSets, Integers

CONSTANTS
  Requests,        \* POST /api/orders and checkouts, each inserts at most one order
  Subscribers,     \* POST /api/billing/subscribe
  OwnLocations,    \* the restaurant's active locations
  Locations,       \* what X-Location-Id may name, foreign locations included
  Tables,          \* tables of all restaurants
  TableLocation,   \* [Tables -> Locations]
  Clients,         \* Telegram users, and Guest
  Guest,
  Inputs,          \* the bodies clients send, see Input
  Plans, Free,     \* subscription_plans
  OrdersPerMonth,  \* [Plans -> limit], -1 is no limit
  OfferedPlans,    \* is_active plans of price 0
  MaxTime,         \* bound of the clock, in days
  MonthLength,     \* days of a month
  Lead,            \* preparation, delivery and buffer time before scheduled_at
  AdminStatuses,   \* bound: the statuses admins set
  KdsLimit,        \* the limit parameter of the kitchen board
  None             \* SQL NULL

OrderTypes == {"delivery", "takeaway", "dine_in"}
Time == 0..MaxTime
Month(t) == t \div MonthLength

(* OrderCreate: dine_in comes with a table; any order may name one. *)
Input ==
  {i \in [location : Locations, type : OrderTypes, table : Tables \cup {None},
          client : Clients, scheduled : Time \cup {None}] :
     i.type = "dine_in" => i.table # None}

ASSUME OrdersAssumption ==
  /\ IsFiniteSet(Requests) /\ IsFiniteSet(Subscribers)
  /\ None \notin Requests \cup Subscribers
  /\ OwnLocations \subseteq Locations /\ TableLocation \in [Tables -> Locations]
  /\ None \notin Tables \cup Time \cup Plans \cup Locations
  /\ Guest \in Clients /\ Inputs \subseteq Input
  /\ Free \in Plans /\ OfferedPlans \subseteq Plans
  /\ OrdersPerMonth \in [Plans -> Int]
  /\ AdminStatuses \subseteq OrderStatuses /\ KdsLimit \in Nat
  /\ MaxTime \in Nat /\ MonthLength \in Nat \ {0} /\ Lead \in Nat

VARIABLES
  now,        \* the clock
  tables,     \* the tables that exist
  orders,     \* [Requests -> row or NoOrder]
  subs,       \* [Subscribers \cup {None} -> [plan, active]]: None is the initial one
  usage,      \* orders with a usage_events row
  tasks,      \* background tasks not run yet, <<kind, order>>
  req,        \* [Requests -> state of the request]
  sub,        \* [Subscribers -> [pc, plan, seen]]: seen is what UPDATE deactivates
  quotaLock,  \* who holds the advisory lock restaurant_id
  subLock,    \* who holds the advisory lock restaurant_id + 1_000_000_000
  polling     \* the activation loop has a session open

requestVars == <<req, quotaLock>>
billingVars == <<subs, sub, subLock>>
vars == <<now, tables, orders, subs, usage, tasks, req, sub,
          quotaLock, subLock, polling>>

(* limit and month are what the quota judged the order by: history only. *)
Row == [location : Locations, type : OrderTypes, table : Tables \cup {None},
        client : Clients, scheduled : Time \cup {None}, status : OrderStatuses,
        created : Time, limit : Int \cup {None}, month : Nat \cup {None}]
NoOrder == [status |-> "none"]
Exists(o) == orders[o].status # "none"

Steps == {"plan", "lock", "count", "check", "insert", "respond"}
Refusals == {400, 402, 404, 429, 500}
ASSUME AnswerAssumption == None \notin Refusals \cup {201}

RequestState ==
  [pc : Steps \cup {"idle", "done"}, input : Inputs \cup {None}, began : Time,
   limit : Int \cup {None}, month : Nat \cup {None},
   answer : Refusals \cup {201, None}]
NoSub == [plan |-> None, active |-> FALSE]
SubState == [pc : {"idle", "update", "insert", "done"}, plan : Plans \cup {None},
             seen : SUBSET (Subscribers \cup {None})]
DoneSub == [pc |-> "done", plan |-> None, seen |-> {}]
Kinds == {"new_order", "scheduled"} \cup OrderStatuses

(* Type invariant. *)
TypeOK ==
  /\ now \in Time /\ tables \subseteq Tables
  /\ orders \in [Requests -> Row \cup {NoOrder}]
  /\ subs \in [Subscribers \cup {None} -> [plan : Plans \cup {None}, active : BOOLEAN]]
  /\ usage \subseteq Requests
  /\ tasks \subseteq Kinds \X Requests
  /\ req \in [Requests -> RequestState]
  /\ sub \in [Subscribers -> SubState]
  /\ quotaLock \in Requests \cup {None} /\ subLock \in Subscribers \cup {None}
  /\ polling \in BOOLEAN

Request(pc, input, began, answer) ==
  [pc |-> pc, input |-> input, began |-> began, limit |-> None,
   month |-> None, answer |-> answer]
Idle == Request("idle", None, 0, None)
Done(input, answer) == Request("done", input, 0, answer)

(* A restaurant without a subscription, or with one entered by hand. *)
Init ==
  /\ now = 0 /\ tables = Tables
  /\ orders = [o \in Requests |-> NoOrder]
  /\ \E first \in [plan : Plans, active : {TRUE}] \cup {NoSub} :
       subs = [s \in Subscribers \cup {None} |-> IF s = None THEN first ELSE NoSub]
  /\ usage = {} /\ tasks = {}
  /\ req = [q \in Requests |-> Idle]
  /\ sub = [s \in Subscribers |-> [pc |-> "idle", plan |-> None, seen |-> {}]]
  /\ quotaLock = None /\ subLock = None /\ polling = FALSE

-----------------------------------------------------------------------------
(* create_order: the quota *)

Proceed(q, pc, limit, month) ==
  req' = [req EXCEPT ![q] = [pc |-> pc, input |-> req[q].input, began |-> req[q].began,
                             limit |-> limit, month |-> month, answer |-> None]]
Goto(q, pc) == Proceed(q, pc, req[q].limit, req[q].month)

(* Mutant: a session-level lock survives a refusal. *)
EndTransaction_SessionLock(q) == quotaLock' = (IF req[q].pc = "insert" THEN None ELSE quotaLock)

(* Commit, rollback and close release the transaction's advisory lock. *)
EndTransaction(q) == quotaLock' = (IF quotaLock = q THEN None ELSE quotaLock)

Refuse(q, code) ==
  /\ req' = [req EXCEPT ![q] = Done(None, code)]
  /\ EndTransaction(q)
  /\ UNCHANGED <<now, tables, orders, usage, tasks, polling, billingVars>>

(* The location must be an active one of the restaurant; created_at is the *)
(* start of this transaction.                                              *)
Begin(q) ==
  \E input \in Inputs :
    /\ req[q].pc = "idle"
    /\ input.location \in OwnLocations
    /\ req' = [req EXCEPT ![q] = Request("plan", input, now, None)]
    /\ UNCHANGED <<now, tables, orders, usage, tasks, quotaLock, polling, billingVars>>

BeginRefused(q) ==
  /\ req[q].pc = "idle"
  /\ \E input \in Inputs : input.location \notin OwnLocations
  /\ Refuse(q, 404)

ActivePlans == {subs[s].plan : s \in {s \in DOMAIN subs : subs[s].active}}

(* Mutant: the lock is skipped for whoever has no subscription. *)
ReadPlan_FreeUnlocked(q) ==
  /\ req[q].pc = "plan"
  /\ \E plan \in IF ActivePlans = {} THEN {Free} ELSE ActivePlans :
       Proceed(q, IF OrdersPerMonth[plan] = -1 THEN "check"
                  ELSE IF ActivePlans = {} THEN "count" ELSE "lock", OrdersPerMonth[plan], None)
  /\ UNCHANGED <<now, tables, orders, usage, tasks, quotaLock, polling, billingVars>>

(* The plan of the active subscription, Free without one; -1 needs no lock. *)
ReadPlan(q) ==
  /\ req[q].pc = "plan"
  /\ \E plan \in IF ActivePlans = {} THEN {Free} ELSE ActivePlans :
       Proceed(q, IF OrdersPerMonth[plan] = -1 THEN "check" ELSE "lock", OrdersPerMonth[plan], None)
  /\ UNCHANGED <<now, tables, orders, usage, tasks, quotaLock, polling, billingVars>>

(* pg_try_advisory_xact_lock never waits. *)
TryLock(q) ==
  /\ req[q].pc = "lock"
  /\ \/ /\ quotaLock = None
        /\ quotaLock' = q
        /\ Goto(q, "count")
        /\ UNCHANGED <<now, tables, orders, usage, tasks, polling, billingVars>>
     \/ /\ quotaLock # None
        /\ Refuse(q, 429)

(* COUNT of the orders created since the start of the current month. *)
Counted == {o \in Requests : /\ Exists(o) /\ orders[o].status # "cancelled"
                             /\ Month(orders[o].created) >= Month(now)}

Count(q) ==
  /\ req[q].pc = "count"
  /\ \/ /\ Cardinality(Counted) < req[q].limit
        /\ Proceed(q, "check", req[q].limit, Month(now))
        /\ UNCHANGED <<now, tables, orders, usage, tasks, quotaLock, polling, billingVars>>
     \/ /\ Cardinality(Counted) >= req[q].limit
        /\ Refuse(q, 402)

-----------------------------------------------------------------------------
(* create_order: table, items, INSERT and what follows *)

(* Mutant: the table may be of any location of the restaurant. *)
TableFits_AnyLocation(input) ==
  input.table \in tables /\ TableLocation[input.table] \in OwnLocations

(* Brand, then location of the table; both read in one query. *)
TableFits(input) ==
  input.table \in tables /\ TableLocation[input.table] = input.location

(* validate_scheduled_at: some time ahead, or not at all. *)
ScheduleFits(input) == input.scheduled # None => input.scheduled > now

(* Table, items, zone, minimum and scheduled_at are accepted, or not. *)
Check(q) ==
  LET input == req[q].input
      fits  == input.type = "dine_in" => TableFits(input)
  IN
  /\ req[q].pc = "check"
  /\ \/ /\ fits /\ ScheduleFits(input)
        /\ Goto(q, "insert")
        /\ UNCHANGED <<now, tables, orders, usage, tasks, quotaLock, polling, billingVars>>
     \/ /\ fits
        /\ Refuse(q, 400)
     \/ /\ ~fits
        /\ Refuse(q, IF input.table \in tables /\ TableLocation[input.table] \in OwnLocations
                     THEN 400 ELSE 404)

(* Mutant: every order waits for a confirmation. *)
InitialStatus_New(input) == IF input.scheduled # None \/ input.type = "dine_in" THEN "new" ELSE "accepted"

(* Orders are accepted on arrival, scheduled ones wait for activation. *)
InitialStatus(input) == IF input.scheduled # None THEN "new" ELSE "accepted"

(* Mutant: the location is left to a default. *)
NewRow_NoLocation(q) ==
  [location |-> None, type |-> req[q].input.type, table |-> req[q].input.table,
   client |-> req[q].input.client, scheduled |-> req[q].input.scheduled,
   status |-> "accepted", created |-> req[q].began, limit |-> None, month |-> None]

NewRow(q) ==
  LET input == req[q].input IN
  [location |-> input.location, type |-> input.type, table |-> input.table,
   client |-> input.client, scheduled |-> input.scheduled,
   status |-> InitialStatus(input), created |-> req[q].began,
   limit |-> IF req[q].month = None THEN None ELSE req[q].limit,
   month |-> req[q].month]

(* INSERT and commit; a table_id that is not there breaks the foreign key. *)
Insert(q) ==
  /\ req[q].pc = "insert"
  /\ \/ /\ req[q].input.table \in tables \cup {None}
        /\ orders' = [orders EXCEPT ![q] = NewRow(q)]
        /\ Goto(q, "respond")
        /\ EndTransaction(q)
        /\ UNCHANGED <<now, tables, usage, tasks, polling, billingVars>>
     \/ /\ req[q].input.table \notin tables \cup {None}
        /\ Refuse(q, 500)

(* Mutant: scheduled orders are announced as accepted. *)
CreationNotices_AlwaysAccepted(o) == {<<"new_order", o>>, <<"accepted", o>>}

CreationNotices(o) ==
  {<<"new_order", o>>,
   <<IF orders[o].scheduled = None THEN "accepted" ELSE "scheduled", o>>}

CheckoutNotices(input, o) ==
  {<<"new_order", o>>,
   <<IF input.scheduled = None THEN "accepted" ELSE "scheduled", o>>}

(* UsageEvent is a transaction of its own, whose failure is swallowed; then *)
(* 201, and the tasks that run after the response.                         *)
Respond(q) ==
  /\ req[q].pc = "respond"
  /\ usage' \in {usage, usage \cup {q}}
  /\ tasks' = tasks \cup CreationNotices(q)
  /\ req' = [req EXCEPT ![q] = Done(req[q].input, 201)]
  /\ UNCHANGED <<now, tables, orders, quotaLock, polling, billingVars>>

-----------------------------------------------------------------------------
(* The rest of the system *)

(* The order of a checkout: the cart asks no quota and is held to its      *)
(* location's table by checkout_cart.  Its own steps are in Cart.          *)
Checkout(q) ==
  \E input \in Inputs :
    /\ req[q].pc = "idle"
    /\ input.location \in OwnLocations
    /\ IF input.type = "dine_in" THEN TableFits(input) ELSE input.table = None
    /\ ScheduleFits(input)
    /\ req' = [req EXCEPT ![q] = Done(input, 201)]
    /\ orders' = [orders EXCEPT ![q] =
         [location |-> input.location, type |-> input.type, table |-> input.table,
          client |-> input.client, scheduled |-> input.scheduled,
          status |-> InitialStatus(input), created |-> now,
          limit |-> None, month |-> None]]
    /\ tasks' = tasks \cup CheckoutNotices(input, q)
    /\ UNCHANGED <<now, tables, usage, quotaLock, polling, billingVars>>

(* PATCH status; its row lock and the paid guard are in Payments. *)
UpdateOrderStatus(o, status) ==
  /\ Exists(o)
  /\ status \in ORDER_STATUS_TRANSITIONS[orders[o].status]
  /\ orders' = [orders EXCEPT ![o].status = status]
  /\ tasks' = tasks \cup {<<status, o>>}
  /\ UNCHANGED <<now, tables, usage, requestVars, polling, billingVars>>

(* The background tasks about an order send their messages. *)
Notify(o) ==
  /\ \E task \in tasks : task[2] = o
  /\ tasks' = {task \in tasks : task[2] # o}
  /\ UNCHANGED <<now, tables, orders, usage, requestVars, polling, billingVars>>

(* delete_table; ON DELETE SET NULL reaches the orders. *)
DeleteTable(t) ==
  /\ t \in tables
  /\ tables' = tables \ {t}
  /\ orders' = [o \in Requests |-> IF Exists(o) /\ orders[o].table = t
                                     THEN [orders[o] EXCEPT !.table = None] ELSE orders[o]]
  /\ UNCHANGED <<now, usage, tasks, requestVars, polling, billingVars>>

Tick ==
  /\ now < MaxTime
  /\ now' = now + 1
  /\ UNCHANGED <<tables, orders, usage, tasks, requestVars, polling, billingVars>>

(* The worker restarts: open transactions and background tasks are gone. *)
Restart ==
  /\ req' = [q \in Requests |-> IF req[q].pc \in Steps
                                  THEN Done(None, None) ELSE req[q]]
  /\ sub' = [s \in Subscribers |-> IF sub[s].pc = "idle" THEN sub[s] ELSE DoneSub]
  /\ quotaLock' = None /\ subLock' = None /\ tasks' = {} /\ polling' = FALSE
  /\ UNCHANGED <<now, tables, orders, usage, subs>>

-----------------------------------------------------------------------------
(* subscribe *)

ordersVars == <<now, tables, orders, usage, tasks, requestVars, polling>>

(* Mutant: the answer of the try-lock is not looked at. *)
SubLockFree_Ignored == subLock \in Subscribers \cup {None}
SubLockFree == subLock = None

(* Plan on offer and free of charge, then the try-lock; else 404, 402, 429. *)
SubscribeLock(s, plan) ==
  /\ sub[s].pc = "idle"
  /\ \/ /\ plan \in OfferedPlans /\ SubLockFree
        /\ subLock' = s
        /\ sub' = [sub EXCEPT ![s] = [pc |-> "update", plan |-> plan, seen |-> {}]]
     \/ /\ plan \notin OfferedPlans \/ ~SubLockFree
        /\ sub' = [sub EXCEPT ![s] = DoneSub]
        /\ UNCHANGED subLock
  /\ UNCHANGED <<ordersVars, subs>>

(* UPDATE ... is_active = false finds the rows committed by now. *)
SubscribeUpdate(s) ==
  /\ sub[s].pc = "update"
  /\ sub' = [sub EXCEPT ![s] = [pc |-> "insert", plan |-> sub[s].plan,
                                seen |-> {x \in DOMAIN subs : subs[x].active}]]
  /\ UNCHANGED <<ordersVars, subs, subLock>>

(* INSERT of the new subscription, and the commit of both. *)
SubscribeCommit(s) ==
  /\ sub[s].pc = "insert"
  /\ subs' = [x \in DOMAIN subs |->
                IF x = s THEN [plan |-> sub[s].plan, active |-> TRUE]
                ELSE IF x \in sub[s].seen THEN [subs[x] EXCEPT !.active = FALSE]
                ELSE subs[x]]
  /\ sub' = [sub EXCEPT ![s] = DoneSub]
  /\ subLock' = (IF subLock = s THEN None ELSE subLock)
  /\ UNCHANGED ordersVars

-----------------------------------------------------------------------------
(* The activation loop: it wakes up, opens a session, and the import of    *)
(* VALID_STATUS_TRANSITIONS raises before anything is read.  finally       *)
(* closes the session, except logs the error, and the loop sleeps again.   *)

WakeUp ==
  /\ ~polling
  /\ polling' = TRUE
  /\ UNCHANGED <<now, tables, orders, usage, tasks, requestVars, billingVars>>

ImportFails ==
  /\ polling
  /\ polling' = FALSE
  /\ UNCHANGED <<now, tables, orders, usage, tasks, requestVars, billingVars>>

-----------------------------------------------------------------------------
Step(q) ==
  ReadPlan(q) \/ TryLock(q) \/ Count(q) \/ Check(q) \/ Insert(q) \/ Respond(q)

SubscribeStep(s) == SubscribeUpdate(s) \/ SubscribeCommit(s)

Work ==
  \/ \E q \in Requests : Begin(q) \/ BeginRefused(q) \/ Checkout(q) \/ Step(q)
  \/ \E o \in Requests, status \in AdminStatuses : UpdateOrderStatus(o, status)
  \/ \E o \in Requests : Notify(o)
  \/ \E t \in Tables : DeleteTable(t)
  \/ \E s \in Subscribers, plan \in Plans : SubscribeLock(s, plan)
  \/ \E s \in Subscribers : SubscribeStep(s)
  \/ Tick

Next == Work \/ Restart

Loop == WakeUp \/ ImportFails

Spec == Init /\ [][Next]_vars

(* A worker that is not restarted: it runs the requests it has taken, and  *)
(* the loop polls again and again.                                         *)
LiveSpec ==
  /\ Init /\ [][Work \/ Loop]_vars
  /\ \A q \in Requests : WF_vars(Step(q))
  /\ \A s \in Subscribers : WF_vars(SubscribeStep(s))
  /\ WF_vars(WakeUp) /\ WF_vars(ImportFails)

-----------------------------------------------------------------------------
(* Views *)

_KDS_ACTIVE_STATUSES == {"accepted", "preparing", "ready_for_delivery"}
_KDS_HISTORY_STATUSES == {"completed", "cancelled"}

KitchenOrders(l, statuses) ==
  {o \in Requests : Exists(o) /\ orders[o].location = l /\ orders[o].status \in statuses}

(* The answers GET /kds may give: the first KdsLimit orders by created_at, *)
(* with include_history also today's finished ones, which count too.       *)
KdsAnswers(l, include_history) ==
  LET rows == KitchenOrders(l, _KDS_ACTIVE_STATUSES) \cup
              IF include_history
                THEN {o \in KitchenOrders(l, _KDS_HISTORY_STATUSES) : orders[o].created = now}
                ELSE {}
  IN {page \in SUBSET rows :
        /\ Cardinality(page) = (IF Cardinality(rows) < KdsLimit THEN Cardinality(rows) ELSE KdsLimit)
        /\ \A o \in page, p \in rows \ page : orders[o].created <= orders[p].created}

(* GET /my and /my/{id}: a guest has no orders there. *)
MyOrders(c) == IF c = Guest THEN {} ELSE {o \in Requests : Exists(o) /\ orders[o].client = c}

(* GET /restaurant/{id} and GET /{order_id}, with or without filters. *)
RestaurantOrders(location_id, status_filter) ==
  {o \in Requests : /\ Exists(o)
                    /\ location_id # None => orders[o].location = location_id
                    /\ status_filter # None => orders[o].status = status_filter}

-----------------------------------------------------------------------------
(* Properties *)

(* When an order that the quota has judged commits, the month it was       *)
(* judged in holds no more orders judged in it than the limit it was       *)
(* judged by: COUNT and INSERT are one step behind the advisory lock, also *)
(* across refusals, restarts and the turn of the month.                    *)
QuotaRespected ==
  [][\A q \in Requests :
       (~Exists(q) /\ Exists(q)' /\ orders'[q].limit # None) =>
         Cardinality({o \in Requests :
            /\ Exists(o)' /\ orders'[o].status # "cancelled"
            /\ orders'[o].month = orders'[q].month
            /\ Month(orders'[o].created) = orders'[q].month}) <= orders'[q].limit]_vars

(* deactivate-old + insert-new is atomic per restaurant: never two active  *)
(* subscriptions, whichever way admins' requests overlap.                  *)
OneActiveSubscription ==
  \A x, y \in DOMAIN subs : subs[x].active /\ subs[y].active => x = y

(* The statuses an order in status k may come to, k included: what every   *)
(* set holds that holds k and is closed under the transitions.             *)
Closed == {set \in SUBSET OrderStatuses :
             \A s \in set : ORDER_STATUS_TRANSITIONS[s] \subseteq set}
Later == [k \in OrderStatuses |->
            {s \in OrderStatuses : \A set \in Closed : k \in set => s \in set}]

(* What is announced has happened: usage events and the messages           *)
(* still queued when others change the order are about committed orders,   *)
(* and a status message names a status the order has been in.              *)
NoticesTellTruth ==
  /\ \A o \in usage : Exists(o)
  /\ \A task \in tasks :
       /\ Exists(task[2])
       /\ task[1] = "scheduled" => orders[task[2]].scheduled # None
       /\ task[1] \in OrderStatuses => orders[task[2]].status \in Later[task[1]]

(* Whoever was answered 201 is served: the client and the restaurant find  *)
(* the order, an immediate order that nobody has decided about yet is on   *)
(* the kitchen board of its location, unless more are active there than    *)
(* the board shows, and on no other; a scheduled one is on none.           *)
AcceptedIsServed ==
  \A q \in Requests : req[q].answer = 201 =>
    LET input == req[q].input
        cooking == orders[q].status \in _KDS_ACTIVE_STATUSES
    IN /\ input.client # Guest => q \in MyOrders(input.client)
       /\ q \in RestaurantOrders(input.location, orders[q].status)
       /\ \A l \in OwnLocations : \A page \in KdsAnswers(l, FALSE) :
            /\ q \in page => cooking /\ l = input.location
            /\ /\ cooking /\ l = input.location
               /\ Cardinality(KitchenOrders(l, _KDS_ACTIVE_STATUSES)) <= KdsLimit
               => q \in page
       /\ orders[q].status = "new" => input.scheduled # None

(* A dine-in order is served at a table of its own location, whatever      *)
(* happened to tables between the check and the INSERT.                    *)
TablesServeLocation ==
  \A o \in Requests : Exists(o) /\ orders[o].type = "dine_in" =>
    \/ orders[o].table = None
    \/ orders[o].table \in tables /\ TableLocation[orders[o].table] = orders[o].location

(* A try-lock is taken only while its owner is between the lock and the    *)
(* commit: a refused, failed or interrupted request does not keep a        *)
(* restaurant from taking orders or its admin from changing the plan.      *)
LocksReleased ==
  /\ quotaLock # None => req[quotaLock].pc \in {"count", "check", "insert"}
  /\ subLock # None => sub[subLock].pc \in {"update", "insert"}

(* activation.py:12, "Order activates when: now() >= activation_time".     *)
ScheduledOrderActivated ==
  \A o \in Requests :
    (Exists(o) /\ orders[o].status = "new" /\ orders[o].scheduled <= now + Lead)
      ~> orders[o].status # "new"
=============================================================================
