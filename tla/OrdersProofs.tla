---------------------------- MODULE OrdersProofs ----------------------------
(* Theorems about Orders, for any number of requests, subscribers, plans,  *)
(* limits, tables and days.                                                *)
EXTENDS Orders, FiniteSetTheorems, TLAPS

-----------------------------------------------------------------------------
(* The subscriptions: whoever writes holds subLock, so what its UPDATE     *)
(* found active is what is active when it commits.                         *)

Writing(s) == sub[s].pc \in {"update", "insert"}

SubTypes ==
  /\ subs \in [Subscribers \cup {None} -> [plan : Plans \cup {None}, active : BOOLEAN]]
  /\ sub \in [Subscribers -> SubState]
  /\ subLock \in Subscribers \cup {None}

SubInv ==
  /\ SubTypes
  /\ OneActiveSubscription
  /\ \A x \in Subscribers \cup {None} : subs[x].active => subs[x].plan \in Plans
  /\ \A s \in Subscribers : Writing(s) <=> subLock = s
  /\ \A s \in Subscribers : Writing(s) => sub[s].plan \in Plans
  /\ \A s \in Subscribers :
       sub[s].pc = "insert" => sub[s].seen = {x \in Subscribers \cup {None} : subs[x].active}

LEMMA SubInit == Init => SubInv
<1> SUFFICES ASSUME Init PROVE SubInv
  OBVIOUS
<1>1. PICK first \in [plan : Plans, active : {TRUE}] \cup {NoSub} :
        subs = [s \in Subscribers \cup {None} |-> IF s = None THEN first ELSE NoSub]
  BY DEF Init
<1>0. first \in [plan : Plans \cup {None}, active : BOOLEAN]
  <2>1. NoSub \in [plan : Plans \cup {None}, active : BOOLEAN]
    BY DEF NoSub
  <2>2. [plan : Plans, active : {TRUE}] \subseteq [plan : Plans \cup {None}, active : BOOLEAN]
    OBVIOUS
  <2>3. QED
    BY <1>1, <2>1, <2>2
<1>2. SubTypes
  <2>0. [pc |-> "idle", plan |-> None, seen |-> {}] \in SubState
    BY DEF SubState
  <2>1. subs \in [Subscribers \cup {None} -> [plan : Plans \cup {None}, active : BOOLEAN]]
    BY <1>0, <1>1 DEF NoSub
  <2>2. QED
    BY <2>0, <2>1 DEF Init, SubTypes
<1>5. \A x \in Subscribers \cup {None} :
        subs[x].active => x = None /\ subs[x].plan \in Plans
  <2>1. ~NoSub.active
    BY DEF NoSub
  <2>2. first # NoSub => first.plan \in Plans
    BY <1>1
  <2>3. QED
    BY <1>1, <2>1, <2>2
<1>3. OneActiveSubscription
  BY <1>1, <1>5 DEF OneActiveSubscription
<1>4. QED
  BY <1>2, <1>3, <1>5, OrdersAssumption DEF Init, SubInv, Writing

LEMMA SubLockStep ==
  ASSUME SubInv, NEW s \in Subscribers, NEW plan \in Plans, SubscribeLock(s, plan)
  PROVE  SubInv'
<1> USE OrdersAssumption
<1>1. subs' = subs /\ s # None
  BY DEF SubscribeLock
<1>2. SubTypes'
  <2>1. DoneSub \in SubState /\ [pc |-> "update", plan |-> plan, seen |-> {}] \in SubState
    BY DEF DoneSub, SubState
  <2>2. /\ sub' \in [Subscribers -> SubState]
        /\ subLock' \in Subscribers \cup {None}
    <3>1. CASE sub' = [sub EXCEPT ![s] = DoneSub] /\ subLock' = subLock
      BY <3>1, <2>1 DEF SubInv, SubTypes
    <3>2. CASE /\ sub' = [sub EXCEPT ![s] = [pc |-> "update", plan |-> plan, seen |-> {}]]
               /\ subLock' = s
      BY <3>2, <2>1 DEF SubInv, SubTypes
    <3>3. QED
      BY <3>1, <3>2 DEF SubscribeLock
  <2>3. QED
    BY <1>1, <2>2 DEF SubInv, SubTypes
<1>3. \A t \in Subscribers : t # s => sub'[t] = sub[t]
  BY DEF SubInv, SubTypes, SubscribeLock
<1>4. CASE plan \in OfferedPlans /\ SubLockFree
  <2>1. subLock = None /\ subLock' = s /\ sub'[s].pc = "update" /\ sub'[s].plan = plan
    BY <1>4 DEF SubInv, SubTypes, SubscribeLock, SubLockFree
  <2>2. QED
    BY <1>1, <1>2, <1>3, <2>1 DEF SubInv, SubTypes, Writing, OneActiveSubscription
<1>5. CASE ~(plan \in OfferedPlans /\ SubLockFree)
  <2>1. subLock' = subLock /\ sub'[s].pc = "done" /\ sub[s].pc = "idle"
    BY <1>5 DEF SubInv, SubTypes, SubscribeLock, DoneSub
  <2>2. QED
    BY <1>1, <1>2, <1>3, <2>1 DEF SubInv, SubTypes, Writing, OneActiveSubscription
<1>6. QED
  BY <1>4, <1>5

LEMMA SubUpdateStep ==
  ASSUME SubInv, NEW s \in Subscribers, SubscribeUpdate(s)
  PROVE  SubInv'
<1>1. subs' = subs /\ subLock' = subLock /\ DOMAIN subs = Subscribers \cup {None}
  BY DEF SubscribeUpdate, SubInv, SubTypes
<1>2. /\ SubTypes'
      /\ \A t \in Subscribers : t # s => sub'[t] = sub[t]
      /\ sub'[s].pc = "insert" /\ sub'[s].plan = sub[s].plan
      /\ sub'[s].seen = {x \in Subscribers \cup {None} : subs[x].active}
  <2> DEFINE active == {x \in Subscribers \cup {None} : subs[x].active}
  <2>1. sub' = [sub EXCEPT ![s] = [pc |-> "insert", plan |-> sub[s].plan, seen |-> active]]
    BY <1>1 DEF SubscribeUpdate
  <2>2. [pc |-> "insert", plan |-> sub[s].plan, seen |-> active] \in SubState
    BY DEF SubInv, SubTypes, SubState
  <2>3. QED
    BY <1>1, <2>1, <2>2 DEF SubInv, SubTypes
<1>3. Writing(s)
  BY DEF SubscribeUpdate, Writing
<1>4. QED
  BY <1>1, <1>2, <1>3 DEF SubInv, Writing, OneActiveSubscription

LEMMA SubCommitStep ==
  ASSUME SubInv, NEW s \in Subscribers, SubscribeCommit(s)
  PROVE  SubInv'
<1> USE OrdersAssumption
<1>1. subLock = s /\ s # None /\ DOMAIN subs = Subscribers \cup {None}
  BY DEF SubscribeCommit, SubInv, SubTypes, Writing
<1>2. sub[s].seen = {x \in Subscribers \cup {None} : subs[x].active}
  BY DEF SubscribeCommit, SubInv
<1>3. \A x \in Subscribers \cup {None} : subs'[x].active => x = s
  <2> SUFFICES ASSUME NEW x \in Subscribers \cup {None}, x # s
               PROVE  ~subs'[x].active
    OBVIOUS
  <2>1. CASE x \in sub[s].seen
    <3>1. subs'[x] = [subs[x] EXCEPT !.active = FALSE]
      BY <1>1, <2>1 DEF SubscribeCommit
    <3>2. QED
      BY <3>1 DEF SubInv, SubTypes, NoSub
  <2>2. CASE x \notin sub[s].seen
    BY <1>1, <1>2, <2>2 DEF SubscribeCommit
  <2>3. QED
    BY <2>1, <2>2
<1>4. subs' \in [Subscribers \cup {None} -> [plan : Plans \cup {None}, active : BOOLEAN]]
  <2> DEFINE SubRow == [plan : Plans \cup {None}, active : BOOLEAN]
             row(x) == IF x = s THEN [plan |-> sub[s].plan, active |-> TRUE]
                       ELSE IF x \in sub[s].seen THEN [subs[x] EXCEPT !.active = FALSE]
                       ELSE subs[x]
  <2>1. [plan |-> sub[s].plan, active |-> TRUE] \in SubRow
    BY DEF SubInv, SubTypes, SubState
  <2>2. \A x \in Subscribers \cup {None} : subs[x] \in SubRow
    BY DEF SubInv, SubTypes
  <2>3. \A r \in SubRow : [r EXCEPT !.active = FALSE] \in SubRow
    OBVIOUS
  <2>4. \A x \in Subscribers \cup {None} : row(x) \in SubRow
    <3> HIDE DEF SubRow
    <3>1. QED
      BY <2>1, <2>2, <2>3
  <2>5. subs' = [x \in Subscribers \cup {None} |-> row(x)]
    BY <1>1 DEF SubscribeCommit
  <2>6. QED
    <3> HIDE DEF SubRow, row
    <3>1. subs' \in [Subscribers \cup {None} -> SubRow]
      BY <2>4, <2>5
    <3>2. QED
      BY <3>1 DEF SubRow
<1>5. subs'[s].plan \in Plans
  BY <1>1 DEF SubscribeCommit, SubInv, Writing
<1>6. \A t \in Subscribers : t # s => sub'[t] = sub[t] /\ ~Writing(t)
  BY <1>1 DEF SubscribeCommit, SubInv, SubTypes
<1>7. SubTypes' /\ subLock' = None /\ sub'[s].pc = "done"
  <2>1. DoneSub \in SubState /\ DoneSub.pc = "done"
    BY DEF DoneSub, SubState
  <2>2. QED
    BY <1>1, <1>4, <2>1 DEF SubscribeCommit, SubInv, SubTypes
<1>8. QED
  BY <1>1, <1>3, <1>5, <1>6, <1>7 DEF SubInv, SubTypes, Writing, OneActiveSubscription

(* A restart ends every transaction; what was committed stays. *)
LEMMA SubRestart == ASSUME SubInv, Restart PROVE SubInv'
<1> USE OrdersAssumption
<1>1. subs' = subs /\ subLock' = None
  BY DEF Restart
<1>2. \A s \in Subscribers : sub'[s] \in SubState /\ sub'[s].pc \in {"idle", "done"}
  <2> SUFFICES ASSUME NEW s \in Subscribers
               PROVE  sub'[s] \in SubState /\ sub'[s].pc \in {"idle", "done"}
    OBVIOUS
  <2>1. CASE sub[s].pc = "idle"
    BY <2>1 DEF Restart, SubInv, SubTypes
  <2>2. CASE sub[s].pc # "idle"
    BY <2>2 DEF Restart, DoneSub, SubState
  <2>3. QED
    BY <2>1, <2>2
<1>3. SubTypes'
  <2>1. sub' = [s \in Subscribers |-> sub'[s]]
    BY DEF Restart
  <2>2. sub' \in [Subscribers -> SubState]
    BY <1>2, <2>1
  <2>3. QED
    BY <1>1, <2>2 DEF SubInv, SubTypes
<1>4. \A s \in Subscribers : ~Writing(s)'
  BY <1>2 DEF Writing
<1>5. QED
  <2>1. \A s \in Subscribers : sub'[s].pc # "insert"
    BY <1>2
  <2>2. OneActiveSubscription'
    BY <1>1 DEF SubInv, OneActiveSubscription
  <2>3. None \notin Subscribers
    OBVIOUS
  <2>4. \A s \in Subscribers : Writing(s)' <=> subLock' = s
    BY <1>1, <1>4, <2>3
  <2>5. \A x \in Subscribers \cup {None} : subs'[x].active => subs'[x].plan \in Plans
    BY <1>1 DEF SubInv
  <2>6. QED
    BY <1>3, <1>4, <2>1, <2>2, <2>4, <2>5 DEF SubInv

LEMMA SubOther == ASSUME SubInv, UNCHANGED billingVars PROVE SubInv'
BY DEF SubInv, SubTypes, Writing, OneActiveSubscription, billingVars

LEMMA OrdersKeepBilling ==
  ASSUME NEW q \in Requests, Begin(q) \/ BeginRefused(q) \/ Checkout(q) \/ Step(q)
  PROVE  UNCHANGED billingVars
<1>1. CASE Begin(q)
  BY <1>1 DEF Begin
<1>2. CASE BeginRefused(q)
  BY <1>2 DEF BeginRefused, Refuse
<1>3. CASE Checkout(q)
  BY <1>3 DEF Checkout
<1>4. CASE ReadPlan(q)
  BY <1>4 DEF ReadPlan
<1>5. CASE TryLock(q)
  BY <1>5 DEF TryLock, Refuse
<1>6. CASE Count(q)
  BY <1>6 DEF Count, Refuse
<1>7. CASE Check(q)
  BY <1>7 DEF Check, Refuse
<1>8. CASE Insert(q)
  BY <1>8 DEF Insert, Refuse
<1>9. CASE Respond(q)
  BY <1>9 DEF Respond
<1>10. QED
  BY <1>1, <1>2, <1>3, <1>4, <1>5, <1>6, <1>7, <1>8, <1>9 DEF Step

LEMMA SubNext == ASSUME SubInv, [Next]_vars PROVE SubInv'
<1>1. CASE \E q \in Requests : Begin(q) \/ BeginRefused(q) \/ Checkout(q) \/ Step(q)
  BY <1>1, OrdersKeepBilling, SubOther
<1>2. CASE \E o \in Requests, status \in AdminStatuses : UpdateOrderStatus(o, status)
  BY <1>2, SubOther DEF UpdateOrderStatus
<1>3. CASE \E o \in Requests : Notify(o)
  BY <1>3, SubOther DEF Notify
<1>4. CASE \E t \in Tables : DeleteTable(t)
  BY <1>4, SubOther DEF DeleteTable
<1>5. CASE \E s \in Subscribers, plan \in Plans : SubscribeLock(s, plan)
  BY <1>5, SubLockStep
<1>6. CASE \E s \in Subscribers : SubscribeStep(s)
  BY <1>6, SubUpdateStep, SubCommitStep DEF SubscribeStep
<1>7. CASE Tick
  BY <1>7, SubOther DEF Tick
<1>8. CASE Restart
  BY <1>8, SubRestart
<1>9. CASE UNCHANGED vars
  BY <1>9, SubOther DEF vars, billingVars
<1>10. QED
  BY <1>1, <1>2, <1>3, <1>4, <1>5, <1>6, <1>7, <1>8, <1>9 DEF Next, Work

(* A restaurant never has two active subscriptions, however the requests  *)
(* of its admins overlap and whenever the worker is restarted.             *)
THEOREM OneActiveSubscriptionHolds == Spec => []OneActiveSubscription
<1>1. SubInv => OneActiveSubscription
  BY DEF SubInv
<1>2. QED
  BY <1>1, SubInit, SubNext, PTL DEF Spec

-----------------------------------------------------------------------------
(* Types, and the advisory lock of the quota.  TypeOK is inductive. *)

LEMMA InputFields ==
  ASSUME NEW i \in Inputs
  PROVE  /\ i.location \in Locations /\ i.type \in OrderTypes
         /\ i.table \in Tables \cup {None} /\ i.client \in Clients
         /\ i.scheduled \in Time \cup {None}
BY OrdersAssumption DEF Input

LEMMA RequestType ==
  ASSUME NEW pc \in Steps \cup {"idle", "done"}, NEW input \in Inputs \cup {None},
         NEW began \in Time, NEW answer \in Refusals \cup {201, None}
  PROVE  Request(pc, input, began, answer) \in RequestState
BY DEF Request, RequestState

LEMMA ZeroIsTime == 0 \in Time
BY OrdersAssumption DEF Time

LEMMA MonthType == ASSUME NEW t \in Time PROVE Month(t) \in Nat
BY OrdersAssumption DEF Month, Time

LEMMA DoneType ==
  ASSUME TypeOK, NEW q \in Requests, NEW input \in Inputs \cup {None},
         NEW answer \in Refusals \cup {201, None},
         req' = [req EXCEPT ![q] = Done(input, answer)]
  PROVE  req' \in [Requests -> RequestState]
<1>1. Done(input, answer) \in RequestState
  BY RequestType, ZeroIsTime DEF Done
<1>2. QED
  BY <1>1 DEF TypeOK

LEMMA RefuseType ==
  ASSUME TypeOK, NEW q \in Requests, NEW code \in Refusals, Refuse(q, code)
  PROVE  TypeOK'
<1>1. req' \in [Requests -> RequestState]
  BY DoneType DEF Refuse
<1>2. QED
  BY <1>1 DEF TypeOK, Refuse, EndTransaction, billingVars

LEMMA ProceedType ==
  ASSUME TypeOK, NEW q \in Requests, NEW pc \in Steps,
         NEW limit \in Int \cup {None}, NEW month \in Nat \cup {None},
         Proceed(q, pc, limit, month)
  PROVE  req' \in [Requests -> RequestState]
<1>1. req[q] \in RequestState
  BY DEF TypeOK
<1>2. [pc |-> pc, input |-> req[q].input, began |-> req[q].began,
       limit |-> limit, month |-> month, answer |-> None] \in RequestState
  BY <1>1 DEF RequestState
<1>3. QED
  BY <1>2 DEF TypeOK, Proceed

LEMMA GotoType ==
  ASSUME TypeOK, NEW q \in Requests, NEW pc \in Steps, Goto(q, pc)
  PROVE  req' \in [Requests -> RequestState]
<1>1. req[q].limit \in Int \cup {None} /\ req[q].month \in Nat \cup {None}
  BY DEF TypeOK, RequestState
<1>2. QED
  BY <1>1, ProceedType DEF Goto

LEMMA InitType == Init => TypeOK
<1> SUFFICES ASSUME Init PROVE TypeOK
  OBVIOUS
<1>1. SubTypes
  BY SubInit DEF SubInv
<1>2. Idle \in RequestState
  BY RequestType, ZeroIsTime DEF Idle
<1>3. QED
  BY <1>1, <1>2, ZeroIsTime DEF Init, TypeOK, SubTypes

LEMMA ActivePlansArePlans == ASSUME SubInv PROVE ActivePlans \subseteq Plans
BY DEF SubInv, SubTypes, ActivePlans

LEMMA QuotaStepsType ==
  ASSUME TypeOK, SubInv, NEW q \in Requests, ReadPlan(q) \/ TryLock(q) \/ Count(q)
  PROVE  TypeOK'
<1>0. req[q].limit \in Int \cup {None} /\ now \in Time
  BY DEF TypeOK, RequestState
<1>1. CASE ReadPlan(q)
  <2>1. PICK plan \in IF ActivePlans = {} THEN {Free} ELSE ActivePlans :
          Proceed(q, IF OrdersPerMonth[plan] = -1 THEN "check" ELSE "lock",
                  OrdersPerMonth[plan], None)
    BY <1>1 DEF ReadPlan
  <2>2. plan \in Plans => OrdersPerMonth[plan] \in Int
    BY OrdersAssumption
  <2>3. req' \in [Requests -> RequestState]
    <3>1. plan \in Plans
      BY <2>1, ActivePlansArePlans, OrdersAssumption
    <3>2. QED
      BY <2>1, <2>2, <3>1, ProceedType DEF Steps
  <2>4. QED
    BY <1>1, <2>3 DEF TypeOK, ReadPlan, billingVars
<1>2. CASE TryLock(q)
  <2>1. CASE Refuse(q, 429)
    BY <2>1, RefuseType DEF Refusals
  <2>2. CASE quotaLock' = q /\ Goto(q, "count") /\ ~Refuse(q, 429)
    <3>1. req' \in [Requests -> RequestState]
      BY <2>2, GotoType DEF Steps
    <3>2. QED
      BY <1>2, <2>2, <3>1 DEF TypeOK, TryLock, billingVars
  <2>3. QED
    BY <1>2, <2>1, <2>2 DEF TryLock
<1>3. CASE Count(q)
  <2>1. CASE Refuse(q, 402)
    BY <2>1, RefuseType DEF Refusals
  <2>2. CASE Proceed(q, "check", req[q].limit, Month(now)) /\ ~Refuse(q, 402)
    <3>1. req' \in [Requests -> RequestState]
      BY <1>0, <2>2, ProceedType, MonthType DEF Steps
    <3>2. QED
      BY <1>3, <2>2, <3>1 DEF TypeOK, Count, billingVars
  <2>3. QED
    BY <1>3, <2>1, <2>2 DEF Count
<1>4. QED
  BY <1>1, <1>2, <1>3
LEMMA RowType ==
  ASSUME NEW input \in Inputs, NEW created \in Time,
         NEW limit \in Int \cup {None}, NEW month \in Nat \cup {None}
  PROVE  [location |-> input.location, type |-> input.type, table |-> input.table,
          client |-> input.client, scheduled |-> input.scheduled,
          status |-> InitialStatus(input), created |-> created,
          limit |-> limit, month |-> month] \in Row
BY InputFields DEF Row, InitialStatus, OrderStatuses

(* From the first step to the response a request has a body. *)
HasInput == \A q \in Requests : req[q].pc \in Steps => req[q].input \in Inputs

LEMMA NewRowType ==
  ASSUME TypeOK, NEW q \in Requests, req[q].input \in Inputs
  PROVE  NewRow(q) \in Row
<1>1. /\ req[q].limit \in Int \cup {None} /\ req[q].month \in Nat \cup {None}
      /\ req[q].began \in Time
  BY DEF TypeOK, RequestState
<1>2. QED
  BY <1>1, RowType DEF NewRow

LEMMA InsertStepsType ==
  ASSUME TypeOK, HasInput, NEW q \in Requests, Check(q) \/ Insert(q) \/ Respond(q)
  PROVE  TypeOK'
<1>0. req[q].input \in Inputs
  BY DEF HasInput, Check, Insert, Respond, Steps
<1>1. CASE Check(q)
  <2>1. CASE \E code \in Refusals : Refuse(q, code)
    BY <2>1, RefuseType
  <2>2. CASE Goto(q, "insert") /\ ~ \E code \in Refusals : Refuse(q, code)
    <3>1. req' \in [Requests -> RequestState]
      BY <2>2, GotoType DEF Steps
    <3>2. UNCHANGED <<now, tables, orders, usage, tasks, quotaLock, polling, billingVars>>
      BY <1>1, <2>2 DEF Check, Refusals
    <3>3. QED
      BY <3>1, <3>2 DEF TypeOK, billingVars
  <2>3. QED
    BY <1>1, <2>1, <2>2 DEF Check, Refusals
<1>2. CASE Insert(q)
  <2>1. CASE Refuse(q, 500)
    BY <2>1, RefuseType DEF Refusals
  <2>2. CASE Goto(q, "respond") /\ orders' = [orders EXCEPT ![q] = NewRow(q)] /\ ~Refuse(q, 500)
    <3>1. req' \in [Requests -> RequestState]
      BY <2>2, GotoType DEF Steps
    <3>2. orders' \in [Requests -> Row \cup {NoOrder}]
      BY <1>0, <2>2, NewRowType DEF TypeOK
    <3>3. QED
      BY <1>2, <2>2, <3>1, <3>2 DEF TypeOK, Insert, billingVars, EndTransaction
  <2>3. QED
    BY <1>2, <2>1, <2>2 DEF Insert
<1>3. CASE Respond(q)
  <2>1. req' \in [Requests -> RequestState]
    BY <1>0, <1>3, DoneType DEF Respond
  <2>2. CreationNotices(q) \subseteq Kinds \X Requests
    BY DEF CreationNotices, Kinds, OrderStatuses
  <2>3. QED
    BY <1>3, <2>1, <2>2 DEF TypeOK, Respond, billingVars
<1>4. QED
  BY <1>1, <1>2, <1>3

LEMMA BeginStepsType ==
  ASSUME TypeOK, NEW q \in Requests, Begin(q) \/ BeginRefused(q) \/ Checkout(q)
  PROVE  TypeOK'
<1>0. now \in Time
  BY DEF TypeOK
<1>1. CASE Begin(q)
  <2>1. PICK input \in Inputs : req' = [req EXCEPT ![q] = Request("plan", input, now, None)]
    BY <1>1 DEF Begin
  <2>2. Request("plan", input, now, None) \in RequestState
    BY <1>0, RequestType DEF Steps
  <2>3. req' \in [Requests -> RequestState]
    BY <2>1, <2>2 DEF TypeOK
  <2>4. QED
    BY <1>1, <2>3 DEF TypeOK, Begin, billingVars
<1>2. CASE BeginRefused(q)
  BY <1>2, RefuseType DEF BeginRefused, Refusals
<1>3. CASE Checkout(q)
  <2>1. PICK input \in Inputs :
          /\ req' = [req EXCEPT ![q] = Done(input, 201)]
          /\ orders' = [orders EXCEPT ![q] =
               [location |-> input.location, type |-> input.type, table |-> input.table,
                client |-> input.client, scheduled |-> input.scheduled,
                status |-> InitialStatus(input), created |-> now,
                limit |-> None, month |-> None]]
          /\ tasks' = tasks \cup CheckoutNotices(input, q)
    BY <1>3 DEF Checkout
  <2>2. req' \in [Requests -> RequestState]
    BY <2>1, DoneType
  <2>3. orders' \in [Requests -> Row \cup {NoOrder}]
    BY <1>0, <2>1, RowType DEF TypeOK
  <2>4. CheckoutNotices(input, q) \subseteq Kinds \X Requests
    BY DEF CheckoutNotices, Kinds, OrderStatuses
  <2>5. QED
    BY <1>3, <2>1, <2>2, <2>3, <2>4 DEF TypeOK, Checkout, billingVars
<1>4. QED
  BY <1>1, <1>2, <1>3

LEMMA TransitionsAreStatuses ==
  \A k \in OrderStatuses : ORDER_STATUS_TRANSITIONS[k] \subseteq OrderStatuses
BY DEF ORDER_STATUS_TRANSITIONS, OrderStatuses

LEMMA ExistingRow ==
  ASSUME TypeOK, NEW o \in Requests, Exists(o) PROVE orders[o] \in Row
BY DEF TypeOK, Exists, NoOrder

LEMMA RestType ==
  ASSUME TypeOK, SubInv', Next,
         ~ \E q \in Requests : Begin(q) \/ BeginRefused(q) \/ Checkout(q) \/ Step(q)
  PROVE  TypeOK'
<1>1. ASSUME NEW o \in Requests, NEW status \in AdminStatuses, UpdateOrderStatus(o, status)
      PROVE  TypeOK'
  <2>1. [orders[o] EXCEPT !.status = status] \in Row
    BY <1>1, ExistingRow, OrdersAssumption DEF UpdateOrderStatus, Row
  <2>2. orders' \in [Requests -> Row \cup {NoOrder}]
    BY <1>1, <2>1 DEF UpdateOrderStatus, TypeOK
  <2>3. tasks' \subseteq Kinds \X Requests
    BY <1>1, OrdersAssumption DEF UpdateOrderStatus, TypeOK, Kinds
  <2>4. QED
    BY <1>1, <2>2, <2>3 DEF UpdateOrderStatus, TypeOK, requestVars, billingVars
<1>2. ASSUME NEW o \in Requests, Notify(o) PROVE TypeOK'
  BY <1>2 DEF Notify, TypeOK, requestVars, billingVars
<1>3. ASSUME NEW t \in Tables, DeleteTable(t) PROVE TypeOK'
  <2>1. \A o \in Requests :
          Exists(o) => [orders[o] EXCEPT !.table = None] \in Row
    BY ExistingRow DEF Row
  <2>2. orders' \in [Requests -> Row \cup {NoOrder}]
    BY <1>3, <2>1 DEF DeleteTable, TypeOK
  <2>3. QED
    BY <1>3, <2>2 DEF DeleteTable, TypeOK, requestVars, billingVars
<1>4. CASE UNCHANGED ordersVars
  BY <1>4 DEF ordersVars, requestVars, TypeOK, SubInv, SubTypes
<1>5. CASE Tick
  BY <1>5, OrdersAssumption DEF Tick, TypeOK, Time, requestVars, billingVars
<1>6. CASE Restart
  <2>1. Done(None, None) \in RequestState
    BY RequestType, ZeroIsTime DEF Done
  <2>2. req' \in [Requests -> RequestState]
    BY <1>6, <2>1 DEF Restart, TypeOK
  <2>3. QED
    BY <1>6, <2>2 DEF Restart, TypeOK, SubInv, SubTypes
<1>7. QED
  BY <1>1, <1>2, <1>3, <1>4, <1>5, <1>6
     DEF Next, Work, SubscribeLock, SubscribeStep, SubscribeUpdate, SubscribeCommit
LEMMA HasInputStep == ASSUME TypeOK, HasInput, Next PROVE HasInput'
<1> SUFFICES ASSUME NEW p \in Requests, req'[p].pc \in Steps
             PROVE  req'[p].input \in Inputs
  BY DEF HasInput
<1>1. ASSUME NEW q \in Requests, NEW input, NEW answer,
             req' = [req EXCEPT ![q] = Done(input, answer)]
      PROVE  p # q /\ req'[p] = req[p]
  BY <1>1 DEF TypeOK, Done, Request, Steps
<1>2. ASSUME NEW q \in Requests, NEW pc \in Steps, NEW limit, NEW month,
             req[q].pc \in Steps, Proceed(q, pc, limit, month)
      PROVE  req[p].pc \in Steps /\ req'[p].input = req[p].input
  BY <1>2 DEF TypeOK, Proceed
<1>3. CASE req' = req
  BY <1>3 DEF HasInput
<1>4. ASSUME NEW q \in Requests, Begin(q) PROVE req'[p].input \in Inputs
  <2>1. PICK input \in Inputs : req' = [req EXCEPT ![q] = Request("plan", input, now, None)]
    BY <1>4 DEF Begin
  <2>2. CASE p = q
    BY <2>1, <2>2 DEF TypeOK, Request
  <2>3. CASE p # q
    BY <2>1, <2>3 DEF TypeOK, HasInput
  <2>4. QED
    BY <2>2, <2>3
<1>5. ASSUME NEW q \in Requests, BeginRefused(q) \/ Checkout(q) \/ Respond(q)
      PROVE req'[p].input \in Inputs
  <2>1. \E input, answer : req' = [req EXCEPT ![q] = Done(input, answer)]
    BY <1>5 DEF BeginRefused, Refuse, Checkout, Respond
  <2>2. QED
    BY <1>1, <2>1 DEF HasInput
<1>6. ASSUME NEW q \in Requests, ReadPlan(q) \/ TryLock(q) \/ Count(q) \/ Check(q) \/ Insert(q)
      PROVE req'[p].input \in Inputs
  <2>1. req[q].pc \in Steps
    BY <1>6 DEF ReadPlan, TryLock, Count, Check, Insert, Steps
  <2>2. \/ \E code : Refuse(q, code)
        \/ \E pc \in Steps : \E limit, month : Proceed(q, pc, limit, month)
    BY <1>6 DEF ReadPlan, TryLock, Count, Check, Insert, Steps, Goto
  <2>3. CASE \E code : Refuse(q, code)
    BY <1>1, <2>3 DEF Refuse, HasInput
  <2>4. CASE \E pc \in Steps : \E limit, month : Proceed(q, pc, limit, month)
    BY <1>2, <2>1, <2>4 DEF HasInput
  <2>5. QED
    BY <2>2, <2>3, <2>4
<1>7. CASE Restart
  BY <1>7 DEF Restart, TypeOK, HasInput, Done, Request, Steps
<1>8. QED
  BY <1>3, <1>4, <1>5, <1>6, <1>7
     DEF Next, Work, Step, UpdateOrderStatus, Notify, DeleteTable, Tick, requestVars,
         SubscribeLock, SubscribeStep, SubscribeUpdate, SubscribeCommit, ordersVars

BaseInv == TypeOK /\ SubInv /\ HasInput

LEMMA BaseInit == Init => BaseInv
<1> SUFFICES ASSUME Init PROVE BaseInv
  OBVIOUS
<1>1. HasInput
  BY DEF Init, HasInput, Idle, Request, Steps
<1>2. QED
  BY <1>1, InitType, SubInit DEF BaseInv

LEMMA BaseNext == ASSUME BaseInv, [Next]_vars PROVE BaseInv'
<1>1. SubInv'
  BY SubNext DEF BaseInv
<1>2. CASE Next
  <2>1. TypeOK'
    BY <1>1, <1>2, QuotaStepsType, InsertStepsType, BeginStepsType, RestType DEF BaseInv, Step
  <2>2. QED
    BY <1>1, <1>2, <2>1, HasInputStep DEF BaseInv
<1>3. CASE UNCHANGED vars
  BY <1>1, <1>3 DEF BaseInv, TypeOK, HasInput, vars
<1>4. QED
  BY <1>2, <1>3

(* Every variable keeps its type. *)
THEOREM TypeInvariant == Spec => []TypeOK
<1>1. BaseInv => TypeOK
  BY DEF BaseInv
<1>2. QED
  BY <1>1, BaseInit, BaseNext, PTL DEF Spec
-----------------------------------------------------------------------------
(* The quota.  A request that was counted holds the advisory lock until it *)
(* commits, so nobody inserts a counted order between its COUNT and its    *)
(* INSERT; orders that leave the count never come back to it.              *)

Open(q) == req[q].pc \in {"check", "insert"} /\ req[q].month # None
Judging(q) == req[q].pc = "count" \/ Open(q)

LockInv ==
  \A q \in Requests :
    /\ quotaLock = q => req[q].pc \in {"count", "check", "insert"}
    /\ Judging(q) => quotaLock = q
    /\ req[q].pc \in {"lock", "count"} \/ Open(q) => req[q].limit \in Int

LEMMA LockInit == Init => LockInv
BY OrdersAssumption DEF Init, LockInv, Judging, Open, Idle, Request

LEMMA LockRefuse ==
  ASSUME TypeOK, LockInv, NEW q \in Requests, NEW input, NEW answer, EndTransaction(q),
         req' = [req EXCEPT ![q] = Done(input, answer)]
  PROVE  LockInv'
<1> USE OrdersAssumption
<1>1. req'[q].pc = "done" /\ quotaLock' # q
  BY DEF TypeOK, Done, Request, EndTransaction
<1>2. \A p \in Requests \ {q} : req'[p] = req[p] /\ (quotaLock' = p <=> quotaLock = p)
  BY DEF TypeOK, EndTransaction
<1>3. QED
  BY <1>1, <1>2 DEF LockInv, Judging, Open

LEMMA LockProceed ==
  ASSUME TypeOK, NEW q \in Requests, NEW pc \in Steps, NEW limit, NEW month,
         Proceed(q, pc, limit, month)
  PROVE  /\ req'[q].pc = pc /\ req'[q].limit = limit /\ req'[q].month = month
         /\ \A p \in Requests \ {q} : req'[p] = req[p]
BY DEF TypeOK, Proceed

LEMMA LockStep ==
  ASSUME BaseInv, LockInv, NEW q \in Requests, Step(q)
  PROVE  LockInv'
<1> USE OrdersAssumption
<1>0. TypeOK
  BY DEF BaseInv
<1>1. CASE \E code : Refuse(q, code)
  BY <1>0, <1>1, LockRefuse DEF Refuse
<1>2. CASE ReadPlan(q)
  <2>1. PICK plan \in Plans :
          Proceed(q, IF OrdersPerMonth[plan] = -1 THEN "check" ELSE "lock",
                  OrdersPerMonth[plan], None)
    BY <1>2, ActivePlansArePlans DEF ReadPlan, BaseInv
  <2>2. /\ req'[q].pc \in {"check", "lock"} /\ req'[q].limit \in Int /\ req'[q].month = None
        /\ \A p \in Requests \ {q} : req'[p] = req[p]
    BY <1>0, <2>1, LockProceed DEF Steps
  <2>3. quotaLock' = quotaLock /\ quotaLock # q
    BY <1>2 DEF ReadPlan, LockInv
  <2>4. QED
    BY <2>2, <2>3 DEF LockInv, Judging, Open
<1>3. CASE TryLock(q) /\ ~ \E code : Refuse(q, code)
  <2>1. quotaLock = None /\ quotaLock' = q /\ Goto(q, "count") /\ req[q].pc = "lock"
    BY <1>3 DEF TryLock
  <2>2. /\ req'[q].pc = "count" /\ req'[q].limit = req[q].limit
        /\ \A p \in Requests \ {q} : req'[p] = req[p]
    BY <1>0, <2>1, LockProceed DEF Goto, Steps
  <2>3. QED
    BY <2>1, <2>2 DEF LockInv, Judging, Open
<1>4. CASE Count(q) /\ ~ \E code : Refuse(q, code)
  <2>1. /\ Proceed(q, "check", req[q].limit, Month(now)) /\ quotaLock' = quotaLock
        /\ req[q].pc = "count"
    BY <1>4 DEF Count
  <2>2. /\ req'[q].pc = "check" /\ req'[q].limit = req[q].limit
        /\ \A p \in Requests \ {q} : req'[p] = req[p]
    BY <1>0, <2>1, LockProceed DEF Steps
  <2>3. QED
    BY <2>1, <2>2 DEF LockInv, Judging, Open
<1>5. CASE Check(q) /\ ~ \E code : Refuse(q, code)
  <2>1. Goto(q, "insert") /\ quotaLock' = quotaLock /\ req[q].pc = "check"
    BY <1>5 DEF Check
  <2>2. /\ req'[q].pc = "insert" /\ req'[q].limit = req[q].limit /\ req'[q].month = req[q].month
        /\ \A p \in Requests \ {q} : req'[p] = req[p]
    BY <1>0, <2>1, LockProceed DEF Goto, Steps
  <2>3. QED
    BY <2>1, <2>2 DEF LockInv, Judging, Open
<1>6. CASE Insert(q) /\ ~ \E code : Refuse(q, code)
  <2>1. Goto(q, "respond") /\ EndTransaction(q)
    BY <1>6 DEF Insert
  <2>2. /\ req'[q].pc = "respond"
        /\ \A p \in Requests \ {q} : req'[p] = req[p]
    BY <1>0, <2>1, LockProceed DEF Goto, Steps
  <2>3. quotaLock' # q /\ \A p \in Requests \ {q} : quotaLock' = p <=> quotaLock = p
    BY <2>1 DEF EndTransaction
  <2>4. QED
    BY <2>2, <2>3 DEF LockInv, Judging, Open
<1>7. CASE Respond(q)
  <2>1. /\ req[q].pc = "respond" /\ quotaLock' = quotaLock
        /\ req' = [req EXCEPT ![q] = Done(req[q].input, 201)]
    BY <1>7 DEF Respond
  <2>2. EndTransaction(q)
    BY <2>1 DEF EndTransaction, LockInv
  <2>3. QED
    BY <1>0, <2>1, <2>2, LockRefuse
<1>8. QED
  BY <1>1, <1>2, <1>3, <1>4, <1>5, <1>6, <1>7 DEF Step

LEMMA LockNext == ASSUME BaseInv, LockInv, [Next]_vars PROVE LockInv'
<1> USE OrdersAssumption
<1>0. TypeOK
  BY DEF BaseInv
<1>1. ASSUME NEW q \in Requests, Begin(q) PROVE LockInv'
  <2>1. PICK input \in Inputs : req' = [req EXCEPT ![q] = Request("plan", input, now, None)]
    BY <1>1 DEF Begin
  <2>2. req'[q].pc = "plan" /\ \A p \in Requests \ {q} : req'[p] = req[p]
    BY <1>0, <2>1 DEF TypeOK, Request
  <2>3. quotaLock' = quotaLock /\ quotaLock # q
    BY <1>1 DEF Begin, LockInv
  <2>4. QED
    BY <2>2, <2>3 DEF LockInv, Judging, Open
<1>2. ASSUME NEW q \in Requests, BeginRefused(q) PROVE LockInv'
  BY <1>0, <1>2, LockRefuse DEF BeginRefused, Refuse
<1>3. ASSUME NEW q \in Requests, Checkout(q) PROVE LockInv'
  <2>1. PICK input \in Inputs : req' = [req EXCEPT ![q] = Done(input, 201)]
    BY <1>3 DEF Checkout
  <2>2. EndTransaction(q)
    BY <1>3 DEF Checkout, LockInv, EndTransaction
  <2>3. QED
    BY <1>0, <2>1, <2>2, LockRefuse
<1>4. ASSUME NEW q \in Requests, Step(q) PROVE LockInv'
  BY <1>4, LockStep
<1>5. CASE UNCHANGED requestVars
  BY <1>5 DEF LockInv, Judging, Open, requestVars
<1>6. CASE Restart
  <2>1. quotaLock' = None
    BY <1>6 DEF Restart
  <2>2. \A q \in Requests : req'[q].pc \in {"idle", "done"}
    <3> SUFFICES ASSUME NEW q \in Requests PROVE req'[q].pc \in {"idle", "done"}
      OBVIOUS
    <3>1. req[q].pc \in Steps \cup {"idle", "done"}
      BY <1>0 DEF TypeOK, RequestState
    <3>2. QED
      BY <1>6, <3>1 DEF Restart, Done, Request
  <2>3. QED
    BY <2>1, <2>2 DEF LockInv, Judging, Open
<1>7. QED
  BY <1>1, <1>2, <1>3, <1>4, <1>5, <1>6
     DEF Next, Work, UpdateOrderStatus, Notify, DeleteTable, Tick, SubscribeLock,
         SubscribeStep, SubscribeUpdate, SubscribeCommit, ordersVars, requestVars, vars

(* Neither lock outlives the request that took it. *)
THEOREM LocksReleasedHolds == Spec => []LocksReleased
<1>1. BaseInv /\ LockInv => LocksReleased
  BY DEF BaseInv, TypeOK, SubInv, SubTypes, LockInv, LocksReleased, Writing
<1>2. Init => BaseInv /\ LockInv
  BY BaseInit, LockInit
<1>3. BaseInv /\ LockInv /\ [Next]_vars => (BaseInv /\ LockInv)'
  BY BaseNext, LockNext
<1>4. QED
  BY <1>1, <1>2, <1>3, PTL DEF Spec
(* The orders that were judged in month m and are counted in it. *)
Judged(m) == {o \in Requests : /\ Exists(o) /\ orders[o].status # "cancelled"
                               /\ orders[o].month = m /\ Month(orders[o].created) = m}

QuotaInv ==
  \A q \in Requests, m \in Nat :
    Open(q) /\ req[q].month = m => Cardinality(Judged(m)) < req[q].limit

LEMMA JudgedFinite ==
  ASSUME NEW m
  PROVE  IsFiniteSet(Judged(m)) /\ Cardinality(Judged(m)) \in Nat
<1>1. Judged(m) \in SUBSET Requests
  BY DEF Judged
<1>2. IsFiniteSet(Judged(m))
  BY <1>1, FS_Subset, OrdersAssumption
<1>3. QED
  BY <1>2, FS_CardinalityType

LEMMA CancelledIsFinal == ORDER_STATUS_TRANSITIONS["cancelled"] = {}
BY DEF ORDER_STATUS_TRANSITIONS, OrderStatuses

(* Only the INSERT of a counted order adds to a count. *)
LEMMA JudgedShrinks ==
  ASSUME BaseInv, NEW m, m # None, [Next]_vars,
         \A q \in Requests : Insert(q) => req[q].pc # "insert" \/ req[q].month # m
  PROVE  Judged(m)' \subseteq Judged(m)
<1> SUFFICES ASSUME NEW o \in Requests, o \in Judged(m)' PROVE o \in Judged(m)
  BY DEF Judged
<1>0. TypeOK /\ Exists(o)' /\ orders'[o].status # "cancelled"
      /\ orders'[o].month = m /\ Month(orders'[o].created) = m
  BY DEF BaseInv, Judged, Exists
<1>1. CASE orders'[o] = orders[o]
  BY <1>0, <1>1 DEF Judged, Exists
<1>2. ASSUME NEW q \in Requests, Begin(q) \/ BeginRefused(q) \/ Step(q), ~Insert(q)
      PROVE o \in Judged(m)
  <2>1. orders' = orders
    BY <1>2 DEF Begin, BeginRefused, Step, ReadPlan, TryLock, Count, Check, Respond, Refuse
  <2>2. QED
    BY <1>1, <2>1
<1>3. ASSUME NEW q \in Requests, Insert(q) PROVE o \in Judged(m)
  <2>1. CASE orders' = [orders EXCEPT ![q] = NewRow(q)]
    <3>1. CASE o = q
      BY <1>0, <1>3, <2>1, <3>1 DEF TypeOK, NewRow, Insert
    <3>2. CASE o # q
      BY <1>1, <2>1, <3>2 DEF TypeOK
    <3>3. QED
      BY <3>1, <3>2
  <2>2. CASE orders' = orders
    BY <1>1, <2>2
  <2>3. QED
    BY <1>3, <2>1, <2>2 DEF Insert, Refuse
<1>4. ASSUME NEW q \in Requests, Checkout(q) PROVE o \in Judged(m)
  <2>1. o = q => orders'[o].month = None
    BY <1>0, <1>4 DEF Checkout, TypeOK
  <2>2. o # q => orders'[o] = orders[o]
    BY <1>0, <1>4 DEF Checkout, TypeOK
  <2>3. QED
    BY <1>0, <1>1, <2>1, <2>2
<1>5. ASSUME NEW p \in Requests, NEW status \in AdminStatuses, UpdateOrderStatus(p, status)
      PROVE o \in Judged(m)
  <2>1. CASE o = p
    <3>1. orders[o] \in Row /\ orders'[o] = [orders[o] EXCEPT !.status = status]
      BY <1>0, <1>5, <2>1, ExistingRow DEF UpdateOrderStatus, TypeOK
    <3>2. orders'[o].month = orders[o].month /\ orders'[o].created = orders[o].created
      BY <3>1 DEF Row
    <3>3. orders[o].status # "cancelled"
      BY <1>5, <2>1, CancelledIsFinal DEF UpdateOrderStatus
    <3>4. QED
      BY <1>0, <1>5, <2>1, <3>2, <3>3 DEF Judged, UpdateOrderStatus
  <2>2. CASE o # p
    BY <1>0, <1>1, <1>5, <2>2 DEF UpdateOrderStatus, TypeOK
  <2>3. QED
    BY <2>1, <2>2
<1>6. ASSUME NEW t \in Tables, DeleteTable(t) PROVE o \in Judged(m)
  <2>1. CASE Exists(o) /\ orders[o].table = t
    <3>1. orders[o] \in Row /\ orders'[o] = [orders[o] EXCEPT !.table = None]
      BY <1>0, <1>6, <2>1, ExistingRow DEF DeleteTable
    <3>2. /\ orders'[o].month = orders[o].month /\ orders'[o].created = orders[o].created
          /\ orders'[o].status = orders[o].status
      BY <3>1 DEF Row
    <3>3. QED
      BY <1>0, <2>1, <3>2 DEF Judged
  <2>2. CASE ~(Exists(o) /\ orders[o].table = t)
    BY <1>1, <1>6, <2>2 DEF DeleteTable
  <2>3. QED
    BY <2>1, <2>2
<1>7. QED
  BY <1>1, <1>2, <1>3, <1>4, <1>5, <1>6
     DEF Next, Work, Notify, Tick, Restart, SubscribeLock, SubscribeStep,
         SubscribeUpdate, SubscribeCommit, ordersVars, vars

LEMMA QuotaCount ==
  ASSUME BaseInv, LockInv, NEW q \in Requests, Count(q), Open(q)',
         NEW m \in Nat, req'[q].month = m
  PROVE  Cardinality(Judged(m)') < req'[q].limit
<1>0. TypeOK
  BY DEF BaseInv
<1>1. /\ Cardinality(Counted) < req[q].limit /\ orders' = orders
      /\ Proceed(q, "check", req[q].limit, Month(now)) /\ req[q].pc = "count"
  <2>1. ~Refuse(q, 402)
    BY <1>0 DEF Refuse, Open, TypeOK, Done, Request
  <2>2. QED
    BY <2>1 DEF Count
<1>2. req'[q].limit = req[q].limit /\ m = Month(now)
  BY <1>0, <1>1, LockProceed DEF Steps
<1>3. Judged(m)' = Judged(m)
  BY <1>1 DEF Judged, Exists
<1>4. Judged(m) \in SUBSET Counted
  <2>1. Month(now) \in Nat
    BY <1>0, MonthType DEF TypeOK
  <2>2. QED
    BY <1>2, <2>1 DEF Judged, Counted
<1>5. IsFiniteSet(Counted)
  <2>1. Counted \in SUBSET Requests
    BY DEF Counted
  <2>2. QED
    BY <2>1, FS_Subset, OrdersAssumption
<1>6. Cardinality(Judged(m)) <= Cardinality(Counted)
  BY <1>4, <1>5, FS_Subset
<1>7. /\ Cardinality(Judged(m)) \in Nat /\ Cardinality(Counted) \in Nat
      /\ req[q].limit \in Int
  BY <1>1, <1>5, JudgedFinite, FS_CardinalityType DEF LockInv
<1>8. QED
  BY <1>1, <1>2, <1>3, <1>6, <1>7

(* Whoever is past the count and stays there keeps what it was told. *)
LEMMA OpenStays ==
  ASSUME BaseInv, NEW p \in Requests, ~Count(p), [Next]_vars, Open(p)'
  PROVE  /\ Open(p) /\ req'[p].limit = req[p].limit /\ req'[p].month = req[p].month
         /\ ~Insert(p)
<1> USE OrdersAssumption
<1>0. TypeOK
  BY DEF BaseInv
<1>1. ASSUME NEW q \in Requests, NEW pc, NEW input, NEW began, NEW answer,
             req' = [req EXCEPT ![q] = Request(pc, input, began, answer)]
      PROVE  p # q /\ req'[p] = req[p]
  BY <1>0, <1>1 DEF TypeOK, Request, Open
<1>2. ~Insert(p)
  <2>1. ASSUME Goto(p, "respond") PROVE FALSE
    BY <1>0, <2>1, LockProceed DEF Goto, Steps, Open
  <2>2. QED
    BY <1>1, <2>1 DEF Insert, Refuse, Done
<1>3. CASE req'[p] = req[p]
  BY <1>2, <1>3 DEF Open
<1>4. ASSUME NEW q \in Requests, Step(q), q # p PROVE req'[p] = req[p]
  <2>1. \/ \E pc \in Steps : \E limit, month : Proceed(q, pc, limit, month)
        \/ \E input, answer : req' = [req EXCEPT ![q] = Done(input, answer)]
    BY <1>4 DEF Step, ReadPlan, TryLock, Count, Check, Insert, Respond, Refuse, Goto, Steps
  <2>2. QED
    BY <1>0, <1>4, <2>1 DEF TypeOK, Proceed
<1>5. CASE Step(p)
  <2>1. ASSUME \E code : Refuse(p, code) PROVE FALSE
    BY <1>1, <2>1 DEF Refuse, Done
  <2>2. ~Respond(p)
    BY <1>1 DEF Respond, Done
  <2>3. ~ReadPlan(p)
    <3>1. SUFFICES ASSUME ReadPlan(p) PROVE FALSE
      OBVIOUS
    <3>2. \E pc \in Steps : \E limit : Proceed(p, pc, limit, None)
      BY <3>1 DEF ReadPlan, Steps
    <3>3. QED
      BY <1>0, <3>2, LockProceed DEF Open
  <2>4. ~TryLock(p)
    <3>1. SUFFICES ASSUME Goto(p, "count") PROVE FALSE
      BY <2>1 DEF TryLock
    <3>2. QED
      BY <1>0, <3>1, LockProceed DEF Goto, Steps, Open
  <2>5. Check(p) /\ Goto(p, "insert")
    BY <1>2, <1>5, <2>1, <2>2, <2>3, <2>4 DEF Step, Check
  <2>6. /\ req[p].pc = "check" /\ req'[p].limit = req[p].limit /\ req'[p].month = req[p].month
    BY <1>0, <2>5, LockProceed DEF Check, Goto, Steps
  <2>7. QED
    BY <1>2, <2>6 DEF Open
<1>6. CASE req' = req
  BY <1>3, <1>6
<1>7. ASSUME NEW q \in Requests, Begin(q) \/ BeginRefused(q) \/ Checkout(q)
      PROVE  req'[p] = req[p]
  BY <1>1, <1>7 DEF Begin, BeginRefused, Checkout, Refuse, Done
<1>8. CASE Restart
  <2>1. req'[p].pc # "done"
    BY DEF Open
  <2>2. req'[p] = req[p]
    BY <1>8, <2>1 DEF Restart, Done, Request
  <2>3. QED
    BY <1>3, <2>2
<1>9. QED
  BY <1>3, <1>4, <1>5, <1>6, <1>7, <1>8
     DEF Next, Work, UpdateOrderStatus, Notify, DeleteTable, Tick, SubscribeLock,
         SubscribeStep, SubscribeUpdate, SubscribeCommit, ordersVars, requestVars, vars

LEMMA QuotaNext == ASSUME BaseInv, LockInv, QuotaInv, [Next]_vars PROVE QuotaInv'
<1> SUFFICES ASSUME NEW p \in Requests, NEW m \in Nat, Open(p)', req'[p].month = m
             PROVE  Cardinality(Judged(m)') < req'[p].limit
  BY DEF QuotaInv
<1>1. CASE Count(p)
  BY <1>1, QuotaCount
<1>2. CASE ~Count(p)
  <2>1. Open(p) /\ req'[p].limit = req[p].limit /\ req[p].month = m /\ ~Insert(p)
    BY <1>2, OpenStays
  <2>2. m # None /\ Cardinality(Judged(m)) < req[p].limit /\ req[p].limit \in Int
        /\ quotaLock = p
    BY <2>1 DEF Open, QuotaInv, LockInv, Judging
  <2>3. ASSUME NEW q \in Requests, Insert(q) PROVE req[q].pc # "insert" \/ req[q].month # m
    BY <2>1, <2>2, <2>3 DEF LockInv, Judging, Open
  <2>4. Judged(m)' \subseteq Judged(m)
    BY <2>2, <2>3, JudgedShrinks
  <2>5. Cardinality(Judged(m)') <= Cardinality(Judged(m))
    BY <2>4, JudgedFinite, FS_Subset
  <2>6. Cardinality(Judged(m)') \in Nat /\ Cardinality(Judged(m)) \in Nat
    <3>1. Judged(m)' \in SUBSET Judged(m)
      BY <2>4
    <3>2. IsFiniteSet(Judged(m)')
      BY <3>1, JudgedFinite, FS_Subset
    <3>3. QED
      BY <3>2, JudgedFinite, FS_CardinalityType
  <2>7. QED
    BY <2>1, <2>2, <2>5, <2>6
<1>3. QED
  BY <1>1, <1>2

(* A counted order that commits finds the month below the limit, and adds  *)
(* itself.                                                                 *)
LEMMA QuotaInsert ==
  ASSUME BaseInv, LockInv, QuotaInv, NEW q \in Requests, Next, ~Exists(q), Exists(q)',
         orders'[q].limit # None
  PROVE  /\ Insert(q) /\ Open(q) /\ orders' = [orders EXCEPT ![q] = NewRow(q)]
         /\ req[q].limit \in Int
<1>0. TypeOK
  BY DEF BaseInv
<1>1. orders' # orders /\ orders'[q] # orders[q]
  BY DEF Exists
<1>2. ASSUME NEW p \in Requests, Checkout(p) PROVE FALSE
  <2>1. p = q
    BY <1>0, <1>1, <1>2 DEF Checkout, TypeOK
  <2>2. QED
    BY <1>0, <1>2, <2>1 DEF Checkout, TypeOK
<1>3. ASSUME NEW p \in Requests, NEW status \in AdminStatuses, UpdateOrderStatus(p, status)
      PROVE  FALSE
  BY <1>0, <1>1, <1>3 DEF UpdateOrderStatus, TypeOK, Exists
<1>4. ASSUME NEW t \in Tables, DeleteTable(t) PROVE FALSE
  BY <1>1, <1>4 DEF DeleteTable
<1>5. \E p \in Requests : Step(p)
  BY <1>1, <1>2, <1>3, <1>4
     DEF Next, Work, Begin, BeginRefused, Refuse, Notify, Tick, Restart, SubscribeLock,
         SubscribeStep, SubscribeUpdate, SubscribeCommit, ordersVars
<1>6. PICK p \in Requests : Insert(p) /\ orders' = [orders EXCEPT ![p] = NewRow(p)]
  BY <1>1, <1>5 DEF Step, ReadPlan, TryLock, Count, Check, Insert, Respond, Refuse
<1>7. p = q
  BY <1>0, <1>1, <1>6 DEF TypeOK
<1>8. Open(q)
  BY <1>0, <1>6, <1>7 DEF TypeOK, Insert, Open, NewRow
<1>9. QED
  BY <1>6, <1>7, <1>8 DEF LockInv

LEMMA QuotaAction ==
  ASSUME BaseInv, LockInv, QuotaInv, Next, NEW q \in Requests, ~Exists(q), Exists(q)',
         orders'[q].limit # None
  PROVE  Cardinality({o \in Requests :
            /\ Exists(o)' /\ orders'[o].status # "cancelled"
            /\ orders'[o].month = orders'[q].month
            /\ Month(orders'[o].created) = orders'[q].month}) <= orders'[q].limit
<1>0. TypeOK
  BY DEF BaseInv
<1>1. /\ Insert(q) /\ Open(q) /\ orders' = [orders EXCEPT ![q] = NewRow(q)]
      /\ req[q].limit \in Int
  BY QuotaInsert
<1>2. PICK m \in Nat : m = req[q].month
  BY <1>0, <1>1 DEF Open, TypeOK, RequestState
<1>3. orders'[q].limit = req[q].limit /\ orders'[q].month = m
  BY <1>0, <1>1, <1>2 DEF TypeOK, NewRow, Open
<1> DEFINE after == {o \in Requests :
             /\ Exists(o)' /\ orders'[o].status # "cancelled"
             /\ orders'[o].month = orders'[q].month
             /\ Month(orders'[o].created) = orders'[q].month}
<1>4. after \subseteq Judged(m) \cup {q}
  BY <1>0, <1>1, <1>3 DEF Judged, Exists, TypeOK
<1>5. Cardinality(Judged(m)) < req[q].limit
  BY <1>1, <1>2 DEF QuotaInv
<1>6. /\ IsFiniteSet(Judged(m) \cup {q})
      /\ Cardinality(Judged(m) \cup {q}) <= Cardinality(Judged(m)) + 1
      /\ Cardinality(Judged(m)) \in Nat /\ Cardinality(Judged(m) \cup {q}) \in Nat
  BY JudgedFinite, FS_AddElement, FS_CardinalityType
<1>7. Cardinality(after) <= Cardinality(Judged(m) \cup {q}) /\ Cardinality(after) \in Nat
  <2> HIDE DEF after
  <2>1. after \in SUBSET (Judged(m) \cup {q})
    BY <1>4
  <2>2. QED
    BY <1>6, <2>1, FS_Subset, FS_CardinalityType
<1>8. QED
  <2> HIDE DEF after
  <2>1. Cardinality(after) <= orders'[q].limit
    BY <1>1, <1>3, <1>5, <1>6, <1>7
  <2>2. QED
    BY <2>1 DEF after

(* Counting and inserting are atomic for whoever is held to a limit: the   *)
(* month an order was judged in never holds more judged orders than the    *)
(* limit allows.                                                           *)
THEOREM QuotaRespectedHolds == Spec => QuotaRespected
<1> DEFINE IInv == BaseInv /\ LockInv /\ QuotaInv
<1>1. Init => IInv
  <2>1. Init => QuotaInv
    BY DEF Init, QuotaInv, Open, Idle, Request
  <2>2. QED
    BY <2>1, BaseInit, LockInit
<1>2. IInv /\ [Next]_vars => IInv'
  BY BaseNext, LockNext, QuotaNext
<1>3. IInv /\ [Next]_vars =>
        [\A q \in Requests :
           (~Exists(q) /\ Exists(q)' /\ orders'[q].limit # None) =>
             Cardinality({o \in Requests :
                /\ Exists(o)' /\ orders'[o].status # "cancelled"
                /\ orders'[o].month = orders'[q].month
                /\ Month(orders'[o].created) = orders'[q].month}) <= orders'[q].limit]_vars
  BY QuotaAction
<1>4. QED
  BY <1>1, <1>2, <1>3, PTL DEF Spec, QuotaRespected

-----------------------------------------------------------------------------
(* Tables.  What Check found about a table cannot change before the INSERT *)
(* but for its deletion, which the foreign key notices.                    *)

Fitting ==
  \A q \in Requests : req[q].pc = "insert" /\ req[q].input.type = "dine_in" =>
    TableLocation[req[q].input.table] = req[q].input.location

TablesInv == TablesServeLocation /\ Fitting

LEMMA FittingDone ==
  ASSUME TypeOK, Fitting, NEW q \in Requests, NEW input, NEW answer,
         req' = [req EXCEPT ![q] = Done(input, answer)]
  PROVE  Fitting'
BY DEF TypeOK, Fitting, Done, Request

LEMMA FittingProceed ==
  ASSUME TypeOK, Fitting, NEW q \in Requests, NEW pc \in Steps, NEW limit, NEW month,
         Proceed(q, pc, limit, month),
         pc = "insert" /\ req[q].input.type = "dine_in" =>
           TableLocation[req[q].input.table] = req[q].input.location
  PROVE  Fitting'
<1>1. req'[q].pc = pc /\ req'[q].input = req[q].input
  BY DEF TypeOK, Proceed
<1>2. \A p \in Requests \ {q} : req'[p] = req[p]
  BY DEF TypeOK, Proceed
<1>3. QED
  BY <1>1, <1>2 DEF Fitting

LEMMA FittingNext == ASSUME TypeOK, Fitting, [Next]_vars PROVE Fitting'
<1>1. ASSUME NEW q \in Requests, Begin(q) PROVE Fitting'
  <2>1. PICK input \in Inputs : req' = [req EXCEPT ![q] = Request("plan", input, now, None)]
    BY <1>1 DEF Begin
  <2>2. QED
    BY <2>1 DEF TypeOK, Fitting, Request
<1>2. ASSUME NEW q \in Requests,
             \E input, answer : req' = [req EXCEPT ![q] = Done(input, answer)]
      PROVE  Fitting'
  BY <1>2, FittingDone
<1>3. ASSUME NEW q \in Requests, BeginRefused(q) \/ Checkout(q) \/ Respond(q) PROVE Fitting'
  BY <1>2, <1>3 DEF BeginRefused, Refuse, Checkout, Respond
<1>4. ASSUME NEW q \in Requests, ReadPlan(q) \/ TryLock(q) \/ Count(q) \/ Insert(q) PROVE Fitting'
  <2>1. CASE \E code : Refuse(q, code)
    BY <1>2, <2>1 DEF Refuse
  <2>2. CASE \E pc \in Steps \ {"insert"} : \E limit, month : Proceed(q, pc, limit, month)
    BY <2>2, FittingProceed
  <2>3. QED
    BY <1>4, <2>1, <2>2 DEF ReadPlan, TryLock, Count, Insert, Goto, Steps
<1>5. ASSUME NEW q \in Requests, Check(q) PROVE Fitting'
  <2>1. CASE \E code : Refuse(q, code)
    BY <1>2, <2>1 DEF Refuse
  <2>2. CASE Goto(q, "insert") /\ (req[q].input.type = "dine_in" => TableFits(req[q].input))
    BY <2>2, FittingProceed DEF Goto, Steps, TableFits
  <2>3. QED
    BY <1>5, <2>1, <2>2 DEF Check
<1>6. CASE Restart
  BY <1>6 DEF Restart, TypeOK, Fitting, Done, Request, Steps
<1>7. CASE req' = req
  BY <1>7 DEF Fitting
<1>8. QED
  BY <1>1, <1>3, <1>4, <1>5, <1>6, <1>7
     DEF Next, Work, Step, UpdateOrderStatus, Notify, DeleteTable, Tick, SubscribeLock,
         SubscribeStep, SubscribeUpdate, SubscribeCommit, ordersVars, requestVars, vars

(* Served(row, there): the row is of no dine-in order, or has a table   *)
(* of its own location.                                                    *)
Served(row, there) ==
  row.status # "none" /\ row.type = "dine_in" =>
    row.table = None \/ (row.table \in there /\ TableLocation[row.table] = row.location)

LEMMA ServedRows == TablesServeLocation <=> \A o \in Requests : Served(orders[o], tables)
BY DEF TablesServeLocation, Served, Exists

LEMMA ServedOne ==
  ASSUME TypeOK, TablesServeLocation, NEW q \in Requests, NEW row, Served(row, tables),
         orders' = [orders EXCEPT ![q] = row], tables' = tables
  PROVE  TablesServeLocation'
<1>1. \A o \in Requests : orders'[o] = IF o = q THEN row ELSE orders[o]
  BY DEF TypeOK
<1>2. \A o \in Requests : Served(orders'[o], tables')
  BY <1>1, ServedRows
<1>3. QED
  BY <1>2 DEF TablesServeLocation, Served, Exists

LEMMA ServedNext ==
  ASSUME TypeOK, HasInput, TablesInv, [Next]_vars PROVE TablesServeLocation'
<1> USE DEF TablesInv
<1>1. ASSUME NEW q \in Requests, Insert(q) PROVE TablesServeLocation'
  <2>1. req[q].input \in Inputs
    BY <1>1 DEF HasInput, Insert, Steps
  <2>2. CASE orders' = [orders EXCEPT ![q] = NewRow(q)] /\ req[q].input.table \in tables \cup {None}
    <3>1. Served(NewRow(q), tables)
      BY <1>1, <2>2 DEF Served, NewRow, Fitting, Insert
    <3>2. tables' = tables
      BY <1>1, <2>2 DEF Insert, Refuse
    <3>3. QED
      BY <2>2, <3>1, <3>2, ServedOne
  <2>3. CASE Refuse(q, 500)
    BY <2>3 DEF Refuse, TablesServeLocation, Exists
  <2>4. QED
    BY <1>1, <2>2, <2>3 DEF Insert
<1>2. ASSUME NEW q \in Requests, Checkout(q) PROVE TablesServeLocation'
  <2>1. PICK input \in Inputs :
          /\ IF input.type = "dine_in" THEN TableFits(input) ELSE input.table = None
          /\ orders' = [orders EXCEPT ![q] =
               [location |-> input.location, type |-> input.type, table |-> input.table,
                client |-> input.client, scheduled |-> input.scheduled,
                status |-> InitialStatus(input), created |-> now,
                limit |-> None, month |-> None]]
          /\ tables' = tables
    BY <1>2 DEF Checkout
  <2> DEFINE row == [location |-> input.location, type |-> input.type, table |-> input.table,
                     client |-> input.client, scheduled |-> input.scheduled,
                     status |-> InitialStatus(input), created |-> now,
                     limit |-> None, month |-> None]
  <2>2. Served(row, tables)
    BY <2>1 DEF Served, TableFits
  <2>3. QED
    BY <2>1, <2>2, ServedOne
<1>3. ASSUME NEW o \in Requests, NEW status \in AdminStatuses, UpdateOrderStatus(o, status)
      PROVE  TablesServeLocation'
  <2>1. orders[o] \in Row
    BY <1>3, ExistingRow DEF UpdateOrderStatus
  <2>2. Served(orders[o], tables)
    BY ServedRows
  <2>3. orders[o].status # "none"
    BY <1>3 DEF UpdateOrderStatus, Exists
  <2>4. Served([orders[o] EXCEPT !.status = status], tables)
    BY <2>1, <2>2, <2>3 DEF Served, Row
  <2>5. orders' = [orders EXCEPT ![o] = [orders[o] EXCEPT !.status = status]] /\ tables' = tables
    BY <1>3 DEF UpdateOrderStatus
  <2>6. QED
    BY <2>4, <2>5, ServedOne
<1>4. ASSUME NEW t \in Tables, DeleteTable(t) PROVE TablesServeLocation'
  <2>1. ASSUME NEW o \in Requests PROVE Served(orders'[o], tables')
    <3>1. Served(orders[o], tables) /\ tables' = tables \ {t}
      BY <1>4, ServedRows DEF DeleteTable
    <3>2. CASE Exists(o) /\ orders[o].table = t
      <4>1. orders'[o] = [orders[o] EXCEPT !.table = None] /\ orders[o] \in Row
        BY <1>4, <3>2, ExistingRow DEF DeleteTable
      <4>2. QED
        BY <4>1 DEF Served, Row
    <3>3. CASE ~(Exists(o) /\ orders[o].table = t)
      BY <1>4, <3>1, <3>3 DEF Served, DeleteTable, Exists
    <3>4. QED
      BY <3>2, <3>3
  <2>2. QED
    BY <2>1 DEF TablesServeLocation, Served, Exists
<1>5. CASE UNCHANGED <<orders, tables>>
  BY <1>5 DEF TablesServeLocation, Exists
<1>6. QED
  BY <1>1, <1>2, <1>3, <1>4, <1>5
     DEF Next, Work, Step, Begin, BeginRefused, Refuse, ReadPlan, TryLock, Count, Check, Respond,
         Notify, Tick, Restart, SubscribeLock, SubscribeStep, SubscribeUpdate,
         SubscribeCommit, ordersVars, vars

(* A dine-in order has a table of its own location, or its table is gone.  *)
THEOREM TablesServeLocationHolds == Spec => []TablesServeLocation
<1> DEFINE IInv == BaseInv /\ TablesInv
<1>1. Init => IInv
  <2>1. Init => TablesInv
    BY DEF Init, TablesInv, TablesServeLocation, Exists, NoOrder, Fitting, Idle, Request
  <2>2. QED
    BY <2>1, BaseInit
<1>2. IInv /\ [Next]_vars => IInv'
  <2> SUFFICES ASSUME IInv, [Next]_vars PROVE IInv'
    OBVIOUS
  <2>1. BaseInv'
    BY BaseNext
  <2>2. Fitting' /\ TablesServeLocation'
    BY FittingNext, ServedNext DEF BaseInv, TablesInv
  <2>3. QED
    BY <2>1, <2>2 DEF TablesInv
<1>3. IInv => TablesServeLocation
  BY DEF TablesInv
<1>4. QED
  BY <1>1, <1>2, <1>3, PTL DEF Spec

-----------------------------------------------------------------------------
(* What is announced and answered.  Rows keep what they were created with,  *)
(* and their status goes forward.                                           *)

(* A status leads to itself and on along the transitions.                   *)
LEMMA LaterGoesOn ==
  /\ \A k \in OrderStatuses : k \in Later[k]
  /\ \A k \in OrderStatuses : \A s \in Later[k] : ORDER_STATUS_TRANSITIONS[s] \subseteq Later[k]
<1>1. ASSUME NEW k \in OrderStatuses, NEW s \in Later[k],
             NEW t \in ORDER_STATUS_TRANSITIONS[s]
      PROVE  t \in Later[k]
  <2>1. s \in OrderStatuses /\ \A set \in Closed : k \in set => s \in set
    BY <1>1 DEF Later
  <2>2. t \in OrderStatuses
    BY <1>1, <2>1, TransitionsAreStatuses
  <2>3. \A set \in Closed : k \in set => t \in set
    BY <1>1, <2>1 DEF Closed
  <2>4. QED
    BY <1>1, <2>2, <2>3 DEF Later
<1>2. QED
  BY <1>1 DEF Later

(* Nothing leads back to new.                                               *)
LEMMA NeverNewAgain == "new" \notin Later["accepted"]
<1> DEFINE set == OrderStatuses \ {"new"}
<1>1. ASSUME NEW s \in set PROVE ORDER_STATUS_TRANSITIONS[s] \subseteq set
  BY DEF ORDER_STATUS_TRANSITIONS, OrderStatuses
<1>2. set \in Closed
  BY <1>1 DEF Closed
<1>3. "accepted" \in set /\ "new" \notin set /\ "accepted" \in OrderStatuses
  BY DEF OrderStatuses
<1> HIDE DEF set
<1>4. QED
  BY <1>2, <1>3 DEF Later

(* The row is the order asked for with this input.                          *)
RowOf(row, input) ==
  /\ row.status # "none"
  /\ row.location = input.location /\ row.client = input.client
  /\ row.scheduled = input.scheduled

(* A message of this kind about the row is true.                            *)
True(kind, row) ==
  /\ row.status # "none"
  /\ kind = "scheduled" => row.scheduled # None
  /\ kind \in OrderStatuses => row.status \in Later[kind]

(* The status of an order that was for now is one that follows accepted.    *)
Immediate(row) ==
  row.status # "none" /\ row.scheduled = None => row.status \in Later["accepted"]

(* What a step may do to a row that exists.                                 *)
Onward(old, new) ==
  /\ new.status # "none"
  /\ new.location = old.location /\ new.client = old.client
  /\ new.scheduled = old.scheduled
  /\ new.status \in {old.status} \cup ORDER_STATUS_TRANSITIONS[old.status]

(* Such a step keeps what was true of the row.                              *)
LEMMA OnwardKeeps ==
  ASSUME NEW old \in Row, NEW new, Onward(old, new)
  PROVE  /\ \A kind : True(kind, old) => True(kind, new)
         /\ \A input : RowOf(old, input) => RowOf(new, input)
         /\ Immediate(old) => Immediate(new)
<1>1. old.status \in OrderStatuses /\ old.status # "none"
  BY DEF Row, OrderStatuses
<1>2. "accepted" \in OrderStatuses
  BY DEF OrderStatuses
<1>3. \A k \in OrderStatuses : old.status \in Later[k] => new.status \in Later[k]
  BY LaterGoesOn DEF Onward
<1>4. QED
  BY <1>1, <1>2, <1>3 DEF Onward, True, RowOf, Immediate

(* The INSERT of create_order or of a checkout.                             *)
Placed(q) ==
  /\ req[q].pc \in {"insert", "idle"} /\ req'[q].pc \in {"respond", "done"}
  /\ req'[q].input \in Inputs /\ RowOf(orders'[q], req'[q].input)
  /\ orders'[q].status = InitialStatus(req'[q].input)

(* What a step does to an order: nothing, onward, or its INSERT.            *)
LEMMA OrderMoves ==
  ASSUME BaseInv, [Next]_vars, NEW o \in Requests
  PROVE  \/ orders'[o] = orders[o]
         \/ orders[o] \in Row /\ Onward(orders[o], orders'[o])
         \/ Placed(o)
<1>0. TypeOK
  BY DEF BaseInv
<1>1. CASE orders' = orders
  BY <1>1
<1>2. ASSUME NEW q \in Requests, Insert(q), orders' # orders
      PROVE  orders'[o] = orders[o] \/ Placed(o)
  <2>1. /\ orders' = [orders EXCEPT ![q] = NewRow(q)] /\ Goto(q, "respond")
        /\ req[q].pc = "insert"
    BY <1>2 DEF Insert, Refuse
  <2>2. req[q].input \in Inputs
    BY <2>1 DEF BaseInv, HasInput, Steps
  <2>3. req'[q].pc = "respond" /\ req'[q].input = req[q].input
    BY <1>0, <2>1 DEF Goto, Proceed, TypeOK
  <2>4. RowOf(NewRow(q), req[q].input) /\ NewRow(q).status = InitialStatus(req[q].input)
    BY DEF RowOf, NewRow, InitialStatus
  <2>5. orders'[q] = NewRow(q) /\ \A p \in Requests \ {q} : orders'[p] = orders[p]
    BY <1>0, <2>1 DEF TypeOK
  <2>6. Placed(q)
    BY <2>1, <2>2, <2>3, <2>4, <2>5 DEF Placed
  <2>7. QED
    BY <2>5, <2>6
<1>3. ASSUME NEW q \in Requests, Checkout(q)
      PROVE  orders'[o] = orders[o] \/ Placed(o)
  <2>1. PICK input \in Inputs :
          /\ req[q].pc = "idle"
          /\ req' = [req EXCEPT ![q] = Done(input, 201)]
          /\ orders' = [orders EXCEPT ![q] =
               [location |-> input.location, type |-> input.type, table |-> input.table,
                client |-> input.client, scheduled |-> input.scheduled,
                status |-> InitialStatus(input), created |-> now,
                limit |-> None, month |-> None]]
    BY <1>3 DEF Checkout
  <2> DEFINE row == [location |-> input.location, type |-> input.type,
                     table |-> input.table, client |-> input.client,
                     scheduled |-> input.scheduled, status |-> InitialStatus(input),
                     created |-> now, limit |-> None, month |-> None]
  <2>2. req'[q].pc = "done" /\ req'[q].input = input
    BY <1>0, <2>1 DEF Done, Request, TypeOK
  <2>3. RowOf(row, input) /\ row.status = InitialStatus(input)
    BY DEF RowOf, InitialStatus
  <2>4. orders'[q] = row /\ \A p \in Requests \ {q} : orders'[p] = orders[p]
    BY <1>0, <2>1 DEF TypeOK
  <2>5. Placed(q)
    BY <2>1, <2>2, <2>3, <2>4 DEF Placed
  <2>6. QED
    BY <2>4, <2>5
<1>4. ASSUME NEW p \in Requests, NEW status \in AdminStatuses, UpdateOrderStatus(p, status)
      PROVE  \/ orders'[o] = orders[o]
             \/ orders[o] \in Row /\ Onward(orders[o], orders'[o])
  <2>1. CASE o = p
    <3>1. orders[o] \in Row /\ status \in OrderStatuses
      BY <1>0, <1>4, <2>1, ExistingRow, OrdersAssumption DEF UpdateOrderStatus
    <3>2. orders'[o] = [orders[o] EXCEPT !.status = status]
      BY <1>0, <1>4, <2>1 DEF UpdateOrderStatus, TypeOK
    <3>3. /\ orders'[o].status = status /\ orders'[o].location = orders[o].location
          /\ orders'[o].client = orders[o].client
          /\ orders'[o].scheduled = orders[o].scheduled
      BY <3>1, <3>2 DEF Row
    <3>4. QED
      BY <1>4, <2>1, <3>1, <3>3 DEF Onward, UpdateOrderStatus, OrderStatuses
  <2>2. CASE o # p
    BY <1>0, <1>4, <2>2 DEF UpdateOrderStatus, TypeOK
  <2>3. QED
    BY <2>1, <2>2
<1>5. ASSUME NEW t \in Tables, DeleteTable(t)
      PROVE  \/ orders'[o] = orders[o]
             \/ orders[o] \in Row /\ Onward(orders[o], orders'[o])
  <2>1. CASE Exists(o) /\ orders[o].table = t
    <3>1. orders[o] \in Row /\ orders'[o] = [orders[o] EXCEPT !.table = None]
      BY <1>0, <1>5, <2>1, ExistingRow DEF DeleteTable
    <3>2. QED
      BY <3>1 DEF Row, Onward, OrderStatuses
  <2>2. CASE ~(Exists(o) /\ orders[o].table = t)
    BY <1>5, <2>2 DEF DeleteTable
  <2>3. QED
    BY <2>1, <2>2
<1>6. QED
  BY <1>1, <1>2, <1>3, <1>4, <1>5
     DEF Next, Work, Step, Begin, BeginRefused, Refuse, ReadPlan, TryLock, Count, Check,
         Respond, Notify, Tick, Restart, SubscribeLock, SubscribeStep, SubscribeUpdate,
         SubscribeCommit, ordersVars, vars

(* What a step does to a request, as far as its order is concerned.         *)
RequestMoves(q) ==
  \/ req'[q] = req[q]
  \/ /\ req[q].pc \notin {"respond", "done"}
     /\ req'[q].pc # "respond" /\ req'[q].answer # 201
  \/ /\ req[q].pc = "respond" /\ req'[q].pc = "done"
     /\ req'[q].answer = 201 => req'[q].input = req[q].input
  \/ Placed(q)

(* Every step moves every request so.                                       *)
LEMMA RequestsMove ==
  ASSUME BaseInv, [Next]_vars, NEW p \in Requests
  PROVE  RequestMoves(p)
<1>0. TypeOK
  BY DEF BaseInv
<1>1. ASSUME NEW q \in Requests, NEW code \in Refusals, Refuse(q, code),
             req[q].pc \notin {"respond", "done"}
      PROVE  RequestMoves(p)
  <2>1. req'[q].pc = "done" /\ req'[q].answer = code
    BY <1>0, <1>1 DEF Refuse, Done, Request, TypeOK
  <2>2. code # 201 /\ (p # q => req'[p] = req[p])
    BY <1>0, <1>1 DEF Refuse, Refusals, TypeOK
  <2>3. QED
    BY <1>1, <2>1, <2>2 DEF RequestMoves
<1>2. ASSUME NEW q \in Requests, NEW pc \in Steps \ {"respond"}, NEW limit, NEW month,
             Proceed(q, pc, limit, month), req[q].pc \notin {"respond", "done"}
      PROVE  RequestMoves(p)
  <2>1. /\ req'[q].pc = pc /\ req'[q].answer = None
        /\ p # q => req'[p] = req[p]
    BY <1>0, <1>2 DEF Proceed, TypeOK
  <2>2. QED
    BY <1>2, <2>1, AnswerAssumption DEF RequestMoves
<1>3. ASSUME NEW q \in Requests, Begin(q) PROVE RequestMoves(p)
  <2>1. PICK input \in Inputs :
          req[q].pc = "idle" /\ req' = [req EXCEPT ![q] = Request("plan", input, now, None)]
    BY <1>3 DEF Begin
  <2>2. /\ req'[q].pc = "plan" /\ req'[q].answer = None
        /\ p # q => req'[p] = req[p]
    BY <1>0, <2>1 DEF Request, TypeOK
  <2>3. QED
    BY <2>1, <2>2, AnswerAssumption DEF RequestMoves
<1>4. ASSUME NEW q \in Requests, BeginRefused(q) PROVE RequestMoves(p)
  BY <1>1, <1>4 DEF BeginRefused, Refusals
<1>5. ASSUME NEW q \in Requests, Checkout(q) \/ Insert(q) PROVE RequestMoves(p)
  <2>1. p # q => req'[p] = req[p]
    BY <1>0, <1>5 DEF Checkout, Insert, Refuse, Goto, Proceed, TypeOK
  <2>2. CASE Refuse(q, 500) /\ Insert(q)
    BY <1>1, <2>2 DEF Insert, Refusals
  <2>3. CASE ~(Refuse(q, 500) /\ Insert(q)) /\ Insert(q)
    <3>1. req'[q].pc = "respond" /\ req'[q].input = req[q].input
      BY <1>0, <2>3 DEF Insert, Goto, Proceed, TypeOK
    <3>2. req[q].pc = "insert" /\ orders'[q] = NewRow(q)
      BY <1>0, <2>3 DEF Insert, TypeOK
    <3>3. req[q].input \in Inputs
      BY <3>2 DEF BaseInv, HasInput, Steps
    <3>4. RowOf(NewRow(q), req[q].input) /\ NewRow(q).status = InitialStatus(req[q].input)
      BY DEF RowOf, NewRow, InitialStatus
    <3>5. Placed(q)
      BY <3>1, <3>2, <3>3, <3>4 DEF Placed
    <3>6. QED
      BY <2>1, <3>5 DEF RequestMoves
  <2>4. CASE Checkout(q)
    <3>1. Placed(q)
      <4>1. PICK input \in Inputs :
              /\ req[q].pc = "idle"
              /\ req' = [req EXCEPT ![q] = Done(input, 201)]
              /\ orders' = [orders EXCEPT ![q] =
                   [location |-> input.location, type |-> input.type,
                    table |-> input.table, client |-> input.client,
                    scheduled |-> input.scheduled, status |-> InitialStatus(input),
                    created |-> now, limit |-> None, month |-> None]]
        BY <2>4 DEF Checkout
      <4>2. /\ req'[q].pc = "done" /\ req'[q].input = input
            /\ orders'[q] = [location |-> input.location, type |-> input.type,
                    table |-> input.table, client |-> input.client,
                    scheduled |-> input.scheduled, status |-> InitialStatus(input),
                    created |-> now, limit |-> None, month |-> None]
        BY <1>0, <4>1 DEF Done, Request, TypeOK
      <4>3. QED
        BY <4>1, <4>2 DEF Placed, RowOf, InitialStatus
    <3>2. QED
      BY <2>1, <3>1 DEF RequestMoves
  <2>5. QED
    BY <1>5, <2>2, <2>3, <2>4
<1>6. ASSUME NEW q \in Requests, ReadPlan(q) \/ TryLock(q) \/ Count(q) \/ Check(q)
      PROVE  RequestMoves(p)
  <2>1. req[q].pc \notin {"respond", "done"}
    BY <1>6 DEF ReadPlan, TryLock, Count, Check
  <2>2. \/ \E code \in Refusals : Refuse(q, code)
        \/ \E pc \in Steps \ {"respond"} : \E limit, month : Proceed(q, pc, limit, month)
    BY <1>6 DEF ReadPlan, TryLock, Count, Check, Goto, Refusals, Steps
  <2>3. QED
    BY <1>1, <1>2, <2>1, <2>2
<1>7. ASSUME NEW q \in Requests, Respond(q) PROVE RequestMoves(p)
  <2>1. /\ req[q].pc = "respond" /\ req'[q].pc = "done" /\ req'[q].input = req[q].input
        /\ p # q => req'[p] = req[p]
    BY <1>0, <1>7 DEF Respond, Done, Request, TypeOK
  <2>2. QED
    BY <2>1 DEF RequestMoves
<1>8. CASE Restart
  <2>1. IF req[p].pc \in Steps THEN req'[p].pc = "done" /\ req'[p].answer = None
                               ELSE req'[p] = req[p]
    BY <1>0, <1>8 DEF Restart, Done, Request, TypeOK
  <2>2. QED
    BY <2>1, AnswerAssumption DEF RequestMoves, Steps
<1>9. CASE req' = req
  BY <1>9 DEF RequestMoves
<1>10. QED
  BY <1>3, <1>4, <1>5, <1>6, <1>7, <1>8, <1>9
     DEF Next, Work, Step, UpdateOrderStatus, Notify, DeleteTable, Tick, requestVars,
         SubscribeLock, SubscribeStep, SubscribeUpdate, SubscribeCommit, ordersVars, vars

(* Rows are of requests that are through with their INSERT, and what they   *)
(* asked for; the status of an order for now follows accepted.              *)
ServeInv ==
  \A q \in Requests :
    /\ Exists(q) => req[q].pc \in {"respond", "done"}
    /\ req[q].pc = "respond" \/ req[q].answer = 201 =>
         req[q].input \in Inputs /\ RowOf(orders[q], req[q].input)
    /\ Immediate(orders[q])

(* An order for now is accepted on arrival.                                 *)
LEMMA PlacedImmediate ==
  ASSUME NEW q \in Requests, Placed(q) PROVE Immediate(orders'[q])
<1>1. orders'[q].scheduled = None => orders'[q].status = "accepted"
  BY DEF Placed, RowOf, InitialStatus
<1>2. "accepted" \in Later["accepted"]
  BY LaterGoesOn DEF OrderStatuses
<1>3. QED
  BY <1>1, <1>2 DEF Immediate

(* ServeInv is inductive together with BaseInv.                             *)
LEMMA ServeNext == ASSUME BaseInv, ServeInv, [Next]_vars PROVE ServeInv'
<1> SUFFICES ASSUME NEW q \in Requests
             PROVE  /\ Exists(q)' => req'[q].pc \in {"respond", "done"}
                    /\ req'[q].pc = "respond" \/ req'[q].answer = 201 =>
                         req'[q].input \in Inputs /\ RowOf(orders'[q], req'[q].input)
                    /\ Immediate(orders'[q])
  BY DEF ServeInv
<1>1. /\ Exists(q) => req[q].pc \in {"respond", "done"}
      /\ req[q].pc = "respond" \/ req[q].answer = 201 =>
           req[q].input \in Inputs /\ RowOf(orders[q], req[q].input)
      /\ Immediate(orders[q])
  BY DEF ServeInv
<1>2. CASE Placed(q)
  BY <1>2, PlacedImmediate DEF Placed
<1>3. CASE ~Placed(q)
  <2>1. \/ orders'[q] = orders[q]
        \/ orders[q] \in Row /\ Onward(orders[q], orders'[q])
    BY <1>3, OrderMoves
  <2>2. /\ \A input : RowOf(orders[q], input) => RowOf(orders'[q], input)
        /\ Immediate(orders[q]) => Immediate(orders'[q])
    BY <2>1, OnwardKeeps
  <2>3. Exists(q)' => Exists(q)
    BY <2>1 DEF Exists, Row, OrderStatuses
  <2>4. RequestMoves(q)
    BY RequestsMove
  <2>5. QED
    BY <1>1, <1>3, <2>2, <2>3, <2>4 DEF RequestMoves
<1>4. QED
  BY <1>2, <1>3

(* The messages a step adds are true when it adds them.                     *)
LEMMA NewNotices ==
  ASSUME BaseInv, ServeInv, [Next]_vars, NEW kind, NEW o \in Requests,
         <<kind, o>> \in tasks', <<kind, o>> \notin tasks
  PROVE  True(kind, orders'[o])
<1>0. TypeOK
  BY DEF BaseInv
<1>1. \A k \in OrderStatuses : k \in Later[k]
  BY LaterGoesOn
<1>2. "accepted" \in OrderStatuses /\ {"new_order", "scheduled"} \cap OrderStatuses = {}
  BY DEF OrderStatuses
<1>3. ASSUME NEW q \in Requests, Respond(q) PROVE True(kind, orders'[o])
  <2>1. <<kind, o>> \in CreationNotices(q) /\ orders' = orders /\ req[q].pc = "respond"
    BY <1>3 DEF Respond
  <2>2. /\ o = q
        /\ kind \in {"new_order", IF orders[q].scheduled = None THEN "accepted"
                                                                ELSE "scheduled"}
    BY <2>1 DEF CreationNotices
  <2>3. orders[q].status # "none" /\ Immediate(orders[q])
    BY <2>1 DEF ServeInv, RowOf
  <2>4. QED
    BY <1>2, <2>1, <2>2, <2>3 DEF True, Immediate
<1>4. ASSUME NEW q \in Requests, Checkout(q) PROVE True(kind, orders'[o])
  <2>1. PICK input \in Inputs :
          /\ req[q].pc = "idle"
          /\ orders' = [orders EXCEPT ![q] =
               [location |-> input.location, type |-> input.type, table |-> input.table,
                client |-> input.client, scheduled |-> input.scheduled,
                status |-> InitialStatus(input), created |-> now,
                limit |-> None, month |-> None]]
          /\ tasks' = tasks \cup CheckoutNotices(input, q)
    BY <1>4 DEF Checkout
  <2>2. /\ o = q
        /\ kind \in {"new_order", IF input.scheduled = None THEN "accepted"
                                                            ELSE "scheduled"}
    BY <2>1 DEF CheckoutNotices
  <2>3. /\ orders'[q].status = InitialStatus(input)
        /\ orders'[q].scheduled = input.scheduled
    BY <1>0, <2>1 DEF TypeOK
  <2>4. QED
    BY <1>1, <1>2, <2>2, <2>3 DEF True, InitialStatus
<1>5. ASSUME NEW p \in Requests, NEW status \in AdminStatuses, UpdateOrderStatus(p, status)
      PROVE  True(kind, orders'[o])
  <2>1. p = o /\ status = kind
    BY <1>5 DEF UpdateOrderStatus
  <2>2. orders[p] \in Row /\ status \in OrderStatuses
    BY <1>0, <1>5, ExistingRow, OrdersAssumption DEF UpdateOrderStatus
  <2>3. orders'[p] = [orders[p] EXCEPT !.status = status]
    BY <1>0, <1>5 DEF UpdateOrderStatus, TypeOK
  <2>4. orders'[p].status = status
    BY <2>2, <2>3 DEF Row
  <2>5. QED
    BY <1>1, <1>2, <2>1, <2>2, <2>4 DEF True, OrderStatuses
<1>6. QED
  BY <1>3, <1>4, <1>5
     DEF Next, Work, Step, Begin, BeginRefused, Refuse, ReadPlan, TryLock, Count, Check,
         Insert, Notify, DeleteTable, Tick, Restart, SubscribeLock, SubscribeStep,
         SubscribeUpdate, SubscribeCommit, ordersVars, vars

(* A usage event is written when its order has been.                        *)
LEMMA NewUsage ==
  ASSUME BaseInv, ServeInv, [Next]_vars, NEW o \in usage', o \notin usage
  PROVE  Exists(o)
<1>1. ASSUME NEW q \in Requests, Respond(q) PROVE Exists(o)
  BY <1>1 DEF Respond, ServeInv, RowOf, Exists
<1>2. QED
  BY <1>1
     DEF Next, Work, Step, Begin, BeginRefused, Refuse, ReadPlan, TryLock, Count, Check,
         Insert, Checkout, UpdateOrderStatus, Notify, DeleteTable, Tick, Restart,
         SubscribeLock, SubscribeStep, SubscribeUpdate, SubscribeCommit, ordersVars, vars

(* What is queued stays true while others change the order.                 *)
LEMMA NoticesNext ==
  ASSUME BaseInv, BaseInv', ServeInv, NoticesTellTruth, [Next]_vars
  PROVE  NoticesTellTruth'
<1>1. ASSUME NEW o \in Requests, NEW kind, True(kind, orders[o])
      PROVE  True(kind, orders'[o])
  <2>1. ~Placed(o)
    BY <1>1 DEF True, ServeInv, Exists, Placed
  <2>2. QED
    BY <1>1, <2>1, OrderMoves, OnwardKeeps
<1>2. ASSUME NEW o \in usage' PROVE Exists(o)'
  <2>1. o \in Requests
    BY DEF BaseInv, TypeOK
  <2>2. Exists(o)
    BY NewUsage DEF NoticesTellTruth
  <2>3. True("new_order", orders[o])
    BY <2>2 DEF True, Exists, OrderStatuses
  <2>4. QED
    BY <1>1, <2>1, <2>3 DEF True, Exists
<1>3. ASSUME NEW task \in tasks' PROVE True(task[1], orders'[task[2]])
  <2>1. task = <<task[1], task[2]>> /\ task[2] \in Requests
    BY DEF BaseInv, TypeOK
  <2>2. CASE task \in tasks
    <3>1. True(task[1], orders[task[2]])
      BY <2>2 DEF NoticesTellTruth, True, Exists
    <3>2. QED
      BY <1>1, <2>1, <3>1
  <2>3. CASE task \notin tasks
    BY <2>1, <2>3, NewNotices
  <2>4. QED
    BY <2>2, <2>3
<1>4. QED
  BY <1>2, <1>3 DEF NoticesTellTruth, True, Exists

(* Usage events and queued messages are about committed orders, and tell of *)
(* a status the order has been in, although they are sent after the         *)
(* response (routers/orders.py).                                            *)
THEOREM NoticesTellTruthHolds == Spec => []NoticesTellTruth
<1> DEFINE IInv == BaseInv /\ ServeInv /\ NoticesTellTruth
<1>1. Init => IInv
  <2>1. Init => ServeInv /\ NoticesTellTruth
    BY AnswerAssumption
       DEF Init, ServeInv, Exists, NoOrder, Immediate, Idle, Request, NoticesTellTruth
  <2>2. QED
    BY <2>1, BaseInit
<1>2. IInv /\ [Next]_vars => IInv'
  BY BaseNext, ServeNext, NoticesNext
<1>3. QED
  BY <1>1, <1>2, PTL DEF Spec

(* The board shows active orders of its location, all of them when the      *)
(* limit is not exceeded.                                                   *)
LEMMA BoardShows ==
  ASSUME NEW l, NEW page \in KdsAnswers(l, FALSE)
  PROVE  /\ page \subseteq KitchenOrders(l, _KDS_ACTIVE_STATUSES)
         /\ Cardinality(KitchenOrders(l, _KDS_ACTIVE_STATUSES)) <= KdsLimit =>
              page = KitchenOrders(l, _KDS_ACTIVE_STATUSES)
<1> DEFINE rows == KitchenOrders(l, _KDS_ACTIVE_STATUSES)
<1>1. rows \cup (IF FALSE THEN {o \in KitchenOrders(l, _KDS_HISTORY_STATUSES) :
                                 orders[o].created = now} ELSE {}) = rows
  OBVIOUS
<1>2. /\ page \in SUBSET rows
      /\ Cardinality(page) = IF Cardinality(rows) < KdsLimit THEN Cardinality(rows)
                                                             ELSE KdsLimit
  BY <1>1 DEF KdsAnswers
<1>3. IsFiniteSet(rows)
  <2>1. rows \in SUBSET Requests
    BY DEF KitchenOrders
  <2>2. QED
    BY <2>1, FS_Subset, OrdersAssumption
<1>4. Cardinality(rows) \in Nat
  BY <1>3, FS_CardinalityType
<1> HIDE DEF rows
<1>5. ASSUME Cardinality(rows) <= KdsLimit PROVE page = rows
  <2>1. Cardinality(rows) = Cardinality(page)
    BY <1>2, <1>4, <1>5, OrdersAssumption
  <2>2. QED
    BY <1>2, <1>3, <2>1, FS_Subset
<1>6. QED
  BY <1>2, <1>5 DEF rows

(* What AcceptedIsServed says of a page of the board of location l.         *)
OnBoard(q, l, page) ==
  /\ q \in page =>
       orders[q].status \in _KDS_ACTIVE_STATUSES /\ l = req[q].input.location
  /\ /\ orders[q].status \in _KDS_ACTIVE_STATUSES /\ l = req[q].input.location
     /\ Cardinality(KitchenOrders(l, _KDS_ACTIVE_STATUSES)) <= KdsLimit
     => q \in page

(* ServeInv is why an accepted order is found.                              *)
LEMMA ServeServes == ASSUME BaseInv, ServeInv PROVE AcceptedIsServed
<1> SUFFICES ASSUME NEW q \in Requests, req[q].answer = 201
             PROVE  /\ req[q].input.client # Guest => q \in MyOrders(req[q].input.client)
                    /\ q \in RestaurantOrders(req[q].input.location, orders[q].status)
                    /\ \A l \in OwnLocations : \A page \in KdsAnswers(l, FALSE) :
                         OnBoard(q, l, page)
                    /\ orders[q].status = "new" => req[q].input.scheduled # None
  BY DEF AcceptedIsServed, OnBoard
<1> DEFINE input == req[q].input
<1>1. RowOf(orders[q], input) /\ Immediate(orders[q])
  BY DEF ServeInv
<1>2. Exists(q)
  BY <1>1 DEF RowOf, Exists
<1>3. input.client # Guest => q \in MyOrders(input.client)
  BY <1>1, <1>2 DEF MyOrders, RowOf
<1>4. q \in RestaurantOrders(input.location, orders[q].status)
  BY <1>1, <1>2 DEF RestaurantOrders, RowOf
<1>5. \A l : q \in KitchenOrders(l, _KDS_ACTIVE_STATUSES) <=>
               orders[q].status \in _KDS_ACTIVE_STATUSES /\ l = input.location
  BY <1>1, <1>2 DEF KitchenOrders, RowOf
<1>6. orders[q].status = "new" => input.scheduled # None
  BY <1>1, NeverNewAgain DEF RowOf, Immediate
<1>7. ASSUME NEW l \in OwnLocations, NEW page \in KdsAnswers(l, FALSE)
      PROVE  OnBoard(q, l, page)
  <2> DEFINE rows == KitchenOrders(l, _KDS_ACTIVE_STATUSES)
  <2>1. page \subseteq rows /\ (Cardinality(rows) <= KdsLimit => page = rows)
    BY <1>7, BoardShows
  <2>2. q \in rows <=>
          orders[q].status \in _KDS_ACTIVE_STATUSES /\ l = req[q].input.location
    BY <1>5
  <2>3. QED
    BY <2>1, <2>2 DEF OnBoard
<1>8. QED
  BY <1>3, <1>4, <1>6, <1>7

(* Whoever was answered 201 is served: the order is found by its client and *)
(* its restaurant, and is on the board of its kitchen and of no other, if   *)
(* that shows as many as are active (routers/orders.py).                    *)
THEOREM AcceptedIsServedHolds == Spec => []AcceptedIsServed
<1> DEFINE IInv == BaseInv /\ ServeInv
<1>1. Init => IInv
  <2>1. Init => ServeInv
    BY AnswerAssumption
       DEF Init, ServeInv, Exists, NoOrder, Immediate, Idle, Request
  <2>2. QED
    BY <2>1, BaseInit
<1>2. IInv /\ [Next]_vars => IInv'
  BY BaseNext, ServeNext
<1>3. IInv => AcceptedIsServed
  BY ServeServes
<1>4. QED
  BY <1>1, <1>2, <1>3, PTL DEF Spec
=============================================================================
