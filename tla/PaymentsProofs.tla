---------------------------- MODULE PaymentsProofs ----------------------------
(* Theorems about Payments, for any number of orders, requests and          *)
(* transactions.                                                            *)
EXTENDS Payments, TLAPS

(* The effects the actions share keep the types of what they write.         *)
LEMMA GotoType ==
  ASSUME TypeOK, NEW c \in Requests, NEW pc, Goto(c, pc),
         pc \in InFlight \cup {"rejected"}
  PROVE  requests' \in [Requests -> RequestState]
BY DEF TypeOK, Goto, RequestState

LEMMA AnswerType ==
  ASSUME TypeOK, NEW c \in Requests, NEW p \in Requests, Answer(c, p)
  PROVE  requests' \in [Requests -> RequestState]
BY DEF TypeOK, Answer, RequestState

LEMMA StartProcessingType ==
  ASSUME TypeOK, NEW t \in Tx, NEW p \in Requests, StartProcessing(t, p)
  PROVE  /\ payments' \in [Requests -> PaymentRow]
         /\ attempts' \subseteq AttemptRow
<1> DEFINE row == [payments[p] EXCEPT !.status = "processing", !.tx = t]
<1>1. payments[p] \in PaymentRow
  BY DEF TypeOK
<1>2. row \in PaymentRow
  BY <1>1 DEF PaymentRow, Statuses
<1>3. payments' = [payments EXCEPT ![p] = row]
  BY DEF StartProcessing
<1>4. payments' \in [Requests -> PaymentRow]
  BY <1>2, <1>3 DEF TypeOK
<1>5. attempts' \subseteq AttemptRow
  BY DEF TypeOK, StartProcessing, AttemptRow
<1>6. QED
  BY <1>4, <1>5

LEMMA UpdateAttemptType ==
  ASSUME TypeOK, NEW t \in Tx, NEW p \in Requests,
         NEW s \in {"success", "cancelled"}, UpdateAttempt(t, p, s)
  PROVE  attempts' \subseteq AttemptRow
BY DEF TypeOK, UpdateAttempt, AttemptRow

LEMMA SetPaidType ==
  ASSUME TypeOK, NEW p \in Requests, NEW w, SetPaid(p, w)
  PROVE  /\ payments' \in [Requests -> PaymentRow]
         /\ orders' \in [Orders -> OrderRow]
         /\ loop' = None
<1> DEFINE row == [payments[p] EXCEPT !.status = "paid", !.paid_at = TRUE]
<1>1. payments[p] \in PaymentRow
  BY DEF TypeOK
<1>2. row \in PaymentRow
  BY <1>1 DEF PaymentRow, Statuses
<1>3. payments' = [payments EXCEPT ![p] = row]
  BY DEF SetPaid
<1>4. payments' \in [Requests -> PaymentRow]
  BY <1>2, <1>3 DEF TypeOK
<1>5. orders' \in [Orders -> OrderRow]
  BY DEF TypeOK, SetPaid, OrderRow
<1>6. QED
  BY <1>4, <1>5 DEF SetPaid

LEMMA SetFailedType ==
  ASSUME TypeOK, NEW p \in Requests, NEW r \in Reasons, SetFailed(p, r)
  PROVE  payments' \in [Requests -> PaymentRow]
<1> DEFINE row == [payments[p] EXCEPT !.status = "failed", !.failure_reason = r]
<1>1. payments[p] \in PaymentRow
  BY DEF TypeOK
<1>2. row \in PaymentRow
  BY <1>1 DEF PaymentRow, Statuses
<1>3. payments' = [payments EXCEPT ![p] = row]
  BY DEF SetFailed
<1>4. QED
  BY <1>2, <1>3 DEF TypeOK

LEMMA LearnType ==
  ASSUME TypeOK, NEW t \in Tx, NEW s \in Views, NEW d \in BOOLEAN, Learn(t, s, d)
  PROVE  view' \in [Tx -> Views]
BY DEF TypeOK, Learn

LEMMA OpenedForType ==
  ASSUME TypeOK, NEW t \in Tx, NEW p \in Requests, NEW prov, OpenedFor(t, p, prov)
  PROVE  account' \in [Tx -> Requests \cup {None}]
BY DEF TypeOK, OpenedFor

LEMMA TypeInvariantInit == Init => TypeOK
<1> USE DEF Tx
<1> SUFFICES ASSUME Init PROVE TypeOK
  OBVIOUS
<1>1. orders \in [Orders -> OrderRow]
  BY DEF Init, OrderRow, OrderStatuses
<1>2. payments \in [Requests -> PaymentRow]
  BY DEF Init, PaymentRow, NoRow, Reasons
<1>3. requests \in [Requests -> RequestState]
  BY DEF Init, RequestState
<1>4. admin \in [Orders -> AdminState]
  BY DEF Init, AdminState, OrderRow, OrderStatuses
<1>5. QED
  BY <1>1, <1>2, <1>3, <1>4 DEF Init, TypeOK, Views

LEMMA TypeInvariantStep == TypeOK /\ [Next]_vars => TypeOK'
<1> USE ConstantsAssumption DEF Tx
<1> SUFFICES ASSUME TypeOK, [Next]_vars PROVE TypeOK'
  OBVIOUS
<1> USE DEF table, provider
<1>1. ASSUME NEW c \in Requests, NEW o \in Orders, NEW prov \in Providers,
             NEW key \in Keys \cup {None}, CreatePayment(c, o, prov, key)
      PROVE  TypeOK'
  <2> DEFINE row == [pc |-> IF Payable(o) THEN "replay" ELSE "rejected",
                     order |-> o, provider |-> prov, key |-> key, result |-> None]
  <2>1. row \in RequestState
    BY DEF RequestState, InFlight
  <2>2. requests' = [requests EXCEPT ![c] = row]
    BY <1>1 DEF CreatePayment
  <2>3. QED
    BY <1>1, <2>1, <2>2 DEF TypeOK, CreatePayment
<1>2. ASSUME NEW c \in Requests, ReplayLookup(c) PROVE TypeOK'
  <2>1. SameKey(c) \subseteq Requests
    BY DEF SameKey, PaymentsOf
  <2>2. requests' \in [Requests -> RequestState]
    BY <1>2, <2>1, GotoType, AnswerType DEF ReplayLookup, InFlight
  <2>3. QED
    BY <1>2, <2>2 DEF TypeOK, ReplayLookup
<1>3. ASSUME NEW c \in Requests, CheckPaid(c) PROVE TypeOK'
  BY <1>3, GotoType DEF TypeOK, CheckPaid, InFlight
<1>4. ASSUME NEW c \in Requests, CheckActive(c) PROVE TypeOK'
  BY <1>4, GotoType DEF TypeOK, CheckActive, InFlight
<1>5. ASSUME NEW c \in Requests, InsertPayment(c) PROVE TypeOK'
  <2>1. SameKey(c) \subseteq Requests
    BY DEF SameKey, PaymentsOf
  <2>2. requests' \in [Requests -> RequestState]
    BY <1>5, <2>1, GotoType, AnswerType DEF InsertPayment, InFlight
  <2> DEFINE row == [NoRow EXCEPT !.order = requests[c].order,
                       !.key = requests[c].key,
                       !.provider = requests[c].provider, !.status = "pending"]
  <2>3. requests[c] \in RequestState
    BY DEF TypeOK
  <2>4. row \in PaymentRow
    BY <2>3 DEF PaymentRow, NoRow, RequestState, Statuses, Reasons
  <2>5. \/ UNCHANGED payments
        \/ payments' = [payments EXCEPT ![c] = row]
    BY <1>5 DEF InsertPayment
  <2>6. payments' \in [Requests -> PaymentRow]
    BY <2>4, <2>5 DEF TypeOK
  <2>7. attempts' \subseteq AttemptRow
    BY <1>5 DEF TypeOK, InsertPayment, AttemptRow
  <2>8. QED
    BY <1>5, <2>2, <2>6, <2>7 DEF TypeOK, InsertPayment
<1>6. ASSUME NEW t \in PaymeTx, NEW p \in Requests, NEW d \in BOOLEAN,
             PaymeCreateTransaction(t, p, d)
      PROVE  TypeOK'
  <2>1. view' \in [Tx -> Views]
    BY <1>6, LearnType DEF PaymeCreateTransaction, TypeOK, Views
  <2>2. QED
    BY <1>6, <2>1, OpenedForType, StartProcessingType
       DEF TypeOK, PaymeCreateTransaction
<1>7. ASSUME NEW t \in PaymeTx, NEW d \in BOOLEAN, PaymePerformTransaction(t, d)
      PROVE  TypeOK'
  <2>1. view' \in [Tx -> Views]
    BY <1>7, LearnType DEF PaymePerformTransaction, Views
  <2>2. QED
    BY <1>7, <2>1, SetPaidType, UpdateAttemptType
       DEF TypeOK, PaymePerformTransaction, PaymeRows
<1>8. ASSUME NEW t \in PaymeTx, NEW d \in BOOLEAN, PaymeCancelTransaction(t, d)
      PROVE  TypeOK'
  <2>1. view' \in [Tx -> Views]
    BY <1>8, LearnType DEF PaymeCancelTransaction, Views
  <2>2. QED
    BY <1>8, <2>1, SetFailedType, UpdateAttemptType
       DEF TypeOK, PaymeCancelTransaction, PaymeRows, Reasons
<1>8a. ASSUME NEW t \in PaymeTx, NEW d \in BOOLEAN, PaymeCheckTransaction(t, d)
      PROVE  TypeOK'
  <2>1. view' \in [Tx -> Views]
    BY <1>8a, LearnType DEF PaymeCheckTransaction, Views
  <2>2. QED
    BY <1>8a, <2>1 DEF TypeOK, PaymeCheckTransaction
<1>9. ASSUME NEW t \in ClickTx, NEW p \in Requests, NEW d \in BOOLEAN,
             ClickPrepare(t, p, d)
      PROVE  TypeOK'
  <2>1. view' \in [Tx -> Views]
    BY <1>9, LearnType DEF ClickPrepare, TypeOK, Views
  <2>2. QED
    BY <1>9, <2>1, OpenedForType, StartProcessingType DEF TypeOK, ClickPrepare
<1>10. ASSUME NEW t \in ClickTx, NEW p \in Requests, NEW ok \in BOOLEAN,
              NEW d \in BOOLEAN, ClickComplete(t, p, ok, d)
       PROVE  TypeOK'
  <2>1. view' \in [Tx -> Views]
    BY <1>10, LearnType DEF ClickComplete, Views
  <2>2. CASE ok
    BY <1>10, <2>1, <2>2, SetPaidType, UpdateAttemptType DEF TypeOK, ClickComplete
  <2>3. CASE ~ok
    BY <1>10, <2>1, <2>3, SetFailedType, UpdateAttemptType
       DEF TypeOK, ClickComplete, Reasons
  <2>4. QED
    BY <2>2, <2>3
<1>11. ASSUME NEW p \in Requests, SandboxPay(p) PROVE TypeOK'
  <2> DEFINE row == [payments[p] EXCEPT !.status = "paid", !.paid_at = TRUE,
       !.tx = IF payments[p].status = "pending" THEN SandboxTx ELSE payments[p].tx]
  <2>1. payments[p] \in PaymentRow
    BY DEF TypeOK
  <2>2. row \in PaymentRow
    BY <2>1 DEF PaymentRow, Statuses
  <2>3. payments' = [payments EXCEPT ![p] = row]
    BY <1>11 DEF SandboxPay
  <2>4. payments' \in [Requests -> PaymentRow]
    BY <2>2, <2>3 DEF TypeOK
  <2>5. orders' = [orders EXCEPT ![payments[p].order].paid_at = TRUE]
    BY <1>11 DEF SandboxPay
  <2>6. orders' \in [Orders -> OrderRow]
    <3> DEFINE o == payments[p].order
    <3>1. orders \in [Orders -> OrderRow]
      BY DEF TypeOK
    <3>2. orders' = [orders EXCEPT ![o].paid_at = TRUE]
      BY <2>5
    <3> HIDE DEF o
    <3>3. QED
      BY <3>1, <3>2 DEF OrderRow
  <2>7. QED
    BY <1>11, <2>4, <2>6 DEF TypeOK, SandboxPay
<1>12. ASSUME NEW p \in Requests, SandboxFail(p) PROVE TypeOK'
  BY <1>12, SetFailedType DEF TypeOK, SandboxFail, Reasons
<1>13. ASSUME NEW p \in Requests, SandboxCancel(p) PROVE TypeOK'
  <2>1. payments' \in [Requests -> PaymentRow]
    BY <1>13 DEF TypeOK, SandboxCancel, PaymentRow, Statuses
  <2>2. QED
    BY <1>13, <2>1 DEF TypeOK, SandboxCancel
<1>14. ASSUME NEW o \in Orders, NEW s \in Targets, LockOrder(o, s)
       PROVE  TypeOK'
  <2>1. admin' \in [Orders -> AdminState]
    BY <1>14 DEF TypeOK, LockOrder, AdminState
  <2>2. QED
    BY <1>14, <2>1 DEF TypeOK, LockOrder
<1>15. ASSUME NEW o \in Orders, UpdateOrderStatus(o) PROVE TypeOK'
  <2>1. admin' \in [Orders -> AdminState]
    BY <1>15 DEF TypeOK, UpdateOrderStatus, AdminState
  <2>2. admin[o].target \in OrderStatuses
    BY DEF TypeOK, AdminState
  <2>3. orders' \in [Orders -> OrderRow]
    BY <1>15, <2>2 DEF TypeOK, UpdateOrderStatus, OrderRow
  <2>4. QED
    BY <1>15, <2>1, <2>3 DEF TypeOK, UpdateOrderStatus
<1>16. ASSUME WorkerRestart PROVE TypeOK'
  <2>1. requests' \in [Requests -> RequestState]
    <3> SUFFICES ASSUME NEW c \in Requests PROVE requests'[c] \in RequestState
      BY <1>16 DEF WorkerRestart
    <3>1. requests[c] \in RequestState
      BY DEF TypeOK
    <3>2. QED
      BY <1>16, <3>1 DEF WorkerRestart, RequestState
  <2>2. admin' \in [Orders -> AdminState]
    BY <1>16 DEF TypeOK, WorkerRestart, AdminState
  <2>3. QED
    BY <1>16, <2>1, <2>2 DEF TypeOK, WorkerRestart
<1>17. ASSUME NEW p \in Requests, NEW w \in Tx \cup Requests, WaitForOrderRow(p, w)
       PROVE  TypeOK'
  BY <1>17 DEF TypeOK, WaitForOrderRow
<1>18. ASSUME NEW o \in Orders, CloseSession(o) PROVE TypeOK'
  <2>1. admin' \in [Orders -> AdminState]
    BY <1>18 DEF TypeOK, CloseSession, AdminState
  <2>2. QED
    BY <1>18, <2>1 DEF TypeOK, CloseSession
<1>19. CASE UNCHANGED vars
  BY <1>19 DEF TypeOK, vars
<1>20. QED
  BY <1>1, <1>2, <1>3, <1>4, <1>5, <1>6, <1>7, <1>8, <1>8a, <1>9, <1>10, <1>11, <1>12,
     <1>13, <1>14, <1>15, <1>16, <1>17, <1>18, <1>19 DEF Next, CreateStep

(* Every reachable state is well typed: in particular a status is one the   *)
(* CHECK constraint of the payments table allows, whatever callbacks come.  *)
THEOREM TypeInvariant == Spec => []TypeOK
BY TypeInvariantInit, TypeInvariantStep, PTL DEF Spec

-----------------------------------------------------------------------------
(* What a callback does to the tables, whichever callback it is: rows keep  *)
(* their order and key and never become active again, and paid_at changes   *)
(* on a payment and on its order together.                                  *)
RowKept(r, s) ==
  /\ s.status = "none" <=> r.status = "none"
  /\ r.status = "none" => s = r
  /\ s.order = r.order /\ s.key = r.key
  /\ s.status \in _ACTIVE_STATUSES => r.status \in _ACTIVE_STATUSES

RowsKept == \A p \in Requests : RowKept(payments[p], payments'[p])

MoneyKept ==
  \A p \in Requests :
    /\ payments'[p].paid_at = payments[p].paid_at
    /\ payments'[p].status = "paid" => payments[p].status = "paid"

Only(p) == \A q \in Requests \ {p} : payments'[q] = payments[q]

PaidNow(p) ==
  /\ payments[p].status \in _ACTIVE_STATUSES
  /\ payments'[p].status = "paid" /\ payments'[p].paid_at = TRUE
  /\ Only(p)
  /\ OrderRowFree(payments[p].order)
  /\ orders' = [orders EXCEPT ![payments[p].order].paid_at = TRUE]

CallbackStep ==
  /\ UNCHANGED <<requests, admin>>
  /\ RowsKept
  /\ \/ MoneyKept /\ UNCHANGED orders /\ \E p \in Requests : Only(p)
     \/ \E p \in Requests : PaidNow(p)

LEMMA UnchangedRows ==
  ASSUME UNCHANGED payments, NEW p \in Requests
  PROVE  RowsKept /\ MoneyKept /\ Only(p)
BY DEF RowsKept, RowKept, MoneyKept, Only

LEMMA StartProcessingRows ==
  ASSUME TypeOK, NEW t \in Tx, NEW p \in Requests, StartProcessing(t, p)
  PROVE  RowsKept /\ MoneyKept /\ Only(p)
<1> DEFINE row == [payments[p] EXCEPT !.status = "processing", !.tx = t]
<1>1. /\ payments[p] \in PaymentRow /\ payments[p].status = "pending"
      /\ payments' = [payments EXCEPT ![p] = row]
  BY DEF TypeOK, StartProcessing
<1>2. /\ row.status = "processing" /\ row.paid_at = payments[p].paid_at
      /\ row.order = payments[p].order /\ row.key = payments[p].key
  BY <1>1 DEF PaymentRow
<1> HIDE DEF row
<1>3. /\ payments'[p] = row
      /\ \A q \in Requests \ {p} : payments'[q] = payments[q]
  BY <1>1 DEF TypeOK
<1>4. QED
  BY <1>1, <1>2, <1>3 DEF Only, RowsKept, RowKept, MoneyKept, _ACTIVE_STATUSES

LEMMA SetPaidRows ==
  ASSUME TypeOK, NEW p \in Requests, NEW w, SetPaid(p, w), payments[p].status = "processing"
  PROVE  RowsKept /\ PaidNow(p)
<1> DEFINE row == [payments[p] EXCEPT !.status = "paid", !.paid_at = TRUE]
<1>1. /\ payments[p] \in PaymentRow
      /\ payments' = [payments EXCEPT ![p] = row]
  BY DEF TypeOK, SetPaid
<1>2. /\ row.status = "paid" /\ row.paid_at = TRUE
      /\ row.order = payments[p].order /\ row.key = payments[p].key
  BY <1>1 DEF PaymentRow
<1> HIDE DEF row
<1>3. /\ payments'[p] = row
      /\ \A q \in Requests \ {p} : payments'[q] = payments[q]
  BY <1>1 DEF TypeOK
<1>4. QED
  BY <1>1, <1>2, <1>3 DEF Only, RowsKept, RowKept, PaidNow, Only, SetPaid, _ACTIVE_STATUSES

LEMMA SetFailedRows ==
  ASSUME TypeOK, NEW p \in Requests, NEW r, SetFailed(p, r),
         payments[p].status # "none"
  PROVE  RowsKept /\ MoneyKept /\ Only(p)
<1> DEFINE row == [payments[p] EXCEPT !.status = "failed", !.failure_reason = r]
<1>1. /\ payments[p] \in PaymentRow
      /\ payments' = [payments EXCEPT ![p] = row]
  BY DEF TypeOK, SetFailed
<1>2. /\ row.status = "failed" /\ row.paid_at = payments[p].paid_at
      /\ row.order = payments[p].order /\ row.key = payments[p].key
  BY <1>1 DEF PaymentRow
<1> HIDE DEF row
<1>3. /\ payments'[p] = row
      /\ \A q \in Requests \ {p} : payments'[q] = payments[q]
  BY <1>1 DEF TypeOK
<1>4. QED
  BY <1>1, <1>2, <1>3 DEF Only, RowsKept, RowKept, MoneyKept, _ACTIVE_STATUSES

LEMMA SandboxPayRows ==
  ASSUME TypeOK, NEW p \in Requests, SandboxPay(p)
  PROVE  RowsKept /\ PaidNow(p)
<1> DEFINE row == [payments[p] EXCEPT !.status = "paid", !.paid_at = TRUE,
         !.tx = IF payments[p].status = "pending" THEN SandboxTx ELSE payments[p].tx]
<1>1. /\ payments[p] \in PaymentRow /\ payments[p].status \in _ACTIVE_STATUSES
      /\ payments' = [payments EXCEPT ![p] = row]
  BY DEF TypeOK, SandboxPay
<1>2. /\ row.status = "paid" /\ row.paid_at = TRUE
      /\ row.order = payments[p].order /\ row.key = payments[p].key
  BY <1>1 DEF PaymentRow
<1> HIDE DEF row
<1>3. /\ payments'[p] = row
      /\ \A q \in Requests \ {p} : payments'[q] = payments[q]
  BY <1>1 DEF TypeOK
<1>4. QED
  BY <1>1, <1>2, <1>3 DEF Only, RowsKept, RowKept, PaidNow, Only, SandboxPay, _ACTIVE_STATUSES

LEMMA SandboxCancelRows ==
  ASSUME TypeOK, NEW p \in Requests, SandboxCancel(p)
  PROVE  RowsKept /\ MoneyKept /\ Only(p)
BY DEF TypeOK, SandboxCancel, Only, RowsKept, RowKept, MoneyKept, PaymentRow,
       _ACTIVE_STATUSES

Callback ==
  \/ \E t \in PaymeTx, d \in BOOLEAN :
       \/ \E p \in Requests : PaymeCreateTransaction(t, p, d)
       \/ PaymePerformTransaction(t, d) \/ PaymeCancelTransaction(t, d)
       \/ PaymeCheckTransaction(t, d)
  \/ \E t \in ClickTx, d \in BOOLEAN, p \in Requests :
       ClickPrepare(t, p, d) \/ \E ok \in BOOLEAN : ClickComplete(t, p, ok, d)
  \/ \E p \in Requests : SandboxPay(p) \/ SandboxFail(p) \/ SandboxCancel(p)
  \/ \E p \in Requests, w \in Tx \cup Requests : WaitForOrderRow(p, w)

LEMMA CallbackEffect ==
  ASSUME TypeOK, Callback
  PROVE  CallbackStep
<1> USE DEF table, provider, Tx, CallbackStep
<1>1. ASSUME NEW t \in PaymeTx, NEW p \in Requests, NEW d \in BOOLEAN,
             PaymeCreateTransaction(t, p, d)
      PROVE  CallbackStep
  BY <1>1, UnchangedRows, StartProcessingRows DEF PaymeCreateTransaction
<1>2. ASSUME NEW t \in PaymeTx, NEW d \in BOOLEAN, PaymePerformTransaction(t, d)
      PROVE  CallbackStep
  BY <1>2, UnchangedRows, SetPaidRows DEF PaymePerformTransaction, PaymeRows
<1>3. ASSUME NEW t \in PaymeTx, NEW d \in BOOLEAN, PaymeCancelTransaction(t, d)
      PROVE  CallbackStep
  BY <1>3, UnchangedRows, SetFailedRows
     DEF PaymeCancelTransaction, PaymeRows, _ACTIVE_STATUSES
<1>4. ASSUME NEW t \in ClickTx, NEW p \in Requests, NEW d \in BOOLEAN,
             ClickPrepare(t, p, d)
      PROVE  CallbackStep
  BY <1>4, UnchangedRows, StartProcessingRows DEF ClickPrepare
<1>5. ASSUME NEW t \in ClickTx, NEW p \in Requests, NEW ok \in BOOLEAN,
             NEW d \in BOOLEAN, ClickComplete(t, p, ok, d)
      PROVE  CallbackStep
  <2>1. CASE ok
    BY <1>5, <2>1, SetPaidRows DEF ClickComplete
  <2>2. CASE ~ok
    BY <1>5, <2>2, SetFailedRows DEF ClickComplete
  <2>3. QED
    BY <2>1, <2>2
<1>6. ASSUME NEW p \in Requests, SandboxPay(p) PROVE CallbackStep
  BY <1>6, SandboxPayRows DEF SandboxPay
<1>7. ASSUME NEW p \in Requests, SandboxFail(p) PROVE CallbackStep
  BY <1>7, SetFailedRows DEF SandboxFail
<1>8. ASSUME NEW p \in Requests, SandboxCancel(p) PROVE CallbackStep
  BY <1>8, SandboxCancelRows DEF SandboxCancel
<1>9. ASSUME NEW p \in Requests, NEW w, WaitForOrderRow(p, w) PROVE CallbackStep
  BY <1>9, UnchangedRows DEF WaitForOrderRow
<1>10. ASSUME NEW t \in PaymeTx, NEW d \in BOOLEAN, PaymeCheckTransaction(t, d)
       PROVE  CallbackStep
  BY <1>10, UnchangedRows DEF PaymeCheckTransaction, PaymeRows
<1>11. QED
  BY <1>1, <1>2, <1>3, <1>4, <1>5, <1>6, <1>7, <1>8, <1>9, <1>10 DEF Callback

-----------------------------------------------------------------------------
(* The inductive invariant. *)

LEMMA InvInit == Init => IInv
<1> SUFFICES ASSUME Init PROVE IInv
  OBVIOUS
<1>1. TypeOK
  BY TypeInvariantInit
<1>2. \A p \in Requests : payments[p] = NoRow
  BY DEF Init
<1>3. RowsExist
  <2>1. NoRow.status = "none"
    BY DEF NoRow
  <2>2. QED
    BY <1>2, <2>1 DEF RowsExist
<1>4. FreshRow /\ AnswersMatch
  BY <1>2 DEF Init, FreshRow, AnswersMatch, InFlight, NoRow
<1>5. KeyUnique
  BY <1>2 DEF KeyUnique, NoRow
<1>6. OneActivePayment
  BY <1>2 DEF OneActivePayment, PaymentsOf, NoRow, _ACTIVE_STATUSES
<1>7. LockedRowSeen
  BY DEF Init, LockedRowSeen, OrderRowFree
<1>8. PaidProjection
  <2>1. \A o \in Orders : orders[o].paid_at = FALSE
    BY DEF Init
  <2>2. \A p \in Requests :
          payments[p].paid_at = FALSE /\ payments[p].status # "paid"
    BY <1>2 DEF NoRow
  <2>3. QED
    BY <2>1, <2>2 DEF PaidProjection, PaymentsOf
<1>9. QED
  BY <1>1, <1>3, <1>4, <1>5, <1>6, <1>7, <1>8 DEF IInv

(* A step that only moves a request on, answering it, if it does, with a    *)
(* payment of its order and key.                                            *)
RequestMoves(c) ==
  /\ UNCHANGED <<table, admin>>
  /\ \A d \in Requests \ {c} : requests'[d] = requests[d]
  /\ requests'[c].pc \in InFlight =>
       requests'[c].order \in Orders /\ payments[c].status = "none"
  /\ requests'[c].pc # "idle"
  /\ requests'[c].pc = "done" =>
       /\ requests'[c].result \in Requests
       /\ payments[requests'[c].result].status # "none"
       /\ payments[requests'[c].result].order = requests'[c].order
       /\ requests'[c].key # None =>
            payments[requests'[c].result].key = requests'[c].key

LEMMA GotoMoves ==
  ASSUME IInv, NEW c \in Requests, NEW pc \in InFlight \cup {"rejected"},
         requests[c].pc \in InFlight, Goto(c, pc), UNCHANGED <<table, admin>>
  PROVE  RequestMoves(c)
<1>1. requests[c] \in RequestState /\ requests' = [requests EXCEPT ![c].pc = pc]
  BY DEF IInv, TypeOK, Goto
<1>2. /\ requests'[c].pc = pc /\ requests'[c].order = requests[c].order
      /\ \A d \in Requests \ {c} : requests'[d] = requests[d]
  BY <1>1 DEF IInv, TypeOK, RequestState
<1>3. QED
  BY <1>2 DEF RequestMoves, IInv, FreshRow, InFlight

LEMMA AnswerMoves ==
  ASSUME IInv, NEW c \in Requests, requests[c].pc \in InFlight,
         NEW p \in SameKey(c), Answer(c, p), UNCHANGED <<table, admin>>
  PROVE  RequestMoves(c)
<1> DEFINE row == [requests[c] EXCEPT !.pc = "done", !.result = p]
<1>1. requests[c] \in RequestState /\ requests' = [requests EXCEPT ![c] = row]
  BY DEF IInv, TypeOK, Answer
<1>2. /\ row.pc = "done" /\ row.result = p
      /\ row.order = requests[c].order /\ row.key = requests[c].key
  BY <1>1 DEF RequestState
<1> HIDE DEF row
<1>3. /\ requests'[c] = row
      /\ \A d \in Requests \ {c} : requests'[d] = requests[d]
  BY <1>1 DEF IInv, TypeOK
<1>4. /\ p \in Requests /\ payments[p].order = requests[c].order
      /\ requests[c].key # None /\ payments[p].key = requests[c].key
  BY DEF SameKey, PaymentsOf
<1>5. payments[p].status # "none"
  BY <1>4 DEF IInv, RowsExist, NoRow
<1>6. QED
  BY <1>2, <1>3, <1>4, <1>5 DEF RequestMoves, InFlight

LEMMA InvRequestMoves ==
  ASSUME IInv, TypeOK', NEW c \in Requests, requests[c].pc \in InFlight \cup {"idle"},
         RequestMoves(c)
  PROVE  IInv'
<1> USE DEF table, RequestMoves
<1>1. RowsExist' /\ KeyUnique' /\ OneActivePayment' /\ PaidProjection' /\ LockedRowSeen'
  BY DEF IInv, RowsExist, KeyUnique, OneActivePayment, PaidProjection, PaymentsOf,
         LockedRowSeen, OrderRowFree
<1>2. FreshRow'
  BY DEF IInv, FreshRow
<1>3. AnswersMatch'
  BY DEF IInv, AnswersMatch
<1>4. QED
  BY <1>1, <1>2, <1>3 DEF IInv

LEMMA InvCallback ==
  ASSUME IInv, TypeOK', CallbackStep
  PROVE  IInv'
<1> USE DEF CallbackStep, RowsKept, RowKept
<1>1. RowsExist'
  BY DEF IInv, RowsExist
<1>2. FreshRow'
  BY DEF IInv, FreshRow
<1>3. KeyUnique'
  BY DEF IInv, KeyUnique
<1>4. AnswersMatch'
  BY DEF IInv, AnswersMatch
<1>5. OneActivePayment'
  BY DEF IInv, OneActivePayment, PaymentsOf
<1>6. LockedRowSeen'
  <2>1. CASE UNCHANGED orders
    BY <2>1 DEF IInv, LockedRowSeen, OrderRowFree
  <2>2. ASSUME NEW p \in Requests, PaidNow(p) PROVE LockedRowSeen'
    <3>1. \A o \in Orders : ~OrderRowFree(o) => orders'[o] = orders[o]
      BY <2>2 DEF PaidNow, IInv, TypeOK
    <3>2. QED
      BY <3>1 DEF IInv, LockedRowSeen, OrderRowFree
  <2>3. QED
    BY <2>1, <2>2
<1>7. PaidProjection'
  <2>1. CASE MoneyKept /\ UNCHANGED orders
    BY <2>1 DEF IInv, PaidProjection, PaymentsOf, MoneyKept
  <2>2. ASSUME NEW p \in Requests, PaidNow(p) PROVE PaidProjection'
    <3>1. payments[p].order \in Orders /\ payments[p].order = payments'[p].order
      BY <2>2 DEF PaidNow, Only, IInv, RowsExist
    <3>2. /\ orders'[payments[p].order].paid_at = TRUE
          /\ \A o \in Orders \ {payments[p].order} : orders'[o] = orders[o]
      BY <2>2, <3>1 DEF PaidNow, Only, IInv, TypeOK, OrderRow
    <3>3. ASSUME NEW o \in Orders
          PROVE  orders'[o].paid_at <=> \E q \in PaymentsOf(o)' : payments'[q].paid_at
      <4>1. CASE o = payments[p].order
        BY <2>2, <3>1, <3>2, <4>1 DEF PaidNow, Only, PaymentsOf
      <4>2. CASE o # payments[p].order
        <5>1. orders[o].paid_at <=> \E q \in PaymentsOf(o) : payments[q].paid_at
          BY DEF IInv, PaidProjection
        <5>2. /\ orders'[o] = orders[o]
              /\ PaymentsOf(o)' = PaymentsOf(o)
              /\ \A q \in PaymentsOf(o) : payments'[q] = payments[q]
          BY <2>2, <3>1, <3>2, <4>2 DEF PaidNow, Only, PaymentsOf
        <5>3. QED
          BY <5>1, <5>2
      <4>3. QED
        BY <4>1, <4>2
    <3>4. \A q \in Requests : payments'[q].status = "paid" => payments'[q].paid_at
      BY <2>2 DEF PaidNow, Only, IInv, PaidProjection
    <3>5. QED
      BY <3>3, <3>4 DEF PaidProjection
  <2>3. QED
    BY <2>1, <2>2
<1>8. QED
  BY <1>1, <1>2, <1>3, <1>4, <1>5, <1>6, <1>7 DEF IInv

(* The INSERT that passed both unique indexes.                              *)
LEMMA InvInsert ==
  ASSUME IInv, TypeOK', NEW c \in Requests, InsertPayment(c),
         ~KeyConflict(c), ~ActiveConflict(c)
  PROVE  IInv'
<1> DEFINE row == [NoRow EXCEPT !.order = requests[c].order, !.key = requests[c].key,
                     !.provider = requests[c].provider, !.status = "pending"]
           done == [requests[c] EXCEPT !.pc = "done", !.result = c]
<1>1. /\ payments' = [payments EXCEPT ![c] = row]
      /\ requests' = [requests EXCEPT ![c] = done]
      /\ UNCHANGED <<orders, admin>>
      /\ requests[c].pc = "insert"
  BY DEF InsertPayment, Answer
<1>2. /\ row.order = requests[c].order /\ row.key = requests[c].key
      /\ row.status = "pending" /\ row.paid_at = FALSE
  BY DEF NoRow
<1>3. /\ done.pc = "done" /\ done.result = c
      /\ done.order = requests[c].order /\ done.key = requests[c].key
  BY DEF IInv, TypeOK, RequestState
<1> HIDE DEF row, done
<1>4. /\ payments'[c] = row /\ \A p \in Requests \ {c} : payments'[p] = payments[p]
      /\ requests'[c] = done /\ \A d \in Requests \ {c} : requests'[d] = requests[d]
  BY <1>1 DEF IInv, TypeOK
<1>5. requests[c].order \in Orders /\ payments[c] = NoRow
  BY <1>1 DEF IInv, FreshRow, RowsExist, InFlight
<1>6. RowsExist'
  BY <1>2, <1>4, <1>5 DEF IInv, RowsExist
<1>7. FreshRow'
  BY <1>3, <1>4 DEF IInv, FreshRow, InFlight
<1>8. KeyUnique'
  BY <1>2, <1>4 DEF IInv, KeyUnique, KeyConflict, SameKey, PaymentsOf
<1>9. AnswersMatch'
  BY <1>2, <1>3, <1>4, <1>5 DEF IInv, AnswersMatch, NoRow
<1>10. OneActivePayment'
  BY <1>2, <1>4 DEF IInv, OneActivePayment, ActiveConflict, ActivePaymentOf, PaymentsOf
<1>11. LockedRowSeen'
  BY <1>1 DEF IInv, LockedRowSeen, OrderRowFree
<1>12. PaidProjection'
  BY <1>1, <1>2, <1>4, <1>5 DEF IInv, PaidProjection, PaymentsOf, NoRow
<1>13. QED
  BY <1>6, <1>7, <1>8, <1>9, <1>10, <1>11, <1>12 DEF IInv

(* Every other step, by the lock of the order row or by the rows it leaves  *)
(* alone.                                                                   *)
LEMMA InvLockOrder ==
  ASSUME IInv, TypeOK', NEW o \in Orders, NEW s \in Targets, LockOrder(o, s)
  PROVE  IInv'
<1> USE DEF LockOrder, table
<1>1. RowsExist' /\ FreshRow' /\ KeyUnique' /\ AnswersMatch'
  BY DEF IInv, RowsExist, FreshRow, KeyUnique, AnswersMatch
<1>2. OneActivePayment' /\ PaidProjection'
  BY DEF IInv, OneActivePayment, PaidProjection, PaymentsOf
<1>3. LockedRowSeen'
  BY DEF IInv, TypeOK, LockedRowSeen, OrderRowFree
<1>4. QED
  BY <1>1, <1>2, <1>3 DEF IInv

LEMMA InvUpdateOrderStatus ==
  ASSUME IInv, TypeOK', NEW o \in Orders, UpdateOrderStatus(o)
  PROVE  IInv'
<1> USE DEF UpdateOrderStatus
<1>1. RowsExist' /\ FreshRow' /\ KeyUnique' /\ AnswersMatch'
  BY DEF IInv, RowsExist, FreshRow, KeyUnique, AnswersMatch
<1>2. \A x \in Orders : orders'[x].paid_at = orders[x].paid_at
  BY DEF IInv, TypeOK, OrderRow
<1>3. OneActivePayment'
  BY DEF IInv, OneActivePayment, PaymentsOf
<1>4. PaidProjection'
  BY <1>2 DEF IInv, PaidProjection, PaymentsOf
<1>5. LockedRowSeen'
  BY DEF IInv, TypeOK, LockedRowSeen, OrderRowFree, AdminState
<1>6. QED
  BY <1>1, <1>3, <1>4, <1>5 DEF IInv

LEMMA InvCloseSession ==
  ASSUME IInv, TypeOK', NEW o \in Orders, CloseSession(o)
  PROVE  IInv'
<1> USE DEF CloseSession, table
<1>1. RowsExist' /\ FreshRow' /\ KeyUnique' /\ AnswersMatch'
  BY DEF IInv, RowsExist, FreshRow, KeyUnique, AnswersMatch
<1>2. OneActivePayment' /\ PaidProjection'
  BY DEF IInv, OneActivePayment, PaidProjection, PaymentsOf
<1>3. LockedRowSeen'
  BY DEF IInv, TypeOK, LockedRowSeen, OrderRowFree, AdminState
<1>4. QED
  BY <1>1, <1>2, <1>3 DEF IInv

LEMMA InvWorkerRestart ==
  ASSUME IInv, TypeOK', WorkerRestart
  PROVE  IInv'
<1> USE DEF WorkerRestart, table
<1>1. \A c \in Requests :
        \/ requests'[c] = requests[c] /\ requests[c].pc \notin InFlight
        \/ requests'[c].pc = "lost"
  <2>1. SUFFICES ASSUME NEW c \in Requests, requests[c].pc \in InFlight
                 PROVE  requests'[c].pc = "lost"
    OBVIOUS
  <2>2. requests[c] \in RequestState
    BY DEF IInv, TypeOK
  <2>3. QED
    BY <2>1, <2>2 DEF RequestState
<1>2. RowsExist' /\ FreshRow' /\ KeyUnique' /\ AnswersMatch'
  BY <1>1 DEF IInv, RowsExist, FreshRow, KeyUnique, AnswersMatch, InFlight
<1>3. OneActivePayment' /\ PaidProjection'
  BY DEF IInv, OneActivePayment, PaidProjection, PaymentsOf
<1>4. LockedRowSeen'
  BY DEF IInv, TypeOK, LockedRowSeen, OrderRowFree, AdminState
<1>5. QED
  BY <1>2, <1>3, <1>4 DEF IInv

LEMMA InvCreate ==
  ASSUME IInv, TypeOK', NEW c \in Requests, CreateStep(c)
  PROVE  IInv'
<1> USE DEF table
<1>1. CASE ReplayLookup(c) \/ CheckPaid(c) \/ CheckActive(c)
  <2>1. requests[c].pc \in InFlight
    BY <1>1 DEF ReplayLookup, CheckPaid, CheckActive, InFlight
  <2>2. RequestMoves(c)
    BY <1>1, <2>1, GotoMoves, AnswerMoves
       DEF ReplayLookup, CheckPaid, CheckActive, InFlight
  <2>3. QED
    BY <2>1, <2>2, InvRequestMoves
<1>2. CASE InsertPayment(c)
  <2>1. requests[c].pc \in InFlight
    BY <1>2 DEF InsertPayment, InFlight
  <2>2. CASE KeyConflict(c) \/ ActiveConflict(c)
    <3>1. RequestMoves(c)
      BY <1>2, <2>1, <2>2, GotoMoves, AnswerMoves DEF InsertPayment
    <3>2. QED
      BY <2>1, <3>1, InvRequestMoves
  <2>3. CASE ~(KeyConflict(c) \/ ActiveConflict(c))
    BY <1>2, <2>3, InvInsert
  <2>4. QED
    BY <2>2, <2>3
<1>3. QED
  BY <1>1, <1>2 DEF CreateStep

LEMMA InvStep == IInv /\ [Next]_vars => IInv'
<1> SUFFICES ASSUME IInv, [Next]_vars PROVE IInv'
  OBVIOUS
<1>1. TypeOK'
  BY TypeInvariantStep DEF IInv
<1>2. ASSUME NEW c \in Requests, NEW o \in Orders, NEW prov \in Providers,
             NEW key \in Keys \cup {None}, CreatePayment(c, o, prov, key)
      PROVE  IInv'
  <2>1. RequestMoves(c)
    BY <1>2 DEF CreatePayment, RequestMoves, IInv, TypeOK, FreshRow, InFlight
  <2>2. QED
    BY <1>1, <1>2, <2>1, InvRequestMoves DEF CreatePayment
<1>3. ASSUME NEW c \in Requests, CreateStep(c) PROVE IInv'
  BY <1>1, <1>3, InvCreate
<1>4. CASE Callback
  BY <1>1, <1>4, CallbackEffect, InvCallback DEF IInv
<1>5. ASSUME NEW o \in Orders, NEW s \in Targets, LockOrder(o, s) PROVE IInv'
  BY <1>1, <1>5, InvLockOrder
<1>6. ASSUME NEW o \in Orders, UpdateOrderStatus(o) PROVE IInv'
  BY <1>1, <1>6, InvUpdateOrderStatus
<1>7. ASSUME NEW o \in Orders, CloseSession(o) PROVE IInv'
  BY <1>1, <1>7, InvCloseSession
<1>8. CASE WorkerRestart
  BY <1>1, <1>8, InvWorkerRestart
<1>9. CASE UNCHANGED vars
  BY <1>1, <1>9 DEF vars, IInv, RowsExist, FreshRow, KeyUnique, AnswersMatch,
     LockedRowSeen, OrderRowFree, OneActivePayment, PaidProjection, PaymentsOf
<1>10. QED
  BY <1>2, <1>3, <1>4, <1>5, <1>6, <1>7, <1>8, <1>9 DEF Next, Callback

THEOREM Invariance == Spec => []IInv
BY InvInit, InvStep, PTL DEF Spec

(* An order never has two payments in progress, however many requests and   *)
(* callbacks overlap.                                                       *)
THEOREM OneActivePaymentHolds == Spec => []OneActivePayment
<1>1. IInv => OneActivePayment
  BY DEF IInv
<1>2. QED
  BY <1>1, Invariance, PTL

(* Order.paid_at is set for exactly the orders a payment was performed for. *)
THEOREM PaidProjectionHolds == Spec => []PaidProjection
<1>1. IInv => PaidProjection
  BY DEF IInv
<1>2. QED
  BY <1>1, Invariance, PTL

(* Requests with the same order and idempotency key get the same payment:   *)
(* both answers carry the key (AnswersMatch) and one row does (KeyUnique).  *)
THEOREM IdempotentReplayHolds == Spec => []IdempotentReplay
<1>1. IInv => IdempotentReplay
  BY DEF IInv, AnswersMatch, KeyUnique, IdempotentReplay
<1>2. QED
  BY <1>1, Invariance, PTL

(* A paid order is never cancelled.  Only UpdateOrderStatus writes a status *)
(* and it judges the row as it was locked, which is the row as it is.       *)
THEOREM PaidOrderNotCancelledHolds == Spec => PaidOrderNotCancelled
<1> DEFINE Step == \A o \in Orders :
       orders[o].status # "cancelled" /\ orders'[o].status = "cancelled"
         => ~orders[o].paid_at
<1>1. IInv /\ [Next]_vars => [Step]_vars
  <2> SUFFICES ASSUME IInv, Next, NEW o \in Orders,
                      orders[o].status # "cancelled", orders'[o].status = "cancelled"
               PROVE  ~orders[o].paid_at
    OBVIOUS
  <2>1. ASSUME NEW p \in Requests, PaidNow(p) PROVE orders'[o].status = orders[o].status
    BY <2>1 DEF PaidNow, Only, IInv, TypeOK, OrderRow
  <2>2. CASE Callback
    BY <2>1, <2>2, CallbackEffect DEF CallbackStep, IInv
  <2>3. ASSUME NEW x \in Orders, UpdateOrderStatus(x) PROVE ~orders[o].paid_at
    BY <2>3 DEF UpdateOrderStatus, StatusChangeAllowed, IInv, TypeOK, OrderRow,
                LockedRowSeen, OrderRowFree
  <2>4. QED
    BY <2>2, <2>3 DEF Next, Callback, CreateStep, CreatePayment, ReplayLookup, CheckPaid,
       CheckActive, InsertPayment, LockOrder, CloseSession, WorkerRestart, table
<1>2. QED
  BY <1>1, Invariance, PTL DEF Spec, PaidOrderNotCancelled

-----------------------------------------------------------------------------
(* The payment service implements PaymentLedger.  A step of the ledger is   *)
(* read off from the one payment or the one order that changes.             *)

(* The status of a payment is none, open, paid or void.                     *)
LEMMA PhaseCases ==
  ASSUME NEW s \in Statuses \cup {"none"}
  PROVE  /\ Phase(s) \in {"none", "open", "paid", "void"}
         /\ Phase(s) = "none" <=> s = "none"
         /\ Phase(s) = "open" <=> s \in _ACTIVE_STATUSES
         /\ Phase(s) = "paid" <=> s = "paid"
BY DEF Statuses, Phase, _ACTIVE_STATUSES

LEMMA LedgerInit == Init => Ledger!Init
<1> SUFFICES ASSUME Init PROVE Ledger!Init
  OBVIOUS
<1>1. \A p \in Requests : Phase(payments[p].status) = "none" /\ payments[p].order = None
  BY DEF Init, NoRow, Phase, _ACTIVE_STATUSES
<1>2. \A o \in Orders : orders[o].paid_at = FALSE /\ orders[o].status # "cancelled"
  BY DEF Init
<1>3. QED
  BY <1>1, <1>2 DEF Ledger!Init

LEMMA LedgerStutter ==
  ASSUME \A p \in Requests : /\ Phase(payments'[p].status) = Phase(payments[p].status)
                             /\ payments'[p].order = payments[p].order,
         \A o \in Orders : /\ orders'[o].paid_at = orders[o].paid_at
                           /\ orders'[o].status = orders[o].status
  PROVE  UNCHANGED Ledger!vars
BY DEF Ledger!vars

LEMMA LedgerCallback ==
  ASSUME IInv, TypeOK', CallbackStep
  PROVE  [Ledger!Next]_(Ledger!vars)
<1>1. \A p \in Requests : /\ payments[p].status \in Statuses \cup {"none"}
                          /\ payments'[p].status \in Statuses \cup {"none"}
                          /\ RowKept(payments[p], payments'[p])
  BY DEF IInv, TypeOK, PaymentRow, CallbackStep, RowsKept
<1>2. ASSUME MoneyKept, UNCHANGED orders, NEW p \in Requests, Only(p)
      PROVE  [Ledger!Next]_(Ledger!vars)
  <2>1. \/ Phase(payments'[p].status) = Phase(payments[p].status)
        \/ /\ Phase(payments[p].status) \in {"open", "paid"}
           /\ Phase(payments'[p].status) = "void"
    BY <1>1, <1>2, PhaseCases DEF RowKept, MoneyKept
  <2>2. CASE Phase(payments'[p].status) = Phase(payments[p].status)
    BY <1>1, <1>2, <2>2, LedgerStutter DEF RowKept, Only
  <2>3. CASE /\ Phase(payments[p].status) \in {"open", "paid"}
             /\ Phase(payments'[p].status) = "void"
    <3>1. Ledger!Void(p)
      BY <1>1, <1>2, <2>3 DEF RowKept, Only, Ledger!Void
    <3>2. QED
      BY <3>1 DEF Ledger!Next
  <2>4. QED
    BY <2>1, <2>2, <2>3
<1>3. ASSUME NEW p \in Requests, PaidNow(p)
      PROVE  [Ledger!Next]_(Ledger!vars)
  <2>1. /\ Phase(payments[p].status) = "open"
        /\ Phase(payments'[p].status) = "paid"
        /\ payments[p].order \in Orders
    BY <1>1, <1>3, PhaseCases DEF PaidNow, IInv, RowsExist, _ACTIVE_STATUSES
  <2>2. /\ orders'[payments[p].order].paid_at = TRUE
        /\ \A o \in Orders \ {payments[p].order} : orders'[o] = orders[o]
        /\ \A o \in Orders : orders'[o].status = orders[o].status
    BY <1>3, <2>1 DEF PaidNow, IInv, TypeOK, OrderRow
  <2>3. {o \in Orders : orders'[o].paid_at} =
          {o \in Orders : orders[o].paid_at} \cup {payments[p].order}
    BY <2>1, <2>2
  <2>4. {o \in Orders : orders'[o].status = "cancelled"} =
          {o \in Orders : orders[o].status = "cancelled"}
    BY <2>2
  <2>5. \A q \in Requests : /\ payments'[q].order = payments[q].order
                            /\ q # p => payments'[q] = payments[q]
    BY <1>1, <1>3 DEF RowKept, PaidNow, Only
  <2>6. Ledger!Settle(p)
    BY <2>1, <2>3, <2>4, <2>5 DEF Ledger!Settle
  <2>7. QED
    BY <2>6 DEF Ledger!Next
<1>4. QED
  BY <1>2, <1>3 DEF CallbackStep

LEMMA LedgerInsert ==
  ASSUME IInv, NEW c \in Requests, InsertPayment(c)
  PROVE  [Ledger!Next]_(Ledger!vars)
<1>1. CASE UNCHANGED payments
  BY <1>1, LedgerStutter DEF InsertPayment
<1>2. CASE ~UNCHANGED payments
  <2> DEFINE row == [NoRow EXCEPT !.order = requests[c].order,
                       !.key = requests[c].key,
                       !.provider = requests[c].provider, !.status = "pending"]
  <2>1. /\ ~ActiveConflict(c) /\ UNCHANGED orders
        /\ payments' = [payments EXCEPT ![c] = row] /\ requests[c].pc = "insert"
    BY <1>2 DEF InsertPayment
  <2>2. row.status = "pending" /\ row.order = requests[c].order
    BY DEF NoRow
  <2> HIDE DEF row
  <2>3. requests[c].order \in Orders /\ payments[c].status = "none"
    BY <2>1 DEF IInv, FreshRow, InFlight
  <2>4. PICK o \in Orders : o = requests[c].order
    BY <2>3
  <2>5. payments'[c] = row /\ Only(c)
    BY <2>1 DEF IInv, TypeOK, Only
  <2>6. /\ \A p \in Requests : payments[p].status \in Statuses \cup {"none"}
        /\ Phase("pending") = "open" /\ Phase("none") = "none"
    BY PhaseCases DEF IInv, TypeOK, PaymentRow, Phase, _ACTIVE_STATUSES
  <2>7. \A p \in Requests : payments[p].order = o => Phase(payments[p].status) # "open"
    BY <2>1, <2>4, <2>6, PhaseCases DEF ActiveConflict, ActivePaymentOf, PaymentsOf
  <2>8. Ledger!Open(c, o)
    <3>1. \A p \in Requests :
            /\ p # c => payments'[p] = payments[p]
            /\ p = c => /\ Phase(payments'[p].status) = "open"
                        /\ payments'[p].order = o
      BY <2>2, <2>4, <2>5, <2>6 DEF Only
    <3>2. Phase(payments[c].status) = "none"
      BY <2>3, <2>6
    <3>3. UNCHANGED orders
      BY <2>1
    <3>4. QED
      BY <2>7, <3>1, <3>2, <3>3 DEF Ledger!Open
  <2>9. QED
    BY <2>8 DEF Ledger!Next
<1>3. QED
  BY <1>1, <1>2

LEMMA LedgerUpdateOrderStatus ==
  ASSUME IInv, NEW o \in Orders, UpdateOrderStatus(o)
  PROVE  [Ledger!Next]_(Ledger!vars)
<1> DEFINE target == admin[o].target
<1>1. CASE UNCHANGED orders
  BY <1>1, LedgerStutter DEF UpdateOrderStatus
<1>2. CASE ~UNCHANGED orders
  <2>1. /\ StatusChangeAllowed(orders[o], target)
        /\ orders' = [orders EXCEPT ![o].status = target]
        /\ UNCHANGED payments
    BY <1>2 DEF UpdateOrderStatus, IInv, LockedRowSeen, OrderRowFree
  <2>2. /\ orders'[o].status = target
        /\ \A x \in Orders : orders'[x].paid_at = orders[x].paid_at
        /\ \A x \in Orders \ {o} : orders'[x] = orders[x]
    BY <2>1 DEF IInv, TypeOK, OrderRow
  <2>3. orders[o].status # "cancelled" /\ (target = "cancelled" => ~orders[o].paid_at)
    <3>1. ORDER_STATUS_TRANSITIONS["cancelled"] = {}
      BY DEF ORDER_STATUS_TRANSITIONS, OrderStatuses
    <3>2. QED
      BY <2>1, <3>1 DEF StatusChangeAllowed
  <2>4. CASE target = "cancelled"
    <3>1. {x \in Orders : orders'[x].status = "cancelled"} =
            {x \in Orders : orders[x].status = "cancelled"} \cup {o}
      BY <2>2, <2>4
    <3>2. {x \in Orders : orders'[x].paid_at} = {x \in Orders : orders[x].paid_at}
      BY <2>2
    <3>3. Ledger!Withdraw(o)
      BY <2>1, <2>3, <2>4, <3>1, <3>2 DEF Ledger!Withdraw
    <3>4. QED
      BY <3>3 DEF Ledger!Next
  <2>5. CASE target # "cancelled"
    <3>1. {x \in Orders : orders'[x].status = "cancelled"} =
            {x \in Orders : orders[x].status = "cancelled"}
      BY <2>2, <2>3, <2>5
    <3>2. {x \in Orders : orders'[x].paid_at} = {x \in Orders : orders[x].paid_at}
      BY <2>2
    <3>3. QED
      BY <2>1, <3>1, <3>2 DEF Ledger!vars
  <2>6. QED
    BY <2>4, <2>5
<1>3. QED
  BY <1>1, <1>2

LEMMA LedgerStep == IInv /\ TypeOK' /\ [Next]_vars => [Ledger!Next]_(Ledger!vars)
<1> SUFFICES ASSUME IInv, TypeOK', [Next]_vars PROVE [Ledger!Next]_(Ledger!vars)
  OBVIOUS
<1>1. CASE UNCHANGED <<orders, payments>>
  BY <1>1, LedgerStutter
<1>2. CASE Callback
  BY <1>2, CallbackEffect, LedgerCallback DEF IInv
<1>3. ASSUME NEW c \in Requests, InsertPayment(c) PROVE [Ledger!Next]_(Ledger!vars)
  BY <1>3, LedgerInsert
<1>4. ASSUME NEW o \in Orders, UpdateOrderStatus(o)
      PROVE  [Ledger!Next]_(Ledger!vars)
  BY <1>4, LedgerUpdateOrderStatus
<1>5. QED
  BY <1>1, <1>2, <1>3, <1>4 DEF Next, Callback, CreateStep, CreatePayment, ReplayLookup,
     CheckPaid, CheckActive, LockOrder, CloseSession, WorkerRestart, table, vars

(* Whatever happens, the service keeps the promises of PaymentLedger.       *)
THEOREM Refinement == Spec => LedgerSpec
<1>1. IInv' => TypeOK'
  BY DEF IInv
<1>2. QED
  BY <1>1, LedgerInit, LedgerStep, Invariance, PTL DEF Spec, LedgerSpec, Ledger!Spec
=============================================================================
