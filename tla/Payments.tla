------------------------------- MODULE Payments -------------------------------
(***************************************************************************)
(* The payment service of one restaurant: POST /api/payments               *)
(* (create_payment), the Payme and Click callbacks, the sandbox callback   *)
(* and the admin's order status change, over the tables orders, payments   *)
(* and payment_attempts.                                                   *)
(*                                                                         *)
(* PostgreSQL runs at READ COMMITTED.  create_payment takes no lock, so    *)
(* each of its queries is a step that sees whatever is committed by then;  *)
(* a callback locks the payment row and commits once, so it is one step,   *)
(* unless it has to wait for the order's row; update_order_status holds    *)
(* the lock of that row from its SELECT to its commit, so it is two.  A    *)
(* request inserts at most one payment, and the row carries its name.      *)
(*                                                                         *)
(* One worker process runs everything: create_payment and                  *)
(* update_order_status (def) on threads, the callbacks (async def with     *)
(* synchronous queries) on the event loop, which a callback that waits for *)
(* a row lock therefore blocks.                                            *)
(***************************************************************************)
EXTENDS StatusTransitions

CONSTANTS
  Orders,       \* the restaurant's orders
  Requests,     \* the POST /api/payments requests, and the payments they insert
  Keys,         \* idempotency keys the Mini App sends
  PaymeTx,      \* transactions Payme opens (params.id)
  ClickTx,      \* transactions Click opens (click_trans_id)
  WrongAmount,  \* the transactions whose amount is not that of their payment
  Configured,   \* providers with an active RestaurantPaymentConfig
  Sandbox,      \* settings.ENVIRONMENT # "production"
  CrossPay,     \* a provider may address a payment created for another provider
  SandboxTx,    \* stands for f"sandbox-tx-{payment_id}"
  Targets,      \* bound: the statuses the admin's PATCH asks for
  None          \* SQL NULL

Tx == PaymeTx \cup ClickTx
Providers == {"payme", "click", "sandbox"}

ASSUME ConstantsAssumption ==
  /\ PaymeTx \cap ClickTx = {}
  /\ WrongAmount \subseteq Tx
  /\ Configured \subseteq Providers
  /\ Sandbox \in BOOLEAN /\ CrossPay \in BOOLEAN
  /\ SandboxTx \notin Tx /\ SandboxTx # None
  /\ Targets \subseteq OrderStatuses
  /\ None \notin Orders \cup Requests \cup Keys \cup Tx

VARIABLES
  orders,    \* [Orders -> [status, paid_at]]; paid_at: is the column NOT NULL
  payments,  \* [Requests -> row]; status "none" while the row does not exist
  attempts,  \* payment_attempts rows; tx is None on the one create_payment inserts
  requests,  \* [Requests -> [pc, order, provider, key, result]]
  admin,     \* [Orders -> [pc, target, seen]]: the PATCH that holds the order's lock
  account,   \* [Tx -> Requests \cup {None}]: the payment a transaction pays for
  view,      \* [Tx -> what the provider knows from the last reply it received]
  loop       \* the callback that blocks the event loop: its transaction, the
             \* payment for the sandbox, None if the loop is free

vars == <<orders, payments, attempts, requests, admin, account, view, loop>>
table == <<orders, payments, attempts>>
provider == <<account, view>>

Statuses == {"pending", "processing", "paid", "failed", "cancelled"}
_ACTIVE_STATUSES == {"pending", "processing"}
Reasons == {"none", "cancelled_after_perform", "cancelled_by_payme",
            "click_error", "sandbox_failure"}

(* The steps of create_payment between two queries. *)
InFlight == {"replay", "check_paid", "check_active", "insert"}

NoRow == [order |-> None, provider |-> None, key |-> None, tx |-> None,
          status |-> "none", paid_at |-> FALSE, failure_reason |-> "none"]

OrderRow == [status : OrderStatuses, paid_at : BOOLEAN]
PaymentRow ==
  [order : Orders \cup {None}, provider : Providers \cup {None},
   key : Keys \cup {None}, tx : Tx \cup {SandboxTx, None},
   status : Statuses \cup {"none"}, paid_at : BOOLEAN, failure_reason : Reasons]
AttemptRow ==
  [payment : Requests, tx : Tx \cup {None},
   status : {"pending", "success", "cancelled"}]
RequestState ==
  [pc : InFlight \cup {"idle", "done", "rejected", "lost"},
   order : Orders \cup {None}, provider : Providers \cup {None},
   key : Keys \cup {None}, result : Requests \cup {None}]
AdminState == [pc : {"idle", "locked", "refused"}, target : OrderStatuses, seen : OrderRow]
Views == {"none", "created", "performed", "cancelled", "reversed"}

(* Type invariant: every column holds a value its type and CHECK allow. *)
TypeOK ==
  /\ orders \in [Orders -> OrderRow]
  /\ payments \in [Requests -> PaymentRow]
  /\ attempts \subseteq AttemptRow
  /\ requests \in [Requests -> RequestState]
  /\ admin \in [Orders -> AdminState]
  /\ account \in [Tx -> Requests \cup {None}]
  /\ view \in [Tx -> Views]
  /\ loop \in Tx \cup Requests \cup {None}

Init ==
  /\ orders \in [Orders -> [status : {"new", "accepted"}, paid_at : {FALSE}]]
  /\ payments = [p \in Requests |-> NoRow]
  /\ attempts = {}
  /\ requests = [c \in Requests |-> [pc |-> "idle", order |-> None,
                    provider |-> None, key |-> None, result |-> None]]
  /\ admin = [o \in Orders |-> [pc |-> "idle", target |-> "new",
                    seen |-> [status |-> "new", paid_at |-> FALSE]]]
  /\ account = [t \in Tx |-> None]
  /\ view = [t \in Tx |-> "none"]
  /\ loop = None

PaymentsOf(o) == {p \in Requests : payments[p].order = o}
Payable(o) == orders[o].status \notin {"completed", "cancelled"}

(* Mutant: update_order_status reads the row without FOR UPDATE. *)
OrderRowFree_NoLock(o) == o \in Orders
OrderRowFree(o) == admin[o].pc = "idle"

-----------------------------------------------------------------------------
(* create_payment: one action per query. *)

Goto(c, pc) == requests' = [requests EXCEPT ![c].pc = pc]
Answer(c, p) == requests' =
  [requests EXCEPT ![c] = [@ EXCEPT !.pc = "done", !.result = p]]

(* The request arrives; its order is read and must not be closed. *)
CreatePayment(c, o, prov, key) ==
  /\ requests[c].pc = "idle"
  /\ prov = "sandbox" => Sandbox
  /\ requests' = [requests EXCEPT ![c] =
       [pc |-> IF Payable(o) THEN "replay" ELSE "rejected",
        order |-> o, provider |-> prov, key |-> key, result |-> None]]
  /\ UNCHANGED <<table, admin, provider, loop>>

SameKey(c) == {p \in PaymentsOf(requests[c].order) :
                 requests[c].key # None /\ payments[p].key = requests[c].key}

(* Same (order, key): the existing payment is the answer. *)
ReplayLookup(c) ==
  /\ requests[c].pc = "replay"
  /\ \/ SameKey(c) = {} /\ Goto(c, "check_paid")
     \/ /\ SameKey(c) # {}
        /\ IF requests[c].provider \in Configured
             THEN \E p \in SameKey(c) : Answer(c, p)
             ELSE Goto(c, "rejected")
  /\ UNCHANGED <<table, admin, provider, loop>>

PaidPaymentOf(o) == \E p \in PaymentsOf(o) : payments[p].status = "paid"
ActivePaymentOf(o) ==
  \E p \in PaymentsOf(o) : payments[p].status \in _ACTIVE_STATUSES

CheckPaid(c) ==
  /\ requests[c].pc = "check_paid"
  /\ Goto(c, IF PaidPaymentOf(requests[c].order) THEN "rejected"
                                                 ELSE "check_active")
  /\ UNCHANGED <<table, admin, provider, loop>>

(* Mutant: waits for the active payment instead of answering 409. *)
CheckActive_Waits(c) ==
  /\ requests[c].pc = "check_active"
  /\ ~ActivePaymentOf(requests[c].order)
  /\ Goto(c, "insert")
  /\ UNCHANGED <<table, admin, provider, loop>>

(* The service-level check, then the merchant config. *)
CheckActive(c) ==
  /\ requests[c].pc = "check_active"
  /\ Goto(c, IF \/ ActivePaymentOf(requests[c].order)
                \/ requests[c].provider \notin Configured
               THEN "rejected" ELSE "insert")
  /\ UNCHANGED <<table, admin, provider, loop>>

(* Mutants: one of the two unique indexes of migration 0021 is missing. *)
KeyConflict_NoIndex(c) == SameKey(c) = {c}
ActiveConflict_NoIndex(c) == requests[c].order = None

(* uq_payments_order_idempotency, uq_payments_order_active *)
KeyConflict(c) == SameKey(c) # {}
ActiveConflict(c) == ActivePaymentOf(requests[c].order)

(* INSERT and COMMIT.  The indexes are checked first, in creation order;   *)
(* the foreign key then needs the order's row lock shared, which FOR UPDATE *)
(* excludes.                                                               *)
InsertPayment(c) ==
  /\ requests[c].pc = "insert"
  /\ \/ /\ KeyConflict(c)
        /\ \E p \in SameKey(c) : Answer(c, p)
        /\ UNCHANGED <<payments, attempts>>
     \/ /\ ~KeyConflict(c) /\ ActiveConflict(c)
        /\ Goto(c, "rejected")
        /\ UNCHANGED <<payments, attempts>>
     \/ /\ ~KeyConflict(c) /\ ~ActiveConflict(c)
        /\ OrderRowFree(requests[c].order)
        /\ payments' = [payments EXCEPT ![c] =
             [NoRow EXCEPT !.order = requests[c].order, !.key = requests[c].key,
                           !.provider = requests[c].provider, !.status = "pending"]]
        /\ attempts' = attempts \cup
             {[payment |-> c, tx |-> None, status |-> "pending"]}
        /\ Answer(c, c)
  /\ UNCHANGED <<orders, admin, provider, loop>>

-----------------------------------------------------------------------------
(* Callbacks.  A callback that is refused changes nothing and is left out. *)
(* Each reply may be lost on its way (delivered = FALSE): the provider     *)
(* then knows no more than before and calls again.  A callback begins when *)
(* the event loop is free, and only one that waited (w) finds it its own.  *)

Learn(t, s, delivered) ==
  view' = IF delivered THEN [view EXCEPT ![t] = s] ELSE view

(* A transaction is opened for one payment, the one its account names. *)
OpenedFor(t, p, prov) ==
  /\ loop = None
  /\ prov \in Configured /\ payments[p].status # "none"
  /\ account[t] \in {None, p}
  /\ CrossPay \/ payments[p].provider = prov
  /\ account' = [account EXCEPT ![t] = p]

(* Mutant: the callback's amount is not compared with the payment's. *)
StartProcessing_AnyAmount(t, p) ==
  /\ payments[p].status = "pending"
  /\ payments' = [payments EXCEPT ![p] =
                    [@ EXCEPT !.status = "processing", !.tx = t]]
  /\ attempts' = attempts \cup {[payment |-> p, tx |-> t, status |-> "pending"]}

StartProcessing(t, p) ==
  /\ payments[p].status = "pending"
  /\ t \notin WrongAmount
  /\ payments' = [payments EXCEPT ![p] =
                    [@ EXCEPT !.status = "processing", !.tx = t]]
  /\ attempts' = attempts \cup {[payment |-> p, tx |-> t, status |-> "pending"]}

(* Mutant: the attempt is looked up under another status and not found. *)
UpdateAttempt_Missed(t, p, s) ==
  attempts' = {IF a.payment = p /\ a.status = s THEN [a EXCEPT !.tx = t] ELSE a :
                 a \in attempts}

UpdateAttempt(t, p, s) ==
  attempts' = {IF a.payment = p /\ a.tx = t THEN [a EXCEPT !.status = s] ELSE a :
                 a \in attempts}

(* Mutant: the order's projection is written only for an open order. *)
SetPaid_OpenOrders(p, w) ==
  /\ loop \in {None, w} /\ loop' = None
  /\ payments' = [payments EXCEPT ![p] =
                    [@ EXCEPT !.status = "paid", !.paid_at = TRUE]]
  /\ OrderRowFree(payments[p].order)
  /\ orders' = IF Payable(payments[p].order)
                 THEN [orders EXCEPT ![payments[p].order].paid_at = TRUE] ELSE orders

SetPaid(p, w) ==
  /\ loop \in {None, w} /\ loop' = None
  /\ payments' = [payments EXCEPT ![p] =
                    [@ EXCEPT !.status = "paid", !.paid_at = TRUE]]
  /\ OrderRowFree(payments[p].order)
  /\ orders' = [orders EXCEPT ![payments[p].order].paid_at = TRUE]

(* Mutant: a cancellation is recorded as one before the perform. *)
SetFailed_OneReason(p, reason) ==
  payments' = [payments EXCEPT ![p] = [@ EXCEPT !.status = "failed",
    !.failure_reason = IF reason = "cancelled_after_perform"
                         THEN "cancelled_by_payme" ELSE reason]]

(* Mutant: a refund is recorded as a status the column does not have. *)
SetFailed_Refunded(p, reason) ==
  payments' = [payments EXCEPT ![p] = [@ EXCEPT !.failure_reason = reason,
    !.status = IF reason = "cancelled_after_perform" THEN "refunded" ELSE "failed"]]

SetFailed(p, reason) ==
  payments' = [payments EXCEPT ![p] =
    [@ EXCEPT !.status = "failed", !.failure_reason = reason]]

(* CreateTransaction: replayed for the transaction it recorded. *)
PaymeCreateTransaction(t, p, delivered) ==
  /\ OpenedFor(t, p, "payme")
  /\ \/ /\ payments[p].tx = t
        /\ payments[p].status \in {"processing", "paid"}
        /\ UNCHANGED <<payments, attempts>>
     \/ StartProcessing(t, p)
  /\ Learn(t, "created", delivered)
  /\ UNCHANGED <<orders, requests, admin, loop>>

(* Mutant: the lookup skips payments that are no longer open. *)
PaymeRows_OpenOnly(t) == {p \in Requests : /\ payments[p].tx = t
                                           /\ payments[p].status \in _ACTIVE_STATUSES}
PaymeRows(t) == {p \in Requests : payments[p].tx = t /\ payments[p].provider = "payme"}

PaymePerformTransaction(t, delivered) ==
  /\ \E p \in PaymeRows(t) :
       \/ payments[p].status = "paid" /\ loop = None /\ UNCHANGED <<table, loop>>
       \/ /\ payments[p].status = "processing"
          /\ SetPaid(p, t)
          /\ UpdateAttempt(t, p, "success")
  /\ Learn(t, "performed", delivered)
  /\ UNCHANGED <<requests, admin, account>>

(* CancelTransaction: state -2 ("reversed") once performed, else -1. *)
PaymeCancelTransaction(t, delivered) ==
  /\ loop = None
  /\ \E p \in PaymeRows(t) :
       \/ /\ payments[p].status = "failed"
          /\ UNCHANGED <<payments, attempts>>
          /\ Learn(t, IF payments[p].failure_reason = "cancelled_after_perform"
                        THEN "reversed" ELSE "cancelled", delivered)
       \/ /\ payments[p].status = "paid"
          /\ SetFailed(p, "cancelled_after_perform")
          /\ UpdateAttempt(t, p, "cancelled")
          /\ Learn(t, "reversed", delivered)
       \/ /\ payments[p].status \in _ACTIVE_STATUSES
          /\ SetFailed(p, "cancelled_by_payme")
          /\ UpdateAttempt(t, p, "cancelled")
          /\ Learn(t, "cancelled", delivered)
  /\ UNCHANGED <<orders, requests, admin, account, loop>>

(* CheckTransaction: the state is told from paid_at alone. *)
PaymeCheckTransaction(t, delivered) ==
  /\ loop = None
  /\ \E p \in PaymeRows(t) :
       Learn(t, IF payments[p].paid_at THEN "performed" ELSE "created", delivered)
  /\ UNCHANGED <<table, requests, admin, account, loop>>

ClickPrepare(t, p, delivered) ==
  /\ OpenedFor(t, p, "click")
  /\ \/ /\ payments[p].tx = t /\ payments[p].status = "processing"
        /\ UNCHANGED <<payments, attempts>>
     \/ StartProcessing(t, p)
  /\ Learn(t, "created", delivered)
  /\ UNCHANGED <<orders, requests, admin, loop>>

(* Click completes a transaction whose Prepare it saw accepted; the row is *)
(* found by merchant_prepare_id, the transaction is not compared.          *)
ClickComplete(t, p, ok, delivered) ==
  /\ view[t] # "none" /\ account[t] = p
  /\ payments[p].status = "processing"
  /\ IF ok THEN SetPaid(p, t)
           ELSE SetFailed(p, "click_error") /\ loop = None /\ UNCHANGED <<orders, loop>>
  /\ UpdateAttempt(t, p, IF ok THEN "success" ELSE "cancelled")
  /\ Learn(t, IF ok THEN "performed" ELSE "cancelled", delivered)
  /\ UNCHANGED <<requests, admin, account>>

(* POST /api/payments/sandbox/callback, outside production. *)
SandboxPay(p) ==
  /\ Sandbox /\ payments[p].status \in _ACTIVE_STATUSES
  /\ loop \in {None, p} /\ loop' = None
  /\ payments' = [payments EXCEPT ![p] =
       [@ EXCEPT !.status = "paid", !.paid_at = TRUE,
          !.tx = IF payments[p].status = "pending" THEN SandboxTx ELSE payments[p].tx]]
  /\ OrderRowFree(payments[p].order)
  /\ orders' = [orders EXCEPT ![payments[p].order].paid_at = TRUE]
  /\ UNCHANGED <<attempts, requests, admin, provider>>

SandboxFail(p) ==
  /\ Sandbox /\ loop = None /\ payments[p].status \notin {"none", "paid"}
  /\ SetFailed(p, "sandbox_failure")
  /\ UNCHANGED <<orders, attempts, requests, admin, provider, loop>>

SandboxCancel(p) ==
  /\ Sandbox /\ loop = None /\ payments[p].status \in _ACTIVE_STATUSES
  /\ payments' = [payments EXCEPT ![p].status = "cancelled"]
  /\ UNCHANGED <<orders, attempts, requests, admin, provider, loop>>

(* The UPDATE of paid_at finds the order's row locked: the callback waits, *)
(* and nothing else runs on the event loop until it is through.            *)
WaitForOrderRow(p, w) ==
  /\ loop = None
  /\ payments[p].status \in _ACTIVE_STATUSES
  /\ \/ w \in PaymeTx /\ p \in PaymeRows(w)
     \/ w \in ClickTx /\ view[w] # "none" /\ account[w] = p
     \/ Sandbox /\ w = p
  /\ payments[p].status = "pending" => w = p
  /\ ~OrderRowFree(payments[p].order)
  /\ loop' = w
  /\ UNCHANGED <<table, requests, admin, provider>>

-----------------------------------------------------------------------------
(* PATCH /api/orders/{id}/status *)

(* SELECT ... FOR UPDATE, then refresh: the row as of the lock. *)
LockOrder(o, target) ==
  /\ OrderRowFree(o)
  /\ admin' = [admin EXCEPT ![o] =
                 [pc |-> "locked", target |-> target, seen |-> orders[o]]]
  /\ UNCHANGED <<table, requests, provider, loop>>

(* Mutant: the paid-order guard of phase 9 is missing. *)
StatusChangeAllowed_NoPaidGuard(seen, target) ==
  target \in ORDER_STATUS_TRANSITIONS[seen.status]

StatusChangeAllowed(seen, target) ==
  /\ ~(target = "cancelled" /\ seen.paid_at)
  /\ target \in ORDER_STATUS_TRANSITIONS[seen.status]

(* The checks; then the write and the commit that releases the lock, or an *)
(* HTTPException with the lock still held.                                 *)
UpdateOrderStatus(o) ==
  /\ admin[o].pc = "locked"
  /\ IF StatusChangeAllowed(admin[o].seen, admin[o].target)
       THEN /\ orders' = [orders EXCEPT ![o].status = admin[o].target]
            /\ admin' = [admin EXCEPT ![o].pc = "idle"]
       ELSE /\ UNCHANGED orders
            /\ admin' = [admin EXCEPT ![o].pc = "refused"]
  /\ UNCHANGED <<payments, attempts, requests, provider, loop>>

(* get_db rolls the refused request back, when the event loop gets to it.  *)
CloseSession(o) ==
  /\ admin[o].pc = "refused"
  /\ loop = None
  /\ admin' = [admin EXCEPT ![o].pc = "idle"]
  /\ UNCHANGED <<table, requests, provider, loop>>

(* The single worker restarts: open transactions roll back, their locks go. *)
WorkerRestart ==
  /\ requests' = [c \in Requests |->
       IF requests[c].pc \in InFlight THEN [requests[c] EXCEPT !.pc = "lost"]
                                      ELSE requests[c]]
  /\ admin' = [o \in Orders |-> [admin[o] EXCEPT !.pc = "idle"]]
  /\ loop' = None
  /\ UNCHANGED <<table, provider>>

-----------------------------------------------------------------------------
CreateStep(c) ==
  ReplayLookup(c) \/ CheckPaid(c) \/ CheckActive(c) \/ InsertPayment(c)

Next ==
  \/ \E c \in Requests :
       \/ \E o \in Orders, prov \in Providers, key \in Keys \cup {None} :
            CreatePayment(c, o, prov, key)
       \/ CreateStep(c)
  \/ \E delivered \in BOOLEAN :
       \/ \E t \in PaymeTx :
            \/ \E p \in Requests : PaymeCreateTransaction(t, p, delivered)
            \/ PaymePerformTransaction(t, delivered)
            \/ PaymeCancelTransaction(t, delivered)
            \/ PaymeCheckTransaction(t, delivered)
       \/ \E t \in ClickTx :
            \E p \in Requests :
              \/ ClickPrepare(t, p, delivered)
              \/ \E ok \in BOOLEAN : ClickComplete(t, p, ok, delivered)
  \/ \E p \in Requests :
       \/ SandboxPay(p) \/ SandboxFail(p) \/ SandboxCancel(p)
       \/ \E w \in Tx \cup Requests : WaitForOrderRow(p, w)
  \/ \E o \in Orders :
       \/ \E target \in Targets : LockOrder(o, target)
       \/ UpdateOrderStatus(o) \/ CloseSession(o)
  \/ WorkerRestart

Spec == Init /\ [][Next]_vars

(***************************************************************************)
(* Fairness.  A handler that started runs on (threads are scheduled, and   *)
(* so is a free event loop), and PostgreSQL grants a row lock in the order *)
(* it was asked for, so a step that waits for one is taken if the lock is  *)
(* free again and again.  A provider repeats a call it got no reply to,    *)
(* and not every reply is lost.                                            *)
(***************************************************************************)
PaymeSettles(t) ==
  PaymePerformTransaction(t, TRUE) \/ PaymeCancelTransaction(t, TRUE)

Fairness ==
  /\ \A c \in Requests : SF_vars(CreateStep(c))
  /\ \A o \in Orders : WF_vars(UpdateOrderStatus(o)) /\ WF_vars(CloseSession(o))
  /\ \A t \in PaymeTx : SF_vars(PaymeSettles(t))

FairSpec == Spec /\ Fairness

(* The platform restarts a worker whose /health stays unanswered. *)
MonitoredSpec == FairSpec /\ WF_vars(loop # None /\ WorkerRestart)

-----------------------------------------------------------------------------
(* Safety. *)

(* However many create_payment requests overlap, with each other and with  *)
(* callbacks, an order never has two payments in progress: the check of    *)
(* create_payment is not atomic with its INSERT, the partial unique index  *)
(* closes the gap.                                                         *)
OneActivePayment ==
  \A o \in Orders : \A p, q \in PaymentsOf(o) :
    /\ payments[p].status \in _ACTIVE_STATUSES
    /\ payments[q].status \in _ACTIVE_STATUSES
    => p = q

(* Two requests that were answered for the same order and idempotency key  *)
(* were given the same payment, also when the first one failed in between. *)
IdempotentReplay ==
  \A c, d \in Requests :
    /\ requests[c].pc = "done" /\ requests[d].pc = "done"
    /\ requests[c].order = requests[d].order
    /\ requests[c].key = requests[d].key /\ requests[c].key # None
    => requests[c].result = requests[d].result

(* Order.paid_at is a projection of the payments table: set exactly for    *)
(* the orders one of whose payments was performed, refunded ones included. *)
PaidProjection ==
  /\ \A o \in Orders :
       orders[o].paid_at <=> \E p \in PaymentsOf(o) : payments[p].paid_at
  /\ \A p \in Requests : payments[p].status = "paid" => payments[p].paid_at

(* A payment is paid only through a transaction whose amount was compared  *)
(* with it, although PerformTransaction and Complete compare none.         *)
MoneyIsExact ==
  \A p \in Requests : payments[p].paid_at => payments[p].tx \notin WrongAmount

(* What the last reply a provider received allows it to conclude, however  *)
(* many replies were lost and calls repeated: a transaction it was told of *)
(* has taken up the payment; one performed has once paid the order; one    *)
(* cancelled or reversed is so in the table, the money not taken or taken. *)
(* No reply says more: CheckTransaction calls a cancelled payment created  *)
(* and a reversed one performed, and a repeated CreateTransaction says     *)
(* created of a performed one.  The sandbox callback changes payments      *)
(* behind the provider's back.                                             *)
ProviderAgreement ==
  ~Sandbox => \A t \in Tx : LET row == payments[account[t]] IN
    /\ view[t] # "none" => row.tx = t /\ row.status \in Statuses \ {"pending"}
    /\ view[t] = "performed" => row.paid_at /\ orders[row.order].paid_at
    /\ view[t] = "cancelled" => row.status = "failed" /\ ~row.paid_at
    /\ view[t] = "reversed"  => row.status = "failed" /\ row.paid_at

(* The audit trail agrees with the payments: every payment a provider took *)
(* up has one attempt for its transaction, in the matching status, next to *)
(* the one of its creation.                                                *)
AttemptsAgree ==
  ~Sandbox => \A p \in Requests :
    {a \in attempts : a.payment = p} \ {[payment |-> p, tx |-> None, status |-> "pending"]} =
      IF payments[p].tx = None THEN {}
      ELSE {[payment |-> p, tx |-> payments[p].tx, status |->
               CASE payments[p].status = "paid"   -> "success"
                 [] payments[p].status = "failed" -> "cancelled"
                 [] OTHER                         -> "pending"]}

(* A paid order is never cancelled: update_order_status judges the row it  *)
(* locked, and a callback cannot write paid_at before the lock is released.*)
PaidOrderNotCancelled ==
  [][\A o \in Orders :
       orders[o].status # "cancelled" /\ orders'[o].status = "cancelled"
         => ~orders[o].paid_at]_vars

(* The service keeps the promises of PaymentLedger. *)
Phase(status) == CASE status = "none" -> "none"
                   [] status \in _ACTIVE_STATUSES -> "open"
                   [] status = "paid" -> "paid"
                   [] OTHER -> "void"

Ledger == INSTANCE PaymentLedger WITH
  Ids <- Requests,
  phase <- [p \in Requests |-> Phase(payments[p].status)],
  owner <- [p \in Requests |-> payments[p].order],
  taken <- {o \in Orders : orders[o].paid_at},
  withdrawn <- {o \in Orders : orders[o].status = "cancelled"}

LedgerSpec == Ledger!Spec

-----------------------------------------------------------------------------
(* The inductive invariant behind the safety properties. *)

(* A row exists with an order or not at all, and not before its INSERT.    *)
RowsExist ==
  \A p \in Requests : IF payments[p].status = "none" THEN payments[p] = NoRow
                                                    ELSE payments[p].order \in Orders
FreshRow ==
  \A c \in Requests :
    /\ requests[c].pc \in InFlight \cup {"idle"} => payments[c].status = "none"
    /\ requests[c].pc \in InFlight => requests[c].order \in Orders

(* uq_payments_order_idempotency *)
KeyUnique ==
  \A p, q \in Requests :
    /\ payments[p].order = payments[q].order
    /\ payments[p].key = payments[q].key /\ payments[p].key # None
    => p = q

(* An answer is a payment of the requested order, under the requested key. *)
AnswersMatch ==
  \A c \in Requests : requests[c].pc = "done" =>
    /\ requests[c].result \in Requests
    /\ payments[requests[c].result].status # "none"
    /\ payments[requests[c].result].order = requests[c].order
    /\ requests[c].key # None =>
         payments[requests[c].result].key = requests[c].key

(* While PATCH holds the row lock, what it read is what the row holds.     *)
LockedRowSeen ==
  \A o \in Orders : ~OrderRowFree(o) => admin[o].seen = orders[o]

IInv == /\ TypeOK /\ RowsExist /\ FreshRow /\ KeyUnique /\ AnswersMatch
        /\ LockedRowSeen /\ OneActivePayment /\ PaidProjection

-----------------------------------------------------------------------------
(* Liveness. *)

(* Every request of the Mini App is answered, or dies with the worker.     *)
RequestsAnswered ==
  \A c \in Requests : requests[c].pc \in InFlight ~> requests[c].pc \notin InFlight

(* A transaction Payme created is brought to an end Payme knows of,        *)
(* whichever replies are lost: each retry finds what the first call did.   *)
(* Only a payment the sandbox callback cancelled can neither be performed  *)
(* nor cancelled any more.                                                 *)
CreatedIsSettled ==
  \A t \in PaymeTx :
    view[t] = "created" ~> \/ view[t] # "created"
                           \/ payments[account[t]].status = "cancelled"
=============================================================================
