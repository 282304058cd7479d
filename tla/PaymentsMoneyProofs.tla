-------------------------- MODULE PaymentsMoneyProofs --------------------------
(***************************************************************************)
(* More theorems about Payments: a payment is paid only through a          *)
(* transaction of its amount, and outside the sandbox the payments table,  *)
(* its audit trail and what the providers concluded from the replies they  *)
(* received agree, whichever replies were lost.                            *)
(***************************************************************************)
EXTENDS PaymentsProofs

-----------------------------------------------------------------------------
(* The inductive invariant *)

ExactTx == \A p \in Requests : payments[p].tx \notin WrongAmount

(* Outside the sandbox a payment has a transaction from the moment it is   *)
(* taken up, and its reason tells whether money was taken.                 *)
RowAgrees(row) ==
  /\ row.status # "cancelled"
  /\ row.tx \in Tx \cup {None}
  /\ row.tx = None <=> row.status \in {"none", "pending"}
  /\ row.paid_at => row.status \in {"paid", "failed"}
  /\ row.status = "paid" => row.paid_at
  /\ row.status = "failed" =>
       (row.paid_at <=> row.failure_reason = "cancelled_after_perform")
RowsAgree == \A p \in Requests : RowAgrees(payments[p])

(* A payment was taken up by the transaction opened for it, and a provider *)
(* that received a reply has opened its transaction.                       *)
Accounts ==
  /\ \A p \in Requests : payments[p].tx # None => account[payments[p].tx] = p
  /\ \A t \in Tx : view[t] # "none" => account[t] \in Requests

(* What a provider knows of its transaction is so. *)
Knows(t, known, row) ==
  /\ row.tx = t
  /\ known = "performed" => row.paid_at
  /\ known = "cancelled" => row.status = "failed" /\ ~row.paid_at
  /\ known = "reversed"  => row.status = "failed" /\ row.paid_at
Agreed == \A t \in Tx : view[t] # "none" => Knows(t, view[t], payments[account[t]])

MInv == ExactTx /\ (~Sandbox => RowsAgree /\ Accounts /\ Agreed /\ AttemptsAgree)

-----------------------------------------------------------------------------
(* What the effects of the callbacks leave in a row *)

LEMMA StartedRow ==
  ASSUME TypeOK, NEW t \in Tx, NEW p \in Requests, StartProcessing(t, p)
  PROVE  /\ payments[p].status = "pending" /\ t \notin WrongAmount
         /\ payments'[p].status = "processing" /\ payments'[p].tx = t
         /\ payments'[p].paid_at = payments[p].paid_at
         /\ Only(p)
<1> DEFINE row == [payments[p] EXCEPT !.status = "processing", !.tx = t]
<1>1. /\ payments[p] \in PaymentRow /\ payments[p].status = "pending" /\ t \notin WrongAmount
      /\ payments' = [payments EXCEPT ![p] = row]
  BY DEF TypeOK, StartProcessing
<1>2. row.status = "processing" /\ row.tx = t /\ row.paid_at = payments[p].paid_at
  BY <1>1 DEF PaymentRow
<1> HIDE DEF row
<1>3. payments'[p] = row /\ \A q \in Requests \ {p} : payments'[q] = payments[q]
  BY <1>1 DEF TypeOK
<1>4. QED
  BY <1>1, <1>2, <1>3 DEF Only

LEMMA PaidRow ==
  ASSUME TypeOK, NEW p \in Requests, NEW w, SetPaid(p, w)
  PROVE  /\ payments'[p].status = "paid" /\ payments'[p].paid_at = TRUE
         /\ payments'[p].tx = payments[p].tx
         /\ Only(p)
<1> DEFINE row == [payments[p] EXCEPT !.status = "paid", !.paid_at = TRUE]
<1>1. payments[p] \in PaymentRow /\ payments' = [payments EXCEPT ![p] = row]
  BY DEF TypeOK, SetPaid
<1>2. row.status = "paid" /\ row.paid_at = TRUE /\ row.tx = payments[p].tx
  BY <1>1 DEF PaymentRow
<1> HIDE DEF row
<1>3. payments'[p] = row /\ \A q \in Requests \ {p} : payments'[q] = payments[q]
  BY <1>1 DEF TypeOK
<1>4. QED
  BY <1>2, <1>3 DEF Only

LEMMA FailedRow ==
  ASSUME TypeOK, NEW p \in Requests, NEW r, SetFailed(p, r)
  PROVE  /\ payments'[p].status = "failed" /\ payments'[p].failure_reason = r
         /\ payments'[p].tx = payments[p].tx /\ payments'[p].paid_at = payments[p].paid_at
         /\ Only(p)
<1> DEFINE row == [payments[p] EXCEPT !.status = "failed", !.failure_reason = r]
<1>1. payments[p] \in PaymentRow /\ payments' = [payments EXCEPT ![p] = row]
  BY DEF TypeOK, SetFailed
<1>2. /\ row.status = "failed" /\ row.failure_reason = r
      /\ row.tx = payments[p].tx /\ row.paid_at = payments[p].paid_at
  BY <1>1 DEF PaymentRow
<1> HIDE DEF row
<1>3. payments'[p] = row /\ \A q \in Requests \ {p} : payments'[q] = payments[q]
  BY <1>1 DEF TypeOK
<1>4. QED
  BY <1>2, <1>3 DEF Only

LEMMA SandboxRow ==
  ASSUME TypeOK, NEW p \in Requests, SandboxPay(p) \/ SandboxFail(p) \/ SandboxCancel(p)
  PROVE  /\ payments'[p].tx \in {payments[p].tx, SandboxTx}
         /\ Only(p) /\ Sandbox
<1>1. CASE SandboxPay(p)
  <2> DEFINE tx == IF payments[p].status = "pending" THEN SandboxTx ELSE payments[p].tx
             row == [payments[p] EXCEPT !.status = "paid", !.paid_at = TRUE, !.tx = tx]
  <2>1. payments[p] \in PaymentRow /\ payments' = [payments EXCEPT ![p] = row]
    BY <1>1 DEF TypeOK, SandboxPay
  <2>2. row.tx = tx
    BY <2>1 DEF PaymentRow
  <2>3. tx \in {payments[p].tx, SandboxTx}
    OBVIOUS
  <2> HIDE DEF row, tx
  <2>4. payments'[p] = row /\ \A q \in Requests \ {p} : payments'[q] = payments[q]
    BY <2>1 DEF TypeOK
  <2>5. QED
    BY <1>1, <2>2, <2>3, <2>4 DEF Only, SandboxPay
<1>2. CASE SandboxFail(p)
  BY <1>2, FailedRow DEF SandboxFail
<1>3. CASE SandboxCancel(p)
  <2>1. /\ payments[p] \in PaymentRow
        /\ payments' = [payments EXCEPT ![p] = [payments[p] EXCEPT !.status = "cancelled"]]
    BY <1>3 DEF TypeOK, SandboxCancel
  <2>2. payments'[p].tx = payments[p].tx /\ Only(p)
    BY <2>1 DEF TypeOK, PaymentRow, Only
  <2>3. QED
    BY <1>3, <2>2 DEF SandboxCancel
<1>4. QED
  BY <1>1, <1>2, <1>3

(* The row create_payment inserts. *)
LEMMA InsertedRow ==
  ASSUME TypeOK, NEW c \in Requests, InsertPayment(c)
  PROVE  \/ UNCHANGED <<payments, attempts>>
         \/ /\ payments'[c].status = "pending" /\ payments'[c].tx = None
            /\ payments'[c].paid_at = FALSE
            /\ Only(c) /\ requests[c].pc = "insert"
            /\ attempts' = attempts \cup {[payment |-> c, tx |-> None, status |-> "pending"]}
<1> DEFINE row == [NoRow EXCEPT !.order = requests[c].order, !.key = requests[c].key,
                     !.provider = requests[c].provider, !.status = "pending"]
<1>1. row.status = "pending" /\ row.tx = None /\ row.paid_at = FALSE
  BY DEF NoRow
<1>2. \/ UNCHANGED <<payments, attempts>>
      \/ /\ payments' = [payments EXCEPT ![c] = row]
         /\ attempts' = attempts \cup {[payment |-> c, tx |-> None, status |-> "pending"]}
  BY DEF InsertPayment
<1> HIDE DEF row
<1>3. QED
  BY <1>1, <1>2 DEF Only, TypeOK, InsertPayment

-----------------------------------------------------------------------------
(* The step of a transaction *)

(* A callback of transaction t changes payment p, which t was opened for,  *)
(* and what its provider knows.                                            *)
TransactionStep(t, p) ==
  /\ Only(p)
  /\ account[t] \in {None, p} /\ account'[t] = p
  /\ \A u \in Tx \ {t} : account'[u] = account[u] /\ view'[u] = view[u]
  /\ payments[p].tx \in {None, t} /\ payments'[p].tx = t
  /\ RowAgrees(payments'[p]) /\ Knows(t, view'[t], payments'[p])

LEMMA Learned ==
  ASSUME TypeOK, NEW t \in Tx, NEW s, NEW d, Learn(t, s, d)
  PROVE  /\ view'[t] \in {view[t], s}
         /\ \A u \in Tx \ {t} : view'[u] = view[u]
BY DEF TypeOK, Learn

LEMMA OpenedAccount ==
  ASSUME TypeOK, NEW t \in Tx, NEW p \in Requests, NEW prov, OpenedFor(t, p, prov)
  PROVE  /\ account[t] \in {None, p} /\ account'[t] = p
         /\ \A u \in Tx \ {t} : account'[u] = account[u]
BY DEF TypeOK, OpenedFor

(* The account of a payment's transaction is the payment. *)
LEMMA AccountOf ==
  ASSUME MInv, ~Sandbox, NEW t \in Tx, NEW p \in Requests, payments[p].tx = t
  PROVE  account[t] = p /\ RowAgrees(payments[p])
         /\ (view[t] # "none" => Knows(t, view[t], payments[p]))
<1>1. t # None
  BY ConstantsAssumption
<1>2. QED
  BY <1>1 DEF MInv, Accounts, RowsAgree, Agreed

(* The audit trail of payment p moves with it. *)
TrailStep(t, p) ==
  \/ UNCHANGED <<payments, attempts>>
  \/ /\ payments[p].status = "pending" /\ payments'[p].status = "processing"
     /\ attempts' = attempts \cup {[payment |-> p, tx |-> t, status |-> "pending"]}
  \/ /\ payments[p].tx = t /\ payments'[p].status = "paid" /\ UpdateAttempt(t, p, "success")
  \/ /\ payments[p].tx = t /\ payments'[p].status = "failed" /\ UpdateAttempt(t, p, "cancelled")

LEMMA OpenStep ==
  ASSUME TypeOK, MInv, ~Sandbox, NEW t \in Tx, NEW p \in Requests, NEW prov, NEW d \in BOOLEAN,
         OpenedFor(t, p, prov),
         \/ payments[p].tx = t /\ UNCHANGED <<payments, attempts>>
         \/ StartProcessing(t, p),
         Learn(t, "created", d)
  PROVE  TransactionStep(t, p) /\ TrailStep(t, p)
<1>1. /\ account[t] \in {None, p} /\ account'[t] = p
      /\ \A u \in Tx \ {t} : account'[u] = account[u] /\ view'[u] = view[u]
  BY OpenedAccount, Learned
<1>2. view'[t] \in {view[t], "created"}
  BY Learned
<1>3. RowAgrees(payments[p]) /\ t # None
  BY ConstantsAssumption DEF MInv, RowsAgree
<1>4. CASE payments[p].tx = t /\ UNCHANGED <<payments, attempts>>
  <2>1. view[t] # "none" => Knows(t, view[t], payments[p])
    BY <1>4, AccountOf
  <2>2. Knows(t, view'[t], payments'[p])
    BY <1>2, <1>3, <1>4, <2>1 DEF Knows, RowAgrees
  <2>3. QED
    BY <1>1, <1>3, <1>4, <2>2 DEF TransactionStep, TrailStep, Only
<1>5. CASE StartProcessing(t, p)
  <2>1. /\ payments[p].status = "pending" /\ Only(p)
        /\ payments'[p].status = "processing" /\ payments'[p].tx = t
        /\ payments'[p].paid_at = payments[p].paid_at
    BY <1>5, StartedRow
  <2>2. payments[p].tx = None /\ ~payments[p].paid_at
    BY <1>3, <2>1 DEF RowAgrees
  <2>3. view[t] = "none"
    <3>1. SUFFICES ASSUME view[t] # "none" PROVE FALSE
      OBVIOUS
    <3>2. account[t] = p
      BY <1>1, <3>1, ConstantsAssumption DEF MInv, Accounts
    <3>3. payments[p].tx = t
      BY <3>1, <3>2 DEF MInv, Agreed, Knows
    <3>4. QED
      BY <1>3, <2>2, <3>3
  <2>4. view'[t] \in {"none", "created"}
    BY <1>2, <2>3
  <2>5. RowAgrees(payments'[p]) /\ Knows(t, view'[t], payments'[p])
    BY <1>3, <2>1, <2>2, <2>4 DEF RowAgrees, Knows
  <2>6. TrailStep(t, p)
    BY <1>5, <2>1 DEF TrailStep, StartProcessing
  <2>7. QED
    BY <1>1, <2>1, <2>2, <2>5, <2>6 DEF TransactionStep
<1>6. QED
  BY <1>4, <1>5

(* A transaction that is settled was opened for the payment it settles. *)
LEMMA SettleStep ==
  ASSUME TypeOK, MInv, ~Sandbox, NEW t \in Tx, NEW p \in Requests, NEW s, NEW d \in BOOLEAN,
         payments[p].tx = t, Learn(t, s, d), UNCHANGED account,
         \/ s = "performed" /\ payments[p].status = "paid" /\ UNCHANGED <<payments, attempts>>
         \/ /\ s = "performed" /\ payments[p].status = "processing"
            /\ \E w \in Tx : SetPaid(p, w)
            /\ UpdateAttempt(t, p, "success")
         \/ /\ payments[p].status = "failed" /\ UNCHANGED <<payments, attempts>>
            /\ s = IF payments[p].failure_reason = "cancelled_after_perform"
                     THEN "reversed" ELSE "cancelled"
         \/ /\ \E r \in Reasons :
                 /\ SetFailed(p, r)
                 /\ \/ /\ payments[p].status = "paid" /\ s = "reversed"
                       /\ r = "cancelled_after_perform"
                    \/ /\ payments[p].status \in _ACTIVE_STATUSES /\ s = "cancelled"
                       /\ r # "cancelled_after_perform"
            /\ UpdateAttempt(t, p, "cancelled")
  PROVE  TransactionStep(t, p) /\ TrailStep(t, p)
<1>1. /\ account[t] = p /\ account'[t] = p /\ RowAgrees(payments[p])
      /\ view[t] # "none" => Knows(t, view[t], payments[p])
  BY AccountOf
<1>2. /\ \A u \in Tx \ {t} : account'[u] = account[u] /\ view'[u] = view[u]
      /\ view'[t] \in {view[t], s}
  BY Learned
<1>3. CASE /\ UNCHANGED <<payments, attempts>>
           /\ \/ s = "performed" /\ payments[p].status = "paid"
              \/ /\ payments[p].status = "failed"
                 /\ s = IF payments[p].failure_reason = "cancelled_after_perform"
                          THEN "reversed" ELSE "cancelled"
  <2>1. Knows(t, view'[t], payments'[p])
    BY <1>1, <1>2, <1>3 DEF Knows, RowAgrees
  <2>2. QED
    BY <1>1, <1>2, <1>3, <2>1 DEF TransactionStep, TrailStep, Only
<1>4. ASSUME s = "performed", payments[p].status = "processing", NEW w \in Tx, SetPaid(p, w),
             UpdateAttempt(t, p, "success")
      PROVE  TransactionStep(t, p) /\ TrailStep(t, p)
  <2>1. /\ payments'[p].status = "paid" /\ payments'[p].paid_at = TRUE
        /\ payments'[p].tx = t /\ Only(p)
    BY <1>4, PaidRow
  <2>2. RowAgrees(payments'[p]) /\ view[t] \notin {"cancelled", "reversed"}
    BY <1>1, <1>4, <2>1, ConstantsAssumption DEF RowAgrees, Knows
  <2>3. Knows(t, view'[t], payments'[p])
    BY <1>2, <1>4, <2>1, <2>2 DEF Knows
  <2>4. QED
    BY <1>1, <1>2, <1>4, <2>1, <2>2, <2>3 DEF TransactionStep, TrailStep
<1>5. ASSUME NEW r \in Reasons, SetFailed(p, r), UpdateAttempt(t, p, "cancelled"),
             \/ /\ payments[p].status = "paid" /\ s = "reversed"
                /\ r = "cancelled_after_perform"
             \/ /\ payments[p].status \in _ACTIVE_STATUSES /\ s = "cancelled"
                /\ r # "cancelled_after_perform"
      PROVE  TransactionStep(t, p) /\ TrailStep(t, p)
  <2>1. /\ payments'[p].status = "failed" /\ payments'[p].failure_reason = r
        /\ payments'[p].tx = t /\ payments'[p].paid_at = payments[p].paid_at /\ Only(p)
    BY <1>5, FailedRow
  <2>2. /\ RowAgrees(payments'[p])
        /\ payments[p].paid_at <=> r = "cancelled_after_perform"
        /\ payments[p].status # "failed"
    BY <1>1, <1>5, <2>1, ConstantsAssumption DEF RowAgrees, _ACTIVE_STATUSES
  <2>3. Knows(t, view'[t], payments'[p])
    BY <1>1, <1>2, <1>5, <2>1, <2>2 DEF Knows
  <2>4. QED
    BY <1>1, <1>2, <1>5, <2>1, <2>2, <2>3 DEF TransactionStep, TrailStep
<1>6. QED
  BY <1>3, <1>4, <1>5

(* A reply that only tells the state leaves the row as it is. *)
LEMMA ToldStep ==
  ASSUME TypeOK, MInv, ~Sandbox, NEW t \in Tx, NEW p \in Requests, NEW d \in BOOLEAN,
         payments[p].tx = t, UNCHANGED <<payments, attempts, account>>,
         Learn(t, IF payments[p].paid_at THEN "performed" ELSE "created", d)
  PROVE  TransactionStep(t, p) /\ TrailStep(t, p)
<1>1. /\ account[t] = p /\ RowAgrees(payments[p])
      /\ view[t] # "none" => Knows(t, view[t], payments[p])
  BY AccountOf
<1>2. /\ \A u \in Tx \ {t} : view'[u] = view[u]
      /\ view'[t] \in {view[t], IF payments[p].paid_at THEN "performed" ELSE "created"}
  BY Learned
<1>3. t # None
  BY ConstantsAssumption
<1>4. Knows(t, view'[t], payments'[p])
  BY <1>1, <1>2, <1>3 DEF Knows, RowAgrees
<1>5. QED
  BY <1>1, <1>2, <1>4 DEF TransactionStep, TrailStep, Only

LEMMA CallbackTransaction ==
  ASSUME TypeOK, MInv, ~Sandbox, Callback
  PROVE  \/ UNCHANGED <<payments, attempts, account, view>>
         \/ \E t \in Tx, p \in Requests : TransactionStep(t, p) /\ TrailStep(t, p)
<1> USE DEF table, provider, Tx
<1> DEFINE Stepped == \E t \in Tx, p \in Requests : TransactionStep(t, p) /\ TrailStep(t, p)
<1>1. ASSUME NEW t \in PaymeTx, NEW p \in Requests, NEW d \in BOOLEAN,
             PaymeCreateTransaction(t, p, d)
      PROVE  Stepped
  BY <1>1, OpenStep DEF PaymeCreateTransaction
<1>2. ASSUME NEW t \in ClickTx, NEW p \in Requests, NEW d \in BOOLEAN, ClickPrepare(t, p, d)
      PROVE  Stepped
  BY <1>2, OpenStep DEF ClickPrepare
<1>3. ASSUME NEW t \in PaymeTx, NEW d \in BOOLEAN, PaymePerformTransaction(t, d)
      PROVE  Stepped
  <2>1. PICK p \in PaymeRows(t) :
          \/ payments[p].status = "paid" /\ loop = None /\ UNCHANGED <<table, loop>>
          \/ /\ payments[p].status = "processing"
             /\ SetPaid(p, t)
             /\ UpdateAttempt(t, p, "success")
    BY <1>3 DEF PaymePerformTransaction
  <2>2. p \in Requests /\ payments[p].tx = t
    BY DEF PaymeRows
  <2>3. Learn(t, "performed", d) /\ UNCHANGED account
    BY <1>3 DEF PaymePerformTransaction
  <2>4. QED
    BY <2>1, <2>2, <2>3, SettleStep
<1>4. ASSUME NEW t \in PaymeTx, NEW d \in BOOLEAN, PaymeCancelTransaction(t, d)
      PROVE  Stepped
  <2>1. PICK p \in PaymeRows(t) :
          \/ /\ payments[p].status = "failed"
             /\ UNCHANGED <<payments, attempts>>
             /\ Learn(t, IF payments[p].failure_reason = "cancelled_after_perform"
                           THEN "reversed" ELSE "cancelled", d)
          \/ /\ payments[p].status = "paid"
             /\ SetFailed(p, "cancelled_after_perform")
             /\ UpdateAttempt(t, p, "cancelled")
             /\ Learn(t, "reversed", d)
          \/ /\ payments[p].status \in _ACTIVE_STATUSES
             /\ SetFailed(p, "cancelled_by_payme")
             /\ UpdateAttempt(t, p, "cancelled")
             /\ Learn(t, "cancelled", d)
    BY <1>4 DEF PaymeCancelTransaction
  <2>2. p \in Requests /\ payments[p].tx = t /\ UNCHANGED account
    BY <1>4 DEF PaymeRows, PaymeCancelTransaction
  <2>3. "cancelled_after_perform" \in Reasons /\ "cancelled_by_payme" \in Reasons
    BY DEF Reasons
  <2>4. TransactionStep(t, p) /\ TrailStep(t, p)
    BY <2>1, <2>2, <2>3, SettleStep
  <2>5. QED
    BY <2>2, <2>4
<1>5. ASSUME NEW t \in ClickTx, NEW p \in Requests, NEW ok \in BOOLEAN, NEW d \in BOOLEAN,
             ClickComplete(t, p, ok, d)
      PROVE  Stepped
  <2>1. payments[p].tx = t /\ payments[p].status = "processing" /\ UNCHANGED account
    BY <1>5 DEF ClickComplete, MInv, Agreed, Knows
  <2>2. CASE ok
    BY <1>5, <2>1, <2>2, SettleStep DEF ClickComplete
  <2>3. CASE ~ok
    <3>1. "click_error" \in Reasons /\ "processing" \in _ACTIVE_STATUSES
      BY DEF Reasons, _ACTIVE_STATUSES
    <3>2. /\ SetFailed(p, "click_error") /\ UpdateAttempt(t, p, "cancelled")
          /\ Learn(t, "cancelled", d)
      BY <1>5, <2>3 DEF ClickComplete
    <3>3. QED
      BY <2>1, <3>1, <3>2, SettleStep
  <2>4. QED
    BY <2>2, <2>3
<1>6. ASSUME NEW p \in Requests, NEW w, WaitForOrderRow(p, w)
      PROVE  UNCHANGED <<payments, attempts, account, view>>
  BY <1>6 DEF WaitForOrderRow
<1>7. ASSUME NEW t \in PaymeTx, NEW d \in BOOLEAN, PaymeCheckTransaction(t, d)
      PROVE  Stepped
  <2>1. PICK p \in PaymeRows(t) :
          Learn(t, IF payments[p].paid_at THEN "performed" ELSE "created", d)
    BY <1>7 DEF PaymeCheckTransaction
  <2>2. p \in Requests /\ payments[p].tx = t
    BY DEF PaymeRows
  <2>3. UNCHANGED <<payments, attempts, account>>
    BY <1>7 DEF PaymeCheckTransaction
  <2>4. QED
    BY <2>1, <2>2, <2>3, ToldStep
<1>8. QED
  BY <1>1, <1>2, <1>3, <1>4, <1>5, <1>6, <1>7
     DEF Callback, SandboxPay, SandboxFail, SandboxCancel

-----------------------------------------------------------------------------
(* The invariant is kept *)

Settled == RowsAgree /\ Accounts /\ Agreed

LEMMA TransactionSettled ==
  ASSUME TypeOK, MInv, ~Sandbox, NEW t \in Tx, NEW p \in Requests, TransactionStep(t, p)
  PROVE  Settled'
<1>1. /\ \A q \in Requests \ {p} : payments'[q] = payments[q]
      /\ RowAgrees(payments'[p]) /\ Knows(t, view'[t], payments'[p])
      /\ payments[p].tx \in {None, t} /\ payments'[p].tx = t
      /\ account[t] \in {None, p} /\ account'[t] = p
      /\ \A u \in Tx \ {t} : account'[u] = account[u] /\ view'[u] = view[u]
  BY DEF TransactionStep, Only
<1>2. /\ \A q \in Requests : /\ RowAgrees(payments[q])
                             /\ payments[q].tx # None => account[payments[q].tx] = q
                             /\ q # None
      /\ \A u \in Tx : /\ view[u] # "none" => account[u] \in Requests
                                             /\ Knows(u, view[u], payments[account[u]])
                       /\ u # None
  BY ConstantsAssumption DEF MInv, RowsAgree, Accounts, Agreed
<1>3. \A q \in Requests : RowAgrees(payments'[q])
  BY <1>1, <1>2
<1>4. ASSUME NEW q \in Requests, payments'[q].tx # None PROVE account'[payments'[q].tx] = q
  <2>1. CASE q = p
    BY <1>1, <2>1
  <2>2. CASE q # p
    <3>1. payments[q].tx \in Tx /\ account[payments[q].tx] = q /\ payments'[q] = payments[q]
      BY <1>1, <1>2, <1>4, <2>2 DEF RowAgrees
    <3>2. payments[q].tx # t
      BY <1>1, <1>2, <2>2, <3>1
    <3>3. QED
      BY <1>1, <3>1, <3>2
  <2>3. QED
    BY <2>1, <2>2
<1>5. ASSUME NEW u \in Tx, view'[u] # "none"
      PROVE  account'[u] \in Requests /\ Knows(u, view'[u], payments'[account'[u]])
  <2>1. CASE u = t
    BY <1>1, <2>1
  <2>2. CASE u # t
    <3>1. /\ view'[u] = view[u] /\ account'[u] = account[u] /\ account[u] \in Requests
          /\ Knows(u, view[u], payments[account[u]])
      BY <1>1, <1>2, <1>5, <2>2
    <3>2. account[u] # p
      BY <1>1, <1>2, <2>2, <3>1 DEF Knows
    <3>3. QED
      BY <1>1, <3>1, <3>2
  <2>3. QED
    BY <2>1, <2>2
<1>6. QED
  BY <1>3, <1>4, <1>5 DEF Settled, RowsAgree, Accounts, Agreed

LEMMA InsertSettled ==
  ASSUME IInv, MInv, ~Sandbox, NEW c \in Requests, InsertPayment(c)
  PROVE  Settled'
<1>1. UNCHANGED <<account, view>> /\ requests[c].pc = "insert"
  BY DEF InsertPayment, provider
<1>2. CASE UNCHANGED payments
  BY <1>1, <1>2 DEF MInv, Settled, RowsAgree, Accounts, Agreed
<1>3. CASE /\ payments'[c].status = "pending" /\ payments'[c].tx = None
           /\ payments'[c].paid_at = FALSE /\ Only(c)
  <2>1. payments[c].tx = None
    BY <1>1 DEF IInv, FreshRow, RowsExist, InFlight, NoRow
  <2>2. RowAgrees(payments'[c])
    BY <1>3 DEF RowAgrees
  <2>3. \A q \in Requests \ {c} : payments'[q] = payments[q]
    BY <1>3 DEF Only
  <2>4. RowsAgree'
    BY <2>2, <2>3 DEF MInv, RowsAgree
  <2>5. Accounts'
    BY <1>1, <1>3, <2>3 DEF MInv, Accounts
  <2>6. ASSUME NEW u \in Tx, view[u] # "none"
        PROVE  Knows(u, view[u], payments'[account[u]])
    <3>1. account[u] \in Requests /\ Knows(u, view[u], payments[account[u]]) /\ u # None
      BY <2>6, ConstantsAssumption DEF MInv, Accounts, Agreed
    <3>2. account[u] # c
      BY <2>1, <3>1 DEF Knows
    <3>3. QED
      BY <2>3, <3>1, <3>2
  <2>7. QED
    BY <1>1, <2>4, <2>5, <2>6 DEF Settled, Agreed
<1>4. QED
  BY <1>2, <1>3, InsertedRow DEF IInv

-----------------------------------------------------------------------------
(* The audit trail *)

Creation(p) == [payment |-> p, tx |-> None, status |-> "pending"]
Outcome(status) == CASE status = "paid"   -> "success"
                     [] status = "failed" -> "cancelled"
                     [] OTHER             -> "pending"

(* Attempt a of payment p is the one of its transaction. *)
Trail(trail, p, row) ==
  \A a : (a \in trail /\ a.payment = p /\ a # Creation(p)) <=>
           (row.tx # None /\ a = [payment |-> p, tx |-> row.tx, status |-> Outcome(row.status)])

LEMMA TrailIs ==
  ASSUME NEW trail, NEW p, NEW row
  PROVE  Trail(trail, p, row) <=>
           {a \in trail : a.payment = p} \ {[payment |-> p, tx |-> None, status |-> "pending"]} =
             IF row.tx = None THEN {}
             ELSE {[payment |-> p, tx |-> row.tx, status |->
                      CASE row.status = "paid"   -> "success"
                        [] row.status = "failed" -> "cancelled"
                        [] OTHER                 -> "pending"]}
<1> DEFINE one == [payment |-> p, tx |-> row.tx, status |-> Outcome(row.status)]
           first == [payment |-> p, tx |-> None, status |-> "pending"]
<1>1. Trail(trail, p, row) <=>
        \A a : (a \in trail /\ a.payment = p /\ a # first) <=> (row.tx # None /\ a = one)
  BY DEF Trail, Creation
<1>2. one = [payment |-> p, tx |-> row.tx, status |->
               CASE row.status = "paid"   -> "success"
                 [] row.status = "failed" -> "cancelled"
                 [] OTHER                 -> "pending"]
  BY DEF Outcome
<1> HIDE DEF one, first
<1>3. (\A a : (a \in trail /\ a.payment = p /\ a # first) <=> (row.tx # None /\ a = one))
        <=> {a \in trail : a.payment = p} \ {first} = IF row.tx = None THEN {} ELSE {one}
  <2>1. CASE row.tx = None
    BY <2>1
  <2>2. CASE row.tx # None
    <3>1. ASSUME \A a : (a \in trail /\ a.payment = p /\ a # first) <=> a = one
          PROVE  {a \in trail : a.payment = p} \ {first} = {one}
      BY <3>1
    <3>2. ASSUME {a \in trail : a.payment = p} \ {first} = {one}, NEW a
          PROVE  (a \in trail /\ a.payment = p /\ a # first) <=> a = one
      BY <3>2
    <3>3. QED
      BY <2>2, <3>1, <3>2
  <2>3. QED
    BY <2>1, <2>2
<1>4. QED
  BY <1>1, <1>2, <1>3 DEF first

(* The trail once transaction t of payment p is settled. *)
SettledTrail(trail, p, t, s) ==
  {IF a.payment = p /\ a.tx = t THEN [a EXCEPT !.status = s] ELSE a : a \in trail}

(* Adding the attempt of a transaction, and settling it. *)
LEMMA TrailAdded ==
  ASSUME NEW trail, NEW p, NEW t, t # None, NEW row, NEW after, Trail(trail, p, row),
         row.tx = None, after.tx = t, after.status = "processing"
  PROVE  Trail(trail \cup {[payment |-> p, tx |-> t, status |-> "pending"]}, p, after)
<1> DEFINE new == [payment |-> p, tx |-> t, status |-> "pending"]
<1>1. new.payment = p /\ new # Creation(p)
  BY DEF Creation
<1>2. [payment |-> p, tx |-> after.tx, status |-> Outcome(after.status)] = new
  BY DEF Outcome
<1>3. \A a : ~(a \in trail /\ a.payment = p /\ a # Creation(p))
  BY DEF Trail
<1> HIDE DEF new
<1>4. \A a : (a \in trail \cup {new} /\ a.payment = p /\ a # Creation(p)) <=> a = new
  BY <1>1, <1>3
<1>5. QED
  BY <1>2, <1>4 DEF Trail, new

LEMMA TrailSettled ==
  ASSUME NEW trail \in SUBSET AttemptRow, NEW p, NEW t, t # None, NEW s, NEW row, NEW after,
         Trail(trail, p, row), row.tx = t, after.tx = t, Outcome(after.status) = s
  PROVE  Trail(SettledTrail(trail, p, t, s), p, after)
<1> DEFINE old == [payment |-> p, tx |-> t, status |-> Outcome(row.status)]
           new == [payment |-> p, tx |-> t, status |-> s]
           turned(a) == IF a.payment = p /\ a.tx = t THEN [a EXCEPT !.status = s] ELSE a
           moved == {turned(a) : a \in trail}
<1>1. old \in trail /\ old.payment = p /\ old.tx = t
  BY DEF Trail
<1>2. new.payment = p /\ new.tx = t /\ new # Creation(p)
  BY DEF Creation
<1>3. ASSUME NEW a \in trail, a.payment = p, a.tx = t PROVE turned(a) = new
  BY <1>3 DEF AttemptRow
<1>4. ASSUME NEW a \in trail, ~(a.payment = p /\ a.tx = t) PROVE turned(a) = a
  BY <1>4
<1>5. ASSUME NEW a \in trail, a.payment = p, a.tx # t PROVE a = Creation(p)
  BY <1>5 DEF Trail
<1>6. new \in moved
  BY <1>1, <1>3
<1> HIDE DEF turned, new
<1>7. ASSUME NEW b \in moved, b.payment = p, b # Creation(p) PROVE b = new
  BY <1>3, <1>4, <1>5, <1>7
<1>8. [payment |-> p, tx |-> after.tx, status |-> Outcome(after.status)] = new
  BY DEF new
<1>9. \A b : (b \in moved /\ b.payment = p /\ b # Creation(p)) <=> b = new
  BY <1>2, <1>6, <1>7
<1> HIDE DEF moved
<1>10. Trail(moved, p, after)
  BY <1>8, <1>9 DEF Trail
<1>11. QED
  BY <1>10 DEF moved, turned, SettledTrail

(* The attempts of the other payments stay. *)
LEMMA TrailOthersAdded ==
  ASSUME NEW trail, NEW p, NEW q, q # p, NEW row, Trail(trail, q, row), NEW new, new.payment = p
  PROVE  Trail(trail \cup {new}, q, row)
BY DEF Trail

LEMMA TrailOthersSettled ==
  ASSUME NEW trail \in SUBSET AttemptRow, NEW p, NEW q, q # p, NEW row, Trail(trail, q, row),
         NEW t, NEW s
  PROVE  Trail(SettledTrail(trail, p, t, s), q, row)
<1> DEFINE turned(a) == IF a.payment = p /\ a.tx = t THEN [a EXCEPT !.status = s] ELSE a
           moved == {turned(a) : a \in trail}
<1>1. \A a \in trail : turned(a).payment = a.payment /\ (a.payment # p => turned(a) = a)
  BY DEF AttemptRow
<1> HIDE DEF turned
<1>2. \A b : (b \in moved /\ b.payment = q) <=> (b \in trail /\ b.payment = q)
  BY <1>1
<1> HIDE DEF moved
<1>3. Trail(moved, q, row)
  BY <1>2 DEF Trail
<1>4. QED
  BY <1>3 DEF moved, turned, SettledTrail

LEMMA AttemptsAre ==
  ASSUME ~Sandbox
  PROVE  AttemptsAgree <=> \A p \in Requests : Trail(attempts, p, payments[p])
BY TrailIs DEF AttemptsAgree

LEMMA TransactionTrail ==
  ASSUME TypeOK, MInv, ~Sandbox, NEW t \in Tx, NEW p \in Requests,
         TransactionStep(t, p), TrailStep(t, p)
  PROVE  \A q \in Requests : Trail(attempts', q, payments'[q])
<1>1. /\ \A q \in Requests : Trail(attempts, q, payments[q])
      /\ attempts \in SUBSET AttemptRow /\ t # None /\ RowAgrees(payments[p])
  BY AttemptsAre, ConstantsAssumption DEF MInv, RowsAgree, TypeOK
<1>2. payments'[p].tx = t /\ \A q \in Requests \ {p} : payments'[q] = payments[q]
  BY DEF TransactionStep, Only
<1>3. CASE UNCHANGED <<payments, attempts>>
  BY <1>1, <1>3
<1>4. CASE /\ payments[p].status = "pending" /\ payments'[p].status = "processing"
           /\ attempts' = attempts \cup {[payment |-> p, tx |-> t, status |-> "pending"]}
  <2>1. payments[p].tx = None
    BY <1>1, <1>4 DEF RowAgrees
  <2>2. Trail(attempts', p, payments'[p])
    BY <1>1, <1>2, <1>4, <2>1, TrailAdded
  <2>3. ASSUME NEW q \in Requests, q # p PROVE Trail(attempts', q, payments'[q])
    BY <1>1, <1>2, <1>4, <2>3, TrailOthersAdded
  <2>4. QED
    BY <2>2, <2>3
<1>5. ASSUME NEW s, Outcome(payments'[p].status) = s, payments[p].tx = t, UpdateAttempt(t, p, s)
      PROVE  \A q \in Requests : Trail(attempts', q, payments'[q])
  <2>1. attempts' = SettledTrail(attempts, p, t, s)
    BY <1>5 DEF UpdateAttempt, SettledTrail
  <2>2. Trail(attempts', p, payments'[p])
    BY <1>1, <1>2, <1>5, <2>1, TrailSettled
  <2>3. ASSUME NEW q \in Requests, q # p PROVE Trail(attempts', q, payments'[q])
    <3>1. Trail(attempts, q, payments[q]) /\ payments'[q] = payments[q]
      BY <1>1, <1>2, <2>3
    <3>2. Trail(SettledTrail(attempts, p, t, s), q, payments[q])
      BY <1>1, <2>3, <3>1, TrailOthersSettled
    <3>3. QED
      BY <2>1, <3>1, <3>2
  <2>4. QED
    BY <2>2, <2>3
<1>6. Outcome("paid") = "success" /\ Outcome("failed") = "cancelled"
  BY DEF Outcome
<1>7. QED
  BY <1>3, <1>4, <1>5, <1>6 DEF TrailStep

LEMMA InsertTrail ==
  ASSUME IInv, MInv, ~Sandbox, NEW c \in Requests, InsertPayment(c)
  PROVE  \A q \in Requests : Trail(attempts', q, payments'[q])
<1>1. /\ \A q \in Requests : Trail(attempts, q, payments[q])
      /\ attempts \in SUBSET AttemptRow
  BY AttemptsAre DEF MInv, IInv, TypeOK
<1>2. CASE UNCHANGED <<payments, attempts>>
  BY <1>1, <1>2
<1>3. CASE /\ payments'[c].tx = None /\ Only(c) /\ requests[c].pc = "insert"
           /\ attempts' = attempts \cup {[payment |-> c, tx |-> None, status |-> "pending"]}
  <2>1. payments[c].tx = None
    BY <1>3 DEF IInv, FreshRow, RowsExist, InFlight, NoRow
  <2>2. Trail(attempts', c, payments'[c])
    BY <1>1, <1>3, <2>1 DEF Trail, Creation
  <2>3. ASSUME NEW q \in Requests, q # c PROVE Trail(attempts', q, payments'[q])
    BY <1>1, <1>3, <2>3, TrailOthersAdded DEF Only
  <2>4. QED
    BY <2>2, <2>3
<1>4. QED
  BY <1>2, <1>3, InsertedRow DEF IInv

-----------------------------------------------------------------------------
(* The theorems *)

LEMMA ExactStep == ASSUME TypeOK, ExactTx, [Next]_vars PROVE ExactTx'
<1>1. ASSUME NEW p \in Requests, Only(p),
             payments'[p].tx \in {payments[p].tx, SandboxTx, None} \cup (Tx \ WrongAmount)
      PROVE  ExactTx'
  BY <1>1, ConstantsAssumption DEF ExactTx, Only
<1>2. ASSUME UNCHANGED payments PROVE ExactTx'
  BY <1>2 DEF ExactTx
<1>3. ASSUME NEW t \in Tx, NEW p \in Requests, StartProcessing(t, p) PROVE ExactTx'
  BY <1>1, <1>3, StartedRow
<1>4. ASSUME NEW p \in Requests, NEW w, SetPaid(p, w) PROVE ExactTx'
  BY <1>1, <1>4, PaidRow
<1>5. ASSUME NEW p \in Requests, NEW r, SetFailed(p, r) PROVE ExactTx'
  BY <1>1, <1>5, FailedRow
<1>6. ASSUME NEW p \in Requests, SandboxPay(p) \/ SandboxFail(p) \/ SandboxCancel(p) PROVE ExactTx'
  BY <1>1, <1>6, SandboxRow
<1>7. ASSUME NEW c \in Requests, InsertPayment(c) PROVE ExactTx'
  BY <1>1, <1>2, <1>7, InsertedRow
<1>8. ASSUME Callback PROVE ExactTx'
  BY <1>2, <1>3, <1>4, <1>5, <1>6, <1>8
     DEF Callback, PaymeCreateTransaction, PaymePerformTransaction, PaymeCancelTransaction,
         PaymeRows, PaymeCheckTransaction, ClickPrepare, ClickComplete, WaitForOrderRow,
         table, Tx
<1>9. QED
  BY <1>2, <1>7, <1>8 DEF Next, Callback, CreateStep, CreatePayment, ReplayLookup, CheckPaid,
     CheckActive, LockOrder, UpdateOrderStatus, CloseSession, WorkerRestart, table, vars

LEMMA SettledStep ==
  ASSUME IInv, MInv, ~Sandbox, [Next]_vars
  PROVE  Settled' /\ \A q \in Requests : Trail(attempts', q, payments'[q])
<1>1. ASSUME UNCHANGED <<payments, attempts, account, view>>
      PROVE  Settled' /\ \A q \in Requests : Trail(attempts', q, payments'[q])
  BY <1>1, AttemptsAre DEF MInv, Settled, RowsAgree, Accounts, Agreed
<1>2. ASSUME NEW t \in Tx, NEW p \in Requests, TransactionStep(t, p), TrailStep(t, p)
      PROVE  Settled' /\ \A q \in Requests : Trail(attempts', q, payments'[q])
  BY <1>2, TransactionSettled, TransactionTrail DEF IInv
<1>3. ASSUME NEW c \in Requests, InsertPayment(c)
      PROVE  Settled' /\ \A q \in Requests : Trail(attempts', q, payments'[q])
  BY <1>3, InsertSettled, InsertTrail
<1>4. ASSUME Callback
      PROVE  Settled' /\ \A q \in Requests : Trail(attempts', q, payments'[q])
  BY <1>1, <1>2, <1>4, CallbackTransaction DEF IInv
<1>5. QED
  BY <1>1, <1>3, <1>4 DEF Next, Callback, CreateStep, CreatePayment, ReplayLookup, CheckPaid,
     CheckActive, LockOrder, UpdateOrderStatus, CloseSession, WorkerRestart, table, provider, vars

LEMMA MoneyStep == IInv /\ MInv /\ [Next]_vars => MInv'
<1> SUFFICES ASSUME IInv, MInv, [Next]_vars PROVE MInv'
  OBVIOUS
<1>1. ExactTx'
  BY ExactStep DEF IInv, MInv
<1>2. ASSUME ~Sandbox PROVE Settled' /\ AttemptsAgree'
  <2>1. Settled' /\ \A q \in Requests : Trail(attempts', q, payments'[q])
    BY <1>2, SettledStep
  <2>2. AttemptsAgree'
    BY <2>1, TrailIs DEF AttemptsAgree
  <2>3. QED
    BY <2>1, <2>2
<1>3. QED
  BY <1>1, <1>2 DEF MInv, Settled

LEMMA MoneyInit == Init => MInv
<1> SUFFICES ASSUME Init PROVE MInv
  OBVIOUS
<1>1. \A p \in Requests : /\ payments[p].tx = None /\ payments[p].status = "none"
                          /\ payments[p].paid_at = FALSE
  BY DEF Init, NoRow
<1>2. \A t \in Tx : view[t] = "none"
  BY DEF Init
<1>3. ExactTx
  BY <1>1, ConstantsAssumption DEF ExactTx
<1>4. RowsAgree /\ Accounts /\ Agreed
  BY <1>1, <1>2 DEF RowsAgree, RowAgrees, Accounts, Agreed
<1>5. \A p \in Requests : Trail(attempts, p, payments[p])
  BY <1>1 DEF Init, Trail
<1>6. ~Sandbox => AttemptsAgree
  BY <1>5, AttemptsAre
<1>7. QED
  BY <1>3, <1>4, <1>6 DEF MInv

LEMMA MoneyInvariance == Spec => [](IInv /\ MInv)
<1>1. Init => IInv /\ MInv
  BY InvInit, MoneyInit
<1>2. (IInv /\ MInv) /\ [Next]_vars => (IInv /\ MInv)'
  BY InvStep, MoneyStep
<1>3. QED
  BY <1>1, <1>2, PTL DEF Spec

(* A payment is paid only through a transaction whose amount is its own,   *)
(* although PerformTransaction and Complete compare none.                  *)
THEOREM MoneyIsExactHolds == Spec => []MoneyIsExact
<1>1. MInv => MoneyIsExact
  BY DEF MInv, ExactTx, MoneyIsExact
<1>2. QED
  BY <1>1, MoneyInvariance, PTL

(* Outside the sandbox a provider is right about its transaction, whatever *)
(* replies were lost and calls repeated.                                   *)
THEOREM ProviderAgreementHolds == Spec => []ProviderAgreement
<1>1. IInv /\ MInv => ProviderAgreement
  <2> SUFFICES ASSUME IInv, MInv, ~Sandbox, NEW t \in Tx
               PROVE  LET row == payments[account[t]] IN
                      /\ view[t] # "none" => row.tx = t /\ row.status \in Statuses \ {"pending"}
                      /\ view[t] = "performed" => row.paid_at /\ orders[row.order].paid_at
                      /\ view[t] = "cancelled" => row.status = "failed" /\ ~row.paid_at
                      /\ view[t] = "reversed"  => row.status = "failed" /\ row.paid_at
    BY DEF ProviderAgreement
  <2>1. CASE view[t] = "none"
    BY <2>1
  <2>2. CASE view[t] # "none"
    <3>1. /\ account[t] \in Requests /\ Knows(t, view[t], payments[account[t]])
          /\ t # None
      BY <2>2, ConstantsAssumption DEF MInv, Accounts, Agreed
    <3>2. PICK p \in Requests : p = account[t]
      BY <3>1
    <3>3. RowAgrees(payments[p]) /\ payments[p].tx = t
      BY <3>1, <3>2 DEF MInv, RowsAgree, Knows
    <3>4. payments[p].status \in Statuses \ {"pending"}
      BY <3>1, <3>3 DEF RowAgrees, IInv, TypeOK, PaymentRow
    <3>5. payments[p].order \in Orders
      BY <3>4 DEF IInv, RowsExist, Statuses
    <3>6. payments[p].paid_at => orders[payments[p].order].paid_at
      BY <3>5 DEF IInv, PaidProjection, PaymentsOf
    <3>7. QED
      BY <3>1, <3>2, <3>3, <3>4, <3>6 DEF Knows
  <2>3. QED
    BY <2>1, <2>2
<1>2. QED
  BY <1>1, MoneyInvariance, PTL

(* Outside the sandbox every payment a provider took up has one attempt    *)
(* for its transaction, in the matching status.                            *)
THEOREM AttemptsAgreeHolds == Spec => []AttemptsAgree
<1>1. MInv => AttemptsAgree
  BY DEF MInv, AttemptsAgree
<1>2. QED
  BY <1>1, MoneyInvariance, PTL
=============================================================================
