---------------------------- MODULE PaymentsProofs ----------------------------
(***************************************************************************)
(* What Payments guarantees for every value of its constants: any number   *)
(* of bills, payments and requests in flight, under any faults.            *)
(***************************************************************************)
EXTENDS Payments, TLAPS

-----------------------------------------------------------------------------
(* Types and names *)

Request == [bill : Bills \cup {None}, payment : Payments \cup {None}]

\* The request holds a name under which it has uploaded, but no row it knows of.
Holding(q) == pc[q] \in {"su_insert", "su_cleanup"}

\* What keeps TablesOK: a name in use is taken in the bucket, no two submissions
\* hold the same, and one about to be inserted has no row, so that an insert never
\* writes over the row another request works on.
NamesInv ==
    \A q \in Requests : Holding(q) =>
       /\ req[q].payment \in stored
       /\ pc[q] = "su_insert" => payment[req[q].payment] = None
       /\ \A o \in Requests \ {q} : Holding(o) => req[o].payment # req[q].payment

\* A step of request q that leaves the other requests where they are.
OnlyMoves(q) ==
    /\ pc' \in [Requests -> Steps]
    /\ req' \in [Requests -> Request]
    /\ \A o \in Requests \ {q} : pc'[o] = pc[o] /\ req'[o] = req[o]

\* No payment is deleted or moved to another bill.
RowsStay == \A p \in Rows : payment'[p] # None /\ payment'[p].bill = payment[p].bill

\* The initial tables and requests are well typed.
LEMMA InitOK == Init => TablesOK /\ NamesInv
  BY ConstantsAssumption
  DEF Init, TablesOK, RequestOK, NamesInv, Holding, Blank, BillStatus, Steps,
      SubmitSteps, ConfirmSteps, RejectSteps, Rows

\* A step of q keeps the types when q suits the step it is left at.
LEMMA MoveTypeOK ==
  ASSUME TablesOK, NEW q \in Requests, OnlyMoves(q), RequestOK(q)', RowsStay,
         bill' \in [Bills -> BillStatus],
         payment' \in [Payments -> PaymentRow \cup {None}],
         stored' \subseteq Payments, audit' \subseteq AuditActions \X Payments,
         everConfirmed' \subseteq Payments,
         receipts' \in {"dated", "undated"}
  PROVE  TablesOK'
<1>1. ASSUME NEW o \in Requests PROVE RequestOK(o)'
  <2>1. CASE o = q
    BY <2>1
  <2>2. CASE o # q
    BY <2>2 DEF TablesOK, RequestOK, OnlyMoves, RowsStay, Rows
  <2> QED BY <2>1, <2>2
<1> QED BY <1>1 DEF TablesOK, OnlyMoves, Request

\* A step that leaves q without a name keeps the names of the others.
LEMMA MoveNames ==
  ASSUME NamesInv, NEW q \in Requests, OnlyMoves(q), ~Holding(q)',
         \A o \in Requests \ {q} : Holding(o) =>
            /\ req[o].payment \in stored'
            /\ payment[req[o].payment] = None => payment'[req[o].payment] = None
  PROVE  NamesInv'
  BY DEF NamesInv, OnlyMoves, Holding

-----------------------------------------------------------------------------
(* The ways a step moves its request *)

\* A step to the next statement.
LEMMA GotoMoves ==
  ASSUME TablesOK, NEW q \in Requests, NEW l \in Steps, Goto(q, l), UNCHANGED req
  PROVE  OnlyMoves(q) /\ pc'[q] = l /\ req'[q] = req[q]
  BY DEF Goto, OnlyMoves, TablesOK, Request

\* The end of a request.
LEMMA FinishMoves ==
  ASSUME TablesOK, NEW q \in Requests, Finish(q)
  PROVE  OnlyMoves(q) /\ pc'[q] = "idle" /\ req'[q] = Blank
  BY DEF Finish, OnlyMoves, TablesOK, Request, Blank, Steps

\* An idle request satisfies RequestOK.
LEMMA IdleOK ==
  ASSUME NEW q \in Requests, pc'[q] = "idle"
  PROVE  RequestOK(q)' /\ ~Holding(q)'
  BY DEF RequestOK, Holding, ConfirmSteps, RejectSteps

\* A request that ends without touching bill, payment or bucket.
LEMMA FinishOK ==
  ASSUME TablesOK, NamesInv, NEW q \in Requests, Finish(q),
         UNCHANGED <<bill, payment, stored, everConfirmed>>,
         audit' \subseteq AuditActions \X Payments,
         receipts' \in {"dated", "undated"}
  PROVE  TablesOK' /\ NamesInv' /\ RowsStay
<1>1. OnlyMoves(q) /\ RequestOK(q)' /\ ~Holding(q)'
  BY FinishMoves, IdleOK
<1>2. RowsStay
  BY DEF RowsStay, Rows
<1>3. NamesInv'
  BY <1>1, MoveNames DEF NamesInv
<1> QED BY <1>1, <1>2, <1>3, MoveTypeOK DEF TablesOK

\* A request that goes on, having written at most the status of its bill.
LEMMA GotoOK ==
  ASSUME TablesOK, NamesInv, NEW q \in Requests,
         NEW l \in Steps \ {"su_insert", "su_cleanup"}, Goto(q, l), UNCHANGED req,
         RequestOK(q)', bill' \in [Bills -> BillStatus],
         UNCHANGED <<payment, stored, audit, everConfirmed, receipts>>
  PROVE  TablesOK' /\ NamesInv' /\ RowsStay
<1>1. OnlyMoves(q) /\ ~Holding(q)'
  BY GotoMoves DEF Holding
<1>2. RowsStay
  BY DEF RowsStay, Rows
<1>3. NamesInv'
  BY <1>1, MoveNames DEF NamesInv
<1> QED BY <1>1, <1>2, <1>3, MoveTypeOK DEF TablesOK

-----------------------------------------------------------------------------
(* Types and names, step by step *)

\* A request that arrives.
LEMMA ArriveOK ==
  ASSUME TablesOK, NamesInv, NEW q \in Requests, Arrive(q)
  PROVE  TablesOK' /\ NamesInv' /\ RowsStay
<1>1. ASSUME NEW l \in {"su_bill", "rc_bill"}, NEW b \in Bills, Begin(q, l, b, None)
      PROVE  OnlyMoves(q) /\ RequestOK(q)' /\ ~Holding(q)' /\ UNCHANGED tables
  BY <1>1
  DEF Begin, Goto, OnlyMoves, RequestOK, Holding, Request, TablesOK, Steps,
      SubmitSteps, ReceiptSteps, ConfirmSteps, RejectSteps
<1>2. ASSUME NEW l \in {"cf_payment", "rj_payment"}, NEW p \in Payments,
             payment[p] # None, Begin(q, l, payment[p].bill, p)
      PROVE  OnlyMoves(q) /\ RequestOK(q)' /\ ~Holding(q)' /\ UNCHANGED tables
  <2>1. payment[p].bill \in Bills
    BY <1>2 DEF TablesOK, PaymentRow
  <2>2. /\ pc' = [pc EXCEPT ![q] = l] /\ l \in Steps
        /\ req' = [req EXCEPT ![q] = [bill |-> payment[p].bill, payment |-> p]]
        /\ UNCHANGED tables
    BY <1>2 DEF Begin, Goto, Steps, ConfirmSteps, RejectSteps
  <2>3. OnlyMoves(q) /\ pc'[q] = l /\ req'[q].bill = payment[p].bill
          /\ req'[q].payment = p
    BY <2>1, <2>2 DEF OnlyMoves, Request, TablesOK
  <2>4. RequestOK(q)'
    BY <1>2, <2>1, <2>2, <2>3
    DEF RequestOK, Rows, tables, ConfirmSteps, RejectSteps
  <2>5. ~Holding(q)'
    BY <2>3 DEF Holding
  <2> QED BY <2>2, <2>3, <2>4, <2>5
<1>3. OnlyMoves(q) /\ RequestOK(q)' /\ ~Holding(q)' /\ UNCHANGED tables
  BY <1>1, <1>2
  DEF Arrive, BeginSubmit, BeginReceipt, BeginConfirm, BeginReject, BeginReview
<1>4. RowsStay
  BY <1>3 DEF RowsStay, Rows, tables
<1>5. NamesInv'
  BY <1>3, MoveNames DEF NamesInv, tables
<1> QED BY <1>3, <1>4, <1>5, MoveTypeOK DEF TablesOK, tables

\* A request that moves on to l is as good there as where it was.
LEMMA SuitsNext ==
  ASSUME TablesOK, NEW q \in Requests, NEW l \in Steps, Goto(q, l), UNCHANGED req,
         pc[q] # "idle", RowsStay,
         l \in {"su_bill", "su_upload", "rc_bill", "rc_payments"}
           \/ pc[q] \in {"su_status"} \cup ConfirmSteps \cup RejectSteps
  PROVE  RequestOK(q)'
<1>1. pc'[q] = l /\ req'[q] = req[q] /\ req[q].bill \in Bills
  BY DEF Goto, TablesOK, RequestOK
<1>2. CASE l \in {"su_bill", "su_upload", "rc_bill", "rc_payments"}
  BY <1>1, <1>2 DEF RequestOK, ConfirmSteps, RejectSteps
<1>3. CASE pc[q] \in {"su_status"} \cup ConfirmSteps \cup RejectSteps
  <2>1. req[q].payment \in Rows /\ payment[req[q].payment].bill = req[q].bill
    BY <1>3 DEF TablesOK, RequestOK
  <2>2. req[q].payment \in Rows' /\ payment'[req[q].payment].bill = req[q].bill
    BY <2>1 DEF RowsStay, Rows
  <2> QED BY <1>1, <2>1, <2>2 DEF RequestOK, Rows
<1> QED BY <1>2, <1>3

\* The steps that write nothing, or the status of a bill, or the audit trail.
LEMMA QuietOK ==
  ASSUME TablesOK, NamesInv, NEW q \in Requests,
         \/ SubmitGetBill(q) \/ SubmitSetBill(q) \/ SubmitAudit(q)
         \/ ConfirmGetPayment(q) \/ ConfirmSetBill(q) \/ ConfirmAudit(q)
         \/ RejectGetPayment(q) \/ RejectSetBill(q) \/ RejectAudit(q)
         \/ ReceiptGetBill(q) \/ ReceiptListPayments(q)
         \/ Abandon(q) \/ LoseBillStatus(q)
  PROVE  TablesOK' /\ NamesInv' /\ RowsStay
<1> USE DEF Steps, SubmitSteps, ConfirmSteps, RejectSteps, ReceiptSteps
<1>0. UNCHANGED payment => RowsStay
  BY DEF RowsStay, Rows
<1>1. ASSUME NEW from, NEW l \in Steps \ {"su_insert", "su_cleanup"}, pc[q] = from,
             from # "idle", Goto(q, l), UNCHANGED req,
             l \in {"su_bill", "su_upload", "rc_bill", "rc_payments"}
               \/ from \in {"su_status"} \cup ConfirmSteps \cup RejectSteps,
             bill' \in [Bills -> BillStatus],
             UNCHANGED <<payment, stored, audit, everConfirmed, receipts>>
      PROVE  TablesOK' /\ NamesInv' /\ RowsStay
  <2>1. RequestOK(q)'
    BY <1>0, <1>1, SuitsNext
  <2> QED BY <1>1, <2>1, GotoOK
<1>2. ASSUME NEW s \in BillStatus, NEW from \in {"su_status", "cf_bill", "rj_bill"},
             NEW l \in {"su_audit", "cf_audit", "rj_audit"}, SetBill(q, from, s, l)
      PROVE  TablesOK' /\ NamesInv' /\ RowsStay
  <2>1. bill' \in [Bills -> BillStatus]
    BY <1>2 DEF SetBill, TablesOK
  <2> QED BY <1>1, <1>2, <2>1 DEF SetBill
<1>3. CASE SubmitSetBill(q) \/ ConfirmSetBill(q) \/ RejectSetBill(q)
  BY <1>2, <1>3 DEF SubmitSetBill, ConfirmSetBill, RejectSetBill, BillStatus
<1>4. ASSUME NEW a \in AuditActions, Log(q, a), req[q].payment \in Payments
      PROVE  TablesOK' /\ NamesInv' /\ RowsStay
  <2>1. audit' \subseteq AuditActions \X Payments
    BY <1>4 DEF Log, TablesOK
  <2> QED BY <1>4, <2>1, FinishOK DEF Log, TablesOK
<1>5. CASE SubmitAudit(q) \/ ConfirmAudit(q) \/ RejectAudit(q)
  <2>1. req[q].payment \in Payments
    BY <1>5 DEF SubmitAudit, ConfirmAudit, RejectAudit, TablesOK, RequestOK, Rows
  <2> QED
    BY <1>4, <1>5, <2>1 DEF SubmitAudit, ConfirmAudit, RejectAudit, AuditActions
<1>6. ASSUME Finish(q), UNCHANGED tables
      PROVE  TablesOK' /\ NamesInv' /\ RowsStay
  BY <1>6, FinishOK DEF tables, TablesOK
<1>7. CASE SubmitGetBill(q) \/ ReceiptGetBill(q)
  BY <1>1, <1>6, <1>7 DEF SubmitGetBill, ReceiptGetBill, tables, TablesOK
<1>8. CASE ConfirmGetPayment(q) \/ RejectGetPayment(q)
  BY <1>1, <1>6, <1>8 DEF ConfirmGetPayment, RejectGetPayment, Review, tables, TablesOK
<1>9. CASE ReceiptListPayments(q)
  <2>1. req[q].bill \in Bills
    BY <1>9 DEF ReceiptListPayments, TablesOK, RequestOK
  <2>2. receipts' \in {"dated", "undated"}
    BY <1>9 DEF ReceiptListPayments, TablesOK
  <2> QED BY <1>9, <2>2, FinishOK DEF ReceiptListPayments, TablesOK
<1>10. CASE Abandon(q)
  BY <1>6, <1>10 DEF Abandon
<1>11. CASE LoseBillStatus(q)
  BY <1>1, <1>11 DEF LoseBillStatus, TablesOK
<1> QED BY <1>3, <1>5, <1>7, <1>8, <1>9, <1>10, <1>11

\* The upload: the new name is in nobody's hands, since names in use are taken.
LEMMA UploadOK ==
  ASSUME TablesOK, NamesInv, NEW q \in Requests, SubmitUpload(q)
  PROVE  TablesOK' /\ NamesInv' /\ RowsStay
<1>1. PICK p \in Payments : /\ FreshName(p)
                            /\ stored' = stored \cup {p}
                            /\ req' = [req EXCEPT ![q].payment = p]
  BY DEF SubmitUpload
<1>2. pc[q] = "su_upload" /\ UNCHANGED <<bill, payment, audit, everConfirmed, receipts>>
  BY DEF SubmitUpload
<1>3. pc' = [pc EXCEPT ![q] = "su_insert"] /\ "su_insert" \in Steps
  BY DEF SubmitUpload, Goto, Steps, SubmitSteps
<1>4. OnlyMoves(q) /\ pc'[q] = "su_insert" /\ req'[q].payment = p
        /\ req'[q].bill = req[q].bill
  BY <1>1, <1>3 DEF OnlyMoves, TablesOK, Request
<1>5. RequestOK(q)'
  BY <1>2, <1>4 DEF RequestOK, TablesOK, ConfirmSteps, RejectSteps
<1>6. RowsStay
  BY <1>2 DEF RowsStay, Rows
<1>7. NamesInv'
  <2>1. ASSUME NEW o \in Requests \ {q}, Holding(o)
        PROVE  req[o].payment \in stored /\ req[o].payment # p
    BY <1>1, <2>1 DEF NamesInv, FreshName
  <2> QED BY <1>1, <1>2, <1>4, <2>1 DEF NamesInv, Holding, OnlyMoves, FreshName
<1> QED BY <1>1, <1>2, <1>4, <1>5, <1>6, <1>7, MoveTypeOK DEF TablesOK

\* The insert, whether or not its reply arrives: it writes over no row, and over
\* no name another submission is about to insert.
LEMMA InsertOK ==
  ASSUME TablesOK, NamesInv, NEW q \in Requests, pc[q] = "su_insert", InsertPayment(q),
         NEW l \in {"su_status", "su_cleanup"}, Goto(q, l),
         UNCHANGED <<bill, stored, audit, everConfirmed, receipts, req>>
  PROVE  TablesOK' /\ NamesInv' /\ RowsStay
<1> DEFINE p   == req[q].payment
           row == [bill |-> req[q].bill, status |-> "pending"]
<1>1. p \in Payments /\ p \in stored /\ payment[p] = None /\ row \in PaymentRow
  BY DEF TablesOK, RequestOK, NamesInv, Holding, PaymentRow, PaymentStatus
<1>2. payment' = [payment EXCEPT ![p] = row]
  BY DEF InsertPayment
<1>3. /\ payment' \in [Payments -> PaymentRow \cup {None}] /\ payment'[p] = row
      /\ \A o \in Payments \ {p} : payment'[o] = payment[o]
  BY <1>1, <1>2 DEF TablesOK
<1>4. OnlyMoves(q) /\ pc'[q] = l
  BY GotoMoves DEF Steps, SubmitSteps
<1>5. RowsStay
  BY <1>1, <1>3 DEF RowsStay, Rows
<1>6. RequestOK(q)'
  BY <1>1, <1>3, <1>4, NoneIsNoRow
  DEF RequestOK, Rows, TablesOK, ConfirmSteps, RejectSteps
<1>7. NamesInv'
  <2>1. ASSUME NEW o \in Requests \ {q}, Holding(o)
        PROVE  req[o].payment # p /\ req[o].payment \in Payments
    BY <2>1 DEF NamesInv, Holding, TablesOK, RequestOK
  <2> QED BY <1>1, <1>3, <1>4, <2>1 DEF NamesInv, Holding, OnlyMoves
<1> QED BY <1>3, <1>4, <1>5, <1>6, <1>7, MoveTypeOK DEF TablesOK

\* The other ends of an insert: it fails, and its file is deleted.
LEMMA FailedInsertOK ==
  ASSUME TablesOK, NamesInv, NEW q \in Requests, FailInsert(q) \/ SubmitCleanup(q)
  PROVE  TablesOK' /\ NamesInv' /\ RowsStay
<1>1. CASE FailInsert(q)
  <2>1. CASE InsertPayment(q)
    BY <1>1, <2>1, InsertOK DEF FailInsert
  <2>2. CASE UNCHANGED payment
    <3>1. OnlyMoves(q) /\ pc[q] = "su_insert" /\ pc'[q] = "su_cleanup"
            /\ req' = req /\ stored' = stored
      BY <1>1, GotoMoves DEF FailInsert, Steps, SubmitSteps
    <3>2. RequestOK(q)'
      BY <3>1 DEF RequestOK, TablesOK, ConfirmSteps, RejectSteps
    <3>3. RowsStay
      BY <2>2 DEF RowsStay, Rows
    <3>4. NamesInv'
      BY <2>2, <3>1 DEF NamesInv, Holding, OnlyMoves
    <3> QED BY <1>1, <2>2, <3>1, <3>2, <3>3, <3>4, MoveTypeOK DEF FailInsert, TablesOK
  <2> QED BY <1>1, <2>1, <2>2 DEF FailInsert
<1>2. CASE SubmitCleanup(q)
  <2>1. OnlyMoves(q) /\ RequestOK(q)' /\ ~Holding(q)'
    BY <1>2, FinishMoves, IdleOK DEF SubmitCleanup
  <2>2. RowsStay
    BY <1>2 DEF SubmitCleanup, RowsStay, Rows
  <2>3. NamesInv'
    <3>1. \A o \in Requests \ {q} : Holding(o) =>
             req[o].payment \in stored /\ req[o].payment # req[q].payment
      BY <1>2 DEF SubmitCleanup, NamesInv, Holding
    <3> QED BY <1>2, <2>1, <3>1, MoveNames DEF SubmitCleanup
  <2> QED BY <1>2, <2>1, <2>2, <2>3, MoveTypeOK DEF SubmitCleanup, TablesOK
<1> QED BY <1>1, <1>2

\* The status of a payment is set by a review, which has found its row.
LEMMA ReviewOK ==
  ASSUME TablesOK, NamesInv, NEW q \in Requests, ConfirmUpdate(q) \/ RejectUpdate(q)
  PROVE  TablesOK' /\ NamesInv' /\ RowsStay
<1> DEFINE p == req[q].payment
<1>1. PICK s \in {"confirmed", "rejected"} : SetPayment(q, s)
  BY DEF ConfirmUpdate, RejectUpdate
<1>2. PICK l \in {"cf_bill", "rj_bill"} : Goto(q, l)
  BY DEF ConfirmUpdate, RejectUpdate
<1>3. pc[q] \in {"cf_update", "rj_update"}
        /\ UNCHANGED <<bill, stored, audit, receipts, req>>
  BY DEF ConfirmUpdate, RejectUpdate
<1>4. p \in Rows /\ payment[p] \in PaymentRow
  BY <1>3 DEF TablesOK, RequestOK, ConfirmSteps, RejectSteps, Rows
<1>5. p \in Payments /\ payment' = [payment EXCEPT ![p].status = s]
        /\ everConfirmed' \subseteq Payments
  BY <1>1, <1>4 DEF SetPayment, Rows, TablesOK
<1>6. [payment[p] EXCEPT !.status = s] \in PaymentRow
        /\ [payment[p] EXCEPT !.status = s].bill = payment[p].bill
  BY <1>4 DEF PaymentRow, PaymentStatus
<1>7. /\ payment' \in [Payments -> PaymentRow \cup {None}]
      /\ payment'[p] \in PaymentRow /\ payment'[p].bill = payment[p].bill
      /\ \A o \in Payments \ {p} : payment'[o] = payment[o]
  BY <1>5, <1>6 DEF TablesOK
<1>8. RowsStay
  BY <1>7, NoneIsNoRow DEF RowsStay, Rows
<1>9. OnlyMoves(q) /\ pc'[q] = l /\ l \in Steps
  BY <1>2, <1>3, GotoMoves DEF Steps, ConfirmSteps, RejectSteps
<1>10. RequestOK(q)'
  BY <1>2, <1>3, <1>8, <1>9, SuitsNext DEF ConfirmSteps, RejectSteps
<1>11. NamesInv'
  BY <1>3, <1>4, <1>7, <1>9, MoveNames DEF Holding, NamesInv, TablesOK, RequestOK, Rows
<1> QED BY <1>3, <1>5, <1>7, <1>8, <1>9, <1>10, <1>11, MoveTypeOK DEF TablesOK

\* Every step keeps the types and the names, and no row is lost.
LEMMA StepOK ==
  ASSUME TablesOK, NamesInv, [Next]_vars
  PROVE  TablesOK' /\ NamesInv' /\ RowsStay
<1>1. CASE Next
  <2>1. PICK q \in Requests : Arrive(q) \/ Proceed(q) \/ Fail(q)
    BY <1>1 DEF Next
  <2>2. CASE SubmitInsert(q)
    BY <2>2, InsertOK DEF SubmitInsert
  <2> QED
    BY <2>1, <2>2, ArriveOK, QuietOK, UploadOK, FailedInsertOK, ReviewOK
    DEF Proceed, Fail
<1>2. CASE UNCHANGED vars
  BY <1>2
  DEF vars, TablesOK, RequestOK, NamesInv, Holding, RowsStay, Rows
<1> QED BY <1>1, <1>2

\* The history of failed inserts and of lost proofs only grows, by the payment of a
\* submission.
LEMMA HistoryStep ==
  ASSUME TablesOK, [Next]_vars
  PROVE  /\ unsure \subseteq unsure' /\ astray \subseteq astray'
         /\ unsure' \subseteq unsure \cup Payments
         /\ astray' \subseteq astray \cup Payments
<1>1. CASE Next
  <2>1. PICK q \in Requests : Arrive(q) \/ Proceed(q) \/ Fail(q)
    BY <1>1 DEF Next
  <2>2. pc[q] \in {"su_insert", "su_cleanup"} => req[q].payment \in Payments
    BY DEF TablesOK, RequestOK
  <2> QED
    BY <2>1, <2>2
    DEF Arrive, Proceed, Fail, Abandon, LoseProof, FailInsert, LoseBillStatus
<1>2. CASE UNCHANGED vars
  BY <1>2 DEF vars
<1> QED BY <1>1, <1>2

\* Whatever requests do and whichever faults occur, the tables stay well typed, and
\* every request past its insert or lookup holds a payment with a row, of its bill.
THEOREM TypeCorrect == Spec => []TypeOK
<1>1. Init => TypeOK /\ NamesInv
  BY InitOK DEF Init, TypeOK
<1>2. TypeOK /\ NamesInv /\ [Next]_vars => TypeOK' /\ NamesInv'
  <2> SUFFICES ASSUME TypeOK, NamesInv, [Next]_vars PROVE TypeOK' /\ NamesInv'
    OBVIOUS
  <2>1. TablesOK' /\ NamesInv'
    BY StepOK DEF TypeOK
  <2>2. unsure' \subseteq Payments /\ astray' \subseteq Payments
    BY HistoryStep DEF TypeOK
  <2>3. overlapped' \in BOOLEAN
    BY DEF Next, vars, TypeOK
  <2> QED BY <2>1, <2>2, <2>3 DEF TypeOK
<1> QED BY <1>1, <1>2, PTL DEF Spec

\* The part of it the other theorems rest on.
LEMMA TablesInvariant == Spec => []TablesOK
<1>1. TypeOK => TablesOK
  BY DEF TypeOK
<1> QED BY <1>1, TypeCorrect, PTL

\* Names in use are taken in the bucket, by one submission each, in every state.
LEMMA NamesInvariant == Spec => []NamesInv
<1>1. TablesOK /\ NamesInv /\ [Next]_vars => TablesOK' /\ NamesInv'
  BY StepOK
<1> QED BY <1>1, InitOK, PTL DEF Spec

-----------------------------------------------------------------------------
(* Confirmations *)

\* A request that has just set its payment to confirmed; everConfirmed remembers.
ConfirmedInv ==
    \A q \in Requests :
       pc[q] \in {"cf_bill", "cf_audit"} => req[q].payment \in everConfirmed

\* No other step than ConfirmUpdate brings a request to cf_bill, and only those at
\* cf_bill go on to cf_audit.
LEMMA ConfirmedStep ==
  ASSUME TablesOK, ConfirmedInv, NEW q \in Requests, Arrive(q) \/ Proceed(q) \/ Fail(q)
  PROVE  ConfirmedInv' /\ everConfirmed \subseteq everConfirmed'
<1> USE DEF TablesOK, ConfirmedInv, Goto, Finish
<1>1. ASSUME NEW l, NEW b, NEW p, l \notin {"cf_bill", "cf_audit"}, Begin(q, l, b, p)
      PROVE  ConfirmedInv' /\ everConfirmed \subseteq everConfirmed'
  BY <1>1 DEF Begin, tables
<1>2. CASE Arrive(q)
  BY <1>1, <1>2
  DEF Arrive, BeginSubmit, BeginConfirm, BeginReject, BeginReceipt, BeginReview
<1>3. CASE \/ SubmitGetBill(q) \/ SubmitUpload(q) \/ SubmitInsert(q)
           \/ SubmitCleanup(q) \/ SubmitSetBill(q) \/ SubmitAudit(q)
  BY <1>3
  DEF SubmitGetBill, SubmitUpload, SubmitInsert, SubmitCleanup, SubmitSetBill,
      SubmitAudit, SetBill, Log, tables
<1>4. CASE ConfirmUpdate(q)
  <2>1. everConfirmed' = everConfirmed \cup {req[q].payment}
    BY <1>4 DEF ConfirmUpdate, SetPayment
  <2> QED BY <1>4, <2>1 DEF ConfirmUpdate
<1>5. CASE \/ ConfirmGetPayment(q) \/ ConfirmSetBill(q) \/ ConfirmAudit(q)
           \/ RejectGetPayment(q) \/ RejectSetBill(q) \/ RejectAudit(q)
  BY <1>5
  DEF ConfirmGetPayment, ConfirmSetBill, ConfirmAudit, RejectGetPayment,
      RejectSetBill, RejectAudit, Review, SetBill, Log, tables
<1>6. CASE RejectUpdate(q)
  <2>1. everConfirmed' = everConfirmed
    BY <1>6 DEF RejectUpdate, SetPayment
  <2> QED BY <1>6, <2>1 DEF RejectUpdate
<1>7. CASE \/ ReceiptGetBill(q) \/ ReceiptListPayments(q) \/ Abandon(q)
           \/ FailInsert(q) \/ LoseBillStatus(q)
  BY <1>7
  DEF ReceiptGetBill, ReceiptListPayments, Abandon, FailInsert, LoseBillStatus, tables
<1> QED BY <1>2, <1>3, <1>4, <1>5, <1>6, <1>7 DEF Proceed, Fail

\* A bill becomes paid by ConfirmSetBill alone.
LEMMA PaidStep ==
  ASSUME TablesOK, NEW q \in Requests, Arrive(q) \/ Proceed(q) \/ Fail(q),
         NEW b \in Bills, bill'[b] = "paid", bill[b] # "paid"
  PROVE  pc[q] = "cf_bill" /\ req[q].bill = b
<1>1. ASSUME NEW from, NEW status, NEW to, SetBill(q, from, status, to)
      PROVE  pc[q] = from /\ status = "paid" /\ req[q].bill = b
  BY <1>1 DEF SetBill, TablesOK
<1>2. \/ SubmitSetBill(q) \/ ConfirmSetBill(q) \/ RejectSetBill(q)
      \/ UNCHANGED bill
  BY DEF Arrive, BeginSubmit, BeginConfirm, BeginReject, BeginReceipt, BeginReview,
         Begin, Proceed, SubmitGetBill, SubmitUpload, SubmitInsert, SubmitCleanup,
         SubmitAudit, ConfirmGetPayment, ConfirmUpdate, ConfirmAudit,
         RejectGetPayment, RejectUpdate, RejectAudit, Review, ReceiptGetBill,
         ReceiptListPayments, Log, Fail, Abandon, FailInsert, LoseBillStatus, tables
<1> QED BY <1>1, <1>2 DEF SubmitSetBill, ConfirmSetBill, RejectSetBill

\* PaidWasEarned follows from what a request at cf_bill holds.
LEMMA EarnedStep ==
  ASSUME TablesOK, NamesInv, ConfirmedInv, PaidWasEarned, [Next]_vars
  PROVE  ConfirmedInv' /\ PaidWasEarned'
<1>1. CASE Next
  <2>1. PICK q \in Requests : Arrive(q) \/ Proceed(q) \/ Fail(q)
    BY <1>1 DEF Next
  <2>2. RowsStay /\ ConfirmedInv' /\ everConfirmed \subseteq everConfirmed'
    BY <1>1, <2>1, StepOK, ConfirmedStep
  <2>3. ASSUME NEW b \in Bills, bill'[b] = "paid"
        PROVE  \E p \in everConfirmed : p \in Rows /\ payment[p].bill = b
    <3>1. CASE bill[b] = "paid"
      BY <3>1 DEF PaidWasEarned
    <3>2. CASE bill[b] # "paid"
      <4>1. pc[q] = "cf_bill" /\ req[q].bill = b
        BY <2>1, <2>3, <3>2, PaidStep
      <4>2. /\ req[q].payment \in everConfirmed
            /\ req[q].payment \in Rows /\ payment[req[q].payment].bill = b
        BY <4>1 DEF ConfirmedInv, TablesOK, RequestOK, ConfirmSteps
      <4> QED BY <4>2
    <3> QED BY <3>1, <3>2
  <2>4. PaidWasEarned'
    BY <2>2, <2>3 DEF PaidWasEarned, RowsStay, Rows
  <2> QED BY <2>2, <2>4
<1>2. CASE UNCHANGED vars
  BY <1>2 DEF vars, ConfirmedInv, PaidWasEarned, Rows
<1> QED BY <1>1, <1>2

\* Initially nothing is paid, and no step pays a bill that was not earned.
LEMMA EarnedInvariant == Spec => [](ConfirmedInv /\ PaidWasEarned)
<1>1. Init => ConfirmedInv /\ PaidWasEarned
  BY DEF Init, ConfirmedInv, PaidWasEarned
<1> QED BY <1>1, EarnedStep, TablesInvariant, NamesInvariant, PTL DEF Spec

\* Whatever interleaves and whatever fails, a bill is marked paid only after a
\* payment of that very bill has been confirmed.
THEOREM PaidBillsWereEarned == Spec => []PaidWasEarned
  BY EarnedInvariant, PTL

-----------------------------------------------------------------------------
(* The audit trail *)

\* An entry is added by the three Audit steps, about the payment of the request.
LEMMA AuditStep ==
  ASSUME TablesOK, NEW q \in Requests, Arrive(q) \/ Proceed(q) \/ Fail(q),
         NEW a \in {"submit_payment", "confirm_payment"}, NEW p \in Payments,
         <<a, p>> \in audit', <<a, p>> \notin audit
  PROVE  /\ req[q].payment = p
         /\ a = "submit_payment" => pc[q] = "su_audit"
         /\ a = "confirm_payment" => pc[q] = "cf_audit"
<1>1. SubmitAudit(q) \/ ConfirmAudit(q) \/ RejectAudit(q) \/ UNCHANGED audit
  BY DEF Arrive, BeginSubmit, BeginConfirm, BeginReject, BeginReceipt, BeginReview,
         Begin, Proceed, SubmitGetBill, SubmitUpload, SubmitInsert, SubmitCleanup,
         SubmitSetBill, ConfirmGetPayment, ConfirmUpdate, ConfirmSetBill,
         RejectGetPayment, RejectUpdate, RejectSetBill, Review, SetBill,
         ReceiptGetBill, ReceiptListPayments, Fail, Abandon, FailInsert,
         LoseBillStatus, tables
<1>2. ASSUME NEW action, Log(q, action)
      PROVE  action = a /\ req[q].payment = p
  BY <1>2 DEF Log
<1> QED BY <1>1, <1>2 DEF SubmitAudit, ConfirmAudit, RejectAudit

\* Whatever interleaves and whatever fails, what the audit trail says was submitted
\* has a row, and what it says was confirmed was.
THEOREM AuditIsTrue == Spec => []AuditTellsTheTruth
<1>1. Init => AuditTellsTheTruth
  BY DEF Init, AuditTellsTheTruth
<1>2. TablesOK /\ NamesInv /\ ConfirmedInv /\ AuditTellsTheTruth /\ [Next]_vars
        => AuditTellsTheTruth'
  <2> SUFFICES ASSUME TablesOK, NamesInv, ConfirmedInv, AuditTellsTheTruth, [Next]_vars
               PROVE  AuditTellsTheTruth'
    OBVIOUS
  <2>1. CASE Next
    <3>1. PICK q \in Requests : Arrive(q) \/ Proceed(q) \/ Fail(q)
      BY <2>1 DEF Next
    <3>2. RowsStay /\ everConfirmed \subseteq everConfirmed'
      BY <2>1, <3>1, StepOK, ConfirmedStep
    <3>3. ASSUME NEW p \in Payments, <<"submit_payment", p>> \in audit'
          PROVE  p \in Rows'
      <4>1. pc[q] = "su_audit" => req[q].payment \in Rows
        BY DEF TablesOK, RequestOK
      <4>2. p \in Rows
        BY <3>1, <3>3, <4>1, AuditStep DEF AuditTellsTheTruth
      <4> QED BY <3>2, <4>2 DEF RowsStay, Rows
    <3>4. ASSUME NEW p \in Payments, <<"confirm_payment", p>> \in audit'
          PROVE  p \in everConfirmed'
      BY <3>1, <3>2, <3>4, AuditStep DEF AuditTellsTheTruth, ConfirmedInv
    <3> QED BY <3>3, <3>4 DEF AuditTellsTheTruth
  <2>2. CASE UNCHANGED vars
    BY <2>2 DEF vars, AuditTellsTheTruth, Rows
  <2> QED BY <2>1, <2>2
<1> QED
  BY <1>1, <1>2, TablesInvariant, NamesInvariant, EarnedInvariant, PTL DEF Spec

-----------------------------------------------------------------------------
(* Proof files *)

\* A file about to be deleted is the proof of no row, unless its insert took effect.
ProofInv ==
    /\ ProofStored
    /\ \A q \in Requests : pc[q] = "su_cleanup" =>
          payment[req[q].payment] = None \/ req[q].payment \in unsure

\* Every file is the proof of a row, or in the hands of the submission that
\* uploaded it, or was lost by it.
OwnedInv ==
    \A p \in stored \ (Rows \cup astray) :
       \E q \in Requests : Holding(q) /\ req[q].payment = p

\* The steps that neither touch rows or files nor move to or from a held name.
LEMMA ProofsUntouched ==
  ASSUME TablesOK, NamesInv, NEW q \in Requests,
         \/ Arrive(q) \/ SubmitGetBill(q) \/ SubmitSetBill(q) \/ SubmitAudit(q)
         \/ ConfirmGetPayment(q) \/ ConfirmSetBill(q) \/ ConfirmAudit(q)
         \/ RejectGetPayment(q) \/ RejectSetBill(q) \/ RejectAudit(q)
         \/ ReceiptGetBill(q) \/ ReceiptListPayments(q) \/ LoseBillStatus(q)
         \/ Abandon(q) /\ ~Holding(q)
         \/ ConfirmUpdate(q) \/ RejectUpdate(q)
  PROVE  /\ stored' = stored /\ Rows' = Rows
         /\ ~Holding(q) /\ ~Holding(q)'
         /\ \A o \in Requests \ {q} : pc'[o] = pc[o] /\ req'[o] = req[o]
<1> USE DEF TablesOK, Holding, Goto, Finish, Rows
<1>1. CASE Arrive(q)
  BY <1>1
  DEF Arrive, BeginSubmit, BeginConfirm, BeginReject, BeginReceipt, BeginReview,
      Begin, tables
<1>2. CASE SubmitGetBill(q) \/ SubmitSetBill(q) \/ SubmitAudit(q)
  BY <1>2 DEF SubmitGetBill, SubmitSetBill, SubmitAudit, SetBill, Log, tables
<1>3. CASE \/ ConfirmGetPayment(q) \/ ConfirmSetBill(q) \/ ConfirmAudit(q)
           \/ RejectGetPayment(q) \/ RejectSetBill(q) \/ RejectAudit(q)
  BY <1>3
  DEF ConfirmGetPayment, ConfirmSetBill, ConfirmAudit, RejectGetPayment,
      RejectSetBill, RejectAudit, Review, SetBill, Log, tables
<1>4. CASE \/ ReceiptGetBill(q) \/ ReceiptListPayments(q) \/ LoseBillStatus(q)
           \/ Abandon(q) /\ ~Holding(q)
  BY <1>4 DEF ReceiptGetBill, ReceiptListPayments, LoseBillStatus, Abandon, tables
<1>5. CASE ConfirmUpdate(q) \/ RejectUpdate(q)
  <2>1. PICK s \in {"confirmed", "rejected"} :
           payment' = [payment EXCEPT ![req[q].payment].status = s]
    BY <1>5 DEF ConfirmUpdate, RejectUpdate, SetPayment
  <2>2. req[q].payment \in Rows /\ payment[req[q].payment] \in PaymentRow
    BY <1>5 DEF ConfirmUpdate, RejectUpdate, RequestOK, ConfirmSteps, RejectSteps
  <2>3. [payment[req[q].payment] EXCEPT !.status = s] \in PaymentRow
    BY <2>2 DEF PaymentRow, PaymentStatus
  <2>4. Rows' = Rows
    BY <2>1, <2>2, <2>3, NoneIsNoRow
  <2> QED BY <1>5, <2>4 DEF ConfirmUpdate, RejectUpdate
<1> QED BY <1>1, <1>2, <1>3, <1>4, <1>5

\* The insert gives a row to the name it holds.
LEMMA InsertAddsRow ==
  ASSUME TablesOK, NamesInv, NEW q \in Requests, pc[q] = "su_insert", InsertPayment(q)
  PROVE  /\ Rows' = Rows \cup {req[q].payment}
         /\ req[q].payment \in stored
         /\ \A p \in Payments \ {req[q].payment} : payment'[p] = payment[p]
<1>1. req[q].payment \in Payments /\ req[q].payment \in stored
  BY DEF TablesOK, RequestOK, NamesInv, Holding
<1>2. [bill |-> req[q].bill, status |-> "pending"] \in PaymentRow
  BY DEF TablesOK, RequestOK, PaymentRow, PaymentStatus
<1> QED BY <1>1, <1>2, NoneIsNoRow DEF InsertPayment, Rows, TablesOK

\* A payment whose insert reported no error keeps the proof it was submitted with,
\* whatever interleaves and whatever fails.
THEOREM ProofsAreKept == Spec => []ProofStored
<1>1. Init => ProofInv
  BY DEF Init, ProofInv, ProofStored, Rows
<1>2. TablesOK /\ NamesInv /\ ProofInv /\ [Next]_vars => ProofInv'
  <2> SUFFICES ASSUME TablesOK, NamesInv, ProofInv, [Next]_vars PROVE ProofInv'
    OBVIOUS
  <2>0. unsure \subseteq unsure'
    BY HistoryStep
  <2> USE DEF ProofInv, ProofStored, Holding, Rows
  <2>1. ASSUME NEW q \in Requests, SubmitUpload(q) PROVE ProofInv'
    BY <2>0, <2>1 DEF SubmitUpload, Goto, TablesOK
  <2>2. ASSUME NEW q \in Requests, SubmitInsert(q) PROVE ProofInv'
    <3>1. /\ Rows' = Rows \cup {req[q].payment} /\ req[q].payment \in stored
          /\ \A p \in Payments \ {req[q].payment} : payment'[p] = payment[p]
      BY <2>2, InsertAddsRow DEF SubmitInsert
    <3>2. \A o \in Requests \ {q} : pc[o] = "su_cleanup" =>
             req[o].payment \in Payments /\ req[o].payment # req[q].payment
      BY <2>2 DEF SubmitInsert, NamesInv, TablesOK, RequestOK
    <3>3. ProofStored'
      BY <2>0, <2>2, <3>1 DEF SubmitInsert
    <3>4. \A o \in Requests : pc'[o] = "su_cleanup" =>
             payment'[req'[o].payment] = None \/ req'[o].payment \in unsure'
      BY <2>0, <2>2, <3>1, <3>2 DEF SubmitInsert, Goto, TablesOK
    <3> QED BY <3>3, <3>4
  <2>3. ASSUME NEW q \in Requests, FailInsert(q) PROVE ProofInv'
    <3>1. /\ stored' = stored /\ req' = req /\ req[q].payment \in Payments
          /\ \A o \in Requests \ {q} : pc'[o] = pc[o]
          /\ \A o \in Requests \ {q} : pc[o] = "su_cleanup" =>
                req[o].payment \in Payments /\ req[o].payment # req[q].payment
      BY <2>3 DEF FailInsert, Goto, TablesOK, RequestOK, NamesInv
    <3>2. CASE payment' = payment
      <4>1. payment[req[q].payment] = None
        BY <2>3 DEF FailInsert, NamesInv
      <4> QED BY <2>0, <3>1, <3>2, <4>1
    <3>3. CASE InsertPayment(q) /\ req[q].payment \in unsure'
      <4>1. /\ Rows' = Rows \cup {req[q].payment}
            /\ \A p \in Payments \ {req[q].payment} : payment'[p] = payment[p]
        BY <2>3, <3>3, InsertAddsRow DEF FailInsert
      <4> QED BY <2>0, <3>1, <3>3, <4>1
    <3> QED BY <2>3, <3>2, <3>3 DEF FailInsert
  <2>4. ASSUME NEW q \in Requests, SubmitCleanup(q) \/ Abandon(q) PROVE ProofInv'
    BY <2>0, <2>4 DEF SubmitCleanup, Abandon, Finish, TablesOK, tables
  <2>5. ASSUME NEW q \in Requests, ConfirmUpdate(q) \/ RejectUpdate(q)
        PROVE  ProofInv'
    <3>1. /\ stored' = stored /\ Rows' = Rows /\ ~Holding(q)'
          /\ \A o \in Requests \ {q} : pc'[o] = pc[o] /\ req'[o] = req[o]
      BY <2>5, ProofsUntouched
    <3>2. ASSUME NEW o \in Requests, pc'[o] = "su_cleanup"
          PROVE  payment'[req'[o].payment] = None \/ req'[o].payment \in unsure'
      <4>1. o # q /\ pc[o] = "su_cleanup" /\ req'[o] = req[o]
        BY <3>1, <3>2
      <4>2. /\ req[o].payment \in Payments
            /\ req[o].payment \notin Rows \/ req[o].payment \in unsure
        BY <4>1 DEF TablesOK, RequestOK
      <4> QED BY <2>0, <3>1, <4>1, <4>2
    <3> QED BY <2>0, <3>1, <3>2
  <2>6. ASSUME NEW q \in Requests,
               \/ Arrive(q) \/ SubmitGetBill(q) \/ SubmitSetBill(q) \/ SubmitAudit(q)
               \/ ConfirmGetPayment(q) \/ ConfirmSetBill(q) \/ ConfirmAudit(q)
               \/ RejectGetPayment(q) \/ RejectSetBill(q) \/ RejectAudit(q)
               \/ ReceiptGetBill(q) \/ ReceiptListPayments(q) \/ LoseBillStatus(q)
        PROVE  ProofInv'
    <3>1. /\ stored' = stored /\ Rows' = Rows /\ ~Holding(q)'
          /\ \A o \in Requests \ {q} : pc'[o] = pc[o] /\ req'[o] = req[o]
      BY <2>6, ProofsUntouched
    <3>2. ASSUME NEW o \in Requests, pc'[o] = "su_cleanup"
          PROVE  payment'[req'[o].payment] = None \/ req'[o].payment \in unsure'
      <4>1. o # q /\ pc[o] = "su_cleanup" /\ req'[o] = req[o]
        BY <3>1, <3>2
      <4>2. /\ req[o].payment \in Payments
            /\ req[o].payment \notin Rows \/ req[o].payment \in unsure
        BY <4>1 DEF TablesOK, RequestOK
      <4> QED BY <2>0, <3>1, <4>1, <4>2
    <3> QED BY <2>0, <3>1, <3>2
  <2>7. CASE UNCHANGED vars
    BY <2>7 DEF vars
  <2> QED
    BY <2>1, <2>2, <2>3, <2>4, <2>5, <2>6, <2>7 DEF Next, Proceed, Fail
<1>3. ProofInv => ProofStored
  BY DEF ProofInv
<1> QED BY <1>1, <1>2, <1>3, TablesInvariant, NamesInvariant, PTL DEF Spec

\* A submission whose request neither dies nor fails to delete leaves no file behind,
\* whatever interleaves: once all is quiet every other file is the proof of a payment.
THEOREM NothingIsOrphaned == Spec => []NoOrphanProof
<1>1. Init => OwnedInv
  BY DEF Init, OwnedInv
<1>2. TablesOK /\ NamesInv /\ OwnedInv /\ [Next]_vars => OwnedInv'
  <2> SUFFICES ASSUME TablesOK, NamesInv, OwnedInv, [Next]_vars PROVE OwnedInv'
    OBVIOUS
  <2>0. astray \subseteq astray'
    BY HistoryStep
  <2>1. ASSUME NEW q \in Requests, SubmitUpload(q) PROVE OwnedInv'
    <3>1. PICK p \in Payments : /\ stored' = stored \cup {p}
                                /\ req' = [req EXCEPT ![q].payment = p]
      BY <2>1 DEF SubmitUpload
    <3>2. /\ pc[q] = "su_upload" /\ pc'[q] = "su_insert" /\ req'[q].payment = p
          /\ \A o \in Requests \ {q} : pc'[o] = pc[o] /\ req'[o] = req[o]
          /\ Rows' = Rows
      BY <2>1, <3>1 DEF SubmitUpload, Goto, TablesOK, Rows
    <3> QED BY <2>0, <3>1, <3>2 DEF OwnedInv, Holding
  <2>2. ASSUME NEW q \in Requests, SubmitInsert(q) PROVE OwnedInv'
    <3>1. Rows' = Rows \cup {req[q].payment}
      BY <2>2, InsertAddsRow DEF SubmitInsert
    <3>2. /\ stored' = stored /\ req' = req
          /\ \A o \in Requests \ {q} : pc'[o] = pc[o]
      BY <2>2 DEF SubmitInsert, Goto, TablesOK
    <3> QED BY <2>0, <3>1, <3>2 DEF OwnedInv, Holding
  <2>3. ASSUME NEW q \in Requests, FailInsert(q) PROVE OwnedInv'
    <3>1. /\ stored' = stored /\ req' = req /\ pc'[q] = "su_cleanup"
          /\ \A o \in Requests \ {q} : pc'[o] = pc[o]
      BY <2>3 DEF FailInsert, Goto, TablesOK
    <3>2. Rows \subseteq Rows'
      BY <2>3, InsertAddsRow DEF FailInsert, Rows
    <3> QED BY <2>0, <3>1, <3>2 DEF OwnedInv, Holding
  <2>4. ASSUME NEW q \in Requests, SubmitCleanup(q) PROVE OwnedInv'
    <3>1. /\ stored' = stored \ {req[q].payment} /\ Rows' = Rows
          /\ \A o \in Requests \ {q} : pc'[o] = pc[o] /\ req'[o] = req[o]
      BY <2>4 DEF SubmitCleanup, Finish, TablesOK, Rows
    <3> QED BY <2>0, <3>1 DEF OwnedInv, Holding
  <2>5. ASSUME NEW q \in Requests,
               \/ Arrive(q) \/ SubmitGetBill(q) \/ SubmitSetBill(q) \/ SubmitAudit(q)
               \/ ConfirmGetPayment(q) \/ ConfirmSetBill(q) \/ ConfirmAudit(q)
               \/ RejectGetPayment(q) \/ RejectSetBill(q) \/ RejectAudit(q)
               \/ ReceiptGetBill(q) \/ ReceiptListPayments(q) \/ LoseBillStatus(q)
               \/ ConfirmUpdate(q) \/ RejectUpdate(q)
               \/ Abandon(q) /\ ~Holding(q)
        PROVE  OwnedInv'
    <3>1. /\ stored' = stored /\ Rows' = Rows /\ ~Holding(q)
          /\ \A o \in Requests \ {q} : pc'[o] = pc[o] /\ req'[o] = req[o]
      BY <2>5, ProofsUntouched
    <3> QED BY <2>0, <3>1 DEF OwnedInv, Holding
  <2>6. ASSUME NEW q \in Requests, Abandon(q), Holding(q) PROVE OwnedInv'
    <3>1. /\ stored' = stored /\ Rows' = Rows /\ req[q].payment \in astray'
          /\ \A o \in Requests \ {q} : pc'[o] = pc[o] /\ req'[o] = req[o]
      BY <2>6 DEF Abandon, LoseProof, Holding, Finish, tables, TablesOK, Rows
    <3> QED BY <2>0, <3>1 DEF OwnedInv, Holding
  <2>7. CASE UNCHANGED vars
    BY <2>7 DEF vars, OwnedInv, Rows, Holding
  <2> QED
    BY <2>1, <2>2, <2>3, <2>4, <2>5, <2>6, <2>7 DEF Next, Proceed, Fail
<1>3. OwnedInv => NoOrphanProof
  BY DEF OwnedInv, NoOrphanProof, Quiescent, Holding
<1> QED BY <1>1, <1>2, <1>3, TablesInvariant, NamesInvariant, PTL DEF Spec

-----------------------------------------------------------------------------
(* One request at a time *)

Confirmed(p) == payment[p] # None /\ payment[p].status = "confirmed"

\* At most one request is in flight, so what it has read still holds when it writes:
\* the payment it rejects is not confirmed, the one whose bill it settles is, and the
\* bill it writes a receipt for is paid.
ReadInv ==
    /\ Alone
    /\ \A q \in Requests :
         /\ pc[q] = "rj_update" => ~Confirmed(req[q].payment)
         /\ pc[q] = "cf_bill" => Confirmed(req[q].payment)
         /\ pc[q] = "rc_payments" => bill[req[q].bill] = "paid"

BillsAreSettled == \A b \in Bills : bill[b] = "paid" => ConfirmedFor(b) # {}
AllAreDated     == receipts = "dated"

SettledInv == BillsAreSettled /\ AllAreDated

\* A request that takes a step is the only one in flight before and after it.
LEMMA OneRequestMoves ==
  ASSUME TablesOK, NamesInv, ReadInv, Alone', NEW q \in Requests,
         Arrive(q) \/ Proceed(q) \/ Fail(q)
  PROVE  \A o \in Requests \ {q} :
            pc[o] = "idle" /\ pc'[o] = "idle" /\ req'[o] = req[o]
<1> USE DEF TablesOK, Goto, Finish, Begin
<1>1. CASE Arrive(q)
  <2>1. PICK l \in {"su_bill", "cf_payment", "rj_payment", "rc_bill"} : pc' = [pc EXCEPT ![q] = l]
    BY <1>1 DEF Arrive, BeginSubmit, BeginConfirm, BeginReject, BeginReceipt, BeginReview
  <2>2. \A o \in Requests \ {q} : pc'[o] = pc[o] /\ req'[o] = req[o]
    BY <1>1 DEF Arrive, BeginSubmit, BeginConfirm, BeginReject, BeginReceipt, BeginReview
  <2>3. pc'[q] # "idle"
    BY <2>1
  <2> QED BY <2>2, <2>3 DEF Alone
<1>2. CASE Proceed(q) \/ Fail(q)
  <2>1. pc[q] # "idle"
    BY <1>2
    DEF Proceed, Fail, SubmitGetBill, SubmitUpload, SubmitInsert, SubmitCleanup,
        SubmitSetBill, SubmitAudit, ConfirmGetPayment, ConfirmUpdate, ConfirmSetBill,
        ConfirmAudit, RejectGetPayment, RejectUpdate, RejectSetBill, RejectAudit,
        Review, SetBill, ReceiptGetBill, ReceiptListPayments, Abandon, FailInsert,
        LoseBillStatus
  <2>2. \A o \in Requests \ {q} : pc[o] = "idle"
    BY <2>1 DEF ReadInv, Alone
  <2>3. \A o \in Requests \ {q} : pc'[o] = pc[o] /\ req'[o] = req[o]
    <3>1. CASE \/ SubmitGetBill(q) \/ SubmitUpload(q) \/ SubmitInsert(q)
               \/ SubmitCleanup(q) \/ SubmitSetBill(q) \/ SubmitAudit(q)
      BY <3>1 DEF SubmitGetBill, SubmitUpload, SubmitInsert, SubmitCleanup,
                  SubmitSetBill, SubmitAudit, SetBill, Log
    <3>2. CASE \/ ConfirmGetPayment(q) \/ ConfirmUpdate(q) \/ ConfirmSetBill(q)
               \/ ConfirmAudit(q) \/ RejectGetPayment(q) \/ RejectUpdate(q)
               \/ RejectSetBill(q) \/ RejectAudit(q)
      BY <3>2 DEF ConfirmGetPayment, ConfirmUpdate, ConfirmSetBill, ConfirmAudit,
                  RejectGetPayment, RejectUpdate, RejectSetBill, RejectAudit,
                  Review, SetBill, Log
    <3>3. CASE ReceiptGetBill(q) \/ ReceiptListPayments(q) \/ Fail(q)
      BY <3>3 DEF ReceiptGetBill, ReceiptListPayments, Fail, Abandon, FailInsert,
                  LoseBillStatus
    <3> QED BY <1>2, <3>1, <3>2, <3>3 DEF Proceed
  <2> QED BY <2>2, <2>3
<1> QED BY <1>1, <1>2

\* A step that inserts or updates the payment of its request leaves the others as
\* they are.
LEMMA PaymentStep ==
  ASSUME TablesOK, NamesInv, NEW q \in Requests,
         SubmitInsert(q) \/ FailInsert(q) \/ ConfirmUpdate(q) \/ RejectUpdate(q)
  PROVE  /\ \A p \in Payments : p # req[q].payment => payment'[p] = payment[p]
         /\ req[q].payment \in Payments
         /\ ConfirmUpdate(q) => Confirmed(req[q].payment)'
         /\ SubmitInsert(q) \/ FailInsert(q) => ~Confirmed(req[q].payment)
<1>1. req[q].payment \in Payments
  BY DEF SubmitInsert, FailInsert, ConfirmUpdate, RejectUpdate, TablesOK, RequestOK,
         ConfirmSteps, RejectSteps, Rows
<1>2. \/ UNCHANGED payment
      \/ \E row : payment' = [payment EXCEPT ![req[q].payment] = row]
  BY DEF SubmitInsert, FailInsert, ConfirmUpdate, RejectUpdate, InsertPayment, SetPayment
<1>3. ASSUME ConfirmUpdate(q)
      PROVE  Confirmed(req[q].payment)'
  <2>1. /\ payment' = [payment EXCEPT ![req[q].payment].status = "confirmed"]
        /\ payment[req[q].payment] \in PaymentRow /\ req' = req
    BY <1>1, <1>3 DEF ConfirmUpdate, SetPayment, TablesOK, RequestOK, ConfirmSteps, Rows
  <2>2. /\ payment'[req[q].payment].status = "confirmed"
        /\ payment'[req[q].payment] \in PaymentRow
    BY <1>1, <2>1 DEF TablesOK, PaymentRow, PaymentStatus
  <2> QED BY <2>1, <2>2, NoneIsNoRow DEF Confirmed
<1>4. SubmitInsert(q) \/ FailInsert(q) => ~Confirmed(req[q].payment)
  BY DEF SubmitInsert, FailInsert, NamesInv, Holding, Confirmed
<1> QED BY <1>1, <1>2, <1>3, <1>4 DEF TablesOK

\* No other step writes the payments table.
LEMMA PaymentsKept ==
  ASSUME NEW q \in Requests, Arrive(q) \/ Proceed(q) \/ Fail(q),
         ~SubmitInsert(q), ~FailInsert(q), ~ConfirmUpdate(q), ~RejectUpdate(q)
  PROVE  UNCHANGED payment
  BY DEF Arrive, BeginSubmit, BeginConfirm, BeginReject, BeginReceipt, BeginReview,
         Begin, Proceed, SubmitGetBill, SubmitUpload, SubmitCleanup, SubmitSetBill,
         SubmitAudit, ConfirmGetPayment, ConfirmSetBill, ConfirmAudit,
         RejectGetPayment, RejectSetBill, RejectAudit, Review, SetBill, Log,
         ReceiptGetBill, ReceiptListPayments, Fail, Abandon, LoseBillStatus, tables

\* No step takes a confirmation back, since only a payment that is not confirmed
\* reaches rj_update.
LEMMA ConfirmedStays ==
  ASSUME TablesOK, NamesInv, ReadInv, NEW q \in Requests,
         Arrive(q) \/ Proceed(q) \/ Fail(q),
         NEW p \in Payments, Confirmed(p)
  PROVE  Confirmed(p)'
<1>1. CASE \/ SubmitInsert(q) \/ FailInsert(q) \/ RejectUpdate(q)
  <2>1. p # req[q].payment
    <3>1. RejectUpdate(q) => ~Confirmed(req[q].payment)
      BY DEF RejectUpdate, ReadInv
    <3> QED BY <1>1, <3>1, PaymentStep
  <2>2. payment'[p] = payment[p]
    BY <1>1, <2>1, PaymentStep
  <2> QED BY <2>2 DEF Confirmed
<1>2. CASE ConfirmUpdate(q)
  <2>1. Confirmed(req[q].payment)' /\ req' = req
    BY <1>2, PaymentStep DEF ConfirmUpdate
  <2>2. p # req[q].payment => payment'[p] = payment[p]
    BY <1>2, PaymentStep
  <2> QED BY <2>1, <2>2 DEF Confirmed
<1>3. CASE ~(SubmitInsert(q) \/ FailInsert(q) \/ ConfirmUpdate(q) \/ RejectUpdate(q))
  BY <1>3, PaymentsKept DEF Confirmed
<1> QED BY <1>1, <1>2, <1>3

\* How a request comes to the steps ReadInv speaks of.
LEMMA ReadStep ==
  ASSUME TablesOK, NamesInv, ReadInv, Alone', NEW q \in Requests,
         Arrive(q) \/ Proceed(q) \/ Fail(q)
  PROVE  ReadInv'
<1>1. \A o \in Requests \ {q} : pc[o] = "idle" /\ pc'[o] = "idle" /\ req'[o] = req[o]
  BY OneRequestMoves
<1>2. ASSUME pc'[q] = "rj_update"
      PROVE  RejectGetPayment(q)
  BY <1>2
  DEF Arrive, BeginSubmit, BeginConfirm, BeginReject, BeginReceipt, BeginReview,
      Begin, Proceed, SubmitGetBill, SubmitUpload, SubmitInsert, SubmitCleanup,
      SubmitSetBill, SubmitAudit, ConfirmGetPayment, ConfirmUpdate, ConfirmSetBill,
      ConfirmAudit, RejectUpdate, RejectSetBill, RejectAudit, Review, SetBill, Log,
      ReceiptGetBill, ReceiptListPayments, Fail, Abandon, FailInsert, LoseBillStatus,
      Goto, Finish, TablesOK
<1>3. ASSUME pc'[q] = "cf_bill"
      PROVE  ConfirmUpdate(q)
  BY <1>3
  DEF Arrive, BeginSubmit, BeginConfirm, BeginReject, BeginReceipt, BeginReview,
      Begin, Proceed, SubmitGetBill, SubmitUpload, SubmitInsert, SubmitCleanup,
      SubmitSetBill, SubmitAudit, ConfirmGetPayment, ConfirmSetBill, RejectGetPayment,
      ConfirmAudit, RejectUpdate, RejectSetBill, RejectAudit, Review, SetBill, Log,
      ReceiptGetBill, ReceiptListPayments, Fail, Abandon, FailInsert, LoseBillStatus,
      Goto, Finish, TablesOK
<1>4. ASSUME pc'[q] = "rc_payments"
      PROVE  ReceiptGetBill(q)
  BY <1>4
  DEF Arrive, BeginSubmit, BeginConfirm, BeginReject, BeginReceipt, BeginReview,
      Begin, Proceed, SubmitGetBill, SubmitUpload, SubmitInsert, SubmitCleanup,
      SubmitSetBill, SubmitAudit, ConfirmGetPayment, ConfirmSetBill, RejectGetPayment,
      ConfirmUpdate, ConfirmAudit, RejectUpdate, RejectSetBill, RejectAudit, Review,
      SetBill, Log, ReceiptListPayments, Fail, Abandon, FailInsert, LoseBillStatus,
      Goto, Finish, TablesOK
<1>5. ASSUME pc'[q] = "rj_update"
      PROVE  ~Confirmed(req[q].payment)'
  <2>1. Review(q, "rj_payment", {"confirmed", "rejected"}, "rj_update")
    BY <1>2, <1>5 DEF RejectGetPayment
  <2>2. ~Finish(q)
    BY <1>5 DEF Finish, TablesOK
  <2>3. payment[req[q].payment].status # "confirmed" /\ UNCHANGED <<payment, req>>
    BY <2>1, <2>2 DEF Review, tables
  <2> QED BY <2>3 DEF Confirmed
<1>6. ASSUME pc'[q] = "cf_bill"
      PROVE  Confirmed(req[q].payment)'
  BY <1>3, <1>6, PaymentStep
<1>7. ASSUME pc'[q] = "rc_payments"
      PROVE  bill'[req'[q].bill] = "paid"
  <2>1. ~Finish(q)
    BY <1>7 DEF Finish, TablesOK
  <2> QED BY <1>4, <1>7, <2>1 DEF ReceiptGetBill, tables
<1>8. ASSUME NEW o \in Requests, pc'[o] # "idle"
      PROVE  o = q
  BY <1>1, <1>8
<1> QED BY <1>5, <1>6, <1>7, <1>8 DEF ReadInv

\* A bill becomes paid once its payment is confirmed, and stays confirmed.
LEMMA SettledStep ==
  ASSUME TablesOK, NamesInv, ReadInv, SettledInv, ~overlapped', [Next]_vars
  PROVE  ReadInv' /\ SettledInv'
<1>1. CASE Next
  <2>1. PICK q \in Requests : Arrive(q) \/ Proceed(q) \/ Fail(q)
    BY <1>1 DEF Next
  <2>. Alone'
    BY <1>1 DEF Next
  <2>2. ReadInv' /\ RowsStay
    BY <1>1, <2>1, ReadStep, StepOK
  <2>3. ASSUME NEW b \in Bills, NEW p \in ConfirmedFor(b)
        PROVE  p \in ConfirmedFor(b)'
    <3>1. p \in Payments /\ Confirmed(p) /\ payment[p].bill = b
      BY DEF ConfirmedFor, Confirmed
    <3>2. Confirmed(p)'
      BY <2>1, <3>1, ConfirmedStays
    <3> QED BY <2>2, <3>1, <3>2 DEF RowsStay, Rows, ConfirmedFor, Confirmed
  <2>4. BillsAreSettled'
    <3> SUFFICES ASSUME NEW b \in Bills, bill'[b] = "paid"
                 PROVE  ConfirmedFor(b)' # {}
      BY DEF BillsAreSettled
    <3>1. CASE bill[b] = "paid"
      BY <2>3, <3>1 DEF SettledInv, BillsAreSettled
    <3>2. CASE bill[b] # "paid"
      <4>1. pc[q] = "cf_bill" /\ req[q].bill = b
        BY <2>1, <3>2, PaidStep
      <4>2. req[q].payment \in ConfirmedFor(b)
        BY <4>1 DEF ReadInv, TablesOK, RequestOK, ConfirmSteps, Rows, ConfirmedFor, Confirmed
      <4> QED BY <2>3, <4>2
    <3> QED BY <3>1, <3>2
  <2>5. AllAreDated'
    <3>1. CASE ReceiptListPayments(q)
      <4>1. ConfirmedFor(req[q].bill) # {}
        BY <3>1 DEF ReceiptListPayments, ReadInv, TablesOK, RequestOK, SettledInv,
                    BillsAreSettled
      <4> QED BY <3>1, <4>1 DEF ReceiptListPayments, SettledInv, AllAreDated
    <3>2. CASE ~ReceiptListPayments(q)
      <4>1. UNCHANGED receipts
        BY <2>1, <3>2
        DEF Arrive, BeginSubmit, BeginConfirm, BeginReject, BeginReceipt, BeginReview,
            Begin, Proceed, SubmitGetBill, SubmitUpload, SubmitInsert, SubmitCleanup,
            SubmitSetBill, SubmitAudit, ConfirmGetPayment, ConfirmUpdate,
            ConfirmSetBill, ConfirmAudit, RejectGetPayment, RejectUpdate,
            RejectSetBill, RejectAudit, Review, SetBill, Log, ReceiptGetBill, Fail,
            Abandon, FailInsert, LoseBillStatus, tables
      <4> QED BY <4>1 DEF SettledInv, AllAreDated
    <3> QED BY <3>1, <3>2
  <2> QED BY <2>2, <2>4, <2>5 DEF SettledInv
<1>2. CASE UNCHANGED vars
  BY <1>2
  DEF vars, ReadInv, Alone, SettledInv, Confirmed, ConfirmedFor, BillsAreSettled, AllAreDated
<1> QED BY <1>1, <1>2

\* As long as they have come one at a time, requests keep paid bills and confirmed
\* payments together.
SerialInv == ~overlapped => ReadInv /\ SettledInv

LEMMA SettledInvariant == Spec => []SerialInv
<1>1. Init => SerialInv
  BY DEF Init, SerialInv, ReadInv, Alone, SettledInv, BillsAreSettled, AllAreDated
<1>2. TablesOK /\ NamesInv /\ SerialInv /\ [Next]_vars => SerialInv'
  <2> SUFFICES ASSUME TablesOK, NamesInv, SerialInv, [Next]_vars, ~overlapped'
               PROVE  ReadInv' /\ SettledInv'
    BY DEF SerialInv
  <2>1. ~overlapped
    BY DEF Next, vars
  <2> QED BY <2>1, SettledStep DEF SerialInv
<1> QED BY <1>1, <1>2, TablesInvariant, NamesInvariant, PTL DEF Spec

\* Requests handled one at a time, whatever fails half-way: a paid bill has a
\* confirmed payment.
THEOREM PaidBillsAreSettled == Spec => []PaidBillHasConfirmedPayment
<1>1. SerialInv => PaidBillHasConfirmedPayment
  BY DEF SerialInv, SettledInv, BillsAreSettled, PaidBillHasConfirmedPayment
<1> QED BY <1>1, SettledInvariant, PTL

\* Requests handled one at a time, whatever fails half-way: a receipt bears the date
\* of a payment.
THEOREM ReceiptsAreDated == Spec => []ReceiptIsDated
<1>1. SerialInv => ReceiptIsDated
  BY DEF SerialInv, SettledInv, AllAreDated, ReceiptIsDated
<1> QED BY <1>1, SettledInvariant, PTL

=============================================================================
