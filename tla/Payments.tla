------------------------------- MODULE Payments -------------------------------
(***************************************************************************)
(* Paying a bill: SubmitPayment, ConfirmPayment and RejectPayment of       *)
(* BillingService (internal/service/billing.go).                           *)
(*                                                                         *)
(* A tenant submits a payment with a proof image, the owner confirms or    *)
(* rejects it.  As everywhere in the service layer a request is a          *)
(* goroutine that sends SQL statements committed one by one, and here also *)
(* calls the storage service; one action is one statement or one call.     *)
(* Callers who do not own the bill leave before anything is written and    *)
(* are not modelled; a request ends where the code returns.                *)
(***************************************************************************)
EXTENDS Naturals, FiniteSets

CONSTANTS
    Bills,
    Payments,   \* a payment and the proof file uploaded for it
    Requests,   \* requests that may be in flight at once
    Faults,     \* which of FaultKinds may happen
    None

\* sql: a statement fails and has no effect.  reply: it takes effect, but the
\* connection breaks and the code sees an error.  storage: a call of the storage
\* service fails.  crash: the request dies between two steps.
FaultKinds == {"sql", "reply", "storage", "crash"}

ASSUME ConstantsAssumption ==
    /\ None \notin Payments \cup Bills
    /\ Faults \subseteq FaultKinds

VARIABLES
    bill,           \* bills.status
    payment,        \* the payments table, None where there is no row
    stored,         \* the files in the payment-proofs bucket
    audit,          \* the entries of audit_logs
    everConfirmed,  \* history: payments ever set to confirmed
    receipts,       \* history: undated, once one has been issued without a date
    pc,
    req,            \* the bill and the payment a request works on
    unsure,         \* history: payments whose insert took effect and reported an error
    astray,         \* history: proofs that a fault took out of their request's hands
    overlapped      \* history: have two requests ever been in flight at once

vars == <<bill, payment, stored, audit, everConfirmed, receipts, pc, req, unsure, astray,
          overlapped>>
tables == <<bill, payment, stored, audit, everConfirmed, receipts>>

BillStatus    == {"unpaid", "pending", "paid"}
PaymentStatus == {"pending", "confirmed", "rejected"}
PaymentRow    == [bill : Bills, status : PaymentStatus]

ASSUME NoneIsNoRow == None \notin PaymentRow

SubmitSteps  == {"su_bill", "su_upload", "su_insert", "su_cleanup",
                 "su_status", "su_audit"}
ConfirmSteps == {"cf_payment", "cf_update", "cf_bill", "cf_audit"}
RejectSteps  == {"rj_payment", "rj_update", "rj_bill", "rj_audit"}
ReceiptSteps == {"rc_bill", "rc_payments"}
Steps        == {"idle"} \cup SubmitSteps \cup ConfirmSteps \cup RejectSteps
                  \cup ReceiptSteps

Blank == [bill |-> None, payment |-> None]

-----------------------------------------------------------------------------
(* Control of a request *)

Goto(q, l) == pc' = [pc EXCEPT ![q] = l]

Finish(q) == /\ pc' = [pc EXCEPT ![q] = "idle"]
             /\ req' = [req EXCEPT ![q] = Blank]

Begin(q, l, b, p) ==
    /\ pc[q] = "idle"
    /\ Goto(q, l)
    /\ req' = [req EXCEPT ![q] = [bill |-> b, payment |-> p]]
    /\ UNCHANGED tables

Log(q, action) ==
    /\ audit' = audit \cup {<<action, req[q].payment>>}
    /\ Finish(q)
    /\ UNCHANGED <<bill, payment, stored, everConfirmed, receipts>>

\* queries.UpdateBillStatus, whose error every caller discards.
SetBill(q, from, status, to) ==
    /\ pc[q] = from
    /\ bill' = [bill EXCEPT ![req[q].bill] = status]
    /\ Goto(q, to)
    /\ UNCHANGED <<payment, stored, audit, everConfirmed, receipts, req>>

-----------------------------------------------------------------------------
(* SubmitPayment *)

\* A name for the file is a fresh UUID.
FreshName(p) == p \notin stored /\ payment[p] = None

\* Bound: a submission starts only while a name is left for it.
NameLeft == Cardinality({p \in Payments : FreshName(p)})
              > Cardinality({q \in Requests : pc[q] \in {"su_bill", "su_upload"}})

BeginSubmit(q) == NameLeft /\ \E b \in Bills : Begin(q, "su_bill", b, None)

SubmitGetBill(q) ==
    /\ pc[q] = "su_bill"
    /\ IF bill[req[q].bill] # "paid"
       THEN Goto(q, "su_upload") /\ UNCHANGED req
       ELSE Finish(q)                              \* ErrBillAlreadyPaid
    /\ UNCHANGED tables

\* Mutant: an error of the upload is discarded.
UnsureUpload(q) ==
    /\ pc[q] = "su_upload"
    /\ \E p \in Payments :
          /\ FreshName(p)
          /\ stored' \in {stored, stored \cup {p}}
          /\ req' = [req EXCEPT ![q].payment = p]
    /\ Goto(q, "su_insert")
    /\ UNCHANGED <<bill, payment, audit, everConfirmed, receipts>>

SubmitUpload(q) ==
    /\ pc[q] = "su_upload"
    /\ \E p \in Payments :
          /\ FreshName(p)
          /\ stored' = stored \cup {p}
          /\ req' = [req EXCEPT ![q].payment = p]
    /\ Goto(q, "su_insert")
    /\ UNCHANGED <<bill, payment, audit, everConfirmed, receipts>>

InsertPayment(q) ==
    payment' = [payment EXCEPT ![req[q].payment] =
                  [bill |-> req[q].bill, status |-> "pending"]]

SubmitInsert(q) ==
    /\ pc[q] = "su_insert"
    /\ InsertPayment(q)
    /\ Goto(q, "su_status")
    /\ UNCHANGED <<bill, stored, audit, everConfirmed, receipts, req>>

\* Mutant: after the clean-up the submission is logged as if it had succeeded.
CleanupAndLog(q) ==
    /\ pc[q] = "su_cleanup"
    /\ stored' = stored \ {req[q].payment}
    /\ Goto(q, "su_audit")
    /\ UNCHANGED <<bill, payment, audit, everConfirmed, receipts, req>>

\* DeleteFile after an insert that returned an error.
SubmitCleanup(q) ==
    /\ pc[q] = "su_cleanup"
    /\ stored' = stored \ {req[q].payment}
    /\ Finish(q)
    /\ UNCHANGED <<bill, payment, audit, everConfirmed, receipts>>

SubmitSetBill(q) == SetBill(q, "su_status", "pending", "su_audit")

SubmitAudit(q) == pc[q] = "su_audit" /\ Log(q, "submit_payment")

-----------------------------------------------------------------------------
(* ConfirmPayment and RejectPayment *)

\* A request for a payment that has no row gets ErrNotFound and is left out.
BeginReview(q, l) ==
    \E p \in Payments : /\ payment[p] # None
                        /\ Begin(q, l, payment[p].bill, p)

BeginConfirm(q) == BeginReview(q, "cf_payment")
BeginReject(q)  == BeginReview(q, "rj_payment")

\* GetPayment and the check of its status.
Review(q, from, refused, to) ==
    /\ pc[q] = from
    /\ IF payment[req[q].payment].status \notin refused
       THEN Goto(q, to) /\ UNCHANGED req
       ELSE Finish(q)
    /\ UNCHANGED tables

\* A rejected payment may still be confirmed.
ConfirmGetPayment(q) == Review(q, "cf_payment", {"confirmed"}, "cf_update")

\* Mutant: a confirmed payment may still be rejected.
RejectConfirmed(q) == Review(q, "rj_payment", {"rejected"}, "rj_update")

RejectGetPayment(q)  == Review(q, "rj_payment", {"confirmed", "rejected"},
                               "rj_update")

\* queries.UpdatePaymentStatus: WHERE id = $1, whatever the status is by now.
SetPayment(q, status) ==
    /\ payment' = [payment EXCEPT ![req[q].payment].status = status]
    /\ everConfirmed' = IF status = "confirmed"
                        THEN everConfirmed \cup {req[q].payment}
                        ELSE everConfirmed

ConfirmUpdate(q) ==
    /\ pc[q] = "cf_update"
    /\ SetPayment(q, "confirmed")
    /\ Goto(q, "cf_bill")
    /\ UNCHANGED <<bill, stored, audit, receipts, req>>

RejectUpdate(q) ==
    /\ pc[q] = "rj_update"
    /\ SetPayment(q, "rejected")
    /\ Goto(q, "rj_bill")
    /\ UNCHANGED <<bill, stored, audit, receipts, req>>

ConfirmSetBill(q) == SetBill(q, "cf_bill", "paid", "cf_audit")
RejectSetBill(q)  == SetBill(q, "rj_bill", "unpaid", "rj_audit")

ConfirmAudit(q) == pc[q] = "cf_audit" /\ Log(q, "confirm_payment")
RejectAudit(q)  == pc[q] = "rj_audit" /\ Log(q, "reject_payment")

-----------------------------------------------------------------------------
(* TenantPortalService.GetBillReceipt *)

BeginReceipt(q) == \E b \in Bills : Begin(q, "rc_bill", b, None)

\* Mutant: any bill has a receipt.
ReceiptForAny(q) ==
    /\ pc[q] = "rc_bill"
    /\ Goto(q, "rc_payments")
    /\ UNCHANGED req
    /\ UNCHANGED tables

ReceiptGetBill(q) ==
    /\ pc[q] = "rc_bill"
    /\ IF bill[req[q].bill] = "paid"
       THEN Goto(q, "rc_payments") /\ UNCHANGED req
       ELSE Finish(q)                              \* ErrBillNotPaid
    /\ UNCHANGED tables

ConfirmedFor(b) == {p \in Payments : /\ payment[p] # None
                                     /\ payment[p].bill = b
                                     /\ payment[p].status = "confirmed"}

\* The payment date is that of a confirmed payment, or is left empty.
ReceiptListPayments(q) ==
    /\ pc[q] = "rc_payments"
    /\ receipts' = IF ConfirmedFor(req[q].bill) = {} THEN "undated" ELSE receipts
    /\ Finish(q)
    /\ UNCHANGED <<bill, payment, stored, audit, everConfirmed>>

-----------------------------------------------------------------------------
(* Faults *)

\* The request ends with a file of its own in the bucket and no row it knows of.
LoseProof(q) ==
    astray' = IF pc[q] \in {"su_insert", "su_cleanup"}
              THEN astray \cup {req[q].payment} ELSE astray

\* A statement or a storage call whose error ends the request, or its death.
\* Losing an audit row is no different from ending before it is written.
Abandon(q) ==
    /\ \/ "crash" \in Faults /\ pc[q] # "idle" /\ LoseProof(q)
       \/ /\ "sql" \in Faults
          /\ pc[q] \in {"su_bill", "su_audit", "cf_payment", "cf_update",
                        "cf_audit", "rj_payment", "rj_update", "rj_audit",
                        "rc_bill", "rc_payments"}
          /\ UNCHANGED astray
       \/ "storage" \in Faults /\ pc[q] \in {"su_upload", "su_cleanup"} /\ LoseProof(q)
    /\ Finish(q)
    /\ UNCHANGED unsure
    /\ UNCHANGED tables

\* Mutant: a failed insert goes unnoticed.
IgnoreInsert(q) ==
    /\ pc[q] = "su_insert"
    /\ "sql" \in Faults
    /\ Goto(q, "su_status")
    /\ UNCHANGED <<bill, payment, stored, audit, everConfirmed, receipts, req, unsure, astray>>

\* Mutant: a failed insert returns at once and leaves the file.
FailInsertOnly(q) ==
    /\ pc[q] = "su_insert"
    /\ "sql" \in Faults
    /\ Finish(q)
    /\ UNCHANGED <<unsure, astray>>
    /\ UNCHANGED tables

\* The insert of the payment reports an error, with or without its effect.
FailInsert(q) ==
    /\ pc[q] = "su_insert"
    /\ \/ "sql" \in Faults /\ UNCHANGED <<payment, unsure>>
       \/ /\ "reply" \in Faults
          /\ InsertPayment(q)
          /\ unsure' = unsure \cup {req[q].payment}
    /\ Goto(q, "su_cleanup")
    /\ UNCHANGED <<bill, stored, audit, everConfirmed, receipts, req, astray>>

\* Mutant: an error of UpdatePaymentStatus is discarded as well.
LoseAnyStatus(q) ==
    /\ "sql" \in Faults
    /\ \/ pc[q] = "su_status" /\ Goto(q, "su_audit")
       \/ pc[q] = "cf_update" /\ Goto(q, "cf_bill")
       \/ pc[q] = "cf_bill"   /\ Goto(q, "cf_audit")
       \/ pc[q] = "rj_bill"   /\ Goto(q, "rj_audit")
    /\ UNCHANGED <<bill, payment, stored, audit, everConfirmed, receipts, req, unsure, astray>>

\* UpdateBillStatus fails and its error is discarded.
LoseBillStatus(q) ==
    /\ "sql" \in Faults
    /\ \/ pc[q] = "su_status" /\ Goto(q, "su_audit")
       \/ pc[q] = "cf_bill"   /\ Goto(q, "cf_audit")
       \/ pc[q] = "rj_bill"   /\ Goto(q, "rj_audit")
    /\ UNCHANGED <<bill, payment, stored, audit, everConfirmed, receipts, req, unsure, astray>>

-----------------------------------------------------------------------------
(* The specification *)

\* Bills as GenerateBills creates them, no payment yet.
Init ==
    /\ bill = [b \in Bills |-> "unpaid"]
    /\ payment = [p \in Payments |-> None]
    /\ stored = {} /\ audit = {} /\ everConfirmed = {} /\ receipts = "dated"
    /\ pc = [q \in Requests |-> "idle"]
    /\ req = [q \in Requests |-> Blank]
    /\ unsure = {} /\ astray = {} /\ overlapped = FALSE

\* What a request does once it has been accepted.
Proceed(q) ==
    /\ \/ SubmitGetBill(q) \/ SubmitUpload(q) \/ SubmitInsert(q)
       \/ SubmitCleanup(q) \/ SubmitSetBill(q) \/ SubmitAudit(q)
       \/ ConfirmGetPayment(q) \/ ConfirmUpdate(q) \/ ConfirmSetBill(q)
       \/ ConfirmAudit(q)
       \/ RejectGetPayment(q) \/ RejectUpdate(q) \/ RejectSetBill(q)
       \/ RejectAudit(q)
       \/ ReceiptGetBill(q) \/ ReceiptListPayments(q)
    /\ UNCHANGED <<unsure, astray>>

Arrive(q) ==
    /\ BeginSubmit(q) \/ BeginConfirm(q) \/ BeginReject(q) \/ BeginReceipt(q)
    /\ UNCHANGED <<unsure, astray>>

Fail(q) == Abandon(q) \/ FailInsert(q) \/ LoseBillStatus(q)

Alone == \A o, q \in Requests : pc[o] # "idle" /\ pc[q] # "idle" => o = q

Next ==
    /\ \E q \in Requests : Arrive(q) \/ Proceed(q) \/ Fail(q)
    /\ overlapped' = (overlapped \/ ~Alone')

Spec == Init /\ [][Next]_vars

-----------------------------------------------------------------------------
(* Properties *)

Quiescent == \A q \in Requests : pc[q] = "idle"
Rows      == {p \in Payments : payment[p] # None}

AuditActions == {"submit_payment", "confirm_payment", "reject_payment"}

\* What a request holds once it has reached a step.
RequestOK(q) ==
    /\ pc[q] # "idle" => req[q].bill \in Bills
    /\ pc[q] \in {"su_insert", "su_cleanup", "su_status", "su_audit"}
         => req[q].payment \in Payments
    /\ pc[q] \in {"su_status", "su_audit"} \cup ConfirmSteps \cup RejectSteps
         => req[q].payment \in Rows /\ payment[req[q].payment].bill = req[q].bill

TablesOK ==
    /\ bill \in [Bills -> BillStatus]
    /\ payment \in [Payments -> PaymentRow \cup {None}]
    /\ stored \subseteq Payments
    /\ audit \subseteq AuditActions \X Payments
    /\ everConfirmed \subseteq Payments
    /\ receipts \in {"dated", "undated"}
    /\ pc \in [Requests -> Steps]
    /\ req \in [Requests -> [bill : Bills \cup {None},
                              payment : Payments \cup {None}]]
    /\ \A q \in Requests : RequestOK(q)

\* Type invariant: the tables hold rows of their columns' types, and a request
\* past an insert or a lookup holds a payment that has a row.
TypeOK ==
    /\ TablesOK
    /\ unsure \subseteq Payments /\ astray \subseteq Payments /\ overlapped \in BOOLEAN

\* However requests interleave and fail, a bill is marked paid only once a
\* payment of that very bill has been confirmed (it may be rejected since).
PaidWasEarned ==
    \A b \in Bills : bill[b] = "paid" =>
       \E p \in everConfirmed : p \in Rows /\ payment[p].bill = b

\* However requests interleave and fail, the audit trail never runs ahead of the
\* tables: what it says was submitted has a row, what it says was confirmed was.
AuditTellsTheTruth ==
    \A p \in Payments :
       /\ <<"submit_payment", p>> \in audit => p \in Rows
       /\ <<"confirm_payment", p>> \in audit => p \in everConfirmed

\* As long as requests have come one at a time, whatever fails half-way: a paid bill
\* has a confirmed payment, although it may have others that were rejected.
PaidBillHasConfirmedPayment ==
    ~overlapped => \A b \in Bills : bill[b] = "paid" => ConfirmedFor(b) # {}

\* As long as requests have come one at a time: every receipt, which GetBillReceipt
\* issues for a paid bill only, bears the date of a payment.
ReceiptIsDated == ~overlapped => receipts = "dated"

\* SubmitPayment uploads before it inserts and deletes only after a failed insert,
\* so a payment always has its proof, but for one whose insert took effect and yet
\* reported an error.
ProofStored == Rows \subseteq stored \cup unsure

\* Every file left in the bucket is the proof of a payment once no request is in flight:
\* the clean-up leaves no orphan, but for a proof whose request died, or could not
\* delete it.
NoOrphanProof == Quiescent => stored \subseteq Rows \cup astray

\* billing.go: "ErrBillAlreadyPaid is returned when a payment is submitted for an
\* already-paid bill", so no payment is taken for a bill that has a confirmed one.
SettledBillTakesNoPayment ==
    [][\A p \in Payments : payment[p] = None /\ payment'[p] # None
         => ConfirmedFor(payment'[p].bill) = {}]_payment

=============================================================================
