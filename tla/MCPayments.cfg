SPECIFICATION Spec
CONSTANTS
    Bills = {b1, b2}
    Payments = {m1, m2}
    Requests = {q1, q2}
    Faults <- EveryFault
    None = None
SYMMETRY Interchangeable
INVARIANT TypeOK
INVARIANT PaidWasEarned
INVARIANT AuditTellsTheTruth
INVARIANT ProofStored
INVARIANT NoOrphanProof
INVARIANT PaidBillHasConfirmedPayment
INVARIANT ReceiptIsDated
