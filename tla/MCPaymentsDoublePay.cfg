SPECIFICATION Spec
CONSTANTS
    Bills = {b1}
    Payments = {m1, m2, m3}
    Requests = {q1}
    Faults <- NoFault
    None = None
SYMMETRY Interchangeable
PROPERTY SettledBillTakesNoPayment
