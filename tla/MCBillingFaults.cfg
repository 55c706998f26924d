SPECIFICATION Spec
CONSTANTS
    Contracts = {c1, c2}
    Bills = {b1, b2, b3}
    Periods = {m1, m2}
    MonthlyPrice = 100
    ChargeLists <- WholeCents
    Requests = {q1}
    Serial = TRUE
    Faults = TRUE
    None = None
SYMMETRY Interchangeable
INVARIANT TypeOK
INVARIANT UtilityMatchesCharges
PROPERTY EveryActiveContractBilled
