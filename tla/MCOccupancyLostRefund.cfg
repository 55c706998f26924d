SPECIFICATION Spec
CONSTANTS
    r1 = r1
    r2 = r2
    p1 = p1
    p2 = p2
    o1 = o1
    Rooms = {r1}
    Tenants = {t1}
    Contracts = {c1}
    Requests = {q1}
    Properties <- OneProperty
    PropertyOf <- AllInOne
    Owners = {o1}
    OwnerOf <- OneOwner
    Details = {d1}
    Amounts <- TwoAmounts
    EditStatuses <- NoRoomRequests
    Serial = TRUE
    Faults = TRUE
    None = None
SYMMETRY Interchangeable
INVARIANT AuditedRefundIsRecorded
