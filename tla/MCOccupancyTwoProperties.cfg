SPECIFICATION Spec
CONSTANTS
    r1 = r1
    r2 = r2
    p1 = p1
    p2 = p2
    o1 = o1
    Rooms = {r1, r2}
    Tenants = {t1, t2}
    Contracts = {c1, c2}
    Requests = {q1}
    Properties <- TwoProperties
    PropertyOf <- RoomInEach
    Owners = {o1}
    OwnerOf <- OneOwner
    Details = {d1}
    Amounts <- OneAmount
    EditStatuses <- NoRoomRequests
    Serial = TRUE
    Faults = FALSE
    None = None
SYMMETRY Interchangeable
INVARIANT OccupancyCount
