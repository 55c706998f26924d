SPECIFICATION Spec
SYMMETRY Symmetry
CONSTANTS
    MaxProperties = 2
    Rooms = {r1, r2}
    Tenants = {t1}
    Numbers = {n1}
    Requests = {q1, q2}
    None = None
    p1 = p1
    p2 = p2
    Estates = {p1, p2}
    Records <- ExportRecords
    NoBill = NoBill
INVARIANT TypeOK
INVARIANT ArchivedWithItsRooms
INVARIANT RoomTypeIsOfProperty
INVARIANT BillingOfFirstProperty
INVARIANT ExportHasItsParents
