SPECIFICATION Spec
SYMMETRY Symmetry
CONSTANTS
    MaxTime = 4
    Addresses = {a1}
    Callers = {c1, c2}
    Buckets = {b1, b2}
    Burst = 2
    IdleTTL = 3
    MaxGap = 1
    None = None
    NoBucket = NoBucket
    Bearers = {q1, q2}
    Issuers = {i1, i2}
    Kids = {k1}
    CacheTTL = 2
    FetchTime = 1
    Nobody = Nobody
    Users = {u1, u2}
    Requests = {q1, q2}
    Writers = {w1, w2}
    Statuses = {"resolved"}
    MaxAnnouncements = 1
    MaxNotes = 2
INVARIANT TypeOK
INVARIANT WindowBound
INVARIANT RetiredKeyBound
INVARIANT PublishedKeyIsKnown
INVARIANT RoleKept
INVARIANT NewsIsTrue
PROPERTY FetchedOnce
