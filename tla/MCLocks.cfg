SPECIFICATION Spec
CONSTANTS
    MaxTime = 3
    Bearers = {q1, q2}
    Issuers = {i1}
    Kids = {k1}
    CacheTTL = 2
    FetchTime = 1
    Nobody = Nobody
    r1 = r1
    r2 = r2
    Places = {r1, r2}
    Clients = {o1, o2}
    Layouts <- SomeLayouts
    Edit = Edit
    Origin = Origin
INVARIANT TypeOK
PROPERTY EveryTokenDecided
PROPERTY LayoutIsWhole
PROPERTY LayoutEnds
