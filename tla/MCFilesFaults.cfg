SPECIFICATION Spec
CONSTANTS
    Files = {f1, f2, f3}
    Tickets = {t1, t2}
    MaxPhotos = 2
    Requests = {q1, q2}
    Faults <- EveryFault
    None = None
SYMMETRY Interchangeable
INVARIANT TypeOK
INVARIANT AnswersAreTrue
INVARIANT NoOrphanFile
\* Orphaned files and tickets are never deleted: the system stops when all
\* identifiers of the instance are used up.
CHECK_DEADLOCK FALSE
