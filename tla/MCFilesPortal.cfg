SPECIFICATION Spec
CONSTANTS
    Files = {f1}
    Tickets = {t1}
    MaxPhotos = 1
    Requests = {q1}
    Faults <- NoFault
    None = None
SYMMETRY Interchangeable
INVARIANT PhotosAreAttached
