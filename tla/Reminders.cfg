SPECIFICATION Spec
CONSTANTS
    People = {p1, p2}
    Movers = {p2}
    Requests = {r1, r2}
    None = None
    MaxUid = 2
    Jobs = {j1, j2}
    LastDay = 1
    Photos = {f1}
    Lives = {1, 7}
    MaxActors = 2
SYMMETRY Symmetry
INVARIANTS
    TypeOK
    AnnouncedTruly
    OnceADay
    NobodyLeftOut
PROPERTIES
    PhotosKept
CHECK_DEADLOCK FALSE
