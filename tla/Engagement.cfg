SPECIFICATION FairSpec
CONSTANTS
    Users = {u1, u2}
    Posts = {p1}
    Kinds = {k1, k2}
    Requests = {q1, q2}
    None = None
    Leavers = {u1}
    Outsiders = {u2}
    MaxCrashes = 1
INVARIANTS
    TypeOK
    LoggedTruly
    OneReaction
PROPERTIES
    
    OwnerTold
CHECK_DEADLOCK FALSE
