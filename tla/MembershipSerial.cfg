SPECIFICATION SSpec
CONSTANTS
    Users = {u1, u2, u3}
    Pods = {p1, p2}
    Nobody = Nobody
    Requests = {q1}
    MaxInFlight = 1
SYMMETRY Symmetry
INVARIANTS
    TypeOK
    RowsConsistent
PROPERTIES
    OwnerKept
    LastMemberStays
    OwnerSucceeded
    ImplementsMembership
CHECK_DEADLOCK FALSE
