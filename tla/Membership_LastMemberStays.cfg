SPECIFICATION SSpec
CONSTANTS
    Users = {u1, u2}
    Pods = {p1}
    Nobody = Nobody
    Requests = {q1, q2}
    MaxInFlight = 2
PROPERTIES
    LastMemberStays
CHECK_DEADLOCK FALSE
