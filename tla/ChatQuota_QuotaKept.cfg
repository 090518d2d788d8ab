SPECIFICATION Spec
CONSTANTS
    Requests = {q1, q2, q3, q4, q5}
    MaxInFlight = 2
    Minute = 1
    Day = 4
    MinuteLimit = 1
    DayLimit = 2
    LastTick = 6
SYMMETRY Symmetry
INVARIANTS
    QuotaKept
CHECK_DEADLOCK FALSE
