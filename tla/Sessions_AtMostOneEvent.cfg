SPECIFICATION Spec
CONSTANTS
    Sessions = {p1, p2}
    Reflections = {r1, r2}
    None = None
    MaxInFlight = 2
    LastDay = 1
    WeekLen = 7
    YearStart <- MCYearStart
INVARIANTS
    AtMostOneEvent
CHECK_DEADLOCK FALSE
