SPECIFICATION Spec
CONSTANTS
    Sessions = {p1, p2}
    Reflections = {r1, r2, r3}
    None = None
    MaxInFlight = 2
    LastDay = 3
    WeekLen = 7
    YearStart <- MCYearStart
INVARIANTS
    StreakEarned
CHECK_DEADLOCK FALSE
