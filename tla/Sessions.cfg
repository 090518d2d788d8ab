SPECIFICATION FairSpec
CONSTANTS
    Sessions = {p1, p2}
    Reflections = {1, 2, 3}
    None = None
    MaxInFlight = 2
    LastDay = 3
    WeekLen = 7
    YearStart <- MCYearStart
CONSTRAINT InOrder
INVARIANTS
    TypeOK
    LocksExclusive
    EventTied
PROPERTIES
    RequestsEnd
    CompletionKept
    ImplementsCheckIn
CHECK_DEADLOCK FALSE
