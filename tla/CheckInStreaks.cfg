SPECIFICATION Spec
CONSTANTS
    Goals = {g1}
    Users = {u1}
    Movers = {}
    NoUser = NoUser
    Reflections = {r1, r2}
    NoReflection = NoReflection
    LastDay = 4
    WeekLen = 2
    YearStart <- MCYearStart
    CreateTypes = {"daily", "weekly"}
    PatchStatuses = {"active", "paused"}
    PatchTypes = {"weekly"}
    FreqValues = {2}
    MaxRepeats = 1
SYMMETRY Symmetry
INVARIANTS
    TypeOK
    DailyRun
    WeeklyRun
    StreakEarned
    LongestCovers
    MondayAgrees
PROPERTIES
    LongestMonotone
    ExtendableKept
