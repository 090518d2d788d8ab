SPECIFICATION Spec
CONSTANTS
    Goals = {g1}
    Users = {u1}
    Movers = {}
    NoUser = NoUser
    Reflections = {r1, r2}
    NoReflection = NoReflection
    LastDay = 4
    WeekLen = 2
    YearStart <- MCYearStart
    CreateTypes = {"daily", "weekly"}
    PatchStatuses = {"unset", "active", "paused"}
    PatchTypes = {"unset"}
    FreqValues = {1}
    MaxRepeats = 1
SYMMETRY Symmetry
PROPERTIES
    ConsecutiveWeekExtends
