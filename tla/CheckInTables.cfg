SPECIFICATION Spec
CONSTANTS
    Goals = {g1, g2}
    Users = {u1}
    Movers = {u1}
    NoUser = NoUser
    Reflections = {r1, r2}
    NoReflection = NoReflection
    LastDay = 1
    WeekLen = 2
    YearStart <- MCYearStart
    CreateTypes = {"daily"}
    PatchStatuses = {"paused"}
    PatchTypes = {"unset"}
    FreqValues = {1}
    MaxRepeats = 2
SYMMETRY Symmetry
INVARIANTS
    EventBacked
    CompletedOnce
    ViewsAgree
    StatsCover
    PostsTell
PROPERTIES
    CompletionSticks
