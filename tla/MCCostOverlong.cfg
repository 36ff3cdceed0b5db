SPECIFICATION Spec
CONSTANTS
    DayLength = 8
    WeekLength = 2
    Base <- MCBase
    Sessions <- OverlongSessions
    Options <- MCOptions
    Unit = 1
    MaxTicks = 4
CHECK_DEADLOCK FALSE
INVARIANTS FinalTickIsTheFullCost
