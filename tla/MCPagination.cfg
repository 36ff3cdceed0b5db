SPECIFICATION Spec
CONSTANTS
    Items = {1, 2}
    TicksPerSecond = 2
    PageSize = 2
    Limits = {0, 1}
    LinkForms = {"plain", "back"}
    None = None
    MaxTime = 4
    MaxPolls = 2
CHECK_DEADLOCK FALSE
INVARIANTS NothingMissed RepeatedOnlyAfterGrowth
PROPERTIES CancelledListsEnd
