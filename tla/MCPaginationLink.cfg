SPECIFICATION Spec
CONSTANTS
    Items = {1, 2}
    TicksPerSecond = 2
    PageSize = 2
    Limits = {0, 1}
    LinkForms = {"plain", "comma"}
    None = None
    MaxTime = 5
    MaxPolls = 2
CHECK_DEADLOCK FALSE
PROPERTY EveryItemAcrossAllPages
