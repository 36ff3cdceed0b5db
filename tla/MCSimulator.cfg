SPECIFICATION Spec
CHECK_DEADLOCK FALSE
CONSTANTS
    none = none
    unreadable = unreadable
    garbage = garbage
    list = list
    plain = plain
    bare = bare
    claim = claim
    rare = rare
    huge = huge
    None = none
    Unreadable = unreadable
    Forms <- EveryForm
    Texts <- EveryText
    Serialize <- SerializeEvery
    Deserialize <- DeserializeEvery
    Versions <- EveryVersion
    Options = {"utc", "local"}
    Units = {10, 30}
    NoTariff = {bare}
    ClaimsTotal = {claim}
    Unpriced <- NoPayload
    Unverified <- NoText
    Oversized <- EveryLongLink
    Objects <- EveryObject
    Unrestorable = {rare}
    Default <- DefaultScenario
    MaxEdits = 2
INVARIANTS
    ScreenIsCurrent
    SeriesIsCurrent
    VerdictIsOfTheReport
    LinkIsCurrent
PROPERTIES
    EverythingCatchesUp
    NothingStaleAppears
