SPECIFICATION Spec
CONSTANTS
    Bases <- MCBases
    Interfaces <- MCInterfaces
    Words <- MCWords
    Ids <- MCIds
    VersionNumbers <- MCVersions
    Prefix <- MCPrefix
    MaxRegistrations = 2
CHECK_DEADLOCK FALSE
INVARIANTS CallsReachTheirHandler IdsMayLookLikeRoutes WrongSideNeverAnswers OnlyTwinsCollide
