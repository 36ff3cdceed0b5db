SPECIFICATION FairSpec
CONSTANTS
    MaxRetries = 1
    MaxRegs = 2
    Prefer = "2.2.1"
    Versions <- MCVersions
    Details <- MCDetails
    Routes <- MCRoutes
CHECK_DEADLOCK FALSE
INVARIANTS BothSidesAgree LockedOutOnlyInDoubt
PROPERTIES RegisterReturns RemoteSpec
