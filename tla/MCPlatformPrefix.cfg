SPECIFICATION Spec
CONSTANTS
    Bases <- MCBases
    Interfaces <- MC221
    Words <- MCWords
    Ids <- MCIds
    VersionNumbers <- MCVersions
    Prefix <- MCPrefix
    MaxRegistrations = 2
CHECK_DEADLOCK FALSE
INVARIANT MountableUnderAPrefix
