SPECIFICATION Spec
CONSTANTS
    Bases <- MCTwoRoles
    Interfaces <- MC221
    Words <- MCWords
    Ids <- MCIds
    VersionNumbers <- MCVersions
    Prefix <- MCPrefix
    MaxRegistrations = 2
CHECK_DEADLOCK FALSE
INVARIANT DiscoveredEndpointAnswers
