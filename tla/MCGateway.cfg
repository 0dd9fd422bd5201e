SPECIFICATION MainSpec
CONSTANTS
    q1 = q1
    Requests <- MCRequests
    Paths <- MCPaths
    Headers <- MCHeaders
    Absent = Absent
    ApiKeys <- MCApiKeys
    Tokens <- MCTokens
    Invalid = Invalid
    Mode = "both"
    Configs <- MCConfigs
    Startup <- First
    NoRoute = NoRoute
    MaxEdits = 2
INVARIANTS
    TypeOK
    LongestMatchServes
    ServedIsEntitled
PROPERTIES
    ReloadTakesEffect
    ShutdownTerminates
CHECK_DEADLOCK FALSE
