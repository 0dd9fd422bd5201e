SPECIFICATION Spec
CONSTANTS
    r1 = r1
    r2 = r2
    k1 = k1
    k2 = k2
    Requests <- MCRequests
    Kids = {"a", "b"}
    Keys = {k1, k2}
    NoKey = NoKey
    Nobody = Nobody
    Publications <- MCPublications
    Tokens <- MCTokens
    TTL = 1
    Timeout = 1
INVARIANTS
    TypeOK
    CacheIsNewestAnswer
PROPERTIES
    StaleKeyBound
    NoFalseDenial
    EveryTokenIsJudged
