SPECIFICATION Spec
CONSTANTS
    k1 = k1
    k2 = k2
    Clients <- MCClients
    ChanSize = 1
    InputSize = 1
    MaxKicks = 1
INVARIANTS
    TypeOK
    NoPanic
    GapMeansKick
PROPERTIES
    ImplementsEventStreams
    GoneIsForgotten
    SlowIsKicked
    StopEndsStreams
CHECK_DEADLOCK FALSE
