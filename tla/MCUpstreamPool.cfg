SPECIFICATION Spec
CONSTANTS
    r1 = r1
    r2 = r2
    Count = 2
    Requests <- MCRequests
    Overlap = 1
    UnhealthyThreshold = 1
    HealthyThreshold = 1
    CounterMax = 1
    TicketWrap = 2
    Conditions = {"up", "down"}
SYMMETRY Symmetry
INVARIANTS
    TypeOK
    NoUpstreamMeansAllDown
    EvenSpread
