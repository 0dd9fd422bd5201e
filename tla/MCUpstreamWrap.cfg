SPECIFICATION Spec
CONSTANTS
    r1 = r1
    r2 = r2
    Count = 3
    Requests <- OneRequest
    Overlap = 1
    UnhealthyThreshold = 1
    HealthyThreshold = 1
    CounterMax = 1
    TicketWrap = 4
    Conditions = {"up", "down"}
INVARIANT
    NoUpstreamMeansAllDown
