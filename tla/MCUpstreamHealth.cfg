SPECIFICATION Spec
CONSTANTS
    r1 = r1
    r2 = r2
    Count = 1
    Requests <- OneRequest
    Overlap = 2
    UnhealthyThreshold = 2
    HealthyThreshold = 2
    CounterMax = 3
    TicketWrap = 2
    Conditions = {"up", "sick", "down"}
PROPERTIES
    UpComesBack
    UpIsFound
    DownIsFound
