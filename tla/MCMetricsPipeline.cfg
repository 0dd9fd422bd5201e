SPECIFICATION Spec
CONSTANTS
    Nobody = Nobody
    Sources <- MCSources
    RingSize = 1
    EventChSize = 1
    KeepEvents = 1
    InputSize = 1
    WindowSize = 2
    MaxPackets = 2
INVARIANTS
    TypeOK
    CountsConserved
    EventsConserved
    WindowIsRecent
PROPERTIES
    ImplementsTotalsFeed
    TotalsReachDashboard
