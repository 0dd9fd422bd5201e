SPECIFICATION Spec
CONSTANTS
    c1 = c1
    c2 = c2
    s1 = s1
    s2 = s2
    NoSlot = NoSlot
    CPUs <- MCCPUs
    Slots <- MCSlots
    Addrs <- MCAddrs
    BlocklistMax = 1
    RingSize = 1
    Thresholds = {0, 2}
    Windows = {1}
    Wrap = 8
    LittleEndian = TRUE
    MaxTime = 1
    MaxPackets = 3
SYMMETRY Symmetry
INVARIANTS
    TypeOK
    NoPrematureRateDrop
    VerdictFollowsMaps
    EventsNeverOutrunDrops
    ListingMatchesRequests
PROPERTY
    ImplementsKernelView
