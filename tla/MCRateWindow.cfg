SPECIFICATION WindowSpec
CONSTANTS
    c1 = c1
    c2 = c2
    s1 = s1
    s2 = s2
    NoSlot = NoSlot
    CPUs <- MCCPUs
    Slots <- MCSlots
    Addrs <- MCAddrs
    BlocklistMax = 0
    RingSize = 0
    Thresholds = {2}
    Windows = {2}
    Wrap = 16
    LittleEndian = TRUE
    MaxTime = 3
    MaxPackets = 5
    Threshold = 2
    Window = 2
SYMMETRY Symmetry
INVARIANTS
    TwiceThresholdPerWindow
    DropsOnlyAfterFullQuota
PROPERTY
    ImplementsFixedWindow
CHECK_DEADLOCK FALSE
