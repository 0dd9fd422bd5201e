SPECIFICATION WindowSpec
CONSTANTS
    c1 = c1
    c2 = c2
    s1 = s1
    s2 = s2
    NoSlot = NoSlot
    CPUs <- TwoCPUs
    Slots <- MCSlots
    Addrs <- OneAddr
    BlocklistMax = 0
    RingSize = 0
    Thresholds = {2}
    Windows = {1}
    Wrap = 16
    LittleEndian = TRUE
    MaxTime = 1
    MaxPackets = 4
    Threshold = 2
    Window = 1
INVARIANT
    DropsOnlyOverThreshold
CHECK_DEADLOCK FALSE
