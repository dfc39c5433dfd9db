SPECIFICATION FairSpec
CONSTANTS
    Iovecs <- TwoBuffers
    Input <- TwoPackets
    MaxPublish = 2
    MaxPings = 1
    MaxConns = 2
    MaxFaults = 1
INVARIANTS
    PacketsWhole
    PacketsRead
PROPERTIES
    PendingEnds
    BrokenIsClosed
