SPECIFICATION FairSpec
CONSTANTS
    Kinds <- AllKinds
    Addr <- AddrOf
    Size <- SizeOf
    ReplySize <- ReplySizeOf
    SIZE_MIN = 2
    SIZE_MAX = 4
    BUF_SIZE = 4
    MasterWaits = "t35"
    MaxRequests = 2
    MaxFaults = 1
INVARIANTS
    
    ExecutesWholeRequests
    ExecutedOnce
    RepliesMatch
PROPERTIES
    ListensAgain
    RequestAnswered
CHECK_DEADLOCK FALSE
