SPECIFICATION FairSpec
CONSTANTS
    Backends = {"rtu", "rtu_tcp", "tcp"}
    RETRY = 2
    RESTART = 2
    MAX_NB = 1
    Quantities = {1, 2}
    TID_MOD = 16
    Resets = TRUE
    MaxCalls = 2
    MaxFaults = 2
CHECK_DEADLOCK FALSE
INVARIANTS
    OwnAnswer
    ContextOwned
    ReadsRecover
PROPERTIES
    CallReturns
