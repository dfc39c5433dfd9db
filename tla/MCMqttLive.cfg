SPECIFICATION FairSpec
CONSTANTS
    TxCap = 2
    RxCap = 1
    CONN_COUNT = 2
    SYS_INTV = 1
    SmCmds = {}
    MsgArrvdReturns = {1}
    LossAfterSuback = FALSE
    MaxUploads = 2
    CloudMsgs <- SubThenBad
    MaxFaults = 2
PROPERTIES
    LossNoticed
    AllPublished
    CommandsProcessed
