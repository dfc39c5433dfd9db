SPECIFICATION FairSpec
CONSTANTS
    TxCap = 2
    RxCap = 1
    CONN_COUNT = 1
    SYS_INTV = 0
    SmCmds = {}
    MsgArrvdReturns = {1}
    LossAfterSuback = TRUE
    MaxUploads = 1
    CloudMsgs <- NoMsgs
    MaxFaults = 1
PROPERTY LossNoticed
