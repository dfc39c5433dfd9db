SPECIFICATION Spec
CONSTANTS
    TxCap = 2
    RxCap = 1
    CONN_COUNT = 1
    SYS_INTV = 0
    SmCmds = {"READY", "OFFLINE"}
    MsgArrvdReturns = {1}
    LossAfterSuback = TRUE
    MaxUploads = 3
    CloudMsgs <- SetOnly
    MaxFaults = 2
INVARIANTS
    ClientOwnership
    LossBounded
    AnsweredOnce
PROPERTY FirstReceiptsInOrder
