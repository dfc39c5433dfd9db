SPECIFICATION Spec
CONSTANTS
    Threads = {1, 2, 3}
    Procs = {1, 2}
    ProcOf <- TwoProcs
    MaxCount = 4
    MaxSize = 1
    Lens = {1}
    Olds <- SomeOlds
    MaxLines = 3
    MaxCrashes = 1
    MaxFaults = 1
INVARIANTS
    NothingOverwritten
    LogInOrder
PROPERTIES
    KeepsNewest
CHECK_DEADLOCK FALSE
