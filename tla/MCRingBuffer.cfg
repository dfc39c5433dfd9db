SPECIFICATION RingSpec
CONSTANTS
    Elem = {e1, e2}
    Garbage = garbage
    SIZE = 4
    MaxArr = 4
INVARIANTS
    DequeueArrKeepsAll
PROPERTY FifoSpec
