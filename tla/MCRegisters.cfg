SPECIFICATION RegSpec
CONSTANTS
    Fields <- TwoFields
    Reg <- RegOf
    MDLInit <- InitOf
    NREGS = 4
    REG = 8
    BYTE = 8
    READ_MAX = 2
    WRITE_MAX = 2
    Addresses = {0, 1, 2, 3, 4}
    Counts = {0, 1, 2, 3, 9}
    Lengths = {5, 6}
    ByteCounts = {2, 4}
    Values = {3, 7}
    Params <- SetValues
    MaxRegRequests = 3
    MaxSets = 2
PROPERTY ReadsKnown
CHECK_DEADLOCK FALSE
