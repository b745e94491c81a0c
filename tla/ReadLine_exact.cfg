SPECIFICATION FairSpec
CONSTANTS
    BufferSize = 2
    MaxSize = 4
    MaxInput = 5
    Faults = TRUE
INVARIANT LineConsistent
PROPERTY LineReturned
CHECK_DEADLOCK FALSE
