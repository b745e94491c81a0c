SPECIFICATION FairSpec
CONSTANTS
    NWorkers = 1
    MaxProcesses = 3
    KillDelay = 2
    MaxSignals = 3
    MaxFaults = 2
CHECK_DEADLOCK FALSE
INVARIANTS
    ChildrenTracked
    OrphansOnlyBesideBinary
    Capacity
PROPERTIES
    HandsOver
    TerminateEnds
    QuitEnds
    OldWorkersLeave
