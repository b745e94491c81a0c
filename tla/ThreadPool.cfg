SPECIFICATION FairSpec
CONSTANTS
    t1 = t1 t2 = t2
    k1 = k1 k2 = k2 k3 = k3
    Thread <- TwoThreads
    Task <- ThreeTasks
    Exit = Exit
    None = None
    MaxQueue = 1
    IndexMax = 2
    SignalMayFail = TRUE
INVARIANTS
    TypeOK
    WaitingAccounting
    NoLostWakeup
    TasksAccounted
    DoneNotified
    ReadNeverBlocks
    DestroyedQuiescent
PROPERTIES
    ImplementsAsyncTasks
    TasksComplete
    DestroyTerminates
