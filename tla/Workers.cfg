SPECIFICATION FairSpec
CONSTANTS
    Procs = {w1, w2}
    Worker = {w1, w2}
    Free = Free
    MaxCrashes = 1
    NListening = 1
    Reserve = 1
    MaxFree = 1
    MaxClients = 1
    MaxFaults = 1
INVARIANTS
    MutualExclusion
    TokenAccounting
    NoStrandedSleeper
    AcceptDiscipline
PROPERTY ClientsAccepted
