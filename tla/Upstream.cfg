SPECIFICATION FairSpec
CONSTANTS
    Request = {r1, r2}
    None = None
    Confs <- AllConfs
    RandomTries = 0
    FailTimeout = 1
    NextTimeout = 2
    MaxTime = 4
CHECK_DEADLOCK FALSE
INVARIANTS
    PeersConsistent
    RoundRobinBlames
    TriesBounded
PROPERTIES
    NoLiveMeansNone
    RequestsEnd
