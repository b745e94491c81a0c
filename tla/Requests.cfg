SPECIFICATION FairSpec
CONSTANTS
    NReq = 3
    MaxOut = 1
    MaxFull = 1
    Builds <- AllBuilds
CHECK_DEADLOCK FALSE
INVARIANTS
    TreeConsistent
    OutputExact
    StallsOnlyWithHook
PROPERTY RequestEnds
