SPECIFICATION FairSpec
CONSTANTS
    NReq = 2
    MaxOut = 1
    MaxFull = 1
    Builds <- CppBuild
CHECK_DEADLOCK FALSE
INVARIANT NeverStalled
