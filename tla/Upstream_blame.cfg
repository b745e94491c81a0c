SPECIFICATION Spec
CONSTANTS
    Request = {r1, r2}
    None = None
    Confs <- NdgConfs
    RandomTries = 0
    FailTimeout = 1
    NextTimeout = 2
    MaxTime = 2
CHECK_DEADLOCK FALSE
INVARIANT BlamesUsedPeer
