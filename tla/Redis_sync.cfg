SPECIFICATION FairSpec
CONSTANTS
    Used <- AllMethods
    MaxBulks = 2
    MaxUnread = 2
    Binary = TRUE
INVARIANTS
    StreamConsistent
    OutcomeMatchesAnswer
PROPERTY CallsEnd
CHECK_DEADLOCK FALSE
