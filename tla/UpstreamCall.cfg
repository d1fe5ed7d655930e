CONSTANTS
    MaxRetries = 2
    MaxKept = 4
SPECIFICATION FairSpec
CHECK_DEADLOCK FALSE
INVARIANTS
    TextFromOneAttempt
    RetriesAreSpent
PROPERTIES
    EveryCallEnds
