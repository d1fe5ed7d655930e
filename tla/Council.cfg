CONSTANTS
    NumMembers = 3
    MaxConcurrency = 2
    Tools = {"lookup"}
SPECIFICATION Spec
INVARIANTS InFlightBound CallsAreAccounted AnswerKeepsTheRules NothingLeftRunning
PROPERTY EveryRunEnds
CHECK_DEADLOCK FALSE
