CONSTANTS
    NumMembers = 2
    MaxRounds = 3
    Levels = 2
    Threshold = 2
SPECIFICATION Spec
INVARIANTS RowsTellTheRun RoundsAreJustified DegradedTellsTheTruth
PROPERTY EveryRunEnds
CHECK_DEADLOCK FALSE
