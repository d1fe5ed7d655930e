CONSTANTS
    NumMembers = 2
    MaxConcurrency = 1
    Tools = {"lookup"}
SPECIFICATION RelaySpec
INVARIANTS LogTellsTheStory
PROPERTIES DrivesTheCouncil EveryStreamIsLogged
CHECK_DEADLOCK FALSE
