CONSTANTS
    p1 = p1
    c1 = c1
    Requests <- MCRequests
    PipelineRequests <- MCPipelines
SPECIFICATION FairSpec
CHECK_DEADLOCK FALSE
INVARIANTS
    EndIsLogged
    RowsOnce
    NoOrphanWork
PROPERTIES
    RefinesTraceLog
    EveryCallEnds
