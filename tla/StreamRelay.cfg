CONSTANTS
    p1 = p1
    c1 = c1
    Requests <- MCRequests
    PipelineRequests <- MCPipelines
    MaxChunks = 1
SPECIFICATION FairSpec
CHECK_DEADLOCK FALSE
INVARIANTS
    FinalRowAgrees
    SuccessIsEarned
    LastLinesTell
PROPERTIES
    RefinesTraceLog
    EveryStreamIsLogged
