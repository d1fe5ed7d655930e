CONSTANTS
    p1 = p1
    c1 = c1
    Requests <- MCRequests
    PipelineRequests <- MCPipelines
    MaxChunks = 1
SPECIFICATION Spec
CHECK_DEADLOCK FALSE
INVARIANTS
    DisconnectIsLogged
