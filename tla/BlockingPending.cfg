CONSTANTS
    p1 = p1
    c1 = c1
    Requests <- MCRequests
    PipelineRequests <- MCPipelines
SPECIFICATION Spec
CHECK_DEADLOCK FALSE
INVARIANTS
    DetachedNeverPending
