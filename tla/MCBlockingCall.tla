--------------------------- MODULE MCBlockingCall ---------------------------
(* Small instances of BlockingCall for TLC.                                *)
EXTENDS BlockingCall

CONSTANTS p1, c1   \* one passthrough request, one pipeline request

MCRequests == {p1, c1}
MCPipelines == {c1}
=============================================================================
