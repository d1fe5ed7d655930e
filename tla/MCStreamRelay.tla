--------------------------- MODULE MCStreamRelay ---------------------------
(* Small instances of StreamRelay for TLC.                                 *)
EXTENDS StreamRelay

CONSTANTS p1, c1   \* one passthrough request, one pipeline request

MCRequests == {p1, c1}
MCPipelines == {c1}
=============================================================================
