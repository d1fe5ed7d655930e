------------------------------ MODULE TraceLog ------------------------------
(***************************************************************************)
(* What the call log promises (backend/app/logging_svc.py), whatever path  *)
(* of the gateway writes it.  A request has one row in request_logs whose  *)
(* status goes pending -> success | degraded | failed | client_cancelled,  *)
(* and a list of rows in model_call_logs.  The rows are written in         *)
(* transactions: only what a commit makes visible is state here.           *)
(***************************************************************************)
EXTENDS Sequences

CONSTANTS Requests,   \* requests that reach the gateway
          Batches     \* call rows one transaction may write, as sequences

VARIABLES status,     \* status[r]: request_logs.status, "none" before any row
          calls       \* calls[r]: the rows of model_call_logs, in id order

logVars == <<status, calls>>

Terminal == {"success", "degraded", "failed", "client_cancelled"}

LogInit ==
    /\ status = [r \in Requests |-> "none"]
    /\ calls  = [r \in Requests |-> <<>>]

(* start_request and the rows already known, committed together.  A path   *)
(* that fails before its first commit writes the terminal status at once.  *)
Begin(r, s, rows) ==
    /\ status[r] = "none"
    /\ s \in {"pending"} \cup Terminal
    /\ status' = [status EXCEPT ![r] = s]
    /\ calls'  = [calls EXCEPT ![r] = rows]

(* record_call for the remaining rows and finish_request, in one commit.   *)
Finish(r, s, rows) ==
    /\ status[r] = "pending"
    /\ s \in Terminal
    /\ status' = [status EXCEPT ![r] = s]
    /\ calls'  = [calls EXCEPT ![r] = @ \o rows]

LogNext ==
    \E r \in Requests, s \in {"pending"} \cup Terminal, rows \in Batches :
        Begin(r, s, rows) \/ Finish(r, s, rows)

LogSpec == LogInit /\ [][LogNext]_logVars
=============================================================================
