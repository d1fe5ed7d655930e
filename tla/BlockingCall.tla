---------------------------- MODULE BlockingCall ----------------------------
(***************************************************************************)
(* The non-streaming answer of the data plane: _run_pipeline (stream off)  *)
(* and _passthrough of backend/app/gateways/llm_gateway.py.  The handler   *)
(* task starts a second task, work = ensure_future(...), and awaits it     *)
(* bare.  When the handler is cancelled it either hands work to a third    *)
(* task, _detached_*_persist, or cancels it and logs the cancellation.     *)
(*                                                                         *)
(* asyncio (external): cancelling a task that awaits another task cancels  *)
(* the awaited one, and the waiter sees CancelledError once that one has   *)
(* ended; if the awaited task had already ended, its result is kept and    *)
(* the waiter sees CancelledError on its next step.                        *)
(***************************************************************************)
EXTENDS Naturals, Sequences

CONSTANTS Requests,          \* non-streaming chat requests
          PipelineRequests   \* those whose model is a pipeline

ASSUME RequestsAssumption == PipelineRequests \subseteq Requests

VARIABLES
    detach,     \* settings.detach_on_disconnect, read from the environment at start
    status,     \* committed request_logs.status
    calls,      \* committed model_call_logs rows
    handler,    \* the request handler
    cancelled,  \* whether the handler has been cancelled
    work,       \* strategy.run(ctx) or adapter.complete(request)
    members,    \* the calls work has out in tasks of their own, by gather
    persister   \* _detached_pipeline_persist / _detached_passthrough_persist

logVars == <<status, calls>>
vars    == <<detach, status, calls, handler, cancelled, work, members, persister>>

LogStatus == {"success", "degraded", "failed", "client_cancelled"}
Rows  == <<"calls">>   \* the rows of one execution, written together
Log   == INSTANCE TraceLog WITH Batches <- {<<>>, Rows}

Ended == {"success", "degraded", "failed", "crashed", "cancelled"}
Over  == {"replied", "rejected", "errored", "cancelled", "aborted"}

(* What the work may come to by itself: only a strategy degrades, and only *)
(* an AdapterError or StrategyExecutionError is a "failed".                *)
Results(r) == {"success", "failed", "crashed"}
              \cup IF r \in PipelineRequests THEN {"degraded"} ELSE {}

Init ==
    /\ detach \in BOOLEAN
    /\ status    = [r \in Requests |-> "none"]
    /\ calls     = [r \in Requests |-> <<>>]
    /\ handler   = [r \in Requests |-> "idle"]
    /\ cancelled = [r \in Requests |-> FALSE]
    /\ work      = [r \in Requests |-> "none"]
    /\ members   = [r \in Requests |-> "none"]
    /\ persister = [r \in Requests |-> "none"]

Write(r, s, rows) ==
    /\ status' = [status EXCEPT ![r] = s]
    /\ calls'  = [calls EXCEPT ![r] = @ \o rows]

Move(r, to) == handler' = [handler EXCEPT ![r] = to]

-----------------------------------------------------------------------------
(* The handler before its first commit: the row is flushed, not visible.   *)

Accept(r) ==
    /\ handler[r] = "idle"
    /\ Move(r, "starting")
    /\ UNCHANGED <<detach, status, calls, cancelled, work, members, persister>>

(* _build_strategy_context: no enabled member or judge -> AllMembersFailed *)
ContextFails(r) ==
    /\ r \in PipelineRequests
    /\ handler[r] = "starting"
    /\ Move(r, "rejected")
    /\ Write(r, "failed", <<>>)
    /\ UNCHANGED <<detach, cancelled, work, members, persister>>

(* Any other exception or a cancellation rolls the flushed row back.       *)
StartAborts(r) ==
    /\ handler[r] = "starting"
    /\ Move(r, "aborted")
    /\ UNCHANGED <<detach, status, calls, cancelled, work, members, persister>>

Launch(r) ==
    /\ handler[r] = "starting"
    /\ Move(r, "waiting")
    /\ Write(r, "pending", <<>>)
    /\ work' = [work EXCEPT ![r] = "running"]
    /\ members' = [members EXCEPT ![r] = IF r \in PipelineRequests THEN "out" ELSE "none"]
    /\ UNCHANGED <<detach, cancelled, persister>>

-----------------------------------------------------------------------------
(* A member raised something that run_one does not catch: gather passes    *)
(* that on at once and neither cancels the other members' calls nor waits. *)
GatherRaises(r) ==
    /\ work[r] = "running"
    /\ members[r] = "out"
    /\ members' = [members EXCEPT ![r] = "left"]
    /\ UNCHANGED <<detach, status, calls, handler, cancelled, work, persister>>

WorkEnds(r) ==
    /\ work[r] = "running"
    /\ \/ /\ members[r] = "left"
          /\ work' = [work EXCEPT ![r] = "crashed"]
          /\ UNCHANGED members
       \/ /\ members[r] # "left"
          /\ \E result \in Results(r) : work' = [work EXCEPT ![r] = result]
          /\ members' = [members EXCEPT ![r] = "none"]
    /\ UNCHANGED <<detach, status, calls, handler, cancelled, persister>>

(* Slip: the members are tasks of their own instead of gather's, and       *)
(* nobody passes the cancellation on to them.                              *)
SlipMembersGoOn(r) ==
    /\ work[r] = "cancelling"
    /\ work' = [work EXCEPT ![r] = "cancelled"]
    /\ UNCHANGED <<detach, status, calls, handler, cancelled, members, persister>>

(* A cancelled gather cancels its children and ends with the first of them *)
(* that does; one that has raised already has nothing to cancel any more.  *)
WorkCancelled(r) ==
    /\ work[r] = "cancelling"
    /\ work' = [work EXCEPT ![r] = "cancelled"]
    /\ members' = [members EXCEPT ![r] = IF @ = "out" THEN "stopping" ELSE @]
    /\ UNCHANGED <<detach, status, calls, handler, cancelled, persister>>

MembersEnd(r) ==
    /\ members[r] \in {"stopping", "left"}
    /\ members' = [members EXCEPT ![r] = "none"]
    /\ UNCHANGED <<detach, status, calls, handler, cancelled, work, persister>>

(* The framework cancels the handler while it awaits work.                 *)
CancelWaiting(r) ==
    /\ handler[r] = "waiting"
    /\ ~cancelled[r]
    /\ cancelled' = [cancelled EXCEPT ![r] = TRUE]
    /\ work' = [work EXCEPT ![r] = IF @ = "running" THEN "cancelling" ELSE @]
    /\ UNCHANGED <<detach, status, calls, handler, members, persister>>

-----------------------------------------------------------------------------
(* The handler resumes with the result of work: rows and status are        *)
(* flushed ("writing"), then committed, and only then is the answer sent.  *)

Resume(r) ==
    /\ handler[r] = "waiting"
    /\ ~cancelled[r]
    /\ work[r] \in {"success", "degraded", "failed"}
    /\ Move(r, "writing")
    /\ UNCHANGED <<detach, status, calls, cancelled, work, members, persister>>

(* Slip: the failure branch returns its 502 without writing the trace.     *)
SlipFailureUnwritten(r) ==
    /\ handler[r] = "writing"
    /\ IF work[r] = "failed" THEN UNCHANGED logVars ELSE Write(r, work[r], Rows)
    /\ Move(r, IF work[r] = "failed" THEN "rejected" ELSE "replied")
    /\ UNCHANGED <<detach, cancelled, work, members, persister>>

CommitAndReply(r) ==
    /\ handler[r] = "writing"
    /\ Write(r, work[r], Rows)
    /\ Move(r, IF work[r] = "failed" THEN "rejected" ELSE "replied")
    /\ UNCHANGED <<detach, cancelled, work, members, persister>>

(* No except clause is for any other exception: it becomes a 500.          *)
ResumeCrashed(r) ==
    /\ handler[r] = "waiting"
    /\ ~cancelled[r]
    /\ work[r] = "crashed"
    /\ Move(r, "errored")
    /\ UNCHANGED <<detach, status, calls, cancelled, work, members, persister>>

(* Cancelled inside the final transaction: it is rolled back.              *)
CancelWriting(r) ==
    /\ handler[r] = "writing"
    /\ cancelled' = [cancelled EXCEPT ![r] = TRUE]
    /\ Move(r, "cancelled")
    /\ UNCHANGED <<detach, status, calls, work, members, persister>>

(* Slip: the except clause goes on after handing over (no raise).          *)
SlipHandOverGoesOn(r) ==
    /\ detach
    /\ handler[r] = "waiting"
    /\ cancelled[r]
    /\ work[r] \in {"success", "degraded", "failed"}
    /\ persister' = [persister EXCEPT ![r] = "created"]
    /\ Move(r, "writing")
    /\ UNCHANGED <<detach, status, calls, cancelled, work, members>>

(* Slip: the hand-over waits for a result, which a cancelled work has not. *)
SlipHandOverNeedsResult(r) ==
    /\ detach
    /\ handler[r] = "waiting"
    /\ cancelled[r]
    /\ work[r] \in Ended \ {"cancelled"}
    /\ persister' = [persister EXCEPT ![r] = "created"]
    /\ Move(r, "cancelled")
    /\ UNCHANGED <<detach, status, calls, cancelled, work, members>>

(* except CancelledError, detach on: leave work to a detached task.        *)
HandOver(r) ==
    /\ detach
    /\ handler[r] = "waiting"
    /\ cancelled[r]
    /\ work[r] \in Ended
    /\ persister' = [persister EXCEPT ![r] = "created"]
    /\ Move(r, "cancelled")
    /\ UNCHANGED <<detach, status, calls, cancelled, work, members>>

(* except CancelledError, detach off: work.cancel() and a terminal status. *)
LogCancellation(r) ==
    /\ ~detach
    /\ handler[r] = "waiting"
    /\ cancelled[r]
    /\ work[r] \in Ended
    /\ Write(r, "client_cancelled", <<>>)
    /\ Move(r, "cancelled")
    /\ UNCHANGED <<detach, cancelled, work, members, persister>>

-----------------------------------------------------------------------------
(* Slip: the detached task writes the status but not the call rows.        *)
SlipNoRows(r) ==
    /\ persister[r] = "created"
    /\ work[r] \in {"success", "degraded", "failed", "crashed"}
    /\ persister' = [persister EXCEPT ![r] = "done"]
    /\ Write(r, IF work[r] = "crashed" THEN "failed" ELSE work[r], <<>>)
    /\ UNCHANGED <<detach, handler, cancelled, work, members>>

(* The detached task: like the handler, and an unexpected exception is     *)
(* logged as a failure without rows.                                       *)
DetachedPersist(r) ==
    /\ persister[r] = "created"
    /\ work[r] \in {"success", "degraded", "failed", "crashed"}
    /\ persister' = [persister EXCEPT ![r] = "done"]
    /\ IF work[r] = "crashed"
       THEN Write(r, "failed", <<>>)
       ELSE Write(r, work[r], Rows)
    /\ UNCHANGED <<detach, handler, cancelled, work, members>>

(* Its "except Exception" does not catch the CancelledError that awaiting  *)
(* a cancelled work raises.                                                *)
DetachedDies(r) ==
    /\ persister[r] = "created"
    /\ work[r] = "cancelled"
    /\ persister' = [persister EXCEPT ![r] = "dead"]
    /\ UNCHANGED <<detach, status, calls, handler, cancelled, work, members>>

-----------------------------------------------------------------------------
Handler(r) ==
    \/ ContextFails(r)
    \/ StartAborts(r)
    \/ Launch(r)
    \/ Resume(r)
    \/ CommitAndReply(r)
    \/ ResumeCrashed(r)
    \/ HandOver(r)
    \/ LogCancellation(r)

Work(r) == WorkEnds(r) \/ WorkCancelled(r)
Members(r) == GatherRaises(r) \/ MembersEnd(r)
Persister(r) == DetachedPersist(r) \/ DetachedDies(r)
Client(r) == Accept(r) \/ CancelWaiting(r) \/ CancelWriting(r)

Next == \E r \in Requests :
    Handler(r) \/ Work(r) \/ Members(r) \/ Persister(r) \/ Client(r)

Spec == Init /\ [][Next]_vars

(* Ready tasks run, and an upstream does not go on answering for ever: a    *)
(* silent one is cut off (EveryCallEnds of UpstreamCall), a talking one is  *)
(* not. Nothing obliges a client to call or to leave.                      *)
FairSpec == Spec /\ \A r \in Requests :
    WF_vars(Handler(r)) /\ WF_vars(Work(r)) /\ WF_vars(Persister(r))

-----------------------------------------------------------------------------
(* Properties *)

(* Every variable has its type.                                            *)
TypeOK ==
    /\ detach    \in BOOLEAN
    /\ status    \in [Requests -> {"none", "pending"} \cup LogStatus]
    /\ calls     \in [Requests -> Seq({"calls"})]
    /\ handler   \in [Requests -> {"idle", "starting", "waiting", "writing"} \cup Over]
    /\ cancelled \in [Requests -> BOOLEAN]
    /\ work      \in [Requests -> {"none", "running", "cancelling"} \cup Ended]
    /\ members   \in [Requests -> {"none", "out", "stopping", "left"}]
    /\ persister \in [Requests -> {"none", "created", "done", "dead"}]

(* The answer a client holds is the one its trace tells: the commit comes  *)
(* first, and no detached task or later cancellation changes it.           *)
AnswerIsLogged == \A r \in Requests :
    /\ handler[r] = "replied"  => status[r] \in {"success", "degraded"} /\ calls[r] = Rows
    /\ handler[r] = "rejected" => status[r] = "failed"

(* A degraded or complete answer of an execution is logged with its call   *)
(* rows exactly once, whichever of the two tasks writes them.              *)
RowsOnce == \A r \in Requests :
    /\ status[r] \in {"success", "degraded"} => calls[r] = Rows
    /\ status[r] \in {"none", "pending", "client_cancelled"} => calls[r] = <<>>

(* With detach off a request that is over leaves no upstream call going    *)
(* on, neither its own nor one of a member: each has ended or has been     *)
(* cancelled. The exception are the calls a gather that raised has left.   *)
NoOrphanWork == \A r \in Requests :
    ~detach /\ handler[r] \in Over =>
        work[r] \notin {"running", "cancelling"} /\ members[r] # "out"

(* A trace is left pending for good only if its handler was cancelled or   *)
(* its work raised something other than a gateway error.                   *)
PendingOnlyAfterTrouble == \A r \in Requests :
    /\ status[r] = "pending"
    /\ handler[r] \in Over
    /\ persister[r] # "created"
    => cancelled[r] \/ work[r] = "crashed"

(* However a request ends, the log says so: what was answered, and a       *)
(* pending trace only after a cancellation or a foreign exception.         *)
EndIsLogged == AnswerIsLogged /\ PendingOnlyAfterTrouble

(* The protocol writes the log only the way TraceLog allows.               *)
RefinesTraceLog == Log!LogSpec

(* Every request that was let in comes to an end.                          *)
EveryCallEnds == \A r \in Requests :
    handler[r] = "starting" ~> handler[r] \in Over

-----------------------------------------------------------------------------
(* What the repository says of the program *)

(* llm_gateway.py 491 and 541, requirements.md 106: once the detached task *)
(* is through, the trace is terminal, never pending.                       *)
DetachedNeverPending == \A r \in Requests :
    persister[r] \in {"done", "dead"} => status[r] \in LogStatus
=============================================================================
