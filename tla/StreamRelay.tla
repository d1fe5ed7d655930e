---------------------------- MODULE StreamRelay ----------------------------
(***************************************************************************)
(* The streaming answer of the data plane: _passthrough_stream and         *)
(* _pipeline_stream of backend/app/gateways/llm_gateway.py.  Three         *)
(* asyncio tasks share one queue and one StreamOutcome:                    *)
(*   pump     reads the upstream stream and puts SSE lines on the queue;   *)
(*   ferry    event_stream(), the response body the framework iterates;    *)
(*   persist  the background task that runs after the response.            *)
(* The asyncio.Queue has one reader, so it is the log of everything put    *)
(* ("sent") with a read cursor ("got").                                    *)
(***************************************************************************)
EXTENDS Naturals, Sequences

CONSTANTS Requests,          \* streaming chat requests
          PipelineRequests,  \* those whose model is a pipeline
          MaxChunks          \* bound: text or tool-call events of one upstream stream

ASSUME RequestsAssumption == PipelineRequests \subseteq Requests
ASSUME ChunksAssumption   == MaxChunks \in Nat

VARIABLES
    detach,   \* settings.detach_on_disconnect, read from the environment at start
    status,   \* committed request_logs.status, "none" while no row is visible
    calls,    \* committed model_call_logs rows
    handler,  \* the request handler, up to the response it returns
    pump,     \* the pump task
    outcome,  \* StreamOutcome.status
    parts,    \* how many pieces StreamOutcome.parts / tool_call_fragments hold
    sent,     \* everything put on the queue
    got,      \* how much of it the ferry has taken
    ferry,    \* event_stream()
    draft     \* the final call row persist has built but not committed

logVars  == <<status, calls>>
pumpVars == <<pump, parts, sent>>
vars     == <<detach, status, calls, handler, pump, outcome, parts, sent, got, ferry, draft>>

OutcomeStatus == {"client_cancelled", "success", "failed"}
Row == [role : {"members", "final"}, status : OutcomeStatus]
PreRow == [role |-> "members", status |-> "success"]
FinalRow(s) == [role |-> "final", status |-> s]

Log == INSTANCE TraceLog
       WITH Batches <- {<<>>, <<PreRow>>} \cup {<<FinalRow(s)>> : s \in OutcomeStatus}

(* SSE lines, abstracted to what a client can tell apart; "end" is the     *)
(* private sentinel _END that the ferry never yields.                      *)
Item == {"role", "chunk", "stop", "done", "error", "end"}

Init ==
    /\ detach \in BOOLEAN
    /\ status  = [r \in Requests |-> "none"]
    /\ calls   = [r \in Requests |-> <<>>]
    /\ handler = [r \in Requests |-> "idle"]
    /\ pump    = [r \in Requests |-> "none"]
    /\ outcome = [r \in Requests |-> "client_cancelled"]
    /\ parts   = [r \in Requests |-> 0]
    /\ sent    = [r \in Requests |-> <<>>]
    /\ got     = [r \in Requests |-> 0]
    /\ ferry   = [r \in Requests |-> "none"]
    /\ draft   = [r \in Requests |-> <<>>]

-----------------------------------------------------------------------------
(* The handler *)

(* Without an await after the commit: create the pump task and the         *)
(* response with persist.                                                  *)
OpenStream(r, rows) ==
    /\ status'  = [status EXCEPT ![r] = "pending"]
    /\ calls'   = [calls EXCEPT ![r] = rows]
    /\ handler' = [handler EXCEPT ![r] = "opened"]
    /\ pump'    = [pump EXCEPT ![r] = "created"]
    /\ UNCHANGED <<detach, outcome, parts, sent, got, ferry, draft>>

(* The session execute_chat holds is closed, an await, and the response is *)
(* the framework's.                                                        *)
Respond(r) ==
    /\ handler[r] = "opened"
    /\ handler' = [handler EXCEPT ![r] = "streaming"]
    /\ ferry'   = [ferry EXCEPT ![r] = "unstarted"]
    /\ UNCHANGED <<detach, status, calls, pump, outcome, parts, sent, got, draft>>

(* Cancelled there, the handler leaves the pump behind and a response that *)
(* nobody runs, with its background task.                                  *)
ResponseLost(r) ==
    /\ handler[r] = "opened"
    /\ handler' = [handler EXCEPT ![r] = "dropped"]
    /\ UNCHANGED <<detach, status, calls, pump, outcome, parts, sent, got, ferry, draft>>

(* Passthrough: the pending row is committed, then the stream opens.       *)
AcceptPassthrough(r) ==
    /\ r \notin PipelineRequests
    /\ handler[r] = "idle"
    /\ OpenStream(r, <<>>)

(* Pipeline: start_request only flushes; nothing is visible while          *)
(* prepare_stream runs the members and the critique.                       *)
AcceptPipeline(r) ==
    /\ r \in PipelineRequests
    /\ handler[r] = "idle"
    /\ handler' = [handler EXCEPT ![r] = "preparing"]
    /\ UNCHANGED <<detach, status, calls, pump, outcome, parts, sent, got, ferry, draft>>

PrepareSucceeds(r) ==
    /\ handler[r] = "preparing"
    /\ OpenStream(r, <<PreRow>>)

(* StrategyExecutionError: the known calls and the failed status go out in *)
(* one commit, and the client gets a 502.                                  *)
PrepareFails(r) ==
    /\ handler[r] = "preparing"
    /\ handler' = [handler EXCEPT ![r] = "rejected"]
    /\ status'  = [status EXCEPT ![r] = "failed"]
    /\ \E rows \in {<<>>, <<PreRow>>} : calls' = [calls EXCEPT ![r] = rows]
    /\ UNCHANGED <<detach, pump, outcome, parts, sent, got, ferry, draft>>

(* Any other exception, or a cancelled handler: the session is closed      *)
(* without a commit and the flushed row is rolled back.                    *)
PrepareAborts(r) ==
    /\ handler[r] = "preparing"
    /\ handler' = [handler EXCEPT ![r] = "aborted"]
    /\ UNCHANGED <<detach, status, calls, pump, outcome, parts, sent, got, ferry, draft>>

-----------------------------------------------------------------------------
(* The pump *)

Put(r, items) == sent' = [sent EXCEPT ![r] = @ \o items]

PumpStart(r) ==
    /\ pump[r] = "created"
    /\ pump' = [pump EXCEPT ![r] = "running"]
    /\ outcome' = [outcome EXCEPT ![r] = "client_cancelled"]
    /\ Put(r, <<"role">>)
    /\ UNCHANGED <<detach, status, calls, handler, parts, got, ferry, draft>>

(* One event with text or tool-call fragments: kept, then forwarded.       *)
PumpChunk(r) ==
    /\ pump[r] = "running"
    /\ parts[r] < MaxChunks
    /\ parts' = [parts EXCEPT ![r] = @ + 1]
    /\ Put(r, <<"chunk">>)
    /\ UNCHANGED <<detach, status, calls, handler, pump, outcome, got, ferry, draft>>

PumpEnd(r, items) ==
    /\ pump' = [pump EXCEPT ![r] = "ended"]
    /\ Put(r, Append(items, "end"))
    /\ UNCHANGED <<detach, status, calls, handler, parts, got, ferry, draft>>

PumpFinish(r) ==
    /\ pump[r] = "running"
    /\ outcome' = [outcome EXCEPT ![r] = "success"]
    /\ PumpEnd(r, <<"stop", "done">>)

(* Slip: a failed passthrough closes its stream like a complete one.       *)
SlipSilentFailure(r) == IF r \in PipelineRequests THEN <<>> ELSE <<"done">>

(* What a client reads of an upstream failure: passthrough sends an error  *)
(* event and [DONE]; a pipeline just stops.                                *)
FailureLines(r) == IF r \in PipelineRequests THEN <<>> ELSE <<"error", "done">>

PumpFail(r) ==
    /\ pump[r] = "running"
    /\ outcome' = [outcome EXCEPT ![r] = "failed"]
    /\ PumpEnd(r, FailureLines(r))

(* Slip: the sentinel left out of the finally clause.                      *)
SlipCrashWithoutEnd(r) ==
    /\ pump[r] = "running"
    /\ pump' = [pump EXCEPT ![r] = "ended"]
    /\ UNCHANGED <<detach, status, calls, handler, outcome, parts, sent, got, ferry, draft>>

(* An exception that is not an AdapterError: only the finally clause runs. *)
PumpCrash(r) ==
    /\ pump[r] = "running"
    /\ PumpEnd(r, <<>>)
    /\ UNCHANGED outcome

(* CancelledError: a task cancelled before its first step runs no clause   *)
(* of its body; later, the finally clause runs.                            *)
PumpCancelled(r) ==
    /\ pump[r] = "cancelling"
    /\ pump' = [pump EXCEPT ![r] = "ended"]
    /\ IF sent[r] = <<>> THEN UNCHANGED sent ELSE Put(r, <<"end">>)
    /\ UNCHANGED <<detach, status, calls, handler, outcome, parts, got, ferry, draft>>

-----------------------------------------------------------------------------
(* The ferry *)

FerryStart(r) ==
    /\ ferry[r] = "unstarted"
    /\ ferry' = [ferry EXCEPT ![r] = "open"]
    /\ UNCHANGED <<detach, status, calls, handler, pump, outcome, parts, sent, got, draft>>

(* _drain_with_heartbeat yields the next line, or meets _END: then the     *)
(* pump has already run to its end and pump_task.cancel() has no effect.   *)
FerryTake(r) ==
    /\ ferry[r] = "open"
    /\ got[r] < Len(sent[r])
    /\ got' = [got EXCEPT ![r] = @ + 1]
    /\ ferry' = [ferry EXCEPT ![r] =
                    IF sent[r][got[r] + 1] = "end" THEN "drained" ELSE "open"]
    /\ UNCHANGED <<detach, status, calls, handler, pump, outcome, parts, sent, draft>>

(* Slip: the disconnect cancels the pump but leaves its verdict standing.  *)
SlipKeepVerdict(r) ==
    /\ ferry[r] = "open"
    /\ ferry' = [ferry EXCEPT ![r] = "closed"]
    /\ pump' = [pump EXCEPT ![r] =
                    IF ~detach /\ @ \in {"created", "running"} THEN "cancelling" ELSE @]
    /\ UNCHANGED <<detach, status, calls, handler, outcome, parts, sent, got, draft>>

(* The client goes away and the generator sees it, as a CancelledError in  *)
(* queue.get() or an aclose(): its finally clause runs with drained still  *)
(* FALSE.                                                                  *)
FerryDisconnect(r) ==
    /\ ferry[r] = "open"
    /\ ferry' = [ferry EXCEPT ![r] = "closed"]
    /\ IF detach
       THEN UNCHANGED <<pump, outcome>>
       ELSE /\ pump' = [pump EXCEPT ![r] =
                           IF @ \in {"created", "running"} THEN "cancelling" ELSE @]
            /\ outcome' = [outcome EXCEPT ![r] = "client_cancelled"]
    /\ UNCHANGED <<detach, status, calls, handler, parts, sent, got, draft>>

(* The client goes away while the generator is not running: either it had  *)
(* not been asked for its first line, and a generator that never started   *)
(* has no finally clause, or it is suspended at a yield and the framework's*)
(* send() is cancelled: nobody closes it before the background task.       *)
FerryAbandon(r) ==
    /\ ferry[r] \in {"unstarted", "open"}
    /\ ferry' = [ferry EXCEPT ![r] = "abandoned"]
    /\ UNCHANGED <<detach, status, calls, handler, pump, outcome, parts, sent, got, draft>>

-----------------------------------------------------------------------------
(* persist *)

ResponseOver(r) == ferry[r] \in {"drained", "closed", "abandoned"}

(* Slip: persist does not wait for the pump.                               *)
SlipNoGather(r) ==
    /\ ResponseOver(r)
    /\ draft[r] = <<>>
    /\ draft' = [draft EXCEPT ![r] = <<FinalRow(outcome[r])>>]
    /\ UNCHANGED <<detach, status, calls, handler, pump, outcome, parts, sent, got, ferry>>

(* Slip: the call row committed in a transaction of its own.               *)
SlipSplitCommit(r) ==
    /\ ResponseOver(r)
    /\ pump[r] = "ended"
    /\ draft[r] = <<>>
    /\ draft' = [draft EXCEPT ![r] = <<FinalRow(outcome[r])>>]
    /\ calls' = [calls EXCEPT ![r] = Append(@, FinalRow(outcome[r]))]
    /\ UNCHANGED <<detach, status, handler, pump, outcome, parts, sent, got, ferry>>

(* Slip: persist registered to run only after a fully drained response.    *)
SlipDrainedOnly(r) ==
    /\ ferry[r] = "drained"
    /\ pump[r] = "ended"
    /\ draft[r] = <<>>
    /\ draft' = [draft EXCEPT ![r] = <<FinalRow(outcome[r])>>]
    /\ UNCHANGED <<detach, status, calls, handler, pump, outcome, parts, sent, got, ferry>>

(* asyncio.gather(pump_task) returned; the final call row is built from    *)
(* outcome and flushed, not committed.                                     *)
PersistRecord(r) ==
    /\ ResponseOver(r)
    /\ pump[r] = "ended"
    /\ draft[r] = <<>>
    /\ draft' = [draft EXCEPT ![r] = <<FinalRow(outcome[r])>>]
    /\ UNCHANGED <<detach, status, calls, handler, pump, outcome, parts, sent, got, ferry>>

(* finish_request reads outcome again, then the commit.                    *)
PersistFinish(r) ==
    /\ draft[r] # <<>>
    /\ status[r] = "pending"
    /\ status' = [status EXCEPT ![r] = outcome[r]]
    /\ calls'  = [calls EXCEPT ![r] = @ \o draft[r]]
    /\ UNCHANGED <<detach, handler, pump, outcome, parts, sent, got, ferry, draft>>

-----------------------------------------------------------------------------
Handler(r) ==
    \/ AcceptPassthrough(r)
    \/ AcceptPipeline(r)
    \/ PrepareSucceeds(r)
    \/ PrepareFails(r)
    \/ PrepareAborts(r)
    \/ Respond(r)
    \/ ResponseLost(r)

Pump(r) ==
    \/ PumpStart(r)
    \/ PumpChunk(r)
    \/ PumpFinish(r)
    \/ PumpFail(r)
    \/ PumpCrash(r)
    \/ PumpCancelled(r)

Client(r) == FerryDisconnect(r) \/ FerryAbandon(r)
Ferry(r) == FerryStart(r) \/ FerryTake(r)
Persist(r) == PersistRecord(r) \/ PersistFinish(r)

Next == \E r \in Requests :
    Handler(r) \/ Pump(r) \/ Client(r) \/ Ferry(r) \/ Persist(r)

Spec == Init /\ [][Next]_vars

(* The event loop runs every ready task, and stream_events_timed bounds    *)
(* each wait for the upstream, so pump and persist always go on.  The      *)
(* framework keeps iterating a response body until it ends or its client   *)
(* goes away.  Nothing obliges a client to disconnect, or to send requests.*)
Fairness == \A r \in Requests :
    /\ WF_vars(Pump(r))
    /\ WF_vars(Ferry(r))
    /\ WF_vars(Persist(r))

FairSpec == Spec /\ Fairness

-----------------------------------------------------------------------------
(* Properties *)

(* Every variable has its type.                                            *)
TypeOK ==
    /\ detach  \in BOOLEAN
    /\ status  \in [Requests -> {"none", "pending"} \cup OutcomeStatus]
    /\ calls   \in [Requests -> Seq(Row)]
    /\ handler \in [Requests -> {"idle", "preparing", "rejected", "aborted",
                               "opened", "streaming", "dropped"}]
    /\ pump    \in [Requests -> {"none", "created", "running", "cancelling", "ended"}]
    /\ outcome \in [Requests -> OutcomeStatus]
    /\ parts   \in [Requests -> 0..MaxChunks]
    /\ sent    \in [Requests -> Seq(Item)]
    /\ got     \in [Requests -> Nat]
    /\ ferry   \in [Requests -> {"none", "unstarted", "open", "drained", "closed", "abandoned"}]
    /\ draft   \in [Requests -> {<<>>} \cup {<<FinalRow(s)>> : s \in OutcomeStatus}]

Sent(r, item)  == \E i \in 1..Len(sent[r]) : sent[r][i] = item
Taken(r, item) == \E i \in 1..got[r] : sent[r][i] = item

(* The trace and its last call row never tell different stories, although  *)
(* persist reads the shared outcome twice with awaits between, while the   *)
(* ferry of a closing connection may still overwrite it.                   *)
FinalRowAgrees == \A r \in Requests :
    handler[r] = "streaming" /\ status[r] \in OutcomeStatus =>
        /\ calls[r] # <<>>
        /\ calls[r][Len(calls[r])] = FinalRow(status[r])

(* With detach on, a disconnect changes nothing of what is logged: the     *)
(* trace is "success" exactly when the upstream stream came to its end,    *)
(* whatever the client did in the meantime.                                *)
DetachedOutcome == \A r \in Requests :
    detach /\ handler[r] = "streaming" /\ status[r] \in OutcomeStatus =>
        (status[r] = "success" <=> Sent(r, "stop"))

(* With detach off, a stream whose generator was run to its end or closed  *)
(* is logged as "success" only if it was handed over to its last line.     *)
AttachedSuccessIsDelivered == \A r \in Requests :
    ~detach /\ status[r] = "success" /\ ferry[r] # "abandoned" =>
        ferry[r] = "drained" /\ got[r] = Len(sent[r])

(* A logged success was earned: by the upstream if detach is on, by the    *)
(* whole way to the client if it is off.                                   *)
SuccessIsEarned == DetachedOutcome /\ AttachedSuccessIsDelivered

(* The sentinel is the last thing on the queue, so a drained ferry has     *)
(* yielded everything the pump ever sent: no line is stranded behind it.   *)
NothingAfterEnd == \A r \in Requests :
    /\ Sent(r, "end") => pump[r] = "ended"
    /\ ferry[r] = "drained" => got[r] = Len(sent[r])

(* A client that was sent [DONE] and no error event, and stayed to the end *)
(* of the stream, is logged as a success.                                  *)
CleanDoneIsSuccess == \A r \in Requests :
    /\ ferry[r] = "drained"
    /\ Taken(r, "done")
    /\ ~Taken(r, "error")
    /\ status[r] \in OutcomeStatus
    => status[r] = "success"

(* The closing lines tell the client and the log the same: nothing comes   *)
(* after the sentinel, and a clean [DONE] is a success.                    *)
LastLinesTell == NothingAfterEnd /\ CleanDoneIsSuccess

(* The detailed protocol writes the log only the way TraceLog allows:      *)
(* pending once, terminal once, rows of a terminal trace never touched.    *)
RefinesTraceLog == Log!LogSpec

(* Every stream whose response the handler returned gets a terminal trace, *)
(* whatever the upstream and the client do.                                *)
EveryStreamIsLogged == \A r \in Requests :
    handler[r] = "streaming" ~> status[r] \in OutcomeStatus

-----------------------------------------------------------------------------
(* What comments and documents of the repository say of the program *)

(* requirements.md 106: with detach off, a disconnect cancels the upstream *)
(* call and the trace is logged as client_cancelled.                       *)
DisconnectIsLogged == \A r \in Requests :
    ~detach /\ ferry[r] \in {"closed", "abandoned"} /\ status[r] \in OutcomeStatus =>
        status[r] = "client_cancelled"
=============================================================================
