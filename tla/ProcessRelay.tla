---------------------------- MODULE ProcessRelay ----------------------------
(***************************************************************************)
(* A process stream (_pipeline_stream_process of llm_gateway.py) of a      *)
(* council: the strategy of module Council runs inside the pump, which     *)
(* turns each event into lines on the queue. The handler waits for the     *)
(* first member that succeeds before it opens the response, so a failure   *)
(* up to then can still be a 502. Between two awaits of the pump lies one  *)
(* event of the generator with everything the pump does about it.          *)
(***************************************************************************)
EXTENDS Council

VARIABLES
    detach,        \* settings.detach_on_disconnect
    handler,       \* the request handler, up to the response it returns
    pump,          \* the pump task
    firstSuccess,  \* the asyncio.Event the handler waits for
    stashed,       \* the exception kept for the handler, "none" without one
    outcome,       \* StreamOutcome.status
    sent, got,     \* lines put on the queue; how many of them were taken
    ferry,         \* event_stream()
    draft,         \* what persist has read and flushed but not committed
    trace, calls   \* committed: request_logs.status and model_call_logs

relayVars == <<detach, handler, pump, firstSuccess, stashed, outcome, sent, got,
               ferry, draft, trace, calls>>
handlerVars == <<detach, handler, got, ferry, draft, trace, calls>>
allVars == <<vars, relayVars>>

OutcomeStatus == {"client_cancelled", "success", "failed"}
Terminal == OutcomeStatus \cup {"degraded"}
Lines == {"line", "done", "end"}
NoDraft == [rows |-> <<>>, status |-> "none"]

(* The pending row is committed before anything else.                      *)
RelayInit ==
    /\ Init
    /\ mode.driver = "process"
    /\ detach \in BOOLEAN
    /\ handler = "waiting"
    /\ pump = "running"
    /\ firstSuccess = FALSE
    /\ stashed = "none"
    /\ outcome = "client_cancelled"
    /\ sent = <<>>
    /\ got = 0
    /\ ferry = "none"
    /\ draft = NoDraft
    /\ trace = "pending"
    /\ calls = <<>>

-----------------------------------------------------------------------------
(* The pump                                                                *)

(* One line stands for the lines of one event; lines that follow each      *)
(* other without an await are put together.                                *)
Put(lines) == sent' = sent \o lines

Continue(lines) ==
    /\ pump = "running"
    /\ Put(lines)
    /\ UNCHANGED <<handlerVars, pump, stashed, outcome>>

(* Slip: only a stream that is complete ends the queue.                    *)
SlipEnd(lines) ==
    /\ pump = "running"
    /\ pump' = "ended"
    /\ Put(lines \o (IF lines # <<>> THEN <<"end">> ELSE <<>>))
    /\ UNCHANGED handlerVars

(* finally: the queue always ends.                                         *)
End(lines) ==
    /\ pump = "running"
    /\ pump' = "ended"
    /\ Put(lines \o <<"end">>)
    /\ UNCHANGED handlerVars

(* The last lines of a complete answer.                                    *)
Success ==
    /\ End(<<"line", "done">>)
    /\ outcome' = "success"
    /\ UNCHANGED <<firstSuccess, stashed>>

(* The except clause: until the first success the handler is to raise the  *)
(* exception, afterwards the stream ends as failed. An exception that is   *)
(* neither AdapterError nor StrategyExecutionError meets no clause.        *)
Except(kind) ==
    CASE kind = "foreign" -> UNCHANGED <<firstSuccess, stashed, outcome>>
      [] kind # "foreign" /\ ~firstSuccess ->
            /\ stashed' = kind
            /\ firstSuccess' = TRUE
            /\ UNCHANGED outcome
      [] OTHER ->
            /\ outcome' = "failed"
            /\ UNCHANGED <<firstSuccess, stashed>>

PumpMember ==
    /\ HandOver
    /\ Continue(<<"line">>)
    /\ firstSuccess' = (firstSuccess \/ member[finished[taken + 1]] = "success")

PumpRefused == MembersRefused /\ End(<<>>) /\ Except("strategy")

(* The critique starts without an event.                                   *)
PumpCritique ==
    /\ StartCritique
    /\ pump = "running"
    /\ UNCHANGED relayVars

PumpCritiqueEnds ==
    /\ CritiqueSucceeds
    /\ Continue(<<"line">>)
    /\ UNCHANGED firstSuccess

PumpCritiqueFails == CritiqueFails /\ End(<<"line">>) /\ Except("strategy")

(* An unknown protocol is an AdapterError, a key that cannot be decrypted  *)
(* is not; a crash inside complete() never is.                             *)
PumpCrash ==
    \/ /\ ProcessCrash \/ JudgeFactoryFails
       /\ End(<<>>)
       /\ \E kind \in {"adapter", "foreign"} : Except(kind)
    \/ JudgeCrashes /\ End(<<>>) /\ Except("foreign")

(* FinalResultReady: the finished tool answer goes out in one piece.       *)
PumpResult ==
    /\ (\E what \in Intents : JudgeAnswers(what)) \/ (JudgeFails /\ ~mode.strictJudge)
    /\ Success

(* A strict judge failure raises past the generator.                       *)
PumpJudgeFails ==
    /\ JudgeFails
    /\ mode.strictJudge
    /\ End(<<>>)
    /\ Except("strategy")

(* FinalPlanReady: the pump forwards the judge's stream to its end, or the *)
(* stream breaks.                                                          *)
PumpForward ==
    /\ pc = "planned"
    /\ UNCHANGED vars
    /\ \/ Success
       \/ End(<<>>) /\ (\E kind \in {"adapter", "foreign"} : Except(kind))

(* CancelledError reaches the pump and through it the generator.           *)
PumpCancelled ==
    /\ pump = "cancelling"
    /\ \/ CancelCollecting
       \/ CancelJudge
       \/ pc = "planned" /\ UNCHANGED vars
    /\ pump' = "ended"
    /\ Put(<<"end">>)
    /\ UNCHANGED <<handlerVars, firstSuccess, stashed, outcome>>

(* The members' own tasks.                                                 *)
MemberTask(i) == MemberStep(i) /\ UNCHANGED relayVars

-----------------------------------------------------------------------------
(* The handler                                                             *)

(* asyncio.wait returned: what is stashed is raised (with the pump ended,  *)
(* since it stashes on its way out), a pump that died is raised, otherwise *)
(* the response opens.                                                     *)
HandlerWakes ==
    /\ handler = "waiting"
    /\ firstSuccess \/ pump = "ended"
    /\ \/ /\ stashed = "strategy"
          /\ handler' = "rejecting"
          /\ UNCHANGED ferry
       \/ /\ stashed = "adapter" \/ (stashed = "none" /\ ~firstSuccess)
          /\ handler' = "raised"
          /\ UNCHANGED ferry
       \/ /\ stashed = "none" /\ firstSuccess
          /\ handler' = "streaming"
          /\ ferry' = "unstarted"
    /\ UNCHANGED <<vars, detach, pump, firstSuccess, stashed, outcome, sent, got, draft, trace, calls>>

(* _run_pipeline catches StrategyExecutionError: its calls and the failed  *)
(* status in one commit, and a 502.                                        *)
HandlerRejects ==
    /\ handler = "rejecting"
    /\ handler' = "rejected"
    /\ trace' = "failed"
    /\ calls' = reply.rows
    /\ UNCHANGED <<vars, detach, pump, firstSuccess, stashed, outcome, sent, got, ferry, draft>>

(* The handler is cancelled at one of its awaits. asyncio.wait does not    *)
(* cancel the tasks it waits for: the pump goes on.                        *)
HandlerCancelled ==
    /\ handler \in {"waiting", "rejecting"}
    /\ handler' = "gone"
    /\ UNCHANGED <<vars, detach, pump, firstSuccess, stashed, outcome, sent, got, ferry, draft, trace, calls>>

-----------------------------------------------------------------------------
(* The response body                                                       *)

FerryTake ==
    /\ ferry \in {"unstarted", "open"}
    /\ got < Len(sent)
    /\ got' = got + 1
    /\ ferry' = IF sent[got + 1] = "end" THEN "drained" ELSE "open"
    /\ UNCHANGED <<vars, detach, handler, pump, firstSuccess, stashed, outcome, sent, draft, trace, calls>>

(* Slip: the pump is taken for ended, without a word to the generator.      *)
SlipDropThePump ==
    /\ ferry = "open"
    /\ ferry' = "closed"
    /\ pump' = IF ~detach /\ pump = "running" THEN "ended" ELSE pump
    /\ UNCHANGED <<vars, detach, handler, firstSuccess, stashed, outcome, sent, got, draft, trace, calls>>

(* The client leaves and the generator sees it.                            *)
FerryDisconnect ==
    /\ ferry = "open"
    /\ ferry' = "closed"
    /\ IF detach
       THEN UNCHANGED <<pump, outcome>>
       ELSE /\ pump' = IF pump = "running" THEN "cancelling" ELSE pump
            /\ outcome' = "client_cancelled"
    /\ UNCHANGED <<vars, detach, handler, firstSuccess, stashed, sent, got, draft, trace, calls>>

(* The client leaves while the generator is not running (see StreamRelay). *)
FerryAbandon ==
    /\ ferry \in {"unstarted", "open"}
    /\ ferry' = "abandoned"
    /\ UNCHANGED <<vars, detach, handler, pump, firstSuccess, stashed, outcome, sent, got, draft, trace, calls>>

-----------------------------------------------------------------------------
(* persist                                                                 *)

ResponseOver == ferry \in {"drained", "closed", "abandoned"}

(* Slip: the judge's row only for a stream that was forwarded.             *)
SlipForwardedOnly == HandedOver \o (IF pc = "planned" THEN <<Judge>> ELSE <<>>)

(* The events' outcomes, then the judge's call: rebuilt from a plan, or    *)
(* carried by the final result.                                            *)
RowsToLog == HandedOver \o (IF pc \in {"planned", "answered"} THEN <<Judge>> ELSE <<>>)

StatusToLog ==
    IF pc = "answered" /\ reply.degraded /\ outcome = "success" THEN "degraded" ELSE outcome

PersistRecord ==
    /\ ResponseOver
    /\ pump = "ended"
    /\ draft = NoDraft
    /\ draft' = [rows |-> RowsToLog, status |-> StatusToLog]
    /\ UNCHANGED <<vars, detach, handler, pump, firstSuccess, stashed, outcome, sent, got, ferry, trace, calls>>

PersistFinish ==
    /\ draft # NoDraft
    /\ trace = "pending"
    /\ trace' = draft.status
    /\ calls' = draft.rows
    /\ UNCHANGED <<vars, detach, handler, pump, firstSuccess, stashed, outcome, sent, got, ferry, draft>>

-----------------------------------------------------------------------------
Pump ==
    \/ PumpMember \/ PumpRefused \/ PumpCritique \/ PumpCritiqueEnds \/ PumpCritiqueFails
    \/ PumpCrash \/ PumpResult \/ PumpJudgeFails \/ PumpForward \/ PumpCancelled

Handler == HandlerWakes \/ HandlerRejects
Client  == HandlerCancelled \/ FerryDisconnect \/ FerryAbandon
Persist == PersistRecord \/ PersistFinish

RelayNext ==
    \/ \E i \in Members : MemberTask(i)
    \/ Pump \/ Handler \/ FerryTake \/ Client \/ Persist

RelaySafety == RelayInit /\ [][RelayNext]_allVars

(* As in StreamRelay: tasks that can run do run, the framework iterates a  *)
(* response until it ends or its client leaves, and no client has to stay  *)
(* or to leave.                                                            *)
RelaySpec ==
    /\ RelaySafety
    /\ \A i \in Members : WF_allVars(MemberTask(i))
    /\ WF_allVars(Pump)
    /\ WF_allVars(Handler)
    /\ WF_allVars(FerryTake)
    /\ WF_allVars(Persist)

-----------------------------------------------------------------------------
(* Every variable keeps its type.                                          *)
RelayTypeOK ==
    /\ TypeOK
    /\ detach \in BOOLEAN
    /\ handler \in {"waiting", "streaming", "rejecting", "rejected", "raised", "gone"}
    /\ pump \in {"running", "cancelling", "ended"}
    /\ firstSuccess \in BOOLEAN
    /\ stashed \in {"none", "strategy", "adapter"}
    /\ outcome \in OutcomeStatus
    /\ sent \in Seq(Lines)
    /\ got \in 0 .. Len(sent)
    /\ ferry \in {"none", "unstarted", "open", "drained", "closed", "abandoned"}
    /\ draft \in [rows : Seq(Calls), status : Terminal \cup {"none"}]
    /\ trace \in {"pending"} \cup Terminal
    /\ calls \in Seq(Calls)

(* The judge's final stream is a call of the pump.                         *)
AllMade == Made \cup (IF pc = "planned" THEN {Judge} ELSE {})

(* The call log of a finished request names each call once and none that   *)
(* was not made; unless the client cancelled or a member crashed, it names *)
(* every call, save the judge's that failed strictly after the response    *)
(* was opened.                                                             *)
CallsAreLogged ==
    trace # "pending" =>
        /\ \A j, k \in DOMAIN calls : calls[j] = calls[k] => j = k
        /\ \A k \in DOMAIN calls : calls[k] \in AllMade
        /\ trace # "client_cancelled" /\ pc # "crashed" =>
               \A c \in AllMade : \/ \E k \in DOMAIN calls : calls[k] = c
                                  \/ c = Judge /\ judge = "failed" /\ mode.strictJudge

(* A response is opened exactly for a run in which a member succeeded; one *)
(* that is rejected failed before. What the log says of an opened stream   *)
(* is what the client could read: a full answer of the judge is success,   *)
(* a member's is degraded, a stream without [DONE] neither.                *)
StatusTellsTheStory ==
    /\ handler = "streaming" => \E k \in 1 .. taken : member[finished[k]] = "success"
    /\ handler \in {"rejected", "raised"} =>
           \A k \in 1 .. taken : member[finished[k]] # "success"
    /\ handler = "streaming" /\ trace \in {"success", "degraded"} =>
           /\ \E k \in DOMAIN sent : sent[k] = "done"
           /\ trace = "degraded" <=> reply.degraded
           /\ detach \/ ferry # "closed"
    /\ handler = "streaming" /\ trace = "failed" =>
           \A k \in DOMAIN sent : sent[k] # "done"

(* The log of a finished request tells its calls and its end.              *)
LogTellsTheStory == CallsAreLogged /\ StatusTellsTheStory

(* Inside the pump the council runs as module Council says, and it is      *)
(* driven on to its end whatever handler and client do.                    *)
DrivesTheCouncil == Spec

(* Every request gets a terminal trace, opened or rejected, whatever the   *)
(* pump does and wherever the client leaves the response; only a handler   *)
(* that was cancelled, or that raised what nobody catches, leaves it       *)
(* pending.                                                                *)
EveryStreamIsLogged == <>(trace # "pending" \/ handler \in {"gone", "raised"})

=============================================================================
