------------------------------ MODULE Council ------------------------------
(***************************************************************************)
(* The council strategy (backend/app/strategies/council.py): the members   *)
(* answer concurrently under a semaphore, the judge first criticises their *)
(* answers and then writes the final one. Three drivers share the steps:   *)
(*   "run"      the whole answer in one piece (members by asyncio.gather); *)
(*   "prepare"  everything before the final stream (gather as well);       *)
(*   "process"  a generator that hands over every outcome as it completes. *)
(* A tool call is abstracted to its function name, one call per answer;    *)
(* "wrong" is a call that does not pass validate_tool_calls.               *)
(***************************************************************************)
EXTENDS Integers, Sequences, FiniteSets

CONSTANTS NumMembers,      \* ctx.members, in configuration order
          MaxConcurrency,  \* pipeline.max_concurrency
          Tools            \* function names the client offers

ASSUME MembersAssumption     == NumMembers \in Nat \ {0}
ASSUME ConcurrencyAssumption == MaxConcurrency \in Nat \ {0}
ASSUME ToolsAssumption ==
    {"text", "wrong", "none", "calling", "failed"} \cap Tools = {}

VARIABLES
    mode,      \* driver, tool mode and the two strict switches of this run
    member,    \* member[i]: where member i's task stands
    intent,    \* intent[i]: what member i answered, for the members that did
    permits,   \* free permits of the semaphore
    finished,  \* members in completion order (as_completed)
    taken,     \* how many of them the process generator has handed over
    critique,  \* the judge's first call
    judge,     \* the judge's second call
    pc,        \* where the strategy coroutine stands
    reply      \* what it returned or raised

vars == <<mode, member, intent, permits, finished, taken, critique, judge, pc, reply>>

Members  == 1 .. NumMembers
Critique == NumMembers + 1
Judge    == NumMembers + 2
Calls    == 1 .. NumMembers + 2
Intents  == {"text", "wrong"} \cup Tools

Modes == [driver : {"run", "prepare", "process"}, tools : BOOLEAN,
          strictMembers : BOOLEAN, strictJudge : BOOLEAN]

Answered == {"success", "failed", "timeout"}
Ended    == Answered \cup {"crashed", "cancelled"}
OverStates == {"answered", "planned", "refused", "crashed", "cancelled"}

(* What a run leaves behind: whose answer is delivered and in which form,  *)
(* which calls it reports and which of them its token total adds up.       *)
NoAnswer(rows) == [author |-> 0, delivers |-> "text", degraded |-> FALSE,
                   rows |-> rows, counted |-> {}]

NoReply == NoAnswer(<<>>)

Init ==
    /\ mode \in Modes
    /\ member = [i \in Members |-> "new"]
    /\ intent = [i \in Members |-> "text"]
    /\ permits = MaxConcurrency
    /\ finished = <<>>
    /\ taken = 0
    /\ critique = "none"
    /\ judge = "none"
    /\ pc = "members"
    /\ reply = NoReply

-----------------------------------------------------------------------------
(* run_one: one task per member, started together.                         *)

(* The adapter is built, outside the try, before the semaphore is asked.   *)
Prepare(i) ==
    /\ member[i] = "new"
    /\ member' = [member EXCEPT ![i] = "queued"]
    /\ UNCHANGED <<mode, intent, permits, finished, taken, critique, judge, pc, reply>>

(* The factory raises: a key that cannot be decrypted, an unknown protocol. *)
FactoryFails(i) ==
    /\ member[i] = "new"
    /\ member' = [member EXCEPT ![i] = "crashed"]
    /\ finished' = Append(finished, i)
    /\ UNCHANGED <<mode, intent, permits, taken, critique, judge, pc, reply>>

(* Slip: the call goes out without a permit being taken.                   *)
SlipNoPermit(i) ==
    /\ member[i] = "queued"
    /\ permits > 0
    /\ member' = [member EXCEPT ![i] = "calling"]
    /\ UNCHANGED <<mode, intent, permits, finished, taken, critique, judge, pc, reply>>

Acquire(i) ==
    /\ member[i] = "queued"
    /\ permits > 0
    /\ permits' = permits - 1
    /\ member' = [member EXCEPT ![i] = "calling"]
    /\ UNCHANGED <<mode, intent, finished, taken, critique, judge, pc, reply>>

(* Leaving the async with block: by an outcome or by an exception.         *)
Leave(i, state) ==
    /\ member[i] = "calling"
    /\ permits' = permits + 1
    /\ member' = [member EXCEPT ![i] = state]
    /\ finished' = Append(finished, i)

Answer(i) ==
    /\ Leave(i, "success")
    /\ \E what \in IF mode.tools THEN Intents ELSE {"text"} :
           intent' = [intent EXCEPT ![i] = what]
    /\ UNCHANGED <<mode, taken, critique, judge, pc, reply>>

(* Slip: the permit is given back only by a call that succeeded.           *)
SlipKeepPermit(i) ==
    /\ member[i] = "calling"
    /\ \E state \in {"failed", "timeout"} : member' = [member EXCEPT ![i] = state]
    /\ finished' = Append(finished, i)
    /\ UNCHANGED <<mode, intent, permits, taken, critique, judge, pc, reply>>

(* An AdapterError becomes an outcome and is not raised.                   *)
CallFails(i) ==
    /\ \E state \in {"failed", "timeout"} : Leave(i, state)
    /\ UNCHANGED <<mode, intent, taken, critique, judge, pc, reply>>

(* Any other exception leaves the task.                                    *)
CallCrashes(i) ==
    /\ Leave(i, "crashed")
    /\ UNCHANGED <<mode, intent, taken, critique, judge, pc, reply>>

(* A call whose task was cancelled unwinds and gives its permit back.      *)
Unwind(i) ==
    /\ member[i] = "stopping"
    /\ permits' = permits + 1
    /\ member' = [member EXCEPT ![i] = "cancelled"]
    /\ UNCHANGED <<mode, intent, finished, taken, critique, judge, pc, reply>>

(* task.cancel() on every task: one in a call unwinds first, one that has  *)
(* not got that far ends at once, one that is done is left alone.          *)
StopMembers ==
    member' = [i \in Members |->
        CASE member[i] \in {"new", "queued"} -> "cancelled"
          [] member[i] = "calling" -> "stopping"
          [] OTHER -> member[i]]

-----------------------------------------------------------------------------
(* Collecting the members.                                                 *)

Succeeded == {i \in Members : member[i] = "success"}

(* as_completed hands over the next outcome.                               *)
HandOver ==
    /\ mode.driver = "process"
    /\ pc = "members"
    /\ taken < Len(finished)
    /\ member[finished[taken + 1]] \in Answered
    /\ taken' = taken + 1
    /\ UNCHANGED <<mode, member, intent, permits, finished, critique, judge, pc, reply>>

(* Slip: the generator has no finally clause.                              *)
SlipNoFinally ==
    /\ mode.driver = "process"
    /\ pc = "members"
    /\ taken < Len(finished)
    /\ member[finished[taken + 1]] = "crashed"
    /\ pc' = "crashed"
    /\ UNCHANGED <<mode, member, intent, permits, finished, taken, critique, judge, reply>>

(* An exception of a member reaches the generator, whose finally clause    *)
(* cancels the tasks that are left.                                        *)
ProcessCrash ==
    /\ mode.driver = "process"
    /\ pc = "members"
    /\ taken < Len(finished)
    /\ member[finished[taken + 1]] = "crashed"
    /\ StopMembers
    /\ pc' = "crashed"
    /\ UNCHANGED <<mode, intent, permits, finished, taken, critique, judge, reply>>

(* gather raises the first exception and leaves the other tasks running.   *)
GatherCrash ==
    /\ mode.driver # "process"
    /\ pc = "members"
    /\ \E i \in Members : member[i] = "crashed"
    /\ pc' = "crashed"
    /\ UNCHANGED <<mode, member, intent, permits, finished, taken, critique, judge, reply>>

(* Everything has been collected: gather returns, or the last future was   *)
(* handed over.                                                            *)
Collected ==
    /\ pc = "members"
    /\ \A i \in Members : member[i] \in Answered
    /\ mode.driver = "process" => taken = Len(finished)

(* check_member_failures                                                   *)
TooManyFailures ==
    \/ mode.strictMembers /\ Succeeded # Members
    \/ Succeeded = {}

(* list(ctx.members) order, whatever the completion order was.             *)
MemberRows == [i \in Members |-> i]

MembersRefused ==
    /\ Collected
    /\ TooManyFailures
    /\ pc' = "refused"
    /\ reply' = NoAnswer(MemberRows)
    /\ UNCHANGED <<mode, member, intent, permits, finished, taken, critique, judge>>

StartCritique ==
    /\ Collected
    /\ ~TooManyFailures
    /\ pc' = "critique"
    /\ critique' = "calling"
    /\ UNCHANGED <<mode, member, intent, permits, finished, taken, judge, reply>>

(* _judge_adapter raises like a member's factory does.                     *)
JudgeFactoryFails ==
    /\ Collected
    /\ ~TooManyFailures
    /\ pc' = "crashed"
    /\ UNCHANGED <<mode, member, intent, permits, finished, taken, critique, judge, reply>>

-----------------------------------------------------------------------------
(* The judge. Both calls go to one adapter, one after the other.           *)

Least(S) == CHOOSE i \in S : \A j \in S : i <= j

(* pick_fallback_tool_calls: the first member of the largest camp; without *)
(* any tool call the text of the first member that answered (ok[0]).       *)
Callers == {i \in Succeeded : intent[i] # "text"}

Camp(i) == {j \in Callers : intent[j] = intent[i]}

LargestCamp == {i \in Callers : \A j \in Callers : Cardinality(Camp(j)) <= Cardinality(Camp(i))}

FallbackMember == Least(IF Callers = {} THEN Succeeded ELSE LargestCamp)

(* Slip: a fallback is handed out as if the judge had written it.          *)
SlipSilentFallback(rows, counted) ==
    [author |-> FallbackMember, delivers |-> intent[FallbackMember], degraded |-> FALSE,
     rows |-> rows, counted |-> counted]

(* _tool_degraded and its text counterparts in run                         *)
Fallback(rows, counted) ==
    [author |-> FallbackMember, delivers |-> intent[FallbackMember], degraded |-> TRUE,
     rows |-> rows, counted |-> counted]

FromJudge(what, rows, counted) ==
    [author |-> Judge, delivers |-> what, degraded |-> FALSE,
     rows |-> rows, counted |-> counted]

MembersAndCritique == MemberRows \o <<Critique>>
AllRows            == MembersAndCritique \o <<Judge>>

(* The plan is handed over where the final stream starts, otherwise the    *)
(* judge is called a second time.                                          *)
CritiqueSucceeds ==
    /\ pc = "critique"
    /\ critique' = "success"
    /\ \/ /\ mode.driver = "prepare"
          /\ pc' = "planned"
          /\ reply' = FromJudge("text", MembersAndCritique, Members \cup {Critique})
          /\ UNCHANGED judge
       \/ /\ mode.driver = "process" /\ ~mode.tools
          /\ pc' = "planned"
          /\ reply' = FromJudge("text", <<>>, {})
          /\ UNCHANGED judge
       \/ /\ mode.driver = "run" \/ (mode.driver = "process" /\ mode.tools)
          /\ pc' = "judge"
          /\ judge' = "calling"
          /\ UNCHANGED reply
    /\ UNCHANGED <<mode, member, intent, permits, finished, taken>>

(* Only a run that is not strict goes on with a member's answer; a stream  *)
(* has not been opened yet and fails.                                      *)
CritiqueFails ==
    /\ pc = "critique"
    /\ critique' = "failed"
    /\ \/ /\ mode.driver = "run" /\ ~mode.strictJudge
          /\ pc' = "answered"
          /\ reply' = Fallback(MembersAndCritique, Members)
       \/ /\ mode.driver # "run" \/ mode.strictJudge
          /\ pc' = "refused"
          /\ reply' = NoAnswer(MembersAndCritique)
    /\ UNCHANGED <<mode, member, intent, permits, finished, taken, judge>>

(* Rows and tokens of the second part: the process driver has handed over  *)
(* everything but the judge's own row.                                     *)
FinalRows    == IF mode.driver = "process" THEN <<Judge>> ELSE AllRows
FinalCounted == IF mode.driver = "process" THEN {} ELSE Calls

(* _run_tool_final_round's validation: calls that do not pass are replaced *)
(* by a member's, or dropped when no member made one.                      *)
JudgeAnswers(what) ==
    /\ pc = "judge"
    /\ what \in IF mode.tools THEN Intents ELSE {"text"}
    /\ judge' = what
    /\ pc' = "answered"
    /\ reply' = IF what = "wrong" /\ Callers # {}
                THEN Fallback(FinalRows, FinalCounted)
                ELSE FromJudge(IF what = "wrong" THEN "text" ELSE what,
                               FinalRows, FinalCounted)
    /\ UNCHANGED <<mode, member, intent, permits, finished, taken, critique>>

(* Slip: the failed judge call is left out of the report.                  *)
SlipDropJudgeRow ==
    /\ pc = "judge"
    /\ judge' = "failed"
    /\ pc' = "answered"
    /\ reply' = Fallback(MembersAndCritique, Members)
    /\ UNCHANGED <<mode, member, intent, permits, finished, taken, critique>>

(* A failed judge: strict refuses, otherwise a member's answer is used.    *)
(* The text path sums the members' tokens only, the tool path all calls.   *)
JudgeFails ==
    /\ pc = "judge"
    /\ judge' = "failed"
    /\ \/ /\ mode.strictJudge
          /\ pc' = "refused"
          /\ reply' = NoAnswer(AllRows)
       \/ /\ ~mode.strictJudge
          /\ pc' = "answered"
          /\ reply' = Fallback(FinalRows, IF mode.tools THEN FinalCounted ELSE Members)
    /\ UNCHANGED <<mode, member, intent, permits, finished, taken, critique>>

(* Anything else a judge call raises.                                      *)
JudgeCrashes ==
    /\ pc \in {"critique", "judge"}
    /\ pc' = "crashed"
    /\ UNCHANGED <<mode, member, intent, permits, finished, taken, critique, judge, reply>>

-----------------------------------------------------------------------------
(* Cancellation of the coroutine that runs the strategy.                   *)

(* Cancelling a gather cancels its children and waits for the first of     *)
(* them to end; the generator's finally clause does not wait.              *)
CancelCollecting ==
    /\ pc = "members"
    /\ StopMembers
    /\ pc' = IF mode.driver = "process" THEN "cancelled" ELSE "stopping"
    /\ UNCHANGED <<mode, intent, permits, finished, taken, critique, judge, reply>>

GatherCancelled ==
    /\ pc = "stopping"
    /\ \/ \E i \in Members : member[i] = "cancelled"
       \/ \A i \in Members : member[i] \in Ended
    /\ pc' = "cancelled"
    /\ UNCHANGED <<mode, member, intent, permits, finished, taken, critique, judge, reply>>

CancelJudge ==
    /\ pc \in {"critique", "judge"}
    /\ pc' = "cancelled"
    /\ UNCHANGED <<mode, member, intent, permits, finished, taken, critique, judge, reply>>

-----------------------------------------------------------------------------
MemberStep(i) ==
    \/ Prepare(i) \/ FactoryFails(i) \/ Acquire(i)
    \/ Answer(i) \/ CallFails(i) \/ CallCrashes(i) \/ Unwind(i)

StrategyStep ==
    \/ HandOver \/ ProcessCrash \/ GatherCrash
    \/ MembersRefused \/ StartCritique \/ JudgeFactoryFails
    \/ CritiqueSucceeds \/ CritiqueFails \/ (\E what \in Intents : JudgeAnswers(what))
    \/ JudgeFails \/ JudgeCrashes \/ GatherCancelled

Next ==
    \/ \E i \in Members : MemberStep(i)
    \/ StrategyStep
    \/ CancelCollecting
    \/ CancelJudge

(* Tasks of the event loop run. A silent call of an adapter is cut off     *)
(* (UpstreamCall), one that goes on producing is assumed to stop. Nothing  *)
(* makes anyone cancel.                                                    *)
Safety == Init /\ [][Next]_vars

Spec ==
    /\ Safety
    /\ \A i \in Members : WF_vars(MemberStep(i))
    /\ WF_vars(StrategyStep)

-----------------------------------------------------------------------------
(* Every variable keeps its type.                                          *)
TypeOK ==
    /\ mode \in Modes
    /\ member \in [Members -> Ended \cup {"new", "queued", "calling", "stopping"}]
    /\ intent \in [Members -> Intents]
    /\ permits \in Nat
    /\ finished \in Seq(Members)
    /\ taken \in 0 .. Len(finished)
    /\ critique \in {"none", "calling", "success", "failed"}
    /\ judge \in {"none", "calling", "failed"} \cup Intents
    /\ pc \in {"members", "critique", "judge", "stopping"} \cup OverStates
    /\ reply \in [author : 0 .. NumMembers + 2, delivers : Intents, degraded : BOOLEAN,
                  rows : Seq(Calls), counted : SUBSET Calls]

Holding == {i \in Members : member[i] \in {"calling", "stopping"}}

(* max_concurrency bounds the calls that are out at the same time, on      *)
(* whatever path the earlier ones ended.                                   *)
InFlightBound == Cardinality(Holding) <= MaxConcurrency

(* The calls that were made and have ended with an outcome.                *)
Made ==
    {i \in Members : member[i] \in Answered}
        \cup (IF critique = "none" THEN {} ELSE {Critique})
        \cup (IF judge = "none" THEN {} ELSE {Judge})

(* What the process generator has handed over as events.                   *)
HandedOver ==
    SubSeq(finished, 1, taken)
        \o (IF critique \in {"success", "failed"} THEN <<Critique>> ELSE <<>>)

Reported ==
    IF mode.driver = "process" /\ pc # "refused" THEN HandedOver \o reply.rows ELSE reply.rows

ExactlyOnce(s, S) ==
    /\ \A c \in S : \E k \in DOMAIN s : s[k] = c
    /\ \A k \in DOMAIN s : s[k] \in S
    /\ \A j, k \in DOMAIN s : s[j] = s[k] => j = k

(* Whatever way a run ends with a result or a refusal, each call it made   *)
(* is reported for the log exactly once: those that failed as well, in     *)
(* whatever order they completed.                                          *)
EveryCallReported ==
    pc \in {"answered", "planned", "refused"} => ExactlyOnce(Reported, Made)

(* Whose answer it is: a degraded one is a member's that did answer, never *)
(* when judge failures are strict and the judge failed; any other one is   *)
(* the judge's, after a critique; and under strict members all answered.   *)
AnswerKeepsTheRules ==
    pc \in {"answered", "planned"} =>
        /\ reply.degraded => reply.author \in Succeeded
        /\ ~reply.degraded => reply.author = Judge /\ critique = "success"
        /\ reply.degraded /\ mode.strictJudge => judge = "wrong"
        /\ mode.strictMembers => Succeeded = Members
        /\ Succeeded # {}

(* The token total of a run's answer covers all the calls that were made   *)
(* and answered, but for one: the critique's, when a lenient run without   *)
(* tools falls back to a member's text because the judge's second call     *)
(* failed (council.py 664-670).                                            *)
TotalsCoverEveryCall ==
    pc = "answered" /\ mode.driver = "run" =>
        \A c \in Made :
            \/ c \in reply.counted
            \/ c = Critique /\ critique = "failed"
            \/ c \in {Critique, Judge} /\ judge = "failed" /\ ~mode.tools

(* Every call is in the log, once, and in the total, save where the total  *)
(* leaves out the critique as said above.                                  *)
CallsAreAccounted == EveryCallReported /\ TotalsCoverEveryCall

(* No member's task goes on when the strategy is over: only a gather that  *)
(* raised leaves its siblings behind.                                      *)
NothingLeftRunning ==
    pc \in OverStates =>
        \/ \A i \in Members : member[i] \in Ended \cup {"stopping"}
        \/ pc = "crashed" /\ mode.driver # "process"

(* Every run ends and every task with it: no failure keeps a permit, no    *)
(* wait of the strategy is for something that cannot come.                 *)
EveryRunEnds == <>(pc \in OverStates /\ \A i \in Members : member[i] \in Ended)

=============================================================================
