-------------------------------- MODULE Ice --------------------------------
(***************************************************************************)
(* The ICE strategy (backend/app/strategies/ice.py): round after round the *)
(* members improve their answers and an arbiter criticises them, until it  *)
(* sees a consensus, the confidence stops rising or the rounds are used    *)
(* up; then the arbiter writes the final answer. Three drivers:            *)
(*   "run"      the whole answer in one piece;                             *)
(*   "stream"   prepare_stream for round 0, _iterate for the others;       *)
(*   "process"  a generator that hands over every outcome as it completes. *)
(* The semaphore and what becomes of tasks whose round was given up are    *)
(* those of module Council. A verdict is its flags and a confidence level; *)
(* an answer is the round it comes from.                                   *)
(***************************************************************************)
EXTENDS Integers, Sequences

CONSTANTS NumMembers,  \* ctx.members, in configuration order
          MaxRounds,   \* max_rounds, round 0 included
          Levels,      \* confidence is one of 0 .. Levels
          Threshold    \* confidence_threshold

ASSUME MembersAssumption   == NumMembers \in Nat \ {0}
ASSUME RoundsAssumption    == MaxRounds \in Nat \ {0}
ASSUME ThresholdAssumption == Levels \in Nat /\ Threshold \in 0 .. Levels

VARIABLES
    mode,     \* driver, the two strict switches, stagnation
    pc,       \* where the strategy stands
    round,    \* round_no
    call,     \* call[i]: member i's call of this round
    taken,    \* members whose outcome the process generator has handed over
    answer,   \* answer[i]: the round of the answer kept in ok, -1 without one
    verdict,  \* the last verdict
    conf,     \* conf_history
    session,  \* critiques in the arbiter's conversation
    critic,   \* the critique of this round
    judge,    \* the final call
    rows,     \* outcomes: how often each outcome was collected
    reply     \* what the run left

vars == <<mode, pc, round, call, taken, answer, verdict, conf, session, critic,
          judge, rows, reply>>

Members == 1 .. NumMembers
Critic  == NumMembers + 1
Judge   == NumMembers + 2
Rounds  == 0 .. MaxRounds - 1

Modes == [driver : {"run", "stream", "process"}, strictMembers : BOOLEAN,
          strictJudge : BOOLEAN, stagnation : BOOLEAN]

(* A row of the call log. The final call has no round of its own and is    *)
(* entered under the last one.                                             *)
Entries == [who : 1 .. NumMembers + 2, round : Rounds, ok : BOOLEAN]
NoRows  == [e \in Entries |-> 0]

Log(r, new) == [e \in Entries |-> IF e \in new THEN r[e] + 1 ELSE r[e]]

Entry(who, ok) == [who |-> who, round |-> round, ok |-> ok]

(* A run without an answer leaves its rows.                                *)
NoAnswer(r) == [author |-> 0, degraded |-> FALSE, rows |-> r]
NoReply     == NoAnswer(NoRows)

OverStates == {"answered", "planned", "refused", "crashed", "cancelled"}

(* parse_verdict: what cannot be parsed counts as no consensus; a flag or  *)
(* a number of the wrong type is replaced by itself.                       *)
NoVerdict == [consensus |-> FALSE, confidence |-> 0, parsed |-> FALSE]
Verdicts  == {NoVerdict} \cup
             [consensus : BOOLEAN, confidence : 0 .. Levels, parsed : {TRUE}]

Init ==
    /\ mode \in Modes
    /\ pc = "members"
    /\ round = 0
    /\ call = [i \in Members |-> "calling"]
    /\ taken = {}
    /\ answer = [i \in Members |-> -1]
    /\ verdict = NoVerdict
    /\ conf = <<>>
    /\ session = 0
    /\ critic = "none"
    /\ judge = "none"
    /\ rows = NoRows
    /\ reply = NoReply

-----------------------------------------------------------------------------
(* A round of the members: everyone in round 0, afterwards those that      *)
(* answered then.                                                          *)
Participants == IF round = 0 THEN Members ELSE {i \in Members : answer[i] >= 0}

(* run_one and _refine_one: an AdapterError is an outcome, anything else   *)
(* leaves the task.                                                        *)
MemberEnds(i) ==
    /\ pc = "members"
    /\ call[i] = "calling"
    /\ \E end \in {"success", "failed", "crashed"} : call' = [call EXCEPT ![i] = end]
    /\ UNCHANGED <<mode, pc, round, taken, answer, verdict, conf, session, critic,
                   judge, rows, reply>>

(* Slip: only a success is handed over.                                    *)
SlipFailuresUnseen(i) ==
    /\ mode.driver = "process"
    /\ pc = "members"
    /\ i \in Participants \ taken
    /\ call[i] = "success"
    /\ taken' = taken \cup {i}
    /\ rows' = Log(rows, {Entry(i, TRUE)})
    /\ UNCHANGED <<mode, pc, round, call, answer, verdict, conf, session, critic,
                   judge, reply>>

(* as_completed: outcomes become events one by one.                        *)
HandOver(i) ==
    /\ mode.driver = "process"
    /\ pc = "members"
    /\ i \in Participants \ taken
    /\ call[i] \in {"success", "failed"}
    /\ taken' = taken \cup {i}
    /\ rows' = Log(rows, {Entry(i, call[i] = "success")})
    /\ UNCHANGED <<mode, pc, round, call, answer, verdict, conf, session, critic,
                   judge, reply>>

Collected ==
    /\ pc = "members"
    /\ \A i \in Participants : call[i] \in {"success", "failed"}
    /\ mode.driver = "process" => taken = Participants

(* gather's list; the process generator has every outcome already.         *)
RowsOfRound ==
    IF mode.driver = "process" THEN rows
    ELSE Log(rows, {Entry(i, call[i] = "success") : i \in Participants})

(* Slip: a member that fails to improve its answer loses it.               *)
SlipForgetAnswer ==
    [i \in Members |-> IF call[i] = "success" THEN round ELSE -1]

(* ok: the improved answer, or the one from before.                        *)
AnswersKept ==
    [i \in Members |->
        IF i \in Participants /\ call[i] = "success" THEN round ELSE answer[i]]

(* check_member_failures, in round 0 only                                  *)
TooManyFailures ==
    \/ mode.strictMembers /\ \E i \in Members : call[i] # "success"
    \/ \A i \in Members : call[i] # "success"

MembersRefused ==
    /\ Collected
    /\ round = 0
    /\ TooManyFailures
    /\ pc' = "refused"
    /\ reply' = NoAnswer(RowsOfRound)
    /\ UNCHANGED <<mode, round, call, taken, answer, verdict, conf, session, critic,
                   judge, rows>>

(* The outcomes of the round are merged and the arbiter is asked.          *)
StartCritique ==
    /\ Collected
    /\ round = 0 => ~TooManyFailures
    /\ answer' = AnswersKept
    /\ rows' = RowsOfRound
    /\ critic' = "calling"
    /\ pc' = "critique"
    /\ UNCHANGED <<mode, round, call, taken, verdict, conf, session, judge, reply>>

-----------------------------------------------------------------------------
(* The arbiter                                                             *)

(* Slip: a confidence that stays the same counts as rising.                *)
SlipStagnation(v, k, c) ==
    \/ v.consensus /\ v.confidence >= Threshold
    \/ k >= MaxRounds - 1
    \/ mode.stagnation /\ Len(c) >= 2 /\ c[Len(c)] < c[Len(c) - 1]

(* _should_finish                                                          *)
ShouldFinish(v, k, c) ==
    \/ v.consensus /\ v.confidence >= Threshold
    \/ k >= MaxRounds - 1
    \/ mode.stagnation /\ Len(c) >= 2 /\ c[Len(c)] <= c[Len(c) - 1]

(* The final call: run makes it, the streams hand over a plan for it.      *)
Conclude ==
    /\ IF mode.driver = "run"
       THEN pc' = "final" /\ judge' = "calling" /\ UNCHANGED reply
       ELSE /\ pc' = "planned"
            /\ reply' = [author |-> Judge, degraded |-> FALSE, rows |-> rows']
            /\ UNCHANGED judge
    /\ UNCHANGED <<round, call, taken>>

(* The next round: everyone who answered in round 0 is asked again.        *)
Refine ==
    /\ pc' = "members"
    /\ round' = round + 1
    /\ call' = [i \in Members |-> IF answer[i] >= 0 THEN "calling" ELSE "idle"]
    /\ taken' = {}
    /\ UNCHANGED <<judge, reply>>

CritiqueSucceeds ==
    /\ pc = "critique"
    /\ critic' = "success"
    /\ session' = session + 1
    /\ rows' = Log(rows, {Entry(Critic, TRUE)})
    /\ verdict' \in Verdicts
    /\ conf' = IF verdict'.parsed THEN Append(conf, verdict'.confidence) ELSE conf
    /\ \/ ShouldFinish(verdict', round, conf') /\ Conclude
       \/ ~ShouldFinish(verdict', round, conf') /\ Refine
    /\ UNCHANGED <<mode, answer>>

FirstAnswer ==
    CHOOSE i \in Members : answer[i] >= 0 /\ \A j \in Members : answer[j] >= 0 => i <= j

(* A member's answer, the first of ok, in place of the arbiter's.          *)
Fallback(r) == [author |-> FirstAnswer, degraded |-> TRUE, rows |-> r]

(* A critique that fails. In round 0 a stream always fails and a lenient   *)
(* run falls back; later on a lenient loop is left for the final call.     *)
(* The error of a strict run carries the critique among its members and    *)
(* once more by itself, and _run_pipeline records both.                    *)
CritiqueFails ==
    /\ pc = "critique"
    /\ critic' = "failed"
    /\ LET failed == {Entry(Critic, FALSE)} IN
       /\ rows' = Log(rows, failed)
       /\ \/ /\ round = 0 /\ mode.driver = "run" /\ ~mode.strictJudge
             /\ pc' = "answered"
             /\ reply' = Fallback(rows')
             /\ UNCHANGED <<round, call, taken, judge>>
          \/ /\ mode.driver = "run" /\ mode.strictJudge
             /\ pc' = "refused"
             /\ reply' = NoAnswer(Log(rows', failed))
             /\ UNCHANGED <<round, call, taken, judge>>
          \/ /\ mode.driver # "run" /\ (round = 0 \/ mode.strictJudge)
             /\ pc' = "refused"
             /\ reply' = NoAnswer(rows')
             /\ UNCHANGED <<round, call, taken, judge>>
          \/ /\ round > 0 /\ ~mode.strictJudge
             /\ Conclude
    /\ UNCHANGED <<mode, answer, verdict, conf, session>>

(* Slip: the rounds that were skipped are forgotten.                       *)
SlipForgetSkipped ==
    /\ pc = "final"
    /\ judge' = "success"
    /\ pc' = "answered"
    /\ reply' = [author |-> Judge, degraded |-> FALSE,
                 rows |-> Log(rows, {Entry(Judge, TRUE)})]
    /\ UNCHANGED <<mode, round, call, taken, answer, verdict, conf, session, critic, rows>>

(* Rounds that were skipped make the final answer a degraded one.          *)
JudgeAnswers ==
    /\ pc = "final"
    /\ judge' = "success"
    /\ pc' = "answered"
    /\ reply' = [author |-> Judge, degraded |-> (critic = "failed"),
                 rows |-> Log(rows, {Entry(Judge, TRUE)})]
    /\ UNCHANGED <<mode, round, call, taken, answer, verdict, conf, session, critic, rows>>

MemberRows == [e \in Entries |-> IF e.who \in Members THEN rows[e] ELSE 0]

(* The strict error carries the members' outcomes and the final call's.    *)
JudgeFails ==
    /\ pc = "final"
    /\ judge' = "failed"
    /\ \/ /\ mode.strictJudge
          /\ pc' = "refused"
          /\ reply' = NoAnswer(Log(MemberRows, {Entry(Judge, FALSE)}))
       \/ /\ ~mode.strictJudge
          /\ pc' = "answered"
          /\ reply' = Fallback(Log(rows, {Entry(Judge, FALSE)}))
    /\ UNCHANGED <<mode, round, call, taken, answer, verdict, conf, session, critic, rows>>

-----------------------------------------------------------------------------
(* Giving up                                                               *)

(* The pump has collected what was handed over: all events, or the plan's  *)
(* outcomes and the results of the rounds. Nobody reads a run's outcomes.  *)
RowsSeen ==
    IF mode.driver = "process" \/ (mode.driver = "stream" /\ round > 0) THEN rows ELSE NoRows

GiveUp(as) ==
    /\ pc' = as
    /\ reply' = NoAnswer(RowsSeen)
    /\ UNCHANGED <<mode, round, call, taken, answer, verdict, conf, session, critic,
                   judge, rows>>

(* A member's task, the arbiter's adapter or one of its calls raises what  *)
(* is no AdapterError.                                                     *)
Crash ==
    /\ \/ pc = "members" /\ \E i \in Participants : call[i] = "crashed"
       \/ Collected /\ round = 0 /\ ~TooManyFailures
       \/ pc \in {"critique", "final"}
    /\ GiveUp("crashed")

Cancelled ==
    /\ pc \in {"members", "critique", "final"}
    /\ GiveUp("cancelled")

-----------------------------------------------------------------------------
StrategyStep ==
    \/ \E i \in Members : HandOver(i)
    \/ MembersRefused \/ StartCritique
    \/ CritiqueSucceeds \/ CritiqueFails
    \/ JudgeAnswers \/ JudgeFails
    \/ Crash

Next ==
    \/ \E i \in Members : MemberEnds(i)
    \/ StrategyStep
    \/ Cancelled

Safety == Init /\ [][Next]_vars

(* Calls end, a silent one by its timeouts (UpstreamCall), and the         *)
(* coroutine runs on.                                                      *)
Spec ==
    /\ Safety
    /\ \A i \in Members : WF_vars(MemberEnds(i))
    /\ WF_vars(StrategyStep)

-----------------------------------------------------------------------------
(* Every variable keeps its type.                                          *)
TypeOK ==
    /\ mode \in Modes
    /\ pc \in {"members", "critique", "final"} \cup OverStates
    /\ round \in Rounds
    /\ call \in [Members -> {"idle", "calling", "success", "failed", "crashed"}]
    /\ taken \subseteq Members
    /\ answer \in [Members -> -1 .. MaxRounds - 1]
    /\ verdict \in Verdicts
    /\ conf \in Seq(0 .. Levels)
    /\ session \in 0 .. MaxRounds
    /\ critic \in {"none", "calling", "success", "failed"}
    /\ judge \in {"none", "calling", "success", "failed"}
    /\ rows \in [Entries -> Nat]
    /\ reply \in [author : 0 .. NumMembers + 2, degraded : BOOLEAN, rows : [Entries -> Nat]]

(* The calls that were made and have ended: all members in round 0, those  *)
(* that answered then in every later one, a critique a round, the final.   *)
Made ==
    {<<i, 0>> : i \in Members}
    \cup {<<i, k>> : i \in {j \in Members : answer[j] >= 0}, k \in 1 .. round}
    \cup {<<Critic, k>> : k \in 0 .. session - 1}
    \cup (IF critic = "failed" THEN {<<Critic, round>>} ELSE {})
    \cup (IF judge \in {"success", "failed"} THEN {<<Judge, round>>} ELSE {})

RowsOf(c) == reply.rows[[who |-> c[1], round |-> c[2], ok |-> TRUE]]
             + reply.rows[[who |-> c[1], round |-> c[2], ok |-> FALSE]]

AllCalls == (1 .. NumMembers + 2) \X Rounds

(* Whatever path a run takes to its end, through however many rounds and   *)
(* failures, each call it made is reported for the log once. A strict      *)
(* error of run is the exception: a failed critique is reported twice, a   *)
(* failed final call leaves out the critiques. A stream that is given up   *)
(* keeps the calls of all complete rounds.                                 *)
EveryCallReported ==
    /\ pc \in {"answered", "planned", "refused"} =>
           \A c \in AllCalls :
               RowsOf(c) = CASE c \notin Made -> 0
                             [] c \in Made /\ mode.driver = "run" /\ pc = "refused"
                                /\ c[1] = Critic ->
                                    (IF critic = "failed" /\ c[2] = round THEN 2
                                     ELSE IF judge = "failed" THEN 0 ELSE 1)
                             [] OTHER -> 1
    /\ pc \in {"crashed", "cancelled"} =>
           \A c \in AllCalls :
               /\ RowsOf(c) <= IF c \in Made THEN 1 ELSE 0
               /\ mode.driver # "run" /\ c \in Made /\ c[2] < round => RowsOf(c) = 1

(* The arbiter always judges each member's latest answer: a member that    *)
(* fails to improve keeps its old one and may catch up later; one that     *)
(* failed in round 0 never comes back.                                     *)
AnswersAreLatest ==
    pc \in {"critique", "final", "answered", "planned"} =>
        \A i \in Members :
            LET succeeded == {k \in Rounds : rows[[who |-> i, round |-> k, ok |-> TRUE]] > 0} IN
            /\ answer[i] >= 0 <=> 0 \in succeeded
            /\ answer[i] >= 0 => answer[i] \in succeeded /\ \A k \in succeeded : k <= answer[i]

(* Each call of a run that ends with an answer or a plan, of a stream that *)
(* is refused, and each member's call of any run is told once, a critique  *)
(* before a strict error of run twice (it failed) or not at all (the final *)
(* call did); and the arbiter judged the latest answers.                   *)
RowsTellTheRun == EveryCallReported /\ AnswersAreLatest

(* Rounds go on only while there is a reason: with stagnation on the       *)
(* confidence has risen from each parsed verdict to the next, and the last *)
(* verdict was no consensus. The loop is left only for a reason.           *)
Rising(c) == \A k \in 1 .. Len(c) - 1 : c[k] < c[k + 1]

Agreed == verdict.consensus /\ verdict.confidence >= Threshold

RoundsAreJustified ==
    /\ Len(conf) <= round + 1
    /\ pc \in {"members", "critique"} => (mode.stagnation => Rising(conf)) /\ ~Agreed
    /\ pc \in {"final", "planned"} =>
           \/ Agreed \/ round = MaxRounds - 1 \/ critic = "failed"
           \/ mode.stagnation /\ ~Rising(conf)

(* An answer is degraded exactly if a call of the arbiter failed on the    *)
(* way to it; strict runs never degrade; a fallback is the answer of a     *)
(* member that did answer.                                                 *)
DegradedTellsTheTruth ==
    pc = "answered" =>
        /\ reply.degraded <=> \E e \in Entries : e.who \notin Members /\ ~e.ok /\ reply.rows[e] > 0
        /\ mode.strictJudge => ~reply.degraded
        /\ reply.author # Judge => reply.degraded /\ answer[reply.author] >= 0
        /\ mode.strictMembers => \A i \in Members : answer[i] >= 0

(* Every run ends: no verdict keeps the loop going for ever.               *)
EveryRunEnds == <>(pc \in OverStates)

=============================================================================
