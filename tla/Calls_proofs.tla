---------------------------- MODULE Calls_proofs ----------------------------
(***************************************************************************)
(* Proofs about one upstream call (UpstreamCall), for any number of        *)
(* retries and pieces, and about the log of the calls while it is          *)
(* administered (TraceAdmin).                                              *)
(***************************************************************************)
EXTENDS UpstreamCall, TraceAdmin, FiniteSetTheorems, WellFoundedInduction, TLAPS

-----------------------------------------------------------------------------
(* Part 1: UpstreamCall.                                                   *)

(* A call waits for its next attempt only while nothing of its text was    *)
(* kept and an attempt is left.                                            *)
BackoffIsClean ==
    pc = "backoff" => parts = <<>> /\ attempt < LastAttempt

(* Before the first request nothing has happened; after it, each attempt   *)
(* has cost one request, or two once it dropped its options.               *)
RequestsSoFar ==
    /\ pc = "idle" => requests = 0 /\ parts = <<>>
    /\ requests <= 2 * (attempt - 1) + (IF options THEN 1 ELSE 2)

CallInv ==
    /\ CallTypeOK
    /\ BackoffIsClean
    /\ RequestsSoFar
    /\ TextFromOneAttempt
    /\ GivesUpOnlyWhenSpent

(* Every action keeps the invariant.                                       *)
LEMMA CallInvStep == CallInv /\ [CallNext]_callVars => CallInv'
<1> SUFFICES ASSUME CallInv, [CallNext]_callVars PROVE CallInv'
    OBVIOUS
<1> USE RetriesAssumption, KeptAssumption
    DEF CallInv, CallTypeOK, BackoffIsClean, RequestsSoFar, TextFromOneAttempt,
        GivesUpOnlyWhenSpent, LastAttempt
<1>1. CASE Send
    BY <1>1 DEF Send
<1>2. CASE DropOptions
  <2>1. options = TRUE /\ options' = FALSE
    BY <1>2, Zenon DEF DropOptions, CallTypeOK
  <2>2. requests' <= 2 * (attempt' - 1) + (IF options' THEN 1 ELSE 2)
    BY <1>2, <2>1 DEF DropOptions
  <2>3. options' \in BOOLEAN
    BY <2>1, Zenon
  <2>4. requests' \in Nat
    <3>1. requests' = requests + 1
      BY <1>2 DEF DropOptions
    <3> QED
      BY <3>1
  <2>5. UNCHANGED <<mode, pc, attempt, got, parts, fragments, error>> /\ pc = "connecting"
    BY <1>2 DEF DropOptions
  <2>6. CallTypeOK'
    BY <2>3, <2>4, <2>5
  <2> QED
    BY <2>2, <2>5, <2>6
<1>3. CASE Connected
    BY <1>3 DEF Connected
<1>4. CASE Event
  <2>1. CASE UNCHANGED <<parts, fragments>>
    BY <1>4, <2>1 DEF Event
  <2>2. CASE fragments' = Append(fragments, attempt) /\ UNCHANGED parts
    BY <1>4, <2>2 DEF Event
  <2>3. CASE parts' = Append(parts, attempt) /\ UNCHANGED fragments
    <3>1. parts' \in Seq(1..LastAttempt) /\ Len(parts') = Len(parts) + 1
      BY <1>4, <2>3
    <3>2. \A i \in 1..Len(parts') : parts'[i] = attempt
      BY <1>4, <2>3
    <3> QED
      BY <1>4, <2>3, <3>1, <3>2 DEF Event
  <2> QED
    BY <1>4, <2>1, <2>2, <2>3 DEF Event
<1>5. CASE Finish
    BY <1>5 DEF Finish
<1>6. ASSUME mode = "complete", pc \in {"connecting", "streaming"},
             NEW kind \in {"retryable", "fatal"}, Fail(kind)
      PROVE  CallInv'
    BY <1>6 DEF Fail, MayRetry
<1>7. CASE SdkError
    BY <1>6, <1>7 DEF SdkError
<1>8. CASE TimedOut
    BY <1>6, <1>8 DEF TimedOut
<1>9. CASE ForeignError
    BY <1>9 DEF ForeignError
<1>10. CASE ProbeError
    BY <1>10 DEF ProbeError
<1>11. CASE BackoffEnds
  <2>1. UNCHANGED <<mode, parts, fragments, error>> /\ pc' = "connecting" /\ parts = <<>>
    BY <1>11 DEF BackoffEnds
  <2>2. attempt' = attempt + 1 /\ attempt' \in 1 .. LastAttempt /\ requests' = requests + 1
    BY <1>11 DEF BackoffEnds
  <2>3. options' = TRUE /\ got' = FALSE
    BY <1>11, Zenon DEF BackoffEnds
  <2>4. options' \in BOOLEAN /\ got' \in BOOLEAN
    BY <2>3, Zenon
  <2>5. (IF options THEN 1 ELSE 2) \in {1, 2} /\ (IF options' THEN 1 ELSE 2) = 1
    BY <2>3
  <2>6. requests' <= 2 * (attempt' - 1) + 1
    BY <2>2, <2>5
  <2>7. CallTypeOK'
    BY <2>1, <2>2, <2>4
  <2> QED
    BY <2>1, <2>2, <2>5, <2>6, <2>7
<1>13. CASE NextWait
    BY <1>13 DEF NextWait
<1>12. CASE UNCHANGED callVars
    BY <1>12 DEF callVars
<1> QED
    BY <1>1, <1>2, <1>3, <1>4, <1>5, <1>7, <1>8, <1>9, <1>10, <1>11, <1>12, <1>13 DEF CallNext

(* The invariant holds in every reachable state.                           *)
THEOREM CallInvariance == CallSpec => []CallInv
<1>1. CallInit => CallInv
  <2> SUFFICES ASSUME CallInit PROVE CallInv
    OBVIOUS
  <2>1. options \in BOOLEAN /\ got \in BOOLEAN
    BY Zenon DEF CallInit
  <2>2. (IF options THEN 1 ELSE 2) \in {1, 2}
    OBVIOUS
  <2>3. /\ mode \in {"complete", "probe"} /\ pc = "idle" /\ attempt = 1
        /\ parts = <<>> /\ fragments = <<>> /\ requests = 0 /\ error = "none"
    BY DEF CallInit
  <2> QED
    BY <2>1, <2>2, <2>3, RetriesAssumption
       DEF CallInv, CallTypeOK, BackoffIsClean, RequestsSoFar, TextFromOneAttempt,
           GivesUpOnlyWhenSpent, LastAttempt
<1>2. CallInv /\ [CallNext]_callVars => CallInv'
    BY CallInvStep
<1> QED
    BY <1>1, <1>2, PTL DEF CallSpec

(* Every reachable state of a logical call is well typed.                  *)
THEOREM CallTypeCorrect == CallSpec => []CallTypeOK
<1>1. CallInv => CallTypeOK
    BY DEF CallInv
<1> QED
    BY <1>1, CallInvariance, PTL

(* TextFromOneAttempt: no retry ever adds to text that was already kept.   *)
THEOREM TextIsNeverReplayed == CallSpec => []TextFromOneAttempt
<1>1. CallInv => TextFromOneAttempt
    BY DEF CallInv
<1> QED
    BY <1>1, CallInvariance, PTL

(* GivesUpOnlyWhenSpent: a retryable error ends the call only when no      *)
(* retry was left or text had been kept.                                   *)
THEOREM NoEarlyGivingUp == CallSpec => []GivesUpOnlyWhenSpent
<1>1. CallInv => GivesUpOnlyWhenSpent
    BY DEF CallInv
<1> QED
    BY <1>1, CallInvariance, PTL

(* RequestBudget: a logical call makes at most two requests an attempt.    *)
THEOREM RequestsAreBounded == CallSpec => []RequestBudget
<1>1. CallInv => RequestBudget
    BY RetriesAssumption DEF CallInv, CallTypeOK, RequestsSoFar, RequestBudget, LastAttempt
<1> QED
    BY <1>1, CallInvariance, PTL

(* Retries are used up and bound the requests.                             *)
THEOREM RetriesAreAllSpent == CallSpec => []RetriesAreSpent
BY NoEarlyGivingUp, RequestsAreBounded, PTL DEF RetriesAreSpent

-----------------------------------------------------------------------------
(* Part 2: TraceAdmin.  The inductive invariant.                           *)

(* Every trace and every task has a run of its own, and every task an id.  *)
Numbered ==
    /\ \A i \in Ids : IF Exists(i) THEN trace[i].run \in 1 .. runs ELSE trace[i] = NoTrace
    /\ \A i, k \in Ids : Exists(i) /\ Exists(k) /\ trace[i].run = trace[k].run => i = k
    /\ \A j \in Busy : job[j].run \in 1 .. runs /\ job[j].id \in Ids
    /\ \A j, k \in Busy : job[j].run = job[k].run => j = k
    /\ cut \subseteq 0 .. runs
    /\ \A i \in Ids : \A c \in calls[i] :
           c.run \in 1 .. runs /\ \A j \in Busy : c.run # job[j].run

(* The id a task holds is that of its trace, unless a deletion came        *)
(* between: then no trace is of that run any more, whoever has the id now. *)
OwnTrace ==
    /\ \A i \in Ids : Exists(i) => trace[i].run \notin cut
    /\ \A j \in Busy, i \in Ids : Exists(i) /\ trace[i].run = job[j].run =>
           At(j, "running") /\ job[j].id = i
    /\ \A j \in Busy : job[j].run \notin cut =>
           /\ Exists(job[j].id)
           /\ trace[job[j].id].owner = job[j].owner
           /\ At(j, "running") => trace[job[j].id].run = job[j].run

(* The lock is held across an await by a rerun whose good critique is       *)
(* flushed, and by nobody else. Its trace is there: no deletion gets in    *)
(* before the commit.                                                      *)
HeldLock ==
    \A j \in Jobs :
        /\ At(j, "final") <=> lock = j
        /\ At(j, "final") => Exists(job[j].id)

(* No stamp is ahead of the clock, and whatever was stamped after a rerun  *)
(* had stamped its critique, while it had not committed, is of a rerun     *)
(* that overlapped with it: of another one waiting, of a committed row, or *)
(* of one waiting whose stamp lies within a pair.                          *)
Stamped ==
    /\ \A i \in Ids : \A c \in calls[i] : c.at <= clock
    /\ \A j \in Writers : job[j].at <= clock
    /\ \A j, k \in Writers : j # k /\ job[j].id = job[k].id => {job[j].run, job[k].run} \in met
    /\ \A j \in Writers : \A c \in calls[job[j].id] :
           job[j].at < c.at => {c.run, job[j].run} \in met
    /\ \A j \in Writers : \A c, r \in calls[job[j].id] :
           Pair(c, r) /\ Between(job[j], c, r) => {job[j].run, r.run} \in met

AdminInv ==
    /\ TypeOK /\ Numbered /\ OwnTrace /\ HeldLock /\ Stamped
    /\ PendingHasOwner /\ OneOwner /\ RerunsPair

-----------------------------------------------------------------------------
(* New ids and rows.                                                       *)

LEMMA LeastExists ==
    ASSUME NEW S \in SUBSET Nat, S # {}
    PROVE  \E x \in S : \A y \in S : x <= y
<1> DEFINE R == StrictSubsetOrdering(Nat)
           T == {0 .. x : x \in S}
<1>1. T \subseteq FiniteSubsetsOf(Nat) /\ T # {}
  <2>1. ASSUME NEW x \in S PROVE 0 .. x \in FiniteSubsetsOf(Nat)
    <3>1. IsFiniteSet(0 .. x) /\ 0 .. x \in SUBSET Nat
      BY FS_Interval
    <3> QED BY <3>1 DEF FiniteSubsetsOf
  <2> QED BY <2>1
<1>2. PICK X \in T : \A Y \in T : ~ (<<Y, X>> \in R)
  <2>1. IsWellFoundedOn(R, FiniteSubsetsOf(Nat))
    BY FS_StrictSubsetOrderingWellFounded
  <2> HIDE DEF R, T
  <2> QED BY <1>1, <2>1, WFMin, Zenon
<1>3. PICK x \in S : X = 0 .. x
  BY <1>2
<1>4. ASSUME NEW y \in S PROVE x <= y
  <2>1. SUFFICES ASSUME y < x PROVE FALSE
    OBVIOUS
  <2>2. 0 .. y \in SUBSET Nat /\ 0 .. x \in SUBSET Nat
    OBVIOUS
  <2>3. 0 .. y \subseteq 0 .. x /\ x \in 0 .. x /\ x \notin 0 .. y
    BY <2>1
  <2>4. <<0 .. y, 0 .. x>> \in R
    BY <2>2, <2>3 DEF StrictSubsetOrdering
  <2> QED BY <1>2, <1>3, <2>4
<1> QED BY <1>4

(* The id of a new trace is free.                                          *)
LEMMA NewIdIsFree ==
    ASSUME NewId <= MaxIds
    PROVE  NewId \in Ids /\ ~Exists(NewId)
<1> DEFINE used  == {i \in Ids : Exists(i)}
           above == {n \in 1 .. MaxIds + 1 : \A i \in used : i < n}
           Good(n) == (\A i \in Ids : Exists(i) => i < n) /\ (n = 1 \/ Exists(n - 1))
<1>0. MaxIds \in Nat
  BY BoundsAssumption
<1>1. above \in SUBSET Nat /\ above # {}
  <2>1. MaxIds + 1 \in above
    BY <1>0 DEF Ids
  <2> QED BY <2>1
<1>2. PICK n \in above : \A k \in above : n <= k
  <2> HIDE DEF above
  <2> QED BY <1>1, LeastExists
<1>3. n = 1 \/ n - 1 \in used
  <2>1. CASE n # 1
    <3>1. n - 1 \in 1 .. MaxIds + 1 /\ n - 1 \notin above
      BY <1>0, <1>2, <2>1
    <3>2. PICK k \in used : ~(k < n - 1)
      BY <3>1
    <3>3. k = n - 1
      BY <1>0, <1>2, <3>2 DEF Ids
    <3> QED BY <3>2, <3>3
  <2> QED BY <2>1
<1>4. Good(n)
  BY <1>2, <1>3
<1>5. NewId = CHOOSE m \in 1 .. MaxIds + 1 : Good(m)
  BY DEF NewId
<1>6. NewId \in 1 .. MaxIds + 1 /\ Good(NewId)
  <2>1. \E m \in 1 .. MaxIds + 1 : Good(m)
    BY <1>2, <1>4
  <2> HIDE DEF Good
  <2> QED BY <1>5, <2>1, Zenon
<1>7. NewId \in Ids
  BY <1>0, <1>6 DEF Ids
<1> QED BY <1>0, <1>6, <1>7 DEF Ids

LEMMA IdleTyped == NoTrace \in Trace /\ Idle \in Frame
<1>1. (CHOOSE o \in Owners : TRUE) \in Owners
  BY OwnersAssumption, Zenon
<1> QED BY <1>1, BoundsAssumption DEF NoTrace, Trace, Idle, Frame, Runs

(* What the commit of task j logs: rows of its own.                        *)
OwnRows(j, batch) ==
    /\ batch \subseteq Call
    /\ \A c \in batch : c.run = job[j].run /\ c.owner = job[j].owner

LEMMA RowTyped ==
    ASSUME TypeOK, NEW j \in Jobs, NEW role \in {"member", "critique", "rerun"},
           NEW ok \in BOOLEAN, NEW at \in Nat
    PROVE  /\ Row(j, role, ok, at) \in Call
           /\ Row(j, role, ok, at).run = job[j].run /\ Row(j, role, ok, at).owner = job[j].owner
           /\ Row(j, role, ok, at).role = role /\ Row(j, role, ok, at).ok = ok
           /\ Row(j, role, ok, at).at = at
<1>1. job[j].run \in Runs /\ job[j].owner \in Owners
  BY DEF TypeOK, Frame
<1> QED BY <1>1, Zenon DEF Row, Call

-----------------------------------------------------------------------------
(* The order of the rows.                                                  *)

LEMMA WriterFacts ==
    ASSUME TypeOK, Numbered
    PROVE  \A j \in Writers : j \in Busy /\ job[j].id \in Ids /\ job[j].at \in Nat
<1>1. \A j \in Jobs : job[j].at \in Nat
  BY DEF TypeOK, Frame
<1> QED BY <1>1 DEF Writers, Numbered, Busy, At

(* A step that stamps nothing and adds no row keeps the order.             *)
LEMMA Quiet ==
    ASSUME AdminInv, UNCHANGED <<clock, met>>,
           \A i \in Ids : calls'[i] = calls[i] \/ calls'[i] = {},
           \A j \in Writers' : /\ j \in Writers
                               /\ job'[j].id = job[j].id /\ job'[j].at = job[j].at
                               /\ job'[j].run = job[j].run
    PROVE  Stamped' /\ RerunsPair'
<1>1. \A j \in Writers : job[j].id \in Ids
  BY WriterFacts DEF AdminInv
<1>2. \A i \in Ids : \A c \in calls'[i] : calls'[i] = calls[i] /\ c \in calls[i]
  OBVIOUS
<1>3. RerunsPair'
  BY <1>2 DEF AdminInv, RerunsPair, Pair, Between
<1>4. \A i \in Ids : \A c \in calls'[i] : c.at <= clock'
  BY <1>2 DEF AdminInv, Stamped
<1>5. \A j \in Writers' : job'[j].at <= clock'
  BY DEF AdminInv, Stamped
<1>6. \A j, k \in Writers' :
          j # k /\ job'[j].id = job'[k].id => {job'[j].run, job'[k].run} \in met'
  BY DEF AdminInv, Stamped
<1>7. ASSUME NEW j \in Writers', NEW c \in calls'[job'[j].id], job'[j].at < c.at
      PROVE  {c.run, job'[j].run} \in met'
  BY <1>1, <1>2, <1>7 DEF AdminInv, Stamped
<1>8. ASSUME NEW j \in Writers', NEW c \in calls'[job'[j].id], NEW r \in calls'[job'[j].id],
             Pair(c, r), Between(job'[j], c, r)
      PROVE  {job'[j].run, r.run} \in met'
  <2>1. c \in calls[job[j].id] /\ r \in calls[job[j].id] /\ Between(job[j], c, r)
    BY <1>1, <1>2, <1>8 DEF Between
  <2> QED BY <1>8, <2>1 DEF AdminInv, Stamped
<1> QED BY <1>3, <1>4, <1>5, <1>6, <1>7, <1>8 DEF Stamped, Between, Pair

-----------------------------------------------------------------------------
(* A new trace or a new rerun.                                             *)

LEMMA NewTraceFacts ==
    ASSUME AdminInv, NEW u \in Owners, NEW status \in {"pending", "final"},
           NEW by \in {0, runs + 1}, NewTrace(u, status, by)
    PROVE  /\ NewId \in Ids /\ ~Exists(NewId) /\ calls[NewId] = {}
           /\ runs \in Nat /\ runs' = runs + 1 /\ runs' \in Runs
           /\ trace' \in [Ids -> Trace]
           /\ trace'[NewId] = [status |-> status, run |-> runs + 1, by |-> by, owner |-> u,
                               old |-> FALSE]
           /\ \A i \in Ids \ {NewId} : trace'[i] = trace[i]
<1> DEFINE new == [status |-> status, run |-> runs + 1, by |-> by, owner |-> u, old |-> FALSE]
<1>1. runs \in Nat /\ runs + 1 \in Runs /\ 0 \in Runs
  BY BoundsAssumption DEF AdminInv, TypeOK, NewTrace, Runs
<1>2. NewId \in Ids /\ ~Exists(NewId)
  BY NewIdIsFree DEF NewTrace
<1>3. calls[NewId] = {}
  BY <1>2 DEF AdminInv, TypeOK
<1>4. new \in Trace
  BY <1>1 DEF Trace
<1>5. trace' = [trace EXCEPT ![NewId] = new] /\ runs' = runs + 1
  BY DEF NewTrace
<1> HIDE DEF new
<1>6. /\ trace' \in [Ids -> Trace] /\ trace'[NewId] = new
      /\ \A i \in Ids \ {NewId} : trace'[i] = trace[i]
  BY <1>2, <1>4, <1>5 DEF AdminInv, TypeOK
<1> QED BY <1>1, <1>2, <1>3, <1>5, <1>6 DEF new

LEMMA OpenInv ==
    ASSUME AdminInv, NEW j \in Jobs, NEW u \in Owners, Open(j, u)
    PROVE  AdminInv'
<1> DEFINE n == NewId
           new == [pc |-> "running", id |-> NewId, run |-> runs + 1, owner |-> u,
                   at |-> 0, ok |-> FALSE]
<1>1. /\ n \in Ids /\ ~Exists(n) /\ calls[n] = {}
      /\ runs \in Nat /\ runs' = runs + 1 /\ runs' \in Runs
      /\ trace' \in [Ids -> Trace]
      /\ trace'[n] = [status |-> "pending", run |-> runs + 1, by |-> 0, owner |-> u,
                      old |-> FALSE]
      /\ \A i \in Ids \ {n} : trace'[i] = trace[i]
  BY NewTraceFacts DEF Open
<1>2. new \in Frame
  BY <1>1 DEF Frame, Ids
<1>3. /\ At(j, "idle") /\ job' \in [Jobs -> Frame] /\ job'[j] = new
      /\ \A k \in Jobs \ {j} : job'[k] = job[k]
      /\ UNCHANGED <<calls, lock, clock, cut, hurt, met>>
  BY <1>2 DEF Open, AdminInv, TypeOK
<1>4. new.pc = "running" /\ new.id = n /\ new.run = runs + 1 /\ new.owner = u
  OBVIOUS
<1> HIDE DEF n, new
<1>5. TypeOK'
  BY <1>1, <1>3 DEF AdminInv, TypeOK, Exists
<1>6. \A i \in Ids : Exists(i) => trace[i].run \in 1 .. runs
  BY DEF AdminInv, Numbered
<1>7. Numbered'
  <2>1. \A i \in Ids : IF Exists(i)' THEN trace'[i].run \in 1 .. runs' ELSE trace'[i] = NoTrace
    BY <1>1 DEF AdminInv, Numbered, Exists
  <2>2. \A i, k \in Ids : Exists(i)' /\ Exists(k)' /\ trace'[i].run = trace'[k].run => i = k
    BY <1>1, <1>6 DEF AdminInv, Numbered, Exists
  <2>3. \A k \in Jobs \ {j} : ~At(k, "idle")' => job'[k].run \in 1 .. runs /\ job'[k].id \in Ids
    BY <1>3 DEF AdminInv, Numbered, Busy, At
  <2>4. \A k \in Busy' : job'[k].run \in 1 .. runs' /\ job'[k].id \in Ids
    BY <1>1, <1>3, <1>4, <2>3 DEF Busy
  <2>5. \A k, m \in Busy' : job'[k].run = job'[m].run => k = m
    BY <1>1, <1>3, <1>4, <2>3 DEF AdminInv, Numbered, Busy, At
  <2>6. cut' \subseteq 0 .. runs'
    BY <1>1, <1>3 DEF AdminInv, Numbered
  <2>7. \A i \in Ids : \A c \in calls'[i] :
            c.run \in 1 .. runs' /\ \A k \in Busy' : c.run # job'[k].run
    BY <1>1, <1>3, <1>4 DEF AdminInv, Numbered, Busy, At
  <2> QED BY <2>1, <2>2, <2>4, <2>5, <2>6, <2>7 DEF Numbered
<1>8. OwnTrace'
  <2>1. \A i \in Ids : Exists(i)' => trace'[i].run \notin cut'
    BY <1>1, <1>3 DEF AdminInv, OwnTrace, Numbered, Exists
  <2>2. \A k \in Busy', i \in Ids : Exists(i)' /\ trace'[i].run = job'[k].run =>
            At(k, "running")' /\ job'[k].id = i
    <3>1. \A k \in Jobs \ {j} : k \in Busy' => k \in Busy /\ job[k].run \in 1 .. runs
      BY <1>3 DEF AdminInv, Numbered, Busy, At
    <3> QED BY <1>1, <1>3, <1>4, <1>6, <3>1 DEF AdminInv, OwnTrace, Busy, At, Exists
  <2>3. \A k \in Busy' : job'[k].run \notin cut' =>
            /\ Exists(job[k].id)' /\ trace'[job'[k].id].owner = job'[k].owner
            /\ At(k, "running")' => trace'[job'[k].id].run = job'[k].run
    BY <1>1, <1>3, <1>4 DEF AdminInv, OwnTrace, Numbered, Busy, At, Exists
  <2> QED BY <2>1, <2>2, <2>3 DEF OwnTrace
<1>9. HeldLock'
  <2>1. \A k \in Jobs \ {j} : At(k, "final") => job[k].id \in Ids
    BY DEF AdminInv, Numbered, Busy, At
  <2>2. ASSUME NEW k \in Jobs \ {j}, At(k, "final")' PROVE Exists(job[k].id)'
    <3>1. job'[k] = job[k] /\ At(k, "final")
      BY <1>3, <2>2 DEF At
    <3>2. Exists(job[k].id) /\ job[k].id \in Ids \ {n}
      BY <1>1, <2>1, <3>1 DEF AdminInv, HeldLock
    <3> QED BY <1>1, <3>1, <3>2 DEF Exists
  <2>3. job'[j].pc = "running"
    BY <1>3, <1>4
  <2>4. ~At(j, "final")' /\ lock' # j
    BY <1>3, <2>3 DEF AdminInv, HeldLock, At
  <2> QED BY <1>3, <2>2, <2>3, <2>4 DEF AdminInv, HeldLock, At, Exists
<1>10. PendingHasOwner'
  BY <1>1, <1>3, <1>4 DEF AdminInv, PendingHasOwner, At
<1>11. OneOwner'
  BY <1>1, <1>3 DEF AdminInv, OneOwner
<1>12. Stamped' /\ RerunsPair'
  <2>1. \A k \in Writers' : k \in Writers /\ job'[k] = job[k]
    BY <1>3, <1>4 DEF Writers
  <2> QED BY <1>3, <2>1, Quiet
<1> QED BY <1>5, <1>7, <1>8, <1>9, <1>10, <1>11, <1>12 DEF AdminInv

LEMMA RejectInv ==
    ASSUME AdminInv, NEW u \in Owners, Reject(u)
    PROVE  AdminInv'
<1> DEFINE n == NewId
<1>1. /\ n \in Ids /\ ~Exists(n) /\ calls[n] = {}
      /\ runs \in Nat /\ runs' = runs + 1 /\ runs' \in Runs
      /\ trace' \in [Ids -> Trace]
      /\ trace'[n] = [status |-> "final", run |-> runs + 1, by |-> runs + 1, owner |-> u,
                      old |-> FALSE]
      /\ \A i \in Ids \ {n} : trace'[i] = trace[i]
  BY NewTraceFacts DEF Reject
<1>2. UNCHANGED <<calls, lock, job, clock, cut, hurt, met>>
  BY DEF Reject
<1> HIDE DEF n
<1>3. TypeOK'
  BY <1>1, <1>2 DEF AdminInv, TypeOK, Exists
<1>4. /\ \A i \in Ids : Exists(i) => trace[i].run \in 1 .. runs
      /\ \A k \in Busy : job[k].run \in 1 .. runs /\ job[k].id \in Ids
  BY DEF AdminInv, Numbered
<1>5. Numbered'
  <2>1. \A i \in Ids : IF Exists(i)' THEN trace'[i].run \in 1 .. runs' ELSE trace'[i] = NoTrace
    BY <1>1 DEF AdminInv, Numbered, Exists
  <2>2. \A i, k \in Ids : Exists(i)' /\ Exists(k)' /\ trace'[i].run = trace'[k].run => i = k
    BY <1>1, <1>4 DEF AdminInv, Numbered, Exists
  <2>3. \A i \in Ids : \A c \in calls'[i] :
            c.run \in 1 .. runs' /\ \A k \in Busy' : c.run # job'[k].run
    BY <1>1, <1>2 DEF AdminInv, Numbered, Busy, At
  <2> QED BY <1>1, <1>2, <1>4, <2>1, <2>2, <2>3 DEF AdminInv, Numbered, Busy, At
<1>6. OwnTrace'
  <2>1. \A i \in Ids : Exists(i)' => trace'[i].run \notin cut'
    BY <1>1, <1>2 DEF AdminInv, OwnTrace, Numbered, Exists
  <2>2. \A k \in Busy', i \in Ids : Exists(i)' /\ trace'[i].run = job'[k].run =>
            At(k, "running")' /\ job'[k].id = i
    BY <1>1, <1>2, <1>4 DEF AdminInv, OwnTrace, Busy, At, Exists
  <2>3. \A k \in Busy' : job'[k].run \notin cut' =>
            /\ Exists(job[k].id)' /\ trace'[job'[k].id].owner = job'[k].owner
            /\ At(k, "running")' => trace'[job'[k].id].run = job'[k].run
    BY <1>1, <1>2, <1>4 DEF AdminInv, OwnTrace, Busy, At, Exists
  <2> QED BY <2>1, <2>2, <2>3 DEF OwnTrace
<1>7. HeldLock'
  BY <1>1, <1>2, <1>4 DEF AdminInv, HeldLock, At, Exists, Busy
<1>8. PendingHasOwner'
  BY <1>1, <1>2 DEF AdminInv, PendingHasOwner, At
<1>9. OneOwner'
  BY <1>1, <1>2 DEF AdminInv, OneOwner
<1>10. Stamped' /\ RerunsPair'
  BY <1>2, Quiet DEF Writers
<1> QED BY <1>3, <1>5, <1>6, <1>7, <1>8, <1>9, <1>10 DEF AdminInv

LEMMA RejudgeStartInv ==
    ASSUME AdminInv, NEW j \in Jobs, NEW i \in Ids, RejudgeStart(j, i)
    PROVE  AdminInv'
<1> DEFINE new == [pc |-> "critique", id |-> i, run |-> runs + 1, owner |-> trace[i].owner,
                   at |-> 0, ok |-> FALSE]
<1>1. /\ trace[i].status = "final" /\ Exists(i)
      /\ runs \in Nat /\ runs' = runs + 1 /\ runs' \in Runs
  BY BoundsAssumption DEF RejudgeStart, Exists, AdminInv, TypeOK, Runs
<1>2. new \in Frame
  BY <1>1, BoundsAssumption DEF AdminInv, TypeOK, Frame, Trace, Ids
<1>3. /\ At(j, "idle") /\ job' \in [Jobs -> Frame] /\ job'[j] = new
      /\ \A k \in Jobs \ {j} : job'[k] = job[k]
      /\ UNCHANGED <<trace, calls, lock, clock, cut, hurt, met>>
  BY <1>2 DEF RejudgeStart, AdminInv, TypeOK
<1>4. new.pc = "critique" /\ new.id = i /\ new.run = runs + 1 /\ new.owner = trace[i].owner
  OBVIOUS
<1> HIDE DEF new
<1>5. TypeOK'
  BY <1>1, <1>3 DEF AdminInv, TypeOK, Exists
<1>6. /\ \A k \in Ids : Exists(k) => trace[k].run \in 1 .. runs
      /\ \A k \in Jobs \ {j} : k \in Busy' =>
             k \in Busy /\ job[k].run \in 1 .. runs /\ job[k].id \in Ids
  BY <1>3 DEF AdminInv, Numbered, Busy, At
<1>7. Numbered'
  <2>1. \A k \in Busy' : job'[k].run \in 1 .. runs' /\ job'[k].id \in Ids
    BY <1>1, <1>3, <1>4, <1>6 DEF Busy
  <2>2. \A k, m \in Busy' : job'[k].run = job'[m].run => k = m
    BY <1>1, <1>3, <1>4, <1>6 DEF AdminInv, Numbered, Busy
  <2>3. \A k \in Ids : IF Exists(k)' THEN trace'[k].run \in 1 .. runs' ELSE trace'[k] = NoTrace
    BY <1>1, <1>3 DEF AdminInv, Numbered, Exists
  <2>4. cut' \subseteq 0 .. runs'
    BY <1>1, <1>3 DEF AdminInv, Numbered
  <2>5. \A k \in Ids : \A c \in calls'[k] :
            c.run \in 1 .. runs' /\ \A m \in Busy' : c.run # job'[m].run
    <3>1. \A m \in Busy' : job'[m].run = runs + 1 \/ (m \in Busy /\ job'[m] = job[m])
      BY <1>3, <1>4, <1>6 DEF Busy
    <3>2. \A k \in Ids : \A c \in calls[k] :
              c.run \in 1 .. runs /\ \A m \in Busy : c.run # job[m].run
      BY DEF AdminInv, Numbered
    <3> QED BY <1>1, <1>3, <3>1, <3>2
  <2> QED BY <1>3, <2>1, <2>2, <2>3, <2>4, <2>5 DEF AdminInv, Numbered, Exists
<1>8. OwnTrace'
  <2>1. \A k \in Busy', m \in Ids : Exists(m)' /\ trace'[m].run = job'[k].run =>
            At(k, "running")' /\ job'[k].id = m
    BY <1>1, <1>3, <1>4, <1>6 DEF AdminInv, OwnTrace, Busy, At, Exists
  <2>2. \A k \in Busy' : job'[k].run \notin cut' =>
            /\ Exists(job[k].id)' /\ trace'[job'[k].id].owner = job'[k].owner
            /\ At(k, "running")' => trace'[job'[k].id].run = job'[k].run
    BY <1>1, <1>3, <1>4, <1>6 DEF AdminInv, OwnTrace, Busy, At, Exists
  <2> QED BY <1>3, <2>1, <2>2 DEF AdminInv, OwnTrace, Exists
<1>9. HeldLock'
  BY <1>1, <1>3, <1>4 DEF AdminInv, HeldLock, At, Exists
<1>10. PendingHasOwner'
  BY <1>3, <1>4 DEF AdminInv, PendingHasOwner, At
<1>11. OneOwner'
  BY <1>3 DEF AdminInv, OneOwner
<1>12. Stamped' /\ RerunsPair'
  <2>1. \A k \in Writers' : k \in Writers /\ job'[k] = job[k]
    BY <1>3, <1>4 DEF Writers
  <2> QED BY <1>3, <2>1, Quiet
<1> QED BY <1>5, <1>7, <1>8, <1>9, <1>10, <1>11, <1>12 DEF AdminInv

-----------------------------------------------------------------------------
(* The end of a task: its rows are committed and its trace is finished.    *)

(* Where its rows stand: those of a rerun by their stamps, the pair whole. *)
Placed(j, batch) ==
    /\ clock' \in {clock, clock + 1}
    /\ \A c \in batch :
           \/ c.role = "member" /\ c.at = 0
           \/ j \in Writers /\ c.role = "critique" /\ c.at = job[j].at
           \/ j \in Writers /\ c.role = "rerun" /\ c.at = clock' /\ clock' = clock + 1
    /\ \A r \in batch : r.role = "rerun" => \E c \in batch : c.role = "critique" /\ c.ok
    /\ \A c \in batch : c.role = "critique" /\ c.ok /\ Exists(job[j].id) =>
           \E r \in batch : r.role = "rerun"

Ends(j, batch) ==
    LET i == job[j].id IN
    /\ ~At(j, "idle")
    /\ OwnRows(j, batch) /\ Placed(j, batch)
    /\ Log(j, batch)
    /\ trace' = IF At(j, "running") /\ Exists(i)
                THEN [trace EXCEPT ![i].status = "final", ![i].by = job[j].run] ELSE trace
    /\ lock' = IF lock = j THEN NoJob ELSE lock
    /\ Done(j)
    /\ UNCHANGED <<runs, cut, hurt, met>>

(* What the end of a task leaves alone: the runs and owners of all traces. *)
LEMMA EndsTraces ==
    ASSUME AdminInv, NEW j \in Jobs, NEW batch, Ends(j, batch)
    PROVE  /\ job[j].id \in Ids
           /\ trace' \in [Ids -> Trace]
           /\ \A k \in Ids :
                  /\ trace'[k].run = trace[k].run /\ trace'[k].owner = trace[k].owner
                  /\ Exists(k)' <=> Exists(k)
                  /\ ~Exists(k) => trace'[k] = trace[k]
                  /\ \/ trace'[k].by = trace[k].by
                     \/ k = job[j].id /\ trace'[k].by = job[j].run /\ At(j, "running")
                  /\ trace'[k].status = "pending" =>
                         /\ trace[k].status = "pending"
                         /\ ~(At(j, "running") /\ k = job[j].id)
<1>1. job[j].id \in Ids /\ job[j].run \in Runs
  BY DEF AdminInv, TypeOK, Frame, Ends, Numbered, Busy
<1>2. CASE At(j, "running") /\ Exists(job[j].id)
  <2> DEFINE i   == job[j].id
             new == [trace[i] EXCEPT !.status = "final", !.by = job[j].run]
  <2>1. trace[i] \in Trace
    BY <1>1 DEF AdminInv, TypeOK
  <2>2. /\ new \in Trace /\ new.status = "final" /\ new.by = job[j].run
        /\ new.run = trace[i].run /\ new.owner = trace[i].owner
    BY <1>1, <2>1 DEF Trace
  <2>3. trace' = [trace EXCEPT ![i] = new]
    BY <1>2 DEF Ends
  <2> HIDE DEF new
  <2>4. /\ trace' \in [Ids -> Trace] /\ trace'[i] = new
        /\ \A k \in Ids \ {i} : trace'[k] = trace[k]
    BY <1>1, <2>2, <2>3 DEF AdminInv, TypeOK
  <2> QED BY <1>1, <1>2, <2>2, <2>4 DEF Exists
<1>3. CASE ~(At(j, "running") /\ Exists(job[j].id))
  <2>1. trace' = trace
    BY <1>3 DEF Ends
  <2>2. \A k \in Ids : trace[k].status = "pending" => Exists(k)
    BY DEF Exists
  <2> QED BY <1>1, <1>3, <2>1, <2>2 DEF AdminInv, TypeOK, Exists
<1> QED BY <1>2, <1>3

(* What it adds to the log.                                                *)
LEMMA EndsCalls ==
    ASSUME AdminInv, NEW j \in Jobs, NEW batch, Ends(j, batch)
    PROVE  /\ calls' \in [Ids -> SUBSET Call]
           /\ \A k \in Ids :
                  \/ calls'[k] = calls[k]
                  \/ k = job[j].id /\ Exists(k) /\ calls'[k] = calls[k] \cup batch
<1>1. job[j].id \in Ids
  BY EndsTraces
<1>2. batch \subseteq Call /\ calls \in [Ids -> SUBSET Call]
  BY DEF Ends, OwnRows, AdminInv, TypeOK
<1>3. CASE Exists(job[j].id)
  BY <1>1, <1>2, <1>3 DEF Ends, Log
<1>4. CASE ~Exists(job[j].id)
  BY <1>2, <1>4 DEF Ends, Log
<1> QED BY <1>3, <1>4

(* A task that ends is idle, and the others go on.                         *)
LEMMA DoneFacts ==
    ASSUME TypeOK, NEW j \in Jobs, Done(j)
    PROVE  /\ job' \in [Jobs -> Frame] /\ job'[j] = Idle
           /\ \A k \in Jobs \ {j} : job'[k] = job[k]
           /\ \A k \in Busy' : k \in Busy /\ k # j /\ job'[k] = job[k]
<1>1. job' = [job EXCEPT ![j] = Idle] /\ Idle \in Frame /\ Idle.pc = "idle"
  BY IdleTyped DEF Done, Idle
<1>2. /\ job' \in [Jobs -> Frame] /\ job'[j] = Idle
      /\ \A k \in Jobs \ {j} : job'[k] = job[k]
  BY <1>1 DEF TypeOK
<1> QED BY <1>1, <1>2 DEF Busy, At

(* The parts of the invariant that speak of runs and of the lock outlive   *)
(* the end of a task, whatever becomes of its trace, and so do rows of it. *)
LEMMA DoneInv ==
    ASSUME AdminInv, NEW j \in Busy, Done(j),
           lock' = IF lock = j THEN NoJob ELSE lock,
           UNCHANGED <<runs, cut>>,
           \A k \in Ids : /\ trace'[k].run = trace[k].run /\ trace'[k].owner = trace[k].owner
                          /\ Exists(k)' <=> Exists(k)
                          /\ ~Exists(k) => trace'[k] = trace[k],
           \A k \in Ids : \A c \in calls'[k] : c \in calls[k] \/ c.run = job[j].run
    PROVE  Numbered' /\ OwnTrace' /\ HeldLock'
<1>1. /\ job' \in [Jobs -> Frame] /\ job'[j] = Idle
      /\ \A k \in Jobs \ {j} : job'[k] = job[k]
      /\ \A k \in Busy' : k \in Busy /\ k # j /\ job'[k] = job[k]
  BY DoneFacts DEF AdminInv, Busy
<1>2. Numbered'
  <2>1. \A k \in Ids : \A c \in calls'[k] :
            c.run \in 1 .. runs' /\ \A m \in Busy' : c.run # job'[m].run
    BY <1>1 DEF AdminInv, Numbered
  <2> QED BY <1>1, <2>1 DEF AdminInv, Numbered
<1>3. OwnTrace'
  <2>1. \A i \in Ids : Exists(i)' => trace'[i].run \notin cut'
    BY DEF AdminInv, OwnTrace
  <2>2. \A k \in Busy', i \in Ids : Exists(i)' /\ trace'[i].run = job'[k].run =>
            At(k, "running")' /\ job'[k].id = i
    BY <1>1 DEF AdminInv, OwnTrace, At
  <2>3. ASSUME NEW k \in Busy', job'[k].run \notin cut'
        PROVE  /\ Exists(job[k].id)' /\ trace'[job'[k].id].owner = job'[k].owner
               /\ At(k, "running")' => trace'[job'[k].id].run = job'[k].run
    <3>1. k \in Busy /\ job'[k] = job[k] /\ job[k].id \in Ids
      BY <1>1 DEF AdminInv, Numbered
    <3>2. Exists(job[k].id)' <=> (trace'[job[k].id].status # "none")
      BY <3>1 DEF Exists
    <3> QED BY <2>3, <3>1, <3>2 DEF AdminInv, OwnTrace, Exists, At
  <2> QED BY <2>1, <2>2, <2>3 DEF OwnTrace
<1>4. HeldLock'
  <2>1. ~At(j, "final")' /\ lock' # j
    BY <1>1, JobsAssumption DEF At, Idle, Busy
  <2>2. ASSUME NEW k \in Jobs \ {j}
        PROVE  /\ At(k, "final")' <=> lock' = k
               /\ At(k, "final")' => Exists(job[k].id)'
    <3>1. job'[k] = job[k]
      BY <1>1
    <3>2. lock = k <=> lock' = k
      BY JobsAssumption
    <3>3. At(k, "final") => job[k].id \in Ids
      BY DEF AdminInv, Numbered, Busy, At
    <3>4. At(k, "final")' <=> At(k, "final")
      BY <3>1 DEF At
    <3> QED BY <3>1, <3>2, <3>3, <3>4 DEF AdminInv, HeldLock, Exists
  <2> QED BY <2>1, <2>2 DEF HeldLock
<1> QED BY <1>2, <1>3, <1>4

(* No pair is half old and half new: every run is of one task, once.       *)
LEMMA PairsAreCommittedWhole ==
    ASSUME AdminInv, NEW j \in Busy, NEW batch, OwnRows(j, batch), NEW k \in Ids,
           NEW c \in calls[k] \cup batch, NEW r \in calls[k] \cup batch, Pair(c, r)
    PROVE  (c \in calls[k] /\ r \in calls[k]) \/ (c \in batch /\ r \in batch)
<1>1. \A x \in calls[k] : x.run # job[j].run
  BY DEF AdminInv, Numbered
<1> QED BY <1>1 DEF OwnRows, Pair

LEMMA EndsOrder ==
    ASSUME AdminInv, NEW j \in Jobs, NEW batch, Ends(j, batch)
    PROVE  Stamped' /\ RerunsPair'
<1>1. /\ job[j].id \in Ids /\ j \in Busy /\ OwnRows(j, batch) /\ Placed(j, batch) /\ met' = met
      /\ clock \in Nat /\ clock <= clock'
  <2>1. job[j].id \in Ids /\ clock \in Nat
    BY EndsTraces DEF AdminInv, TypeOK
  <2>2. j \in Busy /\ OwnRows(j, batch) /\ Placed(j, batch) /\ met' = met
    BY DEF Ends, Busy
  <2>3. clock' \in {clock, clock + 1}
    BY <2>2 DEF Placed
  <2> QED BY <2>1, <2>2, <2>3
<1>2. \A k \in Ids :
          \/ calls'[k] = calls[k]
          \/ k = job[j].id /\ Exists(k) /\ calls'[k] = calls[k] \cup batch
  BY EndsCalls
<1>3. \A m \in Writers' : /\ m \in Writers /\ m # j
                          /\ job'[m].id = job[m].id /\ job'[m].at = job[m].at
                          /\ job'[m].run = job[m].run
  <2>1. /\ job'[j] = Idle /\ Idle.pc = "idle"
        /\ \A m \in Jobs \ {j} : job'[m] = job[m]
    BY DoneFacts DEF AdminInv, Ends, Idle
  <2> QED BY <2>1 DEF Writers
<1>4. \A m \in Writers : job[m].id \in Ids /\ job[m].at \in Nat /\ job[m].at <= clock
  BY WriterFacts DEF AdminInv, Stamped
<1>5. \A k \in Ids : \A c \in calls[k] : c.at \in Nat /\ c.at <= clock
  BY DEF AdminInv, TypeOK, Stamped, Call
<1>6. ASSUME NEW c \in batch
      PROVE  /\ c.run = job[j].run
             /\ \/ c.role = "member" /\ c.at = 0
                \/ j \in Writers /\ c.role = "critique" /\ c.at = job[j].at
                \/ j \in Writers /\ c.role = "rerun" /\ c.at = clock' /\ clock' = clock + 1
  BY <1>1 DEF OwnRows, Placed
<1>7. \A k \in Ids : \A c \in calls'[k] :
          c \in calls[k] \/ (c \in batch /\ k = job[j].id)
  BY <1>2
<1>8. ASSUME NEW k \in Ids, NEW c \in calls'[k], NEW r \in calls'[k], Pair(c, r)
      PROVE  (c \in calls[k] /\ r \in calls[k]) \/ (c \in batch /\ r \in batch /\ k = job[j].id)
  BY <1>1, <1>2, <1>8, PairsAreCommittedWhole
<1>9. clock' \in Nat
  BY <1>1 DEF Placed
<1>10. Stamped'
  <2>1. \A k \in Ids : \A c \in calls'[k] : c.at <= clock'
    <3>1. ASSUME NEW k \in Ids, NEW c \in calls[k] PROVE c.at <= clock'
      BY <1>1, <1>5, <1>9
    <3>2. ASSUME NEW c \in batch PROVE c.at <= clock'
      BY <1>1, <1>4, <1>6, <1>9
    <3> QED BY <1>7, <3>1, <3>2
  <2>2. \A m \in Writers' : job'[m].at <= clock'
    BY <1>1, <1>3, <1>4, <1>9
  <2>3. \A m, k \in Writers' :
            m # k /\ job'[m].id = job'[k].id => {job'[m].run, job'[k].run} \in met'
    BY <1>1, <1>3 DEF AdminInv, Stamped
  <2>4. ASSUME NEW m \in Writers', NEW c \in calls'[job'[m].id], job'[m].at < c.at
        PROVE  {c.run, job'[m].run} \in met'
    <3>1. m \in Writers /\ m # j /\ job[m].id \in Ids /\ c \in calls'[job[m].id]
          /\ job[m].at < c.at /\ job[m].at \in Nat
      BY <1>3, <1>4, <2>4
    <3>2. CASE c \in calls[job[m].id]
      BY <1>1, <1>3, <3>1, <3>2 DEF AdminInv, Stamped
    <3>3. CASE c \in batch /\ job[m].id = job[j].id
      <4>1. j \in Writers /\ c.run = job[j].run
        BY <1>6, <3>1, <3>3
      <4> QED BY <1>1, <1>3, <3>1, <3>3, <4>1 DEF AdminInv, Stamped
    <3> QED BY <1>7, <3>1, <3>2, <3>3
  <2>5. ASSUME NEW m \in Writers', NEW c \in calls'[job'[m].id], NEW r \in calls'[job'[m].id],
               Pair(c, r), Between(job'[m], c, r)
        PROVE  {job'[m].run, r.run} \in met'
    <3>1. /\ m \in Writers /\ m # j /\ job[m].id \in Ids
          /\ c \in calls'[job[m].id] /\ r \in calls'[job[m].id] /\ Between(job[m], c, r)
      BY <1>3, <1>4, <2>5 DEF Between
    <3>2. CASE c \in calls[job[m].id] /\ r \in calls[job[m].id]
      BY <1>1, <1>3, <2>5, <3>1, <3>2 DEF AdminInv, Stamped
    <3>3. CASE r \in batch /\ job[m].id = job[j].id
      <4>1. j \in Writers /\ r.run = job[j].run
        BY <1>6, <2>5, <3>3 DEF Pair
      <4> QED BY <1>1, <1>3, <3>1, <3>3, <4>1 DEF AdminInv, Stamped
    <3> QED BY <1>8, <2>5, <3>1, <3>2, <3>3
  <2> QED BY <2>1, <2>2, <2>3, <2>4, <2>5 DEF Stamped, Pair, Between
<1>11. RerunsPair'
  <2>1. ASSUME NEW k \in Ids, NEW r \in calls'[k], r.role = "rerun"
        PROVE  \E c \in calls'[k] : Pair(c, r) /\ c.ok /\ c.at < r.at
    <3>1. CASE r \in calls[k]
      BY <1>2, <2>1, <3>1 DEF AdminInv, RerunsPair
    <3>2. CASE r \in batch /\ r \notin calls[k]
      <4>1. calls'[k] = calls[k] \cup batch
        BY <1>2, <3>2
      <4>2. PICK c \in batch : c.role = "critique" /\ c.ok
        BY <1>1, <2>1, <3>2 DEF Placed
      <4>3. /\ j \in Writers /\ c.at = job[j].at /\ r.at = clock + 1
            /\ c.run = job[j].run /\ r.run = job[j].run
        BY <1>6, <2>1, <3>2, <4>2
      <4>4. c.at < r.at
        BY <1>1, <1>4, <4>3
      <4> QED BY <2>1, <4>1, <4>2, <4>3, <4>4 DEF Pair
    <3> QED BY <1>7, <3>1, <3>2
  <2>2. ASSUME NEW k \in Ids, NEW c \in calls'[k], c.role = "critique", c.ok
        PROVE  \E r \in calls'[k] : Pair(c, r)
    <3>1. CASE c \in calls[k]
      BY <1>2, <2>2, <3>1 DEF AdminInv, RerunsPair
    <3>2. CASE c \in batch /\ c \notin calls[k]
      <4>1. calls'[k] = calls[k] \cup batch /\ Exists(job[j].id)
        BY <1>2, <3>2
      <4>2. PICK r \in batch : r.role = "rerun"
        BY <1>1, <2>2, <3>2, <4>1 DEF Placed
      <4> QED BY <1>6, <2>2, <3>2, <4>1, <4>2 DEF Pair
    <3> QED BY <1>7, <3>1, <3>2
  <2>3. ASSUME NEW k \in Ids, NEW c \in calls'[k], NEW r \in calls'[k], NEW x \in calls'[k],
               Pair(c, r), Between(x, c, r)
        PROVE  {x.run, r.run} \in met'
    <3>1. CASE c \in batch /\ r \in batch /\ k = job[j].id
      <4>1. /\ j \in Writers /\ c.at = job[j].at /\ r.at = clock + 1 /\ clock' = clock + 1
            /\ r.run = job[j].run
        BY <1>6, <2>3, <3>1 DEF Pair
      <4>2. x \notin batch
        BY <1>1, <1>4, <1>6, <2>3, <4>1 DEF Between
      <4>3. x \in calls[job[j].id] /\ job[j].at < x.at
        BY <1>7, <2>3, <3>1, <4>1, <4>2 DEF Between
      <4> QED BY <1>1, <4>1, <4>3 DEF AdminInv, Stamped
    <3>2. CASE c \in calls[k] /\ r \in calls[k]
      <4>1. CASE x \in calls[k]
        BY <1>1, <2>3, <3>2, <4>1 DEF AdminInv, RerunsPair
      <4>2. CASE x \in batch /\ k = job[j].id
        <5>1. c.at \in Nat /\ r.at <= clock /\ r.at \in Nat
          BY <1>5, <3>2
        <5>2. j \in Writers /\ x.at = job[j].at /\ x.run = job[j].run
          BY <1>1, <1>6, <2>3, <4>2, <5>1 DEF Between
        <5>3. Between(job[j], c, r)
          BY <2>3, <5>2 DEF Between
        <5> QED BY <1>1, <2>3, <3>2, <4>2, <5>2, <5>3 DEF AdminInv, Stamped
      <4> QED BY <1>7, <4>1, <4>2
    <3> QED BY <1>8, <2>3, <3>1, <3>2
  <2> QED BY <2>1, <2>2, <2>3 DEF RerunsPair, Pair, Between
<1> QED BY <1>10, <1>11

LEMMA EndsInv ==
    ASSUME AdminInv, NEW j \in Jobs, NEW batch, Ends(j, batch)
    PROVE  AdminInv'
<1> DEFINE i == job[j].id
<1>1. /\ i \in Ids /\ trace' \in [Ids -> Trace]
      /\ \A k \in Ids :
             /\ trace'[k].run = trace[k].run /\ trace'[k].owner = trace[k].owner
             /\ Exists(k)' <=> Exists(k)
             /\ ~Exists(k) => trace'[k] = trace[k]
             /\ \/ trace'[k].by = trace[k].by
                \/ k = i /\ trace'[k].by = job[j].run /\ At(j, "running")
             /\ trace'[k].status = "pending" =>
                    trace[k].status = "pending" /\ ~(At(j, "running") /\ k = i)
  BY EndsTraces
<1>2. /\ calls' \in [Ids -> SUBSET Call]
      /\ \A k \in Ids : \/ calls'[k] = calls[k]
                        \/ k = i /\ Exists(k) /\ calls'[k] = calls[k] \cup batch
  BY EndsCalls
<1>3. /\ job' \in [Jobs -> Frame] /\ job'[j] = Idle
      /\ \A k \in Jobs \ {j} : job'[k] = job[k]
  BY DoneFacts DEF AdminInv, Ends
<1>4. /\ j \in Busy /\ OwnRows(j, batch) /\ UNCHANGED <<runs, cut, hurt, met>>
      /\ clock' \in Nat
  BY DEF Ends, Busy, Placed, AdminInv, TypeOK
<1> HIDE DEF i
<1>5. TypeOK'
  <2>1. lock' \in Jobs \cup {NoJob}
    BY DEF Ends, AdminInv, TypeOK
  <2>2. \A k \in Ids : calls'[k] # {} => Exists(k)'
    BY <1>1, <1>2 DEF AdminInv, TypeOK
  <2> QED BY <1>1, <1>2, <1>3, <1>4, <2>1, <2>2 DEF AdminInv, TypeOK
<1>6. Numbered' /\ OwnTrace' /\ HeldLock'
  <2>1. \A k \in Ids : \A c \in calls'[k] : c \in calls[k] \/ c.run = job[j].run
    BY <1>2, <1>4 DEF OwnRows
  <2> QED BY <1>1, <1>4, <2>1, DoneInv DEF Ends
<1>7. job[j].run \notin cut =>
          /\ trace[i].owner = job[j].owner
          /\ At(j, "running") => trace[i].run = job[j].run
  BY <1>4 DEF AdminInv, OwnTrace, i
<1>8. PendingHasOwner'
  <2>1. SUFFICES ASSUME NEW k \in Ids, trace'[k].status = "pending", trace[k].run \notin hurt
                 PROVE  \E q \in Jobs : At(q, "running")' /\ job'[q].run = trace[k].run
    BY <1>1, <1>4 DEF PendingHasOwner
  <2>2. PICK q \in Jobs : At(q, "running") /\ job[q].run = trace[k].run
    BY <1>1, <2>1 DEF AdminInv, PendingHasOwner
  <2>3. trace[k].status = "pending" /\ Exists(k)
    BY <1>1, <2>1 DEF Exists
  <2>4. q # j
    BY <1>1, <1>4, <2>1, <2>2, <2>3 DEF AdminInv, OwnTrace, i
  <2> QED BY <1>3, <2>2, <2>4 DEF At
<1>9. OneOwner'
  <2>1. \A k \in Ids : trace'[k].by \in {0, trace'[k].run} \cup cut'
    BY <1>1, <1>4, <1>7 DEF AdminInv, OneOwner
  <2>2. ASSUME NEW k \in Ids, NEW c \in calls'[k]
        PROVE  c.owner = trace'[k].owner \/ c.run \in cut'
    <3>1. CASE c \in calls[k]
      BY <1>1, <1>4, <3>1 DEF AdminInv, OneOwner
    <3>2. CASE k = i /\ c \in batch
      BY <1>1, <1>4, <1>7, <3>2 DEF OwnRows
    <3> QED BY <1>2, <3>1, <3>2
  <2> QED BY <2>1, <2>2 DEF OneOwner
<1> QED BY <1>5, <1>6, <1>8, <1>9, EndsOrder DEF AdminInv

(* Requests and reruns end so.                                             *)
LEMMA TasksEnd ==
    ASSUME AdminInv, NEW j \in Jobs
    PROVE  /\ \A batch \in Results(j) : Record(j, batch) => Ends(j, batch)
           /\ CritiqueAlone(j) => Ends(j, {Row(j, "critique", job[j].ok, job[j].at)})
           /\ \A ok \in BOOLEAN : FinalEnds(j, ok) =>
                  Ends(j, {Row(j, "critique", TRUE, job[j].at), Row(j, "rerun", ok, clock + 1)})
<1>0. clock \in Nat /\ job[j].at \in Nat /\ job[j].ok \in BOOLEAN
  BY DEF AdminInv, TypeOK, Frame
<1>1. ASSUME NEW batch \in Results(j), Record(j, batch) PROVE Ends(j, batch)
  <2>1. OwnRows(j, batch) /\ \A c \in batch : c.role = "member" /\ c.at = 0
    <3>1. ASSUME NEW ok \in BOOLEAN, batch = {Row(j, "member", ok, 0)}
          PROVE  OwnRows(j, batch) /\ \A c \in batch : c.role = "member" /\ c.at = 0
      <4>1. 0 \in Nat
        OBVIOUS
      <4> QED BY <3>1, <4>1, RowTyped DEF AdminInv, OwnRows
    <3>2. CASE batch = {}
      BY <3>2 DEF OwnRows
    <3> QED BY <3>1, <3>2 DEF Results
  <2>2. At(j, "running") /\ ~At(j, "idle") /\ lock # j
    BY <1>1, JobsAssumption DEF Record, At, Free
  <2>3. Placed(j, batch)
    BY <1>1, <2>1 DEF Record, Placed
  <2> QED BY <1>1, <2>1, <2>2, <2>3 DEF Record, Ends
<1>2. ASSUME CritiqueAlone(j) PROVE Ends(j, {Row(j, "critique", job[j].ok, job[j].at)})
  <2> DEFINE row == Row(j, "critique", job[j].ok, job[j].at)
  <2>1. /\ row \in Call /\ row.run = job[j].run /\ row.owner = job[j].owner
        /\ row.role = "critique" /\ row.ok = job[j].ok /\ row.at = job[j].at
    BY <1>0, RowTyped DEF AdminInv
  <2>2. At(j, "flush") /\ ~At(j, "running") /\ ~At(j, "idle") /\ lock # j /\ j \in Writers
    BY <1>2, JobsAssumption DEF CritiqueAlone, At, Free, Writers
  <2>3. Log(j, {row}) /\ Done(j) /\ UNCHANGED <<trace, lock, clock, runs, cut, hurt, met>>
        /\ (~row.ok \/ ~Exists(job[j].id))
    BY <1>2, <2>1 DEF CritiqueAlone
  <2> HIDE DEF row
  <2>4. OwnRows(j, {row})
    BY <2>1 DEF OwnRows
  <2>5. Placed(j, {row})
    BY <2>1, <2>2, <2>3 DEF Placed
  <2>6. Ends(j, {row})
    BY <2>2, <2>3, <2>4, <2>5 DEF Ends
  <2> QED BY <2>6 DEF row
<1>3. ASSUME NEW ok \in BOOLEAN, FinalEnds(j, ok)
      PROVE  Ends(j, {Row(j, "critique", TRUE, job[j].at), Row(j, "rerun", ok, clock + 1)})
  <2> DEFINE row   == Row(j, "critique", TRUE, job[j].at)
             final == Row(j, "rerun", ok, clock + 1)
  <2>1. /\ row \in Call /\ row.run = job[j].run /\ row.owner = job[j].owner
        /\ row.role = "critique" /\ row.at = job[j].at
    <3>1. ASSUME NEW good \in BOOLEAN
          PROVE  LET c == Row(j, "critique", good, job[j].at) IN
                 /\ c \in Call /\ c.run = job[j].run /\ c.owner = job[j].owner
                 /\ c.role = "critique" /\ c.at = job[j].at
      BY <1>0, RowTyped DEF AdminInv
    <3> QED BY <3>1, Zenon
  <2>8. row.ok
    BY DEF Row
  <2>2. /\ final \in Call /\ final.run = job[j].run /\ final.owner = job[j].owner
        /\ final.role = "rerun" /\ final.at = clock + 1
    <3>1. clock + 1 \in Nat
      BY <1>0
    <3> QED BY <3>1, RowTyped DEF AdminInv
  <2>3. At(j, "final") /\ ~At(j, "running") /\ ~At(j, "idle") /\ lock = j /\ j \in Writers
    BY <1>3 DEF FinalEnds, At, AdminInv, HeldLock, Writers
  <2>4. Log(j, {row, final}) /\ Done(j) /\ lock' = NoJob /\ clock' = clock + 1
        /\ UNCHANGED <<trace, runs, cut, hurt, met>>
    BY <1>3 DEF FinalEnds
  <2> HIDE DEF row, final
  <2>5. OwnRows(j, {row, final})
    BY <2>1, <2>2 DEF OwnRows
  <2>6. Placed(j, {row, final})
    BY <2>1, <2>2, <2>3, <2>4, <2>8 DEF Placed
  <2>7. Ends(j, {row, final})
    BY <2>3, <2>4, <2>5, <2>6 DEF Ends
  <2> QED BY <2>7 DEF row, final
<1> QED BY <1>1, <1>2, <1>3

LEMMA AbortInv ==
    ASSUME AdminInv, NEW j \in Jobs, Abort(j)
    PROVE  AdminInv'
<1>1. /\ j \in Busy /\ Done(j) /\ lock' = IF lock = j THEN NoJob ELSE lock
      /\ UNCHANGED <<trace, calls, clock, runs, cut, met>> /\ hurt' = hurt \cup {job[j].run}
  BY DEF Abort
<1>2. /\ job' \in [Jobs -> Frame] /\ job'[j] = Idle /\ Idle.pc = "idle"
      /\ \A k \in Jobs \ {j} : job'[k] = job[k]
  BY <1>1, DoneFacts DEF AdminInv, Idle
<1>3. Numbered' /\ OwnTrace' /\ HeldLock'
  BY <1>1, DoneInv DEF Exists
<1>4. TypeOK'
  <2>1. job[j].run \in Runs
    BY DEF AdminInv, TypeOK, Frame
  <2> QED BY <1>1, <1>2, <2>1 DEF AdminInv, TypeOK, Exists
<1>5. PendingHasOwner'
  BY <1>1, <1>2 DEF AdminInv, PendingHasOwner, At
<1>6. OneOwner'
  BY <1>1 DEF AdminInv, OneOwner
<1>7. Stamped' /\ RerunsPair'
  <2>1. \A k \in Writers' : k \in Writers /\ job'[k] = job[k]
    BY <1>2 DEF Writers
  <2> QED BY <1>1, <2>1, Quiet
<1> QED BY <1>3, <1>4, <1>5, <1>6, <1>7 DEF AdminInv

-----------------------------------------------------------------------------
(* A rerun goes on: its critique is stamped, or flushed.                   *)

LEMMA RerunGoesOn ==
    ASSUME AdminInv, NEW j \in Jobs, NEW new \in Frame,
           new.id = job[j].id, new.run = job[j].run, new.owner = job[j].owner,
           ~At(j, "idle"), ~At(j, "running"), new.pc \notin {"idle", "running"},
           job' = [job EXCEPT ![j] = new],
           UNCHANGED <<trace, calls, runs, cut, hurt>>
    PROVE  /\ job' \in [Jobs -> Frame] /\ job'[j] = new
           /\ \A k \in Jobs \ {j} : job'[k] = job[k]
           /\ \A k \in Jobs : job'[k].id = job[k].id /\ job'[k].run = job[k].run
           /\ Numbered' /\ OwnTrace' /\ PendingHasOwner' /\ OneOwner'
<1>1. /\ job' \in [Jobs -> Frame] /\ job'[j] = new
      /\ \A k \in Jobs \ {j} : job'[k] = job[k]
  BY DEF AdminInv, TypeOK
<1>2. Busy' = Busy /\ \A k \in Jobs : job'[k].id = job[k].id /\ job'[k].run = job[k].run
                          /\ job'[k].owner = job[k].owner /\ (At(k, "running")' <=> At(k, "running"))
  BY <1>1 DEF Busy, At
<1>3. Numbered'
  BY <1>2 DEF AdminInv, Numbered, Exists, Busy
<1>4. OwnTrace'
  <2>1. \A k \in Busy : Exists(job[k].id)' <=> Exists(job[k].id)
    BY <1>2 DEF Exists, Busy
  <2> QED BY <1>2, <2>1 DEF AdminInv, OwnTrace, Exists, Busy
<1>5. PendingHasOwner'
  BY <1>2 DEF AdminInv, PendingHasOwner
<1>6. OneOwner'
  BY DEF AdminInv, OneOwner
<1> QED BY <1>1, <1>2, <1>3, <1>4, <1>5, <1>6

LEMMA CritiqueEndsInv ==
    ASSUME AdminInv, NEW j \in Jobs, NEW ok \in BOOLEAN, CritiqueEnds(j, ok)
    PROVE  AdminInv'
<1> DEFINE new   == [job[j] EXCEPT !.pc = "flush", !.at = clock + 1, !.ok = ok]
           pairs == {{job[j].run, job[k].run} : k \in {w \in Writers : job[w].id = job[j].id}}
<1>1. /\ job[j] \in Frame /\ job \in [Jobs -> Frame] /\ clock \in Nat /\ clock + 1 \in Nat
      /\ \A k \in Jobs : job[k].run \in Runs
  BY DEF AdminInv, TypeOK, Frame
<1>2. /\ new \in Frame /\ new.pc = "flush" /\ new.at = clock + 1
      /\ new.id = job[j].id /\ new.run = job[j].run /\ new.owner = job[j].owner
  BY <1>1 DEF Frame
<1>3. /\ At(j, "critique") /\ clock' = clock + 1 /\ job' = [job EXCEPT ![j] = new]
      /\ met' = met \cup pairs /\ UNCHANGED <<trace, calls, lock, runs, cut, hurt>>
  BY DEF CritiqueEnds
<1> HIDE DEF new
<1>4. /\ job' \in [Jobs -> Frame] /\ job'[j] = new
      /\ \A k \in Jobs \ {j} : job'[k] = job[k]
      /\ \A k \in Jobs : job'[k].id = job[k].id /\ job'[k].run = job[k].run
      /\ Numbered' /\ OwnTrace' /\ PendingHasOwner' /\ OneOwner'
  BY <1>2, <1>3, RerunGoesOn DEF At
<1>5. TypeOK'
  <2>1. pairs \subseteq SUBSET Runs
    BY <1>1 DEF Writers
  <2> QED BY <1>1, <1>3, <1>4, <2>1 DEF AdminInv, TypeOK, Exists
<1>6. HeldLock'
  <2>1. \A k \in Jobs : At(k, "final")' <=> At(k, "final")
    BY <1>2, <1>3, <1>4 DEF At
  <2> QED BY <1>3, <1>4, <2>1 DEF AdminInv, HeldLock, Exists
<1>7. /\ j \notin Writers
      /\ \A k \in Writers' : k = j \/ (k \in Writers /\ k # j /\ job'[k] = job[k])
  BY <1>3, <1>4 DEF Writers, At
<1>8. \A k \in Writers : job[k].at \in Nat /\ job[k].at <= clock
  BY WriterFacts DEF AdminInv, Stamped
<1>9. \A k \in Ids : \A c \in calls[k] : c.at \in Nat /\ c.at <= clock
  BY DEF AdminInv, TypeOK, Stamped, Call
<1>10. \A k \in Writers' : job'[k].id \in Ids
  BY <1>4 DEF AdminInv, Numbered, Writers, Busy, At
<1>11. Stamped'
  <2>1. \A k \in Ids : \A c \in calls'[k] : c.at <= clock'
    BY <1>1, <1>3, <1>9
  <2>2. \A k \in Writers' : job'[k].at <= clock'
    BY <1>1, <1>2, <1>3, <1>4, <1>7, <1>8
  <2>3. ASSUME NEW k \in Writers', NEW m \in Writers', k # m, job'[k].id = job'[m].id
        PROVE  {job'[k].run, job'[m].run} \in met'
    <3>1. CASE k # j /\ m # j
      BY <1>3, <1>7, <2>3, <3>1 DEF AdminInv, Stamped
    <3>2. CASE k = j /\ m # j
      <4>1. m \in Writers /\ job[m].id = job[j].id
        BY <1>4, <1>7, <2>3, <3>2
      <4>2. {job[j].run, job[m].run} \in pairs
        BY <4>1
      <4> QED BY <1>3, <1>4, <1>7, <3>2, <4>1, <4>2 DEF Writers
    <3>3. CASE k # j /\ m = j
      <4>1. k \in Writers /\ job[k].id = job[j].id
        BY <1>4, <1>7, <2>3, <3>3
      <4>2. {job[j].run, job[k].run} \in pairs
        BY <4>1
      <4>3. job'[k].run = job[k].run /\ job'[m].run = job[j].run
        BY <1>4, <3>3, <4>1 DEF Writers
      <4>4. {job'[k].run, job'[m].run} = {job[j].run, job[k].run}
        BY <4>3, Zenon
      <4>5. {job[j].run, job[k].run} \in met'
        BY <1>3, <4>2
      <4> QED BY <4>4, <4>5, Zenon
    <3> QED BY <2>3, <3>1, <3>2, <3>3
  <2>4. ASSUME NEW k \in Writers', NEW c \in calls'[job'[k].id], job'[k].at < c.at
        PROVE  {c.run, job'[k].run} \in met'
    <3>1. k # j
      BY <1>1, <1>2, <1>3, <1>4, <1>9, <1>10, <2>4
    <3> QED BY <1>3, <1>7, <2>4, <3>1 DEF AdminInv, Stamped
  <2>5. ASSUME NEW k \in Writers', NEW c \in calls'[job'[k].id], NEW r \in calls'[job'[k].id],
               Pair(c, r), Between(job'[k], c, r)
        PROVE  {job'[k].run, r.run} \in met'
    <3>1. k # j
      BY <1>1, <1>2, <1>3, <1>4, <1>9, <1>10, <2>5 DEF Between
    <3>2. k \in Writers /\ job'[k] = job[k]
      BY <1>7, <3>1
    <3> QED BY <1>3, <2>5, <3>2 DEF AdminInv, Stamped
  <2> QED BY <2>1, <2>2, <2>3, <2>4, <2>5 DEF Stamped, Pair, Between
<1>12. RerunsPair'
  BY <1>3 DEF AdminInv, RerunsPair, Pair, Between
<1> QED BY <1>4, <1>5, <1>6, <1>11, <1>12 DEF AdminInv

LEMMA CritiqueFlushedInv ==
    ASSUME AdminInv, NEW j \in Jobs, CritiqueFlushed(j)
    PROVE  AdminInv'
<1> DEFINE new == [job[j] EXCEPT !.pc = "final"]
<1>1. job[j] \in Frame /\ job \in [Jobs -> Frame]
  BY DEF AdminInv, TypeOK
<1>2. /\ new \in Frame /\ new.pc = "final" /\ new.at = job[j].at
      /\ new.id = job[j].id /\ new.run = job[j].run /\ new.owner = job[j].owner
  BY <1>1 DEF Frame
<1>3. /\ At(j, "flush") /\ lock = NoJob /\ lock' = j /\ Exists(job[j].id)
      /\ job' = [job EXCEPT ![j] = new]
      /\ UNCHANGED <<trace, calls, clock, runs, cut, hurt, met>>
  BY DEF CritiqueFlushed, Free
<1> HIDE DEF new
<1>4. /\ job' \in [Jobs -> Frame] /\ job'[j] = new
      /\ \A k \in Jobs \ {j} : job'[k] = job[k]
      /\ \A k \in Jobs : job'[k].id = job[k].id /\ job'[k].run = job[k].run
      /\ Numbered' /\ OwnTrace' /\ PendingHasOwner' /\ OneOwner'
  BY <1>2, <1>3, RerunGoesOn DEF At
<1>5. TypeOK'
  BY <1>3, <1>4 DEF AdminInv, TypeOK, Exists
<1>6. HeldLock'
  <2>1. At(j, "final")' /\ Exists(job[j].id)'
    BY <1>2, <1>3, <1>4 DEF At, Exists
  <2>2. \A k \in Jobs \ {j} : ~At(k, "final")
    BY <1>3, JobsAssumption DEF AdminInv, HeldLock
  <2>3. \A k \in Jobs \ {j} : ~At(k, "final")' /\ lock' # k
    BY <1>3, <1>4, <2>2 DEF At
  <2> QED BY <1>3, <2>1, <2>3 DEF HeldLock
<1>7. Stamped' /\ RerunsPair'
  <2>1. \A k \in Writers' : /\ k \in Writers
                            /\ job'[k].id = job[k].id /\ job'[k].at = job[k].at
                            /\ job'[k].run = job[k].run
    BY <1>2, <1>3, <1>4 DEF Writers, At
  <2> QED BY <1>3, <2>1, Quiet
<1> QED BY <1>4, <1>5, <1>6, <1>7 DEF AdminInv

-----------------------------------------------------------------------------
(* Deletion and age.                                                       *)

LEMMA AgeInv ==
    ASSUME AdminInv, NEW i \in Ids, Age(i)
    PROVE  AdminInv'
<1> DEFINE new == [trace[i] EXCEPT !.old = TRUE]
<1>1. trace' = [trace EXCEPT ![i] = new] /\ Exists(i) /\ UNCHANGED <<calls, lock, job, clock, runs, cut, hurt, met>>
  BY DEF Age
<1>2. trace[i] \in Trace /\ trace \in [Ids -> Trace]
  BY DEF AdminInv, TypeOK
<1>3. /\ new \in Trace /\ new.status = trace[i].status /\ new.run = trace[i].run
      /\ new.by = trace[i].by /\ new.owner = trace[i].owner
  BY <1>2 DEF Trace
<1> HIDE DEF new
<1>4. /\ trace' \in [Ids -> Trace]
      /\ \A k \in Ids :
             /\ trace'[k].status = trace[k].status /\ trace'[k].run = trace[k].run
             /\ trace'[k].by = trace[k].by /\ trace'[k].owner = trace[k].owner
             /\ ~Exists(k) => trace'[k] = trace[k]
  BY <1>1, <1>2, <1>3 DEF Exists
<1>5. \A k \in Ids : Exists(k)' <=> Exists(k)
  BY <1>4 DEF Exists
<1>6. \A k \in Busy : job[k].id \in Ids
  BY DEF AdminInv, Numbered
<1>7. TypeOK'
  BY <1>1, <1>4, <1>5 DEF AdminInv, TypeOK
<1>8. Numbered'
  BY <1>1, <1>4, <1>5 DEF AdminInv, Numbered, Busy, At
<1>9. \A k \in Busy : Exists(job[k].id)' <=> Exists(job[k].id)
  BY <1>1, <1>4, <1>6 DEF Exists
<1>10. OwnTrace'
  BY <1>1, <1>4, <1>5, <1>6, <1>9 DEF AdminInv, OwnTrace, Busy, At
<1>11. HeldLock'
  <2>1. \A k \in Jobs : At(k, "final") => k \in Busy
    BY DEF At, Busy
  <2> QED BY <1>1, <1>9, <2>1 DEF AdminInv, HeldLock, At
<1>12. PendingHasOwner'
  BY <1>1, <1>4 DEF AdminInv, PendingHasOwner, At
<1>13. OneOwner'
  BY <1>1, <1>4 DEF AdminInv, OneOwner
<1>14. Stamped' /\ RerunsPair'
  <2>1. \A k \in Writers' : k \in Writers /\ job'[k] = job[k]
    BY <1>1 DEF Writers
  <2> QED BY <1>1, <2>1, Quiet
<1> QED BY <1>7, <1>8, <1>10, <1>11, <1>12, <1>13, <1>14 DEF AdminInv

(* A deletion, whoever is under way: what is left agrees with the tasks    *)
(* that had not lost their trace, and the others are in cut.               *)
LEMMA DeleteFacts ==
    ASSUME AdminInv, NEW gone \in SUBSET Ids, Delete(gone), runs' = runs
    PROVE  /\ trace' \in [Ids -> Trace] /\ calls' \in [Ids -> SUBSET Call]
           /\ cut \subseteq cut' /\ cut' \subseteq Runs /\ cut' \subseteq 0 .. runs
           /\ \A k \in Ids : IF Exists(k)' THEN Exists(k) /\ k \notin gone /\ trace'[k] = trace[k]
                                          /\ calls'[k] = calls[k] /\ trace[k].run \notin cut'
                             ELSE trace'[k] = NoTrace /\ calls'[k] = {}
           /\ \A j \in Busy : job[j].run \notin cut' =>
                  job[j].run \notin cut /\ Exists(job[j].id) /\ job[j].id \in Ids
                      /\ trace'[job[j].id] = trace[job[j].id]
<1>1. /\ trace' = [i \in Ids |-> IF i \in gone THEN NoTrace ELSE trace[i]]
      /\ calls' = [i \in Ids |-> IF i \in gone THEN {} ELSE calls[i]]
      /\ cut' = cut \cup {job[j].run : j \in {k \in Busy : job[k].id \in gone}}
  BY DEF Delete
<1>2. /\ trace' \in [Ids -> Trace] /\ calls' \in [Ids -> SUBSET Call]
      /\ NoTrace.status = "none"
  <2>1. NoTrace \in Trace /\ NoTrace.status = "none"
    BY IdleTyped DEF NoTrace
  <2> QED BY <1>1, <2>1 DEF AdminInv, TypeOK
<1>3. runs \in Nat /\ \A j \in Busy : job[j].run \in 1 .. runs /\ job[j].id \in Ids
  BY BoundsAssumption DEF AdminInv, TypeOK, Numbered, Runs
<1>4. cut \subseteq cut' /\ cut' \subseteq 0 .. runs
  <2>1. cut \subseteq 0 .. runs
    BY DEF AdminInv, Numbered
  <2>2. \A x \in 1 .. runs : x \in 0 .. runs
    BY <1>3
  <2> QED BY <1>1, <1>3, <2>1, <2>2
<1>5. cut' \subseteq Runs
  BY <1>4, BoundsAssumption DEF AdminInv, TypeOK, Runs
<1>6. ASSUME NEW k \in Ids, Exists(k)' PROVE trace[k].run \notin cut' /\ k \notin gone /\ Exists(k)
  <2>1. k \notin gone /\ Exists(k)
    BY <1>1, <1>2, <1>6 DEF Exists
  <2>2. \A j \in Busy : job[j].id \in gone => trace[k].run # job[j].run
    BY <2>1 DEF AdminInv, OwnTrace
  <2> QED BY <1>1, <2>1, <2>2 DEF AdminInv, OwnTrace
<1>7. ASSUME NEW k \in Ids, ~Exists(k)' PROVE trace'[k] = NoTrace /\ calls'[k] = {}
  BY <1>1, <1>7 DEF AdminInv, TypeOK, Numbered, Exists
<1>8. ASSUME NEW j \in Busy, job[j].run \notin cut'
      PROVE  job[j].run \notin cut /\ Exists(job[j].id) /\ job[j].id \in Ids
                 /\ trace'[job[j].id] = trace[job[j].id]
  BY <1>1, <1>3, <1>8 DEF AdminInv, OwnTrace
<1> QED BY <1>1, <1>2, <1>4, <1>5, <1>6, <1>7, <1>8

LEMMA DeleteInv ==
    ASSUME AdminInv, NEW gone \in SUBSET Ids, Delete(gone), Free,
           UNCHANGED <<lock, job, clock, runs, hurt, met>>
    PROVE  AdminInv'
<1>1. /\ trace' \in [Ids -> Trace] /\ calls' \in [Ids -> SUBSET Call]
      /\ cut \subseteq cut' /\ cut' \subseteq Runs /\ cut' \subseteq 0 .. runs
      /\ \A k \in Ids : IF Exists(k)' THEN Exists(k) /\ trace'[k] = trace[k]
                                           /\ calls'[k] = calls[k] /\ trace[k].run \notin cut'
                        ELSE trace'[k] = NoTrace /\ calls'[k] = {}
      /\ \A j \in Busy : job[j].run \notin cut' =>
             job[j].run \notin cut /\ Exists(job[j].id) /\ job[j].id \in Ids
                 /\ trace'[job[j].id] = trace[job[j].id]
  BY DeleteFacts
<1>2. TypeOK'
  BY <1>1 DEF AdminInv, TypeOK
<1>3. Numbered'
  BY <1>1 DEF AdminInv, Numbered, Busy, At
<1>4. OwnTrace'
  <2>1. \A k \in Busy : job[k].run \notin cut' => Exists(job[k].id)'
    BY <1>1 DEF Exists
  <2> QED BY <1>1, <2>1 DEF AdminInv, OwnTrace, Busy, At
<1>5. HeldLock'
  <2>1. \A k \in Jobs : ~At(k, "final") /\ lock # k
    BY JobsAssumption DEF AdminInv, HeldLock, Free
  <2> QED BY <2>1 DEF AdminInv, HeldLock, At
<1>6. PendingHasOwner' /\ OneOwner'
  <2>1. NoTrace.status = "none" /\ NoTrace.by = 0
    BY DEF NoTrace
  <2>2. \A k \in Ids : trace'[k].status = "pending" => Exists(k)'
    BY DEF Exists
  <2>3. PendingHasOwner'
    BY <1>1, <2>2 DEF AdminInv, PendingHasOwner, At
  <2>4. \A k \in Ids : trace'[k].by \in {0, trace'[k].run} \cup cut'
    BY <1>1, <2>1 DEF AdminInv, OneOwner
  <2>5. ASSUME NEW k \in Ids, NEW c \in calls'[k]
        PROVE  c.owner = trace'[k].owner \/ c.run \in cut'
    <3>1. calls'[k] = calls[k] /\ trace'[k] = trace[k]
      BY <1>1, <2>5
    <3> QED BY <1>1, <2>5, <3>1 DEF AdminInv, OneOwner
  <2> QED BY <2>3, <2>4, <2>5 DEF OneOwner
<1>7. Stamped' /\ RerunsPair'
  <2>1. \A k \in Writers' : k \in Writers /\ job'[k] = job[k]
    BY DEF Writers
  <2>2. \A k \in Ids : calls'[k] = calls[k] \/ calls'[k] = {}
    BY <1>1
  <2> QED BY <2>1, <2>2, Quiet
<1> QED BY <1>2, <1>3, <1>4, <1>5, <1>6, <1>7 DEF AdminInv

LEMMA RestartInv ==
    ASSUME AdminInv, Restart
    PROVE  AdminInv'
<1>1. /\ trace' \in [Ids -> Trace] /\ calls' \in [Ids -> SUBSET Call]
      /\ cut \subseteq cut' /\ cut' \subseteq Runs /\ cut' \subseteq 0 .. runs
      /\ \A k \in Ids : IF Exists(k)' THEN Exists(k) /\ trace'[k] = trace[k]
                                           /\ calls'[k] = calls[k] /\ trace[k].run \notin cut'
                        ELSE trace'[k] = NoTrace /\ calls'[k] = {}
  <2>1. Old \in SUBSET Ids
    BY DEF Old
  <2> QED BY <2>1, DeleteFacts DEF Restart
<1>2. /\ job' = [j \in Jobs |-> Idle] /\ lock' = NoJob
      /\ UNCHANGED <<clock, runs, met>> /\ hurt' = hurt \cup {job[j].run : j \in Busy}
  BY DEF Restart
<1>3. Idle.pc = "idle" /\ Idle \in Frame
  BY IdleTyped DEF Idle
<1>4. Busy' = {} /\ \A j \in Jobs : ~At(j, "final")' /\ lock' # j
  BY <1>2, <1>3, JobsAssumption DEF Busy, At
<1>5. TypeOK'
  <2>1. \A j \in Busy : job[j].run \in Runs
    BY DEF AdminInv, TypeOK, Frame, Busy
  <2>2. /\ job' \in [Jobs -> Frame] /\ hurt' \subseteq Runs /\ lock' = NoJob
        /\ UNCHANGED <<clock, runs, met>>
    BY <1>2, <1>3, <2>1 DEF AdminInv, TypeOK
  <2>3. \A k \in Ids : calls'[k] # {} => Exists(k)'
    BY <1>1
  <2> QED BY <1>1, <2>2, <2>3 DEF AdminInv, TypeOK
<1>6. Numbered' /\ OwnTrace' /\ HeldLock'
  <2>1. Numbered'
    BY <1>1, <1>2, <1>4 DEF AdminInv, Numbered
  <2>2. OwnTrace'
    BY <1>1, <1>4 DEF AdminInv, OwnTrace
  <2> QED BY <1>4, <2>1, <2>2 DEF HeldLock
<1>7. NoTrace.status = "none" /\ NoTrace.by = 0
  BY DEF NoTrace
<1>8. PendingHasOwner'
  <2>1. ASSUME NEW k \in Ids, trace'[k].status = "pending"
        PROVE  trace'[k].run \in hurt'
    <3>1. Exists(k)' /\ trace'[k] = trace[k]
      BY <1>1, <1>7, <2>1 DEF Exists
    <3>2. CASE trace[k].run \in hurt
      BY <1>2, <3>1, <3>2
    <3>3. CASE \E j \in Jobs : At(j, "running") /\ job[j].run = trace[k].run
      <4>1. PICK j \in Jobs : At(j, "running") /\ job[j].run = trace[k].run
        BY <3>3
      <4>2. j \in Busy
        BY <4>1 DEF At, Busy
      <4> QED BY <1>2, <3>1, <4>1, <4>2
    <3> QED BY <2>1, <3>1, <3>2, <3>3 DEF AdminInv, PendingHasOwner
  <2> QED BY <2>1 DEF PendingHasOwner
<1>9. OneOwner'
  <2>1. \A k \in Ids : trace'[k].by \in {0, trace'[k].run} \cup cut'
    BY <1>1, <1>7 DEF AdminInv, OneOwner
  <2>2. \A k \in Ids : \A c \in calls'[k] : Exists(k)' /\ calls'[k] = calls[k]
    BY <1>1
  <2> QED BY <1>1, <2>1, <2>2 DEF AdminInv, OneOwner
<1>10. Stamped' /\ RerunsPair'
  <2>1. Writers' = {}
    BY <1>2, <1>3 DEF Writers
  <2>2. \A k \in Ids : calls'[k] = calls[k] \/ calls'[k] = {}
    BY <1>1
  <2> QED BY <1>2, <2>1, <2>2, Quiet
<1> QED BY <1>5, <1>6, <1>8, <1>9, <1>10 DEF AdminInv

-----------------------------------------------------------------------------
LEMMA AdminInit == Init => AdminInv
<1> SUFFICES ASSUME Init PROVE AdminInv
  OBVIOUS
<1>1. NoTrace \in Trace /\ Idle \in Frame /\ NoTrace.status = "none" /\ NoTrace.by = 0
      /\ Idle.pc = "idle"
  BY IdleTyped DEF NoTrace, Idle
<1>2. Busy = {} /\ \A i \in Ids : ~Exists(i) /\ calls[i] = {}
  BY <1>1 DEF Init, Busy, At, Exists
<1>3. TypeOK
  BY <1>1, BoundsAssumption DEF Init, TypeOK, Runs
<1>4. Numbered /\ OwnTrace
  BY <1>2 DEF Init, Numbered, OwnTrace
<1>5. HeldLock
  BY <1>1, JobsAssumption DEF Init, HeldLock, At
<1>6. PendingHasOwner /\ OneOwner /\ RerunsPair
  BY <1>1, <1>2 DEF Init, PendingHasOwner, OneOwner, RerunsPair
<1>7. Stamped
  <2>1. Writers = {}
    BY <1>1 DEF Init, Writers
  <2> QED BY <1>2, <2>1 DEF Stamped
<1> QED BY <1>3, <1>4, <1>5, <1>6, <1>7 DEF AdminInv

(* The invariant holds in every reachable state of the administered log.   *)
THEOREM AdminInvariance == Spec => []AdminInv
<1>1. AdminInv /\ [Next]_vars => AdminInv'
  <2> SUFFICES ASSUME AdminInv, [Next]_vars PROVE AdminInv'
    OBVIOUS
  <2>1. ASSUME NEW u \in Owners, Reject(u) PROVE AdminInv'
    BY <2>1, RejectInv
  <2>2. ASSUME NEW u \in Owners, NEW j \in Jobs, Open(j, u) PROVE AdminInv'
    BY <2>2, OpenInv
  <2>3. ASSUME NEW j \in Jobs, NEW batch, Ends(j, batch) PROVE AdminInv'
    BY <2>3, EndsInv
  <2>4. ASSUME NEW j \in Jobs, NEW i \in Ids, RejudgeStart(j, i) PROVE AdminInv'
    BY <2>4, RejudgeStartInv
  <2>5. ASSUME NEW j \in Jobs,
               CritiqueFlushed(j) \/ Abort(j) \/ \E ok \in BOOLEAN : CritiqueEnds(j, ok)
        PROVE  AdminInv'
    BY <2>5, CritiqueEndsInv, CritiqueFlushedInv, AbortInv
  <2>6. CASE Clear
    BY <2>6, DeleteInv DEF Clear
  <2>7. CASE Cleanup
    <3>1. Old \in SUBSET Ids
      BY DEF Old
    <3> QED BY <2>7, <3>1, DeleteInv DEF Cleanup
  <2>8. CASE Restart
    BY <2>8, RestartInv
  <2>9. ASSUME NEW i \in Ids, Age(i) PROVE AdminInv'
    BY <2>9, AgeInv
  <2>10. CASE UNCHANGED vars
    BY <2>10 DEF vars, AdminInv, TypeOK, Numbered, OwnTrace, HeldLock, PendingHasOwner, OneOwner,
                 Stamped, RerunsPair, Writers, Pair, Between, Busy, At, Exists
  <2>11. ASSUME NEW j \in Jobs,
                \/ \E batch \in Results(j) : Record(j, batch)
                \/ CritiqueAlone(j)
                \/ \E ok \in BOOLEAN : FinalEnds(j, ok)
         PROVE  AdminInv'
    BY <2>3, <2>11, TasksEnd
  <2> QED BY <2>1, <2>2, <2>4, <2>5, <2>6, <2>7, <2>8, <2>9, <2>10, <2>11 DEF Next
<1> QED BY <1>1, AdminInit, PTL DEF Spec

(* TypeOK: the log is well typed and no call row is without its trace.     *)
THEOREM AdminTypeCorrect == Spec => []TypeOK
<1>1. AdminInv => TypeOK
  BY DEF AdminInv
<1> QED BY <1>1, AdminInvariance, PTL

(* PendingHasOwner: for any number of requests, reruns, deletions and      *)
(* crashes, only a request that died leaves its trace pending.             *)
THEOREM NobodyLeavesPending == Spec => []PendingHasOwner
<1>1. AdminInv => PendingHasOwner
  BY DEF AdminInv
<1> QED BY <1>1, AdminInvariance, PTL

(* OneOwner: rows of another user get into a trace only by a request whose *)
(* own trace was deleted while it ran.                                     *)
THEOREM TracesHaveOneOwner == Spec => []OneOwner
<1>1. AdminInv => OneOwner
  BY DEF AdminInv
<1> QED BY <1>1, AdminInvariance, PTL

(* RerunsPair: however many reruns of a trace there are, what each leaves  *)
(* is whole, and in the order the rows are read only rows of reruns that   *)
(* overlapped stand between a critique and its answer.                     *)
THEOREM RerunsStayPaired == Spec => []RerunsPair
<1>1. AdminInv => RerunsPair
  BY DEF AdminInv
<1> QED BY <1>1, AdminInvariance, PTL

(* HeldLock: from the flush of its critique to its commit a rerun has the  *)
(* write lock to itself, and its trace stays.                              *)
THEOREM RerunsKeepTheirTrace == Spec => []HeldLock
<1>1. AdminInv => HeldLock
  BY DEF AdminInv
<1> QED BY <1>1, AdminInvariance, PTL

=============================================================================
