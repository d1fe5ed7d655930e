------------------------ MODULE ProcessRelay_proofs ------------------------
(***************************************************************************)
(* Proofs about Council and, second, about ProcessRelay, which extends it: *)
(* for any number of members, any concurrency limit and any set of tools.  *)
(***************************************************************************)
EXTENDS ProcessRelay, FiniteSetTheorems, WellFoundedInduction, TLAPS

-----------------------------------------------------------------------------
(* Part 1: the council.  Its inductive invariant.                          *)

(* finished lists exactly the members whose task ended by itself, each     *)
(* once, and what the generator has handed over had an outcome.            *)
CompletionOrder ==
    /\ \A k \in 1 .. Len(finished) : member[finished[k]] \in Answered \cup {"crashed"}
    /\ \A i \in Members : member[i] \in Answered \cup {"crashed"} =>
           \E k \in 1 .. Len(finished) : finished[k] = i
    /\ \A j, k \in 1 .. Len(finished) : finished[j] = finished[k] => j = k
    /\ \A k \in 1 .. taken : member[finished[k]] \in Answered

(* A permit is held by exactly the calls that are out.                     *)
PermitsAreHeld ==
    /\ IsFiniteSet(Holding)
    /\ permits + Cardinality(Holding) = MaxConcurrency

(* From the critique on all members have answered.                         *)
AllAnswered ==
    /\ \A i \in Members : member[i] \in Answered
    /\ mode.driver = "process" => taken = Len(finished)

Phases ==
    /\ pc \in {"members", "stopping"} =>
           critique = "none" /\ judge = "none" /\ reply = NoReply
    /\ pc \in {"critique", "judge", "answered", "planned", "refused"} => AllAnswered
    /\ pc \in {"critique", "judge", "answered", "planned"} => ~TooManyFailures
    /\ pc = "critique" => critique = "calling" /\ judge = "none" /\ reply = NoReply
    /\ pc = "judge" => /\ critique = "success" /\ judge = "calling" /\ reply = NoReply
                       /\ mode.driver = "run" \/ (mode.driver = "process" /\ mode.tools)
    /\ pc = "stopping" => mode.driver # "process"
    /\ pc \in {"stopping", "cancelled"} \/ (pc = "crashed" /\ mode.driver = "process") =>
           \A i \in Members : member[i] \in Ended \cup {"stopping"}

IInv ==
    /\ TypeOK /\ CompletionOrder /\ PermitsAreHeld /\ Phases
    /\ EveryCallReported /\ AnswerKeepsTheRules /\ TotalsCoverEveryCall

-----------------------------------------------------------------------------
(* Lemmas about the data.                                                  *)

LEMMA SingletonType == ASSUME NEW S, NEW x \in S PROVE <<x>> \in Seq(S)
OBVIOUS

(* The rows of a report are calls.                                         *)
LEMMA RowTypes ==
    /\ Members \subseteq Calls /\ Critique \in Calls /\ Judge \in Calls
    /\ Critique \notin Members /\ Judge \notin Members /\ Critique # Judge
    /\ MemberRows \in Seq(Members) /\ MemberRows \in Seq(Calls)
    /\ Len(MemberRows) = NumMembers
    /\ MembersAndCritique \in Seq(Calls) /\ AllRows \in Seq(Calls)
<1>1. NumMembers \in Nat
  BY MembersAssumption
<1>2. /\ Members \subseteq Calls /\ Critique \in Calls /\ Judge \in Calls
      /\ Critique \notin Members /\ Judge \notin Members /\ Critique # Judge
  BY <1>1 DEF Members, Calls, Critique, Judge
<1>3. MemberRows \in Seq(Members) /\ MemberRows \in Seq(Calls) /\ Len(MemberRows) = NumMembers
  BY <1>1, <1>2 DEF MemberRows, Members
<1>4. <<Critique>> \in Seq(Calls) /\ <<Judge>> \in Seq(Calls)
  BY <1>2, SingletonType
<1> QED
  BY <1>2, <1>3, <1>4 DEF MembersAndCritique, AllRows

(* A set of natural numbers that is not empty has a least element.         *)
LEMMA LeastExists ==
    ASSUME NEW S \in SUBSET Nat, S # {}
    PROVE  /\ Least(S) \in S
           /\ \A j \in S : Least(S) <= j
<1> DEFINE R == StrictSubsetOrdering(Nat)
           T == {0 .. x : x \in S}
<1>1. IsWellFoundedOn(R, FiniteSubsetsOf(Nat))
  BY FS_StrictSubsetOrderingWellFounded
<1>2. T \subseteq FiniteSubsetsOf(Nat) /\ T # {}
  <2>1. ASSUME NEW x \in S PROVE 0 .. x \in FiniteSubsetsOf(Nat)
    <3>1. IsFiniteSet(0 .. x)
      BY FS_Interval
    <3>2. 0 .. x \in SUBSET Nat
      OBVIOUS
    <3> QED BY <3>1, <3>2 DEF FiniteSubsetsOf
  <2> QED BY <2>1
<1>3. PICK X \in T : \A Y \in T : ~ (<<Y, X>> \in R)
  <2> HIDE DEF R, T
  <2> QED BY <1>1, <1>2, WFMin, Zenon
<1>4. PICK x \in S : X = 0 .. x
  BY <1>3
<1>5. ASSUME NEW y \in S, y < x PROVE FALSE
  <2>1. 0 .. y \in SUBSET Nat /\ 0 .. x \in SUBSET Nat
    OBVIOUS
  <2>2. 0 .. y \subseteq 0 .. x /\ x \in 0 .. x /\ x \notin 0 .. y
    BY <1>5
  <2>3. <<0 .. y, 0 .. x>> \in R
    BY <2>1, <2>2 DEF StrictSubsetOrdering
  <2> QED BY <1>3, <1>4, <2>3
<1>6. \A y \in S : x <= y
  BY <1>5
<1> QED
  BY <1>6 DEF Least

(* The largest camp of tool callers exists whenever somebody called.       *)
LEMMA CampExists ==
    ASSUME Callers # {}
    PROVE  LargestCamp # {}
<1> DEFINE Rank(i) == NumMembers - Cardinality(Camp(i))
           K == {Rank(i) : i \in Callers}
<1>1. ASSUME NEW i \in Callers
      PROVE  Cardinality(Camp(i)) \in Nat /\ Rank(i) \in Nat
  <2>1. IsFiniteSet(Members) /\ Cardinality(Members) = NumMembers
    BY MembersAssumption, FS_Interval DEF Members
  <2>2. Camp(i) \in SUBSET Members
    BY DEF Camp, Callers, Succeeded
  <2>3. IsFiniteSet(Camp(i)) /\ Cardinality(Camp(i)) <= NumMembers
    BY <2>1, <2>2, FS_Subset
  <2>4. Cardinality(Camp(i)) \in Nat
    BY <2>3, FS_CardinalityType
  <2> QED BY <2>3, <2>4, MembersAssumption
<1>2. K \in SUBSET Nat /\ K # {}
  BY <1>1
<1>3. PICK i \in Callers : Least(K) = Rank(i)
  BY <1>2, LeastExists
<1>4. \A j \in Callers : Rank(i) <= Rank(j)
  BY <1>2, <1>3, LeastExists
<1>5. \A j \in Callers : Cardinality(Camp(j)) <= Cardinality(Camp(i))
  BY <1>1, <1>4, MembersAssumption
<1> QED BY <1>5 DEF LargestCamp

(* A fallback is always the answer of a member that did answer.            *)
LEMMA FallbackAnswered ==
    ASSUME Succeeded # {}
    PROVE  FallbackMember \in Succeeded
<1>1. Succeeded \in SUBSET Nat /\ LargestCamp \in SUBSET Succeeded
  BY MembersAssumption DEF Succeeded, LargestCamp, Callers, Members
<1>2. CASE Callers = {}
  BY <1>1, <1>2, LeastExists DEF FallbackMember
<1>3. CASE Callers # {}
  BY <1>1, <1>3, LeastExists, CampExists DEF FallbackMember
<1> QED BY <1>2, <1>3

(* One more row for one more call.                                         *)
LEMMA OneMore ==
    ASSUME NEW S, NEW s \in Seq(Calls), NEW c \in Calls, c \notin S, ExactlyOnce(s, S)
    PROVE  ExactlyOnce(s \o <<c>>, S \cup {c})
<1> DEFINE t == s \o <<c>>
<1>1. /\ Len(s) \in Nat /\ DOMAIN s = 1 .. Len(s)
      /\ DOMAIN t = 1 .. Len(s) + 1
      /\ t[Len(s) + 1] = c
      /\ \A k \in DOMAIN s : t[k] = s[k]
  OBVIOUS
<1> HIDE DEF t
<1>2. \A k \in DOMAIN t : k \in DOMAIN s \/ k = Len(s) + 1
  BY <1>1
<1>3. \A d \in S \cup {c} : \E k \in DOMAIN t : t[k] = d
  BY <1>1 DEF ExactlyOnce
<1>4. \A k \in DOMAIN t : t[k] \in S \cup {c}
  BY <1>1, <1>2 DEF ExactlyOnce
<1>5. \A j, k \in DOMAIN t : t[j] = t[k] => j = k
  BY <1>1, <1>2 DEF ExactlyOnce
<1>6. ExactlyOnce(t, S \cup {c})
  BY <1>3, <1>4, <1>5 DEF ExactlyOnce
<1> QED BY <1>6 DEF t

(* The report of gather: the members in their order.                       *)
LEMMA GatheredRows ==
    /\ ExactlyOnce(MemberRows, Members)
    /\ ExactlyOnce(MembersAndCritique, Members \cup {Critique})
    /\ ExactlyOnce(AllRows, Members \cup {Critique} \cup {Judge})
<1>1. ExactlyOnce(MemberRows, Members)
  BY DEF ExactlyOnce, MemberRows
<1>2. ExactlyOnce(MemberRows \o <<Critique>>, Members \cup {Critique})
  BY <1>1, RowTypes, OneMore
<1>3. ExactlyOnce(MembersAndCritique, Members \cup {Critique})
  BY <1>2 DEF MembersAndCritique
<1>4. ExactlyOnce(MembersAndCritique \o <<Judge>>, (Members \cup {Critique}) \cup {Judge})
  BY <1>3, RowTypes, OneMore
<1> QED
  BY <1>1, <1>3, <1>4 DEF AllRows

(* The report of the generator: completion order.                          *)
LEMMA HandedOverRows ==
    ASSUME TypeOK, CompletionOrder, AllAnswered, mode.driver = "process"
    PROVE  /\ SubSeq(finished, 1, taken) = finished
           /\ finished \in Seq(Calls)
           /\ ExactlyOnce(finished, Members)
<1>1. finished \in Seq(Members) /\ taken = Len(finished)
  BY DEF TypeOK, AllAnswered
<1>2. SubSeq(finished, 1, taken) = finished /\ DOMAIN finished = 1 .. Len(finished)
  BY <1>1
<1>3. finished \in Seq(Calls)
  BY <1>1, RowTypes
<1>4. ExactlyOnce(finished, Members)
  BY <1>1, <1>2 DEF ExactlyOnce, CompletionOrder, AllAnswered
<1> QED BY <1>2, <1>3, <1>4

-----------------------------------------------------------------------------
(* Initially                                                               *)
LEMMA InitInv == Init => IInv
<1> SUFFICES ASSUME Init PROVE IInv
  OBVIOUS
<1>1. Holding = {}
  BY DEF Init, Holding
<1>2. IsFiniteSet({}) /\ Cardinality({}) = 0
  BY FS_EmptySet
<1>3. TypeOK
  BY ConcurrencyAssumption, MembersAssumption
     DEF Init, TypeOK, Intents, NoReply, NoAnswer, Ended, Answered, OverStates
<1>4. CompletionOrder /\ Phases
  BY DEF Init, CompletionOrder, Phases, Answered, Ended
<1>5. PermitsAreHeld
  BY <1>1, <1>2, ConcurrencyAssumption DEF Init, PermitsAreHeld
<1>6. EveryCallReported /\ AnswerKeepsTheRules /\ TotalsCoverEveryCall
  BY DEF Init, EveryCallReported, AnswerKeepsTheRules, TotalsCoverEveryCall
<1> QED BY <1>3, <1>4, <1>5, <1>6 DEF IInv

-----------------------------------------------------------------------------
(* The members' steps.                                                     *)

(* A member's step changes nothing but its task, the semaphore and the     *)
(* completion order, and happens only while its task has not ended.        *)
LEMMA MemberStepFrame ==
    ASSUME TypeOK, NEW i \in Members, MemberStep(i)
    PROVE  /\ UNCHANGED <<mode, taken, critique, judge, pc, reply>>
           /\ member[i] \in {"new", "queued", "calling", "stopping"}
           /\ \A j \in Members \ {i} : member'[j] = member[j] /\ intent'[j] = intent[j]
           /\ \/ member'[i] \in {"queued", "calling", "cancelled"} /\ finished' = finished
              \/ /\ member'[i] \in Answered \cup {"crashed"}
                 /\ finished' = Append(finished, i)
           /\ member'[i] \in {"queued", "calling"} => member[i] \in {"new", "queued"}
           /\ member'[i] = "cancelled" => member[i] = "stopping"
           /\ member[i] = "stopping" => member'[i] = "cancelled"
<1> USE DEF TypeOK, Answered
<1>1. CASE Prepare(i)       BY <1>1 DEF Prepare
<1>2. CASE FactoryFails(i)  BY <1>2 DEF FactoryFails
<1>3. CASE Acquire(i)       BY <1>3 DEF Acquire
<1>4. CASE Answer(i)        BY <1>4 DEF Answer, Leave
<1>5. CASE CallFails(i)     BY <1>5 DEF CallFails, Leave
<1>6. CASE CallCrashes(i)   BY <1>6 DEF CallCrashes, Leave
<1>7. CASE Unwind(i)        BY <1>7 DEF Unwind
<1> QED BY <1>1, <1>2, <1>3, <1>4, <1>5, <1>6, <1>7 DEF MemberStep

LEMMA MemberStepTypes ==
    ASSUME TypeOK, NEW i \in Members, MemberStep(i)
    PROVE  TypeOK'
<1> USE DEF TypeOK
<1>1. finished' \in Seq(Members) /\ taken' \in 0 .. Len(finished')
  <2>1. finished \in Seq(Members) /\ taken \in 0 .. Len(finished) /\ taken' = taken
    BY MemberStepFrame
  <2>2. finished' = finished \/ finished' = Append(finished, i)
    BY MemberStepFrame
  <2> HIDE DEF TypeOK
  <2>3. Append(finished, i) \in Seq(Members) /\ Len(Append(finished, i)) = Len(finished) + 1
    BY <2>1
  <2> QED BY <2>1, <2>2, <2>3
<1>2. /\ member' \in [Members -> Ended \cup {"new", "queued", "calling", "stopping"}]
      /\ intent' \in [Members -> Intents]
      /\ permits' \in Nat
  <2> USE DEF Ended, Answered, Intents
  <2>1. CASE Prepare(i)       BY <2>1 DEF Prepare
  <2>2. CASE FactoryFails(i)  BY <2>2 DEF FactoryFails
  <2>3. CASE Acquire(i)       BY <2>3 DEF Acquire
  <2>4. CASE Answer(i)        BY <2>4 DEF Answer, Leave
  <2>5. CASE CallFails(i)     BY <2>5 DEF CallFails, Leave
  <2>6. CASE CallCrashes(i)   BY <2>6 DEF CallCrashes, Leave
  <2>7. CASE Unwind(i)        BY <2>7 DEF Unwind
  <2> QED BY <2>1, <2>2, <2>3, <2>4, <2>5, <2>6, <2>7 DEF MemberStep
<1> QED BY <1>1, <1>2, MemberStepFrame

(* The completion order stays one.                                         *)
LEMMA MemberStepOrder ==
    ASSUME TypeOK, CompletionOrder, NEW i \in Members, MemberStep(i)
    PROVE  CompletionOrder'
<1> USE DEF TypeOK
<1>1. \A k \in 1 .. Len(finished) : finished[k] \in Members /\ finished[k] # i
  BY MemberStepFrame DEF CompletionOrder, Answered
<1>2. CASE finished' = finished
  <2>1. member'[i] \notin Answered \cup {"crashed"}
    BY <1>2, MemberStepFrame DEF Answered
  <2>2. taken' = taken /\ \A k \in 1 .. taken : k \in 1 .. Len(finished)
    BY MemberStepFrame
  <2>3. \A k \in 1 .. Len(finished) : member'[finished[k]] = member[finished[k]]
    BY <1>1, MemberStepFrame
  <2>4. \A j \in Members : member'[j] \in Answered \cup {"crashed"} => member'[j] = member[j]
    BY <2>1, MemberStepFrame
  <2> HIDE DEF TypeOK
  <2> QED BY <1>2, <2>2, <2>3, <2>4 DEF CompletionOrder
<1>3. CASE finished' = Append(finished, i) /\ member'[i] \in Answered \cup {"crashed"}
  <2>1. /\ Len(finished') = Len(finished) + 1
        /\ finished'[Len(finished) + 1] = i
        /\ \A k \in 1 .. Len(finished) : finished'[k] = finished[k]
        /\ \A k \in 1 .. Len(finished') : k \in 1 .. Len(finished) \/ k = Len(finished) + 1
        /\ taken' = taken /\ taken \in 0 .. Len(finished)
    BY <1>3, MemberStepFrame
  <2>2. \A k \in 1 .. Len(finished') : member'[finished'[k]] \in Answered \cup {"crashed"}
    BY <1>1, <1>3, <2>1, MemberStepFrame DEF CompletionOrder
  <2>3. ASSUME NEW j \in Members, member'[j] \in Answered \cup {"crashed"}
        PROVE  \E k \in 1 .. Len(finished') : finished'[k] = j
    <3>1. CASE j = i  BY <2>1, <3>1
    <3>2. CASE j # i
      <4>1. PICK k \in 1 .. Len(finished) : finished[k] = j
        BY <2>3, <3>2, MemberStepFrame DEF CompletionOrder
      <4> QED BY <2>1, <4>1
    <3> QED BY <3>1, <3>2
  <2>4. ASSUME NEW j \in 1 .. Len(finished'), NEW k \in 1 .. Len(finished'),
               finished'[j] = finished'[k]
        PROVE  j = k
    <3>1. CASE j \in 1 .. Len(finished) /\ k \in 1 .. Len(finished)
      BY <2>1, <2>4, <3>1 DEF CompletionOrder
    <3>2. CASE j \in 1 .. Len(finished) /\ k = Len(finished) + 1
      BY <1>1, <2>1, <2>4, <3>2
    <3>3. CASE k \in 1 .. Len(finished) /\ j = Len(finished) + 1
      BY <1>1, <2>1, <2>4, <3>3
    <3> QED BY <2>1, <3>1, <3>2, <3>3
  <2>5. ASSUME NEW k \in 1 .. taken' PROVE member'[finished'[k]] \in Answered
    <3>1. k \in 1 .. taken /\ k \in 1 .. Len(finished)
      BY <2>1
    <3>2. finished'[k] = finished[k] /\ member'[finished[k]] = member[finished[k]]
      BY <1>1, <2>1, <3>1, MemberStepFrame
    <3> QED BY <3>1, <3>2 DEF CompletionOrder
  <2> QED BY <2>2, <2>3, <2>4, <2>5 DEF CompletionOrder
<1> QED BY <1>2, <1>3, MemberStepFrame

(* A permit goes with every call, whatever way the call ends.              *)
LEMMA MemberStepPermits ==
    ASSUME TypeOK, PermitsAreHeld, NEW i \in Members, MemberStep(i)
    PROVE  PermitsAreHeld'
<1> USE DEF TypeOK
<1>1. \A j \in Members \ {i} : j \in Holding' <=> j \in Holding
  BY MemberStepFrame DEF Holding
<1>2. Cardinality(Holding) \in Nat
  BY FS_CardinalityType DEF PermitsAreHeld
<1>3. CASE permits' = permits /\ i \notin Holding /\ i \notin Holding'
  <2>1. Holding' = Holding
    BY <1>1, <1>3 DEF Holding
  <2> QED BY <1>3, <2>1 DEF PermitsAreHeld
<1>4. CASE permits' = permits - 1 /\ i \notin Holding /\ i \in Holding'
  <2>1. Holding' = Holding \cup {i}
    BY <1>1, <1>4 DEF Holding
  <2>2. IsFiniteSet(Holding') /\ Cardinality(Holding') = Cardinality(Holding) + 1
    BY <1>4, <2>1, FS_AddElement DEF PermitsAreHeld
  <2> QED BY <1>2, <1>4, <2>2, ConcurrencyAssumption DEF PermitsAreHeld
<1>5. CASE permits' = permits + 1 /\ i \in Holding /\ i \notin Holding'
  <2>1. Holding' = Holding \ {i}
    BY <1>1, <1>5 DEF Holding
  <2>2. IsFiniteSet(Holding') /\ Cardinality(Holding') = Cardinality(Holding) - 1
    BY <1>5, <2>1, FS_RemoveElement DEF PermitsAreHeld
  <2> QED BY <1>2, <1>5, <2>2, ConcurrencyAssumption DEF PermitsAreHeld
<1>6. \/ permits' = permits /\ i \notin Holding /\ i \notin Holding'
      \/ permits' = permits - 1 /\ i \notin Holding /\ i \in Holding'
      \/ permits' = permits + 1 /\ i \in Holding /\ i \notin Holding'
  <2> USE DEF Holding
  <2>1. CASE Prepare(i)       BY <2>1 DEF Prepare
  <2>2. CASE FactoryFails(i)  BY <2>2 DEF FactoryFails
  <2>3. CASE Acquire(i)       BY <2>3 DEF Acquire
  <2>4. CASE Answer(i)        BY <2>4 DEF Answer, Leave
  <2>5. CASE CallFails(i)     BY <2>5 DEF CallFails, Leave
  <2>6. CASE CallCrashes(i)   BY <2>6 DEF CallCrashes, Leave
  <2>7. CASE Unwind(i)        BY <2>7 DEF Unwind
  <2> QED BY <2>1, <2>2, <2>3, <2>4, <2>5, <2>6, <2>7 DEF MemberStep
<1> QED BY <1>3, <1>4, <1>5, <1>6

(* After the members were collected there is no member's step left.        *)
LEMMA MemberStepPhases ==
    ASSUME IInv, NEW i \in Members, MemberStep(i)
    PROVE  /\ Phases'
           /\ pc \notin {"critique", "judge", "answered", "planned", "refused"}
<1> USE DEF IInv
<1>1. member[i] \notin Answered
  BY MemberStepFrame DEF Answered
<1>2. pc \notin {"critique", "judge", "answered", "planned", "refused"}
  BY <1>1 DEF Phases, AllAnswered
<1>3. ASSUME \A j \in Members : member[j] \in Ended \cup {"stopping"}
      PROVE  \A j \in Members : member'[j] \in Ended \cup {"stopping"}
  <2>1. member[i] = "stopping" /\ member'[i] = "cancelled"
    BY <1>3, MemberStepFrame DEF Ended, Answered
  <2> QED BY <1>3, <2>1, MemberStepFrame DEF Ended
<1> QED BY <1>2, <1>3, MemberStepFrame DEF Phases

LEMMA MemberStepInv ==
    ASSUME IInv, NEW i \in Members, MemberStep(i)
    PROVE  IInv'
<1> USE DEF IInv
<1>1. TypeOK' /\ CompletionOrder' /\ PermitsAreHeld' /\ Phases'
  BY MemberStepTypes, MemberStepOrder, MemberStepPermits, MemberStepPhases
<1>2. pc' \notin {"answered", "planned", "refused"}
  BY MemberStepFrame, MemberStepPhases
<1>3. EveryCallReported' /\ AnswerKeepsTheRules' /\ TotalsCoverEveryCall'
  BY <1>2 DEF EveryCallReported, AnswerKeepsTheRules, TotalsCoverEveryCall
<1> QED BY <1>1, <1>3

-----------------------------------------------------------------------------
(* The strategy's steps that end or cancel the collecting.                 *)

(* A step that leaves the tasks alone leaves the facts about them alone.   *)
LEMMA TasksUntouched ==
    ASSUME CompletionOrder, PermitsAreHeld,
           UNCHANGED <<mode, member, permits, finished, taken>>
    PROVE  /\ CompletionOrder' /\ PermitsAreHeld'
           /\ Succeeded' = Succeeded
           /\ TooManyFailures' = TooManyFailures
           /\ AllAnswered' = AllAnswered
BY DEF CompletionOrder, PermitsAreHeld, Holding, Succeeded, TooManyFailures, AllAnswered

LEMMA MembersStopped ==
    ASSUME TypeOK, CompletionOrder, PermitsAreHeld, StopMembers,
           UNCHANGED <<permits, finished, taken>>
    PROVE  /\ member' \in [Members -> Ended \cup {"new", "queued", "calling", "stopping"}]
           /\ CompletionOrder' /\ PermitsAreHeld'
           /\ \A i \in Members : member'[i] \in Ended \cup {"stopping"}
<1>1. ASSUME NEW i \in Members
      PROVE  /\ member'[i] \in Ended \cup {"stopping"}
             /\ member[i] \in Answered \cup {"crashed"} => member'[i] = member[i]
             /\ member'[i] \in Answered \cup {"crashed"} => member'[i] = member[i]
             /\ member'[i] \in {"calling", "stopping"} <=> member[i] \in {"calling", "stopping"}
  BY DEF TypeOK, StopMembers, Ended, Answered
<1>2. member' \in [Members -> Ended \cup {"new", "queued", "calling", "stopping"}]
  BY <1>1 DEF StopMembers
<1>3. \A k \in 1 .. Len(finished) : finished[k] \in Members
  BY DEF TypeOK
<1>4. taken \in 0 .. Len(finished) /\ \A k \in 1 .. taken : k \in 1 .. Len(finished)
  BY DEF TypeOK
<1>5. CompletionOrder'
  BY <1>1, <1>3, <1>4 DEF CompletionOrder
<1>6. Holding' = Holding
  BY <1>1 DEF Holding
<1> QED BY <1>1, <1>2, <1>5, <1>6 DEF PermitsAreHeld

(* Nothing is promised of a run that crashed or was cancelled.             *)
LEMMA NothingPromised ==
    ASSUME pc' \notin {"answered", "planned", "refused"}
    PROVE  EveryCallReported' /\ AnswerKeepsTheRules' /\ TotalsCoverEveryCall'
BY DEF EveryCallReported, AnswerKeepsTheRules, TotalsCoverEveryCall

LEMMA CollectingStepInv ==
    ASSUME IInv,
           HandOver \/ ProcessCrash \/ GatherCrash \/ CancelCollecting \/ GatherCancelled
    PROVE  IInv'
<1> USE DEF IInv
<1>1. CASE HandOver
  <2> USE <1>1 DEF HandOver
  <2>1. TypeOK'
    BY DEF TypeOK
  <2>2. CompletionOrder'
    <3>1. \A k \in 1 .. taken' : member[finished[k]] \in Answered
      BY DEF TypeOK, CompletionOrder
    <3> QED BY <3>1 DEF CompletionOrder
  <2>3. PermitsAreHeld' /\ Phases'
    BY DEF PermitsAreHeld, Holding, Phases
  <2> QED BY <2>1, <2>2, <2>3, NothingPromised
<1>2. CASE ProcessCrash
  <2> USE <1>2 DEF ProcessCrash
  <2>1. TypeOK' /\ CompletionOrder' /\ PermitsAreHeld'
    BY MembersStopped DEF TypeOK, OverStates
  <2>2. Phases'
    BY MembersStopped DEF Phases
  <2> QED BY <2>1, <2>2, NothingPromised
<1>3. CASE GatherCrash
  <2> USE <1>3 DEF GatherCrash
  <2>1. TypeOK' /\ CompletionOrder' /\ PermitsAreHeld'
    BY TasksUntouched DEF TypeOK, OverStates
  <2>2. Phases'
    BY DEF Phases
  <2> QED BY <2>1, <2>2, NothingPromised
<1>4. CASE CancelCollecting
  <2> USE <1>4 DEF CancelCollecting
  <2>1. pc' \in {"cancelled", "stopping"} /\ (pc' = "stopping" => mode.driver # "process")
    OBVIOUS
  <2>2. TypeOK' /\ CompletionOrder' /\ PermitsAreHeld'
    BY <2>1, MembersStopped DEF TypeOK, OverStates
  <2>3. Phases'
    BY <2>1, MembersStopped DEF Phases
  <2> QED BY <2>1, <2>2, <2>3, NothingPromised
<1>5. CASE GatherCancelled
  <2> USE <1>5 DEF GatherCancelled
  <2>1. TypeOK' /\ CompletionOrder' /\ PermitsAreHeld'
    BY TasksUntouched DEF TypeOK, OverStates
  <2>2. Phases'
    BY DEF Phases
  <2> QED BY <2>1, <2>2, NothingPromised
<1> QED BY <1>1, <1>2, <1>3, <1>4, <1>5

-----------------------------------------------------------------------------
(* The judge's steps.                                                      *)

(* The replies a run can end with are well typed.                          *)
Replies == [author : 0 .. NumMembers + 2, delivers : Intents, degraded : BOOLEAN,
            rows : Seq(Calls), counted : SUBSET Calls]

LEMMA ReplyTypes ==
    ASSUME TypeOK, NEW rows \in Seq(Calls), NEW counted \in SUBSET Calls
    PROVE  /\ NoAnswer(rows) \in Replies
           /\ \A what \in Intents : FromJudge(what, rows, counted) \in Replies
           /\ Succeeded # {} => Fallback(rows, counted) \in Replies
<1>1. NumMembers \in Nat
  BY MembersAssumption
<1>2. NoAnswer(rows) \in Replies
  BY <1>1 DEF NoAnswer, Replies, Intents
<1>3. ASSUME NEW what \in Intents PROVE FromJudge(what, rows, counted) \in Replies
  BY <1>1 DEF FromJudge, Replies, Judge
<1>4. ASSUME Succeeded # {} PROVE Fallback(rows, counted) \in Replies
  <2>1. FallbackMember \in Members
    BY <1>4, FallbackAnswered DEF Succeeded
  <2>2. intent[FallbackMember] \in Intents /\ FallbackMember \in 0 .. NumMembers + 2
    BY <1>1, <2>1 DEF TypeOK, Members
  <2> QED BY <2>2 DEF Fallback, Replies
<1> QED BY <1>2, <1>3, <1>4

(* The possible reports are sequences of calls, and sets of calls counted. *)
LEMMA ReportTypes ==
    /\ MemberRows \in Seq(Calls) /\ MembersAndCritique \in Seq(Calls)
    /\ FinalRows \in Seq(Calls) /\ <<>> \in Seq(Calls)
    /\ Members \subseteq Calls /\ Members \cup {Critique} \subseteq Calls
    /\ FinalCounted \subseteq Calls
BY RowTypes, SingletonType DEF FinalRows, FinalCounted

(* What the generator has reported once the critique and the judge ended.  *)
LEMMA ProcessReports ==
    ASSUME TypeOK, CompletionOrder, AllAnswered, mode.driver = "process"
    PROVE  LET all == SubSeq(finished, 1, taken) IN
           /\ all \in Seq(Calls)
           /\ ExactlyOnce(all \o <<Critique>>, Members \cup {Critique})
           /\ (all \o <<Critique>>) \o <<>> = all \o <<Critique>>
           /\ ExactlyOnce((all \o <<Critique>>) \o <<Judge>>,
                          (Members \cup {Critique}) \cup {Judge})
<1> DEFINE all == SubSeq(finished, 1, taken)
<1>1. all \in Seq(Calls) /\ ExactlyOnce(all, Members)
  BY HandedOverRows
<1> HIDE DEF all
<1>2. all \o <<Critique>> \in Seq(Calls) /\ (all \o <<Critique>>) \o <<>> = all \o <<Critique>>
  BY <1>1, RowTypes
<1>3. ExactlyOnce(all \o <<Critique>>, Members \cup {Critique})
  BY <1>1, RowTypes, OneMore
<1>4. ExactlyOnce((all \o <<Critique>>) \o <<Judge>>, (Members \cup {Critique}) \cup {Judge})
  BY <1>2, <1>3, RowTypes, OneMore
<1> QED BY <1>1, <1>2, <1>3, <1>4 DEF all

(* A step of the strategy after the members: its tasks, their order and    *)
(* permits stay, so the rest has to be shown only.                         *)
LEMMA JudgeStep ==
    ASSUME IInv, UNCHANGED <<mode, member, intent, permits, finished, taken>>,
           critique' \in {"none", "calling", "success", "failed"},
           judge' \in {"none", "calling", "failed"} \cup Intents,
           pc' \in {"members", "critique", "judge", "stopping"} \cup OverStates,
           reply' \in Replies,
           Phases', EveryCallReported', AnswerKeepsTheRules', TotalsCoverEveryCall'
    PROVE  IInv'
<1>1. TypeOK'
  BY DEF IInv, TypeOK, Replies
<1> QED BY <1>1, TasksUntouched DEF IInv

LEMMA NoReplyType == TypeOK => NoReply \in Replies
BY ReplyTypes, ReportTypes DEF NoReply

LEMMA CollectedFacts ==
    ASSUME IInv, Collected
    PROVE  /\ AllAnswered /\ critique = "none" /\ judge = "none" /\ reply = NoReply
           /\ Made = Members
<1>1. AllAnswered /\ pc = "members"
  BY DEF Collected, AllAnswered
<1>2. critique = "none" /\ judge = "none" /\ reply = NoReply
  BY <1>1 DEF IInv, Phases
<1>3. Made = Members
  BY <1>1, <1>2 DEF Made, AllAnswered
<1> QED BY <1>1, <1>2, <1>3

LEMMA CollectedStepInv ==
    ASSUME IInv, MembersRefused \/ StartCritique \/ JudgeFactoryFails
    PROVE  IInv'
<1> USE CollectedFacts, TasksUntouched
<1>0. TypeOK /\ NoReply \in Replies /\ NoAnswer(MemberRows) \in Replies
  BY NoReplyType, ReplyTypes, ReportTypes DEF IInv
<1>1. CASE MembersRefused
  <2> USE <1>1 DEF MembersRefused
  <2>1. Phases'
    BY DEF Phases, IInv
  <2>2. EveryCallReported'
    <3>1. Reported' = MemberRows /\ Made' = Made
      BY DEF Reported, NoAnswer, Made
    <3> QED BY <3>1, GatheredRows DEF EveryCallReported
  <2>3. AnswerKeepsTheRules' /\ TotalsCoverEveryCall'
    BY DEF AnswerKeepsTheRules, TotalsCoverEveryCall
  <2> QED BY <1>0, <2>1, <2>2, <2>3, JudgeStep DEF OverStates
<1>2. CASE StartCritique
  <2> USE <1>2 DEF StartCritique
  <2>1. Phases'
    BY DEF Phases, IInv
  <2> QED BY <1>0, <2>1, NothingPromised, JudgeStep DEF OverStates
<1>3. CASE JudgeFactoryFails
  <2> USE <1>3 DEF JudgeFactoryFails
  <2>1. Phases'
    BY DEF Phases, IInv, Collected, AllAnswered, Ended
  <2> QED BY <1>0, <2>1, NothingPromised, JudgeStep DEF OverStates
<1> QED BY <1>1, <1>2, <1>3

LEMMA GivingUpInv ==
    ASSUME IInv, JudgeCrashes \/ CancelJudge
    PROVE  IInv'
<1>1. /\ UNCHANGED <<mode, member, intent, permits, finished, taken, critique, judge, reply>>
      /\ pc \in {"critique", "judge"} /\ pc' \in {"crashed", "cancelled"}
  BY DEF JudgeCrashes, CancelJudge
<1>2. AllAnswered
  BY <1>1 DEF IInv, Phases
<1>3. Phases'
  BY <1>1, <1>2 DEF AllAnswered, Phases, Ended
<1>4. TypeOK /\ reply \in Replies
  BY DEF IInv, TypeOK, Replies
<1> QED BY <1>1, <1>3, <1>4, NothingPromised, JudgeStep DEF TypeOK, OverStates

LEMMA CritiqueSucceedsInv ==
    ASSUME IInv, CritiqueSucceeds
    PROVE  IInv'
<1> USE DEF CritiqueSucceeds
<1>1. AllAnswered /\ ~TooManyFailures /\ judge = "none" /\ reply = NoReply /\ TypeOK
  BY DEF IInv, Phases
<1>2. "text" \in Intents /\ mode.driver \in {"run", "prepare", "process"}
  BY <1>1 DEF Intents, TypeOK, Modes
<1>3. reply' \in Replies
  <2>1. FromJudge("text", MembersAndCritique, Members \cup {Critique}) \in Replies
    BY <1>1, <1>2, ReplyTypes, ReportTypes
  <2>2. FromJudge("text", <<>>, {}) \in Replies
    BY <1>1, <1>2, ReplyTypes, ReportTypes
  <2> QED BY <1>1, <2>1, <2>2, NoReplyType
<1>4. Phases'
  BY <1>1, TasksUntouched DEF Phases, IInv
<1>5. ASSUME pc' = "planned" PROVE EveryCallReported'
  <2>1. Made' = Members \cup {Critique}
    BY <1>1, <1>5 DEF Made, AllAnswered
  <2>2. CASE mode.driver = "prepare"
    <3>1. Reported' = MembersAndCritique
      BY <1>5, <2>2 DEF Reported, FromJudge
    <3> QED BY <2>1, <3>1, GatheredRows DEF EveryCallReported
  <2>3. CASE mode.driver = "process"
    <3>0. reply'.rows = <<>>
      BY <1>5, <2>3 DEF FromJudge
    <3>1. Reported' = (SubSeq(finished, 1, taken) \o <<Critique>>) \o <<>>
      <4>1. HandedOver' = SubSeq(finished, 1, taken) \o <<Critique>>
        BY DEF HandedOver
      <4>2. Reported' = HandedOver' \o reply'.rows
        BY <1>5, <2>3 DEF Reported
      <4> QED BY <3>0, <4>1, <4>2
    <3>2. ExactlyOnce(Reported', Members \cup {Critique})
      BY <1>1, <2>3, <3>1, ProcessReports DEF IInv
    <3> QED BY <2>1, <3>2 DEF EveryCallReported
  <2> QED BY <1>5, <2>2, <2>3
<1>6. EveryCallReported'
  BY <1>5, <1>2 DEF EveryCallReported
<1>7. ASSUME pc' = "planned" PROVE ~reply'.degraded /\ reply'.author = Judge
  BY <1>7 DEF FromJudge
<1>8. AnswerKeepsTheRules'
  BY <1>1, <1>7, TasksUntouched DEF AnswerKeepsTheRules, IInv, TooManyFailures
<1>9. TotalsCoverEveryCall'
  BY DEF TotalsCoverEveryCall
<1> QED BY <1>1, <1>3, <1>4, <1>6, <1>8, <1>9, JudgeStep DEF OverStates

LEMMA CritiqueFailsInv ==
    ASSUME IInv, CritiqueFails
    PROVE  IInv'
<1> USE DEF CritiqueFails
<1>1. AllAnswered /\ ~TooManyFailures /\ judge = "none" /\ TypeOK
  BY DEF IInv, Phases
<1>2. Succeeded # {} /\ (mode.strictMembers => Succeeded = Members)
  BY <1>1 DEF TooManyFailures
<1>3. NoAnswer(MembersAndCritique) \in Replies /\ Fallback(MembersAndCritique, Members) \in Replies
  BY <1>1, <1>2, ReplyTypes, ReportTypes
<1>4. Phases'
  BY <1>1, TasksUntouched DEF Phases, IInv
<1>5. EveryCallReported'
  <2>1. Made' = Members \cup {Critique}
    BY <1>1 DEF Made, AllAnswered
  <2>2. Reported' = MembersAndCritique
    BY DEF Reported, Fallback, NoAnswer
  <2> QED BY <2>1, <2>2, GatheredRows DEF EveryCallReported
<1>6. ASSUME pc' = "answered"
      PROVE  reply'.degraded /\ reply'.author \in Succeeded /\ ~mode.strictJudge
  BY <1>2, <1>6, FallbackAnswered DEF Fallback
<1>7. AnswerKeepsTheRules'
  BY <1>2, <1>6, TasksUntouched DEF AnswerKeepsTheRules, IInv
<1>8. TotalsCoverEveryCall'
  <2>1. ASSUME pc' = "answered" PROVE Made' = Members \cup {Critique} /\ reply'.counted = Members
    BY <1>1, <2>1 DEF Made, AllAnswered, Fallback
  <2> QED BY <2>1 DEF TotalsCoverEveryCall
<1> QED BY <1>1, <1>3, <1>4, <1>5, <1>7, <1>8, JudgeStep DEF OverStates

(* The report of a run whose judge was called.                             *)
LEMMA FinalReport ==
    ASSUME IInv, pc = "judge",
           UNCHANGED <<mode, member, intent, permits, finished, taken, critique>>,
           judge' # "none", pc' \in {"answered", "refused"},
           reply'.rows = IF pc' = "answered" THEN FinalRows ELSE AllRows
    PROVE  EveryCallReported' /\ Made' = Members \cup {Critique} \cup {Judge}
<1>1. AllAnswered /\ critique = "success"
  BY DEF IInv, Phases
<1>2. Made' = Members \cup {Critique} \cup {Judge}
  BY <1>1 DEF Made, AllAnswered
<1>3. CASE mode.driver = "process" /\ pc' = "answered"
  <2>1. Reported' = (SubSeq(finished, 1, taken) \o <<Critique>>) \o <<Judge>>
    BY <1>1, <1>3 DEF Reported, HandedOver, FinalRows
  <2>2. ExactlyOnce(Reported', Members \cup {Critique} \cup {Judge})
    BY <1>1, <1>3, <2>1, ProcessReports DEF IInv
  <2> QED BY <1>2, <2>2 DEF EveryCallReported
<1>4. CASE mode.driver # "process" \/ pc' = "refused"
  <2>1. Reported' = AllRows
    BY <1>4 DEF Reported, FinalRows
  <2> QED BY <1>2, <2>1, GatheredRows DEF EveryCallReported
<1> QED BY <1>3, <1>4

LEMMA JudgeAnswersInv ==
    ASSUME IInv, NEW what \in Intents, JudgeAnswers(what)
    PROVE  IInv'
<1> USE DEF JudgeAnswers
<1>1. AllAnswered /\ ~TooManyFailures /\ critique = "success" /\ TypeOK
  BY DEF IInv, Phases
<1>2. Succeeded # {} /\ (mode.strictMembers => Succeeded = Members)
  BY <1>1 DEF TooManyFailures
<1>3. "text" \in Intents /\ what \notin {"none", "calling", "failed"}
  BY ToolsAssumption DEF Intents
<1>4. \/ reply' = Fallback(FinalRows, FinalCounted) /\ what = "wrong"
      \/ \E form \in Intents : reply' = FromJudge(form, FinalRows, FinalCounted)
  BY <1>3
<1>5. reply' \in Replies
  BY <1>1, <1>2, <1>4, ReplyTypes, ReportTypes
<1>6. reply'.rows = FinalRows /\ reply'.counted = FinalCounted
  BY <1>4 DEF Fallback, FromJudge
<1>7. EveryCallReported' /\ Made' = Members \cup {Critique} \cup {Judge}
  BY <1>3, <1>6, FinalReport
<1>8. Phases'
  BY <1>1, TasksUntouched DEF Phases, IInv
<1>9. AnswerKeepsTheRules'
  <2>1. reply'.degraded => reply'.author \in Succeeded /\ judge' = "wrong"
    BY <1>2, <1>4, FallbackAnswered DEF Fallback, FromJudge
  <2>2. ~reply'.degraded => reply'.author = Judge
    BY <1>4 DEF Fallback, FromJudge
  <2> QED BY <1>1, <1>2, <2>1, <2>2, TasksUntouched DEF AnswerKeepsTheRules, IInv
<1>10. TotalsCoverEveryCall'
  BY <1>6, <1>7, RowTypes DEF TotalsCoverEveryCall, FinalCounted
<1> QED BY <1>1, <1>3, <1>5, <1>7, <1>8, <1>9, <1>10, JudgeStep DEF OverStates

LEMMA JudgeFailsInv ==
    ASSUME IInv, JudgeFails
    PROVE  IInv'
<1> USE DEF JudgeFails
<1>1. AllAnswered /\ ~TooManyFailures /\ critique = "success" /\ TypeOK
  BY DEF IInv, Phases
<1>2. Succeeded # {} /\ (mode.strictMembers => Succeeded = Members)
  BY <1>1 DEF TooManyFailures
<1>3. CASE mode.strictJudge
  <2>1. pc' = "refused" /\ reply' = NoAnswer(AllRows)
    BY <1>3
  <2>2. reply' \in Replies
    BY <1>1, <2>1, RowTypes, ReplyTypes
  <2>3. EveryCallReported'
    BY <2>1, FinalReport DEF NoAnswer
  <2>4. Phases'
    BY <1>1, <2>1, TasksUntouched DEF Phases, IInv
  <2>5. AnswerKeepsTheRules' /\ TotalsCoverEveryCall'
    BY <2>1 DEF AnswerKeepsTheRules, TotalsCoverEveryCall
  <2> QED BY <1>1, <2>1, <2>2, <2>3, <2>4, <2>5, JudgeStep DEF OverStates
<1>4. CASE ~mode.strictJudge
  <2> DEFINE counted == IF mode.tools THEN FinalCounted ELSE Members
  <2>1. pc' = "answered" /\ reply' = Fallback(FinalRows, counted)
    BY <1>4
  <2>2. counted \in SUBSET Calls
    BY RowTypes, ReportTypes
  <2>3. reply' \in Replies
    BY <1>1, <1>2, <2>1, <2>2, ReportTypes, ReplyTypes
  <2>4. reply'.rows = FinalRows /\ reply'.counted = counted
    BY <2>1 DEF Fallback
  <2>5. EveryCallReported' /\ Made' = Members \cup {Critique} \cup {Judge}
    BY <2>1, <2>4, FinalReport
  <2>6. Phases'
    BY <1>1, <2>1, TasksUntouched DEF Phases, IInv
  <2>7. AnswerKeepsTheRules'
    <3>1. reply'.degraded /\ reply'.author \in Succeeded
      BY <1>2, <2>1, FallbackAnswered DEF Fallback
    <3> QED BY <1>2, <1>4, <3>1, TasksUntouched DEF AnswerKeepsTheRules, IInv
  <2>8. TotalsCoverEveryCall'
    BY <2>4, <2>5, RowTypes DEF TotalsCoverEveryCall, FinalCounted
  <2> QED BY <1>1, <2>1, <2>3, <2>5, <2>6, <2>7, <2>8, JudgeStep DEF OverStates
<1> QED BY <1>3, <1>4

-----------------------------------------------------------------------------
(* Every reachable state satisfies the invariant: the completion order,    *)
(* the permits and the phases of council.py's run_members, run and         *)
(* run_stream_process.                                                     *)
THEOREM Invariance == Safety => []IInv
<1>1. Init => IInv
  BY InitInv
<1>2. IInv /\ [Next]_vars => IInv'
  <2> SUFFICES ASSUME IInv, [Next]_vars PROVE IInv'
    OBVIOUS
  <2>1. CASE \E i \in Members : MemberStep(i)
    BY <2>1, MemberStepInv
  <2>2. CASE StrategyStep \/ CancelCollecting \/ CancelJudge
    BY <2>2, CollectingStepInv, CollectedStepInv, GivingUpInv, CritiqueSucceedsInv,
       CritiqueFailsInv, JudgeAnswersInv, JudgeFailsInv
       DEF StrategyStep
  <2>3. CASE UNCHANGED vars
    BY <2>3 DEF vars, IInv, TypeOK, CompletionOrder, PermitsAreHeld, Holding, Phases,
                AllAnswered, TooManyFailures, Succeeded, EveryCallReported, Reported,
                HandedOver, Made, AnswerKeepsTheRules, TotalsCoverEveryCall
  <2> QED BY <2>1, <2>2, <2>3 DEF Next
<1> QED BY <1>1, <1>2, PTL DEF Safety

(* The council's state is well typed in every reachable state.             *)
THEOREM TypeCorrect == Spec => []TypeOK
<1>1. IInv => TypeOK
  BY DEF IInv
<1> QED BY <1>1, Invariance, PTL DEF Spec

(* max_concurrency is never exceeded: every way out of a call, also a      *)
(* crash and a cancellation, gives back the one permit it took.            *)
THEOREM ConcurrencyIsBounded == Spec => []InFlightBound
<1>1. IInv => InFlightBound
  BY FS_CardinalityType, ConcurrencyAssumption DEF IInv, TypeOK, PermitsAreHeld, InFlightBound
<1> QED BY <1>1, Invariance, PTL DEF Spec

(* Each call of a run that ends with a result or a refusal is reported for *)
(* the call log once, on each of the exits of run, prepare_stream and      *)
(* run_stream_process.                                                     *)
THEOREM CallsAreReportedOnce == Spec => []EveryCallReported
<1>1. IInv => EveryCallReported
  BY DEF IInv
<1> QED BY <1>1, Invariance, PTL DEF Spec

(* A degraded answer is a member's, any other one the judge's, and the     *)
(* strict switches of fault_tolerance are kept.                            *)
THEOREM AnswersKeepTheRules == Spec => []AnswerKeepsTheRules
<1>1. IInv => AnswerKeepsTheRules
  BY DEF IInv
<1> QED BY <1>1, Invariance, PTL DEF Spec

(* StrategyResult.usage of a run covers all calls but one: the critique    *)
(* of a lenient run without tools whose judge failed (council.py 664-670). *)
THEOREM TotalsAreComplete == Spec => []TotalsCoverEveryCall
<1>1. IInv => TotalsCoverEveryCall
  BY DEF IInv
<1> QED BY <1>1, Invariance, PTL DEF Spec

(* No call is lost for the log, and none but that critique for the total.  *)
THEOREM CallsAreAllAccounted == Spec => []CallsAreAccounted
BY CallsAreReportedOnce, TotalsAreComplete, PTL DEF CallsAreAccounted

(* Only a gather that raised leaves members' tasks behind.                 *)
THEOREM NobodyIsLeftRunning == Spec => []NothingLeftRunning
<1>1. IInv => NothingLeftRunning
  <2> SUFFICES ASSUME IInv, pc \in OverStates, ~(pc = "crashed" /\ mode.driver # "process")
               PROVE  \A i \in Members : member[i] \in Ended \cup {"stopping"}
    BY DEF NothingLeftRunning
  <2>1. mode.driver = "process" \/ pc # "crashed"
    OBVIOUS
  <2> QED BY <2>1 DEF IInv, Phases, AllAnswered, Ended, OverStates
<1> QED BY <1>1, Invariance, PTL DEF Spec

-----------------------------------------------------------------------------
(* Part 2: the process stream.  The relay only schedules the council.      *)

(* What a step of the relay does to the council is a step of the council   *)
(* or nothing.                                                             *)
LEMMA RelayStepIsCouncilStep == RelayNext => [Next]_vars
<1> SUFFICES ASSUME RelayNext PROVE Next \/ UNCHANGED vars
  OBVIOUS
<1>1. CASE \E i \in Members : MemberTask(i)
  BY <1>1 DEF MemberTask, Next
<1>2. CASE Pump
  <2>1. CASE PumpMember \/ PumpRefused \/ PumpCritique \/ PumpCritiqueEnds \/ PumpCritiqueFails
    BY <2>1 DEF PumpMember, PumpRefused, PumpCritique, PumpCritiqueEnds, PumpCritiqueFails,
                Next, StrategyStep
  <2>2. CASE PumpCrash \/ PumpResult \/ PumpJudgeFails
    BY <2>2 DEF PumpCrash, PumpResult, PumpJudgeFails, Next, StrategyStep
  <2>3. CASE PumpForward \/ PumpCancelled
    BY <2>3 DEF PumpForward, PumpCancelled, Next
  <2> QED BY <1>2, <2>1, <2>2, <2>3 DEF Pump
<1>3. CASE Handler
  BY <1>3 DEF Handler, HandlerWakes, HandlerRejects
<1>4. CASE FerryTake
  BY <1>4 DEF FerryTake
<1>5. CASE Client
  BY <1>5 DEF Client, HandlerCancelled, FerryDisconnect, FerryAbandon
<1>6. CASE Persist
  BY <1>6 DEF Persist, PersistRecord, PersistFinish
<1> QED BY <1>1, <1>2, <1>3, <1>4, <1>5, <1>6 DEF RelayNext

(* Pump, handler, client and persist together never make the strategy do   *)
(* what module Council does not allow.                                     *)
THEOREM RelayImplementsCouncil == RelaySafety => Safety
<1>1. RelayInit => Init
  BY DEF RelayInit
<1>2. [RelayNext]_allVars => [Next]_vars
  BY RelayStepIsCouncilStep DEF allVars
<1> QED BY <1>1, <1>2, PTL DEF RelaySafety, Safety

(* Hence what is proved of the council holds inside the pump.              *)
THEOREM CouncilInvariants == RelaySafety => []IInv
BY RelayImplementsCouncil, Invariance, PTL
-----------------------------------------------------------------------------
(* The inductive invariant of the relay.                                   *)

SuccessTaken == \E k \in 1 .. taken : member[finished[k]] = "success"
HasDone      == \E k \in 1 .. Len(sent) : sent[k] = "done"

(* Which calls of the judge can be out or behind in which phase.           *)
JudgeHistory ==
    /\ mode.driver = "process"
    /\ pc \in {"members", "critique", "planned"} => judge = "none"
    /\ pc = "members" => critique = "none"
    /\ pc \in {"answered", "planned", "judge"} => critique = "success"
    /\ pc = "refused" => /\ critique # "calling"
                         /\ judge = "none" \/ (judge = "failed" /\ mode.strictJudge)
    /\ pc \in {"judge", "answered"} => judge # "none"
    /\ pc = "planned" => ~reply.degraded

(* What the pump has told the handler, the response and outcome.           *)
PumpStory ==
    /\ pump # "ended" => outcome = "client_cancelled" /\ stashed = "none" /\ ~HasDone
    /\ pump = "running" => pc \in {"members", "critique", "judge", "planned"}
    /\ pump = "ended" => pc \in OverStates
    /\ stashed # "none" => firstSuccess /\ ~SuccessTaken /\ ~HasDone
    /\ stashed = "none" => (firstSuccess <=> SuccessTaken)
    /\ stashed = "strategy" => pc = "refused"
    /\ outcome = "success" => HasDone
    /\ HasDone => pc \in {"answered", "planned"} /\ outcome # "failed"
    /\ outcome = "failed" => pc \in {"refused", "crashed", "planned"}

(* Whom the handler answered, and what a disconnect makes of outcome.      *)
HandlerStory ==
    /\ handler = "streaming" <=> ferry # "none"
    /\ handler = "streaming" => SuccessTaken /\ stashed = "none"
    /\ handler \in {"rejecting", "rejected", "raised"} => pump = "ended" /\ ~SuccessTaken
    /\ handler \in {"rejecting", "rejected"} => pc = "refused"
    /\ ~detach /\ ferry = "closed" => pump # "running" /\ outcome = "client_cancelled"

(* The log is written from what pump and response have left behind, which  *)
(* nobody changes any more.                                                *)
LogStory ==
    /\ draft # NoDraft => /\ ResponseOver /\ pump = "ended"
                          /\ draft.rows = RowsToLog /\ draft.status = StatusToLog
    /\ trace # "pending" =>
           \/ handler = "rejected" /\ trace = "failed" /\ calls = reply.rows
           \/ draft # NoDraft /\ trace = draft.status /\ calls = draft.rows

RInv == RelayTypeOK /\ JudgeHistory /\ PumpStory /\ HandlerStory /\ LogStory

-----------------------------------------------------------------------------
(* Lemmas about the data.                                                  *)

LEMMA PrefixKept ==
    ASSUME NEW S, NEW s \in Seq(S), NEW x \in S, NEW n \in 0 .. Len(s)
    PROVE  /\ \A k \in 1 .. n : Append(s, x)[k] = s[k]
           /\ SubSeq(Append(s, x), 1, n) = SubSeq(s, 1, n)
<1>1. \A k \in 1 .. n : Append(s, x)[k] = s[k]
  OBVIOUS
<1>2. n <= Len(s) /\ n <= Len(Append(s, x)) /\ n \in Nat
  OBVIOUS
<1> QED BY <1>1, <1>2

(* The lines of one step of the pump.                                      *)
LEMMA LinesPut ==
    ASSUME NEW lines \in Seq(Lines), sent \in Seq(Lines), Put(lines)
    PROVE  /\ sent' \in Seq(Lines) /\ Len(sent) <= Len(sent')
           /\ HasDone' <=> HasDone \/ \E k \in 1 .. Len(lines) : lines[k] = "done"
<1>1. /\ sent' \in Seq(Lines) /\ Len(sent') = Len(sent) + Len(lines)
      /\ \A k \in 1 .. Len(sent) : sent'[k] = sent[k]
      /\ \A k \in 1 .. Len(lines) : sent'[Len(sent) + k] = lines[k]
  BY DEF Put
<1>2. Len(sent) \in Nat /\ Len(lines) \in Nat
  OBVIOUS
<1>3. ASSUME HasDone' PROVE HasDone \/ \E k \in 1 .. Len(lines) : lines[k] = "done"
  <2>1. PICK k \in 1 .. Len(sent') : sent'[k] = "done"
    BY <1>3 DEF HasDone
  <2>2. CASE k <= Len(sent)
    BY <1>1, <2>1, <2>2 DEF HasDone
  <2>3. CASE k > Len(sent)
    <3>1. k - Len(sent) \in 1 .. Len(lines) /\ Len(sent) + (k - Len(sent)) = k
      BY <1>1, <1>2, <2>3
    <3> QED BY <1>1, <2>1, <3>1
  <2> QED BY <1>2, <2>2, <2>3
<1>4. ASSUME HasDone PROVE HasDone'
  BY <1>1, <1>2, <1>4 DEF HasDone
<1>5. ASSUME NEW k \in 1 .. Len(lines), lines[k] = "done" PROVE HasDone'
  <2>1. Len(sent) + k \in 1 .. Len(sent') /\ sent'[Len(sent) + k] = "done"
    BY <1>1, <1>2, <1>5
  <2> QED BY <2>1 DEF HasDone
<1> QED BY <1>1, <1>2, <1>3, <1>4, <1>5

LEMMA ClosingLines ==
    /\ \A lines \in {<<>>, <<"line">>} :
           /\ lines \o <<"end">> \in Seq(Lines)
           /\ \A k \in 1 .. Len(lines \o <<"end">>) : (lines \o <<"end">>)[k] # "done"
    /\ <<"line", "done">> \o <<"end">> \in Seq(Lines)
    /\ \E k \in 1 .. Len(<<"line", "done">> \o <<"end">>) :
           (<<"line", "done">> \o <<"end">>)[k] = "done"
    /\ <<"line">> \in Seq(Lines) /\ \A k \in 1 .. Len(<<"line">>) : <<"line">>[k] # "done"
    /\ <<"end">> \in Seq(Lines) /\ \A k \in 1 .. Len(<<"end">>) : <<"end">>[k] # "done"
<1> USE DEF Lines
<1>1. <<"line">> \in Seq(Lines) /\ \A k \in 1 .. Len(<<"line">>) : <<"line">>[k] # "done"
  OBVIOUS
<1>2. <<"end">> \in Seq(Lines) /\ \A k \in 1 .. Len(<<"end">>) : <<"end">>[k] # "done"
  OBVIOUS
<1>3. /\ <<>> \o <<"end">> \in Seq(Lines)
      /\ \A k \in 1 .. Len(<<>> \o <<"end">>) : (<<>> \o <<"end">>)[k] # "done"
  OBVIOUS
<1>4. /\ <<"line">> \o <<"end">> \in Seq(Lines)
      /\ \A k \in 1 .. Len(<<"line">> \o <<"end">>) : (<<"line">> \o <<"end">>)[k] # "done"
  OBVIOUS
<1>5. ASSUME NEW lines \in {<<>>, <<"line">>}
      PROVE  /\ lines \o <<"end">> \in Seq(Lines)
             /\ \A k \in 1 .. Len(lines \o <<"end">>) : (lines \o <<"end">>)[k] # "done"
  <2>1. CASE lines = <<>>
    BY <2>1, <1>3
  <2>2. CASE lines = <<"line">>
    BY <2>2, <1>4
  <2> QED BY <2>1, <2>2
<1>6. /\ <<"line", "done">> \o <<"end">> \in Seq(Lines)
      /\ Len(<<"line", "done">> \o <<"end">>) = 3
      /\ (<<"line", "done">> \o <<"end">>)[2] = "done"
  OBVIOUS
<1>7. \E k \in 1 .. Len(<<"line", "done">> \o <<"end">>) :
         (<<"line", "done">> \o <<"end">>)[k] = "done"
  BY <1>6
<1> QED BY <1>1, <1>2, <1>5, <1>6, <1>7

-----------------------------------------------------------------------------
(* What a step of the council leaves alone.                                *)

LEMMA AnsweredStay ==
    ASSUME TypeOK, [Next]_vars
    PROVE  \A i \in Members : member[i] \in Answered => member'[i] = member[i]
<1> USE DEF TypeOK, Answered
<1>1. ASSUME NEW i \in Members, MemberStep(i)
      PROVE  \A j \in Members : member[j] \in Answered => member'[j] = member[j]
  BY <1>1, MemberStepFrame
<1>2. CASE StopMembers
  BY <1>2 DEF StopMembers
<1>3. CASE UNCHANGED member
  BY <1>3
<1>4. StrategyStep \/ CancelCollecting \/ CancelJudge => StopMembers \/ UNCHANGED member
  BY DEF StrategyStep, HandOver, ProcessCrash, GatherCrash, MembersRefused, StartCritique,
         JudgeFactoryFails, CritiqueSucceeds, CritiqueFails, JudgeAnswers, JudgeFails,
         JudgeCrashes, GatherCancelled, CancelCollecting, CancelJudge
<1> QED BY <1>1, <1>2, <1>3, <1>4 DEF Next, vars

(* Outcomes that were handed over stay as they were.                       *)
LEMMA HandedStay ==
    ASSUME TypeOK, CompletionOrder, [Next]_vars, UNCHANGED taken
    PROVE  /\ SuccessTaken' <=> SuccessTaken
           /\ SubSeq(finished', 1, taken') = SubSeq(finished, 1, taken)
<1>1. finished' = finished \/ \E i \in Members : finished' = Append(finished, i)
  <2>1. ASSUME NEW i \in Members, MemberStep(i)
        PROVE  finished' = finished \/ finished' = Append(finished, i)
    BY <2>1, MemberStepFrame
  <2>2. StrategyStep \/ CancelCollecting \/ CancelJudge => UNCHANGED finished
    BY DEF StrategyStep, HandOver, ProcessCrash, GatherCrash, MembersRefused, StartCritique,
           JudgeFactoryFails, CritiqueSucceeds, CritiqueFails, JudgeAnswers, JudgeFails,
           JudgeCrashes, GatherCancelled, CancelCollecting, CancelJudge
  <2> QED BY <2>1, <2>2 DEF Next, vars
<1>2. finished \in Seq(Members) /\ taken \in 0 .. Len(finished)
  BY DEF TypeOK
<1>3. /\ \A k \in 1 .. taken : finished'[k] = finished[k]
      /\ SubSeq(finished', 1, taken) = SubSeq(finished, 1, taken)
  BY <1>1, <1>2, PrefixKept
<1>4. \A k \in 1 .. taken : finished[k] \in Members /\ member[finished[k]] \in Answered
  BY <1>2 DEF CompletionOrder
<1>5. \A k \in 1 .. taken : member'[finished'[k]] = member[finished[k]]
  BY <1>3, <1>4, AnsweredStay
<1> QED BY <1>3, <1>5 DEF SuccessTaken

(* How the judge's calls advance.                                          *)
LEMMA JudgeHistoryStep ==
    ASSUME IInv, JudgeHistory, [Next]_vars
    PROVE  JudgeHistory'
<1> USE DEF JudgeHistory
<1>1. ASSUME NEW i \in Members, MemberStep(i) PROVE JudgeHistory'
  BY <1>1, MemberStepFrame DEF IInv
<1>2. CASE HandOver \/ ProcessCrash \/ GatherCrash \/ GatherCancelled \/ CancelCollecting
  BY <1>2 DEF HandOver, ProcessCrash, GatherCrash, GatherCancelled, CancelCollecting
<1>3. CASE MembersRefused \/ StartCritique \/ JudgeFactoryFails
  BY <1>3 DEF MembersRefused, StartCritique, JudgeFactoryFails, Collected
<1>4. CASE CritiqueSucceeds
  BY <1>4 DEF CritiqueSucceeds, FromJudge
<1>5. CASE CritiqueFails
  BY <1>5 DEF CritiqueFails
<1>6. ASSUME NEW what \in Intents, JudgeAnswers(what) PROVE JudgeHistory'
  <2>1. what # "none"
    BY ToolsAssumption DEF Intents
  <2> QED BY <1>6, <2>1 DEF JudgeAnswers
<1>7. CASE JudgeFails \/ JudgeCrashes \/ CancelJudge
  BY <1>7 DEF JudgeFails, JudgeCrashes, CancelJudge
<1>8. CASE UNCHANGED vars
  BY <1>8 DEF vars
<1> QED BY <1>1, <1>2, <1>3, <1>4, <1>5, <1>6, <1>7, <1>8 DEF Next, StrategyStep

-----------------------------------------------------------------------------
(* Initially                                                               *)
LEMMA RelayInitInv == RelayInit => RInv
<1> SUFFICES ASSUME RelayInit PROVE RInv
  OBVIOUS
<1>1. TypeOK /\ JudgeHistory
  BY InitInv DEF RelayInit, IInv, Init, JudgeHistory
<1>2. RelayTypeOK
  <2>1. sent \in Seq(Lines) /\ got \in 0 .. Len(sent) /\ calls \in Seq(Calls)
    BY DEF RelayInit
  <2>2. draft \in [rows : Seq(Calls), status : Terminal \cup {"none"}]
    BY DEF RelayInit, NoDraft
  <2> QED BY <1>1, <2>1, <2>2 DEF RelayInit, RelayTypeOK, OutcomeStatus
<1>3. PumpStory /\ HandlerStory
  BY DEF RelayInit, Init, PumpStory, HandlerStory, HasDone, SuccessTaken
<1>4. LogStory
  BY DEF RelayInit, LogStory
<1> QED BY <1>1, <1>2, <1>3, <1>4 DEF RInv

-----------------------------------------------------------------------------
(* The pump's steps.                                                       *)

(* While the pump has not ended, nothing is drafted or logged.             *)
LEMMA NothingLoggedYet ==
    ASSUME RInv, pump # "ended"
    PROVE  draft = NoDraft /\ trace = "pending" /\ handler \notin {"rejecting", "rejected", "raised"}
BY DEF RInv, LogStory, HandlerStory

(* What is left to show of a step of the pump, next to what it does to the *)
(* council, is its own story.                                              *)
LEMMA PumpStep ==
    ASSUME RInv, pump # "ended", TypeOK', JudgeHistory', UNCHANGED handlerVars,
           NEW lines \in Seq(Lines), Put(lines),
           pump' \in {"running", "cancelling", "ended"}, firstSuccess' \in BOOLEAN,
           stashed' \in {"none", "strategy", "adapter"}, outcome' \in OutcomeStatus,
           PumpStory',
           SuccessTaken => SuccessTaken' /\ stashed' = "none",
           pump = "cancelling" => pump' # "running" /\ outcome' = outcome
    PROVE  RInv'
<1> USE NothingLoggedYet DEF handlerVars, RInv
<1>1. RelayTypeOK'
  <2>1. sent' \in Seq(Lines) /\ Len(sent) <= Len(sent')
    BY LinesPut DEF RelayTypeOK
  <2>2. got' \in 0 .. Len(sent')
    BY <2>1 DEF RelayTypeOK
  <2> QED BY <2>1, <2>2 DEF RelayTypeOK
<1>2. HandlerStory'
  BY DEF HandlerStory, PumpStory, RelayTypeOK
<1>3. LogStory'
  BY DEF LogStory
<1> QED BY <1>1, <1>2, <1>3

(* The pump ends with an exception, or none, of the kinds that are caught. *)
LEMMA FailureStep ==
    ASSUME RInv, IInv, TypeOK', JudgeHistory', [Next]_vars, UNCHANGED taken,
           NEW lines \in {<<>>, <<"line">>}, End(lines),
           NEW kind \in {"strategy", "adapter", "foreign"}, Except(kind),
           pc' \in {"refused", "crashed", "planned"}, kind = "strategy" => pc' = "refused"
    PROVE  RInv'
<1>1. /\ pump = "running" /\ pump' = "ended" /\ UNCHANGED handlerVars
      /\ Put(lines \o <<"end">>)
  BY DEF End
<1>2. (lines \o <<"end">>) \in Seq(Lines) /\ (HasDone' <=> HasDone)
  BY <1>1, ClosingLines, LinesPut DEF RInv, RelayTypeOK
<1>3. SuccessTaken' <=> SuccessTaken
  BY HandedStay DEF IInv
<1>4. outcome = "client_cancelled" /\ stashed = "none" /\ ~HasDone /\ (firstSuccess <=> SuccessTaken)
  BY <1>1 DEF RInv, PumpStory
<1>5. /\ firstSuccess' \in BOOLEAN /\ stashed' \in {"none", "strategy", "adapter"}
      /\ outcome' \in {"client_cancelled", "failed"}
      /\ stashed' # "none" => firstSuccess' /\ ~firstSuccess /\ stashed' = kind
      /\ stashed' = "none" => firstSuccess' = firstSuccess
  BY <1>4 DEF Except, RInv, RelayTypeOK
<1>6. PumpStory'
  BY <1>1, <1>2, <1>3, <1>4, <1>5 DEF PumpStory, OverStates
<1> QED BY <1>1, <1>2, <1>3, <1>4, <1>5, <1>6, PumpStep DEF OutcomeStatus

(* The pump ends with a complete answer.                                   *)
LEMMA SuccessStep ==
    ASSUME RInv, IInv, TypeOK', JudgeHistory', [Next]_vars, UNCHANGED taken,
           Success, pc' \in {"answered", "planned"}
    PROVE  RInv'
<1>1. /\ pump = "running" /\ pump' = "ended" /\ UNCHANGED handlerVars
      /\ Put(<<"line", "done">> \o <<"end">>)
      /\ outcome' = "success" /\ UNCHANGED <<firstSuccess, stashed>>
  BY DEF Success, End
<1>2. (<<"line", "done">> \o <<"end">>) \in Seq(Lines) /\ HasDone'
  BY <1>1, ClosingLines, LinesPut DEF RInv, RelayTypeOK
<1>3. SuccessTaken' <=> SuccessTaken
  BY HandedStay DEF IInv
<1>4. stashed = "none" /\ (firstSuccess <=> SuccessTaken)
  BY <1>1 DEF RInv, PumpStory
<1>5. PumpStory'
  BY <1>1, <1>2, <1>3, <1>4 DEF PumpStory, OverStates
<1> QED BY <1>1, <1>2, <1>3, <1>4, <1>5, PumpStep DEF OutcomeStatus, RInv, RelayTypeOK

(* An event is turned into a line and the pump goes on.                    *)
LEMMA MemberEventStep ==
    ASSUME RInv, IInv, TypeOK', JudgeHistory', PumpMember
    PROVE  RInv'
<1>1. /\ pump = "running" /\ UNCHANGED <<pump, stashed, outcome>> /\ UNCHANGED handlerVars
      /\ Put(<<"line">>) /\ UNCHANGED <<member, finished, pc>> /\ taken' = taken + 1
      /\ pc = "members"
      /\ firstSuccess' = (firstSuccess \/ member[finished[taken + 1]] = "success")
  BY DEF PumpMember, HandOver, Continue
<1>2. <<"line">> \in Seq(Lines) /\ (HasDone' <=> HasDone)
  BY <1>1, ClosingLines, LinesPut DEF RInv, RelayTypeOK
<1>3. SuccessTaken' <=> SuccessTaken \/ member[finished[taken + 1]] = "success"
  BY <1>1 DEF SuccessTaken, IInv, TypeOK
<1>4. stashed = "none" /\ (firstSuccess <=> SuccessTaken) /\ firstSuccess' \in BOOLEAN
  BY <1>1 DEF RInv, PumpStory, RelayTypeOK
<1>5. firstSuccess' <=> SuccessTaken'
  BY <1>1, <1>3, <1>4
<1>6. PumpStory'
  BY <1>1, <1>2, <1>4, <1>5 DEF PumpStory, RInv
<1> QED BY <1>1, <1>2, <1>3, <1>4, <1>6, PumpStep DEF OutcomeStatus, RInv, RelayTypeOK

LEMMA CritiqueEventStep ==
    ASSUME RInv, IInv, TypeOK', JudgeHistory', [Next]_vars, PumpCritiqueEnds
    PROVE  RInv'
<1>1. /\ pump = "running" /\ UNCHANGED <<pump, stashed, outcome, firstSuccess>>
      /\ UNCHANGED handlerVars /\ Put(<<"line">>) /\ UNCHANGED taken
  BY DEF PumpCritiqueEnds, CritiqueSucceeds, Continue
<1>2. pc' \in {"planned", "judge"}
  BY DEF PumpCritiqueEnds, CritiqueSucceeds, RInv, JudgeHistory
<1>3. <<"line">> \in Seq(Lines) /\ (HasDone' <=> HasDone)
  BY <1>1, ClosingLines, LinesPut DEF RInv, RelayTypeOK
<1>4. SuccessTaken' <=> SuccessTaken
  BY <1>1, HandedStay DEF IInv
<1>5. stashed = "none" /\ ~HasDone /\ outcome = "client_cancelled"
  BY <1>1 DEF RInv, PumpStory
<1>6. PumpStory'
  BY <1>1, <1>2, <1>3, <1>4, <1>5 DEF PumpStory, RInv
<1> QED BY <1>1, <1>3, <1>4, <1>5, <1>6, PumpStep DEF OutcomeStatus, RInv, RelayTypeOK

LEMMA CancelledStep ==
    ASSUME RInv, IInv, TypeOK', JudgeHistory', [Next]_vars, PumpCancelled
    PROVE  RInv'
<1>1. /\ pump = "cancelling" /\ pump' = "ended" /\ UNCHANGED <<stashed, outcome, firstSuccess>>
      /\ UNCHANGED handlerVars /\ Put(<<"end">>)
  BY DEF PumpCancelled
<1>2. UNCHANGED taken /\ pc' \in {"cancelled", "planned"}
  BY DEF PumpCancelled, CancelCollecting, CancelJudge, vars, RInv, JudgeHistory
<1>3. <<"end">> \in Seq(Lines) /\ (HasDone' <=> HasDone)
  BY <1>1, ClosingLines, LinesPut DEF RInv, RelayTypeOK
<1>4. SuccessTaken' <=> SuccessTaken
  BY <1>2, HandedStay DEF IInv
<1>5. stashed = "none" /\ ~HasDone /\ outcome = "client_cancelled"
  BY <1>1 DEF RInv, PumpStory
<1>6. PumpStory'
  BY <1>1, <1>2, <1>3, <1>4, <1>5 DEF PumpStory, RInv, OverStates
<1> QED BY <1>1, <1>3, <1>4, <1>5, <1>6, PumpStep DEF OutcomeStatus, RInv, RelayTypeOK

(* StartCritique: nothing but the council moves.                           *)
LEMMA CritiqueStartStep ==
    ASSUME RInv, IInv, TypeOK', JudgeHistory', [Next]_vars, PumpCritique
    PROVE  RInv'
<1>1. /\ pump = "running" /\ UNCHANGED relayVars /\ pc' = "critique"
      /\ UNCHANGED <<member, finished, taken>>
  BY DEF PumpCritique, StartCritique
<1>2. SuccessTaken' <=> SuccessTaken
  BY <1>1 DEF SuccessTaken
<1>3. (HasDone' <=> HasDone) /\ RelayTypeOK'
  BY <1>1 DEF relayVars, HasDone, RInv, RelayTypeOK
<1>4. PumpStory'
  BY <1>1, <1>2, <1>3 DEF relayVars, RInv, PumpStory
<1>5. HandlerStory' /\ LogStory'
  BY <1>1, <1>2, NothingLoggedYet DEF relayVars, RInv, HandlerStory, LogStory
<1> QED BY <1>3, <1>4, <1>5 DEF RInv

LEMMA PumpInv ==
    ASSUME RInv, IInv, TypeOK', JudgeHistory', [Next]_vars, Pump
    PROVE  RInv'
<1>1. CASE PumpMember
  BY <1>1, MemberEventStep
<1>2. CASE PumpRefused
  <2>1. MembersRefused /\ End(<<>>) /\ Except("strategy")
    BY <1>2 DEF PumpRefused
  <2>2. pc' = "refused" /\ UNCHANGED taken
    BY <2>1 DEF MembersRefused
  <2> QED BY <2>1, <2>2, FailureStep
<1>3. CASE PumpCritique
  BY <1>3, CritiqueStartStep
<1>4. CASE PumpCritiqueEnds
  BY <1>4, CritiqueEventStep
<1>5. CASE PumpCritiqueFails
  <2>1. CritiqueFails /\ End(<<"line">>) /\ Except("strategy")
    BY <1>5 DEF PumpCritiqueFails
  <2>2. pc' = "refused" /\ UNCHANGED taken
    BY <2>1 DEF CritiqueFails, RInv, JudgeHistory
  <2> QED BY <2>1, <2>2, FailureStep
<1>6. CASE PumpCrash
  <2>1. PICK kind \in {"adapter", "foreign"} : End(<<>>) /\ Except(kind)
    BY <1>6 DEF PumpCrash
  <2>2. pc' = "crashed" /\ UNCHANGED taken
    BY <1>6 DEF PumpCrash, ProcessCrash, JudgeFactoryFails, JudgeCrashes
  <2> QED BY <2>1, <2>2, FailureStep
<1>7. CASE PumpResult
  <2>1. pc' = "answered" /\ UNCHANGED taken /\ Success
    BY <1>7 DEF PumpResult, JudgeAnswers, JudgeFails
  <2> QED BY <2>1, SuccessStep
<1>8. CASE PumpJudgeFails
  <2>1. JudgeFails /\ mode.strictJudge /\ End(<<>>) /\ Except("strategy")
    BY <1>8 DEF PumpJudgeFails
  <2>2. pc' = "refused" /\ UNCHANGED taken
    BY <2>1 DEF JudgeFails
  <2> QED BY <2>1, <2>2, FailureStep
<1>9. CASE PumpForward
  <2>1. pc' = "planned" /\ UNCHANGED taken
    BY <1>9 DEF PumpForward, vars
  <2>2. CASE Success
    BY <2>1, <2>2, SuccessStep
  <2>3. CASE End(<<>>) /\ \E kind \in {"adapter", "foreign"} : Except(kind)
    <3>1. PICK kind \in {"adapter", "foreign"} : Except(kind)
      BY <2>3
    <3> QED BY <2>1, <2>3, <3>1, FailureStep
  <2> QED BY <1>9, <2>2, <2>3 DEF PumpForward
<1>10. CASE PumpCancelled
  BY <1>10, CancelledStep
<1> QED BY <1>1, <1>2, <1>3, <1>4, <1>5, <1>6, <1>7, <1>8, <1>9, <1>10 DEF Pump

-----------------------------------------------------------------------------
(* The other steps.                                                        *)

(* What the log would say does not depend on the members still running.    *)
LEMMA MemberTaskInv ==
    ASSUME RInv, IInv, TypeOK', JudgeHistory', [Next]_vars, NEW i \in Members, MemberTask(i)
    PROVE  RInv'
<1>1. UNCHANGED relayVars /\ UNCHANGED <<mode, taken, critique, judge, pc, reply>>
  BY MemberStepFrame DEF MemberTask, IInv
<1>2. /\ SuccessTaken' <=> SuccessTaken
      /\ SubSeq(finished', 1, taken') = SubSeq(finished, 1, taken)
  BY <1>1, HandedStay DEF IInv
<1>3. RowsToLog' = RowsToLog /\ StatusToLog' = StatusToLog
  BY <1>1, <1>2 DEF RowsToLog, HandedOver, StatusToLog, relayVars
<1>4. RelayTypeOK'
  BY <1>1 DEF relayVars, RInv, RelayTypeOK
<1>5. PumpStory'
  BY <1>1, <1>2 DEF relayVars, RInv, PumpStory, HasDone
<1>6. HandlerStory' /\ LogStory'
  BY <1>1, <1>2, <1>3 DEF relayVars, RInv, HandlerStory, LogStory, ResponseOver
<1> QED BY <1>4, <1>5, <1>6 DEF RInv

(* Steps outside the council: what the rows are made of stays.             *)
LEMMA CouncilUnchanged ==
    ASSUME UNCHANGED vars
    PROVE  /\ SuccessTaken' <=> SuccessTaken
           /\ RowsToLog' = RowsToLog
           /\ UNCHANGED outcome => StatusToLog' = StatusToLog
           /\ TypeOK <=> TypeOK'
           /\ JudgeHistory <=> JudgeHistory'
BY DEF vars, SuccessTaken, RowsToLog, HandedOver, StatusToLog, TypeOK, JudgeHistory

LEMMA HandlerInv ==
    ASSUME RInv, HandlerWakes \/ HandlerRejects \/ HandlerCancelled
    PROVE  RInv'
<1>1. /\ UNCHANGED <<vars, detach, pump, firstSuccess, stashed, outcome, sent, got, draft>>
      /\ HasDone' <=> HasDone
  BY DEF HandlerWakes, HandlerRejects, HandlerCancelled, HasDone
<1>2. ~ResponseOver /\ draft = NoDraft
  BY DEF HandlerWakes, HandlerRejects, HandlerCancelled, RInv, HandlerStory, LogStory, ResponseOver
<1>3. PumpStory'
  BY <1>1, CouncilUnchanged DEF RInv, PumpStory, vars
<1>4. JudgeHistory' /\ TypeOK'
  BY <1>1, CouncilUnchanged DEF RInv, RelayTypeOK
<1>5. CASE HandlerWakes
  <2>1. HandlerStory'
    BY <1>1, <1>5, CouncilUnchanged DEF HandlerWakes, RInv, HandlerStory, PumpStory, RelayTypeOK, vars
  <2>2. LogStory'
    BY <1>1, <1>2, <1>5 DEF HandlerWakes, RInv, LogStory
  <2>3. RelayTypeOK'
    BY <1>1, <1>4, <1>5 DEF HandlerWakes, RInv, RelayTypeOK
  <2> QED BY <1>3, <1>4, <2>1, <2>2, <2>3 DEF RInv
<1>6. CASE HandlerRejects
  <2>1. HandlerStory'
    BY <1>1, <1>6, CouncilUnchanged DEF HandlerRejects, RInv, HandlerStory, vars
  <2>2. LogStory'
    BY <1>1, <1>2, <1>6 DEF HandlerRejects, RInv, LogStory, vars
  <2>3. reply.rows \in Seq(Calls)
    BY DEF RInv, RelayTypeOK, TypeOK
  <2>4. RelayTypeOK'
    BY <1>1, <1>4, <1>6, <2>3 DEF HandlerRejects, RInv, RelayTypeOK, Terminal, OutcomeStatus
  <2> QED BY <1>3, <1>4, <2>1, <2>2, <2>4 DEF RInv
<1>7. CASE HandlerCancelled
  <2>1. HandlerStory'
    BY <1>1, <1>7, CouncilUnchanged DEF HandlerCancelled, RInv, HandlerStory, vars
  <2>2. LogStory'
    BY <1>1, <1>2, <1>7 DEF HandlerCancelled, RInv, LogStory, HandlerStory
  <2>3. RelayTypeOK'
    BY <1>1, <1>4, <1>7 DEF HandlerCancelled, RInv, RelayTypeOK
  <2> QED BY <1>3, <1>4, <2>1, <2>2, <2>3 DEF RInv
<1> QED BY <1>5, <1>6, <1>7

LEMMA FerryInv ==
    ASSUME RInv, FerryTake \/ FerryDisconnect \/ FerryAbandon
    PROVE  RInv'
<1>1. /\ UNCHANGED <<vars, detach, handler, firstSuccess, stashed, sent, draft, trace, calls>>
      /\ ferry \in {"unstarted", "open"} /\ ferry' \in {"open", "drained", "closed", "abandoned"}
      /\ HasDone' <=> HasDone
  BY DEF FerryTake, FerryDisconnect, FerryAbandon, HasDone
<1>2. ~ResponseOver /\ draft = NoDraft /\ trace = "pending" /\ handler = "streaming"
  BY <1>1 DEF RInv, HandlerStory, LogStory, ResponseOver
<1>3. JudgeHistory' /\ TypeOK' /\ LogStory'
  BY <1>1, <1>2, CouncilUnchanged DEF RInv, RelayTypeOK, LogStory
<1>4. PumpStory'
  <2>1. CASE UNCHANGED <<pump, outcome>>
    BY <1>1, <2>1, CouncilUnchanged DEF RInv, PumpStory, vars
  <2>2. CASE /\ pump' = IF pump = "running" THEN "cancelling" ELSE pump
             /\ outcome' = "client_cancelled"
    BY <1>1, <2>2, CouncilUnchanged DEF RInv, PumpStory, vars
  <2> QED BY <2>1, <2>2 DEF FerryTake, FerryDisconnect, FerryAbandon
<1>5. HandlerStory'
  BY <1>1, <1>2, CouncilUnchanged
     DEF FerryTake, FerryDisconnect, FerryAbandon, RInv, HandlerStory, RelayTypeOK, vars
<1>6. RelayTypeOK'
  <2>1. got' \in 0 .. Len(sent')
    BY DEF FerryTake, FerryDisconnect, FerryAbandon, RInv, RelayTypeOK
  <2>2. pump' \in {"running", "cancelling", "ended"} /\ outcome' \in OutcomeStatus
    BY DEF FerryTake, FerryDisconnect, FerryAbandon, RInv, RelayTypeOK, OutcomeStatus
  <2> QED BY <1>1, <1>3, <2>1, <2>2 DEF RInv, RelayTypeOK
<1> QED BY <1>3, <1>4, <1>5, <1>6 DEF RInv

(* The rows of the log are calls.                                          *)
LEMMA RowsToLogType ==
    ASSUME RInv
    PROVE  RowsToLog \in Seq(Calls) /\ StatusToLog \in Terminal
<1>1. finished \in Seq(Calls) /\ taken \in 0 .. Len(finished)
  BY RowTypes DEF RInv, RelayTypeOK, TypeOK
<1>2. SubSeq(finished, 1, taken) \in Seq(Calls)
  BY <1>1
<1>3. HandedOver \in Seq(Calls)
  BY <1>2, RowTypes DEF HandedOver
<1>4. RowsToLog \in Seq(Calls)
  BY <1>3, RowTypes DEF RowsToLog
<1>5. StatusToLog \in Terminal
  BY DEF StatusToLog, Terminal, RInv, RelayTypeOK
<1> QED BY <1>4, <1>5

LEMMA PersistInv ==
    ASSUME RInv, PersistRecord \/ PersistFinish
    PROVE  RInv'
<1>1. /\ UNCHANGED <<vars, detach, handler, pump, firstSuccess, stashed, outcome, sent, got, ferry>>
      /\ HasDone' <=> HasDone
  BY DEF PersistRecord, PersistFinish, HasDone
<1>2. JudgeHistory' /\ TypeOK' /\ PumpStory' /\ HandlerStory'
  BY <1>1, CouncilUnchanged DEF RInv, RelayTypeOK, PumpStory, HandlerStory, vars
<1>3. RowsToLog' = RowsToLog /\ StatusToLog' = StatusToLog
  BY <1>1, CouncilUnchanged
<1>4. CASE PersistRecord
  <2>1. draft'.rows = RowsToLog /\ draft'.status = StatusToLog
    BY <1>4 DEF PersistRecord
  <2>2. draft' \in [rows : Seq(Calls), status : Terminal \cup {"none"}]
    BY <1>4, RowsToLogType DEF PersistRecord
  <2>3. trace = "pending" \/ handler = "rejected"
    BY <1>4 DEF PersistRecord, RInv, LogStory
  <2>4. LogStory'
    BY <1>1, <1>3, <1>4, <2>1, <2>3 DEF PersistRecord, RInv, LogStory, ResponseOver, vars
  <2>5. RelayTypeOK'
    BY <1>1, <1>2, <1>4, <2>2 DEF PersistRecord, RInv, RelayTypeOK
  <2> QED BY <1>2, <2>4, <2>5 DEF RInv
<1>5. CASE PersistFinish
  <2>1. draft.status \in Terminal /\ draft.rows \in Seq(Calls)
    BY <1>5, RowsToLogType DEF PersistFinish, RInv, LogStory
  <2>2. LogStory'
    BY <1>1, <1>3, <1>5 DEF PersistFinish, RInv, LogStory, ResponseOver
  <2>3. RelayTypeOK'
    BY <1>1, <1>2, <1>5, <2>1 DEF PersistFinish, RInv, RelayTypeOK
  <2> QED BY <1>2, <2>2, <2>3 DEF RInv
<1> QED BY <1>4, <1>5

(* The inductive invariant of the relay.                                   *)
THEOREM RelayInvariance == RelaySafety => [](RInv /\ IInv)
<1>1. RelayInit => RInv
  BY RelayInitInv
<1>2. RInv /\ IInv /\ IInv' /\ [RelayNext]_allVars => RInv'
  <2> SUFFICES ASSUME RInv, IInv, IInv', [RelayNext]_allVars PROVE RInv'
    OBVIOUS
  <2>1. [Next]_vars
    BY RelayStepIsCouncilStep DEF allVars
  <2>2. TypeOK' /\ JudgeHistory'
    BY <2>1, JudgeHistoryStep DEF IInv, RInv
  <2>3. ASSUME NEW i \in Members, MemberTask(i) PROVE RInv'
    BY <2>1, <2>2, <2>3, MemberTaskInv
  <2>4. CASE Pump
    BY <2>1, <2>2, <2>4, PumpInv
  <2>5. CASE Handler \/ HandlerCancelled
    BY <2>5, HandlerInv DEF Handler
  <2>6. CASE FerryTake \/ FerryDisconnect \/ FerryAbandon
    BY <2>6, FerryInv
  <2>7. CASE Persist
    BY <2>7, PersistInv DEF Persist
  <2>8. CASE UNCHANGED allVars
    <3>1. UNCHANGED vars /\ UNCHANGED relayVars /\ UNCHANGED outcome
      BY <2>8 DEF allVars, relayVars
    <3>2. /\ (SuccessTaken' <=> SuccessTaken) /\ (HasDone' <=> HasDone)
          /\ RowsToLog' = RowsToLog /\ StatusToLog' = StatusToLog
      BY <3>1, CouncilUnchanged DEF HasDone, relayVars
    <3>3. RelayTypeOK' /\ HandlerStory' /\ LogStory'
      BY <2>2, <3>1, <3>2 DEF RInv, RelayTypeOK, HandlerStory, LogStory, ResponseOver,
                             vars, relayVars
    <3>4. PumpStory'
      BY <3>1, <3>2 DEF RInv, PumpStory, vars, relayVars
    <3> QED BY <2>2, <3>3, <3>4 DEF RInv
  <2> QED BY <2>3, <2>4, <2>5, <2>6, <2>7, <2>8 DEF RelayNext, Client
<1> QED BY <1>1, <1>2, CouncilInvariants, PTL DEF RelaySafety

-----------------------------------------------------------------------------
(* The results                                                             *)

(* Every reachable state of the relay is well typed.                       *)
THEOREM RelayTypeCorrect == RelaySafety => []RelayTypeOK
<1>1. RInv => RelayTypeOK
  BY DEF RInv
<1> QED BY <1>1, RelayInvariance, PTL

(* The handler opens a response exactly when a member succeeded, and the   *)
(* logged status is what the client of an opened response could read.      *)
THEOREM StatusIsTold == RelaySafety => []StatusTellsTheStory
<1>1. RInv => StatusTellsTheStory
  <2> SUFFICES ASSUME RInv PROVE StatusTellsTheStory
    OBVIOUS
  <2> USE DEF RInv
  <2>1. DOMAIN sent = 1 .. Len(sent)
    BY DEF RelayTypeOK
  <2>2. handler = "streaming" => \E k \in 1 .. taken : member[finished[k]] = "success"
    BY DEF HandlerStory, SuccessTaken
  <2>3. handler \in {"rejected", "raised"} =>
           \A k \in 1 .. taken : member[finished[k]] # "success"
    BY DEF HandlerStory, SuccessTaken
  <2>4. ASSUME handler = "streaming", trace # "pending" PROVE trace = StatusToLog
    BY <2>4 DEF LogStory
  <2>5. ASSUME handler = "streaming", trace \in {"success", "degraded"}
        PROVE  /\ \E k \in DOMAIN sent : sent[k] = "done"
               /\ trace = "degraded" <=> reply.degraded
               /\ detach \/ ferry # "closed"
    <3>1. /\ trace = StatusToLog /\ outcome = "success"
          /\ (trace = "degraded" <=> pc = "answered" /\ reply.degraded)
      BY <2>4, <2>5 DEF StatusToLog, RelayTypeOK, OutcomeStatus
    <3>2. HasDone /\ pc \in {"answered", "planned"}
      BY <3>1 DEF PumpStory
    <3>3. trace = "degraded" <=> reply.degraded
      BY <3>1, <3>2 DEF JudgeHistory, RelayTypeOK, TypeOK
    <3>4. detach \/ ferry # "closed"
      BY <3>1 DEF HandlerStory
    <3> QED BY <2>1, <3>2, <3>3, <3>4 DEF HasDone
  <2>6. ASSUME handler = "streaming", trace = "failed"
        PROVE  \A k \in DOMAIN sent : sent[k] # "done"
    <3>1. outcome = "failed"
      BY <2>4, <2>6 DEF StatusToLog
    <3> QED BY <2>1, <3>1 DEF PumpStory, HasDone
  <2> QED BY <2>2, <2>3, <2>5, <2>6 DEF StatusTellsTheStory
<1> QED BY <1>1, RelayInvariance, PTL

(* What the events, the plan and the final result hand over for the log is *)
(* each call once.                                                         *)
LEMMA RowsToLogOnce ==
    ASSUME RInv, IInv
    PROVE  LET handed == {finished[k] : k \in 1 .. taken}
               critic == IF critique \in {"success", "failed"} THEN {Critique} ELSE {}
               final  == IF pc \in {"planned", "answered"} THEN {Judge} ELSE {}
           IN  ExactlyOnce(RowsToLog, (handed \cup critic) \cup final)
<1> DEFINE handed == {finished[k] : k \in 1 .. taken}
           critic == IF critique \in {"success", "failed"} THEN {Critique} ELSE {}
           final  == IF pc \in {"planned", "answered"} THEN {Judge} ELSE {}
           members == SubSeq(finished, 1, taken)
<1>1. finished \in Seq(Members) /\ taken \in 0 .. Len(finished)
  BY DEF IInv, TypeOK
<1>2. /\ members \in Seq(Members) /\ DOMAIN members = 1 .. taken
      /\ \A k \in 1 .. taken : members[k] = finished[k]
  BY <1>1
<1>3. members \in Seq(Calls) /\ handed \subseteq Members
  BY <1>1, <1>2, RowTypes
<1>4. ExactlyOnce(members, handed)
  <2>1. \A j, k \in 1 .. taken : finished[j] = finished[k] => j = k
    BY <1>1 DEF IInv, CompletionOrder
  <2> HIDE DEF members
  <2>2. \A c \in handed : \E k \in DOMAIN members : members[k] = c
    BY <1>2
  <2>3. \A k \in DOMAIN members : members[k] \in handed
    BY <1>2
  <2>4. \A j, k \in DOMAIN members : members[j] = members[k] => j = k
    BY <1>2, <2>1
  <2> HIDE DEF handed
  <2> QED BY <2>2, <2>3, <2>4 DEF ExactlyOnce
<1> HIDE DEF members, handed
<1>5. HandedOver \in Seq(Calls) /\ ExactlyOnce(HandedOver, handed \cup critic)
  <2>1. CASE critique \in {"success", "failed"}
    <3>1. HandedOver = members \o <<Critique>> /\ critic = {Critique}
      BY <2>1 DEF HandedOver, members
    <3>2. Critique \notin handed
      BY <1>3, RowTypes
    <3> QED BY <1>3, <1>4, <3>1, <3>2, OneMore, RowTypes
  <2>2. CASE critique \notin {"success", "failed"}
    <3>1. HandedOver = members \o <<>> /\ critic = {}
      BY <2>2 DEF HandedOver, members
    <3>2. members \o <<>> = members
      BY <1>3
    <3> QED BY <1>3, <1>4, <3>1, <3>2
  <2> QED BY <2>1, <2>2
<1>6. Judge \notin handed \cup critic
  BY <1>3, RowTypes
<1>7. ExactlyOnce(RowsToLog, (handed \cup critic) \cup final)
  <2>1. CASE pc \in {"planned", "answered"}
    <3>1. RowsToLog = HandedOver \o <<Judge>> /\ final = {Judge}
      BY <2>1 DEF RowsToLog
    <3> QED BY <1>5, <1>6, <3>1, OneMore, RowTypes
  <2>2. CASE pc \notin {"planned", "answered"}
    <3>1. RowsToLog = HandedOver \o <<>> /\ final = {}
      BY <2>2 DEF RowsToLog
    <3>2. HandedOver \o <<>> = HandedOver
      BY <1>5
    <3> QED BY <1>5, <3>1, <3>2
  <2> QED BY <2>1, <2>2
<1> QED BY <1>7 DEF handed

(* No call of a process stream is logged twice or invented, and the calls  *)
(* of a finished run are all there, but for a judge that failed strictly.  *)
THEOREM CallsAreAllLogged == RelaySafety => []CallsAreLogged
<1>1. RInv /\ IInv => CallsAreLogged
  <2> SUFFICES ASSUME RInv, IInv, trace # "pending" PROVE CallsAreLogged
    BY DEF CallsAreLogged
  <2> USE DEF RInv
  <2>1. CASE handler = "rejected" /\ trace = "failed" /\ calls = reply.rows
    <3>1. pc = "refused" /\ Reported = calls /\ AllMade = Made
      BY <2>1 DEF HandlerStory, Reported, AllMade
    <3>2. ExactlyOnce(calls, AllMade)
      BY <3>1 DEF IInv, EveryCallReported
    <3> QED BY <3>2 DEF CallsAreLogged, ExactlyOnce
  <2>2. CASE draft # NoDraft /\ trace = draft.status /\ calls = draft.rows
    <3> DEFINE handed == {finished[k] : k \in 1 .. taken}
               critic == IF critique \in {"success", "failed"} THEN {Critique} ELSE {}
               final  == IF pc \in {"planned", "answered"} THEN {Judge} ELSE {}
               logged == (handed \cup critic) \cup final
    <3>1. calls = RowsToLog /\ trace = StatusToLog /\ pump = "ended"
      BY <2>2 DEF LogStory
    <3>2. ExactlyOnce(calls, logged)
      BY <3>1, RowsToLogOnce
    <3>3. handed \subseteq Made
      BY DEF IInv, TypeOK, CompletionOrder, Made
    <3>4. logged \subseteq AllMade
      <4>1. critic \subseteq Made
        BY DEF Made
      <4>2. final \subseteq AllMade
        BY DEF AllMade, Made, JudgeHistory
      <4> QED BY <3>3, <4>1, <4>2 DEF AllMade
    <3>5. ASSUME trace # "client_cancelled", pc # "crashed"
          PROVE  \A c \in AllMade : \/ c \in logged
                                    \/ c = Judge /\ judge = "failed" /\ mode.strictJudge
      <4>1. outcome \in {"success", "failed"}
        BY <3>1, <3>5 DEF StatusToLog, RelayTypeOK, OutcomeStatus
      <4>2. pc \in {"answered", "planned", "refused"}
        BY <3>5, <4>1 DEF PumpStory
      <4>3. AllAnswered
        BY <4>2 DEF IInv, Phases
      <4>4. Members \subseteq handed
        <5>1. taken = Len(finished)
          BY <4>3 DEF AllAnswered, JudgeHistory
        <5> QED BY <4>3, <5>1 DEF IInv, CompletionOrder, AllAnswered
      <4>5. critique # "none" => critique \in {"success", "failed"}
        BY <4>2 DEF JudgeHistory, IInv, TypeOK
      <4>6. ASSUME NEW c \in AllMade
            PROVE  c \in logged \/ (c = Judge /\ judge = "failed" /\ mode.strictJudge)
        <5>1. CASE c \in Members
          BY <4>4, <5>1
        <5>2. CASE c = Critique /\ critique # "none"
          BY <4>5, <5>2
        <5>3. CASE c = Judge /\ (judge # "none" \/ pc = "planned")
          BY <4>2, <5>3 DEF JudgeHistory
        <5> QED BY <4>6, <5>1, <5>2, <5>3 DEF AllMade, Made
      <4> QED BY <4>6
    <3> HIDE DEF logged
    <3> QED BY <3>2, <3>4, <3>5 DEF CallsAreLogged, ExactlyOnce
  <2> QED BY <2>1, <2>2 DEF LogStory
<1> QED BY <1>1, RelayInvariance, PTL

(* The log of a finished request tells its calls and its end.              *)
THEOREM LogIsTrue == RelaySafety => []LogTellsTheStory
BY StatusIsTold, CallsAreAllLogged, PTL DEF LogTellsTheStory

=============================================================================
