----------------------------- MODULE Ice_proofs -----------------------------
(***************************************************************************)
(* Proofs about Ice, for any number of members, any round limit, any scale *)
(* of confidence and any threshold.                                        *)
(***************************************************************************)
EXTENDS Ice, FiniteSetTheorems, WellFoundedInduction, TLAPS

-----------------------------------------------------------------------------
(* The inductive invariant.                                                *)

(* How often the log has the call of w in round k, ended well or not.      *)
Won(r, w, k)  == r[[who |-> w, round |-> k, ok |-> TRUE]]
Lost(r, w, k) == r[[who |-> w, round |-> k, ok |-> FALSE]]

Reported(r, w, k) == Won(r, w, k) + Lost(r, w, k)

Running == pc \in {"members", "critique", "final"}

(* What is settled in each phase: one verdict a round and at most one      *)
(* confidence a verdict; a failed critique is the last one.                *)
Phases ==
    /\ pc \in {"members", "critique"} =>
           session = round /\ judge = "none" /\ critic # "failed"
    /\ pc = "final" =>
           /\ mode.driver = "run"
           /\ judge = "calling"
           /\ critic \in {"success", "failed"}
           /\ session = IF critic = "failed" THEN round ELSE round + 1
           /\ mode.strictJudge => critic # "failed"
    /\ Running => Len(conf) <= session

(* Somebody answered in round 0, everybody if the members are judged       *)
(* strictly.                                                               *)
RoundZeroHeld ==
    /\ pc = "members" /\ round = 0 => \A i \in Members : answer[i] = -1
    /\ pc \in {"critique", "final"} \/ (pc = "members" /\ round > 0) =>
           /\ \E i \in Members : answer[i] >= 0
           /\ mode.strictMembers => \A i \in Members : answer[i] >= 0

(* What the generator handed over in this round are outcomes of members    *)
(* that were asked.                                                        *)
TakenHaveEnded ==
    /\ pc = "members" =>
           \A i \in taken : i \in Participants /\ call[i] \in {"success", "failed"}
    /\ mode.driver # "process" => taken = {}

(* The log in the middle of a run: each member once in every round it was  *)
(* asked in, this round's as far as they were handed over; each critique   *)
(* once; no final call.                                                    *)
LogSoFar ==
    Running =>
        /\ \A i \in Members, k \in Rounds :
               Reported(rows, i, k) =
                   IF pc = "members" /\ k = round
                   THEN (IF i \in taken THEN 1 ELSE 0)
                   ELSE (IF k <= round /\ (k = 0 \/ answer[i] >= 0) THEN 1 ELSE 0)
        /\ \A k \in Rounds :
               /\ Won(rows, Critic, k) = (IF k < session THEN 1 ELSE 0)
               /\ Lost(rows, Critic, k) =
                      (IF pc = "final" /\ critic = "failed" /\ k = round THEN 1 ELSE 0)
        /\ \A k \in Rounds : Reported(rows, Judge, k) = 0

(* The answer kept of a member is that of its last success before round m. *)
LatestBefore(i, m) ==
    /\ m > 0 => (answer[i] >= 0 <=> Won(rows, i, 0) > 0)
    /\ answer[i] >= 0 => answer[i] < m /\ Won(rows, i, answer[i]) > 0
    /\ \A k \in Rounds : k < m /\ Won(rows, i, k) > 0 => k <= answer[i]
    /\ \A k \in Rounds : k > round => Won(rows, i, k) = 0

AnswersSoFar ==
    /\ pc = "members" =>
           \A i \in Members :
               /\ LatestBefore(i, round)
               /\ Won(rows, i, round) > 0 <=> (i \in taken /\ call[i] = "success")
    /\ pc \in {"critique", "final", "answered", "planned"} =>
           \A i \in Members : LatestBefore(i, round + 1)

(* What EveryCallReported says, call by call.                              *)
CritiquesDue(k) ==
    IF ~(k < session \/ (critic = "failed" /\ k = round)) THEN 0
    ELSE IF mode.driver = "run" /\ pc = "refused"
         THEN (IF critic = "failed" /\ k = round THEN 2 ELSE IF judge = "failed" THEN 0 ELSE 1)
         ELSE 1

Reports ==
    /\ pc \in {"answered", "planned", "refused"} =>
           \A k \in Rounds :
               /\ \A i \in Members :
                      Reported(reply.rows, i, k) =
                          IF k <= round /\ (k = 0 \/ answer[i] >= 0) THEN 1 ELSE 0
               /\ Reported(reply.rows, Critic, k) = CritiquesDue(k)
               /\ Reported(reply.rows, Judge, k) =
                      IF judge \in {"success", "failed"} /\ k = round THEN 1 ELSE 0
    /\ pc \in {"crashed", "cancelled"} =>
           \A k \in Rounds :
               /\ \A i \in Members :
                      /\ Reported(reply.rows, i, k) <=
                             IF k <= round /\ (k = 0 \/ answer[i] >= 0) THEN 1 ELSE 0
                      /\ mode.driver # "run" /\ k < round /\ (k = 0 \/ answer[i] >= 0) =>
                             Reported(reply.rows, i, k) = 1
               /\ Reported(reply.rows, Critic, k) <=
                      IF k < session \/ (critic = "failed" /\ k = round) THEN 1 ELSE 0
               /\ mode.driver # "run" /\ k < round => Reported(reply.rows, Critic, k) = 1
               /\ Reported(reply.rows, Judge, k) = 0

IInv ==
    /\ TypeOK /\ Phases /\ RoundZeroHeld /\ TakenHaveEnded /\ LogSoFar /\ AnswersSoFar
    /\ RoundsAreJustified /\ DegradedTellsTheTruth /\ Reports

-----------------------------------------------------------------------------
(* Lemmas about the data.                                                  *)

(* Members, arbiter and final call are told apart.                         *)
LEMMA Roles ==
    /\ NumMembers \in Nat /\ MaxRounds \in Nat /\ MaxRounds >= 1
    /\ Members \subseteq 1 .. NumMembers + 2
    /\ Critic \in 1 .. NumMembers + 2 /\ Judge \in 1 .. NumMembers + 2
    /\ Critic \notin Members /\ Judge \notin Members /\ Critic # Judge
    /\ \A w \in 1 .. NumMembers + 2 : w \in Members \/ w = Critic \/ w = Judge
    /\ \A k \in Rounds : k \in Nat /\ k < MaxRounds
    /\ 0 \in Rounds
BY MembersAssumption, RoundsAssumption DEF Members, Critic, Judge, Rounds

(* Logging adds one to each entry that is new.                             *)
LEMMA LogAdds ==
    ASSUME NEW r \in [Entries -> Nat], NEW new \in SUBSET Entries
    PROVE  /\ Log(r, new) \in [Entries -> Nat]
           /\ \A e \in Entries :
                  r[e] \in Nat /\ Log(r, new)[e] = r[e] + (IF e \in new THEN 1 ELSE 0)
BY DEF Log

LEMMA Counts ==
    ASSUME NEW r \in [Entries -> Nat], NEW w \in 1 .. NumMembers + 2, NEW k \in Rounds
    PROVE  Won(r, w, k) \in Nat /\ Lost(r, w, k) \in Nat
BY DEF Won, Lost, Entries

LEMMA NoRowsFacts ==
    /\ NoRows \in [Entries -> Nat]
    /\ \A w \in 1 .. NumMembers + 2, k \in Rounds : Reported(NoRows, w, k) = 0
BY DEF NoRows, Reported, Won, Lost, Entries

(* One call is logged.                                                     *)
LEMMA LogOne ==
    ASSUME NEW r \in [Entries -> Nat], round \in Rounds,
           NEW w \in 1 .. NumMembers + 2, NEW b \in BOOLEAN
    PROVE  /\ Log(r, {Entry(w, b)}) \in [Entries -> Nat]
           /\ \A v \in 1 .. NumMembers + 2, k \in Rounds :
                  /\ Won(Log(r, {Entry(w, b)}), v, k) =
                         Won(r, v, k) + (IF v = w /\ k = round /\ b THEN 1 ELSE 0)
                  /\ Lost(Log(r, {Entry(w, b)}), v, k) =
                         Lost(r, v, k) + (IF v = w /\ k = round /\ ~b THEN 1 ELSE 0)
<1>1. {Entry(w, b)} \in SUBSET Entries
  BY DEF Entry, Entries
<1>2. /\ Log(r, {Entry(w, b)}) \in [Entries -> Nat]
      /\ \A e \in Entries :
             Log(r, {Entry(w, b)})[e] = r[e] + (IF e \in {Entry(w, b)} THEN 1 ELSE 0)
  BY <1>1, LogAdds
<1>3. ASSUME NEW v \in 1 .. NumMembers + 2, NEW k \in Rounds
      PROVE  /\ Won(Log(r, {Entry(w, b)}), v, k) =
                    Won(r, v, k) + (IF v = w /\ k = round /\ b THEN 1 ELSE 0)
             /\ Lost(Log(r, {Entry(w, b)}), v, k) =
                    Lost(r, v, k) + (IF v = w /\ k = round /\ ~b THEN 1 ELSE 0)
  <2>1. /\ [who |-> v, round |-> k, ok |-> TRUE] \in Entries
        /\ [who |-> v, round |-> k, ok |-> FALSE] \in Entries
    BY DEF Entries
  <2>2. [who |-> v, round |-> k, ok |-> TRUE] \in {Entry(w, b)} <=> (v = w /\ k = round /\ b)
    BY DEF Entry
  <2>3. [who |-> v, round |-> k, ok |-> FALSE] \in {Entry(w, b)} <=> (v = w /\ k = round /\ ~b)
    BY DEF Entry
  <2> QED BY <1>2, <2>1, <2>2, <2>3 DEF Won, Lost
<1> QED
  BY <1>2, <1>3

(* A whole round of the members is logged.                                 *)
LEMMA LogRound ==
    ASSUME TypeOK, Collected
    PROVE  /\ RowsOfRound \in [Entries -> Nat]
           /\ mode.driver = "process" => RowsOfRound = rows
           /\ mode.driver # "process" =>
                  \A v \in 1 .. NumMembers + 2, k \in Rounds :
                      /\ Won(RowsOfRound, v, k) =
                             Won(rows, v, k)
                             + (IF v \in Participants /\ k = round /\ call[v] = "success"
                                THEN 1 ELSE 0)
                      /\ Lost(RowsOfRound, v, k) =
                             Lost(rows, v, k)
                             + (IF v \in Participants /\ k = round /\ call[v] # "success"
                                THEN 1 ELSE 0)
<1> DEFINE new == {Entry(i, call[i] = "success") : i \in Participants}
<1>1. rows \in [Entries -> Nat] /\ round \in Rounds
  BY DEF TypeOK
<1>2. Participants \subseteq 1 .. NumMembers + 2
  BY Roles DEF Participants
<1>3. new \in SUBSET Entries
  <2>1. ASSUME NEW i \in Participants PROVE Entry(i, call[i] = "success") \in Entries
    <3>1. (call[i] = "success") \in BOOLEAN
      OBVIOUS
    <3> QED BY <1>1, <1>2, <3>1 DEF Entry, Entries
  <2> QED BY <2>1
<1>4. /\ Log(rows, new) \in [Entries -> Nat]
      /\ \A e \in Entries : Log(rows, new)[e] = rows[e] + (IF e \in new THEN 1 ELSE 0)
  <2> HIDE DEF new
  <2> QED BY <1>1, <1>3, LogAdds
<1>5. ASSUME NEW v \in 1 .. NumMembers + 2, NEW k \in Rounds
      PROVE  /\ Won(Log(rows, new), v, k) =
                    Won(rows, v, k)
                    + (IF v \in Participants /\ k = round /\ call[v] = "success"
                       THEN 1 ELSE 0)
             /\ Lost(Log(rows, new), v, k) =
                    Lost(rows, v, k)
                    + (IF v \in Participants /\ k = round /\ call[v] # "success"
                       THEN 1 ELSE 0)
  <2>1. /\ [who |-> v, round |-> k, ok |-> TRUE] \in Entries
        /\ [who |-> v, round |-> k, ok |-> FALSE] \in Entries
    BY DEF Entries
  <2>2. [who |-> v, round |-> k, ok |-> TRUE] \in new
            <=> (v \in Participants /\ k = round /\ call[v] = "success")
    BY DEF Entry
  <2>3. [who |-> v, round |-> k, ok |-> FALSE] \in new
            <=> (v \in Participants /\ k = round /\ call[v] # "success")
    BY DEF Entry
  <2> HIDE DEF new
  <2> QED BY <1>4, <2>1, <2>2, <2>3 DEF Won, Lost
<1>6. RowsOfRound = IF mode.driver = "process" THEN rows ELSE Log(rows, new)
  BY DEF RowsOfRound
<1> HIDE DEF new
<1>7. CASE mode.driver = "process"
  BY <1>1, <1>6, <1>7
<1>8. CASE mode.driver # "process"
  <2>1. RowsOfRound = Log(rows, new)
    BY <1>6, <1>8
  <2> QED BY <1>4, <1>5, <1>8, <2>1
<1> QED
  BY <1>7, <1>8

(* Only the members' outcomes.                                             *)
LEMMA MemberRowsFacts ==
    ASSUME rows \in [Entries -> Nat]
    PROVE  /\ MemberRows \in [Entries -> Nat]
           /\ \A v \in 1 .. NumMembers + 2, k \in Rounds :
                  Reported(MemberRows, v, k) = IF v \in Members THEN Reported(rows, v, k) ELSE 0
<1>1. ASSUME NEW w \in 1 .. NumMembers + 2, NEW k \in Rounds
      PROVE  /\ [who |-> w, round |-> k, ok |-> TRUE] \in Entries
             /\ [who |-> w, round |-> k, ok |-> FALSE] \in Entries
  BY DEF Entries
<1> QED
  BY <1>1 DEF MemberRows, Reported, Won, Lost

(* The calls that were made, one by one.                                   *)
LEMMA MadeCases ==
    ASSUME TypeOK, NEW w \in 1 .. NumMembers + 2, NEW k \in Rounds
    PROVE  <<w, k>> \in Made <=>
               \/ w \in Members /\ (k = 0 \/ (answer[w] >= 0 /\ k <= round))
               \/ w = Critic /\ (k < session \/ (critic = "failed" /\ k = round))
               \/ w = Judge /\ judge \in {"success", "failed"} /\ k = round
<1> DEFINE First  == {<<i, 0>> : i \in Members}
           Later  == {<<i, j>> : i \in {n \in Members : answer[n] >= 0}, j \in 1 .. round}
           Judged == {<<Critic, j>> : j \in 0 .. session - 1}
           Broken == IF critic = "failed" THEN {<<Critic, round>>} ELSE {}
           Final  == IF judge \in {"success", "failed"} THEN {<<Judge, round>>} ELSE {}
<1>1. /\ round \in Nat /\ session \in Nat /\ k \in Nat
  BY Roles DEF TypeOK
<1>2. <<w, k>> \in First <=> (w \in Members /\ k = 0)
  OBVIOUS
<1>3. <<w, k>> \in Later <=> (w \in Members /\ answer[w] >= 0 /\ k \in 1 .. round)
  OBVIOUS
<1>4. <<w, k>> \in Judged <=> (w = Critic /\ k < session)
  BY <1>1
<1>5. <<w, k>> \in Broken <=> (w = Critic /\ critic = "failed" /\ k = round)
  OBVIOUS
<1>6. <<w, k>> \in Final <=> (w = Judge /\ judge \in {"success", "failed"} /\ k = round)
  OBVIOUS
<1>7. Made = First \cup Later \cup Judged \cup Broken \cup Final
  BY DEF Made
<1> HIDE DEF First, Later, Judged, Broken, Final
<1> QED
  BY <1>1, <1>2, <1>3, <1>4, <1>5, <1>6, <1>7

(* A set of natural numbers that is not empty has a least element.         *)
LEMMA LeastExists ==
    ASSUME NEW S \in SUBSET Nat, S # {}
    PROVE  \E x \in S : \A y \in S : x <= y
<1> DEFINE R == StrictSubsetOrdering(Nat)
           T == {0 .. x : x \in S}
<1>1. IsWellFoundedOn(R, FiniteSubsetsOf(Nat))
  BY FS_StrictSubsetOrderingWellFounded
<1>2. T \subseteq FiniteSubsetsOf(Nat) /\ T # {}
  <2>1. ASSUME NEW x \in S PROVE 0 .. x \in FiniteSubsetsOf(Nat)
    <3>1. IsFiniteSet(0 .. x)
      BY FS_Interval
    <3>2. 0 .. x \in SUBSET Nat
      OBVIOUS
    <3> QED BY <3>1, <3>2 DEF FiniteSubsetsOf
  <2> QED BY <2>1
<1>3. PICK X \in T : \A Y \in T : ~ (<<Y, X>> \in R)
  <2> HIDE DEF R, T
  <2> QED BY <1>1, <1>2, WFMin, Zenon
<1>4. PICK x \in S : X = 0 .. x
  BY <1>3
<1>5. ASSUME NEW y \in S, y < x PROVE FALSE
  <2>1. 0 .. y \in SUBSET Nat /\ 0 .. x \in SUBSET Nat
    OBVIOUS
  <2>2. 0 .. y \subseteq 0 .. x /\ x \in 0 .. x /\ x \notin 0 .. y
    BY <1>5
  <2>3. <<0 .. y, 0 .. x>> \in R
    BY <2>1, <2>2 DEF StrictSubsetOrdering
  <2> QED BY <1>3, <1>4, <2>3
<1>6. \A y \in S : x <= y
  BY <1>5
<1> QED
  BY <1>6

(* ok[0] is the answer of a member that has one.                           *)
LEMMA FirstAnswerExists ==
    ASSUME TypeOK, \E i \in Members : answer[i] >= 0
    PROVE  FirstAnswer \in Members /\ answer[FirstAnswer] >= 0
<1> DEFINE S == {i \in Members : answer[i] >= 0}
<1>1. S \in SUBSET Nat /\ S # {}
  BY Roles DEF Members
<1>2. PICK x \in S : \A y \in S : x <= y
  <2> HIDE DEF S
  <2> QED BY <1>1, LeastExists
<1>3. x \in Members /\ answer[x] >= 0 /\ \A j \in Members : answer[j] >= 0 => x <= j
  BY <1>2
<1> QED
  BY <1>3 DEF FirstAnswer

-----------------------------------------------------------------------------
(* Types.                                                                  *)

Replies == [author : 0 .. NumMembers + 2, degraded : BOOLEAN, rows : [Entries -> Nat]]

LEMMA ReplyTypes ==
    /\ \A r \in [Entries -> Nat] : NoAnswer(r) \in Replies
    /\ \A a \in 0 .. NumMembers + 2, d \in BOOLEAN, r \in [Entries -> Nat] :
           [author |-> a, degraded |-> d, rows |-> r] \in Replies
<1>1. 0 \in 0 .. NumMembers + 2 /\ FALSE \in BOOLEAN
  BY Roles
<1>2. \A a \in 0 .. NumMembers + 2, d \in BOOLEAN, r \in [Entries -> Nat] :
          [author |-> a, degraded |-> d, rows |-> r] \in Replies
  BY Zenon DEF Replies
<1> QED
  BY <1>1, <1>2, Zenon DEF NoAnswer

LEMMA SeqElement ==
    ASSUME NEW S, NEW q \in Seq(S), NEW k \in 1 .. Len(q) PROVE q[k] \in S
OBVIOUS

(* A verdict is logged by its confidence, if it could be parsed.           *)
LEMMA ConfidenceGrows ==
    ASSUME NEW c \in Seq(0 .. Levels), NEW v \in Verdicts, NEW d,
           d = IF v.parsed THEN Append(c, v.confidence) ELSE c
    PROVE  /\ d \in Seq(0 .. Levels)
           /\ Len(d) <= Len(c) + 1
           /\ Rising(c) /\ ~(Len(d) >= 2 /\ d[Len(d)] <= d[Len(d) - 1]) => Rising(d)
           /\ Len(d) >= 2 /\ d[Len(d)] <= d[Len(d) - 1] => ~Rising(d)
<1>1. v.confidence \in 0 .. Levels
  <2>1. CASE v = NoVerdict
    BY <2>1, ThresholdAssumption DEF NoVerdict
  <2>2. CASE v \in [consensus : BOOLEAN, confidence : 0 .. Levels, parsed : {TRUE}]
    BY <2>2
  <2> QED BY <2>1, <2>2 DEF Verdicts
<1>2. d \in Seq(0 .. Levels) /\ Len(d) <= Len(c) + 1
  <2>1. CASE v.parsed
    BY <1>1, <2>1
  <2>2. CASE ~v.parsed
    BY <2>2
  <2> QED BY <2>1, <2>2
<1> Levels \in Nat
  BY ThresholdAssumption
<1>3. ASSUME Rising(c), ~(Len(d) >= 2 /\ d[Len(d)] <= d[Len(d) - 1]),
             NEW k \in 1 .. Len(d) - 1
      PROVE  d[k] < d[k + 1]
  <2>1. CASE ~v.parsed
    BY <1>3, <2>1 DEF Rising
  <2>2. CASE v.parsed
    <3>1. Len(d) = Len(c) + 1 /\ \A j \in 1 .. Len(c) : d[j] = c[j]
      BY <1>1, <2>2
    <3>2. CASE k = Len(c)
      <4>1. Len(d) >= 2 /\ Len(d) - 1 = k /\ Len(d) = k + 1
        BY <1>3, <3>1, <3>2
      <4>2. d[k] \in 0 .. Levels /\ d[k + 1] \in 0 .. Levels
        <5>1. k \in 1 .. Len(d) /\ k + 1 \in 1 .. Len(d)
          BY <1>2, <4>1
        <5> QED BY <1>2, <5>1, SeqElement
      <4>3. ~(d[k + 1] <= d[k])
        BY <1>3, <4>1
      <4> QED BY <4>2, <4>3
    <3>3. CASE k < Len(c)
      BY <1>3, <3>1, <3>3 DEF Rising
    <3> QED BY <3>1, <3>2, <3>3
  <2> QED BY <1>1, <2>1, <2>2
<1>4. ASSUME Len(d) >= 2, d[Len(d)] <= d[Len(d) - 1] PROVE ~Rising(d)
  <2>1. Len(d) - 1 \in 1 .. Len(d) - 1 /\ (Len(d) - 1) + 1 = Len(d)
    BY <1>2, <1>4
  <2>2. d[Len(d)] \in Int /\ d[Len(d) - 1] \in Int
    <3>1. Len(d) \in 1 .. Len(d) /\ Len(d) - 1 \in 1 .. Len(d)
      BY <1>2, <1>4
    <3>2. d[Len(d)] \in 0 .. Levels /\ d[Len(d) - 1] \in 0 .. Levels
      BY <1>2, <3>1, SeqElement
    <3>3. \A x \in 0 .. Levels : x \in Int
      OBVIOUS
    <3> QED BY <3>2, <3>3
  <2>3. ~(d[Len(d) - 1] < d[Len(d)])
    BY <1>4, <2>2
  <2> QED BY <2>1, <2>3 DEF Rising
<1> QED
  BY <1>2, <1>3, <1>4 DEF Rising

LEMMA TypeStep == IInv /\ [Next]_vars => TypeOK'
<1> SUFFICES ASSUME IInv, [Next]_vars PROVE TypeOK'
  OBVIOUS
<1>0. TypeOK
  BY DEF IInv
<1>1. ASSUME NEW i \in Members, MemberEnds(i) PROVE TypeOK'
  BY <1>0, <1>1 DEF MemberEnds, TypeOK
<1>2. ASSUME NEW i \in Members, HandOver(i) PROVE TypeOK'
  <2>1. rows' \in [Entries -> Nat]
    <3>1. (call[i] = "success") \in BOOLEAN
      OBVIOUS
    <3>2. i \in 1 .. NumMembers + 2 /\ rows \in [Entries -> Nat] /\ round \in Rounds
      BY <1>0, Roles DEF TypeOK
    <3> QED BY <1>2, <3>1, <3>2, LogOne DEF HandOver
  <2> QED BY <1>0, <1>2, <2>1 DEF HandOver, TypeOK
<1>3. CASE MembersRefused
  <2>1. RowsOfRound \in [Entries -> Nat]
    BY <1>0, <1>3, LogRound DEF MembersRefused
  <2>2. reply' \in Replies
    BY <1>3, <2>1, ReplyTypes DEF MembersRefused
  <2> QED BY <1>0, <1>3, <2>2 DEF MembersRefused, TypeOK, Replies, OverStates
<1>4. CASE StartCritique
  <2>1. rows' \in [Entries -> Nat]
    BY <1>0, <1>4, LogRound DEF StartCritique
  <2>2. answer' \in [Members -> -1 .. MaxRounds - 1]
    BY <1>0, <1>4 DEF StartCritique, AnswersKept, TypeOK, Rounds
  <2> QED BY <1>0, <1>4, <2>1, <2>2 DEF StartCritique, TypeOK
<1>5. CASE CritiqueSucceeds
  <2>1. rows' \in [Entries -> Nat]
    BY <1>0, <1>5, Roles, LogOne DEF CritiqueSucceeds, TypeOK
  <2>2. verdict' \in Verdicts /\ conf' \in Seq(0 .. Levels)
    BY <1>0, <1>5, ConfidenceGrows DEF CritiqueSucceeds, TypeOK
  <2>3. session = round
    BY <1>5 DEF IInv, Phases, CritiqueSucceeds
  <2>4. session' \in 0 .. MaxRounds
    BY <1>0, <1>5, <2>3, Roles DEF CritiqueSucceeds, TypeOK, Rounds
  <2>5. CASE ShouldFinish(verdict', round, conf') /\ Conclude
    <3>1. reply' \in Replies
      <4>1. CASE mode.driver = "run"
        BY <1>0, <2>5, <4>1 DEF Conclude, TypeOK, Replies
      <4>2. CASE mode.driver # "run"
        <5>1. reply' = [author |-> Judge, degraded |-> FALSE, rows |-> rows']
          BY <2>5, <4>2 DEF Conclude
        <5>2. Judge \in 0 .. NumMembers + 2 /\ FALSE \in BOOLEAN
          BY Roles
        <5> QED BY <2>1, <5>1, <5>2, ReplyTypes
      <4> QED BY <4>1, <4>2
    <3> QED BY <1>0, <1>5, <2>1, <2>2, <2>4, <2>5, <3>1
            DEF CritiqueSucceeds, Conclude, TypeOK, Replies, OverStates
  <2>6. CASE ~ShouldFinish(verdict', round, conf') /\ Refine
    <3>1. round' \in Rounds
      BY <1>0, <2>6, Roles DEF ShouldFinish, Refine, TypeOK, Rounds
    <3> QED BY <1>0, <1>5, <2>1, <2>2, <2>4, <2>6, <3>1 DEF CritiqueSucceeds, Refine, TypeOK
  <2> QED BY <1>5, <2>5, <2>6 DEF CritiqueSucceeds
<1>6. CASE CritiqueFails
  <2>1. rows' \in [Entries -> Nat]
    BY <1>0, <1>6, Roles, LogOne DEF CritiqueFails, TypeOK
  <2>2. Log(rows', {Entry(Critic, FALSE)}) \in [Entries -> Nat]
    BY <1>0, <2>1, Roles, LogOne DEF TypeOK
  <2>3. FirstAnswer \in 0 .. NumMembers + 2
    <3>1. \E i \in Members : answer[i] >= 0
      BY <1>6 DEF IInv, RoundZeroHeld, CritiqueFails
    <3>2. FirstAnswer \in 1 .. NumMembers + 2
      BY <1>0, <3>1, Roles, FirstAnswerExists
    <3> QED BY <3>2, Roles
  <2>4. reply' \in Replies
    <3>1. /\ Judge \in 0 .. NumMembers + 2 /\ FALSE \in BOOLEAN /\ TRUE \in BOOLEAN
          /\ reply \in Replies
      BY <1>0, Roles DEF TypeOK, Replies
    <3>2. \/ reply' = Fallback(rows')
          \/ reply' = NoAnswer(Log(rows', {Entry(Critic, FALSE)}))
          \/ reply' = NoAnswer(rows')
          \/ Conclude
      BY <1>6, Zenon DEF CritiqueFails
    <3>3. Conclude => \/ reply' = reply
                      \/ reply' = [author |-> Judge, degraded |-> FALSE, rows |-> rows']
      BY DEF Conclude
    <3> QED BY <2>1, <2>2, <2>3, <3>1, <3>2, <3>3, ReplyTypes DEF Fallback
  <2>5. /\ pc' \in {"members", "critique", "final"} \cup OverStates
        /\ judge' \in {"none", "calling", "success", "failed"}
    BY <1>0, <1>6 DEF CritiqueFails, Conclude, OverStates, TypeOK
  <2>6. UNCHANGED <<mode, round, call, taken, answer, verdict, conf, session>> /\ critic' = "failed"
    BY <1>6 DEF CritiqueFails, Conclude
  <2> QED BY <1>0, <2>1, <2>4, <2>5, <2>6 DEF TypeOK, Replies
<1>7. CASE JudgeAnswers
  <2>1. reply' \in Replies
    <3>1. Log(rows, {Entry(Judge, TRUE)}) \in [Entries -> Nat]
      BY <1>0, Roles, LogOne DEF TypeOK
    <3>2. (critic = "failed") \in BOOLEAN /\ Judge \in 0 .. NumMembers + 2
      BY Roles
    <3> QED BY <1>7, <3>1, <3>2, ReplyTypes DEF JudgeAnswers
  <2> QED BY <1>0, <1>7, <2>1 DEF JudgeAnswers, TypeOK, Replies, OverStates
<1>8. CASE JudgeFails
  <2>1. FirstAnswer \in 0 .. NumMembers + 2
    <3>1. \E i \in Members : answer[i] >= 0
      BY <1>8 DEF IInv, RoundZeroHeld, JudgeFails
    <3>2. FirstAnswer \in 1 .. NumMembers + 2
      BY <1>0, <3>1, Roles, FirstAnswerExists
    <3> QED BY <3>2, Roles
  <2>2. /\ Log(MemberRows, {Entry(Judge, FALSE)}) \in [Entries -> Nat]
        /\ Log(rows, {Entry(Judge, FALSE)}) \in [Entries -> Nat]
    BY <1>0, Roles, LogOne, MemberRowsFacts DEF TypeOK
  <2>3. reply' \in Replies
    BY <1>8, <2>1, <2>2, ReplyTypes DEF JudgeFails, Fallback
  <2> QED BY <1>0, <1>8, <2>3 DEF JudgeFails, TypeOK, Replies, OverStates
<1>9. ASSUME NEW as \in {"crashed", "cancelled"}, GiveUp(as) PROVE TypeOK'
  <2>1. reply' \in Replies
    BY <1>0, <1>9, ReplyTypes, NoRowsFacts DEF GiveUp, RowsSeen, TypeOK
  <2> QED BY <1>0, <1>9, <2>1 DEF GiveUp, TypeOK, Replies, OverStates
<1>10. CASE UNCHANGED vars
  BY <1>0, <1>10 DEF vars, TypeOK
<1> QED
  BY <1>1, <1>2, <1>3, <1>4, <1>5, <1>6, <1>7, <1>8, <1>9, <1>10
  DEF Next, StrategyStep, Crash, Cancelled

-----------------------------------------------------------------------------
(* The loop.                                                               *)

(* A finished run does nothing more.                                       *)
LEMMA OverIsOver ==
    ASSUME Next PROVE Running
BY DEF Next, StrategyStep, MemberEnds, HandOver, MembersRefused, StartCritique, Collected,
       CritiqueSucceeds, CritiqueFails, JudgeAnswers, JudgeFails, Crash, Cancelled, Running

(* After round 0 somebody has an answer, or the members' failures end it.  *)
LEMMA SomebodyAnswered ==
    ASSUME TypeOK, RoundZeroHeld, Collected, round = 0 => ~TooManyFailures
    PROVE  /\ \E i \in Members : AnswersKept[i] >= 0
           /\ mode.strictMembers => \A i \in Members : AnswersKept[i] >= 0
<1>1. pc = "members" /\ round \in Nat
  BY Roles DEF Collected, TypeOK
<1>2. CASE round = 0
  <2>1. \A i \in Members : call[i] = "success" => AnswersKept[i] = 0
    BY <1>2 DEF AnswersKept, Participants
  <2>2. /\ \E i \in Members : call[i] = "success"
        /\ mode.strictMembers => \A i \in Members : call[i] = "success"
    BY <1>2 DEF TooManyFailures
  <2> QED BY <2>1, <2>2
<1>3. CASE round > 0
  <2>1. \A i \in Members : answer[i] >= 0 => AnswersKept[i] >= 0
    BY <1>1, <1>3 DEF AnswersKept
  <2>2. /\ \E i \in Members : answer[i] >= 0
        /\ mode.strictMembers => \A i \in Members : answer[i] >= 0
    BY <1>1, <1>3 DEF RoundZeroHeld
  <2> QED BY <2>1, <2>2
<1> QED
  BY <1>1, <1>2, <1>3

LEMMA LoopStep ==
    IInv /\ [Next]_vars => Phases' /\ RoundZeroHeld' /\ TakenHaveEnded' /\ RoundsAreJustified'
<1> SUFFICES ASSUME IInv, [Next]_vars
             PROVE  Phases' /\ RoundZeroHeld' /\ TakenHaveEnded' /\ RoundsAreJustified'
  OBVIOUS
<1>0. TypeOK /\ Phases /\ RoundZeroHeld /\ TakenHaveEnded /\ RoundsAreJustified
  BY DEF IInv
<1>t. /\ round \in Nat /\ session \in Nat /\ Len(conf) \in Nat
      /\ answer \in [Members -> -1 .. MaxRounds - 1]
      /\ conf \in Seq(0 .. Levels) /\ MaxRounds \in Nat
  BY <1>0, Roles DEF TypeOK
<1> USE DEF Running
<1>1. ASSUME NEW i \in Members, MemberEnds(i)
      PROVE  Phases' /\ RoundZeroHeld' /\ TakenHaveEnded' /\ RoundsAreJustified'
  <2>1. UNCHANGED <<mode, pc, round, taken, answer, verdict, conf, session, critic, judge>>
    BY <1>1 DEF MemberEnds
  <2>2. Phases' /\ RoundZeroHeld' /\ RoundsAreJustified'
    BY <1>0, <2>1 DEF Phases, RoundZeroHeld, RoundsAreJustified, Agreed
  <2>3. TakenHaveEnded'
    <3>1. \A j \in Members : call'[j] = call[j] \/ call[j] = "calling"
      BY <1>0, <1>1 DEF MemberEnds, TypeOK
    <3>2. taken \subseteq Members /\ Participants' = Participants
      BY <1>0, <2>1 DEF TypeOK, Participants
    <3> QED BY <1>0, <2>1, <3>1, <3>2 DEF TakenHaveEnded
  <2> QED BY <2>2, <2>3
<1>2. ASSUME NEW i \in Members, HandOver(i)
      PROVE  Phases' /\ RoundZeroHeld' /\ TakenHaveEnded' /\ RoundsAreJustified'
  <2>1. UNCHANGED <<mode, pc, round, call, answer, verdict, conf, session, critic, judge>>
    BY <1>2 DEF HandOver
  <2>2. Phases' /\ RoundZeroHeld' /\ RoundsAreJustified'
    BY <1>0, <2>1 DEF Phases, RoundZeroHeld, RoundsAreJustified, Agreed
  <2>3. TakenHaveEnded'
    <3>1. Participants' = Participants
      BY <2>1 DEF Participants
    <3> QED BY <1>0, <1>2, <2>1, <3>1 DEF TakenHaveEnded, HandOver
  <2> QED BY <2>2, <2>3
<1>3. CASE MembersRefused
  BY <1>0, <1>3 DEF MembersRefused, Phases, RoundZeroHeld, TakenHaveEnded, RoundsAreJustified
<1>4. CASE StartCritique
  <2>1. /\ pc = "members" /\ pc' = "critique" /\ critic' = "calling" /\ answer' = AnswersKept
        /\ UNCHANGED <<mode, round, call, taken, verdict, conf, session, judge>>
    BY <1>4 DEF StartCritique, Collected
  <2>2. Phases' /\ TakenHaveEnded' /\ RoundsAreJustified'
    BY <1>0, <2>1 DEF Phases, TakenHaveEnded, RoundsAreJustified, Agreed
  <2>3. RoundZeroHeld'
    BY <1>0, <1>4, <2>1, SomebodyAnswered DEF StartCritique, RoundZeroHeld
  <2> QED BY <2>2, <2>3
<1>5. CASE CritiqueSucceeds
  <2>1. /\ pc = "critique" /\ critic' = "success" /\ session' = session + 1
        /\ session = round /\ judge = "none" /\ Len(conf) <= session
        /\ UNCHANGED <<mode, answer>>
    BY <1>0, <1>5 DEF CritiqueSucceeds, Phases
  <2>2. /\ Len(conf') <= Len(conf) + 1 /\ Len(conf') \in Nat
        /\ Rising(conf) /\ ~(Len(conf') >= 2 /\ conf'[Len(conf')] <= conf'[Len(conf') - 1])
               => Rising(conf')
        /\ Len(conf') >= 2 /\ conf'[Len(conf')] <= conf'[Len(conf') - 1] => ~Rising(conf')
    <3>1. /\ verdict' \in Verdicts
          /\ conf' = IF verdict'.parsed THEN Append(conf, verdict'.confidence) ELSE conf
      BY <1>5 DEF CritiqueSucceeds
    <3>2. conf \in Seq(0 .. Levels)
      BY <1>t
    <3> HIDE DEF Running
    <3>3. /\ conf' \in Seq(0 .. Levels)
          /\ Len(conf') <= Len(conf) + 1
          /\ Rising(conf) /\ ~(Len(conf') >= 2 /\ conf'[Len(conf')] <= conf'[Len(conf') - 1])
                 => Rising(conf')
          /\ Len(conf') >= 2 /\ conf'[Len(conf')] <= conf'[Len(conf') - 1] => ~Rising(conf')
      BY <3>1, <3>2, ConfidenceGrows, Zenon
    <3>4. Len(conf') \in Nat
      BY <3>3
    <3> QED BY <3>3, <3>4, Zenon
  <2>3. mode.stagnation => Rising(conf)
    BY <1>0, <2>1 DEF RoundsAreJustified
  <2>4. CASE ShouldFinish(verdict', round, conf') /\ Conclude
    <3>1. /\ \/ pc' = "final" /\ judge' = "calling" /\ mode.driver = "run"
             \/ pc' = "planned"
          /\ round' = round
      BY <2>4 DEF Conclude
    <3>2. Phases' /\ RoundZeroHeld'
      BY <1>0, <1>t, <2>1, <2>2, <3>1 DEF Phases, RoundZeroHeld
    <3>5. TakenHaveEnded'
      BY <1>0, <2>1, <2>4, <3>1 DEF TakenHaveEnded, Conclude
    <3>3. Agreed' \/ round' = MaxRounds - 1 \/ (mode.stagnation /\ ~Rising(conf'))
      BY <1>0, <1>t, <2>2, <2>4, <3>1, Roles DEF ShouldFinish, Agreed, TypeOK
    <3>4. RoundsAreJustified'
      BY <1>t, <2>1, <2>2, <3>1, <3>3 DEF RoundsAreJustified
    <3> QED BY <3>2, <3>4, <3>5
  <2>5. CASE ~ShouldFinish(verdict', round, conf') /\ Refine
    <3>1. pc' = "members" /\ round' = round + 1 /\ taken' = {} /\ judge' = judge
      BY <2>5 DEF Refine
    <3>2. Phases' /\ RoundZeroHeld' /\ TakenHaveEnded'
      BY <1>0, <1>t, <2>1, <2>2, <3>1 DEF Phases, RoundZeroHeld, TakenHaveEnded
    <3>3. ~Agreed' /\ (mode.stagnation => Rising(conf'))
      BY <2>2, <2>3, <2>5 DEF ShouldFinish, Agreed
    <3>4. RoundsAreJustified'
      BY <1>t, <2>1, <2>2, <3>1, <3>3 DEF RoundsAreJustified
    <3> QED BY <3>2, <3>4
  <2> QED BY <1>5, <2>4, <2>5 DEF CritiqueSucceeds
<1>6. CASE CritiqueFails
  <2>1. /\ pc = "critique" /\ critic' = "failed"
        /\ session = round /\ judge = "none" /\ Len(conf) <= session
        /\ UNCHANGED <<mode, round, answer, verdict, conf, session>>
    BY <1>0, <1>6 DEF CritiqueFails, Conclude, Phases
  <2>2. \/ pc' \in {"answered", "refused"}
        \/ pc' = "final" /\ judge' = "calling" /\ mode.driver = "run" /\ ~mode.strictJudge
        \/ pc' = "planned"
    BY <1>6 DEF CritiqueFails, Conclude
  <2>3. Phases' /\ RoundZeroHeld'
    BY <1>0, <1>t, <2>1, <2>2 DEF Phases, RoundZeroHeld
  <2>5. TakenHaveEnded'
    <3>1. taken' = taken
      BY <1>6 DEF CritiqueFails, Conclude
    <3> QED BY <1>0, <2>1, <2>2, <3>1 DEF TakenHaveEnded
  <2>4. RoundsAreJustified'
    BY <1>0, <1>t, <2>1, <2>2 DEF RoundsAreJustified
  <2> QED BY <2>3, <2>4, <2>5
<1>7. CASE JudgeAnswers
  BY <1>0, <1>7 DEF JudgeAnswers, Phases, RoundZeroHeld, TakenHaveEnded, RoundsAreJustified
<1>8. CASE JudgeFails
  BY <1>0, <1>8 DEF JudgeFails, Phases, RoundZeroHeld, TakenHaveEnded, RoundsAreJustified
<1>9. ASSUME NEW as \in {"crashed", "cancelled"}, GiveUp(as)
      PROVE  Phases' /\ RoundZeroHeld' /\ TakenHaveEnded' /\ RoundsAreJustified'
  BY <1>0, <1>9 DEF GiveUp, Phases, RoundZeroHeld, TakenHaveEnded, RoundsAreJustified
<1>10. CASE UNCHANGED vars
  BY <1>0, <1>10
  DEF vars, Phases, RoundZeroHeld, TakenHaveEnded, Participants, RoundsAreJustified, Agreed
<1> QED
  BY <1>1, <1>2, <1>3, <1>4, <1>5, <1>6, <1>7, <1>8, <1>9, <1>10
  DEF Next, StrategyStep, Crash, Cancelled

-----------------------------------------------------------------------------
(* The log.                                                                *)

(* A collected round is logged as a whole, and nothing else is.            *)
LEMMA RoundLogged ==
    ASSUME IInv, Collected
    PROVE  /\ \A i \in Members, k \in Rounds :
                  /\ Reported(RowsOfRound, i, k) =
                         IF k <= round /\ (k = 0 \/ AnswersKept[i] >= 0) THEN 1 ELSE 0
                  /\ k # round => Won(RowsOfRound, i, k) = Won(rows, i, k)
                  /\ Won(RowsOfRound, i, round) > 0
                         <=> (i \in Participants /\ call[i] = "success")
           /\ \A w \in {Critic, Judge}, k \in Rounds :
                  /\ Won(RowsOfRound, w, k) = Won(rows, w, k)
                  /\ Lost(RowsOfRound, w, k) = Lost(rows, w, k)
<1>0. /\ TypeOK /\ pc = "members" /\ RoundZeroHeld /\ TakenHaveEnded /\ LogSoFar /\ AnswersSoFar
      /\ round \in Rounds /\ round \in Nat /\ rows \in [Entries -> Nat]
  BY Roles DEF IInv, Collected, TypeOK
<1>1. mode.driver # "process" =>
          \A v \in 1 .. NumMembers + 2, k \in Rounds :
              /\ Won(RowsOfRound, v, k) =
                     Won(rows, v, k)
                     + (IF v \in Participants /\ k = round /\ call[v] = "success"
                        THEN 1 ELSE 0)
              /\ Lost(RowsOfRound, v, k) =
                     Lost(rows, v, k)
                     + (IF v \in Participants /\ k = round /\ call[v] # "success"
                        THEN 1 ELSE 0)
  BY <1>0, LogRound
<1>p. mode.driver = "process" => RowsOfRound = rows
  BY <1>0, LogRound
<1>2. ASSUME NEW i \in Members, NEW k \in Rounds
      PROVE  /\ Won(RowsOfRound, i, k) + Lost(RowsOfRound, i, k) =
                    IF k <= round /\ (k = 0 \/ AnswersKept[i] >= 0) THEN 1 ELSE 0
             /\ k # round => Won(RowsOfRound, i, k) = Won(rows, i, k)
             /\ k = round => (Won(RowsOfRound, i, k) > 0
                                  <=> (i \in Participants /\ call[i] = "success"))
  <2>1. i \in 1 .. NumMembers + 2 /\ k \in Nat
    BY Roles
  <2>2. Won(rows, i, k) \in Nat /\ Lost(rows, i, k) \in Nat
    BY <1>0, <2>1, Counts
  <2>3. Won(rows, i, k) + Lost(rows, i, k) =
            IF k = round THEN (IF i \in taken THEN 1 ELSE 0)
            ELSE (IF k <= round /\ (k = 0 \/ answer[i] >= 0) THEN 1 ELSE 0)
    BY <1>0 DEF LogSoFar, Running, Reported
  <2>4. k = round => (Won(rows, i, k) > 0 <=> (i \in taken /\ call[i] = "success"))
    BY <1>0 DEF AnswersSoFar
  <2>5. i \in Participants <=> (round = 0 \/ answer[i] >= 0)
    BY DEF Participants
  <2>6. /\ answer[i] \in Int
        /\ AnswersKept[i] = IF i \in Participants /\ call[i] = "success" THEN round ELSE answer[i]
    BY <1>0 DEF TypeOK, AnswersKept
  <2>7. round > 0 => (AnswersKept[i] >= 0 <=> answer[i] >= 0)
    BY <1>0, <2>5, <2>6
  <2>8. (k = 0 \/ AnswersKept[i] >= 0) /\ k = round <=> i \in Participants /\ k = round
    BY <1>0, <2>1, <2>5, <2>7
  <2>9. CASE mode.driver = "process"
    <3>1. RowsOfRound = rows /\ (i \in taken <=> i \in Participants)
      BY <1>0, <1>p, <2>9 DEF Collected
    <3>2. CASE k = round /\ i \in Participants
      <4>1. k <= round /\ (k = 0 \/ AnswersKept[i] >= 0)
        BY <1>0, <2>1, <2>8, <3>2
      <4> QED BY <2>2, <2>3, <2>4, <3>1, <3>2, <4>1
    <3>3. CASE k = round /\ i \notin Participants
      <4>1. ~(k = 0 \/ AnswersKept[i] >= 0)
        BY <2>8, <3>3
      <4> QED BY <2>2, <2>3, <2>4, <3>1, <3>3, <4>1
    <3>4. CASE k # round
      <4>1. k <= round => round > 0
        BY <1>0, <2>1, <3>4
      <4>2. Won(RowsOfRound, i, k) = Won(rows, i, k) /\ Lost(RowsOfRound, i, k) = Lost(rows, i, k)
        BY <2>2, <3>1, <3>4
      <4> QED BY <2>3, <2>7, <3>4, <4>1, <4>2
    <3> QED BY <3>2, <3>3, <3>4
  <2>10. CASE mode.driver # "process"
    <3>1. /\ i \notin taken
          /\ Won(RowsOfRound, i, k) =
                 Won(rows, i, k)
                 + (IF i \in Participants /\ k = round /\ call[i] = "success" THEN 1 ELSE 0)
          /\ Lost(RowsOfRound, i, k) =
                 Lost(rows, i, k)
                 + (IF i \in Participants /\ k = round /\ call[i] # "success" THEN 1 ELSE 0)
      BY <1>0, <1>1, <2>1, <2>10 DEF TakenHaveEnded
    <3>2. CASE k = round /\ i \in Participants
      <4>1. k <= round /\ (k = 0 \/ AnswersKept[i] >= 0)
        BY <1>0, <2>1, <2>8, <3>2
      <4> QED BY <2>2, <2>3, <2>4, <3>1, <3>2, <4>1
    <3>3. CASE k = round /\ i \notin Participants
      <4>1. ~(k = 0 \/ AnswersKept[i] >= 0)
        BY <2>8, <3>3
      <4> QED BY <2>2, <2>3, <2>4, <3>1, <3>3, <4>1
    <3>4. CASE k # round
      <4>1. k <= round => round > 0
        BY <1>0, <2>1, <3>4
      <4>2. Won(RowsOfRound, i, k) = Won(rows, i, k) /\ Lost(RowsOfRound, i, k) = Lost(rows, i, k)
        BY <2>2, <3>1, <3>4
      <4> QED BY <2>3, <2>7, <3>4, <4>1, <4>2
    <3> QED BY <3>2, <3>3, <3>4
  <2> QED BY <2>9, <2>10
<1>3. ASSUME NEW w \in {Critic, Judge}, NEW k \in Rounds
      PROVE  Won(RowsOfRound, w, k) = Won(rows, w, k) /\ Lost(RowsOfRound, w, k) = Lost(rows, w, k)
  <2>1. w \in 1 .. NumMembers + 2 /\ w \notin Participants
    BY Roles DEF Participants
  <2>2. Won(rows, w, k) \in Nat /\ Lost(rows, w, k) \in Nat
    BY <1>0, <2>1, Counts
  <2> QED BY <1>1, <1>p, <2>1, <2>2
<1> QED
  BY <1>0, <1>2, <1>3 DEF Reported

(* Logging a call of the arbiter leaves the members' rows alone.           *)
LEMMA SuccessLogged ==
    ASSUME TypeOK, NEW w \in {Critic, Judge}, NEW new, new = Log(rows, {Entry(w, TRUE)})
    PROVE  /\ \A i \in Members, k \in Rounds :
                  Reported(new, i, k) = Reported(rows, i, k) /\ Won(new, i, k) = Won(rows, i, k)
           /\ \A v \in {Critic, Judge}, k \in Rounds :
                  /\ Won(rows, v, k) \in Nat /\ Lost(rows, v, k) \in Nat
                  /\ v = w /\ k = round => Won(new, v, k) = Won(rows, v, k) + 1
                  /\ ~(v = w /\ k = round) => Won(new, v, k) = Won(rows, v, k)
                  /\ Lost(new, v, k) = Lost(rows, v, k)
<1> DEFINE one == {Entry(w, TRUE)}
<1>1. rows \in [Entries -> Nat] /\ round \in Rounds /\ w \in 1 .. NumMembers + 2
  BY Roles DEF TypeOK
<1>2. one \in SUBSET Entries
  BY <1>1 DEF Entry, Entries
<1>3. \A e \in Entries : new[e] = rows[e] + (IF e \in one THEN 1 ELSE 0)
  <2>1. new = Log(rows, one)
    OBVIOUS
  <2> HIDE DEF one
  <2> QED BY <1>1, <1>2, <2>1, LogAdds
<1>4. ASSUME NEW v \in 1 .. NumMembers + 2, NEW k \in Rounds
      PROVE  /\ Won(rows, v, k) \in Nat /\ Lost(rows, v, k) \in Nat
             /\ v = w /\ k = round => Won(new, v, k) = Won(rows, v, k) + 1
             /\ ~(v = w /\ k = round) => Won(new, v, k) = Won(rows, v, k)
             /\ Lost(new, v, k) = Lost(rows, v, k)
  <2>1. /\ [who |-> v, round |-> k, ok |-> TRUE] \in Entries
        /\ [who |-> v, round |-> k, ok |-> FALSE] \in Entries
    BY DEF Entries
  <2>2. [who |-> v, round |-> k, ok |-> TRUE] \in one <=> (v = w /\ k = round)
    BY DEF Entry
  <2>3. [who |-> v, round |-> k, ok |-> FALSE] \notin one
    BY DEF Entry
  <2>4. Won(rows, v, k) \in Nat /\ Lost(rows, v, k) \in Nat
    BY <1>1, Counts
  <2> HIDE DEF one
  <2>5. Won(new, v, k) = Won(rows, v, k) + (IF v = w /\ k = round THEN 1 ELSE 0)
    BY <1>3, <2>1, <2>2 DEF Won, Lost
  <2>6. Lost(new, v, k) = Lost(rows, v, k) + 0
    BY <1>3, <2>1, <2>3 DEF Won, Lost
  <2> QED BY <2>4, <2>5, <2>6
<1>5. /\ \A i \in Members : i \in 1 .. NumMembers + 2 /\ i # w
      /\ \A v \in {Critic, Judge} : v \in 1 .. NumMembers + 2
  BY Roles
<1> QED
  BY <1>4, <1>5 DEF Reported

(* The same for a call that failed.                                        *)
LEMMA FailureLogged ==
    ASSUME TypeOK, NEW w \in {Critic, Judge}, NEW new, new = Log(rows, {Entry(w, FALSE)})
    PROVE  /\ \A i \in Members, k \in Rounds :
                  Reported(new, i, k) = Reported(rows, i, k) /\ Won(new, i, k) = Won(rows, i, k)
           /\ \A v \in {Critic, Judge}, k \in Rounds :
                  /\ Won(rows, v, k) \in Nat /\ Lost(rows, v, k) \in Nat
                  /\ v = w /\ k = round => Lost(new, v, k) = Lost(rows, v, k) + 1
                  /\ ~(v = w /\ k = round) => Lost(new, v, k) = Lost(rows, v, k)
                  /\ Won(new, v, k) = Won(rows, v, k)
<1> DEFINE one == {Entry(w, FALSE)}
<1>1. rows \in [Entries -> Nat] /\ round \in Rounds /\ w \in 1 .. NumMembers + 2
  BY Roles DEF TypeOK
<1>2. one \in SUBSET Entries
  BY <1>1 DEF Entry, Entries
<1>3. \A e \in Entries : new[e] = rows[e] + (IF e \in one THEN 1 ELSE 0)
  <2>1. new = Log(rows, one)
    OBVIOUS
  <2> HIDE DEF one
  <2> QED BY <1>1, <1>2, <2>1, LogAdds
<1>4. ASSUME NEW v \in 1 .. NumMembers + 2, NEW k \in Rounds
      PROVE  /\ Won(rows, v, k) \in Nat /\ Lost(rows, v, k) \in Nat
             /\ v = w /\ k = round => Lost(new, v, k) = Lost(rows, v, k) + 1
             /\ ~(v = w /\ k = round) => Lost(new, v, k) = Lost(rows, v, k)
             /\ Won(new, v, k) = Won(rows, v, k)
  <2>1. /\ [who |-> v, round |-> k, ok |-> TRUE] \in Entries
        /\ [who |-> v, round |-> k, ok |-> FALSE] \in Entries
    BY DEF Entries
  <2>2. [who |-> v, round |-> k, ok |-> FALSE] \in one <=> (v = w /\ k = round)
    BY DEF Entry
  <2>3. [who |-> v, round |-> k, ok |-> TRUE] \notin one
    BY DEF Entry
  <2>4. Won(rows, v, k) \in Nat /\ Lost(rows, v, k) \in Nat
    BY <1>1, Counts
  <2> HIDE DEF one
  <2>5. Lost(new, v, k) = Lost(rows, v, k) + (IF v = w /\ k = round THEN 1 ELSE 0)
    BY <1>3, <2>1, <2>2 DEF Won, Lost
  <2>6. Won(new, v, k) = Won(rows, v, k) + 0
    BY <1>3, <2>1, <2>3 DEF Won, Lost
  <2> QED BY <2>4, <2>5, <2>6
<1>5. /\ \A i \in Members : i \in 1 .. NumMembers + 2 /\ i # w
      /\ \A v \in {Critic, Judge} : v \in 1 .. NumMembers + 2
  BY Roles
<1> QED
  BY <1>4, <1>5 DEF Reported

(* One member's outcome is handed over.                                    *)
LEMMA MemberLogged ==
    ASSUME TypeOK, NEW i \in Members, NEW b \in BOOLEAN
    PROVE  \A v \in 1 .. NumMembers + 2, k \in Rounds :
               /\ Won(rows, v, k) \in Nat /\ Lost(rows, v, k) \in Nat
               /\ ~(v = i /\ k = round) =>
                      /\ Won(Log(rows, {Entry(i, b)}), v, k) = Won(rows, v, k)
                      /\ Lost(Log(rows, {Entry(i, b)}), v, k) = Lost(rows, v, k)
               /\ v = i /\ k = round =>
                      /\ Won(Log(rows, {Entry(i, b)}), v, k) = Won(rows, v, k) + (IF b THEN 1 ELSE 0)
                      /\ Reported(Log(rows, {Entry(i, b)}), v, k) = Reported(rows, v, k) + 1
<1>1. rows \in [Entries -> Nat] /\ round \in Rounds /\ i \in 1 .. NumMembers + 2
  BY Roles DEF TypeOK
<1>2. \A v \in 1 .. NumMembers + 2, k \in Rounds :
          /\ Won(Log(rows, {Entry(i, b)}), v, k) =
                 Won(rows, v, k) + (IF v = i /\ k = round /\ b THEN 1 ELSE 0)
          /\ Lost(Log(rows, {Entry(i, b)}), v, k) =
                 Lost(rows, v, k) + (IF v = i /\ k = round /\ ~b THEN 1 ELSE 0)
  BY <1>1, LogOne
<1>3. \A v \in 1 .. NumMembers + 2, k \in Rounds : Won(rows, v, k) \in Nat /\ Lost(rows, v, k) \in Nat
  BY <1>1, Counts
<1> QED
  BY <1>2, <1>3 DEF Reported

LEMMA LogStep == IInv /\ [Next]_vars => LogSoFar'
<1> SUFFICES ASSUME IInv, [Next]_vars PROVE LogSoFar'
  OBVIOUS
<1>0. /\ TypeOK /\ Phases /\ RoundZeroHeld /\ TakenHaveEnded /\ LogSoFar
      /\ round \in Nat /\ round \in Rounds /\ answer \in [Members -> -1 .. MaxRounds - 1]
  BY Roles DEF IInv, TypeOK
<1>m. \A i \in Members : i \in 1 .. NumMembers + 2
  BY Roles
<1> USE DEF Running
<1>1. ASSUME NEW i \in Members, MemberEnds(i) PROVE LogSoFar'
  BY <1>0, <1>1 DEF MemberEnds, LogSoFar
<1>2. ASSUME NEW i \in Members, HandOver(i) PROVE LogSoFar'
  <2> DEFINE b == call[i] = "success"
  <2>1. /\ pc = "members" /\ i \notin taken /\ taken' = taken \cup {i} /\ b \in BOOLEAN
        /\ rows' = Log(rows, {Entry(i, b)})
        /\ UNCHANGED <<mode, pc, round, answer, session, critic>>
    BY <1>2 DEF HandOver
  <2> HIDE DEF b
  <2>2. \A v \in 1 .. NumMembers + 2, k \in Rounds :
            /\ ~(v = i /\ k = round) =>
                   Won(rows', v, k) = Won(rows, v, k) /\ Lost(rows', v, k) = Lost(rows, v, k)
            /\ v = i /\ k = round => Reported(rows', v, k) = Reported(rows, v, k) + 1
    BY <1>0, <2>1, MemberLogged
  <2>3. ASSUME NEW j \in Members, NEW k \in Rounds
        PROVE  Reported(rows', j, k) =
                   IF pc' = "members" /\ k = round'
                   THEN (IF j \in taken' THEN 1 ELSE 0)
                   ELSE (IF k <= round' /\ (k = 0 \/ answer'[j] >= 0) THEN 1 ELSE 0)
    <3>1. CASE j = i /\ k = round
      <4>1. Reported(rows, j, k) = 0
        BY <1>0, <2>1, <3>1 DEF LogSoFar
      <4>2. Reported(rows', j, k) = Reported(rows, j, k) + 1
        BY <1>m, <2>2, <3>1
      <4> QED BY <2>1, <3>1, <4>1, <4>2
    <3>2. CASE ~(j = i /\ k = round)
      <4>1. Reported(rows', j, k) = Reported(rows, j, k)
        BY <1>m, <2>2, <3>2 DEF Reported
      <4>2. Reported(rows, j, k) =
                IF k = round THEN (IF j \in taken THEN 1 ELSE 0)
                ELSE (IF k <= round /\ (k = 0 \/ answer[j] >= 0) THEN 1 ELSE 0)
        BY <1>0, <2>1 DEF LogSoFar
      <4> QED BY <2>1, <3>2, <4>1, <4>2
    <3> QED BY <3>1, <3>2
  <2>4. ASSUME NEW k \in Rounds
        PROVE  /\ Won(rows', Critic, k) = Won(rows, Critic, k)
               /\ Lost(rows', Critic, k) = Lost(rows, Critic, k)
               /\ Reported(rows', Judge, k) = Reported(rows, Judge, k)
    <3>1. /\ Critic \in 1 .. NumMembers + 2 /\ Critic # i
          /\ Judge \in 1 .. NumMembers + 2 /\ Judge # i
      BY Roles
    <3> QED BY <2>2, <3>1 DEF Reported
  <2> QED BY <1>0, <2>1, <2>3, <2>4 DEF LogSoFar
<1>3. CASE MembersRefused
  BY <1>3 DEF MembersRefused, LogSoFar
<1>4. CASE StartCritique
  <2>1. /\ pc = "members" /\ pc' = "critique" /\ answer' = AnswersKept /\ rows' = RowsOfRound
        /\ UNCHANGED <<round, session>>
    BY <1>4 DEF StartCritique, Collected
  <2>2. /\ \A i \in Members, k \in Rounds :
               Reported(rows', i, k) = IF k <= round /\ (k = 0 \/ AnswersKept[i] >= 0) THEN 1 ELSE 0
        /\ \A w \in {Critic, Judge}, k \in Rounds :
               Won(rows', w, k) = Won(rows, w, k) /\ Lost(rows', w, k) = Lost(rows, w, k)
    BY <1>4, <2>1, RoundLogged DEF StartCritique
  <2> QED BY <1>0, <2>1, <2>2 DEF LogSoFar, Reported
<1>5. CASE CritiqueSucceeds
  <2>1. /\ pc = "critique" /\ session = round /\ session' = round + 1 /\ critic' = "success"
        /\ rows' = Log(rows, {Entry(Critic, TRUE)}) /\ UNCHANGED answer
        /\ \/ pc' \in {"final", "planned"} /\ round' = round
           \/ pc' = "members" /\ round' = round + 1 /\ taken' = {}
    BY <1>0, <1>5 DEF CritiqueSucceeds, Conclude, Refine, Phases
  <2>2. /\ \A i \in Members, k \in Rounds : Reported(rows', i, k) = Reported(rows, i, k)
        /\ \A v \in {Critic, Judge}, k \in Rounds :
               /\ Won(rows, v, k) \in Nat /\ Lost(rows, v, k) \in Nat
               /\ v = Critic /\ k = round => Won(rows', v, k) = Won(rows, v, k) + 1
               /\ ~(v = Critic /\ k = round) => Won(rows', v, k) = Won(rows, v, k)
               /\ Lost(rows', v, k) = Lost(rows, v, k)
    BY <1>0, <2>1, SuccessLogged
  <2>3. ASSUME NEW i \in Members, NEW k \in Rounds
        PROVE  Reported(rows', i, k) = IF k <= round /\ (k = 0 \/ answer[i] >= 0) THEN 1 ELSE 0
    <3>1. Reported(rows, i, k) = IF k <= round /\ (k = 0 \/ answer[i] >= 0) THEN 1 ELSE 0
      BY <1>0, <2>1 DEF LogSoFar
    <3> QED BY <2>2, <3>1
  <2>4. ASSUME NEW i \in Members, NEW k \in Rounds, Running'
        PROVE  Reported(rows', i, k) =
                   IF pc' = "members" /\ k = round'
                   THEN (IF i \in taken' THEN 1 ELSE 0)
                   ELSE (IF k <= round' /\ (k = 0 \/ answer'[i] >= 0) THEN 1 ELSE 0)
    <3>1. k \in Nat
      BY Roles
    <3>2. CASE pc' = "members"
      <4>1. round' = round + 1 /\ i \notin taken'
        BY <2>1, <3>2
      <4>2. k = round' => ~(k <= round)
        BY <1>0, <3>1, <4>1
      <4>3. k # round' => (k <= round <=> k <= round')
        BY <1>0, <3>1, <4>1
      <4> QED BY <2>1, <2>3, <3>2, <4>1, <4>2, <4>3
    <3>3. CASE pc' # "members"
      BY <2>1, <2>3, <3>3
    <3> QED BY <3>2, <3>3
  <2>5. ASSUME NEW k \in Rounds
        PROVE  /\ Won(rows', Critic, k) = IF k < session' THEN 1 ELSE 0
               /\ Lost(rows', Critic, k) = 0
               /\ Reported(rows', Judge, k) = 0
    <3>1. k \in Nat /\ Critic # Judge
      BY Roles
    <3>2. /\ Won(rows, Critic, k) = (IF k < round THEN 1 ELSE 0)
          /\ Lost(rows, Critic, k) = 0
          /\ Won(rows, Judge, k) + Lost(rows, Judge, k) = 0
      BY <1>0, <2>1 DEF LogSoFar, Reported
    <3>3. Won(rows', Critic, k) = IF k < session' THEN 1 ELSE 0
      <4>1. CASE k = round
        <5>1. Won(rows', Critic, k) = Won(rows, Critic, k) + 1 /\ Won(rows, Critic, k) = 0
          BY <1>0, <2>2, <3>2, <4>1
        <5>2. k < session'
          BY <1>0, <2>1, <4>1
        <5> QED BY <5>1, <5>2
      <4>2. CASE k # round
        <5>1. Won(rows', Critic, k) = Won(rows, Critic, k)
          BY <2>2, <4>2
        <5>2. k < round <=> k < round + 1
          BY <1>0, <3>1, <4>2
        <5> QED BY <2>1, <3>2, <5>1, <5>2
      <4> QED BY <4>1, <4>2
    <3> QED BY <2>2, <3>1, <3>2, <3>3 DEF Reported
  <2> QED BY <2>1, <2>4, <2>5 DEF LogSoFar
<1>6. CASE CritiqueFails
  <2>1. /\ pc = "critique" /\ session = round /\ critic' = "failed"
        /\ rows' = Log(rows, {Entry(Critic, FALSE)})
        /\ UNCHANGED <<answer, round, session>> /\ pc' # "members" /\ pc' # "critique"
    BY <1>0, <1>6 DEF CritiqueFails, Conclude, Phases
  <2>2. /\ \A i \in Members, k \in Rounds : Reported(rows', i, k) = Reported(rows, i, k)
        /\ \A v \in {Critic, Judge}, k \in Rounds :
               /\ Won(rows, v, k) \in Nat /\ Lost(rows, v, k) \in Nat
               /\ v = Critic /\ k = round => Lost(rows', v, k) = Lost(rows, v, k) + 1
               /\ ~(v = Critic /\ k = round) => Lost(rows', v, k) = Lost(rows, v, k)
               /\ Won(rows', v, k) = Won(rows, v, k)
    BY <1>0, <2>1, FailureLogged
  <2>3. ASSUME NEW i \in Members, NEW k \in Rounds
        PROVE  Reported(rows', i, k) = IF k <= round' /\ (k = 0 \/ answer'[i] >= 0) THEN 1 ELSE 0
    <3>1. Reported(rows, i, k) = IF k <= round /\ (k = 0 \/ answer[i] >= 0) THEN 1 ELSE 0
      <4>1. pc # "members" /\ Running
        BY <2>1 DEF Running
      <4> QED BY <1>0, <4>1 DEF LogSoFar
    <3>2. Reported(rows', i, k) = Reported(rows, i, k) /\ round' = round /\ answer' = answer
      BY <2>1, <2>2
    <3> QED BY <3>1, <3>2
  <2>4. ASSUME NEW k \in Rounds
        PROVE  /\ Won(rows', Critic, k) = IF k < session' THEN 1 ELSE 0
               /\ Lost(rows', Critic, k) = IF k = round' THEN 1 ELSE 0
               /\ Reported(rows', Judge, k) = 0
    <3>1. /\ Won(rows, Critic, k) = (IF k < round THEN 1 ELSE 0)
          /\ Lost(rows, Critic, k) = 0
          /\ Won(rows, Judge, k) + Lost(rows, Judge, k) = 0
      BY <1>0, <2>1 DEF LogSoFar, Reported
    <3>2. Critic # Judge
      BY Roles
    <3>3. /\ Won(rows', Critic, k) = Won(rows, Critic, k)
          /\ Won(rows', Judge, k) = Won(rows, Judge, k)
          /\ Lost(rows', Judge, k) = Lost(rows, Judge, k)
          /\ Lost(rows', Critic, k) = Lost(rows, Critic, k) + (IF k = round THEN 1 ELSE 0)
      BY <2>2, <3>2
    <3> QED BY <2>1, <3>1, <3>3 DEF Reported
  <2> QED BY <2>1, <2>3, <2>4 DEF LogSoFar
<1>7. CASE JudgeAnswers
  BY <1>7 DEF JudgeAnswers, LogSoFar
<1>8. CASE JudgeFails
  BY <1>8 DEF JudgeFails, LogSoFar
<1>9. ASSUME NEW as \in {"crashed", "cancelled"}, GiveUp(as) PROVE LogSoFar'
  BY <1>9 DEF GiveUp, LogSoFar
<1>10. CASE UNCHANGED vars
  BY <1>0, <1>10 DEF vars, LogSoFar
<1> QED
  BY <1>1, <1>2, <1>3, <1>4, <1>5, <1>6, <1>7, <1>8, <1>9, <1>10
  DEF Next, StrategyStep, Crash, Cancelled

-----------------------------------------------------------------------------
(* The answers.                                                            *)

LEMMA AnswersStep == IInv /\ [Next]_vars => AnswersSoFar'
<1> SUFFICES ASSUME IInv, [Next]_vars PROVE AnswersSoFar'
  OBVIOUS
<1>0. /\ TypeOK /\ Phases /\ RoundZeroHeld /\ TakenHaveEnded /\ LogSoFar /\ AnswersSoFar
      /\ round \in Nat /\ round \in Rounds /\ answer \in [Members -> -1 .. MaxRounds - 1]
  BY Roles DEF IInv, TypeOK
<1>m. \A i \in Members : i \in 1 .. NumMembers + 2
  BY Roles
<1>r. /\ 0 \in Rounds /\ \A k \in Rounds : k \in Nat
      /\ \A i \in Members : answer[i] \in Int /\ (answer[i] >= 0 => answer[i] \in Rounds)
  BY <1>0, Roles DEF Rounds
<1>1. ASSUME NEW i \in Members, MemberEnds(i) PROVE AnswersSoFar'
  <2>1. /\ UNCHANGED <<pc, round, taken, answer, rows>> /\ pc = "members" /\ call[i] = "calling"
        /\ \A j \in Members : j # i => call'[j] = call[j]
    BY <1>0, <1>1 DEF MemberEnds, TypeOK
  <2>2. i \notin taken
    BY <1>0, <2>1 DEF TakenHaveEnded
  <2> QED BY <1>0, <2>1, <2>2 DEF AnswersSoFar, LatestBefore
<1>2. ASSUME NEW i \in Members, HandOver(i) PROVE AnswersSoFar'
  <2> DEFINE b == call[i] = "success"
  <2>1. /\ pc = "members" /\ i \notin taken /\ taken' = taken \cup {i} /\ b \in BOOLEAN
        /\ rows' = Log(rows, {Entry(i, b)})
        /\ UNCHANGED <<pc, round, answer, call>>
    BY <1>2 DEF HandOver
  <2>b. b <=> call[i] = "success"
    OBVIOUS
  <2> HIDE DEF b
  <2>2. \A v \in 1 .. NumMembers + 2, k \in Rounds :
            /\ Won(rows, v, k) \in Nat
            /\ ~(v = i /\ k = round) => Won(rows', v, k) = Won(rows, v, k)
            /\ v = i /\ k = round => Won(rows', v, k) = Won(rows, v, k) + (IF b THEN 1 ELSE 0)
    BY <1>0, <2>1, MemberLogged
  <2>3. ASSUME NEW j \in Members
        PROVE  LatestBefore(j, round)' /\ (Won(rows', j, round') > 0 <=> (j \in taken' /\ call'[j] = "success"))
    <3>1. LatestBefore(j, round) /\ (Won(rows, j, round) > 0 <=> (j \in taken /\ call[j] = "success"))
      BY <1>0, <2>1 DEF AnswersSoFar
    <3>2. \A k \in Rounds : k # round => Won(rows', j, k) = Won(rows, j, k)
      BY <1>m, <2>2
    <3>3. LatestBefore(j, round)'
      <4>1. answer'[j] = answer[j] /\ round' = round
        BY <2>1
      <4>2. round > 0 => (answer[j] >= 0 <=> Won(rows', j, 0) > 0)
        BY <1>0, <1>r, <3>1, <3>2 DEF LatestBefore
      <4>3. answer[j] >= 0 => answer[j] < round /\ Won(rows', j, answer[j]) > 0
        BY <1>0, <1>r, <3>1, <3>2 DEF LatestBefore
      <4>4. \A k \in Rounds : k < round /\ Won(rows', j, k) > 0 => k <= answer[j]
        BY <1>0, <1>r, <3>1, <3>2 DEF LatestBefore
      <4>5. \A k \in Rounds : k > round => Won(rows', j, k) = 0
        BY <1>0, <1>r, <3>1, <3>2 DEF LatestBefore
      <4> QED BY <4>1, <4>2, <4>3, <4>4, <4>5 DEF LatestBefore
    <3>4. CASE j = i
      <4>1. Won(rows, j, round) = 0
        BY <1>0, <1>m, <2>1, <2>2, <3>1, <3>4
      <4>2. Won(rows', j, round) = Won(rows, j, round) + (IF b THEN 1 ELSE 0)
        BY <1>0, <1>m, <2>2, <3>4
      <4> QED BY <2>1, <2>b, <3>3, <3>4, <4>1, <4>2
    <3>5. CASE j # i
      <4>1. Won(rows', j, round) = Won(rows, j, round)
        BY <1>0, <1>m, <2>2, <3>5
      <4> QED BY <2>1, <3>1, <3>3, <3>5, <4>1
    <3> QED BY <3>4, <3>5
  <2> QED BY <2>1, <2>3 DEF AnswersSoFar
<1>3. CASE MembersRefused
  BY <1>3 DEF MembersRefused, AnswersSoFar
<1>4. CASE StartCritique
  <2>1. /\ pc = "members" /\ pc' = "critique" /\ answer' = AnswersKept /\ rows' = RowsOfRound
        /\ round' = round /\ Collected
    BY <1>4 DEF StartCritique, Collected
  <2>2. ASSUME NEW i \in Members PROVE LatestBefore(i, round + 1)'
    <3>1. LatestBefore(i, round) /\ (round = 0 => answer[i] = -1)
      BY <1>0, <2>1 DEF AnswersSoFar, RoundZeroHeld
    <3>2. /\ \A k \in Rounds : k # round => Won(rows', i, k) = Won(rows, i, k)
          /\ Won(rows', i, round) > 0 <=> (i \in Participants /\ call[i] = "success")
      BY <1>0, <2>1, RoundLogged
    <3>3. i \in Participants <=> (round = 0 \/ answer[i] >= 0)
      BY DEF Participants
    <3>4. CASE i \in Participants /\ call[i] = "success"
      <4>1. answer'[i] = round /\ round' = round /\ Won(rows', i, round) > 0
        BY <2>1, <3>2, <3>4 DEF AnswersKept
      <4>2. round >= 0 /\ round < round + 1 /\ \A k \in Rounds : k < round + 1 => k <= round
        BY <1>0, <1>r
      <4>3. Won(rows', i, 0) > 0
        <5>1. CASE round = 0
          BY <4>1, <5>1
        <5>2. CASE round # 0
          <6>1. answer[i] >= 0 /\ round > 0
            BY <1>0, <3>3, <3>4, <5>2
          <6>2. Won(rows, i, 0) > 0
            BY <3>1, <6>1 DEF LatestBefore
          <6> QED BY <1>r, <3>2, <5>2, <6>2
        <5> QED BY <5>1, <5>2
      <4>4. \A k \in Rounds : k > round => Won(rows', i, k) = 0
        <5>1. \A k \in Rounds : k > round => k # round /\ Won(rows, i, k) = 0
          BY <1>0, <1>r, <3>1 DEF LatestBefore
        <5> QED BY <3>2, <5>1
      <4> QED BY <4>1, <4>2, <4>3, <4>4 DEF LatestBefore
    <3>5. CASE ~(i \in Participants /\ call[i] = "success")
      <4>1. answer'[i] = answer[i] /\ ~(Won(rows', i, round) > 0)
        BY <2>1, <3>2, <3>5 DEF AnswersKept
      <4>2. round' = round /\ round >= 0 /\ \A k \in Rounds : k < round + 1 => k < round \/ k = round
        BY <1>0, <1>r, <2>1
      <4>3. answer[i] >= 0 <=> Won(rows', i, 0) > 0
        <5>1. CASE round = 0
          BY <3>1, <4>1, <5>1
        <5>2. CASE round # 0
          <6>1. (answer[i] >= 0 <=> Won(rows, i, 0) > 0) /\ Won(rows', i, 0) = Won(rows, i, 0)
            BY <1>0, <1>r, <3>1, <3>2, <4>2, <5>2 DEF LatestBefore
          <6> QED BY <6>1
        <5> QED BY <5>1, <5>2
      <4>4. answer[i] >= 0 => answer[i] < round + 1 /\ Won(rows', i, answer[i]) > 0
        <5>1. ASSUME answer[i] >= 0
              PROVE  answer[i] < round /\ Won(rows, i, answer[i]) > 0 /\ answer[i] # round
          BY <1>0, <1>r, <3>1, <5>1 DEF LatestBefore
        <5> QED BY <1>0, <1>r, <3>2, <5>1
      <4>5. \A k \in Rounds : k < round + 1 /\ Won(rows', i, k) > 0 => k <= answer[i]
        <5>1. ASSUME NEW k \in Rounds, k < round + 1, Won(rows', i, k) > 0 PROVE k <= answer[i]
          <6>1. k # round /\ k < round
            BY <4>1, <4>2, <5>1
          <6>2. Won(rows, i, k) > 0
            BY <3>2, <5>1, <6>1
          <6> QED BY <3>1, <6>1, <6>2 DEF LatestBefore
        <5> QED BY <5>1
      <4>6. \A k \in Rounds : k > round => Won(rows', i, k) = 0
        <5>1. \A k \in Rounds : k > round => k # round /\ Won(rows, i, k) = 0
          BY <1>0, <1>r, <3>1 DEF LatestBefore
        <5> QED BY <3>2, <5>1
      <4> QED BY <4>1, <4>2, <4>3, <4>4, <4>5, <4>6 DEF LatestBefore
    <3> QED BY <3>4, <3>5
  <2> QED BY <2>1, <2>2 DEF AnswersSoFar
<1>5. CASE CritiqueSucceeds
  <2>1. /\ pc = "critique" /\ rows' = Log(rows, {Entry(Critic, TRUE)}) /\ UNCHANGED answer
        /\ \/ pc' \in {"final", "planned"} /\ round' = round
           \/ pc' = "members" /\ round' = round + 1 /\ taken' = {}
    BY <1>5 DEF CritiqueSucceeds, Conclude, Refine
  <2>2. \A i \in Members, k \in Rounds : Won(rows', i, k) = Won(rows, i, k)
    BY <1>0, <2>1, SuccessLogged
  <2>3. \A i \in Members : LatestBefore(i, round + 1)
    BY <1>0, <2>1 DEF AnswersSoFar
  <2>4. round' \in Rounds
    BY TypeStep DEF TypeOK
  <2>5. CASE pc' \in {"final", "planned"}
    <3>1. ASSUME NEW i \in Members PROVE LatestBefore(i, round + 1)'
      BY <1>0, <1>r, <2>1, <2>2, <2>3, <2>5 DEF LatestBefore
    <3> QED BY <2>5, <3>1 DEF AnswersSoFar
  <2>6. CASE pc' = "members"
    <3>1. ASSUME NEW i \in Members
          PROVE  LatestBefore(i, round)' /\ ~(Won(rows', i, round') > 0)
      <4>1. /\ answer'[i] = answer[i] /\ round' = round + 1 /\ round' > round /\ round' > 0
            /\ LatestBefore(i, round + 1) /\ round + 1 \in Rounds
        BY <1>0, <2>1, <2>3, <2>4, <2>6
      <4>2. \A k \in Rounds : Won(rows', i, k) = Won(rows, i, k)
        BY <2>2
      <4>3. answer[i] >= 0 <=> Won(rows', i, 0) > 0
        BY <1>0, <1>r, <4>1, <4>2 DEF LatestBefore
      <4>4. answer[i] >= 0 => answer[i] < round + 1 /\ Won(rows', i, answer[i]) > 0
        BY <1>r, <4>1, <4>2 DEF LatestBefore
      <4>5. \A k \in Rounds : k < round + 1 /\ Won(rows', i, k) > 0 => k <= answer[i]
        BY <4>1, <4>2 DEF LatestBefore
      <4>6. \A k \in Rounds : k > round => Won(rows', i, k) = 0
        BY <4>1, <4>2 DEF LatestBefore
      <4>7. ~(Won(rows', i, round + 1) > 0)
        BY <1>0, <4>1, <4>6
      <4>8. \A k \in Rounds : k > round + 1 => k > round
        BY <1>0, <1>r
      <4> QED BY <4>1, <4>3, <4>4, <4>5, <4>6, <4>7, <4>8 DEF LatestBefore
    <3> QED BY <2>1, <2>6, <3>1 DEF AnswersSoFar
  <2> QED BY <2>1, <2>5, <2>6
<1>6. CASE CritiqueFails
  <2>1. /\ pc = "critique" /\ rows' = Log(rows, {Entry(Critic, FALSE)})
        /\ UNCHANGED <<answer, round>> /\ pc' # "members"
    BY <1>6 DEF CritiqueFails, Conclude
  <2>2. \A i \in Members, k \in Rounds : Won(rows', i, k) = Won(rows, i, k)
    BY <1>0, <2>1, FailureLogged
  <2>3. ASSUME NEW i \in Members PROVE LatestBefore(i, round + 1)'
    <3>1. LatestBefore(i, round + 1)
      BY <1>0, <2>1 DEF AnswersSoFar
    <3> QED BY <1>0, <1>r, <2>1, <2>2, <3>1 DEF LatestBefore
  <2> QED BY <2>1, <2>3 DEF AnswersSoFar
<1>7. CASE JudgeAnswers
  BY <1>0, <1>7 DEF JudgeAnswers, AnswersSoFar, LatestBefore
<1>8. CASE JudgeFails
  BY <1>0, <1>8 DEF JudgeFails, AnswersSoFar, LatestBefore
<1>9. ASSUME NEW as \in {"crashed", "cancelled"}, GiveUp(as) PROVE AnswersSoFar'
  BY <1>9 DEF GiveUp, AnswersSoFar
<1>10. CASE UNCHANGED vars
  BY <1>0, <1>10 DEF vars, AnswersSoFar, LatestBefore
<1> QED
  BY <1>1, <1>2, <1>3, <1>4, <1>5, <1>6, <1>7, <1>8, <1>9, <1>10
  DEF Next, StrategyStep, Crash, Cancelled

-----------------------------------------------------------------------------
(* Degraded answers.                                                       *)

(* A failure of the arbiter is one of a critique or of the final call.     *)
LEMMA ArbiterFailures ==
    ASSUME NEW r \in [Entries -> Nat]
    PROVE  (\E e \in Entries : e.who \notin Members /\ ~e.ok /\ r[e] > 0)
               <=> \E k \in Rounds : Lost(r, Critic, k) > 0 \/ Lost(r, Judge, k) > 0
<1>1. ASSUME NEW e \in Entries, e.who \notin Members, ~e.ok, r[e] > 0
      PROVE  \E k \in Rounds : Lost(r, Critic, k) > 0 \/ Lost(r, Judge, k) > 0
  <2>1. e = [who |-> e.who, round |-> e.round, ok |-> FALSE] /\ e.round \in Rounds
    BY <1>1 DEF Entries
  <2>2. e.who = Critic \/ e.who = Judge
    BY <1>1, Roles DEF Entries
  <2>3. Lost(r, e.who, e.round) > 0
    BY <1>1, <2>1 DEF Lost
  <2> QED BY <2>1, <2>2, <2>3
<1>2. ASSUME NEW w \in {Critic, Judge}, NEW k \in Rounds, Lost(r, w, k) > 0
      PROVE  \E e \in Entries : e.who \notin Members /\ ~e.ok /\ r[e] > 0
  <2> DEFINE e == [who |-> w, round |-> k, ok |-> FALSE]
  <2>1. e \in Entries /\ e.who \notin Members /\ ~e.ok
    BY Roles DEF Entries
  <2>2. r[e] > 0
    BY <1>2 DEF Lost
  <2> QED BY <2>1, <2>2
<1> QED
  BY <1>1, <1>2

LEMMA DegradedStep == IInv /\ [Next]_vars => DegradedTellsTheTruth'
<1> SUFFICES ASSUME IInv, [Next]_vars, pc' = "answered" PROVE DegradedTellsTheTruth'
  BY DEF DegradedTellsTheTruth
<1>0. /\ TypeOK /\ Phases /\ RoundZeroHeld /\ LogSoFar /\ DegradedTellsTheTruth
      /\ round \in Rounds /\ rows \in [Entries -> Nat] /\ Critic # Judge
      /\ Critic \in {Critic, Judge} /\ Judge \in {Critic, Judge}
      /\ Critic \in 1 .. NumMembers + 2 /\ Judge \in 1 .. NumMembers + 2
  BY Roles DEF IInv, TypeOK
<1>a. TypeOK'
  BY TypeStep
<1>b. reply'.rows \in [Entries -> Nat]
  BY <1>a DEF TypeOK
<1>c. (\E e \in Entries : e.who \notin Members /\ ~e.ok /\ reply'.rows[e] > 0)
          <=> \E k \in Rounds : Lost(reply'.rows, Critic, k) > 0 \/ Lost(reply'.rows, Judge, k) > 0
  BY <1>b, ArbiterFailures
<1>d. ASSUME UNCHANGED answer, UNCHANGED mode,
             \E i \in Members : answer[i] >= 0,
             mode.strictMembers => \A i \in Members : answer[i] >= 0,
             ~mode.strictJudge, NEW r, reply' = Fallback(r),
             \E k \in Rounds : Lost(r, Critic, k) > 0 \/ Lost(r, Judge, k) > 0
      PROVE  DegradedTellsTheTruth'
  <2>1. FirstAnswer \in Members /\ answer[FirstAnswer] >= 0
    BY <1>0, <1>d, FirstAnswerExists
  <2>2. reply'.author = FirstAnswer /\ reply'.degraded /\ reply'.rows = r
    BY <1>d, Zenon DEF Fallback
  <2> QED BY <1>c, <1>d, <2>1, <2>2 DEF DegradedTellsTheTruth
<1>1. CASE CritiqueFails
  <2>1. /\ pc = "critique" /\ UNCHANGED <<answer, mode>> /\ ~mode.strictJudge
        /\ rows' = Log(rows, {Entry(Critic, FALSE)})
        /\ reply' = Fallback(rows')
    BY <1>1 DEF CritiqueFails, Conclude
  <2>2. Lost(rows', Critic, round) > 0
    <3>1. \A v \in {Critic, Judge}, k \in Rounds :
              /\ Lost(rows, v, k) \in Nat
              /\ v = Critic /\ k = round => Lost(rows', v, k) = Lost(rows, v, k) + 1
      BY <1>0, <2>1, FailureLogged
    <3> QED BY <1>0, <3>1
  <2> QED BY <1>0, <1>d, <2>1, <2>2 DEF RoundZeroHeld
<1>2. CASE JudgeAnswers
  <2> DEFINE r == Log(rows, {Entry(Judge, TRUE)})
  <2>1. /\ pc = "final" /\ UNCHANGED <<answer, mode, critic>>
        /\ reply' = [author |-> Judge, degraded |-> (critic = "failed"), rows |-> r]
    BY <1>2 DEF JudgeAnswers
  <2>2. reply'.author = Judge /\ (reply'.degraded <=> critic = "failed") /\ reply'.rows = r
    BY <2>1, Zenon
  <2>3. \A v \in {Critic, Judge}, k \in Rounds :
            Lost(r, v, k) = Lost(rows, v, k) /\ Lost(rows, v, k) \in Nat /\ Won(rows, v, k) \in Nat
    BY <1>0, SuccessLogged
  <2> HIDE DEF r
  <2>4. \A k \in Rounds : Lost(r, Judge, k) = 0
    BY <1>0, <2>1, <2>3 DEF LogSoFar, Reported, Running
  <2>5. \A k \in Rounds : Lost(r, Critic, k) > 0 <=> (critic = "failed" /\ k = round)
    BY <1>0, <2>1, <2>3 DEF LogSoFar, Running
  <2>6. /\ mode.strictJudge => critic # "failed"
        /\ mode.strictMembers => \A i \in Members : answer[i] >= 0
    BY <1>0, <2>1 DEF Phases, RoundZeroHeld
  <2> QED BY <1>0, <1>c, <2>1, <2>2, <2>4, <2>5, <2>6 DEF DegradedTellsTheTruth
<1>3. CASE JudgeFails
  <2> DEFINE r == Log(rows, {Entry(Judge, FALSE)})
  <2>1. /\ pc = "final" /\ UNCHANGED <<answer, mode>> /\ ~mode.strictJudge
        /\ reply' = Fallback(r)
    BY <1>3 DEF JudgeFails
  <2>2. Lost(r, Judge, round) > 0
    <3>1. \A v \in {Critic, Judge}, k \in Rounds :
              /\ Lost(rows, v, k) \in Nat
              /\ v = Judge /\ k = round => Lost(r, v, k) = Lost(rows, v, k) + 1
      BY <1>0, FailureLogged
    <3> HIDE DEF r
    <3> QED BY <1>0, <3>1
  <2> HIDE DEF r
  <2> QED BY <1>0, <1>d, <2>1, <2>2 DEF RoundZeroHeld
<1>4. CASE UNCHANGED vars
  BY <1>0, <1>4 DEF vars, DegradedTellsTheTruth
<1>5. ASSUME Next PROVE CritiqueFails \/ JudgeAnswers \/ JudgeFails
  BY <1>5 DEF Next, StrategyStep, MemberEnds, HandOver, MembersRefused, StartCritique,
     CritiqueSucceeds, Conclude, Refine, Crash, Cancelled, GiveUp, Collected
<1> QED
  BY <1>1, <1>2, <1>3, <1>4, <1>5

-----------------------------------------------------------------------------
(* The reports.                                                            *)

(* A call that is logged is reported once more, whatever became of it.     *)
LEMMA OneReported ==
    ASSUME round \in Rounds, NEW r \in [Entries -> Nat],
           NEW w \in 1 .. NumMembers + 2, NEW b \in BOOLEAN
    PROVE  /\ Log(r, {Entry(w, b)}) \in [Entries -> Nat]
           /\ \A v \in 1 .. NumMembers + 2, k \in Rounds :
                  Reported(Log(r, {Entry(w, b)}), v, k) =
                      Reported(r, v, k) + (IF v = w /\ k = round THEN 1 ELSE 0)
<1>1. /\ Log(r, {Entry(w, b)}) \in [Entries -> Nat]
      /\ \A v \in 1 .. NumMembers + 2, k \in Rounds :
             /\ Won(Log(r, {Entry(w, b)}), v, k) =
                    Won(r, v, k) + (IF v = w /\ k = round /\ b THEN 1 ELSE 0)
             /\ Lost(Log(r, {Entry(w, b)}), v, k) =
                    Lost(r, v, k) + (IF v = w /\ k = round /\ ~b THEN 1 ELSE 0)
  BY LogOne
<1>2. \A v \in 1 .. NumMembers + 2, k \in Rounds : Won(r, v, k) \in Nat /\ Lost(r, v, k) \in Nat
  BY Counts
<1> DEFINE new == Log(r, {Entry(w, b)})
<1>3. ASSUME NEW v \in 1 .. NumMembers + 2, NEW k \in Rounds
      PROVE  Reported(new, v, k) = Reported(r, v, k) + (IF v = w /\ k = round THEN 1 ELSE 0)
  <2>1. /\ Won(new, v, k) = Won(r, v, k) + (IF v = w /\ k = round /\ b THEN 1 ELSE 0)
        /\ Lost(new, v, k) = Lost(r, v, k) + (IF v = w /\ k = round /\ ~b THEN 1 ELSE 0)
        /\ Won(r, v, k) \in Nat /\ Lost(r, v, k) \in Nat
    BY <1>1, <1>2
  <2> HIDE DEF new
  <2> QED BY <2>1 DEF Reported
<1> QED
  BY <1>1, <1>3

(* What the log of a run holds while it goes on, whoever was called.       *)
LEMMA ReportedSoFar ==
    ASSUME IInv, pc \in {"critique", "final"}
    PROVE  \A k \in Rounds :
               /\ \A i \in Members :
                      Reported(rows, i, k) =
                          IF k <= round /\ (k = 0 \/ answer[i] >= 0) THEN 1 ELSE 0
               /\ Reported(rows, Critic, k) =
                      IF k < session \/ (pc = "final" /\ critic = "failed" /\ k = round)
                      THEN 1 ELSE 0
               /\ Reported(rows, Judge, k) = 0
<1>1. LogSoFar /\ Phases /\ round \in Nat /\ pc # "members"
  BY Roles DEF IInv, TypeOK
<1>2. ASSUME NEW k \in Rounds
      PROVE  Reported(rows, Critic, k) =
                 IF k < session \/ (pc = "final" /\ critic = "failed" /\ k = round) THEN 1 ELSE 0
  <2>1. /\ Won(rows, Critic, k) = (IF k < session THEN 1 ELSE 0)
        /\ Lost(rows, Critic, k) =
               (IF pc = "final" /\ critic = "failed" /\ k = round THEN 1 ELSE 0)
    BY <1>1 DEF LogSoFar, Running
  <2>2. pc = "final" /\ critic = "failed" /\ k = round => ~(k < session)
    BY <1>1 DEF Phases
  <2> QED BY <2>1, <2>2 DEF Reported
<1> QED
  BY <1>1, <1>2 DEF LogSoFar, Running

(* Lost calls of a run that is given up are at most those not yet logged.  *)
LEMMA ReportedInPart ==
    ASSUME IInv, Running
    PROVE  \A k \in Rounds :
               /\ \A i \in Members :
                      /\ Reported(rows, i, k) <=
                             IF k <= round /\ (k = 0 \/ answer[i] >= 0) THEN 1 ELSE 0
                      /\ k < round /\ (k = 0 \/ answer[i] >= 0) => Reported(rows, i, k) = 1
               /\ Reported(rows, Critic, k) <=
                      IF k < session \/ (critic = "failed" /\ k = round) THEN 1 ELSE 0
               /\ k < round => Reported(rows, Critic, k) = 1
               /\ Reported(rows, Judge, k) = 0
<1>1. /\ LogSoFar /\ Phases /\ TakenHaveEnded /\ round \in Nat /\ session \in Nat
      /\ \A k \in Rounds : k \in Nat
  BY Roles DEF IInv, TypeOK
<1>2. CASE pc \in {"critique", "final"}
  <2>1. session >= round
    BY <1>1, <1>2 DEF Phases
  <2> QED BY <1>1, <1>2, <2>1, ReportedSoFar
<1>3. CASE pc = "members"
  <2>1. session = round /\ critic # "failed"
    BY <1>1, <1>3 DEF Phases
  <2>2. ASSUME NEW k \in Rounds, NEW i \in Members
        PROVE  /\ Reported(rows, i, k) <=
                      IF k <= round /\ (k = 0 \/ answer[i] >= 0) THEN 1 ELSE 0
               /\ k < round /\ (k = 0 \/ answer[i] >= 0) => Reported(rows, i, k) = 1
    <3>1. Reported(rows, i, k) =
              IF k = round THEN (IF i \in taken THEN 1 ELSE 0)
              ELSE (IF k <= round /\ (k = 0 \/ answer[i] >= 0) THEN 1 ELSE 0)
      BY <1>1, <1>3 DEF LogSoFar, Running
    <3>2. i \in taken => round = 0 \/ answer[i] >= 0
      BY <1>1, <1>3 DEF TakenHaveEnded, Participants
    <3>3. CASE k = round
      BY <1>1, <3>1, <3>2, <3>3
    <3>4. CASE k # round
      BY <1>1, <3>1, <3>4
    <3> QED BY <3>3, <3>4
  <2>3. ASSUME NEW k \in Rounds
        PROVE  /\ Won(rows, Critic, k) = (IF k < round THEN 1 ELSE 0)
               /\ Lost(rows, Critic, k) = 0
               /\ Reported(rows, Judge, k) = 0
    BY <1>1, <1>3, <2>1 DEF LogSoFar, Running
  <2> QED BY <2>1, <2>2, <2>3 DEF Reported
<1> QED
  BY <1>2, <1>3 DEF Running

LEMMA ReportStep == IInv /\ [Next]_vars => Reports'
<1> SUFFICES ASSUME IInv, [Next]_vars PROVE Reports'
  OBVIOUS
<1>0. /\ TypeOK /\ Phases /\ RoundZeroHeld /\ TakenHaveEnded /\ LogSoFar /\ Reports
      /\ round \in Rounds /\ round \in Nat /\ session \in Nat /\ rows \in [Entries -> Nat]
  BY Roles DEF IInv, TypeOK
<1>r. /\ Critic \in 1 .. NumMembers + 2 /\ Judge \in 1 .. NumMembers + 2 /\ Critic # Judge
      /\ \A i \in Members : i \in 1 .. NumMembers + 2 /\ i # Critic /\ i # Judge
      /\ \A k \in Rounds : k \in Nat
  BY Roles
<1>1. ASSUME NEW i \in Members, MemberEnds(i) PROVE Reports'
  BY <1>1 DEF MemberEnds, Reports
<1>2. ASSUME NEW i \in Members, HandOver(i) PROVE Reports'
  BY <1>2 DEF HandOver, Reports
<1>3. CASE MembersRefused
  <2>1. /\ pc = "members" /\ pc' = "refused" /\ round = 0 /\ Collected /\ critic # "failed"
        /\ session = 0 /\ judge = "none" /\ reply' = NoAnswer(RowsOfRound)
        /\ UNCHANGED <<mode, round, answer, session, critic, judge>>
    BY <1>0, <1>3 DEF MembersRefused, Collected, Phases
  <2>2. reply'.rows = RowsOfRound
    BY <2>1, Zenon DEF NoAnswer
  <2>3. /\ \A i \in Members, k \in Rounds :
               Reported(RowsOfRound, i, k) =
                   IF k <= round /\ (k = 0 \/ AnswersKept[i] >= 0) THEN 1 ELSE 0
        /\ \A w \in {Critic, Judge}, k \in Rounds :
               Reported(RowsOfRound, w, k) = Reported(rows, w, k)
    BY <2>1, RoundLogged DEF Reported
  <2>4. \A w \in {Critic, Judge}, k \in Rounds : Reported(rows, w, k) = 0
    <3>1. \A k \in Rounds :
              /\ Won(rows, Critic, k) = 0 /\ Lost(rows, Critic, k) = 0
              /\ Reported(rows, Judge, k) = 0
      BY <1>0, <1>r, <2>1 DEF LogSoFar, Running
    <3> QED BY <3>1 DEF Reported
  <2>5. \A k \in Rounds : CritiquesDue(k)' = 0
    BY <1>r, <2>1 DEF CritiquesDue
  <2>6. \A k \in Rounds : k <= round => k = 0
    BY <1>r, <2>1
  <2> HIDE DEF CritiquesDue
  <2> QED BY <2>1, <2>2, <2>3, <2>4, <2>5, <2>6 DEF Reports
<1>4. CASE StartCritique
  BY <1>4 DEF StartCritique, Reports
<1>5. CASE CritiqueSucceeds
  <2>1. /\ pc = "critique" /\ session = round /\ session' = round + 1 /\ critic' = "success"
        /\ judge = "none" /\ rows' = Log(rows, {Entry(Critic, TRUE)})
        /\ UNCHANGED <<mode, answer>>
        /\ pc' \notin {"answered", "refused", "crashed", "cancelled"}
        /\ pc' = "planned" =>
               /\ UNCHANGED <<round, judge>>
               /\ reply' = [author |-> Judge, degraded |-> FALSE, rows |-> rows']
    BY <1>0, <1>5 DEF CritiqueSucceeds, Conclude, Refine, Phases
  <2>2. PICK b \in BOOLEAN : b = TRUE
    OBVIOUS
  <2>3. rows' = Log(rows, {Entry(Critic, b)})
    BY <2>1, <2>2, Zenon
  <2>4. \A v \in 1 .. NumMembers + 2, k \in Rounds :
            Reported(rows', v, k) = Reported(rows, v, k) + (IF v = Critic /\ k = round THEN 1 ELSE 0)
    BY <1>0, <1>r, <2>3, OneReported
  <2>5. \A k \in Rounds :
            /\ \A i \in Members :
                   Reported(rows, i, k) = IF k <= round /\ (k = 0 \/ answer[i] >= 0) THEN 1 ELSE 0
            /\ Reported(rows, Critic, k) = IF k < round THEN 1 ELSE 0
            /\ Reported(rows, Judge, k) = 0
    BY <2>1, ReportedSoFar
  <2>6. ASSUME pc' = "planned" PROVE Reports'
    <3>1. reply'.rows = rows'
      <4>1. reply' = [author |-> Judge, degraded |-> FALSE, rows |-> rows']
        BY <2>1, <2>6
      <4> QED BY <4>1, Zenon
    <3>2. \A k \in Rounds : CritiquesDue(k)' = IF k <= round THEN 1 ELSE 0
      BY <1>0, <1>r, <2>1, <2>6 DEF CritiquesDue
    <3>3. \A k \in Rounds :
              /\ \A i \in Members :
                     Reported(rows', i, k) =
                         IF k <= round /\ (k = 0 \/ answer[i] >= 0) THEN 1 ELSE 0
              /\ Reported(rows', Critic, k) = IF k <= round THEN 1 ELSE 0
              /\ Reported(rows', Judge, k) = 0
      BY <1>0, <1>r, <2>4, <2>5
    <3> HIDE DEF CritiquesDue
    <3> QED BY <2>1, <2>6, <3>1, <3>2, <3>3 DEF Reports
  <2> QED BY <2>1, <2>6 DEF Reports
<1>6. CASE CritiqueFails
  <2>1. /\ pc = "critique" /\ session = round /\ critic' = "failed" /\ judge = "none"
        /\ rows' = Log(rows, {Entry(Critic, FALSE)})
        /\ UNCHANGED <<mode, answer, round, session>>
        /\ pc' \in {"answered", "refused", "final", "planned"}
        /\ pc' # "final" => UNCHANGED judge
    BY <1>0, <1>6 DEF CritiqueFails, Conclude, Phases
  <2>2. PICK b \in BOOLEAN : b = FALSE
    OBVIOUS
  <2>3. /\ rows' = Log(rows, {Entry(Critic, b)})
        /\ Log(rows', {Entry(Critic, FALSE)}) = Log(rows', {Entry(Critic, b)})
    BY <2>1, <2>2, Zenon
  <2>4. /\ rows' \in [Entries -> Nat]
        /\ \A v \in 1 .. NumMembers + 2, k \in Rounds :
               Reported(rows', v, k) =
                   Reported(rows, v, k) + (IF v = Critic /\ k = round THEN 1 ELSE 0)
    BY <1>0, <1>r, <2>3, OneReported
  <2>5. \A k \in Rounds :
            /\ \A i \in Members :
                   Reported(rows, i, k) = IF k <= round /\ (k = 0 \/ answer[i] >= 0) THEN 1 ELSE 0
            /\ Reported(rows, Critic, k) = IF k < round THEN 1 ELSE 0
            /\ Reported(rows, Judge, k) = 0
    BY <2>1, ReportedSoFar
  <2>6. \A k \in Rounds :
            /\ \A i \in Members :
                   Reported(rows', i, k) = IF k <= round /\ (k = 0 \/ answer[i] >= 0) THEN 1 ELSE 0
            /\ Reported(rows', Critic, k) = IF k <= round THEN 1 ELSE 0
            /\ Reported(rows', Judge, k) = 0
    BY <1>0, <1>r, <2>4, <2>5
  <2>7. ASSUME pc' # "final", ~(mode.driver = "run" /\ pc' = "refused"), reply'.rows = rows'
        PROVE  Reports'
    <3>1. \A k \in Rounds : CritiquesDue(k)' = IF k <= round THEN 1 ELSE 0
      BY <1>0, <1>r, <2>1, <2>7 DEF CritiquesDue
    <3> HIDE DEF CritiquesDue
    <3> QED BY <2>1, <2>6, <2>7, <3>1 DEF Reports
  <2>8. ASSUME mode.driver = "run", pc' = "refused",
               reply' = NoAnswer(Log(rows', {Entry(Critic, FALSE)}))
        PROVE  Reports'
    <3> DEFINE twice == Log(rows', {Entry(Critic, b)})
    <3>1. reply'.rows = twice
      BY <2>3, <2>8, Zenon DEF NoAnswer
    <3>2. \A v \in 1 .. NumMembers + 2, k \in Rounds :
              Reported(twice, v, k) =
                  Reported(rows', v, k) + (IF v = Critic /\ k = round THEN 1 ELSE 0)
      BY <1>0, <1>r, <2>4, OneReported
    <3> HIDE DEF twice
    <3>3. \A k \in Rounds :
              CritiquesDue(k)' = IF k = round THEN 2 ELSE IF k < round THEN 1 ELSE 0
      BY <1>0, <1>r, <2>1, <2>8 DEF CritiquesDue
    <3>4. \A k \in Rounds :
              /\ \A i \in Members :
                     Reported(twice, i, k) =
                         IF k <= round /\ (k = 0 \/ answer[i] >= 0) THEN 1 ELSE 0
              /\ Reported(twice, Critic, k) = IF k = round THEN 2 ELSE IF k < round THEN 1 ELSE 0
              /\ Reported(twice, Judge, k) = 0
      BY <1>0, <1>r, <2>6, <3>2
    <3> HIDE DEF CritiquesDue
    <3> QED BY <2>1, <2>8, <3>1, <3>3, <3>4 DEF Reports
  <2>9. \/ pc' = "final"
        \/ /\ pc' = "answered" /\ reply' = Fallback(rows')
        \/ /\ mode.driver # "run" /\ pc' = "refused" /\ reply' = NoAnswer(rows')
        \/ /\ pc' = "planned"
           /\ reply' = [author |-> Judge, degraded |-> FALSE, rows |-> rows']
        \/ /\ mode.driver = "run" /\ pc' = "refused"
           /\ reply' = NoAnswer(Log(rows', {Entry(Critic, FALSE)}))
    BY <1>6 DEF CritiqueFails, Conclude
  <2>10. /\ NoAnswer(rows').rows = rows' /\ Fallback(rows').rows = rows'
         /\ [author |-> Judge, degraded |-> FALSE, rows |-> rows'].rows = rows'
    BY Zenon DEF NoAnswer, Fallback
  <2>11. pc' = "final" => Reports'
    BY DEF Reports
  <2> QED BY <2>7, <2>8, <2>9, <2>10, <2>11, Zenon
<1>7. ASSUME pc = "final", NEW b \in BOOLEAN, judge' \in {"success", "failed"}, pc' = "answered",
             reply'.rows = Log(rows, {Entry(Judge, b)}),
             UNCHANGED <<mode, round, answer, session, critic>>
      PROVE  Reports'
  <2> DEFINE new == Log(rows, {Entry(Judge, b)})
  <2>1. \A v \in 1 .. NumMembers + 2, k \in Rounds :
            Reported(new, v, k) = Reported(rows, v, k) + (IF v = Judge /\ k = round THEN 1 ELSE 0)
    BY <1>0, <1>r, OneReported
  <2>2. reply'.rows = new
    BY <1>7
  <2> HIDE DEF new
  <2>3. \A k \in Rounds :
            /\ \A i \in Members :
                   Reported(rows, i, k) = IF k <= round /\ (k = 0 \/ answer[i] >= 0) THEN 1 ELSE 0
            /\ Reported(rows, Critic, k) =
                   IF k < session \/ (critic = "failed" /\ k = round) THEN 1 ELSE 0
            /\ Reported(rows, Judge, k) = 0
    BY <1>7, ReportedSoFar
  <2>4. \A k \in Rounds :
            CritiquesDue(k)' = IF k < session \/ (critic = "failed" /\ k = round) THEN 1 ELSE 0
    BY <1>7 DEF CritiquesDue
  <2>5. \A k \in Rounds :
            /\ \A i \in Members :
                   Reported(new, i, k) = IF k <= round /\ (k = 0 \/ answer[i] >= 0) THEN 1 ELSE 0
            /\ Reported(new, Critic, k) =
                   IF k < session \/ (critic = "failed" /\ k = round) THEN 1 ELSE 0
            /\ Reported(new, Judge, k) = IF k = round THEN 1 ELSE 0
    BY <1>0, <1>r, <2>1, <2>3
  <2> HIDE DEF CritiquesDue
  <2> QED BY <1>7, <2>2, <2>4, <2>5 DEF Reports
<1>8. CASE JudgeAnswers
  <2>1. /\ pc = "final" /\ judge' = "success" /\ pc' = "answered"
        /\ reply' = [author |-> Judge, degraded |-> (critic = "failed"),
                     rows |-> Log(rows, {Entry(Judge, TRUE)})]
        /\ UNCHANGED <<mode, round, answer, session, critic>>
    BY <1>8 DEF JudgeAnswers
  <2>2. PICK b \in BOOLEAN : b = TRUE
    OBVIOUS
  <2>3. reply'.rows = Log(rows, {Entry(Judge, b)})
    BY <2>1, <2>2, Zenon
  <2>4. judge' \in {"success", "failed"}
    BY <2>1
  <2> QED BY <1>7, <2>1, <2>3, <2>4
<1>9. CASE JudgeFails
  <2>1. /\ pc = "final" /\ judge' = "failed" /\ mode.driver = "run"
        /\ UNCHANGED <<mode, round, answer, session, critic>>
        /\ \/ pc' = "answered" /\ reply' = Fallback(Log(rows, {Entry(Judge, FALSE)}))
           \/ /\ pc' = "refused" /\ critic # "failed" /\ session = round + 1
              /\ reply' = NoAnswer(Log(MemberRows, {Entry(Judge, FALSE)}))
    BY <1>0, <1>9 DEF JudgeFails, Phases
  <2>2. PICK b \in BOOLEAN : b = FALSE
    OBVIOUS
  <2>3. ASSUME pc' = "answered" PROVE Reports'
    <3>1. reply'.rows = Log(rows, {Entry(Judge, b)})
      <4>1. reply' = Fallback(Log(rows, {Entry(Judge, FALSE)}))
        BY <2>1, <2>3
      <4> QED BY <2>2, <4>1, Zenon DEF Fallback
    <3>2. judge' \in {"success", "failed"}
      BY <2>1
    <3> QED BY <1>7, <2>1, <2>3, <3>1, <3>2
  <2>4. ASSUME pc' = "refused" PROVE Reports'
    <3> DEFINE new == Log(MemberRows, {Entry(Judge, b)})
    <3>1. reply'.rows = new
      <4>1. reply' = NoAnswer(Log(MemberRows, {Entry(Judge, FALSE)}))
        BY <2>1, <2>4
      <4> QED BY <2>2, <4>1, Zenon DEF NoAnswer
    <3>2. /\ MemberRows \in [Entries -> Nat]
          /\ \A v \in 1 .. NumMembers + 2, k \in Rounds :
                 Reported(MemberRows, v, k) = IF v \in Members THEN Reported(rows, v, k) ELSE 0
      BY <1>0, MemberRowsFacts
    <3>3. \A v \in 1 .. NumMembers + 2, k \in Rounds :
              Reported(new, v, k) =
                  Reported(MemberRows, v, k) + (IF v = Judge /\ k = round THEN 1 ELSE 0)
      BY <1>0, <1>r, <3>2, OneReported
    <3> HIDE DEF new
    <3>4. \A i \in Members, k \in Rounds :
              Reported(rows, i, k) = IF k <= round /\ (k = 0 \/ answer[i] >= 0) THEN 1 ELSE 0
      BY <2>1, ReportedSoFar
    <3>5. \A k \in Rounds : CritiquesDue(k)' = 0
      BY <1>r, <2>1, <2>4 DEF CritiquesDue
    <3>6. \A k \in Rounds :
              /\ \A i \in Members :
                     Reported(new, i, k) = IF k <= round /\ (k = 0 \/ answer[i] >= 0) THEN 1 ELSE 0
              /\ Reported(new, Critic, k) = 0
              /\ Reported(new, Judge, k) = IF k = round THEN 1 ELSE 0
      <4>1. Critic \notin Members /\ Judge \notin Members
        BY Roles
      <4> QED BY <1>0, <1>r, <3>2, <3>3, <3>4, <4>1
    <3> HIDE DEF CritiquesDue
    <3> QED BY <2>1, <2>4, <3>1, <3>5, <3>6 DEF Reports
  <2> QED BY <2>1, <2>3, <2>4
<1>10. ASSUME NEW as \in {"crashed", "cancelled"}, GiveUp(as), Running PROVE Reports'
  <2>1. /\ pc' \in {"crashed", "cancelled"} /\ reply' = NoAnswer(RowsSeen)
        /\ UNCHANGED <<mode, round, answer, session, critic>>
    BY <1>10 DEF GiveUp
  <2>2. reply'.rows = RowsSeen
    BY <2>1, Zenon DEF NoAnswer
  <2>3. CASE RowsSeen = rows
    <3>1. \A k \in Rounds :
              /\ \A i \in Members :
                     /\ Reported(rows, i, k) <=
                            IF k <= round /\ (k = 0 \/ answer[i] >= 0) THEN 1 ELSE 0
                     /\ k < round /\ (k = 0 \/ answer[i] >= 0) => Reported(rows, i, k) = 1
              /\ Reported(rows, Critic, k) <=
                     IF k < session \/ (critic = "failed" /\ k = round) THEN 1 ELSE 0
              /\ k < round => Reported(rows, Critic, k) = 1
              /\ Reported(rows, Judge, k) = 0
      BY <1>10, ReportedInPart
    <3> QED BY <2>1, <2>2, <2>3, <3>1 DEF Reports
  <2>4. CASE RowsSeen = NoRows /\ (mode.driver = "run" \/ round = 0)
    <3>1. \A w \in 1 .. NumMembers + 2, k \in Rounds : Reported(NoRows, w, k) = 0
      BY NoRowsFacts
    <3>2. round = 0 => \A k \in Rounds : ~(k < round)
      BY <1>0, <1>r
    <3> QED BY <1>r, <2>1, <2>2, <2>4, <3>1, <3>2 DEF Reports
  <2>5. mode.driver \in {"run", "stream", "process"}
    BY <1>0 DEF TypeOK, Modes
  <2>6. round > 0 \/ round = 0
    BY <1>0
  <2> QED BY <2>3, <2>4, <2>5, <2>6 DEF RowsSeen
<1>11. CASE UNCHANGED vars
  <2> QED BY <1>0, <1>11 DEF vars, Reports, CritiquesDue
<1> QED
  BY <1>1, <1>2, <1>3, <1>4, <1>5, <1>6, <1>8, <1>9, <1>10, <1>11, OverIsOver
  DEF Next, StrategyStep, Crash, Cancelled

-----------------------------------------------------------------------------
(* The theorems.                                                           *)

LEMMA Initially == Init => IInv
<1> SUFFICES ASSUME Init PROVE IInv
  OBVIOUS
<1>1. /\ mode \in Modes /\ pc = "members" /\ round = 0 /\ taken = {} /\ conf = <<>>
      /\ session = 0 /\ critic = "none" /\ judge = "none" /\ rows = NoRows /\ reply = NoReply
      /\ verdict = NoVerdict
      /\ call = [i \in Members |-> "calling"] /\ answer = [i \in Members |-> -1]
  BY DEF Init
<1>2. /\ \A w \in 1 .. NumMembers + 2, k \in Rounds :
             /\ Reported(rows, w, k) = 0 /\ Won(rows, w, k) = 0 /\ Lost(rows, w, k) = 0
      /\ rows \in [Entries -> Nat]
  BY <1>1 DEF NoRows, Reported, Won, Lost, Entries
<1>3. TypeOK
  <2>1. reply \in Replies
    BY <1>1, <1>2, ReplyTypes, Zenon DEF NoReply
  <2>2. -1 \in -1 .. MaxRounds - 1 /\ 0 \in Rounds /\ 0 \in 0 .. MaxRounds
    BY Roles
  <2>3. verdict \in Verdicts /\ conf \in Seq(0 .. Levels)
    BY <1>1 DEF Verdicts
  <2> QED BY <1>1, <1>2, <2>1, <2>2, <2>3 DEF TypeOK, Replies
<1>4. Phases /\ RoundZeroHeld /\ TakenHaveEnded
  BY <1>1 DEF Phases, RoundZeroHeld, TakenHaveEnded
<1>5. LogSoFar
  <2>1. \A k \in Rounds : k \in Nat /\ (k <= 0 => k = 0)
    BY Roles
  <2> QED BY <1>1, <1>2, <2>1, Roles DEF LogSoFar
<1>6. AnswersSoFar
  BY <1>1, <1>2, Roles DEF AnswersSoFar, LatestBefore
<1>7. RoundsAreJustified
  BY <1>1 DEF RoundsAreJustified, Rising, Agreed, NoVerdict
<1>8. DegradedTellsTheTruth /\ Reports
  BY <1>1 DEF DegradedTellsTheTruth, Reports
<1> QED
  BY <1>3, <1>4, <1>5, <1>6, <1>7, <1>8 DEF IInv

(* The inductive invariant holds whatever the scheduler does.              *)
THEOREM Invariance == Safety => []IInv
<1>1. Init => IInv
  BY Initially
<1>2. IInv /\ [Next]_vars => IInv'
  BY TypeStep, LoopStep, LogStep, AnswersStep, DegradedStep, ReportStep DEF IInv
<1> QED
  BY <1>1, <1>2, PTL DEF Safety

(* Every variable of a run keeps its type.                                 *)
THEOREM TypeCorrect == Spec => []TypeOK
<1>1. IInv => TypeOK
  BY DEF IInv
<1> QED
  BY <1>1, Invariance, PTL DEF Spec

(* The arbiter judges the latest answers: _iterate merges each round into  *)
(* ok before it asks, whoever failed to improve in between.                *)
THEOREM LatestAnswersAreJudged == Spec => []AnswersAreLatest
<1>1. IInv => AnswersAreLatest
  <2> SUFFICES ASSUME IInv, pc \in {"critique", "final", "answered", "planned"},
                      NEW i \in Members
               PROVE  LET succeeded == {k \in Rounds :
                                            rows[[who |-> i, round |-> k, ok |-> TRUE]] > 0}
                      IN  /\ answer[i] >= 0 <=> 0 \in succeeded
                          /\ answer[i] >= 0 =>
                                 answer[i] \in succeeded /\ \A k \in succeeded : k <= answer[i]
    BY DEF AnswersAreLatest
  <2> DEFINE succeeded == {k \in Rounds : Won(rows, i, k) > 0}
  <2>1. /\ LatestBefore(i, round + 1) /\ round \in Nat
        /\ answer[i] \in -1 .. MaxRounds - 1
        /\ 0 \in Rounds /\ \A k \in Rounds : k \in Nat
    BY Roles DEF IInv, TypeOK, AnswersSoFar
  <2>2. answer[i] >= 0 <=> 0 \in succeeded
    BY <2>1 DEF LatestBefore
  <2>3. ASSUME answer[i] >= 0
        PROVE  answer[i] \in succeeded /\ \A k \in succeeded : k <= answer[i]
    <3>1. answer[i] \in Rounds /\ Won(rows, i, answer[i]) > 0
      BY <2>1, <2>3 DEF LatestBefore, Rounds
    <3>2. ASSUME NEW k \in Rounds, Won(rows, i, k) > 0 PROVE k <= answer[i]
      <4>1. ~(k > round)
        BY <2>1, <3>2 DEF LatestBefore
      <4>2. k < round + 1
        BY <2>1, <4>1
      <4> QED BY <2>1, <3>2, <4>2 DEF LatestBefore
    <3> QED BY <3>1, <3>2
  <2> QED BY <2>2, <2>3 DEF Won
<1> QED
  BY <1>1, Invariance, PTL DEF Spec

(* The loop of _iterate goes on and ends for a reason of _should_finish.   *)
THEOREM RoundsHaveAReason == Spec => []RoundsAreJustified
<1>1. IInv => RoundsAreJustified
  BY DEF IInv
<1> QED
  BY <1>1, Invariance, PTL DEF Spec

(* StrategyResult.degraded tells of every failure of the arbiter, and of   *)
(* nothing else; a fallback quotes a member that did answer.               *)
THEOREM DegradedIsTrue == Spec => []DegradedTellsTheTruth
<1>1. IInv => DegradedTellsTheTruth
  BY DEF IInv
<1> QED
  BY <1>1, Invariance, PTL DEF Spec

(* Whatever path a run takes to its end, its result or its error reports   *)
(* the calls it made, each as often as the code enters it.                 *)
THEOREM CallsAreReported == Spec => []EveryCallReported
<1>1. ASSUME IInv PROVE EveryCallReported
  <2>1. /\ TypeOK /\ Reports /\ reply.rows \in [Entries -> Nat] /\ round \in Nat
        /\ Critic \in 1 .. NumMembers + 2 /\ Judge \in 1 .. NumMembers + 2
    BY <1>1, Roles DEF IInv, TypeOK
  <2>2. ASSUME NEW c \in AllCalls
        PROVE  \E w \in 1 .. NumMembers + 2, k \in Rounds :
                   c = <<w, k>> /\ c[1] = w /\ c[2] = k /\ RowsOf(c) = Reported(reply.rows, w, k)
    <3>1. PICK w \in 1 .. NumMembers + 2, k \in Rounds : c = <<w, k>>
      BY DEF AllCalls
    <3>2. c[1] = w /\ c[2] = k
      BY <3>1
    <3> QED BY <3>1, <3>2 DEF RowsOf, Reported, Won, Lost
  <2>3. ASSUME NEW w \in 1 .. NumMembers + 2, NEW k \in Rounds
        PROVE  /\ w \in Members \/ w = Critic \/ w = Judge
               /\ Critic \notin Members /\ Judge \notin Members /\ Critic # Judge
               /\ w \in Members =>
                      (<<w, k>> \in Made <=> (k <= round /\ (k = 0 \/ answer[w] >= 0)))
               /\ w = Critic =>
                      (<<w, k>> \in Made <=> (k < session \/ (critic = "failed" /\ k = round)))
               /\ w = Judge => (<<w, k>> \in Made <=> (judge \in {"success", "failed"} /\ k = round))
               /\ Reported(reply.rows, w, k) \in Nat
    <3>1. <<w, k>> \in Made <=>
               \/ w \in Members /\ (k = 0 \/ (answer[w] >= 0 /\ k <= round))
               \/ w = Critic /\ (k < session \/ (critic = "failed" /\ k = round))
               \/ w = Judge /\ judge \in {"success", "failed"} /\ k = round
      BY <2>1, MadeCases
    <3>2. Reported(reply.rows, w, k) \in Nat
      BY <2>1, Counts DEF Reported
    <3> QED BY <2>1, <3>1, <3>2, Roles
  <2>4. ASSUME pc \in {"answered", "planned", "refused"}, NEW c \in AllCalls
        PROVE  RowsOf(c) = CASE c \notin Made -> 0
                             [] c \in Made /\ mode.driver = "run" /\ pc = "refused"
                                /\ c[1] = Critic ->
                                    (IF critic = "failed" /\ c[2] = round THEN 2
                                     ELSE IF judge = "failed" THEN 0 ELSE 1)
                             [] OTHER -> 1
    <3>1. PICK w \in 1 .. NumMembers + 2, k \in Rounds :
              c = <<w, k>> /\ c[1] = w /\ c[2] = k /\ RowsOf(c) = Reported(reply.rows, w, k)
      BY <2>2
    <3>2. CASE w \in Members
      <4>1. Reported(reply.rows, w, k) = IF k <= round /\ (k = 0 \/ answer[w] >= 0) THEN 1 ELSE 0
        BY <2>1, <2>4, <3>2 DEF Reports
      <4> QED BY <2>3, <3>1, <3>2, <4>1
    <3>3. CASE w = Critic
      <4>1. Reported(reply.rows, w, k) = CritiquesDue(k)
        BY <2>1, <2>4, <3>3 DEF Reports
      <4> QED BY <2>3, <3>1, <3>3, <4>1 DEF CritiquesDue
    <3>4. CASE w = Judge
      <4>1. Reported(reply.rows, w, k) = IF judge \in {"success", "failed"} /\ k = round THEN 1 ELSE 0
        BY <2>1, <2>4, <3>4 DEF Reports
      <4> QED BY <2>3, <3>1, <3>4, <4>1
    <3> QED BY <2>3, <3>2, <3>3, <3>4
  <2>5. ASSUME pc \in {"crashed", "cancelled"}, NEW c \in AllCalls
        PROVE  /\ RowsOf(c) <= IF c \in Made THEN 1 ELSE 0
               /\ mode.driver # "run" /\ c \in Made /\ c[2] < round => RowsOf(c) = 1
    <3>1. PICK w \in 1 .. NumMembers + 2, k \in Rounds :
              c = <<w, k>> /\ c[1] = w /\ c[2] = k /\ RowsOf(c) = Reported(reply.rows, w, k)
      BY <2>2
    <3>2. CASE w \in Members
      <4>1. /\ Reported(reply.rows, w, k) <=
                   IF k <= round /\ (k = 0 \/ answer[w] >= 0) THEN 1 ELSE 0
            /\ mode.driver # "run" /\ k < round /\ (k = 0 \/ answer[w] >= 0) =>
                   Reported(reply.rows, w, k) = 1
        BY <2>1, <2>5, <3>2 DEF Reports
      <4> QED BY <2>3, <3>1, <3>2, <4>1
    <3>3. CASE w = Critic
      <4>1. /\ Reported(reply.rows, w, k) <=
                   IF k < session \/ (critic = "failed" /\ k = round) THEN 1 ELSE 0
            /\ mode.driver # "run" /\ k < round => Reported(reply.rows, w, k) = 1
        BY <2>1, <2>5, <3>3 DEF Reports
      <4> QED BY <2>3, <3>1, <3>3, <4>1
    <3>4. CASE w = Judge
      <4>1. Reported(reply.rows, w, k) = 0
        BY <2>1, <2>5, <3>4 DEF Reports
      <4>2. ~(k = round /\ k < round)
        BY <2>1
      <4> QED BY <2>3, <3>1, <3>4, <4>1, <4>2
    <3> QED BY <2>3, <3>2, <3>3, <3>4
  <2> QED BY <2>4, <2>5 DEF EveryCallReported
<1> QED
  BY <1>1, Invariance, PTL DEF Spec

(* A call is reported once, but for the critiques before a strict error of *)
(* run: the one that failed has two rows, and when the final call failed   *)
(* they have none. The answers that are judged are the latest.             *)
THEOREM RowsAreTrue == Spec => []RowsTellTheRun
BY CallsAreReported, LatestAnswersAreJudged, PTL DEF RowsTellTheRun

=============================================================================
