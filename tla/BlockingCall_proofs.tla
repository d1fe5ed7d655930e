------------------------ MODULE BlockingCall_proofs ------------------------
(***************************************************************************)
(* Proofs about BlockingCall, for any set of requests and any split into   *)
(* passthrough and pipeline requests.                                      *)
(***************************************************************************)
EXTENDS BlockingCall, TLAPS

-----------------------------------------------------------------------------
(* The inductive invariant says, for each place of the handler, who may    *)
(* still write the trace: nobody before the first commit, the handler      *)
(* until it is over, and after a hand-over the detached task alone.        *)

(* Nothing is visible before the first commit.                             *)
Invisible(r) ==
    handler[r] \in {"idle", "starting", "aborted"} =>
        /\ status[r] = "none"
        /\ calls[r] = <<>>
        /\ work[r] = "none"

(* While the handler may still write, the trace is pending and nobody else *)
(* holds it.                                                               *)
HandlerHolds(r) ==
    /\ handler[r] \in {"waiting", "writing", "errored"} =>
           status[r] = "pending" /\ calls[r] = <<>>
    /\ handler[r] # "cancelled" => persister[r] = "none"
    /\ handler[r] = "writing" => work[r] \in {"success", "degraded", "failed"}

(* The answer was sent after the commit of what it says.                   *)
Answered(r) ==
    /\ handler[r] = "replied"  => status[r] \in {"success", "degraded"} /\ calls[r] = Rows
    /\ handler[r] = "rejected" => status[r] = "failed"
    /\ handler[r] = "errored"  => work[r] = "crashed"

(* A cancelled handler leaves the trace to the detached task, which finds  *)
(* it untouched.                                                           *)
Left(r) ==
    /\ handler[r] = "cancelled" => cancelled[r]
    /\ persister[r] \in {"created", "dead"} => status[r] = "pending" /\ calls[r] = <<>>
    /\ persister[r] = "done" => status[r] \in {"success", "degraded", "failed"}

(* No request ends while the task it started runs, and the members' calls  *)
(* are out, uncancelled and not left by their gather, only while it runs.  *)
WorkStopped(r) ==
    /\ handler[r] \in Over => work[r] \notin {"running", "cancelling"}
    /\ members[r] = "out" => work[r] \in {"running", "cancelling"}

CallInv == \A r \in Requests :
    Invisible(r) /\ HandlerHolds(r) /\ Answered(r) /\ Left(r) /\ WorkStopped(r)

(* RowsOnce is inductive together with the above.                          *)
IInv == TypeOK /\ CallInv /\ RowsOnce

-----------------------------------------------------------------------------
(* What one transaction does to the log.                                   *)
LEMMA WriteEffect ==
    ASSUME TypeOK, NEW r \in Requests, NEW s \in LogStatus, NEW rows \in {<<>>, Rows},
           Write(r, s, rows)
    PROVE  /\ status' \in [Requests -> {"none", "pending"} \cup LogStatus]
           /\ calls' \in [Requests -> Seq({"calls"})]
           /\ status'[r] = s
           /\ calls[r] = <<>> => calls'[r] = rows
           /\ \A q \in Requests \ {r} : status'[q] = status[q] /\ calls'[q] = calls[q]
<1>1. rows \in Seq({"calls"})
  <2>1. <<"calls">> \in Seq({"calls"}) /\ <<>> \in Seq({"calls"})
    OBVIOUS
  <2> QED
    BY <2>1 DEF Rows
<1>2. calls[r] \o rows \in Seq({"calls"}) /\ (calls[r] = <<>> => calls[r] \o rows = rows)
    BY <1>1 DEF TypeOK
<1>3. calls' = [calls EXCEPT ![r] = calls[r] \o rows] /\ status' = [status EXCEPT ![r] = s]
    BY DEF Write
<1> QED
    BY <1>2, <1>3 DEF TypeOK

(* Every action keeps every variable in its type.  The status that the     *)
(* handler writes is the result of work: that this is a status of the log  *)
(* needs the invariant.                                                    *)
LEMMA TypeOKStep == IInv /\ [Next]_vars => TypeOK'
<1> SUFFICES ASSUME IInv, [Next]_vars PROVE TypeOK'
    OBVIOUS
<1>a. TypeOK /\ CallInv
    BY DEF IInv
<1> USE <1>a
<1> USE DEF TypeOK, LogStatus, Over, Ended, Rows
<1>1. ASSUME NEW r \in Requests, Accept(r) PROVE TypeOK'
    BY <1>1 DEF Accept, Move
<1>2. ASSUME NEW r \in Requests, ContextFails(r) PROVE TypeOK'
    BY <1>2 DEF ContextFails, Move, Write
<1>3. ASSUME NEW r \in Requests, StartAborts(r) PROVE TypeOK'
    BY <1>3 DEF StartAborts, Move
<1>4. ASSUME NEW r \in Requests, Launch(r) PROVE TypeOK'
    BY <1>4 DEF Launch, Move, Write
<1>5. ASSUME NEW r \in Requests, WorkEnds(r) PROVE TypeOK'
  <2>1. PICK result \in Ended : work' = [work EXCEPT ![r] = result]
    BY <1>5 DEF WorkEnds, Results
  <2>2. members' \in [Requests -> {"none", "out", "stopping", "left"}]
    BY <1>5 DEF WorkEnds
  <2> QED
    BY <1>5, <2>1, <2>2 DEF WorkEnds
<1>6. ASSUME NEW r \in Requests, WorkCancelled(r) PROVE TypeOK'
    BY <1>6 DEF WorkCancelled
<1>7. ASSUME NEW r \in Requests, CancelWaiting(r) PROVE TypeOK'
    BY <1>7 DEF CancelWaiting
<1>8. ASSUME NEW r \in Requests, Resume(r) PROVE TypeOK'
    BY <1>8 DEF Resume, Move
<1>9. ASSUME NEW r \in Requests, CommitAndReply(r) PROVE TypeOK'
  <2>1. work[r] \in LogStatus
    BY <1>9 DEF CommitAndReply, CallInv, HandlerHolds
  <2>2. /\ status' \in [Requests -> {"none", "pending"} \cup LogStatus]
        /\ calls' \in [Requests -> Seq({"calls"})]
    BY <1>9, <2>1, WriteEffect DEF CommitAndReply
  <2> QED
    BY <1>9, <2>2 DEF CommitAndReply, Move
<1>10. ASSUME NEW r \in Requests, ResumeCrashed(r) PROVE TypeOK'
    BY <1>10 DEF ResumeCrashed, Move
<1>11. ASSUME NEW r \in Requests, CancelWriting(r) PROVE TypeOK'
    BY <1>11 DEF CancelWriting, Move
<1>12. ASSUME NEW r \in Requests, HandOver(r) PROVE TypeOK'
    BY <1>12 DEF HandOver, Move
<1>13. ASSUME NEW r \in Requests, LogCancellation(r) PROVE TypeOK'
    BY <1>13 DEF LogCancellation, Write, Move
<1>14. ASSUME NEW r \in Requests, DetachedPersist(r) PROVE TypeOK'
  <2>1. PICK s \in LogStatus, rows \in {<<>>, Rows} : Write(r, s, rows)
    BY <1>14 DEF DetachedPersist
  <2>2. /\ status' \in [Requests -> {"none", "pending"} \cup LogStatus]
        /\ calls' \in [Requests -> Seq({"calls"})]
    BY <2>1, WriteEffect
  <2> QED
    BY <1>14, <2>2 DEF DetachedPersist
<1>15. ASSUME NEW r \in Requests, DetachedDies(r) PROVE TypeOK'
    BY <1>15 DEF DetachedDies
<1>17. ASSUME NEW r \in Requests, GatherRaises(r) PROVE TypeOK'
    BY <1>17 DEF GatherRaises
<1>18. ASSUME NEW r \in Requests, MembersEnd(r) PROVE TypeOK'
    BY <1>18 DEF MembersEnd
<1>16. CASE UNCHANGED vars
    BY <1>16 DEF vars
<1> QED
    BY <1>1, <1>2, <1>3, <1>4, <1>5, <1>6, <1>7, <1>8,
       <1>9, <1>10, <1>11, <1>12, <1>13, <1>14, <1>15, <1>16, <1>17, <1>18
       DEF Next, Handler, Work, Members, Persister, Client

(* Every action keeps the invariant of the request it acts on, and leaves  *)
(* the others alone.                                                       *)
LEMMA CallInvStep == IInv /\ [Next]_vars => CallInv' /\ RowsOnce'
<1> DEFINE Rowed(r) ==
           /\ status[r] \in {"success", "degraded"} => calls[r] = Rows
           /\ status[r] \in {"none", "pending", "client_cancelled"} => calls[r] = <<>>
<1> SUFFICES ASSUME IInv, [Next]_vars,
                    NEW q \in Requests
             PROVE  /\ (Invisible(q) /\ HandlerHolds(q) /\ Answered(q))'
                    /\ (Left(q) /\ WorkStopped(q) /\ Rowed(q))'
    BY DEF CallInv, RowsOnce
<1> DEFINE Good == /\ Invisible(q) /\ HandlerHolds(q) /\ Answered(q)
                   /\ Left(q) /\ WorkStopped(q) /\ Rowed(q)
<1> USE DEF IInv, TypeOK, CallInv, RowsOnce, Invisible, HandlerHolds, Answered, Left,
            WorkStopped, LogStatus, Over, Ended, Rows
<1>1. ASSUME NEW r \in Requests, Accept(r) PROVE Good'
    BY <1>1 DEF Accept, Move
<1>2. ASSUME NEW r \in Requests, ContextFails(r) PROVE Good'
    BY <1>2 DEF ContextFails, Move, Write
<1>3. ASSUME NEW r \in Requests, StartAborts(r) PROVE Good'
    BY <1>3 DEF StartAborts, Move
<1>4. ASSUME NEW r \in Requests, Launch(r) PROVE Good'
    BY <1>4 DEF Launch, Move, Write
<1>5. ASSUME NEW r \in Requests, WorkEnds(r) PROVE Good'
    BY <1>5 DEF WorkEnds, Results
<1>6. ASSUME NEW r \in Requests, WorkCancelled(r) PROVE Good'
    BY <1>6 DEF WorkCancelled
<1>7. ASSUME NEW r \in Requests, CancelWaiting(r) PROVE Good'
    BY <1>7 DEF CancelWaiting
<1>8. ASSUME NEW r \in Requests, Resume(r) PROVE Good'
    BY <1>8 DEF Resume, Move
<1>9. ASSUME NEW r \in Requests, CommitAndReply(r) PROVE Good'
  <2>1. CASE r # q
    BY <1>9, <2>1 DEF CommitAndReply, Write, Move
  <2>2. CASE r = q
    <3>1. /\ work[q] \in LogStatus /\ work[q] # "client_cancelled"
          /\ calls[q] = <<>> /\ Write(q, work[q], Rows)
      BY <1>9, <2>2 DEF CommitAndReply
    <3>2. status'[q] = work[q] /\ calls'[q] = Rows
      BY <3>1, WriteEffect
    <3>3. handler'[q] = IF work[q] = "failed" THEN "rejected" ELSE "replied"
      BY <1>9, <2>2 DEF CommitAndReply, Move
    <3>4. UNCHANGED <<work, members, persister, cancelled>> /\ persister[q] = "none"
      BY <1>9, <2>2 DEF CommitAndReply
    <3> QED
      BY <3>1, <3>2, <3>3, <3>4
  <2> QED
    BY <2>1, <2>2
<1>10. ASSUME NEW r \in Requests, ResumeCrashed(r) PROVE Good'
    BY <1>10 DEF ResumeCrashed, Move
<1>11. ASSUME NEW r \in Requests, CancelWriting(r) PROVE Good'
    BY <1>11 DEF CancelWriting, Move
<1>12. ASSUME NEW r \in Requests, HandOver(r) PROVE Good'
    BY <1>12 DEF HandOver, Move
<1>13. ASSUME NEW r \in Requests, LogCancellation(r) PROVE Good'
    BY <1>13 DEF LogCancellation, Write, Move
<1>14. ASSUME NEW r \in Requests, DetachedPersist(r) PROVE Good'
  <2>1. PICK s \in {"success", "degraded", "failed"}, rows \in {<<>>, Rows} :
            Write(r, s, rows) /\ (s \in {"success", "degraded"} => rows = Rows)
    BY <1>14 DEF DetachedPersist
  <2>2. /\ status'[r] = s /\ calls'[r] = rows
        /\ \A t \in Requests \ {r} : status'[t] = status[t] /\ calls'[t] = calls[t]
    <3>1. calls[r] = <<>>
      BY <1>14 DEF DetachedPersist
    <3>2. status \in [Requests -> {"none", "pending"} \cup LogStatus]
          /\ calls \in [Requests -> Seq({"calls"})]
      OBVIOUS
    <3>3. calls[r] \o rows = rows
      BY <3>1
    <3> QED
      BY ONLY <2>1, <3>2, <3>3 DEF Write, LogStatus
  <2>3. /\ persister[r] = "created" /\ persister' = [persister EXCEPT ![r] = "done"]
        /\ UNCHANGED <<handler, cancelled, work, members>>
    BY <1>14 DEF DetachedPersist
  <2>4. CASE r # q
    BY <2>2, <2>3, <2>4
  <2>5. CASE r = q
    <3>1. handler[q] = "cancelled"
      BY <2>3, <2>5
    <3> QED
      BY <2>1, <2>2, <2>3, <2>5, <3>1
  <2> QED
    BY <2>4, <2>5
<1>15. ASSUME NEW r \in Requests, DetachedDies(r) PROVE Good'
    BY <1>15 DEF DetachedDies
<1>17. ASSUME NEW r \in Requests, GatherRaises(r) PROVE Good'
    BY <1>17 DEF GatherRaises
<1>18. ASSUME NEW r \in Requests, MembersEnd(r) PROVE Good'
    BY <1>18 DEF MembersEnd
<1>16. CASE UNCHANGED vars
    BY <1>16 DEF vars
<1> QED
    BY <1>1, <1>2, <1>3, <1>4, <1>5, <1>6, <1>7, <1>8,
       <1>9, <1>10, <1>11, <1>12, <1>13, <1>14, <1>15, <1>16, <1>17, <1>18
       DEF Next, Handler, Work, Members, Persister, Client

-----------------------------------------------------------------------------
(* The theorems *)

(* The invariant, with the type invariant, holds in every reachable state. *)
THEOREM Invariance == Spec => []IInv
<1>1. Init => IInv
    BY DEF Init, IInv, TypeOK, CallInv, Invisible, HandlerHolds, Answered, Left,
           WorkStopped, RowsOnce, LogStatus, Over, Ended, Rows
<1>2. IInv /\ [Next]_vars => IInv'
    BY TypeOKStep, CallInvStep DEF IInv
<1> QED
    BY <1>1, <1>2, PTL DEF Spec

(* Every reachable state of a non-streaming request is well typed.         *)
THEOREM TypeCorrect == Spec => []TypeOK
<1>1. IInv => TypeOK
    BY DEF IInv
<1> QED
    BY <1>1, Invariance, PTL

(* AnswerIsLogged: an answer that was sent is, and stays, what the trace   *)
(* tells.                                                                  *)
THEOREM AnswersAreLogged == Spec => []AnswerIsLogged
<1>1. IInv => AnswerIsLogged
    BY DEF IInv, CallInv, Answered, AnswerIsLogged
<1> QED
    BY <1>1, Invariance, PTL

(* RowsOnce: whichever task writes the trace, the call rows are written    *)
(* exactly once.                                                           *)
THEOREM RowsAreWrittenOnce == Spec => []RowsOnce
<1>1. IInv => RowsOnce
    BY DEF IInv
<1> QED
    BY <1>1, Invariance, PTL

(* NoOrphanWork: a request that is over leaves behind no running work and  *)
(* no member's call that nobody has cancelled, but for those of a gather   *)
(* that raised.                                                            *)
THEOREM WorkNeverOutlivesRequest == Spec => []NoOrphanWork
<1>1. IInv => NoOrphanWork
    BY DEF IInv, CallInv, WorkStopped, NoOrphanWork
<1> QED
    BY <1>1, Invariance, PTL

(* PendingOnlyAfterTrouble: a trace is left pending only by a cancellation *)
(* or by an exception that is no gateway error.                            *)
THEOREM PendingNeedsTrouble == Spec => []PendingOnlyAfterTrouble
<1>1. IInv => PendingOnlyAfterTrouble
    BY DEF IInv, TypeOK, CallInv, Invisible, HandlerHolds, Answered, Left, Over, PendingOnlyAfterTrouble
<1> QED
    BY <1>1, Invariance, PTL

(* The log tells how every request ended.                                  *)
THEOREM EndsAreLogged == Spec => []EndIsLogged
BY AnswersAreLogged, PendingNeedsTrouble, PTL DEF EndIsLogged

(* RefinesTraceLog: handler and detached task together write the call log  *)
(* only as TraceLog allows.                                                *)
THEOREM Refinement == Spec => RefinesTraceLog
<1>1. Init => Log!LogInit
    BY DEF Init, Log!LogInit
<1>2. IInv /\ [Next]_vars => [Log!LogNext]_(Log!logVars)
  <2> SUFFICES ASSUME IInv, [Next]_vars PROVE Log!LogNext \/ UNCHANGED logVars
      BY DEF logVars, Log!logVars
  <2>a. ASSUME NEW r \in Requests, NEW s \in {"pending"} \cup LogStatus, NEW rows \in {<<>>, Rows},
               Log!Begin(r, s, rows) \/ Log!Finish(r, s, rows)
        PROVE  Log!LogNext
      BY <2>a DEF Log!LogNext, Log!Terminal, LogStatus
  <2>b. ASSUME NEW r \in Requests, NEW s \in LogStatus, NEW rows \in {<<>>, Rows},
               status[r] = "pending", Write(r, s, rows)
        PROVE  Log!LogNext
    <3>1. Log!Finish(r, s, rows)
      BY <2>b DEF Write, Log!Finish, Log!Terminal, LogStatus
    <3> QED
      BY <3>1, <2>a
  <2>c. ASSUME NEW r \in Requests, NEW s \in {"pending"} \cup LogStatus,
               status[r] = "none", calls[r] = <<>>, Write(r, s, <<>>)
        PROVE  Log!LogNext
    <3>1. Log!Begin(r, s, <<>>)
      BY <2>c DEF Write, Log!Begin, Log!Terminal, LogStatus, IInv, TypeOK
    <3> QED
      BY <3>1, <2>a
  <2>1. ASSUME NEW r \in Requests, ContextFails(r) \/ Launch(r) PROVE Log!LogNext
      BY <2>1, <2>c DEF ContextFails, Launch, IInv, CallInv, Invisible, LogStatus
  <2>2. ASSUME NEW r \in Requests, CommitAndReply(r) PROVE Log!LogNext
      BY <2>2, <2>b DEF CommitAndReply, IInv, CallInv, HandlerHolds, LogStatus
  <2>3. ASSUME NEW r \in Requests, LogCancellation(r) PROVE Log!LogNext
      BY <2>3, <2>b DEF LogCancellation, IInv, CallInv, HandlerHolds, LogStatus
  <2>4. ASSUME NEW r \in Requests, DetachedPersist(r) PROVE Log!LogNext
      BY <2>4, <2>b DEF DetachedPersist, IInv, CallInv, Left, LogStatus
  <2>5. ASSUME NEW r \in Requests,
               \/ Accept(r) \/ StartAborts(r) \/ Work(r) \/ Members(r) \/ CancelWaiting(r) \/ Resume(r)
               \/ ResumeCrashed(r) \/ CancelWriting(r) \/ HandOver(r) \/ DetachedDies(r)
        PROVE  UNCHANGED logVars
      BY <2>5 DEF logVars, Accept, StartAborts, Work, WorkEnds, WorkCancelled, Members, GatherRaises, MembersEnd,
                  CancelWaiting, Resume, ResumeCrashed, CancelWriting, HandOver, DetachedDies
  <2>6. CASE UNCHANGED vars
      BY <2>6 DEF vars, logVars
  <2> QED
      BY <2>1, <2>2, <2>3, <2>4, <2>5, <2>6 DEF Next, Handler, Persister, Client
<1> QED
    BY <1>1, <1>2, Invariance, PTL DEF Spec, RefinesTraceLog, Log!LogSpec
=============================================================================
