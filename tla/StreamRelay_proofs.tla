------------------------- MODULE StreamRelay_proofs -------------------------
(***************************************************************************)
(* Proofs about StreamRelay, for any set of requests, any split into       *)
(* passthrough and pipeline requests and any number of chunks.             *)
(***************************************************************************)
EXTENDS StreamRelay, TLAPS

-----------------------------------------------------------------------------
(* The inductive invariant.  FinalRowAgrees alone is not inductive: it     *)
(* needs that nobody writes outcome once persist has read it, which holds  *)
(* because persist waits for the pump and runs after the generator.        *)

(* Before its stream opens a request has no tasks, and no visible row      *)
(* until the handler commits one; nothing is sent before the response is   *)
(* the framework's.                                                        *)
NotOpened(r) ==
    /\ handler[r] \in {"idle", "preparing", "rejected", "aborted"} =>
           pump[r] = "none" /\ sent[r] = <<>>
    /\ handler[r] # "streaming" => ferry[r] = "none" /\ draft[r] = <<>>
    /\ handler[r] \in {"opened", "streaming", "dropped"} => pump[r] # "none"
    /\ handler[r] \in {"opened", "dropped"} => status[r] = "pending"
    /\ handler[r] \in {"idle", "preparing", "aborted"} => status[r] = "none"
    /\ handler[r] = "rejected" => status[r] = "failed"
    /\ pump[r] \in {"none", "created"} => sent[r] = <<>>

(* The row persist has built is the one of the outcome as it stands, and   *)
(* neither the pump nor the generator is left to change that outcome.      *)
DraftIsFinal(r) ==
    draft[r] # <<>> => /\ pump[r] = "ended"
                       /\ ResponseOver(r)
                       /\ draft[r] = <<FinalRow(outcome[r])>>

(* A stream with a terminal trace was written by persist.                  *)
LoggedIsFinal(r) ==
    handler[r] = "streaming" /\ status[r] \in OutcomeStatus =>
        /\ draft[r] # <<>>
        /\ status[r] = outcome[r]
        /\ calls[r] # <<>>
        /\ calls[r][Len(calls[r])] = FinalRow(status[r])

LogInv == \A r \in Requests : NotOpened(r) /\ DraftIsFinal(r) /\ LoggedIsFinal(r)

(* The queue: the sentinel is its last item and put by the ending pump;    *)
(* the closing lines tell how the upstream stream ended.                   *)
EndIsLast(r) ==
    /\ \A i \in 1..Len(sent[r]) :
           sent[r][i] = "end" => i = Len(sent[r]) /\ pump[r] = "ended"
    /\ got[r] <= Len(sent[r])
    /\ ferry[r] = "drained" => got[r] = Len(sent[r]) /\ pump[r] = "ended"

ClosingLines(r) ==
    /\ pump[r] # "ended" => /\ ~Sent(r, "stop")
                            /\ ~Sent(r, "done")
                            /\ outcome[r] = "client_cancelled"
    /\ detach => pump[r] # "cancelling"
    /\ detach => (outcome[r] = "success" <=> Sent(r, "stop"))
    /\ ferry[r] # "closed" /\ Sent(r, "done") /\ ~Sent(r, "error") =>
           outcome[r] = "success"
    /\ ~detach /\ ferry[r] = "closed" =>
           /\ outcome[r] = "client_cancelled"
           /\ pump[r] \in {"cancelling", "ended"}

QueueInv == \A r \in Requests : EndIsLast(r) /\ ClosingLines(r)

IInv == TypeOK /\ LogInv /\ QueueInv

-----------------------------------------------------------------------------
(* Type correctness *)

(* A one-element sequence has the type of its element.                     *)
LEMMA SingletonType == ASSUME NEW S, NEW x \in S PROVE <<x>> \in Seq(S)
OBVIOUS

(* Every action keeps every variable in its type: the pump's puts are SSE  *)
(* lines, and persist's draft is a row of the call log.                    *)
LEMMA TypeOKStep == TypeOK /\ [Next]_vars => TypeOK'
<1> SUFFICES ASSUME TypeOK, [Next]_vars PROVE TypeOK'
    OBVIOUS
<1> USE DEF TypeOK, OutcomeStatus, Row, PreRow, FinalRow
<1>1. ASSUME NEW r \in Requests, AcceptPassthrough(r) PROVE TypeOK'
    BY <1>1 DEF AcceptPassthrough, OpenStream
<1>2. ASSUME NEW r \in Requests, AcceptPipeline(r) PROVE TypeOK'
    BY <1>2 DEF AcceptPipeline
<1>3. ASSUME NEW r \in Requests, PrepareSucceeds(r) PROVE TypeOK'
    BY <1>3 DEF PrepareSucceeds, OpenStream
<1>4. ASSUME NEW r \in Requests, PrepareFails(r) PROVE TypeOK'
  <2>1. PICK rows \in {<<>>, <<PreRow>>} : calls' = [calls EXCEPT ![r] = rows]
    BY <1>4 DEF PrepareFails
  <2>2. rows \in Seq(Row)
    <3>1. PreRow \in Row
      OBVIOUS
    <3>2. <<PreRow>> \in Seq(Row)
      BY <3>1, SingletonType
    <3>3. <<>> \in Seq(Row)
      OBVIOUS
    <3> QED
      BY <3>2, <3>3
  <2>3. calls' \in [Requests -> Seq(Row)]
    BY <2>1, <2>2
  <2> QED
    BY <1>4, <2>3 DEF PrepareFails
<1>5. ASSUME NEW r \in Requests, PrepareAborts(r) PROVE TypeOK'
    BY <1>5 DEF PrepareAborts
<1>6. ASSUME NEW r \in Requests, PumpStart(r) PROVE TypeOK'
    BY <1>6 DEF PumpStart, Put, Item
<1>7. ASSUME NEW r \in Requests, PumpChunk(r) PROVE TypeOK'
    BY <1>7, ChunksAssumption DEF PumpChunk, Put, Item
<1>8. ASSUME NEW r \in Requests, PumpFinish(r) PROVE TypeOK'
    BY <1>8 DEF PumpFinish, PumpEnd, Put, Item
<1>9. ASSUME NEW r \in Requests, PumpFail(r) PROVE TypeOK'
  <2>1. FailureLines(r) \in Seq(Item)
    <3>1. <<"error", "done">> \in Seq(Item) /\ <<>> \in Seq(Item)
      BY DEF Item
    <3> QED
      BY <3>1 DEF FailureLines
  <2>2. sent' \in [Requests -> Seq(Item)]
    BY <1>9, <2>1 DEF PumpFail, PumpEnd, Put, Item
  <2> QED
    BY <1>9, <2>2 DEF PumpFail, PumpEnd
<1>10. ASSUME NEW r \in Requests, PumpCrash(r) PROVE TypeOK'
    BY <1>10 DEF PumpCrash, PumpEnd, Put, Item
<1>11. ASSUME NEW r \in Requests, PumpCancelled(r) PROVE TypeOK'
  <2>1. sent' \in [Requests -> Seq(Item)]
    <3>1. CASE sent[r] = <<>>
      BY <1>11, <3>1 DEF PumpCancelled
    <3>2. CASE sent[r] # <<>>
      <4>1. <<"end">> \in Seq(Item)
        BY DEF Item
      <4>2. Put(r, <<"end">>)
        BY <1>11, <3>2 DEF PumpCancelled
      <4> QED
        BY <4>1, <4>2 DEF Put
    <3> QED
      BY <3>1, <3>2
  <2> QED
    BY <1>11, <2>1 DEF PumpCancelled
<1>12. ASSUME NEW r \in Requests, FerryDisconnect(r) PROVE TypeOK'
    BY <1>12 DEF FerryDisconnect
<1>13. ASSUME NEW r \in Requests, FerryAbandon(r) PROVE TypeOK'
    BY <1>13 DEF FerryAbandon
<1>14. ASSUME NEW r \in Requests, FerryStart(r) PROVE TypeOK'
    BY <1>14 DEF FerryStart
<1>15. ASSUME NEW r \in Requests, FerryTake(r) PROVE TypeOK'
    BY <1>15 DEF FerryTake
<1>16. ASSUME NEW r \in Requests, PersistRecord(r) PROVE TypeOK'
    BY <1>16 DEF PersistRecord
<1>17. ASSUME NEW r \in Requests, PersistFinish(r) PROVE TypeOK'
  <2>1. draft[r] \in Seq(Row)
    <3>1. PICK s \in OutcomeStatus : draft[r] = <<FinalRow(s)>>
      BY <1>17 DEF PersistFinish
    <3>2. FinalRow(s) \in Row
      OBVIOUS
    <3> QED
      BY <3>1, <3>2, SingletonType
  <2>2. calls' \in [Requests -> Seq(Row)]
    BY <1>17, <2>1 DEF PersistFinish
  <2> QED
    BY <1>17, <2>2 DEF PersistFinish
<1>18. CASE UNCHANGED vars
    BY <1>18 DEF vars
<1>19. ASSUME NEW r \in Requests, Respond(r) PROVE TypeOK'
    BY <1>19 DEF Respond
<1>20. ASSUME NEW r \in Requests, ResponseLost(r) PROVE TypeOK'
    BY <1>20 DEF ResponseLost
<1> QED
    BY <1>1, <1>2, <1>3, <1>4, <1>5, <1>6, <1>7, <1>8, <1>9, <1>10, <1>11,
       <1>12, <1>13, <1>14, <1>15, <1>16, <1>17, <1>18, <1>19, <1>20
       DEF Next, Handler, Pump, Client, Ferry, Persist

(* Every reachable state is well typed.                                    *)
THEOREM TypeCorrect == Spec => []TypeOK
<1>1. Init => TypeOK
    BY ChunksAssumption DEF Init, TypeOK, OutcomeStatus, Row, Item
<1>2. TypeOK /\ [Next]_vars => TypeOK'
    BY TypeOKStep
<1> QED
    BY <1>1, <1>2, PTL DEF Spec

-----------------------------------------------------------------------------
(* The trace and its last row *)

(* Appending a row makes it the last one.                                  *)
LEMMA LastOfConcat ==
    ASSUME NEW S, NEW s \in Seq(S), NEW x \in S
    PROVE  /\ s \o <<x>> # <<>>
           /\ (s \o <<x>>)[Len(s \o <<x>>)] = x
OBVIOUS

(* Every action keeps LogInv.  A request other than the acting one is left *)
(* alone.                                                                  *)
LEMMA LogInvStep == TypeOK /\ LogInv /\ [Next]_vars => LogInv'
<1> SUFFICES ASSUME TypeOK, LogInv, [Next]_vars,
                    NEW q \in Requests
             PROVE  (NotOpened(q) /\ DraftIsFinal(q) /\ LoggedIsFinal(q))'
    BY DEF LogInv
<1> DEFINE Good == NotOpened(q) /\ DraftIsFinal(q) /\ LoggedIsFinal(q)
<1> USE DEF TypeOK, LogInv, NotOpened, DraftIsFinal, LoggedIsFinal, ResponseOver
<1>1. ASSUME NEW r \in Requests, AcceptPassthrough(r) PROVE Good'
    BY <1>1 DEF AcceptPassthrough, OpenStream, OutcomeStatus
<1>2. ASSUME NEW r \in Requests, AcceptPipeline(r) PROVE Good'
    BY <1>2 DEF AcceptPipeline
<1>3. ASSUME NEW r \in Requests, PrepareSucceeds(r) PROVE Good'
    BY <1>3 DEF PrepareSucceeds, OpenStream, OutcomeStatus
<1>4. ASSUME NEW r \in Requests, PrepareFails(r) PROVE Good'
    BY <1>4 DEF PrepareFails
<1>5. ASSUME NEW r \in Requests, PrepareAborts(r) PROVE Good'
    BY <1>5 DEF PrepareAborts
<1>6. ASSUME NEW r \in Requests, PumpStart(r) PROVE Good'
    BY <1>6 DEF PumpStart, Put
<1>7. ASSUME NEW r \in Requests, PumpChunk(r) PROVE Good'
    BY <1>7 DEF PumpChunk, Put
<1>8. ASSUME NEW r \in Requests, PumpFinish(r) PROVE Good'
    BY <1>8 DEF PumpFinish, PumpEnd, Put
<1>9. ASSUME NEW r \in Requests, PumpFail(r) PROVE Good'
    BY <1>9 DEF PumpFail, PumpEnd, Put
<1>10. ASSUME NEW r \in Requests, PumpCrash(r) PROVE Good'
    BY <1>10 DEF PumpCrash, PumpEnd, Put
<1>11. ASSUME NEW r \in Requests, PumpCancelled(r) PROVE Good'
    BY <1>11 DEF PumpCancelled, Put
<1>12. ASSUME NEW r \in Requests, FerryDisconnect(r) PROVE Good'
    BY <1>12 DEF FerryDisconnect
<1>13. ASSUME NEW r \in Requests, FerryAbandon(r) PROVE Good'
    BY <1>13 DEF FerryAbandon
<1>14. ASSUME NEW r \in Requests, FerryStart(r) PROVE Good'
    BY <1>14 DEF FerryStart
<1>15. ASSUME NEW r \in Requests, FerryTake(r) PROVE Good'
    BY <1>15 DEF FerryTake
<1>16. ASSUME NEW r \in Requests, PersistRecord(r) PROVE Good'
    BY <1>16 DEF PersistRecord
<1>17. ASSUME NEW r \in Requests, PersistFinish(r) PROVE Good'
    BY <1>17 DEF PersistFinish
<1>18. CASE UNCHANGED vars
    BY <1>18 DEF vars
<1>19. ASSUME NEW r \in Requests, Respond(r) PROVE Good'
    BY <1>19 DEF Respond, OutcomeStatus
<1>20. ASSUME NEW r \in Requests, ResponseLost(r) PROVE Good'
    BY <1>20 DEF ResponseLost
<1> QED
    BY <1>1, <1>2, <1>3, <1>4, <1>5, <1>6, <1>7, <1>8, <1>9, <1>10, <1>11, <1>12, <1>13, <1>14, <1>15, <1>16, <1>17, <1>18, <1>19, <1>20
       DEF Next, Handler, Pump, Client, Ferry, Persist

-----------------------------------------------------------------------------
(* The queue *)

Has(s, x) == \E i \in 1..Len(s) : s[i] = x

(* What is in a concatenation is in one of its parts.                      *)
LEMMA InConcat ==
    ASSUME NEW s \in Seq(Item), NEW t \in Seq(Item), NEW x
    PROVE  Has(s \o t, x) <=> Has(s, x) \/ Has(t, x)
<1> DEFINE u == s \o t
<1>1. /\ Len(u) = Len(s) + Len(t)
      /\ \A i \in 1..Len(s) : u[i] = s[i]
      /\ \A j \in 1..Len(t) : u[Len(s) + j] = t[j]
    OBVIOUS
<1>2. ASSUME NEW i \in 1..Len(u), u[i] = x PROVE Has(s, x) \/ Has(t, x)
  <2>1. CASE i <= Len(s)
    BY <1>1, <1>2, <2>1 DEF Has
  <2>2. CASE i > Len(s)
    <3>1. i - Len(s) \in 1..Len(t) /\ t[i - Len(s)] = x
      BY <1>1, <1>2, <2>2
    <3> QED
      BY <3>1 DEF Has
  <2> QED
    BY <2>1, <2>2
<1>3. ASSUME NEW i \in 1..Len(s), s[i] = x PROVE Has(u, x)
    BY <1>1, <1>3 DEF Has
<1>4. ASSUME NEW j \in 1..Len(t), t[j] = x PROVE Has(u, x)
  <2>1. Len(s) + j \in 1..Len(u) /\ u[Len(s) + j] = x
    BY <1>1, <1>4
  <2> QED
    BY <2>1 DEF Has
<1> QED
    BY <1>2, <1>3, <1>4 DEF Has

(* A put of lines by a pump that has not ended.                            *)
LEMMA PutLines ==
    ASSUME NEW s \in Seq(Item), ~Has(s, "end"),
           NEW items \in Seq(Item), ~Has(items, "end")
    PROVE  /\ \A i \in 1..Len(s \o items) : (s \o items)[i] # "end"
           /\ Len(s \o items) >= Len(s)
           /\ \A x : Has(s \o items, x) <=> Has(s, x) \/ Has(items, x)
<1>1. \A x : Has(s \o items, x) <=> Has(s, x) \/ Has(items, x)
    BY InConcat
<1>2. ~Has(s \o items, "end")
    BY <1>1
<1>3. Len(s \o items) >= Len(s)
    OBVIOUS
<1> QED
    BY <1>1, <1>2, <1>3 DEF Has

(* The last put of a pump: its closing lines and then the sentinel.        *)
LEMMA PutEnd ==
    ASSUME NEW s \in Seq(Item), ~Has(s, "end"),
           NEW items \in Seq(Item), ~Has(items, "end"),
           NEW u, u = s \o Append(items, "end")
    PROVE  /\ \A i \in 1..Len(u) : u[i] = "end" => i = Len(u)
           /\ Len(u) >= Len(s)
           /\ \A x \in {"stop", "done", "error"} : Has(u, x) <=> Has(s, x) \/ Has(items, x)
<1> DEFINE closing == Append(items, "end")
<1>1. /\ closing \in Seq(Item)
      /\ Len(closing) = Len(items) + 1
      /\ \A j \in 1..Len(items) : closing[j] = items[j]
      /\ closing[Len(items) + 1] = "end"
    BY DEF Item
<1>2. \A x \in {"stop", "done", "error"} : Has(closing, x) <=> Has(items, x)
    BY <1>1 DEF Has
<1>3. \A x : Has(u, x) <=> Has(s, x) \/ Has(closing, x)
    BY <1>1, InConcat
<1>4. ASSUME NEW i \in 1..Len(u), u[i] = "end" PROVE i = Len(u)
  <2> DEFINE k == i - Len(s)
  <2>1. /\ Len(s) \in Nat /\ Len(closing) \in Nat
        /\ Len(u) = Len(s) + Len(closing)
        /\ \A j \in 1..Len(s) : u[j] = s[j]
        /\ \A j \in 1..Len(closing) : u[Len(s) + j] = closing[j]
    BY <1>1
  <2>2. i > Len(s)
    BY <1>4, <2>1 DEF Has
  <2>3. k \in 1..Len(closing) /\ i = Len(s) + k
    BY <2>1, <2>2
  <2>4. closing[k] = "end"
    BY <1>4, <2>1, <2>3
  <2>5. k = Len(closing)
    BY <1>1, <2>3, <2>4 DEF Has
  <2> QED
    BY <2>1, <2>5
<1>5. Len(u) >= Len(s)
    BY <1>1
<1> QED
    BY <1>2, <1>3, <1>4, <1>5

(* Every action keeps QueueInv.                                            *)
LEMMA QueueInvStep == TypeOK /\ LogInv /\ QueueInv /\ [Next]_vars => QueueInv'
<1> SUFFICES ASSUME TypeOK, LogInv, QueueInv, [Next]_vars,
                    NEW q \in Requests
             PROVE  (EndIsLast(q) /\ ClosingLines(q))'
    BY DEF QueueInv
<1> DEFINE Good == EndIsLast(q) /\ ClosingLines(q)
<1>a. /\ NotOpened(q) /\ EndIsLast(q) /\ ClosingLines(q)
      /\ \A x : Sent(q, x) <=> Has(sent[q], x)
      /\ \A x : Sent(q, x)' <=> Has(sent'[q], x)
    BY DEF LogInv, QueueInv, Sent, Has
<1>b. pump[q] # "ended" => ~Has(sent[q], "end")
    BY <1>a DEF EndIsLast, Has
<1>c. sent[q] \in Seq(Item) /\ outcome[q] \in OutcomeStatus
    BY DEF TypeOK
<1>d. ASSUME UNCHANGED <<sent, got, detach>>,
             pump'[q] = pump[q], ferry'[q] = ferry[q], outcome'[q] = outcome[q]
      PROVE  Good'
    BY <1>a, <1>d DEF EndIsLast, ClosingLines
<1>e. ASSUME sent'[q] = sent[q], UNCHANGED <<got, detach>>,
             pump'[q] = pump[q], ferry'[q] = ferry[q], outcome'[q] = outcome[q]
      PROVE  Good'
    BY <1>a, <1>e DEF EndIsLast, ClosingLines
<1>1. ASSUME NEW r \in Requests, AcceptPassthrough(r) PROVE Good'
    BY <1>1, <1>a DEF AcceptPassthrough, OpenStream, TypeOK, NotOpened, EndIsLast, ClosingLines
<1>2. ASSUME NEW r \in Requests, AcceptPipeline(r) PROVE Good'
    BY <1>2, <1>d DEF AcceptPipeline
<1>3. ASSUME NEW r \in Requests, PrepareSucceeds(r) PROVE Good'
    BY <1>3, <1>a DEF PrepareSucceeds, OpenStream, TypeOK, NotOpened, EndIsLast, ClosingLines
<1>4. ASSUME NEW r \in Requests, PrepareFails(r) PROVE Good'
    BY <1>4, <1>d DEF PrepareFails
<1>5. ASSUME NEW r \in Requests, PrepareAborts(r) PROVE Good'
    BY <1>5, <1>d DEF PrepareAborts
<1>6. ASSUME NEW r \in Requests, PumpStart(r) PROVE Good'
  <2>1. CASE r # q
    BY <1>6, <2>1, <1>e DEF PumpStart, Put, TypeOK
  <2>2. CASE r = q
    <3>1. /\ <<"role">> \in Seq(Item) /\ ~Has(<<"role">>, "end")
          /\ \A x \in {"stop", "done", "error"} : ~Has(<<"role">>, x)
      BY DEF Item, Has
    <3>2. sent'[q] = sent[q] \o <<"role">>
      BY <1>6, <2>2 DEF PumpStart, Put, TypeOK
    <3>3. /\ \A i \in 1..Len(sent'[q]) : sent'[q][i] # "end"
          /\ Len(sent'[q]) >= Len(sent[q])
          /\ \A x \in {"stop", "done", "error"} : Has(sent'[q], x) <=> Has(sent[q], x)
      <4> DEFINE t == <<"role">>
      <4>1. ~Has(sent[q], "end")
        BY <1>6, <2>2, <1>b DEF PumpStart
      <4> HIDE DEF t
      <4>2. /\ \A i \in 1..Len(sent[q] \o t) : (sent[q] \o t)[i] # "end"
            /\ Len(sent[q] \o t) >= Len(sent[q])
            /\ \A x : Has(sent[q] \o t, x) <=> Has(sent[q], x) \/ Has(t, x)
        BY <4>1, <1>c, <3>1, PutLines DEF t
      <4> QED
        BY <4>2, <3>1, <3>2 DEF t
    <3> QED
      BY <1>6, <2>2, <1>a, <3>3 DEF PumpStart, TypeOK, EndIsLast, ClosingLines
  <2> QED
    BY <2>1, <2>2
<1>7. ASSUME NEW r \in Requests, PumpChunk(r) PROVE Good'
  <2>1. CASE r # q
    BY <1>7, <2>1, <1>e DEF PumpChunk, Put, TypeOK
  <2>2. CASE r = q
    <3>1. /\ <<"chunk">> \in Seq(Item) /\ ~Has(<<"chunk">>, "end")
          /\ \A x \in {"stop", "done", "error"} : ~Has(<<"chunk">>, x)
      BY DEF Item, Has
    <3>2. sent'[q] = sent[q] \o <<"chunk">>
      BY <1>7, <2>2 DEF PumpChunk, Put, TypeOK
    <3>3. /\ \A i \in 1..Len(sent'[q]) : sent'[q][i] # "end"
          /\ Len(sent'[q]) >= Len(sent[q])
          /\ \A x \in {"stop", "done", "error"} : Has(sent'[q], x) <=> Has(sent[q], x)
      <4> DEFINE t == <<"chunk">>
      <4>1. ~Has(sent[q], "end")
        BY <1>7, <2>2, <1>b DEF PumpChunk
      <4> HIDE DEF t
      <4>2. /\ \A i \in 1..Len(sent[q] \o t) : (sent[q] \o t)[i] # "end"
            /\ Len(sent[q] \o t) >= Len(sent[q])
            /\ \A x : Has(sent[q] \o t, x) <=> Has(sent[q], x) \/ Has(t, x)
        BY <4>1, <1>c, <3>1, PutLines DEF t
      <4> QED
        BY <4>2, <3>1, <3>2 DEF t
    <3> QED
      BY <1>7, <2>2, <1>a, <3>3 DEF PumpChunk, TypeOK, EndIsLast, ClosingLines
  <2> QED
    BY <2>1, <2>2
<1>8. ASSUME NEW r \in Requests, PumpFinish(r) PROVE Good'
  <2>1. CASE r # q
    BY <1>8, <2>1, <1>e DEF PumpFinish, PumpEnd, Put, TypeOK
  <2>2. CASE r = q
    <3> DEFINE items == <<"stop", "done">>
    <3>1. items \in Seq(Item) /\ ~Has(items, "end")
      BY DEF Item, Has
    <3>2. sent'[q] = sent[q] \o Append(items, "end")
      BY <1>8, <2>2 DEF PumpFinish, PumpEnd, Put, TypeOK
    <3>3. /\ \A i \in 1..Len(sent'[q]) : sent'[q][i] = "end" => i = Len(sent'[q])
          /\ Len(sent'[q]) >= Len(sent[q])
          /\ \A x \in {"stop", "done", "error"} :
                 Has(sent'[q], x) <=> Has(sent[q], x) \/ Has(items, x)
      BY <1>8, <2>2, <1>b, <1>c, <3>1, <3>2, PutEnd DEF PumpFinish
    <3>4. Has(items, "stop")
      BY DEF Has
    <3> QED
      BY <1>8, <2>2, <1>a, <3>3, <3>4 DEF PumpFinish, PumpEnd, TypeOK, EndIsLast, ClosingLines
  <2> QED
    BY <2>1, <2>2
<1>9. ASSUME NEW r \in Requests, PumpFail(r) PROVE Good'
  <2>1. CASE r # q
    BY <1>9, <2>1, <1>e DEF PumpFail, PumpEnd, Put, TypeOK
  <2>2. CASE r = q
    <3> DEFINE items == FailureLines(q)
    <3>1. items \in Seq(Item) /\ ~Has(items, "end")
      <4>1. CASE q \in PipelineRequests
        BY <4>1 DEF FailureLines, Has
      <4>2. CASE q \notin PipelineRequests
        BY <4>2 DEF FailureLines, Item, Has
      <4> QED
        BY <4>1, <4>2
    <3>2. sent'[q] = sent[q] \o Append(items, "end")
      BY <1>9, <2>2 DEF PumpFail, PumpEnd, Put, TypeOK
    <3>3. /\ \A i \in 1..Len(sent'[q]) : sent'[q][i] = "end" => i = Len(sent'[q])
          /\ Len(sent'[q]) >= Len(sent[q])
          /\ \A x \in {"stop", "done", "error"} :
                 Has(sent'[q], x) <=> Has(sent[q], x) \/ Has(items, x)
      BY <1>9, <2>2, <1>b, <1>c, <3>1, <3>2, PutEnd DEF PumpFail
    <3>4. ~Has(items, "stop") /\ (Has(items, "done") => Has(items, "error"))
      BY DEF Has, FailureLines
    <3> QED
      BY <1>9, <2>2, <1>a, <3>3, <3>4 DEF PumpFail, PumpEnd, TypeOK, EndIsLast, ClosingLines
  <2> QED
    BY <2>1, <2>2
<1>10. ASSUME NEW r \in Requests, PumpCrash(r) PROVE Good'
  <2>1. CASE r # q
    BY <1>10, <2>1, <1>e DEF PumpCrash, PumpEnd, Put, TypeOK
  <2>2. CASE r = q
    <3> DEFINE items == <<>>
    <3>1. items \in Seq(Item) /\ ~Has(items, "end")
      BY DEF Item, Has
    <3>2. sent'[q] = sent[q] \o Append(items, "end")
      BY <1>10, <2>2 DEF PumpCrash, PumpEnd, Put, TypeOK
    <3>3. /\ \A i \in 1..Len(sent'[q]) : sent'[q][i] = "end" => i = Len(sent'[q])
          /\ Len(sent'[q]) >= Len(sent[q])
          /\ \A x \in {"stop", "done", "error"} :
                 Has(sent'[q], x) <=> Has(sent[q], x) \/ Has(items, x)
      BY <1>10, <2>2, <1>b, <1>c, <3>1, <3>2, PutEnd DEF PumpCrash
    <3>4. ~Has(items, "stop") /\ ~Has(items, "done")
      BY DEF Has
    <3> QED
      BY <1>10, <2>2, <1>a, <3>3, <3>4 DEF PumpCrash, PumpEnd, TypeOK, EndIsLast, ClosingLines
  <2> QED
    BY <2>1, <2>2
<1>11. ASSUME NEW r \in Requests, PumpCancelled(r) PROVE Good'
  <2>1. CASE r # q
    BY <1>11, <2>1, <1>e DEF PumpCancelled, Put, TypeOK
  <2>2. CASE r = q /\ sent[q] = <<>>
    BY <1>11, <2>2, <1>a DEF PumpCancelled, TypeOK, EndIsLast, ClosingLines, Has
  <2>3. CASE r = q /\ sent[q] # <<>>
    <3> DEFINE items == <<>>
    <3>1. items \in Seq(Item) /\ ~Has(items, "end")
      BY DEF Has
    <3>2. sent'[q] = sent[q] \o Append(items, "end")
      BY <1>11, <2>3 DEF PumpCancelled, Put, TypeOK
    <3>3. /\ \A i \in 1..Len(sent'[q]) : sent'[q][i] = "end" => i = Len(sent'[q])
          /\ Len(sent'[q]) >= Len(sent[q])
          /\ \A x \in {"stop", "done", "error"} :
                 Has(sent'[q], x) <=> Has(sent[q], x) \/ Has(items, x)
      BY <1>11, <2>3, <1>b, <1>c, <3>1, <3>2, PutEnd DEF PumpCancelled
    <3>4. ~Has(items, "stop") /\ ~Has(items, "done")
      BY DEF Has
    <3> QED
      BY <1>11, <2>3, <1>a, <3>3, <3>4 DEF PumpCancelled, TypeOK, EndIsLast, ClosingLines
  <2> QED
    BY <2>1, <2>2, <2>3
<1>12. ASSUME NEW r \in Requests, FerryDisconnect(r) PROVE Good'
    BY <1>12, <1>a, <1>c
       DEF FerryDisconnect, TypeOK, OutcomeStatus, NotOpened, EndIsLast, ClosingLines
<1>13. ASSUME NEW r \in Requests, FerryAbandon(r) PROVE Good'
    BY <1>13, <1>a DEF FerryAbandon, TypeOK, EndIsLast, ClosingLines
<1>14. ASSUME NEW r \in Requests, FerryStart(r) PROVE Good'
    BY <1>14, <1>a DEF FerryStart, TypeOK, EndIsLast, ClosingLines
<1>15. ASSUME NEW r \in Requests, FerryTake(r) PROVE Good'
    BY <1>15, <1>a, <1>c DEF FerryTake, TypeOK, EndIsLast, ClosingLines
<1>16. ASSUME NEW r \in Requests, PersistRecord(r) PROVE Good'
    BY <1>16, <1>d DEF PersistRecord
<1>17. ASSUME NEW r \in Requests, PersistFinish(r) PROVE Good'
    BY <1>17, <1>d DEF PersistFinish
<1>18. CASE UNCHANGED vars
    BY <1>18, <1>d DEF vars
<1>19. ASSUME NEW r \in Requests, Respond(r) PROVE Good'
    BY <1>19, <1>a DEF Respond, TypeOK, NotOpened, EndIsLast, ClosingLines
<1>20. ASSUME NEW r \in Requests, ResponseLost(r) PROVE Good'
    BY <1>20, <1>d DEF ResponseLost
<1> QED
    BY <1>1, <1>2, <1>3, <1>4, <1>5, <1>6, <1>7, <1>8, <1>9, <1>10, <1>11,
       <1>12, <1>13, <1>14, <1>15, <1>16, <1>17, <1>18, <1>19, <1>20
       DEF Next, Handler, Pump, Client, Ferry, Persist

-----------------------------------------------------------------------------
(* The theorems *)

(* The invariant holds in every reachable state.                           *)
THEOREM Invariance == Spec => []IInv
<1>1. Init => IInv
  <2> SUFFICES ASSUME Init PROVE IInv
      OBVIOUS
  <2>1. TypeOK
    BY ChunksAssumption DEF Init, TypeOK, OutcomeStatus, Row, Item
  <2>2. LogInv
    BY DEF Init, LogInv, NotOpened, DraftIsFinal, LoggedIsFinal, OutcomeStatus
  <2>3. QueueInv
    <3> SUFFICES ASSUME NEW r \in Requests PROVE EndIsLast(r) /\ ClosingLines(r)
        BY DEF QueueInv
    <3>1. sent[r] = <<>> /\ got[r] = 0 /\ pump[r] = "none" /\ ferry[r] = "none"
      BY DEF Init
    <3>2. outcome[r] = "client_cancelled" /\ \A x : ~Sent(r, x)
      BY <3>1 DEF Init, Sent
    <3> QED
      BY <3>1, <3>2 DEF EndIsLast, ClosingLines
  <2> QED
    BY <2>1, <2>2, <2>3 DEF IInv
<1>2. IInv /\ [Next]_vars => IInv'
    BY TypeOKStep, LogInvStep, QueueInvStep DEF IInv
<1> QED
    BY <1>1, <1>2, PTL DEF Spec

(* FinalRowAgrees: a logged stream's last call row tells what its trace    *)
(* tells, although persist reads the outcome twice.                        *)
THEOREM FinalRowAlwaysAgrees == Spec => []FinalRowAgrees
<1>1. IInv => FinalRowAgrees
    BY DEF IInv, LogInv, LoggedIsFinal, FinalRowAgrees
<1> QED
    BY <1>1, Invariance, PTL

(* DetachedOutcome: with detach on, what is logged depends on the upstream *)
(* alone.                                                                  *)
THEOREM DetachedOutcomeHolds == Spec => []DetachedOutcome
<1>1. IInv => DetachedOutcome
    BY DEF IInv, LogInv, LoggedIsFinal, QueueInv, ClosingLines, DetachedOutcome
<1> QED
    BY <1>1, Invariance, PTL

(* AttachedSuccessIsDelivered: with detach off, a success was handed over  *)
(* to its last line, unless the generator was abandoned.                   *)
THEOREM AttachedSuccessHolds == Spec => []AttachedSuccessIsDelivered
<1>1. IInv => AttachedSuccessIsDelivered
  <2> SUFFICES ASSUME IInv, NEW r \in Requests,
                      ~detach, status[r] = "success", ferry[r] # "abandoned"
               PROVE  ferry[r] = "drained" /\ got[r] = Len(sent[r])
      BY DEF AttachedSuccessIsDelivered
  <2>1. handler[r] = "streaming"
    BY DEF IInv, TypeOK, LogInv, NotOpened
  <2>2. ResponseOver(r) /\ outcome[r] = "success"
    BY <2>1 DEF IInv, LogInv, LoggedIsFinal, DraftIsFinal, OutcomeStatus
  <2>3. ferry[r] = "drained"
    BY <2>2 DEF IInv, QueueInv, ClosingLines, ResponseOver
  <2> QED
    BY <2>3 DEF IInv, QueueInv, EndIsLast
<1> QED
    BY <1>1, Invariance, PTL

(* A success is earned, with detach on and off.                            *)
THEOREM SuccessesAreEarned == Spec => []SuccessIsEarned
BY DetachedOutcomeHolds, AttachedSuccessHolds, PTL DEF SuccessIsEarned

(* NothingAfterEnd: the sentinel is put last and takes no line with it.    *)
THEOREM NothingAfterEndHolds == Spec => []NothingAfterEnd
<1>1. IInv => NothingAfterEnd
    BY DEF IInv, QueueInv, EndIsLast, NothingAfterEnd, Sent
<1> QED
    BY <1>1, Invariance, PTL

(* CleanDoneIsSuccess: a client that read [DONE], no error and the end of  *)
(* the stream is logged as a success.                                      *)
THEOREM CleanDoneHolds == Spec => []CleanDoneIsSuccess
<1>1. IInv => CleanDoneIsSuccess
  <2> SUFFICES ASSUME IInv, NEW r \in Requests, ferry[r] = "drained",
                      Taken(r, "done"), ~Taken(r, "error"), status[r] \in OutcomeStatus
               PROVE  status[r] = "success"
      BY DEF CleanDoneIsSuccess
  <2>1. handler[r] = "streaming"
    BY DEF IInv, LogInv, NotOpened
  <2>2. got[r] = Len(sent[r])
    BY DEF IInv, QueueInv, EndIsLast
  <2>3. Sent(r, "done") /\ ~Sent(r, "error")
    BY <2>2 DEF Sent, Taken
  <2>4. outcome[r] = "success"
    <3>1. ClosingLines(r)
      BY DEF IInv, QueueInv
    <3> QED
      BY <2>3, <3>1 DEF ClosingLines
  <2> QED
    BY <2>1, <2>4 DEF IInv, LogInv, LoggedIsFinal
<1> QED
    BY <1>1, Invariance, PTL

(* What the last lines say is what the log says.                           *)
THEOREM LastLinesAgree == Spec => []LastLinesTell
BY NothingAfterEndHolds, CleanDoneHolds, PTL DEF LastLinesTell

(* RefinesTraceLog: the three tasks together write the call log only as    *)
(* TraceLog allows, every step one transaction or none.                    *)
THEOREM Refinement == Spec => RefinesTraceLog
<1>1. Init => Log!LogInit
    BY DEF Init, Log!LogInit
<1>2. IInv /\ [Next]_vars => [Log!LogNext]_(Log!logVars)
  <2> SUFFICES ASSUME IInv, [Next]_vars PROVE Log!LogNext \/ UNCHANGED logVars
      BY DEF logVars, Log!logVars
  <2> DEFINE Allowed == {<<>>, <<PreRow>>} \cup {<<FinalRow(s)>> : s \in OutcomeStatus}
  <2>a. ASSUME NEW r \in Requests, NEW s \in {"pending"} \cup Log!Terminal, NEW rows \in Allowed,
               Log!Begin(r, s, rows) \/ Log!Finish(r, s, rows)
        PROVE  Log!LogNext
      BY <2>a DEF Log!LogNext
  <2>1. ASSUME NEW r \in Requests, AcceptPassthrough(r) PROVE Log!LogNext
    <3>1. Log!Begin(r, "pending", <<>>)
      BY <2>1 DEF AcceptPassthrough, OpenStream, IInv, LogInv, NotOpened, Log!Begin
    <3> QED
      BY <3>1, <2>a
  <2>2. ASSUME NEW r \in Requests, PrepareSucceeds(r) PROVE Log!LogNext
    <3>1. Log!Begin(r, "pending", <<PreRow>>)
      BY <2>2 DEF PrepareSucceeds, OpenStream, IInv, LogInv, NotOpened, Log!Begin
    <3> QED
      BY <3>1, <2>a
  <2>3. ASSUME NEW r \in Requests, PrepareFails(r) PROVE Log!LogNext
    <3>1. PICK rows \in {<<>>, <<PreRow>>} : calls' = [calls EXCEPT ![r] = rows]
      BY <2>3 DEF PrepareFails
    <3>2. Log!Begin(r, "failed", rows)
      BY <2>3, <3>1 DEF PrepareFails, IInv, LogInv, NotOpened, Log!Begin, Log!Terminal
    <3> QED
      BY <3>2, <2>a DEF Log!Terminal
  <2>4. ASSUME NEW r \in Requests, PersistFinish(r) PROVE Log!LogNext
    <3>1. outcome[r] \in Log!Terminal
      BY DEF IInv, TypeOK, OutcomeStatus, Log!Terminal
    <3>2. draft[r] \in Allowed
      BY DEF IInv, TypeOK
    <3>3. Log!Finish(r, outcome[r], draft[r])
      BY <2>4, <3>1 DEF PersistFinish, Log!Finish
    <3> QED
      BY <3>1, <3>2, <3>3, <2>a
  <2>5. ASSUME NEW r \in Requests,
               \/ AcceptPipeline(r) \/ PrepareAborts(r) \/ Respond(r) \/ ResponseLost(r)
               \/ Pump(r) \/ Client(r) \/ Ferry(r) \/ PersistRecord(r)
        PROVE  UNCHANGED logVars
      BY <2>5 DEF logVars, AcceptPipeline, PrepareAborts, Respond, ResponseLost, Pump, PumpStart, PumpChunk,
                  PumpFinish, PumpFail, PumpCrash, PumpCancelled, PumpEnd, Client,
                  FerryDisconnect, FerryAbandon, Ferry, FerryStart, FerryTake, PersistRecord
  <2>6. CASE UNCHANGED vars
      BY <2>6 DEF vars, logVars
  <2> QED
      BY <2>1, <2>2, <2>3, <2>4, <2>5, <2>6 DEF Next, Handler, Persist
<1> QED
    BY <1>1, <1>2, Invariance, PTL DEF Spec, RefinesTraceLog, Log!LogSpec
=============================================================================
