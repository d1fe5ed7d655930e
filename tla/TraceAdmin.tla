----------------------------- MODULE TraceAdmin -----------------------------
(***************************************************************************)
(* The call log while it is administered: requests write it, the judge is  *)
(* run again over what it holds, and it is cleared, cleaned up by age and  *)
(* left to itself by a crash (admin/traces.py, rejudge_svc.py,             *)
(* logging_svc.py, main.py). SQLite has one writer: a transaction without  *)
(* an upstream call inside is one step, the other one holds the lock.      *)
(***************************************************************************)
EXTENDS Integers

CONSTANTS Jobs,     \* requests and reruns of the judge at one time
          NoJob,
          Owners,   \* users the requests are made by
          MaxIds,   \* bounds: ids of request_logs,
          MaxRuns   \*   requests and reruns ever started

ASSUME JobsAssumption == NoJob \notin Jobs
ASSUME OwnersAssumption == Owners # {}    \* the built-in administrator is one
ASSUME BoundsAssumption == MaxIds \in Nat /\ MaxRuns \in Nat

Ids  == 1 .. MaxIds
Runs == 0 .. MaxRuns     \* history: every request and rerun is one; 0: none

(* status none: no row. run opened the trace, by finished it (history).    *)
Trace   == [status : {"none", "pending", "final"}, run : Runs, by : Runs,
            owner : Owners, old : BOOLEAN]
NoTrace == [status |-> "none", run |-> 0, by |-> 0, owner |-> CHOOSE o \in Owners : TRUE,
            old |-> FALSE]

(* A row of model_call_logs, for the judge or not, and whether it holds an *)
(* answer. at is its created_at, taken when the row is flushed, before     *)
(* SQLite's lock is waited for: the rows of a trace are read in the order  *)
(* of it (list_model_calls). Those of members come before all reruns.      *)
Call == [run : Runs, owner : Owners, role : {"member", "critique", "rerun"}, ok : BOOLEAN,
         at : Nat]

(* at, ok: of the critique a rerun has flushed or is waiting to flush.     *)
Frame == [pc : {"idle", "running", "critique", "flush", "final"}, id : 0 .. MaxIds,
          run : Runs, owner : Owners, at : Nat, ok : BOOLEAN]
Idle  == [pc |-> "idle", id |-> 0, run |-> 0, owner |-> NoTrace.owner, at |-> 0, ok |-> FALSE]

VARIABLES trace,   \* request_logs, as committed
          calls,   \* model_call_logs of each trace, as committed
          lock,    \* who holds SQLite's write lock across an await
          job,     \* what each task holds
          clock,   \* the time, in stamps of rows taken so far
          runs, cut, hurt, met  \* history: runs so far; those whose trace was
                                \* deleted meanwhile; those that died or could not
                                \* write; pairs of reruns of a trace that overlapped

vars == <<trace, calls, lock, job, clock, runs, cut, hurt, met>>

Exists(i) == trace[i].status # "none"
Free      == lock = NoJob
At(j, pc) == job[j].pc = pc
Busy      == {j \in Jobs : ~At(j, "idle")}
Done(j)   == job' = [job EXCEPT ![j] = Idle]

Init ==
    /\ trace = [i \in Ids |-> NoTrace] /\ calls = [i \in Ids |-> {}]
    /\ lock = NoJob
    /\ job = [j \in Jobs |-> Idle]
    /\ clock = 0 /\ runs = 0 /\ cut = {} /\ hurt = {} /\ met = {}

Row(j, role, ok, at) ==
    [run |-> job[j].run, owner |-> job[j].owner, role |-> role, ok |-> ok, at |-> at]

(* record_call for each row and the commit; the foreign key refuses rows   *)
(* of a trace that is gone, and with them the whole transaction.           *)
Log(j, batch) ==
    LET i == job[j].id IN
    calls' = IF Exists(i) THEN [calls EXCEPT ![i] = @ \cup batch] ELSE calls

-----------------------------------------------------------------------------
(* Requests                                                                *)

(* SQLite: the largest rowid plus one, that of a deleted row included.     *)
NewId == CHOOSE n \in 1 .. MaxIds + 1 :
             /\ \A i \in Ids : Exists(i) => i < n
             /\ n = 1 \/ Exists(n - 1)

NewTrace(u, status, by) ==
    /\ Free /\ runs < MaxRuns /\ NewId <= MaxIds
    /\ runs' = runs + 1
    /\ trace' = [trace EXCEPT ![NewId] =
           [status |-> status, run |-> runs + 1, by |-> by, owner |-> u, old |-> FALSE]]

(* start_request; a writer that does not get the lock leaves no trace.     *)
Open(j, u) ==
    /\ At(j, "idle")
    /\ NewTrace(u, "pending", 0)
    /\ job' = [job EXCEPT ![j] = [pc |-> "running", id |-> NewId, run |-> runs + 1,
                                  owner |-> u, at |-> 0, ok |-> FALSE]]
    /\ UNCHANGED <<calls, lock, clock, cut, hurt, met>>

(* record_rejected_request                                                 *)
Reject(u) ==
    /\ NewTrace(u, "final", runs + 1)
    /\ UNCHANGED <<calls, lock, job, clock, cut, hurt, met>>

(* What a request has to record: a member's answer or failure, or, when it *)
(* failed before its first call, nothing.                                  *)
Results(j) == {{Row(j, "member", ok, 0)} : ok \in BOOLEAN} \cup {{}}

(* Mutant of Record: no rows, no status.                                   *)
SlipRowsDecide(j, batch) ==
    LET i == job[j].id IN
    /\ At(j, "running") /\ Free
    /\ Log(j, batch)
    /\ trace' = IF Exists(i) /\ batch # {}
                THEN [trace EXCEPT ![i].status = "final", ![i].by = job[j].run] ELSE trace
    /\ Done(j)
    /\ UNCHANGED <<lock, clock, runs, cut, hurt, met>>

(* The call rows and finish_request, on whatever has the id by now.        *)
Record(j, batch) ==
    LET i == job[j].id IN
    /\ At(j, "running") /\ Free
    /\ Log(j, batch)
    /\ trace' = IF Exists(i)
                THEN [trace EXCEPT ![i].status = "final", ![i].by = job[j].run] ELSE trace
    /\ Done(j)
    /\ UNCHANGED <<lock, clock, runs, cut, hurt, met>>

(* Any error or cancellation, the five seconds SQLite waits for the lock   *)
(* among them: what was flushed is rolled back.                            *)
Abort(j) ==
    /\ j \in Busy
    /\ Done(j)
    /\ lock' = IF lock = j THEN NoJob ELSE lock
    /\ hurt' = hurt \cup {job[j].run}
    /\ UNCHANGED <<trace, calls, clock, runs, cut, met>>

-----------------------------------------------------------------------------
(* Running the judge again                                                 *)

Answers(i) == {c \in calls[i] : c.role = "member" /\ c.ok}

(* Mutant of RejudgeStart: the owner is whoever asks for the rerun.        *)
SlipCallerOwns(j, i) ==
    /\ At(j, "idle") /\ runs < MaxRuns
    /\ trace[i].status = "final" /\ Answers(i) # {}
    /\ runs' = runs + 1
    /\ \E u \in Owners :
           job' = [job EXCEPT ![j] = [pc |-> "critique", id |-> i, run |-> runs + 1,
                                      owner |-> u, at |-> 0, ok |-> FALSE]]
    /\ UNCHANGED <<trace, calls, lock, clock, cut, hurt, met>>

(* prepare_rejudge, for rejudge_trace or rejudge_stream. The owner is the  *)
(* trace's.                                                                *)
RejudgeStart(j, i) ==
    /\ At(j, "idle") /\ runs < MaxRuns
    /\ trace[i].status = "final" /\ Answers(i) # {}
    /\ runs' = runs + 1
    /\ job' = [job EXCEPT ![j] = [pc |-> "critique", id |-> i, run |-> runs + 1,
                                  owner |-> trace[i].owner, at |-> 0, ok |-> FALSE]]
    /\ UNCHANGED <<trace, calls, lock, clock, cut, hurt, met>>

(* The reruns of a trace that have stamped a row and not committed.        *)
Writers == {j \in Jobs : job[j].pc \in {"flush", "final"}}

(* The critique is to be recorded, good or not: failed, or with the stream *)
(* when its client left. Its row gets its time and waits for the lock.     *)
CritiqueEnds(j, ok) ==
    /\ At(j, "critique")
    /\ clock' = clock + 1
    /\ job' = [job EXCEPT ![j].pc = "flush", ![j].at = clock + 1, ![j].ok = ok]
    /\ met' = met \cup {{job[j].run, job[k].run} : k \in {w \in Writers : job[w].id = job[j].id}}
    /\ UNCHANGED <<trace, calls, lock, runs, cut, hurt>>

(* A row without an answer is committed by itself; without its trace it is *)
(* refused.                                                                *)
CritiqueAlone(j) ==
    /\ At(j, "flush") /\ Free
    /\ ~job[j].ok \/ ~Exists(job[j].id)
    /\ Log(j, {Row(j, "critique", job[j].ok, job[j].at)})
    /\ Done(j)
    /\ UNCHANGED <<trace, lock, clock, runs, cut, hurt, met>>

(* Mutant of CritiqueFlushed: the critique is committed at once.           *)
SlipCommitCritique(j) ==
    /\ At(j, "flush") /\ Free
    /\ job[j].ok /\ Exists(job[j].id)
    /\ Log(j, {Row(j, "critique", TRUE, job[j].at)})
    /\ job' = [job EXCEPT ![j].pc = "final"]
    /\ UNCHANGED <<trace, lock, clock, runs, cut, hurt, met>>

(* A good one takes the lock and keeps it: in rejudge_trace while the      *)
(* second call is made, in persist of rejudge_stream, where that is over,  *)
(* up to the second row.                                                   *)
CritiqueFlushed(j) ==
    /\ At(j, "flush") /\ Free
    /\ job[j].ok /\ Exists(job[j].id)
    /\ lock' = j
    /\ job' = [job EXCEPT ![j].pc = "final"]
    /\ UNCHANGED <<trace, calls, clock, runs, cut, hurt, met>>

(* The answer, good or failed, stamped in its turn, and the commit of both.*)
FinalEnds(j, ok) ==
    /\ At(j, "final")
    /\ clock' = clock + 1
    /\ Log(j, {Row(j, "critique", TRUE, job[j].at), Row(j, "rerun", ok, clock + 1)})
    /\ lock' = NoJob
    /\ Done(j)
    /\ UNCHANGED <<trace, runs, cut, hurt, met>>

-----------------------------------------------------------------------------
(* Deletion                                                                *)

(* The call rows of the traces, then the traces.                           *)
Delete(gone) ==
    /\ trace' = [i \in Ids |-> IF i \in gone THEN NoTrace ELSE trace[i]]
    /\ calls' = [i \in Ids |-> IF i \in gone THEN {} ELSE calls[i]]
    /\ cut' = cut \cup {job[j].run : j \in {k \in Busy : job[k].id \in gone}}

(* clear_traces                                                            *)
Clear ==
    /\ Free
    /\ Delete(Ids)
    /\ UNCHANGED <<lock, job, clock, runs, hurt, met>>

(* log_retention_days go by; they are one at least, no request takes that. *)
Age(i) ==
    /\ Exists(i) /\ ~trace[i].old
    /\ \A j \in Jobs : job[j].run # trace[i].run
    /\ trace' = [trace EXCEPT ![i].old = TRUE]
    /\ UNCHANGED <<calls, lock, job, clock, runs, cut, hurt, met>>

Old == {i \in Ids : trace[i].old}

(* cleanup_old_logs, started by hand                                       *)
Cleanup ==
    /\ Free
    /\ Delete(Old)
    /\ UNCHANGED <<lock, job, clock, runs, hurt, met>>

(* The process dies, and lifespan cleans up by age; what was pending stays.*)
Restart ==
    /\ Delete(Old)
    /\ job' = [j \in Jobs |-> Idle]
    /\ lock' = NoJob
    /\ hurt' = hurt \cup {job[j].run : j \in Busy}
    /\ UNCHANGED <<clock, runs, met>>

-----------------------------------------------------------------------------
Next ==
    \/ \E u \in Owners : Reject(u) \/ \E j \in Jobs : Open(j, u)
    \/ \E j \in Jobs :
           \/ \E batch \in Results(j) : Record(j, batch)
           \/ \E i \in Ids : RejudgeStart(j, i)
           \/ \E ok \in BOOLEAN : CritiqueEnds(j, ok)
           \/ CritiqueAlone(j) \/ CritiqueFlushed(j) \/ Abort(j)
           \/ \E ok \in BOOLEAN : FinalEnds(j, ok)
    \/ Clear \/ Cleanup \/ Restart
    \/ \E i \in Ids : Age(i)

Spec == Init /\ [][Next]_vars

-----------------------------------------------------------------------------
(* Every variable has its type and no call row is without its trace, which *)
(* a deletion may take away while a request or a rerun is under way.       *)
TypeOK ==
    /\ trace \in [Ids -> Trace]
    /\ calls \in [Ids -> SUBSET Call]
    /\ lock \in Jobs \cup {NoJob}
    /\ job \in [Jobs -> Frame]
    /\ clock \in Nat
    /\ runs \in Runs /\ cut \subseteq Runs /\ hurt \subseteq Runs /\ met \subseteq SUBSET Runs
    /\ \A i \in Ids : calls[i] # {} => Exists(i)

(* A trace is pending only while its request runs, unless that died or     *)
(* could not write its last transaction: nothing else, a deletion, a new   *)
(* trace under the same id, another request that writes it by mistake,     *)
(* leaves one pending for ever (nothing at start-up repairs those).        *)
PendingHasOwner ==
    \A i \in Ids : trace[i].status = "pending" =>
        trace[i].run \in hurt \/ \E j \in Jobs : At(j, "running") /\ job[j].run = trace[i].run

(* A trace has one owner: all its rows, reruns included, are of the user   *)
(* of its request, and its request finished it. The exceptions were        *)
(* written by a run whose own trace was deleted meanwhile.                 *)
OneOwner ==
    \A i \in Ids :
        /\ trace[i].by \in {0, trace[i].run} \cup cut
        /\ \A c \in calls[i] : c.owner = trace[i].owner \/ c.run \in cut

Pair(c, r)       == c.role = "critique" /\ r.role = "rerun" /\ c.run = r.run
Between(x, c, r) == c.at < x.at /\ x.at < r.at

(* What a rerun leaves behind is whole, whenever it dies, loses the lock   *)
(* or its trace: an answer has its critique before it, a good critique its *)
(* answer, good or failed. And in the order the rows are read nothing is   *)
(* between the two but rows of reruns that overlapped with this one.       *)
RerunsPair == \A i \in Ids :
    /\ \A r \in calls[i] : r.role = "rerun" =>
           \E c \in calls[i] : Pair(c, r) /\ c.ok /\ c.at < r.at
    /\ \A c \in calls[i] : c.role = "critique" /\ c.ok => \E r \in calls[i] : Pair(c, r)
    /\ \A c, r, x \in calls[i] : Pair(c, r) /\ Between(x, c, r) => {x.run, r.run} \in met

=============================================================================
