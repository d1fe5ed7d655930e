------------------------------ MODULE Catalog ------------------------------
(***************************************************************************)
(* Providers, models, pipelines and the grants of a user, under concurrent *)
(* requests of the admin API (admin/providers.py, models.py, pipelines.py, *)
(* users.py, repos.py). A handler first looks up what it names, outside of *)
(* any transaction: sqlite3 begins one with the first write, and that      *)
(* statement takes the database's write lock. What was read before may be  *)
(* stale by then; from there to the commit nobody else writes. Foreign     *)
(* keys are enforced (db.py), ids are reused (INTEGER PRIMARY KEY takes    *)
(* the largest id plus one). Columns that no reference depends on, names   *)
(* included, are left out.                                                 *)
(***************************************************************************)
EXTENDS Integers, FiniteSets

CONSTANTS Requests,      \* requests of administrators, one process each
          MaxProviders,  \* bounds: the largest ids
          MaxModels,
          MaxPipelines,
          MaxRows,       \* of pipeline_members
          Asked,         \* what a request may ask for
          Catalogs       \* what earlier requests have left

Providers == 1 .. MaxProviders
Models    == 1 .. MaxModels
Pipelines == 1 .. MaxPipelines
RowIds    == 1 .. MaxRows

Targets == ({"provider"} \X Providers) \cup ({"model"} \X Models)
           \cup ({"pipeline"} \X Pipelines)

Ops == {"createProvider", "deleteProvider", "createModel", "moveModel", "deleteModel",
        "createPipeline", "updatePipeline", "deletePipeline", "putGrants"}

(* id is that of the path, ref the provider or judge of the body and list  *)
(* its members, when members are given (put). A PATCH of a pipeline may    *)
(* change other columns (touch); a judge in it is one that changes.        *)
Asks == [op : Ops, id : Nat, ref : Nat, list : SUBSET Models, put : BOOLEAN,
         touch : BOOLEAN, targets : SUBSET Targets]

Row   == [pipe : 0 .. MaxPipelines, model : 0 .. MaxModels]
NoRow == [pipe |-> 0, model |-> 0]

(* provs: the rows of providers; home: provider of a model, 0 without row; *)
(* judge: judge of a pipeline, 0 without row.                              *)
Databases == [provs : SUBSET Providers, home : [Models -> 0 .. MaxProviders],
              judge : [Pipelines -> 0 .. MaxModels], rows : [RowIds -> Row],
              grants : SUBSET Targets]

(* A target that exists.                                                   *)
Exists(d, t) ==
    \/ t[1] = "provider" /\ t[2] \in d.provs
    \/ t[1] = "model" /\ t[2] \in Models /\ d.home[t[2]] # 0
    \/ t[1] = "pipeline" /\ t[2] \in Pipelines /\ d.judge[t[2]] # 0

RowsOf(d, q) == {n \in RowIds : d.rows[n].pipe = q}

MembersOf(d, q) == {d.rows[n].model : n \in RowsOf(d, q)}

(* The foreign keys.                                                       *)
RefsHold(d) ==
    /\ \A m \in Models : d.home[m] # 0 => d.home[m] \in d.provs
    /\ \A q \in Pipelines : d.judge[q] # 0 => d.home[d.judge[q]] # 0
    /\ \A n \in RowIds : d.rows[n] # NoRow =>
           /\ d.rows[n].pipe \in Pipelines /\ d.judge[d.rows[n].pipe] # 0
           /\ d.rows[n].model \in Models /\ d.home[d.rows[n].model] # 0

Runnable(d, q) == RowsOf(d, q) # {}

ASSUME BoundsAssumption ==
    MaxProviders \in Nat /\ MaxModels \in Nat /\ MaxPipelines \in Nat /\ MaxRows \in Nat
ASSUME AskedAssumption == Asked \subseteq Asks
ASSUME CatalogsAssumption ==
    /\ Catalogs \subseteq Databases
    /\ \A d \in Catalogs :
           /\ RefsHold(d)
           /\ \A q \in Pipelines : d.judge[q] # 0 => Runnable(d, q)
           /\ \A g \in d.grants : Exists(d, g)

VARIABLES
    db,        \* what is committed
    pc,        \* where each request stands
    ask,       \* what it asks for
    left,      \* what it names and has not looked up yet
    models,    \* model_ids, read by a deletion
    affected,  \* affected, read by a deletion
    old,       \* rows of pipeline_members read by _replace_members
    raced,     \* history: pipelines whose members were last written while
               \* another request held on to what it had read
    emptied    \* history: pipelines last written with an empty list

vars == <<db, pc, ask, left, models, affected, old, raced, emptied>>
read == <<ask, left, models, affected, old>>

NoAsk == [op |-> "createProvider", id |-> 0, ref |-> 0, list |-> {}, put |-> FALSE,
          touch |-> FALSE, targets |-> {}]

Init ==
    /\ db \in Catalogs
    /\ pc = [r \in Requests |-> "idle"]
    /\ ask = [r \in Requests |-> NoAsk]
    /\ left = [r \in Requests |-> {}]
    /\ models = [r \in Requests |-> {}]
    /\ affected = [r \in Requests |-> {}]
    /\ old = [r \in Requests |-> {}]
    /\ raced = {}
    /\ emptied = {}

-----------------------------------------------------------------------------
(* Reading, each query by itself                                           *)

ModelTargets(S) == {<<"model", m>> : m \in S}

(* What the handler looks up before it goes on, in whatever order.         *)
Named(a) ==
    CASE a.op = "deleteProvider" -> {<<"provider", a.id>>}
      [] a.op = "createModel"    -> {<<"provider", a.ref>>}
      [] a.op = "moveModel"      -> {<<"provider", a.ref>>, <<"model", a.id>>}
      [] a.op = "deleteModel"    -> {<<"model", a.id>>}
      [] a.op = "createPipeline" -> ModelTargets({a.ref} \cup a.list)
      [] a.op = "updatePipeline" ->
             {<<"pipeline", a.id>>}
             \cup ModelTargets((IF a.ref = 0 THEN {} ELSE {a.ref})
                               \cup (IF a.put THEN a.list ELSE {}))
      [] a.op = "deletePipeline" -> {<<"pipeline", a.id>>}
      [] a.op = "putGrants"      -> a.targets
      [] OTHER                   -> {}

Receive(r) ==
    /\ pc[r] = "idle"
    /\ \E a \in Asked :
           /\ ask' = [ask EXCEPT ![r] = a]
           /\ left' = [left EXCEPT ![r] = Named(a)]
    /\ pc' = [pc EXCEPT ![r] = "checking"]
    /\ UNCHANGED <<db, models, affected, old, raced, emptied>>

(* 404 or 422 for what is not there.                                       *)
Check(r) ==
    /\ pc[r] = "checking"
    /\ \E t \in left[r] :
           IF Exists(db, t)
           THEN left' = [left EXCEPT ![r] = @ \ {t}] /\ UNCHANGED pc
           ELSE pc' = [pc EXCEPT ![r] = "rejected"] /\ UNCHANGED left
    /\ UNCHANGED <<db, ask, models, affected, old, raced, emptied>>

Checked(r, op) == pc[r] = "checking" /\ left[r] = {} /\ ask[r].op = op

(* delete_provider reads the ids of its models.                            *)
ReadModels(r) ==
    /\ Checked(r, "deleteProvider")
    /\ models' = [models EXCEPT ![r] = {m \in Models : db.home[m] = ask[r].id}]
    /\ pc' = [pc EXCEPT ![r] = IF models'[r] = {} THEN "ready" ELSE "cascading"]
    /\ UNCHANGED <<db, ask, left, affected, old, raced, emptied>>

(* delete_models_cascade reads the pipelines with a member among them.     *)
ReadAffected(r) ==
    /\ \/ Checked(r, "deleteModel") /\ models' = [models EXCEPT ![r] = {ask[r].id}]
       \/ pc[r] = "cascading" /\ UNCHANGED models
    /\ affected' = [affected EXCEPT ![r] =
                        {q \in Pipelines :
                             \E n \in RowsOf(db, q) : db.rows[n].model \in models'[r]}]
    /\ pc' = [pc EXCEPT ![r] = "ready"]
    /\ UNCHANGED <<db, ask, left, old, raced, emptied>>

(* The flush of a changed column comes before _replace_members.            *)
Changes(a) == a.ref # 0 \/ a.touch

(* _ordered_members, when nothing was flushed yet.                         *)
ReadRows(r) ==
    /\ Checked(r, "updatePipeline")
    /\ ask[r].put /\ ~Changes(ask[r])
    /\ old' = [old EXCEPT ![r] = RowsOf(db, ask[r].id)]
    /\ pc' = [pc EXCEPT ![r] = "ready"]
    /\ UNCHANGED <<db, ask, left, models, affected, raced, emptied>>

-----------------------------------------------------------------------------
(* Writing, from the first statement to the commit                         *)

(* The id SQLite gives a new row: the largest one in use, plus one.        *)
NewId(used, max) ==
    CHOOSE n \in 1 .. max + 1 : (\A k \in used : k < n) /\ (n = 1 \/ n - 1 \in used)

NewRow(d) == NewId({n \in RowIds : d.rows[n] # NoRow}, MaxRows)

(* Where the row of a new member goes: they are inserted in their order.   *)
Place(d, S, m) == NewRow(d) + Cardinality({k \in S : k < m})

Insert(d, q, S) ==
    [d EXCEPT !.rows = [n \in RowIds |->
        IF \E m \in S : n = Place(d, S, m)
        THEN [pipe |-> q, model |-> CHOOSE m \in S : n = Place(d, S, m)]
        ELSE d.rows[n]]]

Fits(d, S) == \A m \in S : Place(d, S, m) <= MaxRows

(* DELETE FROM pipeline_members, by id.                                    *)
DropRows(d, ids) ==
    [d EXCEPT !.rows = [n \in RowIds |-> IF n \in ids THEN NoRow ELSE d.rows[n]]]

DropGrants(d, kind, ids) == [d EXCEPT !.grants = @ \ ({kind} \X ids)]

(* Pipelines go with their members (ON DELETE CASCADE).                    *)
DropPipelines(d, S) ==
    LET e == DropRows(d, UNION {RowsOf(d, q) : q \in S}) IN
    DropGrants([e EXCEPT !.judge = [q \in Pipelines |-> IF q \in S THEN 0 ELSE e.judge[q]]],
               "pipeline", S)

JudgedBy(d, S) == {q \in Pipelines : d.judge[q] \in S}

(* Slip: only pipelines without a judge are looked for.                    *)
SlipLeaveEmpty(d, S, hit) == JudgedBy(d, S)

(* broken: pipelines emptied or without a judge; d has lost the members.   *)
Broken(d, S, hit) == {q \in hit : ~Runnable(d, q)} \cup JudgedBy(d, S)

(* Slip: the grants of the pipelines that go with a model are left.        *)
SlipKeepPipelineGrants(d, S, hit) ==
    LET cut  == DropRows(d, {n \in RowIds : d.rows[n].model \in S})
        kept == [DropPipelines(cut, Broken(cut, S, hit)) EXCEPT !.grants = cut.grants] IN
    [DropGrants(kept, "model", S) EXCEPT
        !.home = [m \in Models |-> IF m \in S THEN 0 ELSE kept.home[m]]]

(* delete_models_cascade                                                   *)
Cascade(d, S, hit) ==
    LET cut  == DropRows(d, {n \in RowIds : d.rows[n].model \in S})
        kept == DropPipelines(cut, Broken(cut, S, hit)) IN
    [DropGrants(kept, "model", S) EXCEPT
        !.home = [m \in Models |-> IF m \in S THEN 0 ELSE kept.home[m]]]

(* The commit, unless a foreign key stands against it.                     *)
Commit(r, d) ==
    IF RefsHold(d)
    THEN db' = d /\ pc' = [pc EXCEPT ![r] = "done"]
    ELSE UNCHANGED db /\ pc' = [pc EXCEPT ![r] = "failed"]

Rollback(r) == UNCHANGED db /\ pc' = [pc EXCEPT ![r] = "failed"]

CreateProvider(r) ==
    LET p == NewId(db.provs, MaxProviders) IN
    /\ Checked(r, "createProvider")
    /\ p \in Providers
    /\ Commit(r, [db EXCEPT !.provs = @ \cup {p}])
    /\ UNCHANGED <<read, raced, emptied>>

CreateModel(r) ==
    LET m == NewId({k \in Models : db.home[k] # 0}, MaxModels) IN
    /\ Checked(r, "createModel")
    /\ m \in Models
    /\ Commit(r, [db EXCEPT !.home[m] = ask[r].ref])
    /\ UNCHANGED <<read, raced, emptied>>

(* update_model, of the provider; an UPDATE of no row is an error.         *)
MoveModel(r) ==
    /\ Checked(r, "moveModel")
    /\ IF db.home[ask[r].id] = 0 THEN Rollback(r)
       ELSE Commit(r, [db EXCEPT !.home[ask[r].id] = ask[r].ref])
    /\ UNCHANGED <<read, raced, emptied>>

DeleteModel(r) ==
    /\ pc[r] = "ready" /\ ask[r].op = "deleteModel"
    /\ Commit(r, Cascade(db, models[r], affected[r]))
    /\ UNCHANGED <<read, raced, emptied>>

DeleteProvider(r) ==
    LET p == ask[r].id
        e == DropGrants(Cascade(db, models[r], affected[r]), "provider", {p}) IN
    /\ pc[r] = "ready" /\ ask[r].op = "deleteProvider"
    /\ Commit(r, [e EXCEPT !.provs = @ \ {p}])
    /\ UNCHANGED <<read, raced, emptied>>

(* Requests that have read what their write relies on.                     *)
Holding == {o \in Requests : pc[o] = "ready"}

(* The history of a pipeline whose members are written by r.               *)
Written(r, q, S) ==
    /\ raced' = IF Holding \subseteq {r} THEN raced \ {q} ELSE raced \cup {q}
    /\ emptied' = IF S = {} THEN emptied \cup {q} ELSE emptied \ {q}

CreatePipeline(r) ==
    LET q == NewId({k \in Pipelines : db.judge[k] # 0}, MaxPipelines)
        a == ask[r]
        d == Insert([db EXCEPT !.judge[q] = a.ref], q, a.list) IN
    /\ Checked(r, "createPipeline")
    /\ q \in Pipelines /\ Fits(db, a.list)
    /\ Commit(r, d)
    /\ IF RefsHold(d) THEN Written(r, q, a.list) ELSE UNCHANGED <<raced, emptied>>
    /\ UNCHANGED read

(* A PATCH without members: nothing, or an UPDATE of the row.              *)
UpdatePipeline(r) ==
    LET a == ask[r]
        q == a.id IN
    /\ Checked(r, "updatePipeline") /\ ~a.put
    /\ IF db.judge[q] = 0 /\ Changes(a) THEN Rollback(r)
       ELSE Commit(r, IF a.ref # 0 THEN [db EXCEPT !.judge[q] = a.ref] ELSE db)
    /\ UNCHANGED <<read, raced, emptied>>

(* Slip: the members that were there stay.                                 *)
SlipAppendMembers(d, q, ids, S) == Insert(d, q, S)

(* _replace_members: the rows read go, the new list comes.                 *)
Replace(d, q, ids, S) == Insert(DropRows(d, ids), q, S)

(* A PATCH with members. After a flush they are read under the lock.       *)
UpdateMembers(r) ==
    LET a   == ask[r]
        q   == a.id
        d   == IF a.ref # 0 THEN [db EXCEPT !.judge[q] = a.ref] ELSE db
        ids == IF Changes(a) THEN RowsOf(db, q) ELSE old[r]
        e   == Replace(d, q, ids, a.list) IN
    /\ IF Changes(a) THEN Checked(r, "updatePipeline") /\ a.put
       ELSE pc[r] = "ready" /\ a.op = "updatePipeline"
    /\ Fits(DropRows(d, ids), a.list)
    /\ IF db.judge[q] = 0 /\ Changes(a)
       THEN Rollback(r) /\ UNCHANGED <<raced, emptied>>
       ELSE /\ Commit(r, e)
            /\ IF RefsHold(e) THEN Written(r, q, a.list) ELSE UNCHANGED <<raced, emptied>>
    /\ UNCHANGED read

DeletePipeline(r) ==
    /\ Checked(r, "deletePipeline")
    /\ Commit(r, DropPipelines(db, {ask[r].id}))
    /\ UNCHANGED <<read, raced, emptied>>

(* replace_user_grants                                                     *)
PutGrants(r) ==
    /\ Checked(r, "putGrants")
    /\ Commit(r, [db EXCEPT !.grants = ask[r].targets])
    /\ UNCHANGED <<read, raced, emptied>>

-----------------------------------------------------------------------------
Reads(r)  == Receive(r) \/ Check(r) \/ ReadModels(r) \/ ReadAffected(r) \/ ReadRows(r)
Writes(r) == \/ CreateProvider(r) \/ DeleteProvider(r)
             \/ CreateModel(r) \/ MoveModel(r) \/ DeleteModel(r)
             \/ CreatePipeline(r) \/ UpdatePipeline(r) \/ UpdateMembers(r) \/ DeletePipeline(r)
             \/ PutGrants(r)

Next == \E r \in Requests : Reads(r) \/ Writes(r)

Spec == Init /\ [][Next]_vars

-----------------------------------------------------------------------------
(* Every variable keeps its type.                                          *)
TypeOK ==
    /\ db \in Databases
    /\ pc \in [Requests -> {"idle", "checking", "cascading", "ready", "done", "rejected",
                            "failed"}]
    /\ ask \in [Requests -> Asked \cup {NoAsk}]
    /\ left \in [Requests -> SUBSET ({"provider", "model", "pipeline"} \X Nat)]
    /\ models \in [Requests -> SUBSET Models]
    /\ affected \in [Requests -> SUBSET Pipelines]
    /\ old \in [Requests -> SUBSET RowIds]
    /\ raced \subseteq Pipelines
    /\ emptied \subseteq Pipelines

(* Whatever is deleted, and whatever deletions overlap, no pipeline stays  *)
(* behind without members - unless its list was written empty, or written  *)
(* while another request held on to what it had read (delete_models_       *)
(* cascade, _replace_members).                                             *)
OnlyRacesEmpty ==
    \A q \in Pipelines :
        db.judge[q] # 0 /\ ~Runnable(db, q) => q \in raced \cup emptied

(* Whatever disappears takes its grants along, the pipelines that go with  *)
(* a model and the models that go with a provider included (D33).          *)
DeletionCleansGrants ==
    [][\A t \in Targets : Exists(db, t) /\ ~Exists(db', t) => t \notin db'.grants]_vars

(* The deletion of a model never runs into a foreign key, whatever others  *)
(* wrote since it read; that of a provider only does when the provider got *)
(* a model that the deletion has not seen.                                 *)
DeletionsGoThrough ==
    [][\A r \in Requests :
          pc[r] = "ready" /\ pc'[r] = "failed" /\ ask[r].op # "updatePipeline" =>
              /\ ask[r].op = "deleteProvider"
              /\ \E m \in Models \ models[r] : db.home[m] = ask[r].id]_vars

(* Deletions go through and leave no grant behind.                         *)
DeletionsAreClean == DeletionCleansGrants /\ DeletionsGoThrough

(* A PATCH with members leaves exactly these, never a mixture with those   *)
(* of another PATCH: always when it flushed something before it read the   *)
(* rows, otherwise unless somebody wrote members meanwhile.                *)
PatchReplacesMembers ==
    [][\A r \in Requests :
          /\ pc[r] # "done" /\ pc'[r] = "done" /\ ask[r].op = "updatePipeline" /\ ask[r].put
          /\ Changes(ask[r]) \/ ask[r].id \notin raced
          => MembersOf(db', ask[r].id) = ask[r].list]_vars

=============================================================================
