------------------------------ MODULE Routing -------------------------------
(***************************************************************************)
(* What the gateway keeps of its database and of the upstreams, and when   *)
(* that is out of date: the route list cache, the models a provider is     *)
(* synchronised to, the service key (gateways/namespaces.py,               *)
(* admin/providers.py, admin/models.py, admin/settings.py, authz.py).      *)
(* What an upstream lists may change at any time. A transaction is one     *)
(* step; what is read before it, and memory written after it, are others.  *)
(* The cascades of a deletion are in module Catalog.                       *)
(***************************************************************************)
EXTENDS Integers, FiniteSets, Sequences, Functions

CONSTANTS Names,      \* upstream model ids
          Lists,      \* what an upstream may list; nobody removes repetitions
          Requests,   \* concurrent requests
          Keys, NoKey,  \* service keys; a new one is one that is nowhere
          MaxProvider, MaxModel,  \* bounds: ids of the two tables,
          MaxConf     \*   configurations of providers ever committed

ASSUME NamesAssumption == Names # {}
ASSUME ListsAssumption == Lists \subseteq Seq(Names)
ASSUME KeysAssumption == NoKey \notin Keys
ASSUME RoutingBounds == MaxProvider \in Nat /\ MaxModel \in Nat /\ MaxConf \in Nat

Providers == 1 .. MaxProvider
Models    == 1 .. MaxModel
Confs     == 0 .. MaxConf    \* a version of base_url and key, 0: no row

(* prov 0: no row. by is history: who wrote the row's name, provider or    *)
(* enabled last, an administrator, a synchronisation, or one that          *)
(* overlapped with another change.                                         *)
Model   == [prov : 0 .. MaxProvider, name : Names, enabled : BOOLEAN, missing : BOOLEAN,
            by : {"admin", "sync", "overlap"}]
NoModel == [prov |-> 0, name |-> CHOOSE n \in Names : TRUE, enabled |-> FALSE,
            missing |-> FALSE, by |-> "admin"]

(* A cached list, whatever is in it: conf is the configuration it was      *)
(* fetched with, 0: nothing cached. raced is history: it was invalidated   *)
(* while it was fetched.                                                   *)
Entry   == [conf : Confs, raced : BOOLEAN]
NoEntry == [conf |-> 0, raced |-> FALSE]

(* What _sync_models is about to write: the places in the list of names to *)
(* add, and rows to mark missing or found, with or without their enabled.  *)
Plans  == [add : SUBSET Nat, gone : SUBSET Models, off : SUBSET Models,
           back : SUBSET Models, on : SUBSET Models]
NoPlan == [add |-> {}, gone |-> {}, off |-> {}, back |-> {}, on |-> {}]

(* raced is history: a list was invalidated while it was fetched, the rows *)
(* of the provider changed between the read and the commit of a            *)
(* synchronisation.                                                        *)
Frames == [pc : {"idle", "listing", "fetching", "testing", "syncing",
                 "changed", "assign"},
           prov : 0 .. MaxProvider, conf : Confs, raced : BOOLEAN, test : BOOLEAN,
           list : Seq(Names), plan : Plans, key : Keys \cup {NoKey}]
Idle   == [pc |-> "idle", prov |-> 0, conf |-> 0, raced |-> FALSE, test |-> FALSE,
           list |-> <<>>, plan |-> NoPlan, key |-> NoKey]

VARIABLES conf,    \* providers, as committed
          model,   \* models, as committed, by id
          cache,   \* _list_cache: entries within their TTL
          stored, served,  \* service_api_key_hash: in app_settings, in app.state
          req,     \* what each request holds
          confs, crossed   \* history: configurations so far; whether the last reset
                     \* was committed while another was not yet in memory

db   == <<conf, model>>
key  == <<stored, served, crossed>>
vars == <<db, cache, req, confs, key>>

Init ==
    /\ conf = [p \in Providers |-> 0] /\ model = [i \in Models |-> NoModel]
    /\ cache = [p \in Providers |-> NoEntry]
    /\ stored \in Keys /\ served = stored /\ crossed = FALSE
    /\ req = [r \in Requests |-> Idle]
    /\ confs = 0

At(r, pc)      == req[r].pc = pc
Goto(r, frame) == req' = [req EXCEPT ![r] = frame]
Done(r)        == Goto(r, Idle)
Begin(r, pc, p) == Goto(r, [Idle EXCEPT !.pc = pc, !.prov = p, !.conf = conf[p]])

RowsOf(p) == {i \in Models : model[i].prov = p}
Local(p, n) == {i \in RowsOf(p) : model[i].name = n}
Used   == {i \in Models : model[i].prov # 0}
Top(S) == CHOOSE i \in S \cup {0} : \A j \in S : j <= i

(* The synchronisations that have read rows which change now.              *)
Outdate(frames) ==
    LET touched == {p \in Providers : \E i \in Models :
                        model'[i] # model[i] /\ p \in {model[i].prov, model'[i].prov}} IN
    [q \in Requests |-> IF frames[q].pc = "syncing" /\ frames[q].prov \in touched
                        THEN [frames[q] EXCEPT !.raced = TRUE] ELSE frames[q]]

-----------------------------------------------------------------------------
(* Providers                                                               *)

(* The row is committed before the upstream is asked for its list.         *)
CreateProvider(r, p) ==
    /\ At(r, "idle") /\ confs < MaxConf
    /\ p = 1 + Top({q \in Providers : conf[q] # 0})
    /\ confs' = confs + 1
    /\ conf' = [conf EXCEPT ![p] = confs + 1]
    /\ Goto(r, [Idle EXCEPT !.pc = "testing", !.prov = p])
    /\ UNCHANGED <<model, cache, key>>

(* Mutant of UpdateProvider: nothing is invalidated.                       *)
SlipForgetCache(r, p) ==
    /\ At(r, "idle") /\ conf[p] # 0 /\ confs < MaxConf
    /\ confs' = confs + 1
    /\ conf' = [conf EXCEPT ![p] = confs + 1]
    /\ Done(r)
    /\ UNCHANGED <<model, cache, key>>

UpdateProvider(r, p) ==
    /\ At(r, "idle") /\ conf[p] # 0 /\ confs < MaxConf
    /\ confs' = confs + 1
    /\ conf' = [conf EXCEPT ![p] = confs + 1]
    /\ Goto(r, [Idle EXCEPT !.pc = "changed", !.prov = p])
    /\ UNCHANGED <<model, cache, key>>

DeleteProvider(r, p) ==
    /\ At(r, "idle") /\ conf[p] # 0
    /\ conf' = [conf EXCEPT ![p] = 0]
    /\ model' = [i \in Models |-> IF i \in RowsOf(p) THEN NoModel ELSE model[i]]
    /\ req' = Outdate([req EXCEPT ![r] = [Idle EXCEPT !.pc = "changed", !.prov = p]])
    /\ UNCHANGED <<cache, confs, key>>

(* invalidate_route_list, after the commit of a change or a test.          *)
Invalidate(r) ==
    LET p == req[r].prov IN
    /\ At(r, "changed")
    /\ cache' = [cache EXCEPT ![p] = NoEntry]
    /\ req' = [q \in Requests |->
           IF q = r THEN Idle
           ELSE IF req[q].pc \in {"listing", "fetching"} /\ req[q].prov = p
                THEN [req[q] EXCEPT !.raced = TRUE] ELSE req[q]]
    /\ UNCHANGED <<db, confs, key>>

-----------------------------------------------------------------------------
(* Synchronisation with the upstream's list                                *)

TestProvider(r, p) ==
    /\ At(r, "idle") /\ conf[p] # 0
    /\ Goto(r, [Idle EXCEPT !.pc = "testing", !.prov = p, !.test = TRUE])
    /\ UNCHANGED <<db, cache, confs, key>>

(* Mutant of Missing: every name is taken for a new one.                   *)
SlipAddAll(p, list) == DOMAIN list

(* The names without a row when the rows are read; one the list repeats is *)
(* missing at each of its places.                                          *)
Missing(p, list) == {k \in DOMAIN list : Local(p, list[k]) = {}}

(* Mutant of Plan: what the upstream has again stays switched off.         *)
SlipFlagOnly(p, list) ==
    LET gone == {i \in RowsOf(p) : model[i].name \notin Range(list) /\ ~model[i].missing}
        back == {i \in RowsOf(p) : model[i].name \in Range(list) /\ model[i].missing} IN
    [add |-> Missing(p, list), gone |-> gone, back |-> back,
     off |-> {i \in gone : model[i].enabled}, on |-> {}]

(* Mutant of Plan: only the row the dictionary has for a name is marked.   *)
SlipLastOnly(p, list) ==
    LET rows == {i \in RowsOf(p) : i = Top(Local(p, model[i].name))}
        gone == {i \in rows : model[i].name \notin Range(list) /\ ~model[i].missing}
        back == {i \in rows : model[i].name \in Range(list) /\ model[i].missing} IN
    [add |-> Missing(p, list), gone |-> gone, back |-> back,
     off |-> {i \in gone : model[i].enabled}, on |-> {i \in back : ~model[i].enabled}]

(* Rows whose name is gone and those found again. A column is written if   *)
(* it differs from what is read.                                           *)
Plan(p, list) ==
    LET gone == {i \in RowsOf(p) : model[i].name \notin Range(list) /\ ~model[i].missing}
        back == {i \in RowsOf(p) : model[i].name \in Range(list) /\ model[i].missing} IN
    [add |-> Missing(p, list), gone |-> gone, back |-> back,
     off |-> {i \in gone : model[i].enabled}, on |-> {i \in back : ~model[i].enabled}]

(* The list arrives and the rows are read.                                 *)
SyncRead(r, list) ==
    /\ At(r, "testing")
    /\ Goto(r, [req[r] EXCEPT !.pc = "syncing", !.list = list,
                              !.plan = Plan(req[r].prov, list)])
    /\ UNCHANGED <<db, cache, confs, key>>

(* The new rows take the next ids in the order of the list.                *)
NewId(add, k) == Top(Used) + Cardinality({m \in add : m <= k})

Added(p, list, add, raced) ==
    [i \in Models |->
        IF \E k \in add : i = NewId(add, k)
        THEN [prov |-> p, name |-> list[CHOOSE k \in add : i = NewId(add, k)],
              enabled |-> TRUE, missing |-> FALSE,
              by |-> IF raced THEN "overlap" ELSE "sync"]
        ELSE model[i]]

Marked(row, i, plan, raced) ==
    [row EXCEPT !.missing = IF i \in plan.gone THEN TRUE ELSE IF i \in plan.back THEN FALSE ELSE @,
                !.enabled = IF i \in plan.off THEN FALSE ELSE IF i \in plan.on THEN TRUE ELSE @,
                !.by = IF raced /\ i \in plan.gone \cup plan.back THEN "overlap"
                       ELSE IF i \in plan.off \cup plan.on THEN "sync" ELSE @]

(* One transaction: a provider that is gone refuses new rows, a row that   *)
(* is gone its update; a test then answers with the error.                 *)
SyncWrite(r) ==
    LET p     == req[r].prov
        plan  == req[r].plan
        added == Added(p, req[r].list, plan.add, req[r].raced) IN
    /\ At(r, "syncing")
    /\ IF (plan.add # {} => conf[p] # 0) /\ (plan.gone \cup plan.back \subseteq Used)
       THEN /\ Top(Used) + Cardinality(plan.add) <= MaxModel
            /\ model' = [i \in Models |-> Marked(added[i], i, plan, req[r].raced)]
            /\ req' = Outdate([req EXCEPT ![r] =
                   IF req[r].test THEN [Idle EXCEPT !.pc = "changed", !.prov = p] ELSE Idle])
       ELSE Done(r) /\ UNCHANGED model
    /\ UNCHANGED <<conf, cache, confs, key>>

(* The upstream cannot be reached, or the client goes away.                *)
Fail(r) ==
    /\ req[r].pc \in {"testing", "syncing", "fetching"}
    /\ Done(r)
    /\ UNCHANGED <<db, cache, confs, key>>

-----------------------------------------------------------------------------
(* Models by hand                                                          *)

(* No constraint keeps a second row of a name away.                        *)
CreateModel(p, n, on) ==
    LET i == 1 + Top(Used) IN
    /\ conf[p] # 0 /\ i <= MaxModel
    /\ model' = [model EXCEPT ![i] =
           [prov |-> p, name |-> n, enabled |-> on, missing |-> FALSE, by |-> "admin"]]
    /\ req' = Outdate(req)
    /\ UNCHANGED <<conf, cache, confs, key>>

(* update_model: any of the three, missing stays what it was.              *)
UpdateModel(i, p, n, on) ==
    /\ i \in Used /\ conf[p] # 0
    /\ model' = [model EXCEPT ![i] =
           [prov |-> p, name |-> n, enabled |-> on, missing |-> model[i].missing,
            by |-> IF <<p, n, on>> = <<model[i].prov, model[i].name, model[i].enabled>>
                   THEN model[i].by ELSE "admin"]]
    /\ req' = Outdate(req)
    /\ UNCHANGED <<conf, cache, confs, key>>

DeleteModel(i) ==
    /\ i \in Used
    /\ model' = [model EXCEPT ![i] = NoModel]
    /\ req' = Outdate(req)
    /\ UNCHANGED <<conf, cache, confs, key>>

-----------------------------------------------------------------------------
(* The route list                                                          *)

(* route_models up to its last query                                       *)
ListModels(r, p) ==
    /\ At(r, "idle") /\ conf[p] # 0
    /\ Begin(r, "listing", p)
    /\ UNCHANGED <<db, cache, confs, key>>

LookUp(r) ==
    /\ At(r, "listing")
    /\ IF cache[req[r].prov] # NoEntry THEN Done(r)
                                       ELSE Goto(r, [req[r] EXCEPT !.pc = "fetching"])
    /\ UNCHANGED <<db, cache, confs, key>>

(* The answer of the upstream, kept for ROUTE_LIST_TTL_SECONDS from before *)
(* it was asked.                                                           *)
Store(r) ==
    /\ At(r, "fetching")
    /\ cache' = [cache EXCEPT ![req[r].prov] = [conf |-> req[r].conf, raced |-> req[r].raced]]
    /\ Done(r)
    /\ UNCHANGED <<db, confs, key>>

Expire(p) ==
    /\ cache[p] # NoEntry
    /\ cache' = [cache EXCEPT ![p] = NoEntry]
    /\ UNCHANGED <<db, req, confs, key>>

(* A caller's grants (AccessScope), or an administrator's.                 *)
Scopes == [all : BOOLEAN, providers : SUBSET Providers, models : SUBSET Models]

AllowsRow(s, i) == s.all \/ i \in s.models \/ model[i].prov \in s.providers
AllowsDynamic(s, p) == s.all \/ p \in s.providers
Visible(s, p)   == AllowsDynamic(s, p) \/ s.models \cap RowsOf(p) # {}

(* route_models: of several rows of a name the last. An upstream that can  *)
(* not be reached is taken to list what has an enabled row.                *)
Listed(s, p, n, reached) ==
    /\ Visible(s, p)
    /\ IF Local(p, n) = {} THEN reached /\ AllowsDynamic(s, p)
       ELSE LET i == Top(Local(p, n)) IN model[i].enabled /\ AllowsRow(s, i)

(* route_chat: of several rows the first that is enabled.                  *)
Callable(s, p, n) ==
    /\ Visible(s, p)
    /\ IF Local(p, n) = {} THEN AllowsDynamic(s, p)
       ELSE \E i \in Local(p, n) :
                /\ model[i].enabled /\ AllowsRow(s, i)
                /\ \A j \in Local(p, n) : model[j].enabled => i <= j

-----------------------------------------------------------------------------
(* The service key                                                         *)

(* reset_service_key commits and then writes app.state.                    *)
ResetKey(r, k) ==
    /\ At(r, "idle")
    /\ k \notin {stored, served} \cup {req[q].key : q \in Requests}
    /\ stored' = k
    /\ crossed' = \E q \in Requests : At(q, "assign")
    /\ Goto(r, [Idle EXCEPT !.pc = "assign", !.key = k])
    /\ UNCHANGED <<db, cache, confs, served>>

(* Mutant of AssignKey: memory is forgotten.                               *)
SlipNoAssign(r) ==
    /\ At(r, "assign")
    /\ Done(r)
    /\ UNCHANGED <<db, cache, confs, key>>

AssignKey(r) ==
    /\ At(r, "assign")
    /\ served' = req[r].key
    /\ Done(r)
    /\ UNCHANGED <<db, cache, confs, stored, crossed>>

(* The process starts again: bootstrap reads the key, the cache is empty.  *)
Restart ==
    /\ req' = [r \in Requests |-> Idle]
    /\ cache' = [p \in Providers |-> NoEntry]
    /\ served' = stored /\ crossed' = FALSE
    /\ UNCHANGED <<db, confs, stored>>

-----------------------------------------------------------------------------
Next ==
    \/ \E r \in Requests :
           \/ \E p \in Providers :
                  \/ CreateProvider(r, p) \/ UpdateProvider(r, p) \/ DeleteProvider(r, p)
                  \/ TestProvider(r, p) \/ ListModels(r, p)
           \/ \E list \in Lists : SyncRead(r, list)
           \/ Invalidate(r) \/ SyncWrite(r) \/ Fail(r) \/ LookUp(r) \/ Store(r)
           \/ AssignKey(r) \/ \E k \in Keys : ResetKey(r, k)
    \/ \E p \in Providers : Expire(p)
    \/ \E p \in Providers, n \in Names, on \in BOOLEAN :
           CreateModel(p, n, on) \/ \E i \in Models : UpdateModel(i, p, n, on)
    \/ \E i \in Models : DeleteModel(i)
    \/ Restart

Spec == Init /\ [][Next]_vars

-----------------------------------------------------------------------------
(* Every variable has its type and every model its provider: a provider    *)
(* that goes takes its models along, also those a synchronisation that     *)
(* was under way is about to add.                                          *)
TypeOK ==
    /\ conf \in [Providers -> Confs] /\ model \in [Models -> Model]
    /\ cache \in [Providers -> Entry]
    /\ stored \in Keys /\ served \in Keys /\ crossed \in BOOLEAN
    /\ req \in [Requests -> Frames] /\ confs \in Confs
    /\ \A i \in Used : conf[model[i].prov] # 0

(* A cached route list was fetched with the provider's configuration, even *)
(* when the provider was changed, deleted, or its id taken over by another *)
(* one. The exceptions: the invalidation is about to come, or it came      *)
(* while the list was being fetched (namespaces._upstream_model_ids).      *)
CacheIsCurrent ==
    \A p \in Providers : cache[p].conf \notin {0, conf[p]} =>
        cache[p].raced \/ \E r \in Requests : At(r, "changed") /\ req[r].prov = p

(* A model is enabled exactly when its upstream had it at the last         *)
(* synchronisation, through any number of disappearances and returns,      *)
(* unless an administrator wrote its switch, name or provider last, or a   *)
(* synchronisation whose rows were changed between its read and its commit.*)
EnabledAsListed ==
    \A i \in Used : model[i].by = "sync" => (model[i].enabled <=> ~model[i].missing)

(* Whoever may use a provider can call exactly what the route list shows,  *)
(* also of a name with several rows (an upstream repeated it), since those *)
(* are switched together; unless an administrator wrote one of them last   *)
(* or a synchronisation that overlapped did (namespaces.py 308).           *)
ListMatchesChat ==
    \A p \in Providers, n \in Names :
        (\A i \in Local(p, n) : model[i].by = "sync") =>
            \A s \in Scopes :
                AllowsDynamic(s, p) => (Listed(s, p, n, TRUE) <=> Callable(s, p, n))

(* After a synchronisation whose rows nobody else changed meanwhile the    *)
(* provider has a row for every name the upstream listed when it was asked,*)
(* new ones only for names that had none, exactly the others are marked    *)
(* missing, and a switch is touched only where the mark changes.           *)
Mirrors(p, names) ==
    /\ \A n \in names : \E i \in Models : model'[i].prov = p /\ model'[i].name = n
    /\ \A i \in Models :
           IF model'[i].prov # p THEN model'[i] = model[i]
           ELSE /\ model'[i].missing <=> model'[i].name \notin names
                /\ IF i \in RowsOf(p)
                   THEN \/ model'[i].enabled = ~model'[i].missing
                        \/ model'[i].enabled = model[i].enabled /\ model'[i].missing = model[i].missing
                   ELSE Local(p, model'[i].name) = {}

SyncMirrorsList ==
    [][\A r \in Requests :
           req'[r] # req[r] /\ SyncWrite(r) /\ ~req[r].raced /\ conf[req[r].prov] # 0 =>
               Mirrors(req[r].prov, Range(req[r].list))]_vars

(* The gateway judges by the key that is stored, between the commit and    *)
(* the assignment of a reset excepted, and after resets that overlapped:   *)
(* then the last assignment may be that of the first commit.               *)
ServedKeyIsStored ==
    served = stored \/ crossed \/ \E r \in Requests : At(r, "assign")

=============================================================================
