--------------------------- MODULE Routing_proofs ---------------------------
(***************************************************************************)
(* Proofs about Routing, for any number of providers, models, names, keys  *)
(* and concurrent requests, and for any lists the upstreams may give.      *)
(***************************************************************************)
EXTENDS Routing, FiniteSetTheorems, WellFoundedInduction, TLAPS

-----------------------------------------------------------------------------
(* The inductive invariant.                                                *)

(* The invalidation of p's route list is about to come.                    *)
Changing(p) == \E q \in Requests : At(q, "changed") /\ req[q].prov = p

(* Plan, of any rows: it depends on those of the provider alone.           *)
PlanFrom(rows, p, list) ==
    LET own  == {i \in Models : rows[i].prov = p}
        gone == {i \in own : rows[i].name \notin Range(list) /\ ~rows[i].missing}
        back == {i \in own : rows[i].name \in Range(list) /\ rows[i].missing} IN
    [add |-> {k \in DOMAIN list : {i \in own : rows[i].name = list[k]} = {}},
     gone |-> gone, off |-> {i \in gone : rows[i].enabled},
     back |-> back, on |-> {i \in back : ~rows[i].enabled}]

(* What request r has read is still true, or what it does not know is     *)
(* recorded: of the configuration it lists the upstream with, ...          *)
ListIsExplained(r) ==
    req[r].pc \in {"listing", "fetching"} /\ req[r].conf \notin {0, conf[req[r].prov]} =>
        req[r].raced \/ Changing(req[r].prov)

(* ... of the rows its synchronisation plan was made from, ...             *)
PlanIsFresh(r) ==
    At(r, "syncing") =>
        LET plan == req[r].plan IN
        /\ plan.add \subseteq DOMAIN req[r].list
        /\ plan.off \subseteq plan.gone /\ plan.on \subseteq plan.back
        /\ req[r].raced \/ plan = PlanFrom(model, req[r].prov, req[r].list)

(* ... of the key it has committed and is about to put into memory.        *)
KeyIsLast(r) ==
    At(r, "assign") => req[r].key \in Keys /\ (crossed \/ req[r].key = stored)

HasProvider(r) ==
    req[r].pc \in {"listing", "fetching", "testing", "syncing", "changed"} =>
        req[r].prov \in Providers

Fits(r) ==
    /\ HasProvider(r) /\ req[r].conf <= confs
    /\ ListIsExplained(r) /\ PlanIsFresh(r) /\ KeyIsLast(r)

FramesFit == \A r \in Requests : Fits(r)

(* No configuration ever comes back, so that a cached list with another    *)
(* number than its provider's is really one of another configuration.      *)
Versions ==
    /\ \A p \in Providers : conf[p] <= confs /\ cache[p].conf <= confs
    /\ \A p, q \in Providers : conf[p] = conf[q] /\ conf[p] # 0 => p = q

(* What only synchronisations have written last is marked by name, so that *)
(* the rows of a repeated name are marked, and so switched, together.      *)
SwitchedTogether ==
    \A i, j \in Used :
        /\ model[i].prov = model[j].prov /\ model[i].name = model[j].name
        /\ model[i].by = "sync" /\ model[j].by = "sync"
        => model[i].missing = model[j].missing

IInv ==
    /\ TypeOK /\ FramesFit /\ Versions /\ EnabledAsListed /\ SwitchedTogether
    /\ CacheIsCurrent /\ ServedKeyIsStored

-----------------------------------------------------------------------------
(* The operators of the model.                                             *)

LEMMA LeastExists ==
    ASSUME NEW S \in SUBSET Nat, S # {}
    PROVE  \E x \in S : \A y \in S : x <= y
<1> DEFINE R == StrictSubsetOrdering(Nat)
           T == {0 .. x : x \in S}
<1>1. T \subseteq FiniteSubsetsOf(Nat) /\ T # {}
  <2>1. ASSUME NEW x \in S PROVE 0 .. x \in FiniteSubsetsOf(Nat)
    <3>1. IsFiniteSet(0 .. x) /\ 0 .. x \in SUBSET Nat
      BY FS_Interval
    <3> QED BY <3>1 DEF FiniteSubsetsOf
  <2> QED BY <2>1
<1>2. PICK X \in T : \A Y \in T : ~ (<<Y, X>> \in R)
  <2>1. IsWellFoundedOn(R, FiniteSubsetsOf(Nat))
    BY FS_StrictSubsetOrderingWellFounded
  <2> HIDE DEF R, T
  <2> QED BY <1>1, <2>1, WFMin, Zenon
<1>3. PICK x \in S : X = 0 .. x
  BY <1>2
<1>4. ASSUME NEW y \in S PROVE x <= y
  <2>1. SUFFICES ASSUME y < x PROVE FALSE
    OBVIOUS
  <2>2. 0 .. y \in SUBSET Nat /\ 0 .. x \in SUBSET Nat
    OBVIOUS
  <2>3. 0 .. y \subseteq 0 .. x /\ x \in 0 .. x /\ x \notin 0 .. y
    BY <2>1
  <2>4. <<0 .. y, 0 .. x>> \in R
    BY <2>2, <2>3 DEF StrictSubsetOrdering
  <2> QED BY <1>2, <1>3, <2>4
<1> QED BY <1>4

(* Top is the largest number of a set, 0 if it is empty.                   *)
LEMMA TopIsLargest ==
    ASSUME NEW max \in Nat, NEW S \in SUBSET (1 .. max)
    PROVE  Top(S) \in S \cup {0} /\ Top(S) \in Nat /\ \A k \in S : k <= Top(S)
<1> DEFINE above == {n \in 0 .. max : \A k \in S : k <= n}
           Good(n) == \A k \in S : k <= n
<1>1. above \in SUBSET Nat /\ above # {}
  <2>1. max \in above
    OBVIOUS
  <2> QED BY <2>1
<1>2. PICK n \in above : \A k \in above : n <= k
  <2> HIDE DEF above
  <2> QED BY <1>1, LeastExists
<1>3. n \in S \cup {0}
  <2>1. CASE n # 0
    <3>1. n - 1 \in 0 .. max /\ n - 1 \notin above
      BY <1>2, <2>1
    <3>2. PICK k \in S : ~(k <= n - 1)
      BY <3>1
    <3>3. k = n
      BY <1>2, <3>2
    <3> QED BY <3>2, <3>3
  <2> QED BY <2>1
<1>4. Top(S) \in S \cup {0} /\ Good(Top(S))
  <2>1. Good(n)
    BY <1>2
  <2>2. Top(S) = CHOOSE i \in S \cup {0} : Good(i)
    BY DEF Top
  <2> HIDE DEF Good
  <2> QED BY <1>3, <2>1, <2>2, Zenon
<1>5. S \cup {0} \subseteq Nat
  OBVIOUS
<1> QED BY <1>4, <1>5

(* The elements of a finite set of numbers are counted off one by one.     *)
LEMMA CountedOff ==
    ASSUME NEW S \in SUBSET Nat, IsFiniteSet(S)
    PROVE  /\ Cardinality(S) \in Nat
           /\ \A k \in S : Cardinality({m \in S : m <= k}) \in 1 .. Cardinality(S)
           /\ \A j, k \in S : Cardinality({m \in S : m <= j}) = Cardinality({m \in S : m <= k})
                              => j = k
<1> DEFINE upTo(k) == {m \in S : m <= k}
<1>1. Cardinality(S) \in Nat
  BY FS_CardinalityType
<1>2. ASSUME NEW k \in S
      PROVE  IsFiniteSet(upTo(k)) /\ Cardinality(upTo(k)) \in 1 .. Cardinality(S)
  <2>1. upTo(k) \in SUBSET S /\ k \in upTo(k)
    OBVIOUS
  <2> HIDE DEF upTo
  <2>2. IsFiniteSet(upTo(k)) /\ Cardinality(upTo(k)) <= Cardinality(S)
    BY <2>1, FS_Subset
  <2>3. Cardinality(upTo(k)) \in Nat
    BY <2>2, FS_CardinalityType
  <2>4. Cardinality(upTo(k)) # 0
    BY <2>1, <2>2, FS_EmptySet
  <2> QED BY <1>1, <2>2, <2>3, <2>4
<1>3. ASSUME NEW j \in S, NEW k \in S, Cardinality(upTo(j)) = Cardinality(upTo(k)), j <= k
      PROVE  j = k
  <2>1. upTo(j) \in SUBSET upTo(k) /\ k \in upTo(k)
    <3>1. j \in Nat /\ k \in Nat /\ j <= k /\ \A m \in S : m \in Nat
      BY <1>3
    <3>2. (\A m \in S : m <= j => m <= k) /\ k <= k
      BY <3>1
    <3>3. upTo(j) \subseteq upTo(k) /\ k \in upTo(k)
      BY <3>2, Zenon
    <3> QED BY <3>3
  <2>2. upTo(k) = upTo(j)
    <3>1. IsFiniteSet(upTo(k))
      BY <1>2
    <3> HIDE DEF upTo
    <3> QED BY <1>3, <2>1, <3>1, FS_Subset
  <2> QED BY <1>3, <2>1, <2>2
<1>4. ASSUME NEW j \in S, NEW k \in S, Cardinality(upTo(j)) = Cardinality(upTo(k))
      PROVE  j = k
  <2>1. j <= k \/ k <= j
    OBVIOUS
  <2> HIDE DEF upTo
  <2> QED BY <1>3, <1>4, <2>1
<1> QED BY <1>1, <1>2, <1>4

LEMMA DefaultsTyped ==
    NoModel \in Model /\ NoEntry \in Entry /\ Idle \in Frames
<1>1. (CHOOSE n \in Names : TRUE) \in Names
  BY NamesAssumption, Zenon
<1>2. 0 \in Confs /\ 0 \in 0 .. MaxProvider
  BY RoutingBounds DEF Confs
<1>3. NoModel \in Model
  BY <1>1, <1>2 DEF NoModel, Model
<1>4. NoPlan \in Plans
  BY DEF NoPlan, Plans
<1>5. <<>> \in Seq(Names)
  OBVIOUS
<1>6. Idle \in Frames
  BY <1>2, <1>4, <1>5 DEF Idle, Frames
<1> QED BY <1>2, <1>3, <1>6 DEF NoEntry, Entry

(* The frames a request begins with.                                       *)
LEMMA FrameTyped ==
    ASSUME NEW f \in Frames, NEW pc \in {"listing", "testing", "changed", "assign"},
           NEW p \in Providers
    PROVE  /\ [f EXCEPT !.pc = pc, !.prov = p] \in Frames
           /\ [f EXCEPT !.pc = pc, !.prov = p, !.test = TRUE] \in Frames
           /\ \A c \in Confs : [f EXCEPT !.pc = pc, !.prov = p, !.conf = c] \in Frames
           /\ \A k \in Keys : [f EXCEPT !.pc = pc, !.key = k] \in Frames
<1>1. p \in 0 .. MaxProvider
  BY RoutingBounds DEF Providers
<1> QED BY <1>1 DEF Frames

(* The rows Added makes: of that provider, one for each place, where none  *)
(* were.                                                                   *)
NewRow(p, n, raced) == [prov |-> p, name |-> n, enabled |-> TRUE, missing |-> FALSE,
                        by |-> IF raced THEN "overlap" ELSE "sync"]

LEMMA AddedRows ==
    ASSUME TypeOK, NEW p \in Providers, NEW list \in Seq(Names), NEW add \in SUBSET DOMAIN list,
           NEW raced \in BOOLEAN
    PROVE  /\ Added(p, list, add, raced) \in [Models -> Model]
           /\ Cardinality(add) \in Nat /\ Top(Used) \in Nat
           /\ \A i \in Models : i \in Used => Added(p, list, add, raced)[i] = model[i]
           /\ \A i \in Models \ Used :
                  \/ Added(p, list, add, raced)[i] = model[i]
                  \/ \E k \in add : Added(p, list, add, raced)[i] = NewRow(p, list[k], raced)
           /\ \A k \in add :
                  /\ NewId(add, k) \in 1 .. Top(Used) + Cardinality(add)
                  /\ NewId(add, k) \notin Used
                  /\ NewId(add, k) \in Models =>
                         Added(p, list, add, raced)[NewId(add, k)] = NewRow(p, list[k], raced)
<1> DEFINE id(k) == NewId(add, k)
           At1(i) == CHOOSE k \in add : i = id(k)
           added == Added(p, list, add, raced)
<1>1. /\ Cardinality(add) \in Nat
      /\ \A k \in add : Cardinality({m \in add : m <= k}) \in 1 .. Cardinality(add)
      /\ \A j, k \in add : Cardinality({m \in add : m <= j}) = Cardinality({m \in add : m <= k})
                           => j = k
  <2>1. DOMAIN list = 1 .. Len(list) /\ Len(list) \in Nat
    OBVIOUS
  <2>2. IsFiniteSet(1 .. Len(list)) /\ 1 .. Len(list) \in SUBSET Nat
    BY <2>1, FS_Interval
  <2>3. IsFiniteSet(add) /\ add \in SUBSET Nat
    BY <2>1, <2>2, FS_Subset
  <2> QED BY <2>3, CountedOff
<1>2. Used \in SUBSET Models /\ Models = 1 .. MaxModel /\ MaxModel \in Nat
  BY RoutingBounds DEF Used, Models
<1>3. Top(Used) \in Nat /\ \A k \in Used : k <= Top(Used)
  BY <1>2, TopIsLargest
<1>4. /\ \A k \in add : id(k) \in 1 .. Top(Used) + Cardinality(add) /\ id(k) > Top(Used)
      /\ \A j, k \in add : id(j) = id(k) => j = k
  BY <1>1, <1>3 DEF NewId
<1> HIDE DEF id
<1>5. \A k \in add : id(k) \notin Used
  BY <1>2, <1>3, <1>4
<1>6. \A k \in add : At1(id(k)) = k
  <2>1. SUFFICES ASSUME NEW k \in add PROVE At1(id(k)) = k
    OBVIOUS
  <2>2. At1(id(k)) \in add /\ id(k) = id(At1(id(k)))
    OBVIOUS
  <2> QED BY <1>4, <2>2
<1>7. added = [i \in Models |-> IF \E k \in add : i = id(k) THEN NewRow(p, list[At1(i)], raced)
                                ELSE model[i]]
  BY DEF Added, NewRow, id
<1>8. ASSUME NEW k \in add PROVE NewRow(p, list[k], raced) \in Model
  <2>1. list[k] \in Names
    OBVIOUS
  <2> QED BY <2>1, RoutingBounds DEF NewRow, Model, Providers
<1> HIDE DEF added, At1
<1>9. ASSUME NEW i \in Models, NEW k \in add, i = id(k)
      PROVE  added[i] = NewRow(p, list[k], raced)
  BY <1>6, <1>7, <1>9
<1>10. ASSUME NEW i \in Models, ~ \E k \in add : i = id(k)
       PROVE  added[i] = model[i]
  BY <1>7, <1>10
<1>11. added \in [Models -> Model]
  <2>1. ASSUME NEW i \in Models PROVE added[i] \in Model
    BY <1>8, <1>9, <1>10 DEF TypeOK
  <2>2. DOMAIN added = Models /\ added = [i \in Models |-> added[i]]
    BY <1>7
  <2> QED BY <2>1, <2>2
<1>12. \A i \in Models : i \in Used => added[i] = model[i]
  BY <1>5, <1>10
<1>13. \A i \in Models \ Used : added[i] = model[i] \/ \E k \in add : added[i] = NewRow(p, list[k], raced)
  BY <1>9, <1>10
<1>14. \A k \in add : id(k) \in 1 .. Top(Used) + Cardinality(add) /\ id(k) \notin Used
                      /\ (id(k) \in Models => added[id(k)] = NewRow(p, list[k], raced))
  BY <1>4, <1>5, <1>9
<1> QED BY <1>1, <1>3, <1>11, <1>12, <1>13, <1>14 DEF added, id

(* A plan of the rows as they are, and of rows of which others change.     *)
LEMMA PlanOfRows ==
    ASSUME NEW p, NEW list
    PROVE  Plan(p, list) = PlanFrom(model, p, list)
BY Zenon DEF Plan, PlanFrom, Missing, Local, RowsOf

LEMMA PlanShape ==
    ASSUME NEW rows, NEW p, NEW list \in Seq(Names)
    PROVE  LET plan == PlanFrom(rows, p, list) IN
           /\ plan \in Plans /\ plan.add \subseteq DOMAIN list
           /\ plan.off \subseteq plan.gone /\ plan.on \subseteq plan.back
<1>1. DOMAIN list \subseteq Nat
  OBVIOUS
<1> QED BY <1>1 DEF PlanFrom, Plans

LEMMA PlanOfOthers ==
    ASSUME NEW rows, NEW later, NEW p, NEW list,
           \A i \in Models : later[i] = rows[i] \/ p \notin {rows[i].prov, later[i].prov}
    PROVE  PlanFrom(later, p, list) = PlanFrom(rows, p, list)
<1> DEFINE Own(m)  == {i \in Models : m[i].prov = p}
           Gone(m) == {i \in Own(m) : m[i].name \notin Range(list) /\ ~m[i].missing}
           Back(m) == {i \in Own(m) : m[i].name \in Range(list) /\ m[i].missing}
           Add(m)  == {k \in DOMAIN list : {i \in Own(m) : m[i].name = list[k]} = {}}
           Off(m)  == {i \in Gone(m) : m[i].enabled}
           On(m)   == {i \in Back(m) : ~m[i].enabled}
<1>1. Own(later) = Own(rows) /\ \A i \in Own(rows) : later[i] = rows[i]
  OBVIOUS
<1>2. \A m : PlanFrom(m, p, list) = [add |-> Add(m), gone |-> Gone(m), off |-> Off(m),
                                     back |-> Back(m), on |-> On(m)]
  BY DEF PlanFrom
<1>3. Gone(later) = Gone(rows) /\ Back(later) = Back(rows)
  <2> HIDE DEF Own
  <2> QED BY <1>1
<1>4. Add(later) = Add(rows)
  <2> HIDE DEF Own
  <2>1. \A n : {i \in Own(later) : later[i].name = n} = {i \in Own(rows) : rows[i].name = n}
    BY <1>1
  <2> QED BY <2>1
<1>5. Off(later) = Off(rows) /\ On(later) = On(rows)
  <2>1. Gone(rows) \subseteq Own(rows) /\ Back(rows) \subseteq Own(rows)
    OBVIOUS
  <2> HIDE DEF Own, Gone, Back
  <2> QED BY <1>1, <1>3, <2>1
<1> HIDE DEF Own, Gone, Back, Add, Off, On
<1> QED BY <1>2, <1>3, <1>4, <1>5

(* Outdate marks the synchronisations whose rows change, and nobody else.  *)
LEMMA OutdateFacts ==
    ASSUME NEW frames \in [Requests -> Frames], req' = Outdate(frames),
           model \in [Models -> Model], model' \in [Models -> Model]
    PROVE  /\ req' \in [Requests -> Frames]
           /\ \A k \in Requests :
                 /\ req'[k].pc = frames[k].pc /\ req'[k].prov = frames[k].prov
                 /\ req'[k].conf = frames[k].conf /\ req'[k].key = frames[k].key
                 /\ req'[k].list = frames[k].list /\ req'[k].plan = frames[k].plan
                 /\ req'[k] = frames[k] \/ (frames[k].pc = "syncing" /\ req'[k].raced)
                 /\ frames[k].pc = "syncing" /\ ~req'[k].raced /\ frames[k].prov \in Providers =>
                       /\ req'[k] = frames[k]
                       /\ \A i \in Models :
                             \/ model'[i] = model[i]
                             \/ frames[k].prov \notin {model[i].prov, model'[i].prov}
<1> DEFINE touched == {p \in Providers : \E i \in Models :
                          model'[i] # model[i] /\ p \in {model[i].prov, model'[i].prov}}
           Hit(k) == frames[k].pc = "syncing" /\ frames[k].prov \in touched
<1>1. req' = [k \in Requests |-> IF Hit(k) THEN [frames[k] EXCEPT !.raced = TRUE] ELSE frames[k]]
  BY DEF Outdate
<1>2. ASSUME NEW p \in Providers, p \notin touched, NEW i \in Models
      PROVE  model'[i] = model[i] \/ p \notin {model[i].prov, model'[i].prov}
  BY <1>2
<1> HIDE DEF touched
<1>3. ASSUME NEW k \in Requests
      PROVE  /\ req'[k] \in Frames
             /\ req'[k].pc = frames[k].pc /\ req'[k].prov = frames[k].prov
             /\ req'[k].conf = frames[k].conf /\ req'[k].key = frames[k].key
             /\ req'[k].list = frames[k].list /\ req'[k].plan = frames[k].plan
             /\ IF Hit(k) THEN req'[k].raced ELSE req'[k] = frames[k]
  <2>1. frames[k] \in Frames
    OBVIOUS
  <2>2. CASE Hit(k)
    <3>1. req'[k] = [frames[k] EXCEPT !.raced = TRUE]
      BY <1>1, <2>2
    <3> QED BY <2>1, <2>2, <3>1 DEF Frames
  <2>3. CASE ~Hit(k)
    BY <1>1, <2>1, <2>3
  <2> QED BY <2>2, <2>3
<1>4. req' \in [Requests -> Frames]
  <2>1. DOMAIN req' = Requests /\ req' = [k \in Requests |-> req'[k]]
    BY <1>1
  <2> QED BY <1>3, <2>1
<1>5. ASSUME NEW k \in Requests, frames[k].pc = "syncing", ~req'[k].raced,
             frames[k].prov \in Providers
      PROVE  /\ req'[k] = frames[k]
             /\ \A i \in Models : \/ model'[i] = model[i]
                                  \/ frames[k].prov \notin {model[i].prov, model'[i].prov}
  BY <1>2, <1>3, <1>5
<1> QED BY <1>3, <1>4, <1>5

LEMMA NothingOutdated ==
    ASSUME NEW frames \in [Requests -> Frames], UNCHANGED model
    PROVE  Outdate(frames) = frames
BY DEF Outdate

-----------------------------------------------------------------------------
(* Steps that change what one request holds, and nothing else.             *)

LEMMA GotoFacts ==
    ASSUME TypeOK, NEW r \in Requests, NEW f \in Frames, Goto(r, f)
    PROVE  /\ req' \in [Requests -> Frames] /\ req'[r] = f
           /\ \A k \in Requests \ {r} : req'[k] = req[k]
BY DEF TypeOK, Goto

(* Nobody's invalidation or assignment is forgotten by the step of another.*)
LEMMA OthersGoOn ==
    ASSUME NEW r \in Requests, \A k \in Requests \ {r} : req'[k] = req[k]
    PROVE  /\ ~At(r, "changed") => \A p \in Providers : Changing(p) => Changing(p)'
           /\ ~At(r, "assign") => ((\E k \in Requests : At(k, "assign"))
                                       => \E k \in Requests : At(k, "assign")')
BY DEF Changing, At

LEMMA StaysFit ==
    ASSUME NEW k \in Requests, Fits(k), req'[k] = req[k],
           UNCHANGED <<conf, model, confs, stored, crossed>>,
           \A p \in Providers : Changing(p) => Changing(p)'
    PROVE  Fits(k)'
<1>2. At(k, "syncing")' = At(k, "syncing") /\ At(k, "assign")' = At(k, "assign")
  BY DEF At
<1>3. HasProvider(k)' /\ (req[k].conf <= confs)' /\ KeyIsLast(k)'
  BY <1>2 DEF Fits, HasProvider, KeyIsLast
<1>4. ListIsExplained(k)'
  <2>1. SUFFICES ASSUME req[k].pc \in {"listing", "fetching"},
                        req[k].conf \notin {0, conf[req[k].prov]}, ~req[k].raced
                 PROVE  Changing(req[k].prov)'
    BY DEF ListIsExplained
  <2>2. Changing(req[k].prov) /\ req[k].prov \in Providers
    BY <2>1 DEF Fits, ListIsExplained, HasProvider
  <2>3. PICK q \in Requests : At(q, "changed")' /\ req'[q].prov = req[k].prov
    BY <2>2 DEF Changing
  <2> QED BY <2>3 DEF Changing
<1>5. PlanIsFresh(k)'
  BY <1>2 DEF Fits, PlanIsFresh
<1> QED BY <1>3, <1>4, <1>5 DEF Fits

LEMMA RequestInv ==
    ASSUME IInv, NEW r \in Requests, NEW f \in Frames, Goto(r, f),
           ~At(r, "changed"), ~At(r, "assign"),
           UNCHANGED <<conf, model, cache, confs, stored, served, crossed>>, Fits(r)'
    PROVE  IInv'
<1>1. /\ req' \in [Requests -> Frames] /\ req'[r] = f
      /\ \A k \in Requests \ {r} : req'[k] = req[k]
  BY GotoFacts DEF IInv
<1>2. \A p \in Providers : Changing(p) => Changing(p)'
  BY <1>1, OthersGoOn
<1>3. TypeOK'
  BY <1>1 DEF IInv, TypeOK, Used
<1>4. FramesFit'
  <2>1. \A k \in Requests \ {r} : Fits(k)'
    BY <1>1, <1>2, StaysFit DEF IInv, FramesFit
  <2> QED BY <2>1 DEF FramesFit
<1>5. Versions' /\ EnabledAsListed' /\ SwitchedTogether'
  BY DEF IInv, Versions, EnabledAsListed, SwitchedTogether, Used
<1>6. CacheIsCurrent'
  <2>1. \A p \in Providers : cache[p].conf \notin {0, conf[p]} => cache[p].raced \/ Changing(p)
    BY DEF IInv, CacheIsCurrent, Changing
  <2> QED BY <1>2, <2>1 DEF CacheIsCurrent, Changing
<1>7. ServedKeyIsStored'
  BY <1>1, OthersGoOn DEF IInv, ServedKeyIsStored
<1> QED BY <1>3, <1>4, <1>5, <1>6, <1>7 DEF IInv

(* An idle request fits everywhere.                                        *)
LEMMA IdleFits ==
    ASSUME NEW r \in Requests, req'[r] = Idle, confs' \in Nat
    PROVE  Fits(r)'
BY DEF Fits, HasProvider, ListIsExplained, PlanIsFresh, KeyIsLast, At, Idle

LEMMA ConfsAreNumbers ==
    ASSUME TypeOK
    PROVE  confs \in Nat /\ \A p \in Providers : conf[p] \in Nat /\ cache[p].conf \in Nat
BY RoutingBounds DEF TypeOK, Confs, Entry

LEMMA DoneInv ==
    ASSUME IInv, NEW r \in Requests, Done(r), ~At(r, "changed"), ~At(r, "assign"),
           UNCHANGED <<conf, model, cache, confs, stored, served, crossed>>
    PROVE  IInv'
<1>1. Idle \in Frames /\ Goto(r, Idle)
  BY DefaultsTyped DEF Done
<1>2. Fits(r)'
  BY <1>1, GotoFacts, IdleFits, ConfsAreNumbers DEF IInv
<1> QED BY <1>1, <1>2, RequestInv

LEMMA TestProviderInv ==
    ASSUME IInv, NEW r \in Requests, NEW p \in Providers, TestProvider(r, p)
    PROVE  IInv'
<1> DEFINE f == [Idle EXCEPT !.pc = "testing", !.prov = p, !.test = TRUE]
<1>1. f \in Frames /\ f.pc = "testing" /\ f.prov = p /\ f.conf = 0
  <2>1. f \in Frames
    BY DefaultsTyped, FrameTyped
  <2>2. Idle \in Frames /\ Idle.conf = 0
    BY DefaultsTyped DEF Idle
  <2>3. f.pc = "testing" /\ f.prov = p /\ f.conf = Idle.conf
    BY <2>2 DEF Frames
  <2> QED BY <2>1, <2>2, <2>3
<1>2. /\ Goto(r, f) /\ ~At(r, "changed") /\ ~At(r, "assign")
      /\ UNCHANGED <<conf, model, cache, confs, stored, served, crossed>>
  BY DEF TestProvider, At, db, key
<1> HIDE DEF f
<1>3. Fits(r)'
  BY <1>1, <1>2, GotoFacts, ConfsAreNumbers
     DEF IInv, Fits, HasProvider, ListIsExplained, PlanIsFresh, KeyIsLast, At
<1> QED BY <1>1, <1>2, <1>3, RequestInv

LEMMA ListModelsInv ==
    ASSUME IInv, NEW r \in Requests, NEW p \in Providers, ListModels(r, p)
    PROVE  IInv'
<1> DEFINE f == [Idle EXCEPT !.pc = "listing", !.prov = p, !.conf = conf[p]]
<1>1. f \in Frames /\ f.pc = "listing" /\ f.prov = p /\ f.conf = conf[p]
  <2>1. f \in Frames
    BY DefaultsTyped, FrameTyped DEF IInv, TypeOK
  <2> QED BY <2>1, DefaultsTyped DEF Frames
<1>2. /\ Goto(r, f) /\ ~At(r, "changed") /\ ~At(r, "assign")
      /\ UNCHANGED <<conf, model, cache, confs, stored, served, crossed>>
  BY DEF ListModels, Begin, At, db, key
<1> HIDE DEF f
<1>3. Fits(r)'
  BY <1>1, <1>2, GotoFacts
     DEF IInv, Versions, Fits, HasProvider, ListIsExplained, PlanIsFresh, KeyIsLast, At
<1> QED BY <1>1, <1>2, <1>3, RequestInv

LEMMA SyncReadInv ==
    ASSUME IInv, NEW r \in Requests, NEW list \in Lists, SyncRead(r, list)
    PROVE  IInv'
<1> DEFINE p    == req[r].prov
           plan == PlanFrom(model, p, list)
           f    == [req[r] EXCEPT !.pc = "syncing", !.list = list, !.plan = plan]
<1>1. req[r] \in Frames /\ req[r].pc = "testing" /\ p \in Providers /\ req[r].conf <= confs
  BY DEF IInv, TypeOK, FramesFit, Fits, HasProvider, SyncRead, At
<1>2. list \in Seq(Names)
  BY ListsAssumption
<1>3. /\ Goto(r, f) /\ ~At(r, "changed") /\ ~At(r, "assign")
      /\ UNCHANGED <<conf, model, cache, confs, stored, served, crossed>>
  <2>1. Plan(p, list) = plan
    BY PlanOfRows
  <2> HIDE DEF plan
  <2> QED BY <1>1, <2>1 DEF SyncRead, At, db, key
<1>4. /\ plan \in Plans /\ plan.add \subseteq DOMAIN list
      /\ plan.off \subseteq plan.gone /\ plan.on \subseteq plan.back
  <2> HIDE DEF p
  <2> QED BY <1>2, PlanShape
<1> HIDE DEF plan
<1>5. f \in Frames /\ f.pc = "syncing" /\ f.prov = p /\ f.conf = req[r].conf /\ f.plan = plan
      /\ f.list = list
  BY <1>1, <1>2, <1>4 DEF Frames
<1> HIDE DEF f, p
<1>6. req'[r] = f
  BY <1>3, <1>5, GotoFacts DEF IInv
<1>7. PlanIsFresh(r)'
  <2>1. plan = PlanFrom(model', f.prov, f.list)
    BY <1>3, <1>5 DEF plan
  <2> QED BY <1>4, <1>5, <1>6, <2>1 DEF PlanIsFresh
<1>8. Fits(r)'
  BY <1>1, <1>3, <1>5, <1>6, <1>7 DEF Fits, HasProvider, ListIsExplained, KeyIsLast, At
<1> QED BY <1>3, <1>5, <1>8, RequestInv

LEMMA LookUpInv ==
    ASSUME IInv, NEW r \in Requests, LookUp(r)
    PROVE  IInv'
<1>1. /\ req[r] \in Frames /\ req[r].pc = "listing" /\ ~At(r, "changed") /\ ~At(r, "assign")
      /\ UNCHANGED <<conf, model, cache, confs, stored, served, crossed>>
  BY DEF IInv, TypeOK, LookUp, At, db, key
<1>2. CASE Done(r)
  BY <1>1, <1>2, DoneInv
<1>3. CASE Goto(r, [req[r] EXCEPT !.pc = "fetching"])
  <2> DEFINE f == [req[r] EXCEPT !.pc = "fetching"]
  <2>1. /\ f \in Frames /\ f.pc = "fetching" /\ f.prov = req[r].prov /\ f.conf = req[r].conf
        /\ f.raced = req[r].raced
    BY <1>1 DEF Frames
  <2> HIDE DEF f
  <2>2. req'[r] = f /\ \A k \in Requests \ {r} : req'[k] = req[k]
    BY <1>3, <2>1, GotoFacts DEF IInv, f
  <2>3. req[r].prov \in Providers /\ req[r].conf <= confs
    BY <1>1 DEF IInv, FramesFit, Fits, HasProvider
  <2>4. ListIsExplained(r)'
    <3>1. CASE req[r].conf \notin {0, conf[req[r].prov]} /\ ~req[r].raced
      <4>1. Changing(req[r].prov)
        BY <1>1, <3>1 DEF IInv, FramesFit, Fits, ListIsExplained
      <4>2. PICK q \in Requests : req[q].pc = "changed" /\ req[q].prov = req[r].prov
        BY <4>1 DEF Changing, At
      <4>3. q # r /\ req'[q] = req[q]
        BY <1>1, <2>2, <4>2
      <4> QED BY <2>1, <2>2, <4>2, <4>3 DEF ListIsExplained, Changing, At
    <3> QED BY <1>1, <2>1, <2>2, <3>1 DEF ListIsExplained
  <2>5. Fits(r)'
    BY <1>1, <2>1, <2>2, <2>3, <2>4 DEF Fits, HasProvider, PlanIsFresh, KeyIsLast, At
  <2> QED BY <1>1, <1>3, <2>1, <2>5, RequestInv DEF f
<1> QED BY <1>2, <1>3 DEF LookUp

-----------------------------------------------------------------------------
(* Steps that change the route list cache.                                 *)

LEMMA StoreInv ==
    ASSUME IInv, NEW r \in Requests, Store(r)
    PROVE  IInv'
<1> DEFINE p == req[r].prov
           e == [conf |-> req[r].conf, raced |-> req[r].raced]
<1>1. /\ req[r] \in Frames /\ req[r].pc = "fetching" /\ ~At(r, "changed") /\ ~At(r, "assign")
      /\ Goto(r, Idle) /\ cache' = [cache EXCEPT ![p] = e]
      /\ UNCHANGED <<conf, model, confs, stored, served, crossed>>
  BY DEF IInv, TypeOK, Store, At, Done, db, key
<1>2. p \in Providers /\ req[r].conf <= confs /\ ListIsExplained(r)
  BY <1>1 DEF IInv, FramesFit, Fits, HasProvider
<1>3. e \in Entry /\ e.conf = req[r].conf /\ e.raced = req[r].raced
  BY <1>1 DEF Entry, Frames
<1>4. /\ req' \in [Requests -> Frames] /\ req'[r] = Idle
      /\ \A k \in Requests \ {r} : req'[k] = req[k]
  BY <1>1, DefaultsTyped, GotoFacts DEF IInv
<1>5. \A q \in Providers : Changing(q) => Changing(q)'
  BY <1>1, <1>4, OthersGoOn
<1> HIDE DEF e, p
<1>6. \A q \in Providers : cache'[q] = IF q = p THEN e ELSE cache[q]
  BY <1>1, <1>2 DEF IInv, TypeOK
<1>7. TypeOK'
  BY <1>1, <1>3, <1>4 DEF IInv, TypeOK, Used
<1>8. FramesFit'
  <2>1. \A k \in Requests \ {r} : Fits(k)'
    BY <1>1, <1>4, <1>5, StaysFit DEF IInv, FramesFit
  <2>2. Fits(r)'
    BY <1>1, <1>4, IdleFits, ConfsAreNumbers DEF IInv
  <2> QED BY <2>1, <2>2 DEF FramesFit
<1>9. Versions'
  BY <1>1, <1>2, <1>3, <1>6 DEF IInv, Versions
<1>10. EnabledAsListed' /\ SwitchedTogether'
  BY <1>1 DEF IInv, EnabledAsListed, SwitchedTogether, Used
<1>11. CacheIsCurrent'
  <2>1. SUFFICES ASSUME NEW q \in Providers, cache'[q].conf \notin {0, conf[q]},
                        ~cache'[q].raced
                 PROVE  Changing(q)'
    BY <1>1 DEF CacheIsCurrent, Changing
  <2>2. Changing(q)
    <3>1. CASE q = p
      BY <1>1, <1>2, <1>3, <1>6, <2>1, <3>1 DEF ListIsExplained, p
    <3>2. CASE q # p
      BY <1>6, <2>1, <3>2 DEF IInv, CacheIsCurrent, Changing
    <3> QED BY <3>1, <3>2
  <2> QED BY <1>5, <2>2
<1>12. ServedKeyIsStored'
  BY <1>1, <1>4, OthersGoOn DEF IInv, ServedKeyIsStored
<1> QED BY <1>7, <1>8, <1>9, <1>10, <1>11, <1>12 DEF IInv

LEMMA ExpireInv ==
    ASSUME IInv, NEW p \in Providers, Expire(p)
    PROVE  IInv'
<1>1. UNCHANGED <<conf, model, confs, stored, served, crossed, req>>
  BY DEF Expire, db, key
<1>2. \A q \in Providers : cache'[q] = IF q = p THEN NoEntry ELSE cache[q]
  BY DEF IInv, TypeOK, Expire
<1>3. TypeOK'
  BY <1>1, DefaultsTyped DEF IInv, TypeOK, Expire, Used
<1>4. FramesFit'
  BY <1>1 DEF IInv, FramesFit, Fits, HasProvider, ListIsExplained, PlanIsFresh, KeyIsLast,
              Changing, At
<1>5. Versions'
  BY <1>1, <1>2, ConfsAreNumbers DEF IInv, Versions, NoEntry
<1>6. EnabledAsListed' /\ SwitchedTogether' /\ ServedKeyIsStored'
  BY <1>1 DEF IInv, EnabledAsListed, SwitchedTogether, ServedKeyIsStored, Used, At
<1>7. CacheIsCurrent'
  BY <1>1, <1>2 DEF IInv, CacheIsCurrent, NoEntry, At
<1> QED BY <1>3, <1>4, <1>5, <1>6, <1>7 DEF IInv

(* Whoever is listing the upstream when its list is invalidated knows.     *)
LEMMA InvalidateInv ==
    ASSUME IInv, NEW r \in Requests, Invalidate(r)
    PROVE  IInv'
<1> DEFINE p == req[r].prov
           Listing(k) == req[k].pc \in {"listing", "fetching"} /\ req[k].prov = p
<1>1. /\ req[r].pc = "changed" /\ p \in Providers
      /\ UNCHANGED <<conf, model, confs, stored, served, crossed>>
  BY DEF IInv, FramesFit, Fits, HasProvider, Invalidate, At, db, key
<1>2. req' = [k \in Requests |-> IF k = r THEN Idle
                                 ELSE IF Listing(k) THEN [req[k] EXCEPT !.raced = TRUE]
                                 ELSE req[k]]
  BY DEF Invalidate
<1>3. \A q \in Providers : cache'[q] = IF q = p THEN NoEntry ELSE cache[q]
  BY DEF IInv, TypeOK, Invalidate
<1>4. ASSUME NEW k \in Requests, k # r
      PROVE  /\ req'[k] \in Frames /\ req'[k].pc = req[k].pc /\ req'[k].prov = req[k].prov
             /\ req'[k].conf = req[k].conf /\ req'[k].plan = req[k].plan
             /\ req'[k].key = req[k].key
             /\ IF Listing(k) THEN req'[k].raced ELSE req'[k] = req[k]
  <2>1. req[k] \in Frames
    BY DEF IInv, TypeOK
  <2>2. CASE Listing(k)
    <3>1. req'[k] = [req[k] EXCEPT !.raced = TRUE]
      BY <1>2, <1>4, <2>2
    <3> QED BY <2>1, <2>2, <3>1 DEF Frames
  <2>3. CASE ~Listing(k)
    BY <1>2, <1>4, <2>1, <2>3
  <2> QED BY <2>2, <2>3
<1>5. req'[r] = Idle /\ req' \in [Requests -> Frames]
  <2>1. req'[r] = Idle /\ req'[r] \in Frames
    BY <1>2, DefaultsTyped
  <2> QED BY <1>2, <1>4, <2>1
<1>6. ASSUME NEW q \in Providers, q # p, Changing(q)
      PROVE  Changing(q)'
  <2>1. PICK k \in Requests : req[k].pc = "changed" /\ req[k].prov = q
    BY <1>6 DEF Changing, At
  <2>2. k # r
    BY <1>6, <2>1
  <2> QED BY <1>4, <2>1, <2>2 DEF Changing, At
<1>7. TypeOK'
  <2>1. cache' \in [Providers -> Entry]
    BY DefaultsTyped DEF IInv, TypeOK, Invalidate
  <2> QED BY <1>1, <1>5, <2>1 DEF IInv, TypeOK, Used
<1>8. FramesFit'
  <2>1. ASSUME NEW k \in Requests, k # r PROVE Fits(k)'
    <3>1. Fits(k)
      BY DEF IInv, FramesFit
    <3>2. HasProvider(k)' /\ (req[k].conf <= confs)' /\ KeyIsLast(k)'
      BY <1>1, <1>4, <2>1, <3>1 DEF Fits, HasProvider, KeyIsLast, At
    <3>3. ListIsExplained(k)'
      <4>1. CASE Listing(k)
        BY <1>4, <2>1, <4>1 DEF ListIsExplained
      <4>2. CASE ~Listing(k) /\ req[k].pc \in {"listing", "fetching"}
        <5>1. req[k].prov # p /\ req[k].prov \in Providers /\ req'[k] = req[k]
          BY <1>4, <2>1, <3>1, <4>2 DEF Fits, HasProvider
        <5>2. Changing(req[k].prov) => Changing(req[k].prov)'
          BY <1>6, <5>1
        <5>3. req[k].conf \notin {0, conf[req[k].prov]} =>
                  req[k].raced \/ Changing(req[k].prov)
          BY <3>1, <4>2 DEF Fits, ListIsExplained
        <5> HIDE DEF p, Listing
        <5>4. Changing(req[k].prov)' => \E q \in Requests : At(q, "changed")' /\ req'[q].prov = req'[k].prov
          BY <1>4, <2>1 DEF Changing
        <5> QED BY <1>1, <5>1, <5>2, <5>3, <5>4 DEF ListIsExplained, Changing
      <4>3. CASE req[k].pc \notin {"listing", "fetching"}
        BY <1>4, <2>1, <4>3 DEF ListIsExplained
      <4> QED BY <4>1, <4>2, <4>3
    <3>4. PlanIsFresh(k)'
      <4>1. req[k].pc = "syncing" => req'[k] = req[k]
        BY <1>4, <2>1
      <4> QED BY <1>1, <1>4, <2>1, <3>1, <4>1 DEF Fits, PlanIsFresh, At
    <3> QED BY <3>2, <3>3, <3>4 DEF Fits
  <2>2. Fits(r)'
    BY <1>1, <1>5, IdleFits, ConfsAreNumbers DEF IInv
  <2> QED BY <2>1, <2>2 DEF FramesFit
<1>9. Versions'
  BY <1>1, <1>3, ConfsAreNumbers DEF IInv, Versions, NoEntry
<1>10. EnabledAsListed' /\ SwitchedTogether'
  BY <1>1 DEF IInv, EnabledAsListed, SwitchedTogether, Used
<1>11. CacheIsCurrent'
  <2>1. SUFFICES ASSUME NEW q \in Providers, cache'[q].conf \notin {0, conf[q]},
                        ~cache'[q].raced
                 PROVE  Changing(q)'
    BY <1>1 DEF CacheIsCurrent, Changing
  <2>2. q # p /\ cache'[q] = cache[q]
    BY <1>3, <2>1 DEF NoEntry
  <2>3. Changing(q)
    BY <2>1, <2>2 DEF IInv, CacheIsCurrent, Changing
  <2> QED BY <1>6, <2>2, <2>3
<1>12. ServedKeyIsStored'
  <2>1. ASSUME NEW k \in Requests, At(k, "assign") PROVE At(k, "assign")'
    BY <1>1, <1>4, <2>1 DEF At
  <2> QED BY <1>1, <2>1 DEF IInv, ServedKeyIsStored
<1> QED BY <1>7, <1>8, <1>9, <1>10, <1>11, <1>12 DEF IInv

-----------------------------------------------------------------------------
(* Steps that change the providers.                                        *)

(* Nobody's invalidation or assignment is forgotten, and what a plan was   *)
(* made from changes for those that know it.                               *)
LEMMA GoOn ==
    ASSUME IInv, NEW frames \in [Requests -> Frames], req' = Outdate(frames),
           model' \in [Models -> Model],
           \A k \in Requests : frames[k] = req[k] \/ req[k].pc \notin {"changed", "assign"}
    PROVE  /\ \A p \in Providers : Changing(p) => Changing(p)'
           /\ (\E k \in Requests : At(k, "assign")) => \E k \in Requests : At(k, "assign")'
<1>1. \A k \in Requests : req'[k].pc = frames[k].pc /\ req'[k].prov = frames[k].prov
  BY OutdateFacts DEF IInv, TypeOK
<1>2. ASSUME NEW k \in Requests, req[k].pc \in {"changed", "assign"}
      PROVE  req'[k].pc = req[k].pc /\ req'[k].prov = req[k].prov
  BY <1>1, <1>2
<1> QED BY <1>2 DEF Changing, At

LEMMA FitsAgain ==
    ASSUME IInv, NEW frames \in [Requests -> Frames], req' = Outdate(frames),
           model' \in [Models -> Model],
           NEW k \in Requests, frames[k] = req[k], ListIsExplained(k)',
           confs' \in Nat, confs <= confs', UNCHANGED <<stored, crossed>>
    PROVE  Fits(k)'
<1>1. /\ Fits(k) /\ req[k] \in Frames /\ model \in [Models -> Model]
      /\ confs \in Nat /\ req[k].conf \in Nat
  <2>1. Fits(k) /\ req[k] \in Frames /\ model \in [Models -> Model] /\ confs \in Nat
    BY ConfsAreNumbers DEF IInv, FramesFit, TypeOK
  <2> QED BY <2>1, RoutingBounds DEF Frames, Confs
<1>2. /\ req'[k].pc = req[k].pc /\ req'[k].prov = req[k].prov
      /\ req'[k].conf = req[k].conf /\ req'[k].key = req[k].key
      /\ req'[k].list = req[k].list /\ req'[k].plan = req[k].plan
      /\ req[k].pc = "syncing" /\ ~req'[k].raced /\ req[k].prov \in Providers =>
            /\ req'[k] = req[k]
            /\ \A i \in Models : \/ model'[i] = model[i]
                                 \/ req[k].prov \notin {model[i].prov, model'[i].prov}
  BY <1>1, OutdateFacts
<1>3. HasProvider(k)' /\ KeyIsLast(k)' /\ (req[k].conf <= confs)'
  BY <1>1, <1>2 DEF Fits, HasProvider, KeyIsLast, At
<1>4. PlanIsFresh(k)'
  <2>1. SUFFICES ASSUME req[k].pc = "syncing", ~req'[k].raced
                 PROVE  req[k].plan = PlanFrom(model', req[k].prov, req[k].list)
    BY <1>1, <1>2 DEF Fits, PlanIsFresh, At
  <2>2. /\ req[k].prov \in Providers /\ ~req[k].raced
        /\ req[k].plan = PlanFrom(model, req[k].prov, req[k].list)
    BY <1>1, <1>2, <2>1 DEF Fits, HasProvider, PlanIsFresh, At
  <2>3. \A i \in Models : \/ model'[i] = model[i]
                          \/ req[k].prov \notin {model[i].prov, model'[i].prov}
    BY <1>2, <2>1, <2>2
  <2>4. PlanFrom(model', req[k].prov, req[k].list) = PlanFrom(model, req[k].prov, req[k].list)
    BY <2>3, PlanOfOthers
  <2> QED BY <2>2, <2>4
<1>5. (req[k].conf <= confs)'
  BY <1>1, <1>2 DEF Fits
<1> QED BY <1>3, <1>4, <1>5 DEF Fits

(* Rows that go, or stay as they are.                                      *)
Kept(i) == model'[i].prov = 0 \/ model'[i] = model[i]

(* A provider that gets another configuration, or goes.                    *)
LEMMA ConfInv ==
    ASSUME IInv, NEW r \in Requests, NEW p \in Providers, NEW c, NEW f \in Frames,
           At(r, "idle"), req' = Outdate([req EXCEPT ![r] = f]), f.prov = p, f.conf = 0,
           f.pc = "changed" \/ (f.pc = "testing" /\ conf[p] = 0),
           conf' = [conf EXCEPT ![p] = c],
           \/ c = 0 /\ confs' = confs
           \/ c = confs + 1 /\ confs' = c /\ c \in Confs,
           UNCHANGED <<cache, stored, served, crossed>>,
           model' \in [Models -> Model], \A i \in Models : Kept(i),
           c = 0 => \A i \in Models : model'[i].prov # p
    PROVE  IInv'
<1> DEFINE rest == [req EXCEPT ![r] = f]
<1>0. /\ rest \in [Requests -> Frames] /\ rest[r] = f /\ req' = Outdate(rest)
      /\ \A k \in Requests \ {r} : rest[k] = req[k]
      /\ model \in [Models -> Model]
  BY DEF IInv, TypeOK
<1> HIDE DEF rest
<1>1. /\ req' \in [Requests -> Frames] /\ req'[r].prov = p /\ req'[r].pc = f.pc
      /\ req'[r].conf = 0 /\ req'[r].pc # "syncing"
  BY <1>0, OutdateFacts
<1>2. /\ \A q \in Providers : Changing(q) => Changing(q)'
      /\ (\E k \in Requests : At(k, "assign")) => \E k \in Requests : At(k, "assign")'
  <2>1. \A k \in Requests : rest[k] = req[k] \/ req[k].pc \notin {"changed", "assign"}
    BY <1>0 DEF At
  <2> QED BY <1>0, <2>1, GoOn
<1>3. Changing(p)' \/ conf[p] = 0
  BY <1>1 DEF Changing, At
<1>4. confs \in Nat /\ \A q \in Providers : conf[q] \in Nat /\ cache[q].conf \in Nat
  BY ConfsAreNumbers DEF IInv
<1>5. /\ \A q \in Providers : conf'[q] = IF q = p THEN c ELSE conf[q]
      /\ c \in Nat /\ c \in Confs /\ confs' \in Confs /\ confs' \in Nat /\ confs <= confs'
      /\ 0 \in Confs
  BY <1>4, RoutingBounds DEF IInv, TypeOK, Confs
(* A configuration there was before is not the new one.                    *)
<1>6. ASSUME NEW q \in Providers, NEW v \in Nat, v <= confs, v \notin {0, conf'[q]}
      PROVE  v # conf[q] \/ Changing(q)'
  BY <1>3, <1>4, <1>5, <1>6
<1>7. EnabledAsListed' /\ SwitchedTogether'
  BY DEF IInv, EnabledAsListed, SwitchedTogether, Used, Kept
<1>8. TypeOK'
  <2>1. conf' \in [Providers -> Confs]
    BY <1>5 DEF IInv, TypeOK
  <2>2. ASSUME NEW i \in Used' PROVE conf'[model'[i].prov] # 0
    <3>1. i \in Models /\ model'[i].prov # 0 /\ model'[i] \in Model
      BY <2>2 DEF Used
    <3>2. model'[i].prov = model[i].prov /\ i \in Used /\ model'[i].prov \in Providers
      BY <3>1, RoutingBounds DEF Kept, Used, Model, Providers
    <3>3. conf[model'[i].prov] # 0
      BY <3>2 DEF IInv, TypeOK
    <3> QED BY <1>4, <1>5, <3>1, <3>2, <3>3
  <2> QED BY <1>1, <1>5, <2>1, <2>2 DEF IInv, TypeOK
<1>9. FramesFit'
  <2>1. ASSUME NEW k \in Requests, k # r PROVE Fits(k)'
    <3>1. /\ Fits(k) /\ req[k] \in Frames /\ rest[k] = req[k]
          /\ req'[k].pc = req[k].pc /\ req'[k].prov = req[k].prov /\ req'[k].conf = req[k].conf
          /\ req'[k].raced \/ req'[k] = req[k]
      <4>1. Fits(k) /\ req[k] \in Frames /\ rest[k] = req[k]
        BY <1>0, <2>1 DEF IInv, FramesFit, TypeOK
      <4>2. /\ req'[k].pc = rest[k].pc /\ req'[k].prov = rest[k].prov
            /\ req'[k].conf = rest[k].conf /\ (req'[k].raced \/ req'[k] = rest[k])
        BY <1>0, OutdateFacts
      <4> QED BY <4>1, <4>2
    <3>2. ListIsExplained(k)'
      <4>1. SUFFICES ASSUME req[k].pc \in {"listing", "fetching"},
                            req[k].conf \notin {0, conf'[req[k].prov]}, ~req[k].raced
                     PROVE  \E q \in Requests : At(q, "changed")' /\ req'[q].prov = req[k].prov
        BY <3>1 DEF ListIsExplained, Changing
      <4>2. /\ req[k].prov \in Providers /\ req[k].conf \in Nat /\ req[k].conf <= confs
            /\ req[k].conf = conf[req[k].prov] \/ Changing(req[k].prov)
        BY <3>1, <4>1, RoutingBounds DEF Fits, HasProvider, ListIsExplained, Frames, Confs
      <4>3. ASSUME NEW q \in Providers, q = req[k].prov PROVE Changing(q)'
        BY <1>2, <1>6, <4>1, <4>2, <4>3
      <4> QED BY <4>2, <4>3 DEF Changing
    <3> QED BY <1>0, <1>5, <3>1, <3>2, FitsAgain
  <2>2. Fits(r)'
    <3>1. req'[r].pc \in {"changed", "testing"}
      BY <1>1
    <3>2. HasProvider(r)' /\ ListIsExplained(r)' /\ (req[r].conf <= confs)'
      BY <1>1, <1>5 DEF HasProvider, ListIsExplained
    <3>3. PlanIsFresh(r)' /\ KeyIsLast(r)'
      BY <3>1 DEF PlanIsFresh, KeyIsLast, At
    <3> QED BY <3>2, <3>3 DEF Fits
  <2> QED BY <2>1, <2>2 DEF FramesFit
<1>10. Versions'
  <2>1. \A q \in Providers : conf'[q] <= confs' /\ cache'[q].conf <= confs'
    BY <1>4, <1>5 DEF IInv, Versions
  <2>2. ASSUME NEW q \in Providers, NEW s \in Providers, conf'[q] = conf'[s], conf'[q] # 0
        PROVE  q = s
    BY <1>4, <1>5, <2>2 DEF IInv, Versions
  <2> QED BY <2>1, <2>2 DEF Versions
<1>11. CacheIsCurrent'
  <2>1. SUFFICES ASSUME NEW q \in Providers, cache[q].conf \notin {0, conf'[q]},
                        ~cache[q].raced
                 PROVE  Changing(q)'
    BY DEF CacheIsCurrent, Changing
  <2>2. cache[q].conf <= confs /\ (cache[q].conf = conf[q] \/ Changing(q))
    BY <2>1 DEF IInv, Versions, CacheIsCurrent, Changing
  <2> QED BY <1>2, <1>4, <1>6, <2>1, <2>2
<1>12. ServedKeyIsStored'
  BY <1>2 DEF IInv, ServedKeyIsStored
<1> QED BY <1>7, <1>8, <1>9, <1>10, <1>11, <1>12 DEF IInv

LEMMA CreateProviderInv ==
    ASSUME IInv, NEW r \in Requests, NEW p \in Providers, CreateProvider(r, p)
    PROVE  IInv'
<1> DEFINE f == [Idle EXCEPT !.pc = "testing", !.prov = p]
           S == {q \in Providers : conf[q] # 0}
<1>1. f \in Frames /\ f.pc = "testing" /\ f.prov = p /\ f.conf = 0
  <2>1. f \in Frames /\ Idle \in Frames /\ Idle.conf = 0
    BY DefaultsTyped, FrameTyped DEF Idle
  <2> QED BY <2>1 DEF Frames
<1>2. conf[p] = 0
  <2>1. S \in SUBSET (1 .. MaxProvider) /\ MaxProvider \in Nat
    BY RoutingBounds DEF Providers
  <2>2. p = 1 + Top(S)
    BY DEF CreateProvider
  <2> HIDE DEF S
  <2>3. Top(S) \in Nat /\ \A q \in S : q <= Top(S)
    BY <2>1, TopIsLargest
  <2>4. p \notin S
    BY <2>2, <2>3
  <2> QED BY <2>4 DEF S
<1>0. [req EXCEPT ![r] = f] \in [Requests -> Frames]
  BY <1>1 DEF IInv, TypeOK
<1>3. /\ At(r, "idle") /\ req' = Outdate([req EXCEPT ![r] = f]) /\ conf' = [conf EXCEPT ![p] = confs + 1]
      /\ confs' = confs + 1 /\ confs < MaxConf
      /\ UNCHANGED <<model, cache, stored, served, crossed>>
  BY <1>0, NothingOutdated DEF CreateProvider, Goto, key
<1>4. confs + 1 \in Confs
  BY <1>3, RoutingBounds DEF IInv, TypeOK, Confs
<1>5. model' \in [Models -> Model] /\ \A i \in Models : Kept(i)
  BY <1>3 DEF IInv, TypeOK, Kept
<1>6. confs + 1 # 0
  BY <1>4, ConfsAreNumbers DEF IInv
<1> HIDE DEF f
<1> QED BY <1>1, <1>2, <1>3, <1>4, <1>5, <1>6, ConfInv

LEMMA UpdateProviderInv ==
    ASSUME IInv, NEW r \in Requests, NEW p \in Providers, UpdateProvider(r, p)
    PROVE  IInv'
<1> DEFINE f == [Idle EXCEPT !.pc = "changed", !.prov = p]
<1>1. f \in Frames /\ f.pc = "changed" /\ f.prov = p /\ f.conf = 0
  <2>1. f \in Frames /\ Idle \in Frames /\ Idle.conf = 0
    BY DefaultsTyped, FrameTyped DEF Idle
  <2> QED BY <2>1 DEF Frames
<1>0. [req EXCEPT ![r] = f] \in [Requests -> Frames]
  BY <1>1 DEF IInv, TypeOK
<1>3. /\ At(r, "idle") /\ req' = Outdate([req EXCEPT ![r] = f]) /\ conf' = [conf EXCEPT ![p] = confs + 1]
      /\ confs' = confs + 1 /\ confs < MaxConf
      /\ UNCHANGED <<model, cache, stored, served, crossed>>
  BY <1>0, NothingOutdated DEF UpdateProvider, Goto, key
<1>4. confs + 1 \in Confs
  BY <1>3, RoutingBounds DEF IInv, TypeOK, Confs
<1>5. model' \in [Models -> Model] /\ \A i \in Models : Kept(i)
  BY <1>3 DEF IInv, TypeOK, Kept
<1>6. confs + 1 # 0
  BY <1>4, ConfsAreNumbers DEF IInv
<1> HIDE DEF f
<1> QED BY <1>1, <1>3, <1>4, <1>5, <1>6, ConfInv

(* A provider that goes takes its models along.                            *)
LEMMA DeleteProviderInv ==
    ASSUME IInv, NEW r \in Requests, NEW p \in Providers, DeleteProvider(r, p)
    PROVE  IInv'
<1> DEFINE f == [Idle EXCEPT !.pc = "changed", !.prov = p]
<1>1. f \in Frames /\ f.pc = "changed" /\ f.prov = p /\ f.conf = 0
  <2>1. f \in Frames /\ Idle \in Frames /\ Idle.conf = 0
    BY DefaultsTyped, FrameTyped DEF Idle
  <2> QED BY <2>1 DEF Frames
<1>2. /\ At(r, "idle") /\ req' = Outdate([req EXCEPT ![r] = f]) /\ conf' = [conf EXCEPT ![p] = 0]
      /\ model' = [i \in Models |-> IF i \in RowsOf(p) THEN NoModel ELSE model[i]]
      /\ UNCHANGED <<cache, confs, stored, served, crossed>>
  BY DEF DeleteProvider, key
<1>3. NoModel \in Model /\ NoModel.prov = 0 /\ p # 0
  BY DefaultsTyped, RoutingBounds DEF NoModel, Providers
<1>4. /\ model' \in [Models -> Model]
      /\ \A i \in Models : model'[i] = IF i \in RowsOf(p) THEN NoModel ELSE model[i]
  BY <1>2, <1>3 DEF IInv, TypeOK
<1>5. \A i \in Models : Kept(i) /\ model'[i].prov # p
  BY <1>3, <1>4 DEF Kept, RowsOf
<1> HIDE DEF f
<1> QED BY <1>1, <1>2, <1>4, <1>5, ConfInv

-----------------------------------------------------------------------------
(* Steps that change the models.                                           *)

LEMMA RowsInv ==
    ASSUME IInv, NEW rest \in [Requests -> Frames], req' = Outdate(rest),
           UNCHANGED <<conf, cache, confs, stored, served, crossed>>,
           model' \in [Models -> Model], \A i \in Used' : conf[model'[i].prov] # 0,
           EnabledAsListed', SwitchedTogether',
           \A k \in Requests :
               \/ rest[k] = req[k]
               \/ /\ req[k].pc = "syncing" /\ rest[k].conf = 0
                  /\ \/ rest[k].pc = "idle"
                     \/ rest[k].pc = "changed" /\ rest[k].prov \in Providers
    PROVE  IInv'
<1>1. model \in [Models -> Model] /\ confs \in Nat
  BY ConfsAreNumbers DEF IInv, TypeOK
<1>2. req' \in [Requests -> Frames]
      /\ \A k \in Requests :
            /\ req'[k].pc = rest[k].pc /\ req'[k].prov = rest[k].prov
            /\ req'[k].conf = rest[k].conf
            /\ req'[k] = rest[k] \/ (rest[k].pc = "syncing" /\ req'[k].raced)
  BY <1>1, OutdateFacts
<1>3. /\ \A q \in Providers : Changing(q) => Changing(q)'
      /\ (\E k \in Requests : At(k, "assign")) => \E k \in Requests : At(k, "assign")'
  <2>1. \A k \in Requests : rest[k] = req[k] \/ req[k].pc \notin {"changed", "assign"}
    OBVIOUS
  <2> QED BY <2>1, GoOn
<1>4. TypeOK'
  BY <1>2 DEF IInv, TypeOK
<1>5. FramesFit'
  <2>1. ASSUME NEW k \in Requests, rest[k].conf = 0,
               rest[k].pc = "idle" \/ (rest[k].pc = "changed" /\ rest[k].prov \in Providers)
        PROVE  Fits(k)'
    <3>1. HasProvider(k)' /\ ListIsExplained(k)' /\ (req[k].conf <= confs)'
      BY <1>1, <1>2, <2>1 DEF HasProvider, ListIsExplained
    <3>2. PlanIsFresh(k)' /\ KeyIsLast(k)'
      BY <1>2, <2>1 DEF PlanIsFresh, KeyIsLast, At
    <3> QED BY <3>1, <3>2 DEF Fits
  <2>2. ASSUME NEW k \in Requests, rest[k] = req[k] PROVE Fits(k)'
    <3>1. Fits(k)
      BY DEF IInv, FramesFit
    <3>2. ListIsExplained(k)'
      <4>1. SUFFICES ASSUME req[k].pc \in {"listing", "fetching"},
                            req[k].conf \notin {0, conf[req[k].prov]}, ~req[k].raced
                     PROVE  \E q \in Requests : At(q, "changed")' /\ req'[q].prov = req[k].prov
        BY <1>2, <2>2 DEF ListIsExplained, Changing
      <4>2. req[k].prov \in Providers /\ Changing(req[k].prov)
        BY <3>1, <4>1 DEF Fits, HasProvider, ListIsExplained
      <4>3. ASSUME NEW q \in Providers, q = req[k].prov PROVE Changing(q)'
        BY <1>3, <4>2, <4>3
      <4> QED BY <4>2, <4>3 DEF Changing
    <3> QED BY <1>1, <2>2, <3>2, FitsAgain
  <2> QED BY <2>1, <2>2 DEF FramesFit
<1>6. Versions'
  BY DEF IInv, Versions
<1>7. CacheIsCurrent'
  <2>1. \A q \in Providers : cache[q].conf \notin {0, conf[q]} => cache[q].raced \/ Changing(q)
    BY DEF IInv, CacheIsCurrent, Changing
  <2> QED BY <1>3, <2>1 DEF CacheIsCurrent, Changing
<1>8. ServedKeyIsStored'
  BY <1>3 DEF IInv, ServedKeyIsStored
<1> QED BY <1>4, <1>5, <1>6, <1>7, <1>8 DEF IInv

(* One row is written by hand.                                             *)
LEMMA RowInv ==
    ASSUME IInv, NEW i \in Models, NEW row \in Model, model' = [model EXCEPT ![i] = row],
           row.prov # 0 => conf[row.prov] # 0,
           row.prov # 0 /\ row.by = "sync" =>
               /\ i \in Used /\ model[i].by = "sync" /\ (row.enabled <=> ~row.missing)
               /\ row.prov = model[i].prov /\ row.name = model[i].name
               /\ row.missing = model[i].missing,
           req' = Outdate(req), UNCHANGED <<conf, cache, confs, stored, served, crossed>>
    PROVE  IInv'
<1>1. model' \in [Models -> Model] /\ req \in [Requests -> Frames]
      /\ \A j \in Models : model'[j] = IF j = i THEN row ELSE model[j]
  BY DEF IInv, TypeOK
<1>2. \A j \in Used' : conf[model'[j].prov] # 0
  BY <1>1 DEF IInv, TypeOK, Used
<1>3. EnabledAsListed'
  BY <1>1 DEF IInv, EnabledAsListed, Used
<1>4. SwitchedTogether'
  <2>1. ASSUME NEW j \in Used', model'[j].by = "sync"
        PROVE  /\ j \in Used /\ model[j].by = "sync" /\ model'[j].prov = model[j].prov
               /\ model'[j].name = model[j].name /\ model'[j].missing = model[j].missing
    BY <1>1, <2>1 DEF Used
  <2> QED BY <2>1 DEF IInv, SwitchedTogether
<1> QED BY <1>1, <1>2, <1>3, <1>4, RowsInv

LEMMA DeleteModelInv ==
    ASSUME IInv, NEW i \in Models, DeleteModel(i)
    PROVE  IInv'
<1>1. NoModel \in Model /\ NoModel.prov = 0
  BY DefaultsTyped DEF NoModel
<1> QED BY <1>1, RowInv DEF DeleteModel, key

LEMMA UpdateModelInv ==
    ASSUME IInv, NEW i \in Models, NEW p \in Providers, NEW n \in Names, NEW on \in BOOLEAN,
           UpdateModel(i, p, n, on)
    PROVE  IInv'
<1> DEFINE row == [prov |-> p, name |-> n, enabled |-> on, missing |-> model[i].missing,
                   by |-> IF <<p, n, on>> = <<model[i].prov, model[i].name, model[i].enabled>>
                          THEN model[i].by ELSE "admin"]
<1>1. /\ model' = [model EXCEPT ![i] = row] /\ req' = Outdate(req) /\ conf[p] # 0 /\ i \in Used
      /\ UNCHANGED <<conf, cache, confs, stored, served, crossed>>
  BY DEF UpdateModel, key
<1>2. row \in Model /\ row.prov = p
  <2>1. model[i] \in Model
    BY DEF IInv, TypeOK
  <2>2. row.by \in {"admin", "sync", "overlap"}
    BY <2>1 DEF Model
  <2> QED BY <2>1, <2>2, RoutingBounds DEF Model, Providers
<1>3. row.by = "sync" =>
          /\ i \in Used /\ model[i].by = "sync" /\ (row.enabled <=> ~row.missing)
          /\ row.prov = model[i].prov /\ row.name = model[i].name
          /\ row.missing = model[i].missing
  BY <1>1 DEF IInv, EnabledAsListed
<1> HIDE DEF row
<1> QED BY <1>1, <1>2, <1>3, RowInv

LEMMA CreateModelInv ==
    ASSUME IInv, NEW p \in Providers, NEW n \in Names, NEW on \in BOOLEAN, CreateModel(p, n, on)
    PROVE  IInv'
<1> DEFINE i   == 1 + Top(Used)
           row == [prov |-> p, name |-> n, enabled |-> on, missing |-> FALSE, by |-> "admin"]
<1>1. /\ model' = [model EXCEPT ![i] = row] /\ req' = Outdate(req) /\ conf[p] # 0
      /\ i <= MaxModel /\ UNCHANGED <<conf, cache, confs, stored, served, crossed>>
  BY DEF CreateModel, key
<1>2. row \in Model /\ row.prov = p /\ row.by = "admin"
  BY RoutingBounds DEF Model, Providers
<1>3. i \in Models
  <2>1. Used \in SUBSET (1 .. MaxModel) /\ MaxModel \in Nat
    BY RoutingBounds DEF Used, Models
  <2>2. Top(Used) \in Nat
    BY <2>1, TopIsLargest
  <2> QED BY <1>1, <2>1, <2>2 DEF Models
<1> HIDE DEF row, i
<1> QED BY <1>1, <1>2, <1>3, RowInv

MarkedAs(new, row, i, plan, raced) ==
    /\ new.prov = row.prov /\ new.name = row.name
    /\ new.missing = (IF i \in plan.gone THEN TRUE
                      ELSE IF i \in plan.back THEN FALSE ELSE row.missing)
    /\ new.enabled = (IF i \in plan.off THEN FALSE
                      ELSE IF i \in plan.on THEN TRUE ELSE row.enabled)
    /\ new.by = (IF raced /\ i \in plan.gone \cup plan.back THEN "overlap"
                 ELSE IF i \in plan.off \cup plan.on THEN "sync" ELSE row.by)
    /\ i \notin plan.gone \cup plan.back \cup plan.off \cup plan.on => new = row

LEMMA MarkedFacts ==
    ASSUME NEW row \in Model, NEW i, NEW plan \in Plans, NEW raced \in BOOLEAN
    PROVE  /\ Marked(row, i, plan, raced) \in Model
           /\ MarkedAs(Marked(row, i, plan, raced), row, i, plan, raced)
BY DEF Marked, MarkedAs, Model

(* Nothing has gone that the synchronisation is about to write to.         *)
SyncWorks(r) ==
    LET plan == req[r].plan IN
    (plan.add # {} => conf[req[r].prov] # 0) /\ (plan.gone \cup plan.back \subseteq Used)

LEMMA SyncRows ==
    ASSUME IInv, NEW r \in Requests, SyncWrite(r), SyncWorks(r)
    PROVE  LET plan == req[r].plan IN
           /\ model' \in [Models -> Model]
           /\ \A i \in Used : model'[i] = Marked(model[i], i, plan, req[r].raced)
           /\ \A i \in Models \ Used :
                 model'[i] = model[i]
                 \/ \E k \in plan.add : model'[i] = NewRow(req[r].prov, req[r].list[k], req[r].raced)
           /\ \A k \in plan.add :
                 /\ NewId(plan.add, k) \in Models
                 /\ model'[NewId(plan.add, k)] = NewRow(req[r].prov, req[r].list[k], req[r].raced)
<1> DEFINE p     == req[r].prov
           list  == req[r].list
           plan  == req[r].plan
           raced == req[r].raced
           added == Added(p, list, plan.add, raced)
<1>1. /\ p \in Providers /\ list \in Seq(Names) /\ plan \in Plans /\ raced \in BOOLEAN
      /\ plan.add \in SUBSET DOMAIN list
      /\ plan.off \subseteq plan.gone /\ plan.on \subseteq plan.back
  BY DEF IInv, TypeOK, FramesFit, Fits, HasProvider, PlanIsFresh, SyncWrite, At, Frames
<1>2. /\ model' = [i \in Models |-> Marked(added[i], i, plan, raced)]
      /\ Top(Used) + Cardinality(plan.add) <= MaxModel
      /\ plan.gone \cup plan.back \subseteq Used
  BY DEF SyncWrite, SyncWorks
<1> HIDE DEF p, list, plan, raced
<1>3. /\ added \in [Models -> Model]
      /\ Cardinality(plan.add) \in Nat /\ Top(Used) \in Nat
      /\ \A i \in Models : i \in Used => added[i] = model[i]
      /\ \A i \in Models \ Used :
             added[i] = model[i] \/ \E k \in plan.add : added[i] = NewRow(p, list[k], raced)
      /\ \A k \in plan.add :
             /\ NewId(plan.add, k) \in 1 .. Top(Used) + Cardinality(plan.add)
             /\ NewId(plan.add, k) \notin Used
             /\ NewId(plan.add, k) \in Models => added[NewId(plan.add, k)] = NewRow(p, list[k], raced)
  <2>1. TypeOK
    BY DEF IInv
  <2>2. \A q \in Providers, l \in Seq(Names) : \A add \in SUBSET DOMAIN l :
           LET rows == Added(q, l, add, raced) IN
           /\ rows \in [Models -> Model]
           /\ Cardinality(add) \in Nat /\ Top(Used) \in Nat
           /\ \A i \in Models : i \in Used => rows[i] = model[i]
           /\ \A i \in Models \ Used :
                  rows[i] = model[i] \/ \E k \in add : rows[i] = NewRow(q, l[k], raced)
           /\ \A k \in add :
                  /\ NewId(add, k) \in 1 .. Top(Used) + Cardinality(add)
                  /\ NewId(add, k) \notin Used
                  /\ NewId(add, k) \in Models => rows[NewId(add, k)] = NewRow(q, l[k], raced)
    BY <1>1, <2>1, AddedRows
  <2> QED BY <1>1, <2>2, Zenon
<1> HIDE DEF added
<1>4. Used \subseteq Models
  BY DEF Used
<1>5. ASSUME NEW i \in Models
      PROVE  /\ model'[i] = Marked(added[i], i, plan, raced) /\ model'[i] \in Model
             /\ i \notin Used => model'[i] = added[i]
  <2>1. model'[i] = Marked(added[i], i, plan, raced) /\ added[i] \in Model
    BY <1>2, <1>3
  <2>2. i \notin Used => i \notin plan.gone \cup plan.back \cup plan.off \cup plan.on
    BY <1>1, <1>2
  <2>3. model'[i] \in Model /\ MarkedAs(model'[i], added[i], i, plan, raced)
    BY <1>1, <2>1, MarkedFacts
  <2> QED BY <2>1, <2>2, <2>3 DEF MarkedAs
<1>6. model' \in [Models -> Model]
  BY <1>2, <1>5
<1>7. \A i \in Used : model'[i] = Marked(model[i], i, plan, raced)
  BY <1>3, <1>4, <1>5
<1>8. \A i \in Models \ Used :
          model'[i] = model[i] \/ \E k \in plan.add : model'[i] = NewRow(p, list[k], raced)
  BY <1>3, <1>5
<1>9. ASSUME NEW k \in plan.add
      PROVE  /\ NewId(plan.add, k) \in Models
             /\ model'[NewId(plan.add, k)] = NewRow(p, list[k], raced)
  <2> DEFINE id == NewId(plan.add, k)
  <2>1. id \in 1 .. Top(Used) + Cardinality(plan.add) /\ id \notin Used
        /\ (id \in Models => added[id] = NewRow(p, list[k], raced))
    BY <1>3
  <2> HIDE DEF id
  <2>2. id \in Models
    BY <1>2, <1>3, <2>1, RoutingBounds DEF Models
  <2>3. model'[id] = NewRow(p, list[k], raced)
    BY <1>5, <2>1, <2>2
  <2> QED BY <2>2, <2>3 DEF id
<1> QED BY <1>6, <1>7, <1>8, <1>9 DEF p, list, plan, raced

LEMMA SyncMirrors ==
    ASSUME IInv, NEW r \in Requests, SyncWrite(r), SyncWorks(r), ~req[r].raced
    PROVE  Mirrors(req[r].prov, Range(req[r].list))
<1> DEFINE p     == req[r].prov
           list  == req[r].list
           plan  == req[r].plan
           names == Range(list)
<1>1. /\ p \in Providers /\ list \in Seq(Names) /\ req[r].pc = "syncing"
      /\ plan = PlanFrom(model, p, list)
  BY DEF IInv, TypeOK, FramesFit, Fits, HasProvider, PlanIsFresh, SyncWrite, At, Frames
<1> HIDE DEF p, list
<1>2. /\ plan.add = {k \in DOMAIN list : Local(p, list[k]) = {}}
      /\ plan.gone = {i \in RowsOf(p) : model[i].name \notin names /\ ~model[i].missing}
      /\ plan.back = {i \in RowsOf(p) : model[i].name \in names /\ model[i].missing}
      /\ plan.off = {i \in plan.gone : model[i].enabled}
      /\ plan.on = {i \in plan.back : ~model[i].enabled}
  BY <1>1 DEF PlanFrom, RowsOf, Local
<1>3. RowsOf(p) \subseteq Used /\ Used \subseteq Models
  BY <1>1, RoutingBounds DEF RowsOf, Used, Providers
<1>4. SyncWorks(r)
  OBVIOUS
<1>5. /\ \A i \in Used : model'[i] = Marked(model[i], i, plan, FALSE)
      /\ \A i \in Models \ Used :
            model'[i] = model[i] \/ \E k \in plan.add : model'[i] = NewRow(p, list[k], FALSE)
      /\ \A k \in plan.add : NewId(plan.add, k) \in Models
                             /\ model'[NewId(plan.add, k)] = NewRow(p, list[k], FALSE)
  <2>1. req[r].raced = FALSE
    BY DEF IInv, TypeOK, Frames
  <2> QED BY <1>4, <2>1, SyncRows, Zenon DEF p, list
<1>6. plan \in Plans /\ \A i \in Models : model[i] \in Model
  BY DEF IInv, TypeOK, Frames
<1>7. \A i \in Used : MarkedAs(model'[i], model[i], i, plan, FALSE)
  BY <1>3, <1>5, <1>6, MarkedFacts
<1> HIDE DEF plan, names
<1>8. \A n : NewRow(p, n, FALSE).prov = p /\ NewRow(p, n, FALSE).name = n
             /\ NewRow(p, n, FALSE).enabled = TRUE /\ NewRow(p, n, FALSE).missing = FALSE
  BY DEF NewRow
<1>9. ASSUME NEW n \in names
      PROVE  \E i \in Models : model'[i].prov = p /\ model'[i].name = n
  <2>1. PICK k \in DOMAIN list : list[k] = n
    BY <1>9, Zenon DEF names, Range
  <2>2. CASE k \in plan.add
    <3>1. /\ NewId(plan.add, k) \in Models
          /\ model'[NewId(plan.add, k)] = NewRow(p, list[k], FALSE)
      BY <1>5, <2>2
    <3>2. NewRow(p, list[k], FALSE).prov = p /\ NewRow(p, list[k], FALSE).name = n
      BY <1>8, <2>1
    <3> QED BY <3>1, <3>2
  <2>3. CASE k \notin plan.add
    <3>1. PICK i \in RowsOf(p) : model[i].name = n
      BY <1>2, <2>1, <2>3 DEF Local
    <3>2. model[i].prov = p
      BY <3>1 DEF RowsOf
    <3> QED BY <1>3, <1>7, <3>1, <3>2 DEF MarkedAs
  <2> QED BY <2>2, <2>3
<1>10. ASSUME NEW k \in plan.add
       PROVE  list[k] \in names /\ Local(p, list[k]) = {}
  BY <1>2, Zenon DEF names, Range
<1>11. ASSUME NEW i \in Models, i \notin Used
       PROVE  \/ model'[i] = model[i] /\ model'[i].prov # p
              \/ /\ model'[i].prov = p /\ model'[i].name \in names
                 /\ Local(p, model'[i].name) = {} /\ i \notin RowsOf(p)
                 /\ model'[i].enabled = TRUE /\ model'[i].missing = FALSE
  <2>1. model[i].prov # p /\ i \notin RowsOf(p)
    BY <1>1, <1>3, <1>11, RoutingBounds DEF Used, Providers
  <2>2. CASE model'[i] = model[i]
    BY <2>1, <2>2
  <2>3. CASE \E k \in plan.add : model'[i] = NewRow(p, list[k], FALSE)
    <3>1. PICK k \in plan.add : model'[i] = NewRow(p, list[k], FALSE)
      BY <2>3
    <3> QED BY <1>8, <1>10, <2>1, <3>1
  <2> QED BY <1>5, <1>11, <2>2, <2>3
<1>12. ASSUME NEW i \in Used, i \notin RowsOf(p)
       PROVE  model'[i] = model[i] /\ model'[i].prov # p
  <2>1. model[i].prov # p
    BY <1>3, <1>12 DEF RowsOf
  <2> QED BY <1>2, <1>7, <1>12, <2>1 DEF MarkedAs
<1>13. ASSUME NEW i \in RowsOf(p)
       PROVE  /\ model'[i].prov = p /\ i \in Used
              /\ model'[i].missing <=> model'[i].name \notin names
              /\ \/ model'[i].enabled = ~model'[i].missing
                 \/ model'[i].enabled = model[i].enabled /\ model'[i].missing = model[i].missing
  <2>1. i \in Used /\ model[i].prov = p /\ model[i].missing \in BOOLEAN
        /\ model[i].enabled \in BOOLEAN
    BY <1>3, <1>6, <1>13 DEF RowsOf, Model
  <2>2. CASE i \in plan.gone
    <3>1. /\ i \notin plan.back /\ i \notin plan.on /\ (i \in plan.off <=> model[i].enabled)
          /\ model[i].name \notin names
      BY <1>2, <2>2
    <3> QED BY <1>7, <2>1, <2>2, <3>1 DEF MarkedAs
  <2>3. CASE i \in plan.back
    <3>1. /\ i \notin plan.gone /\ i \notin plan.off /\ (i \in plan.on <=> ~model[i].enabled)
          /\ model[i].name \in names
      BY <1>2, <2>3
    <3> QED BY <1>7, <2>1, <2>3, <3>1 DEF MarkedAs
  <2>4. CASE i \notin plan.gone /\ i \notin plan.back
    <3>1. i \notin plan.off /\ i \notin plan.on
          /\ (model[i].missing <=> model[i].name \notin names)
      BY <1>2, <1>13, <2>1, <2>4
    <3> QED BY <1>7, <2>1, <2>4, <3>1 DEF MarkedAs
  <2> QED BY <2>2, <2>3, <2>4
<1>14. ASSUME NEW i \in Models
       PROVE  IF model'[i].prov # p THEN model'[i] = model[i]
              ELSE /\ model'[i].missing <=> model'[i].name \notin names
                   /\ IF i \in RowsOf(p)
                      THEN \/ model'[i].enabled = ~model'[i].missing
                           \/ model'[i].enabled = model[i].enabled
                              /\ model'[i].missing = model[i].missing
                      ELSE Local(p, model'[i].name) = {}
  <2>1. CASE i \in RowsOf(p)
    BY <1>13, <2>1
  <2>2. CASE i \notin RowsOf(p) /\ i \in Used
    BY <1>12, <2>2
  <2>3. CASE i \notin Used
    <3>1. CASE model'[i] = model[i] /\ model'[i].prov # p
      BY <3>1
    <3>2. CASE /\ model'[i].prov = p /\ model'[i].name \in names
               /\ Local(p, model'[i].name) = {} /\ i \notin RowsOf(p)
               /\ model'[i].missing = FALSE
      BY <3>2
    <3> QED BY <1>11, <2>3, <3>1, <3>2
  <2> QED BY <2>1, <2>2, <2>3
<1>15. Mirrors(p, names)
  BY <1>9, <1>14, Zenon DEF Mirrors
<1> QED BY <1>15, Zenon DEF p, names, list

LEMMA SyncWriteInv ==
    ASSUME IInv, NEW r \in Requests, SyncWrite(r)
    PROVE  IInv'
<1> DEFINE p     == req[r].prov
           list  == req[r].list
           plan  == req[r].plan
           raced == req[r].raced
           next  == IF req[r].test THEN [Idle EXCEPT !.pc = "changed", !.prov = p] ELSE Idle
           rest  == [req EXCEPT ![r] = next]
<1>1. /\ req[r] \in Frames /\ req[r].pc = "syncing" /\ p \in Providers
      /\ ~At(r, "changed") /\ ~At(r, "assign") /\ plan \in Plans /\ raced \in BOOLEAN
      /\ plan.off \subseteq plan.gone /\ plan.on \subseteq plan.back
      /\ raced \/ plan = PlanFrom(model, p, list)
      /\ UNCHANGED <<conf, cache, confs, stored, served, crossed>>
  BY DEF IInv, TypeOK, FramesFit, Fits, HasProvider, PlanIsFresh, SyncWrite, At, Frames, key
<1>2. CASE ~SyncWorks(r)
  <2>1. Done(r) /\ UNCHANGED model
    BY <1>2 DEF SyncWrite, SyncWorks
  <2> QED BY <1>1, <2>1, DoneInv
<1>3. CASE SyncWorks(r)
  <2>1. req' = Outdate(rest)
    BY <1>3 DEF SyncWrite, SyncWorks
  <2>2. next \in Frames /\ next.conf = 0
        /\ (next.pc = "idle" \/ (next.pc = "changed" /\ next.prov = p))
    <3>1. Idle \in Frames /\ Idle.pc = "idle" /\ Idle.conf = 0
      BY DefaultsTyped DEF Idle
    <3>2. [Idle EXCEPT !.pc = "changed", !.prov = p] \in Frames
      BY <1>1, <3>1, FrameTyped
    <3>3. CASE req[r].test
      BY <3>1, <3>2, <3>3 DEF Frames
    <3>4. CASE ~req[r].test
      BY <3>1, <3>4
    <3> QED BY <3>3, <3>4
  <2> HIDE DEF next
  <2>3. /\ rest \in [Requests -> Frames]
        /\ \A k \in Requests :
              \/ rest[k] = req[k]
              \/ /\ req[k].pc = "syncing" /\ rest[k].conf = 0
                 /\ \/ rest[k].pc = "idle"
                    \/ rest[k].pc = "changed" /\ rest[k].prov \in Providers
    BY <1>1, <2>2 DEF IInv, TypeOK
  <2>4. /\ model' \in [Models -> Model]
        /\ \A i \in Used : model'[i] = Marked(model[i], i, plan, raced)
        /\ \A i \in Models \ Used :
              model'[i] = model[i] \/ \E k \in plan.add : model'[i] = NewRow(p, list[k], raced)
    BY <1>3, SyncRows
  <2>5. \A i \in Used : i \in Models /\ model[i] \in Model
    BY DEF IInv, TypeOK, Used
  <2> HIDE DEF rest, p, list, plan, raced
  <2>6. \A i \in Used : MarkedAs(model'[i], model[i], i, plan, raced)
    BY <1>1, <2>4, <2>5, MarkedFacts
  <2>7. \A n : NewRow(p, n, raced).prov = p /\ NewRow(p, n, raced).enabled = TRUE
               /\ NewRow(p, n, raced).missing = FALSE
    BY DEF NewRow
  <2>8. ASSUME NEW i \in Used'
        PROVE  conf[model'[i].prov] # 0
    <3>1. i \in Models /\ model'[i].prov # 0
      BY <2>8 DEF Used
    <3>2. CASE i \in Used
      BY <2>6, <3>2 DEF IInv, TypeOK, MarkedAs
    <3>3. CASE i \notin Used
      <4>1. model[i].prov = 0
        BY <3>1, <3>3 DEF Used
      <4>2. PICK k \in plan.add : model'[i] = NewRow(p, list[k], raced)
        BY <2>4, <3>1, <3>3, <4>1
      <4>3. conf[p] # 0
        BY <1>3 DEF SyncWorks, p, plan
      <4> QED BY <2>7, <4>2, <4>3
    <3> QED BY <3>2, <3>3
  <2>9. EnabledAsListed'
    <3>1. SUFFICES ASSUME NEW i \in Used', model'[i].by = "sync"
                   PROVE  model'[i].enabled <=> ~model'[i].missing
      BY DEF EnabledAsListed
    <3>2. i \in Models /\ model'[i].prov # 0
      BY DEF Used
    <3>3. CASE i \notin Used
      <4>1. model[i].prov = 0
        BY <3>2, <3>3 DEF Used
      <4>2. PICK k \in plan.add : model'[i] = NewRow(p, list[k], raced)
        BY <2>4, <3>2, <3>3, <4>1
      <4> QED BY <2>7, <4>2
    <3>4. CASE i \in Used /\ i \notin plan.gone \cup plan.back
      <4>1. i \notin plan.off \cup plan.on
        BY <1>1, <3>4
      <4> QED BY <2>6, <3>1, <3>4, <4>1 DEF IInv, EnabledAsListed, MarkedAs
    <3>5. CASE i \in Used /\ i \in plan.gone \cup plan.back
      <4>1. ~raced
        BY <2>6, <3>1, <3>5 DEF MarkedAs
      <4>2. plan = PlanFrom(model, p, list)
        BY <1>1, <4>1
      <4>3. /\ i \in plan.gone => /\ i \notin plan.back /\ i \notin plan.on
                                  /\ i \in plan.off <=> model[i].enabled
            /\ i \in plan.back => /\ i \notin plan.gone /\ i \notin plan.off
                                  /\ i \in plan.on <=> ~model[i].enabled
        BY <4>2 DEF PlanFrom
      <4> QED BY <2>5, <2>6, <3>5, <4>3 DEF Model, MarkedAs
    <3> QED BY <3>3, <3>4, <3>5
  <2>10. SwitchedTogether'
    <3>1. SUFFICES ASSUME NEW i \in Used', NEW j \in Used',
                          model'[i].prov = model'[j].prov, model'[i].name = model'[j].name,
                          model'[i].by = "sync", model'[j].by = "sync"
                   PROVE  model'[i].missing = model'[j].missing
      BY DEF SwitchedTogether
    <3>2. i \in Models /\ j \in Models /\ model'[i].prov # 0 /\ model'[j].prov # 0
      BY DEF Used
    <3>3. CASE raced
      <4>1. ASSUME NEW k \in Models, model'[k].prov # 0, model'[k].by = "sync"
            PROVE  k \in Used /\ model'[k] = model[k]
        <5>1. CASE k \in Used
          <6>1. k \notin plan.gone \cup plan.back
            BY <2>6, <3>3, <4>1, <5>1 DEF MarkedAs
          <6>2. k \notin plan.off \cup plan.on
            BY <1>1, <6>1 DEF plan
          <6> QED BY <2>6, <5>1, <6>1, <6>2 DEF MarkedAs
        <5>2. CASE k \notin Used
          <6>1. model[k].prov = 0
            BY <4>1, <5>2 DEF Used
          <6>2. PICK m \in plan.add : model'[k] = NewRow(p, list[m], raced)
            BY <2>4, <4>1, <5>2, <6>1
          <6>3. model'[k].by = "overlap"
            BY <3>3, <6>2 DEF NewRow
          <6> QED BY <4>1, <6>3
        <5> QED BY <5>1, <5>2
      <4>2. i \in Used /\ model'[i] = model[i] /\ j \in Used /\ model'[j] = model[j]
        BY <3>1, <3>2, <4>1
      <4> QED BY <3>1, <4>2 DEF IInv, SwitchedTogether
    <3>4. CASE ~raced
      <4>1. Mirrors(p, Range(list))
        BY <1>3, <3>4, SyncMirrors DEF p, list, raced
      <4>2. \A k \in Models : model'[k] \in Model
        BY <2>4
      <4>3. CASE model'[i].prov = p
        BY <3>1, <3>2, <4>1, <4>2, <4>3 DEF Mirrors, Model
      <4>4. CASE model'[i].prov # p
        <5>1. model'[i] = model[i] /\ model'[j] = model[j]
          BY <3>1, <3>2, <4>1, <4>4 DEF Mirrors
        <5>2. i \in Used /\ j \in Used
          BY <3>2, <5>1 DEF Used
        <5> QED BY <3>1, <5>1, <5>2 DEF IInv, SwitchedTogether
      <4> QED BY <4>3, <4>4
    <3> QED BY <3>3, <3>4
  <2> QED BY <1>1, <2>1, <2>3, <2>4, <2>8, <2>9, <2>10, RowsInv
<1> QED BY <1>2, <1>3

-----------------------------------------------------------------------------
(* Steps that change the service key.                                      *)

LEMMA ResetKeyInv ==
    ASSUME IInv, NEW r \in Requests, NEW k \in Keys, ResetKey(r, k)
    PROVE  IInv'
<1> DEFINE f == [Idle EXCEPT !.pc = "assign", !.key = k]
<1>1. f \in Frames /\ f.pc = "assign" /\ f.key = k /\ f.conf = 0
  <2>1. Idle \in Frames /\ Idle.conf = 0
    BY DefaultsTyped DEF Idle
  <2>2. f \in Frames
    BY <2>1 DEF Frames
  <2> QED BY <2>1, <2>2 DEF Frames
<1>2. /\ req[r].pc = "idle" /\ Goto(r, f) /\ stored' = k
      /\ crossed' = \E q \in Requests : At(q, "assign")
      /\ UNCHANGED <<conf, model, cache, confs, served>>
  BY DEF ResetKey, At, db
<1> HIDE DEF f
<1>3. /\ req' \in [Requests -> Frames] /\ req'[r] = f
      /\ \A q \in Requests \ {r} : req'[q] = req[q]
  BY <1>1, <1>2, GotoFacts DEF IInv
<1>4. \A p \in Providers : Changing(p) => Changing(p)'
  BY <1>2, <1>3, OthersGoOn DEF At
<1>5. TypeOK'
  <2>1. crossed' \in BOOLEAN
    BY <1>2
  <2> QED BY <1>2, <1>3, <2>1 DEF IInv, TypeOK, Used
<1>6. FramesFit'
  <2>1. ASSUME NEW q \in Requests, q # r PROVE Fits(q)'
    <3>1. Fits(q) /\ req'[q] = req[q]
      BY <1>3, <2>1 DEF IInv, FramesFit
    <3>2. HasProvider(q)' /\ (req[q].conf <= confs)' /\ PlanIsFresh(q)'
      BY <1>2, <3>1 DEF Fits, HasProvider, PlanIsFresh, At
    <3>3. ListIsExplained(q)'
      <4>1. SUFFICES ASSUME req[q].pc \in {"listing", "fetching"},
                            req[q].conf \notin {0, conf[req[q].prov]}, ~req[q].raced
                     PROVE  \E s \in Requests : At(s, "changed")' /\ req'[s].prov = req[q].prov
        BY <1>2, <3>1 DEF ListIsExplained, Changing
      <4>2. req[q].prov \in Providers /\ Changing(req[q].prov)
        BY <3>1, <4>1 DEF Fits, HasProvider, ListIsExplained
      <4>3. ASSUME NEW p \in Providers, p = req[q].prov PROVE Changing(p)'
        BY <1>4, <4>2, <4>3
      <4> QED BY <4>2, <4>3 DEF Changing
    <3>4. KeyIsLast(q)'
      <4>1. At(q, "assign") => crossed' /\ req[q].key \in Keys
        BY <1>2, <3>1 DEF Fits, KeyIsLast
      <4> QED BY <3>1, <4>1 DEF KeyIsLast, At
    <3> QED BY <3>2, <3>3, <3>4 DEF Fits
  <2>2. Fits(r)'
    BY <1>1, <1>2, <1>3, ConfsAreNumbers
       DEF IInv, Fits, HasProvider, ListIsExplained, PlanIsFresh, KeyIsLast, At
  <2> QED BY <2>1, <2>2 DEF FramesFit
<1>7. Versions' /\ EnabledAsListed' /\ SwitchedTogether'
  BY <1>2 DEF IInv, Versions, EnabledAsListed, SwitchedTogether, Used
<1>8. CacheIsCurrent'
  <2>1. \A p \in Providers : cache[p].conf \notin {0, conf[p]} => cache[p].raced \/ Changing(p)
    BY DEF IInv, CacheIsCurrent, Changing
  <2> QED BY <1>2, <1>4, <2>1 DEF CacheIsCurrent, Changing
<1>9. ServedKeyIsStored'
  BY <1>1, <1>3 DEF ServedKeyIsStored, At
<1> QED BY <1>5, <1>6, <1>7, <1>8, <1>9 DEF IInv

LEMMA AssignKeyInv ==
    ASSUME IInv, NEW r \in Requests, AssignKey(r)
    PROVE  IInv'
<1>1. /\ req[r].pc = "assign" /\ Goto(r, Idle) /\ served' = req[r].key
      /\ UNCHANGED <<conf, model, cache, confs, stored, crossed>>
  BY DEF AssignKey, At, Done, db
<1>2. /\ req' \in [Requests -> Frames] /\ req'[r] = Idle
      /\ \A q \in Requests \ {r} : req'[q] = req[q]
  BY <1>1, DefaultsTyped, GotoFacts DEF IInv
<1>3. \A p \in Providers : Changing(p) => Changing(p)'
  BY <1>1, <1>2, OthersGoOn DEF At
<1>4. served' \in Keys /\ (crossed \/ served' = stored)
  BY <1>1 DEF IInv, FramesFit, Fits, KeyIsLast, At
<1>5. TypeOK'
  BY <1>1, <1>2, <1>4 DEF IInv, TypeOK, Used
<1>6. FramesFit'
  <2>1. \A q \in Requests \ {r} : Fits(q)'
    BY <1>1, <1>2, <1>3, StaysFit DEF IInv, FramesFit
  <2>2. Fits(r)'
    BY <1>1, <1>2, IdleFits, ConfsAreNumbers DEF IInv
  <2> QED BY <2>1, <2>2 DEF FramesFit
<1>7. Versions' /\ EnabledAsListed' /\ SwitchedTogether'
  BY <1>1 DEF IInv, Versions, EnabledAsListed, SwitchedTogether, Used
<1>8. CacheIsCurrent'
  <2>1. \A p \in Providers : cache[p].conf \notin {0, conf[p]} => cache[p].raced \/ Changing(p)
    BY DEF IInv, CacheIsCurrent, Changing
  <2> QED BY <1>1, <1>3, <2>1 DEF CacheIsCurrent, Changing
<1>9. ServedKeyIsStored'
  BY <1>1, <1>4 DEF ServedKeyIsStored
<1> QED BY <1>5, <1>6, <1>7, <1>8, <1>9 DEF IInv

LEMMA RestartInv ==
    ASSUME IInv, Restart
    PROVE  IInv'
<1>1. /\ req' = [k \in Requests |-> Idle] /\ cache' = [p \in Providers |-> NoEntry]
      /\ served' = stored /\ crossed' = FALSE
      /\ UNCHANGED <<conf, model, confs, stored>>
  BY DEF Restart, db
<1>2. TypeOK'
  BY <1>1, DefaultsTyped DEF IInv, TypeOK, Used
<1>3. FramesFit'
  BY <1>1, IdleFits, ConfsAreNumbers DEF IInv, FramesFit
<1>4. Versions' /\ EnabledAsListed' /\ SwitchedTogether'
  <2>1. Versions'
    BY <1>1, ConfsAreNumbers DEF IInv, Versions, NoEntry
  <2> QED BY <1>1, <2>1 DEF IInv, EnabledAsListed, SwitchedTogether, Used
<1>5. CacheIsCurrent' /\ ServedKeyIsStored'
  BY <1>1 DEF CacheIsCurrent, ServedKeyIsStored, NoEntry
<1> QED BY <1>2, <1>3, <1>4, <1>5 DEF IInv

-----------------------------------------------------------------------------
(* The theorems.                                                           *)

LEMMA InitInv ==
    ASSUME Init
    PROVE  IInv
<1>1. TypeOK
  <2>1. 0 \in Confs
    BY RoutingBounds DEF Confs
  <2>2. Used = {}
    BY DEF Init, Used, NoModel
  <2> QED BY <2>1, <2>2, DefaultsTyped DEF Init, TypeOK
<1>2. FramesFit
  BY DEF Init, FramesFit, Fits, HasProvider, ListIsExplained, PlanIsFresh, KeyIsLast, At, Idle
<1>3. Versions /\ EnabledAsListed /\ SwitchedTogether
  <2>1. Used = {}
    BY DEF Init, Used, NoModel
  <2> QED BY <2>1 DEF Init, Versions, EnabledAsListed, SwitchedTogether, NoEntry
<1>4. CacheIsCurrent /\ ServedKeyIsStored
  BY DEF Init, CacheIsCurrent, ServedKeyIsStored, NoEntry
<1> QED BY <1>1, <1>2, <1>3, <1>4 DEF IInv

LEMMA FailInv ==
    ASSUME IInv, NEW r \in Requests, Fail(r)
    PROVE  IInv'
BY DoneInv DEF Fail, At, db, key

LEMMA UnchangedInv ==
    ASSUME IInv, UNCHANGED vars
    PROVE  IInv'
<1>1. UNCHANGED <<conf, model, cache, req, confs, stored, served, crossed>>
  BY DEF vars, db, key
<1> QED BY <1>1 DEF IInv, TypeOK, FramesFit, Fits, HasProvider, ListIsExplained, PlanIsFresh,
                    KeyIsLast, Versions, EnabledAsListed, SwitchedTogether, CacheIsCurrent, ServedKeyIsStored,
                    Changing, Used, At

LEMMA StepInv ==
    ASSUME IInv, [Next]_vars
    PROVE  IInv'
<1>1. ASSUME NEW r \in Requests, NEW p \in Providers,
             \/ CreateProvider(r, p) \/ UpdateProvider(r, p) \/ DeleteProvider(r, p)
             \/ TestProvider(r, p) \/ ListModels(r, p)
      PROVE  IInv'
  BY <1>1, CreateProviderInv, UpdateProviderInv, DeleteProviderInv, TestProviderInv,
     ListModelsInv
<1>2. ASSUME NEW r \in Requests, NEW list \in Lists, SyncRead(r, list)
      PROVE  IInv'
  BY <1>2, SyncReadInv
<1>3. ASSUME NEW r \in Requests,
             \/ Invalidate(r) \/ SyncWrite(r) \/ Fail(r) \/ LookUp(r) \/ Store(r)
             \/ AssignKey(r)
      PROVE  IInv'
  BY <1>3, InvalidateInv, SyncWriteInv, FailInv, LookUpInv, StoreInv, AssignKeyInv
<1>4. ASSUME NEW r \in Requests, NEW k \in Keys, ResetKey(r, k)
      PROVE  IInv'
  BY <1>4, ResetKeyInv
<1>5. ASSUME NEW p \in Providers, NEW n \in Names, NEW on \in BOOLEAN,
             CreateModel(p, n, on) \/ \E i \in Models : UpdateModel(i, p, n, on)
      PROVE  IInv'
  BY <1>5, CreateModelInv, UpdateModelInv
<1>6. ASSUME (\E p \in Providers : Expire(p)) \/ (\E i \in Models : DeleteModel(i))
      PROVE  IInv'
  BY <1>6, ExpireInv, DeleteModelInv
<1>7. CASE Restart
  BY <1>7, RestartInv
<1>8. CASE UNCHANGED vars
  BY <1>8, UnchangedInv
<1> QED BY <1>1, <1>2, <1>3, <1>4, <1>5, <1>6, <1>7, <1>8 DEF Next

(* Everything below follows from the invariant, which every step of the    *)
(* gateway, whoever takes it, keeps.                                       *)
THEOREM Invariance == Spec => []IInv
<1>1. Init => IInv
  BY InitInv
<1>2. IInv /\ [Next]_vars => IInv'
  BY StepInv
<1> QED BY <1>1, <1>2, PTL DEF Spec

(* Every variable has its type, and every model in the database a provider *)
(* that is there: deleting one takes along its models, and a               *)
(* synchronisation that was under way adds none to it afterwards.          *)
THEOREM TypeCorrect == Spec => []TypeOK
<1>1. IInv => TypeOK
  BY DEF IInv
<1> QED BY <1>1, Invariance, PTL

(* A route list served from the cache was fetched with the configuration   *)
(* its provider has now; between an update's commit and its invalidation,  *)
(* or when the invalidation came while the list was being fetched, it may  *)
(* be that of an earlier one.                                              *)
THEOREM CachedListsAreCurrent == Spec => []CacheIsCurrent
<1>1. IInv => CacheIsCurrent
  BY DEF IInv
<1> QED BY <1>1, Invariance, PTL

(* No two providers, there now or one after the other under one id, have   *)
(* the same configuration, and nothing cached is newer than any committed. *)
THEOREM ConfigurationsAreNew == Spec => []Versions
<1>1. IInv => Versions
  BY DEF IInv
<1> QED BY <1>1, Invariance, PTL

(* What a synchronisation does to the switches of a provider's models can  *)
(* be told from their marks, however often names come and go, unless an    *)
(* administrator or another synchronisation was in between.                *)
THEOREM SwitchesFollowLists == Spec => []EnabledAsListed
<1>1. IInv => EnabledAsListed
  BY DEF IInv
<1> QED BY <1>1, Invariance, PTL

(* A synchronisation leaves the provider with what the upstream listed,    *)
(* whatever the list repeats: a row for every name, the rows of the others *)
(* marked, nothing added for a name that had a row, no switch touched      *)
(* whose mark stays, and no row of another provider.                       *)
THEOREM SyncsMirrorLists == Spec => SyncMirrorsList
<1> DEFINE A == \A r \in Requests :
                    req'[r] # req[r] /\ SyncWrite(r) /\ ~req[r].raced /\ conf[req[r].prov] # 0 =>
                        Mirrors(req[r].prov, Range(req[r].list))
<1>1. ASSUME IInv, NEW r \in Requests, SyncWrite(r), ~req[r].raced, conf[req[r].prov] # 0
      PROVE  Mirrors(req[r].prov, Range(req[r].list))
  <2>1. /\ req[r].prov \in Providers
        /\ req[r].plan = PlanFrom(model, req[r].prov, req[r].list)
    BY <1>1 DEF IInv, FramesFit, Fits, HasProvider, PlanIsFresh, SyncWrite, At
  <2>2. req[r].plan.gone \cup req[r].plan.back \subseteq {i \in Models : model[i].prov = req[r].prov}
    BY <2>1 DEF PlanFrom
  <2>3. SyncWorks(r)
    BY <1>1, <2>1, <2>2, RoutingBounds DEF SyncWorks, Used, Providers
  <2> QED BY <1>1, <2>3, SyncMirrors
<1>2. IInv => A
  BY <1>1
<1>3. SyncMirrorsList <=> [][A]_vars
  BY DEF SyncMirrorsList
<1> HIDE DEF A
<1>4. Spec => [][A]_vars
  BY <1>2, Invariance, PTL
<1> QED BY <1>3, <1>4

LEMMA SameForAll ==
    ASSUME IInv, NEW p \in Providers, NEW n \in Names, \A i \in Local(p, n) : model[i].by = "sync",
           NEW s \in Scopes, AllowsDynamic(s, p)
    PROVE  Listed(s, p, n, TRUE) <=> Callable(s, p, n)
<1> DEFINE own == Local(p, n)
           top == Top(own)
<1>1. /\ own \subseteq Used /\ own \in SUBSET (1 .. MaxModel) /\ MaxModel \in Nat
      /\ \A i \in own : model[i].prov = p /\ model[i].name = n
  BY RoutingBounds DEF Local, RowsOf, Used, Models, Providers
<1>2. Visible(s, p)
  BY DEF Visible
<1>3. CASE own = {}
  BY <1>2, <1>3 DEF Listed, Callable
<1>4. CASE own # {}
  <2> HIDE DEF own
  <2>1. top \in own
    <3>1. top \in own \cup {0} /\ \A k \in own : k <= top
      BY <1>1, TopIsLargest
    <3> HIDE DEF top
    <3>2. PICK k \in own : k \in 1 .. MaxModel
      <4>1. \A k \in own : k \in 1 .. MaxModel
        BY <1>1
      <4>2. \E k : k \in own
        BY <1>4, Zenon
      <4> QED BY <4>1, <4>2
    <3>3. k <= top
      BY <3>1, <3>2
    <3>4. top # 0
      BY <3>2, <3>3
    <3> QED BY <3>1, <3>4
  <2>2. \A i \in own : AllowsRow(s, i)
    BY <1>1 DEF AllowsRow, AllowsDynamic
  <2>3. ASSUME NEW i \in own, NEW j \in own
        PROVE  model[i].enabled <=> model[j].enabled
    <3>1. model[i].by = "sync" /\ model[j].by = "sync" /\ i \in Used /\ j \in Used
      BY <1>1 DEF own
    <3>2. (model[i].enabled <=> ~model[i].missing) /\ (model[j].enabled <=> ~model[j].missing)
      BY <3>1 DEF IInv, EnabledAsListed
    <3>3. model[i].missing = model[j].missing
      BY <1>1, <3>1 DEF IInv, SwitchedTogether
    <3> QED BY <3>2, <3>3
  <2>4. PICK first \in own : \A j \in own : first <= j
    <3>1. own \in SUBSET Nat
      BY <1>1
    <3> QED BY <1>4, <3>1, LeastExists
  <2>5. Listed(s, p, n, TRUE) <=> model[top].enabled
    <3>1. Listed(s, p, n, TRUE) <=> model[top].enabled /\ AllowsRow(s, top)
      BY <1>2, <1>4 DEF Listed, own, top
    <3> QED BY <2>1, <2>2, <3>1
  <2>6. Callable(s, p, n) <=> \E i \in own : /\ model[i].enabled /\ AllowsRow(s, i)
                                            /\ \A j \in own : model[j].enabled => i <= j
    BY <1>2, <1>4 DEF Callable, own
  <2> HIDE DEF top
  <2> QED BY <2>1, <2>2, <2>3, <2>4, <2>5, <2>6
<1> QED BY <1>3, <1>4

(* A caller who may use a provider is listed exactly the names the chat    *)
(* route then accepts, also when the upstream repeats a name and it has    *)
(* several rows: the list goes by the last of them and the chat by the     *)
(* first that is enabled. Rows an administrator has written since, or that *)
(* a synchronisation wrote which overlapped with another change, may       *)
(* differ, and so may then the list and the chat.                          *)
THEOREM ListsMatchCalls == Spec => []ListMatchesChat
<1>1. IInv => ListMatchesChat
  BY SameForAll DEF ListMatchesChat
<1> QED BY <1>1, Invariance, PTL

(* The key in memory, which the gateway compares with, is the one in the   *)
(* database, except between a reset's commit and its assignment, and after *)
(* resets that overlapped.                                                 *)
THEOREM KeyInMemoryIsStored == Spec => []ServedKeyIsStored
<1>1. IInv => ServedKeyIsStored
  BY DEF IInv
<1> QED BY <1>1, Invariance, PTL

=============================================================================
