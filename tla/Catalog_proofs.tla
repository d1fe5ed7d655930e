--------------------------- MODULE Catalog_proofs ---------------------------
(***************************************************************************)
(* Proofs about Catalog, for any set of requests, any catalogue they start *)
(* from and any bound on the ids.                                          *)
(***************************************************************************)
EXTENDS Catalog, FiniteSetTheorems, WellFoundedInduction, TLAPS

-----------------------------------------------------------------------------
(* The inductive invariant.                                                *)

(* What a handler goes on with it has found.                               *)
LookedUp ==
    \A r \in Requests :
        /\ pc[r] # "idle" => \A t \in Named(ask[r]) : t \in left[r] \/ t \in Targets
        /\ pc[r] \in {"cascading", "ready"} => left[r] = {}
        /\ pc[r] = "cascading" => ask[r].op = "deleteProvider"
        /\ pc[r] = "ready" =>
               \/ ask[r].op \in {"deleteModel", "deleteProvider"}
               \/ ask[r].op = "updatePipeline" /\ ask[r].put /\ ~Changes(ask[r])

(* A deletion knows all pipelines that may lose a member, unless one was   *)
(* written in the meantime.                                                *)
AffectedKnown ==
    \A r \in Requests :
        pc[r] = "ready" /\ ask[r].op \in {"deleteModel", "deleteProvider"} =>
            \A q \in Pipelines \ raced, n \in RowIds :
                db.rows[n].pipe = q /\ db.rows[n].model \in models[r] => q \in affected[r]

(* The rows a PATCH has read are its pipeline's and all of these, unless   *)
(* somebody wrote in the meantime.                                         *)
RowsKnown ==
    \A r \in Requests :
        pc[r] = "ready" /\ ask[r].op = "updatePipeline" =>
            \A q \in Pipelines \ raced, n \in RowIds :
                db.rows[n].pipe = q => (n \in old[r] <=> q = ask[r].id)

IInv ==
    /\ TypeOK /\ RefsHold(db) /\ LookedUp /\ AffectedKnown /\ RowsKnown
    /\ OnlyRacesEmpty

-----------------------------------------------------------------------------
(* New ids.                                                                *)

LEMMA LeastExists ==
    ASSUME NEW S \in SUBSET Nat, S # {}
    PROVE  \E x \in S : \A y \in S : x <= y
<1> DEFINE R == StrictSubsetOrdering(Nat)
           T == {0 .. x : x \in S}
<1>1. IsWellFoundedOn(R, FiniteSubsetsOf(Nat))
  BY FS_StrictSubsetOrderingWellFounded
<1>2. T \subseteq FiniteSubsetsOf(Nat) /\ T # {}
  <2>1. ASSUME NEW x \in S PROVE 0 .. x \in FiniteSubsetsOf(Nat)
    <3>1. IsFiniteSet(0 .. x)
      BY FS_Interval
    <3>2. 0 .. x \in SUBSET Nat
      OBVIOUS
    <3> QED BY <3>1, <3>2 DEF FiniteSubsetsOf
  <2> QED BY <2>1
<1>3. PICK X \in T : \A Y \in T : ~ (<<Y, X>> \in R)
  <2> HIDE DEF R, T
  <2> QED BY <1>1, <1>2, WFMin, Zenon
<1>4. PICK x \in S : X = 0 .. x
  BY <1>3
<1>5. ASSUME NEW y \in S, y < x PROVE FALSE
  <2>1. 0 .. y \in SUBSET Nat /\ 0 .. x \in SUBSET Nat
    OBVIOUS
  <2>2. 0 .. y \subseteq 0 .. x /\ x \in 0 .. x /\ x \notin 0 .. y
    BY <1>5
  <2>3. <<0 .. y, 0 .. x>> \in R
    BY <2>1, <2>2 DEF StrictSubsetOrdering
  <2> QED BY <1>3, <1>4, <2>3
<1>6. \A y \in S : x <= y
  BY <1>5
<1> QED
  BY <1>6

(* A new id is above every id in use.                                      *)
LEMMA NewIdIsFresh ==
    ASSUME NEW max \in Nat, NEW used \in SUBSET (1 .. max)
    PROVE  /\ NewId(used, max) \in 1 .. max + 1
           /\ \A k \in used : k < NewId(used, max)
<1> DEFINE above == {n \in 1 .. max + 1 : \A k \in used : k < n}
           Good(n) == (\A k \in used : k < n) /\ (n = 1 \/ n - 1 \in used)
<1>1. above \in SUBSET Nat /\ above # {}
  <2>1. max + 1 \in above
    OBVIOUS
  <2> QED BY <2>1
<1>2. PICK n \in above : \A k \in above : n <= k
  <2> HIDE DEF above
  <2> QED BY <1>1, LeastExists
<1>3. Good(n)
  <2>1. CASE n = 1
    BY <1>2, <2>1
  <2>2. CASE n # 1
    <3>1. n - 1 \in 1 .. max + 1 /\ n - 1 \notin above
      BY <1>2, <2>2
    <3>2. PICK k \in used : ~(k < n - 1)
      BY <3>1
    <3>3. k = n - 1
      BY <1>2, <3>2
    <3> QED BY <1>2, <3>2, <3>3
  <2> QED BY <2>1, <2>2
<1>4. \E m \in 1 .. max + 1 : Good(m)
  BY <1>2, <1>3
<1>5. NewId(used, max) = CHOOSE m \in 1 .. max + 1 : Good(m)
  BY DEF NewId
<1>6. NewId(used, max) \in 1 .. max + 1 /\ Good(NewId(used, max))
  BY <1>4, <1>5, Zenon
<1> QED BY <1>6

(* The members of a list get rows of their own, none of them in use.       *)
LEMMA Places ==
    ASSUME NEW d \in Databases, NEW S \in SUBSET Models
    PROVE  /\ \A m \in S : Place(d, S, m) \in Nat
           /\ \A m \in S, n \in RowIds : d.rows[n] # NoRow => n < Place(d, S, m)
           /\ \A m, k \in S : Place(d, S, m) = Place(d, S, k) => m = k
<1> DEFINE Below(m) == {k \in S : k < m}
<1>1. MaxModels \in Nat /\ MaxRows \in Nat
  BY BoundsAssumption
<1>2. NewRow(d) \in Nat /\ \A n \in RowIds : d.rows[n] # NoRow => n < NewRow(d)
  BY <1>1, NewIdIsFresh DEF NewRow, RowIds
<1>3. \A m \in S : IsFiniteSet(Below(m))
  <2>1. IsFiniteSet(Models)
    BY <1>1, FS_Interval DEF Models
  <2> QED BY <2>1, FS_Subset
<1>4. \A m \in S : Cardinality(Below(m)) \in Nat
  BY <1>3, FS_CardinalityType
<1>5. ASSUME NEW m \in S, NEW k \in S, m < k
      PROVE  Cardinality(Below(m)) < Cardinality(Below(k))
  <2>1. /\ IsFiniteSet(Below(m) \cup {m})
        /\ Cardinality(Below(m) \cup {m}) = Cardinality(Below(m)) + 1
    <3>1. m \notin Below(m)
      BY DEF Models
    <3> QED BY <1>3, <3>1, FS_AddElement
  <2>2. Below(m) \cup {m} \in SUBSET Below(k)
    <3>1. ASSUME NEW x \in Below(m) \cup {m} PROVE x \in S /\ x < k
      <4>1. x \in Int /\ m \in Int /\ k \in Int
        BY <1>1 DEF Models
      <4> QED BY <1>5, <4>1
    <3> QED BY <3>1
  <2>3. Cardinality(Below(m) \cup {m}) <= Cardinality(Below(k))
    BY <1>3, <2>2, FS_Subset
  <2> QED BY <1>4, <2>1, <2>3
<1>6. \A m \in S : Place(d, S, m) = NewRow(d) + Cardinality(Below(m))
  BY DEF Place
<1> HIDE DEF Below
<1>7. \A m \in S : Place(d, S, m) \in Nat /\ NewRow(d) <= Place(d, S, m)
  BY <1>2, <1>4, <1>6
<1>8. ASSUME NEW m \in S, NEW k \in S, Place(d, S, m) = Place(d, S, k)
      PROVE  m = k
  <2>1. Cardinality(Below(m)) = Cardinality(Below(k))
    BY <1>2, <1>4, <1>6, <1>8
  <2>2. m \in Int /\ k \in Int
    BY DEF Models
  <2> QED BY <1>4, <1>5, <2>1, <2>2
<1>9. \A m \in S, n \in RowIds : d.rows[n] # NoRow => n < Place(d, S, m)
  BY <1>2, <1>7 DEF RowIds
<1> QED BY <1>7, <1>8, <1>9

(* Insert adds the rows of the list and leaves those in use alone.         *)
IsInsert(d, q, S, e) ==
    /\ e \in Databases
    /\ e.provs = d.provs /\ e.home = d.home /\ e.judge = d.judge /\ e.grants = d.grants
    /\ \A n \in RowIds :
           \/ e.rows[n] = d.rows[n]
           \/ d.rows[n] = NoRow /\ e.rows[n].pipe = q /\ e.rows[n].model \in S
    /\ \A m \in S : \E n \in RowIds :
           d.rows[n] = NoRow /\ e.rows[n] = [pipe |-> q, model |-> m]

LEMMA Inserted ==
    ASSUME NEW d \in Databases, NEW q \in Pipelines, NEW S \in SUBSET Models, Fits(d, S)
    PROVE  IsInsert(d, q, S, Insert(d, q, S))
<1> DEFINE Who(n) == CHOOSE m \in S : n = Place(d, S, m)
           e == Insert(d, q, S)
<1>1. e = [d EXCEPT !.rows = [n \in RowIds |->
              IF \E m \in S : n = Place(d, S, m) THEN [pipe |-> q, model |-> Who(n)]
              ELSE d.rows[n]]]
  BY DEF Insert
<1> HIDE DEF e
<1>2. \A n \in RowIds : (\E m \in S : n = Place(d, S, m)) =>
          Who(n) \in S /\ n = Place(d, S, Who(n))
  OBVIOUS
<1> HIDE DEF Who
<1>3. \A m \in S : m \in 0 .. MaxModels
  BY DEF Models
<1>4. /\ \A m \in S, n \in RowIds : n = Place(d, S, m) => d.rows[n] = NoRow /\ Who(n) = m
      /\ \A m \in S : Place(d, S, m) \in RowIds
  <2>1. \A m \in S : Place(d, S, m) \in Nat /\ Place(d, S, m) <= MaxRows
    BY Places DEF Fits
  <2>2. NewRow(d) \in 1 .. MaxRows + 1
    BY BoundsAssumption, NewIdIsFresh DEF NewRow, RowIds
  <2>3. \A m \in S : Place(d, S, m) >= 1
    <3>1. \A m \in S : Cardinality({k \in S : k < m}) \in Nat
      <4>1. IsFiniteSet(Models)
        BY BoundsAssumption, FS_Interval DEF Models
      <4> QED BY <4>1, FS_Subset, FS_CardinalityType
    <3> QED BY <2>2, <3>1, BoundsAssumption DEF Place
  <2>4. \A m \in S : Place(d, S, m) \in RowIds
    BY <2>1, <2>3, BoundsAssumption DEF RowIds
  <2>5. ASSUME NEW m \in S, NEW n \in RowIds, n = Place(d, S, m)
        PROVE  d.rows[n] = NoRow /\ Who(n) = m
    <3>1. d.rows[n] = NoRow
      <4>1. d.rows[n] # NoRow => n < Place(d, S, m)
        BY Places
      <4>2. n \in Int
        BY DEF RowIds
      <4> QED BY <2>5, <4>1, <4>2
    <3>2. Who(n) = m
      <4>1. Who(n) \in S /\ n = Place(d, S, Who(n))
        BY <1>2, <2>5
      <4>2. \A k \in S : Place(d, S, m) = Place(d, S, k) => m = k
        BY Places
      <4> QED BY <2>5, <4>1, <4>2
    <3> QED BY <3>1, <3>2
  <2> QED BY <2>4, <2>5
<1>5. e.rows = [n \in RowIds |->
              IF \E m \in S : n = Place(d, S, m) THEN [pipe |-> q, model |-> Who(n)]
              ELSE d.rows[n]]
      /\ e.provs = d.provs /\ e.home = d.home /\ e.judge = d.judge /\ e.grants = d.grants
  BY <1>1 DEF Databases
<1>6. e.rows \in [RowIds -> Row]
  BY <1>2, <1>3, <1>5, BoundsAssumption DEF Databases, Row, Pipelines
<1>7. e \in Databases
  BY <1>1, <1>5, <1>6 DEF Databases
<1>8. \A n \in RowIds :
          \/ e.rows[n] = d.rows[n]
          \/ d.rows[n] = NoRow /\ e.rows[n].pipe = q /\ e.rows[n].model \in S
  BY <1>2, <1>4, <1>5
<1>9. \A m \in S : \E n \in RowIds :
          d.rows[n] = NoRow /\ e.rows[n] = [pipe |-> q, model |-> m]
  BY <1>4, <1>5
<1> QED BY <1>5, <1>7, <1>8, <1>9 DEF IsInsert, e

-----------------------------------------------------------------------------
(* What the deletions leave.                                               *)

LEMMA Dropped ==
    ASSUME NEW d \in Databases, NEW ids, NEW e, e = DropRows(d, ids)
    PROVE  /\ e \in Databases
           /\ e.provs = d.provs /\ e.home = d.home /\ e.judge = d.judge /\ e.grants = d.grants
           /\ \A n \in RowIds : e.rows[n] = IF n \in ids THEN NoRow ELSE d.rows[n]
<1>1. NoRow \in Row
  BY BoundsAssumption DEF NoRow, Row
<1> QED BY <1>1 DEF DropRows, Databases

LEMMA DroppedPipelines ==
    ASSUME NEW d \in Databases, NEW S \in SUBSET Pipelines, NEW e, e = DropPipelines(d, S)
    PROVE  /\ e \in Databases
           /\ e.provs = d.provs /\ e.home = d.home
           /\ e.grants = d.grants \ ({"pipeline"} \X S)
           /\ \A q \in Pipelines : e.judge[q] = IF q \in S THEN 0 ELSE d.judge[q]
           /\ \A n \in RowIds : e.rows[n] = IF d.rows[n].pipe \in S THEN NoRow ELSE d.rows[n]
<1> DEFINE ids == UNION {RowsOf(d, q) : q \in S}
           b == DropRows(d, ids)
           judge == [q \in Pipelines |-> IF q \in S THEN 0 ELSE b.judge[q]]
           c == [b EXCEPT !.judge = judge]
<1>1. /\ b \in Databases
      /\ b.provs = d.provs /\ b.home = d.home /\ b.judge = d.judge /\ b.grants = d.grants
      /\ \A n \in RowIds : b.rows[n] = IF n \in ids THEN NoRow ELSE d.rows[n]
  <2> HIDE DEF ids
  <2> QED BY Dropped
<1>2. \A n \in RowIds : n \in ids <=> d.rows[n].pipe \in S
  BY DEF RowsOf
<1>3. e = DropGrants(c, "pipeline", S)
  BY DEF DropPipelines
<1> HIDE DEF b, ids
<1>4. judge \in [Pipelines -> 0 .. MaxModels]
  BY <1>1, BoundsAssumption DEF Databases
<1> HIDE DEF judge
<1>5. /\ c \in Databases /\ c.judge = judge
      /\ c.provs = b.provs /\ c.home = b.home /\ c.rows = b.rows /\ c.grants = b.grants
  BY <1>1, <1>4 DEF Databases
<1> HIDE DEF c
<1>6. /\ e \in Databases /\ e.judge = c.judge /\ e.grants = c.grants \ ({"pipeline"} \X S)
      /\ e.provs = c.provs /\ e.home = c.home /\ e.rows = c.rows
  BY <1>3, <1>5 DEF DropGrants, Databases
<1>7. \A q \in Pipelines : judge[q] = IF q \in S THEN 0 ELSE d.judge[q]
  BY <1>1 DEF judge
<1> QED BY <1>1, <1>2, <1>5, <1>6, <1>7

(* A cascade takes the models of S, the members that use them, and the     *)
(* pipelines of B with all their members and grants.                       *)
IsCascade(d, S, hit, e) ==
    /\ e \in Databases /\ e.provs = d.provs
    /\ \A m \in Models : e.home[m] = IF m \in S THEN 0 ELSE d.home[m]
    /\ \E B \in SUBSET Pipelines :
           /\ \A q \in Pipelines : d.judge[q] \in S => q \in B
           /\ \A q \in hit :
                  (\A n \in RowIds : d.rows[n].pipe = q => d.rows[n].model \in S) => q \in B
           /\ \A q \in Pipelines : e.judge[q] = IF q \in B THEN 0 ELSE d.judge[q]
           /\ \A n \in RowIds :
                  e.rows[n] = IF d.rows[n].model \in S \/ d.rows[n].pipe \in B
                              THEN NoRow ELSE d.rows[n]
           /\ e.grants = (d.grants \ ({"pipeline"} \X B)) \ ({"model"} \X S)

LEMMA Cascaded ==
    ASSUME NEW d \in Databases, NEW S \in SUBSET Models, NEW hit \in SUBSET Pipelines
    PROVE  IsCascade(d, S, hit, Cascade(d, S, hit))
<1> DEFINE ids == {n \in RowIds : d.rows[n].model \in S}
           cut == DropRows(d, ids)
           B == Broken(cut, S, hit)
           kept == DropPipelines(cut, B)
           g == DropGrants(kept, "model", S)
           home == [m \in Models |-> IF m \in S THEN 0 ELSE kept.home[m]]
           e == Cascade(d, S, hit)
<1>1. e = [g EXCEPT !.home = home]
  BY DEF Cascade
<1> HIDE DEF e
<1>2. /\ cut \in Databases
      /\ cut.provs = d.provs /\ cut.home = d.home /\ cut.judge = d.judge
      /\ cut.grants = d.grants
      /\ \A n \in RowIds : cut.rows[n] = IF n \in ids THEN NoRow ELSE d.rows[n]
  <2> HIDE DEF ids
  <2> QED BY Dropped
<1> HIDE DEF cut
<1>3. B \in SUBSET Pipelines
  BY DEF Broken, JudgedBy
<1>4. \A q \in Pipelines : d.judge[q] \in S => q \in B
  BY <1>2 DEF Broken, JudgedBy
<1>5. ASSUME NEW q \in hit,
             \A n \in RowIds : d.rows[n].pipe = q => d.rows[n].model \in S
      PROVE  q \in B
  <2>1. \A n \in RowIds : cut.rows[n].pipe # q
    <3>1. q # 0
      BY BoundsAssumption DEF Pipelines
    <3> QED BY <1>2, <1>5, <3>1 DEF NoRow
  <2>2. ~Runnable(cut, q)
    BY <2>1 DEF Runnable, RowsOf
  <2> QED BY <2>2 DEF Broken
<1> HIDE DEF B
<1>6. /\ kept \in Databases
      /\ kept.provs = cut.provs /\ kept.home = cut.home
      /\ kept.grants = cut.grants \ ({"pipeline"} \X B)
      /\ \A q \in Pipelines : kept.judge[q] = IF q \in B THEN 0 ELSE cut.judge[q]
      /\ \A n \in RowIds : kept.rows[n] = IF cut.rows[n].pipe \in B THEN NoRow ELSE cut.rows[n]
  BY <1>2, <1>3, DroppedPipelines
<1> HIDE DEF kept
<1>7. /\ g \in Databases /\ g.grants = kept.grants \ ({"model"} \X S)
      /\ g.provs = kept.provs /\ g.judge = kept.judge /\ g.rows = kept.rows
  BY <1>6 DEF DropGrants, Databases
<1> HIDE DEF g
<1>8. home \in [Models -> 0 .. MaxProviders]
  BY <1>6, BoundsAssumption DEF Databases
<1>9. \A m \in Models : home[m] = IF m \in S THEN 0 ELSE d.home[m]
  BY <1>2, <1>6
<1> HIDE DEF home
<1>10. /\ e \in Databases /\ e.home = home /\ e.provs = g.provs /\ e.judge = g.judge
       /\ e.rows = g.rows /\ e.grants = g.grants
  BY <1>1, <1>7, <1>8 DEF Databases
<1>11. \A n \in RowIds :
           e.rows[n] = IF d.rows[n].model \in S \/ d.rows[n].pipe \in B
                       THEN NoRow ELSE d.rows[n]
  BY <1>2, <1>6, <1>7, <1>10
<1>12. \A q \in Pipelines : e.judge[q] = IF q \in B THEN 0 ELSE d.judge[q]
  BY <1>2, <1>6, <1>7, <1>10
<1>13. e.grants = (d.grants \ ({"pipeline"} \X B)) \ ({"model"} \X S)
  BY <1>2, <1>6, <1>7, <1>10
<1>14. e.provs = d.provs
  BY <1>2, <1>6, <1>7, <1>10
<1> QED
  BY <1>3, <1>4, <1>5, <1>9, <1>10, <1>11, <1>12, <1>13, <1>14 DEF IsCascade, e

(* A cascade never leaves a reference behind.                              *)
LEMMA CascadeKeepsRefs ==
    ASSUME NEW d \in Databases, NEW S \in SUBSET Models, NEW hit \in SUBSET Pipelines,
           RefsHold(d)
    PROVE  RefsHold(Cascade(d, S, hit))
<1> DEFINE e == Cascade(d, S, hit)
<1>0. IsCascade(d, S, hit, e)
  BY Cascaded
<1> HIDE DEF e
<1>1. PICK B \in SUBSET Pipelines :
          /\ \A q \in Pipelines : d.judge[q] \in S => q \in B
          /\ \A q \in Pipelines : e.judge[q] = IF q \in B THEN 0 ELSE d.judge[q]
          /\ \A n \in RowIds :
                 e.rows[n] = IF d.rows[n].model \in S \/ d.rows[n].pipe \in B
                             THEN NoRow ELSE d.rows[n]
  BY <1>0 DEF IsCascade
<1>2. e.provs = d.provs /\ \A m \in Models : e.home[m] = IF m \in S THEN 0 ELSE d.home[m]
  BY <1>0 DEF IsCascade
<1>3. \A q \in Pipelines : d.judge[q] # 0 => d.judge[q] \in Models
  BY BoundsAssumption DEF Databases, Models
<1>4. \A m \in Models : e.home[m] # 0 => e.home[m] \in e.provs
  BY <1>2 DEF RefsHold
<1>5. \A q \in Pipelines : e.judge[q] # 0 => e.home[e.judge[q]] # 0
  BY <1>1, <1>2, <1>3 DEF RefsHold
<1>6. ASSUME NEW n \in RowIds, e.rows[n] # NoRow
      PROVE  /\ e.rows[n].pipe \in Pipelines /\ e.judge[e.rows[n].pipe] # 0
             /\ e.rows[n].model \in Models /\ e.home[e.rows[n].model] # 0
  BY <1>1, <1>2, <1>6 DEF RefsHold
<1> QED BY <1>4, <1>5, <1>6 DEF RefsHold, e

-----------------------------------------------------------------------------
(* What a write does, by its kind.                                         *)

(* What a handler has looked up has the ids of its table.                  *)
LEMMA FoundIds ==
    ASSUME TypeOK, LookedUp, NEW r \in Requests, pc[r] # "idle", left[r] = {}
    PROVE  /\ ask[r].op = "deleteProvider" => ask[r].id \in Providers
           /\ ask[r].op = "createModel" => ask[r].ref \in Providers
           /\ ask[r].op = "moveModel" => ask[r].ref \in Providers /\ ask[r].id \in Models
           /\ ask[r].op = "deleteModel" => ask[r].id \in Models
           /\ ask[r].op = "createPipeline" => ask[r].ref \in Models
           /\ ask[r].op = "updatePipeline" =>
                  ask[r].id \in Pipelines /\ (ask[r].ref # 0 => ask[r].ref \in Models)
           /\ ask[r].op = "deletePipeline" => ask[r].id \in Pipelines
           /\ ask[r].list \subseteq Models /\ ask[r].targets \subseteq Targets
<1> DEFINE a == ask[r]
<1>1. a \in Asks
  <2>1. NoAsk \in Asks
    BY DEF NoAsk, Asks, Ops
  <2> QED BY <2>1, AskedAssumption DEF TypeOK
<1>2. \A t \in Named(a) : t \in Targets
  BY DEF LookedUp
<1> HIDE DEF a
<1>3. /\ \A p : <<"provider", p>> \in Targets => p \in Providers
      /\ \A m : <<"model", m>> \in Targets => m \in Models
      /\ \A q : <<"pipeline", q>> \in Targets => q \in Pipelines
  BY DEF Targets
<1>4. a.op = "deleteProvider" => a.id \in Providers
  BY <1>2, <1>3 DEF Named
<1>5. a.op = "createModel" => a.ref \in Providers
  BY <1>2, <1>3 DEF Named
<1>6. a.op = "moveModel" => a.ref \in Providers /\ a.id \in Models
  BY <1>2, <1>3 DEF Named
<1>7. a.op = "createPipeline" => a.ref \in Models
  BY <1>2, <1>3 DEF Named, ModelTargets
<1>8. a.op = "updatePipeline" =>
          a.id \in Pipelines /\ (a.ref # 0 => a.ref \in Models)
  BY <1>2, <1>3 DEF Named, ModelTargets
<1>9. a.op = "deletePipeline" => a.id \in Pipelines
  BY <1>2, <1>3 DEF Named
<1>10. a.list \subseteq Models /\ a.targets \subseteq Targets
  BY <1>1 DEF Asks
<1>11. a.op = "deleteModel" => a.id \in Models
  BY <1>2, <1>3 DEF Named
<1> QED
  BY <1>4, <1>5, <1>6, <1>7, <1>8, <1>9, <1>10, <1>11 DEF a

(* Every write ends its request, and with the foreign keys in order.       *)
LEMMA WritesEnd ==
    ASSUME RefsHold(db), NEW r \in Requests, Writes(r)
    PROVE  /\ UNCHANGED read /\ RefsHold(db')
           /\ pc' = [pc EXCEPT ![r] = "done"] \/ pc' = [pc EXCEPT ![r] = "failed"]
<1>1. ASSUME NEW d, Commit(r, d)
      PROVE  /\ RefsHold(db')
             /\ pc' = [pc EXCEPT ![r] = "done"] \/ pc' = [pc EXCEPT ![r] = "failed"]
  BY <1>1, Zenon DEF Commit, RefsHold
<1>2. Rollback(r) => RefsHold(db') /\ pc' = [pc EXCEPT ![r] = "failed"]
  BY DEF Rollback, RefsHold
<1>3. UNCHANGED read
  BY DEF Writes, CreateProvider, CreateModel, MoveModel, DeleteModel, DeleteProvider,
         CreatePipeline, UpdatePipeline, UpdateMembers, DeletePipeline, PutGrants, read
<1>4. Rollback(r) \/ \E d : Commit(r, d)
  BY Zenon DEF Writes, CreateProvider, CreateModel, MoveModel, DeleteModel, DeleteProvider,
         CreatePipeline, UpdatePipeline, UpdateMembers, DeletePipeline, PutGrants
<1> QED BY <1>1, <1>2, <1>3, <1>4

(* A write that takes nothing away and no member along.                    *)
Extends ==
    /\ db' \in Databases /\ db'.rows = db.rows
    /\ \A p \in db.provs : p \in db'.provs
    /\ \A m \in Models : db.home[m] # 0 => db'.home[m] # 0
    /\ \A q \in Pipelines : db'.judge[q] # 0 <=> db.judge[q] # 0
    /\ UNCHANGED <<raced, emptied>>

(* A deletion of models, with their provider or not.                       *)
Cascades(r) ==
    \E e \in Databases :
        /\ IsCascade(db, models[r], affected[r], e)
        /\ db' \in Databases
        /\ db'.home = e.home /\ db'.judge = e.judge /\ db'.rows = e.rows
        /\ db'.grants \subseteq e.grants
        /\ \A p \in db.provs : p \in db'.provs \/ <<"provider", p>> \notin db'.grants
        /\ ask[r].op \in {"deleteModel", "deleteProvider"} /\ pc[r] = "ready"
        /\ UNCHANGED <<raced, emptied>>

(* A deletion of a pipeline.                                               *)
Drops(r) ==
    /\ ask[r].id \in Pipelines
    /\ db' \in Databases
    /\ db'.provs = db.provs /\ db'.home = db.home
    /\ \A q \in Pipelines : db'.judge[q] = IF q = ask[r].id THEN 0 ELSE db.judge[q]
    /\ \A n \in RowIds :
           db'.rows[n] = IF db.rows[n].pipe = ask[r].id THEN NoRow ELSE db.rows[n]
    /\ db'.grants = db.grants \ ({"pipeline"} \X {ask[r].id})
    /\ UNCHANGED <<raced, emptied>>

(* A write of the members of pipeline q, over the rows of ids.             *)
WritesMembers(r, q, ids) ==
    /\ db' \in Databases
    /\ db'.provs = db.provs /\ db'.home = db.home /\ db'.grants = db.grants
    /\ \A k \in Pipelines \ {q} : db'.judge[k] = db.judge[k]
    /\ db.judge[q] # 0 => db'.judge[q] # 0
    /\ \A n \in RowIds :
           \/ n \notin ids /\ db'.rows[n] = db.rows[n]
           \/ n \in ids /\ db'.rows[n] = NoRow
           \/ /\ n \in ids \/ db.rows[n] = NoRow
              /\ db'.rows[n].pipe = q /\ db'.rows[n].model \in ask[r].list
    /\ \A m \in ask[r].list : \E n \in RowIds : db'.rows[n] = [pipe |-> q, model |-> m]
    /\ \A k \in Pipelines \ raced, n \in RowIds :
           db.rows[n].pipe = k /\ n \in ids => k = q
    /\ Written(r, q, ask[r].list)

Known == TypeOK /\ RefsHold(db) /\ LookedUp /\ RowsKnown

LEMMA Extensions ==
    ASSUME Known, NEW r \in Requests,
           \/ CreateProvider(r) \/ CreateModel(r) \/ MoveModel(r) \/ UpdatePipeline(r)
           \/ PutGrants(r)
    PROVE  Extends
<1>0. /\ db \in Databases /\ UNCHANGED <<raced, emptied>>
      /\ 0 \in 0 .. MaxProviders /\ 0 \in 0 .. MaxModels
      /\ Providers \subseteq 0 .. MaxProviders /\ Models \subseteq 0 .. MaxModels
      /\ 0 \notin Providers /\ 0 \notin Models
  BY BoundsAssumption
     DEF Known, TypeOK, CreateProvider, CreateModel, MoveModel, UpdatePipeline, PutGrants,
         Providers, Models
<1>1. UNCHANGED db => Extends
  BY <1>0 DEF Extends
<1>2. ASSUME CreateProvider(r) PROVE Extends
  <2> DEFINE p == NewId(db.provs, MaxProviders)
  <2>1. p \in Providers /\ Commit(r, [db EXCEPT !.provs = @ \cup {p}])
    BY <1>2 DEF CreateProvider
  <2> HIDE DEF p
  <2>2. UNCHANGED db \/ db' = [db EXCEPT !.provs = @ \cup {p}]
    BY <2>1 DEF Commit
  <2> QED BY <1>0, <1>1, <2>1, <2>2 DEF Extends, Databases
<1>3. ASSUME CreateModel(r) PROVE Extends
  <2> DEFINE m == NewId({k \in Models : db.home[k] # 0}, MaxModels)
  <2>1. m \in Models /\ Commit(r, [db EXCEPT !.home[m] = ask[r].ref]) /\ Checked(r, "createModel")
    BY <1>3 DEF CreateModel
  <2> HIDE DEF m
  <2>2. ask[r].ref \in Providers
    BY <2>1, FoundIds DEF Checked, Known
  <2>3. UNCHANGED db \/ db' = [db EXCEPT !.home[m] = ask[r].ref]
    BY <2>1 DEF Commit
  <2> QED BY <1>0, <1>1, <2>1, <2>2, <2>3 DEF Extends, Databases
<1>4. ASSUME MoveModel(r) PROVE Extends
  <2>1. ask[r].ref \in Providers /\ ask[r].id \in Models
    BY <1>4, FoundIds DEF MoveModel, Checked, Known
  <2>2. UNCHANGED db \/ db' = [db EXCEPT !.home[ask[r].id] = ask[r].ref]
    BY <1>4 DEF MoveModel, Rollback, Commit
  <2> QED BY <1>0, <1>1, <2>1, <2>2 DEF Extends, Databases
<1>5. ASSUME UpdatePipeline(r) PROVE Extends
  <2>1. ask[r].id \in Pipelines /\ (ask[r].ref # 0 => ask[r].ref \in Models)
    BY <1>5, FoundIds DEF UpdatePipeline, Checked, Known
  <2>2. \/ UNCHANGED db
        \/ /\ ask[r].ref # 0 /\ db.judge[ask[r].id] # 0
           /\ db' = [db EXCEPT !.judge[ask[r].id] = ask[r].ref]
    BY <1>5 DEF UpdatePipeline, Rollback, Commit, Changes
  <2> QED BY <1>0, <1>1, <2>1, <2>2 DEF Extends, Databases
<1>6. ASSUME PutGrants(r) PROVE Extends
  <2>1. ask[r].targets \subseteq Targets
    BY <1>6, FoundIds DEF PutGrants, Checked, Known
  <2>2. UNCHANGED db \/ db' = [db EXCEPT !.grants = ask[r].targets]
    BY <1>6 DEF PutGrants, Commit
  <2> QED BY <1>0, <1>1, <2>1, <2>2 DEF Extends, Databases
<1> QED BY <1>2, <1>3, <1>4, <1>5, <1>6

LEMMA Deletions ==
    ASSUME Known, NEW r \in Requests, DeleteModel(r) \/ DeleteProvider(r)
    PROVE  Extends \/ Cascades(r)
<1> DEFINE e == Cascade(db, models[r], affected[r])
           p == ask[r].id
           g == DropGrants(e, "provider", {p})
<1>0. /\ db \in Databases /\ UNCHANGED <<raced, emptied>>
      /\ models[r] \in SUBSET Models /\ affected[r] \in SUBSET Pipelines
  BY DEF Known, TypeOK, DeleteModel, DeleteProvider
<1>1. UNCHANGED db => Extends
  BY <1>0 DEF Extends
<1>2. IsCascade(db, models[r], affected[r], e)
  BY <1>0, Cascaded
<1>3. e \in Databases /\ e.provs = db.provs
  BY <1>2 DEF IsCascade
<1>4. CASE DeleteModel(r)
  <2>1. UNCHANGED db \/ db' = e
    BY <1>4 DEF DeleteModel, Commit
  <2> HIDE DEF e
  <2>2. db' = e => Cascades(r)
    BY <1>0, <1>2, <1>3, <1>4 DEF Cascades, DeleteModel
  <2> QED BY <1>1, <2>1, <2>2
<1>5. CASE DeleteProvider(r)
  <2>1. UNCHANGED db \/ db' = [g EXCEPT !.provs = @ \ {p}]
    BY <1>5 DEF DeleteProvider, Commit
  <2> HIDE DEF e
  <2>2. g = [e EXCEPT !.grants = @ \ ({"provider"} \X {p})]
    BY DEF DropGrants
  <2>3. /\ g \in Databases /\ g.grants = e.grants \ ({"provider"} \X {p})
        /\ g.provs = e.provs /\ g.home = e.home /\ g.judge = e.judge /\ g.rows = e.rows
    BY <1>3, <2>2 DEF Databases
  <2> HIDE DEF g
  <2>4. ASSUME db' = [g EXCEPT !.provs = @ \ {p}] PROVE Cascades(r)
    <3>1. /\ db' \in Databases /\ db'.grants = g.grants /\ db'.provs = g.provs \ {p}
          /\ db'.home = g.home /\ db'.judge = g.judge /\ db'.rows = g.rows
      BY <2>3, <2>4 DEF Databases
    <3>2. \A x \in db.provs : x \in db'.provs \/ <<"provider", x>> \notin db'.grants
      BY <1>3, <2>3, <3>1
    <3> QED BY <1>0, <1>2, <1>3, <1>5, <2>3, <3>1, <3>2 DEF Cascades, DeleteProvider
  <2> QED BY <1>1, <2>1, <2>4
<1> QED BY <1>4, <1>5

LEMMA PipelineDeletions ==
    ASSUME Known, NEW r \in Requests, DeletePipeline(r)
    PROVE  Extends \/ Drops(r)
<1> DEFINE q == ask[r].id
           e == DropPipelines(db, {q})
<1>1. db \in Databases /\ UNCHANGED <<raced, emptied>>
  BY DEF Known, TypeOK, DeletePipeline
<1>2. q \in Pipelines
  BY FoundIds DEF DeletePipeline, Checked, Known
<1>3. UNCHANGED db \/ db' = e
  BY DEF DeletePipeline, Commit
<1>4. /\ e \in Databases
      /\ e.provs = db.provs /\ e.home = db.home
      /\ e.grants = db.grants \ ({"pipeline"} \X {q})
      /\ \A k \in Pipelines : e.judge[k] = IF k \in {q} THEN 0 ELSE db.judge[k]
      /\ \A n \in RowIds : e.rows[n] = IF db.rows[n].pipe \in {q} THEN NoRow ELSE db.rows[n]
  <2> HIDE DEF q
  <2> QED BY <1>1, <1>2, DroppedPipelines
<1> HIDE DEF e
<1>5. UNCHANGED db => Extends
  BY <1>1 DEF Extends
<1>6. db' = e => Drops(r)
  BY <1>1, <1>2, <1>4 DEF Drops
<1> QED BY <1>3, <1>5, <1>6

IsJudged(d, q, e) ==
    /\ e \in Databases /\ e.provs = d.provs /\ e.home = d.home /\ e.rows = d.rows
    /\ e.grants = d.grants
    /\ \A k \in Pipelines \ {q} : e.judge[k] = d.judge[k]
    /\ e.judge[q] # 0

LEMMA JudgeSet ==
    ASSUME NEW d \in Databases, NEW q \in Pipelines, NEW m \in Models
    PROVE  IsJudged(d, q, [d EXCEPT !.judge[q] = m])
<1> DEFINE judge == [d.judge EXCEPT ![q] = m]
           e == [d EXCEPT !.judge[q] = m]
<1>1. m \in 0 .. MaxModels /\ m # 0
  BY BoundsAssumption DEF Models
<1>2. d.judge \in [Pipelines -> 0 .. MaxModels]
  BY DEF Databases
<1>3. /\ judge \in [Pipelines -> 0 .. MaxModels] /\ judge[q] # 0
      /\ \A k \in Pipelines \ {q} : judge[k] = d.judge[k]
  BY <1>1, <1>2
<1>4. e = [d EXCEPT !.judge = judge]
  OBVIOUS
<1> HIDE DEF judge, e
<1>5. /\ e \in Databases /\ e.provs = d.provs /\ e.home = d.home /\ e.rows = d.rows
      /\ e.grants = d.grants /\ e.judge = judge
  BY <1>3, <1>4 DEF Databases
<1> QED BY <1>3, <1>5 DEF IsJudged, e

LEMMA Creations ==
    ASSUME Known, NEW r \in Requests, CreatePipeline(r)
    PROVE  Extends \/ \E q \in Pipelines : WritesMembers(r, q, {})
<1> DEFINE q == NewId({k \in Pipelines : db.judge[k] # 0}, MaxPipelines)
           S == ask[r].list
           d == [db EXCEPT !.judge[q] = ask[r].ref]
           e == Insert(d, q, S)
<1>1. /\ q \in Pipelines /\ Fits(db, S) /\ Commit(r, e) /\ Checked(r, "createPipeline")
      /\ IF RefsHold(e) THEN Written(r, q, S) ELSE UNCHANGED <<raced, emptied>>
  BY DEF CreatePipeline
<1> HIDE DEF q
<1>2. ask[r].ref \in Models /\ ask[r].ref # 0 /\ S \in SUBSET Models
  BY <1>1, FoundIds DEF Checked, Known, Models
<1>3. db \in Databases
  BY DEF Known, TypeOK
<1>4. /\ d \in Databases /\ d.provs = db.provs /\ d.home = db.home /\ d.rows = db.rows
      /\ d.grants = db.grants
      /\ \A k \in Pipelines \ {q} : d.judge[k] = db.judge[k]
      /\ d.judge[q] # 0
  <2> DEFINE m == ask[r].ref
  <2>1. IsJudged(db, q, [db EXCEPT !.judge[q] = m])
    <3> HIDE DEF m
    <3> QED BY <1>1, <1>2, <1>3, JudgeSet DEF m
  <2>2. d = [db EXCEPT !.judge[q] = m]
    OBVIOUS
  <2> HIDE DEF m, d
  <2> QED BY <2>1, <2>2 DEF IsJudged
<1> HIDE DEF d
<1>5. Fits(d, S)
  BY <1>1, <1>4 DEF Fits, Place, NewRow
<1>6. IsInsert(d, q, S, e)
  <2> HIDE DEF S
  <2> QED BY <1>1, <1>2, <1>4, <1>5, Inserted
<1> HIDE DEF e
<1>7. \/ UNCHANGED <<db, raced, emptied>>
      \/ db' = e /\ Written(r, q, S)
  BY <1>1 DEF Commit
<1>8. UNCHANGED <<db, raced, emptied>> => Extends
  BY <1>3 DEF Extends
<1>9. ASSUME db' = e, Written(r, q, S) PROVE WritesMembers(r, q, {})
  <2>1. /\ db' \in Databases
        /\ db'.provs = db.provs /\ db'.home = db.home /\ db'.grants = db.grants
        /\ db'.judge = d.judge
    BY <1>4, <1>6, <1>9 DEF IsInsert
  <2>2. /\ \A k \in Pipelines \ {q} : db'.judge[k] = db.judge[k]
        /\ db.judge[q] # 0 => db'.judge[q] # 0
    BY <1>4, <2>1
  <2>3. \A n \in RowIds :
            \/ db'.rows[n] = db.rows[n]
            \/ /\ db.rows[n] = NoRow
               /\ db'.rows[n].pipe = q /\ db'.rows[n].model \in S
    BY <1>4, <1>6, <1>9 DEF IsInsert
  <2>4. \A m \in S : \E n \in RowIds : db'.rows[n] = [pipe |-> q, model |-> m]
    BY <1>6, <1>9 DEF IsInsert
  <2> QED BY <1>9, <2>1, <2>2, <2>3, <2>4 DEF WritesMembers
<1> QED BY <1>1, <1>7, <1>8, <1>9

LEMMA MemberUpdates ==
    ASSUME Known, NEW r \in Requests, UpdateMembers(r)
    PROVE  \/ Extends /\ pc'[r] # "done"
           \/ /\ ask[r].op = "updatePipeline" /\ ask[r].id \in Pipelines
              /\ WritesMembers(r, ask[r].id,
                               IF Changes(ask[r]) THEN RowsOf(db, ask[r].id) ELSE old[r])
<1> DEFINE q == ask[r].id
           S == ask[r].list
           ids == IF Changes(ask[r]) THEN RowsOf(db, q) ELSE old[r]
           d == IF ask[r].ref # 0 THEN [db EXCEPT !.judge[q] = ask[r].ref] ELSE db
           b == DropRows(d, ids)
           e == Insert(b, q, S)
<1>1. /\ Fits(b, S) /\ ask[r].op = "updatePipeline"
      /\ IF Changes(ask[r]) THEN Checked(r, "updatePipeline") ELSE pc[r] = "ready"
      /\ \/ UNCHANGED <<db, raced, emptied>> /\ pc' = [pc EXCEPT ![r] = "failed"]
         \/ db' = e /\ Written(r, q, S)
  BY DEF UpdateMembers, Checked, Replace, Commit, Rollback
<1>2. left[r] = {} /\ pc[r] # "idle"
  BY <1>1 DEF Checked, Known, LookedUp
<1>3. /\ q \in Pipelines /\ S \in SUBSET Models
      /\ ask[r].ref # 0 => ask[r].ref \in Models
  BY <1>1, <1>2, FoundIds DEF Known
<1>4. db \in Databases
  BY DEF Known, TypeOK
<1>5. \A k \in Pipelines \ raced, n \in RowIds :
          db.rows[n].pipe = k /\ n \in ids => k = q
  <2>1. CASE Changes(ask[r])
    BY <2>1 DEF RowsOf
  <2>2. CASE ~Changes(ask[r])
    BY <1>1, <2>2 DEF Known, RowsKnown
  <2> QED BY <2>1, <2>2
<1>6. UNCHANGED <<db, raced, emptied>> => Extends
  BY <1>4 DEF Extends
<1> HIDE DEF ids
<1>7. /\ d \in Databases /\ d.provs = db.provs /\ d.home = db.home /\ d.rows = db.rows
      /\ d.grants = db.grants
      /\ \A k \in Pipelines \ {q} : d.judge[k] = db.judge[k]
      /\ db.judge[q] # 0 => d.judge[q] # 0
  <2>1. CASE ask[r].ref # 0
    <3> DEFINE m == ask[r].ref
    <3>1. IsJudged(db, q, [db EXCEPT !.judge[q] = m])
      <4>1. m \in Models /\ q \in Pipelines
        BY <1>3, <2>1
      <4> HIDE DEF m, q
      <4> QED BY <1>4, <4>1, JudgeSet
    <3>2. d = [db EXCEPT !.judge[q] = m]
      BY <2>1
    <3> HIDE DEF m, d, q
    <3> QED BY <3>1, <3>2 DEF IsJudged
  <2>2. CASE ask[r].ref = 0
    BY <1>4, <2>2
  <2> QED BY <2>1, <2>2
<1> HIDE DEF d
<1>8. /\ b \in Databases
      /\ b.provs = d.provs /\ b.home = d.home /\ b.judge = d.judge /\ b.grants = d.grants
      /\ \A n \in RowIds : b.rows[n] = IF n \in ids THEN NoRow ELSE d.rows[n]
  BY <1>7, Dropped
<1> HIDE DEF b
<1>9. IsInsert(b, q, S, e)
  <2> HIDE DEF q, S
  <2> QED BY <1>1, <1>3, <1>8, Inserted
<1> HIDE DEF e
<1>10. ASSUME db' = e, Written(r, q, S) PROVE WritesMembers(r, q, ids)
  <2>1. /\ db' \in Databases
        /\ db'.provs = db.provs /\ db'.home = db.home /\ db'.grants = db.grants
        /\ db'.judge = d.judge
    BY <1>7, <1>8, <1>9, <1>10 DEF IsInsert
  <2>2. \A n \in RowIds :
            \/ db'.rows[n] = b.rows[n]
            \/ b.rows[n] = NoRow /\ db'.rows[n].pipe = q /\ db'.rows[n].model \in S
    BY <1>9, <1>10 DEF IsInsert
  <2>3. ASSUME NEW n \in RowIds
        PROVE  \/ n \notin ids /\ db'.rows[n] = db.rows[n]
               \/ n \in ids /\ db'.rows[n] = NoRow
               \/ /\ n \in ids \/ db.rows[n] = NoRow
                  /\ db'.rows[n].pipe = q /\ db'.rows[n].model \in S
    BY <1>7, <1>8, <2>2
  <2>4. \A m \in S : \E n \in RowIds : db'.rows[n] = [pipe |-> q, model |-> m]
    BY <1>9, <1>10 DEF IsInsert
  <2> QED BY <1>5, <1>7, <1>10, <2>1, <2>3, <2>4 DEF WritesMembers
<1>11. pc' = [pc EXCEPT ![r] = "failed"] => pc'[r] # "done"
  BY DEF Known, TypeOK
<1> QED BY <1>1, <1>3, <1>6, <1>10, <1>11 DEF ids

WritesList(r) ==
    \E q \in Pipelines, ids \in SUBSET RowIds : WritesMembers(r, q, ids)

(* Every write is of one of these kinds.                                   *)
LEMMA WriteKinds ==
    ASSUME Known, NEW r \in Requests, Writes(r)
    PROVE  Extends \/ Cascades(r) \/ Drops(r) \/ WritesList(r)
<1>1. CASE DeleteModel(r) \/ DeleteProvider(r)
  BY <1>1, Deletions
<1>2. CASE DeletePipeline(r)
  BY <1>2, PipelineDeletions
<1>3. CASE CreatePipeline(r)
  BY <1>3, Creations DEF WritesList
<1>4. CASE UpdateMembers(r)
  <2>1. old[r] \in SUBSET RowIds /\ RowsOf(db, ask[r].id) \in SUBSET RowIds
    BY DEF Known, TypeOK, RowsOf
  <2>2. (IF Changes(ask[r]) THEN RowsOf(db, ask[r].id) ELSE old[r]) \in SUBSET RowIds
    BY <2>1
  <2> QED BY <1>4, <2>2, MemberUpdates DEF WritesList
<1>5. CASE \/ CreateProvider(r) \/ CreateModel(r) \/ MoveModel(r) \/ UpdatePipeline(r)
           \/ PutGrants(r)
  BY <1>5, Extensions
<1> QED BY <1>1, <1>2, <1>3, <1>4, <1>5 DEF Writes

-----------------------------------------------------------------------------
(* The invariant.                                                          *)

(* A row of pipeline q after a write was its row before, and deleted by    *)
(* none, unless the write is q's own and leaves q raced if others hold on  *)
(* to what they have read.                                                 *)
LEMMA RowsAfter ==
    ASSUME Known, NEW r \in Requests, Writes(r), NEW n \in RowIds,
           NEW q \in Pipelines \ raced', db'.rows[n].pipe = q
    PROVE  \/ q \notin raced /\ db'.rows[n] = db.rows[n]
           \/ Holding \subseteq {r}
<1>1. NoRow.pipe # q
  BY BoundsAssumption DEF NoRow, Pipelines
<1>2. Extends \/ Cascades(r) \/ Drops(r) \/ WritesList(r)
  BY WriteKinds
<1>3. CASE Extends
  BY <1>3 DEF Extends
<1>4. CASE Cascades(r)
  <2>1. PICK e \in Databases : IsCascade(db, models[r], affected[r], e) /\ db'.rows = e.rows
    BY <1>4 DEF Cascades
  <2> QED BY <1>1, <1>4, <2>1 DEF IsCascade, Cascades
<1>5. CASE Drops(r)
  BY <1>1, <1>5 DEF Drops
<1>6. CASE WritesList(r)
  <2>1. PICK k \in Pipelines, ids \in SUBSET RowIds : WritesMembers(r, k, ids)
    BY <1>6 DEF WritesList
  <2>2. CASE Holding \subseteq {r}
    BY <2>2
  <2>3. CASE ~(Holding \subseteq {r})
    <3>1. raced' = raced \cup {k}
      BY <2>1, <2>3 DEF WritesMembers, Written
    <3>2. db'.rows[n] = db.rows[n] \/ db'.rows[n] = NoRow \/ db'.rows[n].pipe = k
      BY <2>1 DEF WritesMembers
    <3> QED BY <1>1, <3>1, <3>2
  <2> QED BY <2>2, <2>3
<1> QED BY <1>2, <1>3, <1>4, <1>5, <1>6

(* What another request, ready to write, has read stays what it was.       *)
LEMMA OthersStay ==
    ASSUME Known, NEW w \in Requests, Writes(w), NEW r \in Requests, pc'[r] = "ready"
    PROVE  r # w /\ r \in Holding /\ UNCHANGED <<pc[r], ask[r], models[r], affected[r], old[r]>>
<1>1. /\ UNCHANGED read
      /\ pc' = [pc EXCEPT ![w] = "done"] \/ pc' = [pc EXCEPT ![w] = "failed"]
  BY WritesEnd DEF Known
<1>2. r # w /\ pc[r] = "ready"
  BY <1>1 DEF Known, TypeOK
<1>3. UNCHANGED <<ask[r], models[r], affected[r], old[r]>>
  BY <1>1 DEF read
<1> QED BY <1>1, <1>2, <1>3 DEF Holding

LEMMA ReadsKeep ==
    ASSUME NEW r \in Requests, Reads(r)
    PROVE  UNCHANGED <<db, raced, emptied>>
BY DEF Reads, Receive, Check, ReadModels, ReadAffected, ReadRows

LEMMA KnownReads ==
    ASSUME Known, NEW r \in Requests, Reads(r)
    PROVE  TypeOK' /\ RefsHold(db)'
<1>1. RefsHold(db)'
  BY ReadsKeep DEF Known, RefsHold
<1>2. CASE Receive(r)
  <2>1. ASSUME NEW a \in Asked
        PROVE  Named(a) \in SUBSET ({"provider", "model", "pipeline"} \X Nat)
    <3>1. a \in Asks
      BY AskedAssumption
    <3>2. Models \subseteq Nat /\ Providers \subseteq Nat /\ Pipelines \subseteq Nat
      BY BoundsAssumption DEF Models, Providers, Pipelines
    <3> DEFINE K == {"provider", "model", "pipeline"} \X Nat
    <3>3. /\ a.targets \in SUBSET K
          /\ \A n \in Nat :
                 <<"provider", n>> \in K /\ <<"model", n>> \in K /\ <<"pipeline", n>> \in K
          /\ a.id \in Nat /\ a.ref \in Nat /\ a.list \in SUBSET Nat
      BY <3>1, <3>2 DEF Asks, Targets
    <3> HIDE DEF K
    <3>4. \A S \in SUBSET Nat : ModelTargets(S) \in SUBSET K
      BY <3>3 DEF ModelTargets
    <3>5. /\ ModelTargets({a.ref} \cup a.list) \in SUBSET K
          /\ ModelTargets((IF a.ref = 0 THEN {} ELSE {a.ref})
                          \cup (IF a.put THEN a.list ELSE {})) \in SUBSET K
      BY <3>3, <3>4
    <3>6. Named(a) \in SUBSET K
      BY <3>3, <3>5 DEF Named
    <3> QED BY <3>6 DEF K
  <2> QED BY <1>2, <2>1 DEF Receive, TypeOK, Known
<1>3. CASE Check(r)
  BY <1>3 DEF Check, TypeOK, Known
<1>4. CASE ReadModels(r)
  BY <1>4 DEF ReadModels, TypeOK, Known
<1>5. CASE ReadAffected(r)
  <2>1. ask[r].id \in Models \/ ~Checked(r, "deleteModel")
    BY FoundIds DEF Checked, Known
  <2> QED BY <1>5, <2>1 DEF ReadAffected, TypeOK, Known
<1>6. CASE ReadRows(r)
  BY <1>6 DEF ReadRows, TypeOK, Known, RowsOf
<1> QED BY <1>1, <1>2, <1>3, <1>4, <1>5, <1>6 DEF Reads

LEMMA KnownWrites ==
    ASSUME Known, NEW r \in Requests, Writes(r)
    PROVE  TypeOK' /\ RefsHold(db)'
<1>1. /\ UNCHANGED read /\ RefsHold(db')
      /\ pc' = [pc EXCEPT ![r] = "done"] \/ pc' = [pc EXCEPT ![r] = "failed"]
  BY WritesEnd DEF Known
<1>2. Extends \/ Cascades(r) \/ Drops(r) \/ WritesList(r)
  BY WriteKinds
<1>3. db' \in Databases
  BY <1>2 DEF Extends, Cascades, Drops, WritesList, WritesMembers
<1>4. raced' \subseteq Pipelines /\ emptied' \subseteq Pipelines
  BY <1>2 DEF Known, TypeOK, Extends, Cascades, Drops, WritesList, WritesMembers, Written
<1>5. pc' \in [Requests -> {"idle", "checking", "cascading", "ready", "done", "rejected",
                            "failed"}]
  BY <1>1 DEF Known, TypeOK
<1> QED BY <1>1, <1>3, <1>4, <1>5 DEF Known, TypeOK, read, RefsHold

LEMMA LookedUpStep ==
    ASSUME Known, Next
    PROVE  LookedUp'
<1> SUFFICES ASSUME NEW o \in Requests
             PROVE  /\ pc'[o] # "idle" =>
                           \A t \in Named(ask'[o]) : t \in left'[o] \/ t \in Targets
                    /\ pc'[o] \in {"cascading", "ready"} => left'[o] = {}
                    /\ pc'[o] = "cascading" => ask'[o].op = "deleteProvider"
                    /\ pc'[o] = "ready" =>
                           \/ ask'[o].op \in {"deleteModel", "deleteProvider"}
                           \/ /\ ask'[o].op = "updatePipeline" /\ ask'[o].put
                              /\ ~Changes(ask'[o])
  BY DEF LookedUp
<1>1. PICK r \in Requests : Reads(r) \/ Writes(r)
  BY DEF Next
<1>2. TypeOK /\ LookedUp
  BY DEF Known
<1>3. CASE Receive(r)
  BY <1>2, <1>3 DEF Receive, TypeOK, LookedUp
<1>4. CASE Check(r)
  <2>1. \A t \in left[r] : Exists(db, t) => t \in Targets
    BY <1>2 DEF TypeOK, Exists, Databases, Targets
  <2> QED BY <1>2, <1>4, <2>1 DEF Check, TypeOK, LookedUp
<1>5. CASE ReadModels(r)
  BY <1>2, <1>5 DEF ReadModels, Checked, TypeOK, LookedUp
<1>6. CASE ReadAffected(r)
  BY <1>2, <1>6 DEF ReadAffected, Checked, TypeOK, LookedUp
<1>7. CASE ReadRows(r)
  BY <1>2, <1>7 DEF ReadRows, Checked, TypeOK, LookedUp
<1>8. CASE Writes(r)
  <2>1. /\ UNCHANGED <<ask, left>>
        /\ pc' = [pc EXCEPT ![r] = "done"] \/ pc' = [pc EXCEPT ![r] = "failed"]
    BY <1>8, WritesEnd DEF Known, read
  <2>2. pc'[o] = pc[o] \/ (o = r /\ pc'[o] \notin {"idle", "cascading", "ready"})
    BY <1>2, <2>1 DEF TypeOK
  <2>3. CASE o = r
    <3>1. pc[r] # "idle"
      BY <1>8 DEF Writes, CreateProvider, CreateModel, MoveModel, DeleteModel, DeleteProvider,
                  CreatePipeline, UpdatePipeline, UpdateMembers, DeletePipeline, PutGrants,
                  Checked
    <3> QED BY <1>2, <2>1, <2>2, <2>3, <3>1 DEF LookedUp
  <2>4. CASE o # r
    BY <1>2, <2>1, <2>2, <2>4 DEF LookedUp
  <2> QED BY <2>3, <2>4
<1> QED BY <1>1, <1>3, <1>4, <1>5, <1>6, <1>7, <1>8 DEF Reads

LEMMA AffectedKnownStep ==
    ASSUME Known, AffectedKnown, Next
    PROVE  AffectedKnown'
<1> SUFFICES ASSUME NEW o \in Requests, pc'[o] = "ready",
                    ask'[o].op \in {"deleteModel", "deleteProvider"},
                    NEW q \in Pipelines \ raced', NEW n \in RowIds,
                    db'.rows[n].pipe = q, db'.rows[n].model \in models'[o]
             PROVE  q \in affected'[o]
  BY DEF AffectedKnown
<1>1. PICK r \in Requests : Reads(r) \/ Writes(r)
  BY DEF Next
<1>2. TypeOK
  BY DEF Known
<1>3. ASSUME pc[o] = "ready", q \notin raced, db'.rows[n] = db.rows[n],
             UNCHANGED <<ask[o], models[o], affected[o]>>
      PROVE  q \in affected'[o]
  BY <1>3 DEF AffectedKnown
<1>4. CASE Receive(r)
  BY <1>2, <1>3, <1>4 DEF Receive, TypeOK
<1>5. CASE Check(r)
  BY <1>2, <1>3, <1>5 DEF Check, TypeOK
<1>6. CASE ReadModels(r)
  BY <1>2, <1>3, <1>6 DEF ReadModels, TypeOK
<1>7. CASE ReadAffected(r)
  <2>1. CASE o = r
    <3>1. affected'[r] = {k \in Pipelines :
                              \E m \in RowsOf(db, k) : db.rows[m].model \in models'[r]}
      BY <1>2, <1>7 DEF ReadAffected, TypeOK
    <3>2. n \in RowsOf(db, q) /\ db.rows[n].model \in models'[r]
      BY <1>7, <2>1 DEF ReadAffected, RowsOf
    <3> QED BY <2>1, <3>1, <3>2
  <2>2. CASE o # r
    BY <1>2, <1>3, <1>7, <2>2 DEF ReadAffected, TypeOK
  <2> QED BY <2>1, <2>2
<1>8. CASE ReadRows(r)
  BY <1>2, <1>3, <1>8 DEF ReadRows, TypeOK, Checked
<1>9. CASE Writes(r)
  <2>1. o # r /\ o \in Holding /\ UNCHANGED <<pc[o], ask[o], models[o], affected[o]>>
    BY <1>9, OthersStay
  <2>2. q \notin raced /\ db'.rows[n] = db.rows[n]
    BY <1>9, <2>1, RowsAfter
  <2> QED BY <1>3, <2>1, <2>2 DEF Holding
<1> QED BY <1>1, <1>4, <1>5, <1>6, <1>7, <1>8, <1>9 DEF Reads

LEMMA RowsKnownStep ==
    ASSUME Known, Next
    PROVE  RowsKnown'
<1> SUFFICES ASSUME NEW o \in Requests, pc'[o] = "ready", ask'[o].op = "updatePipeline",
                    NEW q \in Pipelines \ raced', NEW n \in RowIds, db'.rows[n].pipe = q
             PROVE  n \in old'[o] <=> q = ask'[o].id
  BY DEF RowsKnown
<1>1. PICK r \in Requests : Reads(r) \/ Writes(r)
  BY DEF Next
<1>2. TypeOK /\ LookedUp
  BY DEF Known
<1>3. ASSUME pc[o] = "ready", q \notin raced, db'.rows[n] = db.rows[n],
             UNCHANGED <<ask[o], old[o]>>
      PROVE  n \in old'[o] <=> q = ask'[o].id
  BY <1>3 DEF Known, RowsKnown
<1>4. CASE Receive(r)
  BY <1>2, <1>3, <1>4 DEF Receive, TypeOK
<1>5. CASE Check(r)
  BY <1>2, <1>3, <1>5 DEF Check, TypeOK
<1>6. CASE ReadModels(r)
  BY <1>2, <1>3, <1>6 DEF ReadModels, TypeOK, Checked
<1>7. CASE ReadAffected(r)
  BY <1>2, <1>3, <1>7 DEF ReadAffected, TypeOK, LookedUp, Checked
<1>8. CASE ReadRows(r)
  <2>1. CASE o = r
    <3>1. old'[r] = RowsOf(db, ask[r].id) /\ UNCHANGED <<db, ask>>
      BY <1>2, <1>8 DEF ReadRows, TypeOK
    <3>2. n \in old'[r] <=> db.rows[n].pipe = ask[r].id
      BY <3>1 DEF RowsOf
    <3> QED BY <2>1, <3>1, <3>2
  <2>2. CASE o # r
    BY <1>2, <1>3, <1>8, <2>2 DEF ReadRows, TypeOK
  <2> QED BY <2>1, <2>2
<1>9. CASE Writes(r)
  <2>1. o # r /\ o \in Holding /\ UNCHANGED <<pc[o], ask[o], old[o]>>
    BY <1>9, OthersStay
  <2>2. q \notin raced /\ db'.rows[n] = db.rows[n]
    BY <1>9, <2>1, RowsAfter
  <2> QED BY <1>3, <2>1, <2>2 DEF Holding
<1> QED BY <1>1, <1>4, <1>5, <1>6, <1>7, <1>8, <1>9 DEF Reads

(* A write of a list leaves the pipeline members exactly when the list has *)
(* some, and takes no other pipeline's rows unless that one was raced.     *)
LEMMA ListsLeave ==
    ASSUME Known, NEW r \in Requests, NEW k \in Pipelines, NEW ids \in SUBSET RowIds,
           WritesMembers(r, k, ids), NEW q \in Pipelines, ~Runnable(db', q)
    PROVE  \/ q = k /\ q \in emptied'
           \/ q # k /\ (q \in raced => q \in raced') /\ (q \in emptied => q \in emptied')
              /\ (q \in raced \/ ~Runnable(db, q))
<1>1. CASE q = k
  <2>1. ASSUME NEW m \in ask[r].list PROVE FALSE
    <3>1. PICK n \in RowIds : db'.rows[n] = [pipe |-> k, model |-> m]
      BY DEF WritesMembers
    <3>2. n \in RowsOf(db', q)
      BY <1>1, <3>1 DEF RowsOf
    <3> QED BY <3>2 DEF Runnable
  <2>2. ask[r].list = {}
    BY <2>1
  <2> QED BY <1>1, <2>2 DEF WritesMembers, Written
<1>2. CASE q # k
  <2>1. (q \in raced => q \in raced') /\ (q \in emptied => q \in emptied')
    BY <1>2 DEF WritesMembers, Written
  <2>2. ASSUME q \notin raced, NEW n \in RowsOf(db, q) PROVE FALSE
    <3>1. n \in RowIds /\ db.rows[n].pipe = q
      BY <2>2 DEF RowsOf
    <3>2. n \notin ids /\ db.rows[n] # NoRow
      BY <1>2, <2>2, <3>1, BoundsAssumption DEF WritesMembers, NoRow, Pipelines
    <3>3. db'.rows[n] = db.rows[n]
      BY <3>1, <3>2 DEF WritesMembers
    <3> QED BY <3>1, <3>3 DEF Runnable, RowsOf
  <2> QED BY <1>2, <2>1, <2>2 DEF Runnable
<1> QED BY <1>1, <1>2

LEMMA RunnableStep ==
    ASSUME Known, AffectedKnown, OnlyRacesEmpty, Next
    PROVE  OnlyRacesEmpty'
<1> SUFFICES ASSUME NEW q \in Pipelines, db'.judge[q] # 0, ~Runnable(db', q)
             PROVE  q \in raced' \cup emptied'
  BY DEF OnlyRacesEmpty, Runnable, RowsOf
<1>1. PICK r \in Requests : Reads(r) \/ Writes(r)
  BY DEF Next
<1>2. db.judge[q] # 0 /\ ~Runnable(db, q) => q \in raced \cup emptied
  BY DEF OnlyRacesEmpty
<1>3. CASE Reads(r)
  BY <1>2, <1>3, ReadsKeep
<1>4. CASE Extends
  BY <1>2, <1>4 DEF Extends, Runnable, RowsOf
<1>5. CASE Cascades(r)
  <2>1. PICK e \in Databases : /\ IsCascade(db, models[r], affected[r], e)
                               /\ db'.judge = e.judge /\ db'.rows = e.rows
    BY <1>5 DEF Cascades
  <2>2. PICK B \in SUBSET Pipelines :
            /\ \A k \in affected[r] :
                   (\A n \in RowIds : db.rows[n].pipe = k => db.rows[n].model \in models[r])
                       => k \in B
            /\ \A k \in Pipelines : e.judge[k] = IF k \in B THEN 0 ELSE db.judge[k]
            /\ \A n \in RowIds :
                   e.rows[n] = IF db.rows[n].model \in models[r] \/ db.rows[n].pipe \in B
                               THEN NoRow ELSE db.rows[n]
    BY <2>1 DEF IsCascade
  <2>3. q \notin B /\ db.judge[q] # 0
    BY <2>1, <2>2
  <2>4. \A n \in RowIds : db.rows[n].pipe = q => db.rows[n].model \in models[r]
    BY <2>1, <2>2, <2>3 DEF Runnable, RowsOf
  <2>5. q \notin affected[r]
    BY <2>2, <2>3, <2>4
  <2>6. q \in raced \/ ~Runnable(db, q)
    BY <1>5, <2>4, <2>5 DEF Cascades, AffectedKnown, Runnable, RowsOf
  <2> QED BY <1>2, <1>5, <2>3, <2>6 DEF Cascades
<1>6. CASE Drops(r)
  <2>1. q # ask[r].id /\ db.judge[q] # 0 /\ UNCHANGED <<raced, emptied>>
    BY <1>6 DEF Drops
  <2>2. \A n \in RowIds : db.rows[n].pipe = q => db'.rows[n] = db.rows[n]
    BY <1>6, <2>1 DEF Drops
  <2>3. ~Runnable(db, q)
    BY <2>2 DEF Runnable, RowsOf
  <2> QED BY <1>2, <2>1, <2>3
<1>7. CASE WritesList(r)
  <2>1. PICK k \in Pipelines, ids \in SUBSET RowIds : WritesMembers(r, k, ids)
    BY <1>7 DEF WritesList
  <2>2. CASE q = k
    BY <2>1, <2>2, ListsLeave
  <2>3. CASE q # k
    <3>1. /\ (q \in raced => q \in raced') /\ (q \in emptied => q \in emptied')
          /\ q \in raced \/ ~Runnable(db, q)
      BY <2>1, <2>3, ListsLeave
    <3>2. db.judge[q] # 0
      BY <2>1, <2>3 DEF WritesMembers
    <3> QED BY <1>2, <3>1, <3>2
  <2> QED BY <2>2, <2>3
<1> QED BY <1>1, <1>3, <1>4, <1>5, <1>6, <1>7, WriteKinds

LEMMA Start == Init => IInv
<1> SUFFICES ASSUME Init PROVE IInv
  OBVIOUS
<1>1. db \in Databases /\ RefsHold(db) /\ OnlyRacesEmpty
  BY CatalogsAssumption DEF Init, OnlyRacesEmpty
<1>2. TypeOK
  BY <1>1 DEF Init, TypeOK
<1>3. LookedUp /\ AffectedKnown /\ RowsKnown
  BY DEF Init, LookedUp, AffectedKnown, RowsKnown
<1> QED BY <1>1, <1>2, <1>3 DEF IInv

LEMMA Step == IInv /\ [Next]_vars => IInv'
<1> SUFFICES ASSUME IInv, [Next]_vars PROVE IInv'
  OBVIOUS
<1>1. Known
  BY DEF IInv, Known
<1>2. CASE Next
  <2>1. TypeOK' /\ RefsHold(db)'
    BY <1>1, <1>2, KnownReads, KnownWrites DEF Next
  <2>2. LookedUp'
    BY <1>1, <1>2, LookedUpStep
  <2>3. AffectedKnown' /\ RowsKnown' /\ OnlyRacesEmpty'
    BY <1>1, <1>2, AffectedKnownStep, RowsKnownStep, RunnableStep DEF IInv
  <2> QED BY <2>1, <2>2, <2>3 DEF IInv
<1>3. CASE UNCHANGED vars
  BY <1>3 DEF IInv, vars, TypeOK, RefsHold, LookedUp, AffectedKnown, RowsKnown,
              OnlyRacesEmpty, Runnable, RowsOf
<1> QED BY <1>2, <1>3

(* The invariant holds throughout.                                         *)
THEOREM Invariance == Spec => []IInv
  BY Start, Step, PTL DEF Spec

(* Every variable keeps its type.                                          *)
THEOREM TypeCorrect == Spec => []TypeOK
<1>1. IInv => TypeOK
  BY DEF IInv
<1> QED BY <1>1, Invariance, PTL

(* The foreign keys hold in whatever is committed.                         *)
THEOREM References == Spec => []RefsHold(db)
<1>1. IInv => RefsHold(db)
  BY DEF IInv
<1> QED BY <1>1, Invariance, PTL

(* However many deletions and updates overlap, a pipeline without members  *)
(* was written empty or written in a race.                                 *)
THEOREM PipelinesStayRunnable == Spec => []OnlyRacesEmpty
<1>1. IInv => OnlyRacesEmpty
  BY DEF IInv
<1> QED BY <1>1, Invariance, PTL

-----------------------------------------------------------------------------
(* What a step does.                                                       *)

(* What no longer exists after a step has no grant left.                   *)
LEMMA GrantsStep ==
    ASSUME Known, Next, NEW t \in Targets, Exists(db, t), ~Exists(db', t)
    PROVE  t \notin db'.grants
<1>1. PICK r \in Requests : Reads(r) \/ Writes(r)
  BY DEF Next
<1>2. \/ \E p \in Providers : t = <<"provider", p>>
      \/ \E m \in Models : t = <<"model", m>>
      \/ \E q \in Pipelines : t = <<"pipeline", q>>
  BY DEF Targets
<1>3. /\ \A p : Exists(db, <<"provider", p>>) <=> p \in db.provs
      /\ \A m \in Models : Exists(db, <<"model", m>>) <=> db.home[m] # 0
      /\ \A q \in Pipelines : Exists(db, <<"pipeline", q>>) <=> db.judge[q] # 0
      /\ \A p : Exists(db', <<"provider", p>>) <=> p \in db'.provs
      /\ \A m \in Models : Exists(db', <<"model", m>>) <=> db'.home[m] # 0
      /\ \A q \in Pipelines : Exists(db', <<"pipeline", q>>) <=> db'.judge[q] # 0
  BY DEF Exists
<1>4. CASE Reads(r)
  BY <1>4, ReadsKeep DEF Exists
<1>5. CASE Extends
  BY <1>2, <1>3, <1>5 DEF Extends
<1>6. CASE Cascades(r)
  <2>1. PICK e \in Databases :
            /\ IsCascade(db, models[r], affected[r], e)
            /\ db'.home = e.home /\ db'.judge = e.judge /\ db'.grants \subseteq e.grants
            /\ \A p \in db.provs : p \in db'.provs \/ <<"provider", p>> \notin db'.grants
    BY <1>6 DEF Cascades
  <2>2. PICK B \in SUBSET Pipelines :
            /\ \A q \in Pipelines : e.judge[q] = IF q \in B THEN 0 ELSE db.judge[q]
            /\ e.grants = (db.grants \ ({"pipeline"} \X B)) \ ({"model"} \X models[r])
    BY <2>1 DEF IsCascade
  <2>3. \A m \in Models : e.home[m] = IF m \in models[r] THEN 0 ELSE db.home[m]
    BY <2>1 DEF IsCascade
  <2>4. CASE \E p \in Providers : t = <<"provider", p>>
    BY <1>3, <2>1, <2>4
  <2>5. CASE \E m \in Models : t = <<"model", m>>
    BY <1>3, <2>1, <2>2, <2>3, <2>5
  <2>6. CASE \E q \in Pipelines : t = <<"pipeline", q>>
    BY <1>3, <2>1, <2>2, <2>6
  <2> QED BY <1>2, <2>4, <2>5, <2>6
<1>7. CASE Drops(r)
  BY <1>2, <1>3, <1>7 DEF Drops
<1>8. CASE WritesList(r)
  <2>1. PICK k \in Pipelines, ids \in SUBSET RowIds : WritesMembers(r, k, ids)
    BY <1>8 DEF WritesList
  <2>2. /\ db'.provs = db.provs /\ db'.home = db.home
        /\ \A q \in Pipelines : db.judge[q] # 0 => db'.judge[q] # 0
    BY <2>1 DEF WritesMembers
  <2> QED BY <1>2, <1>3, <2>2
<1> QED BY <1>1, <1>4, <1>5, <1>6, <1>7, <1>8, WriteKinds

(* Whatever disappears takes its grants along.                             *)
THEOREM GrantsCleaned == Spec => DeletionCleansGrants
<1> DEFINE A == \A t \in Targets : Exists(db, t) /\ ~Exists(db', t) => t \notin db'.grants
<1>1. IInv /\ [Next]_vars => [A]_vars
  BY GrantsStep DEF IInv, Known
<1>2. DeletionCleansGrants <=> [][A]_vars
  BY DEF DeletionCleansGrants
<1> QED BY <1>1, <1>2, Invariance, PTL DEF Spec

(* A deletion fails only over a model of the provider it has not seen.     *)
LEMMA DeletionStep ==
    ASSUME Known, Next, NEW r \in Requests, pc[r] = "ready", pc'[r] = "failed",
           ask[r].op # "updatePipeline"
    PROVE  /\ ask[r].op = "deleteProvider"
           /\ \E m \in Models \ models[r] : db.home[m] = ask[r].id
<1>1. PICK o \in Requests : Reads(o) \/ Writes(o)
  BY DEF Next
<1>2. TypeOK /\ LookedUp /\ RefsHold(db)
  BY DEF Known
<1>3. o = r /\ Writes(r)
  <2>1. CASE Reads(o)
    BY <1>2, <2>1 DEF Reads, Receive, Check, ReadModels, ReadAffected, ReadRows, Checked, TypeOK
  <2>2. CASE Writes(o)
    BY <1>2, <2>2, WritesEnd DEF TypeOK
  <2> QED BY <1>1, <2>1, <2>2
<1>4. DeleteModel(r) \/ DeleteProvider(r)
  <2>1. ~Checked(r, "createProvider") /\ ~Checked(r, "createModel") /\ ~Checked(r, "moveModel")
        /\ ~Checked(r, "createPipeline") /\ ~Checked(r, "updatePipeline")
        /\ ~Checked(r, "deletePipeline") /\ ~Checked(r, "putGrants")
    BY DEF Checked
  <2> QED BY <1>3, <2>1 DEF Writes, CreateProvider, CreateModel, MoveModel, CreatePipeline,
                            UpdatePipeline, UpdateMembers, DeletePipeline, PutGrants
<1> DEFINE e == Cascade(db, models[r], affected[r])
           p == ask[r].id
           g == DropGrants(e, "provider", {p})
           f == [g EXCEPT !.provs = @ \ {p}]
<1>5. db \in Databases /\ models[r] \in SUBSET Models /\ affected[r] \in SUBSET Pipelines
  BY <1>2 DEF TypeOK
<1>6. RefsHold(e) /\ IsCascade(db, models[r], affected[r], e)
  BY <1>2, <1>5, CascadeKeepsRefs, Cascaded
<1>7. ASSUME Commit(r, e) PROVE FALSE
  <2>1. pc' = [pc EXCEPT ![r] = "done"]
    BY <1>6, <1>7 DEF Commit
  <2> QED BY <1>2, <2>1 DEF TypeOK
<1>8. DeleteProvider(r) /\ ask[r].op = "deleteProvider"
  BY <1>4, <1>7 DEF DeleteModel, DeleteProvider
<1>9. Commit(r, f)
  BY <1>8 DEF DeleteProvider
<1>10. ~RefsHold(f)
  BY <1>2, <1>9 DEF Commit, TypeOK
<1> HIDE DEF e
<1>11. /\ g.provs = e.provs /\ g.home = e.home /\ g.judge = e.judge /\ g.rows = e.rows
       /\ g \in Databases
  BY <1>6 DEF DropGrants, IsCascade, Databases
<1> HIDE DEF g
<1>12. /\ f.provs = e.provs \ {p} /\ f.home = e.home /\ f.judge = e.judge /\ f.rows = e.rows
  BY <1>11 DEF Databases
<1> HIDE DEF f
<1>13. PICK m \in Models : e.home[m] # 0 /\ e.home[m] \in e.provs /\ e.home[m] \notin f.provs
  BY <1>6, <1>10, <1>12 DEF RefsHold
<1>14. m \notin models[r] /\ db.home[m] = e.home[m]
  BY <1>6, <1>13 DEF IsCascade
<1>15. e.home[m] = p
  BY <1>12, <1>13
<1> QED BY <1>8, <1>14, <1>15

(* The deletion of a model never runs into a foreign key; that of a        *)
(* provider only over a model that it has not seen.                        *)
THEOREM DeletionsFinish == Spec => DeletionsGoThrough
<1> DEFINE A == \A r \in Requests :
                  pc[r] = "ready" /\ pc'[r] = "failed" /\ ask[r].op # "updatePipeline" =>
                      /\ ask[r].op = "deleteProvider"
                      /\ \E m \in Models \ models[r] : db.home[m] = ask[r].id
<1>1. IInv /\ [Next]_vars => [A]_vars
  BY DeletionStep DEF IInv, Known
<1>2. DeletionsGoThrough <=> [][A]_vars
  BY DEF DeletionsGoThrough
<1> QED BY <1>1, <1>2, Invariance, PTL DEF Spec

(* Deletions go through and leave no grant behind.                         *)
THEOREM DeletionsLeaveNothing == Spec => DeletionsAreClean
BY GrantsCleaned, DeletionsFinish DEF DeletionsAreClean

(* A PATCH with members leaves these.                                      *)
LEMMA PatchStep ==
    ASSUME Known, Next, NEW r \in Requests, pc[r] # "done", pc'[r] = "done",
           ask[r].op = "updatePipeline", ask[r].put,
           Changes(ask[r]) \/ ask[r].id \notin raced
    PROVE  MembersOf(db', ask[r].id) = ask[r].list
<1> DEFINE q == ask[r].id
           ids == IF Changes(ask[r]) THEN RowsOf(db, q) ELSE old[r]
<1>1. PICK o \in Requests : Reads(o) \/ Writes(o)
  BY DEF Next
<1>2. TypeOK /\ LookedUp
  BY DEF Known
<1>3. o = r /\ Writes(r)
  <2>1. CASE Reads(o)
    BY <1>2, <2>1 DEF Reads, Receive, Check, ReadModels, ReadAffected, ReadRows, Checked, TypeOK
  <2>2. CASE Writes(o)
    BY <1>2, <2>2, WritesEnd DEF Known, TypeOK
  <2> QED BY <1>1, <2>1, <2>2
<1>4. UpdateMembers(r)
  BY <1>3 DEF Writes, CreateProvider, CreateModel, MoveModel, DeleteModel, DeleteProvider,
              CreatePipeline, UpdatePipeline, DeletePipeline, PutGrants, Checked
<1>5. q \in Pipelines /\ WritesMembers(r, q, ids)
  BY <1>4, MemberUpdates
<1>6. \A n \in RowIds : db.rows[n].pipe = q => n \in ids
  <2>1. CASE Changes(ask[r])
    BY <2>1 DEF RowsOf
  <2>2. CASE ~Changes(ask[r])
    <3>1. pc[r] = "ready" /\ q \notin raced
      BY <1>4, <2>2 DEF UpdateMembers
    <3> QED BY <1>5, <2>2, <3>1 DEF Known, RowsKnown
  <2> QED BY <2>1, <2>2
<1>7. NoRow.pipe # q
  BY <1>5, BoundsAssumption DEF NoRow, Pipelines
<1> HIDE DEF ids, q
<1>8. \A n \in RowIds : db'.rows[n].pipe = q => db'.rows[n].model \in ask[r].list
  BY <1>5, <1>6, <1>7 DEF WritesMembers
<1>9. \A m \in ask[r].list : \E n \in RowIds : db'.rows[n] = [pipe |-> q, model |-> m]
  BY <1>5 DEF WritesMembers
<1>10. MembersOf(db', q) = ask[r].list
  <2>1. ASSUME NEW n \in RowsOf(db', q) PROVE db'.rows[n].model \in ask[r].list
    BY <1>8, <2>1 DEF RowsOf
  <2>2. ASSUME NEW m \in ask[r].list
        PROVE  \E n \in RowsOf(db', q) : db'.rows[n].model = m
    <3>1. PICK n \in RowIds : db'.rows[n] = [pipe |-> q, model |-> m]
      BY <1>9
    <3>2. n \in RowsOf(db', q) /\ db'.rows[n].model = m
      BY <3>1 DEF RowsOf
    <3> QED BY <3>2
  <2> QED BY <2>1, <2>2 DEF MembersOf
<1> QED BY <1>10 DEF q

(* A PATCH with members leaves exactly these: always when it flushed a     *)
(* column before it read the rows, otherwise unless the members were       *)
(* written in a race.                                                      *)
THEOREM MembersReplaced == Spec => PatchReplacesMembers
<1> DEFINE A == \A r \in Requests :
                  /\ pc[r] # "done" /\ pc'[r] = "done" /\ ask[r].op = "updatePipeline" /\ ask[r].put
                  /\ Changes(ask[r]) \/ ask[r].id \notin raced
                  => MembersOf(db', ask[r].id) = ask[r].list
<1>1. ASSUME IInv, Next, NEW r \in Requests,
             pc[r] # "done", pc'[r] = "done", ask[r].op = "updatePipeline", ask[r].put,
             Changes(ask[r]) \/ ask[r].id \notin raced
      PROVE  MembersOf(db', ask[r].id) = ask[r].list
  <2>1. Known
    BY <1>1 DEF IInv, Known
  <2> QED BY <1>1, <2>1, PatchStep
<1>2. IInv /\ [Next]_vars => [A]_vars
  BY <1>1, Zenon
<1>3. PatchReplacesMembers <=> [][A]_vars
  BY DEF PatchReplacesMembers
<1> QED BY <1>2, <1>3, Invariance, PTL DEF Spec

=============================================================================
