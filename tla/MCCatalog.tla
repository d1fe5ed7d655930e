----------------------------- MODULE MCCatalog -----------------------------
(***************************************************************************)
(* Catalog with two ids of everything and requests that get in each        *)
(* other's way: deletions, PATCHes of a pipeline with and without other    *)
(* columns, a model that is created or moved, grants.                      *)
(***************************************************************************)
EXTENDS Catalog, TLC

Rows2(a, b, c, d) == [n \in RowIds |-> CASE n = 1 -> a [] n = 2 -> b [] n = 3 -> c
                                          [] n = 4 -> d [] OTHER -> NoRow]
In(q, m) == [pipe |-> q, model |-> m]

(* Pipeline 1 uses both models, pipeline 2 (if any) only the second one;   *)
(* the models have one provider or two, and the last id may be free.       *)
MCCatalogs ==
    {[provs |-> {1, 2}, home |-> <<1, 2>>, judge |-> <<1, 0>>,
      rows |-> Rows2(In(1, 1), In(1, 2), NoRow, NoRow),
      grants |-> {<<"provider", 1>>, <<"model", 1>>, <<"pipeline", 1>>}],
     [provs |-> {1}, home |-> <<1, 1>>, judge |-> <<2, 1>>,
      rows |-> Rows2(In(2, 2), In(1, 1), In(1, 2), NoRow),
      grants |-> {<<"pipeline", 2>>, <<"model", 2>>}]}

Deletions == {[NoAsk EXCEPT !.op = "deleteProvider", !.id = 1]}
             \cup {[NoAsk EXCEPT !.op = "deleteModel", !.id = m] : m \in Models}
             \cup {[NoAsk EXCEPT !.op = "deletePipeline", !.id = q] : q \in Pipelines}

MCAsked ==
    Deletions
    \cup {[NoAsk EXCEPT !.op = "createProvider"],
          [NoAsk EXCEPT !.op = "createModel", !.ref = 1],
          [NoAsk EXCEPT !.op = "moveModel", !.id = 2, !.ref = 1],
          [NoAsk EXCEPT !.op = "createPipeline", !.ref = 2, !.list = {2}],
          [NoAsk EXCEPT !.op = "createPipeline", !.ref = 1, !.list = {1, 2}],
          [NoAsk EXCEPT !.op = "updatePipeline", !.id = 1, !.ref = 2],
          [NoAsk EXCEPT !.op = "updatePipeline", !.id = 2, !.ref = 1, !.put = TRUE, !.list = {2}],
          [NoAsk EXCEPT !.op = "putGrants", !.targets = {<<"model", 2>>, <<"pipeline", 2>>}]}
    \cup {[NoAsk EXCEPT !.op = "updatePipeline", !.id = 1, !.put = TRUE, !.list = S, !.touch = t] :
             S \in {{}, {1}, {2}, {1, 2}}, t \in BOOLEAN}

Symmetry == Permutations(Requests)

=============================================================================
