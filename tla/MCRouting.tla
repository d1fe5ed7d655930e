----------------------------- MODULE MCRouting ------------------------------
(* The requests are interchangeable, and so are the keys.                  *)
EXTENDS Routing, TLC

CONSTANT a

(* Nothing, one model, and one twice.                                      *)
AnyList == {<<>>, <<a>>, <<a, a>>}

Symmetry == Permutations(Requests) \cup Permutations(Keys)

=============================================================================
