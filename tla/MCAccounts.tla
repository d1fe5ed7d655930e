----------------------------- MODULE MCAccounts -----------------------------
(* Two administrators at most, and the bodies of PATCH that matter: stop,  *)
(* start, demote, promote with and without a password, a new password.     *)
EXTENDS Accounts, TLC

Body(e, ro, p) == [enabled |-> e, role |-> ro, password |-> p]

Bodies == {Body("off", "keep", FALSE), Body("keep", "user", FALSE),
           Body("on", "admin", FALSE), Body("keep", "keep", TRUE)}

Symmetry == Permutations(Requests)

=============================================================================
