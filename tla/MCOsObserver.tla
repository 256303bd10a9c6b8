---------------------------- MODULE MCOsObserver ----------------------------
(* Two clients, two items they subscribe for and one they ask the value of. *)
EXTENDS OsObserver, TLC

Permuted == Permutations(Clients)
=============================================================================
