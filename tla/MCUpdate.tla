------------------------------- MODULE MCUpdate -------------------------------
(* Small instances of UpdateCoordinator. *)
EXTENDS UpdateCoordinator, TLC

Alike == Permutations(Process) \cup Permutations(Update)
=============================================================================
