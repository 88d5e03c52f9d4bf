-------------------------- MODULE MCAccountLifecycle --------------------------
(* AccountLifecycle with interchangeable requests and tokens. *)
EXTENDS AccountLifecycle, TLC

Symmetry == Permutations(Worker) \cup Permutations(Credential)
=============================================================================
