---------------------------- MODULE MCClientSync ----------------------------
(* ClientSync on a small profile, for TLC. *)
EXTENDS ClientSync, TLC

Symmetry == Permutations(Tab) \cup Permutations(Op)
=============================================================================
