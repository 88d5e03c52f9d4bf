-------------------------- MODULE MCClientBootstrap --------------------------
(* ClientBootstrap on a small profile, for TLC. *)
EXTENDS ClientBootstrap, TLC

Symmetry == Permutations(Tab) \cup Permutations(Op) \cup Permutations(Account)
=============================================================================
