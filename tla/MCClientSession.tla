--------------------------- MODULE MCClientSession ---------------------------
(* ClientSession for TLC. *)
EXTENDS ClientSession, TLC

Symmetry == Permutations(Tab) \cup Permutations(Account)
=============================================================================
