-------------------------- MODULE MCNativeChallenge --------------------------
(* NativeChallenge with two of everything; challenges and accounts are alike. *)
EXTENDS NativeChallenge, TLC

Symmetry ==
    Permutations(Challenge) \cup Permutations(Account) \cup Permutations(Exchange)
=============================================================================
