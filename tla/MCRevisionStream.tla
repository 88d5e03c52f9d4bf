--------------------------- MODULE MCRevisionStream ---------------------------
(* RevisionStream on a small instance, for TLC. *)
EXTENDS RevisionStream
=============================================================================
