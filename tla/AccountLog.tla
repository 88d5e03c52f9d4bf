------------------------------ MODULE AccountLog ------------------------------
(***************************************************************************)
(* What an account's store promises its clients (web/openapi.yaml, sync and *)
(* bootstrap/resolve): a log that only grows, except that a bootstrap      *)
(* resolution, decided once per request identifier, may put another log in *)
(* its place; and a revision that advances by one with every change and by *)
(* one only.                                                               *)
(***************************************************************************)
EXTENDS Integers

CONSTANTS MaxSafeRevision

VARIABLES log, revision, decided

logVars == <<log, revision, decided>>

Init == log = {} /\ revision = 0 /\ decided = [id \in {} |-> {}]

Advance == revision < MaxSafeRevision /\ revision' = revision + 1

\* A sync request inserts operations.
Append == log \subseteq log' /\ log' # log /\ Advance /\ UNCHANGED decided

\* Time moved the timer projection; or an operation-free request found it moved.
Project == Advance /\ UNCHANGED <<log, decided>>

\* A bootstrap resolution: the first and only decision for its request.
Decide ==
    /\ \/ Advance
       \/ UNCHANGED <<log, revision>>
    /\ \E id \in DOMAIN decided' \ DOMAIN decided :
         decided' = [k \in DOMAIN decided \cup {id} |->
                       IF k = id THEN [revision |-> revision', log |-> log'] ELSE decided[k]]

Next == Append \/ Project \/ Decide

Spec == Init /\ [][Next]_logVars
=============================================================================
