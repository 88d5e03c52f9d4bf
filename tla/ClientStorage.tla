--------------------------- MODULE ClientStorage ---------------------------
(***************************************************************************)
(* The IndexedDB database of the web client, shared by every tab of one    *)
(* browser profile (web/sync-storage.js, web/workspace-transaction.js).    *)
(* Every operator below is what one "readwrite" transaction decides and    *)
(* writes; a transaction is atomic and either commits whole or aborts.     *)
(*                                                                         *)
(* A database is a record:                                                 *)
(*   owner       account incarnation of the stored snapshot, or None       *)
(*   revision    server revision of the stored snapshot                    *)
(*   queue       operations waiting for the server (five stores, one set)  *)
(*   proof       "deliveryProof": operations proved never sent             *)
(*   outgoing    "outgoingSync": the claim being delivered, or None        *)
(*   gate        "bootstrapGate": the lease that stops edits, or None      *)
(*   resolution  "bootstrapResolution": the saved history request, or None *)
(*                                                                         *)
(* What a queued operation means is decided by the shared Core, which is   *)
(* outside this model: Core only chooses which never-sent operations a new *)
(* edit replaces and which never-sent operations lose their meaning when   *)
(* the server's answer arrives.                                            *)
(***************************************************************************)
EXTENDS Naturals, FiniteSets

CONSTANTS Tab,      \* tabs of the browser profile; a tab id is a gate token
          Op,       \* operation identities (UUIDs)
          Account,  \* account incarnations of the server
          None      \* absence

Owner == Account \cup {None}

(* A claim: the batch being delivered under its own identity.  body says   *)
(* whether the exact request bytes were kept; older clients stored only    *)
(* the batch (retireProofAndPersistOutgoing).                              *)
Claim == [id : Nat, sent : SUBSET Op, owner : Owner, body : BOOLEAN]

Gate == [token : Tab, owner : Owner, live : BOOLEAN]

ASSUME NoneAssumption ==
    /\ None \notin Tab /\ None \notin Op /\ None \notin Account
    /\ None \notin Claim /\ None \notin Gate

Gated(d) == d.gate # None \/ d.resolution # None

SentIds(claim) == IF claim = None THEN {} ELSE claim.sent

\* Mutant of NeverSent: what is queued and not in the claim counts as never sent.
NeverSentByAbsence(d) == d.queue \ SentIds(d.outgoing)

\* neverSentFromProof: the proof counts only for work still queued and not in the claim
NeverSent(d) == (d.proof \cap d.queue) \ SentIds(d.outgoing)

\* Mutant of ContextError: only the gate is looked at.
ContextErrorGateOnly(d, owner) == IF Gated(d) THEN "gated" ELSE "none"

\* assertWorkspaceContext, validateSyncResponseApply: ownership first, then the gate
ContextError(d, owner) ==
    IF d.owner # owner THEN "ownership"
    ELSE IF Gated(d) THEN "gated" ELSE "none"

(***************************************************************************)
(* planWorkspaceMutation and writePlan: an edit joins its queue and the    *)
(* proof; it may replace earlier duration operations never sent.           *)
(***************************************************************************)
AppendPlan(d, o, retired) ==
    [d EXCEPT !.queue = (@ \cup {o}) \ retired,
              !.proof = (NeverSent(d) \cup {o}) \ retired]

(***************************************************************************)
(* claimWorkspaceBatch: a saved claim is replayed as it is; otherwise a    *)
(* fresh one is stored and its operations leave the proof, all in one      *)
(* transaction and before anything is sent.                                *)
(***************************************************************************)
NewClaim(id, sent, owner) == [id |-> id, sent |-> sent, owner |-> owner, body |-> TRUE]

\* removeProofIds: what leaves the device can no longer be proved unsent
Retired(proof, sent) == proof \ sent

FreshClaim(d, claim) ==
    [d EXCEPT !.outgoing = claim, !.proof = Retired(@, claim.sent)]

ClaimError(d, owner) ==
    IF ContextError(d, owner) # "none" THEN ContextError(d, owner)
    ELSE IF d.outgoing = None THEN "none"
    ELSE IF d.outgoing.owner \notin {None, owner} THEN "ownership"
    ELSE IF d.outgoing.body THEN "none" ELSE "unsendable"

\* discardUnrecoverableSavedClaim: only a claim without its bytes may be given up
DiscardAllowed(d, owner) ==
    /\ ContextError(d, owner) = "none"
    /\ d.outgoing # None
    /\ ~d.outgoing.body
    /\ d.outgoing.owner \in {None, owner}

(***************************************************************************)
(* planSyncResponse: what the answer to a captured claim does.             *)
(***************************************************************************)
\* Mutant of ResponseMatches: any answer settles the stored claim.
ResponseAlwaysMatches(d, captured) == TRUE

\* responseClaimPlan: the claim captured before the send must still be the stored one
ResponseMatches(d, captured) == d.outgoing = captured

\* Mutant of ResponseKind: an answer at the stored revision counts as stale.
ResponseKindStrict(d, owner, captured, revision) ==
    IF ContextError(d, owner) # "none" THEN ContextError(d, owner)
    ELSE IF ~ResponseMatches(d, captured) THEN "ignored"
    ELSE IF d.revision >= revision THEN "stale" ELSE "apply"

ResponseKind(d, owner, captured, revision) ==
    IF ContextError(d, owner) # "none" THEN ContextError(d, owner)
    ELSE IF ~ResponseMatches(d, captured) THEN "ignored"
    ELSE IF d.revision > revision THEN "stale" ELSE "apply"

\* Mutant of AppliedResponse: the whole queue counts as acknowledged.
AppliedResponseEmptiesQueue(d, captured, revision, dropped) ==
    [d EXCEPT !.revision = revision, !.queue = {}, !.proof = {}, !.outgoing = None]

\* Mutant of AppliedResponse: the answered claim stays stored.
AppliedResponseKeepsClaim(d, captured, revision, dropped) ==
    [d EXCEPT !.revision = revision,
              !.queue = (@ \ captured.sent) \ dropped,
              !.proof = ((@ \cap d.queue) \ captured.sent) \ dropped]

\* responseTransactionRebase: acknowledged operations leave the queue, Core drops
\* never-sent ones that lost their meaning
Kept(queue, sent, dropped) == (queue \ sent) \ dropped

\* persistSyncResponsePlan: snapshot, queue, proof and claim change together
AppliedResponse(d, captured, revision, dropped) ==
    [d EXCEPT !.revision = revision,
              !.queue = Kept(@, captured.sent, dropped),
              !.proof = Kept(@ \cap d.queue, captured.sent, dropped),
              !.outgoing = None]

(***************************************************************************)
(* The bootstrap gate: a lease on the whole profile, bound to an account   *)
(* once the session is known.                                              *)
(***************************************************************************)
LeaseIsLive(gate) == gate # None /\ gate.live

ForeignGate(d, user) ==
    d.gate # None /\ d.gate.owner # None /\ user # None /\ d.gate.owner # user

CanAcquireGate(d, t, user) ==
    /\ ~ForeignGate(d, user)
    /\ ~(LeaseIsLive(d.gate) /\ d.gate.token # t)

\* Mutant of BoundLease: the account is left out, as older clients did.
UnboundLease(t, user) == [token |-> t, live |-> TRUE]

BoundLease(t, user) == [token |-> t, owner |-> user, live |-> TRUE]

\* acquireBootstrapGate: the taker also adopts a saved resolution
AcquiredGate(d, t, user) ==
    [d EXCEPT !.gate = BoundLease(t, user),
              !.resolution = IF @ = None THEN None ELSE [@ EXCEPT !.token = t]]

\* clearBootstrapGate refuses while a resolution is saved or another tab holds the gate
CanClearGate(d, t) == d.resolution = None /\ d.gate # None /\ d.gate.token = t

ClearedGate(d) == [d EXCEPT !.gate = None]
=============================================================================
