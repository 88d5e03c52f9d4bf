----------------------------- MODULE AccountStore -----------------------------
(***************************************************************************)
(* The operation log of one account: internal/store/sync.go and            *)
(* internal/store/bootstrap.go, as the HTTP handlers of                    *)
(* internal/server/api.go drive them.                                      *)
(*                                                                         *)
(* A call occupies a slot from the moment its handler reads the clock until *)
(* its reply is written or lost.  The handler evaluates time.Now() BEFORE  *)
(* it waits for LockUser, so two calls may commit in the opposite order of *)
(* the times they carry.  One commit is one SQLite transaction under the   *)
(* account lock: it happens entirely or, on any error, cancellation or     *)
(* crash, not at all.                                                      *)
(*                                                                         *)
(* The reducer itself is the Rust shared core, outside the repository: it  *)
(* enters as the constant operator Reduce, a function of the stored timer  *)
(* commands and the call's time.  The other four projections are functions *)
(* of the log alone, so a snapshot is given by the log and the timer       *)
(* projection.                                                             *)
(***************************************************************************)
EXTENDS Integers, Sequences, FiniteSets

CONSTANTS
    Device,           \* device identifiers
    Operation,        \* submitted operations: records with dom, id and seq
    Batch,            \* operation arrays a request may carry (sequences)
    Submission,       \* sync requests: device and batch
    Proposal,         \* bootstrap resolutions, without the expected revision
    RequestId,        \* bootstrap resolution request identifiers
    Slot,             \* concurrent calls of the server
    Reduce(_, _),     \* timer reduction of a set of entries at a time
    NoProjection,     \* no current timer and no session
    MaxSafeRevision,  \* the last revision (2^53 - 1 in the code)
    MaxNow            \* bound of the server clock

Time == 0 .. MaxNow
Revision == 0 .. MaxSafeRevision
Domain == {"timer", "task", "duration", "autoStart", "selectedTask"}
Strategy == {"keep_remote", "replace_remote", "merge"}

ASSUME RevisionAssumption == MaxSafeRevision \in Nat /\ MaxNow \in Nat
ASSUME OperationAssumption == \A o \in Operation : o.dom \in Domain
ASSUME BatchAssumption == Batch \subseteq Seq(Operation) /\ <<>> \in Batch
ASSUME SubmissionAssumption == Submission \subseteq [device : Device, batch : Batch]
ASSUME ProposalAssumption ==
    /\ Proposal \subseteq [device : Device, strategy : Strategy, batch : Batch,
                           autoStartPresent : BOOLEAN, selectedTaskPresent : BOOLEAN]
    /\ \A q \in Proposal : \A i \in DOMAIN q.batch :  \* an absent array is empty
          /\ q.batch[i].dom = "autoStart" => q.autoStartPresent
          /\ q.batch[i].dom = "selectedTask" => q.selectedTaskPresent

VARIABLES
    ops,          \* the five operation tables: a set of entries
    devices,      \* the devices table
    proj,         \* timer_sessions and account_state.current_timer_id
    revision,     \* account_state.revision
    resolutions,  \* bootstrap_resolutions: request id -> payload, response
    now,          \* the server's clock
    call,         \* the call in each slot, with its reply once committed
    snapshots     \* history: the snapshot each revision stood for

store == <<ops, devices, proj, revision, resolutions, snapshots>>
vars == <<store, now, call>>

-----------------------------------------------------------------------------
(* Operation tables *)

\* A row of an operation table: the submitted payload and the device column.
Entry == [device : Device, op : Operation]
Row(d, o) == [device |-> d, op |-> o]

Commands(S) == {e \in S : e.op.dom = "timer"}

\* loadCommand and its siblings: the operation's identifier is taken.
Stored(S, o) == \E e \in S : e.op.dom = o.dom /\ e.op.id = o.id

\* Mutant of Same: the device column is not compared.
SameForAnyDevice(S, d, o) == \E e \in S : e.op = o

\* sameCommand and its siblings: payload and device column are both compared.
Same(S, d, o) == Row(d, o) \in S

\* Timer commands also claim their device's sequence number.
SequenceUsed(S, d, o) ==
    /\ o.dom = "timer"
    /\ \E e \in Commands(S) : e.device = d /\ e.op.seq = o.seq

\* Mutant of SequenceClaimed: a batch is checked against the tables only.
SequenceNeverClaimed(S, d, b, i) == FALSE

\* A command earlier in the same batch has just been inserted with i's number.
SequenceClaimed(S, d, b, i) ==
    /\ b[i].dom = "timer"
    /\ \E j \in 1 .. (i - 1) :
         /\ b[j].dom = "timer" /\ b[j].seq = b[i].seq
         /\ ~Stored(S, b[j]) /\ ~SequenceUsed(S, d, b[j])

\* What applyOperations decides for the i-th operation of a batch.
Verdict(S, d, b, i) ==
    IF Stored(S, b[i])
    THEN IF Same(S, d, b[i]) THEN "duplicate" ELSE "id_conflict"
    ELSE IF SequenceUsed(S, d, b[i]) \/ SequenceClaimed(S, d, b, i)
         THEN "sequence_conflict" ELSE "inserted"

Verdicts(S, d, b) == [i \in DOMAIN b |-> Verdict(S, d, b, i)]

\* Mutant of Applied: a known identifier is overwritten.
AppliedOverwriting(S, d, b) ==
    {e \in S : \A i \in DOMAIN b : b[i].dom # e.op.dom \/ b[i].id # e.op.id}
        \cup {Row(d, b[i]) : i \in DOMAIN b}

\* The tables after applyOperations.
Applied(S, d, b) ==
    S \cup {Row(d, b[i]) : i \in {k \in DOMAIN b : Verdict(S, d, b, k) = "inserted"}}

\* validateUniqueOperationIDs
UniqueIds(b) ==
    \A i, j \in DOMAIN b : b[i].dom = b[j].dom /\ b[i].id = b[j].id => i = j

\* clearForBootstrapReplacement: a table whose array the request omits stays.
Cleared(S, q) ==
    {e \in S : \/ e.op.dom = "autoStart" /\ ~q.autoStartPresent
               \/ e.op.dom = "selectedTask" /\ ~q.selectedTaskPresent}

\* No commands, no sessions; and time completes sessions but never creates one.
ASSUME ReduceAssumption ==
    \A S \in SUBSET Entry, t, u \in Time :
        /\ Commands(S) = {} => Reduce(Commands(S), t) = NoProjection
        /\ Reduce(Commands(S), t) = NoProjection => Reduce(Commands(S), u) = NoProjection

-----------------------------------------------------------------------------
(* Calls and replies *)

\* "keep_remote requires empty operation arrays"
WellFormed(q) == q.strategy = "keep_remote" => q.batch = <<>>

Idle == [state |-> "idle"]

\* A response: the revision, the snapshot and the acknowledgement per operation.
Response(r, S, p, v) == [revision |-> r, ops |-> S, proj |-> p, verdicts |-> v]

Reply(s, status, result) ==
    call' = [call EXCEPT ![s] = [state |-> "done", request |-> @.request,
                                 status |-> status, result |-> result]]

Refused == Response(0, {}, NoProjection, <<>>)

Fail(s, status) == Reply(s, status, Refused) /\ UNCHANGED <<store, now>>

\* Mutant of Changed: a projection that only time has moved does not count.
LogChanged(S, p, bare) == S # ops

\* accountReduction.changed: an operation was inserted or removed, or the timer
\* projection differs from the one the tables hold (bare).
Changed(S, p, bare) == S # ops \/ p # bare

\* Mutant of Exhausted: one increment too many.
ExhaustedBeyond(changed) == changed /\ revision > MaxSafeRevision

\* safeRevisionIncrement: the last safe revision has no successor.
Exhausted(changed) == changed /\ revision = MaxSafeRevision

\* Mutant of Persist: the projection is written only along with new operations.
PersistInserting(S, p) == ops' = S /\ proj' = IF S \subseteq ops THEN proj ELSE p

Persist(S, p) == ops' = S /\ proj' = p

\* persistReduction: the whole transaction commits.
Commit(s, S, p, changed, v) ==
    LET r == IF changed THEN revision + 1 ELSE revision IN
    /\ Persist(S, p)
    /\ revision' = r
    /\ snapshots' = [k \in DOMAIN snapshots \cup {r} |->
                       IF k \in DOMAIN snapshots THEN snapshots[k]
                       ELSE [ops |-> S, proj |-> p]]
    /\ Reply(s, "ok", Response(r, S, p, v))
    /\ UNCHANGED now

\* The handler has parsed the request and read the clock; the lock comes next.
Receive(s, request) ==
    /\ call[s].state = "idle"
    /\ call' = [call EXCEPT ![s] = [state |-> "waiting", request |-> request, at |-> now]]
    /\ UNCHANGED <<store, now>>

Waiting(s, kind) == call[s].state = "waiting" /\ call[s].request.kind = kind

-----------------------------------------------------------------------------
(* POST /api/v1/sync *)

ReceiveSync(s, q) == Receive(s, [kind |-> "sync", payload |-> q])

SyncInvalid(s) ==
    /\ Waiting(s, "sync")
    /\ ~UniqueIds(call[s].request.payload.batch)
    /\ Fail(s, "invalid")

Sync(s) ==
    LET q == call[s].request.payload
        S == Applied(ops, q.device, q.batch)
        p == Reduce(Commands(S), call[s].at)
        changed == Changed(S, p, proj)
    IN /\ Waiting(s, "sync")
       /\ UniqueIds(q.batch)
       /\ IF Exhausted(changed)
          THEN Fail(s, "exhausted")
          ELSE /\ devices' = devices \cup {q.device}
               /\ Commit(s, S, p, changed, Verdicts(ops, q.device, q.batch))
               /\ UNCHANGED resolutions

-----------------------------------------------------------------------------
(* GET /api/v1/bootstrap, GET /api/v1/timer/history, stream opening *)

ReceiveRead(s) == Receive(s, [kind |-> "read"])

Materialize(s) ==
    LET p == Reduce(Commands(ops), call[s].at)
        changed == Changed(ops, p, proj)
    IN /\ Waiting(s, "read")
       /\ IF Exhausted(changed)
          THEN Fail(s, "exhausted")
          ELSE /\ Commit(s, ops, p, changed, <<>>)
               /\ UNCHANGED <<devices, resolutions>>

-----------------------------------------------------------------------------
(* POST /api/v1/bootstrap/resolve *)

\* payload and expected are what bootstrapPayloadHash covers.
ReceiveResolve(s, id, q, r) ==
    Receive(s, [kind |-> "resolve", id |-> id, payload |-> q, expected |-> r])

ResolveInvalid(s) ==
    /\ Waiting(s, "resolve")
    /\ LET q == call[s].request.payload IN ~UniqueIds(q.batch) \/ ~WellFormed(q)
    /\ Fail(s, "invalid")

ResolveValid(s) ==
    /\ Waiting(s, "resolve")
    /\ LET q == call[s].request.payload IN UniqueIds(q.batch) /\ WellFormed(q)

\* Mutant of ResolveReplay: a known request id is answered whatever it asks.
ResolveReplayUnchecked(s) ==
    /\ ResolveValid(s)
    /\ call[s].request.id \in DOMAIN resolutions
    /\ Reply(s, "ok", resolutions[call[s].request.id].response)
    /\ UNCHANGED <<store, now>>

\* lookupStoredBootstrapResponse found the request: the stored answer, verbatim.
ResolveReplay(s) ==
    LET q == call[s].request IN
    /\ ResolveValid(s)
    /\ q.id \in DOMAIN resolutions
    /\ IF resolutions[q.id].payload = q.payload /\ resolutions[q.id].expected = q.expected
       THEN Reply(s, "ok", resolutions[q.id].response) /\ UNCHANGED <<store, now>>
       ELSE Fail(s, "id_conflict")

\* The tables and the timer projection the strategy starts from.
Base(q) == IF q.strategy = "replace_remote" THEN Cleared(ops, q) ELSE ops
BaseProjection(q) == IF q.strategy = "replace_remote" THEN NoProjection ELSE proj

\* Mutant of RevisionCurrent: any revision the account has had will do.
RevisionKnown(r) == r <= revision

\* bootstrapRevisionForRequest: the compare of the compare-and-swap.
RevisionCurrent(r) == r = revision

ResolveRevisionConflict(s) ==
    /\ ResolveValid(s)
    /\ call[s].request.id \notin DOMAIN resolutions
    /\ ~RevisionCurrent(call[s].request.expected)
    /\ Fail(s, "revision_conflict")

\* recordBootstrapResponse: the answer is stored by the transaction it answers.
Record(q, response) ==
    resolutions' = [k \in DOMAIN resolutions \cup {q.id} |->
        IF k = q.id
        THEN [payload |-> q.payload, expected |-> q.expected, response |-> response]
        ELSE resolutions[k]]

Resolve(s) ==
    LET q == call[s].request.payload
        S == IF q.strategy = "keep_remote" THEN ops
             ELSE Applied(Base(q), q.device, q.batch)
        p == Reduce(Commands(S), call[s].at)
        changed == Changed(S, p, BaseProjection(q))
        v == Verdicts(Base(q), q.device, q.batch)
    IN /\ ResolveValid(s)
       /\ call[s].request.id \notin DOMAIN resolutions
       /\ RevisionCurrent(call[s].request.expected)
       /\ IF Exhausted(changed)
          THEN Fail(s, "exhausted")
          ELSE /\ Commit(s, S, p, changed, v)
               /\ Record(call[s].request, Response(revision', S, p, v))
               /\ UNCHANGED devices

-----------------------------------------------------------------------------
(* The request is cancelled, an I/O error rolls its transaction back, or the
   process stops before the commit: nothing of the call remains. *)
Abort(s) ==
    /\ call[s].state = "waiting"
    /\ call' = [call EXCEPT ![s] = Idle]
    /\ UNCHANGED <<store, now>>

(* The reply is written to the client, or lost on the way: the server cannot
   tell, and the client may send the request again. *)
Finish(s) ==
    /\ call[s].state = "done"
    /\ call' = [call EXCEPT ![s] = Idle]
    /\ UNCHANGED <<store, now>>

Tick ==
    /\ now < MaxNow
    /\ now' = now + 1
    /\ UNCHANGED <<store, call>>

Init ==
    /\ ops = {} /\ devices = {} /\ proj = NoProjection /\ revision = 0
    /\ resolutions = [id \in {} |-> {}]
    /\ now = 0
    /\ call = [s \in Slot |-> Idle]
    /\ snapshots = [r \in {0} |-> [ops |-> {}, proj |-> NoProjection]]

Step(s) ==
    \/ \E q \in Submission : ReceiveSync(s, q)
    \/ ReceiveRead(s)
    \/ \E id \in RequestId, q \in Proposal, r \in 0 .. revision : ReceiveResolve(s, id, q, r)
    \/ SyncInvalid(s) \/ Sync(s) \/ Materialize(s)
    \/ ResolveInvalid(s) \/ ResolveReplay(s) \/ ResolveRevisionConflict(s) \/ Resolve(s)
    \/ Abort(s) \/ Finish(s)

Next == Tick \/ \E s \in Slot : Step(s)

Spec == Init /\ [][Next]_vars

-----------------------------------------------------------------------------
(* Properties *)

ResponseType(x) == x.revision \in Revision /\ x.ops \subseteq Entry

RequestType(q, r) ==
    \/ q.kind = "read"
    \/ q.kind = "sync" /\ q.payload \in Submission
    \/ /\ q.kind = "resolve" /\ q.payload \in Proposal
       /\ q.id \in RequestId /\ q.expected \in 0 .. r

CallType(c, r, n) ==
    \/ c = Idle
    \/ c.state = "waiting" /\ c.at \in 0 .. n /\ RequestType(c.request, r)
    \/ c.state = "done" /\ RequestType(c.request, r) /\ ResponseType(c.result)

(* The tables hold entries, every revision lies within the safe range and every
   waiting call carries a time the clock has already shown. *)
TypeOK ==
    /\ ops \subseteq Entry /\ devices \subseteq Device
    /\ revision \in Revision /\ now \in Time
    /\ DOMAIN resolutions \subseteq RequestId
    /\ \A id \in DOMAIN resolutions : ResponseType(resolutions[id].response)
    /\ DOMAIN call = Slot /\ \A s \in Slot : CallType(call[s], revision, now)
    /\ DOMAIN snapshots = 0 .. revision
    /\ \A r \in DOMAIN snapshots : snapshots[r].ops \subseteq Entry

\* The primary key, and UNIQUE(device_id, device_sequence).
UniqueRows(S) ==
    \A e, f \in S :
        /\ e.op.dom = f.op.dom /\ e.op.id = f.op.id => e = f
        /\ e.op.dom = "timer" /\ f.op.dom = "timer" /\ e.device = f.device
              /\ e.op.seq = f.op.seq => e = f

(* No two rows share an identifier within a table, and no two timer commands of
   one device share a sequence number: applyOperations must keep the primary
   key and the UNIQUE(device_id, device_sequence) constraint out of reach of
   every retry, of every batch that collides with itself and of every
   resolution that merges or replaces. *)
IdentitiesUnique == UniqueRows(ops)

\* A response shows the snapshot its revision names.
Shows(H, x) ==
    /\ x.revision \in DOMAIN H
    /\ H[x.revision] = [ops |-> x.ops, proj |-> x.proj]

Answered(c) == c.state = "done" /\ c.status = "ok"

(* Equal revisions denote the same canonical snapshot: what the tables hold now
   is what this revision has always stood for, and so is what every reply on
   the way and every stored resolution response says.  Timer projections that
   time alone has moved, stale call times and replays must all respect it. *)
RevisionNamesSnapshot ==
    /\ snapshots[revision] = [ops |-> ops, proj |-> proj]
    /\ \A s \in Slot : Answered(call[s]) => Shows(snapshots, call[s].result)
    /\ \A id \in DOMAIN resolutions : Shows(snapshots, resolutions[id].response)

\* Each verdict of response x agrees with the log x shows.
Truthful(q, x) ==
    \A i \in DOMAIN x.verdicts :
        (x.verdicts[i] \in {"inserted", "duplicate"}) <=> Row(q.device, q.batch[i]) \in x.ops

(* An acknowledgement tells the client whether it may drop the operation from
   its queue: an operation that is not rejected is in the log of the revision
   the reply names, as this device submitted it; a rejected one is not.  The
   replies that stored resolutions will give say the same. *)
AcknowledgementsTruthful ==
    /\ \A s \in Slot : Answered(call[s]) /\ call[s].request.kind # "read" =>
          Truthful(call[s].request.payload, call[s].result)
    /\ \A id \in DOMAIN resolutions :
          Truthful(resolutions[id].payload, resolutions[id].response)

(* A resolution request takes effect once: a reply that reports success is the
   stored response of that request, whoever sent it again and however often. *)
ResolutionReplayed ==
    \A s \in Slot : Answered(call[s]) /\ call[s].request.kind = "resolve" =>
        LET q == call[s].request
        IN /\ q.id \in DOMAIN resolutions
           /\ resolutions[q.id].payload = q.payload
           /\ resolutions[q.id].expected = q.expected
           /\ resolutions[q.id].response = call[s].result

(* The persisted timer projection is the reduction of the persisted commands at
   some time the server clock has shown: neither a replacement that commits
   without persisting nor a rejected batch leaves a projection of other rows. *)
ProjectionOfLog == \E t \in 0 .. now : proj = Reduce(Commands(ops), t)

(* Operations leave the log only by a replacement, and only operations that
   were in the snapshot the replacing client named as the one it saw: an
   operation that arrived in between is never lost. *)
NothingUnseenReplaced ==
    [][\A e \in ops \ ops' : \E s \in Slot :
          /\ call[s] # call'[s] /\ call[s].state = "waiting"
          /\ call[s].request.kind = "resolve"
          /\ call[s].request.payload.strategy = "replace_remote"
          /\ e \in snapshots[call[s].request.expected].ops]_vars

\* The store as a log with a revision: see AccountLog.
Abstract == INSTANCE AccountLog WITH
    log <- ops,
    decided <- [id \in DOMAIN resolutions |->
                  [revision |-> resolutions[id].response.revision,
                   log |-> resolutions[id].response.ops]]

(* The store implements AccountLog: every transaction is an append, a
   projection, a decision or no change at all. *)
ImplementsLog == Abstract!Spec
=============================================================================
