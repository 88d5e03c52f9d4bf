-------------------------- MODULE AccountStoreProofs --------------------------
(***************************************************************************)
(* Proofs about AccountStore, for every set of devices, operations,        *)
(* batches and requests, every number of concurrent calls and every        *)
(* reducer that yields the empty projection for no commands.               *)
(***************************************************************************)
EXTENDS AccountStore, TLAPS

-----------------------------------------------------------------------------
(* The operation tables *)

(* applyOperations only adds rows, and adds rows of the requesting device. *)
LEMMA AppliedType ==
    ASSUME NEW S \in SUBSET Entry, NEW d \in Device, NEW b \in Batch
    PROVE  Applied(S, d, b) \in SUBSET Entry /\ S \subseteq Applied(S, d, b)
<1>1. b \in Seq(Operation)
  BY BatchAssumption
<1>2. \A i \in DOMAIN b : b[i] \in Operation
  BY <1>1
<1>3. \A i \in DOMAIN b : Row(d, b[i]) \in Entry
  BY <1>2 DEF Row, Entry
<1>4. QED
  BY <1>3 DEF Applied

(* A row applyOperations adds comes from a position whose verdict is "inserted":
   its identifier was free, and so was its sequence number, also among the
   positions before it. *)
LEMMA InsertedRow ==
    ASSUME NEW S, NEW d, NEW b, NEW e \in Applied(S, d, b), e \notin S
    PROVE  \E i \in DOMAIN b : /\ e = Row(d, b[i])
                               /\ ~Stored(S, b[i])
                               /\ ~SequenceUsed(S, d, b[i])
                               /\ ~SequenceClaimed(S, d, b, i)
<1>1. PICK i \in DOMAIN b : e = Row(d, b[i]) /\ Verdict(S, d, b, i) = "inserted"
  BY DEF Applied
<1>2. QED
  BY <1>1 DEF Verdict

(* applyOperations keeps identifiers and sequence numbers unique, whatever the
   batch repeats. *)
LEMMA AppliedUnique ==
    ASSUME NEW S \in SUBSET Entry, NEW d \in Device, NEW b \in Batch,
           UniqueRows(S), UniqueIds(b)
    PROVE  UniqueRows(Applied(S, d, b))
<1> DEFINE T == Applied(S, d, b)
<1>0. DOMAIN b \subseteq Int
  BY BatchAssumption
<1>1. ASSUME NEW e \in T, NEW f \in T, e.op.dom = f.op.dom, e.op.id = f.op.id
      PROVE  e = f
  <2>1. CASE e \in S /\ f \in S
    BY <1>1, <2>1 DEF UniqueRows
  <2>2. CASE e \in S /\ f \notin S
    <3>1. PICK i \in DOMAIN b : f = Row(d, b[i]) /\ ~Stored(S, b[i])
      BY <2>2, InsertedRow
    <3>2. QED
      BY <1>1, <2>2, <3>1 DEF Stored, Row
  <2>3. CASE e \notin S /\ f \in S
    <3>1. PICK i \in DOMAIN b : e = Row(d, b[i]) /\ ~Stored(S, b[i])
      BY <2>3, InsertedRow
    <3>2. QED
      BY <1>1, <2>3, <3>1 DEF Stored, Row
  <2>4. CASE e \notin S /\ f \notin S
    <3>1. PICK i \in DOMAIN b : e = Row(d, b[i])
      BY <2>4, InsertedRow
    <3>2. PICK j \in DOMAIN b : f = Row(d, b[j])
      BY <2>4, InsertedRow
    <3>3. b[i].dom = b[j].dom /\ b[i].id = b[j].id
      BY <1>1, <3>1, <3>2 DEF Row
    <3>4. QED
      BY <3>1, <3>2, <3>3 DEF UniqueIds
  <2>5. QED
    BY <2>1, <2>2, <2>3, <2>4
<1>2. ASSUME NEW e \in T, NEW f \in T, e.op.dom = "timer", f.op.dom = "timer",
             e.device = f.device, e.op.seq = f.op.seq
      PROVE  e = f
  <2>1. CASE e \in S /\ f \in S
    BY <1>2, <2>1 DEF UniqueRows
  <2>2. CASE e \in S /\ f \notin S
    <3>1. PICK i \in DOMAIN b : f = Row(d, b[i]) /\ ~SequenceUsed(S, d, b[i])
      BY <2>2, InsertedRow
    <3>2. QED
      BY <1>2, <2>2, <3>1 DEF SequenceUsed, Commands, Row
  <2>3. CASE e \notin S /\ f \in S
    <3>1. PICK i \in DOMAIN b : e = Row(d, b[i]) /\ ~SequenceUsed(S, d, b[i])
      BY <2>3, InsertedRow
    <3>2. QED
      BY <1>2, <2>3, <3>1 DEF SequenceUsed, Commands, Row
  <2>4. CASE e \notin S /\ f \notin S
    <3>1. PICK i \in DOMAIN b : /\ e = Row(d, b[i])
                                /\ ~Stored(S, b[i]) /\ ~SequenceUsed(S, d, b[i])
                                /\ ~SequenceClaimed(S, d, b, i)
      BY <2>4, InsertedRow
    <3>2. PICK j \in DOMAIN b : /\ f = Row(d, b[j])
                                /\ ~Stored(S, b[j]) /\ ~SequenceUsed(S, d, b[j])
                                /\ ~SequenceClaimed(S, d, b, j)
      BY <2>4, InsertedRow
    <3>3. b[i].dom = "timer" /\ b[j].dom = "timer" /\ b[i].seq = b[j].seq
      BY <1>2, <3>1, <3>2 DEF Row
    <3>4. i \in Int /\ j \in Int /\ i >= 1 /\ j >= 1
      BY BatchAssumption
    <3>5. ~(j < i) /\ ~(i < j)
      BY <3>1, <3>2, <3>3, <3>4 DEF SequenceClaimed
    <3>6. QED
      BY <3>1, <3>2, <3>4, <3>5
  <2>5. QED
    BY <2>1, <2>2, <2>3, <2>4
<1>3. QED
  BY <1>1, <1>2 DEF UniqueRows

(* What a batch is told about its i-th operation is what the tables hold. *)
LEMMA VerdictTruthful ==
    ASSUME NEW S, NEW d, NEW b, UniqueIds(b), NEW i \in DOMAIN b
    PROVE  (Verdict(S, d, b, i) \in {"inserted", "duplicate"})
               <=> Row(d, b[i]) \in Applied(S, d, b)
<1>1. ASSUME Verdict(S, d, b, i) = "inserted" PROVE Row(d, b[i]) \in Applied(S, d, b)
  BY <1>1 DEF Applied
<1>2. ASSUME Verdict(S, d, b, i) = "duplicate" PROVE Row(d, b[i]) \in Applied(S, d, b)
  BY <1>2 DEF Applied, Verdict, Same
<1>3. ASSUME Row(d, b[i]) \in S PROVE Verdict(S, d, b, i) = "duplicate"
  BY <1>3 DEF Verdict, Same, Stored, Row
<1>4. ASSUME Row(d, b[i]) \in Applied(S, d, b), Row(d, b[i]) \notin S
      PROVE  Verdict(S, d, b, i) = "inserted"
  <2>1. PICK k \in DOMAIN b : Row(d, b[i]) = Row(d, b[k]) /\ Verdict(S, d, b, k) = "inserted"
    BY <1>4 DEF Applied
  <2>2. b[i] = b[k]
    BY <2>1 DEF Row
  <2>3. i = k
    BY <2>2 DEF UniqueIds
  <2>4. QED
    BY <2>1, <2>3
<1>5. QED
  BY <1>1, <1>2, <1>3, <1>4

-----------------------------------------------------------------------------
(* Type correctness *)

(* A call stays well typed while the revision and the clock advance. *)
LEMMA CallTypeGrows ==
    ASSUME NEW c, NEW r \in Int, NEW n \in Int, NEW r2 \in Int, NEW n2 \in Int,
           r <= r2, n <= n2, CallType(c, r, n)
    PROVE  CallType(c, r2, n2)
BY DEF CallType, RequestType

(* A step that leaves the store and the clock alone. *)
LEMMA QuietType ==
    ASSUME TypeOK, UNCHANGED <<store, now>>, NEW s \in Slot, NEW c,
           CallType(c, revision, now), call' = [call EXCEPT ![s] = c]
    PROVE  TypeOK'
BY DEF TypeOK, store, ResponseType

LEMMA RefusedType == ResponseType(Refused)
BY RevisionAssumption DEF ResponseType, Refused, Response, Revision

LEMMA FailType ==
    ASSUME TypeOK, NEW s \in Slot, NEW status, call[s].state = "waiting", Fail(s, status)
    PROVE  TypeOK'
<1> DEFINE c == [state |-> "done", request |-> call[s].request,
                 status |-> status, result |-> Refused]
<1>1. call' = [call EXCEPT ![s] = c] /\ UNCHANGED <<store, now>>
  BY DEF Fail, Reply, TypeOK
<1>2. RequestType(call[s].request, revision)
  BY DEF TypeOK, CallType, Idle
<1>3. CallType(c, revision, now)
  BY <1>2, RefusedType DEF CallType
<1>4. QED
  BY <1>1, <1>3, QuietType

(* Commit keeps the types when the rest of the transaction does. *)
LEMMA CommitType ==
    ASSUME TypeOK, NEW s \in Slot, call[s].state = "waiting",
           NEW S \in SUBSET Entry, NEW p, NEW changed \in BOOLEAN, NEW v,
           changed => revision # MaxSafeRevision,
           Commit(s, S, p, changed, v),
           devices' \subseteq Device,
           DOMAIN resolutions' \subseteq RequestId,
           \A id \in DOMAIN resolutions' : ResponseType(resolutions'[id].response)
    PROVE  TypeOK'
<1> DEFINE r == IF changed THEN revision + 1 ELSE revision
           c == [state |-> "done", request |-> call[s].request, status |-> "ok",
                 result |-> Response(r, S, p, v)]
<1>1. revision \in Nat /\ revision <= MaxSafeRevision /\ r \in Revision /\ revision <= r
  BY RevisionAssumption DEF TypeOK, Revision
<1>2. /\ ops' = S /\ revision' = r /\ now' = now
      /\ call' = [call EXCEPT ![s] = c]
      /\ snapshots' = [k \in DOMAIN snapshots \cup {r} |->
                         IF k \in DOMAIN snapshots THEN snapshots[k]
                         ELSE [ops |-> S, proj |-> p]]
  BY DEF Commit, Persist, Reply
<1>3. DOMAIN snapshots' = 0 .. revision'
  BY <1>1, <1>2 DEF TypeOK
<1>4. \A k \in DOMAIN snapshots' : snapshots'[k].ops \subseteq Entry
  BY <1>2 DEF TypeOK
<1>5. now \in Int
  BY RevisionAssumption DEF TypeOK, Time
<1>6. ASSUME NEW t \in Slot PROVE CallType(call'[t], revision', now')
  <2>1. CASE t # s
    <3>1. CallType(call[t], revision, now)
      BY DEF TypeOK
    <3>2. CallType(call[t], r, now)
      BY <1>1, <1>5, <3>1, CallTypeGrows DEF Revision
    <3>3. QED
      BY <1>2, <2>1, <3>2 DEF TypeOK
  <2>2. CASE t = s
    <3>1. CallType(call[s], revision, now) /\ call[s] # Idle
      BY DEF TypeOK, Idle
    <3>2. RequestType(call[s].request, revision)
      BY <3>1 DEF CallType
    <3>3. RequestType(call[s].request, r)
      BY <1>1, <3>2 DEF RequestType, Revision
    <3>4. ResponseType(Response(r, S, p, v))
      BY <1>1 DEF ResponseType, Response
    <3>5. CallType(c, r, now)
      BY <3>3, <3>4 DEF CallType
    <3>6. QED
      BY <1>2, <2>2, <3>5 DEF TypeOK
  <2>3. QED
    BY <2>1, <2>2
<1>7. DOMAIN call' = Slot
  BY <1>2 DEF TypeOK
<1>8. QED
  BY <1>1, <1>2, <1>3, <1>4, <1>6, <1>7 DEF TypeOK

(* What the guards say of a waiting sync or resolve call. *)
LEMMA WaitingRequest ==
    ASSUME TypeOK, NEW s \in Slot, call[s].state = "waiting"
    PROVE  /\ call[s].at \in 0 .. now
           /\ call[s].request.kind = "sync" => call[s].request.payload \in Submission
           /\ call[s].request.kind = "resolve" =>
                /\ call[s].request.payload \in Proposal
                /\ call[s].request.id \in RequestId
                /\ call[s].request.expected \in 0 .. revision
BY DEF TypeOK, CallType, RequestType, Idle

(* The log a resolution leaves behind. *)
Resolved(q) == IF q.strategy = "keep_remote" THEN ops ELSE Applied(Base(q), q.device, q.batch)

LEMMA ResolvedType ==
    ASSUME TypeOK, NEW q \in Proposal
    PROVE  Resolved(q) \in SUBSET Entry /\ Base(q) \in SUBSET Entry
<1>1. q.device \in Device /\ q.batch \in Batch
  BY ProposalAssumption
<1>2. Base(q) \in SUBSET Entry
  BY DEF TypeOK, Base, Cleared
<1>3. QED
  BY <1>1, <1>2, AppliedType DEF Resolved, TypeOK

LEMMA InitType == Init => TypeOK
<1> SUFFICES ASSUME Init PROVE TypeOK
  OBVIOUS
<1>1. revision \in Revision /\ now \in Time
  BY RevisionAssumption DEF Init, Revision, Time
<1>2. \A s \in Slot : CallType(call[s], revision, now)
  BY DEF Init, CallType
<1>3. DOMAIN snapshots = 0 .. revision /\ \A r \in DOMAIN snapshots : snapshots[r].ops \subseteq Entry
  BY DEF Init
<1>4. QED
  BY <1>1, <1>2, <1>3 DEF Init, TypeOK

LEMMA SyncType == ASSUME TypeOK, NEW s \in Slot, Sync(s) PROVE TypeOK'
<1> DEFINE q == call[s].request.payload
           S == Applied(ops, q.device, q.batch)
           p == Reduce(Commands(S), call[s].at)
           changed == S # ops \/ p # proj
<1>1. call[s].state = "waiting" /\ q \in Submission
  BY WaitingRequest DEF Sync, Waiting
<1>2. q.device \in Device /\ S \in SUBSET Entry
  BY <1>1, SubmissionAssumption, AppliedType DEF TypeOK
<1>3. CASE changed /\ revision = MaxSafeRevision
  <2>1. Fail(s, "exhausted")
    BY <1>3 DEF Sync, Exhausted, Changed
  <2>2. QED
    BY <1>1, <2>1, FailType
<1>4. CASE ~(changed /\ revision = MaxSafeRevision)
  <2>1. /\ devices' = devices \cup {q.device}
        /\ Commit(s, S, p, changed, Verdicts(ops, q.device, q.batch))
        /\ UNCHANGED resolutions
    BY <1>4 DEF Sync, Exhausted, Changed
  <2>2. /\ devices' \subseteq Device /\ DOMAIN resolutions' \subseteq RequestId
        /\ \A id \in DOMAIN resolutions' : ResponseType(resolutions'[id].response)
    BY <1>2, <2>1 DEF TypeOK
  <2>3. QED
    BY <1>1, <1>2, <1>4, <2>1, <2>2, CommitType
<1>5. QED
  BY <1>3, <1>4

LEMMA MaterializeType == ASSUME TypeOK, NEW s \in Slot, Materialize(s) PROVE TypeOK'
<1> DEFINE p == Reduce(Commands(ops), call[s].at)
           changed == ops # ops \/ p # proj
<1>1. call[s].state = "waiting"
  BY DEF Materialize, Waiting
<1>2. CASE changed /\ revision = MaxSafeRevision
  <2>1. Fail(s, "exhausted")
    BY <1>2 DEF Materialize, Exhausted, Changed
  <2>2. QED
    BY <1>1, <2>1, FailType
<1>3. CASE ~(changed /\ revision = MaxSafeRevision)
  <2>1. Commit(s, ops, p, changed, <<>>) /\ UNCHANGED <<devices, resolutions>>
    BY <1>3 DEF Materialize, Exhausted, Changed
  <2>2. /\ devices' \subseteq Device /\ DOMAIN resolutions' \subseteq RequestId
        /\ \A id \in DOMAIN resolutions' : ResponseType(resolutions'[id].response)
        /\ ops \in SUBSET Entry
    BY <2>1 DEF TypeOK
  <2>3. QED
    BY <1>1, <1>3, <2>1, <2>2, CommitType
<1>4. QED
  BY <1>2, <1>3

(* A resolution that was not answered before: it is refused at the revision
   limit, or commits and records its response. *)
LEMMA ResolveCases ==
    ASSUME NEW s \in Slot, Resolve(s)
    PROVE  LET q == call[s].request.payload
               S == Resolved(q)
               p == Reduce(Commands(S), call[s].at)
               changed == S # ops \/ p # BaseProjection(q)
               v == Verdicts(Base(q), q.device, q.batch)
           IN /\ call[s].state = "waiting" /\ call[s].request.kind = "resolve"
              /\ UniqueIds(q.batch) /\ WellFormed(q)
              /\ call[s].request.id \notin DOMAIN resolutions
              /\ RevisionCurrent(call[s].request.expected)
              /\ \/ changed /\ revision = MaxSafeRevision /\ Fail(s, "exhausted")
                 \/ /\ changed => revision # MaxSafeRevision
                    /\ Commit(s, S, p, changed, v)
                    /\ Record(call[s].request, Response(revision', S, p, v))
                    /\ UNCHANGED devices
BY DEF Resolve, ResolveValid, Waiting, Resolved, Exhausted, Changed

LEMMA ResolveType == ASSUME TypeOK, NEW s \in Slot, Resolve(s) PROVE TypeOK'
<1> DEFINE q == call[s].request.payload
           S == Resolved(q)
           p == Reduce(Commands(S), call[s].at)
           changed == S # ops \/ p # BaseProjection(q)
           v == Verdicts(Base(q), q.device, q.batch)
<1>1. call[s].state = "waiting" /\ q \in Proposal /\ call[s].request.id \in RequestId
  BY ResolveCases, WaitingRequest
<1>2. S \in SUBSET Entry
  BY <1>1, ResolvedType
<1>3. CASE Fail(s, "exhausted")
  BY <1>1, <1>3, FailType
<1>4. CASE /\ changed => revision # MaxSafeRevision
           /\ Commit(s, S, p, changed, v)
           /\ Record(call[s].request, Response(revision', S, p, v))
           /\ UNCHANGED devices
  <2>1. revision' \in Revision
    BY <1>4, RevisionAssumption DEF Commit, Persist, TypeOK, Revision
  <2>2. ResponseType(Response(revision', S, p, v))
    BY <1>2, <2>1 DEF ResponseType, Response
  <2>3. /\ DOMAIN resolutions' \subseteq RequestId
        /\ \A id \in DOMAIN resolutions' : ResponseType(resolutions'[id].response)
    BY <1>1, <1>4, <2>2 DEF Record, TypeOK
  <2>4. devices' \subseteq Device
    BY <1>4 DEF TypeOK
  <2>5. QED
    BY <1>1, <1>2, <1>4, <2>3, <2>4, CommitType
<1>5. QED
  BY <1>3, <1>4, ResolveCases

(* Every step preserves the types. *)
LEMMA NextType == TypeOK /\ [Next]_vars => TypeOK'
<1> SUFFICES ASSUME TypeOK, [Next]_vars PROVE TypeOK'
  OBVIOUS
<1>1. CASE UNCHANGED vars
  BY <1>1 DEF vars, store, TypeOK, ResponseType
<1>2. CASE Tick
  <2>1. now \in Int /\ now' \in Time /\ now <= now' /\ revision \in Int
    BY <1>2, RevisionAssumption DEF Tick, TypeOK, Time, Revision
  <2>2. UNCHANGED <<store, call>> /\ now' \in Int
    BY <1>2, <2>1 DEF Tick, Time
  <2>3. \A s \in Slot : CallType(call[s], revision, now')
    BY <2>1, <2>2, CallTypeGrows DEF TypeOK
  <2>4. QED
    BY <2>1, <2>2, <2>3 DEF TypeOK, store, ResponseType
<1>3. ASSUME NEW s \in Slot, Step(s) PROVE TypeOK'
  <2>1. ASSUME NEW q, Receive(s, q), RequestType(q, revision) PROVE TypeOK'
    <3> DEFINE c == [state |-> "waiting", request |-> q, at |-> now]
    <3>1. call' = [call EXCEPT ![s] = c] /\ UNCHANGED <<store, now>>
      BY <2>1 DEF Receive
    <3>2. now \in 0 .. now
      BY RevisionAssumption DEF TypeOK, Time
    <3>3. CallType(c, revision, now)
      BY <2>1, <3>2 DEF CallType
    <3>4. QED
      BY <3>1, <3>3, QuietType
  <2>2. CASE \E q \in Submission : ReceiveSync(s, q)
    BY <2>1, <2>2 DEF ReceiveSync, RequestType
  <2>3. CASE ReceiveRead(s)
    BY <2>1, <2>3 DEF ReceiveRead, RequestType
  <2>4. CASE \E id \in RequestId, q \in Proposal, r \in 0 .. revision : ReceiveResolve(s, id, q, r)
    BY <2>1, <2>4 DEF ReceiveResolve, RequestType
  <2>5. CASE SyncInvalid(s) \/ ResolveInvalid(s) \/ ResolveRevisionConflict(s)
    BY <2>5, FailType
       DEF SyncInvalid, ResolveInvalid, ResolveRevisionConflict, ResolveValid, Waiting
  <2>6. CASE ResolveReplay(s)
    <3> DEFINE q == call[s].request
               c == [state |-> "done", request |-> q, status |-> "ok",
                     result |-> resolutions[q.id].response]
    <3>1. call[s].state = "waiting" /\ q.id \in DOMAIN resolutions
      BY <2>6 DEF ResolveReplay, ResolveValid, Waiting
    <3>2. CASE Fail(s, "id_conflict")
      BY <3>1, <3>2, FailType
    <3>3. CASE Reply(s, "ok", resolutions[q.id].response) /\ UNCHANGED <<store, now>>
      <4>1. call' = [call EXCEPT ![s] = c]
        BY <3>3 DEF Reply
      <4>2. RequestType(q, revision)
        BY <3>1 DEF TypeOK, CallType, Idle
      <4>3. CallType(c, revision, now)
        BY <3>1, <4>2 DEF TypeOK, CallType
      <4>4. QED
        BY <3>3, <4>1, <4>3, QuietType
    <3>4. QED
      BY <2>6, <3>2, <3>3 DEF ResolveReplay
  <2>7. CASE Abort(s) \/ Finish(s)
    <3>1. CallType(Idle, revision, now)
      BY DEF CallType
    <3>2. QED
      BY <2>7, <3>1, QuietType DEF Abort, Finish
  <2>8. QED
    BY <1>3, <2>2, <2>3, <2>4, <2>5, <2>6, <2>7, SyncType, MaterializeType, ResolveType DEF Step
<1>4. QED
  BY <1>1, <1>2, <1>3 DEF Next

(* Type correctness: the tables hold rows, every revision a client can see is a
   safe integer, and calls carry times already shown. *)
THEOREM TypeCorrect == Spec => []TypeOK
BY InitType, NextType, PTL DEF Spec

-----------------------------------------------------------------------------
(* The shape of a step: quiet, or one committed transaction *)

\* The answer c is the stored answer of the request c.
Replays(c) ==
    /\ c.request.kind = "resolve" /\ c.request.id \in DOMAIN resolutions
    /\ resolutions[c.request.id].payload = c.request.payload
    /\ resolutions[c.request.id].expected = c.request.expected
    /\ resolutions[c.request.id].response = c.result

\* Nothing is stored; an answer that appears is a replay.
Quiet ==
    /\ UNCHANGED store /\ now \in Nat /\ now' \in Nat /\ now <= now'
    /\ \A t \in Slot : Answered(call'[t]) => call'[t] = call[t] \/ Replays(call'[t])

\* Call s stores the log S and the projection p; bare is the projection it
\* compares with, q the request's device and batch.
Stores(s, q, S, p, bare, v) ==
    LET changed == S # ops \/ p # bare
        r == IF changed THEN revision + 1 ELSE revision
    IN /\ changed => revision # MaxSafeRevision
       /\ ops' = S /\ proj' = p /\ revision' = r /\ now' = now
       /\ snapshots' = [k \in DOMAIN snapshots \cup {r} |->
                          IF k \in DOMAIN snapshots THEN snapshots[k]
                          ELSE [ops |-> S, proj |-> p]]
       /\ call' = [call EXCEPT ![s] = [state |-> "done", request |-> call[s].request,
                                       status |-> "ok", result |-> Response(r, S, p, v)]]
       /\ S \in SUBSET Entry /\ UniqueRows(S)
       /\ \E t \in 0 .. now : p = Reduce(Commands(S), t)
       /\ q = call[s].request.payload
       /\ call[s].request.kind # "read" => Truthful(q, Response(r, S, p, v))

SyncStores(s) ==
    \E q, S, p, v : /\ Stores(s, q, S, p, proj, v) /\ UNCHANGED resolutions
                    /\ call[s].state = "waiting" /\ call[s].request.kind # "resolve"
                    /\ ops \subseteq S

ResolveStores(s) ==
    \E q, S, p, v : /\ Stores(s, q, S, p, BaseProjection(q), v)
                    /\ call[s].state = "waiting" /\ call[s].request.kind = "resolve"
                    /\ call[s].request.expected = revision
                    /\ call[s].request.id \notin DOMAIN resolutions
                    /\ q.strategy # "replace_remote" => ops \subseteq S
                    /\ Record(call[s].request, Response(revision', S, p, v))

(* A cleared log keeps its rows unique. *)
LEMMA BaseUnique ==
    ASSUME NEW q, IdentitiesUnique PROVE UniqueRows(Base(q))
BY DEF IdentitiesUnique, UniqueRows, Base, Cleared

LEMMA SyncShape ==
    ASSUME TypeOK, IdentitiesUnique, NEW s \in Slot, Sync(s), ~Fail(s, "exhausted")
    PROVE  SyncStores(s)
<1> DEFINE q == call[s].request.payload
           S == Applied(ops, q.device, q.batch)
           p == Reduce(Commands(S), call[s].at)
           v == Verdicts(ops, q.device, q.batch)
           changed == S # ops \/ p # proj
           r == IF changed THEN revision + 1 ELSE revision
<1>1. /\ call[s].state = "waiting" /\ call[s].request.kind = "sync" /\ UniqueIds(q.batch)
      /\ q \in Submission /\ call[s].at \in 0 .. now
  BY WaitingRequest DEF Sync, Waiting
<1>2. q.device \in Device /\ q.batch \in Batch
  BY <1>1, SubmissionAssumption
<1>3. ops \in SUBSET Entry
  BY DEF TypeOK
<1>4. S \in SUBSET Entry /\ ops \subseteq S
  BY <1>2, <1>3, AppliedType
<1>5. UniqueRows(S)
  BY <1>1, <1>2, <1>3, AppliedUnique DEF IdentitiesUnique
<1>6. /\ changed => revision # MaxSafeRevision
      /\ Commit(s, S, p, changed, v)
      /\ UNCHANGED resolutions
  BY DEF Sync, Exhausted, Changed
<1>7. Truthful(q, Response(r, S, p, v))
  BY <1>1, VerdictTruthful DEF Truthful, Response, Verdicts
<1>8. Stores(s, q, S, p, proj, v)
  BY <1>1, <1>4, <1>5, <1>6, <1>7 DEF Stores, Commit, Persist, Reply
<1>9. QED
  BY <1>1, <1>4, <1>6, <1>8 DEF SyncStores

LEMMA MaterializeShape ==
    ASSUME TypeOK, IdentitiesUnique, NEW s \in Slot, Materialize(s), ~Fail(s, "exhausted")
    PROVE  SyncStores(s)
<1> DEFINE p == Reduce(Commands(ops), call[s].at)
           changed == ops # ops \/ p # proj
<1>1. call[s].state = "waiting" /\ call[s].request.kind = "read" /\ call[s].at \in 0 .. now
  BY WaitingRequest DEF Materialize, Waiting
<1>2. /\ changed => revision # MaxSafeRevision
      /\ Commit(s, ops, p, changed, <<>>)
      /\ UNCHANGED resolutions
  BY DEF Materialize, Exhausted, Changed
<1>3. ops \in SUBSET Entry /\ UniqueRows(ops)
  BY DEF TypeOK, IdentitiesUnique
<1>4. Stores(s, call[s].request.payload, ops, p, proj, <<>>)
  BY <1>1, <1>2, <1>3 DEF Stores, Commit, Persist, Reply
<1>5. QED
  BY <1>1, <1>2, <1>4 DEF SyncStores

LEMMA ResolveShape ==
    ASSUME TypeOK, IdentitiesUnique, NEW s \in Slot, Resolve(s), ~Fail(s, "exhausted")
    PROVE  ResolveStores(s)
<1> DEFINE q == call[s].request.payload
           S == Resolved(q)
           p == Reduce(Commands(S), call[s].at)
           v == Verdicts(Base(q), q.device, q.batch)
           changed == S # ops \/ p # BaseProjection(q)
           r == IF changed THEN revision + 1 ELSE revision
<1>1. /\ call[s].state = "waiting" /\ call[s].request.kind = "resolve" /\ UniqueIds(q.batch)
      /\ WellFormed(q) /\ call[s].request.id \notin DOMAIN resolutions
      /\ call[s].request.expected = revision
      /\ changed => revision # MaxSafeRevision
      /\ Commit(s, S, p, changed, v)
      /\ Record(call[s].request, Response(revision', S, p, v))
  BY ResolveCases DEF RevisionCurrent
<1>2. q \in Proposal /\ call[s].at \in 0 .. now
  BY <1>1, WaitingRequest
<1>3. q.device \in Device /\ q.batch \in Batch
  BY <1>2, ProposalAssumption
<1>4. S \in SUBSET Entry /\ Base(q) \in SUBSET Entry
  BY <1>2, ResolvedType
<1>5. UniqueRows(S)
  BY <1>1, <1>3, <1>4, AppliedUnique, BaseUnique DEF Resolved, IdentitiesUnique
<1>6. Truthful(q, Response(r, S, p, v))
  <2>1. CASE q.strategy = "keep_remote"
    <3>1. q.batch = <<>>
      BY <1>1, <2>1 DEF WellFormed
    <3>2. DOMAIN v = {}
      BY <3>1 DEF Verdicts
    <3>3. QED
      BY <3>2 DEF Truthful, Response
  <2>2. CASE q.strategy # "keep_remote"
    BY <1>1, <2>2, VerdictTruthful DEF Truthful, Response, Verdicts, Resolved
  <2>3. QED
    BY <2>1, <2>2
<1>7. Stores(s, q, S, p, BaseProjection(q), v)
  BY <1>1, <1>2, <1>4, <1>5, <1>6 DEF Stores, Commit, Persist, Reply
<1>8. q.strategy # "replace_remote" => ops \subseteq S
  BY <1>3, <1>4, AppliedType DEF Resolved, Base
<1>9. QED
  BY <1>1, <1>7, <1>8 DEF ResolveStores

LEMMA StepShape ==
    ASSUME TypeOK, IdentitiesUnique, [Next]_vars
    PROVE  Quiet \/ \E s \in Slot : SyncStores(s) \/ ResolveStores(s)
<1>0. now \in Nat
  BY RevisionAssumption DEF TypeOK, Time
<1>1. CASE UNCHANGED vars
  BY <1>0, <1>1 DEF vars, Quiet
<1>2. CASE Tick
  BY <1>0, <1>2 DEF Tick, Quiet
<1>3. ASSUME NEW s \in Slot, NEW status, Fail(s, status), status # "ok" PROVE Quiet
  BY <1>0, <1>3 DEF Fail, Reply, Quiet, Answered, TypeOK
<1>4. ASSUME NEW s \in Slot, Step(s) PROVE Quiet \/ SyncStores(s) \/ ResolveStores(s)
  <2>1. CASE \/ \E q \in Submission : ReceiveSync(s, q)
             \/ ReceiveRead(s)
             \/ \E id \in RequestId, q \in Proposal, r \in 0 .. revision :
                   ReceiveResolve(s, id, q, r)
    BY <1>0, <2>1 DEF ReceiveSync, ReceiveRead, ReceiveResolve, Receive, Quiet, Answered, TypeOK
  <2>2. CASE SyncInvalid(s) \/ ResolveInvalid(s) \/ ResolveRevisionConflict(s)
    BY <1>3, <2>2 DEF SyncInvalid, ResolveInvalid, ResolveRevisionConflict
  <2>3. CASE ResolveReplay(s)
    <3> DEFINE q == call[s].request
    <3>1. CASE Fail(s, "id_conflict")
      BY <1>3, <3>1
    <3>2. CASE /\ resolutions[q.id].payload = q.payload /\ resolutions[q.id].expected = q.expected
               /\ Reply(s, "ok", resolutions[q.id].response) /\ UNCHANGED <<store, now>>
      <4>1. q.kind = "resolve" /\ q.id \in DOMAIN resolutions
        BY <2>3 DEF ResolveReplay, ResolveValid, Waiting
      <4>2. Replays(call'[s])
        BY <3>2, <4>1 DEF Reply, Replays, TypeOK
      <4>3. QED
        BY <1>0, <3>2, <4>2 DEF Reply, Quiet, TypeOK
    <3>3. QED
      BY <2>3, <3>1, <3>2 DEF ResolveReplay
  <2>4. CASE Abort(s) \/ Finish(s)
    BY <1>0, <2>4 DEF Abort, Finish, Quiet, Answered, Idle, TypeOK
  <2>5. CASE Sync(s) \/ Materialize(s) \/ Resolve(s)
    BY <1>3, <2>5, SyncShape, MaterializeShape, ResolveShape
  <2>6. QED
    BY <1>4, <2>1, <2>2, <2>3, <2>4, <2>5 DEF Step
<1>5. QED
  BY <1>1, <1>2, <1>4 DEF Next

-----------------------------------------------------------------------------
(* The inductive invariant *)

Inv ==
    /\ TypeOK /\ IdentitiesUnique /\ RevisionNamesSnapshot /\ AcknowledgementsTruthful
    /\ ResolutionReplayed /\ ProjectionOfLog

LEMMA InitInv == Init => Inv
<1> SUFFICES ASSUME Init PROVE Inv
  OBVIOUS
<1>1. TypeOK
  BY InitType
<1>2. IdentitiesUnique
  BY DEF Init, IdentitiesUnique, UniqueRows
<1>3. \A s \in Slot : ~Answered(call[s])
  BY DEF Init, Answered, Idle
<1>4. DOMAIN resolutions = {}
  BY DEF Init
<1>5. RevisionNamesSnapshot /\ AcknowledgementsTruthful /\ ResolutionReplayed
  BY <1>3, <1>4 DEF Init, RevisionNamesSnapshot, AcknowledgementsTruthful, ResolutionReplayed
<1>6. ProjectionOfLog
  <2>1. ops \in SUBSET Entry /\ Commands(ops) = {} /\ 0 \in Time /\ 0 \in 0 .. now
    BY RevisionAssumption DEF Init, Commands, Time
  <2>2. proj = Reduce(Commands(ops), 0)
    BY <2>1, ReduceAssumption DEF Init
  <2>3. QED
    BY <2>1, <2>2 DEF ProjectionOfLog
<1>7. QED
  BY <1>1, <1>2, <1>5, <1>6 DEF Inv

(* Nothing but replays and refusals: the store is as it was. *)
LEMMA QuietInv == ASSUME Inv, Quiet, TypeOK' PROVE Inv'
<1> USE DEF Inv
<1>1. UNCHANGED <<ops, proj, revision, resolutions, snapshots>>
  BY DEF Quiet, store
<1>2. IdentitiesUnique'
  BY <1>1 DEF IdentitiesUnique, UniqueRows
<1>3. ASSUME NEW t \in Slot, Answered(call'[t])
      PROVE  call'[t] = call[t] \/ Replays(call'[t])
  BY <1>3 DEF Quiet
<1>4. RevisionNamesSnapshot'
  <2>1. ASSUME NEW t \in Slot, Answered(call'[t]) PROVE Shows(snapshots, call'[t].result)
    <3>1. CASE call'[t] = call[t]
      BY <2>1, <3>1 DEF RevisionNamesSnapshot
    <3>2. CASE Replays(call'[t])
      BY <3>2 DEF RevisionNamesSnapshot, Replays
    <3>3. QED
      BY <1>3, <2>1, <3>1, <3>2
  <2>2. QED
    BY <1>1, <2>1 DEF RevisionNamesSnapshot
<1>5. AcknowledgementsTruthful'
  <2>1. ASSUME NEW t \in Slot, Answered(call'[t]), call'[t].request.kind # "read"
        PROVE  Truthful(call'[t].request.payload, call'[t].result)
    <3>1. CASE call'[t] = call[t]
      BY <2>1, <3>1 DEF AcknowledgementsTruthful
    <3>2. CASE Replays(call'[t])
      BY <3>2 DEF AcknowledgementsTruthful, Replays
    <3>3. QED
      BY <1>3, <2>1, <3>1, <3>2
  <2>2. QED
    BY <1>1, <2>1 DEF AcknowledgementsTruthful
<1>6. ResolutionReplayed'
  BY <1>1, <1>3 DEF ResolutionReplayed, Replays
<1>7. ProjectionOfLog'
  BY <1>1 DEF ProjectionOfLog, Quiet
<1>8. QED
  BY <1>2, <1>4, <1>5, <1>6, <1>7

(* A revision the store has already shown keeps its snapshot, and the current
   revision's snapshot is what the tables hold: whether the transaction
   advances the revision or finds nothing changed. *)
LEMMA StoresSnapshots ==
    ASSUME Inv, NEW s \in Slot, NEW q, NEW S, NEW p, NEW bare, NEW v,
           Stores(s, q, S, p, bare, v),
           S = ops /\ p = bare => p = proj
    PROVE  /\ \A k \in 0 .. revision : k \in DOMAIN snapshots' /\ snapshots'[k] = snapshots[k]
           /\ revision' \in DOMAIN snapshots'
           /\ snapshots'[revision'] = [ops |-> S, proj |-> p]
<1>1. DOMAIN snapshots = 0 .. revision /\ revision \in Nat
  BY RevisionAssumption DEF Inv, TypeOK, Revision
<1>2. snapshots[revision] = [ops |-> ops, proj |-> proj]
  BY DEF Inv, RevisionNamesSnapshot
<1>3. CASE S # ops \/ p # bare
  BY <1>1, <1>3 DEF Stores
<1>4. CASE S = ops /\ p = bare
  BY <1>1, <1>2, <1>4 DEF Stores
<1>5. QED
  BY <1>3, <1>4

(* The invariant but for the resolutions table, which the two kinds of
   transaction treat differently. *)
LEMMA StoresInv ==
    ASSUME Inv, TypeOK', NEW s \in Slot, NEW q, NEW S, NEW p, NEW bare, NEW v,
           Stores(s, q, S, p, bare, v),
           S = ops /\ p = bare => p = proj
    PROVE  /\ IdentitiesUnique' /\ ProjectionOfLog'
           /\ snapshots'[revision'] = [ops |-> ops', proj |-> proj']
           /\ \A t \in Slot : Answered(call'[t]) => Shows(snapshots', call'[t].result)
           /\ \A id \in DOMAIN resolutions : Shows(snapshots', resolutions[id].response)
           /\ \A t \in Slot : Answered(call'[t]) /\ call'[t].request.kind # "read" =>
                Truthful(call'[t].request.payload, call'[t].result)
<1> DEFINE x == Response(revision', S, p, v)
<1>1. /\ ops' = S /\ proj' = p /\ now' = now /\ DOMAIN call = Slot
      /\ call' = [call EXCEPT ![s] = [state |-> "done", request |-> call[s].request,
                                      status |-> "ok", result |-> x]]
  BY DEF Stores, Inv, TypeOK
<1>2. IdentitiesUnique'
  BY <1>1 DEF IdentitiesUnique, Stores
<1>3. ProjectionOfLog'
  BY <1>1 DEF ProjectionOfLog, Stores
<1>4. DOMAIN snapshots = 0 .. revision
  BY DEF Inv, TypeOK
<1>5. ASSUME NEW y, Shows(snapshots, y) PROVE Shows(snapshots', y)
  BY <1>4, <1>5, StoresSnapshots DEF Shows
<1>6. Shows(snapshots', x)
  BY StoresSnapshots DEF Shows, Response
<1>7. ASSUME NEW t \in Slot, Answered(call'[t]) PROVE Shows(snapshots', call'[t].result)
  <2>1. CASE t = s
    BY <1>1, <1>6, <2>1
  <2>2. CASE t # s
    <3>1. call'[t] = call[t]
      BY <1>1, <2>2
    <3>2. Shows(snapshots, call[t].result)
      BY <1>7, <3>1 DEF Inv, RevisionNamesSnapshot
    <3>3. QED
      BY <1>5, <3>1, <3>2
  <2>3. QED
    BY <2>1, <2>2
<1>8. ASSUME NEW id \in DOMAIN resolutions PROVE Shows(snapshots', resolutions[id].response)
  BY <1>5 DEF Inv, RevisionNamesSnapshot
<1>9. ASSUME NEW t \in Slot, Answered(call'[t]), call'[t].request.kind # "read"
      PROVE  Truthful(call'[t].request.payload, call'[t].result)
  <2>1. CASE t = s
    <3>1. call'[t].request = call[s].request /\ call'[t].result = x
      BY <1>1, <2>1
    <3>2. Truthful(q, x) /\ q = call[s].request.payload
      BY <1>9, <3>1 DEF Stores
    <3>3. QED
      BY <3>1, <3>2
  <2>2. CASE t # s
    BY <1>1, <1>9, <2>2 DEF Inv, AcknowledgementsTruthful
  <2>3. QED
    BY <2>1, <2>2
<1>10. snapshots'[revision'] = [ops |-> ops', proj |-> proj']
  BY <1>1, StoresSnapshots
<1>11. QED
  BY <1>2, <1>3, <1>7, <1>8, <1>9, <1>10

LEMMA SyncInv == ASSUME Inv, TypeOK', NEW s \in Slot, SyncStores(s) PROVE Inv'
<1>1. PICK q, S, p, v : Stores(s, q, S, p, proj, v)
  BY DEF SyncStores
<1>2. /\ IdentitiesUnique' /\ ProjectionOfLog'
      /\ snapshots'[revision'] = [ops |-> ops', proj |-> proj']
      /\ \A t \in Slot : Answered(call'[t]) => Shows(snapshots', call'[t].result)
      /\ \A id \in DOMAIN resolutions : Shows(snapshots', resolutions[id].response)
      /\ \A t \in Slot : Answered(call'[t]) /\ call'[t].request.kind # "read" =>
           Truthful(call'[t].request.payload, call'[t].result)
  BY <1>1, StoresInv
<1>3. UNCHANGED resolutions /\ call[s].request.kind # "resolve"
  BY DEF SyncStores
<1>4. RevisionNamesSnapshot' /\ AcknowledgementsTruthful'
  BY <1>2, <1>3 DEF Inv, RevisionNamesSnapshot, AcknowledgementsTruthful
<1>5. ASSUME NEW t \in Slot, Answered(call'[t]), call'[t].request.kind = "resolve"
      PROVE  call'[t] = call[t]
  BY <1>1, <1>3, <1>5 DEF Stores, Inv, TypeOK
<1>6. ResolutionReplayed'
  BY <1>3, <1>5 DEF Inv, ResolutionReplayed
<1>7. QED
  BY <1>2, <1>4, <1>6 DEF Inv

(* A replacement that changes nothing found no sessions: the cleared projection
   it compares with is then the one the tables had. *)
LEMMA ReplacementUnchanged ==
    ASSUME Inv, NEW s \in Slot, NEW q, NEW S, NEW p, NEW v,
           Stores(s, q, S, p, BaseProjection(q), v), S = ops, p = BaseProjection(q)
    PROVE  p = proj
<1>1. CASE q.strategy # "replace_remote"
  BY <1>1 DEF BaseProjection
<1>2. CASE q.strategy = "replace_remote"
  <2>1. PICK t \in 0 .. now : p = Reduce(Commands(ops), t)
    BY DEF Stores
  <2>2. PICK u \in 0 .. now : proj = Reduce(Commands(ops), u)
    BY DEF Inv, ProjectionOfLog
  <2>3. t \in Time /\ u \in Time /\ ops \in SUBSET Entry
    BY RevisionAssumption DEF Inv, TypeOK, Time
  <2>4. Reduce(Commands(ops), t) = NoProjection
    BY <1>2, <2>1 DEF BaseProjection
  <2>5. Reduce(Commands(ops), u) = NoProjection
    BY <2>3, <2>4, ReduceAssumption
  <2>6. QED
    BY <2>1, <2>2, <2>4, <2>5
<1>3. QED
  BY <1>1, <1>2

LEMMA ResolveInv == ASSUME Inv, TypeOK', NEW s \in Slot, ResolveStores(s) PROVE Inv'
<1>1. PICK q, S, p, v : /\ Stores(s, q, S, p, BaseProjection(q), v)
                        /\ Record(call[s].request, Response(revision', S, p, v))
  BY DEF ResolveStores
<1> DEFINE x == Response(revision', S, p, v)
           id == call[s].request.id
<1>2. /\ IdentitiesUnique' /\ ProjectionOfLog'
      /\ snapshots'[revision'] = [ops |-> ops', proj |-> proj']
      /\ \A t \in Slot : Answered(call'[t]) => Shows(snapshots', call'[t].result)
      /\ \A k \in DOMAIN resolutions : Shows(snapshots', resolutions[k].response)
      /\ \A t \in Slot : Answered(call'[t]) /\ call'[t].request.kind # "read" =>
           Truthful(call'[t].request.payload, call'[t].result)
  BY <1>1, StoresInv, ReplacementUnchanged
<1>3. /\ call[s].request.kind = "resolve" /\ id \notin DOMAIN resolutions
      /\ q = call[s].request.payload
  BY <1>1 DEF ResolveStores, Stores
<1>4. call' = [call EXCEPT ![s] = [state |-> "done", request |-> call[s].request,
                                   status |-> "ok", result |-> x]]
      /\ DOMAIN call = Slot
  BY <1>1 DEF Stores, Inv, TypeOK
<1>5. /\ call'[s].result = x /\ call'[s].request = call[s].request /\ Answered(call'[s])
      /\ \A t \in Slot : t # s => call'[t] = call[t]
  BY <1>4 DEF Answered
<1>6. /\ DOMAIN resolutions' = DOMAIN resolutions \cup {id}
      /\ resolutions'[id] = [payload |-> call[s].request.payload,
                             expected |-> call[s].request.expected, response |-> x]
      /\ \A k \in DOMAIN resolutions : resolutions'[k] = resolutions[k]
  BY <1>1, <1>3 DEF Record
<1>7. RevisionNamesSnapshot'
  BY <1>2, <1>5, <1>6 DEF RevisionNamesSnapshot
<1>8. Truthful(call[s].request.payload, x)
  BY <1>2, <1>3, <1>5
<1>9. AcknowledgementsTruthful'
  BY <1>2, <1>6, <1>8 DEF Inv, AcknowledgementsTruthful
<1>10. ResolutionReplayed'
  <2>1. ASSUME NEW t \in Slot, Answered(call'[t]), call'[t].request.kind = "resolve"
        PROVE  LET r == call'[t].request
               IN /\ r.id \in DOMAIN resolutions'
                  /\ resolutions'[r.id].payload = r.payload
                  /\ resolutions'[r.id].expected = r.expected
                  /\ resolutions'[r.id].response = call'[t].result
    <3>1. CASE t = s
      BY <1>5, <1>6, <3>1
    <3>2. CASE t # s
      BY <1>5, <1>6, <2>1, <3>2 DEF Inv, ResolutionReplayed
    <3>3. QED
      BY <3>1, <3>2
  <2>2. QED
    BY <2>1 DEF ResolutionReplayed
<1>11. QED
  BY <1>2, <1>7, <1>9, <1>10 DEF Inv

(* Every step preserves the invariant. *)
LEMMA NextInv == Inv /\ [Next]_vars => Inv'
<1> SUFFICES ASSUME Inv, [Next]_vars PROVE Inv'
  OBVIOUS
<1>1. TypeOK'
  BY NextType DEF Inv
<1>2. QED
  BY <1>1, StepShape, QuietInv, SyncInv, ResolveInv DEF Inv

LEMMA InvAlways == Spec => []Inv
BY InitInv, NextInv, PTL DEF Spec

-----------------------------------------------------------------------------
(* The theorems *)

(* applyOperations never lets two rows share an identifier or a device's
   sequence number, whatever is retried, merged or replaced concurrently. *)
THEOREM IdentitiesStayUnique == Spec => []IdentitiesUnique
BY InvAlways, PTL DEF Inv

(* persistReduction and persistBootstrapApplication advance the revision often
   enough: equal revisions always denote the same snapshot. *)
THEOREM RevisionsNameSnapshots == Spec => []RevisionNamesSnapshot
BY InvAlways, PTL DEF Inv

(* The acknowledgements of sync and bootstrap replies, first or replayed, are
   what the log of the reply's revision says. *)
THEOREM AcknowledgementsStayTruthful == Spec => []AcknowledgementsTruthful
BY InvAlways, PTL DEF Inv

(* A successful bootstrap resolution is answered by one stored response, for
   every retry and for concurrent calls with the same request id. *)
THEOREM ResolutionsReplay == Spec => []ResolutionReplayed
BY InvAlways, PTL DEF Inv

(* The persisted timer projection is a reduction of the persisted commands. *)
THEOREM ProjectionFollowsLog == Spec => []ProjectionOfLog
BY InvAlways, PTL DEF Inv

(* No step drops an operation the replacing client had not seen. *)
LEMMA StepReplaces ==
    ASSUME Inv, [Next]_vars, NEW e \in ops \ ops'
    PROVE  \E s \in Slot :
              /\ call[s] # call'[s] /\ call[s].state = "waiting"
              /\ call[s].request.kind = "resolve"
              /\ call[s].request.payload.strategy = "replace_remote"
              /\ e \in snapshots[call[s].request.expected].ops
<1>1. ~Quiet
  BY DEF Quiet, store
<1>2. ASSUME NEW s \in Slot, SyncStores(s) PROVE FALSE
  BY <1>2 DEF SyncStores, Stores
<1>3. PICK s \in Slot : ResolveStores(s)
  BY <1>1, <1>2, StepShape DEF Inv
<1>4. PICK q, S, p, v : /\ Stores(s, q, S, p, BaseProjection(q), v)
                        /\ q.strategy # "replace_remote" => ops \subseteq S
  BY <1>3 DEF ResolveStores
<1>5. /\ call[s].state = "waiting" /\ call[s].request.kind = "resolve"
      /\ call[s].request.expected = revision
  BY <1>3 DEF ResolveStores
<1>6. call'[s].state = "done"
  BY <1>4 DEF Stores, Inv, TypeOK
<1>7. q = call[s].request.payload /\ q.strategy = "replace_remote"
  BY <1>4 DEF Stores
<1>8. e \in snapshots[revision].ops
  BY DEF Inv, RevisionNamesSnapshot
<1>9. QED
  BY <1>5, <1>6, <1>7, <1>8

(* bootstrapRevisionForRequest protects what the client has not seen: an
   operation leaves the log only by a replacement that named a snapshot with
   that operation in it. *)
THEOREM ReplacementsSawWhatTheyDrop == Spec => NothingUnseenReplaced
<1>1. Inv /\ [Next]_vars =>
        [\A e \in ops \ ops' : \E s \in Slot :
          /\ call[s] # call'[s] /\ call[s].state = "waiting"
          /\ call[s].request.kind = "resolve"
          /\ call[s].request.payload.strategy = "replace_remote"
          /\ e \in snapshots[call[s].request.expected].ops]_vars
  BY StepReplaces
<1>2. QED
  BY <1>1, InvAlways, PTL DEF Spec, NothingUnseenReplaced

-----------------------------------------------------------------------------
(* Refinement *)

LEMMA InitAbstract == Init => Abstract!Init
BY DEF Init, Abstract!Init

(* Every transaction is an append, a projection, a decision or a stutter. *)
LEMMA StepAbstract == ASSUME Inv, [Next]_vars PROVE [Abstract!Next]_(Abstract!logVars)
<1>1. CASE Quiet
  BY <1>1 DEF Quiet, store, Abstract!logVars
<1>2. ASSUME NEW s \in Slot, SyncStores(s) PROVE [Abstract!Next]_(Abstract!logVars)
  <2>1. PICK q, S, p, v : Stores(s, q, S, p, proj, v) /\ UNCHANGED resolutions /\ ops \subseteq S
    BY <1>2 DEF SyncStores
  <2>2. revision \in Nat /\ MaxSafeRevision \in Nat /\ revision <= MaxSafeRevision
    BY RevisionAssumption DEF Inv, TypeOK, Revision
  <2>3. CASE S # ops
    <3>1. Abstract!Append
      BY <2>1, <2>2, <2>3 DEF Stores, Abstract!Append, Abstract!Advance
    <3>2. QED
      BY <3>1 DEF Abstract!Next
  <2>4. CASE S = ops /\ p # proj
    <3>1. Abstract!Project
      BY <2>1, <2>2, <2>4 DEF Stores, Abstract!Project, Abstract!Advance
    <3>2. QED
      BY <3>1 DEF Abstract!Next
  <2>5. CASE S = ops /\ p = proj
    BY <2>1, <2>5 DEF Stores, Abstract!logVars
  <2>6. QED
    BY <2>3, <2>4, <2>5
<1>3. ASSUME NEW s \in Slot, ResolveStores(s) PROVE [Abstract!Next]_(Abstract!logVars)
  <2>1. PICK q, S, p, v : /\ Stores(s, q, S, p, BaseProjection(q), v)
                          /\ Record(call[s].request, Response(revision', S, p, v))
    BY <1>3 DEF ResolveStores
  <2>2. revision \in Nat /\ MaxSafeRevision \in Nat /\ revision <= MaxSafeRevision
    BY RevisionAssumption DEF Inv, TypeOK, Revision
  <2>3. \/ revision < MaxSafeRevision /\ revision' = revision + 1
        \/ UNCHANGED <<ops, revision>>
    BY <2>1, <2>2 DEF Stores
  <2> DEFINE i == call[s].request.id
             D(res) == [k \in DOMAIN res |-> [revision |-> res[k].response.revision,
                                              log |-> res[k].response.ops]]
  <2>4. /\ DOMAIN resolutions' = DOMAIN resolutions \cup {i} /\ i \notin DOMAIN resolutions
        /\ resolutions'[i].response = Response(revision', S, p, v)
        /\ \A k \in DOMAIN resolutions : resolutions'[k] = resolutions[k]
    BY <1>3, <2>1 DEF Record, ResolveStores
  <2>5. ops' = S
    BY <2>1 DEF Stores
  <2>6. D(resolutions') = [k \in DOMAIN D(resolutions) \cup {i} |->
                             IF k = i THEN [revision |-> revision', log |-> ops']
                             ELSE D(resolutions)[k]]
    BY <2>4, <2>5 DEF Response
  <2>7. i \in DOMAIN D(resolutions') \ DOMAIN D(resolutions)
    BY <2>4
  <2>8. Abstract!Decide
    BY <2>3, <2>6, <2>7 DEF Abstract!Decide, Abstract!Advance
  <2>9. QED
    BY <2>8 DEF Abstract!Next
<1>4. QED
  BY <1>1, <1>2, <1>3, StepShape DEF Inv

(* The store of sync.go and bootstrap.go implements the log with a revision that
   web/openapi.yaml promises: AccountLog under the refinement mapping. *)
THEOREM StoreImplementsLog == Spec => ImplementsLog
<1>1. Inv /\ [Next]_vars => [Abstract!Next]_(Abstract!logVars)
  BY StepAbstract
<1>2. QED
  BY <1>1, InitAbstract, InvAlways, PTL DEF Spec, ImplementsLog, Abstract!Spec
=============================================================================
