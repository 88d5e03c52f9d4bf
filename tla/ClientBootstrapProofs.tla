------------------------ MODULE ClientBootstrapProofs ------------------------
(***************************************************************************)
(* The safety of history resolution for every set of tabs, operations and  *)
(* accounts and every number of requests and faults.                       *)
(*                                                                         *)
(* The invariant says what a database, a history request and a tab's       *)
(* memory may claim, each as a predicate of its own (Sound...), given the  *)
(* accounts' states sv, the operations' authors au and the number n of     *)
(* requests so far, all of which only grow.  Most steps of a tab touch the *)
(* database at most in its gate and in the token of its saved request      *)
(* (GateStep); those that do more have a lemma each.                       *)
(***************************************************************************)
EXTENDS ClientBootstrap, TLAPS

Database == [owner : Owner, revision : Nat, queue : SUBSET Op, proof : SUBSET Op,
             outgoing : Claim \cup {None}, gate : Gate \cup {None},
             resolution : Resolution \cup {None}]

AccountState == [revision : Nat, log : SUBSET Op, resolved : [Request -> Nat \cup {None}]]
----------------------------------------------------------------------------
(* The inductive invariant.                                                *)

\* A request carries work of its own account or work that was never an account's,
\* unless the user chose it.
SoundRequest(r, au, n) ==
    /\ r.id <= n
    /\ ~r.asked => /\ \A o \in r.sent : au[o] \in {"anonymous", r.user}
                   /\ r.strategy = "keep_remote" \/ r.source \in {None, r.user}

\* A recorded answer is a revision its account had.
SoundServer(sv, n) ==
    \A a \in Account, i \in Request :
        sv[a].resolved[i] # None => i <= n /\ sv[a].resolved[i] <= sv[a].revision

\* Queue and claim hold their owner's work and the snapshot is not ahead of the account;
\* a saved request was captured here, settles the whole queue, and an answer to it
\* that the server has recorded is not older than the snapshot.
SoundDb(d, sv, au, n) ==
    /\ d \in Database
    /\ \A o \in d.queue : au[o] = MadeBy(d.owner)
    /\ d.owner # None => d.revision <= sv[d.owner].revision
    /\ d.outgoing # None => /\ d.owner # None /\ d.outgoing.owner = d.owner
                            /\ \A o \in d.outgoing.sent : au[o] = d.owner
    /\ d.resolution # None =>
          /\ SoundRequest(d.resolution, au, n)
          /\ d.resolution.source = d.owner
          /\ d.queue \subseteq SettledBy(d.resolution)
          /\ d.resolution.user = d.owner /\ sv[d.owner].resolved[d.resolution.id] # None =>
                d.revision <= sv[d.owner].resolved[d.resolution.id]

\* The session is settled before anything is planned, or the user chose.
SoundSession(s) ==
    /\ s.validated \/ s.plan # "none" \/ s.pc = "capture" => s.user # None
    /\ s.pc \in {"start", "session"} => ~s.validated
    /\ s.pc = "preview" => s.validated /\ ~s.error
    /\ s.pc = "prepare" => s.validated \/ s.pending # None
    /\ s.pc \in {"prepare", "capture", "submit", "posted", "answered"} \/ s.error =>
          s.asked \/ s.validated

\* A request under way, or refused for a conflict, is of the account and the profile
\* the tab knows.
SoundPending(s, au, n) ==
    /\ s.pending # None => SoundRequest(s.pending, au, n)
    /\ s.pc \in {"submit", "posted", "answered"} \/ s.error => s.pending # None
    /\ s.conflict => /\ s.error /\ s.pc \in {"idle", "session", "prepare", "capture"}
                     /\ s.asked \/ (s.pending.user = s.user /\ s.pending.source = s.local)
    /\ s.pc \in {"posted", "answered"} => s.pending.user = s.user /\ s.pending.source = s.local
    /\ s.pc = "capture" /\ ~Asked(s) /\ s.strategy # "keep_remote" => s.local \in {None, s.user}

\* An answer is what the account recorded; a sync round carries the account's work.
SoundExchange(s, sv, au) ==
    /\ s.pc = "answered" => sv[s.user].resolved[s.pending.id] = s.reply
    /\ s.pc \in {"syncing", "synced"} => /\ s.claim # None /\ s.user # None
                                         /\ \A o \in s.claim.sent : au[o] = s.user
    /\ s.pc = "synced" => s.reply <= sv[s.user].revision

SoundTab(s, sv, au, n) ==
    s \in TabState /\ SoundSession(s) /\ SoundPending(s, au, n) /\ SoundExchange(s, sv, au)

Shapes ==
    /\ server \in [Account -> AccountState] /\ cookie \in Account
    /\ tab \in [Tab -> TabState] /\ late \subseteq Resolution
    /\ requests \in 0 .. MaxRequests /\ faults \in Faults
    /\ author \in [Op -> Account \cup {"anonymous", "unmade"}]

Inv ==
    /\ Shapes
    /\ SoundDb(db, server, author, requests)
    /\ SoundServer(server, requests)
    /\ \A t \in Tab : SoundTab(tab[t], server, author, requests)
    /\ \A r \in late : SoundRequest(r, author, requests)
----------------------------------------------------------------------------
(* What grows.                                                             *)

ServerGrows(sv, ev, n) ==
    \A a \in Account :
        /\ sv[a].revision <= ev[a].revision
        /\ \A i \in Request :
             \/ ev[a].resolved[i] = sv[a].resolved[i]
             \/ sv[a].resolved[i] = None /\ i <= n /\ ev[a].resolved[i] = ev[a].revision

AuthorGrows(au, bu) == \A o \in Op : au[o] # "unmade" => bu[o] = au[o]

LEMMA Distinct ==
    /\ None \notin Account /\ None \notin Resolution /\ None \notin Claim /\ None \notin Gate
    /\ None \notin Nat /\ "anonymous" \notin Account /\ "unmade" \notin Account /\ "anonymous" # "unmade"
BY NoneAssumption, RequestAssumption, AuthorAssumption

LEMMA RequestStays ==
    ASSUME NEW r \in Resolution, NEW au, NEW bu, NEW n \in Nat, NEW m \in Nat,
           SoundRequest(r, au, n), AuthorGrows(au, bu), n <= m
    PROVE  SoundRequest(r, bu, m)
<1>1. r.id \in Nat /\ r.user \in Account /\ r.sent \subseteq Op
  BY BootstrapAssumption DEF Resolution, Request
<1>2. r.id <= m
  BY <1>1 DEF SoundRequest
<1>3. ASSUME NEW o \in r.sent, au[o] \in {"anonymous", r.user}
      PROVE  bu[o] \in {"anonymous", r.user}
  BY <1>1, <1>3, Distinct DEF AuthorGrows
<1> QED BY <1>2, <1>3 DEF SoundRequest

LEMMA TabStays ==
    ASSUME NEW s, NEW sv \in [Account -> AccountState], NEW ev \in [Account -> AccountState],
           NEW au, NEW bu, NEW n \in Nat, NEW m \in Nat, SoundTab(s, sv, au, n),
           ServerGrows(sv, ev, m), AuthorGrows(au, bu), n <= m
    PROVE  SoundTab(s, ev, bu, m)
<1>1. /\ s \in TabState /\ s.user \in Owner /\ s.reply \in Nat
      /\ s.claim \in Claim \cup {None} /\ s.pending \in Resolution \cup {None}
  BY DEF SoundTab, TabState
<1>2. s.pending # None => SoundRequest(s.pending, bu, m)
  BY <1>1, RequestStays DEF SoundTab, SoundPending
<1>3. SoundPending(s, bu, m)
  BY <1>2 DEF SoundTab, SoundPending
<1>4. ASSUME s.pc = "answered" PROVE ev[s.user].resolved[s.pending.id] = s.reply
  <2>1. s.pending \in Resolution /\ s.pending.user = s.user
    BY <1>1, <1>4 DEF SoundTab, SoundPending
  <2>2. s.user \in Account /\ s.pending.id \in Request
    BY <2>1 DEF Resolution
  <2>3. sv[s.user].resolved[s.pending.id] = s.reply
    BY <1>4 DEF SoundTab, SoundExchange
  <2> QED BY <1>1, <2>2, <2>3, Distinct DEF ServerGrows
<1>5. ASSUME s.pc \in {"syncing", "synced"}
      PROVE  /\ s.user \in Account /\ s.claim # None
             /\ \A o \in s.claim.sent : bu[o] = s.user
  <2>1. s.claim \in Claim /\ s.user \in Account /\ s.claim.sent \subseteq Op
    BY <1>1, <1>5 DEF SoundTab, SoundExchange, Owner, Claim
  <2> QED BY <1>5, <2>1, Distinct DEF SoundTab, SoundExchange, AuthorGrows
<1>6. ASSUME s.pc = "synced" PROVE s.reply <= ev[s.user].revision
  <2>1. s.user \in Account
    BY <1>5, <1>6
  <2>2. sv[s.user].revision \in Nat /\ ev[s.user].revision \in Nat
    BY <2>1 DEF AccountState
  <2> QED BY <1>1, <1>6, <2>1, <2>2 DEF SoundTab, SoundExchange, ServerGrows
<1>7. SoundExchange(s, ev, bu)
  BY <1>4, <1>5, <1>6, Distinct DEF SoundExchange
<1> QED BY <1>3, <1>7 DEF SoundTab

LEMMA DbStays ==
    ASSUME NEW d, NEW sv \in [Account -> AccountState], NEW ev \in [Account -> AccountState],
           NEW au, NEW bu, NEW n \in Nat, NEW m \in Nat, SoundDb(d, sv, au, n),
           ServerGrows(sv, ev, m), AuthorGrows(au, bu), n <= m
    PROVE  SoundDb(d, ev, bu, m)
<1>1. /\ d \in Database /\ d.owner \in Owner /\ d.revision \in Nat /\ d.queue \subseteq Op
      /\ d.outgoing \in Claim \cup {None} /\ d.resolution \in Resolution \cup {None}
  BY DEF SoundDb, Database
<1>2. \A o \in d.queue : bu[o] = MadeBy(d.owner)
  <2>1. MadeBy(d.owner) # "unmade"
    BY <1>1, Distinct DEF MadeBy, Owner
  <2> QED BY <1>1, <2>1 DEF SoundDb, AuthorGrows
<1>3. ASSUME d.owner # None
      PROVE  /\ d.owner \in Account /\ d.revision <= sv[d.owner].revision
             /\ sv[d.owner].revision <= ev[d.owner].revision
             /\ sv[d.owner].revision \in Nat /\ ev[d.owner].revision \in Nat
             /\ d.revision <= ev[d.owner].revision
  <2>1. d.owner \in Account /\ d.revision <= sv[d.owner].revision
    BY <1>1, <1>3 DEF SoundDb, Owner
  <2>2. sv[d.owner].revision \in Nat /\ ev[d.owner].revision \in Nat
    BY <2>1 DEF AccountState
  <2>3. sv[d.owner].revision <= ev[d.owner].revision
    BY <2>1 DEF ServerGrows
  <2> QED BY <1>1, <2>1, <2>2, <2>3
<1>4. ASSUME d.outgoing # None
      PROVE  /\ d.owner # None /\ d.outgoing.owner = d.owner
             /\ \A o \in d.outgoing.sent : bu[o] = d.owner
  <2>1. d.owner # None /\ d.outgoing.owner = d.owner /\ \A o \in d.outgoing.sent : au[o] = d.owner
    BY <1>4 DEF SoundDb
  <2>2. d.owner \in Account /\ d.outgoing.sent \subseteq Op
    BY <1>1, <1>4, <2>1 DEF Owner, Claim
  <2> QED BY <2>1, <2>2, Distinct DEF AuthorGrows
<1>5. ASSUME d.resolution # None
      PROVE  /\ SoundRequest(d.resolution, bu, m)
             /\ d.resolution.source = d.owner
             /\ d.queue \subseteq SettledBy(d.resolution)
  BY <1>1, <1>5, RequestStays DEF SoundDb
<1>6. ASSUME d.resolution # None, d.resolution.user = d.owner,
             ev[d.owner].resolved[d.resolution.id] # None
      PROVE  d.revision <= ev[d.owner].resolved[d.resolution.id]
  <2>1. d.resolution \in Resolution
    BY <1>1, <1>6
  <2>2. d.owner \in Account /\ d.resolution.id \in Request
    BY <1>6, <2>1 DEF Resolution
  <2>3. CASE ev[d.owner].resolved[d.resolution.id] = sv[d.owner].resolved[d.resolution.id]
    BY <1>6, <2>3 DEF SoundDb
  <2>4. CASE ev[d.owner].resolved[d.resolution.id] = ev[d.owner].revision
    BY <1>3, <2>2, <2>4, Distinct
  <2> QED BY <2>2, <2>3, <2>4 DEF ServerGrows
<1> QED BY <1>1, <1>2, <1>3, <1>4, <1>5, <1>6 DEF SoundDb

LEMMA Reflexive ==
    ASSUME NEW sv \in [Account -> AccountState], NEW au, NEW n
    PROVE  ServerGrows(sv, sv, n) /\ AuthorGrows(au, au)
<1>1. \A a \in Account : sv[a].revision \in Nat
  BY DEF AccountState
<1> QED BY <1>1 DEF ServerGrows, AuthorGrows

\* A step of one tab that leaves the database and what grows sound.
LEMMA TabInv ==
    ASSUME Inv, NEW t \in Tab, NEW s, tab' = [tab EXCEPT ![t] = s], Shapes',
           ServerGrows(server, server', requests'), AuthorGrows(author, author'),
           requests <= requests', SoundServer(server', requests'),
           SoundTab(s, server', author', requests'), SoundDb(db', server', author', requests'),
           \A r \in late' : SoundRequest(r, author', requests')
    PROVE  Inv'
<1>1. requests \in Nat /\ requests' \in Nat
  BY BootstrapAssumption DEF Inv, Shapes
<1>2. ASSUME NEW u \in Tab PROVE SoundTab(tab'[u], server', author', requests')
  <2>1. tab'[u] = IF u = t THEN s ELSE tab[u]
    BY DEF Inv, Shapes
  <2>2. SoundTab(tab[u], server', author', requests')
    BY <1>1, TabStays DEF Inv, Shapes
  <2> QED BY <2>1, <2>2
<1> QED BY <1>2 DEF Inv

\* The same when accounts, requests and authors stay as they are.
LEMMA QuietInv ==
    ASSUME Inv, NEW t \in Tab, NEW s, tab' = [tab EXCEPT ![t] = s],
           server' = server, cookie' = cookie, late' = late, requests' = requests, author' = author,
           faults' \in Faults,
           SoundTab(s, server, author, requests), SoundDb(db', server, author, requests)
    PROVE  Inv'
<1>1. s \in TabState
  BY DEF SoundTab
<1>2. Shapes'
  BY <1>1 DEF Inv, Shapes
<1>3. requests \in Nat /\ requests <= requests
  BY BootstrapAssumption DEF Inv, Shapes
<1>4. ServerGrows(server, server, requests) /\ AuthorGrows(author, author)
  BY Reflexive DEF Inv, Shapes
<1>5. SoundServer(server, requests) /\ \A r \in late : SoundRequest(r, author, requests)
  BY DEF Inv
<1> QED BY <1>2, <1>3, <1>4, <1>5, TabInv
----------------------------------------------------------------------------
(* Steps of the gate.                                                      *)

\* The same request, in the hands of the same or another tab.
SameRequest(r, q) == q = [r EXCEPT !.token = q.token]

LEMMA SameRequestSound ==
    ASSUME NEW r \in Resolution, NEW q \in Resolution, SameRequest(r, q)
    PROVE  /\ q.id = r.id /\ q.user = r.user /\ q.strategy = r.strategy /\ q.source = r.source
           /\ q.sent = r.sent /\ q.queued = r.queued /\ q.asked = r.asked
           /\ q.delivered = r.delivered
           /\ SettledBy(q) = SettledBy(r)
           /\ \A au, n : SoundRequest(r, au, n) => SoundRequest(q, au, n)
<1>1. /\ q.id = r.id /\ q.user = r.user /\ q.strategy = r.strategy /\ q.source = r.source
      /\ q.sent = r.sent /\ q.queued = r.queued /\ q.asked = r.asked
      /\ q.delivered = r.delivered
  BY DEF SameRequest, Resolution
<1> QED BY <1>1 DEF SettledBy, SoundRequest

LEMMA TokenChanges ==
    ASSUME NEW r \in Resolution, NEW t \in Tab
    PROVE  [r EXCEPT !.token = t] \in Resolution /\ SameRequest(r, [r EXCEPT !.token = t])
BY DEF Resolution, SameRequest

\* Only the gate and the saved request's token change, or a request of another account
\* is dropped by tab s, which knows its session.
GateStep(d, e, s) ==
    /\ e \in Database
    /\ e.owner = d.owner /\ e.revision = d.revision /\ e.queue = d.queue
    /\ e.outgoing = d.outgoing
    /\ \/ e.resolution = d.resolution
       \/ d.resolution # None /\ e.resolution # None /\ SameRequest(d.resolution, e.resolution)
       \/ /\ d.resolution # None /\ e.resolution = None
          /\ s.validated /\ s.user # d.resolution.user

LEMMA GateStepSound ==
    ASSUME NEW d, NEW e, NEW s, NEW sv, NEW au, NEW n, SoundDb(d, sv, au, n), GateStep(d, e, s)
    PROVE  SoundDb(e, sv, au, n)
<1>1. d \in Database /\ e \in Database
  BY DEF SoundDb, GateStep
<1>2. d.resolution \in Resolution \cup {None} /\ e.resolution \in Resolution \cup {None}
  BY <1>1 DEF Database
<1>3. CASE e.resolution = d.resolution
  BY <1>1, <1>3 DEF SoundDb, GateStep
<1>4. CASE e.resolution = None
  BY <1>1, <1>4 DEF SoundDb, GateStep
<1>5. CASE d.resolution # None /\ e.resolution # None /\ SameRequest(d.resolution, e.resolution)
  <2>1. /\ e.resolution.id = d.resolution.id /\ e.resolution.user = d.resolution.user
        /\ e.resolution.source = d.resolution.source
        /\ SettledBy(e.resolution) = SettledBy(d.resolution)
        /\ SoundRequest(d.resolution, au, n) => SoundRequest(e.resolution, au, n)
    BY <1>2, <1>5, SameRequestSound
  <2> QED BY <1>1, <1>5, <2>1 DEF SoundDb, GateStep
<1> QED BY <1>3, <1>4, <1>5 DEF GateStep

LEMMA NoGateStep ==
    ASSUME NEW d \in Database, NEW s
    PROVE  GateStep(d, d, s)
BY DEF GateStep

LEMMA BoundLeaseGate ==
    ASSUME NEW t \in Tab, NEW user \in Owner
    PROVE  BoundLease(t, user) \in Gate
BY DEF BoundLease, Gate

LEMMA AcquiredGateStep ==
    ASSUME NEW d \in Database, NEW t \in Tab, NEW user \in Owner, NEW s
    PROVE  /\ GateStep(d, AcquiredGate(d, t, user), s)
           /\ AcquiredGate(d, t, user).resolution # None <=> d.resolution # None
           /\ d.resolution # None => SameRequest(d.resolution, AcquiredGate(d, t, user).resolution)
<1> DEFINE e == AcquiredGate(d, t, user)
<1>1. BoundLease(t, user) \in Gate
  BY BoundLeaseGate
<1>2. /\ e.owner = d.owner /\ e.revision = d.revision /\ e.queue = d.queue
      /\ e.outgoing = d.outgoing /\ e.proof = d.proof /\ e.gate = BoundLease(t, user)
      /\ e.resolution = IF d.resolution = None THEN None ELSE [d.resolution EXCEPT !.token = t]
  BY DEF AcquiredGate, Database
<1>3. d.resolution # None => /\ e.resolution \in Resolution
                             /\ SameRequest(d.resolution, e.resolution)
  BY <1>2, TokenChanges DEF Database
<1>4. e \in Database
  BY <1>1, <1>2, <1>3 DEF AcquiredGate, Database
<1> QED BY <1>2, <1>3, <1>4, Distinct DEF GateStep

LEMMA ClearedGateStep ==
    ASSUME NEW d \in Database, NEW s
    PROVE  GateStep(d, ClearedGate(d), s)
BY DEF GateStep, ClearedGate, Database

LEMMA GateStepsCompose ==
    ASSUME NEW d \in Database, NEW e, NEW f, NEW s, NEW u, GateStep(d, e, s), GateStep(e, f, u),
           s.validated => u.validated /\ u.user = s.user
    PROVE  GateStep(d, f, u)
<1>1. e \in Database /\ f \in Database
  BY DEF GateStep
<1>2. /\ d.resolution \in Resolution \cup {None} /\ e.resolution \in Resolution \cup {None}
      /\ f.resolution \in Resolution \cup {None}
  BY <1>1 DEF Database
<1>3. CASE e.resolution = d.resolution
  BY <1>1, <1>3 DEF GateStep
<1>4. CASE e.resolution = None /\ d.resolution # None /\ s.validated /\ s.user # d.resolution.user
  BY <1>1, <1>4 DEF GateStep
<1>5. CASE d.resolution # None /\ e.resolution # None /\ SameRequest(d.resolution, e.resolution)
  <2>1. e.resolution.user = d.resolution.user
    BY <1>2, <1>5, SameRequestSound
  <2>2. CASE f.resolution = e.resolution
    BY <1>1, <1>5, <2>2 DEF GateStep
  <2>3. CASE f.resolution = None
    BY <1>1, <1>5, <2>1, <2>3 DEF GateStep
  <2>4. CASE f.resolution # None /\ SameRequest(e.resolution, f.resolution)
    <3>1. SameRequest(d.resolution, f.resolution)
      <4>1. d.resolution \in Resolution
        BY <1>2, <1>5
      <4> QED BY <1>5, <2>4, <4>1 DEF SameRequest, Resolution
    <3> QED BY <1>1, <1>5, <2>4, <3>1 DEF GateStep
  <2> QED BY <2>2, <2>3, <2>4 DEF GateStep
<1> QED BY <1>3, <1>4, <1>5 DEF GateStep
----------------------------------------------------------------------------
(* What a tab's calls on itself leave.                                     *)

LEMMA IdleFields ==
    ASSUME NEW s \in TabState
    PROVE  /\ Idle(s) \in TabState
           /\ Idle(s).pc = "idle" /\ Idle(s).user = s.user /\ Idle(s).local = s.local
           /\ Idle(s).validated = s.validated /\ Idle(s).pending = s.pending
           /\ Idle(s).plan = s.plan /\ Idle(s).asked = s.asked /\ Idle(s).strategy = s.strategy
           /\ Idle(s).conflict = s.conflict /\ Idle(s).error = s.error
BY DEF Idle, TabState, Owner

\* A tab at rest relies on little.
LEMMA RestSound ==
    ASSUME NEW s \in TabState, NEW sv, NEW au, NEW n, s.pc = "idle",
           s.validated \/ s.plan # "none" => s.user # None,
           s.pending # None => SoundRequest(s.pending, au, n),
           s.error => s.pending # None /\ (s.asked \/ s.validated),
           s.conflict => /\ s.error
                         /\ s.asked \/ (s.pending.user = s.user /\ s.pending.source = s.local)
    PROVE  SoundTab(s, sv, au, n)
BY DEF SoundTab, SoundSession, SoundPending, SoundExchange

LEMMA IdleSound ==
    ASSUME NEW s, NEW sv, NEW au, NEW n, SoundTab(s, sv, au, n)
    PROVE  SoundTab(Idle(s), sv, au, n)
<1>1. s \in TabState
  BY DEF SoundTab
<1>2. /\ s.validated \/ s.plan # "none" => s.user # None
      /\ s.pending # None => SoundRequest(s.pending, au, n)
      /\ s.error => s.pending # None /\ (s.asked \/ s.validated)
      /\ s.conflict => /\ s.error
                       /\ s.asked \/ (s.pending.user = s.user /\ s.pending.source = s.local)
  BY DEF SoundTab, SoundSession, SoundPending
<1> QED BY <1>1, <1>2, IdleFields, RestSound

LEMMA RevalidateFields ==
    ASSUME NEW s \in TabState
    PROVE  /\ Revalidate(s) \in TabState /\ Revalidate(s).pc = "idle"
           /\ Revalidate(s).user = s.user /\ Revalidate(s).plan = s.plan
           /\ ~Revalidate(s).validated /\ Revalidate(s).pending = None
           /\ ~Revalidate(s).error /\ ~Revalidate(s).conflict
<1> DEFINE i == Idle(s)
<1>1. i \in TabState /\ i.pc = "idle" /\ i.user = s.user /\ i.plan = s.plan
  BY IdleFields
<1> HIDE DEF i
<1> DEFINE q == [i EXCEPT !.pending = None, !.conflict = FALSE, !.error = FALSE]
<1>2. /\ q \in TabState /\ q.pc = i.pc /\ q.user = i.user /\ q.plan = i.plan
      /\ q.pending = None /\ ~q.error /\ ~q.conflict
  BY <1>1 DEF TabState
<1>3. Revalidate(s) = [q EXCEPT !.blocked = TRUE, !.owned = FALSE, !.validated = FALSE]
  BY DEF Revalidate, i
<1> HIDE DEF q
<1>4. LET r == [q EXCEPT !.blocked = TRUE, !.owned = FALSE, !.validated = FALSE]
      IN  /\ r \in TabState /\ r.pc = q.pc /\ r.user = q.user /\ r.plan = q.plan
          /\ ~r.validated /\ r.pending = None /\ ~r.error /\ ~r.conflict
  BY <1>2 DEF TabState
<1> QED BY <1>1, <1>2, <1>3, <1>4

LEMMA RevalidateSound ==
    ASSUME NEW s, NEW sv, NEW au, NEW n, SoundTab(s, sv, au, n)
    PROVE  SoundTab(Revalidate(s), sv, au, n)
<1> DEFINE r == Revalidate(s)
<1>1. s \in TabState
  BY DEF SoundTab
<1>2. /\ r \in TabState /\ r.pc = "idle" /\ r.user = s.user /\ r.plan = s.plan
      /\ ~r.validated /\ r.pending = None /\ ~r.error /\ ~r.conflict
  BY <1>1, RevalidateFields
<1>3. r.plan # "none" => r.user # None
  BY <1>2 DEF SoundTab, SoundSession
<1> QED BY <1>2, <1>3, RestSound

LEMMA ResetBootstrapSound ==
    ASSUME NEW s, NEW sv, NEW au, NEW n, SoundTab(s, sv, au, n)
    PROVE  SoundTab(ResetBootstrap(s), sv, au, n)
<1> DEFINE i == Idle(s)
<1>1. /\ s \in TabState /\ s.user \in Owner
      /\ i \in TabState /\ i.pc = "idle" /\ i.user = s.user /\ i.validated = s.validated
  BY IdleFields DEF SoundTab, TabState
<1> HIDE DEF i
<1> DEFINE q == [i EXCEPT !.local = s.user, !.pending = None, !.plan = "none", !.asked = FALSE]
           r == [q EXCEPT !.conflict = FALSE, !.error = FALSE, !.blocked = FALSE, !.owned = FALSE]
<1>0. /\ q \in TabState /\ q.pc = "idle" /\ q.user = s.user /\ q.plan = "none"
      /\ q.validated = s.validated /\ q.pending = None
  BY <1>1 DEF TabState
<1>4. ResetBootstrap(s) = r
  BY DEF ResetBootstrap, i
<1> HIDE DEF q
<1>2. /\ r \in TabState /\ r.pc = "idle" /\ r.user = s.user /\ r.plan = "none"
      /\ r.validated = s.validated /\ r.pending = None /\ ~r.error /\ ~r.conflict
  BY <1>0 DEF TabState
<1>3. r.validated => r.user # None
  BY <1>2 DEF SoundTab, SoundSession
<1> HIDE DEF r
<1> QED BY <1>2, <1>3, <1>4, RestSound

\* The database's saved request may become the tab's.
LEMMA BlockSyncSound ==
    ASSUME NEW s, NEW d, NEW sv, NEW au, NEW n, SoundTab(s, sv, au, n), SoundDb(d, sv, au, n),
           s.pending = None
    PROVE  SoundTab(BlockSync(d, s), sv, au, n)
<1> DEFINE i == Idle(s)
<1>1. /\ s \in TabState /\ d.resolution \in Resolution \cup {None}
      /\ ~s.error /\ ~s.conflict /\ (s.plan # "none" => s.user # None)
      /\ d.resolution # None => SoundRequest(d.resolution, au, n)
  BY DEF SoundTab, SoundDb, Database, SoundSession, SoundPending
<1>2. /\ i \in TabState /\ i.pc = "idle" /\ i.user = s.user /\ i.plan = s.plan
      /\ ~i.error /\ ~i.conflict
  BY <1>1, IdleFields
<1> HIDE DEF i
<1> DEFINE q == [i EXCEPT !.validated = FALSE, !.blocked = TRUE, !.owned = FALSE]
           r == [q EXCEPT !.pending = d.resolution]
<1>3. /\ q \in TabState /\ q.pc = "idle" /\ q.user = s.user /\ q.plan = s.plan
      /\ ~q.validated /\ ~q.error /\ ~q.conflict
  BY <1>2 DEF TabState
<1>4. BlockSync(d, s) = r
  BY DEF BlockSync, i
<1> HIDE DEF q
<1>5. /\ r \in TabState /\ r.pc = "idle" /\ r.user = s.user /\ r.plan = s.plan
      /\ ~r.validated /\ r.pending = d.resolution /\ ~r.error /\ ~r.conflict
  BY <1>1, <1>3 DEF TabState
<1> HIDE DEF r
<1> QED BY <1>1, <1>4, <1>5, RestSound
----------------------------------------------------------------------------
(* Preparation.                                                            *)

\* What a transaction of tab s on database d may leave.
SoundOutcome(o, d, s, sv, au, n) ==
    /\ GateStep(d, o.db, o.tab)
    /\ SoundTab(o.tab, sv, au, n)
    /\ s.validated => o.tab.validated /\ o.tab.user = s.user

LEMMA OutcomeSound ==
    ASSUME NEW d, NEW e, NEW p, NEW s, NEW sv, NEW au, NEW n,
           GateStep(d, e, p), SoundTab(p, sv, au, n),
           s.validated => p.validated /\ p.user = s.user
    PROVE  SoundOutcome(Outcome(e, p), d, s, sv, au, n)
<1>1. Outcome(e, p).db = e /\ Outcome(e, p).tab = p
  BY DEF Outcome
<1> QED BY <1>1 DEF SoundOutcome

LEMMA SoundOutcomesCompose ==
    ASSUME NEW d \in Database, NEW e, NEW o, NEW s, NEW u, NEW sv, NEW au, NEW n,
           GateStep(d, e, u), s.validated => u.validated /\ u.user = s.user,
           SoundOutcome(o, e, u, sv, au, n)
    PROVE  SoundOutcome(o, d, s, sv, au, n)
BY GateStepsCompose DEF SoundOutcome

LEMMA IdleOutcome ==
    ASSUME NEW d \in Database, NEW s, NEW sv, NEW au, NEW n, SoundTab(s, sv, au, n)
    PROVE  SoundOutcome(Outcome(d, Idle(s)), d, s, sv, au, n)
<1>1. s \in TabState
  BY DEF SoundTab
<1>2. Idle(s).validated = s.validated /\ Idle(s).user = s.user
  BY <1>1, IdleFields
<1> QED BY <1>2, OutcomeSound, NoGateStep, IdleSound

LEMMA ResumedOutcome ==
    ASSUME NEW d \in Database, NEW t \in Tab, NEW s, NEW sv, NEW au, NEW n,
           SoundTab(s, sv, au, n), ~s.error
    PROVE  SoundOutcome(ResumedNormalSync(t, d, s), d, s, sv, au, n)
<1> DEFINE i == Idle(s)
           p == [i EXCEPT !.local = s.user, !.pending = None, !.blocked = FALSE, !.owned = FALSE]
           q == [i EXCEPT !.local = s.user]
<1>1. s \in TabState /\ s.user \in Owner /\ ~s.conflict
  BY DEF SoundTab, TabState, SoundPending
<1>2. /\ i \in TabState /\ i.pc = "idle" /\ i.user = s.user /\ i.validated = s.validated
      /\ i.pending = s.pending /\ i.plan = s.plan /\ ~i.conflict /\ ~i.error
  BY <1>1, IdleFields
<1>3. /\ p \in TabState /\ p.pc = "idle" /\ p.user = s.user /\ p.validated = s.validated
      /\ p.pending = None /\ p.plan = s.plan /\ ~p.conflict /\ ~p.error
  BY <1>1, <1>2 DEF TabState
<1>4. /\ q \in TabState /\ q.pc = "idle" /\ q.user = s.user /\ q.validated = s.validated
      /\ q.pending = s.pending /\ q.plan = s.plan /\ ~q.conflict /\ ~q.error
  BY <1>1, <1>2 DEF TabState
<1>5. /\ s.validated \/ s.plan # "none" => s.user # None
      /\ s.pending # None => SoundRequest(s.pending, au, n)
  BY DEF SoundTab, SoundSession, SoundPending
<1>6. ResumedNormalSync(t, d, s) \in {Outcome(ClearedGate(d), p), Outcome(d, q)}
  BY DEF ResumedNormalSync
<1> HIDE DEF p, q
<1>7. SoundTab(p, sv, au, n) /\ SoundTab(q, sv, au, n)
  BY <1>3, <1>4, <1>5, RestSound
<1>8. SoundOutcome(Outcome(ClearedGate(d), p), d, s, sv, au, n)
  BY <1>3, <1>7, OutcomeSound, ClearedGateStep
<1>9. SoundOutcome(Outcome(d, q), d, s, sv, au, n)
  BY <1>4, <1>7, OutcomeSound, NoGateStep
<1> QED BY <1>6, <1>8, <1>9

\* The tab goes on to send the request it has, or to ask the account for its history.
LEMMA SubmitSound ==
    ASSUME NEW s, NEW sv, NEW au, NEW n, SoundTab(s, sv, au, n), s.pending # None, ~s.conflict,
           s.asked \/ s.validated
    PROVE  LET p == [s EXCEPT !.pc = "submit"]
           IN  SoundTab(p, sv, au, n) /\ p.validated = s.validated /\ p.user = s.user
<1> DEFINE p == [s EXCEPT !.pc = "submit"]
<1>1. s \in TabState
  BY DEF SoundTab
<1>2. /\ p \in TabState /\ p.pc = "submit" /\ p.user = s.user /\ p.validated = s.validated
      /\ p.plan = s.plan /\ p.pending = s.pending /\ p.asked = s.asked /\ p.error = s.error
      /\ p.conflict = s.conflict
  BY <1>1 DEF TabState
<1> HIDE DEF p
<1>3. SoundSession(p)
  BY <1>2 DEF SoundTab, SoundSession
<1>4. SoundPending(p, au, n)
  BY <1>2 DEF SoundTab, SoundPending
<1>5. SoundExchange(p, sv, au)
  BY <1>2 DEF SoundExchange
<1>6. SoundTab(p, sv, au, n) /\ p.validated = s.validated /\ p.user = s.user
  BY <1>2, <1>3, <1>4, <1>5 DEF SoundTab
<1> QED BY <1>6 DEF p

LEMMA PreviewSound ==
    ASSUME NEW s, NEW sv, NEW au, NEW n, SoundTab(s, sv, au, n), s.validated, ~s.error
    PROVE  LET p == [s EXCEPT !.pc = "preview"]
           IN  SoundTab(p, sv, au, n) /\ p.validated = s.validated /\ p.user = s.user
<1> DEFINE p == [s EXCEPT !.pc = "preview"]
<1>1. s \in TabState /\ ~s.conflict
  BY DEF SoundTab, SoundPending
<1>2. /\ p \in TabState /\ p.pc = "preview" /\ p.user = s.user /\ p.validated = s.validated
      /\ p.plan = s.plan /\ p.pending = s.pending /\ p.asked = s.asked /\ p.error = s.error
      /\ p.conflict = s.conflict
  BY <1>1 DEF TabState
<1> HIDE DEF p
<1>3. SoundSession(p)
  BY <1>2 DEF SoundTab, SoundSession
<1>4. SoundPending(p, au, n)
  BY <1>1, <1>2 DEF SoundTab, SoundPending
<1>5. SoundExchange(p, sv, au)
  BY <1>2 DEF SoundExchange
<1>6. SoundTab(p, sv, au, n) /\ p.validated = s.validated /\ p.user = s.user
  BY <1>2, <1>3, <1>4, <1>5 DEF SoundTab
<1> QED BY <1>6 DEF p

\* The tab adopts the saved request.
LEMMA AdoptSound ==
    ASSUME NEW s, NEW d, NEW sv, NEW au, NEW n, SoundTab(s, sv, au, n), SoundDb(d, sv, au, n),
           s.pc \in {"prepare", "submit"}, d.resolution # None, ~s.conflict
    PROVE  LET p == [s EXCEPT !.pending = d.resolution]
           IN  SoundTab(p, sv, au, n)
<1> DEFINE p == [s EXCEPT !.pending = d.resolution]
<1>1. s \in TabState /\ d.resolution \in Resolution /\ SoundRequest(d.resolution, au, n)
  BY DEF SoundTab, SoundDb, Database
<1>2. /\ p \in TabState /\ p.pc = s.pc /\ p.user = s.user /\ p.validated = s.validated
      /\ p.plan = s.plan /\ p.pending = d.resolution /\ p.asked = s.asked /\ p.error = s.error
      /\ p.conflict = s.conflict
  BY <1>1 DEF TabState
<1> HIDE DEF p
<1>3. SoundSession(p)
  BY <1>2 DEF SoundTab, SoundSession
<1>4. SoundPending(p, au, n)
  BY <1>1, <1>2 DEF SoundTab, SoundPending
<1>5. SoundExchange(p, sv, au)
  BY <1>2 DEF SoundExchange
<1>6. SoundTab(p, sv, au, n)
  BY <1>2, <1>3, <1>4, <1>5 DEF SoundTab
<1> QED BY <1>6 DEF p

\* Which owner a tab knows, and whether it holds the gate, matters only to a request
\* under way.
LEMMA OwnedSound ==
    ASSUME NEW s, NEW owned \in BOOLEAN, NEW sv, NEW au, NEW n, SoundTab(s, sv, au, n)
    PROVE  LET p == [s EXCEPT !.owned = owned]
           IN  SoundTab(p, sv, au, n) /\ p.pc = s.pc /\ p.user = s.user /\ p.validated = s.validated
               /\ p.pending = s.pending /\ p.error = s.error /\ p.conflict = s.conflict
<1> DEFINE p == [s EXCEPT !.owned = owned]
<1>1. s \in TabState
  BY DEF SoundTab
<1>2. /\ p \in TabState /\ p.pc = s.pc /\ p.user = s.user /\ p.validated = s.validated
      /\ p.plan = s.plan /\ p.pending = s.pending /\ p.asked = s.asked /\ p.error = s.error
      /\ p.conflict = s.conflict /\ p.local = s.local /\ p.strategy = s.strategy
      /\ p.claim = s.claim /\ p.reply = s.reply
  BY <1>1 DEF TabState
<1> HIDE DEF p
<1>3. SoundSession(p)
  BY <1>2 DEF SoundTab, SoundSession
<1>4. SoundPending(p, au, n)
  BY <1>2 DEF SoundTab, SoundPending, Asked
<1>5. SoundExchange(p, sv, au)
  BY <1>2 DEF SoundTab, SoundExchange
<1>6. SoundTab(p, sv, au, n)
  BY <1>2, <1>3, <1>4, <1>5 DEF SoundTab
<1>7. /\ SoundTab(p, sv, au, n) /\ p.pc = s.pc /\ p.user = s.user /\ p.validated = s.validated
      /\ p.pending = s.pending /\ p.error = s.error /\ p.conflict = s.conflict
  BY <1>2, <1>6
<1> QED BY <1>7 DEF p

LEMMA LocalSound ==
    ASSUME NEW s, NEW local \in Owner, NEW sv, NEW au, NEW n, SoundTab(s, sv, au, n),
           s.pc = "prepare", ~s.conflict
    PROVE  LET p == [s EXCEPT !.local = local]
           IN  SoundTab(p, sv, au, n) /\ p.pc = s.pc /\ p.user = s.user /\ p.validated = s.validated
               /\ p.error = s.error
<1> DEFINE p == [s EXCEPT !.local = local]
<1>1. s \in TabState
  BY DEF SoundTab
<1>2. /\ p \in TabState /\ p.pc = s.pc /\ p.user = s.user /\ p.validated = s.validated
      /\ p.plan = s.plan /\ p.pending = s.pending /\ p.asked = s.asked /\ p.error = s.error
      /\ p.conflict = s.conflict
  BY <1>1 DEF TabState
<1> HIDE DEF p
<1>3. SoundSession(p)
  BY <1>2 DEF SoundTab, SoundSession
<1>4. SoundPending(p, au, n)
  BY <1>2 DEF SoundTab, SoundPending
<1>5. SoundExchange(p, sv, au)
  BY <1>2 DEF SoundExchange
<1>6. SoundTab(p, sv, au, n)
  BY <1>2, <1>3, <1>4, <1>5 DEF SoundTab
<1>7. /\ SoundTab(p, sv, au, n) /\ p.pc = s.pc /\ p.user = s.user /\ p.validated = s.validated
      /\ p.error = s.error
  BY <1>2, <1>6
<1> QED BY <1>7 DEF p

LEMMA GateHeldOutcome ==
    ASSUME NEW d, NEW t \in Tab, NEW s, NEW sv, NEW au, NEW n,
           SoundTab(s, sv, au, n), SoundDb(d, sv, au, n), s.pc = "prepare", ~s.error
    PROVE  SoundOutcome(GateHeld(t, d, s), d, s, sv, au, n)
<1>1. /\ d \in Database /\ GateStep(d, d, [s EXCEPT !.pc = "submit"])
      /\ ~s.conflict /\ (s.asked \/ s.validated) /\ (s.pending = None => s.validated)
  BY NoGateStep DEF SoundDb, SoundTab, SoundSession, SoundPending
<1>2. CASE s.pending # None
  <2> DEFINE p == [s EXCEPT !.pc = "submit"]
  <2>1. SoundTab(p, sv, au, n) /\ p.validated = s.validated /\ p.user = s.user
    BY <1>1, <1>2, SubmitSound
  <2>2. GateHeld(t, d, s) = Outcome(d, p)
    BY <1>2 DEF GateHeld
  <2> HIDE DEF p
  <2> QED BY <1>1, <2>1, <2>2, NoGateStep, OutcomeSound
<1>3. ASSUME s.pending = None
      PROVE  SoundOutcome(Outcome(d, [s EXCEPT !.pc = "preview"]), d, s, sv, au, n)
  <2> DEFINE p == [s EXCEPT !.pc = "preview"]
  <2>1. SoundTab(p, sv, au, n) /\ p.validated = s.validated /\ p.user = s.user
    BY <1>1, <1>3, PreviewSound
  <2> HIDE DEF p
  <2>2. SoundOutcome(Outcome(d, p), d, s, sv, au, n)
    BY <1>1, <2>1, NoGateStep, OutcomeSound
  <2> QED BY <2>2 DEF p
<1>4. ASSUME s.pending = None, d.resolution # None
      PROVE  SoundOutcome(Outcome(d, [s EXCEPT !.pending = d.resolution,
                             !.pc = IF d.resolution.user = s.user THEN "submit" ELSE "preview"]),
                          d, s, sv, au, n)
  <2> DEFINE q == [s EXCEPT !.pending = d.resolution]
             a == [q EXCEPT !.pc = "submit"]
             b == [q EXCEPT !.pc = "preview"]
             p == [s EXCEPT !.pending = d.resolution,
                            !.pc = IF d.resolution.user = s.user THEN "submit" ELSE "preview"]
  <2>1. s \in TabState /\ d.resolution \in Resolution
    BY <1>1, <1>4 DEF SoundTab, Database
  <2>2. /\ q.pending = d.resolution /\ q.validated = s.validated /\ q.user = s.user
        /\ q.error = s.error /\ q.conflict = s.conflict
    BY <2>1 DEF TabState
  <2>3. SoundTab(q, sv, au, n)
    BY <1>1, <1>4, AdoptSound
  <2>4. p \in {a, b}
    OBVIOUS
  <2> HIDE DEF q
  <2>5. SoundTab(a, sv, au, n) /\ a.validated = s.validated /\ a.user = s.user
    BY <1>1, <1>4, <2>2, <2>3, SubmitSound
  <2>6. SoundTab(b, sv, au, n) /\ b.validated = s.validated /\ b.user = s.user
    BY <1>1, <1>4, <2>2, <2>3, PreviewSound
  <2> HIDE DEF a, b, p
  <2>7. SoundOutcome(Outcome(d, p), d, s, sv, au, n)
    BY <1>1, <2>4, <2>5, <2>6, NoGateStep, OutcomeSound
  <2> QED BY <2>7 DEF p
<1>5. SoundOutcome(ResumedNormalSync(t, d, s), d, s, sv, au, n)
  BY <1>1, ResumedOutcome
<1> QED BY <1>2, <1>3, <1>4, <1>5 DEF GateHeld

LEMMA GateTakenOutcome ==
    ASSUME NEW d, NEW t \in Tab, NEW s, NEW sv, NEW au, NEW n,
           SoundTab(s, sv, au, n), SoundDb(d, sv, au, n), s.pc = "prepare", ~s.error
    PROVE  SoundOutcome(GateTaken(t, d, s), d, s, sv, au, n)
<1>1. /\ d \in Database /\ d.owner \in Owner /\ s \in TabState /\ s.local \in Owner
      /\ ~s.conflict /\ (s.asked \/ s.validated) /\ (s.pending = None => s.validated)
  BY DEF SoundDb, SoundTab, SoundSession, SoundPending, Database, TabState
<1>2. CASE s.pending # None
  <2> DEFINE p == [s EXCEPT !.pc = "submit"]
  <2>1. SoundTab(p, sv, au, n) /\ p.validated = s.validated /\ p.user = s.user
    BY <1>1, <1>2, SubmitSound
  <2>2. GateTaken(t, d, s) = Outcome(d, p)
    BY <1>2 DEF GateTaken
  <2> HIDE DEF p
  <2> QED BY <1>1, <2>1, <2>2, NoGateStep, OutcomeSound
<1>3. CASE s.pending = None /\ d.owner # s.user
  <2> DEFINE l == IF d.owner # None THEN d.owner ELSE s.local
             q == [s EXCEPT !.local = l]
             p == [q EXCEPT !.pc = "preview"]
  <2>1. l \in Owner
    BY <1>1
  <2>2. GateTaken(t, d, s) = Outcome(d, p)
    BY <1>3 DEF GateTaken
  <2> HIDE DEF l
  <2>3. SoundTab(q, sv, au, n) /\ q.user = s.user /\ q.validated = s.validated /\ q.error = s.error
    BY <1>1, <2>1, LocalSound
  <2> HIDE DEF q
  <2>4. SoundTab(p, sv, au, n) /\ p.validated = s.validated /\ p.user = s.user
    BY <1>1, <1>3, <2>3, PreviewSound
  <2> HIDE DEF p
  <2> QED BY <1>1, <2>2, <2>4, NoGateStep, OutcomeSound
<1>4. SoundOutcome(ResumedNormalSync(t, d, s), d, s, sv, au, n)
  BY <1>1, ResumedOutcome
<1> QED BY <1>2, <1>3, <1>4 DEF GateTaken

\* A restart keeps the account's own saved request and drops another account's.
LEMMA RestartedOutcome ==
    ASSUME NEW d, NEW t \in Tab, NEW s, NEW sv, NEW au, NEW n,
           s \in TabState, SoundDb(d, sv, au, n), s.pc \in {"prepare", "idle"},
           s.validated, s.user # None
    PROVE  /\ SoundOutcome(Restarted(t, d, s), d, s, sv, au, n)
           /\ Restarted(t, d, s).tab.pc = s.pc /\ ~Restarted(t, d, s).tab.error
           /\ SoundDb(Restarted(t, d, s).db, sv, au, n)
<1> DEFINE own == OwnResolution(d, s.user)
           acquired == ~(LeaseIsLive(d.gate) /\ d.gate.token # t)
           kept == IF own = None THEN None ELSE [own EXCEPT !.token = t]
           f == [s EXCEPT !.plan = "none", !.asked = FALSE, !.conflict = FALSE]
           g == [f EXCEPT !.error = FALSE, !.blocked = TRUE]
           fresh == [g EXCEPT !.owned = acquired]
           e == [d EXCEPT !.gate = BoundLease(t, s.user), !.resolution = kept]
           p == [fresh EXCEPT !.pending = kept]
           q == [fresh EXCEPT !.pending = own]
<1>1. /\ d \in Database /\ d.resolution \in Resolution \cup {None} /\ s.user \in Owner
      /\ d.resolution # None => SoundRequest(d.resolution, au, n)
  BY DEF SoundDb, Database, TabState
<1>2. /\ own \in Resolution \cup {None}
      /\ own # None => own = d.resolution
      /\ own = None => d.resolution = None \/ d.resolution.user # s.user
  BY <1>1 DEF OwnResolution
<1>3. /\ kept \in Resolution \cup {None}
      /\ own = None => kept = None
      /\ own # None => kept # None /\ SameRequest(own, kept)
  BY <1>2, TokenChanges, Distinct
<1>4. /\ own # None => SoundRequest(own, au, n)
      /\ kept # None => SoundRequest(kept, au, n)
  BY <1>1, <1>2, <1>3, SameRequestSound
<1>5. acquired \in BOOLEAN
  OBVIOUS
<1>6. Restarted(t, d, s) = IF acquired THEN Outcome(e, p) ELSE Outcome(d, q)
  BY DEF Restarted
<1> HIDE DEF own, kept, acquired
<1>7. /\ e \in Database /\ e.owner = d.owner /\ e.revision = d.revision /\ e.queue = d.queue
      /\ e.outgoing = d.outgoing /\ e.resolution = kept
  BY <1>1, <1>3, BoundLeaseGate DEF Database
<1>8. /\ f \in TabState /\ f.pc = s.pc /\ f.user = s.user /\ f.validated /\ f.plan = "none"
      /\ ~f.asked /\ ~f.conflict
  BY DEF TabState
<1> HIDE DEF f, e
<1>19. /\ g \in TabState /\ g.pc = s.pc /\ g.user = s.user /\ g.validated
       /\ g.plan = "none" /\ ~g.asked /\ ~g.conflict /\ ~g.error
  BY <1>8 DEF TabState
<1> HIDE DEF g
<1>9. /\ fresh \in TabState /\ fresh.pc = s.pc /\ fresh.user = s.user /\ fresh.validated
      /\ fresh.plan = "none" /\ ~fresh.asked /\ ~fresh.conflict /\ ~fresh.error
  BY <1>5, <1>19 DEF TabState
<1> HIDE DEF fresh
<1>10. /\ p \in TabState /\ p.pc = s.pc /\ p.user = s.user /\ p.validated /\ p.pending = kept
       /\ p.plan = "none" /\ ~p.asked /\ ~p.conflict /\ ~p.error
  BY <1>3, <1>9 DEF TabState
<1>11. /\ q \in TabState /\ q.pc = s.pc /\ q.user = s.user /\ q.validated /\ q.pending = own
       /\ q.plan = "none" /\ ~q.asked /\ ~q.conflict /\ ~q.error
  BY <1>2, <1>9 DEF TabState
<1> HIDE DEF p, q
<1>12. SoundTab(p, sv, au, n)
  BY <1>4, <1>10 DEF SoundTab, SoundSession, SoundPending, SoundExchange
<1>13. SoundTab(q, sv, au, n)
  BY <1>4, <1>11 DEF SoundTab, SoundSession, SoundPending, SoundExchange
<1>14. GateStep(d, e, p)
  <2>1. CASE own = None
    BY <1>2, <1>3, <1>7, <1>10, <2>1 DEF GateStep
  <2>2. CASE own # None
    BY <1>2, <1>3, <1>7, <2>2 DEF GateStep
  <2> QED BY <2>1, <2>2
<1>15. GateStep(d, d, q)
  BY <1>1, NoGateStep
<1>16. /\ SoundOutcome(Outcome(e, p), d, s, sv, au, n)
       /\ SoundOutcome(Outcome(d, q), d, s, sv, au, n)
  BY <1>10, <1>11, <1>12, <1>13, <1>14, <1>15, OutcomeSound
<1>17. SoundDb(e, sv, au, n)
  BY <1>14, GateStepSound
<1>18. /\ Outcome(e, p).tab = p /\ Outcome(e, p).db = e
       /\ Outcome(d, q).tab = q /\ Outcome(d, q).db = d
  BY DEF Outcome
<1> QED BY <1>6, <1>10, <1>11, <1>16, <1>17, <1>18

LEMMA AcquirePreparationGateOutcome ==
    ASSUME NEW d, NEW t \in Tab, NEW s, NEW sv, NEW au, NEW n,
           SoundTab(s, sv, au, n), SoundDb(d, sv, au, n), s.pc = "prepare", ~s.error
    PROVE  SoundOutcome(AcquirePreparationGate(t, d, s), d, s, sv, au, n)
<1> DEFINE g == AcquiredGate(d, t, s.user)
           o == [s EXCEPT !.owned = TRUE]
           p == [s EXCEPT !.owned = TRUE,
                          !.pending = IF g.resolution # None THEN g.resolution ELSE @]
<1>1. d \in Database /\ s \in TabState /\ s.user \in Owner /\ ~s.conflict /\ s.pending \in Resolution \cup {None}
  BY DEF SoundDb, SoundTab, TabState, SoundPending
<1>2. GateStep(d, g, p) /\ GateStep(d, g, Revalidate(p)) /\ g \in Database
  BY <1>1, AcquiredGateStep DEF GateStep
<1>3. SoundDb(g, sv, au, n) /\ g.resolution \in Resolution \cup {None}
  BY <1>2, GateStepSound DEF Database
<1>4. CASE s.owned
  BY <1>4, GateHeldOutcome DEF AcquirePreparationGate
<1>5. SoundOutcome(Outcome(d, Idle(s)), d, s, sv, au, n)
  BY <1>1, IdleOutcome
<1>6. AcquirePreparationGate(t, d, s) =
        IF s.owned THEN GateHeld(t, d, s)
        ELSE IF d.owner # s.local \/ ~CanAcquireGate(d, t, s.user) THEN Outcome(d, Idle(s))
        ELSE IF p.pending = None \/ p.pending.user = p.user THEN GateTaken(t, g, p)
        ELSE IF ~p.validated THEN Outcome(g, Revalidate(p))
        ELSE IF RestartAllowed(g, p)
        THEN GateTaken(t, Restarted(t, g, p).db, Restarted(t, g, p).tab)
        ELSE Outcome(g, Idle(p))
  BY DEF AcquirePreparationGate
<1> HIDE DEF g
<1>7. /\ SoundTab(o, sv, au, n) /\ o.pc = s.pc /\ o.user = s.user /\ o.validated = s.validated
      /\ o.pending = s.pending /\ ~o.error /\ ~o.conflict
  BY <1>1, OwnedSound
<1>8. p = [o EXCEPT !.pending = IF g.resolution # None THEN g.resolution ELSE @]
  OBVIOUS
<1> HIDE DEF o
<1>9. SoundTab(p, sv, au, n)
  <2>1. CASE g.resolution # None
    <3> DEFINE q == [o EXCEPT !.pending = g.resolution]
    <3>1. SoundTab(q, sv, au, n)
      BY <1>3, <1>7, <2>1, AdoptSound
    <3>2. p = q
      BY <1>8, <2>1
    <3> HIDE DEF p, q
    <3> QED BY <3>1, <3>2
  <2>2. CASE g.resolution = None
    <3>1. o \in TabState
      BY <1>7 DEF SoundTab
    <3>2. [o EXCEPT !.pending = @] = o
      BY <3>1 DEF TabState
    <3>3. p = o
      BY <1>8, <2>2, <3>2
    <3> HIDE DEF p
    <3> QED BY <1>7, <3>3
  <2> QED BY <2>1, <2>2
<1>10. /\ p.pc = s.pc /\ p.user = s.user /\ p.validated = s.validated /\ p.error = s.error
  BY <1>1 DEF TabState
<1> HIDE DEF p
<1>11. SoundOutcome(GateTaken(t, g, p), d, s, sv, au, n)
  <2>1. SoundOutcome(GateTaken(t, g, p), g, p, sv, au, n)
    BY <1>3, <1>9, <1>10, GateTakenOutcome
  <2> QED BY <1>1, <1>2, <1>10, <2>1, SoundOutcomesCompose
<1>12. ASSUME ~p.validated PROVE SoundOutcome(Outcome(g, Revalidate(p)), d, s, sv, au, n)
  BY <1>2, <1>9, <1>10, <1>12, RevalidateSound, OutcomeSound
<1>13. SoundOutcome(Outcome(g, Idle(p)), d, s, sv, au, n)
  <2>1. SoundOutcome(Outcome(g, Idle(p)), g, p, sv, au, n)
    BY <1>2, <1>9, IdleOutcome
  <2> QED BY <1>1, <1>2, <1>10, <2>1, SoundOutcomesCompose
<1>14. ASSUME p.validated
       PROVE  SoundOutcome(GateTaken(t, Restarted(t, g, p).db, Restarted(t, g, p).tab), d, s, sv, au, n)
  <2> DEFINE r == Restarted(t, g, p)
  <2>1. p \in TabState /\ p.user # None
    BY <1>9, <1>14 DEF SoundTab, SoundSession
  <2>2. /\ SoundOutcome(r, g, p, sv, au, n) /\ r.tab.pc = p.pc /\ ~r.tab.error
        /\ SoundDb(r.db, sv, au, n)
    BY <1>3, <1>10, <1>14, <2>1, RestartedOutcome
  <2> HIDE DEF r
  <2>3. /\ SoundTab(r.tab, sv, au, n) /\ r.tab.validated /\ r.tab.user = p.user
        /\ GateStep(g, r.db, r.tab)
    BY <1>14, <2>2 DEF SoundOutcome
  <2>4. SoundOutcome(GateTaken(t, r.db, r.tab), r.db, r.tab, sv, au, n)
    BY <1>10, <2>2, <2>3, GateTakenOutcome
  <2>5. SoundOutcome(GateTaken(t, r.db, r.tab), g, p, sv, au, n)
    BY <1>2, <2>3, <2>4, SoundOutcomesCompose
  <2>6. SoundOutcome(GateTaken(t, r.db, r.tab), d, s, sv, au, n)
    BY <1>1, <1>2, <1>10, <2>5, SoundOutcomesCompose
  <2> QED BY <2>6 DEF r
<1>15. SoundOutcome(GateHeld(t, d, s), d, s, sv, au, n)
  BY GateHeldOutcome
<1> QED BY <1>5, <1>6, <1>11, <1>12, <1>13, <1>14, <1>15

LEMMA BlockedSound ==
    ASSUME NEW s, NEW sv, NEW au, NEW n, SoundTab(s, sv, au, n)
    PROVE  LET p == [s EXCEPT !.blocked = TRUE]
           IN  SoundTab(p, sv, au, n) /\ p.pc = s.pc /\ p.user = s.user /\ p.validated = s.validated
<1> DEFINE p == [s EXCEPT !.blocked = TRUE]
<1>1. s \in TabState
  BY DEF SoundTab
<1>2. /\ p \in TabState /\ p.pc = s.pc /\ p.user = s.user /\ p.validated = s.validated
      /\ p.plan = s.plan /\ p.pending = s.pending /\ p.asked = s.asked /\ p.error = s.error
      /\ p.conflict = s.conflict /\ p.local = s.local /\ p.strategy = s.strategy
      /\ p.claim = s.claim /\ p.reply = s.reply
  BY <1>1 DEF TabState
<1> HIDE DEF p
<1>3. SoundSession(p)
  BY <1>2 DEF SoundTab, SoundSession
<1>4. SoundPending(p, au, n)
  BY <1>2 DEF SoundTab, SoundPending, Asked
<1>5. SoundExchange(p, sv, au)
  BY <1>2 DEF SoundTab, SoundExchange
<1>6. SoundTab(p, sv, au, n) /\ p.pc = s.pc /\ p.user = s.user /\ p.validated = s.validated
  BY <1>2, <1>3, <1>4, <1>5 DEF SoundTab
<1> QED BY <1>6 DEF p

LEMMA PreparedOutcome ==
    ASSUME NEW d, NEW t \in Tab, NEW s, NEW sv, NEW au, NEW n,
           SoundTab(s, sv, au, n), SoundDb(d, sv, au, n), s.pc = "prepare"
    PROVE  /\ GateStep(d, Prepared(t, d, s).db, Prepared(t, d, s).tab)
           /\ SoundTab(Prepared(t, d, s).tab, sv, au, n)
<1> DEFINE b == [s EXCEPT !.blocked = TRUE]
           a == Prepared(t, d, s)
<1>1. a = IF Paused(b) THEN Outcome(d, Idle(b))
          ELSE IF ~NeedsHandoff(b) THEN AcquirePreparationGate(t, d, b)
          ELSE IF b.validated /\ RestartAllowed(d, b)
          THEN AcquirePreparationGate(t, Restarted(t, d, b).db, Restarted(t, d, b).tab)
          ELSE Outcome(d, Revalidate(b))
  BY DEF Prepared
<1>2. SoundTab(b, sv, au, n) /\ b.pc = s.pc /\ b.user = s.user /\ b.validated = s.validated
  BY BlockedSound
<1>3. d \in Database
  BY DEF SoundDb
<1> HIDE DEF b, a
<1>4. CASE Paused(b)
  <2>1. SoundOutcome(a, d, b, sv, au, n)
    BY <1>1, <1>2, <1>3, <1>4, IdleOutcome
  <2> QED BY <2>1 DEF SoundOutcome, a
<1>5. CASE ~Paused(b) /\ ~NeedsHandoff(b)
  <2>1. ~b.error
    BY <1>5 DEF Paused
  <2>2. SoundOutcome(a, d, b, sv, au, n)
    BY <1>1, <1>2, <1>5, <2>1, AcquirePreparationGateOutcome
  <2> QED BY <2>2 DEF SoundOutcome, a
<1>6. CASE a = Outcome(d, Revalidate(b))
  <2>1. a.db = d /\ a.tab = Revalidate(b)
    BY <1>6 DEF Outcome
  <2> QED BY <1>2, <1>3, <2>1, RevalidateSound, NoGateStep DEF a
<1>7. CASE ~Paused(b) /\ b.validated
           /\ a = AcquirePreparationGate(t, Restarted(t, d, b).db, Restarted(t, d, b).tab)
  <2> DEFINE r == Restarted(t, d, b)
  <2>1. b \in TabState /\ b.user # None
    BY <1>2, <1>7 DEF SoundTab, SoundSession
  <2>2. /\ SoundOutcome(r, d, b, sv, au, n) /\ r.tab.pc = b.pc /\ ~r.tab.error
        /\ SoundDb(r.db, sv, au, n)
    BY <1>2, <1>7, <2>1, RestartedOutcome
  <2>3. a = AcquirePreparationGate(t, r.db, r.tab)
    BY <1>7
  <2> HIDE DEF r
  <2>4. /\ SoundTab(r.tab, sv, au, n) /\ r.tab.validated /\ r.tab.user = b.user
        /\ GateStep(d, r.db, r.tab)
    BY <1>7, <2>2 DEF SoundOutcome
  <2>5. SoundOutcome(a, r.db, r.tab, sv, au, n)
    BY <1>2, <2>2, <2>3, <2>4, AcquirePreparationGateOutcome
  <2>6. SoundOutcome(a, d, b, sv, au, n)
    BY <1>3, <2>4, <2>5, SoundOutcomesCompose
  <2> QED BY <2>6 DEF SoundOutcome, a
<1> QED BY <1>1, <1>4, <1>5, <1>6, <1>7

\* A tab whose session is known and in order may rest or prepare.
LEMMA NextSound ==
    ASSUME NEW s, NEW sv, NEW au, NEW n, NEW next \in {"prepare", "idle"},
           SoundTab(s, sv, au, n), s.validated
    PROVE  LET p == [s EXCEPT !.pc = next]
           IN  SoundTab(p, sv, au, n) /\ p.validated = s.validated /\ p.user = s.user
<1> DEFINE p == [s EXCEPT !.pc = next]
<1>1. s \in TabState
  BY DEF SoundTab
<1>2. /\ p \in TabState /\ p.pc = next /\ p.user = s.user /\ p.validated = s.validated
      /\ p.plan = s.plan /\ p.pending = s.pending /\ p.asked = s.asked /\ p.error = s.error
      /\ p.conflict = s.conflict /\ p.local = s.local
  BY <1>1 DEF TabState
<1> HIDE DEF p
<1>3. SoundSession(p)
  BY <1>2 DEF SoundTab, SoundSession
<1>4. SoundPending(p, au, n)
  BY <1>2 DEF SoundTab, SoundPending
<1>5. SoundExchange(p, sv, au)
  BY <1>2 DEF SoundExchange
<1>6. SoundTab(p, sv, au, n) /\ p.validated = s.validated /\ p.user = s.user
  BY <1>2, <1>3, <1>4, <1>5 DEF SoundTab
<1> QED BY <1>6 DEF p

LEMMA SwitchAccountOutcome ==
    ASSUME NEW d, NEW t \in Tab, NEW s, NEW sv, NEW au, NEW n, NEW user \in Account,
           NEW next \in {"prepare", "idle"},
           SoundTab(s, sv, au, n), SoundDb(d, sv, au, n), s.conflict => s.asked
    PROVE  /\ GateStep(d, SwitchAccount(t, d, s, user, next).db, SwitchAccount(t, d, s, user, next).tab)
           /\ SoundTab(SwitchAccount(t, d, s, user, next).tab, sv, au, n)
           /\ SwitchAccount(t, d, s, user, next).tab.pc \in {"idle", next}
<1> DEFINE a == SwitchAccount(t, d, s, user, next)
           i == Idle(s)
           source == IF s.local # None THEN s.local ELSE Current(s)
           w == [i EXCEPT !.user = user, !.local = source, !.validated = TRUE]
           z == [w EXCEPT !.blocked = TRUE, !.binding = BindingOf(d)]
           r == Restarted(t, d, z)
           p == [r.tab EXCEPT !.pc = next]
<1>1. /\ d \in Database /\ s \in TabState /\ s.user \in Owner /\ s.local \in Owner
      /\ d.owner \in Owner /\ d.gate \in Gate \cup {None} /\ user \in Owner
  BY DEF SoundDb, SoundTab, TabState, Database, Owner
<1>2. source \in Owner
  BY <1>1 DEF Current
<1>3. BindingOf(d) \in Owner \X Owner
  BY <1>1 DEF BindingOf, GateOwner, Gate, Owner
<1>4. /\ i \in TabState /\ i.pc = "idle" /\ i.pending = s.pending /\ i.asked = s.asked
      /\ i.error = s.error /\ i.conflict = s.conflict
  BY <1>1, IdleFields
<1>5. a = IF RestartAllowed(d, z) THEN Outcome(r.db, p) ELSE Outcome(d, z)
  BY DEF SwitchAccount
<1> HIDE DEF source, i
<1>6. /\ w \in TabState /\ w.pc = "idle" /\ w.user = user /\ w.validated
      /\ w.pending = s.pending /\ w.asked = s.asked /\ w.error = s.error /\ w.conflict = s.conflict
  BY <1>1, <1>2, <1>4 DEF TabState
<1> HIDE DEF w
<1>7. /\ z \in TabState /\ z.pc = "idle" /\ z.user = user /\ z.validated
      /\ z.pending = s.pending /\ z.asked = s.asked /\ z.error = s.error /\ z.conflict = s.conflict
  BY <1>3, <1>6 DEF TabState
<1> HIDE DEF z
<1>8. user # None
  BY Distinct
<1>9. SoundTab(z, sv, au, n)
  <2>1. /\ s.pending # None => SoundRequest(s.pending, au, n)
        /\ s.error => s.pending # None
        /\ s.conflict => s.error
    BY DEF SoundTab, SoundPending
  <2> QED BY <1>7, <1>8, <2>1, RestSound
<1>10. /\ SoundOutcome(r, d, z, sv, au, n) /\ r.tab.pc = "idle" /\ ~r.tab.error
  BY <1>7, <1>8, RestartedOutcome
<1> HIDE DEF r
<1>11. SoundTab(r.tab, sv, au, n) /\ r.tab.validated /\ GateStep(d, r.db, r.tab)
  BY <1>7, <1>10 DEF SoundOutcome
<1>12. /\ SoundTab(p, sv, au, n) /\ p.validated = r.tab.validated /\ p.user = r.tab.user
       /\ p.pc = next
  <2>1. r.tab \in TabState
    BY <1>11 DEF SoundTab
  <2>2. p.pc = next
    BY <2>1 DEF TabState
  <2> QED BY <1>11, <2>2, NextSound
<1>13. GateStep(d, r.db, p)
  BY <1>11, <1>12 DEF GateStep
<1> HIDE DEF p, a
<1>14. GateStep(d, d, z)
  BY <1>1, NoGateStep
<1>15. GateStep(d, a.db, a.tab) /\ SoundTab(a.tab, sv, au, n) /\ a.tab.pc \in {"idle", next}
  BY <1>5, <1>7, <1>9, <1>12, <1>13, <1>14 DEF Outcome
<1> QED BY <1>15 DEF a

LEMMA OfflineOwnerOutcome ==
    ASSUME NEW d, NEW t \in Tab, NEW s, NEW sv, NEW au, NEW n,
           SoundTab(s, sv, au, n), SoundDb(d, sv, au, n)
    PROVE  /\ GateStep(d, OfflineOwner(t, d, s).db, OfflineOwner(t, d, s).tab)
           /\ SoundTab(OfflineOwner(t, d, s).tab, sv, au, n)
<1> DEFINE a == OfflineOwner(t, d, s)
           i == Idle(s)
           p == [i EXCEPT !.user = s.local, !.blocked = FALSE, !.owned = FALSE]
<1>1. d \in Database /\ s \in TabState /\ s.local \in Owner
  BY DEF SoundDb, SoundTab, TabState
<1>2. /\ i \in TabState /\ i.pc = "idle" /\ i.pending = s.pending /\ i.asked = s.asked
      /\ i.error = s.error /\ i.conflict = s.conflict /\ i.validated = s.validated
  BY <1>1, IdleFields
<1>3. GateStep(d, d, i) /\ SoundTab(i, sv, au, n)
  BY <1>1, NoGateStep, IdleSound
<1>6. ASSUME s.local # None, s.pending = None, ~s.validated
      PROVE  SoundTab(p, sv, au, n)
  <2> HIDE DEF i
  <2>1. ~s.error /\ ~s.conflict
    BY <1>6 DEF SoundTab, SoundPending
  <2>2. /\ p \in TabState /\ p.pc = "idle" /\ p.user = s.local /\ ~p.validated
        /\ p.pending = None /\ ~p.error /\ ~p.conflict
    BY <1>1, <1>2, <1>6, <2>1 DEF TabState
  <2> HIDE DEF p
  <2> QED BY <1>6, <2>2, RestSound
<1>7. GateStep(d, ClearedGate(d), p)
  BY <1>1, ClearedGateStep
<1>8. CASE ~s.validated /\ s.local # None /\ s.owned /\ s.pending = None
           /\ d.owner = s.local /\ CanClearGate(d, t)
  <2>1. a = Outcome(ClearedGate(d), p)
    BY <1>8 DEF OfflineOwner
  <2> HIDE DEF a, p
  <2>2. a.db = ClearedGate(d) /\ a.tab = p
    BY <2>1 DEF Outcome
  <2> QED BY <1>6, <1>7, <1>8, <2>2 DEF a
<1>9. CASE ~(~s.validated /\ s.local # None /\ s.owned /\ s.pending = None
           /\ d.owner = s.local /\ CanClearGate(d, t))
  <2>1. a = Outcome(d, i)
    BY <1>9 DEF OfflineOwner
  <2> HIDE DEF a, i
  <2>2. a.db = d /\ a.tab = i
    BY <2>1 DEF Outcome
  <2> QED BY <1>3, <2>2 DEF a
<1> QED BY <1>8, <1>9

\* A preparation is over when it commits.
LEMMA GatePc ==
    ASSUME NEW s \in TabState, NEW d \in Database, NEW t \in Tab
    PROVE  GateHeld(t, d, s).tab.pc # "prepare" /\ GateTaken(t, d, s).tab.pc # "prepare"
<1>1. \A pc \in {"submit", "preview"} : [s EXCEPT !.pc = pc].pc # "prepare"
  BY DEF TabState
<1>2. ResumedNormalSync(t, d, s).tab.pc # "prepare"
  <2> DEFINE i == Idle(s)
  <2>1. i \in TabState /\ i.pc = "idle"
    BY IdleFields
  <2>2. /\ [i EXCEPT !.local = s.user, !.pending = None, !.blocked = FALSE, !.owned = FALSE].pc = "idle"
        /\ [i EXCEPT !.local = s.user].pc = "idle"
    BY <2>1 DEF TabState
  <2> QED BY <2>2 DEF ResumedNormalSync, Outcome
<1>3. \A x, pc : pc \in {"submit", "preview"} => [s EXCEPT !.pending = x, !.pc = pc].pc # "prepare"
  BY DEF TabState
<1>4. \A x : [s EXCEPT !.local = x, !.pc = "preview"].pc # "prepare"
  BY DEF TabState
<1>5. GateHeld(t, d, s).tab.pc # "prepare"
  BY <1>1, <1>2, <1>3 DEF GateHeld, Outcome
<1>6. GateTaken(t, d, s).tab.pc # "prepare"
  BY <1>1, <1>2, <1>4 DEF GateTaken, Outcome
<1> QED BY <1>5, <1>6

LEMMA AcquirePreparationGatePc ==
    ASSUME NEW d, NEW t \in Tab, NEW s, NEW sv, NEW au, NEW n,
           s \in TabState, SoundDb(d, sv, au, n), s.pc = "prepare", s.validated => s.user # None
    PROVE  AcquirePreparationGate(t, d, s).tab.pc # "prepare"
<1> DEFINE g == AcquiredGate(d, t, s.user)
           p == [s EXCEPT !.owned = TRUE,
                          !.pending = IF g.resolution # None THEN g.resolution ELSE @]
           r == Restarted(t, g, p)
<1>1. d \in Database /\ s.user \in Owner
  BY DEF SoundDb, TabState
<1>2. GateStep(d, g, s) /\ g \in Database
  BY <1>1, AcquiredGateStep DEF GateStep
<1>3. SoundDb(g, sv, au, n) /\ g.resolution \in Resolution \cup {None}
  BY <1>2, GateStepSound DEF Database
<1>4. AcquirePreparationGate(t, d, s) =
        IF s.owned THEN GateHeld(t, d, s)
        ELSE IF d.owner # s.local \/ ~CanAcquireGate(d, t, s.user) THEN Outcome(d, Idle(s))
        ELSE IF p.pending = None \/ p.pending.user = p.user THEN GateTaken(t, g, p)
        ELSE IF ~p.validated THEN Outcome(g, Revalidate(p))
        ELSE IF RestartAllowed(g, p) THEN GateTaken(t, r.db, r.tab)
        ELSE Outcome(g, Idle(p))
  BY DEF AcquirePreparationGate
<1> HIDE DEF g
<1>5. p \in TabState /\ p.pc = s.pc /\ p.user = s.user /\ p.validated = s.validated
  BY <1>3 DEF TabState
<1> HIDE DEF p
<1>6. ASSUME p.validated PROVE r.tab \in TabState /\ r.db \in Database
  <2>1. SoundOutcome(r, g, p, sv, au, n) /\ SoundDb(r.db, sv, au, n)
    BY <1>3, <1>5, <1>6, RestartedOutcome
  <2> QED BY <2>1 DEF SoundOutcome, SoundTab, SoundDb
<1> HIDE DEF r
<1>7. GateHeld(t, d, s).tab.pc # "prepare" /\ GateTaken(t, g, p).tab.pc # "prepare"
  BY <1>1, <1>2, <1>5, GatePc
<1>8. ASSUME p.validated PROVE GateTaken(t, r.db, r.tab).tab.pc # "prepare"
  BY <1>6, <1>8, GatePc
<1>9. /\ Outcome(d, Idle(s)).tab.pc = "idle" /\ Outcome(g, Idle(p)).tab.pc = "idle"
      /\ Outcome(g, Revalidate(p)).tab.pc = "idle"
  BY <1>5, IdleFields, RevalidateFields DEF Outcome
<1> QED BY <1>4, <1>7, <1>8, <1>9

LEMMA PreparedPc ==
    ASSUME NEW d, NEW t \in Tab, NEW s, NEW sv, NEW au, NEW n,
           SoundTab(s, sv, au, n), SoundDb(d, sv, au, n), s.pc = "prepare"
    PROVE  Prepared(t, d, s).tab.pc # "prepare"
<1> DEFINE b == [s EXCEPT !.blocked = TRUE]
           r == Restarted(t, d, b)
<1>1. Prepared(t, d, s) =
          IF Paused(b) THEN Outcome(d, Idle(b))
          ELSE IF ~NeedsHandoff(b) THEN AcquirePreparationGate(t, d, b)
          ELSE IF b.validated /\ RestartAllowed(d, b) THEN AcquirePreparationGate(t, r.db, r.tab)
          ELSE Outcome(d, Revalidate(b))
  BY DEF Prepared
<1>2. SoundTab(b, sv, au, n) /\ b.pc = "prepare"
  BY BlockedSound
<1> HIDE DEF b
<1>3. b \in TabState /\ (b.validated => b.user # None)
  BY <1>2 DEF SoundTab, SoundSession
<1>4. Outcome(d, Idle(b)).tab.pc = "idle" /\ Outcome(d, Revalidate(b)).tab.pc = "idle"
  BY <1>3, IdleFields, RevalidateFields DEF Outcome
<1>5. AcquirePreparationGate(t, d, b).tab.pc # "prepare"
  BY <1>2, <1>3, AcquirePreparationGatePc
<1>6. ASSUME b.validated PROVE AcquirePreparationGate(t, r.db, r.tab).tab.pc # "prepare"
  <2>1. /\ SoundOutcome(r, d, b, sv, au, n) /\ r.tab.pc = b.pc /\ SoundDb(r.db, sv, au, n)
    BY <1>2, <1>3, <1>6, RestartedOutcome
  <2> HIDE DEF r
  <2>2. r.tab \in TabState /\ (r.tab.validated => r.tab.user # None)
    BY <2>1 DEF SoundOutcome, SoundTab, SoundSession
  <2> QED BY <1>2, <2>1, <2>2, AcquirePreparationGatePc
<1> QED BY <1>1, <1>4, <1>5, <1>6
----------------------------------------------------------------------------
(* What every step keeps, besides the invariant.                           *)

SentKept ==
    db.resolution # None /\ db.resolution.delivered =>
      \/ db'.resolution # None
         /\ db'.resolution = [db.resolution EXCEPT !.token = db'.resolution.token]
      \/ db'.resolution = None /\ db'.owner = db.resolution.user
         /\ server[db'.owner].resolved[db.resolution.id] # None
      \/ db'.resolution = None /\ db'.owner = db.owner
         /\ \E t \in Tab : /\ tab'[t] # tab[t] /\ tab'[t].validated
                          /\ tab'[t].user # db.resolution.user

NotOlder == db'.owner = db.owner => db'.revision >= db.revision

Crossing ==
    \A a \in Account : \A o \in server'[a].log \ server[a].log :
      \/ author[o] \in {"anonymous", a}
      \/ \E r \in Underway : r.user = a /\ o \in r.sent /\ r.asked

StepKept == SentKept /\ NotOlder /\ Crossing

LEMMA DbSame ==
    ASSUME Inv, db' = db
    PROVE  SentKept /\ NotOlder
<1>1. db \in Database /\ db.revision \in Nat /\ db.resolution \in Resolution \cup {None}
  BY DEF Inv, SoundDb, Database
<1>2. db.resolution # None => db.resolution = [db.resolution EXCEPT !.token = db.resolution.token]
  BY <1>1 DEF Resolution
<1> QED BY <1>1, <1>2 DEF SentKept, NotOlder

LEMMA ServerSame ==
    ASSUME server' = server
    PROVE  Crossing
BY DEF Crossing

\* A step of one tab that is a step of the gate.
LEMMA GateInv ==
    ASSUME Inv, NEW t \in Tab, NEW s, tab' = [tab EXCEPT ![t] = s],
           server' = server, cookie' = cookie, late' = late, requests' = requests, author' = author,
           faults' \in Faults,
           SoundTab(s, server, author, requests), GateStep(db, db', s), db' = db \/ s # tab[t]
    PROVE  Inv' /\ StepKept
<1>1. SoundDb(db, server, author, requests) /\ db \in Database /\ tab \in [Tab -> TabState]
  BY DEF Inv, Shapes, SoundDb
<1>2. SoundDb(db', server, author, requests)
  BY <1>1, GateStepSound
<1>3. Inv'
  BY <1>2, QuietInv
<1>4. Crossing
  BY ServerSame
<1>5. CASE db' = db
  BY <1>3, <1>4, <1>5, DbSame DEF StepKept
<1>6. CASE s # tab[t]
  <2>1. tab'[t] = s
    BY <1>1
  <2>2. NotOlder
    BY <1>1 DEF NotOlder, GateStep, Database
  <2>3. CASE db'.resolution = db.resolution
    <3>1. db.resolution # None => db.resolution = [db.resolution EXCEPT !.token = db.resolution.token]
      BY <1>1 DEF Resolution, Database
    <3>2. SentKept
      BY <2>3, <3>1 DEF SentKept
    <3> QED BY <1>3, <1>4, <2>2, <3>2 DEF StepKept
  <2>4. CASE db'.resolution # None /\ SameRequest(db.resolution, db'.resolution)
    BY <1>3, <1>4, <2>2, <2>4 DEF SentKept, SameRequest, StepKept
  <2>5. CASE db'.resolution = None /\ s.validated /\ s.user # db.resolution.user
    <3>1. SentKept
      BY <1>6, <2>1, <2>5 DEF SentKept, GateStep
    <3> QED BY <1>3, <1>4, <2>2, <3>1 DEF StepKept
  <2> QED BY <2>3, <2>4, <2>5 DEF GateStep
<1> QED BY <1>5, <1>6

\* The same without touching the database.
LEMMA TabOnlyInv ==
    ASSUME Inv, NEW t \in Tab, NEW s, tab' = [tab EXCEPT ![t] = s], db' = db,
           server' = server, cookie' = cookie, late' = late, requests' = requests, author' = author,
           faults' \in Faults, SoundTab(s, server, author, requests)
    PROVE  Inv' /\ StepKept
<1>1. db \in Database
  BY DEF Inv, SoundDb
<1>2. GateStep(db, db', s)
  BY <1>1, NoGateStep
<1> QED BY <1>2, GateInv

\* A step that leaves the tabs alone.
LEMMA WorldInv ==
    ASSUME Inv, tab' = tab, Shapes',
           ServerGrows(server, server', requests'), AuthorGrows(author, author'),
           requests <= requests', SoundServer(server', requests'),
           SoundDb(db', server', author', requests'),
           \A r \in late' : SoundRequest(r, author', requests')
    PROVE  Inv'
<1>1. requests \in Nat /\ requests' \in Nat
  BY BootstrapAssumption DEF Inv, Shapes
<1>2. ASSUME NEW u \in Tab PROVE SoundTab(tab'[u], server', author', requests')
  BY <1>1, TabStays DEF Inv, Shapes
<1> QED BY <1>2 DEF Inv
----------------------------------------------------------------------------
(* The steps of a tab.                                                     *)

LEMMA BindingType ==
    ASSUME NEW d \in Database
    PROVE  BindingOf(d) \in Owner \X Owner
BY DEF BindingOf, GateOwner, Gate, Owner, Database

LEMMA PrepareInv ==
    ASSUME Inv, NEW t \in Tab, Prepare(t)
    PROVE  Inv' /\ StepKept
<1> DEFINE s == Prepared(t, db, tab[t]).tab
<1>1. /\ tab[t].pc = "prepare" /\ db' = Prepared(t, db, tab[t]).db /\ tab' = [tab EXCEPT ![t] = s]
      /\ server' = server /\ cookie' = cookie /\ late' = late /\ requests' = requests
      /\ faults' = faults /\ author' = author
  BY DEF Prepare, Commit, Step
<1>2. /\ SoundTab(tab[t], server, author, requests) /\ SoundDb(db, server, author, requests)
      /\ faults \in Faults
  BY DEF Inv, Shapes
<1>3. GateStep(db, db', s) /\ SoundTab(s, server, author, requests)
  BY <1>1, <1>2, PreparedOutcome
<1>4. s.pc # "prepare"
  BY <1>1, <1>2, PreparedPc
<1> HIDE DEF s
<1>5. s # tab[t]
  BY <1>1, <1>4
<1> QED BY <1>1, <1>2, <1>3, <1>5, GateInv

LEMMA OpenTabInv ==
    ASSUME Inv, NEW t \in Tab, OpenTab(t)
    PROVE  Inv' /\ StepKept
<1> DEFINE acquired == CanAcquireGate(db, t, db.owner)
           d == IF acquired THEN AcquiredGate(db, t, db.owner) ELSE db
           a == [ClosedTab EXCEPT !.pc = "start", !.user = db.owner, !.local = db.owner]
           s == [a EXCEPT !.owned = acquired, !.pending = d.resolution, !.binding = BindingOf(d)]
<1>1. /\ tab[t].pc = "closed" /\ db' = d /\ tab' = [tab EXCEPT ![t] = s]
      /\ server' = server /\ cookie' = cookie /\ late' = late /\ requests' = requests
      /\ faults' = faults /\ author' = author
  BY DEF OpenTab, Open, Commit, Step, Outcome
<1>2. /\ SoundDb(db, server, author, requests) /\ faults \in Faults
      /\ db \in Database /\ db.owner \in Owner
  BY DEF Inv, Shapes, SoundDb, Database
<1>3. GateStep(db, d, s) /\ acquired \in BOOLEAN
  BY <1>2, AcquiredGateStep, NoGateStep DEF CanAcquireGate
<1> HIDE DEF d, acquired
<1>4. SoundDb(d, server, author, requests) /\ d \in Database
  BY <1>2, <1>3, GateStepSound DEF GateStep
<1>5. /\ a \in TabState /\ a.pc = "start" /\ ~a.validated /\ a.plan = "none" /\ ~a.error /\ ~a.conflict
  BY <1>2 DEF ClosedTab, TabState, Strategy, Owner
<1> HIDE DEF a
<1>6. BindingOf(d) \in Owner \X Owner
  BY <1>4, BindingType
<1>7. /\ s \in TabState /\ s.pc = "start" /\ ~s.validated /\ s.plan = "none" /\ ~s.error
      /\ ~s.conflict /\ s.pending = d.resolution
  BY <1>3, <1>4, <1>5, <1>6 DEF TabState, Database
<1> HIDE DEF s
<1>8. SoundTab(s, server, author, requests)
  BY <1>4, <1>7 DEF SoundTab, SoundSession, SoundPending, SoundExchange, SoundDb
<1>9. s # tab[t]
  BY <1>1, <1>7
<1> QED BY <1>1, <1>2, <1>3, <1>8, <1>9, GateInv

LEMMA ResumeInv ==
    ASSUME Inv, NEW t \in Tab, Resume(t)
    PROVE  Inv' /\ StepKept
<1> DEFINE o == tab[t]
           b == BindingOf(db)
           p == [o EXCEPT !.pc = "prepare"]
           q == [o EXCEPT !.pc = "session", !.binding = b]
<1>1. /\ o.pc = "idle" /\ tab' = [tab EXCEPT ![t] = IF o.validated THEN p ELSE q] /\ db' = db
      /\ server' = server /\ cookie' = cookie /\ late' = late /\ requests' = requests
      /\ faults' = faults /\ author' = author
  BY DEF Resume, Step
<1>2. /\ SoundTab(o, server, author, requests) /\ o \in TabState /\ db \in Database
      /\ faults \in Faults
  BY DEF Inv, Shapes, SoundTab, SoundDb
<1>3. b \in Owner \X Owner
  BY <1>2, BindingType
<1> HIDE DEF o, b
<1>4. ASSUME o.validated PROVE SoundTab(p, server, author, requests)
  BY <1>2, <1>4, NextSound
<1>5. ASSUME ~o.validated PROVE SoundTab(q, server, author, requests)
  <2>1. /\ q \in TabState /\ q.pc = "session" /\ q.user = o.user /\ q.validated = o.validated
        /\ q.plan = o.plan /\ q.pending = o.pending /\ q.asked = o.asked /\ q.error = o.error
        /\ q.conflict = o.conflict /\ q.local = o.local
    BY <1>2, <1>3 DEF TabState
  <2> HIDE DEF q
  <2>2. SoundSession(q)
    BY <1>2, <1>5, <2>1 DEF SoundTab, SoundSession
  <2>3. SoundPending(q, author, requests)
    BY <1>2, <2>1 DEF SoundTab, SoundPending
  <2> QED BY <2>1, <2>2, <2>3 DEF SoundTab, SoundExchange
<1> HIDE DEF p, q
<1>6. SoundTab(IF o.validated THEN p ELSE q, server, author, requests)
  BY <1>4, <1>5
<1> QED BY <1>1, <1>2, <1>6, TabOnlyInv

\* A conflict in a tab that has no valid session was chosen by the user.
LEMMA SessionAnswerInv ==
    ASSUME Inv, NEW t \in Tab, SessionAnswer(t)
    PROVE  Inv' /\ StepKept
<1> DEFINE s == tab[t]
           next == IF s.pc = "start" THEN "prepare" ELSE "idle"
           w == SwitchAccount(t, db, s, cookie, next)
           known == [s EXCEPT !.user = cookie, !.validated = TRUE]
           pc == IF s.pc = "start" \/ NeedsBootstrap(known) THEN "prepare" ELSE "idle"
           k == [known EXCEPT !.pc = pc]
<1>1. /\ s.pc \in {"start", "session"}
      /\ db' = (IF Current(s) \notin {None, cookie} THEN w ELSE Outcome(db, k)).db
      /\ tab' = [tab EXCEPT ![t] = (IF Current(s) \notin {None, cookie} THEN w ELSE Outcome(db, k)).tab]
      /\ server' = server /\ cookie' = cookie /\ late' = late /\ requests' = requests
      /\ faults' = faults /\ author' = author
  BY DEF SessionAnswer, Commit, Step
<1>2. /\ SoundTab(s, server, author, requests) /\ s \in TabState
      /\ SoundDb(db, server, author, requests) /\ db \in Database /\ cookie \in Account
      /\ faults \in Faults
  BY DEF Inv, Shapes, SoundTab, SoundDb
<1>3. ~s.validated /\ (s.conflict => s.error /\ s.asked) /\ (s.error => s.asked /\ s.pending # None)
  BY <1>1, <1>2 DEF SoundTab, SoundSession, SoundPending
<1> HIDE DEF s
<1>4. CASE Current(s) \notin {None, cookie}
  <2>1. next \in {"prepare", "idle"}
    OBVIOUS
  <2>2. db' = w.db /\ tab' = [tab EXCEPT ![t] = w.tab]
    BY <1>1, <1>4
  <2> HIDE DEF next
  <2>3. /\ GateStep(db, w.db, w.tab) /\ SoundTab(w.tab, server, author, requests)
        /\ w.tab.pc \in {"idle", next}
    BY <1>2, <1>3, <2>1, SwitchAccountOutcome
  <2> HIDE DEF w
  <2>4. w.tab # s
    BY <1>1, <2>1, <2>3 DEF s
  <2>5. /\ server' = server /\ cookie' = cookie /\ late' = late /\ requests' = requests
        /\ faults' \in Faults /\ author' = author
    BY <1>1, <1>2
  <2>6. GateStep(db, db', w.tab) /\ w.tab # tab[t]
    BY <2>2, <2>3, <2>4 DEF s
  <2> QED BY <2>2, <2>3, <2>5, <2>6, GateInv
<1>5. CASE Current(s) \in {None, cookie}
  <2>1. pc \in {"prepare", "idle"} /\ cookie \in Owner /\ cookie # None
    BY <1>2, Distinct DEF Owner
  <2>2. db' = db /\ tab' = [tab EXCEPT ![t] = k]
    BY <1>1, <1>5 DEF Outcome
  <2>3. /\ known \in TabState /\ known.user = cookie /\ known.validated
        /\ known.plan = s.plan /\ known.pending = s.pending /\ known.asked = s.asked
        /\ known.error = s.error /\ known.conflict = s.conflict
    BY <1>2, <2>1 DEF TabState
  <2> HIDE DEF known, pc
  <2>4. /\ k \in TabState /\ k.pc = pc /\ k.user = cookie /\ k.validated
        /\ k.plan = s.plan /\ k.pending = s.pending /\ k.asked = s.asked
        /\ k.error = s.error /\ k.conflict = s.conflict
    BY <2>1, <2>3 DEF TabState
  <2> HIDE DEF k
  <2>5. SoundSession(k)
    BY <2>1, <2>4 DEF SoundSession
  <2>6. SoundPending(k, author, requests)
    BY <1>2, <1>3, <2>1, <2>4 DEF SoundTab, SoundPending
  <2>7. SoundTab(k, server, author, requests)
    BY <2>1, <2>4, <2>5, <2>6 DEF SoundTab, SoundExchange
  <2> QED BY <1>1, <1>2, <2>2, <2>7, TabOnlyInv
<1> QED BY <1>4, <1>5

\* The counters of faults stay within their bounds.
LEMMA FaultTyped ==
    ASSUME faults \in Faults, Fault
    PROVE  faults' \in Faults
BY BootstrapAssumption DEF Fault, Faults

LEMMA SessionFailedInv ==
    ASSUME Inv, NEW t \in Tab, SessionFailed(t)
    PROVE  Inv' /\ StepKept
<1> DEFINE s == OfflineOwner(t, db, tab[t]).tab
<1>1. /\ tab[t].pc \in {"start", "session"} /\ db' = OfflineOwner(t, db, tab[t]).db
      /\ tab' = [tab EXCEPT ![t] = s]
      /\ server' = server /\ cookie' = cookie /\ late' = late /\ requests' = requests
      /\ author' = author
  BY DEF SessionFailed, Commit, Step
<1>2. /\ SoundTab(tab[t], server, author, requests) /\ SoundDb(db, server, author, requests)
      /\ tab[t] \in TabState /\ faults \in Faults
  BY DEF Inv, Shapes, SoundTab
<1>3. faults' \in Faults
  BY <1>2, FaultTyped DEF SessionFailed
<1>4. GateStep(db, db', s) /\ SoundTab(s, server, author, requests)
  BY <1>1, <1>2, OfflineOwnerOutcome
<1>5. s.pc = "idle"
  <2> DEFINE i == Idle(tab[t])
             e == [i EXCEPT !.user = tab[t].local, !.blocked = FALSE, !.owned = FALSE]
             a == OfflineOwner(t, db, tab[t])
  <2>1. i \in TabState /\ i.pc = "idle"
    BY <1>2, IdleFields
  <2>2. e.pc = "idle"
    BY <2>1 DEF TabState
  <2>3. a \in {Outcome(ClearedGate(db), e), Outcome(db, i)}
    BY DEF OfflineOwner
  <2>4. s = a.tab
    OBVIOUS
  <2>5. \A d, x : Outcome(d, x).tab = x
    BY DEF Outcome
  <2> HIDE DEF s, i, e, a
  <2> QED BY <2>1, <2>2, <2>3, <2>4, <2>5
<1> HIDE DEF s
<1>6. s # tab[t]
  BY <1>1, <1>5
<1> QED BY <1>1, <1>3, <1>4, <1>6, GateInv

\* The history the account answered with is planned for.
LEMMA PreviewedSound ==
    ASSUME NEW s, NEW preview \in Nat, NEW sv, NEW au, NEW n, SoundTab(s, sv, au, n)
    PROVE  LET p == [s EXCEPT !.preview = preview]
           IN  SoundTab(p, sv, au, n) /\ p.pc = s.pc /\ p.user = s.user /\ p.local = s.local
               /\ p.validated = s.validated /\ p.error = s.error
<1> DEFINE p == [s EXCEPT !.preview = preview]
<1>1. s \in TabState
  BY DEF SoundTab
<1>2. /\ p \in TabState /\ p.pc = s.pc /\ p.user = s.user /\ p.validated = s.validated
      /\ p.plan = s.plan /\ p.pending = s.pending /\ p.asked = s.asked /\ p.error = s.error
      /\ p.conflict = s.conflict /\ p.local = s.local /\ p.strategy = s.strategy
      /\ p.claim = s.claim /\ p.reply = s.reply
  BY <1>1 DEF TabState
<1> HIDE DEF p
<1>3. SoundSession(p)
  BY <1>2 DEF SoundTab, SoundSession
<1>4. SoundPending(p, au, n)
  BY <1>2 DEF SoundTab, SoundPending, Asked
<1>5. SoundExchange(p, sv, au)
  BY <1>2 DEF SoundTab, SoundExchange
<1>6. /\ SoundTab(p, sv, au, n) /\ p.pc = s.pc /\ p.user = s.user /\ p.local = s.local
      /\ p.validated = s.validated /\ p.error = s.error
  BY <1>2, <1>3, <1>4, <1>5 DEF SoundTab
<1> QED BY <1>6 DEF p

\* Nothing but the account's own state is taken over, unless the profile has no owner
\* or this one.
LEMMA PlannedSound ==
    ASSUME NEW s, NEW d, NEW sv, NEW au, NEW n, SoundTab(s, sv, au, n), s.pc = "preview",
           d.owner = s.local, NEW p \in Planned(d, s)
    PROVE  SoundTab(p, sv, au, n)
<1>1. PICK plan \in Plans(d, s.user) :
        p = [s EXCEPT !.plan = Dialog(d, s.user, plan[1]), !.strategy = plan[2], !.asked = FALSE,
                      !.pc = IF Dialog(d, s.user, plan[1]) = "none" THEN "capture" ELSE "idle"]
  BY DEF Planned
<1> DEFINE dialog == Dialog(d, s.user, plan[1])
           strategy == plan[2]
           pc == IF dialog = "none" THEN "capture" ELSE "idle"
           a == [s EXCEPT !.plan = dialog, !.strategy = strategy]
           b == [a EXCEPT !.asked = FALSE, !.pc = pc]
<1>2. dialog \in {"none", "choose", "confirm"} /\ strategy \in Strategy
  BY DEF Dialog, Plans, Strategy
<1>3. dialog = "none" => s.local \in {None, s.user}
  BY DEF Dialog
<1>4. p = b
  BY <1>1
<1>5. /\ s \in TabState /\ s.validated /\ ~s.error /\ ~s.conflict /\ s.user # None
      /\ s.pending # None => SoundRequest(s.pending, au, n)
  BY DEF SoundTab, SoundSession, SoundPending
<1>6. pc \in {"capture", "idle"} /\ (pc = "capture" => s.local \in {None, s.user})
  BY <1>3
<1> HIDE DEF dialog, strategy, pc
<1>7. /\ a \in TabState /\ a.user = s.user /\ a.local = s.local /\ a.validated
      /\ ~a.error /\ ~a.conflict /\ a.pending = s.pending
  BY <1>2, <1>5 DEF TabState
<1> HIDE DEF a
<1>8. /\ b \in TabState /\ b.pc = pc /\ b.user = s.user /\ b.local = s.local /\ b.validated
      /\ ~b.error /\ ~b.conflict /\ b.pending = s.pending
  BY <1>6, <1>7 DEF TabState
<1> HIDE DEF b
<1>9. SoundTab(b, sv, au, n)
  BY <1>5, <1>6, <1>8 DEF SoundTab, SoundSession, SoundPending, SoundExchange
<1> QED BY <1>4, <1>9

LEMMA PreviewInv ==
    ASSUME Inv, NEW t \in Tab, Preview(t)
    PROVE  Inv' /\ StepKept
<1> DEFINE o == tab[t]
           x == server[o.user].revision
           s == [o EXCEPT !.preview = x]
           a == ResumedNormalSync(t, db, s)
<1>1. /\ o.pc = "preview"
      /\ server' = server /\ cookie' = cookie /\ late' = late /\ requests' = requests
      /\ faults' = faults /\ author' = author
  BY DEF Preview
<1>2. \/ db' = db /\ tab' = [tab EXCEPT ![t] = Idle(o)]
      \/ db' = a.db /\ tab' = [tab EXCEPT ![t] = a.tab]
      \/ /\ db.owner = s.local /\ db' = db
         /\ \E p \in Planned(db, s) : tab' = [tab EXCEPT ![t] = p]
  BY DEF Preview, Commit, Step, Outcome
<1>3. /\ SoundTab(o, server, author, requests) /\ o \in TabState
      /\ SoundDb(db, server, author, requests) /\ db \in Database
      /\ faults' \in Faults /\ server \in [Account -> AccountState]
  BY <1>1 DEF Inv, Shapes, SoundTab, SoundDb
<1>4. x \in Nat
  <2>1. o.user \in Account
    BY <1>1, <1>3 DEF SoundTab, SoundSession, TabState, Owner
  <2> QED BY <1>3, <2>1 DEF AccountState
<1> HIDE DEF x, o
<1>5. /\ SoundTab(s, server, author, requests) /\ s.pc = "preview" /\ ~s.error
      /\ s.local = o.local
  <2>1. ~o.error
    BY <1>1, <1>3 DEF SoundTab, SoundSession
  <2> QED BY <1>1, <1>3, <1>4, <2>1, PreviewedSound
<1> HIDE DEF s
<1>6. CASE db' = db /\ tab' = [tab EXCEPT ![t] = Idle(o)]
  <2>1. SoundTab(Idle(o), server, author, requests)
    BY <1>3, IdleSound
  <2> QED BY <1>1, <1>3, <1>6, <2>1, TabOnlyInv
<1>7. CASE db' = a.db /\ tab' = [tab EXCEPT ![t] = a.tab]
  <2>1. SoundOutcome(a, db, s, server, author, requests)
    BY <1>3, <1>5, ResumedOutcome
  <2>2. a.tab.pc = "idle"
    <3> DEFINE i == Idle(s)
               p == [i EXCEPT !.local = s.user, !.pending = None, !.blocked = FALSE, !.owned = FALSE]
               q == [i EXCEPT !.local = s.user]
    <3>1. i \in TabState /\ i.pc = "idle"
      BY <1>5, IdleFields DEF SoundTab
    <3>2. p.pc = "idle" /\ q.pc = "idle"
      BY <3>1 DEF TabState
    <3>3. a \in {Outcome(ClearedGate(db), p), Outcome(db, q)}
      BY DEF ResumedNormalSync
    <3>4. \A d, y : Outcome(d, y).tab = y
      BY DEF Outcome
    <3> HIDE DEF a, p, q
    <3> QED BY <3>2, <3>3, <3>4
  <2> HIDE DEF a
  <2>3. GateStep(db, db', a.tab) /\ SoundTab(a.tab, server, author, requests)
    BY <1>7, <2>1 DEF SoundOutcome
  <2>4. a.tab # tab[t]
    BY <1>1, <2>2 DEF o
  <2> QED BY <1>1, <1>3, <1>7, <2>3, <2>4, GateInv
<1>8. CASE db.owner = s.local /\ db' = db /\ \E p \in Planned(db, s) : tab' = [tab EXCEPT ![t] = p]
  <2>1. PICK p \in Planned(db, s) : tab' = [tab EXCEPT ![t] = p]
    BY <1>8
  <2>2. SoundTab(p, server, author, requests)
    BY <1>5, <1>8, PlannedSound
  <2> QED BY <1>1, <1>3, <1>8, <2>1, <2>2, TabOnlyInv
<1> QED BY <1>2, <1>6, <1>7, <1>8

LEMMA ChooseInv ==
    ASSUME Inv, NEW t \in Tab, Choose(t)
    PROVE  Inv' /\ StepKept
<1> DEFINE o == tab[t]
<1>1. /\ o.pc = "idle" /\ o.plan # "none" /\ o.pending = None /\ ~o.error
      /\ db' = db /\ server' = server /\ cookie' = cookie /\ late' = late /\ requests' = requests
      /\ faults' = faults /\ author' = author
  BY DEF Choose
<1>2. PICK strategy \in Strategy :
        tab' = [tab EXCEPT ![t] = [o EXCEPT !.strategy = strategy, !.asked = TRUE, !.pc = "capture"]]
  BY DEF Choose, Step
<1> DEFINE p == [o EXCEPT !.strategy = strategy, !.asked = TRUE, !.pc = "capture"]
<1>3. /\ SoundTab(o, server, author, requests) /\ o \in TabState /\ faults' \in Faults
  BY <1>1 DEF Inv, Shapes, SoundTab
<1>4. ~o.conflict /\ o.user # None
  BY <1>1, <1>3 DEF SoundTab, SoundPending, SoundSession
<1>5. tab' = [tab EXCEPT ![t] = p]
  BY <1>2
<1> HIDE DEF o
<1>6. /\ p \in TabState /\ p.pc = "capture" /\ p.asked /\ p.user = o.user /\ p.validated = o.validated
      /\ p.pending = None /\ ~p.error /\ ~p.conflict
  BY <1>1, <1>3, <1>4 DEF TabState
<1> HIDE DEF p
<1>7. SoundTab(p, server, author, requests)
  BY <1>4, <1>6 DEF SoundTab, SoundSession, SoundPending, SoundExchange, Asked
<1> QED BY <1>1, <1>3, <1>5, <1>7, TabOnlyInv

\* A conflict is retried with the choice that was made, for the same profile.
LEMMA RetryInv ==
    ASSUME Inv, NEW t \in Tab, Retry(t)
    PROVE  Inv' /\ StepKept
<1> DEFINE s == tab[t]
           p == [s EXCEPT !.pc = "submit"]
           x == server[s.user].revision
           q == [s EXCEPT !.preview = x, !.pc = "capture", !.strategy = s.pending.strategy]
           z == IF ~s.conflict THEN p ELSE IF cookie # s.user THEN s ELSE q
<1>1. /\ s.pc = "idle" /\ s.error
      /\ db' = db /\ server' = server /\ cookie' = cookie /\ late' = late /\ requests' = requests
      /\ faults' = faults /\ author' = author
  BY DEF Retry
<1>2. /\ SoundTab(s, server, author, requests) /\ s \in TabState /\ faults' \in Faults
      /\ server \in [Account -> AccountState] /\ cookie \in Account
  BY <1>1 DEF Inv, Shapes, SoundTab
<1>3. /\ s.pending # None /\ (s.asked \/ s.validated) /\ SoundRequest(s.pending, author, requests)
      /\ s.conflict => s.asked \/ (s.pending.user = s.user /\ s.pending.source = s.local)
  BY <1>1, <1>2 DEF SoundTab, SoundPending, SoundSession
<1>4. tab' = [tab EXCEPT ![t] = z]
  BY <1>3 DEF Retry, Step
<1> HIDE DEF s
<1>5. ASSUME ~s.conflict PROVE SoundTab(p, server, author, requests)
  BY <1>2, <1>3, <1>5, SubmitSound
<1>6. ASSUME s.conflict, cookie = s.user PROVE SoundTab(q, server, author, requests)
  <2>1. s.user \in Account /\ s.user # None /\ s.pending \in Resolution
    BY <1>2, <1>3, <1>6, Distinct DEF TabState
  <2>2. x \in Nat /\ s.pending.strategy \in Strategy
    BY <1>2, <2>1 DEF AccountState, Resolution
  <2> HIDE DEF x
  <2>3. /\ q \in TabState /\ q.pc = "capture" /\ q.user = s.user /\ q.local = s.local
        /\ q.validated = s.validated /\ q.pending = s.pending /\ q.error = s.error
        /\ q.conflict = s.conflict /\ q.asked = s.asked /\ q.strategy = s.pending.strategy
        /\ q.plan = s.plan
    BY <1>2, <2>2 DEF TabState
  <2> HIDE DEF q
  <2>4. SoundSession(q)
    BY <1>3, <2>1, <2>3 DEF SoundSession
  <2>5. SoundPending(q, author, requests)
    BY <1>1, <1>3, <1>6, <2>3 DEF SoundPending, Asked, SoundRequest
  <2> QED BY <2>3, <2>4, <2>5 DEF SoundTab, SoundExchange
<1> HIDE DEF p, q
<1>7. SoundTab(z, server, author, requests)
  BY <1>2, <1>5, <1>6
<1> HIDE DEF z
<1> QED BY <1>1, <1>2, <1>4, <1>7, TabOnlyInv

LEMMA ServeForeignInv ==
    ASSUME Inv, NEW t \in Tab, ServeForeign(t)
    PROVE  Inv' /\ StepKept
<1> DEFINE s == tab[t]
           w == SwitchAccount(t, db, s, cookie, "idle")
<1>1. /\ s.pc \in {"posted", "syncing"}
      /\ server' = server /\ cookie' = cookie /\ late' = late /\ requests' = requests
      /\ faults' = faults /\ author' = author
  BY DEF ServeForeign
<1>2. /\ SoundTab(s, server, author, requests) /\ s \in TabState
      /\ SoundDb(db, server, author, requests) /\ db \in Database /\ cookie \in Account
      /\ faults' \in Faults
  BY <1>1 DEF Inv, Shapes, SoundTab, SoundDb
<1>3. ~s.conflict
  BY <1>1, <1>2 DEF SoundTab, SoundPending
<1>4. \/ db' = db /\ tab' = [tab EXCEPT ![t] = Revalidate(s)]
      \/ db' = w.db /\ tab' = [tab EXCEPT ![t] = w.tab]
  BY DEF ServeForeign, Commit, Step, Outcome
<1>5. CASE db' = db /\ tab' = [tab EXCEPT ![t] = Revalidate(s)]
  <2>1. SoundTab(Revalidate(s), server, author, requests)
    BY <1>2, RevalidateSound
  <2> QED BY <1>1, <1>2, <1>5, <2>1, TabOnlyInv
<1>6. CASE db' = w.db /\ tab' = [tab EXCEPT ![t] = w.tab]
  <2>1. /\ GateStep(db, w.db, w.tab) /\ SoundTab(w.tab, server, author, requests)
        /\ w.tab.pc = "idle"
    <3> HIDE DEF s
    <3> QED BY <1>2, <1>3, SwitchAccountOutcome
  <2> HIDE DEF w
  <2>2. GateStep(db, db', w.tab) /\ w.tab # tab[t]
    BY <1>1, <1>6, <2>1
  <2> QED BY <1>1, <1>2, <1>6, <2>1, <2>2, GateInv
<1> QED BY <1>4, <1>5, <1>6

\* A request may outlive its sender.
LEMMA OrphanInv ==
    ASSUME Inv, NEW t \in Tab, NEW s, tab' = [tab EXCEPT ![t] = s], late' \in Orphaned(t), Fault,
           db' = db, server' = server, cookie' = cookie, requests' = requests, author' = author,
           SoundTab(s, server, author, requests)
    PROVE  Inv' /\ StepKept
<1>1. /\ SoundTab(tab[t], server, author, requests) /\ SoundDb(db, server, author, requests)
      /\ SoundServer(server, requests) /\ late \subseteq Resolution
      /\ \A r \in late : SoundRequest(r, author, requests)
      /\ server \in [Account -> AccountState] /\ requests \in Nat /\ faults \in Faults
      /\ tab \in [Tab -> TabState] /\ s \in TabState
  BY BootstrapAssumption DEF Inv, Shapes, SoundTab
<1>2. late' = late \/ (tab[t].pc = "posted" /\ late' = late \cup {tab[t].pending})
  BY DEF Orphaned
<1>3. tab[t].pc = "posted" => /\ tab[t].pending \in Resolution
                              /\ SoundRequest(tab[t].pending, author, requests)
  BY <1>1 DEF SoundTab, SoundPending, TabState
<1>4. late' \subseteq Resolution /\ \A r \in late' : SoundRequest(r, author, requests)
  BY <1>1, <1>2, <1>3
<1>5. faults' \in Faults
  BY <1>1, FaultTyped
<1>6. Shapes'
  BY <1>1, <1>4, <1>5 DEF Inv, Shapes
<1>7. ServerGrows(server, server, requests) /\ AuthorGrows(author, author) /\ requests <= requests
  BY <1>1, Reflexive
<1>8. Inv'
  BY <1>1, <1>4, <1>6, <1>7, TabInv
<1> QED BY <1>8, DbSame, ServerSame DEF StepKept

LEMMA LoseExchangeInv ==
    ASSUME Inv, NEW t \in Tab, LoseExchange(t)
    PROVE  Inv' /\ StepKept
<1> DEFINE o == tab[t]
           i == Idle(o)
           e == o.pc \in {"posted", "answered"}
           s == [i EXCEPT !.error = e]
<1>1. /\ o.pc \in {"posted", "answered", "syncing", "synced"} /\ Fault /\ late' \in Orphaned(t)
      /\ tab' = [tab EXCEPT ![t] = s]
      /\ db' = db /\ server' = server /\ cookie' = cookie /\ requests' = requests /\ author' = author
  BY DEF LoseExchange, Step
<1>2. SoundTab(o, server, author, requests) /\ o \in TabState
  BY DEF Inv, SoundTab
<1>3. /\ o.validated \/ o.plan # "none" => o.user # None
      /\ o.pending # None => SoundRequest(o.pending, author, requests)
      /\ e => o.pending # None /\ (o.asked \/ o.validated)
      /\ ~o.conflict
  BY <1>1, <1>2 DEF SoundTab, SoundSession, SoundPending
<1>4. /\ i \in TabState /\ i.pc = "idle" /\ i.user = o.user /\ i.validated = o.validated
      /\ i.pending = o.pending /\ i.plan = o.plan /\ i.asked = o.asked /\ i.conflict = o.conflict
  BY <1>2, IdleFields
<1>5. e \in BOOLEAN
  OBVIOUS
<1> HIDE DEF i, e, o
<1>6. /\ s \in TabState /\ s.pc = "idle" /\ s.user = o.user /\ s.validated = o.validated
      /\ s.pending = o.pending /\ s.plan = o.plan /\ s.asked = o.asked /\ s.conflict = o.conflict
      /\ s.error = e
  BY <1>4, <1>5 DEF TabState
<1> HIDE DEF s
<1>7. SoundTab(s, server, author, requests)
  BY <1>3, <1>6, RestSound
<1> QED BY <1>1, <1>7, OrphanInv

LEMMA ClosedSound ==
    ASSUME NEW sv, NEW au, NEW n
    PROVE  SoundTab(ClosedTab, sv, au, n)
<1>1. ClosedTab \in TabState
  BY DEF ClosedTab, TabState, Strategy, Owner
<1> QED BY <1>1 DEF ClosedTab, SoundTab, SoundSession, SoundPending, SoundExchange, Asked

LEMMA CloseTabInv ==
    ASSUME Inv, NEW t \in Tab, CloseTab(t)
    PROVE  Inv' /\ StepKept
<1>1. /\ Fault /\ late' \in Orphaned(t) /\ tab' = [tab EXCEPT ![t] = ClosedTab]
      /\ db' = db /\ server' = server /\ cookie' = cookie /\ requests' = requests /\ author' = author
  BY DEF CloseTab, Step
<1>2. SoundTab(ClosedTab, server, author, requests)
  BY ClosedSound
<1> QED BY <1>1, <1>2, OrphanInv

\* A new request is sound: its work is the owner's or nobody's unless the user chose, and
\* no account has answered its identity yet.
LEMMA CaptureInv ==
    ASSUME Inv, NEW t \in Tab, Capture(t)
    PROVE  Inv' /\ StepKept
<1> DEFINE s == tab[t]
           approved == s.plan = "confirm" => s.asked /\ s.strategy = "keep_remote"
           held == approved /\ db.owner = s.local /\ CanAcquireGate(db, t, s.user)
           d == IF held THEN AcquiredGate(db, t, s.user) ELSE db
           pending == Captured(t, d, s, requests + 1)
           z == [d EXCEPT !.resolution = pending]
           a == [s EXCEPT !.pending = pending, !.owned = TRUE]
           p == [a EXCEPT !.conflict = FALSE, !.error = FALSE, !.pc = "submit"]
           i == Idle(s)
           q == [i EXCEPT !.error = s.conflict]
<1>1. /\ s.pc = "capture"
      /\ server' = server /\ cookie' = cookie /\ late' = late
      /\ faults' = faults /\ author' = author
  BY DEF Capture
<1>2. \/ /\ held /\ CaptureAllowed(d, s) /\ requests < MaxRequests /\ requests' = requests + 1
         /\ db' = z /\ tab' = [tab EXCEPT ![t] = p]
      \/ requests' = requests /\ db' = d /\ tab' = [tab EXCEPT ![t] = q]
  BY DEF Capture, Commit, Step, Outcome
<1>3. /\ SoundTab(s, server, author, requests) /\ s \in TabState
      /\ SoundDb(db, server, author, requests) /\ db \in Database
      /\ SoundServer(server, requests) /\ faults' \in Faults
      /\ requests \in Nat /\ s.user \in Owner
      /\ s.strategy \in Strategy /\ s.preview \in Nat /\ s.asked \in BOOLEAN
      /\ s.pending \in Resolution \cup {None}
  BY <1>1, BootstrapAssumption DEF Inv, Shapes, SoundTab, SoundDb, TabState
<1>4. GateStep(db, d, q) /\ d \in Database /\ d.owner = db.owner /\ d.queue = db.queue
  BY <1>3, AcquiredGateStep, NoGateStep DEF GateStep
<1>5. SoundDb(d, server, author, requests)
  BY <1>3, <1>4, GateStepSound
<1>6. /\ s.user # None /\ (s.asked \/ s.validated)
      /\ s.conflict => s.error /\ s.pending # None
           /\ (s.asked \/ (s.pending.user = s.user /\ s.pending.source = s.local))
      /\ ~Asked(s) /\ s.strategy # "keep_remote" => s.local \in {None, s.user}
      /\ s.pending # None => SoundRequest(s.pending, author, requests)
  BY <1>1, <1>3 DEF SoundTab, SoundSession, SoundPending
<1>7. held => /\ db.owner = s.local
              /\ d.resolution # None <=> db.resolution # None
              /\ db.resolution # None => SameRequest(db.resolution, d.resolution)
  BY <1>3, AcquiredGateStep
<1> HIDE DEF s, held, d
<1>8. CASE requests' = requests /\ db' = d /\ tab' = [tab EXCEPT ![t] = q]
  <2>1. /\ i \in TabState /\ i.pc = "idle" /\ i.user = s.user /\ i.validated = s.validated
        /\ i.pending = s.pending /\ i.plan = s.plan /\ i.asked = s.asked /\ i.local = s.local
        /\ i.conflict = s.conflict /\ s.conflict \in BOOLEAN
    BY <1>3, IdleFields DEF TabState
  <2> HIDE DEF i
  <2>2. /\ q \in TabState /\ q.pc = "idle" /\ q.user = s.user /\ q.validated = s.validated
        /\ q.pending = s.pending /\ q.asked = s.asked /\ q.local = s.local
        /\ q.conflict = s.conflict /\ q.error = s.conflict
    BY <2>1 DEF TabState
  <2> HIDE DEF q
  <2>3. SoundTab(q, server, author, requests)
    BY <1>6, <2>2, RestSound
  <2>4. GateStep(db, db', q) /\ q # tab[t]
    BY <1>1, <1>4, <1>8, <2>2 DEF s
  <2> QED BY <1>1, <1>3, <1>8, <2>3, <2>4, GateInv
<1>9. CASE /\ held /\ CaptureAllowed(d, s) /\ requests < MaxRequests /\ requests' = requests + 1
           /\ db' = z /\ tab' = [tab EXCEPT ![t] = p]
  <2>1. /\ requests + 1 \in Request /\ requests + 1 \in Nat /\ requests <= requests + 1
        /\ s.user \in Account /\ d.owner \in Owner /\ d.queue \subseteq Op
        /\ d.owner = s.local /\ requests' \in 0 .. MaxRequests
    BY <1>3, <1>4, <1>6, <1>7, <1>9, BootstrapAssumption DEF Request, Owner, Database
  <2>2. Asked(s) \in BOOLEAN
    BY <1>3 DEF Asked, Resolution
  <2>3. /\ pending \in Resolution
        /\ pending.id = requests + 1 /\ pending.user = s.user /\ pending.strategy = s.strategy
        /\ pending.sent = IF s.strategy = "keep_remote" THEN {} ELSE d.queue
        /\ pending.queued = d.queue /\ pending.source = d.owner /\ pending.asked = Asked(s)
    <3> HIDE DEF Asked
    <3> QED BY <1>3, <2>1, <2>2 DEF Captured, Resolution
  <2> HIDE DEF pending
  <2>4. SoundRequest(pending, author, requests + 1)
    <3>1. ASSUME ~pending.asked, NEW o \in pending.sent
          PROVE  author[o] \in {"anonymous", pending.user}
      <4>1. s.strategy # "keep_remote" /\ o \in d.queue /\ s.local \in {None, s.user}
        BY <1>6, <2>3, <3>1
      <4>2. author[o] = MadeBy(s.local)
        BY <1>5, <2>1, <4>1 DEF SoundDb
      <4> QED BY <2>3, <4>1, <4>2 DEF MadeBy
    <3>2. ~pending.asked => pending.strategy = "keep_remote" \/ pending.source \in {None, pending.user}
      BY <1>6, <2>1, <2>3
    <3>3. pending.id <= requests + 1
      BY <2>1, <2>3
    <3> QED BY <3>1, <3>2, <3>3 DEF SoundRequest
  <2>5. d.queue \subseteq SettledBy(pending)
    BY <2>3 DEF SettledBy
  <2>6. /\ z \in Database /\ z.owner = d.owner /\ z.revision = d.revision /\ z.queue = d.queue
        /\ z.outgoing = d.outgoing /\ z.resolution = pending
    BY <1>4, <2>3 DEF Database
  <2>7. \A b \in Account : server[b].resolved[pending.id] = None
    BY <1>3, <2>1, <2>3 DEF SoundServer
  <2>8. ServerGrows(server, server', requests') /\ AuthorGrows(author, author')
    BY <1>1, Reflexive DEF Inv, Shapes
  <2>9. SoundDb(d, server, author, requests + 1)
    <3>1. ServerGrows(server, server, requests + 1) /\ AuthorGrows(author, author)
          /\ server \in [Account -> AccountState]
      BY <1>1, <1>9, <2>8 DEF Inv, Shapes
    <3> QED BY <1>3, <1>5, <2>1, <3>1, DbStays
  <2>10. SoundDb(z, server, author, requests + 1)
    <3>1. ~(z.resolution.user = z.owner /\ server[z.owner].resolved[z.resolution.id] # None)
      BY <2>1, <2>3, <2>6, <2>7
    <3>2. /\ \A o \in z.queue : author[o] = MadeBy(z.owner)
          /\ z.owner # None => z.revision <= server[z.owner].revision
          /\ z.outgoing # None => /\ z.owner # None /\ z.outgoing.owner = z.owner
                                  /\ \A o \in z.outgoing.sent : author[o] = z.owner
      BY <2>6, <2>9 DEF SoundDb
    <3>3. /\ SoundRequest(z.resolution, author, requests + 1)
          /\ z.resolution.source = z.owner /\ z.queue \subseteq SettledBy(z.resolution)
      BY <2>3, <2>4, <2>5, <2>6
    <3> HIDE DEF z
    <3> QED BY <2>6, <3>1, <3>2, <3>3 DEF SoundDb
  <2>11. /\ a \in TabState /\ a.user = s.user /\ a.validated = s.validated /\ a.asked = s.asked
         /\ a.pending = pending
    BY <1>3, <2>3 DEF TabState
  <2> HIDE DEF a
  <2>12. /\ p \in TabState /\ p.user = s.user /\ p.validated = s.validated /\ p.asked = s.asked
         /\ p.pending = pending /\ ~p.conflict /\ ~p.error /\ p.pc = "submit"
    BY <2>11 DEF TabState
  <2> HIDE DEF p
  <2>13. SoundTab(p, server, author, requests + 1)
    BY <1>6, <2>3, <2>4, <2>12, Distinct DEF SoundTab, SoundSession, SoundPending, SoundExchange
  <2>14. SoundServer(server, requests + 1)
    <3>1. \A j \in Request : j \in Nat
      BY BootstrapAssumption DEF Request
    <3> QED BY <1>3, <3>1 DEF SoundServer
  <2>15. ASSUME NEW r \in late PROVE SoundRequest(r, author, requests + 1)
    <3>1. r \in Resolution /\ SoundRequest(r, author, requests) /\ AuthorGrows(author, author)
      BY <1>1, <2>8 DEF Inv, Shapes
    <3> QED BY <1>3, <2>1, <3>1, RequestStays
  <2>16. Shapes'
    BY <1>1, <1>3, <1>9, <2>1, <2>12 DEF Inv, Shapes
  <2> HIDE DEF z
  <2>17. Inv'
    BY <1>1, <1>3, <1>9, <2>1, <2>8, <2>10, <2>13, <2>14, <2>15, <2>16, TabInv
  <2>18. SentKept
    <3>1. db.resolution # None => ~db.resolution.delivered
      <4>1. ASSUME db.resolution # None PROVE d.resolution.delivered = db.resolution.delivered
        BY <1>3, <1>4, <1>7, <1>9, <4>1, SameRequestSound DEF Database
      <4> QED BY <1>7, <1>9, <4>1 DEF CaptureAllowed
    <3> QED BY <3>1 DEF SentKept
  <2>19. NotOlder
    <3>1. d.revision = db.revision /\ db.revision \in Nat
      BY <1>3, <1>4 DEF GateStep, Database
    <3> QED BY <1>9, <2>6, <3>1 DEF NotOlder
  <2> QED BY <1>1, <2>17, <2>18, <2>19, ServerSame DEF StepKept
<1> QED BY <1>2, <1>8, <1>9

\* The request that is sent is the saved one, which from then on counts as delivered.
LEMMA SubmitInv ==
    ASSUME Inv, NEW t \in Tab, Submit(t)
    PROVE  Inv' /\ StepKept
<1> DEFINE s == tab[t]
           r == [s.pending EXCEPT !.delivered = TRUE]
           z == Claimed(t, db, s)
           a == [s EXCEPT !.pending = r, !.error = FALSE]
           p == [a EXCEPT !.pc = "posted", !.as = cookie]
           b == [s EXCEPT !.pending = db.resolution, !.owned = FALSE]
           q == [b EXCEPT !.pc = "prepare"]
<1>1. /\ s.pc = "submit"
      /\ server' = server /\ cookie' = cookie /\ late' = late /\ requests' = requests
      /\ faults' = faults /\ author' = author
  BY DEF Submit
<1>2. /\ SoundTab(s, server, author, requests) /\ s \in TabState
      /\ SoundDb(db, server, author, requests) /\ db \in Database
      /\ faults' \in Faults /\ s.user \in Owner /\ cookie \in Owner
  BY <1>1 DEF Inv, Shapes, SoundTab, SoundDb, TabState, Owner
<1>3. /\ s.pending \in Resolution /\ s.pending # None /\ SoundRequest(s.pending, author, requests)
      /\ ~s.conflict /\ (s.asked \/ s.validated)
      /\ s.validated \/ s.plan # "none" => s.user # None
  BY <1>1, <1>2, Distinct DEF SoundTab, SoundSession, SoundPending, TabState
<1>4. \/ db' = db /\ tab' = [tab EXCEPT ![t] = Revalidate(s)]
      \/ /\ s.pending.user = s.user /\ db.owner = s.local /\ ResolutionCurrent(db, s.pending)
         /\ db' = z /\ tab' = [tab EXCEPT ![t] = p]
      \/ /\ OwnResolution(db, s.user) # None
         /\ db' = db /\ tab' = [tab EXCEPT ![t] = q]
  <2>1. [s EXCEPT !.pending.delivered = TRUE, !.error = FALSE, !.pc = "posted", !.as = cookie] = p
    BY <1>2 DEF TabState
  <2> HIDE DEF s, p, q, z
  <2>2. [s EXCEPT !.pending = db.resolution, !.owned = FALSE, !.pc = "prepare"] = q
    BY DEF q
  <2>3. Recovered(db, s) = IF OwnResolution(db, s.user) = None THEN Revalidate(s) ELSE q
    BY <2>2 DEF Recovered
  <2>4. LET o == IF s.pending.user # s.user THEN Outcome(db, Revalidate(s))
                 ELSE IF db.owner = s.local /\ ResolutionCurrent(db, s.pending) THEN Outcome(z, p)
                 ELSE Outcome(db, Recovered(db, s))
        IN  db' = o.db /\ tab' = [tab EXCEPT ![t] = o.tab]
    BY <2>1 DEF Submit, Commit, Step, s, z
  <2> QED BY <2>3, <2>4 DEF Outcome
<1> HIDE DEF s
<1>5. CASE db' = db /\ tab' = [tab EXCEPT ![t] = Revalidate(s)]
  <2>1. SoundTab(Revalidate(s), server, author, requests)
    BY <1>2, RevalidateSound
  <2> QED BY <1>1, <1>2, <1>5, <2>1, TabOnlyInv
<1>6. CASE /\ OwnResolution(db, s.user) # None
           /\ db' = db /\ tab' = [tab EXCEPT ![t] = q]
  <2>1. db.resolution \in Resolution /\ db.resolution # None /\ SoundRequest(db.resolution, author, requests)
    BY <1>2, <1>6 DEF OwnResolution, SoundDb, Database
  <2>2. /\ b \in TabState /\ b.user = s.user /\ b.validated = s.validated /\ b.plan = s.plan
        /\ b.pending = db.resolution /\ b.asked = s.asked /\ b.conflict = s.conflict
        /\ b.error = s.error
    BY <1>2, <2>1 DEF TabState
  <2> HIDE DEF b
  <2>3. /\ q \in TabState /\ q.user = s.user /\ q.validated = s.validated /\ q.plan = s.plan
        /\ q.pending = db.resolution /\ q.asked = s.asked /\ q.conflict = s.conflict
        /\ q.error = s.error /\ q.pc = "prepare"
    BY <2>2 DEF TabState
  <2> HIDE DEF q
  <2>4. SoundTab(q, server, author, requests)
    BY <1>3, <2>1, <2>3 DEF SoundTab, SoundSession, SoundPending, SoundExchange
  <2> QED BY <1>1, <1>2, <1>6, <2>4, TabOnlyInv
<1>7. CASE /\ s.pending.user = s.user /\ db.owner = s.local /\ ResolutionCurrent(db, s.pending)
           /\ db' = z /\ tab' = [tab EXCEPT ![t] = p]
  <2>1. /\ r \in Resolution /\ r.id = s.pending.id /\ r.user = s.pending.user /\ r.sent = s.pending.sent
        /\ r.source = s.pending.source /\ r.strategy = s.pending.strategy /\ r.asked = s.pending.asked
        /\ r.queued = s.pending.queued
    BY <1>3 DEF Resolution
  <2>2. SoundRequest(r, author, requests) /\ SettledBy(r) = SettledBy(s.pending) /\ r # None
    BY <1>3, <2>1, Distinct DEF SoundRequest, SettledBy
  <2>3. db.resolution = s.pending /\ db.owner = s.pending.source
    BY <1>7 DEF ResolutionCurrent
  <2>4. /\ z \in Database /\ z.owner = db.owner /\ z.revision = db.revision /\ z.queue = db.queue
        /\ z.outgoing = db.outgoing /\ z.resolution = r
    <3>1. BoundLease(t, s.user) \in Gate
      BY <1>2, BoundLeaseGate
    <3>2. z = [db EXCEPT !.resolution = r, !.proof = Retired(db.proof, s.pending.sent),
                         !.gate = BoundLease(t, s.user)]
      BY <1>2, <2>3 DEF Claimed, Database
    <3>3. Retired(db.proof, s.pending.sent) \subseteq Op
      BY <1>2 DEF Retired, Database
    <3> HIDE DEF z, r
    <3> QED BY <1>2, <2>1, <3>1, <3>2, <3>3 DEF Database
  <2>5. SentKept
    <3>1. ASSUME s.pending.delivered PROVE r = [s.pending EXCEPT !.token = r.token]
      BY <1>3, <3>1 DEF Resolution
    <3> HIDE DEF r, z
    <3> QED BY <1>7, <2>2, <2>3, <2>4, <3>1 DEF SentKept
  <2> HIDE DEF r, z
  <2>6. SoundDb(z, server, author, requests)
    BY <1>2, <1>3, <2>1, <2>2, <2>3, <2>4 DEF SoundDb
  <2>7. /\ a \in TabState /\ a.user = s.user /\ a.local = s.local /\ a.validated = s.validated
        /\ a.plan = s.plan /\ a.pending = r /\ a.asked = s.asked /\ a.conflict = s.conflict
        /\ ~a.error
    BY <1>2, <2>1 DEF TabState
  <2> HIDE DEF a
  <2>8. /\ p \in TabState /\ p.user = s.user /\ p.local = s.local /\ p.validated = s.validated
        /\ p.plan = s.plan /\ p.pending = r /\ p.asked = s.asked /\ p.conflict = s.conflict
        /\ ~p.error /\ p.pc = "posted"
    BY <1>2, <2>7 DEF TabState
  <2> HIDE DEF p
  <2>9. SoundTab(p, server, author, requests)
    BY <1>3, <1>7, <2>1, <2>2, <2>3, <2>8 DEF SoundTab, SoundSession, SoundPending, SoundExchange
  <2>10. Inv'
    BY <1>1, <1>2, <1>7, <2>6, <2>9, QuietInv
  <2>11. NotOlder
    BY <1>2, <1>7, <2>4 DEF NotOlder, Database
  <2> QED BY <1>1, <2>5, <2>10, <2>11, ServerSame DEF StepKept
<1> QED BY <1>4, <1>5, <1>6, <1>7

\* The answer that is installed is not older than the snapshot it replaces.
LEMMA ApplyResolutionInv ==
    ASSUME Inv, NEW t \in Tab, ApplyResolution(t)
    PROVE  Inv' /\ StepKept
<1> DEFINE s == tab[t]
           i == Idle(s)
           q == [i EXCEPT !.error = TRUE]
           z == Installed(db, s.pending, s.reply)
<1>1. /\ s.pc = "answered"
      /\ server' = server /\ cookie' = cookie /\ late' = late /\ requests' = requests
      /\ faults' = faults /\ author' = author
  BY DEF ApplyResolution
<1>2. \/ db' = db /\ tab' = [tab EXCEPT ![t] = ResetBootstrap(s)]
      \/ db' = db /\ tab' = [tab EXCEPT ![t] = q]
      \/ /\ ResolutionCurrent(db, s.pending)
         /\ db' = z /\ tab' = [tab EXCEPT ![t] = ResetBootstrap(s)]
  BY DEF ApplyResolution, Commit, Step, Outcome
<1>3. /\ SoundTab(s, server, author, requests) /\ s \in TabState
      /\ SoundDb(db, server, author, requests) /\ db \in Database
      /\ SoundServer(server, requests) /\ server \in [Account -> AccountState]
      /\ faults' \in Faults
  BY <1>1 DEF Inv, Shapes, SoundTab, SoundDb
<1>4. /\ s.pending \in Resolution /\ s.pending # None /\ SoundRequest(s.pending, author, requests)
      /\ s.pending.user = s.user /\ ~s.conflict /\ (s.asked \/ s.validated)
      /\ s.validated \/ s.plan # "none" => s.user # None
      /\ server[s.user].resolved[s.pending.id] = s.reply /\ s.reply \in Nat
  BY <1>1, <1>3, Distinct DEF SoundTab, SoundSession, SoundPending, SoundExchange, TabState
<1> HIDE DEF s
<1>5. SoundTab(ResetBootstrap(s), server, author, requests)
  BY <1>3, ResetBootstrapSound
<1>6. CASE db' = db /\ tab' = [tab EXCEPT ![t] = ResetBootstrap(s)]
  BY <1>1, <1>3, <1>5, <1>6, TabOnlyInv
<1>7. CASE db' = db /\ tab' = [tab EXCEPT ![t] = q]
  <2>1. /\ i \in TabState /\ i.pc = "idle" /\ i.user = s.user /\ i.validated = s.validated
        /\ i.pending = s.pending /\ i.plan = s.plan /\ i.asked = s.asked /\ i.conflict = s.conflict
    BY <1>3, IdleFields
  <2> HIDE DEF i
  <2>2. /\ q \in TabState /\ q.pc = "idle" /\ q.user = s.user /\ q.validated = s.validated
        /\ q.pending = s.pending /\ q.plan = s.plan /\ q.asked = s.asked /\ q.conflict = s.conflict
    BY <2>1 DEF TabState
  <2> HIDE DEF q
  <2>3. SoundTab(q, server, author, requests)
    BY <1>4, <2>2, RestSound
  <2> QED BY <1>1, <1>3, <1>7, <2>3, TabOnlyInv
<1>8. CASE /\ ResolutionCurrent(db, s.pending)
           /\ db' = z /\ tab' = [tab EXCEPT ![t] = ResetBootstrap(s)]
  <2>1. db.resolution = s.pending /\ db.owner = s.pending.source
    BY <1>8 DEF ResolutionCurrent
  <2>2. db.queue \subseteq SettledBy(s.pending) /\ db.revision \in Nat /\ db.proof \subseteq Op
    BY <1>3, <1>4, <2>1 DEF SoundDb, Database
  <2>3. /\ s.user \in Account /\ s.pending.id \in Request /\ s.user \in Owner
    BY <1>4 DEF Resolution, Owner
  <2>4. /\ z.owner = s.user /\ z.revision = s.reply /\ z.queue = {} /\ z.outgoing = None
        /\ z.resolution = None /\ z \in Database
    BY <1>4, <2>2, <2>3 DEF Installed, Database
  <2>5. s.reply <= server[s.user].revision
    BY <1>3, <1>4, <2>3, Distinct DEF SoundServer
  <2> HIDE DEF z
  <2>6. SoundDb(z, server, author, requests)
    BY <2>4, <2>5 DEF SoundDb
  <2>7. Inv'
    BY <1>1, <1>3, <1>5, <1>8, <2>6, QuietInv
  <2>8. NotOlder
    <3>1. ASSUME z.owner = db.owner PROVE db.revision <= s.reply
      BY <1>3, <1>4, <2>1, <2>4, <3>1, Distinct DEF SoundDb
    <3> QED BY <1>4, <1>8, <2>2, <2>4, <3>1 DEF NotOlder
  <2>9. SentKept
    BY <1>4, <1>8, <2>1, <2>4, Distinct DEF SentKept
  <2> QED BY <1>1, <2>7, <2>8, <2>9, ServerSame DEF StepKept
<1> QED BY <1>2, <1>6, <1>7, <1>8
----------------------------------------------------------------------------
(* Edits and sync rounds: the gate is open and the owner is the tab's.     *)

LEMMA ContextFacts ==
    ASSUME NEW d, NEW owner, ContextError(d, owner) = "none"
    PROVE  d.owner = owner /\ d.gate = None /\ d.resolution = None
BY DEF ContextError, Gated

LEMMA MutateInv ==
    ASSUME Inv, NEW t \in Tab, Mutate(t)
    PROVE  Inv' /\ StepKept
<1>1. /\ server' = server /\ cookie' = cookie /\ tab' = tab /\ late' = late /\ requests' = requests
      /\ faults' = faults
  BY DEF Mutate
<1>2. db.resolution = None
  BY ContextFacts DEF Mutate
<1>3. PICK o \in Op : /\ author[o] = "unmade" /\ db' = AppendPlan(db, o, {})
                      /\ author' = [author EXCEPT ![o] = MadeBy(db.owner)]
  BY DEF Mutate
<1>4. /\ SoundDb(db, server, author, requests) /\ db \in Database /\ db.owner \in Owner
      /\ db.revision \in Nat /\ db.queue \subseteq Op /\ db.proof \subseteq Op
      /\ author \in [Op -> Account \cup {"anonymous", "unmade"}]
      /\ server \in [Account -> AccountState] /\ requests \in Nat
  BY BootstrapAssumption DEF Inv, Shapes, SoundDb, Database
<1>5. AuthorGrows(author, author')
  BY <1>3, <1>4 DEF AuthorGrows
<1>6. /\ db'.owner = db.owner /\ db'.revision = db.revision /\ db'.queue = db.queue \cup {o}
      /\ db'.outgoing = db.outgoing /\ db'.resolution = None /\ db' \in Database
  <2>1. NeverSent(db) \subseteq Op
    BY <1>4 DEF NeverSent
  <2> QED BY <1>2, <1>3, <1>4, <2>1 DEF AppendPlan, Database
<1>7. ServerGrows(server, server', requests') /\ requests <= requests'
  BY <1>1, <1>4, Reflexive
<1>8. SoundDb(db, server, author', requests)
  BY <1>1, <1>4, <1>5, <1>7, DbStays
<1>9. author'[o] = MadeBy(db.owner)
  BY <1>3, <1>4
<1>10. SoundDb(db', server, author', requests)
  BY <1>6, <1>8, <1>9 DEF SoundDb
<1>11. author' \in [Op -> Account \cup {"anonymous", "unmade"}]
  BY <1>3, <1>4 DEF MadeBy, Owner
<1>12. Shapes'
  BY <1>1, <1>11 DEF Inv, Shapes
<1>13. SoundServer(server', requests')
  BY <1>1 DEF Inv
<1>14. ASSUME NEW r \in late' PROVE SoundRequest(r, author', requests')
  <2>1. r \in Resolution /\ SoundRequest(r, author, requests) /\ requests' \in Nat
    BY <1>1, <1>4 DEF Inv, Shapes
  <2> QED BY <1>4, <1>5, <1>7, <2>1, RequestStays
<1>15. Inv'
  BY <1>1, <1>5, <1>7, <1>10, <1>12, <1>13, <1>14, WorldInv
<1>16. SentKept /\ NotOlder
  BY <1>2, <1>4, <1>6 DEF SentKept, NotOlder
<1> QED BY <1>1, <1>15, <1>16, ServerSame DEF StepKept

\* A claim holds work of the account it is sent for.
LEMMA SyncInv ==
    ASSUME Inv, NEW t \in Tab, Sync(t)
    PROVE  Inv' /\ StepKept
<1> DEFINE s == tab[t]
           claim == IF db.outgoing # None THEN db.outgoing ELSE NewClaim(requests + 1, db.queue, s.user)
           z == FreshClaim(db, claim)
           p == [s EXCEPT !.pc = "syncing", !.claim = claim, !.as = cookie]
<1>1. /\ s.pc = "idle" /\ s.validated /\ ~NeedsBootstrap(s)
      /\ server' = server /\ cookie' = cookie /\ late' = late
      /\ faults' = faults /\ author' = author
  BY DEF Sync
<1>2. \/ requests' = requests /\ db' = db /\ tab' = [tab EXCEPT ![t] = BlockSync(db, s)]
      \/ requests' = requests /\ db' = db /\ tab' = [tab EXCEPT ![t] = Revalidate(s)]
      \/ /\ ClaimError(db, s.local) = "none"
         /\ requests' = requests \/ (requests < MaxRequests /\ requests' = requests + 1)
         /\ db' = z /\ tab' = [tab EXCEPT ![t] = p]
  BY DEF Sync, Commit, Step, Outcome
<1>3. /\ SoundTab(s, server, author, requests) /\ s \in TabState
      /\ SoundDb(db, server, author, requests) /\ db \in Database
      /\ faults' \in Faults /\ cookie \in Owner /\ requests \in 0 .. MaxRequests
      /\ requests \in Nat /\ server \in [Account -> AccountState]
  BY <1>1, BootstrapAssumption DEF Inv, Shapes, SoundTab, SoundDb, Owner
<1>4. /\ s.pending = None /\ ~s.error /\ ~s.conflict /\ s.user # None /\ s.local = s.user
      /\ s.user \in Owner /\ s.user \in Account
  <2>1. s.pending = None /\ (s.user = None \/ s.local = s.user)
    BY <1>1 DEF NeedsBootstrap
  <2> QED BY <1>1, <1>3, <2>1 DEF SoundTab, SoundSession, SoundPending, TabState, Owner
<1> HIDE DEF s
<1>5. CASE requests' = requests /\ db' = db /\ tab' = [tab EXCEPT ![t] = BlockSync(db, s)]
  <2>1. SoundTab(BlockSync(db, s), server, author, requests)
    BY <1>3, <1>4, BlockSyncSound
  <2> QED BY <1>1, <1>3, <1>5, <2>1, TabOnlyInv
<1>6. CASE requests' = requests /\ db' = db /\ tab' = [tab EXCEPT ![t] = Revalidate(s)]
  <2>1. SoundTab(Revalidate(s), server, author, requests)
    BY <1>3, RevalidateSound
  <2> QED BY <1>1, <1>3, <1>6, <2>1, TabOnlyInv
<1>7. CASE /\ ClaimError(db, s.local) = "none"
           /\ requests' = requests \/ (requests < MaxRequests /\ requests' = requests + 1)
           /\ db' = z /\ tab' = [tab EXCEPT ![t] = p]
  <2>1. db.owner = s.user /\ db.resolution = None
    BY <1>4, <1>7, ContextFacts DEF ClaimError
  <2>2. requests' \in 0 .. MaxRequests /\ requests' \in Nat /\ requests <= requests'
    BY <1>3, <1>7, BootstrapAssumption
  <2>3. /\ claim \in Claim /\ claim # None /\ claim.owner = s.user
        /\ \A o \in claim.sent : author[o] = s.user
    <3>1. CASE db.outgoing # None
      BY <1>3, <2>1, <3>1 DEF SoundDb, Database
    <3>2. CASE db.outgoing = None
      <4>1. claim = NewClaim(requests + 1, db.queue, s.user)
        BY <3>2
      <4> HIDE DEF claim
      <4>2. /\ claim \in Claim /\ claim.owner = s.user /\ claim.sent = db.queue
        <5>1. requests + 1 \in Nat /\ db.queue \subseteq Op
          BY <1>3 DEF Database
        <5> QED BY <1>4, <4>1, <5>1 DEF NewClaim, Claim
      <4>3. \A o \in db.queue : author[o] = s.user
        BY <1>3, <1>4, <2>1 DEF SoundDb, MadeBy
      <4> QED BY <4>2, <4>3, Distinct
    <3> QED BY <3>1, <3>2
  <2> HIDE DEF claim
  <2>4. /\ z \in Database /\ z.owner = db.owner /\ z.revision = db.revision /\ z.queue = db.queue
        /\ z.outgoing = claim /\ z.resolution = None
    BY <1>3, <2>1, <2>3 DEF FreshClaim, Retired, Database
  <2>5. ServerGrows(server, server', requests') /\ AuthorGrows(author, author')
    BY <1>1, <1>3, Reflexive
  <2>6. SoundDb(db, server', author', requests') /\ SoundTab(s, server', author', requests')
    BY <1>1, <1>3, <2>2, <2>5, DbStays, TabStays
  <2> HIDE DEF z
  <2>7. SoundDb(z, server', author', requests')
    BY <1>1, <1>4, <2>1, <2>3, <2>4, <2>6 DEF SoundDb
  <2>8. /\ p \in TabState /\ p.pc = "syncing" /\ p.claim = claim /\ p.user = s.user
        /\ p.validated = s.validated /\ p.pending = None /\ ~p.error /\ ~p.conflict
    BY <1>3, <1>4, <2>3 DEF TabState
  <2> HIDE DEF p
  <2>9. SoundTab(p, server', author', requests')
    BY <1>1, <1>4, <2>3, <2>8 DEF SoundTab, SoundSession, SoundPending, SoundExchange
  <2>10. SoundServer(server', requests')
    <3>1. \A j \in Request : j \in Nat
      BY BootstrapAssumption DEF Request
    <3> QED BY <1>1, <1>3, <2>2, <3>1 DEF Inv, SoundServer
  <2>11. ASSUME NEW r \in late' PROVE SoundRequest(r, author', requests')
    <3>1. r \in Resolution /\ SoundRequest(r, author, requests)
      BY <1>1 DEF Inv, Shapes
    <3> QED BY <1>3, <2>2, <2>5, <3>1, RequestStays
  <2>12. Shapes'
    BY <1>1, <1>3, <1>7, <2>2, <2>8 DEF Inv, Shapes
  <2>13. Inv'
    BY <1>7, <2>2, <2>5, <2>7, <2>9, <2>10, <2>11, <2>12, TabInv
  <2>14. SentKept /\ NotOlder
    BY <1>3, <1>7, <2>1, <2>4 DEF SentKept, NotOlder, Database
  <2> QED BY <1>1, <2>13, <2>14, ServerSame DEF StepKept
<1> QED BY <1>2, <1>5, <1>6, <1>7

LEMMA ApplySyncInv ==
    ASSUME Inv, NEW t \in Tab, ApplySync(t)
    PROVE  Inv' /\ StepKept
<1> DEFINE s == tab[t]
           z == AppliedResponse(db, s.claim, s.reply, {})
           kind == ResponseKind(db, s.user, s.claim, s.reply)
           p == IF kind = "ownership" THEN Revalidate(s) ELSE Idle(s)
<1>1. /\ s.pc = "synced" /\ tab' = [tab EXCEPT ![t] = p]
      /\ server' = server /\ cookie' = cookie /\ late' = late /\ requests' = requests
      /\ faults' = faults /\ author' = author
  BY DEF ApplySync, Commit, Step, Outcome
<1>2. db' = IF kind = "apply" THEN z ELSE db
  BY DEF ApplySync, Commit, Outcome
<1>3. /\ SoundTab(s, server, author, requests) /\ s \in TabState
      /\ SoundDb(db, server, author, requests) /\ db \in Database
      /\ faults' \in Faults /\ s.reply \in Nat
  BY <1>1 DEF Inv, Shapes, SoundTab, SoundDb, TabState
<1>4. SoundTab(p, server, author, requests)
  <2> HIDE DEF s, kind
  <2> QED BY <1>3, RevalidateSound, IdleSound
<1> HIDE DEF p
<1>5. CASE kind # "apply"
  BY <1>1, <1>2, <1>3, <1>4, <1>5, TabOnlyInv
<1>6. CASE kind = "apply"
  <2>1. db.owner = s.user /\ db.resolution = None /\ ~(db.revision > s.reply)
    <3>1. ContextError(db, s.user) # "apply"
      BY DEF ContextError
    <3>2. ContextError(db, s.user) = "none" /\ ~(db.revision > s.reply)
      BY <1>6, <3>1 DEF ResponseKind
    <3> QED BY <3>2, ContextFacts
  <2> HIDE DEF s, kind
  <2>2. /\ z \in Database /\ z.owner = db.owner /\ z.revision = s.reply /\ z.queue \subseteq db.queue
        /\ z.outgoing = None /\ z.resolution = None
    <3> DEFINE queue == Kept(db.queue, s.claim.sent, {})
               proof == Kept(db.proof \cap db.queue, s.claim.sent, {})
    <3>1. queue \subseteq db.queue /\ queue \subseteq Op /\ proof \subseteq Op
      BY <1>3 DEF Kept, Database
    <3>2. z = [db EXCEPT !.revision = s.reply, !.queue = queue, !.proof = proof, !.outgoing = None]
      BY <1>3 DEF AppliedResponse, Database
    <3> HIDE DEF queue, proof, z
    <3> QED BY <1>3, <2>1, <3>1, <3>2 DEF Database
  <2>3. s.reply <= server[s.user].revision
    BY <1>1, <1>3 DEF SoundTab, SoundExchange, s
  <2> HIDE DEF z
  <2>4. SoundDb(db', server, author, requests)
    BY <1>2, <1>3, <1>6, <2>1, <2>2, <2>3 DEF SoundDb
  <2>5. Inv'
    BY <1>1, <1>3, <1>4, <2>4, QuietInv
  <2>6. db.revision \in Nat
    BY <1>3 DEF Database
  <2>7. SentKept /\ NotOlder
    BY <1>2, <1>3, <1>6, <2>1, <2>2, <2>6 DEF SentKept, NotOlder
  <2> QED BY <1>1, <2>5, <2>7, ServerSame DEF StepKept
<1> QED BY <1>5, <1>6
----------------------------------------------------------------------------
(* What the accounts do.                                                   *)

\* A request is applied once, and adds to its account what it carries.
LEMMA ResolvedServerGrows ==
    ASSUME Inv, NEW r \in Resolution, SoundRequest(r, author, requests), ~Replayed(r),
           r \in Underway, server' = ResolvedServer(r)
    PROVE  /\ server' \in [Account -> AccountState]
           /\ ServerGrows(server, server', requests) /\ SoundServer(server', requests)
           /\ Crossing
           /\ server'[r.user].resolved[r.id] = server'[r.user].revision
<1> DEFINE u == r.user
           old == server[u]
           log == CASE r.strategy = "merge" -> old.log \cup r.sent
                    [] r.strategy = "replace_remote" -> r.sent
                    [] r.strategy = "keep_remote" -> old.log
           x == old.revision + IF log = old.log THEN 0 ELSE 1
           known == [old.resolved EXCEPT ![r.id] = x]
           new == [revision |-> x, log |-> log, resolved |-> known]
<1>1. /\ server \in [Account -> AccountState] /\ SoundServer(server, requests)
      /\ requests \in Nat
  BY BootstrapAssumption DEF Inv, Shapes
<1>2. /\ u \in Account /\ r.id \in Request /\ r.sent \subseteq Op /\ r.id <= requests
      /\ r.strategy \in {"merge", "replace_remote", "keep_remote"}
  BY DEF Resolution, SoundRequest, Strategy
<1>3. /\ old \in AccountState /\ old.revision \in Nat /\ old.log \subseteq Op
      /\ old.resolved \in [Request -> Nat \cup {None}]
  BY <1>1, <1>2 DEF AccountState
<1>4. server' = [server EXCEPT ![u] = new]
  BY DEF ResolvedServer
<1>5. log \subseteq old.log \cup r.sent
  BY <1>2
<1>6. old.resolved[r.id] = None
  BY DEF Replayed
<1> HIDE DEF log
<1>7. x \in Nat /\ old.revision <= x
  BY <1>3
<1> HIDE DEF x, old, u
<1>8. /\ known \in [Request -> Nat \cup {None}] /\ known[r.id] = x
      /\ \A i \in Request : i # r.id => known[i] = old.resolved[i]
  BY <1>2, <1>3, <1>7
<1> HIDE DEF known
<1>9. new \in AccountState /\ new.revision = x /\ new.log = log /\ new.resolved = known
  BY <1>2, <1>3, <1>5, <1>7, <1>8 DEF AccountState
<1> HIDE DEF new
<1>10. /\ server' \in [Account -> AccountState] /\ server'[u] = new
       /\ \A a \in Account : a # u => server'[a] = server[a]
  BY <1>1, <1>2, <1>4, <1>9
<1>11. \A a \in Account : server[a].revision \in Nat /\ server'[a].revision \in Nat
  BY <1>1, <1>10 DEF AccountState
<1>12. ServerGrows(server, server', requests)
  <2> SUFFICES ASSUME NEW a \in Account
               PROVE  /\ server[a].revision <= server'[a].revision
                      /\ \A i \in Request :
                           \/ server'[a].resolved[i] = server[a].resolved[i]
                           \/ /\ server[a].resolved[i] = None /\ i <= requests
                              /\ server'[a].resolved[i] = server'[a].revision
    BY DEF ServerGrows
  <2>1. CASE a # u
    BY <1>10, <1>11, <2>1
  <2>2. CASE a = u
    BY <1>2, <1>6, <1>7, <1>8, <1>9, <1>10, <2>2 DEF old
  <2> QED BY <2>1, <2>2
<1>13. SoundServer(server', requests)
  <2> SUFFICES ASSUME NEW a \in Account, NEW i \in Request, server'[a].resolved[i] # None
               PROVE  i <= requests /\ server'[a].resolved[i] <= server'[a].revision
    BY DEF SoundServer
  <2>1. CASE server'[a].resolved[i] = server[a].resolved[i]
    <3>1. i <= requests /\ server[a].resolved[i] <= server[a].revision
      BY <1>1, <2>1 DEF SoundServer
    <3>2. server[a].resolved[i] \in Nat /\ server[a].revision <= server'[a].revision
      BY <1>1, <1>12, <2>1 DEF AccountState, ServerGrows
    <3> QED BY <1>11, <2>1, <3>1, <3>2
  <2>2. CASE i <= requests /\ server'[a].resolved[i] = server'[a].revision
    BY <1>11, <2>2
  <2> QED BY <1>12, <2>1, <2>2 DEF ServerGrows
<1>14. Crossing
  <2> SUFFICES ASSUME NEW a \in Account, NEW o \in server'[a].log \ server[a].log
               PROVE  \/ author[o] \in {"anonymous", a}
                      \/ \E q \in Underway : q.user = a /\ o \in q.sent /\ q.asked
    BY DEF Crossing
  <2>1. a = u /\ o \in r.sent
    BY <1>5, <1>9, <1>10 DEF old
  <2> QED BY <2>1 DEF u, SoundRequest
<1> QED BY <1>8, <1>9, <1>10, <1>12, <1>13, <1>14 DEF u

\* The server answers a tab: what it recorded is what the tab hears.
LEMMA AnswerInv ==
    ASSUME Inv, NEW t \in Tab, NEW s, tab' = [tab EXCEPT ![t] = s],
           db' = db, cookie' = cookie, late' = late, requests' = requests, faults' = faults,
           author' = author,
           server' \in [Account -> AccountState], ServerGrows(server, server', requests),
           SoundServer(server', requests), SoundTab(s, server', author, requests)
    PROVE  Inv' /\ SentKept /\ NotOlder
<1>1. /\ requests \in Nat /\ server \in [Account -> AccountState] /\ s \in TabState
      /\ SoundDb(db, server, author, requests)
      /\ \A r \in late : SoundRequest(r, author, requests)
  BY BootstrapAssumption DEF Inv, Shapes, SoundTab
<1>2. AuthorGrows(author, author') /\ requests <= requests'
  BY <1>1, Reflexive
<1>3. SoundDb(db, server', author, requests)
  BY <1>1, <1>2, DbStays
<1>4. Shapes'
  BY <1>1 DEF Inv, Shapes
<1>5. Inv'
  BY <1>1, <1>2, <1>3, <1>4, TabInv
<1> QED BY <1>5, DbSame

LEMMA PostedUnderway ==
    ASSUME NEW t \in Tab, tab[t].pc = "posted"
    PROVE  tab[t].pending \in Underway
BY DEF Underway

\* An answered tab heard what its account recorded.
LEMMA AnsweredSound ==
    ASSUME NEW s, NEW x \in Nat, NEW sv, NEW ev, NEW au, NEW n, SoundTab(s, sv, au, n),
           s.pc = "posted", ev[s.user].resolved[s.pending.id] = x
    PROVE  SoundTab([s EXCEPT !.pc = "answered", !.reply = x], ev, au, n)
<1> DEFINE p == [s EXCEPT !.pc = "answered", !.reply = x]
<1>1. s \in TabState
  BY DEF SoundTab
<1>2. /\ p \in TabState /\ p.pc = "answered" /\ p.user = s.user /\ p.local = s.local
      /\ p.validated = s.validated /\ p.plan = s.plan /\ p.pending = s.pending
      /\ p.asked = s.asked /\ p.error = s.error /\ p.conflict = s.conflict /\ p.reply = x
  BY <1>1 DEF TabState
<1> HIDE DEF p
<1>3. SoundSession(p)
  BY <1>2 DEF SoundTab, SoundSession
<1>4. SoundPending(p, au, n)
  BY <1>2 DEF SoundTab, SoundPending
<1>5. SoundExchange(p, ev, au)
  BY <1>2 DEF SoundExchange
<1>6. SoundTab(p, ev, au, n)
  BY <1>2, <1>3, <1>4, <1>5 DEF SoundTab
<1> QED BY <1>6 DEF p

LEMMA ServeResolutionInv ==
    ASSUME Inv, NEW t \in Tab, ServeResolution(t)
    PROVE  Inv' /\ StepKept
<1> DEFINE s == tab[t]
           r == s.pending
           i == Idle(s)
           q == [i EXCEPT !.conflict = TRUE, !.error = TRUE]
<1>1. /\ s.pc = "posted" /\ db' = db /\ cookie' = cookie /\ late' = late /\ requests' = requests
      /\ faults' = faults /\ author' = author
  BY DEF ServeResolution
<1>2. /\ SoundTab(s, server, author, requests) /\ s \in TabState
      /\ server \in [Account -> AccountState] /\ SoundServer(server, requests)
      /\ faults' \in Faults
  BY <1>1 DEF Inv, Shapes, SoundTab
<1>3. /\ r \in Resolution /\ SoundRequest(r, author, requests) /\ r.user = s.user
      /\ r.source = s.local /\ r # None /\ (s.asked \/ s.validated)
      /\ s.validated \/ s.plan # "none" => s.user # None
  BY <1>1, <1>2 DEF SoundTab, SoundSession, SoundPending, TabState
<1>4. r.user \in Account /\ r.id \in Request /\ r \in Underway
  BY <1>1, <1>3, PostedUnderway DEF Resolution
<1>5. CASE /\ Replayed(r) /\ server' = server
           /\ tab' = [tab EXCEPT ![t] = [s EXCEPT !.pc = "answered",
                                                  !.reply = server[r.user].resolved[r.id]]]
  <2> DEFINE x == server[r.user].resolved[r.id]
  <2>1. x \in Nat
    BY <1>2, <1>4, <1>5 DEF Replayed, AccountState
  <2> HIDE DEF s
  <2>2. SoundTab([s EXCEPT !.pc = "answered", !.reply = x], server, author, requests)
    BY <1>1, <1>2, <1>3, <2>1, AnsweredSound
  <2> HIDE DEF x
  <2>3. tab' = [tab EXCEPT ![t] = [s EXCEPT !.pc = "answered", !.reply = x]]
    BY <1>5 DEF x
  <2> QED BY <1>1, <1>2, <1>5, <2>2, <2>3, TabOnlyInv
<1>6. CASE /\ ~Replayed(r) /\ server' = ResolvedServer(r)
           /\ tab' = [tab EXCEPT ![t] = [s EXCEPT !.pc = "answered",
                                                  !.reply = server'[r.user].revision]]
  <2> DEFINE x == server'[r.user].revision
             p == [s EXCEPT !.pc = "answered", !.reply = x]
  <2>1. /\ server' \in [Account -> AccountState]
        /\ ServerGrows(server, server', requests) /\ SoundServer(server', requests)
        /\ Crossing /\ server'[r.user].resolved[r.id] = x
    BY <1>3, <1>4, <1>6, ResolvedServerGrows
  <2>2. x \in Nat
    BY <1>4, <2>1 DEF AccountState
  <2> HIDE DEF s, x
  <2>3. SoundTab(p, server', author, requests)
    BY <1>1, <1>2, <1>3, <2>1, <2>2, AnsweredSound
  <2>4. tab' = [tab EXCEPT ![t] = p]
    BY <1>6 DEF x
  <2> HIDE DEF p
  <2> QED BY <1>1, <2>1, <2>3, <2>4, AnswerInv DEF StepKept
<1>7. CASE server' = server /\ tab' = [tab EXCEPT ![t] = q]
  <2>1. /\ i \in TabState /\ i.pc = "idle" /\ i.user = s.user /\ i.local = s.local
        /\ i.validated = s.validated /\ i.pending = s.pending /\ i.plan = s.plan
        /\ i.asked = s.asked
    BY <1>2, IdleFields
  <2> HIDE DEF i, s
  <2>2. /\ q \in TabState /\ q.pc = "idle" /\ q.user = s.user /\ q.local = s.local
        /\ q.validated = s.validated /\ q.pending = s.pending /\ q.plan = s.plan
        /\ q.asked = s.asked /\ q.error
    BY <2>1 DEF TabState
  <2> HIDE DEF q
  <2>3. SoundTab(q, server, author, requests)
    BY <1>3, <2>2, RestSound
  <2> QED BY <1>1, <1>2, <1>7, <2>3, TabOnlyInv
<1> QED BY <1>5, <1>6, <1>7 DEF ServeResolution, Step

LEMMA ServeSyncInv ==
    ASSUME Inv, NEW t \in Tab, ServeSync(t)
    PROVE  Inv' /\ StepKept
<1> DEFINE s == tab[t]
           a == s.user
           new == s.claim.sent \ server[a].log
           old == server[a]
           y == old.revision + IF new = {} THEN 0 ELSE 1
           e == [old EXCEPT !.log = old.log \cup new, !.revision = y]
           x == server'[a].revision
           p == [s EXCEPT !.pc = "synced", !.reply = x]
<1>1. /\ s.pc = "syncing" /\ db' = db /\ cookie' = cookie /\ late' = late /\ requests' = requests
      /\ faults' = faults /\ author' = author /\ tab' = [tab EXCEPT ![t] = p]
  BY DEF ServeSync, Step
<1>2. /\ SoundTab(s, server, author, requests) /\ s \in TabState
      /\ server \in [Account -> AccountState] /\ SoundServer(server, requests)
  BY DEF Inv, Shapes, SoundTab
<1>3. /\ s.claim \in Claim /\ a \in Account /\ a # None /\ s.claim.sent \subseteq Op
      /\ \A o \in s.claim.sent : author[o] = a
  BY <1>1, <1>2 DEF SoundTab, SoundExchange, TabState, Owner, Claim
<1>4. /\ old \in AccountState /\ old.revision \in Nat /\ old.log \subseteq Op
  BY <1>2, <1>3 DEF AccountState
<1>5. server' = [server EXCEPT ![a] = e]
  BY <1>2, <1>3, <1>4 DEF ServeSync, AccountState
<1>6. y \in Nat /\ old.revision <= y
  BY <1>4
<1>7. new \subseteq s.claim.sent
  OBVIOUS
<1>8. p = [s EXCEPT !.pc = "synced", !.reply = x]
  OBVIOUS
<1> HIDE DEF y, old, a, new, s
<1>9. /\ e \in AccountState /\ e.revision = y /\ e.log = old.log \cup new /\ e.resolved = old.resolved
  BY <1>3, <1>4, <1>6, <1>7 DEF AccountState
<1> HIDE DEF e
<1>10. /\ server' \in [Account -> AccountState] /\ server'[a] = e
       /\ \A b \in Account : b # a => server'[b] = server[b]
  BY <1>2, <1>3, <1>5, <1>9
<1>11. \A b \in Account : /\ server[b].revision \in Nat /\ server'[b].revision \in Nat
                          /\ server[b].revision <= server'[b].revision
                          /\ server'[b].resolved = server[b].resolved
  BY <1>2, <1>6, <1>9, <1>10 DEF AccountState, old
<1>12. ServerGrows(server, server', requests)
  BY <1>11 DEF ServerGrows
<1>13. SoundServer(server', requests)
  <2> SUFFICES ASSUME NEW b \in Account, NEW j \in Request, server'[b].resolved[j] # None
               PROVE  j <= requests /\ server'[b].resolved[j] <= server'[b].revision
    BY DEF SoundServer
  <2>1. j <= requests /\ server[b].resolved[j] <= server[b].revision
    BY <1>2, <1>11 DEF SoundServer
  <2>2. server[b].resolved[j] \in Nat
    BY <1>2, <1>11 DEF AccountState
  <2> QED BY <1>11, <2>1, <2>2
<1>14. Crossing
  <2> SUFFICES ASSUME NEW b \in Account, NEW o \in server'[b].log \ server[b].log
               PROVE  author[o] = b
    BY DEF Crossing
  <2>1. b = a /\ o \in new
    BY <1>9, <1>10 DEF old
  <2> QED BY <1>3, <1>7, <2>1
<1>15. x \in Nat /\ x = server'[a].revision
  BY <1>3, <1>11
<1> HIDE DEF x
<1>16. /\ p \in TabState /\ p.pc = "synced" /\ p.user = s.user /\ p.local = s.local
       /\ p.validated = s.validated /\ p.plan = s.plan /\ p.pending = s.pending
       /\ p.asked = s.asked /\ p.error = s.error /\ p.conflict = s.conflict /\ p.reply = x
       /\ p.claim = s.claim
  BY <1>2, <1>15 DEF TabState
<1> HIDE DEF p
<1>17. SoundSession(p)
  BY <1>1, <1>2, <1>16 DEF SoundTab, SoundSession
<1>18. SoundPending(p, author, requests)
  BY <1>1, <1>2, <1>16 DEF SoundTab, SoundPending
<1>19. SoundExchange(p, server', author)
  BY <1>1, <1>2, <1>11, <1>15, <1>16 DEF SoundTab, SoundExchange, a
<1>20. SoundTab(p, server', author, requests)
  BY <1>16, <1>17, <1>18, <1>19 DEF SoundTab
<1> QED BY <1>1, <1>10, <1>12, <1>13, <1>14, <1>20, AnswerInv DEF StepKept
----------------------------------------------------------------------------
(* Steps of the network and the world.                                     *)

LEMMA LateArrivalInv ==
    ASSUME Inv, LateArrival
    PROVE  Inv' /\ StepKept
<1>1. PICK r \in late : /\ late' = late \ {r}
                        /\ server' = IF Replayed(r) \/ ~Expected(r) THEN server ELSE ResolvedServer(r)
  BY DEF LateArrival
<1>2. /\ db' = db /\ cookie' = cookie /\ tab' = tab /\ requests' = requests /\ faults' = faults
      /\ author' = author
  BY DEF LateArrival
<1>3. /\ r \in Resolution /\ SoundRequest(r, author, requests) /\ r \in Underway
      /\ server \in [Account -> AccountState] /\ SoundServer(server, requests) /\ requests \in Nat
      /\ SoundDb(db, server, author, requests)
  BY BootstrapAssumption DEF Inv, Shapes, Underway
<1>4. /\ server' \in [Account -> AccountState] /\ ServerGrows(server, server', requests)
      /\ SoundServer(server', requests) /\ Crossing
  <2>1. CASE Replayed(r) \/ ~Expected(r)
    BY <1>1, <1>3, <2>1, Reflexive, ServerSame
  <2>2. CASE ~(Replayed(r) \/ ~Expected(r))
    BY <1>1, <1>3, <2>2, ResolvedServerGrows
  <2> QED BY <2>1, <2>2
<1>5. AuthorGrows(author, author') /\ requests <= requests'
  BY <1>2, <1>3, Reflexive
<1>6. SoundDb(db', server', author', requests')
  BY <1>2, <1>3, <1>4, <1>5, DbStays
<1>7. Shapes' /\ \A q \in late' : SoundRequest(q, author', requests')
  BY <1>1, <1>2, <1>4 DEF Inv, Shapes
<1>8. Inv'
  BY <1>2, <1>4, <1>5, <1>6, <1>7, WorldInv
<1> QED BY <1>2, <1>4, <1>8, DbSame DEF StepKept

LEMMA OtherDeviceInv ==
    ASSUME Inv, OtherDevice
    PROVE  Inv' /\ StepKept
<1>1. PICK a \in Account : server' = [server EXCEPT ![a].revision = @ + 1]
  BY DEF OtherDevice
<1>2. /\ db' = db /\ cookie' = cookie /\ tab' = tab /\ late' = late /\ requests' = requests
      /\ author' = author /\ Fault
  BY DEF OtherDevice
<1>3. /\ server \in [Account -> AccountState] /\ SoundServer(server, requests) /\ requests \in Nat
      /\ SoundDb(db, server, author, requests) /\ faults \in Faults
  BY BootstrapAssumption DEF Inv, Shapes
<1>4. faults' \in Faults
  BY <1>2, <1>3, FaultTyped
<1> DEFINE e == [server[a] EXCEPT !.revision = @ + 1]
<1>5. /\ e \in AccountState /\ e.revision = server[a].revision + 1 /\ server[a].revision \in Nat
      /\ e.log = server[a].log /\ e.resolved = server[a].resolved
  BY <1>3 DEF AccountState
<1>6. server' = [server EXCEPT ![a] = e]
  BY <1>1
<1> HIDE DEF e
<1>7. /\ server' \in [Account -> AccountState] /\ server'[a] = e
      /\ \A b \in Account : b # a => server'[b] = server[b]
  BY <1>3, <1>5, <1>6
<1>8. \A b \in Account : /\ server[b].revision \in Nat /\ server'[b].revision \in Nat
                         /\ server[b].revision <= server'[b].revision
                         /\ server'[b].resolved = server[b].resolved
                         /\ server'[b].log = server[b].log
  BY <1>3, <1>5, <1>7 DEF AccountState
<1>9. ServerGrows(server, server', requests) /\ Crossing
  BY <1>8 DEF ServerGrows, Crossing
<1>10. SoundServer(server', requests)
  <2> SUFFICES ASSUME NEW b \in Account, NEW j \in Request, server'[b].resolved[j] # None
               PROVE  j <= requests /\ server'[b].resolved[j] <= server'[b].revision
    BY DEF SoundServer
  <2>1. j <= requests /\ server[b].resolved[j] <= server[b].revision
    BY <1>3, <1>8 DEF SoundServer
  <2>2. server[b].resolved[j] \in Nat
    BY <1>3, <1>8 DEF AccountState
  <2> QED BY <1>8, <2>1, <2>2
<1>11. AuthorGrows(author, author') /\ requests <= requests'
  BY <1>2, <1>3, Reflexive
<1>12. SoundDb(db', server', author', requests')
  BY <1>2, <1>3, <1>7, <1>9, <1>11, DbStays
<1>13. Shapes' /\ \A q \in late' : SoundRequest(q, author', requests')
  BY <1>2, <1>4, <1>7 DEF Inv, Shapes
<1>14. Inv'
  BY <1>2, <1>9, <1>10, <1>11, <1>12, <1>13, WorldInv
<1> QED BY <1>2, <1>9, <1>14, DbSame DEF StepKept

LEMMA ExpireLeaseInv ==
    ASSUME Inv, ExpireLease
    PROVE  Inv' /\ StepKept
<1>1. /\ server' = server /\ cookie' = cookie /\ tab' = tab /\ late' = late /\ requests' = requests
      /\ author' = author /\ Fault /\ db.gate # None /\ db' = [db EXCEPT !.gate.live = FALSE]
  BY DEF ExpireLease, LeaseIsLive
<1>2. /\ server \in [Account -> AccountState] /\ SoundServer(server, requests) /\ requests \in Nat
      /\ SoundDb(db, server, author, requests) /\ db \in Database /\ faults \in Faults
  BY BootstrapAssumption DEF Inv, Shapes, SoundDb
<1>3. faults' \in Faults
  BY <1>1, <1>2, FaultTyped
<1>4. /\ db' \in Database /\ db'.owner = db.owner /\ db'.revision = db.revision
      /\ db'.queue = db.queue /\ db'.outgoing = db.outgoing /\ db'.resolution = db.resolution
  <2> DEFINE g == [db.gate EXCEPT !.live = FALSE]
  <2>1. g \in Gate
    BY <1>1, <1>2 DEF Database, Gate
  <2>2. db' = [db EXCEPT !.gate = g]
    BY <1>1, <1>2 DEF Database
  <2> HIDE DEF g
  <2> QED BY <1>2, <2>1, <2>2 DEF Database
<1>5. GateStep(db, db', db)
  BY <1>4 DEF GateStep
<1>6. SoundDb(db', server, author, requests)
  BY <1>2, <1>5, GateStepSound
<1>7. /\ ServerGrows(server, server', requests') /\ AuthorGrows(author, author')
      /\ requests <= requests'
  BY <1>1, <1>2, Reflexive
<1>8. Shapes' /\ \A q \in late' : SoundRequest(q, author', requests')
  BY <1>1, <1>3 DEF Inv, Shapes
<1>9. Inv'
  BY <1>1, <1>2, <1>6, <1>7, <1>8, WorldInv
<1>10. SentKept /\ NotOlder
  <2>1. /\ db.resolution # None => db.resolution = [db.resolution EXCEPT !.token = db.resolution.token]
        /\ db.revision \in Nat
    BY <1>2 DEF Database, Resolution
  <2> QED BY <1>4, <2>1 DEF SentKept, NotOlder
<1> QED BY <1>1, <1>9, <1>10, ServerSame DEF StepKept

LEMMA SwitchCookieInv ==
    ASSUME Inv, SwitchCookie
    PROVE  Inv' /\ StepKept
<1>1. /\ db' = db /\ server' = server /\ cookie' \in Account /\ tab' = tab /\ late' = late
      /\ requests' = requests /\ author' = author
      /\ faults.switches < MaxSwitches /\ faults' = [faults EXCEPT !.switches = @ + 1]
  BY DEF SwitchCookie
<1>2. /\ server \in [Account -> AccountState] /\ SoundServer(server, requests) /\ requests \in Nat
      /\ SoundDb(db, server, author, requests) /\ faults \in Faults
  BY BootstrapAssumption DEF Inv, Shapes
<1>3. faults' \in Faults
  BY <1>1, <1>2, BootstrapAssumption DEF Faults
<1>4. /\ ServerGrows(server, server', requests') /\ AuthorGrows(author, author')
      /\ requests <= requests'
  BY <1>1, <1>2, Reflexive
<1>5. Shapes' /\ \A q \in late' : SoundRequest(q, author', requests')
  BY <1>1, <1>3 DEF Inv, Shapes
<1>6. Inv'
  BY <1>1, <1>2, <1>4, <1>5, WorldInv
<1> QED BY <1>1, <1>6, DbSame, ServerSame DEF StepKept
----------------------------------------------------------------------------
(* The theorems.                                                           *)

LEMMA InitInv == Init => Inv
<1> SUFFICES ASSUME Init PROVE Inv
  OBVIOUS
<1>1. PICK owner \in Owner, queue \in SUBSET Op :
        /\ db = [owner |-> owner, revision |-> 0, queue |-> queue, proof |-> queue,
                 outgoing |-> None, gate |-> None, resolution |-> None]
        /\ author = [o \in Op |-> IF o \in queue THEN MadeBy(owner) ELSE "unmade"]
  BY DEF Init
<1>2. /\ server = [a \in Account |-> [revision |-> 0, log |-> {},
                                      resolved |-> [i \in Request |-> None]]]
      /\ cookie \in Account /\ tab = [t \in Tab |-> ClosedTab]
      /\ late = {} /\ requests = 0 /\ faults = [switches |-> 0, other |-> 0]
  BY DEF Init
<1>3. /\ db \in Database /\ db.owner = owner /\ db.queue = queue /\ db.revision = 0
      /\ db.outgoing = None /\ db.resolution = None
  BY <1>1 DEF Database
<1>4. \A a \in Account : /\ server[a] \in AccountState /\ server[a].revision = 0
                         /\ \A i \in Request : server[a].resolved[i] = None
  BY <1>2 DEF AccountState
<1>5. \A o \in db.queue : author[o] = MadeBy(db.owner)
  BY <1>1, <1>3
<1>6. SoundDb(db, server, author, requests)
  BY <1>3, <1>4, <1>5 DEF SoundDb, Owner
<1>7. SoundServer(server, requests)
  BY <1>4 DEF SoundServer
<1>8. author \in [Op -> Account \cup {"anonymous", "unmade"}]
  BY <1>1 DEF MadeBy, Owner
<1>9. \A t \in Tab : tab[t] = ClosedTab /\ SoundTab(tab[t], server, author, requests)
  BY <1>2, ClosedSound
<1>10. tab \in [Tab -> TabState] /\ server \in [Account -> AccountState]
  BY <1>2, <1>4, <1>9 DEF SoundTab
<1>11. cookie \in Account /\ late \subseteq Resolution /\ \A r \in late : FALSE
  BY <1>2
<1>12. requests \in 0 .. MaxRequests /\ faults \in Faults
  BY <1>2, BootstrapAssumption DEF Faults
<1>13. Shapes
  BY <1>8, <1>10, <1>11, <1>12 DEF Shapes
<1> QED BY <1>6, <1>7, <1>9, <1>11, <1>13 DEF Inv

LEMMA NextInv == Inv /\ [Next]_vars => Inv' /\ (UNCHANGED vars \/ StepKept)
<1> SUFFICES ASSUME Inv, [Next]_vars PROVE Inv' /\ (UNCHANGED vars \/ StepKept)
  OBVIOUS
<1>1. CASE UNCHANGED vars
  BY <1>1 DEF vars, Inv, Shapes
<1>2. ASSUME NEW t \in Tab, TabStep(t) PROVE Inv' /\ StepKept
  BY <1>2, OpenTabInv, ResumeInv, SessionAnswerInv, SessionFailedInv, PrepareInv, PreviewInv,
     ChooseInv, CaptureInv, SubmitInv, ServeResolutionInv, ServeForeignInv, ApplyResolutionInv,
     RetryInv, MutateInv, SyncInv, ServeSyncInv, ApplySyncInv, LoseExchangeInv, CloseTabInv
     DEF TabStep
<1>3. CASE Next
  BY <1>2, <1>3, LateArrivalInv, OtherDeviceInv, ExpireLeaseInv, SwitchCookieInv DEF Next
<1> QED BY <1>1, <1>3

LEMMA Invariance == Spec => []Inv
BY InitInv, NextInv, PTL DEF Spec

(* The database, the saved history request and the tabs keep their shape   *)
(* through every handover of the gate: a request always says which owner's *)
(* work it carries (createCapturedResolution).                             *)
THEOREM TypeCorrect == Spec => []TypeOK
<1>1. Inv => TypeOK
  BY DEF Inv, Shapes, SoundDb, Database, AccountState, TypeOK
<1> QED BY <1>1, Invariance, PTL

(* Work made under one account enters another account's log only with a    *)
(* history request that the user chose: no sync round, automatic merge,    *)
(* retry or late arrival carries it there (assertStorageContext,           *)
(* accountHeaders, validateResolutionCapture).                             *)
THEOREM NothingCrossesUnchosen == Spec => NoAutomaticCrossing
<1>1. Inv /\ [Next]_vars => [Crossing]_vars
  BY NextInv DEF StepKept
<1> QED BY <1>1, Invariance, PTL DEF Spec, NoAutomaticCrossing, Crossing

(* A history request that may have reached the server stays as it was sent *)
(* until its recorded answer is installed or a tab with the session of     *)
(* another account drops it (validateResolutionCapture,                    *)
(* invalidateForeignResolution, applyPendingResolution).                   *)
THEOREM SentRequestsKept == Spec => SentRequestKept
<1>1. Inv /\ [Next]_vars => [SentKept]_vars
  BY NextInv DEF StepKept
<1> QED BY <1>1, Invariance, PTL DEF Spec, SentRequestKept, SentKept

(* The stored snapshot of one owner never goes back: neither a sync round  *)
(* nor a repeated history request, answered with the revision of its first *)
(* answer, installs an older one (planSyncResponse,                        *)
(* applyPendingResolution).                                                *)
THEOREM SnapshotsNeverOlder == Spec => SnapshotNeverOlder
<1>1. Inv /\ [Next]_vars => [NotOlder]_vars
  BY NextInv DEF StepKept
<1> QED BY <1>1, Invariance, PTL DEF Spec, SnapshotNeverOlder, NotOlder
=============================================================================
