-------------------------- MODULE ClientSyncProofs --------------------------
(***************************************************************************)
(* The safety of the web client's sync engine for every set of tabs and    *)
(* operations, every batch limit and every number of faults.               *)
(*                                                                         *)
(* A step is quiet when it leaves snapshot, queue, proof and claim alone   *)
(* and at most ends exchanges (QuietStep); most actions are.  The others   *)
(* are an edit, a claim, an answer on either side, a discarded claim and   *)
(* what the world does to the server, one lemma each.                      *)
(***************************************************************************)
EXTENDS ClientSync, TLAPS

Database == [owner : {Me}, revision : Nat, queue : SUBSET Op, proof : SUBSET Op,
             outgoing : Claim \cup {None}, gate : Gate \cup {None}, resolution : {None}]

Exchanging == {"posted", "answered"}
----------------------------------------------------------------------------
(* The inductive invariant.                                                *)

\* A request under way carries a claim.
ExchangesCarry == \A t \in Tab : tab[t].pc \in Exchanging => tab[t].claim \in Claim

\* Every identity that is stored, sent or logged was issued by the user.
WorkIssued ==
    /\ db.queue \subseteq issued /\ gone \subseteq issued
    /\ SentIds(db.outgoing) \subseteq issued
    /\ \A o \in Op : server.logged[o] > 0 => o \in issued
    /\ \A c \in late : c.sent \subseteq issued
    /\ \A t \in Tab : SentIds(tab[t].claim) \subseteq issued

\* Work that is proved unsent, or was given up as such, is in no claim that any
\* tab, the database or the network holds, and not at the server.
Nowhere(o) ==
    /\ server.logged[o] = 0
    /\ o \notin SentIds(db.outgoing)
    /\ \A c \in late : o \notin c.sent
    /\ \A t \in Tab : o \notin SentIds(tab[t].claim)

UnsentNowhere ==
    /\ gone \cap db.queue = {}
    /\ db.proof \cap SentIds(db.outgoing) = {}
    /\ \A o \in NeverSent(db) \cup gone : Nowhere(o)

\* An answer under way is a revision the server had, and holds its claim.
AnswersHold ==
    \A t \in Tab : tab[t].pc = "answered" =>
        /\ tab[t].reply <= server.revision
        /\ \A o \in tab[t].claim.sent : server.logged[o] > 0 /\ server.logged[o] <= tab[t].reply

\* No snapshot and no logged operation is ahead of the server.
NothingAhead ==
    /\ db.revision <= server.revision
    /\ \A o \in Op : server.logged[o] <= server.revision

Inv ==
    /\ TypeOK
    /\ ExchangesCarry /\ WorkIssued /\ UnsentNowhere /\ AnswersHold /\ NothingAhead
    /\ EditsAccounted /\ AnswerNotOlder
----------------------------------------------------------------------------
(* What a tab's calls on itself do to its record.                          *)

\* A tab's exchange goes on as it is, or ends.
Tame(s, r) ==
    /\ r \in TabState
    /\ r.claim \in {s.claim, None}
    /\ r.pc \in Exchanging => r.pc = s.pc /\ r.claim = s.claim /\ r.reply = s.reply

\* ScheduleRetry touches the timer only.
LEMMA ScheduleRetryTame ==
    ASSUME NEW s \in TabState
    PROVE  Tame(s, ScheduleRetry(s))
BY DEF Tame, ScheduleRetry, TabState, Busy, Exchanging

\* Nothing is under way after a failure for the gate.
LEMMA BlockSyncTame ==
    ASSUME NEW s \in TabState
    PROVE  Tame(s, BlockSync(s))
BY DEF Tame, BlockSync, ScheduleRetry, TabState, Busy, Exchanging

\* A round ends, with or without another one asked for.
LEMMA FinishTame ==
    ASSUME NEW s \in TabState, NEW failed \in BOOLEAN
    PROVE  Tame(s, Finish(s, failed))
BY DEF Tame, Finish, TabState, Busy, Exchanging

LEMMA FailTame ==
    ASSUME NEW s \in TabState
    PROVE  Tame(s, Fail(s))
<1>1. ScheduleRetry(s) \in TabState /\ ScheduleRetry(s).claim = s.claim
  BY DEF ScheduleRetry, TabState
<1>2. Tame(ScheduleRetry(s), Finish(ScheduleRetry(s), TRUE))
  BY <1>1, FinishTame
<1>3. Finish(ScheduleRetry(s), TRUE).pc = "idle"
  BY <1>1 DEF Finish, TabState
<1> QED BY <1>1, <1>2, <1>3 DEF Tame, Fail, Exchanging

LEMMA SucceedTame ==
    ASSUME NEW s \in TabState, NEW queue \in SUBSET Op
    PROVE  Tame(s, Succeed(s, queue))
<1> DEFINE r == [s EXCEPT !.again = @ \/ queue # {}]
<1>1. r \in TabState /\ r.claim = s.claim
  BY DEF TabState
<1>2. Tame(r, Finish(r, FALSE)) /\ Finish(r, FALSE).pc = "idle"
  <2>1. Tame(r, Finish(r, FALSE))
    BY <1>1, FinishTame
  <2>2. Finish(r, FALSE).pc = "idle"
    BY <1>1 DEF Finish, TabState
  <2> QED BY <2>1, <2>2
<1> QED BY <1>1, <1>2 DEF Tame, Succeed, Exchanging

\* Preflight claims, blocks or stays idle.
LEMMA PreflightTame ==
    ASSUME NEW s \in TabState, NEW force
    PROVE  Tame(s, Preflight(s, force))
<1>1. Tame(s, [s EXCEPT !.pc = "idle"]) /\ Tame(s, [s EXCEPT !.pc = "claim"])
  BY DEF Tame, TabState, Busy, Exchanging
<1>2. Tame(s, BlockSync(s))
  BY BlockSyncTame
<1> QED BY <1>1, <1>2 DEF Preflight

LEMMA SyncNowTame ==
    ASSUME NEW s \in TabState, NEW force
    PROVE  Tame(s, SyncNow(s, force))
<1>1. Tame(s, [s EXCEPT !.again = TRUE])
  BY DEF Tame, TabState
<1> QED BY <1>1, PreflightTame DEF SyncNow

LEMMA RestoreSessionTame ==
    ASSUME NEW s \in TabState
    PROVE  Tame(s, RestoreSession(s))
<1>1. Tame(s, s) /\ Tame(s, [s EXCEPT !.pc = "session"]) /\ Tame(s, [s EXCEPT !.pc = "prepare"])
  BY DEF Tame, TabState, Busy, Exchanging
<1> QED BY <1>1, SyncNowTame DEF RestoreSession

\* Tame changes compose with changes of other fields.
LEMMA TameAfter ==
    ASSUME NEW s, NEW r, NEW q,
           Tame(r, q), r.pc = s.pc, r.claim = s.claim, r.reply = s.reply
    PROVE  Tame(s, q)
BY DEF Tame

LEMMA HandleOnlineTame ==
    ASSUME NEW s \in TabState
    PROVE  Tame(s, HandleOnline(s))
<1> DEFINE r == [s EXCEPT !.timer = "off"]
<1>1. r \in TabState /\ r.pc = s.pc /\ r.claim = s.claim /\ r.reply = s.reply
  BY DEF TabState
<1>2. Tame(r, RestoreSession(r))
  BY <1>1, RestoreSessionTame
<1>3. Tame(s, RestoreSession(r))
  BY <1>1, <1>2, TameAfter
<1> QED BY <1>3 DEF HandleOnline
----------------------------------------------------------------------------
(* Quiet steps.                                                            *)

\* Queue, proof, claim and snapshot stay as they are; the server's log too.
QuietStep ==
    /\ db' \in Database
    /\ db'.revision = db.revision /\ db'.queue = db.queue
    /\ db'.proof = db.proof /\ db'.outgoing = db.outgoing
    /\ UNCHANGED <<server, issued, gone>>
    /\ tab' \in [Tab -> TabState]
    /\ \A t \in Tab : Tame(tab[t], tab'[t])
    /\ \A c \in late' : c \in late \/ \E t \in Tab : tab[t].pc = "posted" /\ c = tab[t].claim
    /\ online' \in BOOLEAN /\ faults' \in 0 .. MaxFaults

\* The parts of the type invariant.
LEMMA Types ==
    TypeOK <=> /\ db \in Database
               /\ server \in [revision : Nat, logged : [Op -> Nat]]
               /\ late \subseteq Claim
               /\ tab \in [Tab -> TabState]
               /\ online \in BOOLEAN
               /\ faults \in 0 .. MaxFaults
               /\ issued \subseteq Op /\ gone \subseteq Op
BY DEF TypeOK, Database

\* A tab replaces its own record and no other.
LEMMA OneTab ==
    ASSUME TypeOK, NEW t \in Tab, NEW r \in TabState, Step(t, r)
    PROVE  /\ tab' \in [Tab -> TabState]
           /\ tab'[t] = r
           /\ \A u \in Tab : u # t => tab'[u] = tab[u]
BY DEF TypeOK, Step

\* A record that does not change is tame.
LEMMA TameSame ==
    ASSUME NEW s \in TabState
    PROVE  Tame(s, s)
BY DEF Tame

LEMMA OneTabTame ==
    ASSUME TypeOK, NEW t \in Tab, NEW r, Tame(tab[t], r), Step(t, r)
    PROVE  /\ tab' \in [Tab -> TabState]
           /\ \A u \in Tab : Tame(tab[u], tab'[u])
<1>1. r \in TabState
  BY DEF Tame
<1>2. \A u \in Tab : tab[u] \in TabState
  BY DEF TypeOK
<1> QED BY <1>1, <1>2, OneTab, TameSame

\* A quiet step keeps the whole invariant: claims only disappear or move from a
\* posted request into the network.
LEMMA QuietKeeps ==
    ASSUME Inv, QuietStep
    PROVE  Inv'
<1> USE DEF Inv
<1>1. TypeOK'
  <2>1. late' \subseteq Claim
    BY Types DEF QuietStep, ExchangesCarry, Exchanging
  <2> QED BY <2>1, Types DEF QuietStep, TypeOK, Database
<1>2. ExchangesCarry'
  BY DEF QuietStep, Tame, ExchangesCarry
<1>3. \A t \in Tab : SentIds(tab'[t].claim) \subseteq SentIds(tab[t].claim)
  BY DEF QuietStep, Tame, SentIds
<1>4. \A c \in late' : c \in late \/ \E t \in Tab : c.sent = SentIds(tab[t].claim)
  BY NoneAssumption DEF QuietStep, ExchangesCarry, Exchanging, SentIds
<1>5. NeverSent(db') = NeverSent(db) /\ SentIds(db'.outgoing) = SentIds(db.outgoing)
  BY DEF QuietStep, NeverSent
<1>6. WorkIssued'
  BY <1>3, <1>4, <1>5 DEF QuietStep, WorkIssued
<1>7. UnsentNowhere'
  <2> SUFFICES ASSUME NEW o \in NeverSent(db) \cup gone
               PROVE  Nowhere(o)'
    BY <1>5 DEF QuietStep, UnsentNowhere
  <2>1. Nowhere(o)
    BY DEF UnsentNowhere
  <2> QED BY <2>1, <1>3, <1>4, <1>5 DEF Nowhere, QuietStep
<1>8. AnswersHold'
  BY DEF QuietStep, Tame, AnswersHold, Exchanging
<1>9. NothingAhead' /\ EditsAccounted'
  BY DEF QuietStep, NothingAhead, EditsAccounted
<1>10. AnswerNotOlder'
  BY DEF QuietStep, Tame, AnswerNotOlder, Exchanging
<1> QED BY <1>1, <1>2, <1>6, <1>7, <1>8, <1>9, <1>10
----------------------------------------------------------------------------
(* Which steps are quiet.                                                  *)

\* A step of one tab that touches nothing else.
LEMMA TabOnlyQuiet ==
    ASSUME TypeOK, NEW t \in Tab, NEW r, Tame(tab[t], r), Step(t, r),
           UNCHANGED <<db, server, late, issued, gone>>,
           online' \in BOOLEAN, faults' \in 0 .. MaxFaults
    PROVE  QuietStep
<1>1. tab' \in [Tab -> TabState] /\ \A u \in Tab : Tame(tab[u], tab'[u])
  BY OneTabTame
<1> QED BY <1>1, Types DEF QuietStep

LEMMA FaultCounts ==
    ASSUME TypeOK, Fault
    PROVE  faults' \in 0 .. MaxFaults
BY SyncAssumption DEF TypeOK, Fault

LEMMA FireTimerQuiet ==
    ASSUME TypeOK, NEW t \in Tab, FireTimer(t)
    PROVE  QuietStep
<1> DEFINE s == [tab[t] EXCEPT !.timer = "off"]
<1>1. tab[t] \in TabState
  BY DEF TypeOK
<1>2. s \in TabState /\ s.pc = tab[t].pc /\ s.claim = tab[t].claim /\ s.reply = tab[t].reply
  BY <1>1 DEF TabState
<1>3. PICK force \in BOOLEAN :
        Step(t, IF tab[t].timer = "sync" THEN SyncNow(s, force)
                ELSE IF s.validated /\ ~s.blocked THEN SyncNow(s, FALSE)
                ELSE RestoreSession(s))
  BY DEF FireTimer
<1> HIDE DEF s
<1>4. Tame(s, SyncNow(s, force)) /\ Tame(s, SyncNow(s, FALSE)) /\ Tame(s, RestoreSession(s))
  BY <1>2, SyncNowTame, RestoreSessionTame
<1>5. /\ Tame(tab[t], SyncNow(s, force)) /\ Tame(tab[t], SyncNow(s, FALSE))
      /\ Tame(tab[t], RestoreSession(s))
  BY <1>2, <1>4, TameAfter
<1>6. online' \in BOOLEAN /\ faults' \in 0 .. MaxFaults /\ UNCHANGED <<db, server, late, issued, gone>>
  BY DEF FireTimer, ClientUnchanged, TypeOK
<1> QED BY <1>3, <1>5, <1>6, TabOnlyQuiet

LEMMA PollQuiet ==
    ASSUME TypeOK, NEW t \in Tab, Poll(t)
    PROVE  QuietStep
<1>1. Tame(tab[t], SyncNow(tab[t], TRUE))
  BY SyncNowTame DEF TypeOK
<1>2. Step(t, SyncNow(tab[t], TRUE))
  BY DEF Poll
<1>3. online' \in BOOLEAN /\ faults' \in 0 .. MaxFaults /\ UNCHANGED <<db, server, late, issued, gone>>
  BY DEF Poll, ClientUnchanged, TypeOK
<1> QED BY <1>1, <1>2, <1>3, TabOnlyQuiet

LEMMA WakeQuiet ==
    ASSUME TypeOK, NEW t \in Tab, Wake(t)
    PROVE  QuietStep
<1>1. tab[t] \in TabState
  BY DEF TypeOK
<1>2. Tame(tab[t], [tab[t] EXCEPT !.timer = "sync"])
  BY <1>1 DEF Tame, TabState
<1>3. Tame(tab[t], HandleOnline(tab[t]))
  BY <1>1, HandleOnlineTame
<1>4. online' \in BOOLEAN /\ faults' \in 0 .. MaxFaults /\ UNCHANGED <<db, server, late, issued, gone>>
  BY FaultCounts DEF Wake, TypeOK
<1>5. Step(t, IF tab[t].validated /\ ~tab[t].blocked
              THEN [tab[t] EXCEPT !.timer = "sync"] ELSE HandleOnline(tab[t]))
  BY DEF Wake
<1> QED BY <1>2, <1>3, <1>4, <1>5, TabOnlyQuiet

LEMMA OnlineEventQuiet ==
    ASSUME TypeOK, NEW t \in Tab, OnlineEvent(t)
    PROVE  QuietStep
<1> DEFINE s == [tab[t] EXCEPT !.woken = FALSE]
<1>1. s \in TabState /\ s.pc = tab[t].pc /\ s.claim = tab[t].claim /\ s.reply = tab[t].reply
  <2>1. tab[t] \in TabState
    BY DEF TypeOK
  <2> QED BY <2>1 DEF TabState
<1>2. Step(t, HandleOnline(s))
  BY DEF OnlineEvent
<1> HIDE DEF s
<1>3. Tame(tab[t], HandleOnline(s))
  <2>1. Tame(s, HandleOnline(s))
    BY <1>1, HandleOnlineTame
  <2> QED BY <1>1, <2>1, TameAfter
<1>4. online' \in BOOLEAN /\ faults' \in 0 .. MaxFaults /\ UNCHANGED <<db, server, late, issued, gone>>
  BY DEF OnlineEvent, ClientUnchanged, TypeOK
<1> QED BY <1>2, <1>3, <1>4, TabOnlyQuiet

LEMMA RecoveryQuiet ==
    ASSUME TypeOK, NEW t \in Tab, ArmRecovery(t) \/ CancelRecovery(t)
    PROVE  QuietStep
<1>1. /\ Tame(tab[t], [tab[t] EXCEPT !.recovery = "armed"])
      /\ Tame(tab[t], [tab[t] EXCEPT !.recovery = "offered"])
  BY DEF TypeOK, Tame, TabState
<1>2. online' \in BOOLEAN /\ faults' \in 0 .. MaxFaults /\ UNCHANGED <<db, server, late, issued, gone>>
  BY DEF ArmRecovery, CancelRecovery, ClientUnchanged, TypeOK
<1>3. \/ Step(t, [tab[t] EXCEPT !.recovery = "armed"])
      \/ Step(t, [tab[t] EXCEPT !.recovery = "offered"])
  BY DEF ArmRecovery, CancelRecovery
<1> QED BY <1>1, <1>2, <1>3, TabOnlyQuiet

\* A step of one tab that changes the gate at most.
LEMMA GateQuiet ==
    ASSUME TypeOK, NEW t \in Tab, NEW r, Tame(tab[t], r), Step(t, r),
           NEW d, db' = d,
           d \in {db, AcquiredGate(db, t, Me), ClearedGate(db), ClearedGate(AcquiredGate(db, t, Me))},
           UNCHANGED <<server, late, issued, gone>>,
           online' \in BOOLEAN, faults' \in 0 .. MaxFaults
    PROVE  QuietStep
<1>1. tab' \in [Tab -> TabState] /\ \A u \in Tab : Tame(tab[u], tab'[u])
  BY OneTabTame
<1>2. db \in Database
  BY Types
<1>3. BoundLease(t, Me) \in Gate
  BY SyncAssumption DEF BoundLease, Gate, Owner
<1>4. /\ d \in Database
      /\ d.revision = db.revision /\ d.queue = db.queue
      /\ d.proof = db.proof /\ d.outgoing = db.outgoing
  BY <1>2, <1>3 DEF Database, AcquiredGate, ClearedGate
<1> QED BY <1>1, <1>4 DEF QuietStep

LEMMA OpenTabQuiet ==
    ASSUME TypeOK, NEW t \in Tab, OpenTab(t)
    PROVE  QuietStep
<1> DEFINE acquired == CanAcquireGate(db, t, Me)
           r == [ClosedTab EXCEPT !.pc = "session", !.owned = acquired]
<1>1. acquired \in BOOLEAN
  BY DEF CanAcquireGate, ForeignGate, LeaseIsLive
<1>2. Tame(tab[t], r)
  BY <1>1 DEF Tame, TabState, ClosedTab, Exchanging
<1>3. Step(t, r)
  BY DEF OpenTab
<1>4. db' \in {db, AcquiredGate(db, t, Me)}
  BY DEF OpenTab
<1>5. online' \in BOOLEAN /\ faults' \in 0 .. MaxFaults /\ UNCHANGED <<server, late, issued, gone>>
  BY DEF OpenTab, ClientUnchanged, TypeOK
<1> HIDE DEF r
<1> QED BY <1>2, <1>3, <1>4, <1>5, GateQuiet

LEMMA SessionKnownQuiet ==
    ASSUME TypeOK, NEW t \in Tab, SessionKnown(t)
    PROVE  QuietStep
<1> DEFINE s == [tab[t] EXCEPT !.validated = TRUE, !.pc = "idle"]
<1>1. tab[t] \in TabState
  BY DEF TypeOK
<1>2. s \in TabState /\ s.pc = "idle" /\ s.claim = tab[t].claim
  BY <1>1 DEF TabState
<1>3. Step(t, IF s.blocked THEN [s EXCEPT !.pc = "prepare"] ELSE SyncNow(s, TRUE))
  BY DEF SessionKnown
<1> HIDE DEF s
<1>4. Tame(tab[t], [s EXCEPT !.pc = "prepare"])
  BY <1>2 DEF Tame, TabState, Exchanging
<1>5. Tame(s, SyncNow(s, TRUE))
  BY <1>2, SyncNowTame
<1>6. Tame(tab[t], SyncNow(s, TRUE))
  BY <1>2, <1>5 DEF Tame, Exchanging
<1>7. online' \in BOOLEAN /\ faults' \in 0 .. MaxFaults /\ UNCHANGED <<db, server, late, issued, gone>>
  BY DEF SessionKnown, ClientUnchanged, TypeOK
<1> QED BY <1>3, <1>4, <1>6, <1>7, TabOnlyQuiet

LEMMA SessionFailedQuiet ==
    ASSUME TypeOK, NEW t \in Tab, SessionFailed(t)
    PROVE  QuietStep
<1> DEFINE s == [tab[t] EXCEPT !.pc = "idle"]
           r == [s EXCEPT !.blocked = FALSE, !.owned = FALSE]
<1>1. tab[t] \in TabState
  BY DEF TypeOK
<1>2. /\ s \in TabState /\ s.pc = "idle" /\ s.claim = tab[t].claim
      /\ r \in TabState /\ r.pc = "idle" /\ r.claim = tab[t].claim
  BY <1>1 DEF TabState
<1>3. /\ db' \in {db, ClearedGate(db)}
      /\ Step(t, ScheduleRetry(r)) \/ Step(t, ScheduleRetry(s))
  BY DEF SessionFailed
<1> HIDE DEF s, r
<1>4. Tame(tab[t], ScheduleRetry(r)) /\ Tame(tab[t], ScheduleRetry(s))
  <2>1. Tame(r, ScheduleRetry(r)) /\ Tame(s, ScheduleRetry(s))
    BY <1>2, ScheduleRetryTame
  <2> QED BY <1>2, <2>1 DEF Tame, Exchanging
<1>5. online' \in BOOLEAN /\ faults' \in 0 .. MaxFaults /\ UNCHANGED <<server, late, issued, gone>>
  BY FaultCounts DEF SessionFailed, TypeOK
<1> QED BY <1>3, <1>4, <1>5, GateQuiet

LEMMA PrepareQuiet ==
    ASSUME TypeOK, NEW t \in Tab, Prepare(t)
    PROVE  QuietStep
<1> DEFINE p == [tab[t] EXCEPT !.pc = IF online THEN "claim" ELSE "idle",
                               !.blocked = FALSE, !.owned = FALSE]
           s == [tab[t] EXCEPT !.pc = "idle"]
<1>1. tab[t] \in TabState
  BY DEF TypeOK
<1>2. Tame(tab[t], p)
  BY <1>1 DEF Tame, TabState, Busy, Exchanging
<1>3. s \in TabState /\ s.pc = "idle" /\ s.claim = tab[t].claim
  BY <1>1 DEF TabState
<1>4. /\ db' \in {db, ClearedGate(db), ClearedGate(AcquiredGate(db, t, Me))}
      /\ Step(t, p) \/ Step(t, ScheduleRetry(s))
  BY DEF Prepare
<1> HIDE DEF s, p
<1>5. Tame(tab[t], ScheduleRetry(s))
  <2>1. Tame(s, ScheduleRetry(s))
    BY <1>3, ScheduleRetryTame
  <2> QED BY <1>3, <2>1 DEF Tame, Exchanging
<1>6. online' \in BOOLEAN /\ faults' \in 0 .. MaxFaults /\ UNCHANGED <<server, late, issued, gone>>
  BY DEF Prepare, ClientUnchanged, TypeOK
<1> QED BY <1>2, <1>4, <1>5, <1>6, GateQuiet

\* A request that lost its sender was posted by a tab.
LEMMA OrphansPosted ==
    ASSUME NEW T \in SUBSET Tab, late' \in Orphans(T)
    PROVE  \A c \in late' : c \in late \/ \E t \in Tab : tab[t].pc = "posted" /\ c = tab[t].claim
BY DEF Orphans

LEMMA LoseExchangeQuiet ==
    ASSUME TypeOK, NEW t \in Tab, LoseExchange(t) \/ CloseTab(t)
    PROVE  QuietStep
<1>1. Tame(tab[t], Fail(tab[t]))
  BY FailTame DEF TypeOK
<1>2. Tame(tab[t], ClosedTab)
  BY DEF Tame, ClosedTab, TabState, Exchanging
<1>3. Step(t, Fail(tab[t])) \/ Step(t, ClosedTab)
  BY DEF LoseExchange, CloseTab
<1>4. tab' \in [Tab -> TabState] /\ \A u \in Tab : Tame(tab[u], tab'[u])
  BY <1>1, <1>2, <1>3, OneTabTame
<1>5. \A c \in late' : c \in late \/ \E u \in Tab : tab[u].pc = "posted" /\ c = tab[u].claim
  BY OrphansPosted DEF LoseExchange, CloseTab
<1>6. online' \in BOOLEAN /\ faults' \in 0 .. MaxFaults /\ UNCHANGED <<db, server, issued, gone>>
  BY FaultCounts DEF LoseExchange, CloseTab, TypeOK
<1> QED BY <1>4, <1>5, <1>6, Types DEF QuietStep

LEMMA NetworkQuiet ==
    ASSUME TypeOK, GoOffline \/ GoOnline
    PROVE  QuietStep
<1>1. \A u \in Tab : /\ Tame(tab[u], Finish(tab[u], TRUE))
                     /\ Tame(tab[u], tab[u])
                     /\ Tame(tab[u], [tab[u] EXCEPT !.woken = Open(u)])
  <2> TAKE u \in Tab
  <2>1. tab[u] \in TabState
    BY DEF TypeOK
  <2>2. Tame(tab[u], [tab[u] EXCEPT !.woken = Open(u)])
    BY <2>1 DEF Tame, TabState, Open
  <2> QED BY <2>1, <2>2, FinishTame, TameSame
<1>2. tab' \in [Tab -> TabState] /\ \A u \in Tab : Tame(tab[u], tab'[u])
  <2>1. CASE GoOffline
    BY <1>1, <2>1 DEF GoOffline, Tame
  <2>2. CASE GoOnline
    BY <1>1, <2>2 DEF GoOnline, Tame
  <2> QED BY <2>1, <2>2
<1>3. \A c \in late' : c \in late \/ \E u \in Tab : tab[u].pc = "posted" /\ c = tab[u].claim
  BY OrphansPosted DEF GoOffline, GoOnline
<1>4. online' \in BOOLEAN /\ faults' \in 0 .. MaxFaults /\ UNCHANGED <<db, server, issued, gone>>
  BY FaultCounts DEF GoOffline, GoOnline, TypeOK
<1> QED BY <1>2, <1>3, <1>4, Types DEF QuietStep

LEMMA ExpireLeaseQuiet ==
    ASSUME TypeOK, ExpireLease
    PROVE  QuietStep
<1>1. \A u \in Tab : Tame(tab[u], tab[u])
  BY TameSame DEF TypeOK
<1>2. db.gate \in Gate
  BY Types DEF ExpireLease, LeaseIsLive, Database
<1>3. [db.gate EXCEPT !.live = FALSE] \in Gate
  BY <1>2 DEF Gate
<1>4. /\ db' \in Database
      /\ db'.revision = db.revision /\ db'.queue = db.queue
      /\ db'.proof = db.proof /\ db'.outgoing = db.outgoing
  BY <1>3, Types DEF ExpireLease, Database
<1> QED BY <1>1, <1>4, Types DEF QuietStep, ExpireLease, ClientUnchanged

LEMMA StutterQuiet ==
    ASSUME TypeOK, UNCHANGED vars
    PROVE  QuietStep
<1>1. \A u \in Tab : Tame(tab[u], tab[u])
  BY TameSame DEF TypeOK
<1> QED BY <1>1, Types DEF QuietStep, vars
----------------------------------------------------------------------------
(* Steps that are not quiet.                                               *)

\* An edit: a new identity joins the queue and the proof, and what it replaces
\* was proved unsent.
LEMMA MutateKeeps ==
    ASSUME Inv, NEW t \in Tab, Mutate(t)
    PROVE  Inv'
<1> USE DEF Inv
<1>1. PICK o \in Op \ issued, retired \in SUBSET NeverSent(db) :
        /\ db' = AppendPlan(db, o, retired)
        /\ issued' = issued \cup {o}
        /\ gone' = gone \cup retired
  BY DEF Mutate
<1>2. UNCHANGED <<server, late, online, faults>>
  BY DEF Mutate, ClientUnchanged
<1>3. db \in Database /\ tab[t] \in TabState
  BY Types
<1>4. NeverSent(db) \subseteq db.queue /\ NeverSent(db) \subseteq Op
  BY <1>3 DEF NeverSent, Database
<1>5. /\ db' \in Database
      /\ db'.revision = db.revision /\ db'.outgoing = db.outgoing
      /\ db'.queue = (db.queue \cup {o}) \ retired
      /\ db'.proof = (NeverSent(db) \cup {o}) \ retired
  BY <1>1, <1>3, <1>4 DEF AppendPlan, Database
<1>6. /\ tab' \in [Tab -> TabState]
      /\ \A u \in Tab : tab'[u].pc = tab[u].pc /\ tab'[u].claim = tab[u].claim
                         /\ tab'[u].reply = tab[u].reply
  <2> DEFINE r == [tab[t] EXCEPT !.timer = "sync"]
  <2>1. /\ r \in TabState /\ r.pc = tab[t].pc /\ r.claim = tab[t].claim /\ r.reply = tab[t].reply
        /\ Step(t, r)
    BY <1>3 DEF Mutate, TabState
  <2> HIDE DEF r
  <2>2. tab' \in [Tab -> TabState] /\ tab'[t] = r /\ \A u \in Tab : u # t => tab'[u] = tab[u]
    BY <2>1, OneTab
  <2> QED BY <2>1, <2>2
<1>7. NeverSent(db') \cup gone' \subseteq NeverSent(db) \cup gone \cup {o}
  BY <1>1, <1>5 DEF NeverSent
<1>8. SentIds(db'.outgoing) = SentIds(db.outgoing)
  BY <1>5
<1>9. TypeOK'
  BY <1>1, <1>2, <1>4, <1>5, <1>6, Types DEF TypeOK, Database
<1>10. ExchangesCarry' /\ AnswersHold' /\ AnswerNotOlder' /\ NothingAhead'
  BY <1>2, <1>5, <1>6 DEF ExchangesCarry, AnswersHold, AnswerNotOlder, NothingAhead
<1>11. WorkIssued'
  BY <1>1, <1>2, <1>4, <1>5, <1>6, <1>8 DEF WorkIssued
<1>12. Nowhere(o)
  BY <1>1, Types DEF WorkIssued, Nowhere
<1>13. UnsentNowhere'
  <2>1. \A p \in NeverSent(db) \cup gone \cup {o} : Nowhere(p)'
    BY <1>2, <1>6, <1>8, <1>12 DEF UnsentNowhere, Nowhere
  <2>2. gone' \cap db'.queue = {}
    BY <1>1, <1>5 DEF UnsentNowhere, WorkIssued
  <2>3. db'.proof \cap SentIds(db'.outgoing) = {}
    BY <1>5, <1>8, <1>12 DEF NeverSent, Nowhere
  <2> QED BY <1>7, <2>1, <2>2, <2>3 DEF UnsentNowhere
<1>14. EditsAccounted'
  BY <1>1, <1>2, <1>5 DEF EditsAccounted
<1> QED BY <1>9, <1>10, <1>11, <1>13, <1>14

\* What the server makes of a batch it knows to have been issued: nothing that
\* was logged moves, and what is new is held by the next revision.
LEMMA AcceptedHolds ==
    ASSUME TypeOK, NothingAhead, NEW sent \in SUBSET Op
    PROVE  LET after == Accepted(sent)
           IN /\ after \in [revision : Nat, logged : [Op -> Nat]]
              /\ after.revision >= server.revision
              /\ \A o \in Op : /\ after.logged[o] <= after.revision
                               /\ server.logged[o] > 0 => after.logged[o] = server.logged[o]
                               /\ o \notin sent => after.logged[o] = server.logged[o]
                               /\ o \in sent => after.logged[o] > 0
<1>1. server \in [revision : Nat, logged : [Op -> Nat]]
  BY DEF TypeOK
<1>2. CASE sent \subseteq Logged
  BY <1>1, <1>2 DEF Accepted, Logged, NothingAhead
<1>3. CASE ~(sent \subseteq Logged)
  BY <1>1, <1>3 DEF Accepted, Logged, NothingAhead
<1> QED BY <1>2, <1>3

\* The server acts on a batch that is in a claim somebody holds.
LEMMA ServerMoves ==
    ASSUME Inv, NEW sent \in SUBSET Op, sent \subseteq issued,
           \A o \in sent : o \notin NeverSent(db) \cup gone,
           server' = Accepted(sent),
           UNCHANGED <<db, issued, gone>>
    PROVE  /\ server' \in [revision : Nat, logged : [Op -> Nat]]
           /\ NothingAhead' /\ EditsAccounted'
           /\ server'.revision >= server.revision /\ server'.revision >= db.revision
           /\ \A o \in Op : server.logged[o] > 0 => server'.logged[o] = server.logged[o]
           /\ \A o \in sent : server'.logged[o] > 0 /\ server'.logged[o] <= server'.revision
           /\ \A o \in Op : server'.logged[o] > 0 => o \in issued
           /\ \A o \in NeverSent(db) \cup gone : server'.logged[o] = 0
<1> USE DEF Inv
<1>1. /\ server' \in [revision : Nat, logged : [Op -> Nat]]
      /\ server'.revision >= server.revision
      /\ \A o \in Op : /\ server'.logged[o] <= server'.revision
                       /\ server.logged[o] > 0 => server'.logged[o] = server.logged[o]
                       /\ o \notin sent => server'.logged[o] = server.logged[o]
                       /\ o \in sent => server'.logged[o] > 0
  BY AcceptedHolds
<1>2. db \in Database /\ server \in [revision : Nat, logged : [Op -> Nat]]
      /\ issued \subseteq Op /\ gone \subseteq Op
  BY Types
<1>3. server'.revision >= db.revision
  BY <1>1, <1>2 DEF NothingAhead, Database
<1>4. NothingAhead'
  BY <1>1, <1>3 DEF NothingAhead
<1>5. EditsAccounted'
  BY <1>1, <1>2 DEF EditsAccounted
<1>6. \A o \in NeverSent(db) \cup gone : o \in Op /\ server.logged[o] = 0
  BY <1>2 DEF UnsentNowhere, Nowhere, NeverSent, Database
<1>7. \A o \in Op : server'.logged[o] > 0 => o \in issued
  BY <1>1 DEF WorkIssued
<1> QED BY <1>1, <1>3, <1>4, <1>5, <1>6, <1>7

\* The server answers a posted request.
LEMMA ServeKeeps ==
    ASSUME Inv, NEW t \in Tab, Serve(t)
    PROVE  Inv'
<1> USE DEF Inv
<1> DEFINE c == tab[t].claim
           r == [tab[t] EXCEPT !.pc = "answered", !.reply = server'.revision]
<1>1. tab[t] \in TabState /\ tab[t].pc = "posted" /\ c \in Claim /\ c # None
  BY Types, NoneAssumption DEF Serve, ExchangesCarry, Exchanging
<1>2. c.sent \in SUBSET Op /\ SentIds(c) = c.sent
  BY <1>1 DEF Claim, SentIds
<1>3. c.sent \subseteq issued /\ \A o \in c.sent : o \notin NeverSent(db) \cup gone
  BY <1>2 DEF WorkIssued, UnsentNowhere, Nowhere
<1>4. UNCHANGED <<db, issued, gone, late, online, faults>> /\ server' = Accepted(c.sent)
  BY DEF Serve, ClientUnchanged
<1>5. /\ server' \in [revision : Nat, logged : [Op -> Nat]]
      /\ NothingAhead' /\ EditsAccounted'
      /\ server'.revision >= server.revision /\ server'.revision >= db.revision
      /\ \A o \in Op : server.logged[o] > 0 => server'.logged[o] = server.logged[o]
      /\ \A o \in c.sent : server'.logged[o] > 0 /\ server'.logged[o] <= server'.revision
      /\ \A o \in Op : server'.logged[o] > 0 => o \in issued
      /\ \A o \in NeverSent(db) \cup gone : server'.logged[o] = 0
  BY <1>2, <1>3, <1>4, ServerMoves
<1>6. r \in TabState /\ r.pc = "answered" /\ r.claim = c /\ r.reply = server'.revision
  BY <1>1, <1>5 DEF TabState, Busy
<1>7. tab' \in [Tab -> TabState] /\ tab'[t] = r /\ \A u \in Tab : u # t => tab'[u] = tab[u]
  <2>1. Step(t, r)
    BY DEF Serve
  <2> HIDE DEF r
  <2> QED BY <1>6, <2>1, OneTab
<1> HIDE DEF c, r
<1>8. \A u \in Tab : tab'[u].claim = tab[u].claim
  BY <1>6, <1>7 DEF c
<1>9. TypeOK'
  BY <1>4, <1>5, <1>7, Types DEF TypeOK
<1>10. ExchangesCarry'
  BY <1>1, <1>6, <1>7 DEF ExchangesCarry
<1>11. WorkIssued'
  BY <1>4, <1>5, <1>8 DEF WorkIssued
<1>12. UnsentNowhere'
  BY <1>4, <1>5, <1>8 DEF UnsentNowhere, Nowhere
<1>13. AnswersHold'
  <2> SUFFICES ASSUME NEW u \in Tab, tab'[u].pc = "answered"
               PROVE  /\ tab'[u].reply <= server'.revision
                      /\ \A o \in tab'[u].claim.sent :
                            server'.logged[o] > 0 /\ server'.logged[o] <= tab'[u].reply
    BY DEF AnswersHold
  <2>1. CASE u = t
    BY <1>5, <1>6, <1>7, <2>1
  <2>2. CASE u # t
    <3>1. tab[u].pc = "answered" /\ tab'[u] = tab[u] /\ tab[u] \in TabState
      BY <1>7, <2>2, Types
    <3>2. tab[u].claim \in Claim
      BY <3>1 DEF ExchangesCarry, Exchanging
    <3>3. \A o \in tab[u].claim.sent : o \in Op
      BY <3>2 DEF Claim
    <3>4. tab[u].reply <= server'.revision
      BY <1>5, <3>1, Types DEF AnswersHold, TabState
    <3> QED BY <1>5, <3>1, <3>3, <3>4 DEF AnswersHold
  <2> QED BY <2>1, <2>2
<1>14. AnswerNotOlder'
  BY <1>4, <1>5, <1>6, <1>7 DEF AnswerNotOlder
<1> QED BY <1>5, <1>9, <1>10, <1>11, <1>12, <1>13, <1>14

\* A tab's answer is not touched by what the server does for others.
LEMMA AnswersLast ==
    ASSUME Inv, UNCHANGED tab,
           server' \in [revision : Nat, logged : [Op -> Nat]],
           server'.revision >= server.revision,
           \A o \in Op : server.logged[o] > 0 => server'.logged[o] = server.logged[o]
    PROVE  AnswersHold'
<1> USE DEF Inv
<1> SUFFICES ASSUME NEW u \in Tab, tab[u].pc = "answered"
             PROVE  /\ tab[u].reply <= server'.revision
                    /\ \A o \in tab[u].claim.sent :
                          server'.logged[o] > 0 /\ server'.logged[o] <= tab[u].reply
  BY DEF AnswersHold
<1>1. tab[u] \in TabState /\ tab[u].claim \in Claim
  BY Types DEF ExchangesCarry, Exchanging
<1>2. \A o \in tab[u].claim.sent : o \in Op
  BY <1>1 DEF Claim
<1>3. tab[u].reply <= server'.revision
  BY <1>1, Types DEF AnswersHold, TabState
<1> QED BY <1>2, <1>3 DEF AnswersHold

\* A request without a sender arrives, or never does.
LEMMA LateArrivalKeeps ==
    ASSUME Inv, LateArrival
    PROVE  Inv'
<1> USE DEF Inv
<1>1. PICK c \in late : late' = late \ {c} /\ server' \in {server, Accepted(c.sent)}
  BY DEF LateArrival
<1>2. UNCHANGED <<db, tab, online, faults, issued, gone>>
  BY DEF LateArrival
<1>3. c.sent \in SUBSET Op
  BY Types DEF Claim
<1>4. c.sent \subseteq issued /\ \A o \in c.sent : o \notin NeverSent(db) \cup gone
  BY DEF WorkIssued, UnsentNowhere, Nowhere
<1>5. /\ server' \in [revision : Nat, logged : [Op -> Nat]]
      /\ NothingAhead' /\ EditsAccounted'
      /\ server'.revision >= server.revision
      /\ \A o \in Op : server.logged[o] > 0 => server'.logged[o] = server.logged[o]
      /\ \A o \in Op : server'.logged[o] > 0 => o \in issued
      /\ \A o \in NeverSent(db) \cup gone : server'.logged[o] = 0
  <2>1. CASE server' = Accepted(c.sent)
    BY <1>2, <1>3, <1>4, <2>1, ServerMoves
  <2>2. CASE server' = server
    BY <1>2, <2>2, Types DEF NothingAhead, EditsAccounted, WorkIssued, UnsentNowhere, Nowhere
  <2> QED BY <1>1, <2>1, <2>2
<1>6. AnswersHold'
  BY <1>2, <1>5, AnswersLast
<1>7. TypeOK'
  BY <1>1, <1>2, <1>5, Types DEF TypeOK
<1>8. ExchangesCarry' /\ AnswerNotOlder'
  BY <1>2 DEF ExchangesCarry, AnswerNotOlder
<1>9. WorkIssued' /\ UnsentNowhere'
  BY <1>1, <1>2, <1>5 DEF WorkIssued, UnsentNowhere, Nowhere
<1> QED BY <1>5, <1>6, <1>7, <1>8, <1>9

\* Another device adds a revision.
LEMMA OtherDeviceKeeps ==
    ASSUME Inv, OtherDevice
    PROVE  Inv'
<1> USE DEF Inv
<1>1. UNCHANGED <<db, tab, late, online, faults, issued, gone>>
  BY DEF OtherDevice, ClientUnchanged
<1>2. /\ server' \in [revision : Nat, logged : [Op -> Nat]]
      /\ server'.revision >= server.revision /\ server'.logged = server.logged
      /\ db \in Database /\ server \in [revision : Nat, logged : [Op -> Nat]]
  BY Types DEF OtherDevice
<1>3. AnswersHold'
  BY <1>1, <1>2, AnswersLast
<1>4. NothingAhead'
  BY <1>1, <1>2 DEF NothingAhead, Database
<1>5. TypeOK'
  BY <1>1, <1>2, Types DEF TypeOK
<1>6. ExchangesCarry' /\ AnswerNotOlder' /\ EditsAccounted'
  BY <1>1, <1>2 DEF ExchangesCarry, AnswerNotOlder, EditsAccounted
<1>7. WorkIssued' /\ UnsentNowhere'
  BY <1>1, <1>2 DEF WorkIssued, UnsentNowhere, Nowhere
<1> QED BY <1>3, <1>4, <1>5, <1>6, <1>7

\* A tab sends the stored claim: its own, another tab's, or that of a closed one.
LEMMA ReplayKeeps ==
    ASSUME Inv, NEW t \in Tab, tab[t].pc = "claim", db.outgoing # None,
           Step(t, [tab[t] EXCEPT !.pc = "posted", !.claim = db.outgoing]),
           UNCHANGED <<db, server, late, online, faults, issued, gone>>
    PROVE  Inv'
<1> USE DEF Inv
<1> DEFINE r == [tab[t] EXCEPT !.pc = "posted", !.claim = db.outgoing]
<1>1. tab[t] \in TabState /\ db \in Database
  BY Types
<1>2. r \in TabState /\ r.pc = "posted" /\ r.claim = db.outgoing /\ db.outgoing \in Claim
  BY <1>1 DEF TabState, Busy, Database
<1>3. tab' \in [Tab -> TabState] /\ tab'[t] = r /\ \A u \in Tab : u # t => tab'[u] = tab[u]
  <2>1. Step(t, r)
    OBVIOUS
  <2> HIDE DEF r
  <2> QED BY <1>2, <2>1, OneTab
<1> HIDE DEF r
<1>4. \A u \in Tab : \/ SentIds(tab'[u].claim) = SentIds(tab[u].claim)
                     \/ SentIds(tab'[u].claim) = SentIds(db.outgoing)
  BY <1>2, <1>3
<1>5. TypeOK'
  BY <1>3, Types DEF TypeOK
<1>6. ExchangesCarry' /\ AnswersHold' /\ AnswerNotOlder'
  BY <1>2, <1>3 DEF ExchangesCarry, AnswersHold, AnswerNotOlder
<1>7. NothingAhead' /\ EditsAccounted'
  BY DEF NothingAhead, EditsAccounted
<1>8. WorkIssued' /\ UnsentNowhere'
  BY <1>4 DEF WorkIssued, UnsentNowhere, Nowhere
<1> QED BY <1>5, <1>6, <1>7, <1>8

\* A fresh claim is stored: its operations leave the proof, and no tab holds a claim
\* of its identity.
LEMMA FreshClaimStored ==
    ASSUME Inv, NEW d \in {db, [db EXCEPT !.outgoing = None]},
           NEW id \in FreshIds, NEW sent \in Batch(db.queue),
           db' = FreshClaim(d, NewClaim(id, sent, Me)),
           UNCHANGED <<server, late, issued, gone>>
    PROVE  /\ db' \in Database
           /\ db'.revision = db.revision /\ db'.queue = db.queue
           /\ db'.outgoing = NewClaim(id, sent, Me) /\ db'.outgoing \in Claim
           /\ SentIds(db'.outgoing) = sent /\ sent \subseteq db.queue
           /\ db'.proof \cap sent = {}
           /\ NeverSent(db') \cup gone \subseteq NeverSent(db) \cup gone
           /\ \A o \in NeverSent(db') \cup gone : o \notin sent
           /\ \A u \in Tab : tab[u].claim # db'.outgoing
<1> USE DEF Inv
<1> DEFINE claim == NewClaim(id, sent, Me)
<1>1. db \in Database /\ sent \subseteq db.queue /\ id \in Nat /\ Unused(id)
  BY Types, SyncAssumption DEF Batch, FreshIds
<1>2. claim \in Claim /\ claim.sent = sent /\ claim.id = id
  BY <1>1, SyncAssumption DEF NewClaim, Claim, Owner, Database
<1>3. claim # None
  BY <1>2, NoneAssumption
<1>4. \A u \in Tab : tab[u].claim # claim
  BY <1>1, <1>2, <1>3 DEF Unused
<1>5. /\ d.proof = db.proof /\ d.queue = db.queue /\ d.revision = db.revision
      /\ d \in Database
  BY <1>1 DEF Database
<1>6. db' = FreshClaim(d, claim)
  OBVIOUS
<1> HIDE DEF claim
<1>7. /\ db' \in Database /\ db'.revision = db.revision /\ db'.queue = db.queue
      /\ db'.outgoing = claim /\ db'.proof = db.proof \ sent
  <2>1. db' = [d EXCEPT !.outgoing = claim, !.proof = d.proof \ sent]
    BY <1>2, <1>5, <1>6 DEF FreshClaim, Retired, Database
  <2>2. d.proof \ sent \in SUBSET Op /\ claim \in Claim \cup {None}
    BY <1>2, <1>5 DEF Database
  <2> QED BY <1>5, <2>1, <2>2 DEF Database
<1>8. SentIds(db'.outgoing) = sent
  BY <1>2, <1>3, <1>7 DEF SentIds
<1>9. NeverSent(db') \subseteq NeverSent(db) /\ NeverSent(db') \cap sent = {}
  BY <1>7, <1>8 DEF NeverSent, UnsentNowhere
<1>10. gone \cap sent = {}
  BY <1>1 DEF UnsentNowhere
<1> QED BY <1>1, <1>2, <1>4, <1>7, <1>8, <1>9, <1>10 DEF claim

\* A tab stores a fresh claim and sends it.
LEMMA FreshKeeps ==
    ASSUME Inv, NEW t \in Tab, NEW id \in FreshIds, NEW sent \in Batch(db.queue),
           db' = FreshClaim(db, NewClaim(id, sent, Me)),
           Step(t, [tab[t] EXCEPT !.pc = "posted", !.claim = NewClaim(id, sent, Me)]),
           UNCHANGED <<server, late, online, faults, issued, gone>>
    PROVE  Inv'
<1> USE DEF Inv
<1> DEFINE r == [tab[t] EXCEPT !.pc = "posted", !.claim = db'.outgoing]
<1>1. /\ db' \in Database
      /\ db'.revision = db.revision /\ db'.queue = db.queue
      /\ db'.outgoing = NewClaim(id, sent, Me) /\ db'.outgoing \in Claim
      /\ SentIds(db'.outgoing) = sent /\ sent \subseteq db.queue
      /\ db'.proof \cap sent = {}
      /\ NeverSent(db') \cup gone \subseteq NeverSent(db) \cup gone
      /\ \A o \in NeverSent(db') \cup gone : o \notin sent
      /\ \A u \in Tab : tab[u].claim # db'.outgoing
  BY FreshClaimStored
<1>2. tab[t] \in TabState
  BY Types
<1>3. r \in TabState /\ r.pc = "posted" /\ r.claim = db'.outgoing
  BY <1>1, <1>2 DEF TabState, Busy
<1>4. tab' \in [Tab -> TabState] /\ tab'[t] = r /\ \A u \in Tab : u # t => tab'[u] = tab[u]
  <2>1. Step(t, r)
    BY <1>1
  <2> HIDE DEF r
  <2> QED BY <1>3, <2>1, OneTab
<1> HIDE DEF r
<1>5. \A u \in Tab : \/ SentIds(tab'[u].claim) = SentIds(tab[u].claim)
                     \/ SentIds(tab'[u].claim) = sent
  BY <1>1, <1>3, <1>4
<1>6. TypeOK'
  BY <1>1, <1>4, Types DEF TypeOK, Database
<1>7. ExchangesCarry' /\ AnswersHold'
  BY <1>1, <1>3, <1>4 DEF ExchangesCarry, AnswersHold
<1>8. AnswerNotOlder'
  BY <1>1, <1>3, <1>4 DEF AnswerNotOlder
<1>9. NothingAhead' /\ EditsAccounted'
  BY <1>1 DEF NothingAhead, EditsAccounted
<1>10. WorkIssued'
  BY <1>1, <1>5 DEF WorkIssued
<1>11. UnsentNowhere'
  BY <1>1, <1>5 DEF UnsentNowhere, Nowhere
<1> QED BY <1>6, <1>7, <1>8, <1>9, <1>10, <1>11

\* The user gives up a claim without bytes; a fresh one takes its place.
LEMMA DiscardKeeps ==
    ASSUME Inv, NEW t \in Tab, DiscardClaim(t)
    PROVE  Inv'
<1> USE DEF Inv
<1> DEFINE r == [tab[t] EXCEPT !.recovery = "no"]
<1>1. PICK id \in FreshIds, sent \in Batch(db.queue) :
        db' = FreshClaim([db EXCEPT !.outgoing = None], NewClaim(id, sent, Me))
  BY DEF DiscardClaim
<1>2. UNCHANGED <<server, late, online, faults, issued, gone>> /\ Step(t, r)
  BY DEF DiscardClaim, ClientUnchanged
<1>3. /\ db' \in Database
      /\ db'.revision = db.revision /\ db'.queue = db.queue
      /\ db'.outgoing \in Claim
      /\ SentIds(db'.outgoing) = sent /\ sent \subseteq db.queue
      /\ db'.proof \cap sent = {}
      /\ NeverSent(db') \cup gone \subseteq NeverSent(db) \cup gone
      /\ \A o \in NeverSent(db') \cup gone : o \notin sent
      /\ \A u \in Tab : tab[u].claim # db'.outgoing
  BY <1>1, <1>2, FreshClaimStored
<1>4. tab[t] \in TabState
  BY Types
<1>5. r \in TabState /\ r.pc = tab[t].pc /\ r.claim = tab[t].claim /\ r.reply = tab[t].reply
  BY <1>4 DEF TabState
<1> HIDE DEF r
<1>6. /\ tab' \in [Tab -> TabState]
      /\ \A u \in Tab : tab'[u].pc = tab[u].pc /\ tab'[u].claim = tab[u].claim
                         /\ tab'[u].reply = tab[u].reply
  BY <1>2, <1>5, OneTab
<1>7. TypeOK'
  BY <1>2, <1>3, <1>6, Types DEF TypeOK, Database
<1>8. ExchangesCarry' /\ AnswersHold' /\ AnswerNotOlder'
  BY <1>2, <1>3, <1>6 DEF ExchangesCarry, AnswersHold, AnswerNotOlder
<1>9. NothingAhead' /\ EditsAccounted'
  BY <1>2, <1>3 DEF NothingAhead, EditsAccounted
<1>10. WorkIssued' /\ UnsentNowhere'
  BY <1>2, <1>3, <1>6 DEF WorkIssued, UnsentNowhere, Nowhere
<1> QED BY <1>7, <1>8, <1>9, <1>10

\* An answer that matches the stored claim is applied: snapshot, queue, proof and
\* claim change together.
LEMMA AnswerApplied ==
    ASSUME Inv, NEW t \in Tab, tab[t].pc = "answered",
           ResponseKind(db, Me, tab[t].claim, tab[t].reply) = "apply",
           NEW dropped \in SUBSET (NeverSent(db) \ tab[t].claim.sent),
           db' = AppliedResponse(db, tab[t].claim, tab[t].reply, dropped)
    PROVE  /\ db' \in Database
           /\ db'.revision = tab[t].reply /\ db'.revision >= db.revision
           /\ db'.queue = (db.queue \ tab[t].claim.sent) \ dropped
           /\ db'.proof \subseteq db.proof \cap db.queue
           /\ db'.proof \cap (tab[t].claim.sent \cup dropped) = {}
           /\ db'.outgoing = None
           /\ db.outgoing = tab[t].claim /\ tab[t].claim \in Claim
           /\ tab[t].reply \in Nat
<1> USE DEF Inv
<1>1. db \in Database /\ tab[t] \in TabState
  BY Types
<1>2. tab[t].claim \in Claim /\ tab[t].reply \in Nat
  BY <1>1 DEF ExchangesCarry, Exchanging, TabState
<1>3. db.outgoing = tab[t].claim /\ ~(db.revision > tab[t].reply)
  BY DEF ResponseKind, ResponseMatches, ContextError
<1>4. tab[t].reply >= db.revision
  BY <1>1, <1>2, <1>3 DEF Database
<1>5. dropped \subseteq Op
  BY <1>1 DEF NeverSent, Database
<1> QED BY <1>1, <1>2, <1>3, <1>4, <1>5 DEF AppliedResponse, Kept, Database

LEMMA ApplyKeeps ==
    ASSUME Inv, NEW t \in Tab, tab[t].pc = "answered",
           ResponseKind(db, Me, tab[t].claim, tab[t].reply) = "apply",
           NEW dropped \in SUBSET (NeverSent(db) \ tab[t].claim.sent),
           db' = AppliedResponse(db, tab[t].claim, tab[t].reply, dropped),
           gone' = gone \cup dropped,
           Step(t, Succeed(tab[t], db'.queue)),
           UNCHANGED <<server, late, online, faults, issued>>
    PROVE  Inv'
<1> USE DEF Inv
<1> DEFINE c == tab[t].claim
<1>1. /\ db' \in Database
      /\ db'.revision = tab[t].reply /\ db'.revision >= db.revision
      /\ db'.queue = (db.queue \ c.sent) \ dropped
      /\ db'.proof \subseteq db.proof \cap db.queue
      /\ db'.proof \cap (c.sent \cup dropped) = {}
      /\ db'.outgoing = None
      /\ db.outgoing = c /\ c \in Claim
      /\ tab[t].reply \in Nat
  BY AnswerApplied
<1>2. /\ db \in Database /\ tab[t] \in TabState /\ server \in [revision : Nat, logged : [Op -> Nat]]
      /\ c.sent \subseteq Op /\ issued \subseteq Op
  BY <1>1, Types DEF Claim
<1>3. tab' \in [Tab -> TabState] /\ \A u \in Tab : Tame(tab[u], tab'[u])
  <2>1. db'.queue \in SUBSET Op
    BY <1>1, <1>2 DEF Database
  <2>2. Tame(tab[t], Succeed(tab[t], db'.queue))
    BY <1>2, <2>1, SucceedTame
  <2> QED BY <2>2, OneTabTame
<1>4. SentIds(c) = c.sent /\ SentIds(db'.outgoing) = {}
  BY <1>1, NoneAssumption DEF SentIds
<1>5. NeverSent(db') \cup gone' \subseteq NeverSent(db) \cup gone
  BY <1>1, <1>4 DEF NeverSent
<1>6. \A u \in Tab : SentIds(tab'[u].claim) \subseteq SentIds(tab[u].claim)
  BY <1>3 DEF Tame, SentIds
<1>7. TypeOK'
  <2>1. dropped \subseteq Op
    BY <1>2 DEF NeverSent, Database
  <2> QED BY <1>1, <1>3, <2>1, Types DEF TypeOK, Database
<1>8. ExchangesCarry'
  BY <1>3 DEF Tame, ExchangesCarry
<1>9. AnswersHold'
  BY <1>3 DEF Tame, AnswersHold, Exchanging
<1>10. NothingAhead'
  BY <1>1 DEF NothingAhead, AnswersHold
<1>11. EditsAccounted'
  <2> SUFFICES ASSUME NEW o \in issued, o \notin db'.queue, o \notin gone'
               PROVE  server.logged[o] > 0 /\ server.logged[o] <= db'.revision
    BY DEF EditsAccounted
  <2>1. CASE o \in c.sent
    BY <1>1, <2>1 DEF AnswersHold
  <2>2. CASE o \notin c.sent
    <3>1. o \in issued \ (db.queue \cup gone)
      BY <1>1, <2>2
    <3>2. server.logged[o] > 0 /\ server.logged[o] <= db.revision
      BY <3>1 DEF EditsAccounted
    <3> QED BY <1>1, <1>2, <3>2 DEF Database
  <2> QED BY <2>1, <2>2
<1>12. AnswerNotOlder'
  <2> SUFFICES ASSUME NEW u \in Tab, tab'[u].pc = "answered"
               PROVE  tab'[u].claim # None
    BY <1>1 DEF AnswerNotOlder
  <2> QED BY <1>8, NoneAssumption DEF ExchangesCarry, Exchanging
<1>13. WorkIssued'
  BY <1>1, <1>4, <1>5, <1>6 DEF WorkIssued, NeverSent
<1>14. UnsentNowhere'
  <2>1. \A o \in NeverSent(db) \cup gone : Nowhere(o)'
    BY <1>4, <1>6 DEF UnsentNowhere, Nowhere
  <2>2. gone' \cap db'.queue = {} /\ db'.proof \cap SentIds(db'.outgoing) = {}
    BY <1>1, <1>4 DEF UnsentNowhere
  <2> QED BY <1>5, <2>1, <2>2 DEF UnsentNowhere
<1> QED BY <1>7, <1>8, <1>9, <1>10, <1>11, <1>12, <1>13, <1>14
----------------------------------------------------------------------------
(* The inductive argument.                                                 *)

LEMMA TakeClaimKeeps ==
    ASSUME Inv, NEW t \in Tab, TakeClaim(t)
    PROVE  Inv'
<1>1. TypeOK /\ tab[t] \in TabState /\ tab[t].pc = "claim"
  BY DEF Inv, TypeOK, TakeClaim
<1>2. UNCHANGED <<server, late, online, faults, issued, gone>>
  BY DEF TakeClaim, ClientUnchanged
<1>3. CASE /\ ClaimError(db, Me) = "none" /\ db.outgoing # None
           /\ Step(t, [tab[t] EXCEPT !.pc = "posted", !.claim = db.outgoing])
           /\ UNCHANGED db
  BY <1>1, <1>2, <1>3, ReplayKeeps
<1>4. CASE \E id \in FreshIds, sent \in Batch(db.queue) :
             /\ db' = FreshClaim(db, NewClaim(id, sent, Me))
             /\ Step(t, [tab[t] EXCEPT !.pc = "posted", !.claim = NewClaim(id, sent, Me)])
  BY <1>2, <1>4, FreshKeeps
<1>5. CASE UNCHANGED db /\ (Step(t, Fail([tab[t] EXCEPT !.recovery = "offered"])) \/ Step(t, Fail(tab[t])))
  <2> DEFINE r == [tab[t] EXCEPT !.recovery = "offered"]
  <2>1. r \in TabState /\ r.pc = tab[t].pc /\ r.claim = tab[t].claim /\ r.reply = tab[t].reply
    BY <1>1 DEF TabState
  <2>2. Step(t, Fail(r)) \/ Step(t, Fail(tab[t]))
    BY <1>5
  <2> HIDE DEF r
  <2>3. Tame(r, Fail(r)) /\ Tame(tab[t], Fail(tab[t]))
    BY <1>1, <2>1, FailTame
  <2>4. Tame(tab[t], Fail(r))
    BY <2>1, <2>3, TameAfter
  <2>5. UNCHANGED db /\ online' \in BOOLEAN /\ faults' \in 0 .. MaxFaults
    BY <1>1, <1>2, <1>5 DEF TypeOK
  <2>6. QuietStep
    BY <1>1, <1>2, <2>2, <2>3, <2>4, <2>5, TabOnlyQuiet
  <2> QED BY <2>6, QuietKeeps
<1> QED BY <1>3, <1>4, <1>5 DEF TakeClaim

LEMMA ApplyStepKeeps ==
    ASSUME Inv, NEW t \in Tab, Apply(t)
    PROVE  Inv'
<1>1. TypeOK /\ tab[t] \in TabState /\ tab[t].pc = "answered" /\ db.queue \in SUBSET Op
  BY DEF Inv, TypeOK, Apply
<1>2. UNCHANGED <<server, late, online, faults, issued>>
  BY DEF Apply, ClientUnchanged
<1>3. CASE /\ ResponseKind(db, Me, tab[t].claim, tab[t].reply) = "apply"
           /\ \E dropped \in SUBSET (NeverSent(db) \ tab[t].claim.sent) :
                /\ db' = AppliedResponse(db, tab[t].claim, tab[t].reply, dropped)
                /\ gone' = gone \cup dropped
           /\ Step(t, Succeed(tab[t], db'.queue))
  BY <1>1, <1>2, <1>3, ApplyKeeps
<1>4. CASE /\ Step(t, Fail(tab[t])) \/ Step(t, Succeed(tab[t], db.queue))
           /\ UNCHANGED <<db, gone>>
  <2>1. Tame(tab[t], Fail(tab[t])) /\ Tame(tab[t], Succeed(tab[t], db.queue))
    BY <1>1, FailTame, SucceedTame
  <2>2. online' \in BOOLEAN /\ faults' \in 0 .. MaxFaults
    BY <1>1, <1>2 DEF TypeOK
  <2>3. QuietStep
    BY <1>1, <1>2, <1>4, <2>1, <2>2, TabOnlyQuiet
  <2> QED BY <2>3, QuietKeeps
<1> QED BY <1>3, <1>4 DEF Apply

LEMMA InvInit ==
    ASSUME Init
    PROVE  Inv
<1>1. PICK sent \in {{}} \cup {{o} : o \in Op} :
        /\ issued = sent
        /\ db = [owner |-> Me, revision |-> 0, queue |-> sent, proof |-> {},
                 outgoing |-> IF sent = {} THEN None ELSE LegacyClaim(sent),
                 gate |-> None, resolution |-> None]
        /\ \E arrived \in SUBSET sent :
             server = [revision |-> IF arrived = {} THEN 0 ELSE 1,
                       logged |-> [o \in Op |-> IF o \in arrived THEN 1 ELSE 0]]
  BY DEF Init
<1>2. PICK arrived \in SUBSET sent :
        server = [revision |-> IF arrived = {} THEN 0 ELSE 1,
                  logged |-> [o \in Op |-> IF o \in arrived THEN 1 ELSE 0]]
  BY <1>1
<1>3. late = {} /\ tab \in [Tab -> {IdleTab, ClosedTab}] /\ online = TRUE /\ faults = 0 /\ gone = {}
  BY DEF Init
<1>4. sent \subseteq Op
  BY <1>1
<1>5. LegacyClaim(sent) \in Claim
  BY <1>4 DEF LegacyClaim, Claim, Owner
<1>6. ClosedTab \in TabState /\ IdleTab \in TabState
  BY DEF ClosedTab, IdleTab, TabState, Busy
<1>7. \A t \in Tab : /\ tab[t].pc \in {"closed", "idle"} /\ tab[t].claim = None
                     /\ tab[t] \in TabState
  <2>1. ClosedTab.pc = "closed" /\ ClosedTab.claim = None
    BY DEF ClosedTab
  <2>2. IdleTab.pc = "idle" /\ IdleTab.claim = None
    BY DEF ClosedTab, IdleTab
  <2> QED BY <1>3, <1>6, <2>1, <2>2
<1>8. SentIds(db.outgoing) \subseteq sent /\ \A t \in Tab : SentIds(tab[t].claim) = {}
  BY <1>1, <1>7 DEF SentIds, LegacyClaim
<1>9. NeverSent(db) = {}
  BY <1>1 DEF NeverSent
<1>10. TypeOK
  <2>1. tab \in [Tab -> TabState]
    BY <1>3, <1>6
  <2>2. db \in Database
    BY <1>1, <1>4, <1>5 DEF Database
  <2>3. server \in [revision : Nat, logged : [Op -> Nat]]
    BY <1>2
  <2>4. issued \subseteq Op
    BY <1>1, <1>4
  <2> QED BY <1>3, <2>1, <2>2, <2>3, <2>4, Types, SyncAssumption
<1>11. ExchangesCarry /\ AnswersHold /\ AnswerNotOlder
  BY <1>7 DEF ExchangesCarry, AnswersHold, AnswerNotOlder, Exchanging
<1>12. WorkIssued
  BY <1>1, <1>2, <1>3, <1>8 DEF WorkIssued
<1>13. UnsentNowhere
  BY <1>1, <1>3, <1>9 DEF UnsentNowhere
<1>14. NothingAhead
  BY <1>1, <1>2 DEF NothingAhead
<1>15. EditsAccounted
  BY <1>1 DEF EditsAccounted
<1> QED BY <1>10, <1>11, <1>12, <1>13, <1>14, <1>15 DEF Inv

\* The steps of a tab and of the world that leave the data alone.
LEMMA QuietSteps ==
    ASSUME TypeOK, [Next]_vars
    PROVE  \/ QuietStep
           \/ \E t \in Tab : Mutate(t) \/ TakeClaim(t) \/ Serve(t) \/ Apply(t) \/ DiscardClaim(t)
           \/ LateArrival \/ OtherDevice
<1>1. ASSUME NEW t \in Tab, TabStep(t),
             ~(Mutate(t) \/ TakeClaim(t) \/ Serve(t) \/ Apply(t) \/ DiscardClaim(t))
      PROVE  QuietStep
  <2>1. CASE FireTimer(t) \/ Poll(t) \/ Wake(t) \/ OnlineEvent(t)
    BY <2>1, FireTimerQuiet, PollQuiet, WakeQuiet, OnlineEventQuiet
  <2>2. CASE ArmRecovery(t) \/ CancelRecovery(t)
    BY <2>2, RecoveryQuiet
  <2>3. CASE OpenTab(t) \/ SessionKnown(t) \/ SessionFailed(t) \/ Prepare(t)
    BY <2>3, OpenTabQuiet, SessionKnownQuiet, SessionFailedQuiet, PrepareQuiet
  <2>4. CASE LoseExchange(t) \/ CloseTab(t)
    BY <2>4, LoseExchangeQuiet
  <2> QED BY <1>1, <2>1, <2>2, <2>3, <2>4 DEF TabStep
<1>2. ExpireLease \/ GoOffline \/ GoOnline \/ UNCHANGED vars => QuietStep
  BY ExpireLeaseQuiet, NetworkQuiet, StutterQuiet
<1> QED BY <1>1, <1>2 DEF Next

\* Every step keeps the invariant.
LEMMA InvStep ==
    ASSUME Inv, [Next]_vars
    PROVE  Inv'
<1>0. TypeOK
  BY DEF Inv
<1>1. CASE QuietStep
  BY <1>1, QuietKeeps
<1>2. ASSUME NEW t \in Tab,
             Mutate(t) \/ TakeClaim(t) \/ Serve(t) \/ Apply(t) \/ DiscardClaim(t)
      PROVE  Inv'
  <2>1. CASE Mutate(t)
    BY <2>1, MutateKeeps
  <2>2. CASE TakeClaim(t)
    BY <2>2, TakeClaimKeeps
  <2>3. CASE Serve(t)
    BY <2>3, ServeKeeps
  <2>4. CASE Apply(t)
    BY <2>4, ApplyStepKeeps
  <2>5. CASE DiscardClaim(t)
    BY <2>5, DiscardKeeps
  <2> QED BY <1>2, <2>1, <2>2, <2>3, <2>4, <2>5
<1>3. CASE LateArrival
  BY <1>3, LateArrivalKeeps
<1>4. CASE OtherDevice
  BY <1>4, OtherDeviceKeeps
<1> QED BY <1>0, <1>1, <1>2, <1>3, <1>4, QuietSteps

LEMMA Invariance == Spec => []Inv
BY InvInit, InvStep, PTL DEF Spec

\* The database, the claims under way and every tab keep their types, for every set
\* of tabs and operations: in particular the gate always names its account.
THEOREM TypeCorrect == Spec => []TypeOK
<1>1. Inv => TypeOK
  BY DEF Inv
<1> QED BY <1>1, Invariance, PTL

\* No edit is lost, whichever answers are late, lost, repeated or another tab's: it
\* waits, or the stored snapshot holds it, or Core gave it up before it was sent.
THEOREM NoEditLost == Spec => []EditsAccounted
<1>1. Inv => EditsAccounted
  BY DEF Inv
<1> QED BY <1>1, Invariance, PTL

\* What the proof says was never sent is not at the server and not on its way there,
\* wherever a tab stopped between claim, send and answer.
THEOREM ProofStaysSound == Spec => []ProofSound
<1>1. Inv => ProofSound
  <2> SUFFICES ASSUME Inv, NEW o \in NeverSent(db) \cup gone
               PROVE  o \notin Logged /\ \A c \in Underway : o \notin c.sent
    BY DEF ProofSound
  <2>1. Nowhere(o) /\ TypeOK /\ ExchangesCarry
    BY DEF Inv, UnsentNowhere
  <2>2. o \notin Logged
    BY <2>1 DEF Nowhere, Logged
  <2>3. ASSUME NEW t \in Tab, tab[t].pc = "posted"
        PROVE  o \notin tab[t].claim.sent
    <3>1. tab[t].claim # None
      BY <2>1, <2>3, NoneAssumption DEF ExchangesCarry, Exchanging
    <3> QED BY <2>1, <3>1 DEF Nowhere, SentIds
  <2> QED BY <2>1, <2>2, <2>3 DEF Nowhere, Underway
<1> QED BY <1>1, Invariance, PTL

\* An answer that still matches the stored claim is never older than the snapshot.
THEOREM MatchingAnswerNotOlder == Spec => []AnswerNotOlder
<1>1. Inv => AnswerNotOlder
  BY DEF Inv
<1> QED BY <1>1, Invariance, PTL

\* A claim that kept its bytes leaves storage with its answer and in no other way,
\* whatever other tabs, restarts and discarded claims do.
THEOREM ClaimsReleasedByAnswer == Spec => ClaimReleasedByAnswer
<1> DEFINE Released ==
             db.outgoing # None /\ db'.outgoing # db.outgoing /\ db.outgoing.body
             => /\ db'.outgoing = None
                /\ db.outgoing.sent \cap db'.queue = {}
                /\ \A o \in db.outgoing.sent :
                     server.logged[o] > 0 /\ server.logged[o] <= db'.revision
<1>1. ASSUME Inv, [Next]_vars
      PROVE  Released
  <2> SUFFICES ASSUME db.outgoing # None, db'.outgoing # db.outgoing, db.outgoing.body
               PROVE  /\ db'.outgoing = None
                      /\ db.outgoing.sent \cap db'.queue = {}
                      /\ \A o \in db.outgoing.sent :
                           server.logged[o] > 0 /\ server.logged[o] <= db'.revision
    OBVIOUS
  <2>0. TypeOK
    BY <1>1 DEF Inv
  <2>1. \E t \in Tab : Mutate(t) \/ TakeClaim(t) \/ Serve(t) \/ Apply(t) \/ DiscardClaim(t)
    BY <1>1, <2>0, QuietSteps DEF QuietStep, LateArrival, OtherDevice
  <2>2. PICK t \in Tab : Mutate(t) \/ TakeClaim(t) \/ Serve(t) \/ Apply(t) \/ DiscardClaim(t)
    BY <2>1
  <2>3. ~Mutate(t)
    BY <2>0, Types DEF Mutate, AppendPlan, Database
  <2>4. ~TakeClaim(t) /\ ~Serve(t) /\ ~DiscardClaim(t)
    BY DEF TakeClaim, Serve, DiscardClaim, DiscardAllowed
  <2>5. Apply(t)
    BY <2>2, <2>3, <2>4
  <2>6. PICK dropped \in SUBSET (NeverSent(db) \ tab[t].claim.sent) :
          /\ tab[t].pc = "answered"
          /\ ResponseKind(db, Me, tab[t].claim, tab[t].reply) = "apply"
          /\ db' = AppliedResponse(db, tab[t].claim, tab[t].reply, dropped)
    BY <2>5 DEF Apply
  <2>7. /\ db'.revision = tab[t].reply
        /\ db'.queue = (db.queue \ tab[t].claim.sent) \ dropped
        /\ db'.outgoing = None /\ db.outgoing = tab[t].claim
    BY <1>1, <2>6, AnswerApplied
  <2> QED BY <1>1, <2>6, <2>7 DEF Inv, AnswersHold
<1> HIDE DEF Released
<1>2. Inv /\ [Next]_vars => [Released]_vars
  BY <1>1
<1>3. [][Released]_vars => ClaimReleasedByAnswer
  BY PTL DEF Released, ClaimReleasedByAnswer
<1> QED BY <1>2, <1>3, Invariance, PTL DEF Spec
=============================================================================
