----------------------------- MODULE ClientSync -----------------------------
(***************************************************************************)
(* The sync engine of the web client (web/app-sync.js, app-session.js,     *)
(* app-bootstrap.js, app-actions.js): several tabs of one signed-in        *)
(* profile edit one shared database and deliver its queue to the server    *)
(* through one durable claim.  Requests and answers are lost or arrive     *)
(* after their sender gave up, tabs close at any await and open again,     *)
(* every opening tab takes the bootstrap gate until its session is known,  *)
(* and the network comes and goes.                                         *)
(*                                                                         *)
(* One account incarnation owns the profile here; account changes and      *)
(* history resolution are in ClientBootstrap, sign-out in ClientSession.   *)
(***************************************************************************)
EXTENDS ClientStorage

CONSTANTS Me,           \* the account that owns the profile
          BatchLimit,   \* operations in one request (512 in Core's batch plan)
          MaxRevision,  \* bound on changes by the account's other devices
          MaxClaims,    \* bound on the claims that exist at one time
          MaxFaults     \* bound on lost messages, closed tabs, offline spells and hints

ASSUME SyncAssumption ==
    Me \in Account /\ BatchLimit \in Nat \ {0} /\ MaxRevision \in Nat
    /\ MaxClaims \in Nat /\ MaxFaults \in Nat

VARIABLES db,      \* the shared database
          server,  \* [revision, logged]: the account's log; logged[o] is the revision that holds o
          late,    \* claims on their way to the server whose sender no longer listens
          tab,     \* the tabs' memory
          online,  \* navigator.onLine
          faults,  \* faults so far
          issued,  \* operations the user made
          gone     \* operations Core replaced or dropped before they were sent

vars == <<db, server, late, tab, online, faults, issued, gone>>

(***************************************************************************)
(* A tab.  pc is where its one asynchronous activity stands:               *)
(*   closed  idle                                                          *)
(*   claim   syncPreflight passed, claimWorkspaceBatch is next             *)
(*   posted  request under way;   answered  answer under way               *)
(*   session GET /api/v1/me under way                                      *)
(*   prepare prepareBootstrap is next                                      *)
(* timer is the one retryTimer, armed by scheduleSync or scheduleRetry;    *)
(* again is the syncAgain flag (whether the next round is forced, that is, *)
(* runs with an empty queue, is left open); blocked is                     *)
(* needsBootstrapResolution; owned is bootstrapGateOwned; validated that   *)
(* the session is known; woken that an "online" event waits.               *)
(***************************************************************************)
Busy == {"claim", "posted", "answered"}

TabState == [pc : {"closed", "idle", "session", "prepare"} \cup Busy,
             claim : Claim \cup {None}, reply : Nat,
             timer : {"off", "sync", "retry"}, again : BOOLEAN,
             blocked : BOOLEAN, owned : BOOLEAN, validated : BOOLEAN,
             recovery : {"no", "offered", "armed"}, woken : BOOLEAN]

ClosedTab == [pc |-> "closed", claim |-> None, reply |-> 0, timer |-> "off", again |-> FALSE,
              blocked |-> TRUE, owned |-> FALSE, validated |-> FALSE,
              recovery |-> "no", woken |-> FALSE]

\* open, session known, nothing under way
IdleTab == [ClosedTab EXCEPT !.pc = "idle", !.blocked = FALSE, !.validated = TRUE]

Logged == {o \in Op : server.logged[o] > 0}

Underway == late \cup {tab[t].claim : t \in {u \in Tab : tab[u].pc = "posted"}}

\* a claim left by a client that did not keep the request bytes
LegacyClaim(sent) == [id |-> 0, sent |-> sent, owner |-> None, body |-> FALSE]

Init ==
    /\ \E sent \in {{}} \cup {{o} : o \in Op} :
         /\ issued = sent
         /\ db = [owner |-> Me, revision |-> 0, queue |-> sent, proof |-> {},
                  outgoing |-> IF sent = {} THEN None ELSE LegacyClaim(sent),
                  gate |-> None, resolution |-> None]
         /\ \E arrived \in SUBSET sent :
              server = [revision |-> IF arrived = {} THEN 0 ELSE 1,
                        logged |-> [o \in Op |-> IF o \in arrived THEN 1 ELSE 0]]
    /\ late = {}
    /\ tab \in [Tab -> {IdleTab, ClosedTab}]
    /\ online = TRUE
    /\ faults = 0
    /\ gone = {}

(***************************************************************************)
(* Calls a tab makes on itself, as functions on its record.                *)
(***************************************************************************)
\* Mutant of ScheduleRetry: a failure arms no retry.
NeverRetry(s) == s

\* scheduleRetry arms nothing while offline
ScheduleRetry(s) == [s EXCEPT !.timer = IF online THEN "retry" ELSE @]

\* blockSyncForBootstrap
BlockSync(s) ==
    ScheduleRetry([s EXCEPT !.pc = "idle", !.validated = FALSE, !.blocked = TRUE, !.owned = FALSE])

\* syncPreflight of an idle tab
Preflight(s, force) ==
    IF s.blocked \/ ~s.validated \/ ~online THEN [s EXCEPT !.pc = "idle"]
    ELSE IF Gated(db) THEN BlockSync(s)
    ELSE IF ~force /\ db.queue = {} THEN [s EXCEPT !.pc = "idle"]
    ELSE [s EXCEPT !.pc = "claim"]

\* syncNow: one operation at a time, a second caller asks for another round
SyncNow(s, force) ==
    IF s.pc \in Busy
    THEN [s EXCEPT !.again = TRUE]
    ELSE Preflight(s, force)

\* restoreSessionAndSync.  A second caller while a session request or a preparation
\* is under way is left out: its /me would void the first one's answer
\* (sessionRequestSequence) and bring the same one.
RestoreSession(s) ==
    IF s.pc \in {"session", "prepare"} THEN s
    ELSE IF ~s.validated THEN [s EXCEPT !.pc = "session"]
    ELSE IF s.blocked THEN [s EXCEPT !.pc = "prepare"]
    ELSE SyncNow(s, TRUE)

\* handleOnline: the retry timer is cleared before the session is restored
HandleOnline(s) == RestoreSession([s EXCEPT !.timer = "off"])

\* syncNow's finally: a round asked for meanwhile starts at once, unless this one
\* failed (state.retrying) and its retry waits
Finish(s, failed) ==
    [s EXCEPT !.pc = "idle", !.claim = None, !.reply = 0, !.again = FALSE,
              !.timer = IF s.again /\ ~failed THEN "sync" ELSE @]

\* reportSyncError, then the finally
Fail(s) == Finish(ScheduleRetry(s), TRUE)

\* submitSyncBatch's tail: what is still queued asks for another round
Succeed(s, queue) ==
    Finish([s EXCEPT !.again = @ \/ queue # {}], FALSE)

Open(t) == tab[t].pc # "closed"

Step(t, s) == tab' = [tab EXCEPT ![t] = s]

ClientUnchanged == UNCHANGED <<late, online, faults>>

\* one of the bounded number of things that go wrong or happen to a tab
Fault == faults < MaxFaults /\ faults' = faults + 1
----------------------------------------------------------------------------
(* Edits.                                                                  *)

\* issueWorkspaceIntent: one transaction, then the launchSync effect
Mutate(t) ==
    /\ Open(t) /\ ~tab[t].blocked
    /\ ContextError(db, Me) = "none"
    /\ \E o \in Op \ issued, retired \in SUBSET NeverSent(db) :
         /\ Cardinality(retired) <= 1
         /\ db' = AppendPlan(db, o, retired)
         /\ issued' = issued \cup {o}
         /\ gone' = gone \cup retired
    /\ Step(t, [tab[t] EXCEPT !.timer = "sync"])
    /\ ClientUnchanged /\ UNCHANGED server
----------------------------------------------------------------------------
(* What starts a round.                                                    *)

\* the callback of scheduleSync or of scheduleRetry
FireTimer(t) ==
    /\ Open(t) /\ tab[t].timer # "off"
    /\ \E force \in BOOLEAN :
         LET s == [tab[t] EXCEPT !.timer = "off"]
         IN Step(t, IF tab[t].timer = "sync" THEN SyncNow(s, force)
                    ELSE IF s.validated /\ ~s.blocked THEN SyncNow(s, FALSE)
                    ELSE RestoreSession(s))
    /\ ClientUnchanged /\ UNCHANGED <<db, server, issued, gone>>

\* bound: polls that find both sides equal are left out
SomethingToExchange == db.queue # {} \/ server.revision > db.revision

\* pollRemoteState, every remoteSyncIntervalMs
Poll(t) ==
    /\ Open(t) /\ tab[t].validated /\ ~tab[t].blocked /\ online
    /\ SomethingToExchange
    /\ Step(t, SyncNow(tab[t], TRUE))
    /\ ClientUnchanged /\ UNCHANGED <<db, server, issued, gone>>

\* receiveRevisionHint from the revision stream, or the tab becomes visible again
Wake(t) ==
    /\ Open(t) /\ online /\ Fault
    /\ Step(t, IF tab[t].validated /\ ~tab[t].blocked
               THEN [tab[t] EXCEPT !.timer = "sync"] ELSE HandleOnline(tab[t]))
    /\ UNCHANGED <<db, server, late, online, issued, gone>>

\* the "online" event reaches the tab
OnlineEvent(t) ==
    /\ tab[t].woken
    /\ Step(t, HandleOnline([tab[t] EXCEPT !.woken = FALSE]))
    /\ ClientUnchanged /\ UNCHANGED <<db, server, issued, gone>>
----------------------------------------------------------------------------
(* One round of sync.                                                      *)

Unused(n) == \A c \in late \cup {db.outgoing} \cup {tab[u].claim : u \in Tab} :
               c = None \/ c.id # n

\* crypto.randomUUID: identities come back only when nothing knows them any more
FreshIds == {n \in 1 .. MaxClaims : Unused(n) /\ \A m \in 1 .. MaxClaims : m < n => ~Unused(m)}

\* Core's sync.batchPlan: a part of the queue, never nothing while something waits
Batch(queue) ==
    {b \in SUBSET queue : Cardinality(b) <= BatchLimit /\ (b = {} => queue = {})}

\* performSync and postMutation: claimWorkspaceBatch, and the request leaves.  A tab
\* that stops between the two is a tab whose request is lost.  Of the plans that send
\* nothing only the claim without bytes is there; those of Core's size limits and
\* dependencies (oversized_saved, blocked_dependency) fail the round in the same way,
\* offer no recovery, and are left out.
TakeClaim(t) ==
    /\ tab[t].pc = "claim"
    /\ \/ /\ ClaimError(db, Me) = "none" /\ db.outgoing # None
          /\ Step(t, [tab[t] EXCEPT !.pc = "posted", !.claim = db.outgoing])
          /\ UNCHANGED db
       \/ /\ ClaimError(db, Me) = "none" /\ db.outgoing = None
          /\ \E id \in FreshIds, sent \in Batch(db.queue) :
               LET claim == NewClaim(id, sent, Me)
               IN /\ db' = FreshClaim(db, claim)
                  /\ Step(t, [tab[t] EXCEPT !.pc = "posted", !.claim = claim])
       \/ /\ ClaimError(db, Me) = "unsendable"
          /\ Step(t, Fail([tab[t] EXCEPT !.recovery = "offered"]))
          /\ UNCHANGED db
       \/ /\ ClaimError(db, Me) = "gated"
          /\ Step(t, Fail(tab[t]))
          /\ UNCHANGED db
    /\ ClientUnchanged /\ UNCHANGED <<server, issued, gone>>

\* the server stores what it does not have yet (AccountStore has the detail)
Accepted(sent) ==
    IF sent \subseteq Logged THEN server
    ELSE [revision |-> server.revision + 1,
          logged |-> [o \in Op |-> IF o \in sent \ Logged THEN server.revision + 1
                                   ELSE server.logged[o]]]

Serve(t) ==
    /\ tab[t].pc = "posted" /\ online
    /\ server' = Accepted(tab[t].claim.sent)
    /\ Step(t, [tab[t] EXCEPT !.pc = "answered", !.reply = server'.revision])
    /\ ClientUnchanged /\ UNCHANGED <<db, issued, gone>>

\* acceptSyncResponse: one transaction, then the tail of submitSyncBatch
Apply(t) ==
    /\ tab[t].pc = "answered"
    /\ LET s == tab[t]
           kind == ResponseKind(db, Me, s.claim, s.reply)
       IN \/ /\ kind = "apply"
             /\ \E dropped \in SUBSET (NeverSent(db) \ s.claim.sent) :
                  /\ db' = AppliedResponse(db, s.claim, s.reply, dropped)
                  /\ gone' = gone \cup dropped
             /\ Step(t, Succeed(s, db'.queue))
          \/ /\ kind # "apply"
             /\ Step(t, IF kind = "gated" THEN Fail(s) ELSE Succeed(s, db.queue))
             /\ UNCHANGED <<db, gone>>
    /\ ClientUnchanged /\ UNCHANGED <<server, issued>>

\* the user gives up a claim whose bytes were never kept
ArmRecovery(t) ==
    /\ tab[t].recovery = "offered"
    /\ Step(t, [tab[t] EXCEPT !.recovery = "armed"])
    /\ ClientUnchanged /\ UNCHANGED <<db, server, issued, gone>>

CancelRecovery(t) ==
    /\ tab[t].recovery = "armed"
    /\ Step(t, [tab[t] EXCEPT !.recovery = "offered"])
    /\ ClientUnchanged /\ UNCHANGED <<db, server, issued, gone>>

DiscardClaim(t) ==
    /\ tab[t].recovery = "armed" /\ DiscardAllowed(db, Me)
    /\ \E id \in FreshIds, sent \in Batch(db.queue) :
         db' = FreshClaim([db EXCEPT !.outgoing = None], NewClaim(id, sent, Me))
    /\ Step(t, [tab[t] EXCEPT !.recovery = "no"])
    /\ ClientUnchanged /\ UNCHANGED <<server, issued, gone>>
----------------------------------------------------------------------------
(* Opening a tab: the gate, the session, the gate again.                   *)

\* restoreLocalWorkspace takes the gate, or finds another tab's
OpenTab(t) ==
    /\ ~Open(t)
    /\ LET acquired == CanAcquireGate(db, t, Me)
       IN /\ db' = IF acquired THEN AcquiredGate(db, t, Me) ELSE db
          /\ Step(t, [ClosedTab EXCEPT !.pc = "session", !.owned = acquired])
    /\ ClientUnchanged /\ UNCHANGED <<server, issued, gone>>

\* loadSession answered: the session belongs to the profile's owner
SessionKnown(t) ==
    /\ tab[t].pc = "session" /\ online
    /\ Step(t, LET s == [tab[t] EXCEPT !.validated = TRUE, !.pc = "idle"]
               IN IF s.blocked THEN [s EXCEPT !.pc = "prepare"] ELSE SyncNow(s, TRUE))
    /\ ClientUnchanged /\ UNCHANGED <<db, server, issued, gone>>

\* loadSession failed: activateCachedOwnerOffline releases the tab's own gate
SessionFailed(t) ==
    /\ tab[t].pc = "session"
    /\ \/ ~online /\ UNCHANGED faults
       \/ online /\ Fault
    /\ LET s == [tab[t] EXCEPT !.pc = "idle"]
       IN IF s.owned /\ CanClearGate(db, t)
          THEN /\ db' = ClearedGate(db)
               /\ Step(t, ScheduleRetry([s EXCEPT !.blocked = FALSE, !.owned = FALSE]))
          ELSE /\ Step(t, ScheduleRetry(s))
               /\ UNCHANGED db
    /\ UNCHANGED <<late, online, server, issued, gone>>

(* prepareBootstrapOnce when the profile already has this owner: take the  *)
(* gate unless the tab thinks it holds it, then                            *)
(* resumeNormalSyncFromBootstrap releases it and syncs.  Only local        *)
(* storage is awaited in between, so this is one step; the gate is held    *)
(* across the network from OpenTab to SessionKnown.                        *)
Prepare(t) ==
    /\ tab[t].pc = "prepare"
    /\ LET held == IF tab[t].owned \/ ~CanAcquireGate(db, t, Me) THEN db
                   ELSE AcquiredGate(db, t, Me)
       IN IF CanClearGate(held, t)
          THEN /\ db' = ClearedGate(held)
               /\ Step(t, [tab[t] EXCEPT !.pc = IF online THEN "claim" ELSE "idle",
                                         !.blocked = FALSE, !.owned = FALSE])
          ELSE /\ Step(t, ScheduleRetry([tab[t] EXCEPT !.pc = "idle"]))
               /\ UNCHANGED db
    /\ ClientUnchanged /\ UNCHANGED <<server, issued, gone>>

\* five minutes pass
ExpireLease ==
    /\ LeaseIsLive(db.gate)
    /\ db' = [db EXCEPT !.gate.live = FALSE]
    /\ ClientUnchanged /\ UNCHANGED <<server, tab, issued, gone>>
----------------------------------------------------------------------------
(* The network and the world.                                              *)

\* requests that lost their sender are lost too, or still arrive
Orphans(T) == {late \cup {tab[t].claim : t \in U} :
                 U \in SUBSET {t \in T : tab[t].pc = "posted"}}

\* the fetch rejects: before the request arrived, while it travels, or after the server acted
LoseExchange(t) ==
    /\ tab[t].pc \in {"posted", "answered"}
    /\ IF online THEN Fault ELSE UNCHANGED faults
    /\ late' \in Orphans({t})
    /\ Step(t, Fail(tab[t]))
    /\ UNCHANGED <<db, server, online, issued, gone>>

\* a tab is closed or crashes at any await
CloseTab(t) ==
    /\ Open(t) /\ Fault
    /\ late' \in Orphans({t})
    /\ Step(t, ClosedTab)
    /\ UNCHANGED <<db, server, online, issued, gone>>

LateArrival ==
    /\ \E c \in late :
         /\ late' = late \ {c}
         /\ server' \in {server, Accepted(c.sent)}
    /\ UNCHANGED <<db, tab, online, faults, issued, gone>>

\* another device of the account
OtherDevice ==
    /\ server.revision < MaxRevision
    /\ server' = [server EXCEPT !.revision = @ + 1]
    /\ ClientUnchanged /\ UNCHANGED <<db, tab, issued, gone>>

\* every fetch under way rejects; no retry is armed while offline
GoOffline ==
    /\ online /\ Fault
    /\ online' = FALSE
    /\ late' \in Orphans(Tab)
    /\ tab' = [t \in Tab |-> IF tab[t].pc \in {"posted", "answered"}
                             THEN Finish(tab[t], TRUE) ELSE tab[t]]
    /\ UNCHANGED <<db, server, issued, gone>>

GoOnline ==
    /\ ~online
    /\ online' = TRUE
    /\ tab' = [t \in Tab |-> [tab[t] EXCEPT !.woken = Open(t)]]
    /\ UNCHANGED <<db, server, late, faults, issued, gone>>
----------------------------------------------------------------------------
TabStep(t) ==
    \/ Mutate(t) \/ FireTimer(t) \/ Poll(t) \/ Wake(t) \/ OnlineEvent(t)
    \/ TakeClaim(t) \/ Serve(t) \/ Apply(t)
    \/ ArmRecovery(t) \/ CancelRecovery(t) \/ DiscardClaim(t)
    \/ OpenTab(t) \/ SessionKnown(t) \/ SessionFailed(t) \/ Prepare(t)
    \/ LoseExchange(t) \/ CloseTab(t)

Next ==
    \/ \E t \in Tab : TabStep(t)
    \/ ExpireLease \/ LateArrival \/ OtherDevice \/ GoOffline \/ GoOnline

(***************************************************************************)
(* Fairness: a scheduled callback runs, an await settles, the server       *)
(* answers, the poll interval passes, a lease runs out and a lost network  *)
(* comes back.  Nothing obliges the user to edit, to open a tab or to      *)
(* give up a claim.                                                        *)
(***************************************************************************)
Progress(t) ==
    \/ FireTimer(t) \/ OnlineEvent(t) \/ TakeClaim(t) \/ Serve(t) \/ Apply(t)
    \/ SessionKnown(t) \/ (SessionFailed(t) /\ ~online) \/ Prepare(t)

Spec ==
    /\ Init /\ [][Next]_vars
    /\ \A t \in Tab : WF_vars(Progress(t)) /\ WF_vars(Poll(t))
    /\ WF_vars(ExpireLease) /\ WF_vars(GoOnline)
----------------------------------------------------------------------------
(* The database, the claims under way and the tabs keep their shape; the   *)
(* gate always names its account, and no history request is saved while    *)
(* the profile stays with its owner (boundBootstrapLease).                 *)
TypeOK ==
    /\ db \in [owner : {Me}, revision : Nat, queue : SUBSET Op, proof : SUBSET Op,
               outgoing : Claim \cup {None}, gate : Gate \cup {None}, resolution : {None}]
    /\ server \in [revision : Nat, logged : [Op -> Nat]]
    /\ late \subseteq Claim
    /\ tab \in [Tab -> TabState]
    /\ online \in BOOLEAN
    /\ faults \in 0 .. MaxFaults
    /\ issued \subseteq Op /\ gone \subseteq Op

(* An edit the user made is always accounted for: it waits in the queue,   *)
(* or the stored snapshot is at least as new as the revision that holds    *)
(* it, or Core replaced it before it was ever sent.  Late answers, answers *)
(* to another tab's claim and crashes between claim and answer do not lose *)
(* it (planSyncResponse, responseClaimPlan).                               *)
EditsAccounted ==
    \A o \in issued \ (db.queue \cup gone) :
      server.logged[o] > 0 /\ server.logged[o] <= db.revision

(* Delivery proof is never wrong: an operation that Core may still replace *)
(* or drop, or already has, is not at the server and in no request that    *)
(* may still arrive (claimWorkspaceBatch retires proof before the send).   *)
ProofSound ==
    LET possiblyDelivered == Logged \cup UNION {c.sent : c \in Underway}
    IN (NeverSent(db) \cup gone) \cap possiblyDelivered = {}

(* An answer that still matches the stored claim is never older than the   *)
(* stored snapshot, whichever tab applied answers in between, so no answer *)
(* is applied backwards and none is left over as stale.                    *)
AnswerNotOlder ==
    \A t \in Tab : tab[t].pc = "answered" /\ tab[t].claim = db.outgoing
                    => tab[t].reply >= db.revision

(* A claim that kept its bytes is replayed unchanged by every tab until it *)
(* is answered: it only leaves storage when the server holds everything in *)
(* it, the new snapshot shows it, and it left the queue.                   *)
ClaimReleasedByAnswer ==
    [][ db.outgoing # None /\ db'.outgoing # db.outgoing /\ db.outgoing.body
        => /\ db'.outgoing = None
           /\ db.outgoing.sent \cap db'.queue = {}
           /\ \A o \in db.outgoing.sent :
                server.logged[o] > 0 /\ server.logged[o] <= db'.revision ]_vars

(* A tab that thinks it owns the gate while the database says otherwise:   *)
(* its lease ran out and another tab took the gate.                        *)
LostGate(t) == tab[t].owned /\ (db.gate = None \/ db.gate.token # t)

(* A tab that stopped for the gate, or has just been opened, works again   *)
(* by itself once the other tab is done or its lease has run out, unless   *)
(* it lost its own gate: clearBootstrapGate then refuses for ever.         *)
TabsUnblock ==
    \A t \in Tab :
      (Open(t) /\ tab[t].blocked) ~> (~Open(t) \/ ~tab[t].blocked \/ LostGate(t))

(* A tab whose session could not be asked for and that retries no more:    *)
(* an edit's scheduleSync replaced the retry timer, and syncPreflight      *)
(* returned before it armed another.                                       *)
CutOff(t) ==
    /\ online /\ tab[t].pc = "idle" /\ ~tab[t].woken
    /\ ~tab[t].validated /\ ~tab[t].blocked /\ tab[t].timer = "off"

(* What the user edits reaches the server and leaves the queue, as long as *)
(* some tab stays open.  Three states need the user: a claim without its   *)
(* bytes, tabs that lost their gate (they wait for a reload), and tabs     *)
(* that were cut off (they wait to be shown again).                        *)
EditsDelivered ==
    \A o \in Op :
      o \in db.queue ~>
        \/ o \notin db.queue
        \/ db.outgoing # None /\ ~db.outgoing.body
        \/ \A t \in Tab : Open(t) => LostGate(t) \/ CutOff(t)
=============================================================================
