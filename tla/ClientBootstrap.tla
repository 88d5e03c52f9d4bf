--------------------------- MODULE ClientBootstrap ---------------------------
(***************************************************************************)
(* A browser profile whose stored work has no owner yet, or another owner  *)
(* than the account now signed in (web/app-bootstrap.js, the session part  *)
(* of web/app-session.js and the resolution transactions of                *)
(* web/sync-storage.js).  One tab takes the bootstrap gate, asks the       *)
(* account for its history, saves one "history request" (merge, replace    *)
(* the account or keep the account), sends exactly that request until it   *)
(* is answered and installs the answer.  The account in the cookie changes *)
(* under every tab, leases run out, answers are lost, tabs close.          *)
(*                                                                         *)
(* The normal sync round is here too, in less detail than in ClientSync:   *)
(* it is what must not run against the wrong account.                      *)
(***************************************************************************)
EXTENDS ClientStorage

CONSTANTS MaxRequests,  \* bound on captured history requests and on claims
          MaxSwitches,  \* bound on changes of the account in the cookie
          MaxMishaps,   \* bound on these and the faults together
          MaxFaults     \* bound on lost messages, closed tabs, expired leases and
                        \* changes by other devices

ASSUME BootstrapAssumption ==
    MaxRequests \in Nat /\ MaxSwitches \in Nat /\ MaxFaults \in Nat /\ MaxMishaps \in Nat

VARIABLES db,        \* the shared database
          server,    \* [Account -> [revision, log, resolved]]
          cookie,    \* the account of the browser's session
          tab,       \* the tabs' memory
          late,      \* history requests whose sender no longer listens
          requests,  \* history requests and claims so far; the next one's identity
          faults,    \* changes of the account and other faults so far
          author     \* whose profile it was when an operation was made

vars == <<db, server, cookie, tab, late, requests, faults, author>>

Strategy == {"merge", "replace_remote", "keep_remote"}

Request == 1 .. MaxRequests

Faults == [switches : 0 .. MaxSwitches, other : 0 .. MaxFaults]

(* A saved history request: sent is its payload, queued what its answer    *)
(* settles, source the owner of the profile it was captured from.  asked   *)
(* records whether the user chose it in a dialog, in the tab that captured *)
(* it or in the one whose request that tab retried.                        *)
Resolution == [id : Request, user : Account, strategy : Strategy, expected : Nat,
               sent : SUBSET Op, queued : SUBSET Op, source : Owner,
               delivered : BOOLEAN, token : Tab, asked : BOOLEAN]

ASSUME RequestAssumption == None \notin Resolution /\ None \notin Nat
ASSUME AuthorAssumption == Account \cap {"anonymous", "unmade"} = {}

(***************************************************************************)
(* A tab.  pc: closed; idle; start and session (GET /me under way, from    *)
(* initializeSession or from restoreSessionAndSync); prepare; preview (GET *)
(* bootstrap under way); capture; submit; posted and answered (history     *)
(* request); syncing and synced (sync round).  user is the signed-in       *)
(* account, local the owner the tab loaded its state for, as the cookie a  *)
(* request under way left with, binding what the database said when the    *)
(* session was asked for.  plan is the open dialog, strategy and asked the *)
(* choice made in it.                                                      *)
(***************************************************************************)
TabState == [pc : {"closed", "idle", "start", "session", "prepare", "preview", "capture",
                   "submit", "posted", "answered", "syncing", "synced"},
             user : Owner, local : Owner, validated : BOOLEAN, blocked : BOOLEAN,
             owned : BOOLEAN, pending : Resolution \cup {None}, preview : Nat,
             plan : {"none", "choose", "confirm"}, strategy : Strategy, asked : BOOLEAN,
             conflict : BOOLEAN, error : BOOLEAN, binding : Owner \X Owner,
             as : Owner, claim : Claim \cup {None}, reply : Nat]

ClosedTab == [pc |-> "closed", user |-> None, local |-> None, validated |-> FALSE,
              blocked |-> TRUE, owned |-> FALSE, pending |-> None, preview |-> 0,
              plan |-> "none", strategy |-> "keep_remote", asked |-> FALSE,
              conflict |-> FALSE, error |-> FALSE, binding |-> <<None, None>>,
              as |-> None, claim |-> None, reply |-> 0]

MadeBy(owner) == IF owner = None THEN "anonymous" ELSE owner

Init ==
    /\ \E owner \in Owner, queue \in SUBSET Op :
         /\ Cardinality(queue) <= 1
         /\ db = [owner |-> owner, revision |-> 0, queue |-> queue, proof |-> queue,
                  outgoing |-> None, gate |-> None, resolution |-> None]
         /\ author = [o \in Op |-> IF o \in queue THEN MadeBy(owner) ELSE "unmade"]
    /\ server = [a \in Account |-> [revision |-> 0, log |-> {},
                                    resolved |-> [i \in Request |-> None]]]
    /\ cookie \in Account
    /\ tab = [t \in Tab |-> ClosedTab]
    /\ late = {} /\ requests = 0
    /\ faults = [switches |-> 0, other |-> 0]

Step(t, s) == tab' = [tab EXCEPT ![t] = s]

Open(t) == tab[t].pc # "closed"

MishapLeft == faults.switches + faults.other < MaxMishaps

Fault ==
    /\ MishapLeft /\ faults.other < MaxFaults
    /\ faults' = [faults EXCEPT !.other = @ + 1]

(***************************************************************************)
(* Calls a tab makes on itself.                                            *)
(***************************************************************************)
Idle(s) == [s EXCEPT !.pc = "idle", !.claim = None, !.reply = 0, !.as = None]

\* accountIdentity: the account a context is bound to
Current(s) == IF s.user # None THEN s.user ELSE s.local

\* requiresBootstrapResolution
NeedsBootstrap(s) ==
    s.blocked \/ s.pending # None \/ (s.user # None /\ s.local # s.user)

\* queueSessionRevalidation: the session is asked for again, by Resume
Revalidate(s) ==
    [Idle(s) EXCEPT !.pending = None, !.conflict = FALSE, !.error = FALSE,
                    !.blocked = TRUE, !.owned = FALSE, !.validated = FALSE]

\* blockSyncForBootstrap
BlockSync(d, s) ==
    [Idle(s) EXCEPT !.validated = FALSE, !.blocked = TRUE, !.owned = FALSE,
                    !.pending = d.resolution]

\* resetBootstrapState
ResetBootstrap(s) ==
    [Idle(s) EXCEPT !.local = s.user, !.pending = None, !.plan = "none", !.asked = FALSE,
                    !.conflict = FALSE, !.error = FALSE, !.blocked = FALSE, !.owned = FALSE]

GateOwner(d) == IF d.gate = None THEN None ELSE d.gate.owner

\* readAccountBinding
BindingOf(d) == <<d.owner, GateOwner(d)>>

\* what a transaction left: the database and the tab's memory
Outcome(d, s) == [db |-> d, tab |-> s]

Commit(t, outcome) == db' = outcome.db /\ Step(t, outcome.tab)
----------------------------------------------------------------------------
(* restartBootstrapForCurrentAccount and invalidateForeignResolution.      *)

\* assertStorageContext and assertBootstrapAccountBinding
RestartAllowed(d, s) ==
    /\ d.owner = s.local
    /\ GateOwner(d) \in {None, s.user} \/ s.binding = BindingOf(d)

OwnResolution(d, user) ==
    IF d.resolution # None /\ d.resolution.user = user THEN d.resolution ELSE None

Restarted(t, d, s) ==
    LET acquired == ~(LeaseIsLive(d.gate) /\ d.gate.token # t)
        own == OwnResolution(d, s.user)
        kept == IF own = None THEN None ELSE [own EXCEPT !.token = t]
        fresh == [s EXCEPT !.plan = "none", !.asked = FALSE, !.conflict = FALSE,
                           !.error = FALSE, !.blocked = TRUE, !.owned = acquired]
    IN IF acquired
       THEN Outcome([d EXCEPT !.gate = BoundLease(t, s.user), !.resolution = kept],
                    [fresh EXCEPT !.pending = kept])
       ELSE Outcome(d, [fresh EXCEPT !.pending = own])

\* loadSession or refreshMutationCsrf found another account: the tab keeps the source
\* owner, and everything bound to the old account is stale
SwitchAccount(t, d, s, user, next) ==
    LET source == IF s.local # None THEN s.local ELSE Current(s)
        switched == [Idle(s) EXCEPT !.user = user, !.local = source, !.validated = TRUE,
                                    !.blocked = TRUE, !.binding = BindingOf(d)]
    IN IF RestartAllowed(d, switched)
       THEN Outcome(Restarted(t, d, switched).db, [Restarted(t, d, switched).tab EXCEPT !.pc = next])
       ELSE Outcome(d, switched)
----------------------------------------------------------------------------
(* prepareBootstrapOnce up to its first request: only local storage is     *)
(* awaited, so it is one step.                                             *)

\* bootstrapPreparationPaused
Paused(s) == s.error \/ (s.plan # "none" /\ s.pending = None)

\* reconcileBootstrapAccount
NeedsHandoff(s) ==
    \/ s.pending # None /\ s.pending.user # s.user
    \/ ~s.owned /\ s.local \notin {None, s.user}

\* resumeNormalSyncFromBootstrap
ResumedNormalSync(t, d, s) ==
    IF CanClearGate(d, t) /\ GateOwner(d) \in {None, s.user} /\ d.owner = s.user
    THEN Outcome(ClearedGate(d), [Idle(s) EXCEPT !.local = s.user, !.pending = None,
                                                 !.blocked = FALSE, !.owned = FALSE])
    ELSE Outcome(d, [Idle(s) EXCEPT !.local = s.user])

\* the gate was already the tab's own: reconcilePersistedBootstrapState
GateHeld(t, d, s) ==
    IF s.pending # None THEN Outcome(d, [s EXCEPT !.pc = "submit"])
    ELSE IF s.local # s.user THEN Outcome(d, [s EXCEPT !.pc = "preview"])
    ELSE IF d.resolution # None
    THEN Outcome(d, [s EXCEPT !.pending = d.resolution,
                              !.pc = IF d.resolution.user = s.user THEN "submit" ELSE "preview"])
    ELSE IF d.owner = s.user THEN ResumedNormalSync(t, d, s)
    ELSE Outcome(d, [s EXCEPT !.pc = "preview"])

\* acquireBootstrapPreparationGate
GateTaken(t, d, s) ==
    IF s.pending # None THEN Outcome(d, [s EXCEPT !.pc = "submit"])
    ELSE IF d.owner = s.user THEN ResumedNormalSync(t, d, s)
    ELSE Outcome(d, [s EXCEPT !.local = IF d.owner # None THEN d.owner ELSE @, !.pc = "preview"])

AcquirePreparationGate(t, d, s) ==
    IF s.owned THEN GateHeld(t, d, s)
    ELSE IF d.owner # s.local \/ ~CanAcquireGate(d, t, s.user) THEN Outcome(d, Idle(s))
    ELSE LET g == AcquiredGate(d, t, s.user)
             p == [s EXCEPT !.owned = TRUE,
                            !.pending = IF g.resolution # None THEN g.resolution ELSE @]
         IN IF p.pending = None \/ p.pending.user = p.user THEN GateTaken(t, g, p)
            ELSE IF ~p.validated THEN Outcome(g, Revalidate(p))
            ELSE IF RestartAllowed(g, p)
            THEN GateTaken(t, Restarted(t, g, p).db, Restarted(t, g, p).tab)
            ELSE Outcome(g, Idle(p))

Prepared(t, d, s) ==
    LET b == [s EXCEPT !.blocked = TRUE]
    IN IF Paused(b) THEN Outcome(d, Idle(b))
       ELSE IF ~NeedsHandoff(b) THEN AcquirePreparationGate(t, d, b)
       ELSE IF b.validated /\ RestartAllowed(d, b)
       THEN AcquirePreparationGate(t, Restarted(t, d, b).db, Restarted(t, d, b).tab)
       ELSE Outcome(d, Revalidate(b))

Prepare(t) ==
    /\ tab[t].pc = "prepare"
    /\ Commit(t, Prepared(t, db, tab[t]))
    /\ UNCHANGED <<server, cookie, late, requests, faults, author>>
----------------------------------------------------------------------------
(* Opening a tab and asking for the session.                               *)

\* restoreLocalWorkspace
OpenTab(t) ==
    /\ ~Open(t)
    /\ LET acquired == CanAcquireGate(db, t, db.owner)
           d == IF acquired THEN AcquiredGate(db, t, db.owner) ELSE db
       IN Commit(t, Outcome(d, [ClosedTab EXCEPT !.pc = "start", !.user = db.owner,
                                                 !.local = db.owner, !.owned = acquired, !.pending = d.resolution,
                                                 !.binding = BindingOf(d)]))
    /\ UNCHANGED <<server, cookie, late, requests, faults, author>>

\* restoreSessionAndSync, from a timer, an event or the user
Resume(t) ==
    /\ tab[t].pc = "idle" /\ (~tab[t].validated \/ NeedsBootstrap(tab[t]))
    /\ Step(t, IF tab[t].validated THEN [tab[t] EXCEPT !.pc = "prepare"]
               ELSE [tab[t] EXCEPT !.pc = "session", !.binding = BindingOf(db)])
    /\ UNCHANGED <<db, server, cookie, late, requests, faults, author>>

\* loadSession, answered: validateSessionBinding, then the account
SessionAnswer(t) ==
    /\ tab[t].pc \in {"start", "session"} /\ tab[t].binding = BindingOf(db)
    /\ LET s == tab[t]
           known == [s EXCEPT !.user = cookie, !.validated = TRUE]
       IN Commit(t, IF Current(s) \notin {None, cookie}
                    THEN SwitchAccount(t, db, s, cookie, IF s.pc = "start" THEN "prepare" ELSE "idle")
                    ELSE Outcome(db, [known EXCEPT !.pc = IF s.pc = "start" \/ NeedsBootstrap(known)
                                                          THEN "prepare" ELSE "idle"]))
    /\ UNCHANGED <<server, cookie, late, requests, faults, author>>

\* activateCachedOwnerOffline
OfflineOwner(t, d, s) ==
    IF ~s.validated /\ s.local # None /\ s.owned /\ s.pending = None
       /\ d.owner = s.local /\ CanClearGate(d, t)
    THEN Outcome(ClearedGate(d), [Idle(s) EXCEPT !.user = s.local, !.blocked = FALSE, !.owned = FALSE])
    ELSE Outcome(d, Idle(s))

\* loadSession fails, or the database's owner or gate changed meanwhile
SessionFailed(t) ==
    /\ tab[t].pc \in {"start", "session"}
    /\ IF tab[t].binding = BindingOf(db) THEN Fault ELSE UNCHANGED faults
    /\ Commit(t, OfflineOwner(t, db, tab[t]))
    /\ UNCHANGED <<server, cookie, late, requests, author>>
----------------------------------------------------------------------------
(* The plan and the choice.                                                *)

(* bootstrap.workspacePlan of the shared Core (external), as mode and      *)
(* strategy: a profile without owner and without work, or of another       *)
(* owner, takes the account's state; one with work sends it, or asks when  *)
(* both sides have history.                                                *)
Plans(d, user) ==
    IF d.owner # None \/ d.queue = {} THEN {<<"auto", "keep_remote">>}
    ELSE {<<"auto", "merge">>, <<"auto", "replace_remote">>, <<"choose", "merge">>}

\* Mutant of Dialog: another account's work is replaced without a question.
DialogUnconfirmed(d, user, mode) == IF mode = "choose" THEN "choose" ELSE "none"

\* prepareBootstrapPlan: bootstrapOwnershipConfirmation when the profile has another owner
Dialog(d, user, mode) ==
    IF d.owner \notin {None, user} THEN "confirm"
    ELSE IF mode = "choose" THEN "choose" ELSE "none"

\* buildBootstrapPlan and prepareBootstrapPlan: a choice waits for the user, anything
\* else is captured at once
Planned(d, s) ==
    {LET dialog == Dialog(d, s.user, plan[1])
     IN [s EXCEPT !.plan = dialog, !.strategy = plan[2], !.asked = FALSE,
                  !.pc = IF dialog = "none" THEN "capture" ELSE "idle"] : plan \in Plans(d, s.user)}

\* loadBootstrapPreview, then the plan
Preview(t) ==
    /\ tab[t].pc = "preview"
    /\ LET s == [tab[t] EXCEPT !.preview = server[tab[t].user].revision]
       IN IF cookie # s.user \/ db.owner # s.local \/ GateOwner(db) \notin {None, s.user}
          THEN Commit(t, Outcome(db, Idle(tab[t])))
          ELSE IF db.owner = s.user THEN Commit(t, ResumedNormalSync(t, db, s))
          ELSE \E planned \in Planned(db, s) : Commit(t, Outcome(db, planned))
    /\ UNCHANGED <<server, cookie, late, requests, faults, author>>

\* chooseBootstrapStrategy, confirmed in the dialog
Choose(t) ==
    /\ tab[t].pc = "idle" /\ tab[t].plan # "none" /\ tab[t].pending = None /\ ~tab[t].error
    /\ \E strategy \in Strategy :
         /\ tab[t].plan = "confirm" => strategy = "keep_remote"
         /\ Step(t, [tab[t] EXCEPT !.strategy = strategy, !.asked = TRUE, !.pc = "capture"])
    /\ UNCHANGED <<db, server, cookie, late, requests, faults, author>>

\* Mutant of CaptureAllowed: a retry after a conflict replaces the request sent before.
CaptureReplacesSent(d, s) ==
    d.resolution = None \/ s.conflict \/ (s.pending # None /\ s.pending.user # s.user)

\* validateResolutionCapture, after the gate: a request that may have been delivered is
\* never replaced
CaptureAllowed(d, s) ==
    \/ d.resolution = None
    \/ /\ s.conflict \/ (s.pending # None /\ s.pending.user # s.user)
       /\ ~d.resolution.delivered

\* Mutant of Captured: the owner it was captured from is left out, as older clients did.
CapturedWithoutSource(t, d, s, id) ==
    [id |-> id, user |-> s.user, strategy |-> s.strategy, expected |-> s.preview,
     sent |-> IF s.strategy = "keep_remote" THEN {} ELSE d.queue,
     queued |-> d.queue, delivered |-> FALSE, token |-> t, asked |-> FALSE]

\* the user made this tab's choice: in its dialog, or in that of the request it retries
Asked(s) == s.asked \/ (s.pending # None /\ s.pending.asked)

\* createCapturedResolution
Captured(t, d, s, id) ==
    [id |-> id, user |-> s.user, strategy |-> s.strategy, expected |-> s.preview,
     sent |-> IF s.strategy = "keep_remote" THEN {} ELSE d.queue,
     queued |-> d.queue, source |-> d.owner, delivered |-> FALSE, token |-> t,
     asked |-> Asked(s)]

\* persistBootstrapResolution: the gate in one transaction, the capture in the next
Capture(t) ==
    /\ tab[t].pc = "capture"
    /\ LET s == tab[t]
           approved == s.plan = "confirm" => s.asked /\ s.strategy = "keep_remote"
           held == approved /\ db.owner = s.local /\ CanAcquireGate(db, t, s.user)
           d == IF held THEN AcquiredGate(db, t, s.user) ELSE db
       IN IF held /\ CaptureAllowed(d, s)
          THEN /\ requests < MaxRequests /\ requests' = requests + 1
               /\ LET pending == Captured(t, d, s, requests + 1)
                  IN Commit(t, Outcome([d EXCEPT !.resolution = pending],
                                       [s EXCEPT !.pending = pending, !.owned = TRUE,
                                                 !.conflict = FALSE, !.error = FALSE, !.pc = "submit"]))
          ELSE /\ Commit(t, Outcome(d, [Idle(s) EXCEPT !.error = s.conflict]))
               /\ UNCHANGED requests
    /\ UNCHANGED <<server, cookie, late, faults, author>>
----------------------------------------------------------------------------
(* Sending the saved request and installing its answer.                    *)

\* validateResolutionApply
ResolutionCurrent(d, pending) ==
    /\ d.owner = pending.source
    /\ GateOwner(d) \in {None, pending.user}
    /\ d.resolution = pending
    /\ d.gate # None /\ d.gate.token = pending.token

\* validatePendingForSend: possibly delivered from here on, its operations lose their proof
Claimed(t, d, s) ==
    [d EXCEPT !.resolution.delivered = TRUE,
              !.proof = Retired(@, s.pending.sent),
              !.gate = BoundLease(t, s.user)]

\* recoverInvalidBootstrapSubmission
Recovered(d, s) ==
    IF OwnResolution(d, s.user) = None THEN Revalidate(s)
    ELSE [s EXCEPT !.pending = d.resolution, !.owned = FALSE, !.pc = "prepare"]

\* submitBootstrapResolution up to the fetch
Submit(t) ==
    /\ tab[t].pc = "submit"
    /\ LET s == tab[t]
       IN Commit(t, IF s.pending.user # s.user THEN Outcome(db, Revalidate(s))
                    ELSE IF db.owner = s.local /\ ResolutionCurrent(db, s.pending)
                    THEN Outcome(Claimed(t, db, s),
                                 [s EXCEPT !.pending.delivered = TRUE, !.error = FALSE,
                                           !.pc = "posted", !.as = cookie])
                    ELSE Outcome(db, Recovered(db, s)))
    /\ UNCHANGED <<server, cookie, late, requests, faults, author>>

\* ResolveBootstrap of the server (AccountStore has the detail): a known request is
\* answered from its record, a new one only at the revision it expects
ResolvedServer(r) ==
    LET log == CASE r.strategy = "merge" -> server[r.user].log \cup r.sent
                 [] r.strategy = "replace_remote" -> r.sent
                 [] r.strategy = "keep_remote" -> server[r.user].log
        revision == server[r.user].revision + IF log = server[r.user].log THEN 0 ELSE 1
    IN [server EXCEPT ![r.user] = [revision |-> revision, log |-> log,
                                   resolved |-> [@.resolved EXCEPT ![r.id] = revision]]]

Replayed(r) == server[r.user].resolved[r.id] # None

Expected(r) == server[r.user].revision = r.expected

\* the server answers the account's own request
ServeResolution(t) ==
    /\ tab[t].pc = "posted" /\ tab[t].as = tab[t].user
    /\ LET s == tab[t]
           r == s.pending
       IN \/ /\ Replayed(r)
             /\ Step(t, [s EXCEPT !.pc = "answered", !.reply = server[r.user].resolved[r.id]])
             /\ UNCHANGED server
          \/ /\ ~Replayed(r) /\ Expected(r)
             /\ server' = ResolvedServer(r)
             /\ Step(t, [s EXCEPT !.pc = "answered", !.reply = server'[r.user].revision])
          \/ /\ ~Replayed(r) /\ ~Expected(r)
             /\ Step(t, [Idle(s) EXCEPT !.conflict = TRUE, !.error = TRUE])
             /\ UNCHANGED server
    /\ UNCHANGED <<db, cookie, late, requests, faults, author>>

\* the request left under another account's cookie: refused as another incarnation, or
\* the token is refused and refreshMutationCsrf finds the other account
ServeForeign(t) ==
    /\ tab[t].pc \in {"posted", "syncing"} /\ tab[t].as # tab[t].user
    /\ \/ Commit(t, Outcome(db, Revalidate(tab[t])))
       \/ /\ cookie # tab[t].user
          /\ Commit(t, SwitchAccount(t, db, tab[t], cookie, "idle"))
    /\ UNCHANGED <<server, cookie, late, requests, faults, author>>

\* staleResolutionOutcome: another tab already installed this or a newer answer
StaleSuccess(d, pending, revision) ==
    d.resolution = None /\ d.gate = None /\ d.owner = pending.user /\ d.revision >= revision

\* keepRemoteReconciliation and reconcileResolution: keep_remote discards what was
\* queued when it was captured
SettledBy(pending) == IF pending.strategy = "keep_remote" THEN pending.queued ELSE pending.sent

\* applyPendingResolution
Installed(d, pending, revision) ==
    [owner |-> pending.user, revision |-> revision, queue |-> d.queue \ SettledBy(pending),
     proof |-> (d.proof \cap d.queue) \ SettledBy(pending),
     outgoing |-> None, gate |-> None, resolution |-> None]

\* Mutant of ApplyResolution: the saved request and the gate are not compared again.
ApplyUnchecked(t) ==
    /\ tab[t].pc = "answered"
    /\ Commit(t, Outcome(IF StaleSuccess(db, tab[t].pending, tab[t].reply) THEN db
                         ELSE Installed(db, tab[t].pending, tab[t].reply), ResetBootstrap(tab[t])))
    /\ UNCHANGED <<server, cookie, late, requests, faults, author>>

\* acceptBootstrapResponse
ApplyResolution(t) ==
    /\ tab[t].pc = "answered"
    /\ LET s == tab[t]
       IN IF StaleSuccess(db, s.pending, s.reply) THEN Commit(t, Outcome(db, ResetBootstrap(s)))
          ELSE IF ~ResolutionCurrent(db, s.pending)
          THEN Commit(t, Outcome(db, [Idle(s) EXCEPT !.error = TRUE]))
          ELSE Commit(t, Outcome(Installed(db, s.pending, s.reply), ResetBootstrap(s)))
    /\ UNCHANGED <<server, cookie, late, requests, faults, author>>

\* retryBootstrapResolution: the exact request again, or after a conflict a new one
Retry(t) ==
    /\ tab[t].pc = "idle" /\ tab[t].error
    /\ LET s == tab[t]
       IN Step(t, IF ~s.conflict THEN [s EXCEPT !.pc = IF s.pending = None THEN "idle" ELSE "submit"]
                  ELSE IF cookie # s.user THEN s
                  ELSE [s EXCEPT !.preview = server[s.user].revision, !.pc = "capture",
                                 !.strategy = IF s.pending = None THEN @ ELSE s.pending.strategy])
    /\ UNCHANGED <<db, server, cookie, late, requests, faults, author>>
----------------------------------------------------------------------------
(* Edits and the sync round.                                               *)

\* issueWorkspaceIntent
Mutate(t) ==
    /\ tab[t].pc = "idle" /\ ~NeedsBootstrap(tab[t])
    /\ ContextError(db, tab[t].local) = "none"
    /\ \E o \in Op :
         /\ author[o] = "unmade"
         /\ db' = AppendPlan(db, o, {})
         /\ author' = [author EXCEPT ![o] = MadeBy(db.owner)]
    /\ UNCHANGED <<server, cookie, tab, late, requests, faults>>

\* syncNow: syncPreflight, claimWorkspaceBatch and the fetch
Sync(t) ==
    /\ tab[t].pc = "idle" /\ tab[t].validated /\ ~NeedsBootstrap(tab[t])
    /\ LET s == tab[t]
           error == ClaimError(db, s.local)
       IN \/ /\ Gated(db)
             /\ Commit(t, Outcome(db, BlockSync(db, s))) /\ UNCHANGED requests
          \/ /\ ~Gated(db) /\ error = "ownership"
             /\ Commit(t, Outcome(db, Revalidate(s))) /\ UNCHANGED requests
          \/ /\ ~Gated(db) /\ error = "none"
             /\ IF db.outgoing # None THEN UNCHANGED requests
                ELSE requests < MaxRequests /\ requests' = requests + 1
             /\ LET claim == IF db.outgoing # None THEN db.outgoing
                             ELSE NewClaim(requests + 1, db.queue, s.user)
                IN Commit(t, Outcome(FreshClaim(db, claim),
                                     [s EXCEPT !.pc = "syncing", !.claim = claim, !.as = cookie]))
    /\ UNCHANGED <<server, cookie, late, faults, author>>

ServeSync(t) ==
    /\ tab[t].pc = "syncing" /\ tab[t].as = tab[t].user
    /\ LET a == tab[t].user
           new == tab[t].claim.sent \ server[a].log
       IN /\ server' = [server EXCEPT ![a].log = @ \cup new,
                                      ![a].revision = @ + IF new = {} THEN 0 ELSE 1]
          /\ Step(t, [tab[t] EXCEPT !.pc = "synced", !.reply = server'[a].revision])
    /\ UNCHANGED <<db, cookie, late, requests, faults, author>>

ApplySync(t) ==
    /\ tab[t].pc = "synced"
    /\ LET s == tab[t]
           kind == ResponseKind(db, s.user, s.claim, s.reply)
       IN Commit(t, Outcome(IF kind = "apply" THEN AppliedResponse(db, s.claim, s.reply, {}) ELSE db,
                            IF kind = "ownership" THEN Revalidate(s) ELSE Idle(s)))
    /\ UNCHANGED <<server, cookie, late, requests, faults, author>>
----------------------------------------------------------------------------
(* The network and the world.                                              *)

Orphaned(t) ==
    IF tab[t].pc = "posted" /\ tab[t].as = tab[t].user
    THEN {late, late \cup {tab[t].pending}} ELSE {late}

\* the fetch rejects, with the request lost, travelling or served
LoseExchange(t) ==
    /\ tab[t].pc \in {"posted", "answered", "syncing", "synced"} /\ Fault
    /\ late' \in Orphaned(t)
    /\ Step(t, [Idle(tab[t]) EXCEPT !.error = tab[t].pc \in {"posted", "answered"}])
    /\ UNCHANGED <<db, server, cookie, requests, author>>

CloseTab(t) ==
    /\ Open(t) /\ Fault
    /\ late' \in Orphaned(t)
    /\ Step(t, ClosedTab)
    /\ UNCHANGED <<db, server, cookie, requests, author>>

LateArrival ==
    /\ \E r \in late :
         /\ late' = late \ {r}
         /\ server' = IF Replayed(r) \/ ~Expected(r) THEN server ELSE ResolvedServer(r)
    /\ UNCHANGED <<db, cookie, tab, requests, faults, author>>

OtherDevice ==
    /\ Fault
    /\ \E a \in Account : server' = [server EXCEPT ![a].revision = @ + 1]
    /\ UNCHANGED <<db, cookie, tab, late, requests, author>>

\* five minutes pass
ExpireLease ==
    /\ LeaseIsLive(db.gate) /\ Fault
    /\ db' = [db EXCEPT !.gate.live = FALSE]
    /\ UNCHANGED <<server, cookie, tab, late, requests, author>>

\* another account signs in, in a tab this model does not show
SwitchCookie ==
    /\ MishapLeft /\ faults.switches < MaxSwitches
    /\ faults' = [faults EXCEPT !.switches = @ + 1]
    /\ cookie' \in Account \ {cookie}
    /\ UNCHANGED <<db, server, tab, late, requests, author>>
----------------------------------------------------------------------------
TabStep(t) ==
    \/ OpenTab(t) \/ Resume(t) \/ SessionAnswer(t) \/ SessionFailed(t)
    \/ Prepare(t) \/ Preview(t) \/ Choose(t) \/ Capture(t) \/ Submit(t)
    \/ ServeResolution(t) \/ ServeForeign(t) \/ ApplyResolution(t) \/ Retry(t)
    \/ Mutate(t) \/ Sync(t) \/ ServeSync(t) \/ ApplySync(t)
    \/ LoseExchange(t) \/ CloseTab(t)

Next ==
    \/ \E t \in Tab : TabStep(t)
    \/ LateArrival \/ OtherDevice \/ ExpireLease \/ SwitchCookie

Spec == Init /\ [][Next]_vars

\* every await settles, and the user presses what the dialog offers
Progress(t) ==
    \/ Resume(t) \/ SessionAnswer(t) \/ Prepare(t) \/ Preview(t) \/ Choose(t) \/ Capture(t)
    \/ Submit(t) \/ ServeResolution(t) \/ ServeForeign(t) \/ ApplyResolution(t) \/ Retry(t)

FairSpec == Spec /\ \A t \in Tab : WF_vars(Progress(t)) /\ WF_vars(Retry(t))
----------------------------------------------------------------------------
(* The database, the saved history request and the tabs keep their shape:  *)
(* a request always says which owner's work it carries                     *)
(* (createCapturedResolution).                                             *)
TypeOK ==
    /\ db \in [owner : Owner, revision : Nat, queue : SUBSET Op, proof : SUBSET Op,
               outgoing : Claim \cup {None}, gate : Gate \cup {None},
               resolution : Resolution \cup {None}]
    /\ server \in [Account -> [revision : Nat, log : SUBSET Op,
                               resolved : [Request -> Nat \cup {None}]]]
    /\ cookie \in Account
    /\ tab \in [Tab -> TabState]
    /\ late \subseteq Resolution
    /\ requests \in 0 .. MaxRequests /\ faults \in Faults
    /\ author \in [Op -> Account \cup {"anonymous", "unmade"}]

\* History requests on their way to the server.
Underway == late \cup {tab[t].pending : t \in {u \in Tab : tab[u].pc = "posted"}}

(* Work made under one account enters another account's log only with a    *)
(* history request that the user chose in a dialog: no sync round and no   *)
(* automatic merge carries it there, whatever the cookie says while a      *)
(* request is on its way, whichever tab resolves the history and however   *)
(* late a request arrives (assertStorageContext, accountHeaders, Core's    *)
(* different_owner plan).  Which account the dialog was opened for is      *)
(* SwitchConfirmed's question.                                             *)
NoAutomaticCrossing ==
    [][ \A a \in Account : \A o \in server'[a].log \ server[a].log :
          \/ author[o] \in {"anonymous", a}
          \/ \E r \in Underway : r.user = a /\ o \in r.sent /\ r.asked ]_vars

(* "A different authenticated account never overwrites a previous local    *)
(* workspace before an explicit Switch and remove local data confirmation" *)
(* (docs/client-experience-contract.md:65): the owner of a workspace       *)
(* changes only with a request chosen in a dialog that removes the local   *)
(* data, which is all that the ownership confirmation offers               *)
(* (prepareBootstrapPlan, persistBootstrapResolution).                     *)
SwitchConfirmed ==
    [][ db.owner \notin {None, db'.owner} =>
          db.resolution # None /\ db.resolution.asked
             /\ db.resolution.strategy = "keep_remote" ]_vars

(* Queued work leaves the database only because the owner's account got    *)
(* it, or because the user confirmed to keep the account's state instead   *)
(* of it (chooseBootstrapStrategy, keepRemoteReconciliation).              *)
NothingDiscardedUnasked ==
    [][ \A o \in db.queue \ db'.queue :
          \/ o \in server[db'.owner].log
          \/ db.resolution # None /\ db.resolution.asked
             /\ db.resolution.strategy = "keep_remote" ]_vars

(* A history request that may have reached the server stays exactly as it  *)
(* was sent until its answer is installed or the session belongs to        *)
(* another account; only its gate token may change hands.                  *)
SentRequestKept ==
    [][ db.resolution # None /\ db.resolution.delivered =>
          \/ db'.resolution # None
             /\ db'.resolution = [db.resolution EXCEPT !.token = db'.resolution.token]
          \/ db'.resolution = None /\ db'.owner = db.resolution.user
             /\ server[db'.owner].resolved[db.resolution.id] # None
          \/ db'.resolution = None /\ db'.owner = db.owner
             /\ \E t \in Tab : /\ tab'[t] # tab[t] /\ tab'[t].validated
                              /\ tab'[t].user # db.resolution.user ]_vars

(* The stored snapshot of one owner never goes back, although a repeated   *)
(* history request is answered with the revision of its first answer.      *)
SnapshotNeverOlder ==
    [][ db'.owner = db.owner => db'.revision >= db.revision ]_vars

(* The retry the dialog offers after a revision conflict ("Retry with the  *)
(* latest snapshot", sendBootstrapResolution) gets the tab past it.        *)
ConflictSettles ==
    \A t \in Tab : tab[t].conflict ~> ~tab[t].conflict
=============================================================================
