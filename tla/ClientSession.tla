---------------------------- MODULE ClientSession ----------------------------
(***************************************************************************)
(* Sign-in, sign-out and account deletion in the web client                *)
(* (web/app-session.js, the cleanup half of web/app-storage.js, the        *)
(* startup of web/app.js).  A sign-out must hold although its request may  *)
(* be lost, its tab may close at any await and other tabs of the profile   *)
(* hold the same account: a marker in localStorage says that the account's *)
(* local data must go and its session must end, and every start of a tab   *)
(* works the marker off before it uses anything.  An account deletion      *)
(* leaves a record of its own, so that a lost answer is asked for again.   *)
(*                                                                         *)
(* The database is abstracted to its owner and to whether it holds unsent  *)
(* work; the gate (ClientBootstrap) does not stop a cleanup.  The server's *)
(* side of sessions and deletions is as much as the client sees of it;     *)
(* AccountLifecycle has the detail.                                        *)
(***************************************************************************)
EXTENDS Naturals, FiniteSets

CONSTANTS Tab,         \* tabs of the browser profile
          Account,     \* account incarnations of the server
          None,        \* absence
          MaxSignIns,  \* bound on sessions and on landing tokens
          MaxFaults    \* bound on lost messages, failed writes and closed tabs

ASSUME SessionAssumption ==
    None \notin Tab /\ None \notin Account /\ MaxSignIns \in Nat \ {0} /\ MaxFaults \in Nat

Owner == Account \cup {None}

Session == [id : 1 .. MaxSignIns, owner : Account]

Token == 0 .. MaxSignIns     \* 0 is no token

(* A deletion record in localStorage: the account, the session whose CSRF  *)
(* token it holds, and its stage.  legacy stands for a record of an older  *)
(* client, written without a stage.                                        *)
Attempt == [owner : Account, by : Session, stage : {"candidate", "issued", "legacy"}]

ASSUME RecordAssumption == None \notin Session /\ None \notin Attempt

VARIABLES db,       \* [owner, work]: IndexedDB, shared by the tabs
          marker,   \* account of the pending sign-out, or None     (localStorage)
          token,    \* landing token of the pending sign-out, or 0  (localStorage)
          attempt,  \* deletion record, or None                     (localStorage)
          cookie,   \* session of the browser's cookie, or None
          server,   \* [live, receipts, gone]: sessions, deletion receipts, deleted accounts
          tab,      \* the tabs' memory
          signins, tokens, faults,  \* sessions, landing tokens and faults so far
          intent    \* what the user asked for, see SignOutHolds and below

vars == <<db, marker, token, attempt, cookie, server, tab, signins, tokens, faults, intent>>

remote == <<cookie, server, signins>>

markers == <<marker, token, tokens>>

(***************************************************************************)
(* A tab.  pc:                                                             *)
(*   closed; boot (resumeStartup is next); idle; login (at the provider)   *)
(*   recover (deletion record asked for), erase (its cleanup is next)      *)
(*   me, known (GET /me under way, answered)                               *)
(*   landing (token spent, cleanup is next)                                *)
(*   revoke (a pending sign-out's revocation under way)                    *)
(*   signout, cleanup (logout's revocation under way, its cleanup is next) *)
(*   delete, wipe (DELETE under way, its cleanup is next)                  *)
(*   peer (cleanup for another tab's sign-out is next)                     *)
(* owner and local are state.user and localOwnerId; csrf the session whose *)
(* CSRF token is held; seen the marker and binding the database owner the  *)
(* running operation captured, record the deletion record; sent the cookie *)
(* a request left with, reply the session GET /me was answered for;        *)
(* recovery is logoutRecoveryRequired, redo logoutCleanupRetryRequired;    *)
(* starting tells initializeSession from restoreSessionAndSync.            *)
(***************************************************************************)
TabState == [pc : {"closed", "boot", "idle", "login", "recover", "erase", "me", "known",
                   "landing", "revoke", "signout", "cleanup", "delete", "wipe", "peer"},
             owner : Owner, local : Owner, csrf : Session \cup {None},
             seen : Owner, binding : Owner, sent : Session \cup {None}, reply : Session \cup {None},
             ready : BOOLEAN, validated : BOOLEAN, recovery : BOOLEAN, redo : BOOLEAN,
             durable : BOOLEAN, revoked : BOOLEAN, landing : Token, event : BOOLEAN,
             starting : BOOLEAN, record : Attempt \cup {None}]

ClosedTab == [pc |-> "closed", owner |-> None, local |-> None, csrf |-> None,
              seen |-> None, binding |-> None, sent |-> None, reply |-> None,
              ready |-> FALSE, validated |-> FALSE, recovery |-> FALSE, redo |-> FALSE,
              durable |-> TRUE, revoked |-> FALSE, landing |-> 0, event |-> FALSE,
              starting |-> FALSE, record |-> None]

\* a profile whose first session is signed in, new or used, perhaps with an old record
Init ==
    \E a \in Account :
      LET s == [id |-> 1, owner |-> a]
      IN /\ db \in [owner : {None, a}, work : {FALSE}]
         /\ marker = None /\ token = 0
         /\ attempt \in {None, [owner |-> a, by |-> s, stage |-> "legacy"]}
         /\ cookie = s
         /\ server = [live |-> {s}, receipts |-> {}, gone |-> {}]
         /\ tab = [t \in Tab |-> ClosedTab]
         /\ signins = 1 /\ tokens = 0 /\ faults = 0
         /\ intent = [left |-> {}, data |-> FALSE, asked |-> {}, deletion |-> {}]

Open(t) == tab[t].pc # "closed"

Step(t, s) == tab' = [tab EXCEPT ![t] = s]

Fault == faults < MaxFaults /\ faults' = faults + 1

\* an operation ended: nothing captured is kept
Idle(s) == [s EXCEPT !.pc = "idle", !.seen = None, !.binding = None, !.sent = None,
                     !.reply = None, !.revoked = FALSE, !.durable = TRUE, !.record = None,
                     !.starting = FALSE]

\* accountIdentity
Current(s) == IF s.owner # None THEN s.owner ELSE s.local
----------------------------------------------------------------------------
(* Cleanup of the local data.                                              *)

\* cleanupIdentity: the account whose data may go
Expected(s) ==
    IF s.seen # None THEN s.seen ELSE IF s.local # None THEN s.local ELSE s.owner

\* assertCleanupIdentity: the marker is as it was captured, the tab is of that account
CleanupAllowed(s) == marker = s.seen /\ {s.owner, s.local} \subseteq {None, Expected(s)}

\* Mutant of Erasable: whatever is stored goes.
ErasableByAnyone(d, s) == TRUE

\* clearAuthorizedLocalData: the database is the account's, or already empty
Erasable(d, s) ==
    \/ d.owner = Expected(s)
    \/ s.seen # None /\ d.owner = None /\ ~d.work

Empty == [owner |-> None, work |-> FALSE]

\* clearLocalData either empties the database or fails: for good, or this time
Erased(s) ==
    /\ CleanupAllowed(s) /\ Erasable(db, s)
    /\ db' = Empty
    /\ intent' = [intent EXCEPT !.data = FALSE]
    /\ UNCHANGED faults

EraseFailed(s) ==
    /\ IF CleanupAllowed(s) /\ Erasable(db, s) THEN Fault ELSE UNCHANGED faults
    /\ UNCHANGED <<db, intent>>

\* a page that is loaded and not being left
Listening(t) == tab[t].pc \notin {"closed", "login"}

\* markPendingLogout: an older landing token ends, the other tabs hear of a new marker.
\* A sign-out whose marker cannot be written is Logout's choice; a deletion ignores
\* that failure, and only its write that succeeds is here.
Mark(t, s) ==
    /\ marker' = Current(s) /\ token' = 0 /\ UNCHANGED tokens
    /\ tab' = [u \in Tab |-> IF u = t THEN [s EXCEPT !.seen = Current(s)]
                             ELSE [tab[u] EXCEPT !.event = @ \/ (marker = None /\ Listening(u))]]

\* pendingSignInToken: one token serves the marker until a landing spends it
SignInToken == IF token # 0 THEN token
               ELSE IF tokens < MaxSignIns THEN tokens + 1 ELSE 0

\* redirectToLogin: the page is left, with the marker m (clearPendingLogout if None).
\* Left out: it stays while a recovery is busy or the browser offline, until the next
\* start or press, and a marker that cannot be removed stays.
Redirect(t, m) ==
    LET carried == IF m = None THEN 0 ELSE SignInToken
    IN /\ marker' = m /\ token' = carried
       /\ tokens' = IF carried > tokens THEN carried ELSE tokens
       /\ Step(t, [ClosedTab EXCEPT !.pc = "login", !.landing = carried])
----------------------------------------------------------------------------
(* The server, as the client sees it.                                      *)

\* requireMutation for a request of account a with the CSRF token of session by
MutationStatus(sent, a, by) ==
    IF sent = None \/ sent \notin server.live THEN 401
    ELSE IF sent.owner # a THEN 409
    ELSE IF sent # by THEN 403 ELSE 204

\* requireAccountDeletion and handleAccountDeletionReceipt
DeletionStatus(sent, record) ==
    IF sent # None /\ sent \in server.receipts
    THEN IF sent = record.by THEN 204 ELSE 403
    ELSE IF record.stage = "legacy" THEN (IF sent = None THEN 401 ELSE 404)
    ELSE MutationStatus(sent, record.owner, record.by)

\* handleLogout
LoggedOut(sent, a, by) ==
    IF MutationStatus(sent, a, by) = 204 THEN [server EXCEPT !.live = @ \ {sent}] ELSE server

\* handleDeleteAccount: every session of the account ends with it
Deleted(sent, record) ==
    IF DeletionStatus(sent, record) = 204
    THEN [live |-> {s \in server.live : s.owner # sent.owner},
          receipts |-> server.receipts \cup {sent}, gone |-> server.gone \cup {sent.owner}]
    ELSE server

\* the statuses after which the client drops its deletion record
Final == {400, 401, 403}
----------------------------------------------------------------------------
(* Starting a tab and asking for the session.                              *)

\* Mutant of Recoverable: an unverified record counts too.
RecoverableUnverified(record, s) == record # None /\ Current(s) \in {None, record.owner}

\* pendingDeletionAttempt and recoverPendingDeletion: a candidate is inert
Recoverable(record, s) ==
    record # None /\ record.stage # "candidate" /\ Current(s) \in {None, record.owner}

\* loadSession: the deletion record first, then GET /me
LoadSession(d, s) ==
    [s EXCEPT !.seen = marker, !.binding = d.owner,
              !.pc = IF Recoverable(attempt, s) THEN "recover" ELSE "me",
              !.sent = IF Recoverable(attempt, s) THEN cookie ELSE None,
              !.record = IF Recoverable(attempt, s) THEN attempt ELSE None]

\* initializeStorage: the tab loads what is stored
Loaded(d, s) ==
    [s EXCEPT !.owner = d.owner, !.local = d.owner, !.ready = TRUE, !.starting = TRUE]

OpenTab(t) ==
    /\ ~Open(t)
    /\ Step(t, [ClosedTab EXCEPT !.pc = "boot"])
    /\ UNCHANGED <<db, attempt, remote, markers, faults, intent>>

\* resumeStorageAndSession: a pending sign-out's data goes before anything is loaded;
\* if it cannot go, nothing is loaded and only the session is asked for
Boot(t) ==
    /\ tab[t].pc = "boot"
    /\ LET s == [tab[t] EXCEPT !.seen = marker, !.starting = TRUE]
       IN \/ /\ marker = None
             /\ Step(t, LoadSession(db, Loaded(db, s)))
             /\ UNCHANGED <<db, faults, intent>>
          \/ /\ marker # None /\ Erased(s)
             /\ Step(t, LoadSession(Empty, Loaded(Empty, [s EXCEPT !.recovery = FALSE])))
          \/ /\ marker # None /\ EraseFailed(s)
             /\ Step(t, LoadSession(db, [s EXCEPT !.recovery = TRUE]))
    /\ UNCHANGED <<attempt, remote, markers>>

\* the online event, the retry timer or the recovery dialog's Retry
Resume(t) ==
    /\ tab[t].pc = "idle" /\ ~tab[t].redo
    /\ \/ /\ ~tab[t].ready \/ tab[t].recovery
          /\ Step(t, [tab[t] EXCEPT !.pc = "boot"])
       \/ /\ tab[t].ready /\ ~tab[t].recovery /\ ~tab[t].validated
          /\ Step(t, LoadSession(db, [tab[t] EXCEPT !.starting = FALSE]))
    /\ UNCHANGED <<db, attempt, remote, markers, faults, intent>>

ServeMe(t) ==
    /\ tab[t].pc = "me"
    /\ Step(t, [tab[t] EXCEPT !.pc = "known",
                              !.reply = IF cookie \in server.live THEN cookie ELSE None])
    /\ UNCHANGED <<db, attempt, remote, markers, faults, intent>>

\* the catch of initializeSession and of restoreSessionAndSync
Deferred(s) == Idle([s EXCEPT !.recovery = @ \/ (s.starting /\ marker # None)])

SessionFailed(t) ==
    /\ tab[t].pc = "me" /\ Fault
    /\ Step(t, Deferred(tab[t]))
    /\ UNCHANGED <<db, attempt, remote, markers, intent>>

\* fetchSessionPayload and validateSessionBinding: the marker or the owner changed
SessionStale(t) ==
    /\ tab[t].pc = "known"
    /\ \/ /\ marker # tab[t].seen
          /\ Step(t, Idle(tab[t]))
       \/ /\ marker = tab[t].seen /\ db.owner # tab[t].binding
          /\ Step(t, Deferred(tab[t]))
    /\ UNCHANGED <<db, attempt, remote, markers, faults, intent>>

Answered(t) == tab[t].pc = "known" /\ marker = tab[t].seen /\ db.owner = tab[t].binding

\* settlePendingLogoutLocally: the local data, then the marker; next leaves the page
Settle(t, next) ==
    \/ Erased(tab[t]) /\ next
    \/ /\ EraseFailed(tab[t])
       /\ Step(t, Idle([tab[t] EXCEPT !.recovery = TRUE]))
       /\ UNCHANGED markers

\* 401: the session is over, only the local data of a pending sign-out is left
Unauthorized(t) ==
    /\ Answered(t) /\ tab[t].reply = None
    /\ IF marker # None THEN Settle(t, Redirect(t, None))
       ELSE Redirect(t, None) /\ UNCHANGED <<db, faults, intent>>
    /\ UNCHANGED <<attempt, remote>>

\* applySessionPayload; another owner's data waits for the user (ClientBootstrap)
Authorized(t) ==
    /\ Answered(t) /\ tab[t].reply # None /\ marker = None
    /\ Step(t, Idle([tab[t] EXCEPT !.owner = tab[t].reply.owner, !.csrf = tab[t].reply,
                                   !.validated = TRUE]))
    /\ UNCHANGED <<db, attempt, remote, markers, faults, intent>>

Landed(s) == s.landing # 0 /\ s.landing = token

\* completedSignInLanding: the token is spent before the cleanup
SpendToken(t) ==
    /\ Answered(t) /\ tab[t].reply # None /\ marker # None /\ Landed(tab[t])
    /\ token' = 0
    /\ Step(t, [tab[t] EXCEPT !.pc = "landing"])
    /\ UNCHANGED <<db, attempt, remote, marker, tokens, faults, intent>>

\* finishSignInLanding: the page loads again without the token
FinishLanding(t) ==
    /\ tab[t].pc = "landing"
    /\ Settle(t, /\ marker' = None /\ token' = 0 /\ UNCHANGED tokens
                 /\ Step(t, [ClosedTab EXCEPT !.pc = "boot"]))
    /\ UNCHANGED <<attempt, remote>>

\* Mutant of FinishPendingLogout: the marker goes with the data, before the revocation.
FinishWithoutRevocation(t) ==
    /\ Answered(t) /\ tab[t].reply # None /\ marker # None /\ ~Landed(tab[t])
    /\ Erased(tab[t]) /\ Redirect(t, None)
    /\ UNCHANGED <<attempt, remote>>

\* finishPendingLogout: only a session of the signed-out account finishes its sign-out
FinishPendingLogout(t) ==
    /\ Answered(t) /\ tab[t].reply # None /\ marker # None /\ ~Landed(tab[t])
    /\ \/ /\ tab[t].reply.owner = marker /\ Erased(tab[t])
          /\ Step(t, [tab[t] EXCEPT !.pc = "revoke", !.sent = cookie])
       \/ /\ tab[t].reply.owner = marker /\ EraseFailed(tab[t])
          /\ Step(t, Deferred(tab[t]))
       \/ /\ tab[t].reply.owner # marker
          /\ Step(t, Deferred(tab[t]))
          /\ UNCHANGED <<db, faults, intent>>
    /\ UNCHANGED <<attempt, remote, markers>>

\* requestSessionRevocation: 401 says that the session is over already
Revoke(t) ==
    /\ tab[t].pc = "revoke"
    /\ LET s == tab[t]
           status == MutationStatus(s.sent, s.reply.owner, s.reply)
       IN /\ server' = LoggedOut(s.sent, s.reply.owner, s.reply)
          /\ cookie' = IF status = 204 THEN None ELSE cookie
          /\ IF status \in {204, 401} /\ marker = s.seen
             THEN Redirect(t, None)
             ELSE Step(t, Deferred(s)) /\ UNCHANGED markers
    /\ UNCHANGED <<db, attempt, signins, faults, intent>>

RevokeLost(t) ==
    /\ tab[t].pc = "revoke" /\ Fault
    /\ server' \in {server, LoggedOut(tab[t].sent, tab[t].reply.owner, tab[t].reply)}
    /\ Step(t, Deferred(tab[t]))
    /\ UNCHANGED <<db, attempt, cookie, signins, markers, intent>>
----------------------------------------------------------------------------
(* Signing in and out.                                                     *)

\* the provider sends the browser back: the replaced session ends, a new one starts
SignIn(t) ==
    /\ tab[t].pc = "login" /\ signins < MaxSignIns
    /\ \E a \in Account \ server.gone :
         LET s == [id |-> signins + 1, owner |-> a]
         IN /\ cookie' = s
            /\ server' = [server EXCEPT !.live = (@ \ {cookie}) \cup {s}]
    /\ signins' = signins + 1
    /\ Step(t, [tab[t] EXCEPT !.pc = "boot"])
    /\ UNCHANGED <<db, attempt, markers, faults, intent>>

\* the recovery dialog's Sign in
RecoverySignIn(t) ==
    /\ tab[t].pc = "idle" /\ tab[t].recovery
    /\ Redirect(t, marker)
    /\ UNCHANGED <<db, attempt, remote, faults, intent>>

\* no other tab still works on an earlier sign-out of this account
Undisturbed(t) ==
    marker = None /\ \A u \in Tab \ {t} : tab[u].seen # Current(tab[t])

(* logout, confirmed: intent records the session and the data that must go *)
(* (only the latest sign-out, and only if it was written down and no older *)
(* one of the account is still being worked off).                          *)
Logout(t) ==
    /\ tab[t].pc = "idle" /\ tab[t].ready /\ (tab[t].recovery => tab[t].redo)
    /\ Current(tab[t]) # None /\ db.owner = tab[t].local
    /\ LET a == Current(tab[t])
           s == [tab[t] EXCEPT !.recovery = TRUE, !.redo = FALSE, !.sent = cookie, !.seen = marker,
                               !.pc = IF tab[t].csrf = None THEN "cleanup" ELSE "signout"]
       IN \/ /\ Mark(t, [s EXCEPT !.durable = TRUE])
             /\ intent' = [intent EXCEPT
                              !.left = IF Undisturbed(t) THEN {c \in {cookie} \ {None} : c.owner = a}
                                       ELSE {},
                              !.data = Undisturbed(t) /\ db.owner = a, !.asked = @ \cup {a}]
             /\ UNCHANGED faults
          \/ /\ Fault /\ Step(t, [s EXCEPT !.durable = FALSE])
             /\ token' = 0 /\ UNCHANGED <<marker, tokens>>
             /\ intent' = [intent EXCEPT !.asked = @ \cup {a}]
    /\ UNCHANGED <<db, attempt, remote>>

\* requestSessionRevocation of logout, answered within ten seconds
SignedOut(t) ==
    /\ tab[t].pc = "signout"
    /\ LET s == tab[t]
           status == MutationStatus(s.sent, Current(s), s.csrf)
       IN /\ server' = LoggedOut(s.sent, Current(s), s.csrf)
          /\ cookie' = IF status = 204 THEN None ELSE cookie
          /\ Step(t, [s EXCEPT !.pc = "cleanup", !.revoked = status \in {204, 401}])
    /\ UNCHANGED <<db, attempt, signins, markers, faults, intent>>

\* settleDetachedRevocation gives up waiting; the request may have arrived
SignOutTimeout(t) ==
    /\ tab[t].pc = "signout" /\ Fault
    /\ server' \in {server, LoggedOut(tab[t].sent, Current(tab[t]), tab[t].csrf)}
    /\ Step(t, [tab[t] EXCEPT !.pc = "cleanup"])
    /\ UNCHANGED <<db, attempt, cookie, signins, markers, intent>>

\* completeAccountCleanup of logout: the marker only goes if the session is over
CompleteCleanup(t) ==
    /\ tab[t].pc = "cleanup"
    /\ LET s == tab[t]
       IN \/ /\ ~CleanupAllowed(s)
             /\ Step(t, Idle(s)) /\ UNCHANGED <<db, markers, faults, intent>>
          \/ /\ Erased(s)
             /\ Redirect(t, IF s.revoked THEN None ELSE marker)
          \/ /\ CleanupAllowed(s) /\ EraseFailed(s)
             /\ IF s.durable THEN Redirect(t, marker)
                ELSE Step(t, [Idle(s) EXCEPT !.redo = TRUE]) /\ UNCHANGED markers
    /\ UNCHANGED <<attempt, remote>>

\* the "storage" event: another tab wrote the marker; whatever runs here is cut off
PeerEvent(t) ==
    /\ tab[t].event
    /\ Step(t, [Idle(tab[t]) EXCEPT !.pc = "peer", !.seen = marker, !.event = FALSE])
    /\ UNCHANGED <<db, attempt, remote, markers, faults, intent>>

PeerCleanup(t) ==
    /\ tab[t].pc = "peer"
    /\ \/ Erased(tab[t]) /\ Redirect(t, marker)
       \/ /\ EraseFailed(tab[t])
          /\ IF marker = tab[t].seen THEN Redirect(t, marker)
             ELSE Step(t, Idle(tab[t])) /\ UNCHANGED markers
    /\ UNCHANGED <<attempt, remote>>
----------------------------------------------------------------------------
(* Deleting the account.                                                   *)

\* Mutant of Deletable: also before the session's CSRF token is known.
DeletableUnverified(s) == s.pc = "idle" /\ s.ready /\ ~s.recovery /\ Current(s) # None

\* the button's guard: a session of the account that this tab has seen
Deletable(s) == s.pc = "idle" /\ s.ready /\ ~s.recovery /\ Current(s) # None /\ s.csrf # None

\* confirmDeleteAccount and writePendingDeletionAttempt: the request only leaves after
\* the record was written, read back and promoted
ConfirmDelete(t) ==
    /\ Deletable(tab[t]) /\ db.owner = tab[t].local
    /\ LET a == Current(tab[t])
           record == [owner |-> a, by |-> tab[t].csrf, stage |-> "issued"]
       IN \/ /\ attempt' = record
             /\ Step(t, [tab[t] EXCEPT !.pc = "delete", !.seen = marker, !.sent = cookie,
                                       !.record = record])
             /\ intent' = [intent EXCEPT !.asked = @ \cup {a}, !.deletion = @ \cup {a}]
             /\ UNCHANGED faults
          \/ /\ Fault
             /\ attempt' \in {attempt, [record EXCEPT !.stage = "candidate"]}
             /\ UNCHANGED <<tab, intent>>
    /\ UNCHANGED <<db, remote, markers>>

\* requestAccountDeletion, answered
DeleteAnswered(t) ==
    /\ tab[t].pc = "delete"
    /\ LET s == tab[t]
           status == DeletionStatus(s.sent, s.record)
       IN /\ server' = Deleted(s.sent, s.record)
          /\ cookie' = IF status = 204 THEN None ELSE cookie
          /\ \/ /\ status = 204 /\ marker = s.seen
                /\ Mark(t, [s EXCEPT !.pc = "wipe"])
                /\ intent' = [intent EXCEPT !.data = Undisturbed(t) /\ db.owner = Current(s)]
                /\ UNCHANGED attempt
             \/ /\ status # 204 \/ marker # s.seen
                /\ attempt' = IF status \in Final /\ marker = s.seen THEN None ELSE attempt
                /\ Step(t, Idle(s))
                /\ UNCHANGED <<markers, intent>>
    /\ UNCHANGED <<db, signins, faults>>

DeleteLost(t) ==
    /\ tab[t].pc = "delete" /\ Fault
    /\ server' \in {server, Deleted(tab[t].sent, tab[t].record)}
    /\ Step(t, Idle(tab[t]))
    /\ UNCHANGED <<db, attempt, cookie, signins, markers, intent>>

\* completeAccountCleanup of confirmDeleteAccount
CompleteDeletion(t) ==
    /\ tab[t].pc = "wipe"
    /\ \/ /\ Erased(tab[t])
          /\ Redirect(t, None)
       \/ /\ EraseFailed(tab[t])
          /\ IF marker = tab[t].seen THEN Redirect(t, marker)
             ELSE Step(t, Idle(tab[t])) /\ UNCHANGED markers
    /\ attempt' = IF marker' = None THEN None ELSE attempt
    /\ UNCHANGED remote

\* recoverPendingDeletion, answered
RecoverAnswered(t) ==
    /\ tab[t].pc = "recover"
    /\ LET s == tab[t]
           status == DeletionStatus(s.sent, s.record)
           current == marker = s.seen /\ attempt = s.record
           session == [s EXCEPT !.pc = "me", !.sent = None, !.record = None]
       IN /\ server' = Deleted(s.sent, s.record)
          /\ cookie' = IF status = 204 THEN None ELSE cookie
          /\ \/ /\ current /\ status = 204 /\ Current(s) = s.record.owner
                /\ Mark(t, [s EXCEPT !.pc = "erase"])
                /\ intent' = [intent EXCEPT !.data = Undisturbed(t) /\ db.owner = Current(s)]
                /\ UNCHANGED attempt
             \/ /\ current /\ ~(status = 204 /\ Current(s) = s.record.owner)
                /\ attempt' = IF status \in Final THEN None ELSE attempt
                /\ Step(t, session)
                /\ UNCHANGED <<markers, intent>>
             \/ /\ ~current
                /\ Step(t, Idle(s))
                /\ UNCHANGED <<attempt, markers, intent>>
    /\ UNCHANGED <<db, signins, faults>>

RecoverLost(t) ==
    /\ tab[t].pc = "recover" /\ Fault
    /\ server' \in {server, Deleted(tab[t].sent, tab[t].record)}
    /\ Step(t, IF marker = tab[t].seen /\ attempt = tab[t].record
               THEN [tab[t] EXCEPT !.pc = "me", !.sent = None, !.record = None]
               ELSE Idle(tab[t]))
    /\ UNCHANGED <<db, attempt, cookie, signins, markers, intent>>

\* completeDeletionRecovery
CompleteRecovery(t) ==
    /\ tab[t].pc = "erase"
    /\ LET s == tab[t]
           allowed == attempt = s.record /\ CleanupAllowed(s) /\ Erasable(db, s)
       IN \/ /\ allowed /\ Erased(s)
             /\ Redirect(t, None) /\ attempt' = None
          \/ /\ allowed /\ EraseFailed(s)
             /\ Redirect(t, marker) /\ UNCHANGED attempt
          \/ /\ ~allowed
             /\ Step(t, Idle(s))
             /\ UNCHANGED <<db, attempt, markers, faults, intent>>
    /\ UNCHANGED remote
----------------------------------------------------------------------------
(* The workspace, as much as matters here, and the world.                  *)

Working(t) == tab[t].pc = "idle" /\ tab[t].ready /\ ~tab[t].recovery /\ db.owner = tab[t].local

\* an edit of the tab's account
Edit(t) ==
    /\ Working(t) /\ tab[t].local # None /\ tab[t].local = Current(tab[t])
    /\ db' = [db EXCEPT !.work = TRUE]
    /\ UNCHANGED <<attempt, remote, markers, tab, faults, intent>>

\* a sync round, or the bootstrap that gives the profile to the signed-in account
Exchange(t) ==
    /\ Working(t) /\ tab[t].validated
    /\ cookie \in server.live /\ cookie.owner = tab[t].owner
    /\ db' = [owner |-> tab[t].owner, work |-> FALSE]
    /\ Step(t, [tab[t] EXCEPT !.local = tab[t].owner])
    /\ intent' = [intent EXCEPT !.data = @ /\ tab[t].local = tab[t].owner]
    /\ UNCHANGED <<attempt, remote, markers, faults>>

CloseTab(t) ==
    /\ Open(t) /\ Fault
    /\ Step(t, ClosedTab)
    /\ UNCHANGED <<db, attempt, remote, markers, intent>>

\* the session runs out or is revoked elsewhere
SessionEnds ==
    /\ Fault
    /\ \E s \in server.live : server' = [server EXCEPT !.live = @ \ {s}]
    /\ UNCHANGED <<db, attempt, cookie, signins, markers, tab, intent>>
----------------------------------------------------------------------------
TabStep(t) ==
    \/ OpenTab(t) \/ Boot(t) \/ Resume(t) \/ ServeMe(t) \/ SessionFailed(t) \/ SessionStale(t)
    \/ Unauthorized(t) \/ Authorized(t) \/ SpendToken(t) \/ FinishLanding(t)
    \/ FinishPendingLogout(t) \/ Revoke(t) \/ RevokeLost(t)
    \/ SignIn(t) \/ RecoverySignIn(t)
    \/ Logout(t) \/ SignedOut(t) \/ SignOutTimeout(t) \/ CompleteCleanup(t)
    \/ PeerEvent(t) \/ PeerCleanup(t)
    \/ ConfirmDelete(t) \/ DeleteAnswered(t) \/ DeleteLost(t) \/ CompleteDeletion(t)
    \/ RecoverAnswered(t) \/ RecoverLost(t) \/ CompleteRecovery(t)
    \/ Edit(t) \/ Exchange(t) \/ CloseTab(t)

Next == (\E t \in Tab : TabStep(t)) \/ SessionEnds

Spec == Init /\ [][Next]_vars
----------------------------------------------------------------------------
(* Markers, records, sessions and tabs keep their shape: a deletion record *)
(* always names the session whose token it holds (confirmDeleteAccount).   *)
TypeOK ==
    /\ db \in [owner : Owner, work : BOOLEAN]
    /\ marker \in Owner /\ token \in Token /\ attempt \in Attempt \cup {None}
    /\ cookie \in Session \cup {None}
    /\ server \in [live : SUBSET Session, receipts : SUBSET Session, gone : SUBSET Account]
    /\ tab \in [Tab -> TabState]
    /\ signins \in 1 .. MaxSignIns /\ tokens \in Token /\ faults \in 0 .. MaxFaults
    /\ intent \in [left : SUBSET Session, data : BOOLEAN, asked : SUBSET Account,
                    deletion : SUBSET Account]

(* A sign-out that was written down holds, wherever its tab stops and      *)
(* whatever its request meets: as long as the data it was to remove is     *)
(* still stored, or the browser still holds the session it was to end and  *)
(* the server accepts it, the marker is there for the next start to finish *)
(* it (finishPendingLogout, settlePendingLogoutLocally,                    *)
(* completeAccountCleanup).                                                *)
SignOutHolds ==
    /\ intent.data => marker = db.owner
    /\ cookie \in intent.left \cap server.live => marker = cookie.owner

(* An account is only deleted if the user was told that it will be: when   *)
(* the record cannot be written, read back and promoted, the client says   *)
(* "Account was not deleted because recovery information could not be      *)
(* saved", and no half-written record deletes it through any number of     *)
(* restarts (writePendingDeletionAttempt, pendingDeletionAttempt).         *)
RefusedDeletionHolds == server.gone \subseteq intent.deletion

(* A tab handles the notice of a sign-out that is already over: it then    *)
(* clears whatever account it is at, without a marker to check.            *)
LateNotice(t) == tab[t].pc = "peer" /\ tab[t].seen = None /\ tab'[t].pc = "login"

(* "A different account cannot clear it": no cleanup, whichever start,     *)
(* retry, landing or record began it and whatever was signed in since,     *)
(* removes the data of an account that the user neither signed out of nor  *)
(* deleted (clearAuthorizedLocalData, assertCleanupIdentity); the one      *)
(* exception is a late notice.                                             *)
OtherAccountKept ==
    [][ db.owner # None /\ db'.owner = None
        => db.owner \in intent.asked \/ \E t \in Tab : LateNotice(t) ]_vars
=============================================================================
