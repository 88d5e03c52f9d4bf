# Pomodorough server: a TLA+ verification project

Pomodorough synchronizes a Pomodoro timer between devices. The server is a Go
program: one SQLite database per account holds an immutable log of operations,
a shared reducer (Rust, compiled to WebAssembly) turns the log into the
canonical timer, history, tasks and settings, and clients exchange batches of
operations for snapshots. The repository also holds the web client: JavaScript
in one or more tabs of a browser profile, over one IndexedDB database.

This directory models the parts whose correctness depends on the order in which
requests, crashes and retries happen, on both sides. TLC checks the modules on
small instances; TLAPS proves the safety of the operation log, the account
lifecycle, the revision streams, the sign-in challenges, the client's sync
engine, its bootstrap and its session for every instance.

## 1. The system

| Part | State | Operations | What is hard |
| --- | --- | --- | --- |
| Account operation log (`store/sync.go`, `store/bootstrap.go`, handlers of `server/api.go`) | five operation tables, devices, timer projection, revision, stored resolutions | sync, bootstrap, history, bootstrap resolution | concurrent devices, lost replies and retries, batches that collide with the log or themselves, deadlines that time alone passes, times read before the lock, compare-and-swap of replacements |
| Account lifecycle and deletion ledger (`store/database.go`, `deletion_ledger.go`, `deletion_receipt.go`, `account_generation.go`, `readiness.go`) | the database file and its generation; tombstone, lifecycle record, receipts | sign in, open, authenticate, use, delete, confirm, start up | crashes between files, restored backups, retried DELETE, recreation, files removed while others hold them |
| Revision hub and streams (`server/hub.go`, `stream.go`, `rate_limit.go`) | subscriptions, one-slot channels, latest revision per generation, active streams | subscribe, publish, disconnect, shut down, serve | publications out of order, lost hints, closed channels, limiter leaks, revocation while a stream opens |
| Sessions and tokens (`store/auth.go`, `server/auth.go`, `server/server.go`) | sessions, access, refresh and web tokens, devices | create, authenticate, rotate, revoke session or device, replace CSRF | reuse of a refresh token, rotation against revocation, expiry |
| Native challenges (`store/auth.go`, `native_challenge_schema.go`) | registry, process-local spent map, receipts in accounts | issue, consume | single use over a crash, a restart, two accounts |
| Window rate limiter (`server/rate_limit.go`) | entries per key | allow, prune | window edges, clock steps, full table |
| Hybrid logical clock (`server/hlc_tick.go`) | none | tick | overflow, monotonicity |
| Shared core bridge (`store/sharedcore_*.go`, `timer_replay.go`, `internal/sharedcore`) | module pool | reduce, replay by pages, validate | equality of paged and whole replay, cancellation |
| Web client sync engine (`web/sync-storage.js`, `app-sync.js`, `app-storage.js`, `workspace-*.js`) | IndexedDB: snapshot, queues, delivery proof, outgoing claim, gate; each tab's timer and flags | edit, claim, send, apply, discard, poll, retry | several tabs on one database, closed tabs, lost and late answers, one claim sent twice, a gate held across the network |
| Web client bootstrap (`web/app-bootstrap.js`) | gate lease, saved history request; each tab's preview, plan and choice | open, prepare, preview, choose, capture, submit, apply, retry, switch account | expiry of the lease, a request that may or may not have arrived, another account's cookie, another tab's resolution |
| Web client session (`web/app-session.js`, `account-operation.js`, cleanup of `app-storage.js`, startup of `app.js`) | sign-out marker, landing token and deletion record in localStorage; cookie | start, sign in, sign out, delete, recover | a crash between marker, revocation and cleanup; answers of a former account; peer tabs |
| Web client service worker (`web/sw.js`) | caches | install, activate, fetch | mixed versions |

Interactions. Every request is authenticated by `authenticateCredential`, which
opens the account database **without** the account lock. Operations then run in
`withAccountGeneration`: take `LockUser`, open the account, compare the
generation the request authenticated for with the current one, run one SQLite
transaction. When the transaction has committed and the lock is released, the
handler calls the hub: `publish` after a change, `disconnectSession`,
`disconnectDevice` or `disconnect` after a revocation or a deletion. Streams
read from the hub and, once, from the store. The lifecycle modules and the log
share the database file and the lock; the log and the hub share the revision.

On the client, tabs share the database, localStorage and the cookie, and tell
each other only through `storage` events. Every change of the database is one
IndexedDB transaction that reads the context again (owner, gate, saved request,
claim) before it writes, so what a tab captured before an `await` is checked
where it is used. A tab that opens takes the gate, asks for its session, and
then either resumes normal sync (the profile already belongs to the account)
or resolves the history: preview, plan, perhaps a question, a captured request,
its submission and its installation. Sign-out and deletion write a marker or a
record first, ask the server, clear the database, and drop the marker last.

What makes the parts correct. The log: identifiers and sequences unique, a
revision names one snapshot, acknowledgements say what happened, a resolution
takes effect once, a replacement drops only what its client saw. The lifecycle:
a deleted generation is never used, a confirmation lasts, recreation is safe,
the ledger is consistent wherever a request stops. The hub: no hint is lost, no
closed channel is used, streams of deleted accounts and revoked sessions end.
The client: an edit is never lost, delivery proof is never wrong, a workspace
changes its account only by a confirmed switch and is never discarded unasked,
the snapshot never moves back, a sign-out holds until it is carried out, a cleanup removes only
what the user gave up, and what the user edits is delivered in the end.

## 2. Modules

| Module | Models | Extends or instantiates |
| --- | --- | --- |
| `AccountLog` | what the log promises: grows, is replaced only by a decided resolution, revision counts changes | |
| `AccountStore` | the operation log as the handlers drive it | instantiates `AccountLog` for the refinement |
| `MCAccountStore` | two devices, five operations, a reducer with one deadline | `AccountStore` |
| `AccountStoreProofs` | the theorems | `AccountStore`, `TLAPS` |
| `AccountLifecycle`, `MCAccountLifecycle` | one account through its generations | |
| `AccountLifecycleProofs` | the theorems | `AccountLifecycle`, `TLAPS` |
| `RevisionStream`, `MCRevisionStream` | hub, streams, limiter, the handlers' calls after commit | |
| `RevisionStreamProofs` | the theorems | `RevisionStream`, `TLAPS`, `FiniteSetTheorems` |
| `NativeChallenge`, `MCNativeChallenge` | native sign-in challenges over registry, spent map and accounts | |
| `NativeChallengeProofs` | the theorems | `NativeChallenge`, `TLAPS` |
| `ClientStorage` | the client's database: what each transaction decides and writes | |
| `ClientSync`, `MCClientSync` | tabs of one profile deliver its queue to one account | `ClientStorage` |
| `ClientSyncProofs` | the theorems | `ClientSync`, `TLAPS` |
| `ClientBootstrap`, `MCClientBootstrap` | tabs of one profile and two accounts resolve whose history it holds | `ClientStorage` |
| `ClientBootstrapProofs` | the theorems | `ClientBootstrap`, `TLAPS` |
| `ClientSession`, `MCClientSession` | sign-in, sign-out, deletion and their recovery | |
| `ClientSessionProofs` | the theorems | `ClientSession`, `TLAPS` |

### AccountStore

A call occupies a slot from the time its handler reads the clock
(`ReceiveSync`, `ReceiveRead`, `ReceiveResolve`) to the time its reply is
written or lost (`Finish`). `at` is the time read before the lock. One commit
is one action: `Sync` is `syncLocked`, `Materialize` is
`materializeProjectionLocked` (bootstrap, history, stream opening), `Resolve`
is `applyBootstrapStrategy`, `persistBootstrapApplication` and
`recordBootstrapResponse` in their one transaction; refusals (`SyncInvalid`,
`ResolveInvalid`, `ResolveReplay` on a changed payload,
`ResolveRevisionConflict`, exhausted revisions) change nothing. `Abort` is a
request that is cancelled, fails or dies with the process before its commit:
SQLite rolls back, so no other crash is visible to the log.

`Verdict` is what `applyOperations` decides for one operation. The code inserts
one row after another; `SequenceClaimed` gives the effect of the rows inserted
earlier in the batch, without recursion. Identifiers cannot repeat within a
batch (`validateUniqueOperationIDs`), so only device sequences can collide
there.

Data. An operation is a record with its table, identifier and sequence; the
payload is the record itself, so a payload comparison is equality. The four
projections other than the timer's are functions of the log, so a snapshot is
the log and the timer projection. The server time, the clock values and the
reducer's own outcomes in a response are not modelled. `Reduce` is a constant:
the reducer is not in the repository. What is assumed of it
(`ReduceAssumption`): without commands nothing is projected, and whether
anything is projected does not depend on the time. `snapshots` is a history
variable.

### AccountLifecycle

One action per durable write or unlocked step. `file` is the database at the
account's path with its generation and its sessions; `tomb`, `life` and
`receipt` are the ledger's files. A published ledger record is durable
(temporary file, fsync, rename, directory fsync), so a crash loses no record
and leaves none half-written. `linked` says whether a worker's handle is on
the file at the path or on one that was unlinked since; an unlinked database
stays readable and writable to its handle. Signing in is `SignIn` to
`CreateSession`, authentication is `Arrive` to `Authenticate`, use is
`BeginUse` to `EndUse` or `Revoke`, deletion is `BeginDelete` to
`FinishDelete`, the read-only confirmation is `LookupReceipt` and
`ConfirmReceipt`. `Give` is any failure, refusal or cancellation between two
steps. `Restore` puts an older database back while the server is stopped; the
ledger is never rolled back, as the operations manual demands. `Start` is the
inventory check and `applyDeletionObligations`.

Abstractions: the database, its write-ahead log and its shared memory file are
removed together; `deletedGeneration` reads tombstone, lifecycle record and
database in one step; a session is its credential.

### RevisionStream

A handler that has committed owes the hub a call: a member of `todo`, in no
order and with the process free to restart before it. A DELETE has three
outcomes: it goes through (`DeleteAccount`) and owes its disconnection; it fails
behind the tombstone (`DeleteUnfinished`), because the purge runs under the
request's context, and then `handleDeleteAccount` returns its error and calls
nothing; or it is repeated with its receipt (`ConfirmDeletion`), also after the
account was recreated, and owes the disconnection then. `erased` is a history
variable: the generations whose DELETE went through. `stream` holds each
stream request with its subscription and its channel. The hub's operations are
atomic (its mutex). `ReadRevision` is the one read from the store, which
re-checks the generation and, as the code does, not the session; it may itself
materialize a deadline and then publishes (`AnnounceOwn`). Keepalives write
nothing that matters here and are left out; a failed one is a `Break`. Device
and session disconnection are one action: they differ in the set of sessions.
A sync or a logout whose transaction has committed but whose database handle
fails to close answers with an error and calls nothing; this failure is left out.
The sessions of the model are those that open streams: a DELETE may be of another
one.

### NativeChallenge

A challenge is one digest of the one domain the server uses. `registry` is the
table of issuances, each with the epoch of the process that made it; `spent`
is the process-local map; `receipts` are the rows that accounts keep of the
challenges they used. An exchange goes through `Receive` (open the seal, ask
the provider), `LockAccount` (lock, open, read the clock), `LoadIssuance` or
`RefuseUnissued` (take the registry's write lock, load, look into the spent
map, which forgets what has expired), `ReadReceipts` (every account, without
their locks), `CommitAccount` (receipt, profile, session, tokens in one
transaction) and `RememberSpent`. `Fail` is every other end before the commit.
A deletion takes the account's receipts away (`DeleteUser`); a `Restart` at any
point loses the map, draws a new epoch and finds the files it left or an older
copy of them. `issuedBy`, `uses` and `wiped` are history variables.

Abstractions: digests do not collide; a session is counted, its tokens are not
modelled; a scan of the accounts is one step (uses are excluded by the
registry's lock, and a deletion during the scan is as one before it).

### ClientStorage

A database is a record: owner and revision of the stored snapshot, the queue
(five object stores, one set), the proof (operations known never to have been
sent), the outgoing claim, the gate and the saved history request. The
operators are the transactions of `sync-storage.js`: `ContextError` is
`assertWorkspaceContext`, `AppendPlan` the write of an edit, `FreshClaim` and
`ClaimError` are `claimWorkspaceBatch`, `ResponseKind` and `AppliedResponse` are
`planSyncResponse` and `persistSyncResponsePlan`, the rest is the gate. An
operation is its identity. What the shared Core decides about operations that
were never sent (which ones a new edit replaces, which ones an answer makes
void) is a choice over every set it may pick.

### ClientSync

One profile, one account, several tabs. A tab has one asynchronous activity at
a time (`pc`), its one `retryTimer`, the `syncAgain` flag, and its memory of
gate and session. `Mutate` is an edit with its `launchSync`; `FireTimer`,
`Poll`, `Wake`, `OnlineEvent` start a round; `TakeClaim`, `Serve`, `Apply` are
the round; `LoseExchange` ends it with the request lost, travelling (`late`,
`LateArrival`) or served; `OpenTab`, `SessionKnown`, `SessionFailed`, `Prepare`
are the opening of a tab; `ArmRecovery`, `CancelRecovery`, `DiscardClaim` the
way out of a claim that an older client stored without its bytes. `Finish`,
`Fail`, `Succeed` are the tails every round shares. The server is what
`AccountStore` promises: a request stores what is new and advances the revision
by one. `issued` and `gone` are history variables.

Abstractions: a tab that stops between claiming and sending is one whose
request is lost; of the batch plans that send nothing only the claim without
bytes is modelled, and not Core's `oversized_saved` and `blocked_dependency`,
so `EditsDelivered` speaks of queues that Core can plan; a second session request
of a tab, which voids the answer to its first one (`sessionRequestSequence`), is
left out, since it gets the same answer; taking and releasing the gate in
`Prepare` is one step, since only local storage is awaited between the two;
polls that would exchange nothing are left out.

### ClientBootstrap

Two accounts, a profile that belongs to one of them or to nobody, a cookie that
another tab may change (`SwitchCookie`). `OpenTab`, `SessionAnswer`,
`SessionFailed`, `Resume` are the session as far as the bootstrap depends on
it; `Prepare` is `prepareBootstrapOnce` up to its first request, with
`SwitchAccount` and `Restarted` for a profile or a request of another account;
`Preview`, `Choose`, `Capture`, `Submit`, `ServeResolution` or `ServeForeign`,
`ApplyResolution`, `Retry` are the resolution; `Mutate`, `Sync`, `ServeSync`,
`ApplySync` the edits and rounds of other tabs meanwhile. A captured request
records strategy, expected revision, what it sends, the owner it was captured
from, and whether it may have been delivered. The server's side is the stored
response (`Replayed`), the revision check (`Expected`) and the effect
(`ResolvedServer`). `author` remembers under which account an operation was
made; `asked` whether the user confirmed.

The plan itself comes from the shared Core and is a choice among the plans it
can make for the profile (`Plans`).

### ClientSession

Two accounts, sessions numbered as they are made, two tabs. `marker`, `token`
and `attempt` are the three localStorage records: pending sign-out, landing
token, deletion record. `Boot` is the order of a start (deletion record first,
then the session), `Unauthorized`, `Authorized` and `FinishPendingLogout` what
an answered `/me` leads to while a sign-out is pending, `SpendToken` and
`FinishLanding` the landing after a sign-in that was a recovery, `Logout` to
`CompleteCleanup` the sign-out, `PeerEvent` and `PeerCleanup` its echo in other
tabs, `ConfirmDelete` to `CompleteDeletion` the deletion and `RecoverAnswered`
to `CompleteRecovery` its recovery. Each removal of data checks marker, tab and
database again (`CleanupAllowed`, `Erasable`). `intent` remembers what the user
asked for.

Abstractions: the database is its owner and whether it holds work; the gate
does not stop a cleanup and is left out; a revocation that arrives after its
ten seconds carries its own cookie and does no harm, so it is dropped. A marker
that cannot be written is modelled for a sign-out, not for a deletion, which goes
on without it and keeps its deletion record; a marker that cannot be removed
(`clearPendingLogout` ignores this) is left out; so is `redirectToLogin` staying
on the page while a recovery is busy or the browser offline, which delays the
redirect to the next start or press.

## 3. Runs

| Run | Shows | Bounds |
| --- | --- | --- |
| `account_store` | `TypeOK`, `IdentitiesUnique`, `RevisionNamesSnapshot`, `AcknowledgementsTruthful`, `ResolutionReplayed`, `ProjectionOfLog`, `NothingUnseenReplaced`, refinement `ImplementsLog` | 2 calls at once, 2 devices, 5 operations, 3 revisions, 2 instants, 1 request identifier with 5 proposals |
| `account_lifecycle` | `TypeOK`, `DeletedNeverUsed`, `ConfirmationDurable`, `SessionsOfGeneration`, `InventoryValid` | 2 requests at once, 3 credentials, 2 generations |
| `recreated_untouched` | finding, below | as above |
| `revision_stream` | `TypeOK`, `HintUnderway`, `ListedOpen`, `LimiterExact`, `StreamsCatchUp`, `ConfirmedDeletionEndsStreams` | 2 streams, 1 session per generation, 2 generations, 2 revisions of the first, 1 handler between commit and call, limit 2 |
| `access_ends_streams` | finding, below | 2 streams, limit 1, 1 generation, 2 revisions, 2 handlers between commit and call |
| `native_challenge` | `TypeOK`, `OneReceipt`, `UsedOnceUnlessDeleted`, `SpentMeansUsed`, `UnusedStaysIssued` | 2 challenges, 2 accounts, 2 exchanges, lifetime 2 of clock 0 to 3, 2 process starts |
| `client_sync` | `TypeOK`, `EditsAccounted`, `ProofSound`, `AnswerNotOlder`, `ClaimReleasedByAnswer` | 2 tabs, 2 operations, batches of 1, 1 change from elsewhere, 5 claims at a time, 1 fault |
| `client_delivery` | `EditsDelivered`, `TabsUnblock` | 2 tabs, 1 operation, 1 fault |
| `client_bootstrap` | `TypeOK`, `NoAutomaticCrossing`, `NothingDiscardedUnasked`, `SentRequestKept`, `SnapshotNeverOlder` | 2 tabs, 2 accounts, 1 operation, 2 requests, 2 faults or changes of the account |
| `switch_confirmed` | finding, below | 2 tabs, 2 accounts, 1 operation, 2 requests, 3 changes of the account, 1 other fault |
| `conflict_retry` | finding, below | 1 tab, 1 account, 3 requests, 1 change from elsewhere |
| `client_session` | `TypeOK`, `SignOutHolds`, `RefusedDeletionHolds`, `OtherAccountKept` | 2 tabs, 2 accounts, 2 sessions, 1 fault |

Why these bounds. The account lock serializes commits, so the log's hard cases
need two calls in flight: one that waits and one that overtakes it. The five
operations give every verdict: a sequence collision within a batch and with
the log, one identifier with two payloads, one payload from two devices. The
last revision, 3, is reached, so exhaustion happens. One deadline lies between
the two instants. One request identifier with five proposals and every
expected revision gives replays, conflicts and compare failures. The theorems
of section 4 remove these bounds for the log. For the lifecycle, two requests
are one that is slow and one that is not, three credentials allow one per
generation and one more for a second session, two generations allow one
deletion, one recreation, the deletion of the recreation, and the refusal at
the last generation. For streams, two revisions let a hint be overtaken and a
channel be full; the history of the second generation does not change in the run
(`Changing`), it is there for streams and deletions that outlive a generation.
The limit of 2 is reached and refuses nobody, since there are 2 streams, and one
pending handler leaves two publications out of order to a handler and a stream
that has made a revision itself (`AnnounceOwn`); `access_ends_streams` has limit
1, and the theorems hold for every limit and every number of handlers. For
challenges, the clock lets one challenge expire while another runs, so that an exchange with a stale time meets a spent map that was
pruned meanwhile; two process starts give one restart. The theorems remove the
bounds of these three as well, except for the liveness of streams.

A fault of the client is anything that goes wrong or happens to it from
outside: a lost message, a closed tab, an offline spell, a hint, an expired
lease (in `ClientBootstrap`), a failed write. There, changes of the cookie's
account are bounded apart (`MaxSwitches`) and with the faults (`MaxMishaps`). Two
tabs are one that works and one that is slow or gone. In `client_sync` (1.8 million
states) batches of one with two operations let a second claim be stored while
an answer to the first is under way, and one fault is enough for a claim to be
sent twice; the theorems of section 4 remove these bounds. Five claim
identities are more than exist at one time there, so the bound never stops a
claim. In `client_bootstrap` (0.8 million) two faults let a lost answer meet
a changed account or an expired lease; of its properties only
`NothingDiscardedUnasked` rests on these bounds. `switch_confirmed` needs three
changes of the account and one expired lease; its shortest counterexample has 26
states. In `client_session` (0.8 million) two sessions are the one signed out of and the one signed in
meanwhile; the theorems remove its bounds.

Symmetry is used for slots, workers, credentials, challenges, accounts, exchanges,
tabs and operations in the runs without liveness properties.
Deadlock is checked in the runs of the server's modules. The client may stop:
every tab may be closed, and every edit made and delivered.

Fairness (`revision_stream`, `access_ends_streams`): weak fairness of each
pending hub call, because all that a handler may do between its commit and its
call is write its reply, and the server's write timeout (35 seconds,
`cmd/pomodorough/main.go`) ends that; and of each stream's own steps, because
its goroutine is scheduled and each of its writes ends within the 30 second
deadline that `writeRevision` sets. Clients, commits, deletions, sign-ins and
restarts are not fair; nobody has to repeat a DELETE that failed. The liveness
properties say that no stream stays in a forbidden state for good (`[]<>~`).

Fairness of the client (`client_delivery`): weak fairness of the steps of each
tab that the browser owes it (an armed timer fires, an answer arrives, an
awaited transaction completes, an `online` event is delivered), of its poll
(`setInterval`), of the lease's expiry, which is the passing of five minutes,
and of the return of the network, without which nothing could be promised.
Nothing obliges the user to edit, to open a tab, to show one or to give up a
claim; faults are not fair and are bounded. `conflict_retry` assumes that every
await settles and that the user presses what the dialog offers.

Each property of a passing run has a mutant: a plausible mistake in the code
(a dropped comparison, an off-by-one at the last revision, a projection not
persisted, a ledger record written too early, a channel left in the map) under
which TLC finds the property violated. The mutants stand next to the
definitions they replace.

### Findings

* `RecreatedUntouched`. Authentication opens the account without the lock and
  removes files by path after a generation check that may be stale: a slow
  request with a credential of a deleted generation can remove the database of
  the generation created meanwhile.
* `AccessEndsStreams`. Two tests assert that a stream ends with the access it was
  opened under, one of a revoked session (`RevocationEndsStreams`), one of a
  deleted account (`DeletionEndsStreams`). The property is their disjunction, so
  only a behaviour that breaks both refutes it, and TLC finds one. A stream that
  authenticated before a logout and subscribed after the logout's disconnection
  stays open: the revision read re-checks the generation, not the session. And
  when the DELETE of the account then fails behind its tombstone, for example
  because its client leaves during the purge, no disconnection follows, and the
  stream of the deleted account stays open as well. What does hold is
  `ConfirmedDeletionEndsStreams`: a deletion that goes through, at first or when
  it is repeated, ends the streams of its generation, those included that
  subscribe after its disconnection.
* `SwitchConfirmed`. A tab whose session answers with another account publishes
  the new user, remembers the former one as the profile's owner and restarts its
  bootstrap (`app-session.js:335-350`). When another tab has changed the profile
  meanwhile, the restart is refused and `queueSessionRevalidation` leaves the
  former account's plan and dialog on the screen. If the profile then comes to
  belong to the account the tab remembers, a merge or a replacement chosen there
  is saved for the new account and installed over the other's workspace, because
  `persistBootstrapResolution` asks for the ownership confirmation only when a
  plan for a different owner was made. `docs/client-experience-contract.md:65`
  says that a different account never overwrites a workspace before "an explicit
  **Switch and remove local data** confirmation". This takes an expired lease and
  three changes of the account. What holds is `NoAutomaticCrossing`: some choice
  of the user is needed.
* `ConflictSettles`. A history request counts as possibly delivered from before
  its first send. When the server answers with a revision conflict, the dialog
  offers "Refresh and retry"; the retry captures a fresh request, and
  `validateResolutionCapture` refuses to replace one that may have been
  delivered, although the conflict is the evidence that it had no effect. The
  same request is sent again and meets the same conflict, also after a reload.
  Only signing out, or a sign-in of another account, ends it.

Two more disagreements of the server with `web/openapi.yaml`, met while
modelling the log and explained by the model's `at` and `Changed`:

* Handlers read the clock before they wait for the account lock. A call that
  waited reduces the log at an earlier time than the call that overtook it, and
  a session shown as completed runs again until the next call, where the
  description says the reduction happens "transactionally ... at current server
  time" (`server/api.go:168`, `openapi.yaml:484`).
* A replacement compares the new projection with tables it has just cleared, so
  a replacement by the account's own history advances the revision and sends a
  hint (`store/bootstrap.go:219`, `openapi.yaml:538`).

The exception in `UsedOnceUnlessDeleted` is needed. A deletion takes the
receipt with it and leaves the spent map alone to refuse the challenge. An
exchange that read its time just before the expiry and waited for the registry
while another one pruned the map then finds neither record. The window is the
five seconds of the registry's busy timeout around the expiry.

Known and documented: a first sign-in that stops between the migration and the
lifecycle record leaves a database on which every open, and the next startup,
fails closed (operations manual). Such a database holds no session yet.

### Exceptions and observations of the client

The liveness properties name the states in which the client waits for the user.

* `LostGate`. A tab that was suspended while its lease ran out and another tab
  took the gate still thinks that it owns it: `prepareBootstrapOnce` then skips
  the acquisition, `clearBootstrapGate` refuses, and the retry repeats this
  until the tab is reloaded.
* `CutOff`. A session request that fails while the browser is online leaves the
  cached owner working, with a retry armed. The next edit's `scheduleSync`
  (`app-sync.js:599`) replaces that timer, `syncPreflight` returns because the
  session is not known, and `pollRemoteState` skips for the same reason. The
  status goes on saying "Retrying / 1 queued" (`locales/en.json:46`), and
  nothing retries until the tab is shown again, the network changes or the page
  is reloaded.
* A claim without its bytes waits for the user by design.

The safety properties have these limits:

* `NoAutomaticCrossing` and `NothingDiscardedUnasked` count every choice the user
  made in a dialog. That the dialog may be another account's is the finding
  `SwitchConfirmed` above.
* `NoAutomaticCrossing` is about work made under an account. Anonymous work may be
  sent to the first account and, when that answer is lost and another account
  signs in, to the second as well.
* `OtherAccountKept` excludes `LateNotice`: a tab that handles the `storage`
  event of a sign-out when that sign-out is over, and the profile already
  belongs to somebody else, clears whatever it finds. This is against the
  "A different account cannot clear it" that the property's comment quotes; the
  property says that it is the only way.
* `SignOutHolds` looks at the session in the browser's cookie. A repeated
  deletion request that is answered 204 clears the cookie of a session made
  meanwhile, which stays live at the server until it expires.
* Markers name the account and not the session: an older sign-out of the same
  account can clear a newer marker, and the sign-out of a second account
  replaces a pending one (`Undisturbed` marks the sign-outs this happened to).
* A tab that is signed in to one account while the profile still holds
  another's data leaves, when it signs out, a marker that no cleanup can
  satisfy; every start then shows "Finish pending sign-out".
* Edits that another tab makes while a sign-out waits for its revocation are
  cleared with the rest and were not counted in the warning.

## 4. Proofs

`AccountStoreProofs` proves all eight properties of `account_store` as theorems
of `Spec`, for every set of devices, operations, batches, proposals, request
identifiers and slots, every reducer that meets `ReduceAssumption`, every last
revision and clock. The assumptions are the named `ASSUME`s of `AccountStore`:
types of the constants and what is assumed of the reducer; TLC evaluates them
in every run of `MCAccountStore`.

`TypeCorrect` comes first, by cases on the actions. The inductive invariant
`Inv` is the conjunction of the six invariants. None of the others is inductive
alone: `AcknowledgementsTruthful` needs `IdentitiesUnique` (an operation that
is rejected because its identifier is taken by another row is not in the log),
`RevisionNamesSnapshot` needs the type invariant's `DOMAIN snapshots =
0 .. revision` (the next revision is a new one) and `ProjectionOfLog` (an
unchanged replacement started from an empty projection), `ResolutionReplayed`
needs that stored resolutions are never overwritten.

The argument goes through `StepShape`: every step is quiet (the store is
unchanged and at most one call gets a reply that changes nothing), or stores a
synchronization or a read, or stores a resolution. Lemmas on the operators
(`Applied` keeps rows unique; verdicts agree with the resulting log; a rejected
operation is absent) are stated once with `ASSUME ... PROVE`. Each invariant is
then preserved by each shape; `NothingUnseenReplaced` follows from `Inv`, and
`StoreImplementsLog` maps the initial state to `AccountLog`'s and each shape to
`Append`, `Project`, `Decide` or a stutter.

`NativeChallengeProofs` proves the five properties of `native_challenge` for
every set of challenges, accounts and exchanges, every positive lifetime and
every bound of clock and restarts. The properties alone are not inductive.
`Inv` adds: one exchange at a time holds the registry (`OneInRegistry`); rows,
live or copied, name their issuer and their sealed expiry (`RowsTruthful`); no
issuer lies in the future (`IssuersPast`), which makes everything issued before
a restart void after it; an exchange past the registry has a challenge of this
process, and past the receipts one without a receipt (`ExchangesPassed`); a
use by this process is on record or its account was deleted (`UseOnRecord`);
copies are consistent (`CopyConsistent`). A commit on a used challenge would
contradict `ExchangesPassed` and `UseOnRecord` together. `StepMoves` says once
what each step makes of its exchange; then there is one lemma per kind of step.
TLC has checked `Inv` on the instance of the run.

`ClientSyncProofs` proves the five properties of `client_sync` for every set of
tabs and operations, every batch limit and every bound on faults, claims and
foreign changes, from the types of the constants and the absence of `None` from
the sets it stands beside. `Inv` adds to the three invariants what they need:
a request under way carries a claim (`ExchangesCarry`); every identity that is
stored, sent or logged was issued (`WorkIssued`), which keeps a new edit apart
from everything before it; what is proved unsent or was given up is in no claim
of the database, a tab or the network and not at the server
(`UnsentNowhere`, of which `ProofSound` is the part that can be seen from
outside); an answer under way holds its claim at a revision the server had
(`AnswersHold`); no snapshot is ahead of the server (`NothingAhead`).
`AnswerNotOlder` is where fresh identities matter: a new claim equals none that
a tab still holds. Most of the 22 actions are quiet (`QuietStep`): they leave
queue, proof, claim and snapshot alone, and a tab's exchange goes on or ends
(`Tame`); one lemma keeps `Inv` for all of them. An edit, a claim, a replayed
claim, an answer at the server, an answer applied, a discarded claim, a late
arrival and another device's change have a lemma each.
`ClaimReleasedByAnswer` follows from `Inv` and the same case split.

`RevisionStreamProofs` proves the four invariants of `revision_stream` for every
number of streams, sessions, generations, revisions and pending handlers and
every positive limit. `HintUnderway` is not inductive: a publication may be
dropped because the hub has seen a newer revision, and the stream must then
have it. `Inv` adds that a stream is not listed before it subscribes
(`Phases`), that nobody knows a revision before it is stored (`NothingAhead`),
that `latest` is as new as every hint in an open channel (`HintsSeen`), and
that once the hub has seen the stored revision no open stream waits for it
(`SeenDelivered`). Publishing from a handler and from a stream share a lemma
(`PublishedInv`), and so do the disconnections (`CutInv`); a step of one stream
(`OneStreamInv`) is reduced to facts about that stream. `LimiterExact` needs that the set of
streams that hold a place is finite, which is part of `Inv`: nothing is assumed
of the set of all streams.

`AccountLifecycleProofs` proves the five invariants of `account_lifecycle` for
every number of concurrent requests, credentials and generations. Two things
carry the proof. The account lock admits one request (`OneHolder`), so what a
locked request has checked stays true of the ledger. And a request without the
lock may remove the file at the path or put an empty one there, but never
changes what a file says of its sessions (`FileSound`, which also holds for the
backup and for every unlinked file that a request still has open, because a
restore or a late commit brings them back). `Fit` says for each phase of a
request what its earlier checks and writes guarantee: a sign-in works on a file
without sessions until it has stamped it, and is at most one generation ahead
of the tombstone; a use's generation is not deleted; a deletion's receipt,
tombstone and lifecycle record are in place one after the other. One lemma per
action keeps the ledger (`Records`) and the requests (`Requests`).

`ClientBootstrapProofs` proves four of the five properties of
`client_bootstrap`, three of them action properties, for every set of tabs,
operations and accounts and every number of requests and faults. Besides types
and bounds it assumes that `None` is no request and no number
(`RequestAssumption`) and that the marks of unmade and anonymous work are no
accounts (`AuthorAssumption`). `Inv` says what the database, a history request,
an account's record and a tab's memory may claim, each as a predicate of its
own: the queue and the claim are the owner's work and the snapshot is not ahead
of the account; a saved request was captured from this profile, and an answer
recorded for it is not older than the snapshot (`SoundDb`); a request nobody
chose carries only its own account's work (`SoundRequest`); a tab has validated
its session, or was told by the user, before it plans, captures or sends
(`SoundSession`); a request under way is of the account and the profile the tab
knows (`SoundPending`); an answer is what the account recorded
(`SoundExchange`). `SnapshotsNeverOlder` needs the clauses on recorded answers:
the database refuses some older answers, but a replayed one is recognized as
not older only because of what was true when its request was captured. Most of
a tab's steps are transactions on the gate (`GateStep`, `SoundOutcome`), which
compose; edits, captures, submissions, answers and rounds have a lemma each.
`StepKept` is what every action shows of its step for the three action
properties.

This proof changed the model. The lemma on `AcquirePreparationGate` failed
because the operator left out that a tab which took the gate, found a request
of another account and has not validated its own identity asks for its session
again instead of restarting (`app-bootstrap.js:620-623`); it has that branch
now. An earlier invariant, that work never crosses accounts at
all, could not be strengthened to an inductive one, and TLC found it false at a
larger bound: the state that resisted is the stale dialog of section 3, the
finding `SwitchConfirmed`; `NothingCrossesUnchosen` proves what holds.

`ClientSessionProofs` proves the four properties of `client_session`, one of
them an action property, for every set of tabs and accounts and every number of
sessions, landing tokens and faults. It assumes types and bounds
(`SessionAssumption`) and that `None` is no session and no deletion record
(`RecordAssumption`). `SignOutHolds` is far from inductive: a tab drops the
marker several steps after it found out that the session is over or emptied the
database, and meanwhile other tabs sign in, sign out or delete. `Justified` says
why its evidence still counts while the marker is the one it captured: a session
made since is numbered after every session signed out of (`Numbers`), a sign-out
of the same account begun meanwhile is not `Undisturbed`, one of another account
has changed the marker, and a revocation under way carries the cookie it is to
end. A landing proves by its token that a later session came back with it
(`Numbered`: a token is made once and dies with its marker). `SoundTab` and
`Ledger` say that every captured or stored marker, record and identity goes back
to something the user asked for; `RefusedDeletionHolds` is part of `Ledger`, and
`OtherAccountKept` follows from them and from what a cleanup compares before it
clears (`MarkedErase`, `KeptStep`). One tab's step at a time is reduced to facts
about that tab and about what it takes from the others (`TabInv`); most steps
only let a held session or stored data go (`FadeInv`), end an operation
(`EndedInv`), leave the page (`RedirectInv`), load the session (`LoadingInv`) or
write a marker (`MarkInv`), and there is one lemma per action above these. TLC
has checked `Inv` on the instance of the run.

Only model-checked: `NothingDiscardedUnasked`, which speaks of an account's log as it is now, while
a later replacement by another device may have emptied it again; liveness under
fairness, which is out of the prover's reach; and what the instance `MCReduce`
computes.

## 5. Not modelled

Sections of the table above without a module are planned (below). Left out for
good: rendering and localisation of the web client, configuration, metrics,
logging, error reports, static files, release tooling (no protocol state); the
Iroh codec (called by no server component); the data directory lock (one
operating system call; the modules assume the single process it grants); the
reducer itself (not in the repository); `sync-authority.js`, which only checks
the shape of what the reducer's module returns. Of the client's modelled parts:
migrations of data that older clients stored, except the claim without bytes;
the samples of the server's clock; the lease of the running timer and its
completion alerts; the limits on the size of a history request.

## 6. Plan

1. `Sessions`: tokens, rotation, reuse detection, revocation of sessions and
   devices, expiry, CSRF replacement, under the lock and beside it; a used
   refresh token never yields a live family, a revoked session never
   authenticates again.
2. `RateLimiter`, `HlcTick`, `TimerReplay` (paged against whole replay), the
   service worker's caches, the lease of the running timer.
3. Proofs: `NothingDiscardedUnasked` of `ClientBootstrap`, with the history
   variable it needs.
