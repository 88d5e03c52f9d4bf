--------------------------- MODULE AccountLifecycle ---------------------------
(***************************************************************************)
(* Creation, use, deletion and recreation of one account:                  *)
(* internal/store/database.go, deletion_ledger.go, deletion_receipt.go,    *)
(* account_generation.go and readiness.go, as the handlers of              *)
(* internal/server drive them.                                             *)
(*                                                                         *)
(* The account is a SQLite file that carries a generation; the deletion    *)
(* ledger, in a directory of its own, holds a tombstone (the highest       *)
(* deleted generation), the lifecycle record and one receipt per deleting  *)
(* credential.  Each of these is a file of its own, so every write is a    *)
(* step of its own and the process may stop between any two.  A published  *)
(* record is durable: temporary file, fsync, rename, directory fsync.      *)
(*                                                                         *)
(* Signing in, using and deleting an account hold LockUser.  Authenticating *)
(* a request (Server.authenticateCredential) opens the account WITHOUT it, *)
(* and that includes the removal of a file whose generation was deleted.   *)
(***************************************************************************)
EXTENDS Integers, FiniteSets

CONSTANTS
    Worker,         \* concurrent requests
    Credential,     \* opaque tokens: random, so never issued twice
    MaxGeneration   \* the last generation (2^53 - 1 in the code)

ASSUME GenerationAssumption == MaxGeneration \in Nat \ {0}

Generation == 1 .. MaxGeneration

VARIABLES
    up,        \* the process serves requests
    file,      \* the account database: its generation (0: no file) and sessions
    tomb,      \* DeletedGeneration of the tombstone; 0: no tombstone
    life,      \* the lifecycle record; generation 0: none
    receipt,   \* per credential, the generation its receipt names; 0: none
    worker,    \* the request each worker serves
    backup,    \* an operator's copy of the account database
    issued,    \* history: the generation a credential was issued for
    acked      \* history: the generation whose deletion a 204 confirmed

ledger == <<tomb, life, receipt>>
vars == <<up, file, ledger, worker, backup, issued, acked>>

NoFile == [gen |-> 0, sessions |-> {}]
\* What openDatabase makes of a path with no file: an empty, migrated database.
Fresh == [gen |-> 1, sessions |-> {}]

\* linked: the worker's handle is on the file at the path; held: what the
\* handle's file held when it was unlinked.
IdleWorker == [pc |-> "idle", kind |-> "none", cred |-> {}, gen |-> 0, deleted |-> 0,
               linked |-> FALSE, held |-> NoFile]

Locked == {"openUser", "replace", "create", "bind", "stamp", "session",
           "using", "receipt", "tombstone", "lifecycle", "finish"}

\* Mutant of LockFree: LockUser does not exclude.
LockAlwaysFree == TRUE

\* LockUser
LockFree == \A v \in Worker : worker[v].pc \notin Locked

-----------------------------------------------------------------------------
(* The file and the ledger *)

\* Set worker w's fields and leave the file alone.
Goto(w, r) == worker' = [worker EXCEPT ![w] = r]
Done(w) == Goto(w, IdleWorker)

\* removeUserFiles: open handles keep the unlinked file.
Remove(w, r) ==
    /\ file' = NoFile
    /\ worker' = [v \in Worker |->
                    IF v = w THEN r
                    ELSE IF worker[v].linked
                         THEN [worker[v] EXCEPT !.linked = FALSE, !.held = file]
                         ELSE worker[v]]

\* What worker w's handle shows.
Shown(w) == IF worker[w].linked THEN file ELSE worker[w].held

\* The lifecycle record names the file's generation as the active one.
Bound == life.state = "active" /\ life.gen = file.gen

\* deletedGeneration: reads the tombstone and validates the stored lifecycle.
LedgerValid == file.gen > tomb => Bound

\* CommittedDeletionReceipt
Committed(c) == receipt[c] # 0 /\ tomb >= receipt[c]

Highest(m, n) == IF m >= n THEN m ELSE n

-----------------------------------------------------------------------------
(* Signing in: persistWebAccount, persistNativeAccount, OpenUser *)

SignIn(w) ==
    /\ up /\ worker[w].pc = "idle" /\ LockFree
    /\ Goto(w, [IdleWorker EXCEPT !.pc = "openUser", !.kind = "signIn"])
    /\ UNCHANGED <<up, file, ledger, backup, issued, acked>>

\* openReusableAccount
OpenUser(w) ==
    /\ worker[w].pc = "openUser"
    /\ LedgerValid
    /\ Goto(w, [worker[w] EXCEPT !.deleted = tomb, !.gen = IF file.gen > tomb THEN file.gen ELSE 0,
                                 !.linked = file.gen > tomb,
                                 !.pc = IF file.gen > tomb THEN "session"
                                        ELSE IF file = NoFile THEN "create" ELSE "replace"])
    /\ UNCHANGED <<up, file, ledger, backup, issued, acked>>

ReplaceDeleted(w) ==
    /\ worker[w].pc = "replace"
    /\ Remove(w, [worker[w] EXCEPT !.pc = "create"])
    /\ UNCHANGED <<up, ledger, backup, issued, acked>>

\* Mutant of CreateFile: the successor of the last generation is used.
CreateFileBeyond(w) ==
    /\ worker[w].pc = "create"
    /\ file' = IF file = NoFile THEN Fresh ELSE file
    /\ Goto(w, [worker[w] EXCEPT !.pc = "bind", !.linked = TRUE,
                                 !.gen = worker[w].deleted + 1])
    /\ UNCHANGED <<up, ledger, backup, issued, acked>>

\* createAccountDatabase: O_CREATE, migrate; the generation is still the first.
CreateFile(w) ==
    /\ worker[w].pc = "create"
    /\ file' = IF file = NoFile THEN Fresh ELSE file
    /\ IF worker[w].deleted = MaxGeneration
       THEN Done(w)
       ELSE Goto(w, [worker[w] EXCEPT !.pc = "bind", !.linked = TRUE,
                                      !.gen = worker[w].deleted + 1])
    /\ UNCHANGED <<up, ledger, backup, issued, acked>>

\* setAccountGeneration, first half: recordAccountLifecycle refuses a rollback.
BindLifecycle(w) ==
    LET g == worker[w].gen IN
    /\ worker[w].pc = "bind"
    /\ IF life.gen > g \/ (life.gen = g /\ life.state = "deleted")
       THEN Done(w) /\ UNCHANGED life
       ELSE /\ life' = [gen |-> g, state |-> "active"]
            /\ Goto(w, [worker[w] EXCEPT !.pc = "stamp"])
    /\ UNCHANGED <<up, file, tomb, receipt, backup, issued, acked>>

\* Mutant of StampGeneration: a recreated account keeps the generation the
\* migration wrote.
StampNothing(w) ==
    /\ worker[w].pc = "stamp"
    /\ Goto(w, [worker[w] EXCEPT !.pc = "session"])
    /\ UNCHANGED <<up, file, ledger, backup, issued, acked>>

\* setAccountGeneration, second half: UPDATE account_metadata.
StampGeneration(w) ==
    /\ worker[w].pc = "stamp"
    /\ IF worker[w].linked
       THEN /\ file' = [file EXCEPT !.gen = worker[w].gen]
            /\ Goto(w, [worker[w] EXCEPT !.pc = "session"])
       ELSE /\ UNCHANGED file
            /\ Goto(w, [worker[w] EXCEPT !.pc = "session", !.held.gen = worker[w].gen])
    /\ UNCHANGED <<up, ledger, backup, issued, acked>>

\* CreateSession commits and the token is sent.
CreateSession(w) ==
    /\ worker[w].pc = "session"
    /\ \E c \in Credential :
         /\ issued[c] = 0
         /\ issued' = [issued EXCEPT ![c] = worker[w].gen]
         /\ file' = IF worker[w].linked THEN [file EXCEPT !.sessions = @ \cup {c}] ELSE file
    /\ Done(w)
    /\ UNCHANGED <<up, ledger, backup, acked>>

-----------------------------------------------------------------------------
(* Authentication, without the account lock: OpenExistingUser, Authenticate *)

\* Stat finds a file. A DELETE with a committed receipt does not get here.
Arrive(w, c, kind) ==
    /\ up /\ worker[w].pc = "idle" /\ issued[c] # 0
    /\ kind = "delete" /\ receipt[c] # 0 => LedgerValid /\ ~Committed(c)
    /\ file # NoFile
    /\ Goto(w, [IdleWorker EXCEPT !.pc = "open", !.kind = kind, !.cred = {c}])
    /\ UNCHANGED <<up, file, ledger, backup, issued, acked>>

\* openDatabase creates and migrates the file if it is gone by now.
OpenExisting(w) ==
    LET f == IF file = NoFile THEN Fresh ELSE file IN
    /\ worker[w].pc = "open"
    /\ file' = f
    /\ Goto(w, [worker[w] EXCEPT !.pc = "check", !.gen = f.gen, !.linked = TRUE])
    /\ UNCHANGED <<up, ledger, backup, issued, acked>>

\* openExistingAccount compares the generation it read with the tombstone.
CheckDeleted(w) ==
    /\ worker[w].pc = "check"
    /\ LedgerValid
    /\ Goto(w, [worker[w] EXCEPT !.pc = IF worker[w].gen > tomb THEN "lookup" ELSE "remove"])
    /\ UNCHANGED <<up, file, ledger, backup, issued, acked>>

\* removeUserFiles(path), whatever file the path names by now.
RemoveDeleted(w) ==
    /\ worker[w].pc = "remove"
    /\ Remove(w, IdleWorker)
    /\ UNCHANGED <<up, ledger, backup, issued, acked>>

\* Authenticate: the token's row and the generation beside it.
Authenticate(w) ==
    /\ worker[w].pc = "lookup"
    /\ IF worker[w].cred \subseteq Shown(w).sessions
       THEN Goto(w, [worker[w] EXCEPT !.pc = "authorized", !.gen = Shown(w).gen,
                                      !.linked = FALSE, !.held = NoFile])
       ELSE Done(w)
    /\ UNCHANGED <<up, file, ledger, backup, issued, acked>>

-----------------------------------------------------------------------------
(* Using the account: withAccountGeneration *)

\* OpenExistingUser under the lock, then the generation check.
BeginUse(w) ==
    /\ worker[w].pc = "authorized" /\ worker[w].kind = "use" /\ LockFree
    /\ LedgerValid
    /\ IF file # NoFile /\ file.gen <= tomb
       THEN Remove(w, IdleWorker)
       ELSE /\ IF file.gen = worker[w].gen
               THEN Goto(w, [worker[w] EXCEPT !.pc = "using", !.linked = TRUE])
               ELSE Done(w)
            /\ UNCHANGED file
    /\ UNCHANGED <<up, ledger, backup, issued, acked>>

\* The operation commits and its answer is sent.
EndUse(w) ==
    /\ worker[w].pc = "using"
    /\ Done(w)
    /\ UNCHANGED <<up, file, ledger, backup, issued, acked>>

\* RevokeSession and its siblings are such operations; others leave sessions.
Revoke(w) ==
    /\ worker[w].pc = "using" /\ worker[w].linked
    /\ file' = [file EXCEPT !.sessions = @ \ worker[w].cred]
    /\ Done(w)
    /\ UNCHANGED <<up, ledger, backup, issued, acked>>

-----------------------------------------------------------------------------
(* Deleting the account: requireAccountDeletion, deleteUserWithReceipt *)

\* A committed receipt stands for the identity of a retried DELETE.
ArriveWithReceipt(w, c) ==
    /\ up /\ worker[w].pc = "idle" /\ LedgerValid /\ Committed(c)
    /\ Goto(w, [IdleWorker EXCEPT !.pc = "authorized", !.kind = "delete", !.cred = {c},
                                  !.gen = receipt[c]])
    /\ UNCHANGED <<up, file, ledger, backup, issued, acked>>

\* Under the lock: a committed receipt is confirmed again; otherwise the account
\* must be live, of this generation, and the session not revoked meanwhile.
BeginDelete(w, c) ==
    LET g == worker[w].gen IN
    /\ worker[w].pc = "authorized" /\ worker[w].kind = "delete" /\ worker[w].cred = {c}
    /\ LockFree /\ LedgerValid
    /\ IF Committed(c)
       THEN /\ IF receipt[c] = g
               THEN Goto(w, [worker[w] EXCEPT !.pc = "finish"])
               ELSE Done(w)
            /\ UNCHANGED file
       ELSE IF file # NoFile /\ file.gen <= tomb
            THEN Remove(w, IdleWorker)
            ELSE /\ IF file.gen = g /\ c \in file.sessions
                    THEN Goto(w, [worker[w] EXCEPT !.pc = "receipt"])
                    ELSE Done(w)
                 /\ UNCHANGED file
    /\ UNCHANGED <<up, ledger, backup, issued, acked>>

WriteReceipt(w, c) ==
    /\ worker[w].pc = "receipt" /\ worker[w].cred = {c}
    /\ receipt' = [receipt EXCEPT ![c] = worker[w].gen]
    /\ Goto(w, [worker[w] EXCEPT !.pc = "tombstone"])
    /\ UNCHANGED <<up, file, tomb, life, backup, issued, acked>>

\* Mutant of WriteTombstone: the account is purged first and recorded last.
PurgeWithoutTombstone(w) ==
    /\ worker[w].pc = "tombstone"
    /\ Goto(w, [worker[w] EXCEPT !.pc = "finish"])
    /\ UNCHANGED <<up, file, ledger, backup, issued, acked>>

\* Mutant of WriteTombstone: the lifecycle record is written first.
LifecycleBeforeTombstone(w) ==
    /\ worker[w].pc = "tombstone"
    /\ life' = [gen |-> worker[w].gen, state |-> "deleted"]
    /\ Goto(w, [worker[w] EXCEPT !.pc = "lifecycle"])
    /\ UNCHANGED <<up, file, tomb, receipt, backup, issued, acked>>

\* recordDeletion: the tombstone never falls.
WriteTombstone(w) ==
    /\ worker[w].pc = "tombstone"
    /\ LedgerValid
    /\ tomb' = Highest(tomb, worker[w].gen)
    /\ Goto(w, [worker[w] EXCEPT !.pc = "lifecycle"])
    /\ UNCHANGED <<up, file, life, receipt, backup, issued, acked>>

\* recordDeletedAccountLifecycle
DeletedLife(g) == IF life.gen > g THEN life ELSE [gen |-> g, state |-> "deleted"]

WriteLifecycle(w) ==
    /\ worker[w].pc = "lifecycle"
    /\ life' = DeletedLife(tomb)
    /\ Goto(w, [worker[w] EXCEPT !.pc = "finish"])
    /\ UNCHANGED <<up, file, tomb, receipt, backup, issued, acked>>

\* finishReceiptedDeletion: purge this generation only; then 204.
FinishDelete(w, c) ==
    LET g == worker[w].gen IN
    /\ worker[w].pc = "finish" /\ worker[w].cred = {c}
    /\ IF file.gen > g THEN UNCHANGED file /\ Done(w) ELSE Remove(w, IdleWorker)
    /\ acked' = [acked EXCEPT ![c] = g]
    /\ UNCHANGED <<up, ledger, backup, issued>>

\* handleAccountDeletionReceipt: read-only, without the lock, in two steps.
LookupReceipt(w, c) ==
    /\ up /\ worker[w].pc = "idle" /\ LedgerValid /\ Committed(c)
    /\ Goto(w, [IdleWorker EXCEPT !.pc = "ready", !.kind = "lookup", !.cred = {c},
                                  !.gen = receipt[c]])
    /\ UNCHANGED <<up, file, ledger, backup, issued, acked>>

\* Store.Ready; then 204.
ConfirmReceipt(w, c) ==
    /\ worker[w].pc = "ready" /\ worker[w].cred = {c}
    /\ file # NoFile => file.gen > tomb /\ Bound
    /\ acked' = [acked EXCEPT ![c] = worker[w].gen]
    /\ Done(w)
    /\ UNCHANGED <<up, file, ledger, backup, issued>>

-----------------------------------------------------------------------------
(* Failure, restart and restore *)

(* A step of the request fails: an I/O error, a cancelled context, a refused
   check.  What it has published stays; the lock is released. *)
Give(w) ==
    /\ worker[w].pc # "idle"
    /\ Done(w)
    /\ UNCHANGED <<up, file, ledger, backup, issued, acked>>

(* The process stops. *)
Crash ==
    /\ up
    /\ up' = FALSE
    /\ worker' = [w \in Worker |-> IdleWorker]
    /\ UNCHANGED <<file, ledger, backup, issued, acked>>

\* The operator copies the stopped data directory, or puts the copy back; the
\* ledger is never rolled back (docs/operations.md, Recovery).
TakeBackup ==
    /\ ~up /\ backup' = file
    /\ UNCHANGED <<up, file, ledger, worker, issued, acked>>

Restore ==
    /\ ~up /\ file' = backup
    /\ UNCHANGED <<up, ledger, worker, backup, issued, acked>>

\* NewWithDeletionLedger: validateAccountLifecycleInventory and
\* applyDeletionObligations. Startup is refused while an account that is not
\* deleted has no lifecycle record; a removal that fails is deferred.
Start ==
    /\ ~up
    /\ life.state = "deleted" => tomb >= life.gen
    /\ LedgerValid
    /\ up' = TRUE
    /\ IF file # NoFile /\ file.gen <= tomb
       THEN life' = DeletedLife(file.gen) /\ file' \in {file, NoFile}
       ELSE UNCHANGED <<life, file>>
    /\ UNCHANGED <<tomb, receipt, worker, backup, issued, acked>>

Init ==
    /\ up = TRUE /\ file = NoFile /\ tomb = 0
    /\ life = [gen |-> 0, state |-> "none"]
    /\ receipt = [c \in Credential |-> 0]
    /\ worker = [w \in Worker |-> IdleWorker]
    /\ backup = NoFile
    /\ issued = [c \in Credential |-> 0] /\ acked = [c \in Credential |-> 0]

Serve(w) ==
    \/ SignIn(w) \/ OpenUser(w) \/ ReplaceDeleted(w) \/ CreateFile(w)
    \/ BindLifecycle(w) \/ StampGeneration(w) \/ CreateSession(w)
    \/ \E c \in Credential, kind \in {"use", "delete"} : Arrive(w, c, kind)
    \/ OpenExisting(w) \/ CheckDeleted(w) \/ RemoveDeleted(w) \/ Authenticate(w)
    \/ BeginUse(w) \/ EndUse(w) \/ Revoke(w)
    \/ \E c \in Credential : \/ ArriveWithReceipt(w, c) \/ BeginDelete(w, c)
                             \/ WriteReceipt(w, c) \/ FinishDelete(w, c)
                             \/ LookupReceipt(w, c) \/ ConfirmReceipt(w, c)
    \/ WriteTombstone(w) \/ WriteLifecycle(w)
    \/ Give(w)

Next == (\E w \in Worker : Serve(w)) \/ Crash \/ TakeBackup \/ Restore \/ Start

Spec == Init /\ [][Next]_vars

-----------------------------------------------------------------------------
(* Properties *)

FileType(f) == f.gen \in 0 .. MaxGeneration /\ f.sessions \subseteq Credential

(* Every generation is in range, and a worker that serves nothing holds nothing. *)
TypeOK ==
    /\ up \in BOOLEAN /\ FileType(file) /\ FileType(backup)
    /\ tomb \in 0 .. MaxGeneration /\ life.gen \in 0 .. MaxGeneration
    /\ life.state \in {"none", "active", "deleted"}
    /\ receipt \in [Credential -> 0 .. MaxGeneration]
    /\ issued \in [Credential -> 0 .. MaxGeneration]
    /\ acked \in [Credential -> 0 .. MaxGeneration]
    /\ \A w \in Worker : /\ worker[w].gen \in 0 .. MaxGeneration
                         /\ worker[w].cred \subseteq Credential
                         /\ FileType(worker[w].held)
                         /\ ~up => worker[w] = IdleWorker

(* A deleted generation is never used again: while a request runs its operation
   on the account, the tombstone is below the generation it runs on.  Deletions
   that start meanwhile, crashes between the ledger's writes and databases
   restored from backups must not break it. *)
DeletedNeverUsed ==
    \A w \in Worker : worker[w].pc = "using" => worker[w].gen > tomb

(* A confirmed deletion stays confirmed: after a 204 the tombstone covers the
   generation and the receipt answers every retry with the same generation,
   which is the one the credential was issued for. *)
ConfirmationDurable ==
    \A c \in Credential : acked[c] # 0 =>
        /\ tomb >= acked[c] /\ receipt[c] = acked[c] /\ issued[c] = acked[c]

(* Every session of the account database was issued for the generation that the
   database carries, so a credential never authenticates another incarnation. *)
SessionsOfGeneration == \A c \in file.sessions : issued[c] = file.gen

(* Wherever a sign-in or a deletion stops, the ledger it leaves passes
   validateAccountLifecycleInventory: a deleted lifecycle record has its
   tombstone, and the record is at most the one generation ahead that a sign-in
   was about to create. *)
InventoryValid ==
    /\ life.state = "deleted" => life.gen <= tomb
    /\ life.gen <= tomb + 1

(* The removal of a deleted generation leaves a recreated one untouched: while
   the server runs, only a file whose generation the tombstone covers goes. *)
RecreatedUntouched ==
    [][up /\ file.gen > tomb => file' # NoFile]_vars
=============================================================================
