------------------------ MODULE AccountLifecycleProofs ------------------------
(***************************************************************************)
(* The safety of account creation, use, deletion and recreation for every  *)
(* number of concurrent requests, credentials and generations.             *)
(*                                                                         *)
(* Two things carry the proof.  The account lock admits one request, so    *)
(* what a locked request has checked stays true of the ledger; and a       *)
(* request without the lock can remove the file at the path or put an      *)
(* empty one there, but never changes what a file says of its sessions.    *)
(***************************************************************************)
EXTENDS AccountLifecycle, TLAPS

File == [gen : 0 .. MaxGeneration, sessions : SUBSET Credential]

Phase == {"idle", "open", "check", "remove", "lookup", "authorized", "ready"} \cup Locked

WorkerState == [pc : Phase, kind : {"none", "signIn", "use", "delete", "lookup"},
                cred : SUBSET Credential, gen : 0 .. MaxGeneration,
                deleted : 0 .. MaxGeneration, linked : BOOLEAN, held : File]

Life == [gen : 0 .. MaxGeneration, state : {"none", "active", "deleted"}]

-----------------------------------------------------------------------------
(* The inductive invariant *)

\* Sessions were issued for the generation of their file, and never for none;
\* is: the generation each credential was issued for.
FileSound(f, is) == \A c \in f.sessions : f.gen # 0 /\ is[c] = f.gen

\* A receipt names the generation its credential was issued for.
ReceiptsIssued == \A c \in Credential : receipt[c] # 0 => receipt[c] = issued[c]

Settled == {"tombstone", "lifecycle", "finish", "ready"}

(* What request q relies on, with the file f at the path, the tombstone d, the
   issued tokens is and the receipts rc. *)

\* A sign-in has read a tombstone that is still covered, and works on an empty
\* file until it has stamped its generation on it.
SignInFit(q, f, d) ==
    /\ q.pc \in {"replace", "create"} => q.deleted <= d
    /\ q.pc = "create" => f \in {NoFile, Fresh}
    /\ q.pc = "bind" => q.gen <= d + 1
    /\ q.pc \in {"bind", "stamp", "session"} => q.gen # 0
    /\ q.pc \in {"bind", "stamp"} => IF q.linked THEN f = Fresh ELSE q.held.sessions = {}
    /\ q.pc = "session" /\ q.linked => f.gen = q.gen

\* An authenticated request has a generation; one that runs its operation has
\* one above the tombstone.
UseFit(q, d) ==
    /\ q.pc \in {"open", "check", "lookup"} => q.cred # {}
    /\ q.pc = "authorized" => q.gen # 0
    /\ q.pc = "using" => q.gen > d

\* A deletion is of the generation its credential was issued for, and its
\* records are in place one after the other.
DeleteFit(q, d, is, rc) ==
    /\ q.pc \in Settled \cup {"receipt"} =>
          q.gen # 0 /\ \A c \in q.cred : is[c] = q.gen
    /\ q.pc \in Settled => \A c \in q.cred : rc[c] = q.gen
    /\ q.pc \in {"lifecycle", "finish", "ready"} => q.gen <= d

Fit(q, f, d, is, rc) ==
    FileSound(q.held, is) /\ SignInFit(q, f, d) /\ UseFit(q, d) /\ DeleteFit(q, d, is, rc)

OneHolder ==
    \A v, w \in Worker : worker[v].pc \in Locked /\ worker[w].pc \in Locked => v = w

Stored ==
    /\ up \in BOOLEAN /\ file \in File /\ backup \in File
    /\ tomb \in 0 .. MaxGeneration /\ life \in Life
    /\ receipt \in [Credential -> 0 .. MaxGeneration]
    /\ issued \in [Credential -> 0 .. MaxGeneration]
    /\ acked \in [Credential -> 0 .. MaxGeneration]

Records ==
    /\ Stored /\ FileSound(file, issued) /\ FileSound(backup, issued)
    /\ ReceiptsIssued /\ ConfirmationDurable /\ InventoryValid

Requests ==
    /\ worker \in [Worker -> WorkerState]
    /\ ~up => \A w \in Worker : worker[w] = IdleWorker
    /\ OneHolder
    /\ \A w \in Worker : Fit(worker[w], file, tomb, issued, receipt)

Inv == Records /\ Requests

-----------------------------------------------------------------------------
(* Basic facts *)

LEMMA EmptyFiles ==
    /\ NoFile \in File /\ NoFile.gen = 0 /\ NoFile.sessions = {}
    /\ Fresh \in File /\ Fresh.gen = 1 /\ Fresh.sessions = {}
    /\ \A is : FileSound(NoFile, is) /\ FileSound(Fresh, is)
BY GenerationAssumption DEF NoFile, Fresh, File, FileSound

LEMMA IdleFits ==
    /\ IdleWorker \in WorkerState
    /\ IdleWorker.pc = "idle" /\ IdleWorker.linked = FALSE /\ IdleWorker.held = NoFile
    /\ \A f, d, is, rc : Fit(IdleWorker, f, d, is, rc)
<1>1. IdleWorker \in WorkerState
  BY EmptyFiles, GenerationAssumption DEF IdleWorker, WorkerState, Phase
<1>2. IdleWorker.pc = "idle" /\ IdleWorker.linked = FALSE /\ IdleWorker.held = NoFile
  BY DEF IdleWorker
<1> QED BY <1>1, <1>2, EmptyFiles DEF Fit, SignInFit, UseFit, DeleteFit, Settled

\* Only a running process serves.
LEMMA ServingUp ==
    ASSUME Inv, NEW w \in Worker, worker[w].pc # "idle"
    PROVE  up
BY IdleFits DEF Inv, Requests

\* The ledger and the issued tokens only grow.
Extends(m, n) == \A c \in Credential : m[c] # 0 => n[c] = m[c]

LEMMA FileSoundStays ==
    ASSUME NEW f \in File, NEW is, NEW js, FileSound(f, is), Extends(is, js)
    PROVE  FileSound(f, js)
BY DEF File, FileSound, Extends

\* A request without the lock relies on nothing that a step can take back.
LEMMA UnlockedFits ==
    ASSUME NEW q \in WorkerState, NEW f, NEW d \in Nat, NEW is, NEW rc,
           NEW g, NEW e \in Nat, NEW js, NEW sc,
           Fit(q, f, d, is, rc), q.pc \notin Locked,
           d <= e, Extends(is, js), Extends(rc, sc)
    PROVE  Fit(q, g, e, js, sc)
<1>1. FileSound(q.held, js)
  BY FileSoundStays DEF Fit, WorkerState
<1>2. SignInFit(q, g, e) /\ UseFit(q, e)
  BY DEF Fit, SignInFit, UseFit, Locked
<1>3. DeleteFit(q, e, js, sc)
  <2>1. CASE q.pc = "ready"
    <3>1. q.gen # 0 /\ q.gen <= d /\ \A c \in q.cred : is[c] = q.gen /\ rc[c] = q.gen
      BY <2>1 DEF Fit, DeleteFit, Settled
    <3>2. q.gen \in Nat /\ q.cred \subseteq Credential
      BY GenerationAssumption DEF WorkerState
    <3>3. q.gen <= e /\ \A c \in q.cred : js[c] = q.gen /\ sc[c] = q.gen
      BY <3>1, <3>2 DEF Extends
    <3> QED BY <3>1, <3>3 DEF DeleteFit
  <2>2. CASE q.pc # "ready"
    BY <2>2 DEF DeleteFit, Settled, Locked
  <2> QED BY <2>1, <2>2
<1> QED BY <1>1, <1>2, <1>3 DEF Fit

\* What a request is once the file f at the path has been removed under it.
Unlinked(q, f) == IF q.linked THEN [q EXCEPT !.linked = FALSE, !.held = f] ELSE q

LEMMA UnlinkedFits ==
    ASSUME NEW q \in WorkerState, NEW f \in File, NEW d, NEW is, NEW rc,
           Fit(q, f, d, is, rc), FileSound(f, is)
    PROVE  /\ Unlinked(q, f) \in WorkerState /\ Unlinked(q, f).pc = q.pc
           /\ Fit(Unlinked(q, f), NoFile, d, is, rc)
<1> DEFINE u == Unlinked(q, f)
<1>1. /\ u \in WorkerState /\ u.pc = q.pc /\ u.gen = q.gen /\ u.deleted = q.deleted
      /\ u.cred = q.cred /\ u.linked = FALSE
      /\ u.held = IF q.linked THEN f ELSE q.held
  BY DEF Unlinked, WorkerState
<1>2. FileSound(u.held, is)
  BY <1>1 DEF Fit
<1>3. SignInFit(u, NoFile, d)
  BY <1>1, EmptyFiles DEF Fit, SignInFit
<1>4. UseFit(u, d) /\ DeleteFit(u, d, is, rc)
  BY <1>1 DEF Fit, UseFit, DeleteFit
<1> QED BY <1>1, <1>2, <1>3, <1>4 DEF Fit

\* Putting an empty file where there is none disturbs nobody.
LEMMA FreshFits ==
    ASSUME NEW q \in WorkerState, NEW d, NEW is, NEW rc, Fit(q, NoFile, d, is, rc)
    PROVE  Fit(q, Fresh, d, is, rc)
<1>1. NoFile # Fresh
  BY EmptyFiles
<1>2. ~(q.pc = "session" /\ q.linked)
  BY EmptyFiles DEF Fit, SignInFit
<1>3. SignInFit(q, Fresh, d)
  BY <1>1, <1>2 DEF Fit, SignInFit
<1> QED BY <1>3 DEF Fit

-----------------------------------------------------------------------------
(* A step of request w, by what it does to the file and the ledger.  r is what
   becomes of w itself. *)

Takes(w, r) == r.pc \in Locked => worker[w].pc \in Locked \/ LockFree

LEMMA RequestsKept ==
    ASSUME Inv, NEW w \in Worker, NEW r \in WorkerState, up, up' = up, Takes(w, r),
           worker' \in [Worker -> WorkerState], worker'[w] = r,
           Fit(r, file', tomb', issued', receipt'),
           \A v \in Worker : v # w => /\ worker'[v].pc = worker[v].pc
                                      /\ Fit(worker'[v], file', tomb', issued', receipt')
    PROVE  Requests'
<1>1. OneHolder'
  BY DEF Inv, Requests, OneHolder, Takes, LockFree
<1>2. \A v \in Worker : Fit(worker'[v], file', tomb', issued', receipt')
  OBVIOUS
<1> QED BY <1>1, <1>2 DEF Requests

LEMMA OnlyOne ==
    ASSUME Inv, NEW w \in Worker, NEW r \in WorkerState, worker' = [worker EXCEPT ![w] = r]
    PROVE  /\ worker' \in [Worker -> WorkerState] /\ worker'[w] = r
           /\ \A v \in Worker : v # w => worker'[v] = worker[v]
BY DEF Inv, Requests

\* The step leaves the file and the ledger alone.
LEMMA QuietRequests ==
    ASSUME Inv, NEW w \in Worker, NEW r \in WorkerState, up, up' = up, Takes(w, r),
           worker' = [worker EXCEPT ![w] = r], Fit(r, file, tomb, issued, receipt),
           file' = file, tomb' = tomb, issued' = issued, receipt' = receipt
    PROVE  Requests'
<1>1. \A v \in Worker : v # w => /\ worker'[v].pc = worker[v].pc
                                 /\ Fit(worker'[v], file', tomb', issued', receipt')
  BY OnlyOne DEF Inv, Requests
<1> QED BY <1>1, OnlyOne, RequestsKept

\* A step under the lock: the others are without it.
LEMMA LockedRequests ==
    ASSUME Inv, NEW w \in Worker, NEW r \in WorkerState, up' = up, worker[w].pc \in Locked,
           worker' = [worker EXCEPT ![w] = r], Fit(r, file', tomb', issued', receipt'),
           tomb' \in Nat, tomb <= tomb', Extends(issued, issued'), Extends(receipt, receipt')
    PROVE  Requests'
<1>1. up
  BY ServingUp DEF Locked
<1>2. tomb \in Nat
  BY GenerationAssumption DEF Inv, Records, Stored
<1>3. ASSUME NEW v \in Worker, v # w
      PROVE  /\ worker'[v].pc = worker[v].pc
             /\ Fit(worker'[v], file', tomb', issued', receipt')
  <2>1. worker[v].pc \notin Locked /\ worker[v] \in WorkerState
           /\ Fit(worker[v], file, tomb, issued, receipt)
    BY <1>3 DEF Inv, Requests, OneHolder
  <2> QED BY <2>1, <1>2, <1>3, OnlyOne, UnlockedFits
<1> QED BY <1>1, <1>3, OnlyOne, RequestsKept DEF Takes

\* openDatabase, with or without the lock.
LEMMA FreshRequests ==
    ASSUME Inv, NEW w \in Worker, NEW r \in WorkerState, up, up' = up, Takes(w, r),
           worker' = [worker EXCEPT ![w] = r], Fit(r, file', tomb', issued', receipt'),
           file' = (IF file = NoFile THEN Fresh ELSE file),
           tomb' = tomb, issued' = issued, receipt' = receipt
    PROVE  Requests'
<1>1. ASSUME NEW v \in Worker, v # w
      PROVE  /\ worker'[v].pc = worker[v].pc
             /\ Fit(worker'[v], file', tomb', issued', receipt')
  <2>1. worker'[v] = worker[v] /\ worker[v] \in WorkerState
           /\ Fit(worker[v], file, tomb, issued, receipt)
    BY <1>1, OnlyOne DEF Inv, Requests
  <2>2. CASE file = NoFile
    BY <2>1, <2>2, FreshFits
  <2>3. CASE file # NoFile
    BY <2>1, <2>3
  <2> QED BY <2>2, <2>3
<1> QED BY <1>1, OnlyOne, RequestsKept

\* removeUserFiles, with or without the lock.
LEMMA RemoveRequests ==
    ASSUME Inv, NEW w \in Worker, NEW r \in WorkerState, up, up' = up, Takes(w, r),
           Remove(w, r), Fit(r, NoFile, tomb, issued, receipt),
           tomb' = tomb, issued' = issued, receipt' = receipt
    PROVE  Requests'
<1>1. file' = NoFile /\ worker' = [v \in Worker |-> IF v = w THEN r ELSE Unlinked(worker[v], file)]
  BY DEF Remove, Unlinked
<1>2. \A v \in Worker : worker[v] \in WorkerState /\ Fit(worker[v], file, tomb, issued, receipt)
  BY DEF Inv, Requests
<1>3. file \in File /\ FileSound(file, issued)
  BY DEF Inv, Records, Stored
<1>4. \A v \in Worker : /\ Unlinked(worker[v], file) \in WorkerState
                        /\ Unlinked(worker[v], file).pc = worker[v].pc
                        /\ Fit(Unlinked(worker[v], file), NoFile, tomb, issued, receipt)
  BY <1>2, <1>3, UnlinkedFits
<1>5. worker' \in [Worker -> WorkerState] /\ worker'[w] = r
         /\ \A v \in Worker : v # w => worker'[v] = Unlinked(worker[v], file)
  BY <1>1, <1>4
<1> QED BY <1>1, <1>4, <1>5, RequestsKept

\* The records' part of a step that leaves ledger and history alone.
LEMMA SameLedger ==
    ASSUME Inv, up' = up, tomb' = tomb, life' = life, receipt' = receipt, backup' = backup,
           issued' = issued, acked' = acked, file' \in File, FileSound(file', issued)
    PROVE  Records'
BY DEF Inv, Records, Stored, ReceiptsIssued, ConfirmationDurable, InventoryValid

LEMMA QuietInv ==
    ASSUME Inv, NEW w \in Worker, NEW r \in WorkerState, up, Takes(w, r), Goto(w, r),
           Fit(r, file, tomb, issued, receipt),
           UNCHANGED <<up, file, ledger, backup, issued, acked>>
    PROVE  Inv'
<1>1. Records'
  BY SameLedger DEF Inv, Records, Stored, ledger
<1>2. Requests'
  BY QuietRequests DEF Goto, ledger
<1> QED BY <1>1, <1>2 DEF Inv

LEMMA RemoveInv ==
    ASSUME Inv, NEW w \in Worker, NEW r \in WorkerState, up, Takes(w, r), Remove(w, r),
           Fit(r, NoFile, tomb, issued, receipt),
           UNCHANGED <<up, ledger, backup, issued, acked>>
    PROVE  Inv'
<1>1. Records'
  BY SameLedger, EmptyFiles DEF Remove, ledger
<1>2. Requests'
  BY RemoveRequests DEF ledger
<1> QED BY <1>1, <1>2 DEF Inv

LEMMA FreshInv ==
    ASSUME Inv, NEW w \in Worker, NEW r \in WorkerState, up, Takes(w, r), Goto(w, r),
           file' = (IF file = NoFile THEN Fresh ELSE file), Fit(r, file', tomb, issued, receipt),
           UNCHANGED <<up, ledger, backup, issued, acked>>
    PROVE  Inv'
<1>1. file' \in File /\ FileSound(file', issued)
  BY EmptyFiles DEF Inv, Records, Stored
<1>2. Records'
  BY <1>1, SameLedger DEF ledger
<1>3. Requests'
  BY FreshRequests DEF Goto, ledger
<1> QED BY <1>2, <1>3 DEF Inv

\* A request that gives up.
LEMMA DoneInv ==
    ASSUME Inv, NEW w \in Worker, worker[w].pc # "idle", Done(w),
           UNCHANGED <<up, file, ledger, backup, issued, acked>>
    PROVE  Inv'
<1>1. Takes(w, IdleWorker)
  BY IdleFits DEF Takes, Locked
<1> QED BY <1>1, IdleFits, ServingUp, QuietInv DEF Done

LEMMA RemoveDoneInv ==
    ASSUME Inv, NEW w \in Worker, worker[w].pc # "idle", Remove(w, IdleWorker),
           UNCHANGED <<up, ledger, backup, issued, acked>>
    PROVE  Inv'
<1>1. Takes(w, IdleWorker)
  BY IdleFits DEF Takes, Locked
<1> QED BY <1>1, IdleFits, ServingUp, RemoveInv

LEMMA WorkerTyped ==
    ASSUME Inv, NEW w \in Worker
    PROVE  worker[w] \in WorkerState /\ Fit(worker[w], file, tomb, issued, receipt)
BY DEF Inv, Requests

-----------------------------------------------------------------------------
(* Signing in *)

LEMMA SignInInv ==
    ASSUME Inv, NEW w \in Worker, SignIn(w)
    PROVE  Inv'
<1> DEFINE r == [IdleWorker EXCEPT !.pc = "openUser", !.kind = "signIn"]
<1>1. r \in WorkerState /\ r.pc = "openUser" /\ r.held = NoFile
  BY IdleFits DEF WorkerState, Phase, Locked
<1>2. Fit(r, file, tomb, issued, receipt)
  BY <1>1, EmptyFiles DEF Fit, SignInFit, UseFit, DeleteFit, Settled
<1> QED BY <1>1, <1>2, QuietInv DEF SignIn, Takes

LEMMA OpenUserInv ==
    ASSUME Inv, NEW w \in Worker, OpenUser(w)
    PROVE  Inv'
<1> DEFINE q == worker[w]
           kept == file.gen > tomb
           p == IF kept THEN "session" ELSE IF file = NoFile THEN "create" ELSE "replace"
           r == [q EXCEPT !.deleted = tomb, !.gen = IF kept THEN file.gen ELSE 0,
                          !.linked = kept, !.pc = p]
<1>0. /\ q.pc = "openUser" /\ q \in WorkerState /\ FileSound(q.held, issued)
      /\ file \in File /\ tomb \in 0 .. MaxGeneration
  BY WorkerTyped DEF OpenUser, Fit, Inv, Records, Stored
<1>1. /\ r \in WorkerState /\ r.pc = p /\ r.held = q.held /\ r.deleted = tomb /\ r.linked = kept
      /\ r.gen = IF kept THEN file.gen ELSE 0
  <2>1. tomb \in 0 .. MaxGeneration /\ (IF kept THEN file.gen ELSE 0) \in 0 .. MaxGeneration
           /\ kept \in BOOLEAN /\ p \in Phase
    BY <1>0, GenerationAssumption DEF File, Phase, Locked
  <2> QED BY <1>0, <2>1 DEF WorkerState
<1>2. Fit(r, file, tomb, issued, receipt)
  <2>1. tomb \in Nat /\ file.gen \in Nat
    BY <1>0, GenerationAssumption DEF File
  <2>2. SignInFit(r, file, tomb)
    BY <1>1, <2>1 DEF SignInFit
  <2>3. UseFit(r, tomb) /\ DeleteFit(r, tomb, issued, receipt)
    BY <1>1 DEF UseFit, DeleteFit, Settled
  <2> QED BY <1>0, <1>1, <2>2, <2>3 DEF Fit
<1>3. Takes(w, r) /\ up
  BY <1>0, ServingUp DEF Takes, Locked
<1> QED BY <1>1, <1>2, <1>3, QuietInv DEF OpenUser

LEMMA ReplaceDeletedInv ==
    ASSUME Inv, NEW w \in Worker, ReplaceDeleted(w)
    PROVE  Inv'
<1> DEFINE q == worker[w]
           r == [q EXCEPT !.pc = "create"]
<1>0. /\ q.pc = "replace" /\ q \in WorkerState /\ FileSound(q.held, issued) /\ q.deleted <= tomb
  BY WorkerTyped DEF ReplaceDeleted, Fit, SignInFit
<1>1. r \in WorkerState /\ r.pc = "create" /\ r.held = q.held /\ r.deleted = q.deleted
  BY <1>0 DEF WorkerState, Phase, Locked
<1>2. Fit(r, NoFile, tomb, issued, receipt)
  BY <1>0, <1>1 DEF Fit, SignInFit, UseFit, DeleteFit, Settled
<1>3. Takes(w, r) /\ up
  BY <1>0, ServingUp DEF Takes, Locked
<1> QED BY <1>1, <1>2, <1>3, RemoveInv DEF ReplaceDeleted

LEMMA CreateFileInv ==
    ASSUME Inv, NEW w \in Worker, CreateFile(w)
    PROVE  Inv'
<1> DEFINE q == worker[w]
           r == [q EXCEPT !.pc = "bind", !.linked = TRUE, !.gen = q.deleted + 1]
<1>0. /\ q.pc = "create" /\ q \in WorkerState /\ FileSound(q.held, issued) /\ q.deleted <= tomb
      /\ file \in {NoFile, Fresh} /\ tomb \in Nat
  BY WorkerTyped, GenerationAssumption DEF CreateFile, Fit, SignInFit, Inv, Records, Stored
<1>1. file' = Fresh /\ file' = (IF file = NoFile THEN Fresh ELSE file)
         /\ UNCHANGED <<up, ledger, backup, issued, acked>>
  BY <1>0 DEF CreateFile
<1>2. up
  BY <1>0, ServingUp
<1>3. CASE q.deleted = MaxGeneration
  <2>1. Goto(w, IdleWorker) /\ Takes(w, IdleWorker)
    BY <1>3, IdleFits DEF CreateFile, Done, Takes, Locked
  <2> QED BY <2>1, <1>1, <1>2, IdleFits, FreshInv
<1>4. CASE q.deleted # MaxGeneration
  <2>1. q.deleted + 1 \in 0 .. MaxGeneration /\ q.deleted \in Nat
    BY <1>0, <1>4, GenerationAssumption DEF WorkerState
  <2>2. r \in WorkerState /\ r.pc = "bind" /\ r.held = q.held /\ r.linked = TRUE
           /\ r.gen = q.deleted + 1
    BY <1>0, <2>1 DEF WorkerState, Phase, Locked
  <2>3. SignInFit(r, Fresh, tomb)
    BY <1>0, <2>1, <2>2 DEF SignInFit
  <2>4. Fit(r, file', tomb, issued, receipt)
    BY <1>0, <1>1, <2>2, <2>3 DEF Fit, UseFit, DeleteFit, Settled
  <2>5. Takes(w, r) /\ Goto(w, r)
    BY <1>0, <1>4 DEF Takes, Locked, CreateFile
  <2> QED BY <1>1, <1>2, <2>2, <2>4, <2>5, FreshInv
<1> QED BY <1>3, <1>4

LEMMA BindLifecycleInv ==
    ASSUME Inv, NEW w \in Worker, BindLifecycle(w)
    PROVE  Inv'
<1> DEFINE q == worker[w]
           g == q.gen
           r == [q EXCEPT !.pc = "stamp"]
<1>0. /\ q.pc = "bind" /\ q \in WorkerState /\ Fit(q, file, tomb, issued, receipt)
      /\ UNCHANGED <<up, file, tomb, receipt, backup, issued, acked>>
  BY WorkerTyped DEF BindLifecycle
<1>1. CASE Done(w) /\ UNCHANGED life
  BY <1>0, <1>1, DoneInv DEF ledger
<1>2. CASE life' = [gen |-> g, state |-> "active"] /\ Goto(w, r)
  <2>1. r \in WorkerState /\ r.pc = "stamp" /\ r.held = q.held /\ r.linked = q.linked /\ r.gen = g
    BY <1>0 DEF WorkerState, Phase, Locked
  <2>2. Fit(r, file, tomb, issued, receipt)
    BY <1>0, <2>1 DEF Fit, SignInFit, UseFit, DeleteFit, Settled
  <2>3. Takes(w, r) /\ up
    BY <1>0, ServingUp DEF Takes, Locked
  <2>4. Requests'
    BY <1>0, <1>2, <2>1, <2>2, <2>3, QuietRequests DEF Goto
  <2>5. g \in 0 .. MaxGeneration /\ g <= tomb + 1
    BY <1>0 DEF WorkerState, Fit, SignInFit
  <2>6. life' \in Life /\ life'.gen = g /\ life'.state = "active"
    BY <1>2, <2>5 DEF Life
  <2>7. Records'
    BY <1>0, <2>5, <2>6 DEF Inv, Records, Stored, ReceiptsIssued, ConfirmationDurable, InventoryValid
  <2> QED BY <2>4, <2>7 DEF Inv
<1> QED BY <1>1, <1>2 DEF BindLifecycle

\* The file is still the empty one: no session changes its generation.
LEMMA StampGenerationInv ==
    ASSUME Inv, NEW w \in Worker, StampGeneration(w)
    PROVE  Inv'
<1> DEFINE q == worker[w]
<1>0. /\ q.pc = "stamp" /\ q \in WorkerState /\ Fit(q, file, tomb, issued, receipt)
      /\ q.gen # 0 /\ q.pc \in Locked /\ tomb \in Nat /\ q.gen \in 0 .. MaxGeneration
      /\ UNCHANGED <<up, ledger, backup, issued, acked>>
  BY WorkerTyped, GenerationAssumption
     DEF StampGeneration, Fit, SignInFit, Locked, Inv, Records, Stored, WorkerState
<1>1. /\ Extends(issued, issued') /\ Extends(receipt, receipt')
      /\ tomb' \in Nat /\ tomb <= tomb' /\ up' = up
  BY <1>0 DEF Extends, ledger
<1>2. CASE q.linked
  <2> DEFINE r == [q EXCEPT !.pc = "session"]
  <2>1. file = Fresh /\ file' = [file EXCEPT !.gen = q.gen] /\ Goto(w, r)
    BY <1>0, <1>2 DEF StampGeneration, Fit, SignInFit
  <2>2. file' \in File /\ file'.gen = q.gen /\ file'.sessions = {}
    BY <1>0, <2>1, EmptyFiles DEF File
  <2>3. r \in WorkerState /\ r.pc = "session" /\ r.held = q.held /\ r.gen = q.gen
    BY <1>0 DEF WorkerState, Phase, Locked
  <2>4. Fit(r, file', tomb', issued', receipt')
    BY <1>0, <2>2, <2>3 DEF Fit, SignInFit, UseFit, DeleteFit, Settled, ledger
  <2>5. Requests'
    BY <1>0, <1>1, <2>1, <2>3, <2>4, LockedRequests DEF Goto
  <2>6. Records'
    BY <1>0, <2>2, SameLedger DEF FileSound, ledger
  <2> QED BY <2>5, <2>6 DEF Inv
<1>3. CASE ~q.linked
  <2> DEFINE h == [q.held EXCEPT !.gen = q.gen]
             r == [q EXCEPT !.pc = "session", !.held = h]
  <2>1. file' = file /\ Goto(w, [q EXCEPT !.pc = "session", !.held.gen = q.gen])
    BY <1>3 DEF StampGeneration
  <2>2. [q EXCEPT !.pc = "session", !.held.gen = q.gen] = r
    BY <1>0 DEF WorkerState
  <2>3. q.held \in File /\ q.held.sessions = {}
    BY <1>0, <1>3 DEF WorkerState, Fit, SignInFit
  <2>4. h \in File /\ h.sessions = {}
    BY <1>0, <2>3 DEF File
  <2>5. r \in WorkerState /\ r.pc = "session" /\ r.held = h /\ r.gen = q.gen /\ r.linked = q.linked
    BY <1>0, <2>4 DEF WorkerState, Phase, Locked
  <2>6. Fit(r, file', tomb', issued', receipt')
    BY <1>0, <1>3, <2>4, <2>5 DEF Fit, FileSound, SignInFit, UseFit, DeleteFit, Settled
  <2>7. Requests'
    BY <1>0, <1>1, <2>1, <2>2, <2>5, <2>6, LockedRequests DEF Goto
  <2>8. Records'
    BY <1>0, <2>1, SameLedger DEF Inv, Records, Stored, ledger
  <2> QED BY <2>7, <2>8 DEF Inv
<1> QED BY <1>2, <1>3

\* A token that was never issued is in no file and has no receipt.
LEMMA CreateSessionInv ==
    ASSUME Inv, NEW w \in Worker, CreateSession(w)
    PROVE  Inv'
<1> DEFINE q == worker[w]
<1>0. /\ q.pc = "session" /\ q \in WorkerState /\ Fit(q, file, tomb, issued, receipt)
      /\ q.gen # 0 /\ q.pc \in Locked /\ tomb \in Nat /\ q.gen \in 0 .. MaxGeneration
      /\ Goto(w, IdleWorker) /\ UNCHANGED <<up, ledger, backup, acked>>
  BY WorkerTyped, GenerationAssumption
     DEF CreateSession, Done, Fit, SignInFit, Locked, Inv, Records, Stored, WorkerState
<1>1. PICK c \in Credential :
         /\ issued[c] = 0 /\ issued' = [issued EXCEPT ![c] = q.gen]
         /\ file' = IF q.linked THEN [file EXCEPT !.sessions = @ \cup {c}] ELSE file
  BY DEF CreateSession
<1>2. /\ issued' \in [Credential -> 0 .. MaxGeneration] /\ issued'[c] = q.gen
      /\ \A b \in Credential : b # c => issued'[b] = issued[b]
  BY <1>0, <1>1 DEF Inv, Records, Stored
<1>3. /\ Extends(issued, issued') /\ Extends(receipt, receipt')
      /\ tomb' \in Nat /\ tomb <= tomb' /\ up' = up
  BY <1>0, <1>1, <1>2 DEF Extends, ledger
<1>4. Requests'
  BY <1>0, <1>3, IdleFits, LockedRequests DEF Goto, ledger
<1>5. file \in File /\ backup \in File /\ FileSound(file, issued') /\ FileSound(backup, issued')
  BY <1>3, FileSoundStays DEF Inv, Records, Stored
<1>6. file' \in File /\ FileSound(file', issued')
  <2>1. CASE q.linked
    <3>1. file.gen = q.gen
      BY <1>0, <2>1 DEF Fit, SignInFit
    <3>2. file' \in File /\ file'.gen = q.gen /\ file'.sessions = file.sessions \cup {c}
      BY <1>1, <1>5, <2>1, <3>1 DEF File
    <3> QED BY <1>0, <1>2, <1>5, <3>1, <3>2 DEF FileSound
  <2>2. CASE ~q.linked
    BY <1>1, <1>5, <2>2
  <2> QED BY <2>1, <2>2
<1>7. ReceiptsIssued' /\ ConfirmationDurable'
  <2>1. receipt' = receipt /\ acked' = acked /\ tomb' = tomb
    BY <1>0 DEF ledger
  <2>2. receipt[c] = 0 /\ acked[c] = 0
    BY <1>1 DEF Inv, Records, ReceiptsIssued, ConfirmationDurable
  <2> QED BY <1>2, <2>1, <2>2 DEF Inv, Records, ReceiptsIssued, ConfirmationDurable
<1>8. Records'
  BY <1>0, <1>2, <1>5, <1>6, <1>7 DEF Inv, Records, Stored, InventoryValid, ledger
<1> QED BY <1>4, <1>8 DEF Inv

-----------------------------------------------------------------------------
(* Authentication and use *)

LEMMA ArriveInv ==
    ASSUME Inv, NEW w \in Worker, NEW c \in Credential, NEW kind \in {"use", "delete"},
           Arrive(w, c, kind)
    PROVE  Inv'
<1> DEFINE r == [IdleWorker EXCEPT !.pc = "open", !.kind = kind, !.cred = {c}]
<1>1. r \in WorkerState /\ r.pc = "open" /\ r.held = NoFile /\ r.cred = {c}
  BY IdleFits DEF WorkerState, Phase
<1>2. Fit(r, file, tomb, issued, receipt)
  BY <1>1, EmptyFiles DEF Fit, SignInFit, UseFit, DeleteFit, Settled
<1>3. Takes(w, r)
  BY <1>1 DEF Takes, Locked
<1> QED BY <1>1, <1>2, <1>3, QuietInv DEF Arrive

LEMMA OpenExistingInv ==
    ASSUME Inv, NEW w \in Worker, OpenExisting(w)
    PROVE  Inv'
<1> DEFINE q == worker[w]
           f == IF file = NoFile THEN Fresh ELSE file
           r == [q EXCEPT !.pc = "check", !.gen = f.gen, !.linked = TRUE]
<1>0. /\ q.pc = "open" /\ q \in WorkerState /\ Fit(q, file, tomb, issued, receipt)
      /\ file' = f /\ Goto(w, r) /\ UNCHANGED <<up, ledger, backup, issued, acked>>
  BY WorkerTyped DEF OpenExisting
<1>1. f.gen \in 0 .. MaxGeneration
  BY EmptyFiles DEF Inv, Records, Stored, File
<1>2. r \in WorkerState /\ r.pc = "check" /\ r.held = q.held /\ r.cred = q.cred
  BY <1>0, <1>1 DEF WorkerState, Phase
<1>3. Fit(r, file', tomb, issued, receipt)
  BY <1>0, <1>2 DEF Fit, SignInFit, UseFit, DeleteFit, Settled
<1>4. Takes(w, r) /\ up
  BY <1>0, <1>2, ServingUp DEF Takes, Locked
<1> QED BY <1>0, <1>2, <1>3, <1>4, FreshInv

LEMMA CheckDeletedInv ==
    ASSUME Inv, NEW w \in Worker, CheckDeleted(w)
    PROVE  Inv'
<1> DEFINE q == worker[w]
           p == IF q.gen > tomb THEN "lookup" ELSE "remove"
           r == [q EXCEPT !.pc = p]
<1>0. q.pc = "check" /\ q \in WorkerState /\ Fit(q, file, tomb, issued, receipt)
  BY WorkerTyped DEF CheckDeleted
<1>1. r \in WorkerState /\ r.pc = p /\ p \in {"lookup", "remove"} /\ r.held = q.held
         /\ r.cred = q.cred
  BY <1>0 DEF WorkerState, Phase
<1>2. Fit(r, file, tomb, issued, receipt)
  BY <1>0, <1>1 DEF Fit, SignInFit, UseFit, DeleteFit, Settled
<1>3. Takes(w, r) /\ up
  BY <1>0, <1>1, ServingUp DEF Takes, Locked
<1> QED BY <1>1, <1>2, <1>3, QuietInv DEF CheckDeleted

\* A file with the token's row has a generation, at the path or unlinked.
LEMMA AuthenticateInv ==
    ASSUME Inv, NEW w \in Worker, Authenticate(w)
    PROVE  Inv'
<1> DEFINE q == worker[w]
           f == IF q.linked THEN file ELSE q.held
           r == [q EXCEPT !.pc = "authorized", !.gen = f.gen, !.linked = FALSE, !.held = NoFile]
<1>0. /\ q.pc = "lookup" /\ q \in WorkerState /\ Fit(q, file, tomb, issued, receipt)
      /\ UNCHANGED <<up, file, ledger, backup, issued, acked>> /\ Shown(w) = f
  BY WorkerTyped DEF Authenticate, Shown
<1>1. CASE Done(w)
  BY <1>0, <1>1, DoneInv
<1>2. CASE q.cred \subseteq f.sessions /\ Goto(w, r)
  <2>1. f \in File /\ FileSound(f, issued) /\ q.cred # {}
    BY <1>0 DEF Inv, Records, Stored, WorkerState, Fit, UseFit
  <2>2. f.gen # 0 /\ f.gen \in 0 .. MaxGeneration
    BY <1>2, <2>1 DEF FileSound, File
  <2>3. r \in WorkerState /\ r.pc = "authorized" /\ r.held = NoFile /\ r.gen = f.gen
    BY <1>0, <2>2, EmptyFiles DEF WorkerState, Phase
  <2>4. Fit(r, file, tomb, issued, receipt)
    BY <2>2, <2>3, EmptyFiles DEF Fit, SignInFit, UseFit, DeleteFit, Settled
  <2>5. Takes(w, r) /\ up
    BY <1>0, <2>3, ServingUp DEF Takes, Locked
  <2> QED BY <1>0, <1>2, <2>3, <2>4, <2>5, QuietInv
<1> QED BY <1>0, <1>1, <1>2 DEF Authenticate

\* Under the lock the generation is compared with the file and the file with the
\* tombstone.
LEMMA BeginUseInv ==
    ASSUME Inv, NEW w \in Worker, BeginUse(w)
    PROVE  Inv'
<1> DEFINE q == worker[w]
           r == [q EXCEPT !.pc = "using", !.linked = TRUE]
<1>0. /\ q.pc = "authorized" /\ q \in WorkerState /\ Fit(q, file, tomb, issued, receipt)
      /\ LockFree /\ UNCHANGED <<up, ledger, backup, issued, acked>>
  BY WorkerTyped DEF BeginUse
<1>1. CASE Remove(w, IdleWorker)
  BY <1>0, <1>1, RemoveDoneInv
<1>2. CASE Done(w) /\ UNCHANGED file
  BY <1>0, <1>2, DoneInv
<1>3. CASE /\ ~(file # NoFile /\ file.gen <= tomb) /\ file.gen = q.gen
           /\ Goto(w, r) /\ UNCHANGED file
  <2>1. q.gen # 0 /\ file.gen \in Nat /\ tomb \in Nat
    BY <1>0, GenerationAssumption DEF Fit, UseFit, Inv, Records, Stored, File
  <2>2. q.gen > tomb
    BY <1>3, <2>1, EmptyFiles
  <2>3. r \in WorkerState /\ r.pc = "using" /\ r.held = q.held /\ r.gen = q.gen
    BY <1>0 DEF WorkerState, Phase, Locked
  <2>4. Fit(r, file, tomb, issued, receipt)
    BY <1>0, <2>2, <2>3 DEF Fit, SignInFit, UseFit, DeleteFit, Settled
  <2>5. Takes(w, r) /\ up
    BY <1>0, ServingUp DEF Takes
  <2> QED BY <1>0, <1>3, <2>3, <2>4, <2>5, QuietInv
<1> QED BY <1>1, <1>2, <1>3 DEF BeginUse

LEMMA RevokeInv ==
    ASSUME Inv, NEW w \in Worker, Revoke(w)
    PROVE  Inv'
<1> DEFINE q == worker[w]
<1>0. /\ q.pc = "using" /\ q.pc \in Locked /\ file' = [file EXCEPT !.sessions = @ \ q.cred]
      /\ Goto(w, IdleWorker) /\ UNCHANGED <<up, ledger, backup, issued, acked>> /\ tomb \in Nat
  BY GenerationAssumption DEF Revoke, Done, Locked, Inv, Records, Stored
<1>1. file \in File /\ FileSound(file, issued)
  BY DEF Inv, Records, Stored
<1>2. file' \in File /\ file'.gen = file.gen /\ file'.sessions \subseteq file.sessions
  BY <1>0, <1>1 DEF File
<1>3. Records'
  BY <1>0, <1>1, <1>2, SameLedger DEF FileSound, ledger
<1>4. /\ Extends(issued, issued') /\ Extends(receipt, receipt')
      /\ tomb' \in Nat /\ tomb <= tomb' /\ up' = up
  BY <1>0 DEF Extends, ledger
<1>5. Requests'
  BY <1>0, <1>4, IdleFits, LockedRequests DEF Goto
<1> QED BY <1>3, <1>5 DEF Inv

-----------------------------------------------------------------------------
(* Deletion *)

\* A committed receipt names the generation of its credential.
LEMMA CommittedFacts ==
    ASSUME Inv, NEW c \in Credential, Committed(c)
    PROVE  /\ receipt[c] # 0 /\ receipt[c] \in 0 .. MaxGeneration
           /\ issued[c] = receipt[c] /\ receipt[c] <= tomb
BY GenerationAssumption DEF Inv, Records, Stored, ReceiptsIssued, Committed

LEMMA ArriveWithReceiptInv ==
    ASSUME Inv, NEW w \in Worker, NEW c \in Credential,
           ArriveWithReceipt(w, c) \/ LookupReceipt(w, c)
    PROVE  Inv'
<1>1. Committed(c) /\ up /\ UNCHANGED <<up, file, ledger, backup, issued, acked>>
  BY DEF ArriveWithReceipt, LookupReceipt
<1>2. /\ receipt[c] # 0 /\ receipt[c] \in 0 .. MaxGeneration
      /\ issued[c] = receipt[c] /\ receipt[c] <= tomb
  BY <1>1, CommittedFacts
<1>3. CASE ArriveWithReceipt(w, c)
  <2> DEFINE r == [IdleWorker EXCEPT !.pc = "authorized", !.kind = "delete", !.cred = {c},
                                     !.gen = receipt[c]]
  <2>1. r \in WorkerState /\ r.pc = "authorized" /\ r.held = NoFile /\ r.gen = receipt[c]
    BY <1>2, IdleFits DEF WorkerState, Phase
  <2>2. Fit(r, file, tomb, issued, receipt)
    BY <1>2, <2>1, EmptyFiles DEF Fit, SignInFit, UseFit, DeleteFit, Settled
  <2>3. Takes(w, r) /\ Goto(w, r)
    BY <1>3, <2>1 DEF Takes, Locked, ArriveWithReceipt
  <2> QED BY <1>1, <2>1, <2>2, <2>3, QuietInv
<1>4. CASE LookupReceipt(w, c)
  <2> DEFINE r == [IdleWorker EXCEPT !.pc = "ready", !.kind = "lookup", !.cred = {c},
                                     !.gen = receipt[c]]
  <2>1. r \in WorkerState /\ r.pc = "ready" /\ r.held = NoFile /\ r.gen = receipt[c] /\ r.cred = {c}
    BY <1>2, IdleFits DEF WorkerState, Phase
  <2>2. Fit(r, file, tomb, issued, receipt)
    BY <1>2, <2>1, EmptyFiles DEF Fit, SignInFit, UseFit, DeleteFit, Settled
  <2>3. Takes(w, r) /\ Goto(w, r)
    BY <1>4, <2>1 DEF Takes, Locked, LookupReceipt
  <2> QED BY <1>1, <2>1, <2>2, <2>3, QuietInv
<1> QED BY <1>3, <1>4

LEMMA BeginDeleteInv ==
    ASSUME Inv, NEW w \in Worker, NEW c \in Credential, BeginDelete(w, c)
    PROVE  Inv'
<1> DEFINE q == worker[w]
<1>0. /\ q.pc = "authorized" /\ q \in WorkerState /\ Fit(q, file, tomb, issued, receipt)
      /\ q.cred = {c} /\ q.gen # 0
      /\ LockFree /\ up /\ UNCHANGED <<up, ledger, backup, issued, acked>>
  BY WorkerTyped, ServingUp DEF BeginDelete, Fit, UseFit
<1>1. CASE Remove(w, IdleWorker)
  BY <1>0, <1>1, RemoveDoneInv
<1>2. CASE Done(w) /\ UNCHANGED file
  BY <1>0, <1>2, DoneInv
<1>3. CASE Committed(c) /\ receipt[c] = q.gen /\ Goto(w, [q EXCEPT !.pc = "finish"]) /\ UNCHANGED file
  <2> DEFINE r == [q EXCEPT !.pc = "finish"]
  <2>1. r \in WorkerState /\ r.pc = "finish" /\ r.held = q.held /\ r.gen = q.gen /\ r.cred = {c}
    BY <1>0 DEF WorkerState, Phase, Locked
  <2>2. issued[c] = q.gen /\ q.gen <= tomb
    BY <1>3, CommittedFacts
  <2>3. Fit(r, file, tomb, issued, receipt)
    BY <1>0, <1>3, <2>1, <2>2 DEF Fit, SignInFit, UseFit, DeleteFit, Settled
  <2> QED BY <1>0, <1>3, <2>1, <2>3, QuietInv DEF Takes
<1>4. CASE /\ file.gen = q.gen /\ c \in file.sessions
           /\ Goto(w, [q EXCEPT !.pc = "receipt"]) /\ UNCHANGED file
  <2> DEFINE r == [q EXCEPT !.pc = "receipt"]
  <2>1. r \in WorkerState /\ r.pc = "receipt" /\ r.held = q.held /\ r.gen = q.gen /\ r.cred = {c}
    BY <1>0 DEF WorkerState, Phase, Locked
  <2>2. issued[c] = q.gen
    BY <1>4 DEF Inv, Records, FileSound
  <2>3. Fit(r, file, tomb, issued, receipt)
    BY <1>0, <2>1, <2>2 DEF Fit, SignInFit, UseFit, DeleteFit, Settled
  <2> QED BY <1>0, <1>4, <2>1, <2>3, QuietInv DEF Takes
<1> QED BY <1>1, <1>2, <1>3, <1>4 DEF BeginDelete

LEMMA WriteReceiptInv ==
    ASSUME Inv, NEW w \in Worker, NEW c \in Credential, WriteReceipt(w, c)
    PROVE  Inv'
<1> DEFINE q == worker[w]
           r == [q EXCEPT !.pc = "tombstone"]
<1>0. /\ q.pc = "receipt" /\ q.pc \in Locked /\ q \in WorkerState
      /\ Fit(q, file, tomb, issued, receipt)
      /\ q.cred = {c} /\ q.gen # 0 /\ issued[c] = q.gen /\ q.gen \in 0 .. MaxGeneration
      /\ receipt' = [receipt EXCEPT ![c] = q.gen] /\ Goto(w, r)
      /\ UNCHANGED <<up, file, tomb, life, backup, issued, acked>> /\ tomb \in Nat
  BY WorkerTyped, GenerationAssumption
     DEF WriteReceipt, Fit, DeleteFit, WorkerState, Locked, Inv, Records, Stored
<1>1. /\ receipt' \in [Credential -> 0 .. MaxGeneration] /\ receipt'[c] = q.gen
      /\ \A b \in Credential : b # c => receipt'[b] = receipt[b]
  BY <1>0 DEF Inv, Records, Stored
<1>2. /\ Extends(issued, issued') /\ Extends(receipt, receipt')
      /\ tomb' \in Nat /\ tomb <= tomb' /\ up' = up
  BY <1>0, <1>1 DEF Extends, Inv, Records, ReceiptsIssued
<1>3. r \in WorkerState /\ r.pc = "tombstone" /\ r.held = q.held /\ r.gen = q.gen /\ r.cred = {c}
  BY <1>0 DEF WorkerState, Phase, Locked
<1>4. Fit(r, file', tomb', issued', receipt')
  BY <1>0, <1>1, <1>3 DEF Fit, SignInFit, UseFit, DeleteFit, Settled
<1>5. Requests'
  BY <1>0, <1>2, <1>3, <1>4, LockedRequests DEF Goto
<1>6. ReceiptsIssued' /\ ConfirmationDurable'
  BY <1>0, <1>1 DEF Inv, Records, ReceiptsIssued, ConfirmationDurable
<1>7. Records'
  BY <1>0, <1>1, <1>6 DEF Inv, Records, Stored, InventoryValid
<1> QED BY <1>5, <1>7 DEF Inv

LEMMA WriteTombstoneInv ==
    ASSUME Inv, NEW w \in Worker, WriteTombstone(w)
    PROVE  Inv'
<1> DEFINE q == worker[w]
           r == [q EXCEPT !.pc = "lifecycle"]
<1>0. /\ q.pc = "tombstone" /\ q.pc \in Locked /\ q \in WorkerState
      /\ Fit(q, file, tomb, issued, receipt)
      /\ q.gen \in 0 .. MaxGeneration /\ tomb \in 0 .. MaxGeneration
      /\ tomb' = Highest(tomb, q.gen) /\ Goto(w, r)
      /\ UNCHANGED <<up, file, life, receipt, backup, issued, acked>>
  BY WorkerTyped DEF WriteTombstone, WorkerState, Locked, Inv, Records, Stored
<1>1. tomb' \in 0 .. MaxGeneration /\ tomb' \in Nat /\ tomb <= tomb' /\ q.gen <= tomb' /\ tomb \in Nat
  BY <1>0, GenerationAssumption DEF Highest
<1>2. Extends(issued, issued') /\ Extends(receipt, receipt') /\ up' = up
  BY <1>0 DEF Extends
<1>3. r \in WorkerState /\ r.pc = "lifecycle" /\ r.held = q.held /\ r.gen = q.gen /\ r.cred = q.cred
  BY <1>0 DEF WorkerState, Phase, Locked
<1>4. Fit(r, file', tomb', issued', receipt')
  BY <1>0, <1>1, <1>3 DEF Fit, SignInFit, UseFit, DeleteFit, Settled
<1>5. Requests'
  BY <1>0, <1>1, <1>2, <1>3, <1>4, LockedRequests DEF Goto
<1>6. ConfirmationDurable'
  <2>1. \A c \in Credential : acked[c] \in Nat
    BY GenerationAssumption DEF Inv, Records, Stored
  <2>2. \A c \in Credential : acked[c] <= tomb => acked[c] <= tomb'
    BY <1>1, <2>1
  <2> QED BY <1>0, <2>2 DEF Inv, Records, ConfirmationDurable
<1>7. InventoryValid'
  <2>1. life.gen \in Nat
    BY GenerationAssumption DEF Inv, Records, Stored, Life
  <2> QED BY <1>0, <1>1, <2>1 DEF Inv, Records, InventoryValid
<1>8. Records'
  BY <1>0, <1>1, <1>6, <1>7 DEF Inv, Records, Stored, ReceiptsIssued
<1> QED BY <1>5, <1>8 DEF Inv

\* A deleted lifecycle record is never ahead of the tombstone.
LEMMA DeletedLifeValid ==
    ASSUME Inv, NEW g \in 0 .. MaxGeneration, g <= tomb
    PROVE  /\ DeletedLife(g) \in Life
           /\ DeletedLife(g).state = "deleted" => DeletedLife(g).gen <= tomb
           /\ DeletedLife(g).gen <= tomb + 1
<1>1. /\ life \in Life /\ (life.state = "deleted" => life.gen <= tomb)
      /\ life.gen <= tomb + 1 /\ tomb \in Nat /\ g \in Nat
  BY GenerationAssumption DEF Inv, Records, Stored, InventoryValid
<1>2. [gen |-> g, state |-> "deleted"] \in Life
  BY DEF Life
<1> QED BY <1>1, <1>2 DEF DeletedLife

LEMMA WriteLifecycleInv ==
    ASSUME Inv, NEW w \in Worker, WriteLifecycle(w)
    PROVE  Inv'
<1> DEFINE q == worker[w]
           r == [q EXCEPT !.pc = "finish"]
<1>0. /\ q.pc = "lifecycle" /\ q.pc \in Locked /\ q \in WorkerState
      /\ Fit(q, file, tomb, issued, receipt)
      /\ tomb \in 0 .. MaxGeneration /\ tomb \in Nat
      /\ life' = DeletedLife(tomb) /\ Goto(w, r)
      /\ UNCHANGED <<up, file, tomb, receipt, backup, issued, acked>>
  BY WorkerTyped, GenerationAssumption DEF WriteLifecycle, Locked, Inv, Records, Stored
<1>1. r \in WorkerState /\ r.pc = "finish" /\ r.held = q.held /\ r.gen = q.gen /\ r.cred = q.cred
  BY <1>0 DEF WorkerState, Phase, Locked
<1>2. Fit(r, file, tomb, issued, receipt)
  BY <1>0, <1>1 DEF Fit, SignInFit, UseFit, DeleteFit, Settled
<1>3. Requests'
  BY <1>0, <1>1, <1>2, ServingUp, QuietRequests DEF Goto, Takes
<1>4. /\ life' \in Life /\ (life'.state = "deleted" => life'.gen <= tomb)
      /\ life'.gen <= tomb + 1
  BY <1>0, DeletedLifeValid
<1>5. Records'
  BY <1>0, <1>4 DEF Inv, Records, Stored, ReceiptsIssued, ConfirmationDurable, InventoryValid
<1> QED BY <1>3, <1>5 DEF Inv

\* A 204: the tombstone, the receipt and the issued generation agree.
LEMMA ConfirmedRecords ==
    ASSUME Inv, NEW w \in Worker, NEW c \in Credential, worker[w].cred = {c},
           worker[w].pc \in {"finish", "ready"},
           acked' = [acked EXCEPT ![c] = worker[w].gen],
           file' \in File, FileSound(file', issued),
           UNCHANGED <<up, ledger, backup, issued>>
    PROVE  Records'
<1>1. /\ worker[w] \in WorkerState /\ worker[w].gen <= tomb
      /\ receipt[c] = worker[w].gen /\ issued[c] = worker[w].gen
  BY WorkerTyped DEF Fit, DeleteFit, Settled
<1>2. /\ acked' \in [Credential -> 0 .. MaxGeneration] /\ acked'[c] = worker[w].gen
      /\ \A b \in Credential : b # c => acked'[b] = acked[b]
  BY <1>1 DEF Inv, Records, Stored, WorkerState
<1>3. tomb \in Nat /\ worker[w].gen \in Nat
  BY <1>1, GenerationAssumption DEF Inv, Records, Stored, WorkerState
<1>4. ConfirmationDurable'
  BY <1>1, <1>2, <1>3 DEF Inv, Records, ConfirmationDurable, ledger
<1> QED BY <1>2, <1>4 DEF Inv, Records, Stored, ReceiptsIssued, InventoryValid, ledger

LEMMA ConfirmationInv ==
    ASSUME Inv, NEW w \in Worker, NEW c \in Credential, FinishDelete(w, c) \/ ConfirmReceipt(w, c)
    PROVE  Inv'
<1>1. /\ worker[w].cred = {c} /\ worker[w].pc \in {"finish", "ready"}
      /\ acked' = [acked EXCEPT ![c] = worker[w].gen] /\ UNCHANGED <<up, ledger, backup, issued>>
  BY DEF FinishDelete, ConfirmReceipt
<1>2. up /\ Takes(w, IdleWorker)
  BY <1>1, IdleFits, ServingUp DEF Takes, Locked
<1>3. CASE file' = file /\ Goto(w, IdleWorker)
  <2>1. Records'
    BY <1>1, <1>3, ConfirmedRecords DEF Inv, Records, Stored
  <2>2. Requests'
    BY <1>1, <1>2, <1>3, IdleFits, QuietRequests DEF Goto, ledger
  <2> QED BY <2>1, <2>2 DEF Inv
<1>4. CASE Remove(w, IdleWorker)
  <2>1. Records'
    BY <1>1, <1>4, ConfirmedRecords, EmptyFiles DEF Remove
  <2>2. Requests'
    BY <1>1, <1>2, <1>4, IdleFits, RemoveRequests DEF ledger
  <2> QED BY <2>1, <2>2 DEF Inv
<1> QED BY <1>3, <1>4 DEF FinishDelete, ConfirmReceipt, Done

-----------------------------------------------------------------------------
(* Crash, restart and restore *)

LEMMA OutageInv ==
    ASSUME Inv, Crash \/ TakeBackup \/ Restore \/ Start
    PROVE  Inv'
<1>1. CASE Crash
  <2>1. /\ up' = FALSE /\ worker' = [w \in Worker |-> IdleWorker]
        /\ file' = file /\ tomb' = tomb /\ life' = life /\ receipt' = receipt
        /\ backup' = backup /\ issued' = issued /\ acked' = acked
    BY <1>1 DEF Crash, ledger
  <2>2. Records'
    BY <2>1 DEF Inv, Records, Stored, ReceiptsIssued, ConfirmationDurable, InventoryValid
  <2>3. Requests'
    BY <2>1, IdleFits DEF Requests, OneHolder, Locked
  <2> QED BY <2>2, <2>3 DEF Inv
<1>2. ASSUME ~up, worker' = worker, up' \in BOOLEAN, file' \in File, backup' \in File,
             FileSound(file', issued), FileSound(backup', issued),
             life' \in Life, life'.state = "deleted" => life'.gen <= tomb, life'.gen <= tomb + 1,
             tomb' = tomb, receipt' = receipt, issued' = issued, acked' = acked
      PROVE  Inv'
  <2>1. Records'
    BY <1>2 DEF Inv, Records, Stored, ReceiptsIssued, ConfirmationDurable, InventoryValid
  <2>2. \A w \in Worker : worker'[w] = IdleWorker
    BY <1>2 DEF Inv, Requests
  <2>3. Requests'
    BY <1>2, <2>2, IdleFits DEF Inv, Requests, OneHolder, Locked
  <2> QED BY <2>1, <2>3 DEF Inv
<1>3. /\ file \in File /\ backup \in File /\ FileSound(file, issued) /\ FileSound(backup, issued)
      /\ life \in Life /\ (life.state = "deleted" => life.gen <= tomb) /\ life.gen <= tomb + 1
  BY DEF Inv, Records, Stored, InventoryValid
<1>4. CASE TakeBackup \/ Restore
  BY <1>2, <1>3, <1>4 DEF TakeBackup, Restore, ledger, Inv, Records, Stored
<1>5. CASE Start
  <2>1. /\ ~up /\ worker' = worker /\ up' \in BOOLEAN /\ backup' = backup
        /\ tomb' = tomb /\ receipt' = receipt /\ issued' = issued /\ acked' = acked
    BY <1>5 DEF Start
  <2>2. CASE life' = life /\ file' = file
    BY <1>2, <1>3, <2>1, <2>2
  <2>3. CASE file.gen <= tomb /\ life' = DeletedLife(file.gen) /\ file' \in {file, NoFile}
    <3>1. file.gen \in 0 .. MaxGeneration
      BY <1>3 DEF File
    <3>2. /\ life' \in Life /\ (life'.state = "deleted" => life'.gen <= tomb)
          /\ life'.gen <= tomb + 1
      BY <2>3, <3>1, DeletedLifeValid
    <3>3. file' \in File /\ FileSound(file', issued)
      BY <1>3, <2>3, EmptyFiles
    <3> QED BY <1>2, <1>3, <2>1, <3>2, <3>3
  <2> QED BY <1>5, <2>2, <2>3 DEF Start
<1> QED BY <1>1, <1>4, <1>5

-----------------------------------------------------------------------------
(* The theorems *)

LEMMA InitInv == Init => Inv
<1> SUFFICES ASSUME Init PROVE Inv
  OBVIOUS
<1>1. [gen |-> 0, state |-> "none"] \in Life
  BY GenerationAssumption DEF Life
<1>2. Stored
  BY <1>1, EmptyFiles, GenerationAssumption DEF Init, Stored
<1>3. Records
  BY <1>2, EmptyFiles
     DEF Init, Records, ReceiptsIssued, ConfirmationDurable, InventoryValid
<1>4. Requests
  BY IdleFits DEF Init, Requests, OneHolder, Locked
<1> QED BY <1>3, <1>4 DEF Inv

LEMMA ServeInv ==
    ASSUME Inv, NEW w \in Worker, Serve(w)
    PROVE  Inv'
<1>1. CASE SignIn(w) \/ OpenUser(w) \/ ReplaceDeleted(w) \/ CreateFile(w)
  BY <1>1, SignInInv, OpenUserInv, ReplaceDeletedInv, CreateFileInv
<1>2. CASE BindLifecycle(w) \/ StampGeneration(w) \/ CreateSession(w)
  BY <1>2, BindLifecycleInv, StampGenerationInv, CreateSessionInv
<1>3. ASSUME NEW c \in Credential, NEW kind \in {"use", "delete"}, Arrive(w, c, kind)
      PROVE  Inv'
  BY <1>3, ArriveInv
<1>4. CASE OpenExisting(w) \/ CheckDeleted(w) \/ Authenticate(w)
  BY <1>4, OpenExistingInv, CheckDeletedInv, AuthenticateInv
<1>5. CASE RemoveDeleted(w)
  BY <1>5, RemoveDoneInv DEF RemoveDeleted
<1>6. CASE BeginUse(w) \/ Revoke(w)
  BY <1>6, BeginUseInv, RevokeInv
<1>7. CASE EndUse(w) \/ Give(w)
  BY <1>7, DoneInv DEF EndUse, Give
<1>8. ASSUME NEW c \in Credential,
             \/ ArriveWithReceipt(w, c) \/ BeginDelete(w, c) \/ WriteReceipt(w, c)
             \/ FinishDelete(w, c) \/ LookupReceipt(w, c) \/ ConfirmReceipt(w, c)
      PROVE  Inv'
  BY <1>8, ArriveWithReceiptInv, BeginDeleteInv, WriteReceiptInv, ConfirmationInv
<1>9. CASE WriteTombstone(w) \/ WriteLifecycle(w)
  BY <1>9, WriteTombstoneInv, WriteLifecycleInv
<1> QED BY <1>1, <1>2, <1>3, <1>4, <1>5, <1>6, <1>7, <1>8, <1>9 DEF Serve

LEMMA NextInv == Inv /\ [Next]_vars => Inv'
<1> SUFFICES ASSUME Inv, [Next]_vars PROVE Inv'
  OBVIOUS
<1>1. CASE UNCHANGED vars
  <2>1. /\ up' = up /\ file' = file /\ tomb' = tomb /\ life' = life /\ receipt' = receipt
        /\ worker' = worker /\ backup' = backup /\ issued' = issued /\ acked' = acked
    BY <1>1 DEF vars, ledger
  <2> QED BY <2>1 DEF Inv, Records, Stored, Requests, ReceiptsIssued, ConfirmationDurable,
                      InventoryValid, OneHolder
<1> QED BY <1>1, ServeInv, OutageInv DEF Next

LEMMA Invariance == Spec => []Inv
BY InitInv, NextInv, PTL DEF Spec

(* Generations stay in range up to the last one, and a stopped process serves
   nobody (internal/store/database.go, deletion_ledger.go). *)
THEOREM TypeCorrect == Spec => []TypeOK
<1>1. Inv => TypeOK
  BY DEF Inv, Records, Stored, Requests, TypeOK, FileType, File, Life, WorkerState
<1> QED BY <1>1, Invariance, PTL

(* No request runs its operation on a deleted generation (withAccountGeneration
   under LockUser): not during a deletion, not after a crash between the
   ledger's writes, and not on a database restored from a copy. *)
THEOREM DeletedGenerationsRest == Spec => []DeletedNeverUsed
<1>1. Inv => DeletedNeverUsed
  BY DEF Inv, Requests, Fit, UseFit, DeletedNeverUsed
<1> QED BY <1>1, Invariance, PTL

(* What a 204 has confirmed stays confirmed: tombstone, receipt and issued
   generation agree for good (finishReceiptedDeletion, CommittedDeletionReceipt,
   handleAccountDeletionReceipt). *)
THEOREM ConfirmationsDurable == Spec => []ConfirmationDurable
<1>1. Inv => ConfirmationDurable
  BY DEF Inv, Records
<1> QED BY <1>1, Invariance, PTL

(* A session of the database belongs to the generation the database carries,
   through recreations, unlocked removals and restored copies
   (setAccountGeneration, CreateSession, Authenticate). *)
THEOREM SessionsBelong == Spec => []SessionsOfGeneration
<1>1. Inv => SessionsOfGeneration
  BY DEF Inv, Records, FileSound, SessionsOfGeneration
<1> QED BY <1>1, Invariance, PTL

(* Wherever a sign-in or a deletion stops, the ledger passes the inventory check
   of the next start (validateAccountLifecycleInventory). *)
THEOREM InventoryAlwaysValid == Spec => []InventoryValid
<1>1. Inv => InventoryValid
  BY DEF Inv, Records
<1> QED BY <1>1, Invariance, PTL
=============================================================================
