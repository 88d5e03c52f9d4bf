---------------------------- MODULE NativeChallenge ----------------------------
(***************************************************************************)
(* Native sign-in challenges: CreateNativeChallenge and                    *)
(* ConsumeNativeChallengeAndCreateSession of internal/store/auth.go, the   *)
(* registry of native_challenge_schema.go, and the handlers of             *)
(* internal/server/auth.go that drive them.                                *)
(*                                                                         *)
(* A challenge is issued once and may create one native session, in        *)
(* whichever account the identity belongs to.  Three records decide: the   *)
(* issuance in the registry, bound to the process that issued it; the      *)
(* process's map of spent challenges; and a receipt in the account that    *)
(* used the challenge, which leaves with the account.                      *)
(***************************************************************************)
EXTENDS Integers, FiniteSets

CONSTANTS
    Challenge,  \* challenges that may be issued: digests in one domain
    Account,    \* accounts of the data directory
    Exchange,   \* exchange requests the server may be serving
    Lifetime,   \* authn.ChallengeLifetime, in clock units
    MaxTime,    \* bound of the clock
    MaxEpoch    \* bound of process starts

ASSUME LifetimeAssumption == Lifetime \in Nat \ {0}
ASSUME BoundAssumption == MaxTime \in Nat /\ MaxEpoch \in Nat \ {0}

Time == 0 .. MaxTime
Expiry == 1 .. MaxTime + Lifetime
Epoch == 1 .. MaxEpoch

VARIABLES
    clock,     \* the server's clock
    sealed,    \* the expiry a challenge carries under its seal, 0 until issued
    epoch,     \* nativeChallengeEpoch of the running process
    registry,  \* native_auth_challenges, a set of rows
    spent,     \* nativeChallengeSpent: expiry of a spent challenge, 0 when absent
    receipts,  \* native_challenge_consumptions of the accounts
    ex,        \* the exchange requests
    backup,    \* a copy of the data directory
    issuedBy,  \* history: the process that issued a challenge, 0 before
    uses,      \* history: sessions a challenge has created, 2 for two or more
    wiped      \* history: challenges whose receipt left with a deleted account

disk == <<registry, receipts>>
history == <<issuedBy, uses, wiped>>
vars == <<clock, sealed, epoch, registry, spent, receipts, ex, backup, history>>

Row == [challenge : Challenge, issued : Time, expires : Expiry, epoch : Epoch]

\* account and challenge of the request, the time persistNativeAccount read
\* and the expiry that the loaded issuance gave.
Idle == [pc |-> "idle", account |-> {}, challenge |-> {}, now |-> 0, expires |-> 0]

Request ==
    [pc : {"verify", "locked", "issued", "unused", "committed"},
     account : Account, challenge : Challenge, now : Time, expires : {0} \cup Expiry]

-----------------------------------------------------------------------------
(* Locks *)

\* LockUser of persistNativeAccount is held until the reply.
HoldsAccount(e) == ex[e].pc \in {"locked", "issued", "unused", "committed"}

AccountFree(a) == \A e \in Exchange : HoldsAccount(e) => ex[e].account # a

\* BEGIN IMMEDIATE on the registry is held from the load of the issuance on.
HoldsRegistry(e) == ex[e].pc \in {"issued", "unused", "committed"}

RegistryFree == \A e \in Exchange : ~HoldsRegistry(e)

-----------------------------------------------------------------------------
(* Issuing *)

\* Mutant of Pruned: the time of issue is compared instead of the expiry.
PrunedByIssue(t) == {r \in registry : r.issued >= t}

\* DELETE ... WHERE expires_at_ms <= issuedAt
Pruned(t) == {r \in registry : r.expires > t}

\* handleNativeChallenge and CreateNativeChallenge
Issue(c) ==
    /\ sealed[c] = 0 /\ RegistryFree
    /\ sealed' = [sealed EXCEPT ![c] = clock + Lifetime]
    /\ registry' = Pruned(clock)
                     \cup {[challenge |-> c, issued |-> clock,
                            expires |-> clock + Lifetime, epoch |-> epoch]}
    /\ issuedBy' = [issuedBy EXCEPT ![c] = epoch]
    /\ UNCHANGED <<clock, epoch, spent, receipts, ex, backup, uses, wiped>>

-----------------------------------------------------------------------------
(* Exchanging *)

\* handleNativeExchange opens the challenge, which carries its own expiry, and
\* asks the identity provider.
Receive(e, a, c) ==
    /\ ex[e].pc = "idle" /\ sealed[c] > clock
    /\ ex' = [ex EXCEPT ![e] = [pc |-> "verify", account |-> a, challenge |-> c,
                                now |-> 0, expires |-> 0]]
    /\ UNCHANGED <<clock, sealed, epoch, registry, spent, receipts, backup, history>>

\* The identity is verified; persistNativeAccount takes the account's lock and
\* reads the clock, before it waits for the registry.
LockAccount(e) ==
    /\ ex[e].pc = "verify" /\ AccountFree(ex[e].account)
    /\ ex' = [ex EXCEPT ![e].pc = "locked", ![e].now = clock]
    /\ UNCHANGED <<clock, sealed, epoch, registry, spent, receipts, backup, history>>

\* Mutant of Issuance: an issuance of any process counts.
IssuanceOfAny(c, t) ==
    {r \in registry : r.challenge = c /\ r.issued <= t /\ r.expires > t}

\* loadNativeChallengeIssuance
Issuance(c, t) ==
    {r \in registry : r.challenge = c /\ r.epoch = epoch /\ r.issued <= t /\ r.expires > t}

\* nativeChallengeWasSpent forgets what has expired by the caller's time.
Unexpired(t) == [c \in Challenge |-> IF spent[c] <= t THEN 0 ELSE spent[c]]

\* BEGIN IMMEDIATE, the issuance, then the spent map.
LoadIssuance(e) ==
    LET c == ex[e].challenge
        t == ex[e].now IN
    /\ ex[e].pc = "locked" /\ RegistryFree
    /\ \E r \in Issuance(c, t) :
         /\ spent' = Unexpired(t)
         /\ ex' = [ex EXCEPT ![e] = IF Unexpired(t)[c] > t THEN Idle
                                    ELSE [@ EXCEPT !.pc = "issued", !.expires = r.expires]]
    /\ UNCHANGED <<clock, sealed, epoch, registry, receipts, backup, history>>

\* No issuance: ErrUnauthorized before the spent map is looked at.
RefuseUnissued(e) ==
    /\ ex[e].pc = "locked" /\ RegistryFree
    /\ Issuance(ex[e].challenge, ex[e].now) = {}
    /\ ex' = [ex EXCEPT ![e] = Idle]
    /\ UNCHANGED <<clock, sealed, epoch, registry, spent, receipts, backup, history>>

\* Mutant of Consumed: only the account that signs in is asked.
ConsumedHere(a, c) == <<a, c>> \in receipts

\* nativeChallengeConsumed: the account itself, then every other one, read
\* without their locks.
Consumed(a, c) == \E b \in Account : <<b, c>> \in receipts

ReadReceipts(e) ==
    /\ ex[e].pc = "issued"
    /\ ex' = [ex EXCEPT ![e] = IF Consumed(ex[e].account, ex[e].challenge) THEN Idle
                               ELSE [@ EXCEPT !.pc = "unused"]]
    /\ UNCHANGED <<clock, sealed, epoch, registry, spent, receipts, backup, history>>

\* commitNativeChallengeAccount: receipt, profile, session and tokens.
CommitAccount(e) ==
    LET c == ex[e].challenge IN
    /\ ex[e].pc = "unused"
    /\ receipts' = receipts \cup {<<ex[e].account, c>>}
    /\ uses' = [uses EXCEPT ![c] = IF @ = 2 THEN 2 ELSE @ + 1]
    /\ ex' = [ex EXCEPT ![e].pc = "committed"]
    /\ UNCHANGED <<clock, sealed, epoch, registry, spent, backup, issuedBy, wiped>>

\* Mutant of RememberSpent: a lifetime from the expiry on.
RememberSpentLonger(e) ==
    /\ ex[e].pc = "committed"
    /\ spent' = [spent EXCEPT ![ex[e].challenge] = ex[e].expires + Lifetime]
    /\ ex' = [ex EXCEPT ![e] = Idle]
    /\ UNCHANGED <<clock, sealed, epoch, registry, receipts, backup, history>>

\* rememberNativeChallengeSpent, then the deferred ROLLBACK and unlock.
RememberSpent(e) ==
    /\ ex[e].pc = "committed"
    /\ spent' = [spent EXCEPT ![ex[e].challenge] = ex[e].expires]
    /\ ex' = [ex EXCEPT ![e] = Idle]
    /\ UNCHANGED <<clock, sealed, epoch, registry, receipts, backup, history>>

\* Mutant of Fail: a request that fails marks its challenge as spent.
FailSpending(e) ==
    /\ ex[e].pc \in {"verify", "locked", "issued", "unused"}
    /\ spent' = [spent EXCEPT ![ex[e].challenge] = MaxTime + Lifetime]
    /\ ex' = [ex EXCEPT ![e] = Idle]
    /\ UNCHANGED <<clock, sealed, epoch, registry, receipts, backup, history>>

\* The token is refused, the provider or a database fails, the registry stays
\* busy for five seconds, an account's file is gone, or the client leaves.
Fail(e) ==
    /\ ex[e].pc \in {"verify", "locked", "issued", "unused"}
    /\ ex' = [ex EXCEPT ![e] = Idle]
    /\ UNCHANGED <<clock, sealed, epoch, registry, spent, receipts, backup, history>>

-----------------------------------------------------------------------------
(* What happens around the exchanges *)

\* DeleteUser removes the account's files, its receipts with them.
DeleteUser(a) ==
    /\ AccountFree(a) /\ \E c \in Challenge : <<a, c>> \in receipts
    /\ receipts' = {p \in receipts : p[1] # a}
    /\ wiped' = wiped \cup {c \in Challenge : <<a, c>> \in receipts}
    /\ UNCHANGED <<clock, sealed, epoch, registry, spent, ex, backup, issuedBy, uses>>

Tick ==
    /\ clock < MaxTime
    /\ clock' = clock + 1
    /\ UNCHANGED <<sealed, epoch, registry, spent, receipts, ex, backup, history>>

Backup ==
    /\ backup' = disk
    /\ UNCHANGED <<clock, sealed, epoch, registry, spent, receipts, ex, history>>

\* The process ends, cleanly or not: transactions roll back, the spent map is
\* lost and the next process draws another epoch.  The files are the ones the
\* process leaves, or an older copy.  (The startup removes deleted accounts
\* from a copy again; no issuance survives a restart, so their receipts make no
\* difference and are kept.)
Restart(files) ==
    /\ epoch < MaxEpoch
    /\ epoch' = epoch + 1
    /\ registry' = files[1] /\ receipts' = files[2]
    /\ spent' = [c \in Challenge |-> 0]
    /\ ex' = [e \in Exchange |-> Idle]
    /\ UNCHANGED <<clock, sealed, backup, history>>

Init ==
    /\ clock = 0 /\ epoch = 1
    /\ registry = {} /\ receipts = {} /\ backup = <<{}, {}>>
    /\ sealed = [c \in Challenge |-> 0]
    /\ spent = [c \in Challenge |-> 0]
    /\ ex = [e \in Exchange |-> Idle]
    /\ issuedBy = [c \in Challenge |-> 0]
    /\ uses = [c \in Challenge |-> 0]
    /\ wiped = {}

Step(e) ==
    \/ \E a \in Account, c \in Challenge : Receive(e, a, c)
    \/ LockAccount(e)
    \/ LoadIssuance(e)
    \/ RefuseUnissued(e)
    \/ ReadReceipts(e)
    \/ CommitAccount(e)
    \/ RememberSpent(e)
    \/ Fail(e)

Next ==
    \/ \E c \in Challenge : Issue(c)
    \/ \E e \in Exchange : Step(e)
    \/ \E a \in Account : DeleteUser(a)
    \/ Tick
    \/ Backup
    \/ Restart(disk)
    \/ Restart(backup)

Spec == Init /\ [][Next]_vars

-----------------------------------------------------------------------------
(* Properties *)

\* The state has its types: in particular, times and expiries stay in range
\* through pruning, loading and remembering.
TypeOK ==
    /\ clock \in Time /\ epoch \in Epoch
    /\ registry \subseteq Row /\ receipts \subseteq Account \X Challenge
    /\ backup \in (SUBSET Row) \X (SUBSET (Account \X Challenge))
    /\ sealed \in [Challenge -> {0} \cup Expiry]
    /\ spent \in [Challenge -> {0} \cup Expiry]
    /\ ex \in [Exchange -> Request \cup {Idle}]
    /\ issuedBy \in [Challenge -> {0} \cup Epoch]
    /\ uses \in [Challenge -> 0 .. 2]
    /\ wiped \subseteq Challenge

\* No two accounts hold a receipt of one challenge, however exchanges,
\* deletions, restarts and restored copies interleave and however stale the
\* time is at which an exchange finds its issuance.
OneReceipt ==
    \A c \in Challenge, a, b \in Account :
       <<a, c>> \in receipts /\ <<b, c>> \in receipts => a = b

\* A challenge creates one session, unless the account that used it is deleted
\* afterwards: crashes between the account's commit and the spent map, lost
\* spent maps and restored copies of the registry and the accounts never let
\* it create a second one.
UsedOnceUnlessDeleted ==
    \A c \in Challenge : uses[c] > 1 => c \in wiped

\* A challenge counts as used only if it has created a session: an exchange
\* that fails before its commit leaves it to a retry.
SpentMeansUsed ==
    \A c \in Challenge :
       spent[c] # 0 \/ (\E a \in Account : <<a, c>> \in receipts) => uses[c] > 0

\* While its process runs and its time has not come, an unused challenge stays
\* in the registry: neither failed exchanges nor newer challenges remove it.
UnusedStaysIssued ==
    \A c \in Challenge :
       issuedBy[c] = epoch /\ uses[c] = 0 /\ sealed[c] > clock =>
          \E r \in registry : r.challenge = c /\ r.epoch = epoch /\ r.expires = sealed[c]
================================================================================
