------------------------- MODULE NativeChallengeProofs -------------------------
(***************************************************************************)
(* The safety of native sign-in challenges for every set of challenges,    *)
(* accounts and concurrent exchanges, every lifetime and every number of   *)
(* restarts.                                                               *)
(***************************************************************************)
EXTENDS NativeChallenge, TLAPS

-----------------------------------------------------------------------------
(* The inductive invariant *)

\* The write transaction on the registry excludes other exchanges.
OneInRegistry ==
    \A e, f \in Exchange : HoldsRegistry(e) /\ HoldsRegistry(f) => e = f

\* A copy has what the data directory once had: one receipt per challenge, of
\* a challenge that was used.
CopyConsistent ==
    /\ \A c \in Challenge, a, b \in Account :
          <<a, c>> \in backup[2] /\ <<b, c>> \in backup[2] => a = b
    /\ \A c \in Challenge, a \in Account : <<a, c>> \in backup[2] => uses[c] > 0

\* A row, live or in a copy, names the process that issued the challenge and
\* the expiry under its seal.
RowsTruthful ==
    \A r \in registry \cup backup[1] :
       r.epoch = issuedBy[r.challenge] /\ r.expires = sealed[r.challenge]

\* No challenge comes from a process that has not started, an unissued one has
\* neither seal nor use.
IssuersPast ==
    \A c \in Challenge :
       /\ issuedBy[c] <= epoch
       /\ issuedBy[c] = 0 => sealed[c] = 0 /\ uses[c] = 0
       /\ sealed[c] = 0 => issuedBy[c] = 0

\* An exchange that went past the registry has a challenge of this process;
\* past the receipts, one that no account has used; past its commit, one that
\* has created a session.
ExchangesPassed ==
    \A e \in Exchange :
       /\ HoldsRegistry(e) =>
            issuedBy[ex[e].challenge] = epoch /\ ex[e].expires = sealed[ex[e].challenge]
       /\ ex[e].pc = "unused" =>
            \A a \in Account : <<a, ex[e].challenge>> \notin receipts
       /\ ex[e].pc = "committed" => uses[ex[e].challenge] > 0

\* What a challenge of this process has created is on record in an account, or
\* the account was deleted.
UseOnRecord ==
    \A c \in Challenge :
       uses[c] > 0 /\ issuedBy[c] = epoch =>
          c \in wiped \/ \E a \in Account : <<a, c>> \in receipts

Inv ==
    /\ TypeOK
    /\ OneInRegistry /\ CopyConsistent /\ RowsTruthful /\ IssuersPast
    /\ ExchangesPassed /\ UseOnRecord
    /\ OneReceipt /\ UsedOnceUnlessDeleted /\ SpentMeansUsed /\ UnusedStaysIssued

-----------------------------------------------------------------------------
(* Type correctness *)

\* An active exchange is a request, and an idle one holds no lock.
LEMMA ActiveRequest ==
    ASSUME TypeOK, NEW e \in Exchange, ex[e].pc # "idle"
    PROVE  ex[e] \in Request
BY DEF TypeOK, Idle

\* A step that replaces one exchange keeps the others.
LEMMA MoveType ==
    ASSUME TypeOK, NEW e \in Exchange, NEW q \in Request \cup {Idle},
           ex' = [ex EXCEPT ![e] = q]
    PROVE  /\ ex' \in [Exchange -> Request \cup {Idle}]
           /\ ex'[e] = q
           /\ \A f \in Exchange : f # e => ex'[f] = ex[f]
BY DEF TypeOK

\* What each step of an exchange makes of its request.
Moved(e) ==
    LET q == ex[e] IN
    \/ \E a \in Account, c \in Challenge :
          /\ Receive(e, a, c)
          /\ ex'[e].pc = "verify"
    \/ /\ LockAccount(e)
       /\ ex'[e].pc = "locked"
    \/ /\ LoadIssuance(e)
       /\ \/ ex'[e].pc = "idle"
          \/ /\ ex'[e].pc = "issued" /\ ex'[e].challenge = q.challenge
             /\ \E r \in registry : /\ r.challenge = q.challenge /\ r.epoch = epoch
                                    /\ ex'[e].expires = r.expires
    \/ /\ RefuseUnissued(e)
       /\ ex'[e].pc = "idle"
    \/ /\ ReadReceipts(e)
       /\ \/ ex'[e].pc = "idle"
          \/ /\ ex'[e].pc = "unused" /\ ex'[e].challenge = q.challenge
             /\ ex'[e].expires = q.expires
             /\ \A a \in Account : <<a, q.challenge>> \notin receipts
    \/ /\ CommitAccount(e)
       /\ ex'[e].pc = "committed" /\ ex'[e].challenge = q.challenge
       /\ ex'[e].expires = q.expires
    \/ /\ RememberSpent(e)
       /\ ex'[e].pc = "idle"
    \/ /\ Fail(e)
       /\ ex'[e].pc = "idle"

\* Every step of an exchange changes its own request alone, as Moved says.
LEMMA StepMoves ==
    ASSUME TypeOK, NEW e \in Exchange, Step(e)
    PROVE  /\ ex' \in [Exchange -> Request \cup {Idle}]
           /\ \A f \in Exchange : f # e => ex'[f] = ex[f]
           /\ Moved(e)
<1> DEFINE q == ex[e]
<1>1. ASSUME NEW a \in Account, NEW c \in Challenge, Receive(e, a, c)
      PROVE  /\ ex' \in [Exchange -> Request \cup {Idle}]
             /\ \A f \in Exchange : f # e => ex'[f] = ex[f]
             /\ Moved(e)
  <2> DEFINE n == [pc |-> "verify", account |-> a, challenge |-> c, now |-> 0, expires |-> 0]
  <2>1. n \in Request
    BY BoundAssumption DEF Request, Time
  <2>2. ex' = [ex EXCEPT ![e] = n]
    BY <1>1 DEF Receive
  <2>3. ex'[e] = n /\ ex' \in [Exchange -> Request \cup {Idle}]
           /\ \A f \in Exchange : f # e => ex'[f] = ex[f]
    BY <2>1, <2>2, MoveType
  <2> QED BY <1>1, <2>3 DEF Moved
<1>2. ASSUME LockAccount(e)
      PROVE  /\ ex' \in [Exchange -> Request \cup {Idle}]
             /\ \A f \in Exchange : f # e => ex'[f] = ex[f]
             /\ Moved(e)
  <2> DEFINE n == [q EXCEPT !.pc = "locked", !.now = clock]
  <2>1. n \in Request /\ n.pc = "locked"
    BY <1>2, ActiveRequest DEF LockAccount, Request, TypeOK
  <2>2. ex' = [ex EXCEPT ![e] = n]
    BY <1>2 DEF LockAccount, TypeOK
  <2>3. ex'[e] = n /\ ex' \in [Exchange -> Request \cup {Idle}]
           /\ \A f \in Exchange : f # e => ex'[f] = ex[f]
    BY <2>1, <2>2, MoveType
  <2> QED BY <1>2, <2>1, <2>3 DEF Moved
<1>3. ASSUME LoadIssuance(e)
      PROVE  /\ ex' \in [Exchange -> Request \cup {Idle}]
             /\ \A f \in Exchange : f # e => ex'[f] = ex[f]
             /\ Moved(e)
  <2>1. PICK r \in registry :
           /\ r.challenge = q.challenge /\ r.epoch = epoch
           /\ ex' = [ex EXCEPT ![e] = IF Unexpired(q.now)[q.challenge] > q.now THEN Idle
                                      ELSE [q EXCEPT !.pc = "issued", !.expires = r.expires]]
    BY <1>3 DEF LoadIssuance, Issuance, TypeOK
  <2> DEFINE n == [q EXCEPT !.pc = "issued", !.expires = r.expires]
  <2>2. n \in Request /\ n.pc = "issued" /\ n.challenge = q.challenge /\ n.expires = r.expires
    <3>1. q \in Request
      BY <1>3, ActiveRequest DEF LoadIssuance
    <3>2. r.expires \in Expiry
      BY DEF TypeOK, Row
    <3> QED BY <3>1, <3>2 DEF Request
  <2>3. CASE ex' = [ex EXCEPT ![e] = Idle]
    BY <1>3, <2>3, MoveType DEF Moved, Idle
  <2>4. CASE ex' = [ex EXCEPT ![e] = n]
    <3>1. ex'[e] = n /\ ex' \in [Exchange -> Request \cup {Idle}]
             /\ \A f \in Exchange : f # e => ex'[f] = ex[f]
      BY <2>2, <2>4, MoveType
    <3> QED BY <1>3, <2>1, <2>2, <3>1 DEF Moved
  <2> QED BY <2>1, <2>3, <2>4
<1>4. ASSUME ReadReceipts(e)
      PROVE  /\ ex' \in [Exchange -> Request \cup {Idle}]
             /\ \A f \in Exchange : f # e => ex'[f] = ex[f]
             /\ Moved(e)
  <2> DEFINE n == [q EXCEPT !.pc = "unused"]
  <2>1. n \in Request /\ n.pc = "unused" /\ n.challenge = q.challenge /\ n.expires = q.expires
    BY <1>4, ActiveRequest DEF ReadReceipts, Request
  <2>2. \/ ex' = [ex EXCEPT ![e] = Idle]
        \/ /\ ex' = [ex EXCEPT ![e] = n]
           /\ \A a \in Account : <<a, q.challenge>> \notin receipts
    BY <1>4 DEF ReadReceipts, Consumed, TypeOK
  <2>3. CASE ex' = [ex EXCEPT ![e] = Idle]
    BY <1>4, <2>3, MoveType DEF Moved, Idle
  <2>4. CASE ex' = [ex EXCEPT ![e] = n] /\ \A a \in Account : <<a, q.challenge>> \notin receipts
    <3>1. ex'[e] = n /\ ex' \in [Exchange -> Request \cup {Idle}]
             /\ \A f \in Exchange : f # e => ex'[f] = ex[f]
      BY <2>1, <2>4, MoveType
    <3> QED BY <1>4, <2>1, <2>4, <3>1 DEF Moved
  <2> QED BY <2>2, <2>3, <2>4
<1>5. ASSUME CommitAccount(e)
      PROVE  /\ ex' \in [Exchange -> Request \cup {Idle}]
             /\ \A f \in Exchange : f # e => ex'[f] = ex[f]
             /\ Moved(e)
  <2> DEFINE n == [q EXCEPT !.pc = "committed"]
  <2>1. n \in Request /\ n.pc = "committed" /\ n.challenge = q.challenge /\ n.expires = q.expires
    BY <1>5, ActiveRequest DEF CommitAccount, Request
  <2>2. ex' = [ex EXCEPT ![e] = n]
    BY <1>5 DEF CommitAccount, TypeOK
  <2>3. ex'[e] = n /\ ex' \in [Exchange -> Request \cup {Idle}]
           /\ \A f \in Exchange : f # e => ex'[f] = ex[f]
    BY <2>1, <2>2, MoveType
  <2> QED BY <1>5, <2>1, <2>3 DEF Moved
<1>6. ASSUME RefuseUnissued(e) \/ RememberSpent(e) \/ Fail(e)
      PROVE  /\ ex' \in [Exchange -> Request \cup {Idle}]
             /\ \A f \in Exchange : f # e => ex'[f] = ex[f]
             /\ Moved(e)
  <2>1. ex' = [ex EXCEPT ![e] = Idle]
    BY <1>6 DEF RefuseUnissued, RememberSpent, Fail
  <2> QED BY <1>6, <2>1, MoveType DEF Moved, Idle
<1> QED BY <1>1, <1>2, <1>3, <1>4, <1>5, <1>6 DEF Step

\* Every step keeps the types.
LEMMA TypeStep ==
    ASSUME TypeOK, [Next]_vars
    PROVE  TypeOK'
<1>1. ASSUME NEW c \in Challenge, Issue(c)
      PROVE  TypeOK'
  <2>1. clock + Lifetime \in Expiry
    BY LifetimeAssumption, BoundAssumption DEF TypeOK, Time, Expiry
  <2>2. registry' \subseteq Row
    BY <1>1, <2>1 DEF Issue, Pruned, Row, TypeOK
  <2> QED BY <1>1, <2>1, <2>2 DEF Issue, TypeOK
<1>2. ASSUME NEW e \in Exchange, Step(e)
      PROVE  TypeOK'
  <2>1. ex' \in [Exchange -> Request \cup {Idle}]
    BY <1>2, StepMoves
  <2>2. ASSUME LoadIssuance(e)
        PROVE  TypeOK'
    <3>1. spent' = Unexpired(ex[e].now)
      BY <2>2 DEF LoadIssuance
    <3>2. spent' \in [Challenge -> {0} \cup Expiry]
      BY <3>1 DEF Unexpired, TypeOK
    <3> QED BY <2>1, <2>2, <3>2 DEF LoadIssuance, TypeOK, history
  <2>3. ASSUME CommitAccount(e)
        PROVE  TypeOK'
    <3>1. ex[e] \in Request
      BY <2>3, ActiveRequest DEF CommitAccount
    <3>2. <<ex[e].account, ex[e].challenge>> \in Account \X Challenge
      BY <3>1 DEF Request
    <3>3. receipts' \subseteq Account \X Challenge
      BY <2>3, <3>2 DEF CommitAccount, TypeOK
    <3>4. uses' \in [Challenge -> 0 .. 2]
      <4> DEFINE c == ex[e].challenge
      <4>1. c \in Challenge
        BY <3>1 DEF Request
      <4>2. uses \in [Challenge -> 0 .. 2]
        BY DEF TypeOK
      <4>3. uses[c] \in 0 .. 2
        BY <4>1, <4>2
      <4>4. (IF uses[c] = 2 THEN 2 ELSE uses[c] + 1) \in 0 .. 2
        BY <4>3
      <4>5. uses' = [uses EXCEPT ![c] = IF uses[c] = 2 THEN 2 ELSE uses[c] + 1]
        BY <2>3 DEF CommitAccount
      <4> QED BY <4>2, <4>4, <4>5
    <3> QED BY <2>1, <2>3, <3>3, <3>4 DEF CommitAccount, TypeOK
  <2>4. ASSUME RememberSpent(e)
        PROVE  TypeOK'
    <3>1. ex[e] \in Request
      BY <2>4, ActiveRequest DEF RememberSpent
    <3>2. spent' \in [Challenge -> {0} \cup Expiry]
      BY <2>4, <3>1 DEF RememberSpent, Request, TypeOK
    <3> QED BY <2>1, <2>4, <3>2 DEF RememberSpent, TypeOK, history
  <2>5. ASSUME UNCHANGED <<clock, sealed, epoch, registry, spent, receipts, backup, history>>
        PROVE  TypeOK'
    BY <2>1, <2>5 DEF TypeOK, history
  <2> QED BY <1>2, <2>2, <2>3, <2>4, <2>5
          DEF Step, Receive, LockAccount, RefuseUnissued, ReadReceipts, Fail
<1>3. ASSUME NEW a \in Account, DeleteUser(a)
      PROVE  TypeOK'
  BY <1>3 DEF DeleteUser, TypeOK
<1>4. ASSUME Tick
      PROVE  TypeOK'
  BY <1>4, BoundAssumption DEF Tick, TypeOK, Time, history
<1>5. ASSUME Backup
      PROVE  TypeOK'
  BY <1>5 DEF Backup, TypeOK, disk, history
<1>6. ASSUME Restart(disk) \/ Restart(backup)
      PROVE  TypeOK'
  <2>1. registry' \subseteq Row /\ receipts' \subseteq Account \X Challenge
    BY <1>6 DEF Restart, disk, TypeOK
  <2>2. epoch' \in Epoch
    BY <1>6, BoundAssumption DEF Restart, Epoch, TypeOK
  <2>3. spent' \in [Challenge -> {0} \cup Expiry] /\ ex' \in [Exchange -> Request \cup {Idle}]
    BY <1>6 DEF Restart
  <2> QED BY <1>6, <2>1, <2>2, <2>3 DEF Restart, TypeOK, history, disk
<1>7. ASSUME UNCHANGED vars
      PROVE  TypeOK'
  BY <1>7 DEF vars, TypeOK, history
<1> QED BY <1>1, <1>2, <1>3, <1>4, <1>5, <1>6, <1>7 DEF Next

\* The initial state has its types.
LEMMA TypeInit == Init => TypeOK
<1>1. 1 \in Epoch /\ 0 \in Time
  BY BoundAssumption DEF Epoch, Time
<1> QED BY <1>1 DEF Init, TypeOK

\* The state of the challenge registry, the spent map, the accounts' receipts
\* and the exchange handlers keeps its types.
THEOREM TypeCorrect == Spec => []TypeOK
BY TypeInit, TypeStep, PTL DEF Spec

-----------------------------------------------------------------------------
(* The invariant *)

\* Nothing is issued, used or on record at first.
LEMMA InvInit == Init => Inv
<1> SUFFICES ASSUME Init
             PROVE  Inv
  OBVIOUS
<1>1. TypeOK
  BY TypeInit
<1>2. \A e \in Exchange : ex[e].pc = "idle" /\ ~HoldsRegistry(e)
  BY DEF Init, Idle, HoldsRegistry
<1>3. OneInRegistry /\ ExchangesPassed
  BY <1>2 DEF OneInRegistry, ExchangesPassed
<1>4. CopyConsistent /\ RowsTruthful /\ OneReceipt
  BY DEF Init, CopyConsistent, RowsTruthful, OneReceipt
<1>5. IssuersPast /\ UseOnRecord /\ UsedOnceUnlessDeleted /\ SpentMeansUsed /\ UnusedStaysIssued
  BY DEF Init, IssuersPast, UseOnRecord, UsedOnceUnlessDeleted, SpentMeansUsed, UnusedStaysIssued
<1> QED BY <1>1, <1>3, <1>4, <1>5 DEF Inv

\* A new challenge is not used, and the rows it prunes have expired.
LEMMA IssueInv ==
    ASSUME Inv, TypeOK', NEW c \in Challenge, Issue(c)
    PROVE  Inv'
<1> DEFINE n == [challenge |-> c, issued |-> clock, expires |-> clock + Lifetime, epoch |-> epoch]
<1>1. TypeOK /\ sealed[c] = 0 /\ issuedBy[c] = 0 /\ uses[c] = 0
  BY DEF Inv, Issue, IssuersPast
<1>2. /\ registry' = {r \in registry : r.expires > clock} \cup {n}
      /\ sealed' = [sealed EXCEPT ![c] = clock + Lifetime]
      /\ issuedBy' = [issuedBy EXCEPT ![c] = epoch]
      /\ UNCHANGED <<clock, epoch, spent, receipts, ex, backup, uses, wiped>>
  BY DEF Issue, Pruned
<1>3. \A r \in registry \cup backup[1] :
         /\ r.challenge \in Challenge /\ r.challenge # c
         /\ r.epoch = issuedBy[r.challenge] /\ r.expires = sealed[r.challenge]
  <2>1. \A r \in registry \cup backup[1] : r \in Row
    BY <1>1 DEF TypeOK
  <2>2. \A r \in Row : r.expires # 0 /\ r.challenge \in Challenge
    BY BoundAssumption, LifetimeAssumption DEF Row, Expiry
  <2> QED BY <1>1, <2>1, <2>2 DEF Inv, RowsTruthful
<1>4. RowsTruthful'
  <2>1. n.epoch = issuedBy'[c] /\ n.expires = sealed'[c] /\ n.challenge = c
    BY <1>1, <1>2 DEF TypeOK
  <2>2. \A r \in registry \cup backup[1] :
           r.epoch = issuedBy'[r.challenge] /\ r.expires = sealed'[r.challenge]
    BY <1>1, <1>2, <1>3 DEF TypeOK
  <2> QED BY <1>2, <2>1, <2>2 DEF RowsTruthful
<1>5. OneInRegistry' /\ CopyConsistent' /\ OneReceipt' /\ UsedOnceUnlessDeleted' /\ SpentMeansUsed'
  BY <1>2 DEF Inv, OneInRegistry, CopyConsistent, OneReceipt, UsedOnceUnlessDeleted,
              SpentMeansUsed, HoldsRegistry
<1>6. IssuersPast'
  <2>1. clock + Lifetime # 0 /\ epoch # 0 /\ epoch <= epoch
    BY <1>1, LifetimeAssumption, BoundAssumption DEF TypeOK, Time, Epoch
  <2> QED BY <1>1, <1>2, <2>1 DEF Inv, IssuersPast, TypeOK
<1>7. ExchangesPassed'
  <2>1. \A e \in Exchange : HoldsRegistry(e) => FALSE
    BY DEF Issue, RegistryFree
  <2> QED BY <1>2, <2>1 DEF ExchangesPassed, HoldsRegistry
<1>8. UseOnRecord'
  BY <1>1, <1>2 DEF Inv, UseOnRecord, TypeOK
<1>9. UnusedStaysIssued'
  <2> SUFFICES ASSUME NEW d \in Challenge, issuedBy'[d] = epoch, uses[d] = 0, sealed'[d] > clock
               PROVE  \E r \in registry' :
                         r.challenge = d /\ r.epoch = epoch /\ r.expires = sealed'[d]
    BY <1>2 DEF UnusedStaysIssued
  <2>1. CASE d = c
    <3>1. n \in registry' /\ n.challenge = c /\ n.epoch = epoch /\ n.expires = sealed'[c]
      BY <1>1, <1>2 DEF TypeOK
    <3> QED BY <2>1, <3>1
  <2>2. CASE d # c
    <3>1. issuedBy[d] = epoch /\ sealed'[d] = sealed[d]
      BY <1>1, <1>2, <2>2 DEF TypeOK
    <3>2. PICK r \in registry : r.challenge = d /\ r.epoch = epoch /\ r.expires = sealed[d]
      BY <1>1, <1>2, <3>1 DEF Inv, UnusedStaysIssued
    <3> QED BY <1>2, <3>1, <3>2
  <2> QED BY <2>1, <2>2
<1> QED BY <1>4, <1>5, <1>6, <1>7, <1>8, <1>9 DEF Inv

\* An exchange that is refused, fails or ends leaves the records alone.
QuietStep ==
    UNCHANGED <<clock, sealed, epoch, registry, receipts, backup, history>>

\* The parts of the invariant that neither the exchanges nor the spent map
\* occur in.
LEMMA QuietInv ==
    ASSUME Inv, QuietStep
    PROVE  /\ CopyConsistent' /\ RowsTruthful' /\ IssuersPast' /\ UseOnRecord'
           /\ OneReceipt' /\ UsedOnceUnlessDeleted' /\ UnusedStaysIssued'
BY DEF Inv, QuietStep, history, CopyConsistent, RowsTruthful, IssuersPast, UseOnRecord,
       OneReceipt, UsedOnceUnlessDeleted, UnusedStaysIssued

\* A step of an exchange other than its commit.
LEMMA ExchangeInv ==
    ASSUME Inv, TypeOK', NEW e \in Exchange, Step(e), ~CommitAccount(e)
    PROVE  Inv'
<1> DEFINE q == ex[e]
<1>1. TypeOK
  BY DEF Inv
<1>2. /\ \A f \in Exchange : f # e => ex'[f] = ex[f]
      /\ Moved(e)
  BY <1>1, StepMoves
<1>3. QuietStep
  BY DEF Step, QuietStep, history, Receive, LockAccount, LoadIssuance, RefuseUnissued,
         ReadReceipts, RememberSpent, Fail
<1>4. \/ ex'[e].pc \in {"idle", "verify", "locked"}
      \/ /\ LoadIssuance(e) /\ ex'[e].pc = "issued" /\ ex'[e].challenge = q.challenge
         /\ \E r \in registry : /\ r.challenge = q.challenge /\ r.epoch = epoch
                                /\ ex'[e].expires = r.expires
      \/ /\ ReadReceipts(e) /\ ex'[e].pc = "unused" /\ ex'[e].challenge = q.challenge
         /\ ex'[e].expires = q.expires
         /\ \A a \in Account : <<a, q.challenge>> \notin receipts
  BY <1>2 DEF Moved
<1>5. OneInRegistry'
  BY <1>2, <1>4 DEF Inv, OneInRegistry, HoldsRegistry, LoadIssuance, RegistryFree, ReadReceipts
<1>6. ExchangesPassed'
  <2> SUFFICES ASSUME NEW f \in Exchange
               PROVE  /\ HoldsRegistry(f)' =>
                           issuedBy[ex'[f].challenge] = epoch /\ ex'[f].expires = sealed[ex'[f].challenge]
                      /\ ex'[f].pc = "unused" =>
                           \A a \in Account : <<a, ex'[f].challenge>> \notin receipts
                      /\ ex'[f].pc = "committed" => uses[ex'[f].challenge] > 0
    BY <1>3 DEF ExchangesPassed, QuietStep, history
  <2>1. CASE f # e
    BY <1>2, <2>1 DEF Inv, ExchangesPassed, HoldsRegistry
  <2>2. CASE f = e /\ ex'[e].pc \in {"idle", "verify", "locked"}
    BY <2>2 DEF HoldsRegistry
  <2>3. CASE f = e /\ LoadIssuance(e) /\ ex'[e].pc = "issued" /\ ex'[e].challenge = q.challenge
              /\ \E r \in registry : /\ r.challenge = q.challenge /\ r.epoch = epoch
                                     /\ ex'[e].expires = r.expires
    BY <2>3 DEF Inv, RowsTruthful
  <2>4. CASE f = e /\ ReadReceipts(e) /\ ex'[e].pc = "unused" /\ ex'[e].challenge = q.challenge
              /\ ex'[e].expires = q.expires
              /\ \A a \in Account : <<a, q.challenge>> \notin receipts
    BY <2>4 DEF Inv, ExchangesPassed, HoldsRegistry, ReadReceipts
  <2> QED BY <1>4, <2>1, <2>2, <2>3, <2>4
<1>7. SpentMeansUsed'
  <2>1. \A c \in Challenge : spent'[c] # 0 => uses[c] > 0
    <3>1. CASE RememberSpent(e)
      <4>1. uses[q.challenge] > 0
        BY <3>1 DEF Inv, ExchangesPassed, RememberSpent
      <4> QED BY <1>1, <3>1, <4>1 DEF Inv, SpentMeansUsed, RememberSpent, TypeOK
    <3>2. CASE LoadIssuance(e)
      <4>1. spent' = [c \in Challenge |-> IF spent[c] <= q.now THEN 0 ELSE spent[c]]
        BY <3>2 DEF LoadIssuance, Unexpired
      <4> QED BY <4>1 DEF Inv, SpentMeansUsed
    <3>3. CASE spent' = spent
      BY <3>3 DEF Inv, SpentMeansUsed
    <3> QED BY <3>1, <3>2, <3>3
            DEF Step, Receive, LockAccount, RefuseUnissued, ReadReceipts, Fail
  <2> QED BY <1>3, <2>1 DEF Inv, SpentMeansUsed, QuietStep, history
<1> QED BY <1>3, <1>5, <1>6, <1>7, QuietInv DEF Inv

\* A commit: the exchange holds the registry and found no receipt, so a use
\* before it can only be one whose account is gone.
LEMMA CommitInv ==
    ASSUME Inv, TypeOK', NEW e \in Exchange, CommitAccount(e)
    PROVE  Inv'
<1> DEFINE q == ex[e]
           c == ex[e].challenge
<1>1. TypeOK /\ c \in Challenge /\ q.account \in Account
  BY ActiveRequest DEF Inv, CommitAccount, Request
<1>2. /\ \A f \in Exchange : f # e => ex'[f] = ex[f]
      /\ ex'[e].pc = "committed" /\ ex'[e].challenge = c /\ ex'[e].expires = q.expires
  <2> DEFINE n == [q EXCEPT !.pc = "committed"]
  <2>1. n \in Request /\ n.pc = "committed" /\ n.challenge = c /\ n.expires = q.expires
    BY <1>1, ActiveRequest DEF CommitAccount, Request
  <2>2. ex' = [ex EXCEPT ![e] = n]
    BY <1>1 DEF CommitAccount, TypeOK
  <2> QED BY <1>1, <2>1, <2>2, MoveType
<1>3. /\ HoldsRegistry(e) /\ issuedBy[c] = epoch /\ q.expires = sealed[c]
      /\ \A a \in Account : <<a, c>> \notin receipts
  BY DEF Inv, CommitAccount, ExchangesPassed, HoldsRegistry
<1>4. /\ receipts' = receipts \cup {<<q.account, c>>}
      /\ UNCHANGED <<clock, sealed, epoch, registry, spent, backup, issuedBy, wiped>>
  BY DEF CommitAccount
<1>5. /\ uses'[c] > 0
      /\ uses[c] = 0 => uses'[c] = 1
      /\ \A d \in Challenge : d # c => uses'[d] = uses[d]
      /\ \A d \in Challenge : uses[d] \in 0 .. 2
  <2>1. uses \in [Challenge -> 0 .. 2]
    BY <1>1 DEF TypeOK
  <2>2. uses' = [uses EXCEPT ![c] = IF uses[c] = 2 THEN 2 ELSE uses[c] + 1]
    BY DEF CommitAccount
  <2> QED BY <1>1, <2>1, <2>2
<1>6. \A d \in Challenge : (uses[d] > 0 => uses'[d] > 0) /\ (uses'[d] = 0 => uses[d] = 0)
  BY <1>5
<1>7. OneInRegistry'
  BY <1>2, <1>3 DEF Inv, OneInRegistry, HoldsRegistry
<1>8. CopyConsistent'
  BY <1>4, <1>6 DEF Inv, CopyConsistent
<1>9. RowsTruthful'
  BY <1>4 DEF Inv, RowsTruthful
<1>10. IssuersPast'
  <2>1. issuedBy[c] # 0
    BY <1>1, <1>3, BoundAssumption DEF TypeOK, Epoch
  <2> QED BY <1>4, <1>5, <2>1 DEF Inv, IssuersPast
<1>11. ExchangesPassed'
  <2> SUFFICES ASSUME NEW f \in Exchange
               PROVE  /\ HoldsRegistry(f)' =>
                           issuedBy[ex'[f].challenge] = epoch /\ ex'[f].expires = sealed[ex'[f].challenge]
                      /\ ex'[f].pc = "unused" =>
                           \A a \in Account : <<a, ex'[f].challenge>> \notin receipts'
                      /\ ex'[f].pc = "committed" => uses'[ex'[f].challenge] > 0
    BY <1>4 DEF ExchangesPassed
  <2>1. CASE f = e
    BY <1>2, <1>3, <1>5, <2>1
  <2>2. CASE f # e
    <3>1. ex'[f] = ex[f] /\ ~HoldsRegistry(f)
      BY <1>2, <1>3, <2>2 DEF Inv, OneInRegistry
    <3> QED BY <3>1 DEF HoldsRegistry
  <2> QED BY <2>1, <2>2
<1>12. UseOnRecord'
  <2> SUFFICES ASSUME NEW d \in Challenge, uses'[d] > 0, issuedBy[d] = epoch
               PROVE  d \in wiped \/ \E a \in Account : <<a, d>> \in receipts'
    BY <1>4 DEF UseOnRecord
  <2>1. CASE d = c
    BY <1>1, <1>4, <2>1
  <2>2. CASE d # c
    BY <1>4, <1>5, <2>2 DEF Inv, UseOnRecord
  <2> QED BY <2>1, <2>2
<1>13. OneReceipt'
  <2> SUFFICES ASSUME NEW d \in Challenge, NEW a \in Account, NEW b \in Account,
                      <<a, d>> \in receipts', <<b, d>> \in receipts'
               PROVE  a = b
    BY DEF OneReceipt
  <2>1. CASE d = c
    BY <1>3, <1>4, <2>1
  <2>2. CASE d # c
    BY <1>4, <2>2 DEF Inv, OneReceipt
  <2> QED BY <2>1, <2>2
<1>14. UsedOnceUnlessDeleted'
  <2> SUFFICES ASSUME NEW d \in Challenge, uses'[d] > 1
               PROVE  d \in wiped
    BY <1>4 DEF UsedOnceUnlessDeleted
  <2>1. CASE d = c
    <3>1. uses[c] > 0
      BY <1>1, <1>5, <2>1
    <3> QED BY <1>1, <1>3, <2>1, <3>1 DEF Inv, UseOnRecord
  <2>2. CASE d # c
    BY <1>5, <2>2 DEF Inv, UsedOnceUnlessDeleted
  <2> QED BY <2>1, <2>2
<1>15. SpentMeansUsed'
  <2> SUFFICES ASSUME NEW d \in Challenge,
                      spent[d] # 0 \/ \E a \in Account : <<a, d>> \in receipts'
               PROVE  uses'[d] > 0
    BY <1>4 DEF SpentMeansUsed
  <2>1. CASE d = c
    BY <1>5, <2>1
  <2>2. CASE d # c
    BY <1>4, <1>6, <2>2 DEF Inv, SpentMeansUsed
  <2> QED BY <2>1, <2>2
<1>16. UnusedStaysIssued'
  BY <1>4, <1>6 DEF Inv, UnusedStaysIssued
<1> QED BY <1>7, <1>8, <1>9, <1>10, <1>11, <1>12, <1>13, <1>14, <1>15, <1>16 DEF Inv

\* A deletion takes receipts away and notes whose.
LEMMA DeleteInv ==
    ASSUME Inv, TypeOK', NEW a \in Account, DeleteUser(a)
    PROVE  Inv'
<1>1. /\ receipts' \subseteq receipts /\ wiped \subseteq wiped'
      /\ \A c \in Challenge, b \in Account :
            <<b, c>> \in receipts => <<b, c>> \in receipts' \/ c \in wiped'
      /\ UNCHANGED <<clock, sealed, epoch, registry, spent, ex, backup, issuedBy, uses>>
  BY DEF DeleteUser
<1>2. OneInRegistry' /\ CopyConsistent' /\ RowsTruthful' /\ IssuersPast'
  BY <1>1 DEF Inv, OneInRegistry, CopyConsistent, RowsTruthful, IssuersPast, HoldsRegistry
<1>3. ExchangesPassed'
  BY <1>1 DEF Inv, ExchangesPassed, HoldsRegistry
<1>4. UseOnRecord'
  BY <1>1 DEF Inv, UseOnRecord
<1>5. OneReceipt' /\ UsedOnceUnlessDeleted'
  BY <1>1 DEF Inv, OneReceipt, UsedOnceUnlessDeleted
<1>6. SpentMeansUsed' /\ UnusedStaysIssued'
  BY <1>1 DEF Inv, SpentMeansUsed, UnusedStaysIssued
<1> QED BY <1>2, <1>3, <1>4, <1>5, <1>6 DEF Inv

\* Time passes, or nothing does.
LEMMA TickInv ==
    ASSUME Inv, TypeOK', Tick \/ UNCHANGED vars
    PROVE  Inv'
<1>1. /\ UNCHANGED <<sealed, epoch, registry, spent, receipts, ex, backup, issuedBy, uses, wiped>>
      /\ clock' = clock \/ clock' = clock + 1
  BY DEF Tick, vars, history
<1>2. OneInRegistry' /\ CopyConsistent' /\ RowsTruthful' /\ IssuersPast'
  BY <1>1 DEF Inv, OneInRegistry, CopyConsistent, RowsTruthful, IssuersPast, HoldsRegistry
<1>3. ExchangesPassed' /\ UseOnRecord'
  BY <1>1 DEF Inv, ExchangesPassed, HoldsRegistry, UseOnRecord
<1>4. OneReceipt' /\ UsedOnceUnlessDeleted' /\ SpentMeansUsed'
  BY <1>1 DEF Inv, OneReceipt, UsedOnceUnlessDeleted, SpentMeansUsed
<1>5. UnusedStaysIssued'
  <2> SUFFICES ASSUME NEW c \in Challenge, issuedBy[c] = epoch, uses[c] = 0, sealed[c] > clock'
               PROVE  \E r \in registry :
                         r.challenge = c /\ r.epoch = epoch /\ r.expires = sealed[c]
    BY <1>1 DEF UnusedStaysIssued
  <2>1. clock \in Int /\ sealed[c] \in Int
    BY LifetimeAssumption, BoundAssumption DEF Inv, TypeOK, Time, Expiry
  <2>2. sealed[c] > clock
    BY <1>1, <2>1
  <2> QED BY <2>2 DEF Inv, UnusedStaysIssued
<1> QED BY <1>2, <1>3, <1>4, <1>5 DEF Inv

\* A copy of the data directory has what the directory has.
LEMMA BackupInv ==
    ASSUME Inv, TypeOK', Backup
    PROVE  Inv'
<1>1. /\ backup'[1] = registry /\ backup'[2] = receipts
      /\ UNCHANGED <<clock, sealed, epoch, registry, spent, receipts, ex, issuedBy, uses, wiped>>
  BY DEF Backup, disk, history
<1>2. CopyConsistent' /\ RowsTruthful'
  BY <1>1 DEF Inv, CopyConsistent, RowsTruthful, OneReceipt, SpentMeansUsed
<1>3. OneInRegistry' /\ IssuersPast' /\ ExchangesPassed' /\ UseOnRecord'
  BY <1>1 DEF Inv, OneInRegistry, IssuersPast, ExchangesPassed, UseOnRecord, HoldsRegistry
<1>4. OneReceipt' /\ UsedOnceUnlessDeleted' /\ SpentMeansUsed' /\ UnusedStaysIssued'
  BY <1>1 DEF Inv, OneReceipt, UsedOnceUnlessDeleted, SpentMeansUsed, UnusedStaysIssued
<1> QED BY <1>2, <1>3, <1>4 DEF Inv

\* No challenge that was issued before is of the next process.
LEMMA RestartInv ==
    ASSUME Inv, TypeOK', Restart(disk) \/ Restart(backup)
    PROVE  Inv'
<1>1. /\ \/ registry' = registry /\ receipts' = receipts
         \/ registry' = backup[1] /\ receipts' = backup[2]
      /\ epoch' = epoch + 1
      /\ spent' = [c \in Challenge |-> 0] /\ ex' = [e \in Exchange |-> Idle]
      /\ UNCHANGED <<clock, sealed, backup, issuedBy, uses, wiped>>
  BY DEF Restart, disk, history
<1>2. \A c \in Challenge : issuedBy[c] < epoch' /\ issuedBy[c] <= epoch' /\ issuedBy[c] # epoch'
  <2>1. \A c \in Challenge : issuedBy[c] \in Int /\ issuedBy[c] <= epoch
    BY BoundAssumption DEF Inv, IssuersPast, TypeOK, Epoch
  <2>2. epoch \in Int
    BY BoundAssumption DEF Inv, TypeOK, Epoch
  <2> QED BY <1>1, <2>1, <2>2
<1>3. \A e \in Exchange : ex'[e].pc = "idle" /\ ~HoldsRegistry(e)'
  BY <1>1 DEF Idle, HoldsRegistry
<1>4. OneInRegistry' /\ ExchangesPassed'
  BY <1>3 DEF OneInRegistry, ExchangesPassed
<1>5. CopyConsistent' /\ RowsTruthful'
  BY <1>1 DEF Inv, CopyConsistent, RowsTruthful
<1>6. IssuersPast' /\ UseOnRecord' /\ UnusedStaysIssued'
  BY <1>1, <1>2 DEF Inv, IssuersPast, UseOnRecord, UnusedStaysIssued
<1>7. OneReceipt' /\ SpentMeansUsed'
  BY <1>1 DEF Inv, OneReceipt, SpentMeansUsed, CopyConsistent
<1>8. UsedOnceUnlessDeleted'
  BY <1>1 DEF Inv, UsedOnceUnlessDeleted
<1> QED BY <1>4, <1>5, <1>6, <1>7, <1>8 DEF Inv

\* Every step keeps the invariant.
LEMMA InvStep ==
    ASSUME Inv, [Next]_vars
    PROVE  Inv'
<1>1. TypeOK'
  BY TypeStep DEF Inv
<1>2. CASE \E c \in Challenge : Issue(c)
  BY <1>1, <1>2, IssueInv
<1>3. CASE \E e \in Exchange : Step(e)
  BY <1>1, <1>3, CommitInv, ExchangeInv
<1>4. CASE \E a \in Account : DeleteUser(a)
  BY <1>1, <1>4, DeleteInv
<1>5. CASE Tick \/ UNCHANGED vars
  BY <1>1, <1>5, TickInv
<1>6. CASE Backup
  BY <1>1, <1>6, BackupInv
<1>7. CASE Restart(disk) \/ Restart(backup)
  BY <1>1, <1>7, RestartInv
<1> QED BY <1>2, <1>3, <1>4, <1>5, <1>6, <1>7 DEF Next

-----------------------------------------------------------------------------
(* The theorems *)

\* The inductive invariant holds in every reachable state.
LEMMA Invariance == Spec => []Inv
BY InvInit, InvStep, PTL DEF Spec

\* No two accounts ever hold a receipt of one challenge, although receipts are
\* read without the other accounts' locks and at times read before the lock.
THEOREM ReceiptsUnique == Spec => []OneReceipt
<1>1. Inv => OneReceipt
  BY DEF Inv
<1> QED BY <1>1, Invariance, PTL

\* A challenge creates at most one session unless its account is deleted, over
\* any number of concurrent exchanges, crashes, restarts and restored copies.
THEOREM SingleUse == Spec => []UsedOnceUnlessDeleted
<1>1. Inv => UsedOnceUnlessDeleted
  BY DEF Inv
<1> QED BY <1>1, Invariance, PTL

\* A challenge is never refused as used unless it created a session.
THEOREM NeverSpentInVain == Spec => []SpentMeansUsed
<1>1. Inv => SpentMeansUsed
  BY DEF Inv
<1> QED BY <1>1, Invariance, PTL

\* A challenge that was not used can still be exchanged until it expires, as
\* long as the process that issued it runs.
THEOREM RetryPossible == Spec => []UnusedStaysIssued
<1>1. Inv => UnusedStaysIssued
  BY DEF Inv
<1> QED BY <1>1, Invariance, PTL
================================================================================
