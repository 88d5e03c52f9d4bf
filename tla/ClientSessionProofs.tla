------------------------ MODULE ClientSessionProofs ------------------------
(***************************************************************************)
(* The safety of sign-out and account deletion for every set of tabs and   *)
(* accounts and every number of sessions and faults.                       *)
(*                                                                         *)
(* A marker may only go when the session of its sign-out is over and its   *)
(* data is gone, and the tab that drops it found both out some steps ago.  *)
(* The invariant says why that is still true (Justified): a session that   *)
(* was made since is not one the user signed out of, and another sign-out  *)
(* that began since has changed the marker.                                *)
(***************************************************************************)
EXTENDS ClientSession, TLAPS
----------------------------------------------------------------------------
(* The inductive invariant.                                                *)

\* The browser holds a session that the user signed out of and the server accepts.
Held == cookie \in intent.left /\ cookie \in server.live

\* A deletion record that can be sent is of an account the user deleted; one of
\* an older client holds a token of the account it names.
SoundRecord(r, i) ==
    /\ r.stage = "issued" => r.owner \in i.deletion
    /\ r.stage = "legacy" => r.by.owner = r.owner

\* What a tab captured was asked for: the marker it works off, the record it
\* sends, the account it signs out of or deletes.
SoundTab(s, i) ==
    /\ s.seen \in i.asked \cup {None}
    /\ s.record # None => SoundRecord(s.record, i) /\ s.record.stage # "candidate"
    /\ s.pc \in {"delete", "recover"} => s.record # None
    /\ s.pc \in {"signout", "cleanup", "delete"} => Current(s) \in i.asked
    /\ s.pc \in {"landing", "wipe", "erase"} => s.seen # None
    /\ s.pc = "revoke" => s.reply # None
    /\ s.pc \in {"idle", "signout"} => ~s.revoked

\* The tab has evidence that the session its sign-out was about is over.
SessionOver(s) ==
    \/ s.pc \in {"landing", "wipe", "erase"}
    \/ s.pc = "known" /\ s.reply = None
    \/ s.pc = "cleanup" /\ s.revoked

\* A tab that may drop the marker m has reason to: h says that a session which must
\* end is still held, c is the cookie, d says that data which must go is still stored.
Justified(s, m, h, c, d) ==
    s.seen = m =>
       /\ SessionOver(s) => ~h
       /\ s.pc \in {"signout", "revoke"} /\ h => s.sent = c
       /\ s.pc = "revoke" => ~d

\* Landing tokens are numbered as they are made (n so far), and a tab that has come
\* back with the token k of the pending sign-out has brought a later session.
Numbered(s, k, n, h) ==
    /\ s.landing <= n
    /\ s.landing = k /\ k # 0 /\ s.pc # "login" => ~h
    /\ s.event => s.pc # "login"

\* What is stored was asked for, and so was every deletion.
Ledger ==
    /\ marker \in intent.asked \cup {None}
    /\ intent.deletion \subseteq intent.asked
    /\ server.gone \subseteq intent.deletion
    /\ \A c \in server.receipts : c.owner \in server.gone
    /\ attempt # None => SoundRecord(attempt, intent)

\* Sessions are numbered as they are made.
Numbers ==
    /\ token <= tokens
    /\ cookie # None => cookie.id <= signins
    /\ \A c \in intent.left : c.id <= signins

Inv ==
    /\ TypeOK /\ Ledger /\ Numbers /\ SignOutHolds
    /\ \A t \in Tab : /\ SoundTab(tab[t], intent)
                      /\ Justified(tab[t], marker, Held, cookie, intent.data)
                      /\ Numbered(tab[t], token, tokens, Held)

World ==
    /\ db \in [owner : Owner, work : BOOLEAN]
    /\ marker \in Owner /\ token \in Token /\ attempt \in Attempt \cup {None}
    /\ cookie \in Session \cup {None}
    /\ server \in [live : SUBSET Session, receipts : SUBSET Session, gone : SUBSET Account]
    /\ signins \in 1 .. MaxSignIns /\ tokens \in Token /\ faults \in 0 .. MaxFaults
    /\ intent \in [left : SUBSET Session, data : BOOLEAN, asked : SUBSET Account,
                    deletion : SUBSET Account]
----------------------------------------------------------------------------
(* One tab moves, the others at most hear of a marker.                     *)

\* q is r, perhaps with the notice of another tab's sign-out.
Alike(q, r) ==
    /\ q.pc = r.pc /\ q.owner = r.owner /\ q.local = r.local
    /\ q.seen = r.seen /\ q.sent = r.sent /\ q.reply = r.reply
    /\ q.revoked = r.revoked /\ q.record = r.record /\ q.landing = r.landing
    /\ q.event => r.event \/ r.pc # "login"

\* What h, c and d say of m is no more than h0, c0 and d0 said of it.
Weaker(m, h, c, d, m0, h0, c0, d0) == m = m0 /\ (h => h0 /\ c = c0) /\ (d => d0)

LEMMA AlikeSound ==
    ASSUME NEW q, NEW r, Alike(q, r), NEW i, NEW j, SoundTab(r, i),
           i.asked \subseteq j.asked, i.deletion \subseteq j.deletion
    PROVE  SoundTab(q, j)
<1>1. Current(q) = Current(r)
  BY DEF Alike, Current
<1> QED BY <1>1 DEF Alike, SoundTab, SoundRecord

LEMMA AlikeJustified ==
    ASSUME NEW q, NEW r, Alike(q, r),
           NEW m, NEW h, NEW c, NEW d, NEW m0, NEW h0, NEW c0, NEW d0,
           Justified(r, m0, h0, c0, d0),
           r.seen # m \/ (~h /\ ~d) \/ Weaker(m, h, c, d, m0, h0, c0, d0)
    PROVE  Justified(q, m, h, c, d)
<1>1. SessionOver(q) => SessionOver(r)
  BY DEF Alike, SessionOver
<1> QED BY <1>1 DEF Alike, Justified, Weaker

LEMMA AlikeNumbered ==
    ASSUME NEW q, NEW r, Alike(q, r), NEW k, NEW n \in Nat, NEW h, NEW k0, NEW n0 \in Nat, NEW h0,
           r.landing \in Nat, Numbered(r, k0, n0, h0), n0 <= n, k \in Nat,
           k = 0 \/ k > n0 \/ (k = k0 /\ (h => h0))
    PROVE  Numbered(q, k, n, h)
<1>1. q.landing <= n /\ (q.landing = k => ~(k > n0))
  BY DEF Alike, Numbered
<1> QED BY <1>1 DEF Alike, Numbered

\* The step of one tab keeps the invariant if the world it leaves is sound, the
\* tab is, and nothing it changed takes from another tab its reason to act.
LEMMA TabInv ==
    ASSUME Inv, NEW t \in Tab, NEW s \in TabState,
           tab' \in [Tab -> TabState], tab'[t] = s,
           \A u \in Tab \ {t} : Alike(tab'[u], tab[u]),
           World', Ledger', Numbers', SignOutHolds',
           intent.asked \subseteq intent'.asked, intent.deletion \subseteq intent'.deletion,
           tokens <= tokens', token' = 0 \/ token' > tokens \/ (token' = token /\ (Held' => Held)),
           \A u \in Tab \ {t} :
              \/ tab[u].seen # marker' \/ (~Held' /\ ~intent'.data)
              \/ Weaker(marker', Held', cookie', intent'.data, marker, Held, cookie, intent.data),
           SoundTab(s, intent'), Justified(s, marker', Held', cookie', intent'.data),
           Numbered(s, token', tokens', Held')
    PROVE  Inv'
<1>1. TypeOK'
  BY DEF World, TypeOK
<1>2. ASSUME NEW u \in Tab
      PROVE  /\ SoundTab(tab'[u], intent')
             /\ Justified(tab'[u], marker', Held', cookie', intent'.data)
             /\ Numbered(tab'[u], token', tokens', Held')
  <2>1. CASE u = t
    BY <2>1
  <2>2. CASE u # t
    <3>1. /\ SoundTab(tab[u], intent) /\ Justified(tab[u], marker, Held, cookie, intent.data)
          /\ Numbered(tab[u], token, tokens, Held)
      BY DEF Inv
    <3>2. Alike(tab'[u], tab[u])
      BY <2>2
    <3>3. SoundTab(tab'[u], intent')
      BY <3>1, <3>2, AlikeSound
    <3>4. Justified(tab'[u], marker', Held', cookie', intent'.data)
      <4>1. \/ tab[u].seen # marker' \/ (~Held' /\ ~intent'.data)
            \/ Weaker(marker', Held', cookie', intent'.data, marker, Held, cookie, intent.data)
        BY <2>2
      <4> QED BY <3>1, <3>2, <4>1, AlikeJustified
    <3>5. /\ tokens \in Nat /\ tokens' \in Nat /\ token' \in Nat /\ tab[u].landing \in Nat
      BY SessionAssumption DEF Inv, TypeOK, World, Token, TabState
    <3> QED BY <3>1, <3>2, <3>3, <3>4, <3>5, AlikeNumbered
  <2> QED BY <2>1, <2>2
<1> QED BY <1>1, <1>2 DEF Inv
\* The server and the cookie lose sessions, or gain nothing but what was asked for.
Fades ==
    /\ signins' = signins /\ cookie' \in {cookie, None}
    /\ server' \in [live : SUBSET Session, receipts : SUBSET Session, gone : SUBSET Account]
    /\ server'.live \subseteq server.live
    /\ server'.gone \subseteq intent.deletion
    /\ \A c \in server'.receipts : c.owner \in server'.gone

\* The local data stays or goes.
LocalStep ==
    \/ db' = db /\ intent' = intent
    \/ db' = Empty /\ intent' = [intent EXCEPT !.data = FALSE]

\* The marker stays or goes, with the token or a new one.
MarkerStep ==
    /\ marker' = marker \/ (marker' = None /\ ~Held' /\ ~intent'.data)
    /\ token' \in {0, token} \/ token' > tokens
    /\ token' \in Token /\ tokens' \in Token
    /\ tokens <= tokens' /\ token' <= tokens'

LEMMA LocalFacts ==
    ASSUME Inv, LocalStep
    PROVE  /\ db' \in [owner : Owner, work : BOOLEAN]
           /\ intent' \in [left : SUBSET Session, data : BOOLEAN, asked : SUBSET Account,
                            deletion : SUBSET Account]
           /\ intent'.left = intent.left /\ intent'.asked = intent.asked
           /\ intent'.deletion = intent.deletion
           /\ intent'.data => intent.data /\ db' = db
<1>1. /\ db \in [owner : Owner, work : BOOLEAN]
      /\ intent \in [left : SUBSET Session, data : BOOLEAN, asked : SUBSET Account,
                     deletion : SUBSET Account]
  BY DEF Inv, TypeOK
<1>2. Empty \in [owner : Owner, work : BOOLEAN]
  BY DEF Empty, Owner
<1> QED BY <1>1, <1>2 DEF LocalStep

LEMMA FadeInv ==
    ASSUME Inv, NEW t \in Tab, NEW s \in TabState, Step(t, s), Fades, LocalStep, MarkerStep,
           attempt' \in {attempt, None}, faults' \in 0 .. MaxFaults,
           SoundTab(s, intent), Justified(s, marker', Held', cookie', intent'.data),
           Numbered(s, token', tokens', Held')
    PROVE  Inv'
<1>1. /\ db' \in [owner : Owner, work : BOOLEAN]
      /\ intent' \in [left : SUBSET Session, data : BOOLEAN, asked : SUBSET Account,
                       deletion : SUBSET Account]
      /\ intent'.left = intent.left /\ intent'.asked = intent.asked
      /\ intent'.deletion = intent.deletion
      /\ intent'.data => intent.data /\ db' = db
  BY LocalFacts
<1>2. World'
  <2>1. marker' \in Owner
    BY DEF MarkerStep, Inv, TypeOK, Owner
  <2> QED BY <1>1, <2>1 DEF World, Fades, MarkerStep, Inv, TypeOK
<1>3. Held' => Held /\ cookie' = cookie
  BY <1>1, RecordAssumption DEF Held, Fades
<1>4. tab' \in [Tab -> TabState] /\ tab'[t] = s /\ \A u \in Tab \ {t} : tab'[u] = tab[u]
  BY DEF Step, Inv, TypeOK
<1>5. \A u \in Tab \ {t} : Alike(tab'[u], tab[u])
  BY <1>4 DEF Alike
<1>6. SoundTab(s, intent')
  BY <1>1 DEF SoundTab, SoundRecord
<1>7. Ledger'
  BY <1>1 DEF Ledger, Fades, MarkerStep, Inv, SoundRecord
<1>8. Numbers'
  BY <1>1 DEF Numbers, Fades, MarkerStep, Inv
<1>9. SignOutHolds'
  <2>1. intent'.data => marker' = db'.owner
    BY <1>1 DEF MarkerStep, Inv, SignOutHolds
  <2>2. Held' => marker' = cookie'.owner
    BY <1>3 DEF MarkerStep, Inv, SignOutHolds, Held
  <2> QED BY <2>1, <2>2 DEF SignOutHolds, Held
<1>10. \/ ~Held' /\ ~intent'.data
       \/ Weaker(marker', Held', cookie', intent'.data, marker, Held, cookie, intent.data)
  BY <1>1, <1>3 DEF Weaker, MarkerStep
<1>11. token' = 0 \/ token' > tokens \/ (token' = token /\ (Held' => Held))
  BY <1>3 DEF MarkerStep
<1>12. tokens <= tokens'
  BY DEF MarkerStep
<1> QED BY <1>1, <1>2, <1>4, <1>5, <1>6, <1>7, <1>8, <1>9, <1>10, <1>11, <1>12, TabInv
----------------------------------------------------------------------------
(* What a tab becomes.                                                     *)

LEMMA IdleFields ==
    ASSUME NEW s \in TabState
    PROVE  /\ Idle(s) \in TabState /\ Idle(s).pc = "idle" /\ Idle(s).seen = None
           /\ Idle(s).record = None /\ Idle(s).landing = s.landing /\ ~Idle(s).revoked
<1> DEFINE q == [s EXCEPT !.pc = "idle", !.seen = None, !.binding = None, !.sent = None]
<1>1. q \in TabState /\ q.pc = "idle" /\ q.seen = None /\ q.landing = s.landing
  BY DEF TabState, Owner
<1>2. Idle(s) = [[q EXCEPT !.reply = None, !.revoked = FALSE, !.durable = TRUE]
                    EXCEPT !.record = None, !.starting = FALSE]
  BY DEF Idle, TabState
<1> HIDE DEF q
<1> DEFINE r == [q EXCEPT !.reply = None, !.revoked = FALSE, !.durable = TRUE]
<1>3. r \in TabState /\ r.pc = q.pc /\ r.seen = q.seen /\ r.landing = q.landing /\ ~r.revoked
  <2>1. q \in TabState
    BY <1>1
  <2>2. r \in TabState
    BY <2>1 DEF TabState
  <2>3. r.pc = q.pc /\ r.seen = q.seen /\ r.landing = q.landing /\ ~r.revoked
    BY <2>1 DEF TabState
  <2> QED BY <2>2, <2>3
<1> HIDE DEF r
<1> DEFINE p == [r EXCEPT !.record = None, !.starting = FALSE]
<1>4. /\ p \in TabState /\ p.pc = r.pc /\ p.seen = r.seen /\ p.landing = r.landing
      /\ p.record = None /\ ~p.revoked
  BY <1>3 DEF TabState
<1>5. Idle(s) = p
  BY <1>2 DEF r
<1> HIDE DEF p
<1> QED BY <1>1, <1>3, <1>4, <1>5

LEMMA ClosedFields ==
    /\ ClosedTab \in TabState /\ ClosedTab.pc = "closed" /\ ClosedTab.seen = None
    /\ ClosedTab.record = None /\ ClosedTab.landing = 0 /\ ClosedTab.event = FALSE
BY SessionAssumption DEF ClosedTab, TabState, Owner, Token

\* A tab that works on nothing has nothing to justify.
LEMMA RestSound ==
    ASSUME NEW s, s.pc \in {"idle", "boot", "login", "closed", "peer", "me"},
           s.pc = "idle" => ~s.revoked, s.record = None, NEW i, s.seen \in i.asked \cup {None},
           NEW m, NEW h, NEW c, NEW d
    PROVE  SoundTab(s, i) /\ Justified(s, m, h, c, d)
BY DEF SoundTab, Justified, SessionOver

\* A tab that does not come back from the provider keeps its number.
LEMMA SameNumber ==
    ASSUME NEW s, NEW r, NEW k \in Nat, NEW n \in Nat, NEW h, NEW k0, NEW n0 \in Nat, NEW h0,
           r.landing \in Nat, Numbered(r, k0, n0, h0), n0 <= n,
           k = 0 \/ k > n0 \/ (k = k0 /\ (h => h0)),
           r.pc # "login", s.pc # "login", s.landing = r.landing
    PROVE  Numbered(s, k, n, h)
<1>1. s.landing <= n /\ (s.landing = k => ~(k > n0))
  BY DEF Numbered
<1> QED BY <1>1 DEF Numbered

\* What FadeInv needs, for a tab that stays where it does not come back from login.
LEMMA FadeNumber ==
    ASSUME Inv, NEW t \in Tab, NEW s, tab[t].pc # "login", s.pc # "login",
           s.landing = tab[t].landing, Fades, LocalStep, MarkerStep
    PROVE  Numbered(s, token', tokens', Held')
<1>1. Held' => Held
  BY LocalFacts, RecordAssumption DEF Held, Fades, Inv, TypeOK
<1>2. /\ tokens \in Nat /\ tokens' \in Nat /\ token' \in Nat /\ tab[t].landing \in Nat
      /\ Numbered(tab[t], token, tokens, Held)
  BY SessionAssumption DEF Inv, TypeOK, MarkerStep, Token, TabState
<1> QED BY <1>1, <1>2, SameNumber DEF MarkerStep
----------------------------------------------------------------------------
(* Steps that take nothing from the others.                                *)

LEMMA QuietWorld ==
    ASSUME Inv
    PROVE  /\ UNCHANGED <<cookie, server, signins>> => Fades
           /\ UNCHANGED <<db, intent>> => LocalStep
           /\ UNCHANGED <<marker, token, tokens>> => MarkerStep
<1>1. UNCHANGED <<cookie, server, signins>> => Fades
  BY DEF Inv, TypeOK, Ledger, Fades
<1>2. UNCHANGED <<db, intent>> => LocalStep
  BY DEF LocalStep
<1>3. UNCHANGED <<marker, token, tokens>> => MarkerStep
  BY SessionAssumption DEF Inv, TypeOK, Numbers, MarkerStep, Token
<1> QED BY <1>1, <1>2, <1>3

\* A tab goes on; marker, data and session stay.
LEMMA QuietInv ==
    ASSUME Inv, NEW t \in Tab, NEW s \in TabState, Step(t, s),
           UNCHANGED <<db, intent>>, UNCHANGED <<marker, token, tokens>>,
           UNCHANGED <<cookie, server, signins>>,
           attempt' \in {attempt, None}, faults' \in 0 .. MaxFaults,
           tab[t].pc # "login", s.pc # "login", s.landing = tab[t].landing,
           SoundTab(s, intent), Justified(s, marker, Held, cookie, intent.data)
    PROVE  Inv'
<1>1. Fades /\ LocalStep /\ MarkerStep
  BY QuietWorld
<1>2. Numbered(s, token', tokens', Held')
  BY <1>1, FadeNumber
<1>3. Held' <=> Held
  BY DEF Held
<1>4. Justified(s, marker', Held', cookie', intent'.data)
  BY <1>3 DEF Justified
<1> QED BY <1>1, <1>2, <1>4, FadeInv

\* A tab comes to rest; whatever it leaves behind may only fade.
LEMMA RestInv ==
    ASSUME Inv, NEW t \in Tab, NEW s \in TabState, Step(t, s), Fades, LocalStep, MarkerStep,
           attempt' \in {attempt, None}, faults' \in 0 .. MaxFaults,
           s.landing = 0 \/ (tab[t].pc # "login" /\ s.landing = tab[t].landing),
           s.pc \in {"idle", "boot", "peer", "me", "closed"}, s.pc = "idle" => ~s.revoked,
           s.record = None, s.seen \in intent.asked \cup {None}
    PROVE  Inv'
<1>1. Numbered(s, token', tokens', Held')
  <2>1. CASE s.landing = 0
    <3>1. tokens' \in Nat
      BY SessionAssumption DEF MarkerStep, Token
    <3> QED BY <2>1, <3>1 DEF Numbered
  <2>2. CASE tab[t].pc # "login" /\ s.landing = tab[t].landing
    BY <2>2, FadeNumber
  <2> QED BY <2>1, <2>2
<1>2. SoundTab(s, intent) /\ Justified(s, marker', Held', cookie', intent'.data)
  BY RestSound
<1> QED BY <1>1, <1>2, FadeInv

\* The page is left for the sign-in, with its marker or without.
LEMMA RedirectInv ==
    ASSUME Inv, NEW t \in Tab, NEW m, Redirect(t, m), Fades, LocalStep,
           m = marker \/ (m = None /\ ~Held' /\ ~intent'.data),
           attempt' \in {attempt, None}, faults' \in 0 .. MaxFaults
    PROVE  Inv'
<1> DEFINE k == IF m = None THEN 0 ELSE SignInToken
<1> DEFINE s == [ClosedTab EXCEPT !.pc = "login", !.landing = k]
<1>1. token \in Nat /\ tokens \in Nat /\ tokens <= MaxSignIns /\ token <= tokens /\ MaxSignIns \in Nat
  BY SessionAssumption DEF Inv, TypeOK, Numbers, Token
<1>2. k \in Nat /\ k \in Token /\ (k \in {0, token} \/ k > tokens)
  BY <1>1 DEF SignInToken, Token
<1>3. /\ marker' = m /\ token' = k /\ Step(t, s)
      /\ tokens' = IF k > tokens THEN k ELSE tokens
  BY DEF Redirect
<1> HIDE DEF k
<1>4. MarkerStep
  BY <1>1, <1>2, <1>3 DEF MarkerStep, Token
<1>5. /\ s \in TabState /\ s.pc = "login" /\ s.record = None /\ s.seen = None
      /\ s.landing = k /\ s.event = FALSE
  BY <1>2, ClosedFields DEF TabState
<1> HIDE DEF s
<1>6. Numbered(s, token', tokens', Held')
  BY <1>1, <1>2, <1>3, <1>5 DEF Numbered
<1>7. SoundTab(s, intent) /\ Justified(s, marker', Held', cookie', intent'.data)
  BY <1>5, RestSound
<1> QED BY <1>3, <1>4, <1>5, <1>6, <1>7, FadeInv
----------------------------------------------------------------------------
(* The server.                                                             *)

LEMMA LoggedOutFades ==
    ASSUME Inv, NEW c, NEW a, NEW by, server' \in {server, LoggedOut(c, a, by)},
           cookie' \in {cookie, None}, signins' = signins
    PROVE  Fades
<1>1. /\ server \in [live : SUBSET Session, receipts : SUBSET Session, gone : SUBSET Account]
      /\ server.gone \subseteq intent.deletion
      /\ \A r \in server.receipts : r.owner \in server.gone
  BY DEF Inv, TypeOK, Ledger
<1>2. CASE server' = server
  BY <1>1, <1>2 DEF Fades
<1>3. CASE server' = [server EXCEPT !.live = @ \ {c}]
  BY <1>1, <1>3 DEF Fades
<1> QED BY <1>2, <1>3 DEF LoggedOut

\* A deletion that is granted was asked for.
LEMMA DeletionGranted ==
    ASSUME Inv, NEW t \in Tab, tab[t].pc \in {"delete", "recover"},
           DeletionStatus(tab[t].sent, tab[t].record) = 204
    PROVE  /\ tab[t].sent \in Session /\ tab[t].sent.owner \in intent.deletion
           /\ tab[t].record \in Attempt /\ tab[t].record.owner \in intent.deletion
<1> DEFINE s == tab[t]
<1>1. /\ s.record \in Attempt /\ SoundRecord(s.record, intent) /\ s.record.stage # "candidate"
  BY DEF Inv, SoundTab, TypeOK, TabState
<1>2. s.record.stage \in {"issued", "legacy"}
  BY <1>1 DEF Attempt
<1>3. s.sent \in Session \cup {None}
  BY DEF Inv, TypeOK, TabState
<1> HIDE DEF s
<1>4. CASE s.sent # None /\ s.sent \in server.receipts
  <2>1. s.sent = s.record.by
    BY <1>4 DEF DeletionStatus, s
  <2>2. s.sent.owner \in intent.deletion
    BY <1>4 DEF Inv, Ledger
  <2>3. s.record.stage = "legacy" => s.record.owner \in intent.deletion
    BY <1>1, <2>1, <2>2 DEF SoundRecord
  <2> QED BY <1>1, <1>2, <1>3, <1>4, <2>1, <2>2, <2>3 DEF SoundRecord, s
<1>5. CASE ~(s.sent # None /\ s.sent \in server.receipts)
  <2>1. s.record.stage # "legacy" /\ MutationStatus(s.sent, s.record.owner, s.record.by) = 204
    BY <1>5 DEF DeletionStatus, s
  <2>2. s.sent # None /\ s.sent.owner = s.record.owner
    BY <2>1 DEF MutationStatus
  <2> QED BY <1>1, <1>2, <1>3, <2>1, <2>2 DEF SoundRecord, s
<1> QED BY <1>4, <1>5

LEMMA DeletedFades ==
    ASSUME Inv, NEW t \in Tab, tab[t].pc \in {"delete", "recover"},
           server' \in {server, Deleted(tab[t].sent, tab[t].record)},
           cookie' \in {cookie, None}, signins' = signins
    PROVE  Fades
<1>1. /\ server \in [live : SUBSET Session, receipts : SUBSET Session, gone : SUBSET Account]
      /\ server.gone \subseteq intent.deletion
      /\ intent.deletion \subseteq Account
      /\ \A r \in server.receipts : r.owner \in server.gone
  BY DEF Inv, TypeOK, Ledger
<1>2. CASE server' = server
  BY <1>1, <1>2 DEF Fades
<1>3. CASE server' # server
  <2> DEFINE c == tab[t].sent
  <2>1. DeletionStatus(tab[t].sent, tab[t].record) = 204
    BY <1>3 DEF Deleted
  <2>2. c \in Session /\ c.owner \in intent.deletion
    BY <2>1, DeletionGranted
  <2>3. server' = [live |-> {r \in server.live : r.owner # c.owner},
                   receipts |-> server.receipts \cup {c}, gone |-> server.gone \cup {c.owner}]
    BY <1>3, <2>1 DEF Deleted
  <2> HIDE DEF c
  <2> QED BY <1>1, <2>2, <2>3 DEF Fades
<1> QED BY <1>2, <1>3
----------------------------------------------------------------------------
(* Faults and cleanups.                                                    *)

LEMMA FaultBound ==
    ASSUME Inv, Fault \/ UNCHANGED faults
    PROVE  faults' \in 0 .. MaxFaults
BY SessionAssumption DEF Inv, TypeOK, Fault

LEMMA ErasedStep ==
    ASSUME Inv, NEW s, Erased(s)
    PROVE  /\ LocalStep /\ ~intent'.data /\ faults' \in 0 .. MaxFaults
           /\ db' = Empty /\ marker = s.seen
<1>1. LocalStep /\ db' = Empty /\ marker = s.seen /\ intent' = [intent EXCEPT !.data = FALSE]
  BY DEF Erased, LocalStep, CleanupAllowed
<1>2. ~intent'.data
  BY <1>1 DEF Inv, TypeOK
<1>3. faults' \in 0 .. MaxFaults
  BY FaultBound DEF Erased
<1> QED BY <1>1, <1>2, <1>3

LEMMA EraseFailedStep ==
    ASSUME Inv, NEW s, EraseFailed(s)
    PROVE  LocalStep /\ UNCHANGED <<db, intent>> /\ faults' \in 0 .. MaxFaults
<1>1. faults' \in 0 .. MaxFaults
  BY FaultBound DEF EraseFailed
<1> QED BY <1>1 DEF EraseFailed, LocalStep

LEMMA DeferredFields ==
    ASSUME NEW s \in TabState
    PROVE  /\ Deferred(s) \in TabState /\ Deferred(s).pc = "idle" /\ Deferred(s).seen = None
           /\ Deferred(s).record = None /\ Deferred(s).landing = s.landing /\ ~Deferred(s).revoked
<1> DEFINE q == [s EXCEPT !.recovery = @ \/ (s.starting /\ marker # None)]
<1>1. q \in TabState /\ q.landing = s.landing
  <2>1. (s.recovery \/ (s.starting /\ marker # None)) \in BOOLEAN
    OBVIOUS
  <2> QED BY <2>1 DEF TabState
<1>2. Deferred(s) = Idle(q)
  BY DEF Deferred
<1> HIDE DEF q
<1> QED BY <1>1, <1>2, IdleFields

\* An operation ends: deferred, or given up.
LEMMA EndedInv ==
    ASSUME Inv, NEW t \in Tab, NEW r \in TabState, r.landing = tab[t].landing,
           Step(t, Idle(r)) \/ Step(t, Deferred(r)), tab[t].pc # "login",
           Fades, LocalStep, MarkerStep, attempt' \in {attempt, None}, faults' \in 0 .. MaxFaults
    PROVE  Inv'
<1>1. CASE Step(t, Idle(r))
  <2> DEFINE q == Idle(r)
  <2>1. q \in TabState /\ q.pc = "idle" /\ q.seen = None /\ q.record = None
        /\ q.landing = r.landing /\ ~q.revoked
    BY IdleFields
  <2>2. Step(t, q)
    BY <1>1
  <2> HIDE DEF q
  <2> QED BY <2>1, <2>2, RestInv
<1>2. CASE Step(t, Deferred(r))
  <2> DEFINE q == Deferred(r)
  <2>1. q \in TabState /\ q.pc = "idle" /\ q.seen = None /\ q.record = None
        /\ q.landing = r.landing /\ ~q.revoked
    BY DeferredFields
  <2>2. Step(t, q)
    BY <1>2
  <2> HIDE DEF q
  <2> QED BY <2>1, <2>2, RestInv
<1> QED BY <1>1, <1>2

LEMMA TabTyped ==
    ASSUME Inv, NEW t \in Tab
    PROVE  tab[t] \in TabState
BY DEF Inv, TypeOK
----------------------------------------------------------------------------
(* Starting a tab.                                                         *)

LEMMA OpenTabInv ==
    ASSUME Inv, NEW t \in Tab, OpenTab(t) \/ CloseTab(t)
    PROVE  Inv'
<1>1. Fades /\ LocalStep /\ MarkerStep /\ faults' \in 0 .. MaxFaults
  BY QuietWorld, FaultBound DEF OpenTab, CloseTab, remote, markers
<1>2. PICK s \in {[ClosedTab EXCEPT !.pc = "boot"], ClosedTab} : Step(t, s)
  BY DEF OpenTab, CloseTab
<1>3. /\ s \in TabState /\ s.pc \in {"boot", "closed"} /\ s.seen = None /\ s.record = None
      /\ s.landing = 0
  BY <1>2, ClosedFields DEF TabState
<1> QED BY <1>1, <1>2, <1>3, RestInv DEF OpenTab, CloseTab

LEMMA LoadSessionSound ==
    ASSUME Inv, NEW r \in TabState, NEW d, d.owner \in Owner
    PROVE  /\ LoadSession(d, r) \in TabState /\ LoadSession(d, r).landing = r.landing
           /\ LoadSession(d, r).pc \in {"recover", "me"}
           /\ SoundTab(LoadSession(d, r), intent)
           /\ \A m, h, c, e : Justified(LoadSession(d, r), m, h, c, e)
<1> DEFINE q == [r EXCEPT !.seen = marker, !.binding = d.owner]
<1> DEFINE a == Recoverable(attempt, r)
<1> DEFINE p == [q EXCEPT !.pc = IF a THEN "recover" ELSE "me",
                          !.sent = IF a THEN cookie ELSE None,
                          !.record = IF a THEN attempt ELSE None]
<1>1. /\ marker \in Owner /\ cookie \in Session \cup {None} /\ attempt \in Attempt \cup {None}
      /\ marker \in intent.asked \cup {None} /\ (attempt # None => SoundRecord(attempt, intent))
  BY DEF Inv, TypeOK, Ledger
<1>2. q \in TabState /\ q.seen = marker /\ q.landing = r.landing
  BY <1>1 DEF TabState
<1>3. LoadSession(d, r) = p
  BY DEF LoadSession, TabState
<1>4. a => attempt # None /\ attempt.stage # "candidate"
  BY DEF Recoverable
<1> HIDE DEF q, a
<1>5. p \in TabState
  <2>1. /\ (IF a THEN cookie ELSE None) \in Session \cup {None}
        /\ (IF a THEN attempt ELSE None) \in Attempt \cup {None}
        /\ (IF a THEN "recover" ELSE "me") \in {"recover", "me"}
    BY <1>1
  <2>2. q \in TabState
    BY <1>2
  <2>3. ASSUME NEW x \in {"recover", "me"}, NEW y \in Session \cup {None},
               NEW z \in Attempt \cup {None}
        PROVE  [q EXCEPT !.pc = x, !.sent = y, !.record = z] \in TabState
    BY <2>2 DEF TabState
  <2> QED BY <2>1, <2>3
<1>6. /\ p.seen = q.seen /\ p.landing = q.landing /\ p.pc = (IF a THEN "recover" ELSE "me")
      /\ p.record = (IF a THEN attempt ELSE None)
  BY <1>2 DEF TabState
<1> HIDE DEF p
<1>7. SoundTab(p, intent)
  BY <1>1, <1>2, <1>4, <1>6 DEF SoundTab
<1>8. ASSUME NEW m, NEW h, NEW c, NEW e PROVE Justified(p, m, h, c, e)
  BY <1>6 DEF Justified, SessionOver
<1> QED BY <1>2, <1>3, <1>5, <1>6, <1>7, <1>8

\* A start or a retry asks for the session, whatever became of the local data.
LEMMA LoadingInv ==
    ASSUME Inv, NEW t \in Tab, NEW r \in TabState, NEW d, d.owner \in Owner,
           Step(t, LoadSession(d, r)), r.landing = tab[t].landing, tab[t].pc # "login",
           LocalStep, UNCHANGED <<marker, token, tokens>>, UNCHANGED <<cookie, server, signins>>,
           attempt' = attempt, faults' \in 0 .. MaxFaults
    PROVE  Inv'
<1> DEFINE s == LoadSession(d, r)
<1>1. /\ s \in TabState /\ s.landing = tab[t].landing /\ s.pc \in {"recover", "me"}
      /\ SoundTab(s, intent) /\ Justified(s, marker', Held', cookie', intent'.data)
  BY LoadSessionSound
<1>2. Step(t, s)
  OBVIOUS
<1> HIDE DEF s
<1>3. Fades /\ MarkerStep
  BY QuietWorld
<1>4. Numbered(s, token', tokens', Held')
  BY <1>1, <1>3, FadeNumber
<1> QED BY <1>1, <1>2, <1>3, <1>4, FadeInv

LEMMA LoadedFields ==
    ASSUME NEW s \in TabState, NEW d, d.owner \in Owner
    PROVE  Loaded(d, s) \in TabState /\ Loaded(d, s).landing = s.landing
BY DEF Loaded, TabState

LEMMA BootInv ==
    ASSUME Inv, NEW t \in Tab, Boot(t)
    PROVE  Inv'
<1> DEFINE s == [tab[t] EXCEPT !.seen = marker, !.starting = TRUE]
<1>1. /\ tab[t] \in TabState /\ marker \in Owner /\ db.owner \in Owner /\ Empty.owner \in Owner
  BY DEF Inv, TypeOK, Empty, Owner
<1>2. s \in TabState /\ s.landing = tab[t].landing
  BY <1>1 DEF TabState
<1>3. /\ tab[t].pc # "login" /\ attempt' = attempt
      /\ UNCHANGED <<marker, token, tokens>> /\ UNCHANGED <<cookie, server, signins>>
  BY DEF Boot, remote, markers
<1>4. \/ Step(t, LoadSession(db, Loaded(db, s))) /\ UNCHANGED <<db, faults, intent>>
      \/ Erased(s) /\ Step(t, LoadSession(Empty, Loaded(Empty, [s EXCEPT !.recovery = FALSE])))
      \/ EraseFailed(s) /\ Step(t, LoadSession(db, [s EXCEPT !.recovery = TRUE]))
  BY DEF Boot
<1> HIDE DEF s
<1>5. CASE Step(t, LoadSession(db, Loaded(db, s))) /\ UNCHANGED <<db, faults, intent>>
  <2>1. LocalStep /\ faults' \in 0 .. MaxFaults
    BY <1>5, FaultBound, QuietWorld
  <2>2. Loaded(db, s) \in TabState /\ Loaded(db, s).landing = tab[t].landing
    BY <1>1, <1>2, LoadedFields
  <2> QED BY <1>1, <1>3, <1>5, <2>1, <2>2, LoadingInv
<1>6. CASE Erased(s) /\ Step(t, LoadSession(Empty, Loaded(Empty, [s EXCEPT !.recovery = FALSE])))
  <2> DEFINE q == [s EXCEPT !.recovery = FALSE]
  <2>1. LocalStep /\ faults' \in 0 .. MaxFaults
    BY <1>6, ErasedStep
  <2>2. q \in TabState /\ q.landing = tab[t].landing
    BY <1>2 DEF TabState
  <2>3. Step(t, LoadSession(Empty, Loaded(Empty, q)))
    BY <1>6
  <2> HIDE DEF q
  <2>4. Loaded(Empty, q) \in TabState /\ Loaded(Empty, q).landing = tab[t].landing
    BY <1>1, <2>2, LoadedFields
  <2> QED BY <1>1, <1>3, <2>1, <2>3, <2>4, LoadingInv
<1>7. CASE EraseFailed(s) /\ Step(t, LoadSession(db, [s EXCEPT !.recovery = TRUE]))
  <2> DEFINE q == [s EXCEPT !.recovery = TRUE]
  <2>1. LocalStep /\ faults' \in 0 .. MaxFaults
    BY <1>7, EraseFailedStep
  <2>2. q \in TabState /\ q.landing = tab[t].landing
    BY <1>2 DEF TabState
  <2>3. Step(t, LoadSession(db, q))
    BY <1>7
  <2> HIDE DEF q
  <2> QED BY <1>1, <1>3, <2>1, <2>2, <2>3, LoadingInv
<1> QED BY <1>4, <1>5, <1>6, <1>7

LEMMA ResumeInv ==
    ASSUME Inv, NEW t \in Tab, Resume(t)
    PROVE  Inv'
<1>1. /\ tab[t] \in TabState /\ db.owner \in Owner
  BY DEF Inv, TypeOK
<1>2. /\ tab[t].pc = "idle" /\ attempt' = attempt /\ Fades /\ LocalStep /\ MarkerStep
      /\ UNCHANGED <<marker, token, tokens>> /\ UNCHANGED <<cookie, server, signins>>
      /\ UNCHANGED <<db, intent>> /\ faults' \in 0 .. MaxFaults
  BY QuietWorld, FaultBound DEF Resume, remote, markers
<1>3. CASE Step(t, [tab[t] EXCEPT !.pc = "boot"])
  <2> DEFINE s == [tab[t] EXCEPT !.pc = "boot"]
  <2>1. /\ s \in TabState /\ s.pc = "boot" /\ s.landing = tab[t].landing
        /\ s.record = tab[t].record /\ s.seen = tab[t].seen
    BY <1>1 DEF TabState
  <2>2. Step(t, s)
    BY <1>3
  <2> HIDE DEF s
  <2>3. SoundTab(s, intent) /\ Justified(s, marker, Held, cookie, intent.data)
    BY <2>1 DEF Inv, SoundTab, Justified, SessionOver
  <2> QED BY <1>2, <2>1, <2>2, <2>3, QuietInv
<1>4. CASE Step(t, LoadSession(db, [tab[t] EXCEPT !.starting = FALSE]))
  <2> DEFINE s == [tab[t] EXCEPT !.starting = FALSE]
  <2>1. s \in TabState /\ s.landing = tab[t].landing
    BY <1>1 DEF TabState
  <2>2. Step(t, LoadSession(db, s))
    BY <1>4
  <2> HIDE DEF s
  <2> QED BY <1>1, <1>2, <2>1, <2>2, LoadingInv
<1> QED BY <1>3, <1>4 DEF Resume

LEMMA ServeMeInv ==
    ASSUME Inv, NEW t \in Tab, ServeMe(t)
    PROVE  Inv'
<1> DEFINE r == IF cookie \in server.live THEN cookie ELSE None
<1> DEFINE s == [tab[t] EXCEPT !.pc = "known", !.reply = r]
<1>1. r \in Session \cup {None} /\ (r = None => ~Held)
  BY RecordAssumption DEF Inv, TypeOK, Held
<1>2. tab[t] \in TabState /\ tab[t].pc = "me"
  BY TabTyped DEF ServeMe
<1>3. Step(t, s)
  BY DEF ServeMe
<1> HIDE DEF r
<1>4. /\ s \in TabState /\ s.pc = "known" /\ s.reply = r /\ s.landing = tab[t].landing
      /\ s.seen = tab[t].seen /\ s.record = tab[t].record
  BY <1>1, <1>2 DEF TabState
<1> HIDE DEF s
<1>5. SoundTab(s, intent)
  BY <1>4 DEF Inv, SoundTab
<1>6. Justified(s, marker, Held, cookie, intent.data)
  BY <1>1, <1>4 DEF Justified, SessionOver
<1>7. /\ UNCHANGED <<db, intent>> /\ UNCHANGED <<marker, token, tokens>>
      /\ UNCHANGED <<cookie, server, signins>> /\ attempt' = attempt /\ faults' \in 0 .. MaxFaults
  BY FaultBound DEF ServeMe, remote, markers
<1> QED BY <1>2, <1>3, <1>4, <1>5, <1>6, <1>7, QuietInv

\* Answers that are lost, late or plain.
LEMMA SessionEndsHereInv ==
    ASSUME Inv, NEW t \in Tab, SessionFailed(t) \/ SessionStale(t) \/ Authorized(t)
    PROVE  Inv'
<1>1. /\ tab[t] \in TabState /\ tab[t].pc \in {"me", "known"} /\ attempt' = attempt
      /\ Fades /\ LocalStep /\ MarkerStep /\ faults' \in 0 .. MaxFaults
  BY TabTyped, QuietWorld, FaultBound
     DEF SessionFailed, SessionStale, Authorized, Answered, remote, markers
<1>2. CASE Step(t, Idle(tab[t])) \/ Step(t, Deferred(tab[t]))
  BY <1>1, <1>2, EndedInv
<1>3. CASE Authorized(t)
  <2> DEFINE c == tab[t].reply
  <2> DEFINE q == [tab[t] EXCEPT !.owner = c.owner, !.csrf = c, !.validated = TRUE]
  <2>1. c \in Session /\ c.owner \in Owner
    BY <1>1, <1>3 DEF Authorized, TabState, Session, Owner
  <2>2. Step(t, Idle(q))
    BY <1>3 DEF Authorized
  <2> HIDE DEF c
  <2>3. q \in TabState /\ q.landing = tab[t].landing
    BY <1>1, <2>1 DEF TabState
  <2> HIDE DEF q
  <2> QED BY <1>1, <2>2, <2>3, EndedInv
<1> QED BY <1>2, <1>3 DEF SessionFailed, SessionStale

\* Who drops the marker with the data knows that the session is over.
LEMMA UnauthorizedInv ==
    ASSUME Inv, NEW t \in Tab, Unauthorized(t)
    PROVE  Inv'
<1>1. /\ tab[t] \in TabState /\ tab[t].pc = "known" /\ tab[t].reply = None
      /\ marker = tab[t].seen /\ attempt' = attempt /\ UNCHANGED <<cookie, server, signins>>
  BY TabTyped DEF Unauthorized, Answered, remote
<1>2. ~Held /\ (intent'.left = intent.left => ~Held')
  <2>1. ~Held
    BY <1>1 DEF Inv, Justified, SessionOver
  <2> QED BY <1>1, <2>1 DEF Held
<1>3. Fades
  BY <1>1, QuietWorld
<1>4. CASE Erased(tab[t]) /\ Redirect(t, None)
  <2>1. LocalStep /\ ~intent'.data /\ faults' \in 0 .. MaxFaults
    BY <1>4, ErasedStep
  <2>2. intent'.left = intent.left
    BY <2>1, LocalFacts
  <2> QED BY <1>1, <1>2, <1>3, <1>4, <2>1, <2>2, RedirectInv
<1>5. CASE /\ EraseFailed(tab[t]) /\ UNCHANGED markers
           /\ Step(t, Idle([tab[t] EXCEPT !.recovery = TRUE]))
  <2>1. LocalStep /\ faults' \in 0 .. MaxFaults /\ MarkerStep
    BY <1>5, EraseFailedStep, QuietWorld DEF markers
  <2> DEFINE q == [tab[t] EXCEPT !.recovery = TRUE]
  <2>2. q \in TabState /\ q.landing = tab[t].landing
    BY <1>1 DEF TabState
  <2>3. Step(t, Idle(q))
    BY <1>5
  <2> HIDE DEF q
  <2> QED BY <1>1, <1>3, <2>1, <2>2, <2>3, EndedInv
<1>6. CASE marker = None /\ Redirect(t, None) /\ UNCHANGED <<db, faults, intent>>
  <2>1. LocalStep /\ faults' \in 0 .. MaxFaults
    BY <1>6, FaultBound, QuietWorld
  <2> QED BY <1>1, <1>3, <1>6, <2>1, RedirectInv
<1> QED BY <1>4, <1>5, <1>6 DEF Unauthorized, Settle

LEMMA SpendTokenInv ==
    ASSUME Inv, NEW t \in Tab, SpendToken(t)
    PROVE  Inv'
<1> DEFINE s == [tab[t] EXCEPT !.pc = "landing"]
<1>1. /\ tab[t] \in TabState /\ tab[t].pc = "known" /\ marker = tab[t].seen /\ marker # None
      /\ tab[t].landing # 0 /\ tab[t].landing = token /\ token' = 0 /\ tokens' = tokens
      /\ marker' = marker /\ Step(t, s)
      /\ UNCHANGED <<cookie, server, signins>> /\ UNCHANGED <<db, intent>>
      /\ attempt' = attempt /\ faults' \in 0 .. MaxFaults
  BY TabTyped, FaultBound DEF SpendToken, Answered, Landed, remote
<1>2. ~Held /\ ~Held'
  <2>1. ~Held
    BY <1>1 DEF Inv, Numbered
  <2> QED BY <1>1, <2>1 DEF Held
<1>3. /\ s \in TabState /\ s.pc = "landing" /\ s.landing = tab[t].landing
      /\ s.seen = tab[t].seen /\ s.record = tab[t].record
  BY <1>1 DEF TabState
<1> HIDE DEF s
<1>4. Fades /\ LocalStep
  BY <1>1, QuietWorld
<1>5. MarkerStep
  BY <1>1, SessionAssumption DEF MarkerStep, Inv, TypeOK, Numbers, Token
<1>6. Numbered(s, token', tokens', Held')
  BY <1>1, <1>3, <1>4, <1>5, FadeNumber
<1>7. SoundTab(s, intent)
  BY <1>1, <1>3 DEF Inv, SoundTab
<1>8. Justified(s, marker', Held', cookie', intent'.data)
  BY <1>2, <1>3 DEF Justified
<1> QED BY <1>1, <1>3, <1>4, <1>5, <1>6, <1>7, <1>8, FadeInv

LEMMA FinishLandingInv ==
    ASSUME Inv, NEW t \in Tab, FinishLanding(t)
    PROVE  Inv'
<1>1. /\ tab[t] \in TabState /\ tab[t].pc = "landing" /\ attempt' = attempt
      /\ UNCHANGED <<cookie, server, signins>>
  BY TabTyped DEF FinishLanding, remote
<1>2. Fades
  BY <1>1, QuietWorld
<1>3. CASE /\ Erased(tab[t]) /\ marker' = None /\ token' = 0 /\ UNCHANGED tokens
           /\ Step(t, [ClosedTab EXCEPT !.pc = "boot"])
  <2> DEFINE s == [ClosedTab EXCEPT !.pc = "boot"]
  <2>1. /\ s \in TabState /\ s.pc = "boot" /\ s.landing = 0 /\ s.seen = None /\ s.record = None
    BY ClosedFields DEF TabState
  <2>2. Step(t, s)
    BY <1>3
  <2> HIDE DEF s
  <2>3. LocalStep /\ ~intent'.data /\ faults' \in 0 .. MaxFaults /\ marker = tab[t].seen
    BY <1>3, ErasedStep
  <2>4. ~Held
    BY <1>1, <2>3 DEF Inv, Justified, SessionOver
  <2>5. ~Held'
    BY <1>1, <2>3, <2>4, LocalFacts DEF Held
  <2>6. MarkerStep
    BY <1>3, <2>3, <2>5, SessionAssumption DEF MarkerStep, Inv, TypeOK, Numbers, Token
  <2> QED BY <1>1, <1>2, <2>1, <2>2, <2>3, <2>6, RestInv
<1>4. CASE /\ EraseFailed(tab[t]) /\ UNCHANGED markers
           /\ Step(t, Idle([tab[t] EXCEPT !.recovery = TRUE]))
  <2>1. LocalStep /\ faults' \in 0 .. MaxFaults /\ MarkerStep
    BY <1>4, EraseFailedStep, QuietWorld DEF markers
  <2> DEFINE q == [tab[t] EXCEPT !.recovery = TRUE]
  <2>2. q \in TabState /\ q.landing = tab[t].landing
    BY <1>1 DEF TabState
  <2>3. Step(t, Idle(q))
    BY <1>4
  <2> HIDE DEF q
  <2> QED BY <1>1, <1>2, <2>1, <2>2, <2>3, EndedInv
<1> QED BY <1>3, <1>4 DEF FinishLanding, Settle

LEMMA FinishPendingLogoutInv ==
    ASSUME Inv, NEW t \in Tab, FinishPendingLogout(t)
    PROVE  Inv'
<1>1. /\ tab[t] \in TabState /\ tab[t].pc = "known" /\ tab[t].reply # None /\ attempt' = attempt
      /\ UNCHANGED <<cookie, server, signins>> /\ UNCHANGED <<marker, token, tokens>>
  BY TabTyped DEF FinishPendingLogout, Answered, remote, markers
<1>2. Fades /\ MarkerStep
  BY <1>1, QuietWorld
<1>3. CASE Erased(tab[t]) /\ Step(t, [tab[t] EXCEPT !.pc = "revoke", !.sent = cookie])
  <2> DEFINE s == [tab[t] EXCEPT !.pc = "revoke", !.sent = cookie]
  <2>1. cookie \in Session \cup {None}
    BY DEF Inv, TypeOK
  <2>2. /\ s \in TabState /\ s.pc = "revoke" /\ s.sent = cookie /\ s.landing = tab[t].landing
        /\ s.seen = tab[t].seen /\ s.record = tab[t].record /\ s.reply = tab[t].reply
    BY <1>1, <2>1 DEF TabState
  <2>3. Step(t, s)
    BY <1>3
  <2> HIDE DEF s
  <2>4. LocalStep /\ ~intent'.data /\ faults' \in 0 .. MaxFaults
    BY <1>3, ErasedStep
  <2>5. SoundTab(s, intent)
    BY <1>1, <2>2 DEF Inv, SoundTab
  <2>6. Justified(s, marker', Held', cookie', intent'.data)
    BY <1>1, <2>2, <2>4 DEF Justified, SessionOver
  <2>7. Numbered(s, token', tokens', Held')
    BY <1>1, <1>2, <2>2, <2>4, FadeNumber
  <2> QED BY <1>1, <1>2, <2>2, <2>3, <2>4, <2>5, <2>6, <2>7, FadeInv
<1>4. CASE Step(t, Deferred(tab[t])) /\ (EraseFailed(tab[t]) \/ UNCHANGED <<db, faults, intent>>)
  <2>1. LocalStep /\ faults' \in 0 .. MaxFaults
    BY <1>4, EraseFailedStep, QuietWorld, FaultBound
  <2> QED BY <1>1, <1>2, <1>4, <2>1, EndedInv
<1> QED BY <1>3, <1>4 DEF FinishPendingLogout

\* A revocation that was answered ends the session that the tab sent, and this
\* is the session that must end, if there is one.
LEMMA Revoked ==
    ASSUME Inv, NEW t \in Tab, tab[t].pc \in {"signout", "revoke"}, marker = tab[t].seen,
           NEW a, NEW by, MutationStatus(tab[t].sent, a, by) \in {204, 401},
           server' = LoggedOut(tab[t].sent, a, by), intent' = intent,
           cookie' = IF MutationStatus(tab[t].sent, a, by) = 204 THEN None ELSE cookie
    PROVE  ~Held'
<1> DEFINE status == MutationStatus(tab[t].sent, a, by)
<1>1. Held => tab[t].sent = cookie
  BY DEF Inv, Justified
<1>2. None \notin intent.left
  BY RecordAssumption DEF Inv, TypeOK
<1>3. CASE status = 204
  BY <1>2, <1>3 DEF Held
<1>4. CASE status = 401
  <2>1. tab[t].sent = None \/ tab[t].sent \notin server.live
    BY <1>4 DEF MutationStatus
  <2>2. cookie' = cookie /\ server' = server
    BY <1>4 DEF LoggedOut
  <2>3. ~Held
    BY <1>1, <1>2, <2>1 DEF Held
  <2> QED BY <2>2, <2>3 DEF Held
<1> QED BY <1>3, <1>4

LEMMA RevokeInv ==
    ASSUME Inv, NEW t \in Tab, Revoke(t)
    PROVE  Inv'
<1> DEFINE s == tab[t]
<1> DEFINE status == MutationStatus(s.sent, s.reply.owner, s.reply)
<1>1. /\ s \in TabState /\ s.pc = "revoke" /\ attempt' = attempt /\ UNCHANGED <<db, intent>>
      /\ signins' = signins /\ faults' \in 0 .. MaxFaults
  BY TabTyped, FaultBound DEF Revoke
<1>2. /\ server' = LoggedOut(s.sent, s.reply.owner, s.reply)
      /\ cookie' = IF status = 204 THEN None ELSE cookie
      /\ IF status \in {204, 401} /\ marker = s.seen
         THEN Redirect(t, None)
         ELSE Step(t, Deferred(s)) /\ UNCHANGED markers
  BY DEF Revoke
<1>3. Fades /\ LocalStep
  BY <1>1, <1>2, LoggedOutFades, QuietWorld
<1>4. CASE status \in {204, 401} /\ marker = s.seen
  <2>1. ~intent'.data
    BY <1>1, <1>4 DEF Inv, Justified
  <2>2. ~Held'
    BY <1>1, <1>2, <1>4, Revoked
  <2> QED BY <1>1, <1>2, <1>3, <1>4, <2>1, <2>2, RedirectInv
<1>5. CASE ~(status \in {204, 401} /\ marker = s.seen)
  <2>1. Step(t, Deferred(s)) /\ MarkerStep
    BY <1>2, <1>5, QuietWorld DEF markers
  <2> QED BY <1>1, <1>3, <2>1, EndedInv
<1> QED BY <1>4, <1>5

LEMMA RevokeLostInv ==
    ASSUME Inv, NEW t \in Tab, RevokeLost(t)
    PROVE  Inv'
<1>1. /\ tab[t] \in TabState /\ tab[t].pc = "revoke" /\ attempt' = attempt
      /\ Step(t, Deferred(tab[t])) /\ faults' \in 0 .. MaxFaults
  BY TabTyped, FaultBound DEF RevokeLost
<1>2. Fades
  BY LoggedOutFades DEF RevokeLost
<1>3. LocalStep /\ MarkerStep
  BY QuietWorld DEF RevokeLost, markers
<1> QED BY <1>1, <1>2, <1>3, EndedInv
----------------------------------------------------------------------------
(* Signing in and out.                                                     *)

\* A new session is none that the user signed out of.
LEMMA SignInInv ==
    ASSUME Inv, NEW t \in Tab, SignIn(t)
    PROVE  Inv'
<1> DEFINE s == [tab[t] EXCEPT !.pc = "boot"]
<1>1. PICK a \in Account \ server.gone :
         LET c == [id |-> signins + 1, owner |-> a]
         IN /\ cookie' = c
            /\ server' = [server EXCEPT !.live = (@ \ {cookie}) \cup {c}]
  BY DEF SignIn
<1> DEFINE c == [id |-> signins + 1, owner |-> a]
<1>2. /\ tab[t].pc = "login" /\ signins < MaxSignIns /\ signins' = signins + 1 /\ Step(t, s)
      /\ UNCHANGED <<db, attempt, marker, token, tokens, faults, intent>>
  BY DEF SignIn, markers
<1>3. signins \in Nat /\ signins >= 1 /\ MaxSignIns \in Nat
  BY SessionAssumption DEF Inv, TypeOK
<1>4. c \in Session /\ c.id = signins + 1
  BY <1>2, <1>3 DEF Session
<1>5. cookie' = c /\ server' = [server EXCEPT !.live = (@ \ {cookie}) \cup {c}]
  BY <1>1
<1> HIDE DEF c
<1>6. ~Held'
  <2>1. c \notin intent.left
    BY <1>3, <1>4 DEF Inv, Numbers
  <2> QED BY <1>2, <1>5, <2>1 DEF Held
<1>7. /\ server' \in [live : SUBSET Session, receipts : SUBSET Session, gone : SUBSET Account]
      /\ server'.gone = server.gone /\ server'.receipts = server.receipts
  BY <1>4, <1>5 DEF Inv, TypeOK
<1>8. World'
  BY <1>2, <1>3, <1>4, <1>5, <1>7 DEF World, Inv, TypeOK
<1>9. Ledger'
  BY <1>2, <1>7 DEF Inv, Ledger, SoundRecord
<1>10. Numbers'
  <2>1. \A r \in intent.left : r.id \in Nat /\ r.id <= signins
    BY SessionAssumption DEF Inv, TypeOK, Numbers, Session
  <2>2. \A r \in intent'.left : r.id <= signins'
    BY <1>2, <1>3, <2>1
  <2> QED BY <1>2, <1>3, <1>4, <1>5, <2>2 DEF Inv, Numbers
<1>11. SignOutHolds'
  BY <1>2, <1>6 DEF Inv, SignOutHolds, Held
<1>12. /\ tab[t] \in TabState /\ s \in TabState /\ s.pc = "boot" /\ s.landing = tab[t].landing
       /\ s.seen = tab[t].seen /\ s.record = tab[t].record
  BY TabTyped DEF TabState
<1>13. tab' \in [Tab -> TabState] /\ tab'[t] = s /\ \A u \in Tab \ {t} : tab'[u] = tab[u]
  BY <1>2, <1>12 DEF Step, Inv, TypeOK
<1> HIDE DEF s
<1>14. SoundTab(s, intent') /\ Justified(s, marker', Held', cookie', intent'.data)
  BY <1>2, <1>12 DEF Inv, SoundTab, Justified, SessionOver
<1>15. Numbered(s, token', tokens', Held')
  BY <1>2, <1>6, <1>12 DEF Inv, Numbered
<1>16. \A u \in Tab \ {t} : Alike(tab'[u], tab[u])
  BY <1>13 DEF Alike
<1>17. Weaker(marker', Held', cookie', intent'.data, marker, Held, cookie, intent.data)
  BY <1>2, <1>6 DEF Weaker
<1>18. tokens <= tokens' /\ token' = token /\ intent' = intent
  BY <1>2, SessionAssumption DEF Inv, TypeOK, Token
<1> QED BY <1>6, <1>8, <1>9, <1>10, <1>11, <1>12, <1>13, <1>14, <1>15, <1>16, <1>17, <1>18, TabInv

LEMMA RecoverySignInInv ==
    ASSUME Inv, NEW t \in Tab, RecoverySignIn(t)
    PROVE  Inv'
<1>1. Fades /\ LocalStep /\ faults' \in 0 .. MaxFaults
  BY QuietWorld, FaultBound DEF RecoverySignIn, remote
<1> QED BY <1>1, RedirectInv DEF RecoverySignIn

\* A sign-out is written down: the others hear of it, and none of them works on one
\* of the same account unless the new one promises nothing.
LEMMA MarkInv ==
    ASSUME Inv, NEW t \in Tab, NEW r \in TabState, Mark(t, r), Current(r) \in Account,
           Current(r) \in intent'.asked, Current(r) = Current(tab[t]),
           World', Numbers', SignOutHolds',
           intent.asked \subseteq intent'.asked, intent'.deletion = intent.deletion,
           server'.gone \subseteq intent'.deletion, \A c \in server'.receipts : c.owner \in server'.gone,
           attempt' = attempt, r.landing = tab[t].landing, tab[t].pc # "login",
           r.pc \in {"signout", "cleanup", "wipe", "erase"},
           r.pc \in {"wipe", "erase"} => ~Held', r.pc \in {"signout", "cleanup"} => ~r.revoked,
           r.pc = "signout" => r.sent = cookie',
           r.record # None => SoundRecord(r.record, intent) /\ r.record.stage # "candidate",
           (~Held' /\ ~intent'.data) \/ Undisturbed(t)
    PROVE  Inv'
<1> DEFINE s == [r EXCEPT !.seen = Current(r)]
<1>1. /\ s \in TabState /\ s.pc = r.pc /\ s.seen = Current(r) /\ s.landing = r.landing
      /\ s.record = r.record /\ s.sent = r.sent /\ s.owner = r.owner /\ s.local = r.local
  BY DEF TabState, Owner
<1>2. s.revoked = r.revoked
  BY DEF TabState
<1>3. /\ marker' = Current(r) /\ token' = 0 /\ tokens' = tokens
      /\ tab' = [u \in Tab |-> IF u = t THEN s
                 ELSE [tab[u] EXCEPT !.event = @ \/ (marker = None /\ Listening(u))]]
  BY DEF Mark
<1> HIDE DEF s
<1>4. ASSUME NEW u \in Tab \ {t} PROVE tab'[u] \in TabState /\ Alike(tab'[u], tab[u])
  <2> DEFINE e == tab[u].event \/ (marker = None /\ Listening(u))
  <2>1. tab[u] \in TabState /\ tab'[u] = [tab[u] EXCEPT !.event = e]
    BY <1>3, TabTyped
  <2>2. e \in BOOLEAN /\ (e => tab[u].event \/ tab[u].pc # "login")
    BY DEF Listening
  <2> HIDE DEF e
  <2>3. tab'[u] \in TabState /\ tab'[u].event = e
    BY <2>1, <2>2 DEF TabState
  <2>4. /\ tab'[u].pc = tab[u].pc /\ tab'[u].owner = tab[u].owner /\ tab'[u].local = tab[u].local
        /\ tab'[u].seen = tab[u].seen /\ tab'[u].sent = tab[u].sent /\ tab'[u].reply = tab[u].reply
        /\ tab'[u].revoked = tab[u].revoked /\ tab'[u].record = tab[u].record
        /\ tab'[u].landing = tab[u].landing
    BY <2>1 DEF TabState
  <2> QED BY <2>2, <2>3, <2>4 DEF Alike
<1>5. tab'[t] = s /\ tab' \in [Tab -> TabState]
  BY <1>1, <1>3, <1>4
<1>6. Ledger'
  BY <1>3 DEF Inv, Ledger, SoundRecord
<1>7. Current(s) = Current(r)
  BY <1>1 DEF Current
<1>8. SoundTab(s, intent')
  BY <1>1, <1>2, <1>7, SessionAssumption DEF SoundTab, SoundRecord
<1>9. Justified(s, marker', Held', cookie', intent'.data)
  BY <1>1, <1>2 DEF Justified, SessionOver
<1>10. /\ Numbered(s, token', tokens', Held')
  BY <1>1, <1>3 DEF Inv, Numbered
<1>11. ASSUME NEW u \in Tab \ {t}
       PROVE  tab[u].seen # marker' \/ (~Held' /\ ~intent'.data)
  BY <1>3 DEF Undisturbed
<1>12. tokens <= tokens' /\ token' = 0
  BY <1>3, SessionAssumption DEF Inv, TypeOK, Token
<1> QED BY <1>1, <1>4, <1>5, <1>6, <1>8, <1>9, <1>10, <1>11, <1>12, TabInv

LEMMA LogoutInv ==
    ASSUME Inv, NEW t \in Tab, Logout(t)
    PROVE  Inv'
<1> DEFINE a == Current(tab[t])
<1> DEFINE p == IF tab[t].csrf = None THEN "cleanup" ELSE "signout"
<1> DEFINE q == [tab[t] EXCEPT !.recovery = TRUE, !.redo = FALSE, !.sent = cookie]
<1> DEFINE s == [q EXCEPT !.seen = marker, !.pc = p]
<1>1. /\ tab[t] \in TabState /\ tab[t].pc = "idle" /\ a # None /\ db' = db /\ attempt' = attempt
      /\ UNCHANGED <<cookie, server, signins>>
  BY TabTyped DEF Logout, remote
<1>2. /\ a \in Account /\ p \in {"cleanup", "signout"} /\ cookie \in Session \cup {None}
      /\ marker \in Owner /\ ~tab[t].revoked
      /\ tab[t].seen \in intent.asked \cup {None} /\ marker \in intent.asked \cup {None}
  BY <1>1 DEF Current, TabState, Owner, Inv, TypeOK, SoundTab, Ledger
<1>3. \/ /\ Mark(t, [s EXCEPT !.durable = TRUE])
         /\ intent' = [intent EXCEPT
                          !.left = IF Undisturbed(t) THEN {c \in {cookie} \ {None} : c.owner = a}
                                   ELSE {},
                          !.data = Undisturbed(t) /\ db.owner = a, !.asked = @ \cup {a}]
         /\ UNCHANGED faults
      \/ /\ Fault /\ Step(t, [s EXCEPT !.durable = FALSE])
         /\ token' = 0 /\ UNCHANGED <<marker, tokens>>
         /\ intent' = [intent EXCEPT !.asked = @ \cup {a}]
  <2>1. s = [tab[t] EXCEPT !.recovery = TRUE, !.redo = FALSE, !.sent = cookie, !.seen = marker,
                           !.pc = p]
    BY <1>1 DEF TabState
  <2> QED BY <2>1 DEF Logout
<1> HIDE DEF p
<1>4. /\ q \in TabState /\ q.sent = cookie /\ q.landing = tab[t].landing
      /\ q.owner = tab[t].owner /\ q.local = tab[t].local /\ q.record = tab[t].record
      /\ ~q.revoked
  BY <1>1, <1>2 DEF TabState
<1> HIDE DEF q
<1>5. ASSUME NEW b \in BOOLEAN
      PROVE  LET r == [s EXCEPT !.durable = b]
             IN /\ r \in TabState /\ r.sent = cookie /\ r.landing = tab[t].landing
                /\ r.record = tab[t].record /\ ~r.revoked
                /\ r.pc = p /\ r.seen = marker /\ Current(r) = a
  <2>1. q \in TabState
    BY <1>4
  <2>2. /\ s \in TabState /\ s.sent = q.sent /\ s.landing = q.landing /\ s.owner = q.owner
        /\ s.local = q.local /\ s.record = q.record /\ s.pc = p /\ s.seen = marker
    BY <1>2, <2>1 DEF TabState
  <2>3. ~s.revoked
    BY <1>4 DEF TabState
  <2> HIDE DEF s
  <2> DEFINE r == [s EXCEPT !.durable = b]
  <2>4. /\ r \in TabState /\ r.sent = s.sent /\ r.landing = s.landing /\ r.owner = s.owner
        /\ r.local = s.local /\ r.record = s.record /\ r.pc = s.pc /\ r.seen = s.seen
    BY <2>2 DEF TabState
  <2>5. ~r.revoked
    BY <2>2, <2>3 DEF TabState
  <2>6. Current(r) = a
    BY <1>4, <2>2, <2>4 DEF Current
  <2> QED BY <1>4, <2>2, <2>4, <2>5, <2>6
<1>6. tab[t].record # None => SoundRecord(tab[t].record, intent) /\ tab[t].record.stage # "candidate"
  BY DEF Inv, SoundTab
<1> HIDE DEF a, s
<1>7. CASE /\ Mark(t, [s EXCEPT !.durable = TRUE])
           /\ intent' = [intent EXCEPT
                            !.left = IF Undisturbed(t) THEN {c \in {cookie} \ {None} : c.owner = a}
                                     ELSE {},
                            !.data = Undisturbed(t) /\ db.owner = a, !.asked = @ \cup {a}]
           /\ UNCHANGED faults
  <2> DEFINE r == [s EXCEPT !.durable = TRUE]
  <2> DEFINE left == IF Undisturbed(t) THEN {c \in {cookie} \ {None} : c.owner = a} ELSE {}
  <2>1. /\ r \in TabState /\ r.sent = cookie /\ r.landing = tab[t].landing
        /\ r.record = tab[t].record /\ ~r.revoked /\ r.pc = p /\ Current(r) = a
    BY <1>5
  <2>2. left \subseteq Session /\ \A c \in left : c = cookie /\ c # None /\ c.owner = a
    BY <1>2
  <2>3. ~Undisturbed(t) => left = {}
    OBVIOUS
  <2>4. Mark(t, r)
    BY <1>7
  <2>5. (Undisturbed(t) /\ db.owner = a) \in BOOLEAN
    BY DEF Undisturbed
  <2>6. /\ intent' \in [left : SUBSET Session, data : BOOLEAN, asked : SUBSET Account,
                          deletion : SUBSET Account]
        /\ intent'.left = left /\ intent'.data = (Undisturbed(t) /\ db.owner = a)
        /\ intent'.asked = intent.asked \cup {a} /\ intent'.deletion = intent.deletion
    <3>1. intent' = [intent EXCEPT !.left = left, !.data = Undisturbed(t) /\ db.owner = a,
                                   !.asked = @ \cup {a}]
      BY <1>7
    <3> HIDE DEF left
    <3> QED BY <1>2, <2>2, <2>5, <3>1 DEF Inv, TypeOK
  <2> HIDE DEF r, left
  <2>7. /\ marker' = a /\ token' = 0 /\ tokens' = tokens /\ faults' = faults
    BY <1>7, <2>1, <2>4 DEF Mark
  <2>8. World'
    BY <1>1, <1>2, <2>6, <2>7, SessionAssumption DEF World, Inv, TypeOK, Owner, Token
  <2>9. Numbers'
    <3>1. token' <= tokens'
      BY <2>7, SessionAssumption DEF Inv, TypeOK, Token
    <3>2. \A c \in left : c.id <= signins
      BY <2>2 DEF Inv, Numbers
    <3> QED BY <1>1, <2>6, <2>7, <3>1, <3>2 DEF Inv, Numbers
  <2>10. SignOutHolds'
    BY <1>1, <2>2, <2>6, <2>7 DEF SignOutHolds
  <2>11. (~Held' /\ ~intent'.data) \/ Undisturbed(t)
    BY <2>3, <2>6 DEF Held
  <2>12. /\ server'.gone \subseteq intent'.deletion /\ \A c \in server'.receipts : c.owner \in server'.gone
    BY <1>1, <2>6 DEF Inv, Ledger
  <2>13. a = Current(tab[t]) /\ a \in intent'.asked /\ intent.asked \subseteq intent'.asked
    BY <2>6 DEF a
  <2> QED BY <1>1, <1>2, <1>6, <2>1, <2>4, <2>6, <2>8, <2>9, <2>10, <2>11, <2>12, <2>13, MarkInv
<1>8. CASE /\ Fault /\ Step(t, [s EXCEPT !.durable = FALSE])
           /\ token' = 0 /\ UNCHANGED <<marker, tokens>>
           /\ intent' = [intent EXCEPT !.asked = @ \cup {a}]
  <2> DEFINE r == [s EXCEPT !.durable = FALSE]
  <2>1. /\ r \in TabState /\ r.sent = cookie /\ r.landing = tab[t].landing
        /\ r.record = tab[t].record /\ ~r.revoked /\ r.pc = p /\ Current(r) = a /\ r.seen = marker
    BY <1>5
  <2>2. Step(t, r)
    BY <1>8
  <2> HIDE DEF r
  <2>3. /\ intent' \in [left : SUBSET Session, data : BOOLEAN, asked : SUBSET Account,
                          deletion : SUBSET Account]
        /\ intent'.left = intent.left /\ intent'.data = intent.data
        /\ intent'.asked = intent.asked \cup {a} /\ intent'.deletion = intent.deletion
    BY <1>2, <1>8 DEF Inv, TypeOK
  <2>4. Held' <=> Held
    BY <1>1, <2>3 DEF Held
  <2>5. faults' \in 0 .. MaxFaults
    BY <1>8, FaultBound
  <2>6. World'
    BY <1>1, <1>8, <2>3, <2>5, SessionAssumption DEF World, Inv, TypeOK, Token
  <2>7. Ledger'
    BY <1>1, <1>8, <2>3 DEF Inv, Ledger, SoundRecord
  <2>8. Numbers' /\ tokens <= tokens'
    BY <1>1, <1>8, <2>3, SessionAssumption DEF Inv, TypeOK, Numbers, Token
  <2>9. SignOutHolds'
    BY <1>1, <1>8, <2>3 DEF Inv, SignOutHolds
  <2>10. SoundTab(r, intent')
    BY <1>2, <1>6, <2>1, <2>3 DEF SoundTab, SoundRecord
  <2>11. Justified(r, marker', Held', cookie', intent'.data)
    BY <1>1, <1>2, <2>1 DEF Justified, SessionOver
  <2>12. Numbered(r, token', tokens', Held')
    BY <1>2, <1>8, <2>1 DEF Inv, Numbered
  <2>13. tab' \in [Tab -> TabState] /\ tab'[t] = r /\ \A u \in Tab \ {t} : tab'[u] = tab[u]
    BY <2>1, <2>2 DEF Step, Inv, TypeOK
  <2>14. \A u \in Tab \ {t} : Alike(tab'[u], tab[u])
    BY <2>13 DEF Alike
  <2>15. Weaker(marker', Held', cookie', intent'.data, marker, Held, cookie, intent.data)
    BY <1>1, <1>8, <2>3, <2>4 DEF Weaker
  <2> QED BY <1>8, <2>1, <2>3, <2>6, <2>7, <2>8, <2>9, <2>10, <2>11, <2>12, <2>13, <2>14, <2>15, TabInv
<1> QED BY <1>3, <1>7, <1>8

LEMMA SignedOutInv ==
    ASSUME Inv, NEW t \in Tab, SignedOut(t) \/ SignOutTimeout(t)
    PROVE  Inv'
<1> DEFINE status == MutationStatus(tab[t].sent, Current(tab[t]), tab[t].csrf)
<1>1. /\ tab[t] \in TabState /\ tab[t].pc = "signout" /\ attempt' = attempt /\ intent' = intent
      /\ marker' = marker /\ LocalStep /\ MarkerStep /\ faults' \in 0 .. MaxFaults
  BY TabTyped, QuietWorld, FaultBound DEF SignedOut, SignOutTimeout, markers
<1>2. Fades
  BY LoggedOutFades DEF SignedOut, SignOutTimeout
<1>3. PICK b \in BOOLEAN :
        /\ Step(t, [tab[t] EXCEPT !.pc = "cleanup", !.revoked = b])
        /\ b /\ marker = tab[t].seen => ~Held'
  <2>1. CASE SignedOut(t)
    <3> DEFINE b == status \in {204, 401}
    <3>1. /\ server' = LoggedOut(tab[t].sent, Current(tab[t]), tab[t].csrf)
          /\ cookie' = IF status = 204 THEN None ELSE cookie
          /\ Step(t, [tab[t] EXCEPT !.pc = "cleanup", !.revoked = b])
      BY <2>1 DEF SignedOut
    <3>2. b \in BOOLEAN
      OBVIOUS
    <3>3. b /\ marker = tab[t].seen => ~Held'
      BY <1>1, <3>1, Revoked
    <3> QED BY <3>1, <3>2, <3>3
  <2>2. CASE SignOutTimeout(t)
    <3>1. tab[t].revoked \in BOOLEAN
      BY <1>1 DEF TabState
    <3>2. [tab[t] EXCEPT !.pc = "cleanup"]
             = [tab[t] EXCEPT !.pc = "cleanup", !.revoked = tab[t].revoked]
      BY <1>1 DEF TabState
    <3>3. ~tab[t].revoked
      BY <1>1 DEF Inv, SoundTab
    <3> QED BY <2>2, <3>1, <3>2, <3>3 DEF SignOutTimeout
  <2> QED BY <2>1, <2>2
<1> DEFINE s == [tab[t] EXCEPT !.pc = "cleanup", !.revoked = b]
<1>4. /\ s \in TabState /\ s.pc = "cleanup" /\ s.landing = tab[t].landing
      /\ s.seen = tab[t].seen /\ s.record = tab[t].record
      /\ s.owner = tab[t].owner /\ s.local = tab[t].local
  BY <1>1 DEF TabState
<1>5. s.revoked = b
  BY <1>1 DEF TabState
<1>6. Step(t, s)
  BY <1>3
<1> HIDE DEF s
<1>7. Current(s) = Current(tab[t])
  BY <1>4 DEF Current
<1>8. SoundTab(s, intent)
  BY <1>1, <1>4, <1>7 DEF Inv, SoundTab
<1>9. Justified(s, marker', Held', cookie', intent'.data)
  BY <1>1, <1>3, <1>4, <1>5 DEF Justified, SessionOver
<1>10. Numbered(s, token', tokens', Held')
  BY <1>1, <1>2, <1>4, FadeNumber
<1> QED BY <1>1, <1>2, <1>4, <1>6, <1>8, <1>9, <1>10, FadeInv

LEMMA CompleteCleanupInv ==
    ASSUME Inv, NEW t \in Tab, CompleteCleanup(t)
    PROVE  Inv'
<1>1. /\ tab[t] \in TabState /\ tab[t].pc = "cleanup" /\ attempt' = attempt
      /\ UNCHANGED <<cookie, server, signins>> /\ Fades
  BY TabTyped, QuietWorld DEF CompleteCleanup, remote
<1>2. CASE Step(t, Idle(tab[t])) /\ UNCHANGED <<db, markers, faults, intent>>
  <2>1. LocalStep /\ MarkerStep /\ faults' \in 0 .. MaxFaults
    BY <1>2, QuietWorld, FaultBound DEF markers
  <2> QED BY <1>1, <1>2, <2>1, EndedInv
<1>3. CASE Erased(tab[t]) /\ Redirect(t, IF tab[t].revoked THEN None ELSE marker)
  <2>1. LocalStep /\ ~intent'.data /\ faults' \in 0 .. MaxFaults /\ marker = tab[t].seen
    BY <1>3, ErasedStep
  <2>2. tab[t].revoked => ~Held
    BY <1>1, <2>1 DEF Inv, Justified, SessionOver
  <2>3. tab[t].revoked => ~Held'
    BY <1>1, <2>1, <2>2, LocalFacts DEF Held
  <2>4. CASE tab[t].revoked
    BY <1>1, <1>3, <2>1, <2>3, <2>4, RedirectInv
  <2>5. CASE ~tab[t].revoked
    BY <1>1, <1>3, <2>1, <2>5, RedirectInv
  <2> QED BY <2>4, <2>5
<1>4. CASE EraseFailed(tab[t]) /\ Redirect(t, marker)
  <2>1. LocalStep /\ faults' \in 0 .. MaxFaults
    BY <1>4, EraseFailedStep
  <2> QED BY <1>1, <1>4, <2>1, RedirectInv
<1>5. CASE /\ EraseFailed(tab[t]) /\ UNCHANGED markers
           /\ Step(t, [Idle(tab[t]) EXCEPT !.redo = TRUE])
  <2> DEFINE q == Idle(tab[t])
  <2> DEFINE s == [q EXCEPT !.redo = TRUE]
  <2>1. /\ q \in TabState /\ q.pc = "idle" /\ q.seen = None /\ q.record = None
        /\ q.landing = tab[t].landing /\ ~q.revoked
    BY <1>1, IdleFields
  <2>2. Step(t, s)
    BY <1>5
  <2> HIDE DEF q
  <2>3. /\ s \in TabState /\ s.pc = q.pc /\ s.seen = q.seen /\ s.record = q.record
        /\ s.landing = q.landing
    BY <2>1 DEF TabState
  <2>4. ~s.revoked
    BY <2>1 DEF TabState
  <2> HIDE DEF s
  <2>5. LocalStep /\ faults' \in 0 .. MaxFaults /\ MarkerStep
    BY <1>5, EraseFailedStep, QuietWorld DEF markers
  <2> QED BY <1>1, <2>1, <2>2, <2>3, <2>4, <2>5, RestInv
<1> QED BY <1>2, <1>3, <1>4, <1>5 DEF CompleteCleanup

LEMMA PeerEventInv ==
    ASSUME Inv, NEW t \in Tab, PeerEvent(t)
    PROVE  Inv'
<1> DEFINE q == Idle(tab[t])
<1> DEFINE s == [q EXCEPT !.pc = "peer", !.seen = marker, !.event = FALSE]
<1>1. /\ Step(t, s) /\ tab[t] \in TabState /\ attempt' = attempt
      /\ Fades /\ LocalStep /\ MarkerStep /\ faults' \in 0 .. MaxFaults
  BY TabTyped, QuietWorld, FaultBound DEF PeerEvent, remote, markers
<1>2. tab[t].pc # "login"
  BY DEF PeerEvent, Inv, Numbered
<1>3. q \in TabState /\ q.record = None /\ q.landing = tab[t].landing
  BY <1>1, IdleFields
<1>4. marker \in Owner /\ marker \in intent.asked \cup {None}
  BY DEF Inv, TypeOK, Ledger
<1> HIDE DEF q
<1>5. /\ s \in TabState /\ s.pc = "peer" /\ s.seen = marker /\ s.record = q.record
      /\ s.landing = q.landing
  BY <1>3, <1>4 DEF TabState
<1> HIDE DEF s
<1> QED BY <1>1, <1>2, <1>3, <1>4, <1>5, RestInv

LEMMA PeerCleanupInv ==
    ASSUME Inv, NEW t \in Tab, PeerCleanup(t)
    PROVE  Inv'
<1>1. tab[t] \in TabState /\ tab[t].pc = "peer" /\ attempt' = attempt /\ Fades
  BY TabTyped, QuietWorld DEF PeerCleanup, remote
<1>2. LocalStep /\ faults' \in 0 .. MaxFaults
  BY ErasedStep, EraseFailedStep DEF PeerCleanup
<1>3. CASE Redirect(t, marker)
  BY <1>1, <1>2, <1>3, RedirectInv
<1>4. CASE Step(t, Idle(tab[t])) /\ UNCHANGED markers
  BY <1>1, <1>2, <1>4, EndedInv, QuietWorld DEF markers
<1> QED BY <1>3, <1>4 DEF PeerCleanup
----------------------------------------------------------------------------
(* Deleting the account.                                                   *)

\* The tabs stay as they are.
LEMMA StayInv ==
    ASSUME Inv, UNCHANGED <<tab, marker, token, tokens, intent>>,
           World', Ledger', Numbers', SignOutHolds', Held' => Held /\ cookie' = cookie
    PROVE  Inv'
<1>1. TypeOK'
  BY DEF World, TypeOK, Inv
<1>2. ASSUME NEW t \in Tab
      PROVE  /\ SoundTab(tab'[t], intent')
             /\ Justified(tab'[t], marker', Held', cookie', intent'.data)
             /\ Numbered(tab'[t], token', tokens', Held')
  <2>1. /\ SoundTab(tab[t], intent) /\ Justified(tab[t], marker, Held, cookie, intent.data)
        /\ Numbered(tab[t], token, tokens, Held)
    BY DEF Inv
  <2>2. Alike(tab[t], tab[t])
    BY DEF Alike
  <2>3. Justified(tab[t], marker', Held', cookie', intent'.data)
    BY <2>1, <2>2, AlikeJustified DEF Weaker
  <2> QED BY <2>1, <2>3 DEF Numbered
<1> QED BY <1>1, <1>2 DEF Inv

LEMMA ConfirmDeleteInv ==
    ASSUME Inv, NEW t \in Tab, ConfirmDelete(t)
    PROVE  Inv'
<1> DEFINE a == Current(tab[t])
<1> DEFINE record == [owner |-> a, by |-> tab[t].csrf, stage |-> "issued"]
<1>1. /\ tab[t] \in TabState /\ tab[t].pc = "idle" /\ a # None /\ tab[t].csrf # None
      /\ UNCHANGED <<db, cookie, server, signins, marker, token, tokens>>
  BY TabTyped DEF ConfirmDelete, Deletable, remote, markers
<1>2. a \in Account /\ tab[t].csrf \in Session
  BY <1>1 DEF Current, TabState, Owner
<1>3. record \in Attempt /\ record.owner = a /\ record.stage = "issued"
  BY <1>2 DEF Attempt
<1>4. \/ /\ attempt' = record
         /\ Step(t, [tab[t] EXCEPT !.pc = "delete", !.seen = marker, !.sent = cookie,
                                   !.record = record])
         /\ intent' = [intent EXCEPT !.asked = @ \cup {a}, !.deletion = @ \cup {a}]
         /\ UNCHANGED faults
      \/ /\ Fault
         /\ attempt' \in {attempt, [record EXCEPT !.stage = "candidate"]}
         /\ UNCHANGED <<tab, intent>>
  BY DEF ConfirmDelete
<1> HIDE DEF record
<1>5. CASE /\ attempt' = record
           /\ Step(t, [tab[t] EXCEPT !.pc = "delete", !.seen = marker, !.sent = cookie,
                                     !.record = record])
           /\ intent' = [intent EXCEPT !.asked = @ \cup {a}, !.deletion = @ \cup {a}]
           /\ UNCHANGED faults
  <2> DEFINE s == [tab[t] EXCEPT !.pc = "delete", !.seen = marker, !.sent = cookie,
                                 !.record = record]
  <2>1. /\ marker \in Owner /\ cookie \in Session \cup {None} /\ record # None
        /\ marker \in intent.asked \cup {None}
    BY <1>3, RecordAssumption DEF Inv, TypeOK, Ledger
  <2>2. s \in TabState
    BY <1>1, <1>3, <2>1 DEF TabState
  <2>3. /\ s.pc = "delete" /\ s.seen = marker /\ s.landing = tab[t].landing
        /\ s.record = record /\ s.owner = tab[t].owner /\ s.local = tab[t].local
    BY <1>1 DEF TabState
  <2>4. Step(t, s)
    BY <1>5
  <2> HIDE DEF s
  <2>5. Current(s) = a
    BY <2>3 DEF Current
  <2>6. /\ intent' \in [left : SUBSET Session, data : BOOLEAN, asked : SUBSET Account,
                          deletion : SUBSET Account]
        /\ intent'.left = intent.left /\ intent'.data = intent.data
        /\ intent'.asked = intent.asked \cup {a} /\ intent'.deletion = intent.deletion \cup {a}
    BY <1>2, <1>5 DEF Inv, TypeOK
  <2>7. Held' <=> Held
    BY <1>1, <2>6 DEF Held
  <2> HIDE DEF a
  <2>8. World'
    BY <1>1, <1>3, <1>5, <2>6 DEF World, Inv, TypeOK
  <2>9. Ledger'
    BY <1>1, <1>3, <1>5, <2>6 DEF Inv, Ledger, SoundRecord
  <2>10. Numbers' /\ tokens <= tokens'
    BY <1>1, <2>6, SessionAssumption DEF Inv, TypeOK, Numbers, Token
  <2>11. SignOutHolds'
    BY <1>1, <2>6 DEF Inv, SignOutHolds
  <2>12. SoundTab(s, intent')
    BY <1>3, <2>1, <2>3, <2>5, <2>6 DEF SoundTab, SoundRecord
  <2>13. Justified(s, marker', Held', cookie', intent'.data)
    BY <2>3 DEF Justified, SessionOver
  <2>14. Numbered(s, token', tokens', Held')
    BY <1>1, <2>3, <2>7 DEF Inv, Numbered
  <2>15. tab' \in [Tab -> TabState] /\ tab'[t] = s /\ \A u \in Tab \ {t} : tab'[u] = tab[u]
    BY <2>2, <2>4 DEF Step, Inv, TypeOK
  <2>16. \A u \in Tab \ {t} : Alike(tab'[u], tab[u])
    BY <2>15 DEF Alike
  <2>17. Weaker(marker', Held', cookie', intent'.data, marker, Held, cookie, intent.data)
    BY <1>1, <2>6, <2>7 DEF Weaker
  <2> QED BY <1>1, <2>2, <2>6, <2>7, <2>8, <2>9, <2>10, <2>11, <2>12, <2>13, <2>14, <2>15, <2>16,
             <2>17, TabInv
<1>6. CASE /\ Fault
           /\ attempt' \in {attempt, [record EXCEPT !.stage = "candidate"]}
           /\ UNCHANGED <<tab, intent>>
  <2> DEFINE r == [record EXCEPT !.stage = "candidate"]
  <2>1. r \in Attempt /\ r.stage = "candidate"
    BY <1>3 DEF Attempt
  <2>2. attempt' \in {attempt, r} /\ faults' \in 0 .. MaxFaults
    BY <1>6, FaultBound
  <2> HIDE DEF r
  <2>3. World'
    BY <1>1, <1>6, <2>1, <2>2 DEF World, Inv, TypeOK
  <2>4. Ledger'
    BY <1>1, <1>6, <2>1, <2>2 DEF Inv, Ledger, SoundRecord
  <2>5. Numbers' /\ SignOutHolds' /\ (Held' => Held)
    BY <1>1, <1>6 DEF Inv, Numbers, SignOutHolds, Held
  <2> QED BY <1>1, <1>6, <2>3, <2>4, <2>5, StayInv
<1> QED BY <1>4, <1>5, <1>6

\* The deletion was granted: the browser's session is over, and the marker says what is left.
LEMMA GrantedInv ==
    ASSUME Inv, NEW t \in Tab, NEW p \in {"wipe", "erase"}, tab[t].pc \in {"delete", "recover"},
           Current(tab[t]) \in intent.asked, Mark(t, [tab[t] EXCEPT !.pc = p]),
           server' = Deleted(tab[t].sent, tab[t].record), cookie' = None,
           intent' = [intent EXCEPT !.data = Undisturbed(t) /\ db.owner = Current(tab[t])],
           UNCHANGED <<db, attempt, signins, faults>>
    PROVE  Inv'
<1> DEFINE r == [tab[t] EXCEPT !.pc = p]
<1> DEFINE a == Current(tab[t])
<1>1. tab[t] \in TabState /\ a \in Account
  BY TabTyped DEF Inv, TypeOK
<1>2. /\ r \in TabState /\ r.pc = p /\ r.landing = tab[t].landing /\ r.record = tab[t].record
      /\ r.owner = tab[t].owner /\ r.local = tab[t].local
  BY <1>1 DEF TabState
<1>3. Mark(t, r)
  OBVIOUS
<1> HIDE DEF r
<1>4. Current(r) = a
  BY <1>2 DEF Current
<1>5. Fades
  BY DeletedFades
<1>6. (Undisturbed(t) /\ db.owner = a) \in BOOLEAN
  BY DEF Undisturbed
<1>7. /\ intent' \in [left : SUBSET Session, data : BOOLEAN, asked : SUBSET Account,
                        deletion : SUBSET Account]
      /\ intent'.left = intent.left /\ intent'.data = (Undisturbed(t) /\ db.owner = a)
      /\ intent'.asked = intent.asked /\ intent'.deletion = intent.deletion
  BY <1>6 DEF Inv, TypeOK
<1>8. marker' = a /\ token' = 0 /\ tokens' = tokens
  BY <1>3, <1>4 DEF Mark
<1> HIDE DEF a
<1>9. World'
  BY <1>1, <1>5, <1>7, <1>8, SessionAssumption DEF World, Fades, Inv, TypeOK, Owner, Token
<1>10. ~Held'
  BY <1>7, RecordAssumption DEF Held
<1>11. Numbers'
  BY <1>7, <1>8, SessionAssumption DEF Inv, TypeOK, Numbers, Token
<1>12. SignOutHolds'
  BY <1>7, <1>8, <1>10 DEF SignOutHolds, Held
<1>13. /\ server'.gone \subseteq intent'.deletion /\ \A c \in server'.receipts : c.owner \in server'.gone
  BY <1>5, <1>7 DEF Fades
<1>14. tab[t].record # None => SoundRecord(tab[t].record, intent) /\ tab[t].record.stage # "candidate"
  BY DEF Inv, SoundTab
<1>15. (~Held' /\ ~intent'.data) \/ Undisturbed(t)
  BY <1>7, <1>10
<1>16. a = Current(tab[t]) /\ a \in intent'.asked
  BY <1>7 DEF a
<1> QED BY <1>1, <1>2, <1>3, <1>4, <1>7, <1>9, <1>10, <1>11, <1>12, <1>13, <1>14, <1>15, <1>16, MarkInv

LEMMA DeleteAnsweredInv ==
    ASSUME Inv, NEW t \in Tab, DeleteAnswered(t)
    PROVE  Inv'
<1> DEFINE s == tab[t]
<1> DEFINE status == DeletionStatus(s.sent, s.record)
<1>1. /\ s \in TabState /\ s.pc = "delete" /\ UNCHANGED <<db, signins, faults>>
      /\ server' = Deleted(s.sent, s.record)
      /\ cookie' = IF status = 204 THEN None ELSE cookie
  BY TabTyped DEF DeleteAnswered
<1>2. \/ /\ status = 204 /\ Mark(t, [s EXCEPT !.pc = "wipe"])
         /\ intent' = [intent EXCEPT !.data = Undisturbed(t) /\ db.owner = Current(s)]
         /\ UNCHANGED attempt
      \/ /\ attempt' \in {attempt, None} /\ Step(t, Idle(s)) /\ UNCHANGED <<markers, intent>>
  BY DEF DeleteAnswered
<1>3. Current(s) \in intent.asked
  BY <1>1 DEF Inv, SoundTab
<1>4. CASE /\ status = 204 /\ Mark(t, [s EXCEPT !.pc = "wipe"])
           /\ intent' = [intent EXCEPT !.data = Undisturbed(t) /\ db.owner = Current(s)]
           /\ UNCHANGED attempt
  BY <1>1, <1>3, <1>4, GrantedInv
<1>5. CASE attempt' \in {attempt, None} /\ Step(t, Idle(s)) /\ UNCHANGED <<markers, intent>>
  <2>1. Fades
    BY <1>1, DeletedFades
  <2>2. LocalStep /\ MarkerStep /\ faults' \in 0 .. MaxFaults
    BY <1>1, <1>5, QuietWorld, FaultBound DEF markers
  <2> QED BY <1>1, <1>5, <2>1, <2>2, EndedInv
<1> QED BY <1>2, <1>4, <1>5

LEMMA DeleteLostInv ==
    ASSUME Inv, NEW t \in Tab, DeleteLost(t)
    PROVE  Inv'
<1>1. /\ tab[t] \in TabState /\ tab[t].pc = "delete" /\ attempt' = attempt
      /\ Step(t, Idle(tab[t])) /\ faults' \in 0 .. MaxFaults /\ LocalStep /\ MarkerStep
  BY TabTyped, FaultBound, QuietWorld DEF DeleteLost, markers
<1>2. Fades
  BY <1>1, DeletedFades DEF DeleteLost
<1> QED BY <1>1, <1>2, EndedInv

LEMMA CompleteDeletionInv ==
    ASSUME Inv, NEW t \in Tab, CompleteDeletion(t)
    PROVE  Inv'
<1>1. /\ tab[t] \in TabState /\ tab[t].pc = "wipe" /\ attempt' \in {attempt, None}
      /\ UNCHANGED <<cookie, server, signins>> /\ Fades
  BY TabTyped, QuietWorld DEF CompleteDeletion, remote
<1>2. CASE Erased(tab[t]) /\ Redirect(t, None)
  <2>1. LocalStep /\ ~intent'.data /\ faults' \in 0 .. MaxFaults /\ marker = tab[t].seen
    BY <1>2, ErasedStep
  <2>2. ~Held
    BY <1>1, <2>1 DEF Inv, Justified, SessionOver
  <2>3. ~Held'
    BY <1>1, <2>1, <2>2, LocalFacts DEF Held
  <2> QED BY <1>1, <1>2, <2>1, <2>3, RedirectInv
<1>3. CASE EraseFailed(tab[t]) /\ Redirect(t, marker)
  BY <1>1, <1>3, EraseFailedStep, RedirectInv
<1>4. CASE EraseFailed(tab[t]) /\ Step(t, Idle(tab[t])) /\ UNCHANGED markers
  <2>1. LocalStep /\ faults' \in 0 .. MaxFaults /\ MarkerStep
    BY <1>4, EraseFailedStep, QuietWorld DEF markers
  <2> QED BY <1>1, <1>4, <2>1, EndedInv
<1> QED BY <1>2, <1>3, <1>4 DEF CompleteDeletion

LEMMA RecoverAnsweredInv ==
    ASSUME Inv, NEW t \in Tab, RecoverAnswered(t)
    PROVE  Inv'
<1> DEFINE s == tab[t]
<1> DEFINE status == DeletionStatus(s.sent, s.record)
<1> DEFINE q == [s EXCEPT !.pc = "me", !.sent = None, !.record = None]
<1>1. /\ s \in TabState /\ s.pc = "recover" /\ UNCHANGED <<db, signins, faults>>
      /\ server' = Deleted(s.sent, s.record)
      /\ cookie' = IF status = 204 THEN None ELSE cookie
  BY TabTyped DEF RecoverAnswered
<1>2. \/ /\ status = 204 /\ Current(s) = s.record.owner /\ Mark(t, [s EXCEPT !.pc = "erase"])
         /\ intent' = [intent EXCEPT !.data = Undisturbed(t) /\ db.owner = Current(s)]
         /\ UNCHANGED attempt
      \/ /\ attempt' \in {attempt, None} /\ Step(t, q) /\ UNCHANGED <<markers, intent>>
      \/ Step(t, Idle(s)) /\ UNCHANGED <<attempt, markers, intent>>
  BY DEF RecoverAnswered
<1>3. CASE /\ status = 204 /\ Current(s) = s.record.owner /\ Mark(t, [s EXCEPT !.pc = "erase"])
           /\ intent' = [intent EXCEPT !.data = Undisturbed(t) /\ db.owner = Current(s)]
           /\ UNCHANGED attempt
  <2>1. Current(s) \in intent.deletion
    BY <1>1, <1>3, DeletionGranted
  <2>2. Current(s) \in intent.asked
    BY <2>1 DEF Inv, Ledger
  <2> QED BY <1>1, <1>3, <2>2, GrantedInv
<1>4. UNCHANGED <<markers, intent>> =>
          Fades /\ LocalStep /\ MarkerStep /\ faults' \in 0 .. MaxFaults
  BY <1>1, DeletedFades, QuietWorld, FaultBound DEF markers
<1>5. CASE attempt' \in {attempt, None} /\ Step(t, q) /\ UNCHANGED <<markers, intent>>
  <2>1. /\ q \in TabState /\ q.pc = "me" /\ q.record = None /\ q.landing = s.landing
        /\ q.seen = s.seen
    BY <1>1 DEF TabState
  <2>2. s.seen \in intent.asked \cup {None}
    BY DEF Inv, SoundTab
  <2> HIDE DEF q
  <2> QED BY <1>1, <1>4, <1>5, <2>1, <2>2, RestInv
<1>6. CASE Step(t, Idle(s)) /\ UNCHANGED <<attempt, markers, intent>>
  BY <1>1, <1>4, <1>6, EndedInv
<1> QED BY <1>2, <1>3, <1>5, <1>6

LEMMA RecoverLostInv ==
    ASSUME Inv, NEW t \in Tab, RecoverLost(t)
    PROVE  Inv'
<1> DEFINE q == [tab[t] EXCEPT !.pc = "me", !.sent = None, !.record = None]
<1>1. /\ tab[t] \in TabState /\ tab[t].pc = "recover" /\ attempt' = attempt
      /\ faults' \in 0 .. MaxFaults /\ LocalStep /\ MarkerStep
  BY TabTyped, FaultBound, QuietWorld DEF RecoverLost, markers
<1>2. Fades
  BY <1>1, DeletedFades DEF RecoverLost
<1>3. CASE Step(t, q)
  <2>1. /\ q \in TabState /\ q.pc = "me" /\ q.record = None /\ q.landing = tab[t].landing
        /\ q.seen = tab[t].seen
    BY <1>1 DEF TabState
  <2>2. tab[t].seen \in intent.asked \cup {None}
    BY DEF Inv, SoundTab
  <2> HIDE DEF q
  <2> QED BY <1>1, <1>2, <1>3, <2>1, <2>2, RestInv
<1>4. CASE Step(t, Idle(tab[t]))
  BY <1>1, <1>2, <1>4, EndedInv
<1> QED BY <1>3, <1>4 DEF RecoverLost

LEMMA CompleteRecoveryInv ==
    ASSUME Inv, NEW t \in Tab, CompleteRecovery(t)
    PROVE  Inv'
<1>1. /\ tab[t] \in TabState /\ tab[t].pc = "erase"
      /\ UNCHANGED <<cookie, server, signins>> /\ Fades
  BY TabTyped, QuietWorld DEF CompleteRecovery, remote
<1>2. CASE Erased(tab[t]) /\ Redirect(t, None) /\ attempt' = None
  <2>1. LocalStep /\ ~intent'.data /\ faults' \in 0 .. MaxFaults /\ marker = tab[t].seen
    BY <1>2, ErasedStep
  <2>2. ~Held
    BY <1>1, <2>1 DEF Inv, Justified, SessionOver
  <2>3. ~Held'
    BY <1>1, <2>1, <2>2, LocalFacts DEF Held
  <2> QED BY <1>1, <1>2, <2>1, <2>3, RedirectInv
<1>3. CASE EraseFailed(tab[t]) /\ Redirect(t, marker) /\ UNCHANGED attempt
  BY <1>1, <1>3, EraseFailedStep, RedirectInv
<1>4. CASE Step(t, Idle(tab[t])) /\ UNCHANGED <<db, attempt, markers, faults, intent>>
  <2>1. LocalStep /\ faults' \in 0 .. MaxFaults /\ MarkerStep
    BY <1>4, FaultBound, QuietWorld DEF markers
  <2> QED BY <1>1, <1>4, <2>1, EndedInv
<1> QED BY <1>2, <1>3, <1>4 DEF CompleteRecovery
----------------------------------------------------------------------------
(* The workspace and the world.                                            *)

LEMMA EditInv ==
    ASSUME Inv, NEW t \in Tab, Edit(t)
    PROVE  Inv'
<1>1. /\ db' = [db EXCEPT !.work = TRUE] /\ UNCHANGED <<tab, marker, token, tokens, intent>>
      /\ UNCHANGED <<attempt, cookie, server, signins, faults>>
  BY DEF Edit, remote, markers
<1>2. db' \in [owner : Owner, work : BOOLEAN] /\ db'.owner = db.owner
  BY <1>1 DEF Inv, TypeOK
<1>3. World' /\ Ledger' /\ Numbers'
  BY <1>1, <1>2 DEF World, Inv, TypeOK, Ledger, SoundRecord, Numbers
<1>4. SignOutHolds' /\ (Held' => Held)
  BY <1>1, <1>2 DEF Inv, SignOutHolds, Held
<1> QED BY <1>1, <1>3, <1>4, StayInv

LEMMA SessionEndsInv ==
    ASSUME Inv, SessionEnds
    PROVE  Inv'
<1>1. PICK c \in server.live : server' = [server EXCEPT !.live = @ \ {c}]
  BY DEF SessionEnds
<1>2. /\ UNCHANGED <<tab, marker, token, tokens, intent>> /\ faults' \in 0 .. MaxFaults
      /\ UNCHANGED <<db, attempt, cookie, signins>>
  BY FaultBound DEF SessionEnds, markers
<1>3. /\ server' \in [live : SUBSET Session, receipts : SUBSET Session, gone : SUBSET Account]
      /\ server'.live \subseteq server.live /\ server'.gone = server.gone
      /\ server'.receipts = server.receipts
  BY <1>1 DEF Inv, TypeOK
<1>4. World' /\ Ledger' /\ Numbers'
  BY <1>2, <1>3 DEF World, Inv, TypeOK, Ledger, SoundRecord, Numbers
<1>5. SignOutHolds' /\ (Held' => Held)
  BY <1>2, <1>3 DEF Inv, SignOutHolds, Held
<1> QED BY <1>2, <1>4, <1>5, StayInv

\* The profile passes to the tab's account; what was to go is then another's, or gone.
LEMMA ExchangeInv ==
    ASSUME Inv, NEW t \in Tab, Exchange(t)
    PROVE  Inv'
<1> DEFINE a == tab[t].owner
<1> DEFINE s == [tab[t] EXCEPT !.local = a]
<1>1. /\ tab[t] \in TabState /\ tab[t].pc = "idle" /\ db.owner = tab[t].local
      /\ cookie \in server.live /\ cookie.owner = a
      /\ db' = [owner |-> a, work |-> FALSE] /\ Step(t, s)
      /\ intent' = [intent EXCEPT !.data = @ /\ tab[t].local = a]
      /\ UNCHANGED <<attempt, cookie, server, signins, marker, token, tokens, faults>>
  BY TabTyped DEF Exchange, Working, remote, markers
<1>2. a \in Owner
  BY <1>1 DEF TabState
<1>3. /\ s \in TabState /\ s.pc = "idle" /\ s.seen = tab[t].seen /\ s.record = tab[t].record
      /\ s.landing = tab[t].landing
  BY <1>1, <1>2 DEF TabState
<1>4. s.revoked = tab[t].revoked
  BY <1>1, <1>2 DEF TabState
<1> HIDE DEF s
<1>5. (intent.data /\ tab[t].local = a) \in BOOLEAN
  BY DEF Inv, TypeOK
<1>6. /\ intent' \in [left : SUBSET Session, data : BOOLEAN, asked : SUBSET Account,
                        deletion : SUBSET Account]
      /\ intent'.left = intent.left /\ intent'.data = (intent.data /\ tab[t].local = a)
      /\ intent'.asked = intent.asked /\ intent'.deletion = intent.deletion
  BY <1>1, <1>5 DEF Inv, TypeOK
<1>7. db' \in [owner : Owner, work : BOOLEAN] /\ db'.owner = a
  BY <1>1, <1>2
<1> HIDE DEF a
<1>8. Held' <=> Held
  BY <1>1, <1>6 DEF Held
<1>9. World'
  BY <1>1, <1>6, <1>7 DEF World, Inv, TypeOK
<1>10. Ledger'
  BY <1>1, <1>6 DEF Inv, Ledger, SoundRecord
<1>11. Numbers' /\ tokens <= tokens'
  BY <1>1, <1>6, SessionAssumption DEF Inv, TypeOK, Numbers, Token
<1>12. SignOutHolds'
  BY <1>1, <1>6, <1>7 DEF Inv, SignOutHolds
<1>13. SoundTab(s, intent')
  BY <1>1, <1>3, <1>4, <1>6 DEF Inv, SoundTab, SoundRecord
<1>14. Justified(s, marker', Held', cookie', intent'.data)
  BY <1>3 DEF Justified, SessionOver
<1>15. Numbered(s, token', tokens', Held')
  BY <1>1, <1>3, <1>8 DEF Inv, Numbered
<1>16. tab' \in [Tab -> TabState] /\ tab'[t] = s /\ \A u \in Tab \ {t} : tab'[u] = tab[u]
  BY <1>1, <1>3 DEF Step, Inv, TypeOK
<1>17. \A u \in Tab \ {t} : Alike(tab'[u], tab[u])
  BY <1>16 DEF Alike
<1>18. Weaker(marker', Held', cookie', intent'.data, marker, Held, cookie, intent.data)
  BY <1>1, <1>6, <1>8 DEF Weaker
<1> QED BY <1>1, <1>3, <1>6, <1>8, <1>9, <1>10, <1>11, <1>12, <1>13, <1>14, <1>15, <1>16, <1>17,
           <1>18, TabInv
----------------------------------------------------------------------------
(* The invariant of the specification.                                     *)

LEMMA InitInv == Init => Inv
<1> SUFFICES ASSUME Init PROVE Inv
  OBVIOUS
<1>1. PICK a \in Account :
        LET s == [id |-> 1, owner |-> a]
        IN /\ db \in [owner : {None, a}, work : {FALSE}]
           /\ marker = None /\ token = 0
           /\ attempt \in {None, [owner |-> a, by |-> s, stage |-> "legacy"]}
           /\ cookie = s
           /\ server = [live |-> {s}, receipts |-> {}, gone |-> {}]
           /\ tab = [t \in Tab |-> ClosedTab]
           /\ signins = 1 /\ tokens = 0 /\ faults = 0
           /\ intent = [left |-> {}, data |-> FALSE, asked |-> {}, deletion |-> {}]
  BY DEF Init
<1> DEFINE s == [id |-> 1, owner |-> a]
<1>2. s \in Session /\ s.id = 1 /\ s.owner = a
  BY SessionAssumption DEF Session
<1>3. attempt \in Attempt \cup {None}
  BY <1>1, <1>2 DEF Attempt
<1>4. attempt # None => SoundRecord(attempt, intent)
  BY <1>1, <1>2 DEF SoundRecord
<1>5. cookie = s /\ server = [live |-> {s}, receipts |-> {}, gone |-> {}]
  BY <1>1
<1> HIDE DEF s
<1>6. \A t \in Tab : tab[t] = ClosedTab
  BY <1>1
<1>7. ClosedTab \in TabState
  BY ClosedFields
<1>8. TypeOK
  <2>1. db \in [owner : Owner, work : BOOLEAN] /\ marker \in Owner
    BY <1>1 DEF Owner
  <2>2. token \in Token /\ signins \in 1 .. MaxSignIns /\ tokens \in Token
        /\ faults \in 0 .. MaxFaults
    BY <1>1, SessionAssumption DEF Token
  <2>3. /\ cookie \in Session \cup {None}
        /\ server \in [live : SUBSET Session, receipts : SUBSET Session, gone : SUBSET Account]
    BY <1>2, <1>5
  <2>4. tab \in [Tab -> TabState]
    BY <1>1, <1>7
  <2>5. intent \in [left : SUBSET Session, data : BOOLEAN, asked : SUBSET Account,
                     deletion : SUBSET Account]
    BY <1>1
  <2> QED BY <1>3, <2>1, <2>2, <2>3, <2>4, <2>5 DEF TypeOK
<1>9. Ledger
  BY <1>1, <1>4, <1>5 DEF Ledger
<1>10. Numbers
  BY <1>1, <1>2, <1>5 DEF Numbers
<1>11. SignOutHolds /\ ~Held
  BY <1>1 DEF SignOutHolds, Held
<1>12. \A t \in Tab : /\ SoundTab(tab[t], intent)
                      /\ Justified(tab[t], marker, Held, cookie, intent.data)
                      /\ Numbered(tab[t], token, tokens, Held)
  BY <1>1, <1>6, <1>11 DEF ClosedTab, SoundTab, Justified, Numbered, SessionOver
<1> QED BY <1>8, <1>9, <1>10, <1>11, <1>12 DEF Inv

LEMMA TabStepInv ==
    ASSUME Inv, NEW t \in Tab, TabStep(t)
    PROVE  Inv'
<1>1. CASE OpenTab(t) \/ CloseTab(t) \/ Boot(t) \/ Resume(t) \/ ServeMe(t)
  BY <1>1, OpenTabInv, BootInv, ResumeInv, ServeMeInv
<1>2. CASE SessionFailed(t) \/ SessionStale(t) \/ Authorized(t) \/ Unauthorized(t)
  BY <1>2, SessionEndsHereInv, UnauthorizedInv
<1>3. CASE SpendToken(t) \/ FinishLanding(t) \/ FinishPendingLogout(t) \/ Revoke(t) \/ RevokeLost(t)
  BY <1>3, SpendTokenInv, FinishLandingInv, FinishPendingLogoutInv, RevokeInv, RevokeLostInv
<1>4. CASE SignIn(t) \/ RecoverySignIn(t) \/ Logout(t) \/ SignedOut(t) \/ SignOutTimeout(t)
  BY <1>4, SignInInv, RecoverySignInInv, LogoutInv, SignedOutInv
<1>5. CASE CompleteCleanup(t) \/ PeerEvent(t) \/ PeerCleanup(t)
  BY <1>5, CompleteCleanupInv, PeerEventInv, PeerCleanupInv
<1>6. CASE ConfirmDelete(t) \/ DeleteAnswered(t) \/ DeleteLost(t) \/ CompleteDeletion(t)
  BY <1>6, ConfirmDeleteInv, DeleteAnsweredInv, DeleteLostInv, CompleteDeletionInv
<1>7. CASE RecoverAnswered(t) \/ RecoverLost(t) \/ CompleteRecovery(t)
  BY <1>7, RecoverAnsweredInv, RecoverLostInv, CompleteRecoveryInv
<1>8. CASE Edit(t) \/ Exchange(t)
  BY <1>8, EditInv, ExchangeInv
<1> QED BY <1>1, <1>2, <1>3, <1>4, <1>5, <1>6, <1>7, <1>8 DEF TabStep

LEMMA NextInv == Inv /\ [Next]_vars => Inv'
<1> SUFFICES ASSUME Inv, [Next]_vars PROVE Inv'
  OBVIOUS
<1>1. CASE \E t \in Tab : TabStep(t)
  BY <1>1, TabStepInv
<1>2. CASE SessionEnds
  BY <1>2, SessionEndsInv
<1>3. CASE UNCHANGED vars
  <2>1. (Held' <=> Held) /\ (SignOutHolds' <=> SignOutHolds)
    BY <1>3 DEF vars, Held, SignOutHolds
  <2>2. TypeOK' /\ Ledger' /\ Numbers'
    BY <1>3 DEF vars, Inv, TypeOK, Ledger, Numbers
  <2> QED BY <1>3, <2>1, <2>2 DEF vars, Inv, Justified, Numbered
<1> QED BY <1>1, <1>2, <1>3 DEF Next

LEMMA Invariance == Spec => []Inv
BY InitInv, NextInv, PTL DEF Spec
----------------------------------------------------------------------------
(* Which cleanup may empty the database.                                   *)

\* A cleanup for a captured marker removes that account's data.
LEMMA MarkedErase ==
    ASSUME NEW s, Erased(s), s.seen # None, s.seen \in intent.asked \cup {None}, db.owner # None
    PROVE  db.owner \in intent.asked
BY DEF Erased, Erasable, Expected

LEMMA KeptStep ==
    ASSUME Inv, NEW t \in Tab, TabStep(t), db.owner # None, db'.owner = None
    PROVE  db.owner \in intent.asked \/ LateNotice(t)
<1>1. tab[t] \in TabState /\ tab[t].seen \in intent.asked \cup {None} /\ db' # db
  BY TabTyped DEF Inv, SoundTab
<1>2. CASE Boot(t)
  <2> DEFINE s == [tab[t] EXCEPT !.seen = marker, !.starting = TRUE]
  <2>1. marker # None /\ Erased(s)
    BY <1>1, <1>2 DEF Boot, EraseFailed
  <2>2. s.seen = marker /\ marker \in intent.asked \cup {None}
    BY <1>1 DEF TabState, Inv, Ledger
  <2> HIDE DEF s
  <2> QED BY <2>1, <2>2, MarkedErase
<1>3. CASE Unauthorized(t) \/ FinishPendingLogout(t)
  <2>1. marker # None /\ Erased(tab[t])
    BY <1>1, <1>3 DEF Unauthorized, FinishPendingLogout, Settle, EraseFailed
  <2>2. tab[t].seen = marker
    BY <1>3 DEF Unauthorized, FinishPendingLogout, Answered
  <2> QED BY <1>1, <2>1, <2>2, MarkedErase
<1>4. CASE FinishLanding(t) \/ CompleteDeletion(t) \/ CompleteRecovery(t)
  <2>1. Erased(tab[t])
    BY <1>1, <1>4 DEF FinishLanding, CompleteDeletion, CompleteRecovery, Settle, EraseFailed
  <2>2. tab[t].seen # None
    BY <1>4 DEF FinishLanding, CompleteDeletion, CompleteRecovery, Inv, SoundTab
  <2> QED BY <1>1, <2>1, <2>2, MarkedErase
<1>5. CASE CompleteCleanup(t)
  <2>1. Erased(tab[t]) /\ Current(tab[t]) \in intent.asked
    BY <1>1, <1>5 DEF CompleteCleanup, EraseFailed, Inv, SoundTab
  <2>2. CASE tab[t].seen # None
    BY <1>1, <2>1, <2>2, MarkedErase
  <2>3. CASE tab[t].seen = None
    <3>1. db.owner = Expected(tab[t])
      BY <2>1, <2>3 DEF Erased, Erasable
    <3>2. {tab[t].owner, tab[t].local} \subseteq {None, Expected(tab[t])}
      BY <2>1 DEF Erased, CleanupAllowed
    <3>3. Current(tab[t]) = Expected(tab[t])
      BY <2>3, <3>1, <3>2 DEF Current, Expected
    <3> QED BY <2>1, <3>1, <3>3
  <2> QED BY <2>2, <2>3
<1>6. CASE PeerCleanup(t)
  <2>1. tab[t].pc = "peer" /\ Erased(tab[t]) /\ Redirect(t, marker)
    BY <1>1, <1>6 DEF PeerCleanup, EraseFailed
  <2>2. CASE tab[t].seen # None
    BY <1>1, <2>1, <2>2, MarkedErase
  <2>3. CASE tab[t].seen = None
    <3>1. tab'[t].pc = "login"
      BY <2>1 DEF Redirect, Step, ClosedTab, Inv, TypeOK
    <3> QED BY <2>1, <2>3, <3>1 DEF LateNotice
  <2> QED BY <2>2, <2>3
<1>7. CASE Edit(t) \/ Exchange(t)
  <2>1. db'.owner \in {db.owner, tab[t].owner}
    BY <1>7 DEF Edit, Exchange, Inv, TypeOK
  <2>2. Exchange(t) => tab[t].owner \in Account
    BY DEF Exchange, Inv, TypeOK, Session
  <2>3. Edit(t) => db'.owner = db.owner
    BY DEF Edit, Inv, TypeOK
  <2> QED BY <1>7, <2>1, <2>2, <2>3, SessionAssumption
<1>8. CASE OpenTab(t) \/ CloseTab(t) \/ Resume(t) \/ ServeMe(t) \/ SessionFailed(t)
           \/ SessionStale(t) \/ Authorized(t) \/ SpendToken(t) \/ Revoke(t) \/ RevokeLost(t)
  BY <1>1, <1>8 DEF OpenTab, CloseTab, Resume, ServeMe, SessionFailed, SessionStale, Authorized,
                    SpendToken, Revoke, RevokeLost
<1>9. CASE SignIn(t) \/ RecoverySignIn(t) \/ Logout(t) \/ SignedOut(t) \/ SignOutTimeout(t)
           \/ PeerEvent(t)
  BY <1>1, <1>9 DEF SignIn, RecoverySignIn, Logout, SignedOut, SignOutTimeout, PeerEvent
<1>10. CASE ConfirmDelete(t) \/ DeleteAnswered(t) \/ DeleteLost(t) \/ RecoverAnswered(t)
            \/ RecoverLost(t)
  BY <1>1, <1>10 DEF ConfirmDelete, DeleteAnswered, DeleteLost, RecoverAnswered, RecoverLost
<1> QED BY <1>2, <1>3, <1>4, <1>5, <1>6, <1>7, <1>8, <1>9, <1>10 DEF TabStep
----------------------------------------------------------------------------
(* The theorems.                                                           *)

(* Markers, records, sessions and tabs keep their shape through every      *)
(* start, request, cleanup and crash of app-session.js; a deletion record  *)
(* always names the session whose token it holds.                          *)
THEOREM TypeCorrect == Spec => []TypeOK
<1>1. Inv => TypeOK
  BY DEF Inv
<1> QED BY <1>1, Invariance, PTL

(* A sign-out that was written down holds: while its data is stored or its *)
(* session is held and accepted, the marker is there for the next start    *)
(* (finishPendingLogout, settlePendingLogoutLocally,                       *)
(* completeAccountCleanup), whatever other tabs, landings and deletions do *)
(* and however many requests are lost or tabs closed.                      *)
THEOREM SignOutsHold == Spec => []SignOutHolds
<1>1. Inv => SignOutHolds
  BY DEF Inv
<1> QED BY <1>1, Invariance, PTL

(* An account the client said it did not delete is not deleted by a half-  *)
(* written record, through any number of restarts                          *)
(* (writePendingDeletionAttempt, pendingDeletionAttempt).                  *)
THEOREM RefusedDeletionsHold == Spec => []RefusedDeletionHolds
<1>1. Inv => RefusedDeletionHolds
  BY DEF Inv, Ledger, RefusedDeletionHolds
<1> QED BY <1>1, Invariance, PTL

(* No cleanup removes the data of an account the user neither signed out   *)
(* of nor deleted, but for the late notice of another tab's sign-out       *)
(* (clearAuthorizedLocalData, assertCleanupIdentity).                      *)
THEOREM OtherAccountsKept == Spec => OtherAccountKept
<1> DEFINE Kept == db.owner # None /\ db'.owner = None
                   => db.owner \in intent.asked \/ \E t \in Tab : LateNotice(t)
<1>1. Inv /\ [Next]_vars => [Kept]_vars
  <2> SUFFICES ASSUME Inv, Next, db.owner # None, db'.owner = None
               PROVE  db.owner \in intent.asked \/ \E t \in Tab : LateNotice(t)
    OBVIOUS
  <2>1. CASE \E t \in Tab : TabStep(t)
    BY <2>1, KeptStep
  <2>2. CASE SessionEnds
    BY <2>2 DEF SessionEnds
  <2> QED BY <2>1, <2>2 DEF Next
<1> QED BY <1>1, Invariance, PTL DEF Spec, OtherAccountKept
=============================================================================
