-------------------------- MODULE RevisionStreamProofs --------------------------
(***************************************************************************)
(* The safety of revision hints for every number of streams, sessions,     *)
(* generations and revisions, every limit of streams and every number of   *)
(* handlers between their commit and their call of the hub.                *)
(***************************************************************************)
EXTENDS RevisionStream, TLAPS, FiniteSetTheorems

StreamState == [pc : {"idle", "connected"} \cup Holding, gen : 0 .. MaxGeneration,
                session : SUBSET Session, listed : BOOLEAN, hint : Revision,
                shut : BOOLEAN, last : Revision]

HoldingStreams == {s \in Stream : stream[s].pc \in Holding}

-----------------------------------------------------------------------------
(* The inductive invariant *)

\* A request that is served belongs to a generation; before it subscribes it is
\* not in the hub's map and its channel is empty.
Phases ==
    \A s \in Stream :
       /\ stream[s].pc # "idle" => stream[s].gen \in Generation
       /\ stream[s].pc \in {"idle", "connected", "acquired"} =>
             ~stream[s].listed /\ stream[s].hint = 0

\* No revision is known before it is stored: not to the hub, nor to a handler
\* about to publish it, nor to a stream.
NothingAhead ==
    /\ \A g \in Generation : latest[g] <= rev[g]
    /\ \A g \in Generation, r \in Revision : Publication(g, r) \in todo => r <= rev[g]
    /\ \A s \in Stream : stream[s].gen \in Generation =>
          stream[s].hint <= rev[stream[s].gen] /\ stream[s].last <= rev[stream[s].gen]

\* latest is as new as every hint of an open channel, so what publish drops
\* never was newer than what it keeps.
HintsSeen ==
    \A s \in Stream : stream[s].listed => stream[s].hint <= latest[stream[s].gen]

\* Once the hub has seen the stored revision, no open stream waits for it.
SeenDelivered ==
    \A s \in Stream : LET g == stream[s].gen IN
        stream[s].pc \in Reading /\ stream[s].listed /\ latest[g] = rev[g] =>
            rev[g] \in {stream[s].last, stream[s].hint}

Inv ==
    /\ TypeOK /\ Phases /\ NothingAhead /\ HintsSeen /\ SeenDelivered
    /\ HintUnderway /\ ListedOpen
    /\ IsFiniteSet(HoldingStreams) /\ LimiterExact

-----------------------------------------------------------------------------
(* Streams one at a time *)

LEMMA IdleTyped == IdleStream \in StreamState
BY BoundAssumption DEF IdleStream, StreamState, Revision

\* A step that replaces one stream's state keeps the others.
LEMMA Replaced ==
    ASSUME TypeOK, NEW s \in Stream, NEW q \in StreamState,
           stream' = [stream EXCEPT ![s] = q]
    PROVE  /\ stream' \in [Stream -> StreamState]
           /\ stream'[s] = q
           /\ \A t \in Stream : t # s => stream'[t] = stream[t]
BY DEF TypeOK, StreamState

\* A stream that starts or stops holding a slot of the limiter.
LEMMA HoldingGrows ==
    ASSUME NEW s \in Stream, stream[s].pc \notin Holding, stream'[s].pc \in Holding,
           \A t \in Stream : t # s => stream'[t] = stream[t],
           IsFiniteSet(HoldingStreams)
    PROVE  /\ IsFiniteSet(HoldingStreams')
           /\ Cardinality(HoldingStreams') = Cardinality(HoldingStreams) + 1
<1>1. HoldingStreams' = HoldingStreams \cup {s} /\ s \notin HoldingStreams
  BY DEF HoldingStreams
<1> QED BY <1>1, FS_AddElement

LEMMA HoldingShrinks ==
    ASSUME NEW s \in Stream, stream[s].pc \in Holding, stream'[s].pc \notin Holding,
           \A t \in Stream : t # s => stream'[t] = stream[t],
           IsFiniteSet(HoldingStreams)
    PROVE  /\ IsFiniteSet(HoldingStreams')
           /\ Cardinality(HoldingStreams') = Cardinality(HoldingStreams) - 1
<1>1. HoldingStreams' = HoldingStreams \ {s} /\ s \in HoldingStreams
  BY DEF HoldingStreams
<1> QED BY <1>1, FS_RemoveElement

LEMMA HoldingSame ==
    ASSUME \A t \in Stream : stream'[t].pc \in Holding <=> stream[t].pc \in Holding,
           IsFiniteSet(HoldingStreams), LimiterExact, active' = active
    PROVE  IsFiniteSet(HoldingStreams') /\ LimiterExact'
<1>1. HoldingStreams' = HoldingStreams
  BY DEF HoldingStreams
<1> QED BY <1>1 DEF LimiterExact, HoldingStreams

-----------------------------------------------------------------------------
(* Other handlers *)

LEMMA CommitChangeInv ==
    ASSUME Inv, CommitChange
    PROVE  Inv'
<1> DEFINE g == account.gen
           m == Publication(g, rev[g] + 1)
<1>1. /\ g \in Generation /\ rev[g] \in Nat /\ rev[g] + 1 \in Revision
      /\ rev' = [rev EXCEPT ![g] = rev[g] + 1]
      /\ todo' = todo \cup {m}
      /\ account' = account /\ revoked' = revoked /\ erased' = erased /\ latest' = latest /\ closed' = closed
      /\ stream' = stream /\ active' = active
  BY BoundAssumption DEF Inv, TypeOK, CommitChange, Generation, Revision
<1>2. /\ rev' \in [Generation -> Revision] /\ rev'[g] = rev[g] + 1
      /\ \A h \in Generation : h # g => rev'[h] = rev[h]
  BY <1>1 DEF Inv, TypeOK
<1>3. m \in Message
  BY <1>1 DEF Message
<1>4. TypeOK'
  BY <1>1, <1>2, <1>3 DEF Inv, TypeOK
<1>5. Phases' /\ HintsSeen' /\ ListedOpen'
  BY <1>1 DEF Inv, Phases, HintsSeen, ListedOpen
<1>6. \A h \in Generation : rev[h] <= rev'[h] /\ rev[h] \in Nat /\ rev'[h] \in Nat /\ latest[h] \in Nat
  BY <1>1, <1>2 DEF Inv, TypeOK, Revision
<1>7. NothingAhead'
  <2>1. \A h \in Generation : latest'[h] <= rev'[h]
    BY <1>1, <1>6 DEF Inv, NothingAhead
  <2>2. ASSUME NEW h \in Generation, NEW r \in Revision, Publication(h, r) \in todo'
        PROVE  r <= rev'[h]
    <3>1. CASE Publication(h, r) \in todo
      BY <3>1, <1>6 DEF Inv, NothingAhead, Revision
    <3>2. CASE Publication(h, r) = m
      BY <3>2, <1>1, <1>2 DEF Publication, Revision
    <3> QED BY <2>2, <3>1, <3>2, <1>1
  <2>3. ASSUME NEW s \in Stream, stream'[s].gen \in Generation
        PROVE  stream'[s].hint <= rev'[stream'[s].gen] /\ stream'[s].last <= rev'[stream'[s].gen]
    BY <2>3, <1>1, <1>6 DEF Inv, NothingAhead, TypeOK, StreamState, Revision
  <2> QED BY <2>1, <2>2, <2>3 DEF NothingAhead
<1>8. SeenDelivered' /\ HintUnderway'
  <2> SUFFICES ASSUME NEW s \in Stream, stream[s].pc \in Reading, stream[s].listed
               PROVE  /\ latest'[stream[s].gen] = rev'[stream[s].gen] =>
                            rev'[stream[s].gen] \in {stream[s].last, stream[s].hint}
                      /\ \/ rev'[stream[s].gen] \in {stream[s].last, stream[s].hint}
                         \/ Publication(stream[s].gen, rev'[stream[s].gen]) \in todo'
                         \/ \E t \in Stream : stream[t].pc = "announce" /\ stream[t].gen = stream[s].gen
                                                /\ stream[t].last = rev'[stream[s].gen]
    BY <1>1 DEF SeenDelivered, HintUnderway
  <2>1. stream[s].gen \in Generation
    BY DEF Inv, Phases, Reading
  <2>2. CASE stream[s].gen = g
    BY <2>2, <1>1, <1>2, <1>6 DEF Inv, NothingAhead
  <2>3. CASE stream[s].gen # g
    BY <2>1, <2>3, <1>1, <1>2 DEF Inv, SeenDelivered, HintUnderway
  <2> QED BY <2>2, <2>3
<1>9. IsFiniteSet(HoldingStreams') /\ LimiterExact'
  BY <1>1, HoldingSame DEF Inv
<1> QED BY <1>4, <1>5, <1>7, <1>8, <1>9 DEF Inv

\* What a step does that touches neither revisions nor streams nor the hub, and
\* adds calls other than publications.
LEMMA AsideInv ==
    ASSUME Inv, account' \in [gen : Generation, live : BOOLEAN],
           revoked' \subseteq Generation \X Session, erased' \subseteq Generation, todo' \subseteq Message,
           \A g \in Generation, r \in Revision :
              Publication(g, r) \in todo' <=> Publication(g, r) \in todo,
           rev' = rev, latest' = latest, closed' \in BOOLEAN, stream' = stream, active' = active
    PROVE  Inv'
<1>1. TypeOK' /\ Phases' /\ HintsSeen' /\ ListedOpen' /\ SeenDelivered'
  BY DEF Inv, TypeOK, Phases, HintsSeen, ListedOpen, SeenDelivered
<1>2. NothingAhead'
  BY DEF Inv, NothingAhead
<1>3. HintUnderway'
  <2>1. \A s \in Stream : stream[s].pc \in Reading => 
            stream[s].gen \in Generation /\ rev[stream[s].gen] \in Revision
    BY DEF Inv, Phases, TypeOK, Reading
  <2> QED BY <2>1 DEF Inv, HintUnderway
<1>4. IsFiniteSet(HoldingStreams') /\ LimiterExact'
  BY HoldingSame DEF Inv
<1> QED BY <1>1, <1>2, <1>3, <1>4 DEF Inv

\* A DELETE that reaches its end: one generation is erased, one call owed.
LEMMA DeletedInv ==
    ASSUME Inv, NEW g \in Generation, account' \in [gen : Generation, live : BOOLEAN],
           erased' = erased \cup {g}, todo' = todo \cup {Disconnection(g)},
           UNCHANGED <<rev, revoked, latest, closed, stream, active>>
    PROVE  Inv'
<1>1. todo' \subseteq Message /\ erased' \subseteq Generation
  BY DEF Inv, TypeOK, Message
<1>2. \A h \in Generation, r \in Revision :
         Publication(h, r) \in todo' <=> Publication(h, r) \in todo
  BY DEF Publication, Disconnection
<1> QED BY <1>1, <1>2, AsideInv DEF Inv, TypeOK

LEMMA OtherHandlersInv ==
    ASSUME Inv,
           \/ DeleteAccount \/ DeleteUnfinished \/ RecreateAccount
           \/ \E g \in Generation : ConfirmDeletion(g)
           \/ \E u \in Session : RevokeSession(u)
    PROVE  Inv'
<1>1. CASE DeleteAccount
  <2>1. account.gen \in Generation /\ account' \in [gen : Generation, live : BOOLEAN]
    BY <1>1 DEF DeleteAccount, Inv, TypeOK
  <2> QED BY <1>1, <2>1, DeletedInv DEF DeleteAccount
<1>2. CASE DeleteUnfinished \/ RecreateAccount
  <2>1. UNCHANGED <<rev, revoked, erased, todo, latest, closed, stream, active>>
    BY <1>2 DEF DeleteUnfinished, RecreateAccount
  <2>2. CASE DeleteUnfinished
    BY <2>1, <2>2, AsideInv DEF DeleteUnfinished, Inv, TypeOK
  <2>3. CASE RecreateAccount
    <3>1. account' \in [gen : Generation, live : BOOLEAN]
      BY <2>3, BoundAssumption DEF RecreateAccount, Inv, TypeOK, Generation
    <3> QED BY <2>1, <3>1, AsideInv DEF Inv, TypeOK
  <2> QED BY <1>2, <2>2, <2>3
<1>3. ASSUME NEW g \in Generation, ConfirmDeletion(g)
      PROVE  Inv'
  BY <1>3, DeletedInv DEF ConfirmDeletion, Inv, TypeOK
<1>4. ASSUME NEW u \in Session, RevokeSession(u)
      PROVE  Inv'
  <2>1. /\ account.gen \in Generation
        /\ revoked' \subseteq Generation \X Session
        /\ todo' = todo \cup {SessionDisconnection(account.gen, u)}
        /\ UNCHANGED <<account, rev, erased, latest, closed, stream, active>>
    BY <1>4 DEF RevokeSession, Inv, TypeOK
  <2>2. todo' \subseteq Message
    BY <2>1 DEF Inv, TypeOK, Message
  <2>3. \A g \in Generation, r \in Revision :
           Publication(g, r) \in todo' <=> Publication(g, r) \in todo
    BY <2>1 DEF Publication, SessionDisconnection
  <2> QED BY <2>1, <2>2, <2>3, AsideInv DEF Inv, TypeOK
<1> QED BY <1>1, <1>2, <1>3, <1>4

-----------------------------------------------------------------------------
(* The hub's calls *)

\* What publish leaves of stream t; the publishing stream itself goes on to its
\* first write.
Told(g, r, t) ==
    /\ stream'[t].gen = stream[t].gen /\ stream'[t].listed = stream[t].listed
    /\ stream'[t].shut = stream[t].shut /\ stream'[t].last = stream[t].last
    /\ stream'[t].hint = IF stream[t].listed /\ stream[t].gen = g /\ r > latest[g]
                         THEN r ELSE stream[t].hint
    /\ \/ stream'[t].pc = stream[t].pc
       \/ /\ stream[t].pc = "announce" /\ stream[t].gen = g /\ stream[t].last = r
          /\ stream'[t].pc = "first"

LEMMA PublishedInv ==
    ASSUME Inv, NEW g \in Generation, NEW r \in Revision, r <= rev[g],
           latest' = Newest(g, r), todo' \subseteq todo,
           \A h \in Generation, q \in Revision :
              Publication(h, q) \in todo => Publication(h, q) \in todo' \/ (h = g /\ q = r),
           UNCHANGED <<database, closed, active>>,
           stream' \in [Stream -> StreamState], \A t \in Stream : Told(g, r, t)
    PROVE  Inv'
<1>1. account' = account /\ rev' = rev /\ revoked' = revoked /\ erased' = erased /\ closed' = closed /\ active' = active
  BY DEF database
<1>2. /\ latest' \in [Generation -> Revision]
      /\ latest'[g] = IF r > latest[g] THEN r ELSE latest[g]
      /\ \A h \in Generation : h # g => latest'[h] = latest[h]
  BY DEF Inv, TypeOK, Newest
<1>3. \A h \in Generation : /\ rev[h] \in Nat /\ latest[h] \in Nat /\ latest'[h] \in Nat
                            /\ latest[h] <= latest'[h] /\ latest[h] <= rev[h] /\ latest'[h] <= rev[h]
  BY <1>2, BoundAssumption DEF Inv, TypeOK, NothingAhead, Revision
<1>4. r \in Nat /\ \A t \in Stream : stream[t].hint \in Nat /\ stream[t].last \in Nat
  BY BoundAssumption DEF Inv, TypeOK, StreamState, Revision
<1>5. TypeOK'
  BY <1>1, <1>2 DEF Inv, TypeOK, StreamState
<1>6. Phases' /\ ListedOpen'
  BY DEF Inv, Phases, ListedOpen, Told
<1>7. NothingAhead'
  <2>1. \A h \in Generation, q \in Revision : Publication(h, q) \in todo' => q <= rev[h]
    BY DEF Inv, NothingAhead
  <2>2. ASSUME NEW t \in Stream, stream'[t].gen \in Generation
        PROVE  stream'[t].hint <= rev[stream'[t].gen] /\ stream'[t].last <= rev[stream'[t].gen]
    BY <2>2 DEF Inv, NothingAhead, Told
  <2> QED BY <1>1, <1>3, <2>1, <2>2 DEF NothingAhead
<1>8. HintsSeen'
  <2> SUFFICES ASSUME NEW t \in Stream, stream'[t].listed
               PROVE  stream'[t].hint <= latest'[stream'[t].gen]
    BY DEF HintsSeen
  <2>1. stream[t].listed /\ stream[t].gen \in Generation /\ stream'[t].gen = stream[t].gen
    <3>1. stream[t].listed /\ stream'[t].gen = stream[t].gen
      BY DEF Told
    <3> QED BY <3>1 DEF Inv, Phases
  <2>2. stream[t].hint <= latest[stream[t].gen]
    BY <2>1 DEF Inv, HintsSeen
  <2> QED BY <2>1, <2>2, <1>2, <1>3, <1>4 DEF Told
\* An open stream of g: publish has put the newest revision into its channel, or
\* had delivered it before, or leaves what the stream relies on as it was.
<1>9. SeenDelivered' /\ HintUnderway'
  <2> SUFFICES ASSUME NEW s \in Stream, stream'[s].pc \in Reading, stream'[s].listed
               PROVE  LET h == stream[s].gen IN
                      \/ rev[h] \in {stream'[s].last, stream'[s].hint}
                      \/ /\ latest'[h] # rev[h]
                         /\ \/ Publication(h, rev[h]) \in todo'
                            \/ \E t \in Stream : stream'[t].pc = "announce" /\ stream'[t].gen = h
                                                   /\ stream'[t].last = rev[h]
    <3>1. \A s \in Stream : stream'[s].gen = stream[s].gen
      BY DEF Told
    <3> QED BY <1>1, <3>1 DEF SeenDelivered, HintUnderway
  <2> DEFINE h == stream[s].gen
  <2>1. stream[s].pc \in Reading /\ stream[s].listed /\ h \in Generation
    <3>1. stream[s].pc \in Reading /\ stream[s].listed
      BY DEF Told, Reading
    <3> QED BY <3>1 DEF Inv, Phases, Reading
  <2>2. stream[s].hint <= latest[h] /\ rev[h] \in Revision
    BY <2>1 DEF Inv, HintsSeen, TypeOK
  <2>3. CASE h = g /\ r > latest[g] /\ r = rev[g]
    BY <2>1, <2>3 DEF Told
  <2>4. CASE ~(h = g /\ r > latest[g])
    <3>1. latest'[h] = latest[h] /\ stream'[s].hint = stream[s].hint /\ stream'[s].last = stream[s].last
      BY <2>1, <2>4, <1>2 DEF Told
    <3>2. CASE latest[h] = rev[h]
      BY <2>1, <3>1, <3>2 DEF Inv, SeenDelivered
    <3>3. CASE latest[h] # rev[h]
      <4>1. ~(h = g /\ r = rev[h])
        BY <2>4, <3>3, <1>3
      <4>2. CASE rev[h] \in {stream[s].last, stream[s].hint}
        BY <4>2, <3>1
      <4>3. CASE Publication(h, rev[h]) \in todo
        BY <4>1, <4>3, <2>1, <2>2, <3>1, <3>3
      <4>4. ASSUME NEW t \in Stream, stream[t].pc = "announce", stream[t].gen = h,
                   stream[t].last = rev[h]
            PROVE  stream'[t].pc = "announce" /\ stream'[t].gen = h /\ stream'[t].last = rev[h]
        BY <4>1, <4>4 DEF Told
      <4> QED BY <4>2, <4>3, <4>4, <2>1, <3>1, <3>3 DEF Inv, HintUnderway
    <3> QED BY <3>2, <3>3
  <2>5. CASE h = g /\ r > latest[g] /\ r # rev[g]
    <3>1. latest'[h] # rev[h] /\ r # rev[h] /\ stream[s].hint # rev[h]
             /\ stream'[s].last = stream[s].last
      BY <2>1, <2>2, <2>5, <1>2, <1>3, <1>4 DEF Told
    <3>2. CASE rev[h] = stream[s].last
      BY <3>1, <3>2
    <3>3. CASE Publication(h, rev[h]) \in todo
      BY <2>1, <2>2, <3>1, <3>3
    <3>4. ASSUME NEW t \in Stream, stream[t].pc = "announce", stream[t].gen = h,
                 stream[t].last = rev[h]
          PROVE  stream'[t].pc = "announce" /\ stream'[t].gen = h /\ stream'[t].last = rev[h]
      BY <3>1, <3>4 DEF Told
    <3> QED BY <3>1, <3>2, <3>3, <3>4, <2>1 DEF Inv, HintUnderway
  <2> QED BY <2>3, <2>4, <2>5
<1>10. IsFiniteSet(HoldingStreams') /\ LimiterExact'
  <2>1. \A t \in Stream : stream'[t].pc \in Holding <=> stream[t].pc \in Holding
    BY DEF Told, Holding, Reading
  <2> QED BY <2>1, HoldingSame DEF Inv
<1> QED BY <1>5, <1>6, <1>7, <1>8, <1>9, <1>10 DEF Inv

LEMMA AnnouncedTyped ==
    ASSUME TypeOK, NEW g \in Generation, NEW r \in Revision
    PROVE  Announced(g, r) \in [Stream -> StreamState]
BY DEF TypeOK, StreamState, Announced

\* publish changes nothing but hints.
LEMMA AnnouncedTold ==
    ASSUME TypeOK, NEW g \in Generation, NEW r \in Revision, NEW t \in Stream
    PROVE  LET a == Announced(g, r)[t] IN
              /\ a.pc = stream[t].pc /\ a.gen = stream[t].gen /\ a.listed = stream[t].listed
              /\ a.shut = stream[t].shut /\ a.last = stream[t].last
              /\ a.hint = IF stream[t].listed /\ stream[t].gen = g /\ r > latest[g]
                          THEN r ELSE stream[t].hint
BY DEF TypeOK, StreamState, Announced

LEMMA PublishInv ==
    ASSUME Inv, NEW g \in Generation, NEW r \in Revision, Publish(g, r)
    PROVE  Inv'
<1>1. /\ r <= rev[g] /\ latest' = Newest(g, r) /\ todo' = todo \ {Publication(g, r)}
      /\ stream' = Announced(g, r) /\ UNCHANGED <<database, closed, active>>
  BY DEF Publish, Inv, NothingAhead
<1>2. \A h \in Generation, q \in Revision :
         Publication(h, q) \in todo => Publication(h, q) \in todo' \/ (h = g /\ q = r)
  BY <1>1 DEF Publication
<1>3. stream' \in [Stream -> StreamState]
  BY <1>1, AnnouncedTyped DEF Inv
<1>4. ASSUME NEW t \in Stream PROVE Told(g, r, t)
  <2>1. TypeOK /\ stream'[t] = Announced(g, r)[t]
    BY <1>1 DEF Inv
  <2> QED BY <2>1, AnnouncedTold DEF Told
<1> QED BY <1>1, <1>2, <1>3, <1>4, PublishedInv

LEMMA AnnounceOwnInv ==
    ASSUME Inv, NEW s \in Stream, AnnounceOwn(s)
    PROVE  Inv'
<1> DEFINE g == stream[s].gen
           r == stream[s].last
<1>1. /\ g \in Generation /\ r \in Revision /\ r <= rev[g]
      /\ stream[s].pc = "announce" /\ latest' = Newest(g, r)
      /\ stream' = [Announced(g, r) EXCEPT ![s].pc = "first"]
      /\ todo' = todo /\ UNCHANGED <<database, closed, active>>
  BY DEF AnnounceOwn, Inv, TypeOK, StreamState, Phases, NothingAhead
<1>2. Announced(g, r) \in [Stream -> StreamState]
  BY <1>1, AnnouncedTyped DEF Inv
<1>3. /\ stream' \in [Stream -> StreamState] /\ stream'[s] = [Announced(g, r)[s] EXCEPT !.pc = "first"]
      /\ \A t \in Stream : t # s => stream'[t] = Announced(g, r)[t]
  BY <1>1, <1>2 DEF StreamState, Holding, Reading
<1>4. \A t \in Stream : Told(g, r, t)
  <2>1. ASSUME NEW t \in Stream, t # s
        PROVE  Told(g, r, t)
    BY <1>1, <1>3, <2>1, AnnouncedTold DEF Inv, Told
  <2>2. Told(g, r, s)
    <3> DEFINE a == Announced(g, r)[s]
    <3>1. a \in StreamState /\ stream'[s] = [a EXCEPT !.pc = "first"]
      BY <1>2, <1>3
    <3>2. /\ stream'[s].pc = "first" /\ stream'[s].gen = a.gen /\ stream'[s].listed = a.listed
          /\ stream'[s].shut = a.shut /\ stream'[s].last = a.last /\ stream'[s].hint = a.hint
      BY <3>1 DEF StreamState
    <3> QED BY <1>1, <3>2, AnnouncedTold DEF Inv, Told
  <2> QED BY <2>1, <2>2
<1> QED BY <1>1, <1>3, <1>4, PublishedInv

\* What a disconnection leaves of stream t: it is as it was, or unlisted and closed.
CutOff(t) ==
    \/ stream'[t] = stream[t]
    \/ stream'[t] = [stream[t] EXCEPT !.shut = TRUE, !.listed = FALSE]

LEMMA CutInv ==
    ASSUME Inv, todo' \subseteq todo,
           \A h \in Generation, q \in Revision : Publication(h, q) \in todo => Publication(h, q) \in todo',
           UNCHANGED <<database, active>>, closed' \in BOOLEAN,
           stream' \in [Stream -> StreamState], \A t \in Stream : CutOff(t),
           latest' \in [Generation -> Revision],
           \A h \in Generation : \/ latest'[h] = latest[h]
                                 \/ /\ latest'[h] = 0
                                    /\ \A t \in Stream : stream[t].gen = h => ~stream'[t].listed
    PROVE  Inv'
<1>1. account' = account /\ rev' = rev /\ revoked' = revoked /\ erased' = erased /\ active' = active
  BY DEF database
<1>2. \A t \in Stream :
         /\ stream'[t].pc = stream[t].pc /\ stream'[t].gen = stream[t].gen
         /\ stream'[t].hint = stream[t].hint /\ stream'[t].last = stream[t].last
         /\ stream'[t].listed => stream[t].listed /\ stream'[t] = stream[t]
  <2>1. \A t \in Stream : stream[t] \in StreamState
    BY DEF Inv, TypeOK, StreamState
  <2>2. \A q \in StreamState : LET c == [q EXCEPT !.shut = TRUE, !.listed = FALSE] IN
           c.pc = q.pc /\ c.gen = q.gen /\ c.hint = q.hint /\ c.last = q.last /\ ~c.listed
    BY DEF StreamState
  <2> QED BY <2>1, <2>2, Zenon DEF CutOff
<1>3. TypeOK'
  BY <1>1 DEF Inv, TypeOK, StreamState
<1>4. Phases' /\ ListedOpen'
  BY <1>2 DEF Inv, Phases, ListedOpen
<1>5. \A t \in Stream : stream'[t].listed => 
         stream[t].gen \in Generation /\ latest'[stream[t].gen] = latest[stream[t].gen]
  BY <1>2 DEF Inv, Phases
<1>6. HintsSeen' /\ SeenDelivered'
  BY <1>1, <1>2, <1>5 DEF Inv, HintsSeen, SeenDelivered
<1>7. NothingAhead'
  <2>1. \A h \in Generation : latest'[h] <= rev[h]
    BY BoundAssumption DEF Inv, NothingAhead, TypeOK, Revision
  <2> QED BY <1>1, <1>2, <2>1 DEF Inv, NothingAhead
<1>8. HintUnderway'
  <2>1. \A t \in Stream : stream'[t].listed => rev[stream[t].gen] \in Revision
    BY <1>5 DEF Inv, TypeOK
  <2> QED BY <1>1, <1>2, <1>5, <2>1 DEF Inv, HintUnderway
<1>9. IsFiniteSet(HoldingStreams') /\ LimiterExact'
  BY <1>1, <1>2, HoldingSame DEF Inv
<1> QED BY <1>3, <1>4, <1>6, <1>7, <1>8, <1>9 DEF Inv

\* Cut closes exactly the channels of S.
LEMMA CutTyped ==
    ASSUME TypeOK, NEW S, stream' = Cut(S)
    PROVE  /\ stream' \in [Stream -> StreamState]
           /\ \A t \in Stream : CutOff(t) /\ (t \in S => ~stream'[t].listed)
BY DEF TypeOK, StreamState, Cut, CutOff

LEMMA DisconnectionInv ==
    ASSUME Inv,
           \/ \E g \in Generation : Disconnect(g)
           \/ \E g \in Generation, u \in Session : DisconnectSession(g, u)
           \/ Shutdown
    PROVE  Inv'
<1>0. \A h \in Generation, q \in Revision :
         /\ \A g \in Generation : Publication(h, q) # Disconnection(g)
         /\ \A g \in Generation, u \in Session : Publication(h, q) # SessionDisconnection(g, u)
  BY DEF Publication, Disconnection, SessionDisconnection
<1>1. ASSUME NEW g \in Generation, Disconnect(g)
      PROVE  Inv'
  <2>1. /\ todo' = todo \ {Disconnection(g)} /\ stream' = Cut(Listed(g))
        /\ latest' = [latest EXCEPT ![g] = 0] /\ UNCHANGED <<database, closed, active>>
    BY <1>1 DEF Disconnect
  <2>2. /\ stream' \in [Stream -> StreamState]
        /\ \A t \in Stream : CutOff(t) /\ (t \in Listed(g) => ~stream'[t].listed)
    BY <2>1, CutTyped DEF Inv
  <2>3. \A t \in Stream : stream[t].gen = g => ~stream'[t].listed
    BY <2>2 DEF CutOff, Listed, Inv, TypeOK
  <2>4. /\ latest' \in [Generation -> Revision] /\ latest'[g] = 0
        /\ \A h \in Generation : h # g => latest'[h] = latest[h]
    BY <2>1, BoundAssumption DEF Inv, TypeOK, Revision
  <2>5. closed' \in BOOLEAN
    BY <2>1 DEF Inv, TypeOK
  <2> QED BY <1>0, <2>1, <2>2, <2>3, <2>4, <2>5, CutInv
<1>2. ASSUME NEW g \in Generation, NEW u \in Session, DisconnectSession(g, u)
      PROVE  Inv'
  <2>1. /\ todo' = todo \ {SessionDisconnection(g, u)}
        /\ stream' = Cut({s \in Listed(g) : stream[s].session = {u}})
        /\ UNCHANGED <<database, latest, closed, active>>
    BY <1>2 DEF DisconnectSession
  <2>2. stream' \in [Stream -> StreamState] /\ \A t \in Stream : CutOff(t)
    BY <2>1, CutTyped DEF Inv
  <2>3. closed' \in BOOLEAN /\ latest' \in [Generation -> Revision]
    BY <2>1 DEF Inv, TypeOK
  <2> QED BY <1>0, <2>1, <2>2, <2>3, CutInv
<1>3. CASE Shutdown
  <2>1. /\ todo' = todo /\ stream' = Cut({s \in Stream : stream[s].listed}) /\ closed' \in BOOLEAN
        /\ latest' = [g \in Generation |-> IF Listed(g) = {} THEN latest[g] ELSE 0]
        /\ UNCHANGED <<database, active>>
    BY <1>3 DEF Shutdown
  <2>2. stream' \in [Stream -> StreamState] /\ \A t \in Stream : CutOff(t) /\ ~stream'[t].listed
    <3>1. stream' \in [Stream -> StreamState]
             /\ \A t \in Stream : CutOff(t) /\ (stream[t].listed => ~stream'[t].listed)
      BY <2>1, CutTyped DEF Inv
    <3> QED BY <3>1 DEF CutOff, Inv, TypeOK
  <2>3. latest' \in [Generation -> Revision]
           /\ \A h \in Generation : latest'[h] = latest[h] \/ latest'[h] = 0
    BY <2>1, BoundAssumption DEF Inv, TypeOK, Revision
  <2> QED BY <2>1, <2>2, <2>3, CutInv
<1> QED BY <1>1, <1>2, <1>3

LEMMA RestartInv ==
    ASSUME Inv, Restart
    PROVE  Inv'
<1>1. /\ todo' = {} /\ latest' = [g \in Generation |-> 0] /\ closed' = FALSE /\ active' = 0
      /\ account' = account /\ rev' = rev /\ revoked' = revoked /\ erased' = erased
      /\ stream' = [s \in Stream |-> IdleStream]
  BY DEF Restart, database
<1>2. \A s \in Stream : stream'[s] = IdleStream
  BY <1>1
<1>3. TypeOK'
  <2>1. stream' \in [Stream -> StreamState]
    BY <1>1, IdleTyped
  <2>2. latest' \in [Generation -> Revision]
    BY <1>1, BoundAssumption DEF Revision
  <2> QED BY <1>1, <2>1, <2>2 DEF Inv, TypeOK, StreamState
<1>4. Phases' /\ HintsSeen' /\ SeenDelivered' /\ HintUnderway' /\ ListedOpen'
  BY <1>2 DEF Phases, HintsSeen, SeenDelivered, HintUnderway, ListedOpen, IdleStream, Reading
<1>5. NothingAhead'
  BY <1>1, <1>2, BoundAssumption
     DEF Inv, TypeOK, NothingAhead, IdleStream, Generation, Revision
<1>6. HoldingStreams' = {}
  BY <1>2 DEF HoldingStreams, IdleStream, Holding, Reading
<1>7. IsFiniteSet(HoldingStreams') /\ LimiterExact'
  BY <1>1, <1>6, FS_EmptySet, BoundAssumption DEF LimiterExact, HoldingStreams
<1> QED BY <1>3, <1>4, <1>5, <1>7 DEF Inv

-----------------------------------------------------------------------------
(* handleStream *)

\* What the state q that a stream moves to owes the others: it is bound, its
\* hint and its last revision are known, and if it is open and reading it has
\* the newest revision or lost none on the way.
Sound(s, q) ==
    /\ q \in StreamState
    /\ q.pc # "idle" => q.gen \in Generation
    /\ q.pc \in {"idle", "connected", "acquired"} => ~q.listed /\ q.hint = 0
    /\ q.gen \in Generation => q.hint <= rev[q.gen] /\ q.last <= rev[q.gen]
    /\ q.listed => q.hint <= latest[q.gen] /\ ~q.shut
    /\ q.pc \in Reading /\ q.listed =>
          \/ rev[q.gen] = q.last
          \/ /\ stream[s].pc \in Reading /\ stream[s].listed /\ stream[s].gen = q.gen
             /\ rev[q.gen] \in {stream[s].last, stream[s].hint} => rev[q.gen] \in {q.last, q.hint}

LEMMA OneStreamInv ==
    ASSUME Inv, NEW s \in Stream, NEW q, Sound(s, q), stream[s].pc # "announce",
           stream' = [stream EXCEPT ![s] = q],
           UNCHANGED <<database, todo, latest, closed>>,
           IsFiniteSet(HoldingStreams'), LimiterExact'
    PROVE  Inv'
<1>1. account' = account /\ rev' = rev /\ revoked' = revoked /\ erased' = erased /\ todo' = todo /\ latest' = latest
         /\ closed' = closed
  BY DEF database
<1>2. /\ stream' \in [Stream -> StreamState] /\ stream'[s] = q
      /\ \A t \in Stream : t # s => stream'[t] = stream[t]
  BY Replaced DEF Inv, Sound
<1>3. active' \in Nat
  BY FS_CardinalityType DEF LimiterExact, HoldingStreams
<1>4. TypeOK'
  BY <1>1, <1>2, <1>3 DEF Inv, TypeOK, StreamState
<1>5. Phases' /\ ListedOpen' /\ HintsSeen' /\ NothingAhead'
  BY <1>1, <1>2 DEF Inv, Phases, ListedOpen, HintsSeen, NothingAhead, Sound
<1>6. ASSUME NEW t \in Stream, t # s, stream'[t].pc \in Reading, stream'[t].listed
      PROVE  LET g == stream[t].gen IN
             /\ latest[g] = rev[g] => rev[g] \in {stream'[t].last, stream'[t].hint}
             /\ \/ rev[g] \in {stream'[t].last, stream'[t].hint}
                \/ Publication(g, rev[g]) \in todo
                \/ \E a \in Stream : stream'[a].pc = "announce" /\ stream'[a].gen = g
                                        /\ stream'[a].last = rev[g]
  <2>1. stream'[t] = stream[t]
    BY <1>2, <1>6
  <2>2. \A a \in Stream : stream[a].pc = "announce" => stream'[a] = stream[a]
    BY <1>2
  <2> QED BY <1>6, <2>1, <2>2 DEF Inv, SeenDelivered, HintUnderway
<1>7. ASSUME q.pc \in Reading, q.listed
      PROVE  /\ latest[q.gen] = rev[q.gen] => rev[q.gen] \in {q.last, q.hint}
             /\ \/ rev[q.gen] \in {q.last, q.hint}
                \/ Publication(q.gen, rev[q.gen]) \in todo
                \/ \E a \in Stream : stream'[a].pc = "announce" /\ stream'[a].gen = q.gen
                                        /\ stream'[a].last = rev[q.gen]
  <2>1. CASE rev[q.gen] = q.last
    BY <2>1
  <2>2. CASE /\ stream[s].pc \in Reading /\ stream[s].listed /\ stream[s].gen = q.gen
             /\ rev[q.gen] \in {stream[s].last, stream[s].hint} => rev[q.gen] \in {q.last, q.hint}
    <3>1. \A a \in Stream : stream[a].pc = "announce" => stream'[a] = stream[a]
      BY <1>2
    <3> QED BY <2>2, <3>1 DEF Inv, SeenDelivered, HintUnderway
  <2> QED BY <1>7, <2>1, <2>2 DEF Sound
<1>8. SeenDelivered' /\ HintUnderway'
  BY <1>1, <1>2, <1>6, <1>7 DEF SeenDelivered, HintUnderway
<1> QED BY <1>4, <1>5, <1>8 DEF Inv

\* A stream that ends gives its slot back.
LEMMA EndedInv ==
    ASSUME Inv, NEW s \in Stream, stream[s].pc \in Holding, stream[s].pc # "announce",
           stream' = Ended(s), active' = active - 1,
           UNCHANGED <<database, todo, latest, closed>>
    PROVE  Inv'
<1>1. stream' = [stream EXCEPT ![s] = IdleStream]
  BY DEF Ended
<1>2. Sound(s, IdleStream)
  BY IdleTyped DEF Sound, IdleStream, Generation, Reading
<1>3. stream'[s].pc \notin Holding /\ \A t \in Stream : t # s => stream'[t] = stream[t]
  BY <1>1 DEF Inv, TypeOK, IdleStream, Holding, Reading
<1>4. /\ IsFiniteSet(HoldingStreams')
      /\ Cardinality(HoldingStreams') = Cardinality(HoldingStreams) - 1
  BY <1>3, HoldingShrinks DEF Inv
<1>5. LimiterExact'
  <2>1. active \in Nat /\ active = Cardinality(HoldingStreams) /\ active <= StreamLimit
    BY DEF Inv, TypeOK, LimiterExact, HoldingStreams
  <2> QED BY <1>4, <2>1, BoundAssumption DEF LimiterExact, HoldingStreams
<1> QED BY <1>1, <1>2, <1>4, <1>5, OneStreamInv

\* A stream that keeps its slot, or has none before and after.
LEMMA MovedInv ==
    ASSUME Inv, NEW s \in Stream, NEW q, Sound(s, q), stream[s].pc # "announce",
           q.pc \in Holding <=> stream[s].pc \in Holding,
           stream' = [stream EXCEPT ![s] = q],
           UNCHANGED <<database, todo, latest, closed, active>>
    PROVE  Inv'
<1>1. stream'[s] = q /\ \A t \in Stream : t # s => stream'[t] = stream[t]
  BY DEF Inv, TypeOK
<1>2. IsFiniteSet(HoldingStreams') /\ LimiterExact'
  BY <1>1, HoldingSame DEF Inv
<1> QED BY <1>2, OneStreamInv

LEMMA StreamTyped ==
    ASSUME Inv, NEW s \in Stream
    PROVE  stream[s] \in StreamState
BY DEF Inv, TypeOK, StreamState

\* From the request to the subscription.
LEMMA ConnectInv ==
    ASSUME Inv, NEW s \in Stream, NEW u \in Session, Connect(s, u)
    PROVE  Inv'
<1> DEFINE q == [IdleStream EXCEPT !.pc = "connected", !.gen = account.gen, !.session = {u}]
<1>1. stream[s].pc = "idle" /\ stream' = [stream EXCEPT ![s] = q]
         /\ UNCHANGED <<database, todo, latest, closed, active>> /\ account.gen \in Generation
  BY DEF Connect, Inv, TypeOK
<1>2. /\ q.pc = "connected" /\ q.gen = account.gen /\ ~q.listed /\ q.hint = 0 /\ ~q.shut
      /\ q.last = 0
  <2>1. IdleStream.listed = FALSE /\ IdleStream.hint = 0 /\ IdleStream.shut = FALSE
           /\ IdleStream.last = 0
    BY DEF IdleStream
  <2> QED BY <2>1, IdleTyped DEF StreamState
<1>3. q \in StreamState
  <2>1. account.gen \in 0 .. MaxGeneration /\ {u} \in SUBSET Session
    BY <1>1, BoundAssumption DEF Generation
  <2> QED BY <2>1, IdleTyped DEF StreamState
<1>4. rev[account.gen] \in Nat
  BY <1>1 DEF Inv, TypeOK, Revision
<1>5. Sound(s, q)
  BY <1>1, <1>2, <1>3, <1>4 DEF Sound, Reading
<1>6. q.pc \notin Holding /\ stream[s].pc \notin Holding
  BY <1>1, <1>2 DEF Holding, Reading
<1> QED BY <1>1, <1>5, <1>6, MovedInv

LEMMA AcquireInv ==
    ASSUME Inv, NEW s \in Stream, Acquire(s)
    PROVE  Inv'
<1> DEFINE q == [stream[s] EXCEPT !.pc = "acquired"]
<1>0. stream[s].pc = "connected" /\ UNCHANGED <<database, todo, latest, closed>>
  BY DEF Acquire
<1>1. CASE active < StreamLimit
  <2>1. active' = active + 1 /\ stream' = [stream EXCEPT ![s] = q]
    BY <1>1 DEF Acquire, Inv, TypeOK
  <2>2. /\ q \in StreamState /\ q.pc = "acquired" /\ q.gen = stream[s].gen /\ q.listed = stream[s].listed
        /\ q.hint = stream[s].hint /\ q.last = stream[s].last
    BY StreamTyped DEF StreamState, Holding
  <2>3. Sound(s, q)
    BY <1>0, <2>2 DEF Sound, Reading, Inv, Phases, NothingAhead
  <2>4. /\ stream[s].pc \notin Holding /\ stream'[s].pc \in Holding
        /\ \A t \in Stream : t # s => stream'[t] = stream[t]
    BY <1>0, <2>1, <2>2 DEF Inv, TypeOK, Holding, Reading
  <2>5. /\ IsFiniteSet(HoldingStreams')
        /\ Cardinality(HoldingStreams') = Cardinality(HoldingStreams) + 1
    BY <2>4, HoldingGrows DEF Inv
  <2>6. LimiterExact'
    <3>1. active \in Nat /\ active = Cardinality(HoldingStreams)
      BY DEF Inv, TypeOK, LimiterExact, HoldingStreams
    <3> QED BY <1>1, <2>1, <2>5, <3>1, BoundAssumption DEF LimiterExact, HoldingStreams
  <2> QED BY <1>0, <2>1, <2>3, <2>5, <2>6, OneStreamInv
<1>2. CASE ~(active < StreamLimit)
  <2>1. active' = active /\ stream' = [stream EXCEPT ![s] = IdleStream]
    BY <1>2 DEF Acquire
  <2>2. Sound(s, IdleStream)
    BY IdleTyped DEF Sound, IdleStream, Generation, Reading
  <2>3. IdleStream.pc \notin Holding /\ stream[s].pc \notin Holding
    BY <1>0 DEF IdleStream, Holding, Reading
  <2> QED BY <1>0, <2>1, <2>2, <2>3, MovedInv
<1> QED BY <1>1, <1>2

LEMMA SubscribeInv ==
    ASSUME Inv, NEW s \in Stream, Subscribe(s)
    PROVE  Inv'
<1> DEFINE q == [stream[s] EXCEPT !.pc = "subscribed", !.listed = ~closed, !.shut = closed]
<1>1. stream[s].pc = "acquired" /\ stream' = [stream EXCEPT ![s] = q]
         /\ UNCHANGED <<database, todo, latest, closed, active>>
  BY DEF Subscribe, Inv, TypeOK
<1>2. /\ q \in StreamState /\ q.pc = "subscribed" /\ q.gen = stream[s].gen /\ q.listed = ~closed
      /\ q.shut = closed /\ q.hint = stream[s].hint /\ q.last = stream[s].last
  BY StreamTyped DEF StreamState, Holding, Inv, TypeOK
<1>3. stream[s].hint = 0 /\ stream[s].gen \in Generation /\ latest[stream[s].gen] \in Nat
  BY <1>1 DEF Inv, Phases, TypeOK, Revision
<1>4. Sound(s, q)
  <2>1. q.listed => ~q.shut
    BY <1>2 DEF Inv, TypeOK
  <2>2. q.hint <= latest[q.gen]
    BY <1>2, <1>3
  <2>3. q.hint <= rev[q.gen] /\ q.last <= rev[q.gen] /\ q.gen \in Generation
    BY <1>2, <1>3 DEF Inv, NothingAhead
  <2> QED BY <1>2, <2>1, <2>2, <2>3 DEF Sound, Reading
<1>5. q.pc \in Holding /\ stream[s].pc \in Holding
  BY <1>1, <1>2 DEF Holding
<1> QED BY <1>1, <1>4, <1>5, MovedInv

\* The first read: it finds a revision, or makes one that it will announce.
LEMMA ReadRevisionInv ==
    ASSUME Inv, NEW s \in Stream, ReadRevision(s)
    PROVE  Inv'
<1> DEFINE g == stream[s].gen
<1>0. /\ stream[s].pc = "subscribed" /\ g \in Generation /\ rev[g] \in Revision
      /\ UNCHANGED <<account, revoked, erased, todo, latest, closed, active>>
  BY DEF ReadRevision, Inv, Phases, TypeOK
<1>1. CASE stream' = [stream EXCEPT ![s].pc = "first", ![s].last = rev[g]] /\ UNCHANGED rev
  <2> DEFINE q == [stream[s] EXCEPT !.pc = "first", !.last = rev[g]]
  <2>1. stream' = [stream EXCEPT ![s] = q]
    BY <1>1 DEF Inv, TypeOK
  <2>2. /\ q \in StreamState /\ q.pc = "first" /\ q.gen = g /\ q.listed = stream[s].listed
        /\ q.shut = stream[s].shut /\ q.hint = stream[s].hint /\ q.last = rev[g]
    BY <1>0, StreamTyped DEF StreamState, Holding, Reading
  <2>3. rev[g] \in Nat
    BY <1>0 DEF Revision
  <2>4. Sound(s, q)
    BY <1>0, <2>2, <2>3 DEF Sound, Inv, NothingAhead, HintsSeen, ListedOpen
  <2>5. q.pc \in Holding /\ stream[s].pc \in Holding
    BY <1>0, <2>2 DEF Holding, Reading
  <2> QED BY <1>0, <1>1, <2>1, <2>4, <2>5, MovedInv DEF database
<1>2. CASE /\ rev[g] < MaxRevision
           /\ rev' = [rev EXCEPT ![g] = @ + 1]
           /\ stream' = [stream EXCEPT ![s].pc = "announce", ![s].last = rev[g] + 1]
  <2> DEFINE q == [stream[s] EXCEPT !.pc = "announce", !.last = rev[g] + 1]
  <2>1. stream' = [stream EXCEPT ![s] = q]
    BY <1>2 DEF Inv, TypeOK
  <2>2. rev[g] \in Nat /\ rev[g] + 1 \in Revision
    BY <1>0, <1>2, BoundAssumption DEF Revision
  <2>3. /\ q \in StreamState /\ q.pc = "announce" /\ q.gen = g /\ q.listed = stream[s].listed
        /\ q.shut = stream[s].shut /\ q.hint = stream[s].hint /\ q.last = rev[g] + 1
    BY <2>2, StreamTyped DEF StreamState, Holding, Reading
  <2>4. /\ stream' \in [Stream -> StreamState] /\ stream'[s] = q
        /\ \A t \in Stream : t # s => stream'[t] = stream[t]
    BY <2>1, <2>3, Replaced DEF Inv
  <2>5. /\ rev' \in [Generation -> Revision] /\ rev'[g] = rev[g] + 1
        /\ \A h \in Generation : h # g => rev'[h] = rev[h]
    BY <1>0, <1>2, <2>2 DEF Inv, TypeOK
  <2>6. TypeOK'
    BY <1>0, <2>4, <2>5 DEF Inv, TypeOK, StreamState
  <2>7. Phases' /\ ListedOpen' /\ HintsSeen'
    <3>1. Phases'
      <4>1. q.pc = "announce" /\ q.gen \in Generation
        BY <1>0, <2>3
      <4> QED BY <4>1, <2>4 DEF Inv, Phases
    <3>2. ListedOpen'
      BY <2>3, <2>4 DEF Inv, ListedOpen
    <3>3. HintsSeen'
      <4>1. q.listed => q.hint <= latest[q.gen]
        BY <2>3 DEF Inv, HintsSeen
      <4> QED BY <1>0, <2>4, <4>1 DEF Inv, HintsSeen
    <3> QED BY <3>1, <3>2, <3>3
  <2>8. \A h \in Generation : /\ rev[h] \in Nat /\ rev'[h] \in Nat /\ rev[h] <= rev'[h]
                              /\ latest[h] \in Nat /\ latest[h] <= rev[h]
    BY <2>2, <2>5 DEF Inv, TypeOK, Revision, NothingAhead
  <2>9. NothingAhead'
    <3>1. \A h \in Generation : latest'[h] <= rev'[h]
      BY <1>0, <2>8
    <3>2. \A h \in Generation, r \in Revision : Publication(h, r) \in todo' => r <= rev'[h]
      BY <1>0, <2>8 DEF Inv, NothingAhead, Revision
    <3>3. ASSUME NEW t \in Stream, stream'[t].gen \in Generation
          PROVE  stream'[t].hint <= rev'[stream'[t].gen] /\ stream'[t].last <= rev'[stream'[t].gen]
      <4>1. stream[t].hint \in Nat /\ stream[t].last \in Nat
        BY StreamTyped DEF StreamState, Revision
      <4>2. CASE t = s
        BY <1>0, <4>1, <4>2, <2>2, <2>3, <2>4, <2>5 DEF Inv, NothingAhead
      <4>3. CASE t # s
        BY <3>3, <4>1, <4>3, <2>4, <2>8 DEF Inv, NothingAhead
      <4> QED BY <4>2, <4>3
    <3> QED BY <3>1, <3>2, <3>3 DEF NothingAhead
  <2>10. ASSUME NEW t \in Stream, stream'[t].pc \in Reading, stream'[t].listed
         PROVE  LET h == stream'[t].gen IN
                /\ latest[h] = rev'[h] => rev'[h] \in {stream'[t].last, stream'[t].hint}
                /\ \/ rev'[h] \in {stream'[t].last, stream'[t].hint}
                   \/ Publication(h, rev'[h]) \in todo
                   \/ \E a \in Stream : stream'[a].pc = "announce" /\ stream'[a].gen = h
                                           /\ stream'[a].last = rev'[h]
    <3>1. CASE stream'[t].gen = g
      <4>1. latest[g] # rev'[g]
        BY <1>0, <2>5, <2>8
      <4>2. stream'[s].pc = "announce" /\ stream'[s].gen = g /\ stream'[s].last = rev'[g]
        BY <2>3, <2>4, <2>5
      <4> QED BY <3>1, <4>1, <4>2
    <3>2. CASE stream'[t].gen # g
      <4>1. t # s /\ stream'[t] = stream[t] /\ stream[t].gen \in Generation
        BY <3>2, <2>3, <2>4, <2>10 DEF Inv, Phases, Reading
      <4>2. rev'[stream[t].gen] = rev[stream[t].gen]
        BY <4>1, <3>2, <2>5
      <4>3. \A a \in Stream : stream[a].pc = "announce" => stream'[a] = stream[a]
        BY <1>0, <2>4
      <4> QED BY <4>1, <4>2, <4>3, <2>10 DEF Inv, SeenDelivered, HintUnderway
    <3> QED BY <3>1, <3>2
  <2>11. SeenDelivered' /\ HintUnderway'
    BY <1>0, <2>10 DEF SeenDelivered, HintUnderway
  <2>12. IsFiniteSet(HoldingStreams') /\ LimiterExact'
    <3>1. \A t \in Stream : stream'[t].pc \in Holding <=> stream[t].pc \in Holding
      BY <1>0, <2>3, <2>4 DEF Holding, Reading
    <3> QED BY <1>0, <3>1, HoldingSame DEF Inv
  <2> QED BY <2>6, <2>7, <2>9, <2>11, <2>12 DEF Inv
<1> QED BY <1>1, <1>2 DEF ReadRevision

\* The writes.
LEMMA WriteInv ==
    ASSUME Inv, NEW s \in Stream, WriteFirst(s) \/ WriteHint(s)
    PROVE  Inv'
<1>1. CASE WriteFirst(s)
  <2> DEFINE q == [stream[s] EXCEPT !.pc = "serving"]
  <2>1. stream[s].pc = "first" /\ stream' = [stream EXCEPT ![s] = q]
           /\ UNCHANGED <<database, todo, latest, closed, active>>
    BY <1>1 DEF WriteFirst, Inv, TypeOK
  <2>2. /\ q \in StreamState /\ q.pc = "serving" /\ q.gen = stream[s].gen /\ q.listed = stream[s].listed
        /\ q.shut = stream[s].shut /\ q.hint = stream[s].hint /\ q.last = stream[s].last
    BY StreamTyped DEF StreamState, Holding, Reading
  <2>3. Sound(s, q)
    BY <2>1, <2>2 DEF Sound, Reading, Inv, Phases, NothingAhead, HintsSeen, ListedOpen
  <2>4. q.pc \in Holding /\ stream[s].pc \in Holding
    BY <2>1, <2>2 DEF Holding, Reading
  <2> QED BY <2>1, <2>3, <2>4, MovedInv
<1>2. CASE WriteHint(s)
  <2> DEFINE n == IF stream[s].hint > stream[s].last THEN stream[s].hint ELSE stream[s].last
             q == [stream[s] EXCEPT !.hint = 0, !.last = n]
  <2>1. stream[s].pc = "serving" /\ stream' = [stream EXCEPT ![s] = q]
           /\ UNCHANGED <<database, todo, latest, closed, active>>
    BY <1>2 DEF WriteHint, Inv, TypeOK
  <2>2. /\ stream[s].hint \in Nat /\ stream[s].last \in Nat /\ stream[s].hint \in Revision
        /\ stream[s].last \in Revision /\ 0 \in Revision
    BY StreamTyped, BoundAssumption DEF StreamState, Revision
  <2>3. /\ q \in StreamState /\ q.pc = "serving" /\ q.gen = stream[s].gen /\ q.listed = stream[s].listed
        /\ q.shut = stream[s].shut /\ q.hint = 0 /\ q.last = n
    BY <2>1, <2>2, StreamTyped DEF StreamState
  <2>4. /\ stream[s].gen \in Generation /\ rev[stream[s].gen] \in Nat /\ latest[stream[s].gen] \in Nat
        /\ stream[s].hint <= rev[stream[s].gen] /\ stream[s].last <= rev[stream[s].gen]
    BY <2>1 DEF Inv, Phases, TypeOK, Revision, NothingAhead
  <2>5. Sound(s, q)
    <3>1. rev[q.gen] \in {stream[s].last, stream[s].hint} => rev[q.gen] = q.last
      BY <2>2, <2>3, <2>4
    <3> QED BY <2>1, <2>2, <2>3, <2>4, <3>1 DEF Sound, Reading, Inv, ListedOpen
  <2>6. q.pc \in Holding /\ stream[s].pc \in Holding
    BY <2>1, <2>3 DEF Holding, Reading
  <2> QED BY <2>1, <2>5, <2>6, MovedInv
<1> QED BY <1>1, <1>2

LEMMA EndInv ==
    ASSUME Inv, NEW s \in Stream, Refuse(s) \/ SeeClosed(s) \/ Break(s)
    PROVE  Inv'
<1>1. stream[s].pc \in Holding /\ stream[s].pc # "announce"
  BY StreamTyped DEF Refuse, SeeClosed, Break, StreamState, Holding, Reading
<1>2. stream' = Ended(s) /\ active' = active - 1 /\ UNCHANGED <<database, todo, latest, closed>>
  BY DEF Refuse, SeeClosed, Break
<1> QED BY <1>1, <1>2, EndedInv

-----------------------------------------------------------------------------
(* The theorems *)

LEMMA InitInv == Init => Inv
<1> SUFFICES ASSUME Init PROVE Inv
  OBVIOUS
<1>1. \A s \in Stream : stream[s] = IdleStream
  BY DEF Init
<1>2. TypeOK
  <2>1. stream \in [Stream -> StreamState]
    BY IdleTyped DEF Init
  <2>2. latest \in [Generation -> Revision] /\ rev \in [Generation -> Revision]
    BY BoundAssumption DEF Init, Revision
  <2>3. account \in [gen : Generation, live : BOOLEAN]
    BY BoundAssumption DEF Init, Generation
  <2> QED BY <2>1, <2>2, <2>3 DEF Init, TypeOK, StreamState
<1>3. Phases /\ HintsSeen /\ SeenDelivered /\ HintUnderway /\ ListedOpen
  BY <1>1 DEF Phases, HintsSeen, SeenDelivered, HintUnderway, ListedOpen, IdleStream, Reading
<1>4. NothingAhead
  BY <1>1 DEF Init, NothingAhead, IdleStream, Generation
<1>5. HoldingStreams = {}
  BY <1>1 DEF HoldingStreams, IdleStream, Holding, Reading
<1>6. IsFiniteSet(HoldingStreams) /\ LimiterExact
  BY <1>5, FS_EmptySet, BoundAssumption DEF Init, LimiterExact, HoldingStreams
<1> QED BY <1>2, <1>3, <1>4, <1>6 DEF Inv

LEMMA NextInv == Inv /\ [Next]_vars => Inv'
<1> SUFFICES ASSUME Inv, [Next]_vars PROVE Inv'
  OBVIOUS
<1>1. CASE CommitChange \/ Restart
  BY <1>1, CommitChangeInv, RestartInv
<1>2. CASE \/ DeleteAccount \/ DeleteUnfinished \/ RecreateAccount
           \/ \E g \in Generation : ConfirmDeletion(g)
           \/ \E u \in Session : RevokeSession(u)
  BY <1>2, OtherHandlersInv
<1>3. CASE HubCall \/ Shutdown
  BY <1>3, PublishInv, DisconnectionInv DEF HubCall
<1>4. ASSUME NEW s \in Stream, Handle(s) \/ Break(s)
      PROVE  Inv'
  BY <1>4, AcquireInv, SubscribeInv, ReadRevisionInv, AnnounceOwnInv, WriteInv, EndInv DEF Handle
<1>5. ASSUME NEW s \in Stream, NEW u \in Session, Connect(s, u)
      PROVE  Inv'
  BY <1>5, ConnectInv
<1>6. CASE UNCHANGED vars
  BY <1>6, AsideInv DEF vars, database, Inv, TypeOK
<1> QED BY <1>1, <1>2, <1>3, <1>4, <1>5, <1>6 DEF Next

LEMMA Invariance == Spec => []Inv
BY InitInv, NextInv, PTL DEF Spec

(* Revisions, hints and counters are in range, whatever handlers, streams and
   restarts do (internal/server/hub.go, stream.go). *)
THEOREM TypeCorrect == Spec => []TypeOK
<1>1. Inv => TypeOK
  BY DEF Inv
<1> QED BY <1>1, Invariance, PTL

(* A stream whose channel is open has sent the newest revision, or has it in its
   channel, or it is about to be published: publish loses no hint, in whatever
   order handlers reach the hub (revisionHub.publish, handleStream). *)
THEOREM NoHintLost == Spec => []HintUnderway
<1>1. Inv => HintUnderway
  BY DEF Inv
<1> QED BY <1>1, Invariance, PTL

(* publish never sends on a closed channel, and no channel is closed twice
   (revisionHub.subscribe, disconnectMatching, shutdown). *)
THEOREM NoClosedChannelListed == Spec => []ListedOpen
<1>1. Inv => ListedOpen
  BY DEF Inv
<1> QED BY <1>1, Invariance, PTL

(* The limiter's count is the number of streams served and within the limit,
   over every way a stream ends (concurrentLimiter.acquire, release). *)
THEOREM LimiterCounts == Spec => []LimiterExact
<1>1. Inv => LimiterExact
  BY DEF Inv
<1> QED BY <1>1, Invariance, PTL
=============================================================================
