---------------------------- MODULE RevisionStream ----------------------------
(***************************************************************************)
(* Revision hints to open streams: internal/server/hub.go and stream.go,   *)
(* the concurrent limiter of rate_limit.go, and the handlers of api.go and *)
(* auth.go that call the hub once their transaction has committed and the  *)
(* account lock is released.                                               *)
(*                                                                         *)
(* One account, through its generations.  A handler's call of the hub is a *)
(* message in todo: other handlers, other calls and a restart of the       *)
(* process may come between the commit and the call.                       *)
(***************************************************************************)
EXTENDS Integers, FiniteSets

CONSTANTS
    Stream,        \* stream requests the server may be serving
    Session,       \* sessions of each generation that open streams
    MaxGeneration, \* bound of recreations of the account
    Changing,      \* bound: the generations whose history changes (every one in the code)
    MaxRevision,   \* bound of the revisions of a generation
    MaxPending,    \* bound of handlers between their commit and their hub call
    StreamLimit    \* concurrent streams per account (4 in the code)

ASSUME BoundAssumption ==
    /\ MaxGeneration \in Nat \ {0} /\ MaxRevision \in Nat
    /\ MaxPending \in Nat \ {0} /\ StreamLimit \in Nat \ {0}
    /\ Changing \subseteq 1 .. MaxGeneration

Generation == 1 .. MaxGeneration
Revision == 0 .. MaxRevision

VARIABLES
    account,  \* the current generation, and whether it is live
    rev,      \* the stored revision of each generation
    revoked,  \* revoked sessions: pairs of generation and session
    erased,   \* generations whose DELETE has gone through to the end
    todo,     \* hub calls that handlers have yet to make
    latest,   \* revisionHub.latest per generation
    closed,   \* revisionHub.closed
    stream,   \* the stream requests, their subscriptions and channels
    active    \* concurrentLimiter.active

database == <<account, rev, revoked, erased>>
vars == <<database, todo, latest, closed, stream, active>>

\* listed: the subscription is in the hub's map; hint: the channel's one slot,
\* 0 when empty; shut: the channel is closed; last: lastSent.
IdleStream == [pc |-> "idle", gen |-> 0, session |-> {}, listed |-> FALSE,
               hint |-> 0, shut |-> FALSE, last |-> 0]

Publication(g, r) == [call |-> "publish", gen |-> g, revision |-> r]
Disconnection(g) == [call |-> "disconnect", gen |-> g]
SessionDisconnection(g, u) == [call |-> "disconnectSession", gen |-> g, session |-> u]

Message ==
    {Publication(g, r) : g \in Generation, r \in Revision}
        \cup {Disconnection(g) : g \in Generation}
        \cup {SessionDisconnection(g, u) : g \in Generation, u \in Session}

-----------------------------------------------------------------------------
(* Other handlers: the transaction, then the call *)

HandlerFree == Cardinality(todo) < MaxPending

\* A sync, bootstrap, resolution or history request that changed the revision.
CommitChange ==
    LET g == account.gen IN
    /\ HandlerFree /\ account.live /\ g \in Changing /\ rev[g] < MaxRevision
    /\ rev' = [rev EXCEPT ![g] = @ + 1]
    /\ todo' = todo \cup {Publication(g, rev[g] + 1)}
    /\ UNCHANGED <<account, revoked, erased, latest, closed, stream, active>>

\* handleLogout, handleRevokeDevice, a reused refresh token, a replaced session.
RevokeSession(u) ==
    LET g == account.gen IN
    /\ HandlerFree /\ account.live /\ <<g, u>> \notin revoked
    /\ revoked' = revoked \cup {<<g, u>>}
    /\ todo' = todo \cup {SessionDisconnection(g, u)}
    /\ UNCHANGED <<account, rev, erased, latest, closed, stream, active>>

\* handleDeleteAccount, deleteUserWithReceipt: the tombstone, then the purge.  The
\* request is of a session that is not revoked and need not have opened a stream.
DeleteAccount ==
    LET g == account.gen IN
    /\ HandlerFree /\ account.live
    /\ account' = [account EXCEPT !.live = FALSE]
    /\ erased' = erased \cup {g} /\ todo' = todo \cup {Disconnection(g)}
    /\ UNCHANGED <<rev, revoked, latest, closed, stream, active>>

\* The purge fails behind the tombstone - it runs under the request's context,
\* which ends when the client leaves - and the handler returns its error early:
\* the account is deleted and no call of the hub is owed.
DeleteUnfinished ==
    /\ account.live
    /\ account' = [account EXCEPT !.live = FALSE]
    /\ UNCHANGED <<rev, revoked, erased, todo, latest, closed, stream, active>>

\* requireAccountDeletion: the DELETE of a deleted generation, repeated with its
\* receipt, finishes the purge and disconnects, whoever has the account by now.
ConfirmDeletion(g) ==
    /\ HandlerFree /\ (g < account.gen \/ (g = account.gen /\ ~account.live))
    /\ erased' = erased \cup {g} /\ todo' = todo \cup {Disconnection(g)}
    /\ UNCHANGED <<account, rev, revoked, latest, closed, stream, active>>

RecreateAccount ==
    /\ ~account.live /\ account.gen < MaxGeneration
    /\ account' = [gen |-> account.gen + 1, live |-> TRUE]
    /\ UNCHANGED <<rev, revoked, erased, todo, latest, closed, stream, active>>

-----------------------------------------------------------------------------
(* The hub *)

\* Mutant of Announced: a full channel keeps its older hint.
AnnouncedUnlessFull(g, r) ==
    [s \in Stream |->
       IF stream[s].listed /\ stream[s].gen = g /\ r > latest[g] /\ stream[s].hint = 0
       THEN [stream[s] EXCEPT !.hint = r] ELSE stream[s]]

\* publish: a newer revision replaces whatever hint a channel still holds.
Announced(g, r) ==
    [s \in Stream |->
       IF stream[s].listed /\ stream[s].gen = g /\ r > latest[g]
       THEN [stream[s] EXCEPT !.hint = r] ELSE stream[s]]

Newest(g, r) == [latest EXCEPT ![g] = IF r > @ THEN r ELSE @]

Publish(g, r) ==
    /\ Publication(g, r) \in todo
    /\ todo' = todo \ {Publication(g, r)}
    /\ latest' = Newest(g, r)
    /\ stream' = Announced(g, r)
    /\ UNCHANGED <<database, closed, active>>

\* Mutant of Cut: a disconnected subscription stays in the map.
CutButListed(S) ==
    [s \in Stream |-> IF s \in S THEN [stream[s] EXCEPT !.shut = TRUE] ELSE stream[s]]

\* Mutant of Cut: subscriptions are dropped and their channels left open.
CutUnclosed(S) ==
    [s \in Stream |-> IF s \in S THEN [stream[s] EXCEPT !.listed = FALSE] ELSE stream[s]]

\* Close the channels of S and drop their subscriptions.
Cut(S) ==
    [s \in Stream |->
       IF s \in S THEN [stream[s] EXCEPT !.shut = TRUE, !.listed = FALSE] ELSE stream[s]]

Listed(g) == {s \in Stream : stream[s].listed /\ stream[s].gen = g}

\* disconnect
Disconnect(g) ==
    /\ Disconnection(g) \in todo
    /\ todo' = todo \ {Disconnection(g)}
    /\ stream' = Cut(Listed(g))
    /\ latest' = [latest EXCEPT ![g] = 0]
    /\ UNCHANGED <<database, closed, active>>

\* disconnectSession, disconnectDevice: disconnectMatching
DisconnectSession(g, u) ==
    /\ SessionDisconnection(g, u) \in todo
    /\ todo' = todo \ {SessionDisconnection(g, u)}
    /\ stream' = Cut({s \in Listed(g) : stream[s].session = {u}})
    /\ UNCHANGED <<database, latest, closed, active>>

\* shutdown
Shutdown ==
    /\ ~closed /\ closed' = TRUE
    /\ stream' = Cut({s \in Stream : stream[s].listed})
    /\ latest' = [g \in Generation |-> IF Listed(g) = {} THEN latest[g] ELSE 0]
    /\ UNCHANGED <<database, todo, active>>

\* The process ends and starts again: requests, calls and the hub are gone.
Restart ==
    /\ todo' = {} /\ latest' = [g \in Generation |-> 0] /\ closed' = FALSE
    /\ stream' = [s \in Stream |-> IdleStream] /\ active' = 0
    /\ UNCHANGED database

-----------------------------------------------------------------------------
(* handleStream *)

\* requireAuth
Connect(s, u) ==
    /\ stream[s].pc = "idle" /\ account.live /\ <<account.gen, u>> \notin revoked
    /\ stream' = [stream EXCEPT ![s] = [IdleStream EXCEPT !.pc = "connected",
                                          !.gen = account.gen, !.session = {u}]]
    /\ UNCHANGED <<database, todo, latest, closed, active>>

\* streamLimiter.acquire, or 429
Acquire(s) ==
    /\ stream[s].pc = "connected"
    /\ IF active < StreamLimit
       THEN active' = active + 1 /\ stream' = [stream EXCEPT ![s].pc = "acquired"]
       ELSE UNCHANGED active /\ stream' = [stream EXCEPT ![s] = IdleStream]
    /\ UNCHANGED <<database, todo, latest, closed>>

\* hub.subscribe
Subscribe(s) ==
    /\ stream[s].pc = "acquired"
    /\ stream' = [stream EXCEPT ![s].pc = "subscribed", ![s].listed = ~closed, ![s].shut = closed]
    /\ UNCHANGED <<database, todo, latest, closed, active>>

\* unsubscribe and release, deferred to every return of the handler.
Ended(s) == [stream EXCEPT ![s] = IdleStream]

Current(s) == account.live /\ account.gen = stream[s].gen

\* currentStreamRevision: HistoryForGeneration checks the generation, and not
\* the session again; a deadline may have moved the revision.
ReadRevision(s) ==
    LET g == stream[s].gen IN
    /\ stream[s].pc = "subscribed" /\ Current(s)
    /\ \/ /\ stream' = [stream EXCEPT ![s].pc = "first", ![s].last = rev[g]]
          /\ UNCHANGED rev
       \/ /\ g \in Changing /\ rev[g] < MaxRevision
          /\ rev' = [rev EXCEPT ![g] = @ + 1]
          /\ stream' = [stream EXCEPT ![s].pc = "announce", ![s].last = rev[g] + 1]
    /\ UNCHANGED <<account, revoked, erased, todo, latest, closed, active>>

\* The stream's own publication of the revision it has just made.
AnnounceOwn(s) ==
    LET g == stream[s].gen
        r == stream[s].last
    IN /\ stream[s].pc = "announce"
       /\ latest' = Newest(g, r)
       /\ stream' = [Announced(g, r) EXCEPT ![s].pc = "first"]
       /\ UNCHANGED <<database, todo, closed, active>>

\* Mutant of Refuse: the error return releases, and so does the deferred call.
RefuseReleasedTwice(s) ==
    /\ stream[s].pc = "subscribed" /\ ~Current(s)
    /\ stream' = Ended(s) /\ active' = active - 2
    /\ UNCHANGED <<database, todo, latest, closed>>

\* The account is deleted, or of another generation by now: 401.
Refuse(s) ==
    /\ stream[s].pc = "subscribed" /\ ~Current(s)
    /\ stream' = Ended(s) /\ active' = active - 1
    /\ UNCHANGED <<database, todo, latest, closed>>

WriteFirst(s) ==
    /\ stream[s].pc = "first"
    /\ stream' = [stream EXCEPT ![s].pc = "serving"]
    /\ UNCHANGED <<database, todo, latest, closed, active>>

\* Mutant of WriteHint: the successor of the last revision is taken for stale.
WriteHintBeyondNext(s) ==
    /\ stream[s].pc = "serving" /\ stream[s].hint # 0
    /\ stream' = [stream EXCEPT ![s].hint = 0,
                                ![s].last = IF stream[s].hint > @ + 1 THEN stream[s].hint ELSE @]
    /\ UNCHANGED <<database, todo, latest, closed, active>>

\* A hint arrives; it is written if it is news.
WriteHint(s) ==
    /\ stream[s].pc = "serving" /\ stream[s].hint # 0
    /\ stream' = [stream EXCEPT ![s].hint = 0,
                                ![s].last = IF stream[s].hint > @ THEN stream[s].hint ELSE @]
    /\ UNCHANGED <<database, todo, latest, closed, active>>

\* The channel is closed and drained.
SeeClosed(s) ==
    /\ stream[s].pc = "serving" /\ stream[s].hint = 0 /\ stream[s].shut
    /\ stream' = Ended(s) /\ active' = active - 1
    /\ UNCHANGED <<database, todo, latest, closed>>

\* Mutant of Break: an error return skips the limiter's release.
BreakUnreleased(s) ==
    /\ stream[s].pc \notin {"idle", "connected", "announce"}
    /\ stream' = Ended(s)
    /\ UNCHANGED <<database, todo, latest, closed, active>>

\* The client leaves, or a read or a write fails; publish itself cannot.
Break(s) ==
    /\ stream[s].pc \notin {"idle", "connected", "announce"}
    /\ stream' = Ended(s) /\ active' = active - 1
    /\ UNCHANGED <<database, todo, latest, closed>>

-----------------------------------------------------------------------------
Init ==
    /\ account = [gen |-> 1, live |-> TRUE]
    /\ rev = [g \in Generation |-> 0] /\ revoked = {} /\ erased = {} /\ todo = {}
    /\ latest = [g \in Generation |-> 0] /\ closed = FALSE
    /\ stream = [s \in Stream |-> IdleStream] /\ active = 0

HubCall ==
    \/ \E g \in Generation, r \in Revision : Publish(g, r)
    \/ \E g \in Generation : Disconnect(g)
    \/ \E g \in Generation, u \in Session : DisconnectSession(g, u)

Handle(s) ==
    \/ Acquire(s) \/ Subscribe(s) \/ ReadRevision(s) \/ AnnounceOwn(s) \/ Refuse(s)
    \/ WriteFirst(s) \/ WriteHint(s) \/ SeeClosed(s)

Next ==
    \/ CommitChange \/ DeleteAccount \/ DeleteUnfinished \/ RecreateAccount \/ Shutdown \/ Restart
    \/ \E g \in Generation : ConfirmDeletion(g)
    \/ \E u \in Session : RevokeSession(u)
    \/ HubCall
    \/ \E s \in Stream : Handle(s) \/ Break(s) \/ \E u \in Session : Connect(s, u)

(* A handler that has committed runs on to its hub call: what it may do first is
   write its reply, which the server's WriteTimeout ends.  A stream's goroutine
   is scheduled, and each of its writes ends within the deadline writeRevision
   sets.  Clients, commits and restarts owe nothing. *)
Fairness ==
    /\ \A g \in Generation : WF_vars(Disconnect(g))
    /\ \A g \in Generation, r \in Revision : WF_vars(Publish(g, r))
    /\ \A g \in Generation, u \in Session : WF_vars(DisconnectSession(g, u))
    /\ \A s \in Stream : WF_vars(Handle(s))

Spec == Init /\ [][Next]_vars /\ Fairness

-----------------------------------------------------------------------------
(* Properties *)

Reading == {"announce", "first", "serving"}
Holding == {"acquired", "subscribed"} \cup Reading

(* Revisions, hints and counters are in range. *)
TypeOK ==
    /\ account \in [gen : Generation, live : BOOLEAN]
    /\ rev \in [Generation -> Revision] /\ latest \in [Generation -> Revision]
    /\ revoked \subseteq Generation \X Session /\ erased \subseteq Generation /\ todo \subseteq Message
    /\ closed \in BOOLEAN /\ active \in Nat
    /\ stream \in [Stream -> [pc : {"idle", "connected"} \cup Holding, gen : 0 .. MaxGeneration,
                              session : SUBSET Session, listed : BOOLEAN, hint : Revision,
                              shut : BOOLEAN, last : Revision]]

(* No hint is lost: while a stream's channel is open, the newest revision of its
   generation is the one it sent last, or waits in its channel, or is about to
   be published.  The subscription comes before the read for this, and publish
   drops what latest has seen, whatever the order in which handlers reach it. *)
HintUnderway ==
    \A s \in Stream : LET g == stream[s].gen IN
        stream[s].pc \in Reading /\ stream[s].listed =>
            \/ rev[g] \in {stream[s].last, stream[s].hint}
            \/ Publication(g, rev[g]) \in todo
            \/ \E t \in Stream : stream[t].pc = "announce" /\ stream[t].gen = g
                                   /\ stream[t].last = rev[g]

(* Only open channels are in the hub's map: publish never sends on a closed
   channel and no channel is closed twice, which would stop the process. *)
ListedOpen == \A s \in Stream : stream[s].listed => ~stream[s].shut

(* The limiter counts the streams being served, exactly, and never more than the
   limit, over every way a stream can end. *)
LimiterExact ==
    active = Cardinality({s \in Stream : stream[s].pc \in Holding}) /\ active <= StreamLimit

Serving(s) == stream[s].pc = "serving"

Behind(s, r) == Serving(s) /\ stream[s].last < r /\ r <= rev[stream[s].gen]

(* No stream stays open behind a revision for good: "sends a `revision` event
   whenever ..." (web/openapi.yaml:724). *)
StreamsCatchUp == \A s \in Stream, r \in 1 .. MaxRevision : []<>~Behind(s, r)

(* No stream stays open whose generation's DELETE went through, at first or when
   it was repeated with its receipt: disconnect reaches the streams subscribed
   by then, and those that subscribe after it find the account gone. *)
ConfirmedDeletionEndsStreams ==
    \A s \in Stream : []<>~(Serving(s) /\ stream[s].gen \in erased)

\* No stream stays open under a revoked session: the stream test's "revoked
\* authenticated stream remained open".
RevocationEndsStreams ==
    \A s \in Stream : []<>~(Serving(s) /\ {stream[s].gen} \X stream[s].session \subseteq revoked)

\* No stream stays open on a deleted account: the deletion test's "account
\* deletion left an authenticated revision stream open".
DeletionEndsStreams == \A s \in Stream : []<>~(Serving(s) /\ ~Current(s))

(* A stream ends with the access it was opened under.  The two tests assert it of
   a revoked session and of a deleted account; only a behaviour that breaks both
   assertions refutes this: a stream that subscribes after its session was
   disconnected, and whose account's DELETE then fails behind its tombstone. *)
AccessEndsStreams == RevocationEndsStreams \/ DeletionEndsStreams
=============================================================================
