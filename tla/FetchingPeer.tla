---------------------------- MODULE FetchingPeer ----------------------------
(***************************************************************************)
(* A peer in the client role: its fetches, and what the jet daemon knows   *)
(* of them (lib/peerasync.cpp).                                            *)
(*                                                                         *)
(* A fetch is registered in m_fetchers, then the daemon is asked to        *)
(* establish it; the daemon notifies the current value of each matching    *)
(* state and then every change.  When the connection is lost, stop() tells *)
(* every fetch, and cancels the open requests; start(), called by          *)
(* resume(), asks the daemon to establish all known fetches again.         *)
(* Notifications are delivered to the callback under m_mtx_fetchers.       *)
(* One state with a counter as its value stands for all matching states.   *)
(*                                                                         *)
(* The application calls the peer from a thread of its own or from the     *)
(* callbacks, those of stop() included, at any time.  Open requests are    *)
(* abstracted to what OpenRequests shows of them: a callback is called     *)
(* exactly once, and the stop of any peer of the process cancels the       *)
(* requests of all of them.                                                *)
(***************************************************************************)
EXTENDS Integers, Sequences, SequencesExt

CONSTANTS
    MaxFetches,     \* bound: number of fetches
    MaxChanges,     \* bound: number of changes of the state
    MaxLosses,      \* bound: number of lost connections
    FetchCallback   \* {TRUE}: every fetch is added with a result callback; BOOLEAN: some

Fetches == 1 .. MaxFetches

Unknown == -2   \* values are 0 .. MaxChanges
Lost == -1

ASSUME FetchAssumption ==
    /\ MaxFetches \in Nat /\ MaxChanges \in Nat /\ MaxLosses \in Nat
    /\ FetchCallback \subseteq BOOLEAN

VARIABLES
    created,    \* m_sfetchId: fetch ids handed out
    fetchers,   \* keys of m_fetchers
    adding,     \* fetch between registration and sending, 0: none
    removing,   \* fetch between unregistration and sending of the removal, 0: none
    resuming,   \* is start() between connecting and restoring the fetches?
    open,       \* fetches whose result callback is waiting
    failed,     \* those whose message could not be sent
    running,    \* fetch whose callback the event loop is in, holding m_mtx_fetchers, 0: none
    news,       \* the value that callback has been given
    removed,    \* fetches removed by the application
    view,       \* the last thing a fetch callback has been told: a value, or that the
                \* connection was lost (status -1), or nothing yet
    conn,       \* is the socket connected?
    stopping,   \* progress of stop(): "no", "fetchers", "requests"
    telling,    \* the fetches stop() has still to tell
    losses,     \* number of lost connections
    toDaemon,   \* messages from the peer to the daemon
    toPeer,     \* messages from the daemon to the peer
    dfetches,   \* the fetches the daemon has established
    value,      \* the value of the state
    dropped     \* history: fetches unregistered by the error of a request while the
                \* daemon had established them, or was about to, over this connection

app == <<created, adding, removing, resuming, removed>>
callback == <<running, news, view>>
requests == <<open, failed, dropped>>
link == <<conn, stopping, telling, losses>>
daemon == <<dfetches, value>>
vars == <<app, fetchers, requests, callback, link, toDaemon, toPeer, daemon>>

\* A message about fetch f: a notification has the notified value, a request
\* says whether a result is wanted, a result says whether it was successful.
Msg(t, f, v) == [type |-> t, fetch |-> f, v |-> v]
Yes == 1
No == 0

Init ==
    /\ created = 0
    /\ fetchers = {}
    /\ adding = 0
    /\ removing = 0
    /\ resuming = FALSE
    /\ open = {}
    /\ failed = {}
    /\ running = 0
    /\ news = 0
    /\ removed = {}
    /\ view = [f \in Fetches |-> Unknown]
    /\ conn = TRUE
    /\ stopping = "no"
    /\ telling = {}
    /\ losses = 0
    /\ toDaemon = <<>>
    /\ toPeer = <<>>
    /\ dfetches = {}
    /\ value = 0
    /\ dropped = {}

-----------------------------------------------------------------------------
(* Operations of the application: in a thread of its own, which waits for   *)
(* m_mtx_fetchers while the callback of a notification is running, or in a  *)
(* callback.  The mutex is recursive: the status callbacks of stop() may do *)
(* all of this between StopNotifies of their fetch and the next step of     *)
(* stop().                                                                  *)

\* addFetchAsync, Peer::addFetch: createFetchId and registerFetch ...  An entry
\* that is inserted while stop() iterates over m_fetchers is visited or not.
AddRegister ==
    /\ running = 0
    /\ adding = 0 /\ removing = 0
    /\ created < MaxFetches
    /\ created' = created + 1
    /\ fetchers' = fetchers \cup {created + 1}
    /\ adding' = created + 1
    /\ telling' \in IF stopping = "fetchers" THEN {telling, telling \cup {created + 1}}
                    ELSE {telling}
    /\ UNCHANGED <<removing, resuming, removed, requests, callback, conn, stopping, losses,
                   toDaemon, toPeer, daemon>>

\* ... and then the request, with a result callback and an id (cb), or without.
AddSend(cb) ==
    /\ adding # 0
    /\ adding' = 0
    /\ open' = IF cb THEN open \cup {adding} ELSE open
    /\ failed' = IF cb /\ ~conn THEN failed \cup {adding} ELSE failed
    /\ toDaemon' = IF conn
                   THEN Append(toDaemon, Msg("fetch", adding, IF cb THEN Yes ELSE No))
                   ELSE toDaemon
    /\ UNCHANGED <<created, removing, resuming, removed, fetchers, dropped, callback, link,
                   toPeer, daemon>>

\* removeFetchAsync, called once the id is known and at most once for each
\* fetch: unregisterFetch ...
RemoveUnregister(f) ==
    /\ running = 0
    /\ adding = 0 /\ removing = 0
    /\ f <= created /\ f \notin removed
    /\ fetchers' = fetchers \ {f}
    /\ removed' = removed \cup {f}
    /\ removing' = f
    /\ UNCHANGED <<created, adding, resuming, requests, callback, link, toDaemon, toPeer, daemon>>

\* Faulty variant: the daemon is not told.
RemoveSendsNothing ==
    /\ removing # 0
    /\ removing' = 0
    /\ UNCHANGED <<created, adding, resuming, removed, fetchers, requests, callback, link,
                   toDaemon, toPeer, daemon>>

\* ... and then the request.
RemoveSend ==
    /\ removing # 0
    /\ removing' = 0
    /\ toDaemon' = IF conn THEN Append(toDaemon, Msg("unfetch", removing, No)) ELSE toDaemon
    /\ UNCHANGED <<created, adding, resuming, removed, fetchers, requests, callback, link,
                   toPeer, daemon>>

\* resume(): start() connects ...
Resume ==
    /\ ~conn /\ ~resuming
    /\ conn' = TRUE
    /\ resuming' = TRUE
    /\ UNCHANGED <<created, adding, removing, removed, fetchers, requests, callback, stopping,
                   telling, losses, toDaemon, toPeer, daemon>>

\* Faulty variant: fetches are not restored.
RestoreNothing(fs) == <<>>

\* restoreFetch for each of the fetches, without wanting a result.
Restore(fs) == SetToSeq({Msg("fetch", f, No) : f \in fs})

\* ... and asks the daemon for all known fetches, under m_mtx_fetchers.  That
\* the connection is lost again is logged.
StartRestores ==
    /\ resuming
    /\ running = 0
    /\ resuming' = FALSE
    /\ toDaemon' = IF conn THEN toDaemon \o Restore(fetchers) ELSE toDaemon
    /\ UNCHANGED <<created, adding, removing, removed, fetchers, requests, callback, link,
                   toPeer, daemon>>

-----------------------------------------------------------------------------
(* Results of requests *)

Sent(t, f) == \E k \in DOMAIN toDaemon : toDaemon[k].type = t /\ toDaemon[k].fetch = f

\* m_mtx_fetchers is held neither for the callback of a notification nor by stop().
MutexFree == running = 0 /\ stopping # "fetchers"

\* The result callbacks of open fetch requests fs: addFetchResultCb, or the
\* error branch of Peer::addFetch.  On error the fetches are unregistered.
AddResult(fs, ok) ==
    /\ open' = open \ fs
    /\ fetchers' = IF ok THEN fetchers ELSE fetchers \ fs
    /\ dropped' = IF ok THEN dropped
                  ELSE dropped \cup {f \in fs : f \in dfetches \/ Sent("fetch", f)}

\* AsyncRequest::clear(): the callbacks of all open requests are called with an
\* error.
Clear ==
    /\ AddResult(open, FALSE)
    /\ failed' = {}

\* stop() of another peer of the process, in its event loop or in the thread that
\* destroys it, cancels the open requests of this one too.
OtherPeerStops ==
    /\ MutexFree
    /\ open # {}
    /\ Clear
    /\ UNCHANGED <<app, callback, link, toDaemon, toPeer, daemon>>

-----------------------------------------------------------------------------
(* The event loop *)

\* The event loop is free to handle the next message of the daemon.
Receiving(type) ==
    /\ running = 0
    /\ conn /\ stopping = "no"
    /\ toPeer # <<>> /\ Head(toPeer).type = type

HandleResult ==
    /\ Receiving("result")
    /\ AddResult({Head(toPeer).fetch} \cap open, Head(toPeer).v = Yes)
    /\ failed' = failed \ {Head(toPeer).fetch}
    /\ toPeer' = Tail(toPeer)
    /\ UNCHANGED <<app, callback, link, toDaemon, daemon>>

\* Faulty variant: the error notifier survives the entry of its request.
HandleFailedKeepsNotifier(f, g) ==
    /\ MutexFree
    /\ f \in failed
    /\ g \in {0} \cup open
    /\ AddResult({g} \cap open, FALSE)
    /\ UNCHANGED <<app, failed, callback, link, toDaemon, toPeer, daemon>>

\* The error notifier of fetch request f, which could not be sent, fires.  It
\* completes the request whose id it reads: m_id of an AsyncRequest is read
\* after the object is gone (see OpenRequests), g = 0 stands for any number
\* that is not the id of an open request.
HandleFailed(f, g) ==
    /\ MutexFree
    /\ f \in failed
    /\ g \in {0} \cup open
    /\ AddResult({g} \cap open, FALSE)
    /\ failed' = failed \ {f, g}
    /\ UNCHANGED <<app, callback, link, toDaemon, toPeer, daemon>>

\* Faulty variant: the message is left in the buffer.
NotificationAgain ==
    LET m == Head(toPeer) IN
    /\ Receiving("notify")
    /\ running' = IF m.fetch \in fetchers THEN m.fetch ELSE 0
    /\ news' = IF m.fetch \in fetchers THEN m.v ELSE news
    /\ UNCHANGED <<app, fetchers, requests, view, link, toDaemon, toPeer, daemon>>

\* handleMessage: a notification for a fetch.  Its callback is looked up and
\* called under m_mtx_fetchers; a notification for an unknown fetch is dropped.
NotificationBegins ==
    LET m == Head(toPeer) IN
    /\ Receiving("notify")
    /\ running' = IF m.fetch \in fetchers THEN m.fetch ELSE 0
    /\ news' = IF m.fetch \in fetchers THEN m.v ELSE news
    /\ toPeer' = Tail(toPeer)
    /\ UNCHANGED <<app, fetchers, requests, view, link, toDaemon, daemon>>

\* The callback has returned; it may have removed its own fetch, if its id has
\* been returned to the application.
NotificationEnds(removes) ==
    /\ running # 0
    /\ running' = 0
    /\ view' = [view EXCEPT ![running] = news]
    /\ removes => running \notin removed \cup {adding}
    /\ fetchers' = IF removes THEN fetchers \ {running} ELSE fetchers
    /\ removed' = IF removes THEN removed \cup {running} ELSE removed
    /\ toDaemon' = IF removes /\ conn THEN Append(toDaemon, Msg("unfetch", running, No))
                   ELSE toDaemon
    /\ UNCHANGED <<created, adding, removing, resuming, requests, news, link, toPeer, daemon>>

\* receive() finds the connection lost: stop() disconnects.  The daemon forgets
\* the fetches of the peer.
ConnectionLost ==
    /\ running = 0
    /\ conn /\ stopping = "no"
    /\ losses < MaxLosses
    /\ losses' = losses + 1
    /\ conn' = FALSE
    /\ stopping' = "fetchers"
    /\ toDaemon' = <<>>
    /\ toPeer' = <<>>
    /\ dfetches' = {}
    /\ dropped' = {}
    /\ telling' = fetchers
    /\ UNCHANGED <<app, fetchers, open, failed, callback, value>>

\* stop() goes through the fetches, in any order, and calls their callbacks
\* with status -1, under m_mtx_fetchers.
StopNotifies(f) ==
    /\ stopping = "fetchers"
    /\ f \in fetchers \cap telling
    /\ telling' = telling \ {f}
    /\ view' = [view EXCEPT ![f] = Lost]
    /\ UNCHANGED <<app, fetchers, requests, running, news, conn, stopping, losses,
                   toDaemon, toPeer, daemon>>

\* stop() has told all of them ...
StopHasNotified ==
    /\ stopping = "fetchers"
    /\ fetchers \cap telling = {}
    /\ stopping' = "requests"
    /\ telling' = {}
    /\ UNCHANGED <<app, fetchers, requests, callback, conn, losses, toDaemon, toPeer, daemon>>

\* ... and cancels the open requests.
StopCancels ==
    /\ stopping = "requests"
    /\ stopping' = "no"
    /\ Clear
    /\ UNCHANGED <<app, callback, conn, telling, losses, toDaemon, toPeer, daemon>>

-----------------------------------------------------------------------------
(* The jet daemon *)

\* A fetch is established unless its id is in use: the current value is
\* notified before the result.
DaemonFetches ==
    LET m == Head(toDaemon)
        ok == m.fetch \notin dfetches
    IN
    /\ toDaemon # <<>> /\ m.type = "fetch"
    /\ dfetches' = dfetches \cup {m.fetch}
    /\ toPeer' = toPeer \o (IF ok THEN <<Msg("notify", m.fetch, value)>> ELSE <<>>)
                        \o (IF m.v = Yes
                            THEN <<Msg("result", m.fetch, IF ok THEN Yes ELSE No)>> ELSE <<>>)
    /\ toDaemon' = Tail(toDaemon)
    /\ UNCHANGED <<app, fetchers, requests, callback, link, value>>

DaemonUnfetches ==
    /\ toDaemon # <<>> /\ Head(toDaemon).type = "unfetch"
    /\ dfetches' = dfetches \ {Head(toDaemon).fetch}
    /\ toDaemon' = Tail(toDaemon)
    /\ UNCHANGED <<app, fetchers, requests, callback, link, toPeer, value>>

\* The owner changes the state: every established fetch is notified.
StateChanges ==
    /\ value < MaxChanges
    /\ value' = value + 1
    /\ toPeer' = toPeer \o SetToSeq({Msg("notify", f, value + 1) : f \in dfetches})
    /\ UNCHANGED <<app, fetchers, requests, callback, link, toDaemon, dfetches>>

-----------------------------------------------------------------------------
Application ==
    \/ AddRegister
    \/ \E cb \in FetchCallback : AddSend(cb)
    \/ \E f \in Fetches : RemoveUnregister(f)
    \/ RemoveSend
    \/ Resume
    \/ StartRestores

EventLoop ==
    \/ HandleResult
    \/ \E f \in Fetches, g \in 0 .. MaxFetches : HandleFailed(f, g)
    \/ NotificationBegins
    \/ \E b \in BOOLEAN : NotificationEnds(b)
    \/ \E f \in Fetches : StopNotifies(f)
    \/ StopHasNotified
    \/ StopCancels

Daemon == DaemonFetches \/ DaemonUnfetches

Next == Application \/ EventLoop \/ OtherPeerStops \/ ConnectionLost \/ Daemon \/ StateChanges

Spec == Init /\ [][Next]_vars

\* The event loop and the daemon process what is waiting for them, an operation
\* that has been begun goes on, and the application resumes a lost connection.
Fairness ==
    /\ WF_vars(EventLoop)
    /\ WF_vars(Daemon)
    /\ WF_vars(\E cb \in FetchCallback : AddSend(cb))
    /\ WF_vars(StartRestores)
    /\ WF_vars(Resume)

FairSpec == Spec /\ Fairness

-----------------------------------------------------------------------------
(* Properties *)

\* The variables stay in their types, and only known fetches are registered.
TypeOK ==
    /\ created \in 0 .. MaxFetches
    /\ fetchers \subseteq 1 .. created
    /\ adding \in 0 .. created
    /\ removing \in 0 .. created
    /\ resuming \in BOOLEAN
    /\ open \subseteq 1 .. created
    /\ failed \subseteq open
    /\ running \in 0 .. created
    /\ news \in 0 .. MaxChanges
    /\ removed \subseteq 1 .. created
    /\ view \in [Fetches -> Unknown .. MaxChanges]
    /\ conn \in BOOLEAN
    /\ stopping \in {"no", "fetchers", "requests"}
    /\ telling \subseteq 1 .. created
    /\ losses \in 0 .. MaxLosses
    /\ dfetches \subseteq 1 .. created
    /\ value \in 0 .. MaxChanges
    /\ dropped \subseteq 1 .. created

\* The peer knows fetch f, or the message that ends it is on its way.
Known(f) == f \in fetchers \/ removing = f \/ Sent("unfetch", f)

\* A fetch the daemon has established, and that no error of a request has
\* unregistered, is known to the peer, whoever adds, removes, resumes and stops
\* at the same time.  Otherwise the peer drops its notifications: such an error
\* comes from the stop of another peer, from stop() that goes on after resume(),
\* from an error notifier that fires after the fetch has been restored, or from
\* the daemon when the request follows the restoration.
EstablishedUnlessDropped == \A f \in dfetches \ dropped : Known(f)

Settled ==
    /\ conn /\ stopping = "no"
    /\ toDaemon = <<>> /\ toPeer = <<>>
    /\ adding = 0 /\ removing = 0 /\ ~resuming
    /\ open = {} /\ running = 0

\* When nothing is on its way, the daemon has established all fetches the peer
\* knows, over any number of lost connections and whatever the callbacks of
\* stop() have done, and each of them has been told the current value; the
\* daemon has no other fetches but those unregistered by the error of a request.
SettledUpToDate ==
    Settled => /\ fetchers \subseteq dfetches
               /\ dfetches \ fetchers \subseteq dropped
               /\ \A f \in fetchers : view[f] = value

\* A fetch that stays registered sees the last value in the end, whatever
\* happens to the connection.
ReachesLastValue ==
    \A f \in Fetches : f \in fetchers ~> f \notin fetchers \/ view[f] = value
=============================================================================
