--------------------------- MODULE OpenRequests ---------------------------
(***************************************************************************)
(* The request layer of the jet peer: lib/asyncrequest.cpp and             *)
(* lib/syncrequest.cpp.                                                    *)
(*                                                                         *)
(* All peers of a process share one table of open requests (static members *)
(* m_sid, m_openRequestCbs, m_mtx_openRequestCbs).  Application threads    *)
(* issue requests over a peer's connection, the event loop of a peer       *)
(* dispatches responses and error notifiers, and whoever stops a peer      *)
(* cancels every request in the table.                                     *)
(*                                                                         *)
(* Atomicity: a critical section of the table mutex that calls no callback *)
(* is one step; clear() runs callbacks inside its critical section and is  *)
(* one step per callback, so the mutex is a variable.  The error path of   *)
(* execute() uses the table without the mutex: every access is a step.     *)
(***************************************************************************)
EXTENDS Integers, FiniteSets

CONSTANTS
    Threads,            \* application threads
    Loops,              \* threads running an event loop
    Peers,              \* PeerAsync objects of the process
    LoopOf,             \* [Peers -> Loops]: the event loop given to a peer
    MaxId,              \* bound: number of requests issued
    MaxStops,           \* bound: number of times a peer is stopped
    Kinds,              \* kinds of requests issued, among "async" and "sync"
    FailingKinds,       \* kinds whose message may exceed the size sendMessage accepts
    CallbacksReissue,   \* TRUE: a response callback may issue another request
    NoActor, NoPeer     \* stand for "nobody" and "no peer"

Actors == Threads \cup Loops
Ids == 1 .. MaxId

ASSUME ConstantsAssumption ==
    /\ LoopOf \in [Peers -> Loops]
    /\ Threads \cap Loops = {}
    /\ MaxId \in Nat
    /\ MaxStops \in Nat
    /\ Kinds \subseteq {"async", "sync"}
    /\ FailingKinds \subseteq Kinds
    /\ CallbacksReissue \in BOOLEAN
    /\ NoActor \notin Actors
    /\ NoPeer \notin Peers

VARIABLES
    mutex,      \* holder of m_mtx_openRequestCbs inside clear(), or NoActor
    sid,        \* m_sid
    open,       \* keys of m_openRequestCbs
    hasCb,      \* keys whose responseCallback is not empty
    notifier,   \* errorNotifier of an entry: "null" (none), "made", "set",
                \* "notified" (pending in the event loop), "fired"
    todo,       \* entries the loop of the running clear() has still to visit
    pc,         \* what an actor is doing
    cur,        \* m_id of the request object an actor is executing, 0: none
    hand,       \* what an event loop is working on: the request whose error notifier it
                \* runs, the identifier that notifier has read, or the callback it has
                \* copied out of the table
    req,        \* who issued a request, over which peer, of which kind
    flight,     \* a request's message: "none", "sent", "answered"
    connected,  \* a peer: "up", "lost" (stopped by its event loop), "gone" (destroyed)
    stops,      \* number of stops so far
    calls,      \* how often a request's callback has been called
    result,     \* what it was called with last
    crashed     \* the process dereferenced a null pointer

vars == <<mutex, sid, open, hasCb, notifier, todo, pc, cur, hand, req,
          flight, connected, stops, calls, result, crashed>>

table == <<sid, open, hasCb, notifier>>     \* the static members
ghost == <<calls, result>>                  \* what the user has been told
link  == <<flight, connected, stops>>

Outcomes == {"answer", "error", "cancel"}
PcValues == {"idle", "execute", "send", "create", "set", "notify", "wait",
             "notifier", "result", "callback", "stop", "clear"}
NoRequest == [actor |-> NoActor, peer |-> NoPeer, kind |-> "none"]
NoHand == [id |-> 0, outcome |-> "none"]

Init ==
    /\ mutex = NoActor
    /\ sid = 0
    /\ open = {}
    /\ hasCb = {}
    /\ notifier = [i \in Ids |-> "null"]
    /\ todo = {}
    /\ pc = [a \in Actors |-> "idle"]
    /\ cur = [a \in Actors |-> 0]
    /\ hand = [a \in Actors |-> NoHand]
    /\ req = [i \in Ids |-> NoRequest]
    /\ flight = [i \in Ids |-> "none"]
    /\ connected = [p \in Peers |-> "up"]
    /\ stops = 0
    /\ calls = [i \in Ids |-> 0]
    /\ result = [i \in Ids |-> "none"]
    /\ crashed = FALSE

-----------------------------------------------------------------------------
(* AsyncRequest::execute *)

\* Code between two steps of an actor: it moves to pc value v.
Goto(a, v) == pc' = [pc EXCEPT ![a] = v]

\* Bound: identifiers are left for the callbacks that are about to issue a request.
MayIssue == sid + Cardinality({a \in Actors : pc[a] = "execute"}) < MaxId

\* The critical section at the start of execute(): a new identifier, and the
\* callback in the table.  Afterwards the message is sent without the mutex.
\* A thread calls execute() when it likes, an event loop from a callback.
ExecuteRegister(a, p, k) ==
    /\ \/ a \in Threads /\ pc[a] = "idle" /\ MayIssue
       \/ pc[a] = "execute" /\ k = "async"
    /\ connected[p] # "gone"
    /\ sid < MaxId
    /\ mutex = NoActor
    /\ sid' = sid + 1
    /\ open' = open \cup {sid + 1}
    /\ hasCb' = hasCb \cup {sid + 1}
    /\ cur' = [cur EXCEPT ![a] = sid + 1]
    /\ req' = [req EXCEPT ![sid + 1] = [actor |-> a, peer |-> p, kind |-> k]]
    /\ Goto(a, "send")
    /\ UNCHANGED <<mutex, notifier, todo, hand, link, ghost, crashed>>

\* execute() returns: an asynchronous request object is destroyed, a
\* synchronous one waits for its promise (SyncRequest::executeSync).
ExecuteReturns(a) ==
    IF req[cur[a]].kind = "sync"
    THEN Goto(a, "wait") /\ UNCHANGED cur
    ELSE Goto(a, "idle") /\ cur' = [cur EXCEPT ![a] = 0]

\* sendMessage() succeeds.
ExecuteSend(a) ==
    /\ pc[a] = "send"
    /\ connected[req[cur[a]].peer] = "up"
    /\ flight' = [flight EXCEPT ![cur[a]] = "sent"]
    /\ ExecuteReturns(a)
    /\ UNCHANGED <<mutex, table, todo, hand, req, connected, stops, ghost, crashed>>

\* sendMessage() throws: the socket is not connected, or the message is too big.
ExecuteSendFails(a) ==
    /\ pc[a] = "send"
    /\ \/ connected[req[cur[a]].peer] # "up"
       \/ req[cur[a]].kind \in FailingKinds
    /\ Goto(a, "create")
    /\ UNCHANGED <<mutex, table, todo, cur, hand, req, link, ghost, crashed>>

\* m_openRequestCbs[m_id].errorNotifier = new Notifier, without the mutex.
\* operator[] creates an entry with an empty callback if there is none.
CreateErrorNotifier(a) ==
    /\ pc[a] = "create"
    /\ open' = open \cup {cur[a]}
    /\ notifier' = [notifier EXCEPT ![cur[a]] = "made"]
    /\ Goto(a, "set")
    /\ UNCHANGED <<mutex, sid, hasCb, todo, cur, hand, req, link, ghost, crashed>>

\* m_openRequestCbs[m_id].errorNotifier->set(...), without the mutex.  When the
\* entry has been removed meanwhile, errorNotifier is null.
SetErrorNotifier(a) ==
    /\ pc[a] = "set"
    /\ open' = open \cup {cur[a]}
    /\ IF notifier[cur[a]] = "null"
       THEN crashed' = TRUE /\ UNCHANGED <<notifier, pc>>
       ELSE /\ notifier' = [notifier EXCEPT ![cur[a]] = "set"]
            /\ Goto(a, "notify")
            /\ UNCHANGED crashed
    /\ UNCHANGED <<mutex, sid, hasCb, todo, cur, hand, req, link, ghost>>

\* Faulty variant: the notifier is set up but never notified.
NotifyForgotten(a) ==
    /\ pc[a] = "notify"
    /\ ExecuteReturns(a)
    /\ UNCHANGED <<mutex, table, todo, hand, req, link, ghost, crashed>>

\* m_openRequestCbs[m_id].errorNotifier->notify(), without the mutex.
NotifyErrorNotifier(a) ==
    /\ pc[a] = "notify"
    /\ open' = open \cup {cur[a]}
    /\ IF notifier[cur[a]] = "null"
       THEN crashed' = TRUE /\ UNCHANGED <<notifier, pc, cur>>
       ELSE /\ notifier' = [notifier EXCEPT ![cur[a]] = "notified"]
            /\ ExecuteReturns(a)
            /\ UNCHANGED crashed
    /\ UNCHANGED <<mutex, sid, hasCb, todo, hand, req, link, ghost>>

-----------------------------------------------------------------------------
(* AsyncRequest::handleResult, in the event loop *)

\* Faulty variant: the notifier outlives its entry.
EraseKeepsNotifier(ids, n) ==
    /\ open' = open \ ids
    /\ hasCb' = hasCb \ ids
    /\ notifier' = n

\* Erasing an entry also destroys its notifier.
Erase(ids, n) ==
    /\ open' = open \ ids
    /\ hasCb' = hasCb \ ids
    /\ notifier' = [i \in Ids |-> IF i \in ids THEN "null" ELSE n[i]]

\* Faulty variant: the entry stays in the table.
HandleResultKeepsEntry(l, i, o, n) ==
    /\ mutex = NoActor
    /\ Erase({}, n)
    /\ IF i \in hasCb
       THEN Goto(l, "callback") /\ hand' = [hand EXCEPT ![l] = [id |-> i, outcome |-> o]]
       ELSE Goto(l, "idle") /\ hand' = [hand EXCEPT ![l] = NoHand]

\* The critical section of handleResult() for a response with identifier i:
\* the callback is copied and its entry erased; the callback is called later.
\* Calling an empty callback throws, which is caught and ignored.
HandleResult(l, i, o, n) ==
    /\ mutex = NoActor
    /\ Erase({i}, n)
    /\ IF i \in hasCb
       THEN Goto(l, "callback") /\ hand' = [hand EXCEPT ![l] = [id |-> i, outcome |-> o]]
       ELSE Goto(l, "idle") /\ hand' = [hand EXCEPT ![l] = NoHand]

\* A response of the daemon arrives at the event loop of the peer.
HandleResponse(l, i) ==
    /\ pc[l] = "idle"
    /\ flight[i] = "answered"
    /\ LoopOf[req[i].peer] = l
    /\ HandleResult(l, i, "answer", notifier)
    /\ flight' = [flight EXCEPT ![i] = "none"]
    /\ UNCHANGED <<mutex, sid, todo, cur, req, connected, stops, ghost, crashed>>

\* The event loop starts the callback of the error notifier of entry i.  The
\* entry, and with it the request, may be completed while it runs.
NotifierFires(l, i) ==
    /\ pc[l] = "idle"
    /\ notifier[i] = "notified"
    /\ LoopOf[req[i].peer] = l
    /\ notifier' = [notifier EXCEPT ![i] = "fired"]
    /\ hand' = [hand EXCEPT ![l] = [id |-> i, outcome |-> "error"]]
    /\ Goto(l, "notifier")
    /\ UNCHANGED <<mutex, sid, open, hasCb, todo, cur, req, link, ghost, crashed>>

\* The request object of a synchronous request is still on the stack of its
\* thread.
Alive(i) ==
    LET t == req[i].actor
    IN  cur[t] = i /\ pc[t] \in {"send", "create", "set", "notify", "wait"}

\* What m_id of the captured request object is when the notifier of request i
\* reads it, without the mutex.  A SyncRequest exists until its thread has got
\* its result.  An AsyncRequest is a local variable of the function that called
\* execute(): m_id is read from memory that has been given back.
NotifierReads(i) ==
    IF req[i].kind = "sync" /\ Alive(i) THEN {i} ELSE Ids \cup {0}

\* response[jsonrpc::ID] = m_id
ReadId(l, x) ==
    /\ pc[l] = "notifier"
    /\ x \in NotifierReads(hand[l].id)
    /\ hand' = [hand EXCEPT ![l] = [id |-> x, outcome |-> "error"]]
    /\ Goto(l, "result")
    /\ UNCHANGED <<mutex, table, todo, cur, req, link, ghost, crashed>>

\* handleResult(response) of the error notifier.
HandleError(l) ==
    /\ pc[l] = "result"
    /\ HandleResult(l, hand[l].id, "error", notifier)
    /\ UNCHANGED <<mutex, sid, todo, cur, req, link, ghost, crashed>>

\* A response callback is called for request i.
CallCallback(i, o) ==
    /\ calls' = [calls EXCEPT ![i] = @ + 1]
    /\ result' = [result EXCEPT ![i] = o]

\* The event loop calls the callback copied by handleResult().  The callback
\* of an asynchronous request may issue another request.
RunCallback(l) ==
    /\ pc[l] = "callback"
    /\ CallCallback(hand[l].id, hand[l].outcome)
    /\ hand' = [hand EXCEPT ![l] = NoHand]
    /\ \/ Goto(l, "idle")
       \/ CallbacksReissue /\ req[hand[l].id].kind = "async" /\ MayIssue /\ Goto(l, "execute")
    /\ UNCHANGED <<mutex, table, todo, cur, req, link, crashed>>

-----------------------------------------------------------------------------
(* SyncRequest *)

\* Faulty variant: the destructor of AsyncRequest, which removes nothing.
SyncRequestReturnsWithoutErase(t) ==
    /\ pc[t] = "wait"
    /\ calls[cur[t]] > 0
    /\ Goto(t, "idle")
    /\ cur' = [cur EXCEPT ![t] = 0]
    /\ UNCHANGED <<mutex, table, todo, hand, req, link, ghost, crashed>>

\* f.get() returns once the callback has set the promise; ~SyncRequest removes
\* whatever the table holds for the identifier.
SyncRequestReturns(t) ==
    /\ pc[t] = "wait"
    /\ calls[cur[t]] > 0
    /\ mutex = NoActor
    /\ Erase({cur[t]}, notifier)
    /\ Goto(t, "idle")
    /\ cur' = [cur EXCEPT ![t] = 0]
    /\ UNCHANGED <<mutex, sid, todo, hand, req, link, ghost, crashed>>

-----------------------------------------------------------------------------
(* PeerAsync::stop, with AsyncRequest::clear, and PeerAsync::start *)

\* Messages in flight over the connection of peer p are gone when it is closed.
DropMessages(p) ==
    flight' = [i \in Ids |-> IF req[i].peer = p THEN "none" ELSE flight[i]]

\* stop() begins with disconnect(), and ends with clear().
StopBegin(a, p, c) ==
    /\ pc[a] = "idle"
    /\ stops < MaxStops
    /\ stops' = stops + 1
    /\ connected' = [connected EXCEPT ![p] = c]
    /\ DropMessages(p)
    /\ Goto(a, "stop")
    /\ UNCHANGED <<mutex, table, todo, cur, hand, req, ghost, crashed>>

\* receive() sees an error or a closed socket, in the event loop of the peer.
ConnectionLost(l, p) ==
    /\ l = LoopOf[p]
    /\ connected[p] = "up"
    /\ StopBegin(l, p, "lost")

\* An application thread destroys the peer when no one is using it.
DestroyPeer(t, p) ==
    /\ connected[p] # "gone"
    /\ \A a \in Actors : cur[a] # 0 => req[cur[a]].peer # p
    /\ StopBegin(t, p, "gone")

\* clear() takes the mutex and starts to iterate over the whole table.
ClearLock(a) ==
    /\ pc[a] = "stop"
    /\ mutex = NoActor
    /\ mutex' = a
    /\ todo' = open
    /\ Goto(a, "clear")
    /\ UNCHANGED <<table, cur, hand, req, link, ghost, crashed>>

\* Faulty variant: requests are dropped without telling anybody.
ClearCallSilently(a, i) ==
    /\ pc[a] = "clear"
    /\ i \in todo
    /\ todo' = todo \ {i}
    /\ UNCHANGED <<mutex, table, pc, cur, hand, req, link, ghost, crashed>>

\* clear() calls the callback of the next entry, unless it is empty.  A
\* callback that issues a request needs the mutex its caller holds.
ClearCall(a, i) ==
    /\ pc[a] = "clear"
    /\ i \in todo
    /\ todo' = todo \ {i}
    /\ IF i \in hasCb
       THEN /\ CallCallback(i, "cancel")
            /\ \/ UNCHANGED pc
               \/ CallbacksReissue /\ req[i].kind = "async" /\ MayIssue /\ Goto(a, "execute")
       ELSE UNCHANGED <<pc, ghost>>
    /\ UNCHANGED <<mutex, table, cur, hand, req, link, crashed>>

\* The table is emptied and the mutex released.
ClearEnd(a) ==
    /\ pc[a] = "clear"
    /\ todo = {}
    /\ Erase(Ids, notifier)
    /\ mutex' = NoActor
    /\ Goto(a, "idle")
    /\ UNCHANGED <<sid, todo, cur, hand, req, link, ghost, crashed>>

\* Faulty variant: a new connection begins with new identifiers.
StartResetsIds(t, p) ==
    /\ pc[t] = "idle"
    /\ connected[p] # "up"
    /\ connected' = [connected EXCEPT ![p] = "up"]
    /\ sid' = 0
    /\ UNCHANGED <<mutex, open, hasCb, notifier, todo, pc, cur, hand, req, flight, stops,
                   ghost, crashed>>

\* start(): resume() after a lost connection, or the constructor of a new peer.
Start(t, p) ==
    /\ pc[t] = "idle"
    /\ connected[p] # "up"
    /\ connected' = [connected EXCEPT ![p] = "up"]
    /\ UNCHANGED <<mutex, table, todo, pc, cur, hand, req, flight, stops, ghost, crashed>>

\* The jet daemon answers a request, in any order.
DaemonAnswers(i) ==
    /\ flight[i] = "sent"
    /\ flight' = [flight EXCEPT ![i] = "answered"]
    /\ UNCHANGED <<mutex, table, todo, pc, cur, hand, req, connected, stops, ghost, crashed>>

-----------------------------------------------------------------------------
ThreadStep(t) ==
    \/ \E p \in Peers : Start(t, p) \/ DestroyPeer(t, p)
    \/ SyncRequestReturns(t)

Dispatch(l) ==
    \/ \E i \in Ids : HandleResponse(l, i) \/ NotifierFires(l, i)
    \/ \E x \in Ids \cup {0} : ReadId(l, x)
    \/ HandleError(l)
    \/ RunCallback(l)

LoopStep(l) == Dispatch(l) \/ \E p \in Peers : ConnectionLost(l, p)

\* setStateValueAsync, callMethodAsync, getAsync, authenticateAsync, infoAsync and
\* the like: they differ in the parameters of the request only.
AsyncOperation(a) == "async" \in Kinds /\ \E p \in Peers : ExecuteRegister(a, p, "async")

\* Peer::authenticate, info, config, callMethod, get, setStateValue and the like.
SyncOperation(a) == "sync" \in Kinds /\ \E p \in Peers : ExecuteRegister(a, p, "sync")

ActorStep(a) ==
    \/ AsyncOperation(a)
    \/ SyncOperation(a)
    \/ ExecuteSend(a)
    \/ ExecuteSendFails(a)
    \/ CreateErrorNotifier(a)
    \/ SetErrorNotifier(a)
    \/ NotifyErrorNotifier(a)
    \/ ClearLock(a)
    \/ \E i \in Ids : ClearCall(a, i)
    \/ ClearEnd(a)

Next ==
    /\ ~crashed
    /\ \/ \E t \in Threads : ThreadStep(t)
       \/ \E l \in Loops : LoopStep(l)
       \/ \E a \in Actors : ActorStep(a)
       \/ \E i \in Ids : DaemonAnswers(i)

Spec == Init /\ [][Next]_vars

\* What an actor does once it has begun, as opposed to what the application or
\* the network may choose to do (a new request, a stop, a reconnect).
Continue(a) ==
    /\ ~crashed
    /\ \/ pc[a] = "execute" /\ AsyncOperation(a)
       \/ ExecuteSend(a) \/ ExecuteSendFails(a)
       \/ CreateErrorNotifier(a) \/ SetErrorNotifier(a) \/ NotifyErrorNotifier(a)
       \/ ClearLock(a) \/ (\E i \in Ids : ClearCall(a, i)) \/ ClearEnd(a)

\* Started code goes on, a running event loop dispatches what is pending and
\* the daemon answers every request it got.  Stops are bounded by MaxStops, so
\* that weak fairness of a mutex acquisition is enough.
Fairness ==
    /\ \A a \in Actors : WF_vars(Continue(a))
    /\ \A t \in Threads : WF_vars(~crashed /\ SyncRequestReturns(t))
    /\ \A l \in Loops : WF_vars(~crashed /\ Dispatch(l))
    /\ \A i \in Ids : WF_vars(~crashed /\ DaemonAnswers(i))

FairSpec == Spec /\ Fairness

-----------------------------------------------------------------------------
(* Properties *)

Requests == [actor : Actors, peer : Peers, kind : {"async", "sync"}]

\* The variables stay in their types, and only an entry of the table has a
\* callback or an error notifier.
TypeOK ==
    /\ mutex \in Actors \cup {NoActor}
    /\ sid \in 0 .. MaxId
    /\ open \subseteq Ids
    /\ hasCb \subseteq open
    /\ notifier \in [Ids -> {"null", "made", "set", "notified", "fired"}]
    /\ \A i \in Ids \ open : notifier[i] = "null"
    /\ todo \subseteq Ids
    /\ pc \in [Actors -> PcValues]
    /\ cur \in [Actors -> Ids \cup {0}]
    /\ hand \in [Actors -> [id : Ids \cup {0}, outcome : Outcomes] \cup {NoHand}]
    /\ req \in [Ids -> Requests \cup {NoRequest}]
    /\ flight \in [Ids -> {"none", "sent", "answered"}]
    /\ connected \in [Peers -> {"up", "lost", "gone"}]
    /\ stops \in 0 .. MaxStops
    /\ calls \in [Ids -> Nat]
    /\ result \in [Ids -> Outcomes \cup {"none"}]
    /\ crashed \in BOOLEAN

\* The callback of request i is in the table and nobody has called it: the
\* clear() that is running, if any, has still to visit it.
Waiting(i) == i \in hasCb /\ (mutex = NoActor \/ i \in todo)

\* An event loop has taken the callback of request i out of the table.
InHand(i, l) == pc[l] = "callback" /\ hand[l].id = i

\* The callback of request i is in exactly one place: waiting in the table, in
\* the hands of one event loop, or called, once.
OnePlace(i) ==
    \/ /\ Waiting(i)
       /\ calls[i] = 0
       /\ \A a \in Actors : ~InHand(i, a)
    \/ /\ ~Waiting(i)
       /\ calls[i] = 0
       /\ \E l \in Loops : InHand(i, l) /\ \A a \in Actors \ {l} : ~InHand(i, a)
    \/ /\ ~Waiting(i)
       /\ calls[i] = 1
       /\ \A a \in Actors : ~InHand(i, a)

\* No request is lost and none is completed twice: at any moment the callback
\* of every issued request is in exactly one place.  Responses, error notifiers,
\* ~SyncRequest and clear() of any peer compete for it.
ExactlyOnce == \A i \in 1 .. sid : OnePlace(i)

\* The promise of a SyncRequest outlives every callback that sets it: as long as
\* the table has an entry for the request, or its callback is in the hands of an
\* event loop, the thread that owns the object is still inside executeSync(),
\* whichever peer's clear(), response or error notifier completes it.  This is
\* about the callback only: an error notifier that is running when clear()
\* completes its request does read m_id of an object that is gone (NotifierReads).
SyncObjectAlive ==
    \A i \in Ids :
        req[i].kind = "sync" /\ (i \in open \/ \E l \in Loops : InHand(i, l))
            => Alive(i)

\* Unissued identifiers are unused, issued ones are described by req, and the
\* outcome of a request is known exactly when its callback has been called.
Bookkeeping ==
    /\ \A i \in Ids : i > sid =>
          i \notin open /\ calls[i] = 0 /\ flight[i] = "none"
    /\ \A i \in 1 .. sid : req[i] \in Requests
    /\ \A i \in Ids : result[i] = "none" <=> calls[i] = 0

\* An actor inside execute() or executeSync() works on a request of its own,
\* and only an event loop has a callback in its hands.
ActorsOK ==
    \A a \in Actors :
        /\ pc[a] \in {"send", "create", "set", "notify", "wait"} =>
              cur[a] \in 1 .. sid /\ req[cur[a]].actor = a
        /\ pc[a] = "wait" => req[cur[a]].kind = "sync"
        /\ pc[a] \in {"notifier", "callback"} => a \in Loops /\ hand[a].id \in 1 .. sid

\* The mutex is held by the actor that iterates over the table.
MutexOK ==
    /\ mutex = NoActor => todo = {}
    /\ \A a \in Actors : pc[a] = "clear" => mutex = a

\* ExactlyOnce with what makes it inductive.
IndInv ==
    TypeOK /\ Bookkeeping /\ ActorsOK /\ MutexOK /\ ExactlyOnce /\ SyncObjectAlive

\* Callers see the abstract life of a request: see RequestLifecycle.
Lifecycle == INSTANCE RequestLifecycle WITH issued <- sid
ImplementsLifecycle == Lifecycle!Spec

\* The process is beyond help: it has dereferenced a null pointer, or a callback
\* called by clear() has issued a request and waits for the mutex of clear()
\* (who may wait for whom is the subject of Mutexes).
Stuck == crashed \/ \E a \in Actors : mutex = a /\ pc[a] = "execute"

\* A request that has been sent is completed: by its response, or by the stop
\* that lost the response.
SentCompletes == \A i \in Ids : flight[i] = "sent" ~> calls[i] > 0 \/ Stuck

\* executeSync() returns, sent or not, whatever other peers are stopped.
SyncReturns == \A t \in Threads : pc[t] = "wait" ~> pc[t] # "wait" \/ Stuck

-----------------------------------------------------------------------------
(* What a comment of the code says, and the code does not do *)

\* peerasync.hpp: "called on completion or error": the callback of a request
\* whose message could not be sent is called in the end.
SendErrorReported == \A i \in Ids : notifier[i] = "notified" ~> calls[i] > 0 \/ crashed
=============================================================================
