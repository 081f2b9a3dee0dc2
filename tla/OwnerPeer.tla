----------------------------- MODULE OwnerPeer -----------------------------
(***************************************************************************)
(* A peer in the owner role: the states and methods it serves, and what    *)
(* the jet daemon believes it serves (lib/peerasync.cpp).                  *)
(*                                                                         *)
(* The peer registers a callback, then asks the daemon to add the path;    *)
(* the daemon routes requests of other peers to the owner of a path; the   *)
(* event loop dispatches them to the callback (handleMessage) and sends    *)
(* the response.  The connection may be lost at any time: stop() forgets   *)
(* all callbacks and cancels all open requests in three steps, resume()    *)
(* connects again.  The connection is a FIFO queue in each direction.      *)
(*                                                                         *)
(* The application calls the peer from a thread of its own or from the     *)
(* callbacks, at any time.  Open requests are abstracted to what           *)
(* OpenRequests shows of them: a callback is called exactly once, and the  *)
(* stop of any peer of the process cancels the requests of all of them.    *)
(***************************************************************************)
EXTENDS Integers, Sequences, FiniteSets

CONSTANTS
    Paths,          \* paths of states and methods
    Methods,        \* those that are methods
    NoPath,         \* "no path"
    MaxAdds,        \* bound: number of paths added with a result callback or without
    MaxRequests,    \* bound: number of requests other peers make
    MaxLosses,      \* bound: number of lost connections
    MaxQueue,       \* bound: messages waiting for the daemon when a path is removed
    AddCallback,    \* {TRUE}: every path is added with a result callback;
                    \* BOOLEAN: some are added without
    Overlap         \* TRUE: a path may be added again before it was removed, or
                    \* before the result of an earlier add of it is known

Adds == 1 .. MaxAdds
Reqs == 1 .. MaxRequests

ASSUME OwnerAssumption ==
    /\ Methods \subseteq Paths
    /\ NoPath \notin Paths
    /\ MaxAdds \in Nat /\ MaxRequests \in Nat /\ MaxLosses \in Nat /\ MaxQueue \in Nat
    /\ AddCallback \subseteq BOOLEAN
    /\ Overlap \in BOOLEAN

VARIABLES
    reg,        \* m_stateCallbacks and m_methodCallbacks: "none", "readonly"
                \* (an empty callback) or "callback"
    adding,     \* add operation between registration and sending, or NoPath
    removing,   \* path between unregistration and sending of the removal, or NoPath
    adds,       \* number of add operations
    addPath,    \* the path an add operation is about
    openAdds,   \* add requests whose result callback is waiting
    failed,     \* those whose message could not be sent
    conn,       \* is the socket connected?
    stopping,   \* progress of stop(): "no", "states", "requests"
    losses,     \* number of lost connections
    toDaemon,   \* messages from the peer to the daemon
    toPeer,     \* messages from the daemon to the peer
    owner,      \* the daemon's view: who owns a path
    reqs,       \* number of routed requests
    routed,     \* the daemon's view of a routed request
    ignored,    \* requests the peer has taken and will not answer
    dropped     \* history: paths whose callback was given up over this connection by a
                \* cancelled request or by stop(), not by a removal or a refusal

peer == <<reg, adding, removing, adds, addPath, openAdds, failed>>
link == <<conn, stopping, losses>>
daemon == <<owner, reqs, routed>>
vars == <<peer, link, toDaemon, toPeer, daemon, ignored, dropped>>

\* A message: n is the id of an add operation or of a routed request, 0 if the
\* sender does not want a response.
Msg(t, p, n) == [type |-> t, path |-> p, n |-> n]

Init ==
    /\ reg = [p \in Paths |-> "none"]
    /\ adding = NoPath
    /\ removing = NoPath
    /\ adds = 0
    /\ addPath = [i \in Adds |-> NoPath]
    /\ openAdds = {}
    /\ failed = {}
    /\ conn = TRUE
    /\ stopping = "no"
    /\ losses = 0
    /\ toDaemon = <<>>
    /\ toPeer = <<>>
    /\ owner = [p \in Paths |-> "none"]
    /\ reqs = 0
    /\ routed = [r \in Reqs |-> "none"]
    /\ ignored = {}
    /\ dropped = {}

-----------------------------------------------------------------------------
(* Operations of the application *)

\* The daemon believes the peer owns p, or something about p is on its way.
InTouch(p) ==
    \/ owner[p] = "self"
    \/ \E k \in DOMAIN toDaemon : toDaemon[k].path = p
    \/ \E k \in DOMAIN toPeer : toPeer[k].path = p

\* The callbacks of paths ps are given up while the daemon counts on them.
Drops(ps) == dropped' = dropped \cup {p \in ps : InTouch(p)}

\* registerState, registerMethod: an existing callback is overwritten.
Register(p, k) == reg' = [reg EXCEPT ![p] = k]

\* unregisterState, unregisterMethod
Unregister(ps) == reg' = [p \in Paths |-> IF p \in ps THEN "none" ELSE reg[p]]

\* What the application takes care of unless Overlap: a path it adds is neither
\* served nor about to be answered by the daemon.
MayAdd(p) == Overlap \/ (reg[p] = "none" /\ \A i \in openAdds : addPath[i] # p)

\* addStateAsync, addMethodAsync, Peer::addState, Peer::addMethod: the callback
\* is registered before the request is sent.  Only a state may be read only.
AddRegister(p, k) ==
    /\ adding = NoPath /\ removing = NoPath
    /\ adds < MaxAdds
    /\ MayAdd(p)
    /\ p \in Methods => k = "callback"
    /\ adding' = p
    /\ Register(p, k)
    /\ UNCHANGED <<removing, adds, addPath, openAdds, failed, link, toDaemon, toPeer, daemon,
                   ignored, dropped>>

\* The request is sent with a result callback and an id (cb), or without.
\* sendMessage throws when the socket is not connected or the message exceeds
\* the size limit (~sent): an error notifier is left for the event loop.  The
\* callback registered before may be gone by now: stop() has forgotten it, or it
\* has removed its own path.
AddSend(cb, sent) ==
    /\ adding # NoPath
    /\ sent => conn
    /\ adding' = NoPath
    /\ adds' = adds + 1
    /\ addPath' = [addPath EXCEPT ![adds + 1] = adding]
    /\ openAdds' = IF cb THEN openAdds \cup {adds + 1} ELSE openAdds
    /\ failed' = IF cb /\ ~sent THEN failed \cup {adds + 1} ELSE failed
    /\ toDaemon' = IF sent
                   THEN Append(toDaemon, Msg("add", adding, IF cb THEN adds + 1 ELSE 0))
                   ELSE toDaemon
    /\ dropped' = IF sent /\ reg[adding] = "none" THEN dropped \cup {adding} ELSE dropped
    /\ UNCHANGED <<reg, removing, link, toPeer, daemon, ignored>>

\* removeStateAsync, removeMethodAsync: the callback is forgotten ...
RemoveUnregister(p) ==
    /\ adding = NoPath /\ removing = NoPath
    /\ Len(toDaemon) < MaxQueue
    /\ removing' = p
    /\ Unregister({p})
    /\ UNCHANGED <<adding, adds, addPath, openAdds, failed, link, toDaemon, toPeer, daemon,
                   ignored, dropped>>

\* Faulty variant: the daemon is not told.
RemoveSendsNothing ==
    /\ removing # NoPath
    /\ removing' = NoPath
    /\ UNCHANGED <<reg, adding, adds, addPath, openAdds, failed, link, toDaemon, toPeer, daemon,
                   ignored, dropped>>

\* ... and the daemon is asked to remove the path.
RemoveSend ==
    /\ removing # NoPath
    /\ removing' = NoPath
    /\ toDaemon' = IF conn THEN Append(toDaemon, Msg("remove", removing, 0)) ELSE toDaemon
    /\ UNCHANGED <<reg, adding, adds, addPath, openAdds, failed, link, toPeer, daemon,
                   ignored, dropped>>

-----------------------------------------------------------------------------
(* The event loop *)

\* The next message from the daemon has one of the given types.
Receiving(types) ==
    /\ conn /\ stopping = "no"
    /\ toPeer # <<>> /\ Head(toPeer).type \in types

\* The result callback of add operation i: addStateResultCb, addMethodResultCb,
\* or the error branch of Peer::addState and Peer::addMethod.
AddResult(i, ok) ==
    /\ openAdds' = openAdds \ {i}
    /\ failed' = failed \ {i}
    /\ Unregister(IF i \in openAdds /\ ~ok THEN {addPath[i]} ELSE {})

\* A response of the daemon to an add request.
HandleAddResult ==
    /\ Receiving({"ok", "error"})
    /\ AddResult(Head(toPeer).n, Head(toPeer).type = "ok")
    /\ toPeer' = Tail(toPeer)
    /\ UNCHANGED <<adding, removing, adds, addPath, link, toDaemon, daemon, ignored, dropped>>

\* The error notifier of add request i, which could not be sent, fires.  It
\* completes the request whose id it reads: m_id of an AsyncRequest is read
\* after the object is gone (see OpenRequests), x = 0 stands for any number
\* that is not the id of an open request.
HandleAddFailed(i, x) ==
    /\ i \in failed
    /\ x \in {0} \cup openAdds
    /\ openAdds' = openAdds \ {x}
    /\ failed' = failed \ {i, x}
    /\ Unregister(IF x = 0 THEN {} ELSE {addPath[x]})
    /\ Drops(IF x = 0 \/ x \in failed THEN {} ELSE {addPath[x]})
    /\ UNCHANGED <<adding, removing, adds, addPath, link, toDaemon, toPeer, daemon, ignored>>

\* handleMessage answers request m according to the outcome of the callback:
\*   "notify": accepted, the value has changed; "silent": accepted, no change;
\*   "throw": refused; "toobig": accepted, but the notification exceeds the size
\*   limit, and the exception turns the response into an error;
\*   "remove": accepted, and the callback has removed its own path;
\*   "unsendable": the response itself exceeds the size limit, and is not sent.
Notification(m, outcome) ==
    CASE outcome = "notify" -> <<Msg("change", m.path, m.n)>>
      [] outcome = "remove" -> <<Msg("remove", m.path, 0)>>
      [] OTHER -> <<>>

\* The type of the response.
Verdict(outcome) == IF outcome \in {"throw", "toobig"} THEN "failure" ELSE "success"

\* Faulty variant: after the error response the other one is sent as well.
ResponseTwice(m, outcome) ==
    CASE m.n = 0 \/ outcome = "unsendable" -> <<>>
      [] outcome = "toobig" -> <<Msg("failure", m.path, m.n), Msg("success", m.path, m.n)>>
      [] OTHER -> <<Msg(Verdict(outcome), m.path, m.n)>>

\* The response, unless the sender of the request does not want one.
Response(m, outcome) ==
    IF m.n = 0 \/ outcome = "unsendable" THEN <<>>
    ELSE <<Msg(Verdict(outcome), m.path, m.n)>>

\* Faulty variant: the response is sent before the notification.
AnswerFirst(m, outcome) == Response(m, outcome) \o Notification(m, outcome)

\* The notification of the changed value is sent before the response.
Answer(m, outcome) == Notification(m, outcome) \o Response(m, outcome)

StateOutcomes == {"notify", "silent", "throw", "toobig", "remove", "unsendable"}
MethodOutcomes == {"silent", "throw", "remove", "unsendable"}

\* A request for a registered path: a read only state refuses, a callback
\* decides.  A state ignores a request whose value is null.
HandleRequest(outcome) ==
    LET m == Head(toPeer) IN
    /\ Receiving({"set", "call"})
    /\ reg[m.path] # "none"
    /\ outcome \in IF m.path \in Methods THEN MethodOutcomes
                   ELSE IF reg[m.path] = "readonly" THEN {"throw"} ELSE StateOutcomes
    /\ Unregister(IF outcome = "remove" THEN {m.path} ELSE {})
    /\ toDaemon' = toDaemon \o Answer(m, outcome)
    /\ ignored' = IF outcome = "unsendable" THEN ignored \cup ({m.n} \cap Reqs) ELSE ignored
    /\ toPeer' = Tail(toPeer)
    /\ UNCHANGED <<adding, removing, adds, addPath, openAdds, failed, link, daemon, dropped>>

\* A request nobody answers: a null value for a state, or an unknown path.
IgnoreRequest ==
    /\ Receiving({"set", "setnull", "call"})
    /\ \/ Head(toPeer).type = "setnull"
       \/ reg[Head(toPeer).path] = "none"
    /\ ignored' = ignored \cup ({Head(toPeer).n} \cap Reqs)
    /\ toPeer' = Tail(toPeer)
    /\ UNCHANGED <<peer, link, toDaemon, daemon, dropped>>

\* receive() finds the connection lost: stop() disconnects.  The daemon forgets
\* what the peer owned and answers the requests routed to it.
ConnectionLost ==
    /\ conn /\ stopping = "no"
    /\ losses < MaxLosses
    /\ losses' = losses + 1
    /\ conn' = FALSE
    /\ stopping' = "states"
    /\ toDaemon' = <<>>
    /\ toPeer' = <<>>
    /\ owner' = [p \in Paths |-> IF owner[p] = "self" THEN "none" ELSE owner[p]]
    /\ routed' = [r \in Reqs |-> IF routed[r] = "open" THEN "disconnected" ELSE routed[r]]
    /\ dropped' = {}
    /\ UNCHANGED <<peer, reqs, ignored>>

\* stop() forgets all callbacks of states and methods ...
StopClearsStates ==
    /\ stopping = "states"
    /\ stopping' = "requests"
    /\ Unregister(Paths)
    /\ Drops({p \in Paths : reg[p] # "none"})
    /\ UNCHANGED <<adding, removing, adds, addPath, openAdds, failed, conn, losses,
                   toDaemon, toPeer, daemon, ignored>>

\* Faulty variant: the error notifiers survive.
ClearKeepsNotifiers ==
    /\ Unregister({addPath[i] : i \in openAdds})
    /\ Drops({addPath[i] : i \in openAdds \ failed})
    /\ openAdds' = {}
    /\ UNCHANGED failed

\* Faulty variant: requests are forgotten without a word.
ClearSilently ==
    /\ Drops({addPath[i] : i \in openAdds \ failed})
    /\ openAdds' = {}
    /\ failed' = {}
    /\ UNCHANGED reg

\* AsyncRequest::clear(): the callbacks of all open requests are called with an
\* error.
Clear ==
    /\ Unregister({addPath[i] : i \in openAdds})
    /\ Drops({addPath[i] : i \in openAdds \ failed})
    /\ openAdds' = {}
    /\ failed' = {}

\* ... and cancels the open requests.
StopCancelsRequests ==
    /\ stopping = "requests"
    /\ stopping' = "no"
    /\ Clear
    /\ UNCHANGED <<adding, removing, adds, addPath, conn, losses, toDaemon, toPeer, daemon, ignored>>

\* stop() of another peer of the process, in its event loop or in the thread that
\* destroys it, cancels the open requests of this one too.
OtherPeerStops ==
    /\ openAdds # {}
    /\ Clear
    /\ UNCHANGED <<adding, removing, adds, addPath, link, toDaemon, toPeer, daemon, ignored>>

\* resume(): start() connects.  States and methods are not restored.
Resume ==
    /\ ~conn
    /\ conn' = TRUE
    /\ UNCHANGED <<peer, stopping, losses, toDaemon, toPeer, daemon, ignored, dropped>>

-----------------------------------------------------------------------------
(* The jet daemon and other peers *)

Processing(types) == toDaemon # <<>> /\ Head(toDaemon).type \in types

\* A path that has an owner is not added again.
DaemonAdds ==
    LET m == Head(toDaemon) IN
    /\ Processing({"add"})
    /\ owner' = [owner EXCEPT ![m.path] = IF @ = "none" THEN "self" ELSE @]
    /\ toPeer' = IF m.n = 0 THEN toPeer
                 ELSE Append(toPeer, Msg(IF owner[m.path] = "none" THEN "ok" ELSE "error",
                                         m.path, m.n))
    /\ toDaemon' = Tail(toDaemon)
    /\ UNCHANGED <<peer, link, reqs, routed, ignored, dropped>>

\* Only the owner removes a path.
DaemonRemoves ==
    LET p == Head(toDaemon).path IN
    /\ Processing({"remove"})
    /\ owner' = [owner EXCEPT ![p] = IF @ = "self" THEN "none" ELSE @]
    /\ toDaemon' = Tail(toDaemon)
    /\ UNCHANGED <<peer, link, toPeer, reqs, routed, ignored, dropped>>

\* The response is routed back to the requesting peer; a CHANGE has been
\* distributed to the fetching peers.
DaemonRoutesBack ==
    LET m == Head(toDaemon) IN
    /\ Processing({"change", "success", "failure"})
    /\ routed' = [r \in Reqs |->
                    IF r = m.n /\ m.type # "change" /\ routed[r] = "open"
                    THEN m.type ELSE routed[r]]
    /\ toDaemon' = Tail(toDaemon)
    /\ UNCHANGED <<peer, link, toPeer, owner, reqs, ignored, dropped>>

\* Another peer sets a state or calls a method, and wants a response or not.
RouteRequest(p, t, wants) ==
    /\ reqs < MaxRequests
    /\ owner[p] = "self"
    /\ t \in IF p \in Methods THEN {"call"} ELSE {"set", "setnull"}
    /\ reqs' = reqs + 1
    /\ routed' = [routed EXCEPT ![reqs + 1] = IF wants THEN "open" ELSE "silent"]
    /\ toPeer' = Append(toPeer, Msg(t, p, IF wants THEN reqs + 1 ELSE 0))
    /\ UNCHANGED <<peer, link, toDaemon, owner, ignored, dropped>>

\* Another peer adds a path, or removes it.
OtherPeer(p) ==
    /\ owner[p] # "self"
    /\ owner' = [owner EXCEPT ![p] = IF @ = "none" THEN "other" ELSE "none"]
    /\ UNCHANGED <<peer, link, toDaemon, toPeer, reqs, routed, ignored, dropped>>

-----------------------------------------------------------------------------
Application ==
    \/ \E p \in Paths, k \in {"readonly", "callback"} : AddRegister(p, k)
    \/ \E cb \in AddCallback, sent \in BOOLEAN : AddSend(cb, sent)
    \/ \E p \in Paths : RemoveUnregister(p)
    \/ RemoveSend
    \/ Resume

EventLoop ==
    \/ HandleAddResult
    \/ \E i \in Adds, x \in 0 .. MaxAdds : HandleAddFailed(i, x)
    \/ \E o \in StateOutcomes \cup MethodOutcomes : HandleRequest(o)
    \/ IgnoreRequest
    \/ StopClearsStates
    \/ StopCancelsRequests

Daemon == DaemonAdds \/ DaemonRemoves \/ DaemonRoutesBack

OtherPeers ==
    \/ \E p \in Paths, t \in {"set", "setnull", "call"}, w \in BOOLEAN : RouteRequest(p, t, w)
    \/ \E p \in Paths : OtherPeer(p)
    \/ OtherPeerStops

Next == Application \/ EventLoop \/ ConnectionLost \/ Daemon \/ OtherPeers

Spec == Init /\ [][Next]_vars

-----------------------------------------------------------------------------
(* Properties *)

Messages(types) == [type : types, path : Paths, n : 0 .. (MaxAdds + MaxRequests)]

\* The variables stay in their types; only open requests wait for an error notifier.
TypeOK ==
    /\ reg \in [Paths -> {"none", "readonly", "callback"}]
    /\ adding \in Paths \cup {NoPath}
    /\ removing \in Paths \cup {NoPath}
    /\ adds \in 0 .. MaxAdds
    /\ addPath \in [Adds -> Paths \cup {NoPath}]
    /\ openAdds \subseteq 1 .. adds
    /\ failed \subseteq openAdds
    /\ conn \in BOOLEAN
    /\ stopping \in {"no", "states", "requests"}
    /\ losses \in 0 .. MaxLosses
    /\ toDaemon \in Seq(Messages({"add", "remove", "change", "success", "failure"}))
    /\ toPeer \in Seq(Messages({"ok", "error", "set", "setnull", "call"}))
    /\ owner \in [Paths -> {"none", "self", "other"}]
    /\ reqs \in 0 .. MaxRequests
    /\ routed \in [Reqs -> {"none", "open", "silent", "success", "failure", "disconnected"}]
    /\ ignored \subseteq Reqs
    /\ dropped \subseteq Paths

Sent(m) == \E k \in DOMAIN toDaemon : toDaemon[k] = m

\* The message that removes path p is on its way, or about to be sent.
BeingRemoved(p) == removing = p \/ Sent(Msg("remove", p, 0))

\* Whenever the daemon routes requests for a path to this peer, the peer has a
\* callback for it, or the message that removes the path is on its way, over any
\* number of lost connections and of adds refused by the daemon; a path loses its
\* callback otherwise only when a request is cancelled or stop() is still running
\* after resume().
ServedUnlessDropped ==
    \A p \in Paths \ dropped : owner[p] = "self" => reg[p] # "none" \/ BeingRemoved(p)

\* A routed request and its response exist once: the request waits in the queue
\* to the peer, or its response in the queue to the daemon, or it has been
\* answered, or the peer ignores it.
AnsweredOnce ==
    LET Copies(r) ==
          Cardinality({k \in DOMAIN toPeer :
              toPeer[k].n = r /\ toPeer[k].type \in {"set", "setnull", "call"}})
        + Cardinality({k \in DOMAIN toDaemon :
              toDaemon[k].n = r /\ toDaemon[k].type \in {"success", "failure"}})
    IN \A r \in Reqs :
          Copies(r) = IF routed[r] = "open" /\ r \notin ignored THEN 1 ELSE 0

\* The requesting peer is told of its success only when all fetching peers have
\* been told of the new value.
ChangeBeforeResponse ==
    \A r \in Reqs : routed[r] = "success" =>
        \A k \in DOMAIN toDaemon : toDaemon[k].type = "change" => toDaemon[k].n # r

Settled ==
    /\ conn /\ stopping = "no"
    /\ toDaemon = <<>> /\ toPeer = <<>>
    /\ adding = NoPath /\ removing = NoPath /\ openAdds = {}

\* When nothing is on its way, the peer serves exactly what the daemon believes
\* it owns: registrations that failed, because of another owner, of a lost
\* connection or of the stop of another peer, are undone, unless the daemon had
\* agreed to them.
SettledAgreement ==
    Settled => \A p \in Paths \ dropped : reg[p] # "none" <=> owner[p] = "self"

-----------------------------------------------------------------------------
(* What the documentation says, and the code does not do *)

\* lib/README.md: "The resulting response from the owning peer will be routed
\* back to the requesting peer": what the daemon believes this peer owns, it
\* serves.
OwnedIsServed ==
    \A p \in Paths : owner[p] = "self" => reg[p] # "none" \/ BeingRemoved(p)
=============================================================================
