------------------------------ MODULE Mutexes ------------------------------
(***************************************************************************)
(* Who waits for whom: the mutexes of lib/peerasync.cpp and                *)
(* lib/asyncrequest.cpp, and the synchronous calls of lib/peer.cpp.        *)
(*                                                                         *)
(* All peers share the table mutex, which is not recursive.  Each peer has *)
(* a recursive mutex for its states, its methods and its fetches, held     *)
(* while the user's callback runs, and a receive mutex, held while a       *)
(* message is handled.  clear() holds the table mutex while it runs result *)
(* callbacks, of all peers, that take the other mutexes.                   *)
(*                                                                         *)
(* Every function of the library is the sequence of its lock, unlock and   *)
(* callback steps; an actor works off such a program.  What callbacks do   *)
(* is a parameter.  A critical section that calls nothing is one step.     *)
(* m_sendMutex and the mutexes of libhbk guard sections that take no other *)
(* mutex and are left out.                                                 *)
(***************************************************************************)
EXTENDS Integers, Sequences

CONSTANTS
    Threads,        \* application threads
    Loops,          \* threads that run an event loop
    Peers,          \* PeerAsync objects of the process
    LoopsOf,        \* [Peers -> SUBSET Loops]: threads that run receive() of a peer
    MayDo,          \* [Contexts -> SUBSET Operations]: what a user's code does in a context
    MaxEvents,      \* bound: events of the network
    MaxOps,         \* bound: operations of the user's code
    NoActor, NoPeer \* stand for "nobody" and "no peer"

Actors == Threads \cup Loops

Roles == {"state", "method", "fetch"}   \* what a peer keeps callbacks for

\* Where the user's code runs: a thread of the application, a callback of a
\* state, method or fetch, a fetch callback called by stop(), a result callback,
\* a result callback called by clear().
Contexts == {"thread", "state", "method", "fetch", "lost", "result", "cancel"}

\* An operation: add or remove something of a role, issue another request, wait
\* for the response of one, start or stop a peer; with a result callback or
\* without; over the peer the callback belongs to, or over any.
Operations ==
    [do : Roles \cup {"plain", "sync", "start", "stop"}, reply : BOOLEAN, own : BOOLEAN]

ASSUME MutexesAssumption ==
    /\ Threads \cap Loops = {}
    /\ LoopsOf \in [Peers -> (SUBSET Loops) \ {{}}]
    /\ DOMAIN MayDo = Contexts
    /\ \A c \in Contexts : MayDo[c] \subseteq Operations
    /\ \A o \in MayDo["thread"] : ~o.own      \* a thread belongs to no peer
    /\ MaxEvents \in Nat /\ MaxOps \in Nat
    /\ NoActor \notin Actors /\ NoPeer \notin Peers

\* The user's code keeps to the order of the mutexes.  Under a mutex of states,
\* methods or fetches it uses its own peer only and wants no result; called by
\* stop() it uses the fetches only; called by clear() it wants no result;
\* called in an event loop it waits for nothing.  Threads do anything.
KeepsOrder ==
    /\ \A c \in {"state", "method", "fetch", "lost"} : \A o \in MayDo[c] :
          o.own /\ ~o.reply /\ o.do \notin {"sync", "stop"}
    /\ \A o \in MayDo["lost"] : o.do \notin {"state", "method"}
    /\ \A o \in MayDo["cancel"] : ~o.reply /\ o.do \notin {"sync", "stop"}
    /\ \A o \in MayDo["result"] : o.do # "sync"

VARIABLES
    prog,       \* the steps an actor has still to do
    held,       \* who holds a mutex, and how often
    open,       \* requests whose result callback is in the table
    done,       \* synchronous requests whose promise is set
    events,     \* number of events so far
    ops         \* number of operations so far

vars == <<prog, held, open, done, events, ops>>

Table == <<"table", NoPeer>>
AllMutexes == {Table} \cup (Roles \cup {"receive"}) \X Peers
Recursive(m) == m[1] \in Roles

Requests == [n : 1 .. MaxOps, peer : Peers, kind : Roles \cup {"plain", "sync"}]

Init ==
    /\ prog = [a \in Actors |-> <<>>]
    /\ held = [m \in AllMutexes |-> [by |-> NoActor, count |-> 0]]
    /\ open = {}
    /\ done = {}
    /\ events = 0
    /\ ops = 0

-----------------------------------------------------------------------------
(* Programs *)

\* std::lock_guard: m is held while body runs.
Guarded(m, body) == <<[do |-> "lock", m |-> m]>> \o body \o <<[do |-> "unlock", m |-> m]>>

\* A callback of the user, which belongs to peer p.
User(c, p) == <<[do |-> "user", context |-> c, peer |-> p]>>

\* registerState, unregisterState and their like: a critical section of its own.
Touch(role, p) == <<[do |-> "touch", m |-> <<role, p>>]>>

\* AsyncRequest::execute with a result callback: the request enters the table.
Execute(r) == <<[do |-> "enter", m |-> Table, r |-> r]>>

\* SyncRequest::executeSync waits for the promise, ~SyncRequest erases the entry.
ExecuteSync(r) ==
    Execute(r) \o <<[do |-> "await", r |-> r], [do |-> "drop", m |-> Table, r |-> r]>>

\* AsyncRequest::handleResult takes the callback out of the table, and calls it.
HandleResult(r, failed) == <<[do |-> "take", m |-> Table, r |-> r, failed |-> failed]>>

\* AsyncRequest::clear.
Clear == Guarded(Table, <<[do |-> "cancel"]>>)

\* Faulty variant: the table is cleared inside the critical section of the fetches.
StopNested(p) ==
    Guarded(<<"fetch", p>>, User("lost", p) \o Touch("state", p) \o Touch("method", p)
                            \o Clear)

\* PeerAsync::stop: the fetches are told, states and methods forgotten, and all
\* open requests canceled.  One callback stands for those of all fetches.
Stop(p) ==
    Guarded(<<"fetch", p>>, User("lost", p))
    \o Touch("state", p) \o Touch("method", p)
    \o Clear

\* PeerAsync::start sends what restores the fetches, without result callbacks.
Start(p) == Touch("fetch", p)

\* The functions of PeerAsync and Peer that the user's code calls.
Operation(o, r) ==
    CASE o.do = "sync"  -> ExecuteSync(r)
      [] o.do = "stop"  -> Stop(r.peer)
      [] o.do = "start" -> Start(r.peer)
      [] OTHER -> (IF o.do \in Roles THEN Touch(o.do, r.peer) ELSE <<>>)
                  \o (IF o.reply THEN Execute(r) ELSE <<>>)

\* A result callback: addStateResultCb and its like undo what failed, then the
\* callback of the user is called.
ResultCallback(r, c, failed) ==
    IF r.kind = "sync" THEN <<[do |-> "promise", r |-> r]>>
    ELSE (IF failed /\ r.kind \in Roles THEN Touch(r.kind, r.peer) ELSE <<>>) \o User(c, r.peer)

\* Faulty variant: locked by hand, and the return after a state was served forgets it.
RequestReturnsLocked(role, p) ==
    IF role = "state" THEN <<[do |-> "lock", m |-> <<"state", p>>]>> \o User("state", p)
    ELSE Touch("state", p) \o Guarded(<<"method", p>>, User("method", p))

\* handleMessage: a routed request is looked up among the states, then among
\* the methods; the callback runs under the mutex.
Request(role, p) ==
    IF role = "state" THEN Guarded(<<"state", p>>, User("state", p))
    ELSE Touch("state", p) \o Guarded(<<"method", p>>, User("method", p))

\* handleMessage: a notification of a fetch.
Notification(p) == Guarded(<<"fetch", p>>, User("fetch", p))

\* PeerAsync::receive, with the mutex for several threads serving one peer.
Receive(p, body) == Guarded(<<"receive", p>>, body)

-----------------------------------------------------------------------------
(* Steps of an actor *)

Item(a) == Head(prog[a])
At(a, do) == prog[a] # <<>> /\ Item(a).do = do
Goes(a, program) == prog' = [prog EXCEPT ![a] = program]
Continues(a) == Goes(a, Tail(prog[a]))

\* The mutex a step takes can be taken.
MayLock(a, m) == held[m].by = NoActor \/ (Recursive(m) /\ held[m].by = a)
MayEnter(a, do) == At(a, do) /\ MayLock(a, Item(a).m)

LockStep(a) ==
    /\ MayEnter(a, "lock")
    /\ held' = [held EXCEPT ![Item(a).m] = [by |-> a, count |-> @.count + 1]]
    /\ Continues(a)
    /\ UNCHANGED <<open, done, events, ops>>

TouchStep(a) ==
    /\ MayEnter(a, "touch")
    /\ Continues(a)
    /\ UNCHANGED <<held, open, done, events, ops>>

UnlockStep(a) ==
    /\ At(a, "unlock")
    /\ held' = [held EXCEPT ![Item(a).m] =
                    [by |-> IF @.count = 1 THEN NoActor ELSE a, count |-> @.count - 1]]
    /\ Continues(a)
    /\ UNCHANGED <<open, done, events, ops>>

\* The user's code, of peer p, calls a function; program is what it does afterwards.
Calls(a, c, p, program) ==
    /\ ops < MaxOps
    /\ ops' = ops + 1
    /\ \E o \in MayDo[c] : \E q \in IF o.own THEN {p} ELSE Peers :
        LET kind == IF o.do \in {"start", "stop"} THEN "plain" ELSE o.do IN
        Goes(a, Operation(o, [n |-> ops + 1, peer |-> q, kind |-> kind]) \o program)

\* A callback of the user does nothing, or what its context allows.
UserStep(a) ==
    /\ At(a, "user")
    /\ \/ Continues(a) /\ UNCHANGED ops
       \/ Calls(a, Item(a).context, Item(a).peer, Tail(prog[a]))
    /\ UNCHANGED <<held, open, done, events>>

EnterStep(a) ==
    /\ MayEnter(a, "enter")
    /\ open' = open \cup {Item(a).r}
    /\ Continues(a)
    /\ UNCHANGED <<held, done, events, ops>>

\* A callback that is still in the table is called without the mutex.
TakeStep(a) ==
    /\ MayEnter(a, "take")
    /\ open' = open \ {Item(a).r}
    /\ IF Item(a).r \in open
       THEN Goes(a, ResultCallback(Item(a).r, "result", Item(a).failed) \o Tail(prog[a]))
       ELSE Continues(a)
    /\ UNCHANGED <<held, done, events, ops>>

DropStep(a) ==
    /\ MayEnter(a, "drop")
    /\ open' = open \ {Item(a).r}
    /\ Continues(a)
    /\ UNCHANGED <<held, done, events, ops>>

\* Faulty variant: clear() forgets the open requests without calling anybody.
CancelForgets(a) ==
    /\ At(a, "cancel")
    /\ open' = {}
    /\ Continues(a)
    /\ UNCHANGED <<held, done, events, ops>>

\* clear() calls the next callback, under the table mutex, or is done.  The
\* entries are erased at the end, which nobody sees: the mutex is held.
CancelStep(a) ==
    /\ At(a, "cancel")
    /\ IF open = {} THEN Continues(a) /\ UNCHANGED open
       ELSE \E r \in open :
              /\ open' = open \ {r}
              /\ Goes(a, ResultCallback(r, "cancel", TRUE) \o prog[a])
    /\ UNCHANGED <<held, done, events, ops>>

PromiseStep(a) ==
    /\ At(a, "promise")
    /\ done' = done \cup {Item(a).r.n}
    /\ Continues(a)
    /\ UNCHANGED <<held, open, events, ops>>

AwaitStep(a) ==
    /\ At(a, "await")
    /\ Item(a).r.n \in done
    /\ Continues(a)
    /\ UNCHANGED <<held, open, done, events, ops>>

Step(a) ==
    \/ LockStep(a) \/ UnlockStep(a) \/ TouchStep(a) \/ UserStep(a)
    \/ EnterStep(a) \/ TakeStep(a) \/ DropStep(a) \/ CancelStep(a)
    \/ PromiseStep(a) \/ AwaitStep(a)

-----------------------------------------------------------------------------
(* What actors begin *)

\* A thread of the application calls a function of a peer.
ThreadCalls(t) ==
    /\ prog[t] = <<>>
    /\ Calls(t, "thread", NoPeer, <<>>)
    /\ UNCHANGED <<held, open, done, events>>

Begins(l, p, program) ==
    /\ l \in LoopsOf[p]
    /\ prog[l] = <<>>
    /\ Goes(l, program)
    /\ UNCHANGED <<held, open, done, ops>>

\* A message arrives that nobody asked for, or the connection is lost.
NetworkEvent(l, p) ==
    /\ events < MaxEvents
    /\ events' = events + 1
    /\ \/ Begins(l, p, Receive(p, Notification(p)))
       \/ \E role \in {"state", "method"} : Begins(l, p, Receive(p, Request(role, p)))
       \/ Begins(l, p, Receive(p, Stop(p)))

\* The response to a request arrives, or its error notifier fires.
ResultEvent(l, p) ==
    /\ \E r \in open :
        /\ r.peer = p
        /\ \/ \E failed \in BOOLEAN : Begins(l, p, Receive(p, HandleResult(r, failed)))
           \/ Begins(l, p, HandleResult(r, TRUE))
    /\ UNCHANGED events

Next ==
    \/ \E a \in Actors : Step(a)
    \/ \E t \in Threads : ThreadCalls(t)
    \/ \E l \in Loops, p \in Peers : NetworkEvent(l, p) \/ ResultEvent(l, p)

Spec == Init /\ [][Next]_vars

\* An actor that is not blocked goes on, and an event loop that is free handles
\* the responses, which the daemon always sends.  The number of operations and
\* events is bounded, so that weak fairness of taking a mutex is enough.
Fairness ==
    /\ \A a \in Actors : WF_vars(Step(a))
    /\ \A l \in Loops, p \in Peers : WF_vars(ResultEvent(l, p))

FairSpec == Spec /\ Fairness

-----------------------------------------------------------------------------
(* Properties *)

\* The variables stay in their types; an actor that has returned to where it
\* came from holds no mutex.
TypeOK ==
    /\ DOMAIN prog = Actors
    /\ \A m \in AllMutexes :
          /\ held[m].count \in IF Recursive(m) THEN Nat ELSE {0, 1}
          /\ held[m].by \in IF held[m].count = 0 THEN {NoActor} ELSE Actors
          /\ held[m].by # NoActor => prog[held[m].by] # <<>>
    /\ open \subseteq Requests
    /\ done \subseteq 1 .. MaxOps
    /\ events \in 0 .. MaxEvents
    /\ ops \in 0 .. MaxOps

\* Actor a can only go on after a member of S has: it needs a mutex that one of
\* them holds (perhaps itself), or a response whose handling needs all of them.
WaitsWithin(a, S) ==
    \/ /\ \E do \in {"lock", "touch", "enter", "drop", "take"} : At(a, do)
       /\ ~MayLock(a, Item(a).m)
       /\ held[Item(a).m].by \in S
    \/ /\ At(a, "await")
       /\ Item(a).r \in open
       /\ LoopsOf[Item(a).r.peer] \subseteq S

\* No group of actors waits for one another, and none for itself: not over the
\* mutexes of a peer, not over the table mutex, not over a response.
NoCircularWait ==
    \A S \in SUBSET Actors : S # {} => \E a \in S : ~WaitsWithin(a, S)

\* Whatever an actor has begun comes to an end.
EverythingReturns == \A a \in Actors : prog[a] # <<>> ~> prog[a] = <<>>
=============================================================================
