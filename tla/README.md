# A TLA+ verification project for jetpeer-cpp

jetpeer-cpp is the C++ client library of *jet*, a publish/subscribe and remote
procedure call protocol.  Peers connect to a jet daemon over TCP or a Unix
domain socket and exchange JSON-RPC 2.0 messages, each preceded by its length.
A peer may *own* states and methods, which other peers set and call through the
daemon, and it may *fetch* states, that is, be notified of their values.

Paths below are relative to the repository; `lib/`, `include/jet/`, `tool/` are
its directories.

## 1. The system

### Components

| Component | State it keeps | Operations |
|---|---|---|
| Request layer: `lib/asyncrequest.cpp`, `lib/syncrequest.cpp` | static `m_sid`, `m_openRequestCbs` (callback and error notifier per id) and its mutex, shared by **all** peers of the process; the promise of a `SyncRequest` | `execute`, `handleResult`, `clear`, `executeSync`, `~SyncRequest` |
| Connection life cycle: `lib/peerasync.cpp` | socket, address | constructor, `start`, `stop`, `resume`, destructor |
| Receiving: `PeerAsync::receive` | length buffer, data buffer, their fill levels | `receive`, reset by `start` |
| Owner role: `PeerAsync` | `m_stateCallbacks`, `m_methodCallbacks`, each with a recursive mutex | `addStateAsync`, `addMethodAsync`, `removeStateAsync`, `removeMethodAsync`, result callbacks, dispatch in `handleMessage`, `notifyState` |
| Client role, fetches: `PeerAsync` | `m_fetchers`, `m_sfetchId`, recursive mutex | `addFetchAsync`, `removeFetchAsync`, notification dispatch, restoration in `start`, status -1 in `stop` |
| Client role, requests: `PeerAsync` | none of its own | `getAsync`, `setStateValueAsync`, `callMethodAsync`, `infoAsync`, `configAsync`, `authenticateAsync` |
| Synchronous facade: `lib/peer.cpp` | a `PeerAsync`, an event loop and its thread | blocking versions of the operations above |
| Mutexes: `PeerAsync`, `AsyncRequest` | a recursive mutex each for states, methods and fetches, a receive mutex, the table mutex of all peers | every operation above |
| Matchers, JSON-RPC exceptions: `include/jet/defines.h`, `lib/jsoncpprpc_exception.cpp` | none | conversions to and from JSON |
| `tool/cache`, `tool/notifier` | a fetch id, user callbacks; the cache also a copy of the fetched states | constructor, `start`, `stop`, `setCbs`, `fetchCb`, `getEntry`, destructor |
| `tool/qxrouting`: `Device`, `RoutedDevice`, `main` | routed devices and their peers, appearance infos, a timer | a test that restarts all routed devices again and again |
| Simulation and mock: `lib_simulation/`, `peerasyncmock.hpp` | | stand-ins for tests |
| Command line tools: `tool/*.cpp` | | one call of the library each |

### Interaction

* Application threads call `Peer`, which calls `PeerAsync`, which puts a callback
  in the table of the request layer and writes to the socket.  All of it runs in
  the calling thread.
* The event loop of a peer calls `receive`.  A response goes to `handleResult`,
  which takes the callback out of the table and calls it.  A notification goes to
  the fetch callback, a routed request to the state or method callback, both
  called **under** the mutex of their map.
* When a message cannot be sent, `execute` leaves an *error notifier* behind, an
  event the loop later handles by completing the request with an error.
* An error in `receive` calls `stop` in the event loop: disconnect, tell all
  fetches (status -1), forget states and methods, cancel all open requests of
  the process.  `resume` connects again and restores fetches, but not states and
  methods.  The destructor calls `stop` in the thread of the application.
* The objects of `tool/` are applications of the library: each binds its
  `fetchCb` to a fetch of a peer it shares with others.  `tool/qxrouting` runs
  many peers in one event loop, so that the stop of one reaches the requests of
  all.

### What is hard

The request table is shared by peers with different event loops; its error path
uses it without the mutex; callbacks run inside critical sections; objects on a
stack are captured by lambdas; `stop` is a sequence of separately locked steps
that other threads interleave with; connections break anywhere, also in the
middle of a message; fetches survive a connection, states do not; a value
reaches its readers by two ways, `notifyState` and set requests.  The list
under `hazards` in `PROJECT.json` names the line of each of these.

### What makes the components correct

* Request layer: every request with a callback is completed exactly once; no
  captured object is used after its life; a waiting thread is released.
* Owner role: what the daemon routes to the peer has a callback, whatever happens
  to other peers; each request has one response; fetching peers learn of a value before the setter learns of
  its success; failed additions are undone.
* Fetches: what the daemon notifies has a callback; after any number of lost
  connections a fetch is up to date.
* Receiving: whatever the cuts of the stream, exactly the messages are parsed.
* Mutexes: no group of threads waits for one another, whatever is begun ends.
* Owner to reader: a copy of a state never goes back to an older version, is
  complete when nothing is on its way, and catches up after lost connections.
* Caches and notifiers: no callback of an object that is gone or stopped; no
  object loses its fetch to another one (the code does not keep the latter).
* Restart test: it starts with the devices that are there, and counts each start
  of a device once.

## 2. Modules

| Module | Models | Role |
|---|---|---|
| `RequestLifecycle` | what callers of the request layer are promised | abstract specification |
| `OpenRequests` | request layer, with `stop` and `start` as far as they affect it | implements `RequestLifecycle` |
| `OwnerPeer` | owner role, with an external daemon and other peers | |
| `FetchingPeer` | fetches, with an external daemon | |
| `Receiver` | `receive` and the reset by `start` | |
| `Mutexes` | all mutexes of the library, and blocking calls | |
| `Mirror` | what readers of a cache are promised | abstract specification |
| `Publish` | an owner, the daemon and a process with a cache, composed | implements `Mirror` |
| `Clients` | caches and notifiers that share a peer | |
| `Routing` | the restart test of `tool/qxrouting` | |
| `OpenRequestsProofs`, `ReceiverProofs`, `ClientsProofs`, `PublishProofs`, `OwnerPeerProofs`, `FetchingPeerProofs`, `MutexesProofs`, `RoutingProofs` | | theorems |
| `MCOpenRequests`, `MCOwnerPeer`, `MCMutexes` | | values of constants for TLC |

A definition whose comment begins with *Faulty variant* is a mistake the code
could have made.  It takes part in no specification; it is there to show that
the properties tell the difference.

### OpenRequests

Actors are application threads and event loops.  Variables `sid`, `open`,
`hasCb`, `notifier` are the static table, `mutex` its mutex while `clear` holds
it, `pc`/`cur`/`hand` where each actor is, `flight` the messages of a request,
`calls`/`result` what its callback has been told.  A critical section that calls
no callback is one action (`ExecuteRegister`, `HandleResult`,
`SyncRequestReturns`); `clear` is one action per callback; the error path of
`execute` is one action per unlocked access (`CreateErrorNotifier`,
`SetErrorNotifier`, `NotifyErrorNotifier`), where `operator[]` creates an entry
with a null notifier when there is none, and using it crashes.

An `AsyncRequest` is a local variable of the function that calls `execute`, and
the error notifier captures `this`.  When it fires, `m_id` is read from memory
that has been given back: `NotifierReads` lets it be any identifier or none.
A `SyncRequest` stays until its thread returns (`Alive`).  The notifier is three
steps, `NotifierFires`, `ReadId` and `HandleError`: only the last takes the mutex,
so that a `clear` of another peer may complete the request, and its thread return,
before `m_id` is read, from an object that is gone.  `SyncObjectAlive` is about the
callback that sets the promise, not about this read.

`AsyncOperation` and `SyncOperation` stand for all operations of the client role
(get, set, call, info, config, authenticate): to the request layer they differ
only in their parameters, and in whether the caller waits.

### OwnerPeer

The connection is a FIFO queue in each direction.  Adding and removing a path are
two steps each (`AddRegister`, `AddSend`; `RemoveUnregister`, `RemoveSend`),
`stop` is three (`ConnectionLost`, `StopClearsStates`, `StopCancelsRequests`), a
routed request is one step with the outcome of the user's callback as its
parameter.  States and methods are told apart by `Methods`; a path is the one or
the other.  The application calls the peer at any time: from a thread of its own,
as users of `lib/peer.cpp` do, or from callbacks, also while `stop` is running.

The request layer is abstracted to its result: a callback is called once.  The
table of open requests belongs to all peers of the process, so `Clear` is done by
this peer's `stop` and by the stop of any other (`OtherPeerStops`), and the error
notifier of an add that could not be sent may read the id of another add
(`HandleAddFailed`).  Either may undo an add the daemon has accepted, or is about
to accept; `dropped` is the history of these paths, and of those whose callback
`stop` forgets after `resume`, for the connection at hand.  Two constants say what
the application does:

* `AddCallback`: whether paths are also added without a result callback, in
  which case a failure is never undone;
* `Overlap`: whether a path is added again while it is in use.

### FetchingPeer

As `OwnerPeer`, for fetches; one state with a counter stands for all matching
states.  A notification is two steps, with `m_mtx_fetchers` held in between
(`running`).  `stop` tells the fetches one by one, in any order (`StopNotifies`,
`StopHasNotified`), then cancels requests (`StopCancels`): in between the status
callbacks, or another thread, may add and remove fetches and resume the
connection; `resume` connects (`Resume`) and restores (`StartRestores`) in two
steps.  `dropped` is the history of fetches that the error of a request has
unregistered while the daemon had established them, or was about to: by
`OtherPeerStops`, by the rest of `stop` after `resume`, by an error notifier that
fires after the fetch was restored, or by the daemon's refusal of a fetch that
was restored before its request was sent.

### Receiver

A byte is identified by its message and its offset, so that a buffer put
together from the wrong bytes is told apart; a header of wrong bytes may hold any
length.  Each action is one `receive` of the socket, which returns any number of
bytes up to the number asked for, or the processing of a complete message.

### Mutexes

Every function of the library is a *program*: the sequence of its lock, unlock
and callback steps (`Stop`, `Request`, `Notification`, `Receive`, `Clear`,
`Operation`, ...), built from `Guarded`, `Touch`, `User` and the steps of the
request table.  An actor works its program off; where the user's code is called,
its operations are put in front of the rest.  What the user's code does in which
context is the parameter `MayDo`.  A critical section that calls nothing is one
step.  `m_sendMutex` and the mutexes of libhbk guard sections that take no other
mutex and are left out.  `MCMutexes` has two values of `MayDo`: `Disciplined`,
callbacks that respect an order of the mutexes (`KeepsOrder`, which TLC evaluates
on it), and `AsDocumented`, a state callback that adds another state, as a comment
in `peerasync.hpp` provides for.

### Publish and Mirror

`Publish` composes the parts a value passes through.  A value is the number of
its version.  `ChangeValue` and `NotifyState` are separate steps, because
`notifyState` sends the value it is given when it is called; `HandleSet` is the
other source of changes.  Each connection may be lost: the owner's states are
then forgotten on both sides and added again by its application, the fetch is
restored by `start`, and the cache, which ignores status -1, keeps its entries.
`Serialised` says that the application serves no set request between a change and
its `notifyState`.  `mark` and `missed` are history variables: the latest version
the cache has held, and states whose removal it could not be told.

`Mirror` is what a reader may rely on: versions that were published, in order,
even if the state is forgotten in between.  The refinement map is `seen <- cache`.

### Clients

One thread of the application creates, starts, stops and destroys objects while
the event loop runs their callbacks; `MutexFree` is `m_mtx_fetchers`.  The
assignment of `m_fetchId` after `addFetchAsync` is a step of its own, since a
notification may come first.  `m_fetchId` of a notifier is not initialized:
`ConstructNotifier` lets it be any number.  `AsIntended` is an
assumption on the application that nothing in the code states or enforces:
notifiers are started before they are stopped or destroyed, not started twice in
a row, and not stopped by a callback before `start` has returned.

### Routing

The main thread registers and sends the `Device`'s fetch (`FetchRegistered`,
`FetchSent`), which fails when the connection is lost by then and leaves an error
notifier (`ErrorNotifierFires`); it waits for the response, performs the first
restart and joins the event loop, which does everything else.  The request
table is reduced to the one request with a result callback, `pending`: none,
open, failed to be sent, or lost because the notifier read the id of another
request; a `RoutedDevice` that stops cancels it (`CancelRequests`).  The first restart
iterates over maps the event loop may change: `crashed` is chosen freely in that
case.  Devices and router are external: they restart when asked, and those in
`Flaky` also go down, lose their service, or are announced without a port or
twice.  The timer expires after two minutes, when the main thread has long been
in `join`.  Services other than hbkProtocol are only logged by the code.

## 3. Runs

Passing runs:

| Run | Bounds | Shows |
|---|---|---|
| `requests` | 2 peers with own loops, 2 threads, 2 requests of both kinds, 1 stop, callbacks that issue requests | `ExactlyOnce`, `SyncObjectAlive`, implementation of `RequestLifecycle`, `SentCompletes`, `SyncReturns` |
| `owner` | a state and a method, 3 adds, 1 request, 1 lost connection, stops of other peers | `AnsweredOnce`, `ChangeBeforeResponse`, `ServedUnlessDropped`, `SettledAgreement` |
| `fetching` | 2 fetches, 1 change, 2 lost connections, stops of other peers | `EstablishedUnlessDropped`, `SettledUpToDate`, `ReachesLastValue` |
| `receiver_stream` | 3 messages of sizes 0 to 3 with maximum 2, 2 broken connections | `OnlyMessages`, `NoneSkipped`, `ClosesOnlyOversize`, `EveryMessageHandled` |
| `mutexes` | 2 peers with own loops, 1 thread, 2 operations, 2 network events; `Disciplined` | `NoCircularWait`, `EverythingReturns` |
| `publish` | 1 state, 2 versions of the application and 2 sets, 3 lost connections | `CacheComplete`, `StaleOnlyByLoss`, `ReadYourWrites`, implementation of `Mirror`, `CatchesUp` |
| `clients` | 2 caches, 2 notifiers, 5 fetches; `AsIntended` | `NoDanglingCallback`, `SilentAfterStop` |
| `routing` | 2 devices, one of them flaky, 2 restarts, 1 fault | `FirstDevicesKnown`, `AppearancesCountStarts`, `AvailabilityKnown`, `ConstructorReturns` |

All also check the type invariant of their module.

Why the bounds are enough.  Two requests of two peers are enough for one to be
completed through the identifier of the other, or by the stop of the other's
peer.  Three adds cover success, refusal, an add of the same path after a lost
connection and an add of the other path that is cancelled meanwhile; routed
requests do not interact, so one is enough, and that it is answered once is proved
also for overlapping adds and adds without result callback.  Two fetches let the
error of one unregister the other.  Three messages and two broken connections put a broken message
before, between and after complete ones; sizes 0 to 3 lie on both sides of the
limit.  Two loops and a thread with two operations are enough for a circle over
the table mutex, a peer's mutex and a response, as the counterexample of
`mutexes_order` shows.  In `publish`, three losses let both connections break and
one of them again; states do not interact, so one is enough.  Five fetches let
each of four objects fetch and one notifier start again.  Two devices let one
be back while the other is not, and cancel the `Device`'s request before or after
the other is known.  All invariants, the action properties and the two refinements
are also proved without bounds (section 4).

`SentCompletes` and `SyncReturns` end where the process does (`Stuck`): it has
crashed in the unlocked error path of `execute`, or a callback called by `clear`
issues a request and waits for the mutex that `clear` holds.
`ConstructorReturns` excepts a fetch of the `Device` that could not be sent and
whose error notifier read the id of another request, or of none (`pending =
"lost"`): the constructor then waits until some peer of the process stops.  This
is the same disagreement as `requests_senderror`.

What the daemon and the peer believe of paths and fetches agrees but for what is
`dropped`: the properties say that nothing else goes wrong, and the run
`owner_cancel` below that this does.  For fetches this holds for any use of the
peer.  The other conditions are constants, and are not idle: changing one in the
configuration of the run gives a counterexample.

| Configuration | Change | What happens |
|---|---|---|
| `OwnerPeer_owner` | `Overlap = TRUE` | `ServedUnlessDropped`, `SettledAgreement`: the error of a second add of a path removes the callback of the first, which the daemon has accepted |
| | `AddCallback = {TRUE, FALSE}` | `SettledAgreement`: the failure of an add without result callback is never undone (`ServedUnlessDropped` still holds) |
| `Publish_cache` | `Serialised = FALSE` | `CacheComplete`, `ImplementsMirror`: a set request served between a change and its `notifyState` is overtaken by the older value |
| `Clients_objects` | `AsIntended = FALSE` | `NoDanglingCallback`, `SilentAfterStop`: an uninitialized, overwritten or not yet assigned `m_fetchId` |

More that the code does is part of the models, and of no property:

* A routed request with a null value for a state, or whose response exceeds the
  size limit, is never answered (`IgnoreRequest`, outcome `"unsendable"`:
  `peerasync.cpp:788`, `:837`), while `lib/README.md:12` promises an error
  response.  `AnsweredOnce` counts these requests as `ignored`.
* The stop of another peer unregisters a fetch whose request is in flight over a
  healthy connection, and the daemon establishes it for nobody: `OtherPeerStops`
  of `FetchingPeer`, as in the run `owner_cancel` for paths.
* The error notifier of a synchronous request that another peer's `clear` has just
  completed reads `m_id` of an object that is gone (`ReadId`, `NotifierReads`).
* A notifier that was never started removes, when it is stopped or destroyed, the
  fetch its uninitialized `m_fetchId` names, which may be that of another object
  (`notifier.cpp:57`; `AsIntended = FALSE`).
* `clear` in another thread, between two unlocked accesses of the error path of
  `execute`, leaves a null notifier, and using it crashes.
* The first restart of the restart test iterates over maps the event loop changes
  (`crashed`).
* `hbkProtocolAvailable` survives the loss of a device's connection, so that a
  restart counts as complete when the first device is back (`AvailabilityKnown`
  says how far it can be trusted).

Runs with a counterexample, each listed under `findings`:

| Run | Property | What happens |
|---|---|---|
| `requests_senderror` | `SendErrorReported` | the error notifier of an asynchronous request reads a dead `m_id`; the callback may never be called |
| `owner_cancel` | `OwnedIsServed` | another peer's stop cancels an add in flight over a healthy connection: the daemon accepts the path, the peer has forgotten it, and requests for it are never answered (`lib/README.md:27`) |
| `mutexes_order` | `NoCircularWait` | a state callback that adds a state with a result callback waits for the table mutex, while `clear`, in another peer's `stop`, waits for the mutex of the states; `peerasync.hpp:344` makes the latter recursive for such callbacks |
| `clients_setcbs` | `CallbacksNotRaced` | `setCbs` assigns functions the event loop is about to call; `cache.h:35` calls the class thread-safe |

Deadlock in the sense of TLC is not checked where the bounds, or a finished or
crashed process, bring the system to rest: all modules but `OwnerPeer`, in which
other peers always have something to do.  Deadlock of threads is the subject of
`Mutexes`.

### Fairness

* An event loop that is running dispatches what is pending, and code that has
  begun continues: threads are scheduled and loops do not starve.
* The daemon answers what it has received while the connection lasts; the
  connection delivers in order.
* Weak fairness of a mutex acquisition suffices because stops are bounded, so
  that no thread is overtaken for ever.
* `FetchingPeer` and `Publish` assume that the application resumes a lost
  connection: without `resume` there is nothing the library could restore.
  `Publish` also assumes that the owner's application then adds its states again,
  since `stop` forgets them, and that it calls `notifyState` for what it changes.
* `Mutexes`: an actor that is not blocked goes on, and a loop that is free handles
  responses, which the daemon always sends.
* `Routing`: the main thread and the event loop go on, and the daemon of the router
  answers the fetch.  Nothing is assumed of the timer and the devices.
* No fairness is assumed of new requests, removals, losses of the connection or
  other peers.

## 4. Proofs

`OpenRequestsProofs`, for any sets of threads, loops and peers and any bounds
(`ConstantsAssumption`: the two kinds of actors are disjoint, every peer has a
loop, the "nobody" values are outside their sets):

* `Invariance`: `IndInv` is inductive.  `ExactlyOnce` alone is not: that a
  callback is in one place depends on fresh identifiers (`Bookkeeping`), on each
  actor working on a request of its own (`ActorsOK`), on the entries the running
  `clear` has visited being marked by `todo` (`MutexOK`), and, for the removal by
  `~SyncRequest`, on the object being alive (`SyncObjectAlive`).
* `TypeCorrect`, `CompletedExactlyOnce`, `SyncRequestSafe`: its parts.  The last is
  about the callback that sets the promise, wherever it is; that the error
  notifier reads a live object is not a theorem, and not true.
* `Refinement`: `OpenRequests` implements `RequestLifecycle`; the map is
  `issued <- sid`, and only `ExecuteRegister`, `RunCallback` and `ClearCall` are
  not stutters.  That a callback is not completed twice is `ExactlyOnce`.

`ReceiverProofs`, for any maximum size, any message sizes, any number of messages
and faults (`ReceiverAssumption`: all are natural numbers):

* `Framing`: `IndInv` is inductive.  Its part `InSync` says that the buffers of a
  connected peer are in one of three situations, inside a header (`InHeader`),
  inside the data (`InData`) or at the end of a message (`AtEnd`), and what they
  then hold.
* `TypeCorrect`, `OnlyMessagesParsed`, `NoMessageSkipped`, `NoNeedlessClose`: its
  consequences, the last one an action property.  The types follow from the
  framing: the fill levels are bounded by what the header says.

`ClientsProofs`, for any sets of caches and notifiers and any number of fetches
(`ClientsAssumption`: the sets are disjoint, "no object" is outside them; and
`AsIntended`, without which the theorems are false):

* `Invariance`: `IndInv` is inductive.  What the properties need beyond
  themselves is `FetchersOK`, a registered fetch belongs to a started object that
  knows its id or is about to be told (`Assigning`), and `IdsOK`, the id of a
  stopped object has been handed out and is registered for nobody: it is never
  handed out again, so that a second `stop`, or the destructor after `stop`,
  removes no other object's fetch.  `ThreadOK` and `RunOK` say what the thread and
  the event loop are in the middle of.
* `TypeCorrect`, `NoCallbackDangles`, `StopSilences`: its consequences.

`OwnerPeerProofs`, for any paths and any number of adds, requests and lost
connections (`OwnerAssumption`: methods are paths, the rest are types):

* `Invariance`: `IndInv` has two parts.  `Serving` holds whatever the application
  does: a request the daemon waits for is in exactly one place, queue to the peer
  or queue to the daemon (`Placed`), and no change comes after the success it
  belongs to.  `Agreement` holds for an `Orderly` application, one that adds a
  path only while it is free, and speaks of the paths that are not `dropped`.
  Callers in any thread, `resume` during `stop`, error notifiers with the id of
  another add and stops of other peers are all allowed.
* The idea of `Agreement`: `ServedUnlessDropped` speaks of the daemon now, but what
  the peer forgets now matters to what the daemon does later.  So the invariant
  says of a path without callback that it is `Down`, the daemon does not believe
  the peer owns it, or a removal is the last it will hear of it, or that this
  removal is about to be sent (`Leaving`).  Only sending an add ends that, and
  while a result is awaited, add and result are in one place (`OneAdd`,
  `Waiting`).  Of adds without result callback several may be on their way; a
  removal is between any two of them (`Parted`), so the daemon never refuses this
  peer a path because of this peer.
* `TypeCorrect`, `RequestsAreAnsweredOnce`, `ChangesComeFirst` without hypothesis;
  `OwnedPathsAreServed` for an orderly application; `SettledPeersAgree` for one
  that also adds every path with a result callback, which section 3 shows to be
  necessary: nobody undoes the failure of the other adds.

`FetchingPeerProofs`, for any number of fetches, changes and lost connections
(`FetchAssumption`), and without any hypothesis on the application or on other
peers:

* `Invariance`: as above (`Agreed`, `Down`), and, since a fetch, other than a
  state, is restored by `start`: a fetch the peer knows is established, asked for,
  or about to be asked for, and nothing that ends it is on its way.  `Fresh`
  follows the value: the last notification on its way has the current one, or
  there is none and the callback has been told, or is running with it, which needs
  that nothing is delivered while `stop` still tells fetches of the loss.
* `TypeCorrect`, `EstablishedFetchesAreKnown`, `SettledFetchesAreUpToDate`: its
  consequences.  The dangling `m_id`, stops of other peers and a `resume` in the
  middle of `stop` unregister fetches, and do nothing else.

`PublishProofs`, for any finite set of states and any number of versions, set
requests and lost connections of either peer (`PublishAssumption`):

* `Invariance`: `IndInv` follows a value through owner, queue, daemon, queue and
  cache.  The last message about a state says what the next station will hold
  (`DaemonFollows`, `CacheFollows`, the latter but for removals missed over a lost
  connection), a response comes after its change (`ChangeFirst`), requests are
  numbered in the order in which they are handled (`Numbered`), and, with changes
  `Serialised`, versions grow from the cache to the owner (`Ordered`) and the
  daemon will hold what the application holds (`Latest`).
* `TypeCorrect`, `StaleEntriesWereMissed`, `ReadsItsWrites` without hypothesis;
  `CacheIsComplete` for `Serialised` applications.
* `Refinement`: with `Serialised`, `Publish` implements `Mirror`.  Every message
  the cache handles is a `Mirror` step or a stutter, because `Ordered` says that
  no version on its way is older than the latest the cache has held.

`MutexesProofs`, for any threads, loops and peers, any number of events and
operations, and any user's code with `KeepsOrder` (`MutexesAssumption`: threads
and loops are disjoint, every peer has a loop, a thread's code belongs to no
peer).  `KeepsOrder` restricts callbacks only: under a mutex of states, methods or
fetches they use their own peer and want no result; called by `stop` they use
fetches only; called by `clear` they want no result; in an event loop they do not
wait for a response.  The run `mutexes_order` shows a circle without the first of
these.

* `Invariance`: what an actor holds is not in its state but in the unlock steps it
  has still to do (`Holds`), so `IndInv` says that `held` agrees with them
  (`Owned`) and that every step of a program, not only the next, is one that may
  be done with what is held there (`Fits`, `Allowed`).  Programs are composed:
  `Runs(a, s, H)` says that whoever holds `H` may work off `s` and then holds `H`
  again, and there is one lemma per function of the library.
* `TypeCorrect`: every lock is given back; an actor that has returned holds none.
* `NobodyWaitsInACircle`: in a group whose members all wait for one another, none
  holds a mutex of callbacks, since it could only wait for another one of the same
  peer, whose holder would have to be the thread that handles this peer's message,
  which is itself; so none holds the table mutex; so all of them wait for a
  receive mutex or a response, and whoever does so holds nothing; so all are
  threads waiting for responses, but the group contains the loop that would
  handle one.

`RoutingProofs`, for any finite set of devices, any of them flaky, and any number
of restarts and faults (`RoutingAssumption`):

* `Invariance`: a device starts, goes down, and is announced and withdrawn faster
  than the tester follows, so `AppearancesCountStarts` is far from inductive: a
  withdrawal still on its way will let the device appear once more.  `Withdrawn`
  therefore assigns to every withdrawal in the inbox a down of its own, in order,
  none before the appearances so far and none after the downs the router has
  noticed (`Possible`, `Noticed`); handling it uses the number up, sending it takes
  the next.  `Announced` says that a device that never went down is known or its
  announcement is on its way, which needs `Withdrawn` too: nobody withdraws such a
  device.  `Responded` relates the fetch, sent or not, its response and the error
  notifier to the constructor of `Device`, and
  `Connected` the messages of a device's daemon to its service: a loss is among
  them, or the last one says whether the service runs (`Served`).
* `TypeCorrect`, `FirstDevicesAreKnown`, `AppearancesAreStarts`, `ServicesAreKnown`:
  its consequences.  The devices are finite because the announcements that answer
  the fetch are a sequence of them.

Queues are sequences; lemmas that say what remains true when a message is sent or
taken out (`TakenOut`, `PutAtEnd`, `WithdrawnTaken`, ...) come first in the modules
that need them.

Only model-checked: everything temporal that rests on fairness (`SentCompletes`,
`SyncReturns`, `ReachesLastValue`, `EveryMessageHandled`,
`EverythingReturns`, `CatchesUp`, `ConstructorReturns`), which is out of the
prover's reach.

## 5. What is not modelled

* `m_sid` wrapping around after 2^32 requests.
* What unlocked accesses do to the memory of a container: in `OpenRequests` only
  their order is modelled, in `Routing` only that they may be fatal.  Likewise a
  fetch callback, called by `stop`, that changes `m_fetchers` under the iteration
  over it, and the log message about a fetch its own callback has removed.
* In `OwnerPeer` and `FetchingPeer`: `clear` is one step (its callbacks one by one
  are in `OpenRequests`), the application is in one add or removal at a time, and
  the result callbacks of removals, which change nothing.  A callback of a
  notification may remove its own fetch but adds none.
* In `Publish` only the two peers of the model lose connections: stops of further
  peers in their processes are not part of it.
* An end of the restart test.  The comment at `tool/qxrouting/Routing.cpp:52` speaks
  of `restartCycles` repetitions; there is no such variable, and nothing in the
  code ends the repetition.  `MaxCycles` is a bound of the model.
* The socket, the event loop and notifiers of libhbk: external, as used here.
  The daemon: external, as its protocol is used and described in `lib/README.md`.
* JSON: parsing, batches of messages (an array is handled as a sequence of
  messages), wording of errors.  A message is what the control flow
  distinguishes.  Matchers and JSON-RPC exceptions are conversions field by
  field, without state: a model would repeat their assignments.
* Fetch requests are assumed to stay below the size limit of a message; a
  path is a state or a method, not both.
* What the results of `get`, `info` and the other requests of the client role
  contain, and the flags of a state that only the daemon interprets.
* `Peer::local` and the start and join of the worker thread of `Peer`.
* `m_cacheMtx`: a cache callback that calls `getEntry` blocks in its own thread,
  without any interleaving.
* Durations and printed text in `tool/qxrouting`, and its `setSyslog`, whose
  request has no callback.
* `lib_simulation/` and the mock, stand-ins in which every request succeeds at
  once, and the command line tools, which parse arguments around single calls;
  the value changes of `jetstate` and `measureSpeed` are those of `Publish`.

## 6. Plan

1. *Done*: `OpenRequests` with its abstract specification and proofs, `Receiver`
   with proofs, `OwnerPeer`, `FetchingPeer`.
2. *Done*: `Mutexes`; the composition `Publish` with `Mirror`; `Clients` with
   proofs; `Routing`.
3. *Done*: proofs of the safety properties of `OwnerPeer`, `FetchingPeer`,
   `Publish` with its refinement of `Mirror`, and `Mutexes`.
4. *Done*: proofs of the safety properties of `Routing`.
5. *Done*: stops of other peers, callers in any thread and the steps of `stop` in
   `OwnerPeer` and `FetchingPeer`, with their proofs; the unlocked read of the
   error notifier in `OpenRequests`; `Routing` from before the fetch.
