------------------------------ MODULE Clients ------------------------------
(***************************************************************************)
(* The objects of tool/cache.cpp and tool/notifier.cpp that share a peer.  *)
(*                                                                         *)
(* Each object binds its own fetchCb to a fetch of the peer and removes    *)
(* the fetch when it is destroyed.  One thread of the application creates, *)
(* uses and destroys objects while the event loop runs their callbacks     *)
(* under m_mtx_fetchers.  m_fetchId of a notifier is not initialized       *)
(* before start(): what it holds until then is any number.                 *)
(* What a cache holds is the subject of Publish.                           *)
(***************************************************************************)
EXTENDS Integers

CONSTANTS
    Caches, Notifiers,  \* the objects
    MaxFetches,         \* bound: number of fetches
    AsIntended,         \* TRUE: a notifier is started before it is stopped or destroyed,
                        \* not started again before it is stopped, and its callbacks call
                        \* stop() only when start() has returned
    NoObject

Objects == Caches \cup Notifiers
Ids == 1 .. MaxFetches

ASSUME ClientsAssumption ==
    /\ Caches \cap Notifiers = {}
    /\ NoObject \notin Objects
    /\ MaxFetches \in Nat
    /\ AsIntended \in BOOLEAN

VARIABLES
    life,       \* an object: "none", "alive", "dead"
    stage,      \* its fetch as its user sees it: "new", "started", "stopped"
    fetchId,    \* m_fetchId
    hasCbs,     \* caches whose callbacks have been set
    fetchers,   \* m_fetchers: the object whose fetchCb is bound to a fetch id
    lastId,     \* m_sfetchId
    thread,     \* what the thread of the application is doing, with which object
    run         \* the callback the event loop is in, under m_mtx_fetchers

vars == <<life, stage, fetchId, hasCbs, fetchers, lastId, thread, run>>

Idle == [do |-> "idle", obj |-> NoObject, id |-> 0]
NoRun == [step |-> "none", obj |-> NoObject]

Init ==
    /\ life = [o \in Objects |-> "none"]
    /\ stage = [o \in Objects |-> "new"]
    /\ fetchId = [o \in Objects |-> 0]
    /\ hasCbs = {}
    /\ fetchers = [f \in Ids |-> NoObject]
    /\ lastId = 0
    /\ thread = Idle
    /\ run = NoRun

\* Faulty variant: fetches are added and removed without the mutex.
NoMutex == TRUE

\* m_mtx_fetchers can be taken by the thread of the application.
MutexFree == run = NoRun

-----------------------------------------------------------------------------
(* The thread of the application *)

\* addFetchAsync: a new id, and the callback of o is registered.  The id has
\* still to be returned and assigned to m_fetchId.
AddFetch(o) ==
    /\ MutexFree
    /\ lastId < MaxFetches
    /\ lastId' = lastId + 1
    /\ fetchers' = [fetchers EXCEPT ![lastId + 1] = o]
    /\ thread' = [do |-> "assign", obj |-> o, id |-> lastId + 1]

\* removeFetchAsync(m_fetchId).
RemoveFetch(o) ==
    fetchers' = [f \in Ids |-> IF f = fetchId[o] THEN NoObject ELSE fetchers[f]]

\* cache::cache
ConstructCache(c) ==
    /\ thread = Idle
    /\ life[c] = "none"
    /\ AddFetch(c)
    /\ life' = [life EXCEPT ![c] = "alive"]
    /\ stage' = [stage EXCEPT ![c] = "started"]
    /\ UNCHANGED <<fetchId, hasCbs, run>>

\* notifier::notifier leaves m_fetchId as the memory it finds, f.
ConstructNotifier(n, f) ==
    /\ thread = Idle
    /\ life[n] = "none"
    /\ life' = [life EXCEPT ![n] = "alive"]
    /\ fetchId' = [fetchId EXCEPT ![n] = f]
    /\ UNCHANGED <<stage, hasCbs, fetchers, lastId, thread, run>>

\* notifier::start: the callbacks are set and the fetch is added.
NotifierStart(n) ==
    /\ thread = Idle
    /\ life[n] = "alive"
    /\ AsIntended => stage[n] # "started"
    /\ AddFetch(n)
    /\ stage' = [stage EXCEPT ![n] = "started"]
    /\ UNCHANGED <<life, fetchId, hasCbs, run>>

\* addFetchAsync has returned.
AssignFetchId ==
    /\ thread.do = "assign"
    /\ fetchId' = [fetchId EXCEPT ![thread.obj] = thread.id]
    /\ thread' = Idle
    /\ UNCHANGED <<life, stage, hasCbs, fetchers, lastId, run>>

\* notifier::stop
NotifierStop(n) ==
    /\ thread = Idle
    /\ life[n] = "alive"
    /\ AsIntended => stage[n] # "new"
    /\ MutexFree
    /\ RemoveFetch(n)
    /\ stage' = [stage EXCEPT ![n] = "stopped"]
    /\ UNCHANGED <<life, fetchId, hasCbs, lastId, thread, run>>

\* cache::setCbs assigns three functions, without a mutex.
SetCbsBegins(c) ==
    /\ thread = Idle
    /\ life[c] = "alive"
    /\ thread' = [do |-> "setCbs", obj |-> c, id |-> 0]
    /\ UNCHANGED <<life, stage, fetchId, hasCbs, fetchers, lastId, run>>

SetCbsEnds ==
    /\ thread.do = "setCbs"
    /\ hasCbs' = hasCbs \cup {thread.obj}
    /\ thread' = Idle
    /\ UNCHANGED <<life, stage, fetchId, fetchers, lastId, run>>

MayDestroy(o) == life[o] = "alive" /\ (AsIntended => stage[o] # "new")

\* Faulty variant: the fetch is left to the peer.
DestroyKeepsFetch(o) ==
    /\ thread = Idle
    /\ MayDestroy(o)
    /\ life' = [life EXCEPT ![o] = "dead"]
    /\ stage' = [stage EXCEPT ![o] = "stopped"]
    /\ UNCHANGED <<fetchId, hasCbs, fetchers, lastId, thread, run>>

\* cache::~cache and notifier::~notifier
Destroy(o) ==
    /\ thread = Idle
    /\ MayDestroy(o)
    /\ MutexFree
    /\ RemoveFetch(o)
    /\ life' = [life EXCEPT ![o] = "dead"]
    /\ stage' = [stage EXCEPT ![o] = "stopped"]
    /\ UNCHANGED <<fetchId, hasCbs, lastId, thread, run>>

-----------------------------------------------------------------------------
(* The event loop *)

\* Faulty variant: the fetch id is not looked up first.
NotificationUnchecked(f, status) ==
    /\ run = NoRun
    /\ run' = [step |-> IF status = 0 THEN "fetchCb" ELSE "end", obj |-> fetchers[f]]
    /\ UNCHANGED <<life, stage, fetchId, hasCbs, fetchers, lastId, thread>>

\* A notification, or with status -1 the lost connection, which fetchCb ignores.
\* A notification for an id that is not registered is dropped.
Notification(f, status) ==
    /\ run = NoRun
    /\ fetchers[f] # NoObject
    /\ run' = [step |-> IF status = 0 THEN "fetchCb" ELSE "end", obj |-> fetchers[f]]
    /\ UNCHANGED <<life, stage, fetchId, hasCbs, fetchers, lastId, thread>>

\* fetchCb calls the callback of the user, if the cache has one.  (A notifier
\* calls an empty callback too; the exception is caught by the peer.)
UserCallbackBegins ==
    /\ run.step = "fetchCb"
    /\ run' = [run EXCEPT !.step =
                    IF run.obj \in Notifiers \cup hasCbs THEN "user" ELSE "end"]
    /\ UNCHANGED <<life, stage, fetchId, hasCbs, fetchers, lastId, thread>>

\* The callback of the user stops the notifier that calls it ...
CallbackStops ==
    /\ run.step = "user"
    /\ run.obj \in Notifiers
    /\ AsIntended => thread.obj # run.obj
    /\ RemoveFetch(run.obj)
    /\ stage' = [stage EXCEPT ![run.obj] = "stopped"]
    /\ run' = [run EXCEPT !.step = "end"]
    /\ UNCHANGED <<life, fetchId, hasCbs, lastId, thread>>

\* ... or destroys another object, which the thread is not using.
CallbackDestroys(o) ==
    /\ run.step = "user"
    /\ o # run.obj /\ o # thread.obj
    /\ MayDestroy(o)
    /\ RemoveFetch(o)
    /\ life' = [life EXCEPT ![o] = "dead"]
    /\ stage' = [stage EXCEPT ![o] = "stopped"]
    /\ run' = [run EXCEPT !.step = "end"]
    /\ UNCHANGED <<fetchId, hasCbs, lastId, thread>>

\* The callback returns, and the mutex is released.
NotificationEnds ==
    /\ run.step \in {"user", "end"}
    /\ run' = NoRun
    /\ UNCHANGED <<life, stage, fetchId, hasCbs, fetchers, lastId, thread>>

-----------------------------------------------------------------------------
Application ==
    \/ \E c \in Caches : ConstructCache(c) \/ SetCbsBegins(c)
    \/ \E n \in Notifiers, f \in 0 .. MaxFetches : ConstructNotifier(n, f)
    \/ \E n \in Notifiers : NotifierStart(n) \/ NotifierStop(n)
    \/ AssignFetchId \/ SetCbsEnds
    \/ \E o \in Objects : Destroy(o)

EventLoop ==
    \/ \E f \in Ids, status \in {0, -1} : Notification(f, status)
    \/ UserCallbackBegins \/ CallbackStops \/ NotificationEnds
    \/ \E o \in Objects : CallbackDestroys(o)

Next == Application \/ EventLoop

Spec == Init /\ [][Next]_vars

-----------------------------------------------------------------------------
(* Properties *)

\* The variables stay in their types, only ids that were handed out are
\* registered, and a callback in progress is the callback of an object.
TypeOK ==
    /\ life \in [Objects -> {"none", "alive", "dead"}]
    /\ stage \in [Objects -> {"new", "started", "stopped"}]
    /\ fetchId \in [Objects -> 0 .. MaxFetches]
    /\ hasCbs \subseteq Caches
    /\ fetchers \in [Ids -> Objects \cup {NoObject}]
    /\ lastId \in 0 .. MaxFetches
    /\ \A f \in Ids : f > lastId => fetchers[f] = NoObject
    /\ thread \in [do : {"idle", "assign", "setCbs"}, obj : Objects \cup {NoObject}, id : 0 .. lastId]
    /\ run \in [step : {"fetchCb", "user", "end"}, obj : Objects] \cup {NoRun}

\* The bound functions hold "this" of an object: none of them is registered or
\* running when the object is gone, whoever destroys it and when.
NoDanglingCallback ==
    /\ \A f \in Ids : fetchers[f] # NoObject => life[fetchers[f]] = "alive"
    /\ run.obj # NoObject => life[run.obj] = "alive"

\* When stop() has returned, fetchCb is not running and is not called again;
\* the call that stopped the notifier from within is on its way out.
SilentAfterStop ==
    \A o \in Objects : stage[o] = "stopped" =>
        /\ \A f \in Ids : fetchers[f] # o
        /\ run.obj = o => run.step = "end"

-----------------------------------------------------------------------------
(* What a comment of the code says, and the code does not do *)

\* cache.h: "class is thread-safe": setCbs() does not assign a function that the
\* event loop is about to call or calling.
CallbacksNotRaced == ~(thread.do = "setCbs" /\ run.obj = thread.obj /\ run.step \in {"fetchCb", "user"})
=============================================================================
