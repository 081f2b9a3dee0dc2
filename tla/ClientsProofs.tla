--------------------------- MODULE ClientsProofs ---------------------------
(***************************************************************************)
(* Proofs about Clients, for any number of caches, notifiers and fetches:  *)
(* if notifiers are used as intended, no callback outlives its object, no  *)
(* object loses its fetch to another one, and stop() silences a notifier.  *)
(***************************************************************************)
EXTENDS Clients, TLAPS

\* The thread is inside addFetchAsync() for o: m_fetchId is about to be assigned.
Assigning(o) == thread.do = "assign" /\ thread.obj = o

\* What an object has lived through fits to what has been done with its fetch.
LifeOK ==
    \A o \in Objects :
        /\ stage[o] = "started" => life[o] = "alive"
        /\ life[o] = "none" => stage[o] = "new"

\* A registered fetch belongs to an object that is started and knows its id, or
\* is about to.
FetchersOK ==
    \A f \in Ids : fetchers[f] # NoObject =>
        /\ stage[fetchers[f]] = "started"
        /\ IF Assigning(fetchers[f]) THEN thread.id = f ELSE fetchId[fetchers[f]] = f

\* The id of a started object is that of its fetch; the id of one that was
\* stopped is that of no fetch, and will not be: ids are not used twice.
IdsOK ==
    \A o \in Objects :
        /\ stage[o] = "started" /\ ~Assigning(o) => fetchId[o] \in Ids /\ fetchers[fetchId[o]] = o
        /\ stage[o] = "stopped" => fetchId[o] \in 1 .. lastId /\ fetchers[fetchId[o]] = NoObject

\* The thread uses an object that is alive, and has registered what it will assign.
ThreadOK ==
    /\ thread.do = "idle" => thread = Idle
    /\ thread.do # "idle" => thread.obj \in Objects
    /\ thread.do = "setCbs" => thread.obj \in Caches
    /\ thread.do = "assign" => /\ thread.id \in 1 .. lastId
                               /\ fetchers[thread.id] = thread.obj

\* A callback that runs belongs to an object that is alive; unless it is on its
\* way out, the object is started.
RunOK ==
    run # NoRun => /\ life[run.obj] = "alive"
                   /\ stage[run.obj] = "started" \/ run.step = "end"

IndInv == TypeOK /\ LifeOK /\ FetchersOK /\ IdsOK /\ ThreadOK /\ RunOK
-----------------------------------------------------------------------------
(* IndInv is inductive *)

\* At the beginning there is no object.
LEMMA InitInv == Init => IndInv
  BY ClientsAssumption
     DEF Init, IndInv, TypeOK, LifeOK, FetchersOK, IdsOK, ThreadOK, RunOK,
         Assigning, Ids, Objects, Idle, NoRun

\* A new cache gets an id that nobody has had, and its callback is the only one there.
LEMMA ConstructCacheInv ==
  ASSUME AsIntended, IndInv, NEW c \in Caches,
         ConstructCache(c)
  PROVE  IndInv'
  BY ClientsAssumption
     DEF ConstructCache, AddFetch, MutexFree,
         IndInv, TypeOK, LifeOK, FetchersOK, IdsOK, ThreadOK, RunOK,
         Assigning, Ids, Objects, Idle, NoRun

\* A notifier that is started was not: its old id, if any, is that of no fetch.
LEMMA NotifierStartInv ==
  ASSUME AsIntended, IndInv, NEW n \in Notifiers,
         NotifierStart(n)
  PROVE  IndInv'
  BY ClientsAssumption
     DEF NotifierStart, AddFetch, MutexFree,
         IndInv, TypeOK, LifeOK, FetchersOK, IdsOK, ThreadOK, RunOK,
         Assigning, Ids, Objects, Idle, NoRun

\* The number a new notifier finds in m_fetchId does not matter yet.
LEMMA ConstructNotifierInv ==
  ASSUME AsIntended, IndInv, NEW n \in Notifiers, NEW f \in 0 .. MaxFetches,
         ConstructNotifier(n, f)
  PROVE  IndInv'
  BY ClientsAssumption
     DEF ConstructNotifier,
         IndInv, TypeOK, LifeOK, FetchersOK, IdsOK, ThreadOK, RunOK,
         Assigning, Ids, Objects, Idle, NoRun

\* addFetchAsync() returns: the object knows its id.
LEMMA AssignFetchIdInv ==
  ASSUME AsIntended, IndInv, AssignFetchId
  PROVE  IndInv'
  BY ClientsAssumption
     DEF AssignFetchId,
         IndInv, TypeOK, LifeOK, FetchersOK, IdsOK, ThreadOK, RunOK,
         Assigning, Ids, Objects, Idle, NoRun

\* stop() removes the fetch of this notifier, or, the second time, nothing.
LEMMA NotifierStopInv ==
  ASSUME AsIntended, IndInv, NEW n \in Notifiers,
         NotifierStop(n)
  PROVE  IndInv'
  BY ClientsAssumption
     DEF NotifierStop, RemoveFetch, MutexFree,
         IndInv, TypeOK, LifeOK, FetchersOK, IdsOK, ThreadOK, RunOK,
         Assigning, Ids, Objects, Idle, NoRun

\* A destructor waits for a callback that is running and removes the fetch.
LEMMA DestroyInv ==
  ASSUME AsIntended, IndInv, NEW o \in Objects,
         Destroy(o)
  PROVE  IndInv'
  BY ClientsAssumption
     DEF Destroy, MayDestroy, RemoveFetch, MutexFree,
         IndInv, TypeOK, LifeOK, FetchersOK, IdsOK, ThreadOK, RunOK,
         Assigning, Ids, Objects, Idle, NoRun

\* setCbs() changes no fetch.
LEMMA SetCbsBeginsInv ==
  ASSUME AsIntended, IndInv, NEW c \in Caches,
         SetCbsBegins(c)
  PROVE  IndInv'
  BY ClientsAssumption
     DEF SetCbsBegins,
         IndInv, TypeOK, LifeOK, FetchersOK, IdsOK, ThreadOK, RunOK,
         Assigning, Ids, Objects, Idle, NoRun

\* The callbacks of a cache are set.
LEMMA SetCbsEndsInv ==
  ASSUME AsIntended, IndInv, SetCbsEnds
  PROVE  IndInv'
  BY ClientsAssumption
     DEF SetCbsEnds,
         IndInv, TypeOK, LifeOK, FetchersOK, IdsOK, ThreadOK, RunOK,
         Assigning, Ids, Objects, Idle, NoRun

\* A callback that is called is registered, so that its object is alive.
LEMMA NotificationInv ==
  ASSUME AsIntended, IndInv, NEW f \in Ids, NEW status \in {0, -1},
         Notification(f, status)
  PROVE  IndInv'
  BY ClientsAssumption
     DEF Notification,
         IndInv, TypeOK, LifeOK, FetchersOK, IdsOK, ThreadOK, RunOK,
         Assigning, Ids, Objects, Idle, NoRun

\* fetchCb() goes on to the callback of the user.
LEMMA UserCallbackBeginsInv ==
  ASSUME AsIntended, IndInv, UserCallbackBegins
  PROVE  IndInv'
  BY ClientsAssumption
     DEF UserCallbackBegins,
         IndInv, TypeOK, LifeOK, FetchersOK, IdsOK, ThreadOK, RunOK,
         Assigning, Ids, Objects, Idle, NoRun

\* A callback that stops its notifier is on its way out; m_fetchId has been assigned.
LEMMA CallbackStopsInv ==
  ASSUME AsIntended, IndInv, CallbackStops
  PROVE  IndInv'
  BY ClientsAssumption
     DEF CallbackStops, RemoveFetch,
         IndInv, TypeOK, LifeOK, FetchersOK, IdsOK, ThreadOK, RunOK,
         Assigning, Ids, Objects, Idle, NoRun

\* A callback that destroys another object removes the fetch of that object only.
LEMMA CallbackDestroysInv ==
  ASSUME AsIntended, IndInv, NEW o \in Objects,
         CallbackDestroys(o)
  PROVE  IndInv'
  <1> USE ClientsAssumption
      DEF CallbackDestroys, MayDestroy, RemoveFetch,
          IndInv, TypeOK, LifeOK, FetchersOK, IdsOK, ThreadOK, RunOK,
          Assigning, Ids, Objects, Idle, NoRun
  <1>1. TypeOK'
    OBVIOUS
  <1>2. LifeOK'
    OBVIOUS
  <1>3. FetchersOK'
    OBVIOUS
  <1>4. IdsOK'
    OBVIOUS
  <1>5. ThreadOK'
    OBVIOUS
  <1>6. RunOK'
    OBVIOUS
  <1>7. QED
    BY <1>1, <1>2, <1>3, <1>4, <1>5, <1>6

\* The mutex is released.
LEMMA NotificationEndsInv ==
  ASSUME AsIntended, IndInv, NotificationEnds
  PROVE  IndInv'
  BY ClientsAssumption
     DEF NotificationEnds,
         IndInv, TypeOK, LifeOK, FetchersOK, IdsOK, ThreadOK, RunOK,
         Assigning, Ids, Objects, Idle, NoRun

\* Everything else is a step that changes nothing.
LEMMA StutterInv ==
  ASSUME IndInv, UNCHANGED vars
  PROVE  IndInv'
  BY DEF vars, IndInv, TypeOK, LifeOK, FetchersOK, IdsOK, ThreadOK, RunOK,
         Assigning, Ids, Objects, Idle, NoRun

\* IndInv holds always, if notifiers are used as intended: the strengthening of
\* the properties below by which the ids of stopped objects are not used again.
THEOREM Invariance ==
  ASSUME AsIntended
  PROVE  Spec => []IndInv
<1>1. Init => IndInv
  BY InitInv
<1>2. IndInv /\ [Next]_vars => IndInv'
  <2> SUFFICES ASSUME IndInv, [Next]_vars
               PROVE  IndInv'
    OBVIOUS
  <2>1. CASE Application
    BY <2>1, ConstructCacheInv, SetCbsBeginsInv, ConstructNotifierInv, NotifierStartInv,
       NotifierStopInv, AssignFetchIdInv, SetCbsEndsInv, DestroyInv DEF Application
  <2>2. CASE EventLoop
    BY <2>2, NotificationInv, UserCallbackBeginsInv, CallbackStopsInv, NotificationEndsInv,
       CallbackDestroysInv DEF EventLoop
  <2>3. CASE UNCHANGED vars
    BY <2>3, StutterInv
  <2>4. QED
    BY <2>1, <2>2, <2>3 DEF Next
<1>3. QED
  BY <1>1, <1>2, PTL DEF Spec

\* The variables stay in their types.
THEOREM TypeCorrect ==
  ASSUME AsIntended
  PROVE  Spec => []TypeOK
<1>1. IndInv => TypeOK
  BY DEF IndInv
<1>2. QED
  BY <1>1, Invariance, PTL

\* fetchCb() of an object is neither registered nor running when it is gone.
THEOREM NoCallbackDangles ==
  ASSUME AsIntended
  PROVE  Spec => []NoDanglingCallback
<1>1. IndInv => NoDanglingCallback
  BY ClientsAssumption
     DEF NoDanglingCallback, IndInv, TypeOK, LifeOK, FetchersOK, RunOK, Ids, NoRun
<1>2. QED
  BY <1>1, Invariance, PTL

\* When stop() has returned, fetchCb() is not running and is not called again.
THEOREM StopSilences ==
  ASSUME AsIntended
  PROVE  Spec => []SilentAfterStop
<1>1. IndInv => SilentAfterStop
  BY ClientsAssumption
     DEF SilentAfterStop, IndInv, TypeOK, FetchersOK, RunOK, Ids, NoRun
<1>2. QED
  BY <1>1, Invariance, PTL
=============================================================================
