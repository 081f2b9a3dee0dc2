------------------------------ MODULE Publish ------------------------------
(***************************************************************************)
(* From the owner of a state to the copy in another process: a peer that   *)
(* owns states (lib/peerasync.cpp, notifyState of jet/peerasync.hpp), the  *)
(* jet daemon, and a fetching peer with a cache (tool/cache.cpp) whose     *)
(* application also sets states.                                           *)
(*                                                                         *)
(* Each connection is a pair of queues and may be lost.  The daemon then   *)
(* removes the states of the owner, or forgets the fetch; the owning peer  *)
(* forgets its states, and its application adds them again; the fetching   *)
(* peer restores its fetch, and its cache keeps what it has.               *)
(* A value is the number of its version.                                   *)
(***************************************************************************)
EXTENDS Integers, Sequences, SequencesExt

CONSTANTS
    Paths,          \* the states
    MaxVersion,     \* bound: versions the application of the owner makes of a state
    MaxSets,        \* bound: set requests
    MaxLosses,      \* bound: lost connections
    Serialised      \* TRUE: the application of the owner does not serve a set request
                    \* between changing a value and calling notifyState for it

ASSUME PublishAssumption ==
    /\ IsFiniteSet(Paths)
    /\ MaxVersion \in Nat /\ MaxSets \in Nat /\ MaxLosses \in Nat
    /\ Serialised \in BOOLEAN

VARIABLES
    version,        \* number of versions of a state so far
    own,            \* the value the owner's application holds, 0: the state does not exist
    registered,     \* keys of m_stateCallbacks of the owner
    unsent,         \* states whose new value has still to be notified
    oconn, toDaemon, toOwner,   \* the connection of the owner
    value,          \* the value the daemon holds, 0: none
    fetched,        \* the daemon has established the fetch of the cache
    routed,         \* set requests the daemon waits for the owner to answer
    fconn, fromCache, toCache,  \* the connection of the fetching peer
    cache,          \* m_cache: the value of a path, 0: no entry
    sets,           \* number of set requests
    losses,         \* number of lost connections
    mark,           \* history: the latest version the cache has held
    missed          \* history: states removed when the cache could not be told

owner == <<version, own, registered, unsent>>
olink == <<oconn, toDaemon, toOwner>>
daemon == <<value, fetched, routed>>
flink == <<fconn, fromCache, toCache>>
copy == <<cache, mark, missed>>
vars == <<owner, olink, daemon, flink, copy, sets, losses>>

\* A message about path p: v is a version, n the number of a set request.
Msg(t, p, v, n) == [type |-> t, path |-> p, v |-> v, n |-> n]
FetchMsg == [type |-> "fetch"]

Init ==
    /\ version = [p \in Paths |-> 0]
    /\ own = [p \in Paths |-> 0]
    /\ registered = {}
    /\ unsent = {}
    /\ oconn = TRUE /\ toDaemon = <<>> /\ toOwner = <<>>
    /\ value = [p \in Paths |-> 0]
    /\ fetched = FALSE
    /\ routed = {}
    /\ fconn = TRUE /\ fromCache = <<FetchMsg>> /\ toCache = <<>>   \* cache::cache
    /\ cache = [p \in Paths |-> 0]
    /\ sets = 0
    /\ losses = 0
    /\ mark = [p \in Paths |-> 0]
    /\ missed = {}

-----------------------------------------------------------------------------
(* The owner *)

\* Faulty variant: a message overtakes those that are waiting to be sent.
OwnerSendsAhead(ms) == toDaemon' = IF oconn THEN ms \o toDaemon ELSE toDaemon

\* sendMessage over the owner's connection; without connection it throws.
OwnerSends(ms) == toDaemon' = IF oconn THEN toDaemon \o ms ELSE toDaemon

\* The application takes a new value (setCb of tool/jetstate.cpp).
NewVersion(p) ==
    /\ version' = [version EXCEPT ![p] = @ + 1]
    /\ own' = [own EXCEPT ![p] = version[p] + 1]

\* addStateAsync of a new state, or of one that was added before the connection
\* was lost.  (Adding without connection is the subject of OwnerPeer.)
AddState(p) ==
    /\ oconn
    /\ unsent = {} /\ p \notin registered
    /\ \/ own[p] = 0 /\ version[p] < MaxVersion /\ NewVersion(p)
       \/ own[p] # 0 /\ UNCHANGED <<version, own>>
    /\ registered' = registered \cup {p}
    /\ OwnerSends(<<Msg("add", p, own'[p], 0)>>)
    /\ UNCHANGED <<unsent, oconn, toOwner, daemon, flink, copy, sets, losses>>

\* Faulty variant: the callback stays registered.
RemoveStateKeepsCallback(p) ==
    /\ unsent = {} /\ own[p] # 0
    /\ own' = [own EXCEPT ![p] = 0]
    /\ OwnerSends(<<Msg("remove", p, 0, 0)>>)
    /\ UNCHANGED <<version, registered, unsent, oconn, toOwner, daemon, flink, copy, sets, losses>>

\* removeStateAsync: the state ceases to exist.
RemoveState(p) ==
    /\ unsent = {} /\ own[p] # 0
    /\ own' = [own EXCEPT ![p] = 0]
    /\ registered' = registered \ {p}
    /\ OwnerSends(<<Msg("remove", p, 0, 0)>>)
    /\ UNCHANGED <<version, unsent, oconn, toOwner, daemon, flink, copy, sets, losses>>

\* The application changes the value of a state (tool/measureSpeed.cpp does it in
\* a loop) ...
ChangeValue(p) ==
    /\ unsent = {} /\ own[p] # 0 /\ version[p] < MaxVersion
    /\ NewVersion(p)
    /\ unsent' = {<<p, version[p] + 1>>}
    /\ UNCHANGED <<registered, olink, daemon, flink, copy, sets, losses>>

\* Faulty variant: the change is not sent.
NotifyNothing(p, v) ==
    /\ <<p, v>> \in unsent
    /\ unsent' = {}
    /\ UNCHANGED <<version, own, registered, olink, daemon, flink, copy, sets, losses>>

\* ... and calls notifyState, which sends the value it is given, or returns -1.
NotifyState(p, v) ==
    /\ <<p, v>> \in unsent
    /\ unsent' = {}
    /\ OwnerSends(<<Msg("change", p, v, 0)>>)
    /\ UNCHANGED <<version, own, registered, oconn, toOwner, daemon, flink, copy, sets, losses>>

\* Faulty variant: the response is sent first.
ServedReversed(p, v, n) == <<Msg("result", p, v, n), Msg("change", p, v, n)>>

\* What handleMessage sends after the callback has set value v.
Served(p, v, n) == <<Msg("change", p, v, n), Msg("result", p, v, n)>>

\* handleMessage: the state callback takes a new value, and the peer notifies the
\* change and responds; or it refuses the value, or stays with the one it has, and
\* the peer only responds.  A request for a state that is not registered is dropped.
HandleSet ==
    /\ oconn /\ toOwner # <<>>
    /\ Serialised => unsent = {}
    /\ LET m == Head(toOwner) IN
       \/ /\ m.path \in registered
          /\ NewVersion(m.path)
          /\ OwnerSends(Served(m.path, version[m.path] + 1, m.n))
       \/ /\ m.path \in registered
          /\ OwnerSends(<<Msg("result", m.path, 0, m.n)>>)
          /\ UNCHANGED <<version, own>>
       \/ m.path \notin registered /\ UNCHANGED <<version, own, toDaemon>>
    /\ toOwner' = Tail(toOwner)
    /\ UNCHANGED <<registered, unsent, oconn, daemon, flink, copy, sets, losses>>

-----------------------------------------------------------------------------
(* The daemon *)

\* Every event goes to the cache, if its fetch is established.
Event(t, p, v) ==
    toCache' = IF fetched THEN Append(toCache, Msg(t, p, v, 0)) ELSE toCache

DaemonHandlesOwner ==
    /\ toDaemon # <<>>
    /\ toDaemon' = Tail(toDaemon)
    /\ LET m == Head(toDaemon)
           exists == value[m.path] # 0
       IN
       \/ /\ m.type = "result"
          /\ toCache' = IF m.n \in routed THEN Append(toCache, m) ELSE toCache
          /\ routed' = routed \ {m.n}
          /\ UNCHANGED <<value, missed>>
       \/ /\ m.type # "result" /\ (exists <=> m.type # "add")
          /\ value' = [value EXCEPT ![m.path] = m.v]
          /\ Event(m.type, m.path, m.v)
          /\ missed' = IF m.type = "remove" /\ ~fetched THEN missed \cup {m.path} ELSE missed
          /\ UNCHANGED routed
       \/ /\ m.type # "result" /\ ~(exists <=> m.type # "add")
          /\ UNCHANGED <<value, toCache, missed, routed>>
    /\ UNCHANGED <<owner, oconn, toOwner, fetched, fconn, fromCache, cache, mark, sets, losses>>

DaemonHandlesFetch ==
    /\ fromCache # <<>> /\ Head(fromCache).type = "fetch"
    /\ fromCache' = Tail(fromCache)
    /\ fetched' = TRUE
    /\ toCache' = toCache \o SetToSeq({Msg("add", p, value[p], 0) : p \in {q \in Paths : value[q] # 0}})
    /\ UNCHANGED <<owner, olink, value, routed, fconn, copy, sets, losses>>

\* A set request is routed to the owner of the state; without one it fails.
DaemonHandlesSet ==
    /\ fromCache # <<>> /\ Head(fromCache).type = "set"
    /\ fromCache' = Tail(fromCache)
    /\ LET m == Head(fromCache) IN
       IF value[m.path] # 0
       THEN toOwner' = Append(toOwner, m) /\ routed' = routed \cup {m.n} /\ UNCHANGED toCache
       ELSE toCache' = Append(toCache, Msg("result", m.path, 0, m.n)) /\ UNCHANGED <<toOwner, routed>>
    /\ UNCHANGED <<owner, oconn, toDaemon, value, fetched, fconn, copy, sets, losses>>

-----------------------------------------------------------------------------
(* The fetching peer *)

\* The application sets a state.
SetStateValue(p) ==
    /\ fconn /\ sets < MaxSets
    /\ sets' = sets + 1
    /\ fromCache' = Append(fromCache, Msg("set", p, 0, sets + 1))
    /\ UNCHANGED <<owner, olink, daemon, fconn, toCache, copy, losses>>

\* Faulty variant: only changes of known entries are taken over, nothing is erased.
EntryNeverErased(m) == IF m.type = "remove" THEN cache[m.path] ELSE m.v

\* What fetchCb makes of the entry of a path.
Entry(m) == IF m.type = "remove" THEN 0 ELSE m.v

\* cache::fetchCb for an add, change or remove event.
FetchCb ==
    /\ fconn /\ toCache # <<>> /\ Head(toCache).type # "result"
    /\ LET m == Head(toCache) IN
       /\ cache' = [cache EXCEPT ![m.path] = Entry(m)]
       /\ mark' = [mark EXCEPT ![m.path] = IF m.v > @ THEN m.v ELSE @]
       /\ missed' = missed \ {m.path}
    /\ toCache' = Tail(toCache)
    /\ UNCHANGED <<owner, olink, daemon, fconn, fromCache, sets, losses>>

\* The response to a set request reaches the application.
SetResult ==
    /\ fconn /\ toCache # <<>> /\ Head(toCache).type = "result"
    /\ toCache' = Tail(toCache)
    /\ UNCHANGED <<owner, olink, daemon, fconn, fromCache, copy, sets, losses>>

-----------------------------------------------------------------------------
(* Lost connections *)

\* The owner's peer stops and forgets its states, the daemon removes them.
OwnerLost ==
    LET gone == {p \in Paths : value[p] # 0} IN
    /\ oconn /\ losses < MaxLosses
    /\ losses' = losses + 1
    /\ oconn' = FALSE /\ toDaemon' = <<>> /\ toOwner' = <<>>
    /\ registered' = {}
    /\ value' = [p \in Paths |-> 0]
    /\ toCache' = toCache \o (IF fetched THEN SetToSeq({Msg("remove", p, 0, 0) : p \in gone}) ELSE <<>>)
    /\ missed' = IF fetched THEN missed ELSE missed \cup gone
    /\ UNCHANGED <<version, own, unsent, fetched, routed, fconn, fromCache, cache, mark, sets>>

OwnerResumes ==
    /\ ~oconn
    /\ oconn' = TRUE
    /\ UNCHANGED <<owner, toDaemon, toOwner, daemon, flink, copy, sets, losses>>

\* The fetching peer stops: fetchCb is called with status -1 and does nothing.
\* The daemon forgets the fetch and where the responses of its requests go.
CacheLost ==
    /\ fconn /\ losses < MaxLosses
    /\ losses' = losses + 1
    /\ fconn' = FALSE /\ fromCache' = <<>> /\ toCache' = <<>>
    /\ fetched' = FALSE
    /\ routed' = {}
    /\ missed' = missed \cup {p \in Paths : \E k \in DOMAIN toCache :
                                  toCache[k].type = "remove" /\ toCache[k].path = p}
    /\ UNCHANGED <<owner, olink, value, cache, mark, sets>>

\* Faulty variant: the fetch is not restored.
RestoreNothing == <<>>

\* start() restores the fetch.
Restore == <<FetchMsg>>

CacheResumes ==
    /\ ~fconn
    /\ fconn' = TRUE
    /\ fromCache' = Restore
    /\ UNCHANGED <<owner, olink, daemon, toCache, copy, sets, losses>>

-----------------------------------------------------------------------------
NotifyChange == \E p \in Paths : \E v \in 1 .. version[p] : NotifyState(p, v)

Daemon == DaemonHandlesOwner \/ DaemonHandlesFetch \/ DaemonHandlesSet

FetchingPeerLoop == FetchCb \/ SetResult

Next ==
    \/ \E p \in Paths : AddState(p) \/ RemoveState(p) \/ ChangeValue(p) \/ SetStateValue(p)
    \/ NotifyChange \/ HandleSet
    \/ Daemon
    \/ FetchingPeerLoop
    \/ OwnerLost \/ OwnerResumes \/ CacheLost \/ CacheResumes

Spec == Init /\ [][Next]_vars

\* Everybody handles what has arrived; lost connections are resumed, and then
\* the application of the owner adds its states again.
Fairness ==
    /\ WF_vars(NotifyChange) /\ WF_vars(HandleSet)
    /\ WF_vars(Daemon) /\ WF_vars(FetchingPeerLoop)
    /\ WF_vars(OwnerResumes) /\ WF_vars(CacheResumes)
    /\ \A p \in Paths : WF_vars(own[p] # 0 /\ AddState(p))

FairSpec == Spec /\ Fairness

-----------------------------------------------------------------------------
(* Properties *)

\* The variables stay in their types; the owner's application holds the latest
\* version of each state that exists, and only such states are registered.
TypeOK ==
    /\ version \in [Paths -> 0 .. MaxVersion + MaxSets]
    /\ \A p \in Paths : own[p] \in {0, version[p]}
    /\ registered \subseteq {p \in Paths : own[p] # 0}
    /\ value \in [Paths -> 0 .. MaxVersion + MaxSets]
    /\ oconn \in BOOLEAN /\ fconn \in BOOLEAN /\ fetched \in BOOLEAN
    /\ routed \subseteq 1 .. sets
    /\ cache \in [Paths -> 0 .. MaxVersion + MaxSets]
    /\ sets \in 0 .. MaxSets
    /\ losses \in 0 .. MaxLosses
    /\ missed \subseteq Paths

Settled ==
    /\ oconn /\ fconn
    /\ \A q \in {toDaemon, toOwner, fromCache, toCache} : q = <<>>
    /\ unsent = {}
    /\ \A p \in Paths : own[p] # 0 => p \in registered

\* cache::getEntry; 0 is the empty value.
GetEntry(p) == cache[p]

\* cache.h: "fetches and keeps everything matching": when nothing is on its way,
\* every state that exists is in the cache with the value its owner holds, over
\* lost connections on either side.
CacheComplete == Settled => \A p \in Paths : own[p] # 0 => GetEntry(p) = own[p]

\* The cache holds a state that does not exist only if the state was removed
\* when the cache could not be told: it ignores the loss of the connection.
StaleOnlyByLoss == Settled => \A p \in Paths : own[p] = 0 /\ GetEntry(p) # 0 => p \in missed

\* When the response to a set request arrives, the cache of the requesting
\* process has already held the value that was set, or a newer one.
ReadYourWrites ==
    toCache # <<>> /\ Head(toCache).type = "result"
        => mark[Head(toCache).path] >= Head(toCache).v

\* Readers of the cache see Mirror.
Copy == INSTANCE Mirror WITH seen <- cache
ImplementsMirror == Copy!Spec

\* A state that goes on existing is in the cache in the end, with its last value.
CatchesUp == \A p \in Paths : own[p] # 0 ~> own[p] = 0 \/ GetEntry(p) = own[p]
=============================================================================
