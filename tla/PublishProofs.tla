--------------------------- MODULE PublishProofs ---------------------------
(***************************************************************************)
(* Proofs about Publish, for any states, versions, set requests and lost   *)
(* connections: what a cache holds follows from what the owner holds, and  *)
(* its readers see Mirror.                                                 *)
(*                                                                         *)
(* The argument follows a value from the owner through the queue to the    *)
(* daemon, the daemon and the queue to the cache: what the last message    *)
(* about a state says is what the next station will hold (LastIs), a       *)
(* message that adds or changes a state finds the daemon without it or     *)
(* with it (Gone, Exists), and versions only grow towards the owner.       *)
(***************************************************************************)
EXTENDS Publish, FiniteSetTheorems, SequenceTheorems, TLAPS

-----------------------------------------------------------------------------
(* Queues *)

\* The elements of a queue.
LEMMA Elements ==
    ASSUME NEW S, NEW q \in Seq(S)
    PROVE  /\ Len(q) \in Nat
           /\ DOMAIN q = 1 .. Len(q)
           /\ \A k \in 1 .. Len(q) : q[k] \in S
  BY LenProperties, ElementOfSeq

\* The head is taken out of a queue.
LEMMA HeadTaken ==
    ASSUME NEW S, NEW q \in Seq(S), q # <<>>
    PROVE  /\ Head(q) \in S /\ Head(q) = q[1]
           /\ Tail(q) \in Seq(S)
           /\ Len(q) \in Nat /\ Len(q) >= 1
           /\ Len(Tail(q)) = Len(q) - 1
           /\ \A k \in 1 .. Len(q) - 1 : Tail(q)[k] = q[k + 1]
           /\ \A k \in 2 .. Len(q) : Tail(q)[k - 1] = q[k]
  BY HeadTailProperties, LenProperties

\* Something is put at the end of a queue.
LEMMA Appended ==
    ASSUME NEW S, NEW q \in Seq(S), NEW m \in S
    PROVE  /\ Append(q, m) \in Seq(S)
           /\ Len(q) \in Nat
           /\ Len(Append(q, m)) = Len(q) + 1
           /\ \A k \in 1 .. Len(q) : Append(q, m)[k] = q[k]
           /\ Append(q, m)[Len(q) + 1] = m
  BY AppendProperties, LenProperties

\* Two queues are joined.
LEMMA Joined ==
    ASSUME NEW S, NEW q \in Seq(S), NEW r \in Seq(S)
    PROVE  /\ q \o r \in Seq(S)
           /\ Len(q) \in Nat /\ Len(r) \in Nat
           /\ Len(q \o r) = Len(q) + Len(r)
           /\ \A k \in 1 .. Len(q) : (q \o r)[k] = q[k]
           /\ \A k \in 1 .. Len(r) : (q \o r)[Len(q) + k] = r[k]
  BY ConcatProperties, LenProperties

-----------------------------------------------------------------------------
(* Queues of messages about states *)

Carries(q, k, p) == q[k].path = p /\ q[k].type \in {"add", "change"}
About(q, k, p) == q[k].path = p /\ q[k].type \in {"add", "change", "remove"}
Is(q, k, p, t) == q[k].path = p /\ q[k].type = t

\* Who holds v of state p and handles q holds x in the end: the last message
\* about p says x, or there is none and x is v.
LastIs(q, v, p, x) ==
    \/ v = x /\ \A k \in 1 .. Len(q) : ~About(q, k, p)
    \/ \E k \in 1 .. Len(q) :
          /\ About(q, k, p) /\ q[k].v = x
          /\ \A j \in (k + 1) .. Len(q) : ~About(q, j, p)

\* Something is true of p when message k is handled: it is true at first and no
\* message before k ends it, or one begins it and none after that ends it.
TrueAt(q, first, p, k, begin, end) ==
    \/ first /\ \A i \in 1 .. (k - 1) : ~Is(q, i, p, end)
    \/ \E j \in 1 .. (k - 1) :
          Is(q, j, p, begin) /\ \A i \in (j + 1) .. (k - 1) : ~Is(q, i, p, end)

\* The daemon, which holds v of state p, has the state when it handles message k;
\* it does not have it.
Exists(q, v, p, k) == TrueAt(q, v # 0, p, k, "add", "remove")
Gone(q, v, p, k) == TrueAt(q, v = 0, p, k, "remove", "add")

\* The daemon has the state in the end or not, and each message that adds it
\* finds the daemon without it.
Follows(q, v, p, have) ==
    /\ have => Exists(q, v, p, Len(q) + 1)
    /\ ~have => Gone(q, v, p, Len(q) + 1)
    /\ \A k \in 1 .. Len(q) : Is(q, k, p, "add") => Gone(q, v, p, k)

\* The versions in q are in order.
InOrder(q, p) ==
    \A j, k \in 1 .. Len(q) : j < k /\ Carries(q, j, p) /\ Carries(q, k, p) => q[j].v <= q[k].v

\* No version in q is older than x; none is newer.
NoneBelow(q, p, x) == \A k \in 1 .. Len(q) : Carries(q, k, p) => x <= q[k].v
NoneAbove(q, p, x) == \A k \in 1 .. Len(q) : Carries(q, k, p) => q[k].v <= x

\* Who has seen version x of p at best and handles the first k messages of q has
\* then seen version v, or a newer one.
Reached(q, x, p, v, k) ==
    \/ v <= x
    \/ \E j \in 1 .. k : Carries(q, j, p) /\ v <= q[j].v

-----------------------------------------------------------------------------
(* The inductive invariant *)

\* What is sent about states, as a response, and as a request.
StateMsgs ==
    {m \in [type : {"add", "change", "remove", "result"}, path : Paths, v : Nat, n : Nat] :
        m.type # "result" => (m.v = 0 <=> m.type = "remove")}
SetMsgs == [type : {"set"}, path : Paths, v : {0}, n : Nat]
CacheMsgs == SetMsgs \cup {FetchMsg}

Types ==
    /\ TypeOK
    /\ toDaemon \in Seq(StateMsgs) /\ toCache \in Seq(StateMsgs)
    /\ toOwner \in Seq(SetMsgs) /\ fromCache \in Seq(CacheMsgs)
    /\ own \in [Paths -> Nat] /\ mark \in [Paths -> Nat]

\* Without connection there is nothing to handle, and the daemon knows nothing;
\* with a connection the fetch is established, or is the next thing to be handled.
Links ==
    /\ ~oconn => /\ toDaemon = <<>> /\ toOwner = <<>>
                 /\ registered = {} /\ \A p \in Paths : value[p] = 0
    /\ ~fconn => fromCache = <<>> /\ toCache = <<>> /\ ~fetched
    /\ fconn /\ ~fetched => fromCache # <<>> /\ fromCache[1] = FetchMsg
    /\ routed # {} => fetched

\* Set requests are numbered in the order in which they are handled; each of them
\* makes one version at most.
Numbered ==
    /\ \A p \in Paths : version[p] <= MaxVersion + sets
    /\ \A k \in 1 .. Len(toDaemon) : toDaemon[k].n <= sets
    /\ \A k \in 1 .. Len(toOwner) :
          /\ toOwner[k].n \in 1 .. sets
          /\ \A j \in (k + 1) .. Len(toOwner) : toOwner[k].n < toOwner[j].n
          /\ \A p \in Paths : version[p] < MaxVersion + toOwner[k].n
    /\ \A k \in 1 .. Len(fromCache) : fromCache[k].type = "set" =>
          /\ fromCache[k].n \in 1 .. sets
          /\ \A j \in (k + 1) .. Len(fromCache) :
                fromCache[j].type = "set" => fromCache[k].n < fromCache[j].n
          /\ \A p \in Paths : version[p] < MaxVersion + fromCache[k].n
          /\ \A j \in 1 .. Len(toOwner) : toOwner[j].n < fromCache[k].n
          /\ \A j \in 1 .. Len(toDaemon) : toDaemon[j].n < fromCache[k].n

\* Nobody holds or sends a version that does not exist.
Bounded ==
    \A p \in Paths :
        /\ value[p] <= version[p] /\ cache[p] <= version[p] /\ mark[p] <= version[p]
        /\ NoneAbove(toDaemon, p, version[p])
        /\ NoneAbove(toCache, p, version[p])

\* At most one value has still to be notified.
Pending ==
    /\ \A u \in unsent : u[1] \in Paths /\ u[2] \in 1 .. version[u[1]]
    /\ \A u, w \in unsent : u = w

\* The daemon will have exactly the states that are registered, and adds each
\* when it does not have it.
DaemonFollows == \A p \in Paths : Follows(toDaemon, value[p], p, p \in registered)

\* What the daemon holds is what the cache will hold, but for removals it missed.
CacheFollows ==
    \A p \in Paths :
        IF fetched
        THEN \/ LastIs(toCache, cache[p], p, value[p])
             \/ /\ \A k \in 1 .. Len(toCache) : ~About(toCache, k, p)
                /\ value[p] = 0 /\ p \in missed
        ELSE /\ \A k \in 1 .. Len(toCache) : ~About(toCache, k, p)
             /\ value[p] = 0 => cache[p] = 0 \/ p \in missed

\* A response the daemon will pass on comes after the change it is about, which
\* the daemon will take.
ChangeFirst ==
    /\ \A k \in 1 .. Len(toDaemon) : toDaemon[k].type = "result" /\ toDaemon[k].n \in routed =>
          \/ Reached(toCache, mark[toDaemon[k].path], toDaemon[k].path, toDaemon[k].v, Len(toCache))
          \/ \E j \in 1 .. (k - 1) :
                /\ toDaemon[j].type = "change"
                /\ toDaemon[j].path = toDaemon[k].path /\ toDaemon[j].v = toDaemon[k].v
                /\ Exists(toDaemon, value[toDaemon[k].path], toDaemon[k].path, j)
    /\ \A k \in 1 .. Len(toCache) : toCache[k].type = "result" =>
          Reached(toCache, mark[toCache[k].path], toCache[k].path, toCache[k].v, k - 1)

\* What the application has still to notify is the value it holds; apart from
\* that, the daemon will hold what the application holds.
Latest ==
    /\ \A u \in unsent : u[2] = own[u[1]] /\ u[2] = version[u[1]]
    /\ \A p \in registered : (\A u \in unsent : u[1] # p) => LastIs(toDaemon, value[p], p, own[p])

\* Versions grow from the cache to the owner.
Ordered ==
    \A p \in Paths :
        /\ InOrder(toDaemon, p) /\ InOrder(toCache, p)
        /\ NoneBelow(toDaemon, p, mark[p]) /\ NoneBelow(toCache, p, mark[p])
        /\ NoneBelow(toDaemon, p, value[p])
        /\ value[p] # 0 => mark[p] <= value[p] /\ NoneAbove(toCache, p, value[p])
        /\ \A k \in 1 .. Len(toCache) : Carries(toCache, k, p) => NoneBelow(toDaemon, p, toCache[k].v)

IndInv ==
    /\ Types /\ Links /\ Numbered /\ Bounded /\ Pending
    /\ DaemonFollows /\ CacheFollows /\ ChangeFirst
    /\ Serialised => Latest /\ Ordered

-----------------------------------------------------------------------------
(* What handling the first message, and sending more, does to a queue *)

\* The fields of messages in a queue.
LEMMA StateMsgFields ==
    ASSUME NEW q \in Seq(StateMsgs)
    PROVE  /\ Len(q) \in Nat
           /\ \A k \in 1 .. Len(q) :
                 /\ q[k] \in StateMsgs
                 /\ q[k].type \in {"add", "change", "remove", "result"}
                 /\ q[k].path \in Paths /\ q[k].v \in Nat /\ q[k].n \in Nat
                 /\ q[k].type # "result" => (q[k].v = 0 <=> q[k].type = "remove")
  <1>1. \A m \in StateMsgs :
            /\ m.type \in {"add", "change", "remove", "result"}
            /\ m.path \in Paths /\ m.v \in Nat /\ m.n \in Nat
            /\ m.type # "result" => (m.v = 0 <=> m.type = "remove")
    BY DEF StateMsgs
  <1> QED
    BY <1>1, Elements

\* A message handled changes what is held unless it is about another state; if
\* it is not the last one about its state, it does not matter how.
LEMMA LastIsTail ==
    ASSUME NEW S, NEW q \in Seq(S), q # <<>>, NEW v, NEW w, NEW p, NEW x,
           LastIs(q, v, p, x),
           ~About(q, 1, p) => w = v,
           About(q, 1, p) /\ (\A k \in 2 .. Len(q) : ~About(q, k, p)) => w = q[1].v
    PROVE  LastIs(Tail(q), w, p, x)
  <1> DEFINE t == Tail(q)
  <1>1. /\ Len(q) \in Nat /\ Len(q) >= 1 /\ Len(t) = Len(q) - 1
        /\ \A k \in 1 .. Len(q) - 1 : t[k] = q[k + 1]
        /\ \A k \in 2 .. Len(q) : t[k - 1] = q[k]
    BY HeadTaken
  <1>2. /\ \A k \in 1 .. Len(t) : About(t, k, p) <=> About(q, k + 1, p)
        /\ \A k \in 2 .. Len(q) : About(t, k - 1, p) <=> About(q, k, p)
    BY <1>1 DEF About
  <1> HIDE DEF t
  <1>3. CASE \A k \in 2 .. Len(q) : ~About(q, k, p)
    <2>1. \A k \in 1 .. Len(t) : ~About(t, k, p)
      BY <1>1, <1>2, <1>3
    <2>2. w = x
      BY <1>1, <1>3 DEF LastIs
    <2> QED
      BY <2>1, <2>2 DEF LastIs, t
  <1>4. CASE \E k \in 2 .. Len(q) : About(q, k, p)
    <2>1. PICK k \in 1 .. Len(q) : /\ About(q, k, p) /\ q[k].v = x
                                  /\ \A j \in (k + 1) .. Len(q) : ~About(q, j, p)
      BY <1>1, <1>4 DEF LastIs
    <2>2. k \in 2 .. Len(q)
      BY <1>1, <1>4, <2>1
    <2>3. k - 1 \in 1 .. Len(t) /\ About(t, k - 1, p) /\ t[k - 1].v = x
      BY <1>1, <1>2, <2>1, <2>2
    <2>4. \A j \in ((k - 1) + 1) .. Len(t) : ~About(t, j, p)
      BY <1>1, <1>2, <2>1, <2>2
    <2> QED
      BY <2>3, <2>4 DEF LastIs, t
  <1> QED
    BY <1>3, <1>4

\* What is sent about other states does not matter.
LEMMA LastIsJoinedOther ==
    ASSUME NEW S, NEW q \in Seq(S), NEW r \in Seq(S), NEW v, NEW p, NEW x,
           LastIs(q, v, p, x), \A k \in 1 .. Len(r) : ~About(r, k, p)
    PROVE  LastIs(q \o r, v, p, x)
  <1> DEFINE t == q \o r
  <1>1. /\ Len(q) \in Nat /\ Len(r) \in Nat /\ Len(t) = Len(q) + Len(r)
        /\ \A k \in 1 .. Len(q) : t[k] = q[k]
        /\ \A k \in 1 .. Len(r) : t[Len(q) + k] = r[k]
    BY Joined
  <1>2. \A k \in 1 .. Len(q) : About(t, k, p) <=> About(q, k, p)
    BY <1>1 DEF About
  <1>3. \A k \in (Len(q) + 1) .. Len(t) : ~About(t, k, p)
    <2>1. ASSUME NEW k \in (Len(q) + 1) .. Len(t) PROVE ~About(t, k, p)
      <3>1. (k - Len(q)) \in 1 .. Len(r) /\ t[k] = r[k - Len(q)]
        BY <1>1
      <3> QED
        BY <3>1 DEF About
    <2> QED
      BY <2>1
  <1> HIDE DEF t
  <1>4. LastIs(t, v, p, x)
    <2>1. CASE v = x /\ \A k \in 1 .. Len(q) : ~About(q, k, p)
      <3>1. \A k \in 1 .. Len(t) : ~About(t, k, p)
        BY <1>1, <1>2, <1>3, <2>1
      <3> QED
        BY <2>1, <3>1 DEF LastIs
    <2>2. ASSUME NEW k \in 1 .. Len(q), About(q, k, p), q[k].v = x,
                 \A j \in (k + 1) .. Len(q) : ~About(q, j, p)
          PROVE  LastIs(t, v, p, x)
      <3>1. k \in 1 .. Len(t) /\ About(t, k, p) /\ t[k].v = x
        BY <1>1, <1>2, <2>2
      <3>2. \A j \in (k + 1) .. Len(t) : ~About(t, j, p)
        BY <1>1, <1>2, <1>3, <2>2
      <3> QED
        BY <3>1, <3>2 DEF LastIs
    <2> QED
      BY <2>1, <2>2 DEF LastIs
  <1> QED
    BY <1>4 DEF t

\* If one message about p is sent, it is the last.
LEMMA LastIsJoined ==
    ASSUME NEW S, NEW q \in Seq(S), NEW r \in Seq(S), NEW v, NEW p, NEW k \in 1 .. Len(r),
           About(r, k, p), \A j \in (k + 1) .. Len(r) : ~About(r, j, p)
    PROVE  LastIs(q \o r, v, p, r[k].v)
  <1> DEFINE t == q \o r
  <1>1. /\ Len(q) \in Nat /\ Len(r) \in Nat /\ Len(t) = Len(q) + Len(r)
        /\ \A i \in 1 .. Len(r) : t[Len(q) + i] = r[i]
    BY Joined
  <1>2. \A i \in (Len(q) + k + 1) .. Len(t) : ~About(t, i, p)
    <2>1. ASSUME NEW i \in (Len(q) + k + 1) .. Len(t) PROVE ~About(t, i, p)
      <3>1. (i - Len(q)) \in (k + 1) .. Len(r) /\ t[i] = r[i - Len(q)]
        BY <1>1
      <3> QED
        BY <3>1 DEF About
    <2> QED
      BY <2>1
  <1>3. Len(q) + k \in 1 .. Len(t) /\ About(t, Len(q) + k, p) /\ t[Len(q) + k].v = r[k].v
    BY <1>1 DEF About
  <1> HIDE DEF t
  <1>4. LastIs(t, v, p, r[k].v)
    BY <1>2, <1>3 DEF LastIs
  <1> QED
    BY <1>4 DEF t

\* A message is handled: it is one less.
LEMMA TrueAtTail ==
    ASSUME NEW S, NEW q \in Seq(S), q # <<>>, NEW p, NEW begin, NEW end,
           NEW first \in BOOLEAN, NEW second \in BOOLEAN, NEW k \in 2 .. (Len(q) + 1),
           TrueAt(q, first, p, k, begin, end),
           Is(q, 1, p, begin) => second,
           first /\ ~Is(q, 1, p, end) => second
    PROVE  TrueAt(Tail(q), second, p, k - 1, begin, end)
  <1> DEFINE t == Tail(q)
  <1>1. /\ Len(q) \in Nat /\ Len(q) >= 1 /\ Len(t) = Len(q) - 1
        /\ \A i \in 1 .. Len(q) - 1 : t[i] = q[i + 1]
        /\ \A i \in 2 .. Len(q) : t[i - 1] = q[i]
    BY HeadTaken
  <1>2. \A i \in 1 .. (k - 2) : Is(t, i, p, end) <=> Is(q, i + 1, p, end)
    BY <1>1 DEF Is
  <1>3. \A i \in 2 .. (k - 1) : Is(t, i - 1, p, begin) <=> Is(q, i, p, begin)
    BY <1>1 DEF Is
  <1> HIDE DEF t
  <1>4. CASE first /\ \A i \in 1 .. (k - 1) : ~Is(q, i, p, end)
    <2>1. \A i \in 1 .. ((k - 1) - 1) : ~Is(t, i, p, end)
      BY <1>2, <1>4
    <2>2. second
      BY <1>4
    <2> QED
      BY <2>1, <2>2 DEF TrueAt, t
  <1>5. ASSUME NEW j \in 1 .. (k - 1), Is(q, j, p, begin),
               \A i \in (j + 1) .. (k - 1) : ~Is(q, i, p, end)
        PROVE  TrueAt(Tail(q), second, p, k - 1, begin, end)
    <2>1. CASE j = 1
      <3>1. \A i \in 1 .. ((k - 1) - 1) : ~Is(t, i, p, end)
        BY <1>2, <1>5, <2>1
      <3>2. second
        BY <1>5, <2>1
      <3> QED
        BY <3>1, <3>2 DEF TrueAt, t
    <2>2. CASE j # 1
      <3>1. j - 1 \in 1 .. ((k - 1) - 1) /\ Is(t, j - 1, p, begin)
        BY <1>3, <1>5, <2>2
      <3>2. \A i \in ((j - 1) + 1) .. ((k - 1) - 1) : ~Is(t, i, p, end)
        BY <1>2, <1>5, <2>2
      <3> QED
        BY <3>1, <3>2 DEF TrueAt, t
    <2> QED
      BY <2>1, <2>2
  <1> QED
    BY <1>4, <1>5 DEF TrueAt

\* What is sent later does not matter.
LEMMA TrueAtJoined ==
    ASSUME NEW S, NEW q \in Seq(S), NEW r \in Seq(S), NEW p, NEW begin, NEW end, NEW first,
           NEW k \in 1 .. (Len(q) + 1),
           TrueAt(q, first, p, k, begin, end)
    PROVE  TrueAt(q \o r, first, p, k, begin, end)
  <1> DEFINE t == q \o r
  <1>1. Len(q) \in Nat /\ \A i \in 1 .. Len(q) : t[i] = q[i]
    BY Joined
  <1>2. \A i \in 1 .. (k - 1) : /\ Is(t, i, p, begin) <=> Is(q, i, p, begin)
                                /\ Is(t, i, p, end) <=> Is(q, i, p, end)
    BY <1>1 DEF Is
  <1> HIDE DEF t
  <1>3. TrueAt(t, first, p, k, begin, end)
    BY <1>2 DEF TrueAt
  <1> QED
    BY <1>3 DEF t

\* What is true goes on being true, if nothing is sent that ends it.
LEMMA TrueAtEnd ==
    ASSUME NEW S, NEW q \in Seq(S), NEW r \in Seq(S), NEW p, NEW begin, NEW end, NEW first,
           TrueAt(q, first, p, Len(q) + 1, begin, end),
           \A i \in 1 .. Len(r) : ~Is(r, i, p, end)
    PROVE  TrueAt(q \o r, first, p, Len(q \o r) + 1, begin, end)
  <1> DEFINE t == q \o r
  <1>1. /\ Len(q) \in Nat /\ Len(r) \in Nat /\ Len(t) = Len(q) + Len(r)
        /\ \A i \in 1 .. Len(q) : t[i] = q[i]
        /\ \A i \in 1 .. Len(r) : t[Len(q) + i] = r[i]
    BY Joined
  <1>2. \A i \in 1 .. Len(q) : /\ Is(t, i, p, begin) <=> Is(q, i, p, begin)
                               /\ Is(t, i, p, end) <=> Is(q, i, p, end)
    BY <1>1 DEF Is
  <1>3. ASSUME NEW i \in (Len(q) + 1) .. Len(t) PROVE ~Is(t, i, p, end)
    <2>1. (i - Len(q)) \in 1 .. Len(r) /\ t[i] = r[i - Len(q)]
      BY <1>1
    <2> QED
      BY <2>1 DEF Is
  <1> HIDE DEF t
  <1>4. CASE first /\ \A i \in 1 .. Len(q) : ~Is(q, i, p, end)
    BY <1>1, <1>2, <1>3, <1>4 DEF TrueAt, t
  <1>5. ASSUME NEW j \in 1 .. Len(q), Is(q, j, p, begin),
               \A i \in (j + 1) .. Len(q) : ~Is(q, i, p, end)
        PROVE  TrueAt(t, first, p, Len(t) + 1, begin, end)
    <2>1. j \in 1 .. ((Len(t) + 1) - 1) /\ Is(t, j, p, begin)
      BY <1>1, <1>2, <1>5
    <2>2. \A i \in (j + 1) .. ((Len(t) + 1) - 1) : ~Is(t, i, p, end)
      BY <1>1, <1>2, <1>3, <1>5
    <2> QED
      BY <2>1, <2>2 DEF TrueAt
  <1> QED
    BY <1>1, <1>4, <1>5 DEF TrueAt, t

\* It becomes true by a message that begins it.
LEMMA TrueAtBegin ==
    ASSUME NEW S, NEW q \in Seq(S), NEW m \in S, NEW p, NEW begin, NEW end, NEW first,
           m.path = p, m.type = begin
    PROVE  TrueAt(q \o <<m>>, first, p, Len(q \o <<m>>) + 1, begin, end)
  <1> DEFINE t == q \o <<m>>
  <1>1. <<m>> \in Seq(S) /\ Len(<<m>>) = 1 /\ <<m>>[1] = m
    OBVIOUS
  <1>2. Len(q) \in Nat /\ Len(t) = Len(q) + 1 /\ t[Len(q) + 1] = m
    BY <1>1, Joined
  <1> HIDE DEF t
  <1>3. Len(q) + 1 \in 1 .. ((Len(t) + 1) - 1) /\ Is(t, Len(q) + 1, p, begin)
    BY <1>2 DEF Is
  <1>4. TrueAt(t, first, p, Len(t) + 1, begin, end)
    BY <1>2, <1>3 DEF TrueAt
  <1> QED
    BY <1>4 DEF t

\* The bounds of a queue are those of what is left of it, whose versions are not
\* older than the one handled, if they are in order.
LEMMA BoundsTail ==
    ASSUME NEW S, NEW q \in Seq(S), q # <<>>, NEW p
    PROVE  /\ \A x : NoneBelow(q, p, x) => NoneBelow(Tail(q), p, x)
           /\ \A x : NoneAbove(q, p, x) => NoneAbove(Tail(q), p, x)
           /\ InOrder(q, p) => InOrder(Tail(q), p)
           /\ InOrder(q, p) /\ Carries(q, 1, p) => NoneBelow(Tail(q), p, q[1].v)
  <1> DEFINE t == Tail(q)
  <1>1. /\ Len(q) \in Nat /\ Len(q) >= 1 /\ Len(t) = Len(q) - 1
        /\ \A k \in 1 .. Len(q) - 1 : t[k] = q[k + 1]
    BY HeadTaken
  <1>2. \A k \in 1 .. Len(t) : /\ k + 1 \in 1 .. Len(q) /\ t[k] = q[k + 1]
                               /\ Carries(t, k, p) <=> Carries(q, k + 1, p)
    BY <1>1 DEF Carries
  <1> HIDE DEF t
  <1>3. \A x : NoneBelow(q, p, x) => NoneBelow(t, p, x)
    BY <1>2 DEF NoneBelow
  <1>4. \A x : NoneAbove(q, p, x) => NoneAbove(t, p, x)
    BY <1>2 DEF NoneAbove
  <1>5. InOrder(q, p) => InOrder(t, p)
    <2>1. ASSUME InOrder(q, p), NEW j \in 1 .. Len(t), NEW k \in 1 .. Len(t),
                 j < k, Carries(t, j, p), Carries(t, k, p)
          PROVE  t[j].v <= t[k].v
      <3>1. j + 1 \in 1 .. Len(q) /\ k + 1 \in 1 .. Len(q) /\ j + 1 < k + 1
        BY <1>1, <2>1
      <3> QED
        BY <1>2, <2>1, <3>1 DEF InOrder
    <2> QED
      BY <2>1 DEF InOrder
  <1>6. InOrder(q, p) /\ Carries(q, 1, p) => NoneBelow(t, p, q[1].v)
    <2>1. ASSUME InOrder(q, p), Carries(q, 1, p), NEW k \in 1 .. Len(t), Carries(t, k, p)
          PROVE  q[1].v <= t[k].v
      <3>1. 1 \in 1 .. Len(q) /\ 1 < k + 1
        BY <1>1
      <3> QED
        BY <1>2, <2>1, <3>1 DEF InOrder
    <2> QED
      BY <2>1 DEF NoneBelow
  <1> QED
    BY <1>3, <1>4, <1>5, <1>6 DEF t

\* Where the messages of a joined queue come from.
LEMMA JoinedFrom ==
    ASSUME NEW S, NEW q \in Seq(S), NEW r \in Seq(S), NEW k \in 1 .. Len(q \o r)
    PROVE  \/ k \in 1 .. Len(q) /\ (q \o r)[k] = q[k]
           \/ (k - Len(q)) \in 1 .. Len(r) /\ (q \o r)[k] = r[k - Len(q)]
  <1>1. /\ Len(q) \in Nat /\ Len(r) \in Nat /\ Len(q \o r) = Len(q) + Len(r)
        /\ \A i \in 1 .. Len(q) : (q \o r)[i] = q[i]
        /\ \A i \in 1 .. Len(r) : (q \o r)[Len(q) + i] = r[i]
    BY Joined
  <1>2. CASE k <= Len(q)
    BY <1>1, <1>2
  <1>3. CASE ~(k <= Len(q))
    <2>1. (k - Len(q)) \in 1 .. Len(r) /\ Len(q) + (k - Len(q)) = k
      BY <1>1, <1>3
    <2> QED
      BY <1>1, <2>1
  <1> QED
    BY <1>2, <1>3

\* The bounds of what is sent and of what was there are those of the queue.
LEMMA BoundsJoined ==
    ASSUME NEW S, NEW q \in Seq(S), NEW r \in Seq(S), NEW p
    PROVE  /\ \A x : NoneBelow(q, p, x) /\ NoneBelow(r, p, x) => NoneBelow(q \o r, p, x)
           /\ \A x : NoneAbove(q, p, x) /\ NoneAbove(r, p, x) => NoneAbove(q \o r, p, x)
  <1> DEFINE t == q \o r
  <1>1. \A k \in 1 .. Len(t) : \/ k \in 1 .. Len(q) /\ t[k] = q[k]
                               \/ (k - Len(q)) \in 1 .. Len(r) /\ t[k] = r[k - Len(q)]
    BY JoinedFrom
  <1> HIDE DEF t
  <1>2. \A x : NoneBelow(q, p, x) /\ NoneBelow(r, p, x) => NoneBelow(t, p, x)
    BY <1>1 DEF NoneBelow, Carries
  <1>3. \A x : NoneAbove(q, p, x) /\ NoneAbove(r, p, x) => NoneAbove(t, p, x)
    BY <1>1 DEF NoneAbove, Carries
  <1> QED
    BY <1>2, <1>3 DEF t

\* Versions stay in order if what is sent is in order, and not older than what
\* was there.
LEMMA InOrderJoined ==
    ASSUME NEW q \in Seq(StateMsgs), NEW r \in Seq(StateMsgs), NEW p, NEW x \in Nat,
           InOrder(q, p), InOrder(r, p), NoneAbove(q, p, x), NoneBelow(r, p, x)
    PROVE  InOrder(q \o r, p)
  <1> DEFINE t == q \o r
  <1>1. \A k \in 1 .. Len(t) : \/ k \in 1 .. Len(q) /\ t[k] = q[k]
                               \/ (k - Len(q)) \in 1 .. Len(r) /\ t[k] = r[k - Len(q)]
    BY JoinedFrom
  <1>2. /\ Len(q) \in Nat /\ Len(r) \in Nat
        /\ \A k \in 1 .. Len(q) : q[k] \in StateMsgs
        /\ \A k \in 1 .. Len(r) : r[k] \in StateMsgs
    BY Elements
  <1>3. \A m \in StateMsgs : m.v \in Nat
    BY DEF StateMsgs
  <1> HIDE DEF t
  <1>4. ASSUME NEW j \in 1 .. Len(t), NEW k \in 1 .. Len(t), j < k, Carries(t, j, p), Carries(t, k, p)
        PROVE  t[j].v <= t[k].v
    <2>1. CASE j \in 1 .. Len(q) /\ t[j] = q[j]
      <3>1. CASE k \in 1 .. Len(q) /\ t[k] = q[k]
        BY <1>4, <2>1, <3>1 DEF InOrder, Carries
      <3>2. CASE (k - Len(q)) \in 1 .. Len(r) /\ t[k] = r[k - Len(q)]
        <4>1. q[j].v <= x /\ x <= r[k - Len(q)].v
          BY <1>4, <2>1, <3>2 DEF NoneAbove, NoneBelow, Carries
        <4>2. q[j].v \in Nat /\ r[k - Len(q)].v \in Nat
          BY <1>2, <1>3, <2>1, <3>2
        <4> QED
          BY <2>1, <3>2, <4>1, <4>2
      <3> QED
        BY <1>1, <3>1, <3>2
    <2>2. CASE (j - Len(q)) \in 1 .. Len(r) /\ t[j] = r[j - Len(q)]
      <3>1. (k - Len(q)) \in 1 .. Len(r) /\ t[k] = r[k - Len(q)]
        BY <1>1, <1>2, <1>4, <2>2
      <3>2. j - Len(q) < k - Len(q)
        BY <1>2, <1>4
      <3> QED
        BY <1>4, <2>2, <3>1, <3>2 DEF InOrder, Carries
    <2> QED
      BY <1>1, <2>1, <2>2
  <1>5. InOrder(t, p)
    BY <1>4 DEF InOrder
  <1> QED
    BY <1>5 DEF t

\* What is reached stays reached when more is sent, and after more messages.
LEMMA ReachedJoined ==
    ASSUME NEW S, NEW q \in Seq(S), NEW r \in Seq(S), NEW x, NEW p, NEW v,
           NEW k \in 0 .. Len(q), NEW l \in k .. Len(q \o r), Reached(q, x, p, v, k)
    PROVE  Reached(q \o r, x, p, v, l)
  <1> DEFINE t == q \o r
  <1>1. Len(q) \in Nat /\ \A i \in 1 .. Len(q) : t[i] = q[i]
    BY Joined
  <1>2. \A i \in 1 .. k : t[i] = q[i] /\ i \in 1 .. l
    BY <1>1
  <1> HIDE DEF t
  <1>3. Reached(t, x, p, v, l)
    BY <1>2 DEF Reached, Carries
  <1> QED
    BY <1>3 DEF t

\* What is reached stays reached when a message is handled and taken into account.
LEMMA ReachedTail ==
    ASSUME NEW q \in Seq(StateMsgs), q # <<>>, NEW x \in Nat, NEW y \in Nat, NEW p, NEW v \in Nat,
           NEW k \in 1 .. Len(q), Reached(q, x, p, v, k), x <= y,
           Carries(q, 1, p) => q[1].v <= y
    PROVE  Reached(Tail(q), y, p, v, k - 1)
  <1> DEFINE t == Tail(q)
  <1>1. /\ Len(q) \in Nat /\ Len(q) >= 1 /\ Len(t) = Len(q) - 1
        /\ \A i \in 2 .. Len(q) : t[i - 1] = q[i]
        /\ q[1] \in StateMsgs
    BY HeadTaken
  <1>2. q[1].v \in Nat
    BY <1>1 DEF StateMsgs
  <1> HIDE DEF t
  <1>3. CASE v <= x
    BY <1>3 DEF Reached
  <1>4. ASSUME NEW j \in 1 .. k, Carries(q, j, p), v <= q[j].v
        PROVE  Reached(t, y, p, v, k - 1)
    <2>1. CASE j = 1
      BY <1>2, <1>4, <2>1 DEF Reached
    <2>2. CASE j # 1
      <3>1. j \in 2 .. Len(q) /\ j - 1 \in 1 .. (k - 1)
        BY <1>1, <2>2
      <3>2. Carries(t, j - 1, p) /\ v <= t[j - 1].v
        BY <1>1, <1>4, <3>1 DEF Carries
      <3> QED
        BY <3>1, <3>2 DEF Reached
    <2> QED
      BY <2>1, <2>2
  <1> QED
    BY <1>3, <1>4 DEF Reached, t

\* What is sent about a state without adding or removing it does not matter for
\* whether the daemon has it.
LEMMA FollowsSent ==
    ASSUME NEW S, NEW q \in Seq(S), NEW r \in Seq(S), NEW v, NEW p, NEW have,
           Follows(q, v, p, have),
           \A k \in 1 .. Len(r) : ~Is(r, k, p, "add") /\ ~Is(r, k, p, "remove")
    PROVE  Follows(q \o r, v, p, have)
  <1> DEFINE t == q \o r
  <1>1. have => Exists(t, v, p, Len(t) + 1)
    BY TrueAtEnd DEF Follows, Exists
  <1>2. ~have => Gone(t, v, p, Len(t) + 1)
    BY TrueAtEnd DEF Follows, Gone
  <1>3. ASSUME NEW k \in 1 .. Len(t), Is(t, k, p, "add")
        PROVE  Gone(t, v, p, k)
    <2>1. k \in 1 .. Len(q) /\ t[k] = q[k]
      BY <1>3, JoinedFrom DEF Is
    <2>2. Gone(q, v, p, k)
      BY <1>3, <2>1 DEF Follows, Is
    <2>3. k \in 1 .. (Len(q) + 1)
      BY <2>1, Elements
    <2> QED
      BY <2>2, <2>3, TrueAtJoined DEF Gone
  <1> QED
    BY <1>1, <1>2, <1>3 DEF Follows

\* A state is added that the daemon will not have.
LEMMA FollowsAdd ==
    ASSUME NEW S, NEW q \in Seq(S), NEW m \in S, NEW v, Follows(q, v, m.path, FALSE), m.type = "add"
    PROVE  Follows(q \o <<m>>, v, m.path, TRUE)
  <1> DEFINE r == <<m>>
  <1> DEFINE t == q \o r
  <1> DEFINE p == m.path
  <1>0. r \in Seq(S) /\ Len(r) = 1 /\ r[1] = m
    OBVIOUS
  <1>1. Exists(t, v, p, Len(t) + 1)
    BY TrueAtBegin DEF Exists
  <1>2. ASSUME NEW k \in 1 .. Len(t), Is(t, k, p, "add")
        PROVE  Gone(t, v, p, k)
    <2>1. Len(q) \in Nat /\ Len(t) = Len(q) + 1
      BY <1>0, Joined
    <2>2. Gone(q, v, p, k)
      <3>1. CASE k = Len(q) + 1
        BY <3>1 DEF Follows
      <3>2. CASE k # Len(q) + 1
        <4>1. k \in 1 .. Len(q) /\ t[k] = q[k]
          BY <1>0, <2>1, <3>2, JoinedFrom
        <4> QED
          BY <1>2, <4>1 DEF Follows, Is
      <3> QED
        BY <3>1, <3>2
    <2>3. k \in 1 .. (Len(q) + 1)
      BY <2>1
    <2> QED
      BY <1>0, <2>2, <2>3, TrueAtJoined DEF Gone
  <1> QED
    BY <1>1, <1>2 DEF Follows

\* A state is removed.
LEMMA FollowsRemove ==
    ASSUME NEW S, NEW q \in Seq(S), NEW m \in S, NEW v, NEW have,
           Follows(q, v, m.path, have), m.type = "remove"
    PROVE  Follows(q \o <<m>>, v, m.path, FALSE)
  <1> DEFINE r == <<m>>
  <1> DEFINE t == q \o r
  <1> DEFINE p == m.path
  <1>0. r \in Seq(S) /\ Len(r) = 1 /\ r[1] = m
    OBVIOUS
  <1>1. Gone(t, v, p, Len(t) + 1)
    BY TrueAtBegin DEF Gone
  <1>2. ASSUME NEW k \in 1 .. Len(t), Is(t, k, p, "add")
        PROVE  Gone(t, v, p, k)
    <2>1. k \in 1 .. Len(q) /\ t[k] = q[k]
      <3>1. CASE (k - Len(q)) \in 1 .. Len(r) /\ t[k] = r[k - Len(q)]
        BY <1>0, <1>2, <3>1 DEF Is
      <3> QED
        BY <1>0, <3>1, JoinedFrom
    <2>2. Gone(q, v, p, k)
      BY <1>2, <2>1 DEF Follows, Is
    <2>3. k \in 1 .. (Len(q) + 1)
      BY <2>1, Elements
    <2> QED
      BY <1>0, <2>2, <2>3, TrueAtJoined DEF Gone
  <1> QED
    BY <1>1, <1>2 DEF Follows

\* A message is handled: v was held, w is held after it.
LEMMA FollowsTail ==
    ASSUME NEW S, NEW q \in Seq(S), q # <<>>, NEW v, NEW w, NEW p, NEW have,
           Follows(q, v, p, have),
           Is(q, 1, p, "add") => w # 0,
           Is(q, 1, p, "remove") => w = 0,
           ~Is(q, 1, p, "add") /\ v = 0 => w = 0,
           ~Is(q, 1, p, "remove") /\ v # 0 => w # 0
    PROVE  Follows(Tail(q), w, p, have)
  <1> DEFINE t == Tail(q)
  <1>1. /\ Len(q) \in Nat /\ Len(q) >= 1 /\ Len(t) = Len(q) - 1
        /\ \A i \in 1 .. Len(q) - 1 : t[i] = q[i + 1]
    BY HeadTaken
  <1>2. \A k \in 2 .. (Len(q) + 1) : Exists(q, v, p, k) => Exists(t, w, p, k - 1)
    BY TrueAtTail DEF Exists
  <1>3. \A k \in 2 .. (Len(q) + 1) : Gone(q, v, p, k) => Gone(t, w, p, k - 1)
    BY TrueAtTail DEF Gone
  <1>4. Len(q) + 1 \in 2 .. (Len(q) + 1) /\ (Len(q) + 1) - 1 = Len(t) + 1
    BY <1>1
  <1>5. have => Exists(t, w, p, Len(t) + 1)
    BY <1>2, <1>4 DEF Follows
  <1>6. ~have => Gone(t, w, p, Len(t) + 1)
    BY <1>3, <1>4 DEF Follows
  <1>7. ASSUME NEW k \in 1 .. Len(t), Is(t, k, p, "add")
        PROVE  Gone(t, w, p, k)
    <2>1. k + 1 \in 2 .. (Len(q) + 1) /\ k + 1 \in 1 .. Len(q) /\ (k + 1) - 1 = k
      BY <1>1
    <2>2. Is(q, k + 1, p, "add")
      BY <1>1, <1>7 DEF Is
    <2>3. Gone(q, v, p, k + 1)
      BY <2>1, <2>2 DEF Follows
    <2> QED
      BY <1>3, <2>1, <2>3
  <1> QED
    BY <1>5, <1>6, <1>7 DEF Follows

-----------------------------------------------------------------------------
(* Every step keeps the invariant *)

\* The invariant holds at first.
LEMMA Initially == Init => IndInv
  <1> SUFFICES ASSUME Init PROVE IndInv
    OBVIOUS
  <1>1. Len(toDaemon) = 0 /\ Len(toOwner) = 0 /\ Len(toCache) = 0
    BY DEF Init
  <1>2. Types
    <2>1. TypeOK
      <3>1. 0 \in 0 .. MaxVersion + MaxSets /\ 0 \in 0 .. MaxSets /\ 0 \in 0 .. MaxLosses
        BY PublishAssumption
      <3> QED
        BY <3>1 DEF Init, TypeOK
    <2>2. FetchMsg \in CacheMsgs
      BY DEF CacheMsgs
    <2> QED
      BY <2>1, <2>2 DEF Init, Types
  <1>3. Links
    BY DEF Init, Links
  <1>4. Numbered
    <2>1. Len(fromCache) = 1 /\ fromCache[1] = FetchMsg /\ FetchMsg.type # "set"
      BY DEF Init, FetchMsg
    <2> QED
      BY <1>1, <2>1, PublishAssumption DEF Init, Numbered
  <1>5. Bounded /\ Pending
    BY <1>1 DEF Init, Bounded, Pending, NoneAbove
  <1>6. DaemonFollows
    BY <1>1 DEF Init, DaemonFollows, Follows, Gone, TrueAt
  <1>7. CacheFollows
    BY <1>1 DEF Init, CacheFollows
  <1>8. ChangeFirst
    BY <1>1 DEF ChangeFirst
  <1>9. Latest /\ Ordered
    BY <1>1 DEF Init, Latest, Ordered, InOrder, NoneBelow
  <1> QED
    BY <1>2, <1>3, <1>4, <1>5, <1>6, <1>7, <1>8, <1>9 DEF IndInv

\* The owner sends versions that exist, the latest if Serialised, and a response
\* only after the change it is about.
LEMMA OwnerSent ==
    ASSUME IndInv, NEW ms \in Seq(StateMsgs), toDaemon' = toDaemon \o ms,
           UNCHANGED <<value, fetched, routed, toCache, cache, mark, missed>>,
           version' \in [Paths -> Nat], \A p \in Paths : version[p] <= version'[p],
           \A k \in 1 .. Len(ms) : ms[k].type \in {"add", "change"} =>
               ms[k].v <= version'[ms[k].path] /\ (Serialised => ms[k].v = version'[ms[k].path]),
           \A k \in 1 .. Len(ms) : ms[k].type = "result" =>
               \/ ms[k].v = 0
               \/ /\ k = 2 /\ ms[1].type = "change" /\ ms[1].path = ms[2].path /\ ms[1].v = ms[2].v
                  /\ ms[2].path \in registered
    PROVE  /\ toDaemon' \in Seq(StateMsgs)
           /\ Bounded' /\ CacheFollows' /\ ChangeFirst' /\ (Serialised => Ordered')
  <1>1. /\ toDaemon \in Seq(StateMsgs) /\ toCache \in Seq(StateMsgs)
        /\ version \in [Paths -> Nat] /\ value \in [Paths -> Nat] /\ cache \in [Paths -> Nat]
        /\ mark \in [Paths -> Nat] /\ registered \subseteq Paths
    BY DEF IndInv, Types, TypeOK
  <1>2. toDaemon' \in Seq(StateMsgs)
    BY <1>1, Joined
  <1>3. /\ Len(ms) \in Nat /\ Len(toDaemon) \in Nat
        /\ \A k \in 1 .. Len(ms) : ms[k].path \in Paths /\ ms[k].v \in Nat
        /\ \A k \in 1 .. Len(toDaemon) : toDaemon[k].path \in Paths /\ toDaemon[k].v \in Nat
        /\ \A k \in 1 .. Len(toCache) : toCache[k].path \in Paths /\ toCache[k].v \in Nat
    BY <1>1, Elements, StateMsgFields
  <1>4. Bounded'
    <2>1. ASSUME NEW p \in Paths
          PROVE  /\ value'[p] <= version'[p] /\ cache'[p] <= version'[p] /\ mark'[p] <= version'[p]
                 /\ NoneAbove(toDaemon', p, version'[p]) /\ NoneAbove(toCache', p, version'[p])
      <3>1. value'[p] <= version'[p] /\ cache'[p] <= version'[p] /\ mark'[p] <= version'[p]
        BY <1>1 DEF IndInv, Bounded
      <3>2. NoneAbove(toDaemon, p, version'[p]) /\ NoneAbove(toCache, p, version'[p])
        BY <1>1, <1>3 DEF IndInv, Bounded, NoneAbove
      <3>3. NoneAbove(ms, p, version'[p])
        BY DEF NoneAbove, Carries
      <3> QED
        BY <1>1, <3>1, <3>2, <3>3, BoundsJoined
    <2> QED
      BY <2>1 DEF Bounded
  <1>5. CacheFollows'
    BY DEF IndInv, CacheFollows
  <1>6. ChangeFirst'
    <2>1. ASSUME NEW k \in 1 .. Len(toDaemon'), toDaemon'[k].type = "result", toDaemon'[k].n \in routed'
          PROVE  \/ Reached(toCache, mark[toDaemon'[k].path], toDaemon'[k].path, toDaemon'[k].v, Len(toCache))
                 \/ \E j \in 1 .. (k - 1) :
                       /\ toDaemon'[j].type = "change"
                       /\ toDaemon'[j].path = toDaemon'[k].path /\ toDaemon'[j].v = toDaemon'[k].v
                       /\ Exists(toDaemon', value[toDaemon'[k].path], toDaemon'[k].path, j)
      <3>1. CASE k \in 1 .. Len(toDaemon) /\ toDaemon'[k] = toDaemon[k]
        <4>1. ASSUME NEW j \in 1 .. (k - 1), NEW p, Exists(toDaemon, value[p], p, j)
              PROVE  toDaemon'[j] = toDaemon[j] /\ Exists(toDaemon', value[p], p, j)
          <5>1. j \in 1 .. Len(toDaemon) /\ j \in 1 .. (Len(toDaemon) + 1)
            BY <1>3, <3>1
          <5> QED
            BY <1>1, <4>1, <5>1, TrueAtJoined, Joined DEF Exists
        <4>2. \/ Reached(toCache, mark[toDaemon[k].path], toDaemon[k].path, toDaemon[k].v, Len(toCache))
              \/ \E j \in 1 .. (k - 1) :
                    /\ toDaemon[j].type = "change"
                    /\ toDaemon[j].path = toDaemon[k].path /\ toDaemon[j].v = toDaemon[k].v
                    /\ Exists(toDaemon, value[toDaemon[k].path], toDaemon[k].path, j)
          BY <2>1, <3>1 DEF IndInv, ChangeFirst
        <4> QED
          BY <3>1, <4>1, <4>2
      <3>2. CASE (k - Len(toDaemon)) \in 1 .. Len(ms) /\ toDaemon'[k] = ms[k - Len(toDaemon)]
        <4>1. CASE toDaemon'[k].v = 0
          <5>1. mark[toDaemon'[k].path] \in Nat
            BY <1>1, <1>3, <3>2
          <5> QED
            BY <4>1, <5>1 DEF Reached
        <4>2. CASE toDaemon'[k].v # 0
          <5> DEFINE j == Len(toDaemon) + 1
          <5>1. /\ k - Len(toDaemon) = 2 /\ ms[1].type = "change" /\ ms[1].path = ms[2].path
                /\ ms[1].v = ms[2].v /\ ms[2].path \in registered
            BY <2>1, <3>2, <4>2
          <5>2. j \in 1 .. (k - 1) /\ toDaemon'[j] = ms[1]
            BY <1>1, <1>3, <3>2, <5>1, Joined
          <5>3. Exists(toDaemon, value[ms[2].path], ms[2].path, j)
            BY <1>1, <5>1 DEF IndInv, DaemonFollows, Follows
          <5>4. Exists(toDaemon', value[ms[2].path], ms[2].path, j)
            BY <1>1, <1>3, <5>3, TrueAtJoined DEF Exists
          <5> QED
            BY <3>2, <5>1, <5>2, <5>4
        <4> QED
          BY <4>1, <4>2
      <3> QED
        BY <1>1, <3>1, <3>2, JoinedFrom
    <2>2. ASSUME NEW k \in 1 .. Len(toCache'), toCache'[k].type = "result"
          PROVE  Reached(toCache', mark'[toCache'[k].path], toCache'[k].path, toCache'[k].v, k - 1)
      BY <2>2 DEF IndInv, ChangeFirst
    <2> QED
      BY <2>1, <2>2 DEF ChangeFirst
  <1>7. ASSUME Serialised PROVE Ordered'
    <2>1. ASSUME NEW p \in Paths
          PROVE  /\ InOrder(toDaemon', p) /\ NoneBelow(toDaemon', p, mark[p])
                 /\ NoneBelow(toDaemon', p, value[p])
                 /\ \A k \in 1 .. Len(toCache) :
                       Carries(toCache, k, p) => NoneBelow(toDaemon', p, toCache[k].v)
      <3>1. /\ InOrder(toDaemon, p) /\ NoneBelow(toDaemon, p, mark[p]) /\ NoneBelow(toDaemon, p, value[p])
            /\ \A k \in 1 .. Len(toCache) : Carries(toCache, k, p) => NoneBelow(toDaemon, p, toCache[k].v)
        BY <1>7 DEF IndInv, Ordered
      <3>2. \A k \in 1 .. Len(ms) : Carries(ms, k, p) => ms[k].v = version'[p]
        BY <1>7 DEF Carries
      <3>3. version[p] \in Nat /\ version'[p] \in Nat /\ version[p] <= version'[p]
        BY <1>1
      <3>4. \A x \in Nat : x <= version[p] => NoneBelow(ms, p, x)
        BY <3>2, <3>3 DEF NoneBelow
      <3>5. InOrder(ms, p)
        BY <3>2, <3>3 DEF InOrder
      <3>6. NoneAbove(toDaemon, p, version[p])
        BY DEF IndInv, Bounded
      <3>7. InOrder(toDaemon', p)
        BY <1>1, <3>1, <3>3, <3>4, <3>5, <3>6, InOrderJoined
      <3>8. mark[p] \in Nat /\ value[p] \in Nat /\ mark[p] <= version[p] /\ value[p] <= version[p]
        BY <1>1 DEF IndInv, Bounded
      <3>9. \A x \in Nat : x <= version[p] /\ NoneBelow(toDaemon, p, x) => NoneBelow(toDaemon', p, x)
        BY <1>1, <3>4, BoundsJoined
      <3>10. \A k \in 1 .. Len(toCache) : Carries(toCache, k, p) => toCache[k].v <= version[p]
        BY DEF IndInv, Bounded, NoneAbove
      <3> QED
        BY <1>3, <3>1, <3>7, <3>8, <3>9, <3>10
    <2> QED
      BY <1>7, <2>1 DEF IndInv, Ordered
  <1> QED
    BY <1>2, <1>4, <1>5, <1>6, <1>7

\* The facts about types that the steps below use.
Typing ==
    /\ toDaemon \in Seq(StateMsgs) /\ toCache \in Seq(StateMsgs)
    /\ toOwner \in Seq(SetMsgs) /\ fromCache \in Seq(CacheMsgs)
    /\ version \in [Paths -> Nat] /\ \A p \in Paths : version[p] <= MaxVersion + MaxSets
    /\ value \in [Paths -> Nat] /\ cache \in [Paths -> Nat] /\ mark \in [Paths -> Nat]
    /\ own \in [Paths -> Nat] /\ \A p \in Paths : own[p] = 0 \/ own[p] = version[p]
    /\ registered \subseteq Paths /\ \A p \in registered : own[p] # 0
    /\ MaxVersion \in Nat /\ MaxSets \in Nat /\ MaxLosses \in Nat /\ Serialised \in BOOLEAN
    /\ sets \in Nat /\ sets <= MaxSets

\* They follow from the invariant.
LEMMA Typed ==
    ASSUME IndInv
    PROVE  Typing
  <1>1. version \in [Paths -> Nat] /\ value \in [Paths -> Nat] /\ cache \in [Paths -> Nat]
    BY PublishAssumption DEF IndInv, Types, TypeOK
  <1> QED
    BY <1>1, PublishAssumption DEF Typing, IndInv, Types, TypeOK

\* The numbers of the set requests bound the versions, also when the application
\* makes one of its own.
LEMMA NumberedKept ==
    ASSUME IndInv, UNCHANGED <<toOwner, fromCache, sets>>, version' \in [Paths -> Nat],
           \A p \in Paths : version'[p] = version[p] \/ version'[p] <= MaxVersion,
           \A k \in 1 .. Len(toDaemon') :
               toDaemon'[k].n = 0 \/ \E j \in 1 .. Len(toDaemon) : toDaemon'[k] = toDaemon[j]
    PROVE  Numbered'
  <1>t. Typing /\ Numbered
    BY Typed DEF IndInv
  <1>1. \A p \in Paths : version[p] \in Nat /\ version'[p] \in Nat /\ version[p] <= MaxVersion + sets
    BY <1>t DEF Typing, Numbered
  <1>2. MaxVersion \in Nat /\ sets \in Nat
    BY <1>t DEF Typing
  <1>3. \A p \in Paths : version'[p] <= MaxVersion + sets'
    BY <1>1, <1>2
  <1>4. \A p \in Paths, n \in 1 .. sets : version[p] < MaxVersion + n => version'[p] < MaxVersion + n
    BY <1>1, <1>2
  <1>5. \A k \in 1 .. Len(toDaemon') : toDaemon'[k].n <= sets'
    BY <1>t, <1>2 DEF Numbered
  <1>6. ASSUME NEW k \in 1 .. Len(toOwner)
        PROVE  /\ toOwner[k].n \in 1 .. sets
               /\ \A j \in (k + 1) .. Len(toOwner) : toOwner[k].n < toOwner[j].n
               /\ \A p \in Paths : version'[p] < MaxVersion + toOwner[k].n
    BY <1>t, <1>4 DEF Numbered
  <1>7. ASSUME NEW k \in 1 .. Len(fromCache), fromCache[k].type = "set"
        PROVE  /\ fromCache[k].n \in 1 .. sets
               /\ \A j \in (k + 1) .. Len(fromCache) :
                     fromCache[j].type = "set" => fromCache[k].n < fromCache[j].n
               /\ \A p \in Paths : version'[p] < MaxVersion + fromCache[k].n
               /\ \A j \in 1 .. Len(toOwner) : toOwner[j].n < fromCache[k].n
               /\ \A j \in 1 .. Len(toDaemon') : toDaemon'[j].n < fromCache[k].n
    <2>1. /\ fromCache[k].n \in 1 .. sets
          /\ \A j \in (k + 1) .. Len(fromCache) :
                fromCache[j].type = "set" => fromCache[k].n < fromCache[j].n
          /\ \A j \in 1 .. Len(toOwner) : toOwner[j].n < fromCache[k].n
          /\ \A j \in 1 .. Len(toDaemon) : toDaemon[j].n < fromCache[k].n
      BY <1>t, <1>7 DEF Numbered
    <2>2. \A p \in Paths : version'[p] < MaxVersion + fromCache[k].n
      BY <1>t, <1>4, <1>7 DEF Numbered
    <2>3. 0 < fromCache[k].n
      BY <2>1
    <2> QED
      BY <2>1, <2>2, <2>3
  <1> QED
    BY <1>3, <1>5, <1>6, <1>7 DEF Numbered

\* The application adds a state that is not registered, in its latest version.
LEMMA AddStateStep ==
    ASSUME IndInv, NEW p \in Paths, AddState(p)
    PROVE  IndInv'
  <1> DEFINE m == Msg("add", p, own'[p], 0)
  <1> DEFINE ms == <<m>>
  <1>t. Typing
    BY Typed
  <1>0. oconn /\ unsent = {} /\ p \notin registered
    BY DEF AddState
  <1>1. UNCHANGED <<unsent, oconn, toOwner, value, fetched, routed, fconn, fromCache, toCache,
                    cache, mark, missed, sets, losses>>
    BY DEF AddState, daemon, flink, copy
  <1>2. registered' = registered \cup {p} /\ toDaemon' = toDaemon \o ms
    BY <1>0 DEF AddState, OwnerSends
  <1>3. /\ version' \in [Paths -> 0 .. MaxVersion + MaxSets] /\ version' \in [Paths -> Nat]
        /\ own' \in [Paths -> Nat]
        /\ \A q \in Paths : version[q] <= version'[q]
        /\ \A q \in Paths : version'[q] = version[q] \/ version'[q] <= MaxVersion
        /\ own'[p] = version'[p] /\ own'[p] # 0
        /\ \A q \in Paths \ {p} : own'[q] = own[q] /\ version'[q] = version[q]
    <2>1. CASE own[p] = 0 /\ version[p] < MaxVersion /\ NewVersion(p)
      <3>1. version[p] + 1 \in 0 .. MaxVersion + MaxSets /\ version[p] + 1 \in Nat
        BY <1>t, <2>1 DEF Typing
      <3> QED
        BY <1>t, <2>1, <3>1 DEF Typing, NewVersion
    <2>2. CASE own[p] # 0 /\ UNCHANGED <<version, own>>
      BY <1>t, <2>2 DEF Typing
    <2> QED
      BY <2>1, <2>2 DEF AddState
  <1>4. m \in StateMsgs /\ m.type = "add" /\ m.path = p /\ m.v = own'[p] /\ m.n = 0
    BY <1>3 DEF Msg, StateMsgs
  <1> HIDE DEF m
  <1>5. ms \in Seq(StateMsgs) /\ Len(ms) = 1 /\ ms[1] = m
    BY <1>4
  <1>6. /\ toDaemon' \in Seq(StateMsgs)
        /\ Bounded' /\ CacheFollows' /\ ChangeFirst' /\ (Serialised => Ordered')
    <2>1. \A k \in 1 .. Len(ms) : ms[k].type \in {"add", "change"} =>
              ms[k].v <= version'[ms[k].path] /\ (Serialised => ms[k].v = version'[ms[k].path])
      BY <1>3, <1>4, <1>5
    <2>2. \A k \in 1 .. Len(ms) : ms[k].type # "result"
      BY <1>4, <1>5
    <2>3. UNCHANGED <<value, fetched, routed, toCache, cache, mark, missed>>
      BY <1>1
    <2>4. version' \in [Paths -> Nat] /\ \A q \in Paths : version[q] <= version'[q]
      BY <1>3
    <2> HIDE DEF ms
    <2> QED
      BY <1>2, <1>5, <2>1, <2>2, <2>3, <2>4, OwnerSent
  <1>7. Types'
    BY <1>1, <1>2, <1>3, <1>6 DEF IndInv, Types, TypeOK
  <1>8. Links'
    BY <1>0, <1>1 DEF IndInv, Links
  <1>9. Numbered'
    <2>1. \A k \in 1 .. Len(toDaemon') :
              toDaemon'[k].n = 0 \/ \E j \in 1 .. Len(toDaemon) : toDaemon'[k] = toDaemon[j]
      BY <1>t, <1>2, <1>4, <1>5, JoinedFrom DEF Typing
    <2> QED
      BY <1>1, <1>3, <2>1, NumberedKept
  <1>10. Pending'
    BY <1>0, <1>1 DEF Pending
  <1>11. DaemonFollows'
    <2>1. Follows(toDaemon', value'[p], p, p \in registered')
      <3>1. Follows(toDaemon, value[p], p, FALSE)
        BY <1>0 DEF IndInv, DaemonFollows, Follows
      <3>2. Follows(toDaemon', value[p], p, TRUE)
        BY <1>t, <1>2, <1>4, <3>1, FollowsAdd DEF Typing
      <3> QED
        BY <1>1, <1>2, <3>2
    <2>2. ASSUME NEW q \in Paths, q # p
          PROVE  Follows(toDaemon', value'[q], q, q \in registered')
      <3>1. Follows(toDaemon, value[q], q, q \in registered')
        BY <1>2, <2>2 DEF IndInv, DaemonFollows
      <3>2. \A k \in 1 .. Len(ms) : ~Is(ms, k, q, "add") /\ ~Is(ms, k, q, "remove")
        BY <1>4, <1>5, <2>2 DEF Is
      <3>3. Follows(toDaemon', value[q], q, q \in registered')
        BY <1>t, <1>2, <1>5, <3>1, <3>2, FollowsSent DEF Typing
      <3> QED
        BY <1>1, <3>3
    <2> QED
      BY <2>1, <2>2 DEF DaemonFollows
  <1>12. ASSUME Serialised PROVE Latest'
    <2>1. LastIs(toDaemon', value'[p], p, own'[p])
      <3>1. About(ms, 1, p) /\ 1 \in 1 .. Len(ms) /\ \A j \in (1 + 1) .. Len(ms) : ~About(ms, j, p)
        BY <1>4, <1>5 DEF About
      <3>2. LastIs(toDaemon', value[p], p, ms[1].v)
        BY <1>t, <1>2, <1>5, <3>1, LastIsJoined DEF Typing
      <3> QED
        BY <1>1, <1>4, <1>5, <3>2
    <2>2. ASSUME NEW q \in registered, q # p
          PROVE  LastIs(toDaemon', value'[q], q, own'[q])
      <3>1. \A k \in 1 .. Len(ms) : ~About(ms, k, q)
        BY <1>4, <1>5, <2>2 DEF About
      <3>2. LastIs(toDaemon, value[q], q, own[q])
        BY <1>0, <1>12 DEF IndInv, Latest
      <3>3. LastIs(toDaemon', value[q], q, own[q])
        BY <1>t, <1>2, <1>5, <3>1, <3>2, LastIsJoinedOther DEF Typing
      <3> QED
        BY <1>t, <1>1, <1>3, <2>2, <3>3 DEF Typing
    <2> QED
      BY <1>0, <1>1, <1>2, <2>1, <2>2 DEF Latest
  <1> QED
    BY <1>6, <1>7, <1>8, <1>9, <1>10, <1>11, <1>12 DEF IndInv

\* The messages the owner sends with and without connection.
LEMMA OwnerSendsWhat ==
    ASSUME NEW ms \in Seq(StateMsgs), Typing, OwnerSends(ms)
    PROVE  \E sent \in Seq(StateMsgs) : /\ toDaemon' = toDaemon \o sent
                                        /\ oconn => sent = ms
                                        /\ ~oconn => sent = <<>> /\ toDaemon' = toDaemon
  <1>1. CASE oconn
    BY <1>1 DEF OwnerSends
  <1>2. CASE ~oconn
    <2>1. <<>> \in Seq(StateMsgs) /\ toDaemon \o <<>> = toDaemon
      BY ConcatEmptySeq DEF Typing
    <2> QED
      BY <1>2, <2>1 DEF OwnerSends
  <1> QED
    BY <1>1, <1>2

\* The application removes a state, registered or not.
LEMMA RemoveStateStep ==
    ASSUME IndInv, NEW p \in Paths, RemoveState(p)
    PROVE  IndInv'
  <1> DEFINE m == Msg("remove", p, 0, 0)
  <1>t. Typing
    BY Typed
  <1>0. unsent = {} /\ own' = [own EXCEPT ![p] = 0] /\ registered' = registered \ {p} /\ OwnerSends(<<m>>)
    BY DEF RemoveState
  <1>1. UNCHANGED <<version, unsent, oconn, toOwner, value, fetched, routed, fconn, fromCache, toCache,
                    cache, mark, missed, sets, losses>>
    BY DEF RemoveState, daemon, flink, copy
  <1>2. m \in StateMsgs /\ m.type = "remove" /\ m.path = p /\ m.v = 0 /\ m.n = 0
    BY DEF Msg, StateMsgs
  <1> HIDE DEF m
  <1>3. <<m>> \in Seq(StateMsgs) /\ Len(<<m>>) = 1 /\ <<m>>[1] = m
    BY <1>2
  <1>4. PICK ms \in Seq(StateMsgs) : /\ toDaemon' = toDaemon \o ms
                                     /\ oconn => ms = <<m>>
                                     /\ ~oconn => ms = <<>> /\ toDaemon' = toDaemon
    BY <1>t, <1>0, <1>3, OwnerSendsWhat
  <1>5. \A k \in 1 .. Len(ms) : ms[k] = m
    BY <1>3, <1>4
  <1>6. /\ toDaemon' \in Seq(StateMsgs)
        /\ Bounded' /\ CacheFollows' /\ ChangeFirst' /\ (Serialised => Ordered')
    <2>1. \A k \in 1 .. Len(ms) : ms[k].type # "result" /\ ms[k].type \notin {"add", "change"}
      BY <1>2, <1>5
    <2>2. UNCHANGED <<value, fetched, routed, toCache, cache, mark, missed>>
      BY <1>1
    <2>3. version' \in [Paths -> Nat] /\ \A q \in Paths : version[q] <= version'[q]
      BY <1>t, <1>1 DEF Typing
    <2> QED
      BY <1>4, <2>1, <2>2, <2>3, OwnerSent
  <1>7. Types'
    <2>1. own' \in [Paths -> Nat] /\ own'[p] = 0 /\ \A q \in Paths \ {p} : own'[q] = own[q]
      BY <1>t, <1>0 DEF Typing
    <2> QED
      BY <1>t, <1>0, <1>1, <1>6, <2>1 DEF Typing, IndInv, Types, TypeOK
  <1>8. Links'
    BY <1>0, <1>1, <1>4 DEF IndInv, Links
  <1>9. Numbered'
    <2>1. \A k \in 1 .. Len(toDaemon') :
              toDaemon'[k].n = 0 \/ \E j \in 1 .. Len(toDaemon) : toDaemon'[k] = toDaemon[j]
      BY <1>t, <1>2, <1>4, <1>5, JoinedFrom DEF Typing
    <2> QED
      BY <1>t, <1>1, <2>1, NumberedKept DEF Typing
  <1>10. Pending'
    BY <1>0, <1>1 DEF Pending
  <1>11. DaemonFollows'
    <2>1. Follows(toDaemon', value'[p], p, p \in registered')
      <3>1. Follows(toDaemon, value[p], p, p \in registered)
        BY DEF IndInv, DaemonFollows
      <3>2. CASE oconn
        <4>1. Follows(toDaemon', value[p], p, FALSE)
          BY <1>t, <1>2, <1>4, <3>1, <3>2, FollowsRemove DEF Typing
        <4> QED
          BY <1>0, <1>1, <4>1 DEF Follows
      <3>3. CASE ~oconn
        BY <1>0, <1>1, <1>4, <3>1, <3>3 DEF IndInv, Links
      <3> QED
        BY <3>2, <3>3
    <2>2. ASSUME NEW q \in Paths, q # p
          PROVE  Follows(toDaemon', value'[q], q, q \in registered')
      <3>1. Follows(toDaemon, value[q], q, q \in registered')
        BY <1>0, <2>2 DEF IndInv, DaemonFollows
      <3>2. \A k \in 1 .. Len(ms) : ~Is(ms, k, q, "add") /\ ~Is(ms, k, q, "remove")
        BY <1>2, <1>5, <2>2 DEF Is
      <3>3. Follows(toDaemon', value[q], q, q \in registered')
        BY <1>t, <1>4, <3>1, <3>2, FollowsSent DEF Typing
      <3> QED
        BY <1>1, <3>3
    <2> QED
      BY <2>1, <2>2 DEF DaemonFollows
  <1>12. ASSUME Serialised PROVE Latest'
    <2>1. ASSUME NEW q \in registered, q # p
          PROVE  LastIs(toDaemon', value'[q], q, own'[q])
      <3>1. \A k \in 1 .. Len(ms) : ~About(ms, k, q)
        BY <1>2, <1>5, <2>1 DEF About
      <3>2. LastIs(toDaemon, value[q], q, own[q])
        BY <1>0, <1>12 DEF IndInv, Latest
      <3>3. LastIs(toDaemon', value[q], q, own[q])
        BY <1>t, <1>4, <3>1, <3>2, LastIsJoinedOther DEF Typing
      <3> QED
        BY <1>t, <1>0, <1>1, <2>1, <3>3 DEF Typing
    <2> QED
      BY <1>0, <1>1, <2>1 DEF Latest
  <1> QED
    BY <1>6, <1>7, <1>8, <1>9, <1>10, <1>11, <1>12 DEF IndInv

\* The application changes the value of a state and has still to notify it.
LEMMA ChangeValueStep ==
    ASSUME IndInv, NEW p \in Paths, ChangeValue(p)
    PROVE  IndInv'
  <1>t. Typing
    BY Typed
  <1>0. unsent = {} /\ own[p] # 0 /\ version[p] < MaxVersion /\ unsent' = {<<p, version[p] + 1>>}
    BY DEF ChangeValue
  <1>1. UNCHANGED <<registered, oconn, toDaemon, toOwner, value, fetched, routed, fconn, fromCache,
                    toCache, cache, mark, missed, sets, losses>>
    BY DEF ChangeValue, olink, daemon, flink, copy
  <1>2. /\ version' \in [Paths -> Nat] /\ own' \in [Paths -> Nat]
        /\ version'[p] = version[p] + 1 /\ own'[p] = version[p] + 1
        /\ \A q \in Paths \ {p} : own'[q] = own[q] /\ version'[q] = version[q]
    <2>1. version[p] + 1 \in Nat
      BY <1>t DEF Typing
    <2> QED
      BY <1>t, <2>1 DEF Typing, ChangeValue, NewVersion
  <1>3. /\ \A q \in Paths : version[q] <= version'[q]
        /\ \A q \in Paths : version'[q] = version[q] \/ version'[q] <= MaxVersion
    <2>1. MaxVersion \in Nat /\ \A q \in Paths : version[q] \in Nat /\ version'[q] \in Nat
      BY <1>t, <1>2 DEF Typing
    <2>2. version[p] <= version'[p] /\ version'[p] <= MaxVersion
      BY <1>0, <1>2, <2>1
    <2> QED
      BY <1>2, <2>1, <2>2
  <1>4. /\ toDaemon' \in Seq(StateMsgs)
        /\ Bounded' /\ CacheFollows' /\ ChangeFirst' /\ (Serialised => Ordered')
    <2>1. <<>> \in Seq(StateMsgs) /\ Len(<<>>) = 0 /\ toDaemon' = toDaemon \o <<>>
      BY <1>t, <1>1, ConcatEmptySeq DEF Typing
    <2>2. UNCHANGED <<value, fetched, routed, toCache, cache, mark, missed>>
      BY <1>1
    <2>3. \A k \in 1 .. Len(<<>>) : FALSE
      BY <2>1
    <2>4. version' \in [Paths -> Nat]
      BY <1>2
    <2> QED
      BY <1>3, <2>1, <2>2, <2>3, <2>4, OwnerSent
  <1>5. Types'
    <2>1. \A q \in Paths : version'[q] \in 0 .. MaxVersion + MaxSets
      <3>1. /\ MaxVersion \in Nat /\ MaxSets \in Nat
            /\ \A q \in Paths : version'[q] \in Nat /\ version[q] \in Nat /\ version[q] <= MaxVersion + MaxSets
        BY <1>t, <1>2 DEF Typing
      <3> QED
        BY <1>3, <3>1
    <2>2. version' \in [Paths -> 0 .. MaxVersion + MaxSets]
      BY <1>2, <2>1
    <2>3. \A q \in Paths : own'[q] \in {0, version'[q]}
      BY <1>t, <1>2 DEF Typing
    <2>4. \A q \in Paths : own[q] # 0 => own'[q] # 0
      BY <1>t, <1>2 DEF Typing
    <2>5. registered' \subseteq {q \in Paths : own'[q] # 0}
      BY <1>t, <1>1, <2>4 DEF Typing
    <2> QED
      BY <1>1, <1>2, <2>2, <2>3, <2>5 DEF IndInv, Types, TypeOK
  <1>6. Links'
    BY <1>1 DEF IndInv, Links
  <1>7. Numbered'
    BY <1>1, <1>2, <1>3, NumberedKept
  <1>8. Pending'
    <2>1. version[p] + 1 \in 1 .. version'[p]
      BY <1>t, <1>2 DEF Typing
    <2> QED
      BY <1>0, <2>1 DEF Pending
  <1>9. DaemonFollows'
    BY <1>1 DEF IndInv, DaemonFollows
  <1>10. ASSUME Serialised PROVE Latest'
    <2>1. \A u \in unsent' : u[1] = p /\ u[2] = own'[p] /\ u[2] = version'[p]
      BY <1>0, <1>2
    <2>2. ASSUME NEW q \in registered', \A u \in unsent' : u[1] # q
          PROVE  LastIs(toDaemon', value'[q], q, own'[q])
      <3>1. q # p
        BY <1>0, <2>2
      <3>2. LastIs(toDaemon, value[q], q, own[q])
        BY <1>0, <1>1, <1>10 DEF IndInv, Latest
      <3> QED
        BY <1>t, <1>1, <1>2, <3>1, <3>2 DEF Typing
    <2> QED
      BY <2>1, <2>2 DEF Latest
  <1> QED
    BY <1>4, <1>5, <1>6, <1>7, <1>8, <1>9, <1>10 DEF IndInv

\* The application notifies a value, the one it holds if Serialised.
LEMMA NotifyStateStep ==
    ASSUME IndInv, NEW p \in Paths, NEW v \in 1 .. version[p], NotifyState(p, v)
    PROVE  IndInv'
  <1> DEFINE m == Msg("change", p, v, 0)
  <1>t. Typing
    BY Typed
  <1>0. <<p, v>> \in unsent /\ unsent' = {} /\ OwnerSends(<<m>>)
    BY DEF NotifyState
  <1>1. UNCHANGED <<version, own, registered, oconn, toOwner, value, fetched, routed, fconn, fromCache,
                    toCache, cache, mark, missed, sets, losses>>
    BY DEF NotifyState, daemon, flink, copy
  <1>2. version[p] \in Nat /\ v \in Nat /\ v # 0 /\ v <= version[p]
    BY <1>t DEF Typing
  <1>3. m \in StateMsgs /\ m.type = "change" /\ m.path = p /\ m.v = v /\ m.n = 0
    BY <1>2 DEF Msg, StateMsgs
  <1> HIDE DEF m
  <1>4. <<m>> \in Seq(StateMsgs) /\ Len(<<m>>) = 1 /\ <<m>>[1] = m
    BY <1>3
  <1>5. PICK ms \in Seq(StateMsgs) : /\ toDaemon' = toDaemon \o ms
                                     /\ oconn => ms = <<m>>
                                     /\ ~oconn => ms = <<>> /\ toDaemon' = toDaemon
    BY <1>t, <1>0, <1>4, OwnerSendsWhat
  <1>6. \A k \in 1 .. Len(ms) : ms[k] = m
    BY <1>4, <1>5
  <1>7. Serialised => v = version[p] /\ v = own[p]
    <2>1. <<p, v>>[1] = p /\ <<p, v>>[2] = v
      OBVIOUS
    <2> QED
      BY <1>0, <2>1 DEF IndInv, Latest
  <1>8. /\ toDaemon' \in Seq(StateMsgs)
        /\ Bounded' /\ CacheFollows' /\ ChangeFirst' /\ (Serialised => Ordered')
    <2>1. \A k \in 1 .. Len(ms) : ms[k].type \in {"add", "change"} =>
              ms[k].v <= version'[ms[k].path] /\ (Serialised => ms[k].v = version'[ms[k].path])
      BY <1>1, <1>2, <1>3, <1>6, <1>7
    <2>2. \A k \in 1 .. Len(ms) : ms[k].type # "result"
      BY <1>3, <1>6
    <2>3. UNCHANGED <<value, fetched, routed, toCache, cache, mark, missed>>
      BY <1>1
    <2>4. version' \in [Paths -> Nat] /\ \A q \in Paths : version[q] <= version'[q]
      BY <1>t, <1>1 DEF Typing
    <2> QED
      BY <1>5, <2>1, <2>2, <2>3, <2>4, OwnerSent
  <1>9. Types'
    BY <1>1, <1>8 DEF IndInv, Types, TypeOK
  <1>10. Links'
    BY <1>1, <1>5 DEF IndInv, Links
  <1>11. Numbered'
    <2>1. \A k \in 1 .. Len(toDaemon') :
              toDaemon'[k].n = 0 \/ \E j \in 1 .. Len(toDaemon) : toDaemon'[k] = toDaemon[j]
      BY <1>t, <1>3, <1>5, <1>6, JoinedFrom DEF Typing
    <2> QED
      BY <1>t, <1>1, <2>1, NumberedKept DEF Typing
  <1>12. Pending'
    BY <1>0 DEF Pending
  <1>13. DaemonFollows'
    <2>1. ASSUME NEW q \in Paths
          PROVE  Follows(toDaemon', value'[q], q, q \in registered')
      <3>1. Follows(toDaemon, value[q], q, q \in registered)
        BY DEF IndInv, DaemonFollows
      <3>2. \A k \in 1 .. Len(ms) : ~Is(ms, k, q, "add") /\ ~Is(ms, k, q, "remove")
        BY <1>3, <1>6 DEF Is
      <3>3. Follows(toDaemon', value[q], q, q \in registered)
        BY <1>t, <1>5, <3>1, <3>2, FollowsSent DEF Typing
      <3> QED
        BY <1>1, <3>3
    <2> QED
      BY <2>1 DEF DaemonFollows
  <1>14. ASSUME Serialised PROVE Latest'
    <2>1. ASSUME NEW q \in registered
          PROVE  LastIs(toDaemon', value[q], q, own[q])
      <3>0. oconn /\ ms = <<m>> /\ Len(ms) = 1 /\ ms[1] = m
        BY <1>4, <1>5 DEF IndInv, Links
      <3>1. CASE q = p
        <4>1. About(ms, 1, p) /\ 1 \in 1 .. Len(ms) /\ \A j \in (1 + 1) .. Len(ms) : ~About(ms, j, p)
          BY <1>3, <3>0 DEF About
        <4>2. LastIs(toDaemon', value[p], p, ms[1].v)
          BY <1>t, <1>5, <4>1, LastIsJoined DEF Typing
        <4> QED
          BY <1>3, <1>7, <1>14, <3>0, <3>1, <4>2
      <3>2. CASE q # p
        <4>1. \A k \in 1 .. Len(ms) : ~About(ms, k, q)
          BY <1>3, <1>6, <3>2 DEF About
        <4>2. \A u \in unsent : u[1] # q
          <5>1. \A u \in unsent : u = <<p, v>>
            BY <1>0 DEF IndInv, Pending
          <5> QED
            BY <3>2, <5>1
        <4>3. LastIs(toDaemon, value[q], q, own[q])
          BY <1>14, <4>2 DEF IndInv, Latest
        <4> QED
          BY <1>t, <1>5, <4>1, <4>3, LastIsJoinedOther DEF Typing
      <3> QED
        BY <3>1, <3>2
    <2> QED
      BY <1>0, <1>1, <2>1 DEF Latest
  <1> QED
    BY <1>8, <1>9, <1>10, <1>11, <1>12, <1>13, <1>14 DEF IndInv

\* The owner handles a set request, which makes one version at most.
LEMMA HandleSetStep ==
    ASSUME IndInv, HandleSet
    PROVE  IndInv'
  <1> DEFINE m == Head(toOwner)
  <1> DEFINE p == m.path
  <1>t. Typing
    BY Typed
  <1>0. oconn /\ toOwner # <<>> /\ (Serialised => unsent = {}) /\ toOwner' = Tail(toOwner)
    BY DEF HandleSet
  <1>1. UNCHANGED <<registered, unsent, oconn, value, fetched, routed, fconn, fromCache,
                    toCache, cache, mark, missed, sets, losses>>
    BY DEF HandleSet, daemon, flink, copy
  <1>2. /\ m \in SetMsgs /\ m = toOwner[1] /\ toOwner' \in Seq(SetMsgs)
        /\ Len(toOwner) \in Nat /\ Len(toOwner) >= 1 /\ Len(toOwner') = Len(toOwner) - 1
        /\ \A k \in 1 .. Len(toOwner) - 1 : toOwner'[k] = toOwner[k + 1]
    BY <1>t, <1>0, HeadTaken DEF Typing
  <1>3. p \in Paths /\ m.n \in Nat
    BY <1>2 DEF SetMsgs
  <1>4. 1 \in 1 .. Len(toOwner) /\ m.n \in 1 .. sets /\ version[p] < MaxVersion + m.n
    BY <1>2, <1>3 DEF IndInv, Numbered
  <1>5. version[p] \in Nat /\ version[p] + 1 \in Nat /\ version[p] + 1 # 0
    <2>1. version[p] \in Nat
      BY <1>t, <1>3 DEF Typing
    <2> QED
      BY <2>1
  <1> HIDE DEF m
  <1>6. PICK ms \in Seq(StateMsgs) :
            /\ toDaemon' = toDaemon \o ms
            /\ \A k \in 1 .. Len(ms) : ms[k].n = m.n /\ ms[k].type \in {"change", "result"}
            /\ \/ /\ version' = [version EXCEPT ![p] = version[p] + 1]
                  /\ own' = [own EXCEPT ![p] = version[p] + 1]
                  /\ p \in registered
                  /\ Len(ms) = 2 /\ ms[1].type = "change" /\ ms[2].type = "result"
                  /\ \A k \in 1 .. 2 : ms[k].path = p /\ ms[k].v = version[p] + 1
               \/ /\ UNCHANGED <<version, own>>
                  /\ \A k \in 1 .. Len(ms) : ms[k].type = "result" /\ ms[k].v = 0
    <2>1. CASE p \in registered /\ NewVersion(p) /\ OwnerSends(Served(p, version[p] + 1, m.n))
      <3> DEFINE c == Msg("change", p, version[p] + 1, m.n)
      <3> DEFINE r == Msg("result", p, version[p] + 1, m.n)
      <3>1. /\ c \in StateMsgs /\ c.type = "change" /\ c.path = p /\ c.v = version[p] + 1 /\ c.n = m.n
            /\ r \in StateMsgs /\ r.type = "result" /\ r.path = p /\ r.v = version[p] + 1 /\ r.n = m.n
        BY <1>3, <1>5 DEF Msg, StateMsgs
      <3>2. toDaemon' = toDaemon \o <<c, r>>
        BY <1>0, <2>1 DEF OwnerSends, Served
      <3> HIDE DEF c, r
      <3>3. <<c, r>> \in Seq(StateMsgs) /\ Len(<<c, r>>) = 2 /\ <<c, r>>[1] = c /\ <<c, r>>[2] = r
        BY <3>1
      <3>4. \A k \in 1 .. 2 : k = 1 \/ k = 2
        OBVIOUS
      <3> QED
        BY <2>1, <3>1, <3>2, <3>3, <3>4 DEF NewVersion
    <2>2. CASE OwnerSends(<<Msg("result", p, 0, m.n)>>) /\ UNCHANGED <<version, own>>
      <3> DEFINE r == Msg("result", p, 0, m.n)
      <3>1. r \in StateMsgs /\ r.type = "result" /\ r.path = p /\ r.v = 0 /\ r.n = m.n
        BY <1>3 DEF Msg, StateMsgs
      <3>2. toDaemon' = toDaemon \o <<r>>
        BY <1>0, <2>2 DEF OwnerSends
      <3> HIDE DEF r
      <3> DEFINE rs == <<r>>
      <3>3. rs \in Seq(StateMsgs) /\ Len(rs) = 1 /\ rs[1] = r
        BY <3>1
      <3>4. toDaemon' = toDaemon \o rs /\ \A k \in 1 .. Len(rs) : rs[k] = r
        BY <3>2, <3>3
      <3> HIDE DEF rs
      <3> QED
        BY <2>2, <3>1, <3>3, <3>4
    <2>3. CASE UNCHANGED <<version, own, toDaemon>>
      <3>1. <<>> \in Seq(StateMsgs) /\ Len(<<>>) = 0 /\ toDaemon \o <<>> = toDaemon
        BY <1>t, ConcatEmptySeq DEF Typing
      <3>2. \A k \in 1 .. Len(<<>>) : FALSE
        BY <3>1
      <3> QED
        BY <2>3, <3>1, <3>2
    <2> QED
      BY <2>1, <2>2, <2>3 DEF HandleSet, m
  <1>7. /\ version' \in [Paths -> Nat] /\ own' \in [Paths -> Nat]
        /\ \A q \in Paths : version[q] <= version'[q] /\ version'[q] <= version[q] + 1
        /\ \A q \in Paths : own'[q] = own[q] \/ (own'[q] = version'[q] /\ own'[q] # 0)
        /\ \A q \in Paths : own'[q] = own[q] => version'[q] = version[q] \/ own'[q] = version'[q]
        /\ \A q \in Paths : version'[q] = version[q] \/ q = p
    <2>1. \A q \in Paths : version[q] \in Nat
      BY <1>t DEF Typing
    <2>2. CASE UNCHANGED <<version, own>>
      <3>1. /\ version' \in [Paths -> Nat] /\ own' \in [Paths -> Nat]
            /\ \A q \in Paths : version'[q] = version[q] /\ own'[q] = own[q]
        BY <1>t, <2>2 DEF Typing
      <3>2. \A q \in Paths : version[q] <= version'[q] /\ version'[q] <= version[q] + 1
        BY <2>1, <3>1
      <3> QED
        BY <3>1, <3>2
    <2>3. CASE /\ version' = [version EXCEPT ![p] = version[p] + 1]
               /\ own' = [own EXCEPT ![p] = version[p] + 1]
      <3>1. /\ version' \in [Paths -> Nat] /\ own' \in [Paths -> Nat]
            /\ version'[p] = version[p] + 1 /\ own'[p] = version[p] + 1
            /\ \A q \in Paths \ {p} : version'[q] = version[q] /\ own'[q] = own[q]
        BY <1>t, <1>3, <1>5, <2>3 DEF Typing
      <3>2. \A q \in Paths : version[q] <= version'[q] /\ version'[q] <= version[q] + 1
        <4>1. version[p] <= version'[p] /\ version'[p] <= version[p] + 1
          BY <1>5, <3>1
        <4>2. \A q \in Paths \ {p} : version[q] <= version'[q] /\ version'[q] <= version[q] + 1
          BY <2>1, <3>1
        <4> QED
          BY <4>1, <4>2
      <3> QED
        BY <1>5, <3>1, <3>2
    <2> QED
      BY <1>6, <2>2, <2>3
  <1>8. /\ toDaemon' \in Seq(StateMsgs)
        /\ Bounded' /\ CacheFollows' /\ ChangeFirst' /\ (Serialised => Ordered')
    <2>1. \A k \in 1 .. Len(ms) : ms[k].type \in {"add", "change"} =>
              ms[k].v <= version'[ms[k].path] /\ (Serialised => ms[k].v = version'[ms[k].path])
      <3>1. CASE /\ version' = [version EXCEPT ![p] = version[p] + 1]
                 /\ Len(ms) = 2 /\ \A k \in 1 .. 2 : ms[k].path = p /\ ms[k].v = version[p] + 1
        <4>1. version'[p] = version[p] + 1
          BY <1>t, <1>3, <3>1 DEF Typing
        <4> QED
          BY <1>5, <3>1, <4>1
      <3>2. CASE \A k \in 1 .. Len(ms) : ms[k].type = "result"
        BY <3>2
      <3> QED
        BY <1>6, <3>1, <3>2
    <2>2. \A k \in 1 .. Len(ms) : ms[k].type = "result" =>
               \/ ms[k].v = 0
               \/ /\ k = 2 /\ ms[1].type = "change" /\ ms[1].path = ms[2].path /\ ms[1].v = ms[2].v
                  /\ ms[2].path \in registered
      <3>1. CASE /\ p \in registered /\ Len(ms) = 2 /\ ms[1].type = "change" /\ ms[2].type = "result"
                 /\ \A k \in 1 .. 2 : ms[k].path = p /\ ms[k].v = version[p] + 1
        <4>1. 1 \in 1 .. 2 /\ 2 \in 1 .. 2 /\ \A k \in 1 .. 2 : k = 1 \/ k = 2
          OBVIOUS
        <4> QED
          BY <3>1, <4>1
      <3> QED
        BY <1>6, <3>1
    <2>3. UNCHANGED <<value, fetched, routed, toCache, cache, mark, missed>>
      BY <1>1
    <2>4. version' \in [Paths -> Nat] /\ \A q \in Paths : version[q] <= version'[q]
      BY <1>7
    <2> QED
      BY <1>6, <2>1, <2>2, <2>3, <2>4, OwnerSent
  <1>9. \A q \in Paths : version'[q] <= MaxVersion + m.n
    <2>1. /\ MaxVersion \in Nat
          /\ \A q \in Paths : version[q] \in Nat /\ version'[q] \in Nat /\ version'[q] <= version[q] + 1
      BY <1>t, <1>7 DEF Typing
    <2>2. \A q \in Paths : version[q] < MaxVersion + m.n
      BY <1>2, <1>4 DEF IndInv, Numbered
    <2> QED
      BY <1>3, <2>1, <2>2
  <1>10. Types'
    <2>1. /\ MaxVersion \in Nat /\ MaxSets \in Nat /\ sets \in Nat /\ sets <= MaxSets
          /\ \A q \in Paths : version'[q] \in Nat
      BY <1>t, <1>7 DEF Typing
    <2>2. \A q \in Paths : version'[q] \in 0 .. MaxVersion + MaxSets
      BY <1>4, <1>9, <2>1
    <2>3. version' \in [Paths -> 0 .. MaxVersion + MaxSets]
      BY <1>7, <2>2
    <2>4. \A q \in Paths : own'[q] \in {0, version'[q]}
      BY <1>t, <1>7 DEF Typing
    <2>5. registered' \subseteq {q \in Paths : own'[q] # 0}
      BY <1>t, <1>1, <1>7 DEF Typing
    <2> QED
      BY <1>1, <1>2, <1>7, <1>8, <2>3, <2>4, <2>5 DEF IndInv, Types, TypeOK
  <1>11. Links'
    BY <1>0, <1>1 DEF IndInv, Links
  <1>12. Numbered'
    <2>1. /\ MaxVersion \in Nat /\ sets \in Nat /\ sets' = sets
          /\ \A q \in Paths : version'[q] \in Nat
      BY <1>t, <1>1, <1>7 DEF Typing
    <2>2. \A q \in Paths, n \in Nat : m.n < n => version'[q] < MaxVersion + n
      BY <1>3, <1>9, <2>1
    <2>3. \A q \in Paths : version'[q] <= MaxVersion + sets
      BY <1>4, <1>9, <2>1
    <2>4. \A k \in 1 .. Len(toDaemon') :
              toDaemon'[k].n = m.n \/ \E j \in 1 .. Len(toDaemon) : toDaemon'[k] = toDaemon[j]
      BY <1>t, <1>6, JoinedFrom DEF Typing
    <2>5. \A k \in 1 .. Len(toDaemon') : toDaemon'[k].n <= sets
      <3>1. m.n <= sets
        BY <1>4, <2>1
      <3>2. \A k \in 1 .. Len(toDaemon) : toDaemon[k].n <= sets
        BY DEF IndInv, Numbered
      <3> QED
        BY <2>4, <3>1, <3>2
    <2>6. ASSUME NEW k \in 1 .. Len(toOwner')
          PROVE  /\ toOwner'[k].n \in 1 .. sets
                 /\ \A j \in (k + 1) .. Len(toOwner') : toOwner'[k].n < toOwner'[j].n
                 /\ \A q \in Paths : version'[q] < MaxVersion + toOwner'[k].n
      <3>1. k + 1 \in 1 .. Len(toOwner) /\ k + 1 \in (1 + 1) .. Len(toOwner) /\ toOwner'[k] = toOwner[k + 1]
        BY <1>2
      <3>2. /\ toOwner[k + 1].n \in 1 .. sets
            /\ \A j \in ((k + 1) + 1) .. Len(toOwner) : toOwner[k + 1].n < toOwner[j].n
        BY <3>1 DEF IndInv, Numbered
      <3>3. m.n < toOwner[k + 1].n
        BY <1>2, <1>4, <3>1 DEF IndInv, Numbered
      <3>4. \A q \in Paths : version'[q] < MaxVersion + toOwner[k + 1].n
        BY <2>1, <2>2, <3>2, <3>3
      <3>5. \A j \in (k + 1) .. Len(toOwner') : j + 1 \in ((k + 1) + 1) .. Len(toOwner) /\ toOwner'[j] = toOwner[j + 1]
        BY <1>2
      <3> QED
        BY <3>1, <3>2, <3>4, <3>5
    <2>7. ASSUME NEW k \in 1 .. Len(fromCache), fromCache[k].type = "set"
          PROVE  /\ fromCache[k].n \in 1 .. sets
                 /\ \A j \in (k + 1) .. Len(fromCache) :
                       fromCache[j].type = "set" => fromCache[k].n < fromCache[j].n
                 /\ \A q \in Paths : version'[q] < MaxVersion + fromCache[k].n
                 /\ \A j \in 1 .. Len(toOwner') : toOwner'[j].n < fromCache[k].n
                 /\ \A j \in 1 .. Len(toDaemon') : toDaemon'[j].n < fromCache[k].n
      <3>1. /\ fromCache[k].n \in 1 .. sets
            /\ \A j \in (k + 1) .. Len(fromCache) :
                  fromCache[j].type = "set" => fromCache[k].n < fromCache[j].n
            /\ \A j \in 1 .. Len(toOwner) : toOwner[j].n < fromCache[k].n
            /\ \A j \in 1 .. Len(toDaemon) : toDaemon[j].n < fromCache[k].n
        BY <2>7 DEF IndInv, Numbered
      <3>2. m.n < fromCache[k].n
        BY <1>2, <1>4, <3>1
      <3>3. \A q \in Paths : version'[q] < MaxVersion + fromCache[k].n
        BY <2>1, <2>2, <3>1, <3>2
      <3>4. \A j \in 1 .. Len(toOwner') : j + 1 \in 1 .. Len(toOwner) /\ toOwner'[j] = toOwner[j + 1]
        BY <1>2
      <3> QED
        BY <2>4, <3>1, <3>2, <3>3, <3>4
    <2> QED
      BY <1>1, <2>3, <2>5, <2>6, <2>7 DEF Numbered
  <1>13. Pending'
    <2>1. ASSUME NEW u \in unsent PROVE u[1] \in Paths /\ u[2] \in 1 .. version'[u[1]]
      <3>1. u[1] \in Paths /\ u[2] \in 1 .. version[u[1]]
        BY DEF IndInv, Pending
      <3>2. version[u[1]] \in Nat /\ version'[u[1]] \in Nat /\ version[u[1]] <= version'[u[1]]
        BY <1>t, <1>7, <3>1 DEF Typing
      <3> QED
        BY <3>1, <3>2
    <2> QED
      BY <1>1, <2>1 DEF IndInv, Pending
  <1>14. DaemonFollows'
    <2>1. ASSUME NEW q \in Paths
          PROVE  Follows(toDaemon', value'[q], q, q \in registered')
      <3>1. Follows(toDaemon, value[q], q, q \in registered)
        BY DEF IndInv, DaemonFollows
      <3>2. \A k \in 1 .. Len(ms) : ~Is(ms, k, q, "add") /\ ~Is(ms, k, q, "remove")
        BY <1>6 DEF Is
      <3>3. Follows(toDaemon', value[q], q, q \in registered)
        BY <1>t, <1>6, <3>1, <3>2, FollowsSent DEF Typing
      <3> QED
        BY <1>1, <3>3
    <2> QED
      BY <2>1 DEF DaemonFollows
  <1>15. ASSUME Serialised PROVE Latest'
    <2>1. unsent = {}
      BY <1>0, <1>15
    <2>2. ASSUME NEW q \in registered
          PROVE  LastIs(toDaemon', value[q], q, own'[q])
      <3>0. LastIs(toDaemon, value[q], q, own[q])
        BY <1>15, <2>1 DEF IndInv, Latest
      <3>1. CASE own'[q] = own[q] /\ \A k \in 1 .. Len(ms) : ~About(ms, k, q)
        BY <1>t, <1>6, <3>0, <3>1, LastIsJoinedOther DEF Typing
      <3>2. CASE /\ q = p /\ own' = [own EXCEPT ![p] = version[p] + 1]
                 /\ Len(ms) = 2 /\ ms[1].type = "change" /\ ms[2].type = "result"
                 /\ \A k \in 1 .. 2 : ms[k].path = p /\ ms[k].v = version[p] + 1
        <4>1. About(ms, 1, q) /\ 1 \in 1 .. Len(ms) /\ \A j \in (1 + 1) .. Len(ms) : ~About(ms, j, q)
          BY <3>2 DEF About
        <4>2. LastIs(toDaemon', value[q], q, ms[1].v)
          BY <1>t, <1>6, <4>1, LastIsJoined DEF Typing
        <4>3. own'[q] = ms[1].v
          BY <1>t, <1>3, <3>2 DEF Typing
        <4> QED
          BY <4>2, <4>3
      <3>3. CASE \/ q # p
              \/ /\ UNCHANGED <<version, own>>
                 /\ \A k \in 1 .. Len(ms) : ms[k].type = "result" /\ ms[k].v = 0
        <4>1. own'[q] = own[q] /\ \A k \in 1 .. Len(ms) : ~About(ms, k, q)
          BY <1>t, <1>6, <3>3 DEF Typing, About
        <4> QED
          BY <3>1, <4>1
      <3> QED
        BY <1>6, <3>2, <3>3
    <2> QED
      BY <1>1, <2>1, <2>2 DEF Latest
  <1> QED
    BY <1>8, <1>10, <1>11, <1>12, <1>13, <1>14, <1>15 DEF IndInv

\* What the daemon does with message m from the owner: it passes on a response it
\* waits for; takes an event that fits what it has, and tells the cache; or
\* ignores the event.
Handles(m, es) ==
    /\ toCache' = toCache \o es
    /\ Len(es) = 0 \/ Len(es) = 1
    /\ ~fetched => Len(es) = 0
    /\ \A k \in 1 .. Len(es) : es[k].path = m.path /\ es[k].type = m.type /\ es[k].v = m.v
    /\ value' \in [Paths -> Nat] /\ \A q \in Paths \ {m.path} : value'[q] = value[q]
    /\ missed \subseteq missed' /\ missed' \subseteq missed \cup {m.path}
    /\ routed' \subseteq routed
    /\ \/ /\ m.type = "result" /\ UNCHANGED <<value, missed>>
          /\ Len(es) = 1 => m.n \in routed
       \/ /\ m.type # "result" /\ (value[m.path] # 0 <=> m.type # "add")
          /\ value'[m.path] = m.v
          /\ fetched => Len(es) = 1
          /\ m.type = "remove" /\ ~fetched => m.path \in missed'
       \/ /\ m.type # "result" /\ ~(value[m.path] # 0 <=> m.type # "add")
          /\ UNCHANGED <<value, missed>> /\ Len(es) = 0

\* It does one of these.
LEMMA DaemonTakes ==
    ASSUME IndInv, DaemonHandlesOwner
    PROVE  \E es \in Seq(StateMsgs) : Handles(Head(toDaemon), es)
  <1> DEFINE m == Head(toDaemon)
  <1>t. Typing /\ Links
    BY Typed DEF IndInv
  <1>1. toDaemon # <<>> /\ m \in StateMsgs
    BY <1>t, HeadTaken DEF Typing, DaemonHandlesOwner
  <1>2. m.path \in Paths /\ m.v \in Nat
    BY <1>1 DEF StateMsgs
  <1> DEFINE none == <<>>
  <1>3. none \in Seq(StateMsgs) /\ Len(none) = 0 /\ toCache \o none = toCache /\ \A k \in 1 .. Len(none) : FALSE
    BY <1>t, ConcatEmptySeq DEF Typing
  <1>4. value \in [Paths -> Nat] /\ toCache \in Seq(StateMsgs)
    BY <1>t DEF Typing
  <1> HIDE DEF m, none
  <1>5. CASE /\ m.type = "result"
             /\ toCache' = IF m.n \in routed THEN Append(toCache, m) ELSE toCache
             /\ routed' = routed \ {m.n}
             /\ UNCHANGED <<value, missed>>
    <2>1. CASE m.n \in routed
      <3> DEFINE es == <<m>>
      <3>1. es \in Seq(StateMsgs) /\ Len(es) = 1 /\ es[1] = m /\ toCache' = toCache \o es
        BY <1>1, <1>4, <1>5, <2>1, AppendIsConcat
      <3>2. \A k \in 1 .. Len(es) : es[k] = m
        BY <3>1
      <3>3. fetched
        BY <1>t, <2>1 DEF Links
      <3> HIDE DEF es
      <3>4. Handles(m, es)
        BY <1>4, <1>5, <2>1, <3>1, <3>2, <3>3 DEF Handles
      <3> QED
        BY <3>1, <3>4 DEF m
    <2>2. CASE m.n \notin routed
      <3>1. Handles(m, none)
        BY <1>3, <1>4, <1>5, <2>2 DEF Handles
      <3> QED
        BY <1>3, <3>1 DEF m
    <2> QED
      BY <2>1, <2>2
  <1>6. CASE /\ m.type # "result" /\ (value[m.path] # 0 <=> m.type # "add")
             /\ value' = [value EXCEPT ![m.path] = m.v]
             /\ Event(m.type, m.path, m.v)
             /\ missed' = IF m.type = "remove" /\ ~fetched THEN missed \cup {m.path} ELSE missed
             /\ UNCHANGED routed
    <2>0. value' \in [Paths -> Nat] /\ value'[m.path] = m.v /\ \A q \in Paths \ {m.path} : value'[q] = value[q]
      BY <1>2, <1>4, <1>6
    <2>1. CASE fetched
      <3> DEFINE e == Msg(m.type, m.path, m.v, 0)
      <3> DEFINE es == <<e>>
      <3>1. e \in StateMsgs /\ e.type = m.type /\ e.path = m.path /\ e.v = m.v
        BY <1>1 DEF Msg, StateMsgs
      <3>2. toCache' = Append(toCache, e)
        BY <1>6, <2>1 DEF Event
      <3> HIDE DEF e
      <3>3. es \in Seq(StateMsgs) /\ Len(es) = 1 /\ es[1] = e /\ toCache' = toCache \o es
        BY <1>4, <3>1, <3>2, AppendIsConcat
      <3>4. \A k \in 1 .. Len(es) : es[k] = e
        BY <3>3
      <3> HIDE DEF es
      <3>5. Handles(m, es)
        BY <1>6, <2>0, <2>1, <3>1, <3>3, <3>4 DEF Handles
      <3> QED
        BY <3>3, <3>5 DEF m
    <2>2. CASE ~fetched
      <3>1. Handles(m, none)
        BY <1>3, <1>6, <2>0, <2>2 DEF Handles, Event
      <3> QED
        BY <1>3, <3>1 DEF m
    <2> QED
      BY <2>1, <2>2
  <1>7. CASE /\ m.type # "result" /\ ~(value[m.path] # 0 <=> m.type # "add")
             /\ UNCHANGED <<value, toCache, missed, routed>>
    <2>1. Handles(m, none)
      BY <1>3, <1>4, <1>7 DEF Handles
    <2> QED
      BY <1>3, <2>1 DEF m
  <1> QED
    BY <1>5, <1>6, <1>7 DEF DaemonHandlesOwner, m

\* The daemon handles a message from the owner.
LEMMA DaemonHandlesOwnerStep ==
    ASSUME IndInv, DaemonHandlesOwner
    PROVE  IndInv'
  <1> DEFINE m == Head(toDaemon)
  <1> DEFINE x == m.path
  <1>t. Typing
    BY Typed
  <1>0. toDaemon # <<>> /\ toDaemon' = Tail(toDaemon)
    BY DEF DaemonHandlesOwner
  <1>1. UNCHANGED <<version, own, registered, unsent, oconn, toOwner, fetched, fconn, fromCache,
                    cache, mark, sets, losses>>
    BY DEF DaemonHandlesOwner, owner
  <1>2. PICK es \in Seq(StateMsgs) : Handles(m, es)
    BY DaemonTakes
  <1>3. /\ m = toDaemon[1] /\ toDaemon' \in Seq(StateMsgs)
        /\ Len(toDaemon) \in Nat /\ Len(toDaemon) >= 1 /\ Len(toDaemon') = Len(toDaemon) - 1
        /\ \A k \in 1 .. Len(toDaemon) - 1 : toDaemon'[k] = toDaemon[k + 1]
    BY <1>t, <1>0, HeadTaken DEF Typing
  <1>4. 1 \in 1 .. Len(toDaemon)
    BY <1>3
  <1>5. /\ m.type \in {"add", "change", "remove", "result"} /\ x \in Paths /\ m.v \in Nat
        /\ m.type # "result" => (m.v = 0 <=> m.type = "remove")
    BY <1>t, <1>3, <1>4, StateMsgFields DEF Typing
  <1> HIDE DEF m
  <1>6. /\ toCache' = toCache \o es
        /\ \A k \in 1 .. Len(es) : es[k].path = x /\ es[k].type = m.type /\ es[k].v = m.v
    BY <1>2 DEF Handles
  <1>7. toCache' \in Seq(StateMsgs)
    BY <1>t, <1>6, Joined DEF Typing
  \* What the message finds.
  <1>8. m.type = "add" => value[x] = 0
    <2>1. ASSUME m.type = "add" PROVE value[x] = 0
      <3>1. Is(toDaemon, 1, x, "add")
        BY <1>3, <2>1 DEF Is
      <3>2. Gone(toDaemon, value[x], x, 1)
        BY <1>4, <1>5, <3>1 DEF IndInv, DaemonFollows, Follows
      <3> QED
        BY <3>2 DEF Gone, TrueAt
    <2> QED
      BY <2>1
  <1>9. m.type \in {"add", "change"} => m.v <= version[x]
    <2>1. NoneAbove(toDaemon, x, version[x])
      BY <1>5 DEF IndInv, Bounded
    <2> QED
      BY <1>3, <1>4, <2>1 DEF NoneAbove, Carries
  <1>10. \A q \in Paths : \/ value'[q] = value[q]
                          \/ q = x /\ value'[q] = m.v /\ m.type # "result"
    BY <1>2 DEF Handles
  <1>11. Types'
    <2>1. \A q \in Paths : value'[q] \in Nat /\ value[q] \in Nat /\ value[q] <= version[q] /\ version[q] \in Nat
      BY <1>t, <1>2 DEF Typing, Handles, IndInv, Bounded
    <2>2. MaxVersion \in Nat /\ MaxSets \in Nat /\ \A q \in Paths : version[q] <= MaxVersion + MaxSets
      BY <1>t DEF Typing
    <2>3. \A q \in Paths : value'[q] \in 0 .. MaxVersion + MaxSets
      BY <1>5, <1>9, <1>10, <2>1, <2>2
    <2>4. value' \in [Paths -> 0 .. MaxVersion + MaxSets]
      BY <1>2, <2>3 DEF Handles
    <2>5. missed' \subseteq Paths /\ routed' \subseteq 1 .. sets'
      BY <1>1, <1>2, <1>5 DEF Handles, IndInv, Types, TypeOK
    <2> QED
      BY <1>1, <1>3, <1>7, <2>4, <2>5 DEF IndInv, Types, TypeOK
  <1>12. Links'
    <2>1. oconn
      BY <1>0 DEF IndInv, Links
    <2>2. ASSUME ~fconn PROVE toCache' = <<>>
      <3>1. ~fetched /\ toCache = <<>>
        BY <2>2 DEF IndInv, Links
      <3>2. Len(es) = 0
        BY <1>2, <3>1 DEF Handles
      <3>3. es = <<>>
        BY <3>2, EmptySeq
      <3> QED
        BY <1>6, <3>1, <3>3
    <2>3. routed' # {} => fetched
      BY <1>2 DEF Handles, IndInv, Links
    <2> QED
      BY <1>1, <2>1, <2>2, <2>3 DEF IndInv, Links
  <1>13. Numbered'
    <2>1. \A k \in 1 .. Len(toDaemon') : \E j \in 1 .. Len(toDaemon) : toDaemon'[k] = toDaemon[j]
      BY <1>3
    <2> QED
      BY <1>t, <1>1, <2>1, NumberedKept DEF Typing
  <1>14. Pending'
    BY <1>1 DEF IndInv, Pending
  <1>15. Bounded'
    <2>1. ASSUME NEW q \in Paths
          PROVE  value'[q] <= version[q] /\ NoneAbove(toDaemon', q, version[q]) /\ NoneAbove(toCache', q, version[q])
      <3>1. NoneAbove(toDaemon', q, version[q])
        BY <1>t, <1>0, BoundsTail DEF Typing, IndInv, Bounded
      <3>2. NoneAbove(es, q, version[q])
        BY <1>6, <1>9 DEF NoneAbove, Carries
      <3>3. NoneAbove(toCache', q, version[q])
        BY <1>t, <1>6, <3>2, BoundsJoined DEF Typing, IndInv, Bounded
      <3>4. value[q] <= version[q] /\ version[q] \in Nat
        BY <1>t DEF Typing, IndInv, Bounded
      <3>5. value'[q] <= version[q]
        BY <1>5, <1>9, <1>10, <3>4
      <3> QED
        BY <3>1, <3>3, <3>5
    <2> QED
      BY <1>1, <2>1 DEF IndInv, Bounded
  <1>e. \A q \in Paths : /\ Is(toDaemon, 1, q, "add") => value'[q] # 0
                         /\ Is(toDaemon, 1, q, "remove") => value'[q] = 0
                         /\ ~Is(toDaemon, 1, q, "add") /\ value[q] = 0 => value'[q] = 0
                         /\ ~Is(toDaemon, 1, q, "remove") /\ value[q] # 0 => value'[q] # 0
    <2>1. ASSUME NEW q \in Paths
          PROVE  /\ Is(toDaemon, 1, q, "add") <=> q = x /\ m.type = "add"
                 /\ Is(toDaemon, 1, q, "remove") <=> q = x /\ m.type = "remove"
      BY <1>3 DEF Is
    <2>2. \A q \in Paths : q # x => value'[q] = value[q]
      BY <1>10
    <2>3. /\ m.type = "add" => value'[x] # 0
          /\ m.type = "remove" => value'[x] = 0
          /\ m.type # "add" /\ value[x] = 0 => value'[x] = 0
          /\ m.type # "remove" /\ value[x] # 0 => value'[x] # 0
      BY <1>2, <1>5, <1>8 DEF Handles
    <2> QED
      BY <2>1, <2>2, <2>3
  <1>16. DaemonFollows'
    <2>1. ASSUME NEW q \in Paths
          PROVE  Follows(toDaemon', value'[q], q, q \in registered)
      <3>1. Follows(toDaemon, value[q], q, q \in registered)
        BY DEF IndInv, DaemonFollows
      <3> QED
        BY <1>t, <1>0, <1>e, <3>1, FollowsTail DEF Typing
    <2> QED
      BY <1>1, <2>1 DEF DaemonFollows
  <1>17. CacheFollows'
    <2>1. ASSUME NEW q \in Paths, fetched
          PROVE  \/ LastIs(toCache', cache[q], q, value'[q])
                 \/ /\ \A k \in 1 .. Len(toCache') : ~About(toCache', k, q)
                    /\ value'[q] = 0 /\ q \in missed'
      <3>1. CASE \A k \in 1 .. Len(es) : ~About(es, k, q)
        <4>1. value'[q] = value[q]
          <5>1. CASE q # x
            BY <1>10, <5>1
          <5>2. CASE q = x /\ Len(es) = 1
            BY <1>2, <1>5, <1>6, <1>10, <3>1, <5>2 DEF About
          <5>3. CASE q = x /\ Len(es) = 0
            BY <1>2, <2>1, <5>3 DEF Handles
          <5> QED
            BY <1>2, <5>1, <5>2, <5>3 DEF Handles
        <4>2. CASE LastIs(toCache, cache[q], q, value[q])
          BY <1>t, <1>6, <3>1, <4>1, <4>2, LastIsJoinedOther DEF Typing
        <4>3. CASE /\ \A k \in 1 .. Len(toCache) : ~About(toCache, k, q)
                   /\ value[q] = 0 /\ q \in missed
          <5>1. \A k \in 1 .. Len(toCache') : ~About(toCache', k, q)
            BY <1>t, <1>6, <3>1, <4>3, JoinedFrom DEF Typing, About
          <5>2. q \in missed'
            BY <1>2, <4>3 DEF Handles
          <5> QED
            BY <4>1, <4>3, <5>1, <5>2
        <4> QED
          BY <2>1, <4>2, <4>3 DEF IndInv, CacheFollows
      <3>2. CASE \E k \in 1 .. Len(es) : About(es, k, q)
        <4>1. Len(es) = 1 /\ 1 \in 1 .. Len(es) /\ About(es, 1, q)
          BY <1>2, <3>2 DEF Handles
        <4>2. q = x /\ m.type # "result" /\ es[1].v = m.v
          BY <1>6, <4>1 DEF About
        <4>3. value'[q] = m.v
          BY <1>2, <4>1, <4>2 DEF Handles
        <4>4. \A j \in (1 + 1) .. Len(es) : ~About(es, j, q)
          BY <4>1
        <4>5. LastIs(toCache', cache[q], q, es[1].v)
          BY <1>t, <1>6, <4>1, <4>4, LastIsJoined DEF Typing
        <4> QED
          BY <4>2, <4>3, <4>5
      <3> QED
        BY <3>1, <3>2
    <2>2. ASSUME NEW q \in Paths, ~fetched
          PROVE  /\ \A k \in 1 .. Len(toCache') : ~About(toCache', k, q)
                 /\ value'[q] = 0 => cache[q] = 0 \/ q \in missed'
      <3>1. Len(es) = 0 /\ missed \subseteq missed'
        BY <1>2, <2>2 DEF Handles
      <3>2. es = <<>> /\ toCache' = toCache
        BY <1>t, <1>6, <3>1, EmptySeq, ConcatEmptySeq DEF Typing
      <3>3. /\ \A k \in 1 .. Len(toCache) : ~About(toCache, k, q)
            /\ value[q] = 0 => cache[q] = 0 \/ q \in missed
        BY <2>2 DEF IndInv, CacheFollows
      <3>4. ASSUME value'[q] = 0, value[q] # 0 PROVE q \in missed'
        <4>1. q = x /\ m.v = 0 /\ m.type # "result"
          BY <1>10, <3>4
        <4>2. m.type = "remove"
          BY <1>5, <4>1
        <4> QED
          BY <1>2, <2>2, <3>4, <4>1, <4>2 DEF Handles
      <3> QED
        BY <3>1, <3>2, <3>3, <3>4
    <2> QED
      BY <1>1, <2>1, <2>2 DEF CacheFollows
  <1>18. ChangeFirst'
    <2>0. /\ toCache \in Seq(StateMsgs) /\ Len(toCache) \in Nat /\ Len(es) \in Nat
          /\ Len(toCache') = Len(toCache) + Len(es)
          /\ \A k \in 1 .. Len(es) : toCache'[Len(toCache) + k] = es[k]
      BY <1>t, <1>6, Joined DEF Typing
    <2>1. ASSUME NEW k \in 1 .. Len(toDaemon'), toDaemon'[k].type = "result", toDaemon'[k].n \in routed'
          PROVE  \/ Reached(toCache', mark[toDaemon'[k].path], toDaemon'[k].path, toDaemon'[k].v, Len(toCache'))
                 \/ \E j \in 1 .. (k - 1) :
                       /\ toDaemon'[j].type = "change"
                       /\ toDaemon'[j].path = toDaemon'[k].path /\ toDaemon'[j].v = toDaemon'[k].v
                       /\ Exists(toDaemon', value'[toDaemon'[k].path], toDaemon'[k].path, j)
      <3> DEFINE p == toDaemon'[k].path
      <3> DEFINE v == toDaemon'[k].v
      <3>1. k + 1 \in 1 .. Len(toDaemon) /\ toDaemon'[k] = toDaemon[k + 1]
        BY <1>3
      <3>2. p \in Paths /\ v \in Nat
        BY <1>t, <3>1, StateMsgFields DEF Typing
      <3>3. toDaemon[k + 1].n \in routed /\ fetched
        BY <1>2, <2>1, <3>1 DEF Handles, IndInv, Links
      <3>4. \/ Reached(toCache, mark[p], p, v, Len(toCache))
            \/ \E j \in 1 .. ((k + 1) - 1) :
                  /\ toDaemon[j].type = "change" /\ toDaemon[j].path = p /\ toDaemon[j].v = v
                  /\ Exists(toDaemon, value[p], p, j)
        BY <2>1, <3>1, <3>3 DEF IndInv, ChangeFirst
      <3> HIDE DEF p, v
      <3>5. CASE Reached(toCache, mark[p], p, v, Len(toCache))
        <4>1. Len(toCache) \in 0 .. Len(toCache) /\ Len(toCache') \in Len(toCache) .. Len(toCache \o es)
          BY <1>6, <2>0
        <4> QED
          BY <1>6, <2>0, <3>5, <4>1, ReachedJoined DEF p, v
      <3>6. ASSUME NEW j \in 1 .. ((k + 1) - 1), toDaemon[j].type = "change", toDaemon[j].path = p,
                   toDaemon[j].v = v, Exists(toDaemon, value[p], p, j)
            PROVE  \/ Reached(toCache', mark[p], p, v, Len(toCache'))
                   \/ \E i \in 1 .. (k - 1) :
                         /\ toDaemon'[i].type = "change" /\ toDaemon'[i].path = p /\ toDaemon'[i].v = v
                         /\ Exists(toDaemon', value'[p], p, i)
        <4>1. CASE j = 1
          <5>1. value[p] # 0 /\ x = p /\ m.type = "change" /\ m.v = v
            BY <1>3, <3>6, <4>1 DEF Exists, TrueAt
          <5>2. Len(es) = 1
            BY <1>2, <3>3, <5>1 DEF Handles
          <5>3. 1 \in 1 .. Len(es) /\ Len(toCache) + 1 \in 1 .. Len(toCache')
            BY <2>0, <5>2
          <5>4. toCache'[Len(toCache) + 1] = es[1] /\ es[1].path = p /\ es[1].type = "change" /\ es[1].v = v
            BY <1>6, <2>0, <5>1, <5>3
          <5> QED
            BY <3>2, <5>3, <5>4 DEF Reached, Carries
        <4>2. CASE j # 1
          <5>1. j \in 2 .. (Len(toDaemon) + 1) /\ j - 1 \in 1 .. (k - 1) /\ j - 1 \in 1 .. Len(toDaemon) - 1
            BY <1>3, <3>1, <4>2
          <5>2. toDaemon'[j - 1] = toDaemon[j]
            BY <1>3, <5>1
          <5>3. Exists(toDaemon', value'[p], p, j - 1)
            BY <1>t, <1>0, <1>e, <3>2, <3>6, <5>1, TrueAtTail DEF Typing, Exists
          <5> QED
            BY <3>6, <5>1, <5>2, <5>3
        <4> QED
          BY <4>1, <4>2
      <3> QED
        BY <3>4, <3>5, <3>6 DEF p, v
    <2>2. ASSUME NEW k \in 1 .. Len(toCache'), toCache'[k].type = "result"
          PROVE  Reached(toCache', mark[toCache'[k].path], toCache'[k].path, toCache'[k].v, k - 1)
      <3>1. CASE k \in 1 .. Len(toCache) /\ toCache'[k] = toCache[k]
        <4>1. Reached(toCache, mark[toCache[k].path], toCache[k].path, toCache[k].v, k - 1)
          BY <2>2, <3>1 DEF IndInv, ChangeFirst
        <4>2. k - 1 \in 0 .. Len(toCache) /\ k - 1 \in (k - 1) .. Len(toCache \o es)
          BY <1>6, <2>0, <3>1
        <4> QED
          BY <1>6, <2>0, <3>1, <4>1, <4>2, ReachedJoined
      <3>2. CASE (k - Len(toCache)) \in 1 .. Len(es) /\ toCache'[k] = es[k - Len(toCache)]
        <4>1. Len(es) = 1 /\ k - 1 = Len(toCache)
          BY <1>2, <2>0, <3>2 DEF Handles
        <4>2. toCache'[k].path = x /\ toCache'[k].v = m.v /\ m.type = "result"
          BY <1>6, <2>2, <3>2
        <4>3. m.n \in routed
          BY <1>2, <4>1, <4>2 DEF Handles
        <4>4. Reached(toCache, mark[x], x, m.v, Len(toCache))
          BY <1>3, <1>4, <4>2, <4>3 DEF IndInv, ChangeFirst
        <4>5. Len(toCache) \in 0 .. Len(toCache) /\ Len(toCache) \in Len(toCache) .. Len(toCache \o es)
          BY <1>6, <2>0
        <4>6. Reached(toCache', mark[x], x, m.v, Len(toCache))
          BY <1>6, <2>0, <4>4, <4>5, ReachedJoined
        <4> QED
          BY <4>1, <4>2, <4>6
      <3> QED
        BY <1>6, <2>0, <3>1, <3>2, JoinedFrom
    <2> QED
      BY <1>1, <2>1, <2>2 DEF ChangeFirst
  <1>19. ASSUME Serialised PROVE Latest'
    <2>1. ASSUME NEW q \in registered, LastIs(toDaemon, value[q], q, own[q])
          PROVE  LastIs(toDaemon', value'[q], q, own[q])
      <3>0. q \in Paths
        BY <1>t DEF Typing
      <3>1. About(toDaemon, 1, q) <=> q = x /\ m.type # "result"
        BY <1>3, <1>5 DEF About
      <3>2. ~About(toDaemon, 1, q) => value'[q] = value[q]
        BY <1>10, <3>0, <3>1
      <3>3. ASSUME About(toDaemon, 1, q), \A k \in 2 .. Len(toDaemon) : ~About(toDaemon, k, q)
            PROVE  value'[q] = toDaemon[1].v
        <4>1. Exists(toDaemon, value[q], q, Len(toDaemon) + 1)
          BY <3>0 DEF IndInv, DaemonFollows, Follows
        <4>2. \A j \in 1 .. Len(toDaemon) : Is(toDaemon, j, q, "add") => j = 1
          BY <1>3, <3>3 DEF Is, About
        <4>3. m.type = "change" => value[q] # 0
          <5>1. ASSUME m.type = "change" PROVE ~Is(toDaemon, 1, q, "add")
            BY <1>3, <5>1 DEF Is
          <5> QED
            BY <1>3, <4>1, <4>2, <5>1 DEF Exists, TrueAt
        <4>4. m.type = "remove" => m.v = 0
          BY <1>5
        <4> QED
          BY <1>2, <1>3, <1>5, <1>8, <3>1, <3>3, <4>3, <4>4 DEF Handles
      <3> QED
        BY <1>t, <1>0, <2>1, <3>2, <3>3, LastIsTail DEF Typing
    <2> QED
      BY <1>1, <1>19, <2>1 DEF IndInv, Latest
  <1>20. ASSUME Serialised PROVE Ordered'
    <2>1. ASSUME NEW q \in Paths
          PROVE  /\ InOrder(toDaemon', q) /\ InOrder(toCache', q)
                 /\ NoneBelow(toDaemon', q, mark[q]) /\ NoneBelow(toCache', q, mark[q])
                 /\ NoneBelow(toDaemon', q, value'[q])
                 /\ value'[q] # 0 => mark[q] <= value'[q] /\ NoneAbove(toCache', q, value'[q])
                 /\ \A k \in 1 .. Len(toCache') :
                       Carries(toCache', k, q) => NoneBelow(toDaemon', q, toCache'[k].v)
      <3>0. /\ InOrder(toDaemon, q) /\ InOrder(toCache, q)
            /\ NoneBelow(toDaemon, q, mark[q]) /\ NoneBelow(toCache, q, mark[q])
            /\ NoneBelow(toDaemon, q, value[q])
            /\ value[q] # 0 => mark[q] <= value[q] /\ NoneAbove(toCache, q, value[q])
            /\ \A k \in 1 .. Len(toCache) : Carries(toCache, k, q) => NoneBelow(toDaemon, q, toCache[k].v)
        BY <1>20 DEF IndInv, Ordered
      <3>1. /\ toCache \in Seq(StateMsgs) /\ toDaemon \in Seq(StateMsgs)
            /\ mark[q] \in Nat /\ value[q] \in Nat /\ version[q] \in Nat
        BY <1>t DEF Typing
      <3>2. Carries(toDaemon, 1, q) <=> q = x /\ m.type \in {"add", "change"}
        BY <1>3 DEF Carries
      <3>3. \A k \in 1 .. Len(es) : Carries(es, k, q) => Carries(toDaemon, 1, q) /\ es[k].v = m.v
        BY <1>6, <3>2 DEF Carries
      <3>4. InOrder(toDaemon', q)
        BY <1>0, <3>0, <3>1, BoundsTail
      <3>5. \A y : NoneBelow(toDaemon, q, y) => NoneBelow(toDaemon', q, y)
        BY <1>0, <3>1, BoundsTail
      <3>6. CASE ~Carries(toDaemon, 1, q)
        <4>1. \A y : NoneBelow(es, q, y) /\ NoneAbove(es, q, y)
          BY <3>3, <3>6 DEF NoneBelow, NoneAbove
        <4>2. InOrder(es, q)
          BY <3>3, <3>6 DEF InOrder
        <4>3. NoneAbove(toCache, q, version[q])
          BY DEF IndInv, Bounded
        <4>4. InOrder(toCache', q)
          BY <1>6, <3>0, <3>1, <4>1, <4>2, <4>3, InOrderJoined
        <4>5. NoneBelow(toCache', q, mark[q])
          BY <1>6, <3>0, <3>1, <4>1, BoundsJoined
        <4>6. value'[q] = value[q] \/ value'[q] = 0
          BY <1>5, <1>10, <3>2, <3>6
        <4>7. NoneBelow(toDaemon', q, 0)
          BY <1>3, StateMsgFields DEF NoneBelow
        <4>8. value'[q] # 0 => mark[q] <= value'[q] /\ NoneAbove(toCache', q, value'[q])
          BY <1>6, <3>0, <3>1, <4>1, <4>6, BoundsJoined
        <4>9. ASSUME NEW k \in 1 .. Len(toCache'), Carries(toCache', k, q)
              PROVE  k \in 1 .. Len(toCache) /\ toCache'[k] = toCache[k] /\ Carries(toCache, k, q)
          <5>1. CASE k \in 1 .. Len(toCache) /\ toCache'[k] = toCache[k]
            BY <4>9, <5>1 DEF Carries
          <5>2. CASE (k - Len(toCache)) \in 1 .. Len(es) /\ toCache'[k] = es[k - Len(toCache)]
            <6>1. Carries(es, k - Len(toCache), q)
              BY <4>9, <5>2 DEF Carries
            <6> QED
              BY <3>3, <3>6, <5>2, <6>1
          <5> QED
            BY <1>6, <3>1, <5>1, <5>2, JoinedFrom
        <4> QED
          BY <3>0, <3>4, <3>5, <4>4, <4>5, <4>6, <4>7, <4>8, <4>9
      <3>7. CASE Carries(toDaemon, 1, q)
        <4>1. q = x /\ m.type \in {"add", "change"} /\ m.v # 0
          BY <1>5, <3>2, <3>7
        <4>2. NoneBelow(toDaemon', q, m.v)
          BY <1>0, <1>3, <3>0, <3>1, <3>7, BoundsTail
        <4>3. mark[q] <= m.v
          BY <1>3, <1>4, <3>0, <3>7 DEF NoneBelow
        <4>4. NoneAbove(toCache, q, m.v)
          BY <1>3, <1>4, <3>0, <3>7 DEF NoneAbove, NoneBelow
        <4>5. NoneBelow(es, q, m.v) /\ NoneAbove(es, q, m.v) /\ NoneBelow(es, q, mark[q]) /\ InOrder(es, q)
          BY <1>5, <3>3, <4>3 DEF NoneBelow, NoneAbove, InOrder
        <4>6. InOrder(toCache', q)
          BY <1>5, <1>6, <3>0, <3>1, <4>4, <4>5, InOrderJoined
        <4>7. NoneBelow(toCache', q, mark[q]) /\ NoneAbove(toCache', q, m.v)
          BY <1>6, <3>0, <3>1, <4>4, <4>5, BoundsJoined
        <4>8. \A k \in 1 .. Len(toCache') : Carries(toCache', k, q) => NoneBelow(toDaemon', q, toCache'[k].v)
          <5>1. ASSUME NEW k \in 1 .. Len(toCache'), Carries(toCache', k, q)
                PROVE  NoneBelow(toDaemon', q, toCache'[k].v)
            <6>1. CASE k \in 1 .. Len(toCache) /\ toCache'[k] = toCache[k]
              BY <3>0, <3>5, <5>1, <6>1 DEF Carries
            <6>2. CASE (k - Len(toCache)) \in 1 .. Len(es) /\ toCache'[k] = es[k - Len(toCache)]
              BY <1>6, <4>2, <6>2
            <6> QED
              BY <1>6, <3>1, <6>1, <6>2, JoinedFrom
          <5> QED
            BY <5>1
        <4>9. CASE value'[q] = m.v
          BY <3>0, <3>4, <3>5, <4>2, <4>3, <4>6, <4>7, <4>8, <4>9
        <4>10. CASE value'[q] = value[q] /\ Len(es) = 0
          <5>1. NoneAbove(es, q, value[q])
            BY <4>10 DEF NoneAbove
          <5>2. value[q] # 0 => NoneAbove(toCache', q, value[q])
            BY <1>6, <3>0, <3>1, <5>1, BoundsJoined
          <5> QED
            BY <3>0, <3>4, <3>5, <4>6, <4>7, <4>8, <4>10, <5>2
        <4> QED
          BY <1>2, <4>1, <4>9, <4>10 DEF Handles
      <3> QED
        BY <3>6, <3>7
    <2> QED
      BY <1>1, <2>1 DEF Ordered
  <1> QED
    BY <1>11, <1>12, <1>13, <1>14, <1>15, <1>16, <1>17, <1>18, <1>19, <1>20 DEF IndInv

\* SetToSeq lists a finite set, every element once.
LEMMA Listed ==
    ASSUME NEW S, IsFiniteSet(S)
    PROVE  /\ SetToSeq(S) \in Seq(S)
           /\ \A x \in S : \E k \in 1 .. Len(SetToSeq(S)) : SetToSeq(S)[k] = x
           /\ \A j, k \in 1 .. Len(SetToSeq(S)) : SetToSeq(S)[j] = SetToSeq(S)[k] => j = k
  <1> DEFINE n == Cardinality(S)
  <1> DEFINE f == SetToSeq(S)
  <1>1. n \in Nat /\ ExistsBijection(1 .. n, S)
    BY FS_CardinalityType
  <1>2. PICK g \in Bijection(1 .. n, S) : TRUE
    BY <1>1 DEF ExistsBijection
  <1>3. \E h \in [1 .. n -> S] : IsInjective(h)
    BY <1>2 DEF Bijection, Injection, IsInjective
  <1>4. f \in [1 .. n -> S] /\ IsInjective(f)
    BY <1>3 DEF SetToSeq
  <1>5. f \in Injection(1 .. n, S)
    BY <1>4 DEF Injection, IsInjective
  <1>6. IsFiniteSet(1 .. n) /\ Cardinality(1 .. n) = n
    BY <1>1, FS_Interval
  <1>7. f \in Surjection(1 .. n, S)
    BY <1>5, <1>6, FS_Injection
  <1>8. f \in Seq(S) /\ Len(f) = n
    BY <1>1, <1>4
  <1> QED
    BY <1>4, <1>7, <1>8 DEF Surjection, IsInjective

\* One message about each of some states, in any order.
LEMMA ListedMsgs ==
    ASSUME NEW P \in SUBSET Paths, NEW f \in [P -> StateMsgs], \A p \in P : f[p].path = p,
           NEW S, \A m : m \in S <=> \E p \in P : m = f[p]
    PROVE  /\ SetToSeq(S) \in Seq(StateMsgs)
           /\ \A k \in 1 .. Len(SetToSeq(S)) : \E p \in P : SetToSeq(S)[k] = f[p]
           /\ \A p \in P : \E k \in 1 .. Len(SetToSeq(S)) :
                 /\ SetToSeq(S)[k] = f[p]
                 /\ \A j \in 1 .. Len(SetToSeq(S)) : SetToSeq(S)[j].path = p => j = k
  <1> DEFINE L == SetToSeq(S)
  <1>1. IsFiniteSet(P)
    BY PublishAssumption, FS_Subset
  <1>2. f \in Surjection(P, S)
    BY DEF Surjection
  <1>3. IsFiniteSet(S)
    BY <1>1, <1>2, FS_Surjection
  <1>4. S \subseteq StateMsgs
    OBVIOUS
  <1>5. /\ L \in Seq(S)
        /\ \A y \in S : \E k \in 1 .. Len(L) : L[k] = y
        /\ \A j, k \in 1 .. Len(L) : L[j] = L[k] => j = k
    BY <1>3, Listed
  <1> HIDE DEF L
  <1>6. \A k \in 1 .. Len(L) : L[k] \in S
    BY <1>5, Elements
  <1>7. L \in Seq(StateMsgs)
    BY <1>4, <1>5
  <1>8. \A k \in 1 .. Len(L) : \E p \in P : L[k] = f[p]
    BY <1>6
  <1>9. \A p \in P : \E k \in 1 .. Len(L) : L[k] = f[p] /\ \A j \in 1 .. Len(L) : L[j].path = p => j = k
    <2>1. ASSUME NEW p \in P
          PROVE  \E k \in 1 .. Len(L) : L[k] = f[p] /\ \A j \in 1 .. Len(L) : L[j].path = p => j = k
      <3>1. PICK k \in 1 .. Len(L) : L[k] = f[p]
        BY <1>5
      <3>2. ASSUME NEW j \in 1 .. Len(L), L[j].path = p PROVE j = k
        <4>1. PICK q \in P : L[j] = f[q]
          BY <1>8
        <4>2. q = p
          BY <3>2, <4>1
        <4> QED
          BY <1>5, <3>1, <4>1, <4>2
      <3> QED
        BY <3>1, <3>2
    <2> QED
      BY <2>1
  <1> QED
    BY <1>7, <1>8, <1>9 DEF L

\* More is sent to the cache, and only responses to requests that set nothing.
LEMMA ChangeFirstSent ==
    ASSUME IndInv, NEW es \in Seq(StateMsgs), toCache' = toCache \o es, mark' = mark,
           \A k \in 1 .. Len(es) : es[k].type = "result" => es[k].v = 0,
           \/ toDaemon' = <<>>
           \/ /\ toDaemon' = toDaemon /\ value' = value
              /\ \A k \in 1 .. Len(toDaemon) : toDaemon[k].n \in routed' => toDaemon[k].n \in routed
    PROVE  ChangeFirst'
  <1>t. Typing
    BY Typed
  <1>0. /\ toCache \in Seq(StateMsgs) /\ Len(toCache) \in Nat /\ Len(es) \in Nat
        /\ Len(toCache') = Len(toCache) + Len(es)
    BY <1>t, Joined DEF Typing
  <1>1. ASSUME NEW k \in 1 .. Len(toDaemon'), toDaemon'[k].type = "result", toDaemon'[k].n \in routed'
        PROVE  \/ Reached(toCache', mark[toDaemon'[k].path], toDaemon'[k].path, toDaemon'[k].v, Len(toCache'))
               \/ \E j \in 1 .. (k - 1) :
                     /\ toDaemon'[j].type = "change"
                     /\ toDaemon'[j].path = toDaemon'[k].path /\ toDaemon'[j].v = toDaemon'[k].v
                     /\ Exists(toDaemon', value'[toDaemon'[k].path], toDaemon'[k].path, j)
    <2>1. toDaemon' # <<>>
      BY <1>1
    <2>2. toDaemon' = toDaemon /\ value' = value /\ toDaemon[k].n \in routed
      BY <1>1, <2>1
    <2>3. \/ Reached(toCache, mark[toDaemon[k].path], toDaemon[k].path, toDaemon[k].v, Len(toCache))
          \/ \E j \in 1 .. (k - 1) :
                /\ toDaemon[j].type = "change"
                /\ toDaemon[j].path = toDaemon[k].path /\ toDaemon[j].v = toDaemon[k].v
                /\ Exists(toDaemon, value[toDaemon[k].path], toDaemon[k].path, j)
      BY <1>1, <2>2 DEF IndInv, ChangeFirst
    <2>4. Len(toCache) \in 0 .. Len(toCache) /\ Len(toCache') \in Len(toCache) .. Len(toCache \o es)
      BY <1>0
    <2> QED
      BY <1>0, <2>2, <2>3, <2>4, ReachedJoined
  <1>2. ASSUME NEW k \in 1 .. Len(toCache'), toCache'[k].type = "result"
        PROVE  Reached(toCache', mark[toCache'[k].path], toCache'[k].path, toCache'[k].v, k - 1)
    <2>1. CASE k \in 1 .. Len(toCache) /\ toCache'[k] = toCache[k]
      <3>1. Reached(toCache, mark[toCache[k].path], toCache[k].path, toCache[k].v, k - 1)
        BY <1>2, <2>1 DEF IndInv, ChangeFirst
      <3>2. k - 1 \in 0 .. Len(toCache) /\ k - 1 \in (k - 1) .. Len(toCache \o es)
        BY <1>0, <2>1
      <3> QED
        BY <1>0, <2>1, <3>1, <3>2, ReachedJoined
    <2>2. CASE (k - Len(toCache)) \in 1 .. Len(es) /\ toCache'[k] = es[k - Len(toCache)]
      <3>1. toCache'[k].v = 0 /\ toCache'[k].path \in Paths
        BY <1>2, <2>2, StateMsgFields
      <3>2. mark[toCache'[k].path] \in Nat
        BY <1>t, <3>1 DEF Typing
      <3> QED
        BY <3>1, <3>2 DEF Reached
    <2> QED
      BY <1>0, <2>1, <2>2, JoinedFrom
  <1> QED
    BY <1>1, <1>2 DEF ChangeFirst

\* The daemon takes a request of the cache, and passes a set request on or not.
LEMMA NumberedTaken ==
    ASSUME IndInv, fromCache # <<>>, fromCache' = Tail(fromCache), UNCHANGED <<version, sets, toDaemon>>,
           \/ toOwner' = toOwner
           \/ /\ Head(fromCache).type = "set" /\ Head(fromCache) \in SetMsgs
              /\ toOwner' = Append(toOwner, Head(fromCache))
    PROVE  Numbered'
  <1> DEFINE m == Head(fromCache)
  <1>t. Typing /\ Numbered
    BY Typed DEF IndInv
  <1>1. /\ m = fromCache[1] /\ Len(fromCache) \in Nat /\ Len(fromCache) >= 1
        /\ Len(fromCache') = Len(fromCache) - 1
        /\ \A k \in 1 .. Len(fromCache) - 1 : fromCache'[k] = fromCache[k + 1]
    BY <1>t, HeadTaken DEF Typing
  <1>2. 1 \in 1 .. Len(fromCache)
    BY <1>1
  <1>3. \A k \in 1 .. Len(fromCache') : /\ k + 1 \in 1 .. Len(fromCache) /\ k + 1 \in (1 + 1) .. Len(fromCache)
                                        /\ fromCache'[k] = fromCache[k + 1]
    BY <1>1
  <1> HIDE DEF m
  <1>4. /\ Len(toOwner) \in Nat
        /\ \/ toOwner' = toOwner
           \/ /\ m.type = "set" /\ Len(toOwner') = Len(toOwner) + 1 /\ toOwner'[Len(toOwner) + 1] = m
              /\ \A k \in 1 .. Len(toOwner) : toOwner'[k] = toOwner[k]
    <2>1. CASE toOwner' = toOwner
      BY <1>t, <2>1, Elements DEF Typing
    <2>2. CASE m.type = "set" /\ m \in SetMsgs /\ toOwner' = Append(toOwner, m)
      BY <1>t, <2>2, Appended DEF Typing
    <2> QED
      BY <2>1, <2>2 DEF m
  <1>5. m.type = "set" => /\ m.n \in 1 .. sets
                          /\ \A j \in (1 + 1) .. Len(fromCache) : fromCache[j].type = "set" => m.n < fromCache[j].n
                          /\ \A p \in Paths : version[p] < MaxVersion + m.n
                          /\ \A j \in 1 .. Len(toOwner) : toOwner[j].n < m.n
    BY <1>t, <1>1, <1>2 DEF Numbered
  <1>6. ASSUME NEW k \in 1 .. Len(toOwner')
        PROVE  /\ toOwner'[k].n \in 1 .. sets
               /\ \A j \in (k + 1) .. Len(toOwner') : toOwner'[k].n < toOwner'[j].n
               /\ \A p \in Paths : version[p] < MaxVersion + toOwner'[k].n
    <2>1. CASE toOwner' = toOwner
      BY <1>t, <2>1 DEF Numbered
    <2>2. CASE /\ m.type = "set" /\ Len(toOwner') = Len(toOwner) + 1 /\ toOwner'[Len(toOwner) + 1] = m
               /\ \A i \in 1 .. Len(toOwner) : toOwner'[i] = toOwner[i]
      <3>1. CASE k = Len(toOwner) + 1
        BY <1>4, <1>5, <2>2, <3>1
      <3>2. CASE k # Len(toOwner) + 1
        <4>1. k \in 1 .. Len(toOwner) /\ toOwner'[k] = toOwner[k]
          BY <1>4, <2>2, <3>2
        <4>2. /\ toOwner[k].n \in 1 .. sets /\ toOwner[k].n < m.n
              /\ \A j \in (k + 1) .. Len(toOwner) : toOwner[k].n < toOwner[j].n
              /\ \A p \in Paths : version[p] < MaxVersion + toOwner[k].n
          BY <1>t, <1>5, <2>2, <4>1 DEF Numbered
        <4>3. \A j \in (k + 1) .. Len(toOwner') : \/ j \in (k + 1) .. Len(toOwner) /\ toOwner'[j] = toOwner[j]
                                                  \/ toOwner'[j] = m
          BY <1>4, <2>2, <4>1
        <4> QED
          BY <4>1, <4>2, <4>3
      <3> QED
        BY <3>1, <3>2
    <2> QED
      BY <1>4, <2>1, <2>2
  <1>7. ASSUME NEW k \in 1 .. Len(fromCache'), fromCache'[k].type = "set"
        PROVE  /\ fromCache'[k].n \in 1 .. sets
               /\ \A j \in (k + 1) .. Len(fromCache') :
                     fromCache'[j].type = "set" => fromCache'[k].n < fromCache'[j].n
               /\ \A p \in Paths : version[p] < MaxVersion + fromCache'[k].n
               /\ \A j \in 1 .. Len(toOwner') : toOwner'[j].n < fromCache'[k].n
               /\ \A j \in 1 .. Len(toDaemon) : toDaemon[j].n < fromCache'[k].n
    <2>1. /\ fromCache[k + 1].n \in 1 .. sets
          /\ \A j \in ((k + 1) + 1) .. Len(fromCache) :
                fromCache[j].type = "set" => fromCache[k + 1].n < fromCache[j].n
          /\ \A p \in Paths : version[p] < MaxVersion + fromCache[k + 1].n
          /\ \A j \in 1 .. Len(toOwner) : toOwner[j].n < fromCache[k + 1].n
          /\ \A j \in 1 .. Len(toDaemon) : toDaemon[j].n < fromCache[k + 1].n
      BY <1>t, <1>3, <1>7 DEF Numbered
    <2>2. \A j \in (k + 1) .. Len(fromCache') : /\ j + 1 \in ((k + 1) + 1) .. Len(fromCache)
                                                /\ fromCache'[j] = fromCache[j + 1]
      BY <1>1
    <2>3. m.type = "set" => m.n < fromCache[k + 1].n
      BY <1>3, <1>5, <1>7
    <2>4. \A j \in 1 .. Len(toOwner') : toOwner'[j].n < fromCache[k + 1].n
      <3>1. \A j \in 1 .. Len(toOwner') : \/ j \in 1 .. Len(toOwner) /\ toOwner'[j] = toOwner[j]
                                          \/ m.type = "set" /\ toOwner'[j] = m
        BY <1>4
      <3> QED
        BY <2>1, <2>3, <3>1
    <2> QED
      BY <1>3, <2>1, <2>2, <2>4
  <1> QED
    BY <1>t, <1>6, <1>7 DEF Numbered

\* The daemon establishes the fetch and sends what it has.
LEMMA DaemonHandlesFetchStep ==
    ASSUME IndInv, DaemonHandlesFetch
    PROVE  IndInv'
  <1> DEFINE P == {q \in Paths : value[q] # 0}
  <1> DEFINE f == [p \in P |-> Msg("add", p, value[p], 0)]
  <1> DEFINE S == {Msg("add", p, value[p], 0) : p \in P}
  <1> DEFINE es == SetToSeq(S)
  <1>t. Typing
    BY Typed
  <1>0. fromCache # <<>> /\ fromCache' = Tail(fromCache) /\ fetched' = TRUE
    BY DEF DaemonHandlesFetch
  <1>1. UNCHANGED <<version, own, registered, unsent, oconn, toDaemon, toOwner, value, routed, fconn,
                    cache, mark, missed, sets, losses>>
    BY DEF DaemonHandlesFetch, owner, olink, copy
  <1>2. toCache' = toCache \o es
    BY DEF DaemonHandlesFetch
  <1>3. /\ f \in [P -> StateMsgs]
        /\ \A p \in P : f[p].path = p /\ f[p].type = "add" /\ f[p].v = value[p]
    <2>1. \A p \in P : /\ Msg("add", p, value[p], 0) \in StateMsgs /\ Msg("add", p, value[p], 0).path = p
                       /\ Msg("add", p, value[p], 0).type = "add" /\ Msg("add", p, value[p], 0).v = value[p]
      BY <1>t DEF Typing, Msg, StateMsgs
    <2> QED
      BY <2>1
  <1>4. P \in SUBSET Paths
    OBVIOUS
  <1>e. \A m : m \in S <=> \E p \in P : m = f[p]
    OBVIOUS
  <1> HIDE DEF f, P, S
  <1>5. /\ es \in Seq(StateMsgs)
        /\ \A k \in 1 .. Len(es) : \E p \in P : es[k] = f[p]
        /\ \A p \in P : \E k \in 1 .. Len(es) :
              es[k] = f[p] /\ \A j \in 1 .. Len(es) : es[j].path = p => j = k
    BY <1>3, <1>4, <1>e, ListedMsgs
  <1> HIDE DEF es
  <1>6. \A k \in 1 .. Len(es) : /\ es[k].type = "add" /\ es[k].path \in Paths
                                /\ es[k].v = value[es[k].path] /\ es[k].v # 0
    BY <1>3, <1>5 DEF P
  <1>7. toCache \in Seq(StateMsgs) /\ toCache' \in Seq(StateMsgs)
    BY <1>t, <1>2, <1>5, Joined DEF Typing
  <1>8. fromCache' \in Seq(CacheMsgs)
    BY <1>t, <1>0, HeadTaken DEF Typing
  <1>9. Types'
    BY <1>0, <1>1, <1>7, <1>8 DEF IndInv, Types, TypeOK
  <1>10. Links'
    BY <1>0, <1>1 DEF IndInv, Links
  <1>11. Numbered'
    BY <1>0, <1>1, NumberedTaken
  <1>12. Bounded'
    <2>1. ASSUME NEW q \in Paths PROVE NoneAbove(toCache', q, version[q])
      <3>1. NoneAbove(es, q, version[q])
        BY <1>6 DEF NoneAbove, Carries, IndInv, Bounded
      <3> QED
        BY <1>2, <1>5, <1>7, <3>1, BoundsJoined DEF IndInv, Bounded
    <2> QED
      BY <1>1, <2>1 DEF IndInv, Bounded
  <1>13. Pending'
    BY <1>1 DEF IndInv, Pending
  <1>14. DaemonFollows'
    BY <1>1 DEF IndInv, DaemonFollows
  <1>15. CacheFollows'
    <2>1. ASSUME NEW q \in Paths
          PROVE  \/ LastIs(toCache', cache[q], q, value[q])
                 \/ /\ \A k \in 1 .. Len(toCache') : ~About(toCache', k, q)
                    /\ value[q] = 0 /\ q \in missed
      <3>1. CASE value[q] # 0
        <4>1. PICK k \in 1 .. Len(es) : es[k] = f[q] /\ \A j \in 1 .. Len(es) : es[j].path = q => j = k
          BY <1>5, <3>1 DEF P
        <4>2. About(es, k, q) /\ es[k].v = value[q]
          BY <1>3, <3>1, <4>1 DEF About, P
        <4>3. \A j \in (k + 1) .. Len(es) : ~About(es, j, q)
          BY <1>5, <4>1, Elements DEF About
        <4>4. LastIs(toCache', cache[q], q, es[k].v)
          BY <1>2, <1>5, <1>7, <4>2, <4>3, LastIsJoined
        <4> QED
          BY <4>2, <4>4
      <3>2. CASE value[q] = 0
        <4>1. \A k \in 1 .. Len(es) : ~About(es, k, q)
          BY <1>6, <3>2 DEF About
        <4>2. CASE LastIs(toCache, cache[q], q, value[q])
          BY <1>2, <1>5, <1>7, <4>1, <4>2, LastIsJoinedOther
        <4>3. CASE (\A k \in 1 .. Len(toCache) : ~About(toCache, k, q)) /\ q \in missed
          <5>1. \A k \in 1 .. Len(toCache') : ~About(toCache', k, q)
            BY <1>2, <1>5, <1>7, <4>1, <4>3, JoinedFrom DEF About
          <5> QED
            BY <3>2, <4>3, <5>1
        <4>4. CASE (\A k \in 1 .. Len(toCache) : ~About(toCache, k, q)) /\ cache[q] = 0
          <5>1. LastIs(toCache, cache[q], q, value[q])
            BY <3>2, <4>4 DEF LastIs
          <5> QED
            BY <4>2, <5>1
        <4> QED
          BY <3>2, <4>2, <4>3, <4>4 DEF IndInv, CacheFollows
      <3> QED
        BY <3>1, <3>2
    <2> QED
      BY <1>0, <1>1, <2>1 DEF CacheFollows
  <1>16. ChangeFirst'
    BY <1>1, <1>2, <1>5, <1>6, ChangeFirstSent
  <1>17. ASSUME Serialised PROVE Latest'
    BY <1>1, <1>17 DEF IndInv, Latest
  <1>18. ASSUME Serialised PROVE Ordered'
    <2>1. ASSUME NEW q \in Paths
          PROVE  /\ InOrder(toCache', q) /\ NoneBelow(toCache', q, mark[q])
                 /\ value[q] # 0 => NoneAbove(toCache', q, value[q])
                 /\ \A k \in 1 .. Len(toCache') :
                       Carries(toCache', k, q) => NoneBelow(toDaemon, q, toCache'[k].v)
      <3>0. /\ InOrder(toCache, q) /\ NoneBelow(toCache, q, mark[q]) /\ NoneBelow(toDaemon, q, value[q])
            /\ value[q] # 0 => mark[q] <= value[q] /\ NoneAbove(toCache, q, value[q])
            /\ \A k \in 1 .. Len(toCache) : Carries(toCache, k, q) => NoneBelow(toDaemon, q, toCache[k].v)
        BY <1>18 DEF IndInv, Ordered
      <3>1. mark[q] \in Nat /\ value[q] \in Nat /\ version[q] \in Nat
        BY <1>t DEF Typing
      <3>2. \A k \in 1 .. Len(es) : Carries(es, k, q) => es[k].v = value[q] /\ value[q] # 0
        BY <1>6 DEF Carries
      <3>3. InOrder(es, q) /\ NoneBelow(es, q, mark[q]) /\ NoneBelow(es, q, value[q]) /\ NoneAbove(es, q, value[q])
        BY <3>0, <3>1, <3>2 DEF InOrder, NoneBelow, NoneAbove
      <3>4. InOrder(toCache', q)
        <4>1. CASE value[q] # 0
          BY <1>2, <1>5, <1>7, <3>0, <3>1, <3>3, <4>1, InOrderJoined
        <4>2. CASE value[q] = 0
          <5>1. NoneBelow(es, q, version[q])
            BY <3>2, <4>2 DEF NoneBelow
          <5>2. NoneAbove(toCache, q, version[q])
            BY DEF IndInv, Bounded
          <5> QED
            BY <1>2, <1>5, <1>7, <3>0, <3>1, <3>3, <5>1, <5>2, InOrderJoined
        <4> QED
          BY <4>1, <4>2
      <3>5. NoneBelow(toCache', q, mark[q])
        BY <1>2, <1>5, <1>7, <3>0, <3>3, BoundsJoined
      <3>6. value[q] # 0 => NoneAbove(toCache', q, value[q])
        BY <1>2, <1>5, <1>7, <3>0, <3>3, BoundsJoined
      <3>7. ASSUME NEW k \in 1 .. Len(toCache'), Carries(toCache', k, q)
            PROVE  NoneBelow(toDaemon, q, toCache'[k].v)
        <4>1. CASE k \in 1 .. Len(toCache) /\ toCache'[k] = toCache[k]
          BY <3>0, <3>7, <4>1 DEF Carries
        <4>2. CASE (k - Len(toCache)) \in 1 .. Len(es) /\ toCache'[k] = es[k - Len(toCache)]
          <5>1. Carries(es, k - Len(toCache), q)
            BY <3>7, <4>2 DEF Carries
          <5> QED
            BY <3>0, <3>2, <4>2, <5>1
        <4> QED
          BY <1>2, <1>5, <1>7, <4>1, <4>2, JoinedFrom
      <3> QED
        BY <3>4, <3>5, <3>6, <3>7
    <2> QED
      BY <1>1, <1>18, <2>1 DEF IndInv, Ordered
  <1> QED
    BY <1>9, <1>10, <1>11, <1>12, <1>13, <1>14, <1>15, <1>16, <1>17, <1>18 DEF IndInv

\* Responses are sent to the cache, and nothing else.
LEMMA ResponsesSent ==
    ASSUME IndInv, NEW es \in Seq(StateMsgs), toCache' = toCache \o es,
           \A k \in 1 .. Len(es) : es[k].type = "result",
           UNCHANGED <<version, own, registered, unsent, toDaemon, value, fetched, cache, mark, missed>>
    PROVE  Bounded' /\ CacheFollows' /\ (Serialised => Latest' /\ Ordered')
  <1>t. Typing
    BY Typed
  <1>0. toCache \in Seq(StateMsgs)
    BY <1>t DEF Typing
  <1>1. \A k \in 1 .. Len(es), q \in Paths : ~Carries(es, k, q) /\ ~About(es, k, q)
    BY DEF Carries, About
  <1>2. \A q \in Paths : \A y : NoneAbove(es, q, y) /\ NoneBelow(es, q, y) /\ InOrder(es, q)
    BY <1>1 DEF NoneAbove, NoneBelow, InOrder
  <1>3. \A q \in Paths : \A y : NoneAbove(toCache, q, y) => NoneAbove(toCache', q, y)
    BY <1>0, <1>2, BoundsJoined
  <1>4. \A q \in Paths : \A y : NoneBelow(toCache, q, y) => NoneBelow(toCache', q, y)
    BY <1>0, <1>2, BoundsJoined
  <1>5. \A k \in 1 .. Len(toCache'), q \in Paths : Carries(toCache', k, q) \/ About(toCache', k, q) =>
            k \in 1 .. Len(toCache) /\ toCache'[k] = toCache[k]
    <2>1. ASSUME NEW k \in 1 .. Len(toCache'), NEW q \in Paths, Carries(toCache', k, q) \/ About(toCache', k, q)
          PROVE  k \in 1 .. Len(toCache) /\ toCache'[k] = toCache[k]
      <3>1. CASE (k - Len(toCache)) \in 1 .. Len(es) /\ toCache'[k] = es[k - Len(toCache)]
        BY <2>1, <3>1 DEF Carries, About
      <3> QED
        BY <1>0, <3>1, JoinedFrom
    <2> QED
      BY <2>1
  <1>6. Bounded'
    BY <1>3 DEF IndInv, Bounded
  <1>7. CacheFollows'
    <2>1. \A q \in Paths : \A y : LastIs(toCache, cache[q], q, y) => LastIs(toCache', cache[q], q, y)
      BY <1>0, <1>1, LastIsJoinedOther
    <2>2. ASSUME NEW q \in Paths, \A k \in 1 .. Len(toCache) : ~About(toCache, k, q)
          PROVE  \A k \in 1 .. Len(toCache') : ~About(toCache', k, q)
      BY <1>5, <2>2 DEF About
    <2> QED
      BY <2>1, <2>2 DEF IndInv, CacheFollows
  <1>8. ASSUME Serialised PROVE Latest'
    BY <1>8 DEF IndInv, Latest
  <1>9. ASSUME Serialised PROVE Ordered'
    <2>1. ASSUME NEW q \in Paths, InOrder(toCache, q) PROVE InOrder(toCache', q)
      <3>1. NoneAbove(toCache, q, version[q]) /\ version[q] \in Nat
        BY <1>t DEF Typing, IndInv, Bounded
      <3> QED
        BY <1>0, <1>2, <2>1, <3>1, InOrderJoined
    <2>2. ASSUME NEW q \in Paths, NEW k \in 1 .. Len(toCache'), Carries(toCache', k, q)
          PROVE  k \in 1 .. Len(toCache) /\ toCache'[k] = toCache[k] /\ Carries(toCache, k, q)
      <3>1. k \in 1 .. Len(toCache) /\ toCache'[k] = toCache[k]
        BY <1>5, <2>2
      <3> QED
        BY <2>2, <3>1 DEF Carries
    <2> QED
      BY <1>3, <1>4, <1>9, <2>1, <2>2 DEF IndInv, Ordered
  <1> QED
    BY <1>6, <1>7, <1>8, <1>9

\* The daemon passes a set request on to the owner, or refuses it.
LEMMA DaemonHandlesSetStep ==
    ASSUME IndInv, DaemonHandlesSet
    PROVE  IndInv'
  <1> DEFINE m == Head(fromCache)
  <1>t. Typing
    BY Typed
  <1>0. fromCache # <<>> /\ m.type = "set" /\ fromCache' = Tail(fromCache)
    BY DEF DaemonHandlesSet
  <1>1. UNCHANGED <<version, own, registered, unsent, oconn, toDaemon, value, fetched, fconn,
                    cache, mark, missed, sets, losses>>
    BY DEF DaemonHandlesSet, owner, copy
  <1>2. m \in CacheMsgs /\ m = fromCache[1] /\ fromCache' \in Seq(CacheMsgs) /\ Len(fromCache) \in Nat /\ Len(fromCache) >= 1
    BY <1>t, <1>0, HeadTaken DEF Typing
  <1>3. m \in SetMsgs
    BY <1>0, <1>2 DEF CacheMsgs, FetchMsg
  <1>4. m.path \in Paths /\ m.n \in Nat /\ 1 \in 1 .. Len(fromCache)
    BY <1>2, <1>3 DEF SetMsgs
  <1>5. m.n \in 1 .. sets /\ \A j \in 1 .. Len(toDaemon) : toDaemon[j].n < m.n
    BY <1>0, <1>2, <1>4 DEF IndInv, Numbered
  <1>6. fconn /\ fetched
    <2>1. fconn
      BY <1>0 DEF IndInv, Links
    <2>2. m # FetchMsg
      BY <1>0 DEF FetchMsg
    <2> QED
      BY <1>2, <2>1, <2>2 DEF IndInv, Links
  <1> HIDE DEF m
  <1>7. PICK es \in Seq(StateMsgs) :
            /\ toCache' = toCache \o es
            /\ \A k \in 1 .. Len(es) : es[k].type = "result" /\ es[k].v = 0
            /\ \/ value[m.path] # 0 /\ toOwner' = Append(toOwner, m) /\ routed' = routed \cup {m.n}
               \/ UNCHANGED <<toOwner, routed>>
    <2>1. CASE value[m.path] # 0 /\ toOwner' = Append(toOwner, m) /\ routed' = routed \cup {m.n} /\ UNCHANGED toCache
      <3> DEFINE es == <<>>
      <3>1. es \in Seq(StateMsgs) /\ toCache' = toCache \o es /\ \A k \in 1 .. Len(es) : FALSE
        BY <1>t, <2>1, ConcatEmptySeq DEF Typing
      <3> HIDE DEF es
      <3> QED
        BY <2>1, <3>1
    <2>2. CASE toCache' = Append(toCache, Msg("result", m.path, 0, m.n)) /\ UNCHANGED <<toOwner, routed>>
      <3> DEFINE r == Msg("result", m.path, 0, m.n)
      <3> DEFINE es == <<r>>
      <3>1. r \in StateMsgs /\ r.type = "result" /\ r.v = 0
        BY <1>4 DEF Msg, StateMsgs
      <3>2. toCache' = Append(toCache, r)
        BY <2>2
      <3> HIDE DEF r
      <3>3. es \in Seq(StateMsgs) /\ toCache' = toCache \o es /\ \A k \in 1 .. Len(es) : es[k] = r
        BY <1>t, <3>1, <3>2, AppendIsConcat DEF Typing
      <3> HIDE DEF es
      <3> QED
        BY <2>2, <3>1, <3>3
    <2> QED
      BY <2>1, <2>2 DEF DaemonHandlesSet, m
  <1>8. toCache' \in Seq(StateMsgs) /\ toOwner' \in Seq(SetMsgs)
    <2>1. toCache' \in Seq(StateMsgs)
      BY <1>t, <1>7, Joined DEF Typing
    <2>2. Append(toOwner, m) \in Seq(SetMsgs)
      BY <1>t, <1>3, Appended DEF Typing
    <2>3. toOwner \in Seq(SetMsgs)
      BY <1>t DEF Typing
    <2> QED
      BY <1>7, <2>1, <2>2, <2>3
  <1>9. Types'
    <2>1. routed' \subseteq 1 .. sets
      BY <1>5, <1>7 DEF IndInv, Types, TypeOK
    <2> QED
      BY <1>1, <1>2, <1>8, <2>1 DEF IndInv, Types, TypeOK
  <1>10. Links'
    <2>1. ASSUME ~oconn PROVE toOwner' = toOwner
      BY <1>4, <1>7, <2>1 DEF IndInv, Links
    <2> QED
      BY <1>1, <1>6, <2>1 DEF IndInv, Links
  <1>11. Numbered'
    <2>1. \/ toOwner' = toOwner
          \/ Head(fromCache).type = "set" /\ Head(fromCache) \in SetMsgs /\ toOwner' = Append(toOwner, Head(fromCache))
      BY <1>0, <1>3, <1>7 DEF m
    <2>2. UNCHANGED <<version, sets, toDaemon>>
      BY <1>1
    <2> QED
      BY <1>0, <2>1, <2>2, NumberedTaken
  <1>12. Pending' /\ DaemonFollows'
    BY <1>1 DEF IndInv, Pending, DaemonFollows
  <1>13. Bounded' /\ CacheFollows' /\ (Serialised => Latest' /\ Ordered')
    BY <1>1, <1>7, ResponsesSent
  <1>14. ChangeFirst'
    <2>1. \A j \in 1 .. Len(toDaemon) : toDaemon[j].n # m.n /\ (toDaemon[j].n \in routed' => toDaemon[j].n \in routed)
      BY <1>4, <1>5, <1>7
    <2> QED
      BY <1>1, <1>7, <2>1, ChangeFirstSent
  <1> QED
    BY <1>9, <1>10, <1>11, <1>12, <1>13, <1>14 DEF IndInv

\* The application of the fetching peer sets a state.
LEMMA SetStateValueStep ==
    ASSUME IndInv, NEW p \in Paths, SetStateValue(p)
    PROVE  IndInv'
  <1> DEFINE m == Msg("set", p, 0, sets + 1)
  <1>t. Typing
    BY Typed
  <1>0. fconn /\ sets < MaxSets /\ sets' = sets + 1 /\ fromCache' = Append(fromCache, m)
    BY DEF SetStateValue
  <1>1. UNCHANGED <<version, own, registered, unsent, oconn, toDaemon, toOwner, value, fetched, routed,
                    fconn, toCache, cache, mark, missed, losses>>
    BY DEF SetStateValue, owner, olink, daemon, copy
  <1>2. sets \in Nat /\ MaxSets \in Nat /\ MaxVersion \in Nat /\ fromCache \in Seq(CacheMsgs)
    BY <1>t DEF Typing
  <1>3. m \in CacheMsgs /\ m.type = "set" /\ m.n = sets + 1
    BY <1>2 DEF Msg, CacheMsgs, SetMsgs
  <1> HIDE DEF m
  <1>4. /\ fromCache' \in Seq(CacheMsgs) /\ Len(fromCache) \in Nat /\ Len(fromCache') = Len(fromCache) + 1
        /\ fromCache'[Len(fromCache) + 1] = m
        /\ \A k \in 1 .. Len(fromCache) : fromCache'[k] = fromCache[k]
    BY <1>0, <1>2, <1>3, Appended
  <1>5. Types'
    <2>1. sets' \in 0 .. MaxSets /\ 1 .. sets \subseteq 1 .. sets'
      BY <1>0, <1>2
    <2> QED
      BY <1>1, <1>4, <2>1 DEF IndInv, Types, TypeOK
  <1>6. Links'
    <2>1. ASSUME ~fetched PROVE fromCache' # <<>> /\ fromCache'[1] = FetchMsg
      <3>1. fromCache # <<>> /\ fromCache[1] = FetchMsg
        BY <1>0, <2>1 DEF IndInv, Links
      <3>2. 1 \in 1 .. Len(fromCache)
        BY <1>2, <1>4, <3>1, EmptySeq
      <3> QED
        BY <1>0, <1>2, <1>3, <1>4, <3>1, <3>2, AppendProperties
    <2> QED
      BY <1>0, <1>1, <2>1 DEF IndInv, Links
  <1>7. Numbered'
    <2>1. \A q \in Paths : version[q] <= MaxVersion + sets' /\ version[q] < MaxVersion + (sets + 1)
      <3>1. \A q \in Paths : version[q] \in Nat /\ version[q] <= MaxVersion + sets
        BY <1>t DEF Typing, IndInv, Numbered
      <3> QED
        BY <1>0, <1>2, <3>1
    <2>2. \A k \in 1 .. Len(toDaemon) : toDaemon[k].n <= sets' /\ toDaemon[k].n < sets + 1
      <3>1. \A k \in 1 .. Len(toDaemon) : toDaemon[k].n <= sets /\ toDaemon[k].n \in Nat
        BY <1>t, StateMsgFields DEF Typing, IndInv, Numbered
      <3> QED
        BY <1>0, <1>2, <3>1
    <2>3. ASSUME NEW k \in 1 .. Len(toOwner)
          PROVE  /\ toOwner[k].n \in 1 .. sets' /\ toOwner[k].n < sets + 1
                 /\ \A j \in (k + 1) .. Len(toOwner) : toOwner[k].n < toOwner[j].n
                 /\ \A q \in Paths : version[q] < MaxVersion + toOwner[k].n
      <3>1. toOwner[k].n \in 1 .. sets
        BY DEF IndInv, Numbered
      <3>2. toOwner[k].n \in 1 .. sets' /\ toOwner[k].n < sets + 1
        BY <1>0, <1>2, <3>1
      <3> QED
        BY <3>2 DEF IndInv, Numbered
    <2>4. ASSUME NEW k \in 1 .. Len(fromCache'), fromCache'[k].type = "set"
          PROVE  /\ fromCache'[k].n \in 1 .. sets'
                 /\ \A j \in (k + 1) .. Len(fromCache') :
                       fromCache'[j].type = "set" => fromCache'[k].n < fromCache'[j].n
                 /\ \A q \in Paths : version[q] < MaxVersion + fromCache'[k].n
                 /\ \A j \in 1 .. Len(toOwner) : toOwner[j].n < fromCache'[k].n
                 /\ \A j \in 1 .. Len(toDaemon) : toDaemon[j].n < fromCache'[k].n
      <3>1. CASE k = Len(fromCache) + 1
        BY <1>0, <1>2, <1>3, <1>4, <2>1, <2>2, <2>3, <3>1
      <3>2. CASE k # Len(fromCache) + 1
        <4>1. k \in 1 .. Len(fromCache) /\ fromCache'[k] = fromCache[k]
          BY <1>4, <3>2
        <4>2. /\ fromCache[k].n \in 1 .. sets
              /\ \A j \in (k + 1) .. Len(fromCache) :
                    fromCache[j].type = "set" => fromCache[k].n < fromCache[j].n
              /\ \A q \in Paths : version[q] < MaxVersion + fromCache[k].n
              /\ \A j \in 1 .. Len(toOwner) : toOwner[j].n < fromCache[k].n
              /\ \A j \in 1 .. Len(toDaemon) : toDaemon[j].n < fromCache[k].n
          BY <2>4, <4>1 DEF IndInv, Numbered
        <4>3. \A j \in (k + 1) .. Len(fromCache') : \/ j \in (k + 1) .. Len(fromCache) /\ fromCache'[j] = fromCache[j]
                                                    \/ fromCache'[j] = m
          BY <1>4, <4>1
        <4>4. fromCache[k].n \in 1 .. sets' /\ fromCache[k].n < m.n
          BY <1>0, <1>2, <1>3, <4>2
        <4> QED
          BY <4>1, <4>2, <4>3, <4>4
      <3> QED
        BY <3>1, <3>2
    <2> QED
      BY <1>1, <2>1, <2>2, <2>3, <2>4 DEF Numbered
  <1>8. Bounded' /\ Pending' /\ DaemonFollows' /\ CacheFollows'
    BY <1>1 DEF IndInv, Bounded, Pending, DaemonFollows, CacheFollows
  <1>9. ChangeFirst'
    BY <1>1 DEF IndInv, ChangeFirst
  <1>10. ASSUME Serialised PROVE Latest' /\ Ordered'
    BY <1>1, <1>10 DEF IndInv, Latest, Ordered
  <1> QED
    BY <1>5, <1>6, <1>7, <1>8, <1>9, <1>10 DEF IndInv

\* The cache takes an event.
LEMMA FetchCbStep ==
    ASSUME IndInv, FetchCb
    PROVE  IndInv'
  <1> DEFINE m == Head(toCache)
  <1> DEFINE x == m.path
  <1>t. Typing
    BY Typed
  <1>0. /\ fconn /\ toCache # <<>> /\ m.type # "result" /\ toCache' = Tail(toCache)
        /\ cache' = [cache EXCEPT ![x] = Entry(m)]
        /\ mark' = [mark EXCEPT ![x] = IF m.v > mark[x] THEN m.v ELSE mark[x]]
        /\ missed' = missed \ {x}
    BY DEF FetchCb
  <1>1. UNCHANGED <<version, own, registered, unsent, oconn, toDaemon, toOwner, value, fetched, routed,
                    fconn, fromCache, sets, losses>>
    BY DEF FetchCb, owner, olink, daemon
  <1>2. /\ m = toCache[1] /\ toCache \in Seq(StateMsgs) /\ toCache' \in Seq(StateMsgs)
        /\ Len(toCache) \in Nat /\ Len(toCache) >= 1 /\ Len(toCache') = Len(toCache) - 1
        /\ \A k \in 1 .. Len(toCache) - 1 : toCache'[k] = toCache[k + 1]
    BY <1>t, <1>0, HeadTaken DEF Typing
  <1>3. 1 \in 1 .. Len(toCache)
    BY <1>2
  <1>4. /\ m.type \in {"add", "change", "remove"} /\ x \in Paths /\ m.v \in Nat
        /\ m.v = 0 <=> m.type = "remove"
    BY <1>0, <1>2, <1>3, StateMsgFields
  <1>5. Entry(m) = m.v
    BY <1>4 DEF Entry
  <1>6. /\ cache \in [Paths -> Nat] /\ mark \in [Paths -> Nat] /\ mark[x] \in Nat
        /\ version \in [Paths -> Nat] /\ version[x] \in Nat
    BY <1>t, <1>4 DEF Typing
  <1>7. m.v <= version[x]
    <2>1. CASE m.type = "remove"
      BY <1>4, <1>6, <2>1
    <2>2. CASE m.type # "remove"
      <3>1. NoneAbove(toCache, x, version[x])
        BY <1>4 DEF IndInv, Bounded
      <3>2. Carries(toCache, 1, x)
        BY <1>2, <1>4, <2>2 DEF Carries
      <3> QED
        BY <1>2, <1>3, <3>1, <3>2 DEF NoneAbove
    <2> QED
      BY <2>1, <2>2
  <1> HIDE DEF m
  <1>8. /\ cache' \in [Paths -> Nat] /\ cache'[x] = m.v /\ \A q \in Paths \ {x} : cache'[q] = cache[q]
        /\ mark' \in [Paths -> Nat] /\ \A q \in Paths \ {x} : mark'[q] = mark[q]
        /\ mark[x] <= mark'[x] /\ m.v <= mark'[x] /\ (mark'[x] = mark[x] \/ mark'[x] = m.v)
    <2> DEFINE y == IF m.v > mark[x] THEN m.v ELSE mark[x]
    <2>1. y \in Nat /\ mark[x] <= y /\ m.v <= y /\ (y = mark[x] \/ y = m.v)
      BY <1>4, <1>6
    <2>2. mark' = [mark EXCEPT ![x] = y] /\ cache' = [cache EXCEPT ![x] = m.v]
      BY <1>0, <1>5
    <2> HIDE DEF y
    <2>3. mark' \in [Paths -> Nat] /\ mark'[x] = y /\ \A q \in Paths \ {x} : mark'[q] = mark[q]
      BY <1>4, <1>6, <2>1, <2>2
    <2>4. cache' \in [Paths -> Nat] /\ cache'[x] = m.v /\ \A q \in Paths \ {x} : cache'[q] = cache[q]
      BY <1>4, <1>6, <2>2
    <2> QED
      BY <2>1, <2>3, <2>4
  <1>9. Bounded'
    <2>1. ASSUME NEW q \in Paths
          PROVE  cache'[q] <= version[q] /\ mark'[q] <= version[q] /\ NoneAbove(toCache', q, version[q])
      <3>1. cache[q] <= version[q] /\ mark[q] <= version[q]
        BY DEF IndInv, Bounded
      <3>2. cache'[q] <= version[q] /\ mark'[q] <= version[q]
        BY <1>7, <1>8, <3>1
      <3> QED
        BY <1>0, <1>2, <3>2, BoundsTail DEF IndInv, Bounded
    <2> QED
      BY <1>1, <2>1 DEF IndInv, Bounded
  <1>10. Types'
    <2>1. MaxVersion \in Nat /\ MaxSets \in Nat /\ \A q \in Paths : version[q] <= MaxVersion + MaxSets /\ version[q] \in Nat
      BY <1>t DEF Typing
    <2>2. \A q \in Paths : cache'[q] \in Nat /\ cache'[q] <= version[q]
      BY <1>1, <1>8, <1>9 DEF Bounded
    <2>3. \A q \in Paths : cache'[q] \in 0 .. MaxVersion + MaxSets
      BY <2>1, <2>2
    <2>4. cache' \in [Paths -> 0 .. MaxVersion + MaxSets]
      BY <1>8, <2>3
    <2> QED
      BY <1>0, <1>1, <1>2, <1>8, <2>4 DEF IndInv, Types, TypeOK
  <1>11. Links'
    BY <1>0, <1>1 DEF IndInv, Links
  <1>12. Numbered' /\ Pending' /\ DaemonFollows'
    BY <1>1 DEF IndInv, Numbered, Pending, DaemonFollows
  <1>13. CacheFollows'
    <2>0. About(toCache, 1, x)
      BY <1>2, <1>4 DEF About
    <2>1. fetched
      BY <1>3, <1>4, <2>0 DEF IndInv, CacheFollows
    <2>2. ASSUME NEW q \in Paths
          PROVE  \/ LastIs(toCache', cache'[q], q, value[q])
                 \/ /\ \A k \in 1 .. Len(toCache') : ~About(toCache', k, q)
                    /\ value[q] = 0 /\ q \in missed'
      <3>1. CASE LastIs(toCache, cache[q], q, value[q])
        <4>1. About(toCache, 1, q) => q = x
          BY <1>2 DEF About
        <4>2. ~About(toCache, 1, q) => cache'[q] = cache[q]
          BY <1>8, <2>0
        <4>3. About(toCache, 1, q) => cache'[q] = toCache[1].v
          BY <1>2, <1>8, <4>1
        <4> QED
          BY <1>0, <1>2, <3>1, <4>2, <4>3, LastIsTail
      <3>2. CASE /\ \A k \in 1 .. Len(toCache) : ~About(toCache, k, q)
                 /\ value[q] = 0 /\ q \in missed
        <4>1. q # x
          BY <1>3, <2>0, <3>2
        <4>2. \A k \in 1 .. Len(toCache') : k + 1 \in 1 .. Len(toCache) /\ toCache'[k] = toCache[k + 1]
          BY <1>2
        <4>3. \A k \in 1 .. Len(toCache') : ~About(toCache', k, q)
          BY <3>2, <4>2 DEF About
        <4> QED
          BY <1>0, <3>2, <4>1, <4>3
      <3> QED
        BY <2>1, <3>1, <3>2 DEF IndInv, CacheFollows
    <2> QED
      BY <1>1, <2>1, <2>2 DEF CacheFollows
  <1>14. \A q \in Paths : /\ mark[q] \in Nat /\ mark'[q] \in Nat /\ mark[q] <= mark'[q]
                          /\ Carries(toCache, 1, q) => toCache[1].v <= mark'[q]
    <2>1. \A q \in Paths : mark[q] \in Nat /\ mark'[q] \in Nat
      BY <1>6, <1>8
    <2>2. \A q \in Paths : mark[q] <= mark'[q]
      BY <1>8, <2>1
    <2>3. \A q \in Paths : Carries(toCache, 1, q) => q = x
      BY <1>2 DEF Carries
    <2> QED
      BY <1>2, <1>8, <2>1, <2>2, <2>3
  <1>15. ChangeFirst'
    <2>1. ASSUME NEW q \in Paths, NEW v \in Nat, NEW k \in 1 .. Len(toCache), Reached(toCache, mark[q], q, v, k)
          PROVE  Reached(toCache', mark'[q], q, v, k - 1)
      BY <1>0, <1>2, <1>14, <2>1, ReachedTail
    <2>2. ASSUME NEW k \in 1 .. Len(toDaemon), toDaemon[k].type = "result", toDaemon[k].n \in routed
          PROVE  \/ Reached(toCache', mark'[toDaemon[k].path], toDaemon[k].path, toDaemon[k].v, Len(toCache'))
                 \/ \E j \in 1 .. (k - 1) :
                       /\ toDaemon[j].type = "change"
                       /\ toDaemon[j].path = toDaemon[k].path /\ toDaemon[j].v = toDaemon[k].v
                       /\ Exists(toDaemon, value[toDaemon[k].path], toDaemon[k].path, j)
      <3>1. toDaemon[k].path \in Paths /\ toDaemon[k].v \in Nat
        BY <1>t, StateMsgFields DEF Typing
      <3>2. Len(toCache) \in 1 .. Len(toCache) /\ Len(toCache) - 1 = Len(toCache')
        BY <1>2
      <3> QED
        BY <2>1, <2>2, <3>1, <3>2 DEF IndInv, ChangeFirst
    <2>3. ASSUME NEW k \in 1 .. Len(toCache'), toCache'[k].type = "result"
          PROVE  Reached(toCache', mark'[toCache'[k].path], toCache'[k].path, toCache'[k].v, k - 1)
      <3>1. /\ k + 1 \in 1 .. Len(toCache) /\ toCache'[k] = toCache[k + 1]
            /\ (k + 1) - 1 = k /\ k \in 1 .. Len(toCache)
        BY <1>2
      <3>2. toCache[k + 1].path \in Paths /\ toCache[k + 1].v \in Nat
        BY <1>2, <3>1, StateMsgFields
      <3>3. Reached(toCache, mark[toCache[k + 1].path], toCache[k + 1].path, toCache[k + 1].v, k)
        BY <2>3, <3>1 DEF IndInv, ChangeFirst
      <3> QED
        BY <2>1, <3>1, <3>2, <3>3
    <2> QED
      BY <1>1, <2>2, <2>3 DEF ChangeFirst
  <1>16. ASSUME Serialised PROVE Latest'
    BY <1>1, <1>16 DEF IndInv, Latest
  <1>17. ASSUME Serialised PROVE Ordered'
    <2>1. ASSUME NEW q \in Paths
          PROVE  /\ InOrder(toCache', q)
                 /\ NoneBelow(toDaemon, q, mark'[q]) /\ NoneBelow(toCache', q, mark'[q])
                 /\ value[q] # 0 => mark'[q] <= value[q] /\ NoneAbove(toCache', q, value[q])
                 /\ \A k \in 1 .. Len(toCache') :
                       Carries(toCache', k, q) => NoneBelow(toDaemon, q, toCache'[k].v)
      <3>0. /\ InOrder(toCache, q) /\ NoneBelow(toDaemon, q, mark[q]) /\ NoneBelow(toCache, q, mark[q])
            /\ value[q] # 0 => mark[q] <= value[q] /\ NoneAbove(toCache, q, value[q])
            /\ \A k \in 1 .. Len(toCache) : Carries(toCache, k, q) => NoneBelow(toDaemon, q, toCache[k].v)
        BY <1>17 DEF IndInv, Ordered
      <3>1. /\ InOrder(toCache', q) /\ \A y : NoneBelow(toCache, q, y) => NoneBelow(toCache', q, y)
            /\ \A y : NoneAbove(toCache, q, y) => NoneAbove(toCache', q, y)
            /\ Carries(toCache, 1, q) => NoneBelow(toCache', q, toCache[1].v)
        BY <1>0, <1>2, <3>0, BoundsTail
      <3>2. \A k \in 1 .. Len(toCache') : Carries(toCache', k, q) => NoneBelow(toDaemon, q, toCache'[k].v)
        <4>1. ASSUME NEW k \in 1 .. Len(toCache'), Carries(toCache', k, q)
              PROVE  NoneBelow(toDaemon, q, toCache'[k].v)
          <5>1. k + 1 \in 1 .. Len(toCache) /\ toCache'[k] = toCache[k + 1]
            BY <1>2
          <5>2. Carries(toCache, k + 1, q)
            BY <4>1, <5>1 DEF Carries
          <5> QED
            BY <3>0, <5>1, <5>2
        <4> QED
          BY <4>1
      <3>3. CASE mark'[q] = mark[q]
        BY <3>0, <3>1, <3>2, <3>3
      <3>4. CASE mark'[q] # mark[q]
        <4>1. q = x /\ mark'[q] = m.v /\ m.v # mark[x]
          BY <1>8, <3>4
        <4>2. m.type # "remove"
          BY <1>4, <1>6, <1>8, <4>1
        <4>3. Carries(toCache, 1, q) /\ toCache[1].v = mark'[q]
          BY <1>2, <1>4, <4>1, <4>2 DEF Carries
        <4>4. NoneBelow(toDaemon, q, mark'[q]) /\ NoneBelow(toCache', q, mark'[q])
          BY <1>3, <3>0, <3>1, <4>3
        <4>5. value[q] # 0 => mark'[q] <= value[q]
          BY <1>3, <3>0, <4>3 DEF NoneAbove
        <4> QED
          BY <3>0, <3>1, <3>2, <4>4, <4>5
      <3> QED
        BY <3>3, <3>4
    <2> QED
      BY <1>1, <1>17, <2>1 DEF IndInv, Ordered
  <1> QED
    BY <1>9, <1>10, <1>11, <1>12, <1>13, <1>15, <1>16, <1>17 DEF IndInv

\* A response reaches the application.
LEMMA SetResultStep ==
    ASSUME IndInv, SetResult
    PROVE  IndInv'
  <1>t. Typing
    BY Typed
  <1>0. fconn /\ toCache # <<>> /\ Head(toCache).type = "result" /\ toCache' = Tail(toCache)
    BY DEF SetResult
  <1>1. UNCHANGED <<version, own, registered, unsent, oconn, toDaemon, toOwner, value, fetched, routed,
                    fconn, fromCache, cache, mark, missed, sets, losses>>
    BY DEF SetResult, owner, olink, daemon, copy
  <1>2. /\ toCache[1].type = "result" /\ toCache \in Seq(StateMsgs) /\ toCache' \in Seq(StateMsgs)
        /\ Len(toCache) \in Nat /\ Len(toCache) >= 1 /\ Len(toCache') = Len(toCache) - 1
        /\ \A k \in 1 .. Len(toCache) - 1 : toCache'[k] = toCache[k + 1]
    BY <1>t, <1>0, HeadTaken DEF Typing
  <1>3. \A k \in 1 .. Len(toCache') : k + 1 \in 1 .. Len(toCache) /\ toCache'[k] = toCache[k + 1]
    BY <1>2
  <1>4. \A q : ~About(toCache, 1, q) /\ ~Carries(toCache, 1, q)
    BY <1>2 DEF About, Carries
  <1>5. Types'
    BY <1>1, <1>2 DEF IndInv, Types, TypeOK
  <1>6. Links'
    BY <1>0, <1>1 DEF IndInv, Links
  <1>7. Numbered' /\ Pending' /\ DaemonFollows'
    BY <1>1 DEF IndInv, Numbered, Pending, DaemonFollows
  <1>8. Bounded'
    <2>1. \A q \in Paths : NoneAbove(toCache', q, version[q])
      BY <1>0, <1>2, BoundsTail DEF IndInv, Bounded
    <2> QED
      BY <1>1, <2>1 DEF IndInv, Bounded
  <1>9. CacheFollows'
    <2>1. \A q \in Paths : LastIs(toCache, cache[q], q, value[q]) => LastIs(toCache', cache[q], q, value[q])
      BY <1>0, <1>2, <1>4, LastIsTail
    <2>2. ASSUME NEW q \in Paths, \A k \in 1 .. Len(toCache) : ~About(toCache, k, q)
          PROVE  \A k \in 1 .. Len(toCache') : ~About(toCache', k, q)
      BY <1>3, <2>2 DEF About
    <2> QED
      BY <1>1, <2>1, <2>2 DEF IndInv, CacheFollows
  <1>10. ChangeFirst'
    <2>0. \A q \in Paths : mark[q] \in Nat /\ mark[q] <= mark[q]
      BY <1>t DEF Typing
    <2>1. ASSUME NEW q \in Paths, NEW v \in Nat, NEW k \in 1 .. Len(toCache), Reached(toCache, mark[q], q, v, k)
          PROVE  Reached(toCache', mark[q], q, v, k - 1)
      BY <1>0, <1>2, <1>4, <2>0, <2>1, ReachedTail
    <2>2. ASSUME NEW k \in 1 .. Len(toDaemon), toDaemon[k].type = "result", toDaemon[k].n \in routed
          PROVE  \/ Reached(toCache', mark[toDaemon[k].path], toDaemon[k].path, toDaemon[k].v, Len(toCache'))
                 \/ \E j \in 1 .. (k - 1) :
                       /\ toDaemon[j].type = "change"
                       /\ toDaemon[j].path = toDaemon[k].path /\ toDaemon[j].v = toDaemon[k].v
                       /\ Exists(toDaemon, value[toDaemon[k].path], toDaemon[k].path, j)
      <3>1. toDaemon[k].path \in Paths /\ toDaemon[k].v \in Nat
        BY <1>t, StateMsgFields DEF Typing
      <3>2. Len(toCache) \in 1 .. Len(toCache) /\ Len(toCache) - 1 = Len(toCache')
        BY <1>2
      <3> QED
        BY <2>1, <2>2, <3>1, <3>2 DEF IndInv, ChangeFirst
    <2>3. ASSUME NEW k \in 1 .. Len(toCache'), toCache'[k].type = "result"
          PROVE  Reached(toCache', mark[toCache'[k].path], toCache'[k].path, toCache'[k].v, k - 1)
      <3>1. (k + 1) - 1 = k /\ k \in 1 .. Len(toCache)
        BY <1>2
      <3>2. toCache[k + 1].path \in Paths /\ toCache[k + 1].v \in Nat
        BY <1>2, <1>3, StateMsgFields
      <3>3. Reached(toCache, mark[toCache[k + 1].path], toCache[k + 1].path, toCache[k + 1].v, k)
        BY <1>3, <2>3, <3>1 DEF IndInv, ChangeFirst
      <3> QED
        BY <1>3, <2>1, <3>1, <3>2, <3>3
    <2> QED
      BY <1>1, <2>2, <2>3 DEF ChangeFirst
  <1>11. ASSUME Serialised PROVE Latest'
    BY <1>1, <1>11 DEF IndInv, Latest
  <1>12. ASSUME Serialised PROVE Ordered'
    <2>1. \A q \in Paths : /\ InOrder(toCache, q) => InOrder(toCache', q)
                           /\ \A y : NoneBelow(toCache, q, y) => NoneBelow(toCache', q, y)
                           /\ \A y : NoneAbove(toCache, q, y) => NoneAbove(toCache', q, y)
      BY <1>0, <1>2, BoundsTail
    <2>2. \A q \in Paths, k \in 1 .. Len(toCache') :
              Carries(toCache', k, q) => k + 1 \in 1 .. Len(toCache) /\ Carries(toCache, k + 1, q)
      BY <1>3 DEF Carries
    <2> QED
      BY <1>1, <1>3, <1>12, <2>1, <2>2 DEF IndInv, Ordered
  <1> QED
    BY <1>5, <1>6, <1>7, <1>8, <1>9, <1>10, <1>11, <1>12 DEF IndInv

\* The owner's connection is lost: the daemon removes its states, and tells the
\* cache if it can.
LEMMA OwnerLostStep ==
    ASSUME IndInv, OwnerLost
    PROVE  IndInv'
  <1> DEFINE P == {p \in Paths : value[p] # 0}
  <1> DEFINE f == [p \in P |-> Msg("remove", p, 0, 0)]
  <1> DEFINE S == {Msg("remove", p, 0, 0) : p \in P}
  <1> DEFINE L == SetToSeq(S)
  <1> DEFINE es == IF fetched THEN L ELSE <<>>
  <1>t. Typing
    BY Typed
  <1>0. /\ losses < MaxLosses /\ losses' = losses + 1
        /\ oconn' = FALSE /\ toDaemon' = <<>> /\ toOwner' = <<>>
        /\ registered' = {} /\ value' = [p \in Paths |-> 0]
        /\ missed' = IF fetched THEN missed ELSE missed \cup P
        /\ toCache' = toCache \o es
    BY DEF OwnerLost
  <1>1. UNCHANGED <<version, own, unsent, fetched, routed, fconn, fromCache, cache, mark, sets>>
    BY DEF OwnerLost
  <1>2. /\ f \in [P -> StateMsgs] /\ \A p \in P : f[p].path = p /\ f[p].type = "remove" /\ f[p].v = 0
    <2>1. \A p \in P : /\ Msg("remove", p, 0, 0) \in StateMsgs /\ Msg("remove", p, 0, 0).path = p
                       /\ Msg("remove", p, 0, 0).type = "remove" /\ Msg("remove", p, 0, 0).v = 0
      BY DEF Msg, StateMsgs
    <2> QED
      BY <2>1
  <1>3. P \in SUBSET Paths /\ \A m : m \in S <=> \E p \in P : m = f[p]
    OBVIOUS
  <1> HIDE DEF f, P, S
  <1>4. /\ L \in Seq(StateMsgs)
        /\ \A k \in 1 .. Len(L) : \E p \in P : L[k] = f[p]
        /\ \A p \in P : \E k \in 1 .. Len(L) :
              L[k] = f[p] /\ \A j \in 1 .. Len(L) : L[j].path = p => j = k
    BY <1>2, <1>3, ListedMsgs
  <1> HIDE DEF L
  <1>5. es \in Seq(StateMsgs) /\ (fetched => es = L) /\ (~fetched => es = <<>>)
    BY <1>4
  <1> HIDE DEF es
  <1>6. \A k \in 1 .. Len(es) : es[k].type = "remove" /\ es[k].path \in P /\ es[k].v = 0
    BY <1>2, <1>4, <1>5
  <1>7. toCache \in Seq(StateMsgs) /\ toCache' \in Seq(StateMsgs)
    BY <1>t, <1>0, <1>5, Joined DEF Typing
  <1>8. \A q \in Paths : value'[q] = 0
    BY <1>0
  <1>9. Types'
    <2>1. 0 \in 0 .. MaxVersion + MaxSets /\ 0 \in Nat
      BY PublishAssumption
    <2>2. losses' \in 0 .. MaxLosses
      BY <1>0, PublishAssumption DEF IndInv, Types, TypeOK
    <2>3. value' \in [Paths -> 0 .. MaxVersion + MaxSets]
      BY <1>0, <2>1
    <2>4. missed' \subseteq Paths
      BY <1>0, <1>3 DEF IndInv, Types, TypeOK
    <2>5. /\ toDaemon' \in Seq(StateMsgs) /\ toOwner' \in Seq(SetMsgs)
          /\ registered' \subseteq {p \in Paths : own'[p] # 0} /\ oconn' \in BOOLEAN
      <3>1. toDaemon' = <<>> /\ toOwner' = <<>> /\ registered' = {} /\ oconn' = FALSE
        BY <1>0
      <3>2. <<>> \in Seq(StateMsgs) /\ <<>> \in Seq(SetMsgs)
        BY EmptySeq
      <3> QED
        BY <3>1, <3>2
    <2> QED
      BY <1>1, <1>7, <2>2, <2>3, <2>4, <2>5 DEF IndInv, Types, TypeOK
  <1>10. Links'
    <2>1. ASSUME ~fconn PROVE toCache' = <<>>
      <3>1. ~fetched /\ toCache = <<>>
        BY <2>1 DEF IndInv, Links
      <3> QED
        BY <1>0, <1>5, <3>1
    <2> QED
      BY <1>0, <1>1, <1>8, <2>1 DEF IndInv, Links
  <1>11. Len(toDaemon') = 0 /\ Len(toOwner') = 0
    BY <1>0
  <1>12. Numbered'
    BY <1>1, <1>11 DEF IndInv, Numbered
  <1>13. \A q \in Paths : \A y : NoneAbove(es, q, y) /\ NoneBelow(es, q, y) /\ InOrder(es, q)
    BY <1>6 DEF NoneAbove, NoneBelow, InOrder, Carries
  <1>14. Bounded'
    <2>1. ASSUME NEW q \in Paths
          PROVE  value'[q] <= version[q] /\ NoneAbove(toDaemon', q, version[q]) /\ NoneAbove(toCache', q, version[q])
      <3>1. NoneAbove(toCache', q, version[q])
        BY <1>0, <1>5, <1>7, <1>13, BoundsJoined DEF IndInv, Bounded
      <3>2. version[q] \in Nat
        BY <1>t DEF Typing
      <3> QED
        BY <1>8, <1>11, <3>1, <3>2 DEF NoneAbove
    <2> QED
      BY <1>1, <2>1 DEF IndInv, Bounded
  <1>15. Pending'
    BY <1>1 DEF IndInv, Pending
  <1>16. DaemonFollows'
    BY <1>0, <1>8, <1>11 DEF DaemonFollows, Follows, Gone, TrueAt
  <1>17. CacheFollows'
    <2>1. ASSUME NEW q \in Paths, fetched
          PROVE  \/ LastIs(toCache', cache[q], q, 0)
                 \/ /\ \A k \in 1 .. Len(toCache') : ~About(toCache', k, q)
                    /\ q \in missed'
      <3>1. CASE q \in P
        <4>1. PICK k \in 1 .. Len(es) : es[k] = f[q] /\ \A j \in 1 .. Len(es) : es[j].path = q => j = k
          BY <1>4, <1>5, <2>1, <3>1
        <4>2. About(es, k, q) /\ es[k].v = 0
          BY <1>2, <3>1, <4>1 DEF About
        <4>3. \A j \in (k + 1) .. Len(es) : ~About(es, j, q)
          BY <1>5, <4>1, Elements DEF About
        <4>4. LastIs(toCache', cache[q], q, es[k].v)
          BY <1>0, <1>5, <1>7, <4>2, <4>3, LastIsJoined
        <4> QED
          BY <4>2, <4>4
      <3>2. CASE q \notin P
        <4>0. value[q] = 0
          BY <3>2 DEF P
        <4>1. \A k \in 1 .. Len(es) : ~About(es, k, q)
          BY <1>6, <3>2 DEF About
        <4>2. CASE LastIs(toCache, cache[q], q, 0)
          BY <1>0, <1>5, <1>7, <4>1, <4>2, LastIsJoinedOther
        <4>3. CASE (\A k \in 1 .. Len(toCache) : ~About(toCache, k, q)) /\ q \in missed
          <5>1. \A k \in 1 .. Len(toCache') : ~About(toCache', k, q)
            BY <1>0, <1>5, <1>7, <4>1, <4>3, JoinedFrom DEF About
          <5> QED
            BY <1>0, <2>1, <4>3, <5>1
        <4> QED
          BY <2>1, <4>0, <4>2, <4>3 DEF IndInv, CacheFollows
      <3> QED
        BY <3>1, <3>2
    <2>2. ASSUME NEW q \in Paths, ~fetched
          PROVE  /\ \A k \in 1 .. Len(toCache') : ~About(toCache', k, q)
                 /\ cache[q] = 0 \/ q \in missed'
      <3>1. toCache' = toCache
        BY <1>0, <1>5, <1>7, <2>2, ConcatEmptySeq
      <3>2. missed' = missed \cup P
        BY <1>0, <2>2
      <3> QED
        BY <2>2, <3>1, <3>2 DEF IndInv, CacheFollows, P
    <2> QED
      BY <1>1, <1>8, <2>1, <2>2 DEF CacheFollows
  <1>18. ChangeFirst'
    BY <1>0, <1>1, <1>5, <1>6, ChangeFirstSent
  <1>19. ASSUME Serialised PROVE Latest'
    BY <1>0, <1>1, <1>19 DEF IndInv, Latest
  <1>20. ASSUME Serialised PROVE Ordered'
    <2>1. \A q \in Paths : \A y : NoneBelow(toDaemon', q, y) /\ InOrder(toDaemon', q)
      BY <1>11 DEF NoneBelow, InOrder
    <2>2. ASSUME NEW q \in Paths PROVE InOrder(toCache', q) /\ NoneBelow(toCache', q, mark[q])
      <3>1. InOrder(toCache, q) /\ NoneBelow(toCache, q, mark[q])
        BY <1>20 DEF IndInv, Ordered
      <3>2. NoneAbove(toCache, q, version[q]) /\ version[q] \in Nat
        BY <1>t DEF Typing, IndInv, Bounded
      <3>3. InOrder(toCache', q)
        BY <1>0, <1>5, <1>7, <1>13, <3>1, <3>2, InOrderJoined
      <3> QED
        BY <1>0, <1>5, <1>7, <1>13, <3>1, <3>3, BoundsJoined
    <2> QED
      BY <1>1, <1>8, <2>1, <2>2 DEF Ordered
  <1> QED
    BY <1>9, <1>10, <1>12, <1>14, <1>15, <1>16, <1>17, <1>18, <1>19, <1>20 DEF IndInv

\* The cache's connection is lost: what was on its way to it is lost.
LEMMA CacheLostStep ==
    ASSUME IndInv, CacheLost
    PROVE  IndInv'
  <1>t. Typing
    BY Typed
  <1>0. /\ losses < MaxLosses /\ losses' = losses + 1
        /\ fconn' = FALSE /\ fromCache' = <<>> /\ toCache' = <<>> /\ fetched' = FALSE /\ routed' = {}
        /\ missed' = missed \cup {p \in Paths : \E k \in DOMAIN toCache :
                                      toCache[k].type = "remove" /\ toCache[k].path = p}
    BY DEF CacheLost
  <1>1. UNCHANGED <<version, own, registered, unsent, oconn, toDaemon, toOwner, value, cache, mark, sets>>
    BY DEF CacheLost, owner, olink
  <1>2. Len(toCache') = 0 /\ Len(fromCache') = 0 /\ toCache' \in Seq(StateMsgs) /\ fromCache' \in Seq(CacheMsgs)
    BY <1>0
  <1>3. Types'
    <2>1. losses' \in 0 .. MaxLosses
      BY <1>0, PublishAssumption DEF IndInv, Types, TypeOK
    <2>2. missed' \subseteq Paths /\ routed' \subseteq 1 .. sets' /\ fconn' \in BOOLEAN /\ fetched' \in BOOLEAN
      BY <1>0 DEF IndInv, Types, TypeOK
    <2> QED
      BY <1>1, <1>2, <2>1, <2>2 DEF IndInv, Types, TypeOK
  <1>4. Links'
    BY <1>0, <1>1 DEF IndInv, Links
  <1>5. Numbered'
    BY <1>1, <1>2 DEF IndInv, Numbered
  <1>6. Bounded' /\ Pending' /\ DaemonFollows'
    BY <1>1, <1>2 DEF IndInv, Bounded, NoneAbove, Pending, DaemonFollows
  <1>7. CacheFollows'
    <2>1. ASSUME NEW q \in Paths, value[q] = 0, cache[q] # 0 PROVE q \in missed'
      <3>1. CASE q \in missed
        BY <1>0, <3>1
      <3>2. ASSUME NEW k \in 1 .. Len(toCache), About(toCache, k, q), toCache[k].v = 0
            PROVE  q \in missed'
        <4>1. toCache[k].type = "remove" /\ toCache[k].path = q /\ k \in DOMAIN toCache
          BY <1>t, <3>2, StateMsgFields, Elements DEF Typing, About
        <4> QED
          BY <1>0, <4>1
      <3> QED
        BY <2>1, <3>1, <3>2 DEF IndInv, CacheFollows, LastIs
    <2> QED
      BY <1>0, <1>1, <1>2, <2>1 DEF CacheFollows
  <1>8. ChangeFirst'
    BY <1>0, <1>2 DEF ChangeFirst
  <1>9. ASSUME Serialised PROVE Latest'
    BY <1>1, <1>9 DEF IndInv, Latest
  <1>10. ASSUME Serialised PROVE Ordered'
    BY <1>1, <1>2, <1>10 DEF IndInv, Ordered, InOrder, NoneBelow, NoneAbove
  <1> QED
    BY <1>3, <1>4, <1>5, <1>6, <1>7, <1>8, <1>9, <1>10 DEF IndInv

\* A connection is resumed, and nothing happens.
LEMMA ResumesStep ==
    ASSUME IndInv, OwnerResumes \/ CacheResumes \/ UNCHANGED vars
    PROVE  IndInv'
  <1>1. /\ UNCHANGED <<version, own, registered, unsent, toDaemon, toOwner, value, fetched, routed,
                       toCache, cache, mark, missed, sets, losses>>
        /\ \/ oconn' = TRUE /\ UNCHANGED <<fconn, fromCache>>
           \/ ~fconn /\ fconn' = TRUE /\ fromCache' = <<FetchMsg>> /\ UNCHANGED oconn
           \/ UNCHANGED <<oconn, fconn, fromCache>>
    BY DEF OwnerResumes, CacheResumes, Restore, vars, owner, olink, daemon, flink, copy
  <1>2. /\ <<FetchMsg>> \in Seq(CacheMsgs) /\ Len(<<FetchMsg>>) = 1 /\ <<FetchMsg>>[1] = FetchMsg
        /\ FetchMsg.type # "set"
    BY DEF CacheMsgs, FetchMsg
  <1>3. Types'
    BY <1>1, <1>2 DEF IndInv, Types, TypeOK
  <1>4. Links'
    BY <1>1, <1>2 DEF IndInv, Links
  <1>5. Numbered'
    <2>1. CASE fromCache' = <<FetchMsg>>
      BY <1>1, <1>2, <2>1 DEF IndInv, Numbered
    <2>2. CASE fromCache' = fromCache
      BY <1>1, <2>2 DEF IndInv, Numbered
    <2> QED
      BY <1>1, <2>1, <2>2
  <1>6. Bounded' /\ Pending' /\ DaemonFollows' /\ CacheFollows' /\ ChangeFirst'
    BY <1>1 DEF IndInv, Bounded, Pending, DaemonFollows, CacheFollows, ChangeFirst
  <1>7. ASSUME Serialised PROVE Latest' /\ Ordered'
    BY <1>1, <1>7 DEF IndInv, Latest, Ordered
  <1> QED
    BY <1>3, <1>4, <1>5, <1>6, <1>7 DEF IndInv

-----------------------------------------------------------------------------
(* Theorems *)

\* The inductive invariant holds in every state that is reached.
THEOREM Invariance == Spec => []IndInv
  <1>1. IndInv /\ [Next]_vars => IndInv'
    <2> SUFFICES ASSUME IndInv, [Next]_vars PROVE IndInv'
      OBVIOUS
    <2>1. ASSUME NEW p \in Paths, AddState(p) \/ RemoveState(p) \/ ChangeValue(p) \/ SetStateValue(p)
          PROVE  IndInv'
      BY <2>1, AddStateStep, RemoveStateStep, ChangeValueStep, SetStateValueStep
    <2>2. CASE NotifyChange
      BY <2>2, NotifyStateStep DEF NotifyChange
    <2>3. CASE HandleSet
      BY <2>3, HandleSetStep
    <2>4. CASE Daemon
      BY <2>4, DaemonHandlesOwnerStep, DaemonHandlesFetchStep, DaemonHandlesSetStep DEF Daemon
    <2>5. CASE FetchingPeerLoop
      BY <2>5, FetchCbStep, SetResultStep DEF FetchingPeerLoop
    <2>6. CASE OwnerLost \/ CacheLost
      BY <2>6, OwnerLostStep, CacheLostStep
    <2>7. CASE OwnerResumes \/ CacheResumes \/ UNCHANGED vars
      BY <2>7, ResumesStep
    <2> QED
      BY <2>1, <2>2, <2>3, <2>4, <2>5, <2>6, <2>7 DEF Next
  <1> QED
    BY Initially, <1>1, PTL DEF Spec

\* The variables stay in their types, however the application of the owner is
\* written: the owner holds the latest version of what exists, set requests
\* make no more versions than there are requests.
THEOREM TypeCorrect == Spec => []TypeOK
  <1>1. IndInv => TypeOK
    BY DEF IndInv, Types
  <1> QED
    BY Invariance, <1>1, PTL

\* With nothing on its way, the daemon has told the cache everything.
LEMMA SettledCache ==
    ASSUME IndInv, Settled
    PROVE  \A p \in Paths : cache[p] = value[p] \/ (value[p] = 0 /\ p \in missed)
  <1>1. fconn /\ fromCache = <<>> /\ toCache = <<>> /\ Len(toCache) = 0
    BY DEF Settled
  <1>2. fetched
    BY <1>1 DEF IndInv, Links
  <1> QED
    BY <1>1, <1>2 DEF IndInv, CacheFollows, LastIs

\* If the application of the owner serves no set request between a change and its
\* notification, the cache is complete when nothing is on its way, over any number
\* of lost connections of either peer.
THEOREM CacheIsComplete ==
    ASSUME Serialised
    PROVE  Spec => []CacheComplete
  <1>1. IndInv => CacheComplete
    <2> SUFFICES ASSUME IndInv, Settled, NEW p \in Paths, own[p] # 0
                 PROVE  cache[p] = own[p]
      BY DEF CacheComplete, GetEntry
    <2>1. p \in registered /\ unsent = {} /\ toDaemon = <<>> /\ Len(toDaemon) = 0
      BY DEF Settled
    <2>2. value[p] = own[p]
      BY <2>1 DEF IndInv, Latest, LastIs
    <2> QED
      BY <2>2, SettledCache
  <1> QED
    BY Invariance, <1>1, PTL

\* A state that does not exist stays in the cache only if its removal was missed
\* when the connection was lost.
THEOREM StaleEntriesWereMissed == Spec => []StaleOnlyByLoss
  <1>1. IndInv => StaleOnlyByLoss
    <2> SUFFICES ASSUME IndInv, Settled, NEW p \in Paths, own[p] = 0, cache[p] # 0
                 PROVE  p \in missed
      BY DEF StaleOnlyByLoss, GetEntry
    <2>1. p \notin registered /\ toDaemon = <<>> /\ Len(toDaemon) = 0
      BY Typed DEF Settled, Typing
    <2>2. value[p] = 0
      BY <2>1 DEF IndInv, DaemonFollows, Follows, Gone, TrueAt
    <2> QED
      BY <2>2, SettledCache
  <1> QED
    BY Invariance, <1>1, PTL

\* A process that sets a state finds its value, or a newer one, in its own cache
\* when the response arrives: handleMessage sends the change first, and no queue
\* changes the order.
THEOREM ReadsItsWrites == Spec => []ReadYourWrites
  <1>1. IndInv => ReadYourWrites
    <2> SUFFICES ASSUME IndInv, toCache # <<>>, Head(toCache).type = "result"
                 PROVE  mark[Head(toCache).path] >= Head(toCache).v
      BY DEF ReadYourWrites
    <2>t. Typing
      BY Typed
    <2>1. Head(toCache) = toCache[1] /\ 1 \in 1 .. Len(toCache)
      BY <2>t, HeadTaken DEF Typing
    <2>2. toCache[1].path \in Paths /\ toCache[1].v \in Nat
      BY <2>t, <2>1, StateMsgFields DEF Typing
    <2>3. Reached(toCache, mark[toCache[1].path], toCache[1].path, toCache[1].v, 1 - 1)
      BY <2>1 DEF IndInv, ChangeFirst
    <2>4. mark[toCache[1].path] \in Nat
      BY <2>t, <2>2 DEF Typing
    <2> QED
      BY <2>1, <2>2, <2>3, <2>4 DEF Reached
  <1> QED
    BY Invariance, <1>1, PTL

-----------------------------------------------------------------------------
(* Refinement of Mirror *)

\* Making a version is a step of Mirror.
LEMMA NewVersionRefines ==
    ASSUME NEW p \in Paths, NewVersion(p), UNCHANGED <<cache, mark>>
    PROVE  Copy!Next
  <1>1. Copy!NewVersion(p)
    BY DEF NewVersion, Copy!NewVersion
  <1> QED
    BY <1>1 DEF Copy!Next

\* An event makes the copy learn a version that is not older than what it had
\* before, or forget the state.
LEMMA FetchCbRefines ==
    ASSUME Serialised, IndInv, FetchCb
    PROVE  Copy!Next
  <1> DEFINE m == Head(toCache)
  <1> DEFINE x == m.path
  <1>t. Typing
    BY Typed
  <1>0. /\ toCache # <<>> /\ m.type # "result"
        /\ cache' = [cache EXCEPT ![x] = Entry(m)]
        /\ mark' = [mark EXCEPT ![x] = IF m.v > mark[x] THEN m.v ELSE mark[x]]
        /\ UNCHANGED version
    BY DEF FetchCb, owner
  <1>2. m = toCache[1] /\ toCache \in Seq(StateMsgs) /\ 1 \in 1 .. Len(toCache)
    BY <1>t, <1>0, HeadTaken DEF Typing
  <1>4. /\ m.type \in {"add", "change", "remove"} /\ x \in Paths /\ m.v \in Nat
        /\ m.v = 0 <=> m.type = "remove"
    BY <1>0, <1>2, StateMsgFields
  <1>5. Entry(m) = m.v
    BY <1>4 DEF Entry
  <1>6. mark \in [Paths -> Nat] /\ mark[x] \in Nat /\ version[x] \in Nat
    BY <1>t, <1>4 DEF Typing
  <1>7. CASE m.type = "remove"
    <2>1. m.v = 0 /\ ~(m.v > mark[x])
      BY <1>4, <1>6, <1>7
    <2>2. mark' = mark
      BY <1>0, <1>6, <2>1
    <2>3. Copy!Forget(x)
      BY <1>0, <1>5, <2>1, <2>2 DEF Copy!Forget
    <2> QED
      BY <1>4, <2>3 DEF Copy!Next
  <1>8. CASE m.type # "remove"
    <2>1. Carries(toCache, 1, x)
      BY <1>2, <1>4, <1>8 DEF Carries
    <2>2. m.v <= version[x] /\ mark[x] <= m.v
      BY <1>2, <1>4, <2>1 DEF IndInv, Bounded, Ordered, NoneAbove, NoneBelow
    <2>3. m.v \in 1 .. version[x]
      BY <1>4, <1>6, <1>8, <2>2
    <2>4. (IF m.v > mark[x] THEN m.v ELSE mark[x]) = m.v
      BY <1>4, <1>6, <2>2
    <2>5. /\ cache' = [cache EXCEPT ![x] = m.v] /\ mark' = [mark EXCEPT ![x] = m.v]
          /\ m.v > 0 /\ UNCHANGED version
      <3>1. cache' = [cache EXCEPT ![x] = m.v]
        BY <1>0, <1>5
      <3>2. mark' = [mark EXCEPT ![x] = m.v]
        BY <1>0, <2>4
      <3>3. m.v > 0
        BY <1>4, <1>8
      <3> QED
        BY <1>0, <3>1, <3>2, <3>3
    <2> HIDE DEF m
    <2>6. Copy!Learn(x, m.v)
      BY <2>2, <2>5 DEF Copy!Learn
    <2> QED
      BY <1>4, <2>3, <2>6 DEF Copy!Next
  <1> QED
    BY <1>7, <1>8

\* A request that is served makes a version, or nothing that Mirror sees.
LEMMA HandleSetRefines ==
    ASSUME IndInv, HandleSet
    PROVE  Copy!Next \/ UNCHANGED Copy!vars
  <1> DEFINE x == Head(toOwner).path
  <1>1. UNCHANGED <<cache, mark>> /\ registered \subseteq Paths
    BY DEF HandleSet, copy, IndInv, Types, TypeOK
  <1>2. (x \in registered /\ NewVersion(x)) \/ UNCHANGED version
    BY DEF HandleSet
  <1> QED
    BY <1>1, <1>2, NewVersionRefines DEF Copy!vars

\* Readers of the cache see Mirror, over any number of lost connections: they
\* never see a version that was not published, and never an older one after a
\* newer one, if the application of the owner serves no set request between a
\* change and its notification.
THEOREM Refinement ==
    ASSUME Serialised
    PROVE  Spec => ImplementsMirror
  <1>1. Init => Copy!Init
    BY DEF Init, Copy!Init
  <1>2. IndInv /\ [Next]_vars => [Copy!Next]_(Copy!vars)
    <2> SUFFICES ASSUME IndInv, [Next]_vars
                 PROVE  Copy!Next \/ UNCHANGED Copy!vars
      OBVIOUS
    <2> USE DEF Copy!vars, owner, olink, daemon, flink, copy
    <2>1. ASSUME NEW p \in Paths, AddState(p) \/ ChangeValue(p)
          PROVE  Copy!Next \/ UNCHANGED Copy!vars
      BY <2>1, NewVersionRefines DEF AddState, ChangeValue
    <2>2. ASSUME NEW p \in Paths, RemoveState(p) \/ SetStateValue(p)
          PROVE  UNCHANGED Copy!vars
      BY <2>2 DEF RemoveState, SetStateValue
    <2>3. CASE NotifyChange
      BY <2>3 DEF NotifyChange, NotifyState
    <2>4. CASE HandleSet
      BY <2>4, HandleSetRefines
    <2>5. CASE Daemon
      BY <2>5 DEF Daemon, DaemonHandlesOwner, DaemonHandlesFetch, DaemonHandlesSet
    <2>6. CASE FetchCb
      BY <2>6, FetchCbRefines
    <2>7. CASE SetResult \/ OwnerLost \/ CacheLost \/ OwnerResumes \/ CacheResumes \/ UNCHANGED vars
      BY <2>7 DEF SetResult, OwnerLost, CacheLost, OwnerResumes, CacheResumes, vars
    <2> QED
      BY <2>1, <2>2, <2>3, <2>4, <2>5, <2>6, <2>7 DEF Next, FetchingPeerLoop
  <1> QED
    BY <1>1, <1>2, Invariance, PTL DEF Spec, ImplementsMirror, Copy!Spec
=============================================================================
