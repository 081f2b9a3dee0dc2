------------------------- MODULE FetchingPeerProofs -------------------------
(***************************************************************************)
(* Proofs about FetchingPeer, for any number of fetches, changes and lost  *)
(* connections, and whoever adds, removes, resumes and stops meanwhile.    *)
(*                                                                         *)
(* The argument, for each fetch: while the peer knows it, nothing that     *)
(* ends it is on its way, and unless start() is still to restore it, it is *)
(* established or asked for; once the peer does not know it, it is down    *)
(* for good, or its removal is about to be sent, or the error of a request *)
(* has unregistered it (Agreed).  The last notification of an established  *)
(* fetch has the current value, and none is consumed while stop() still    *)
(* tells the fetches that the connection was lost (Fresh).                 *)
(***************************************************************************)
EXTENDS FetchingPeer, FiniteSetTheorems, SequenceTheorems, TLAPS

-----------------------------------------------------------------------------
(* Queues *)

\* The elements of a queue.
LEMMA Elements ==
    ASSUME NEW S, NEW q \in Seq(S)
    PROVE  /\ Len(q) \in Nat
           /\ DOMAIN q = 1 .. Len(q)
           /\ \A k \in 1 .. Len(q) : q[k] \in S
  BY LenProperties, ElementOfSeq

\* The head is taken out of a queue.
LEMMA HeadTaken ==
    ASSUME NEW S, NEW q \in Seq(S), q # <<>>
    PROVE  /\ Head(q) \in S /\ Head(q) = q[1]
           /\ Tail(q) \in Seq(S)
           /\ Len(q) \in Nat /\ Len(q) >= 1
           /\ Len(Tail(q)) = Len(q) - 1
           /\ \A k \in 1 .. Len(q) - 1 : Tail(q)[k] = q[k + 1]
           /\ \A k \in 2 .. Len(q) : Tail(q)[k - 1] = q[k]
  BY HeadTailProperties, LenProperties

\* Something is put at the end of a queue.
LEMMA Appended ==
    ASSUME NEW S, NEW q \in Seq(S), NEW m \in S
    PROVE  /\ Append(q, m) \in Seq(S)
           /\ Len(q) \in Nat
           /\ Len(Append(q, m)) = Len(q) + 1
           /\ \A k \in 1 .. Len(q) : Append(q, m)[k] = q[k]
           /\ Append(q, m)[Len(q) + 1] = m
  BY AppendProperties, LenProperties

\* Two queues are joined.
LEMMA Joined ==
    ASSUME NEW S, NEW q \in Seq(S), NEW r \in Seq(S)
    PROVE  /\ q \o r \in Seq(S)
           /\ Len(q) \in Nat /\ Len(r) \in Nat
           /\ Len(q \o r) = Len(q) + Len(r)
           /\ \A k \in 1 .. Len(q) : (q \o r)[k] = q[k]
           /\ \A k \in 1 .. Len(r) : (q \o r)[Len(q) + k] = r[k]
  BY ConcatProperties, LenProperties

-----------------------------------------------------------------------------
(* The messages of a set in a queue *)

\* None of the messages of A is in q.
None(q, A) == \A k \in 1 .. Len(q) : q[k] \notin A

\* A message of B is in q, and no message of A after it.
LastOf(q, A, B) ==
    \E k \in 1 .. Len(q) : q[k] \in B /\ \A j \in (k + 1) .. Len(q) : q[j] \notin A

\* Nothing is in an empty queue.
LEMMA EmptyQueue ==
    ASSUME NEW q, q = <<>>, NEW A
    PROVE  None(q, A)
  BY DEF None

\* The head is taken out of a queue: what is still true of the rest.
LEMMA TakenOut ==
    ASSUME NEW S, NEW q \in Seq(S), q # <<>>, NEW A, NEW B
    PROVE  /\ None(q, A) <=> None(Tail(q), A) /\ Head(q) \notin A
           /\ LastOf(q, A, B) => LastOf(Tail(q), A, B) \/ (Head(q) \in B /\ None(Tail(q), A))
  <1>1. /\ Head(q) = q[1] /\ Len(q) \in Nat /\ Len(q) >= 1 /\ Len(Tail(q)) = Len(q) - 1
        /\ \A k \in 1 .. Len(q) - 1 : Tail(q)[k] = q[k + 1]
        /\ \A k \in 2 .. Len(q) : Tail(q)[k - 1] = q[k]
    BY HeadTaken
  <1> DEFINE t == Tail(q)
  <1> HIDE DEF t
  <1>2. /\ Head(q) = q[1] /\ Len(q) \in Nat /\ Len(q) >= 1 /\ Len(t) = Len(q) - 1
        /\ \A k \in 1 .. Len(t) : t[k] = q[k + 1] /\ k + 1 \in 1 .. Len(q)
        /\ \A k \in 2 .. Len(q) : t[k - 1] = q[k] /\ k - 1 \in 1 .. Len(t)
        /\ 1 \in 1 .. Len(q)
    BY <1>1 DEF t
  <1>3. None(q, A) => None(t, A) /\ Head(q) \notin A
    BY <1>2 DEF None
  <1>4. ASSUME None(t, A), Head(q) \notin A, NEW k \in 1 .. Len(q) PROVE q[k] \notin A
    <2>1. CASE k = 1
      BY <1>2, <1>4, <2>1
    <2>2. CASE k # 1
      <3>1. k \in 2 .. Len(q)
        BY <1>2, <2>2
      <3> QED
        BY <1>2, <1>4, <3>1 DEF None
    <2> QED
      BY <2>1, <2>2
  <1>6. ASSUME LastOf(q, A, B) PROVE LastOf(t, A, B) \/ (Head(q) \in B /\ None(t, A))
    <2>1. PICK k \in 1 .. Len(q) : q[k] \in B /\ \A j \in (k + 1) .. Len(q) : q[j] \notin A
      BY <1>6 DEF LastOf
    <2>2. CASE k = 1
      <3>1. \A j \in 1 .. Len(t) : j + 1 \in (k + 1) .. Len(q)
        BY <1>2, <2>2
      <3> QED
        BY <1>2, <2>1, <2>2, <3>1 DEF None
    <2>3. CASE k # 1
      <3>1. k \in 2 .. Len(q)
        BY <1>2, <2>3
      <3>2. \A j \in ((k - 1) + 1) .. Len(t) : j \in 1 .. Len(t) /\ j + 1 \in (k + 1) .. Len(q)
        BY <1>2, <3>1
      <3>3. \A j \in ((k - 1) + 1) .. Len(t) : t[j] \notin A
        BY <1>2, <2>1, <3>2
      <3> QED
        BY <1>2, <2>1, <3>1, <3>3 DEF LastOf
    <2> QED
      BY <2>2, <2>3
  <1> QED
    BY <1>3, <1>4, <1>6 DEF t, None

\* Messages are put at the end of a queue: what is still true of all of it.
LEMMA PutAtEnd ==
    ASSUME NEW S, NEW q \in Seq(S), NEW ms \in Seq(S), NEW A, NEW B
    PROVE  /\ None(q \o ms, A) <=> None(q, A) /\ None(ms, A)
           /\ LastOf(q, A, B) /\ None(ms, A) => LastOf(q \o ms, A, B)
           /\ LastOf(ms, A, B) => LastOf(q \o ms, A, B)
  <1> DEFINE t == q \o ms
  <1> HIDE DEF t
  <1>1. /\ Len(q) \in Nat /\ Len(ms) \in Nat /\ Len(t) = Len(q) + Len(ms)
        /\ \A k \in 1 .. Len(q) : t[k] = q[k] /\ k \in 1 .. Len(t)
        /\ \A k \in 1 .. Len(ms) : t[Len(q) + k] = ms[k] /\ Len(q) + k \in 1 .. Len(t)
    <2>1. /\ Len(q) \in Nat /\ Len(ms) \in Nat /\ Len(t) = Len(q) + Len(ms)
          /\ \A k \in 1 .. Len(q) : t[k] = q[k]
          /\ \A k \in 1 .. Len(ms) : t[Len(q) + k] = ms[k]
      BY Joined DEF t
    <2>2. /\ \A k \in 1 .. Len(q) : k \in 1 .. Len(t)
          /\ \A k \in 1 .. Len(ms) : Len(q) + k \in 1 .. Len(t)
      BY <2>1
    <2> QED
      BY <2>1, <2>2
  <1>2. /\ \A k \in 1 .. Len(t) : k \in 1 .. Len(q) \/ (k > Len(q) /\ k - Len(q) \in 1 .. Len(ms))
        /\ \A k \in 1 .. Len(t) : k > Len(q) => t[k] = ms[k - Len(q)]
    <2>1. \A k \in 1 .. Len(t) : k \in 1 .. Len(q) \/ (k > Len(q) /\ k - Len(q) \in 1 .. Len(ms))
      BY <1>1
    <2>2. ASSUME NEW k \in 1 .. Len(t), k > Len(q) PROVE t[k] = ms[k - Len(q)]
      <3>1. k - Len(q) \in 1 .. Len(ms) /\ Len(q) + (k - Len(q)) = k
        BY <1>1, <2>2
      <3> QED
        BY <1>1, <3>1
    <2> QED
      BY <2>1, <2>2
  <1>3. ASSUME None(ms, A), NEW k \in 1 .. Len(t), t[k] \in A PROVE k \in 1 .. Len(q) /\ q[k] \in A
    BY <1>1, <1>2, <1>3 DEF None
  <1>4. None(q, A) /\ None(ms, A) => None(t, A)
    BY <1>3 DEF None
  <1>5. ASSUME None(t, A) PROVE None(q, A) /\ None(ms, A)
    BY <1>1, <1>5 DEF None
  <1>10. ASSUME LastOf(q, A, B), None(ms, A) PROVE LastOf(t, A, B)
    <2>1. PICK k \in 1 .. Len(q) : q[k] \in B /\ \A j \in (k + 1) .. Len(q) : q[j] \notin A
      BY <1>10 DEF LastOf
    <2>2. ASSUME NEW j \in (k + 1) .. Len(t), t[j] \in A PROVE FALSE
      <3>1. j \in 1 .. Len(t)
        BY <1>1
      <3>2. j \in 1 .. Len(q) /\ q[j] \in A
        BY <1>3, <1>10, <2>2, <3>1
      <3>3. j \in (k + 1) .. Len(q)
        BY <1>1, <3>2
      <3> QED
        BY <2>1, <3>2, <3>3
    <2> QED
      BY <1>1, <2>1, <2>2 DEF LastOf
  <1>11. ASSUME LastOf(ms, A, B) PROVE LastOf(t, A, B)
    <2>1. PICK k \in 1 .. Len(ms) : ms[k] \in B /\ \A j \in (k + 1) .. Len(ms) : ms[j] \notin A
      BY <1>11 DEF LastOf
    <2>2. ASSUME NEW j \in ((Len(q) + k) + 1) .. Len(t) PROVE t[j] \notin A
      <3>1. j \in 1 .. Len(t) /\ j > Len(q) /\ j - Len(q) \in (k + 1) .. Len(ms)
        BY <1>1
      <3> QED
        BY <1>2, <2>1, <3>1
    <2> QED
      BY <1>1, <2>1, <2>2 DEF LastOf
  <1> QED
    BY <1>4, <1>5, <1>10, <1>11 DEF t

\* A message is put at the end of a queue.
LEMMA SentLast ==
    ASSUME NEW S, NEW q \in Seq(S), NEW m \in S, NEW A, NEW B
    PROVE  /\ Append(q, m) \in Seq(S)
           /\ None(Append(q, m), A) <=> None(q, A) /\ m \notin A
           /\ LastOf(q, A, B) /\ m \notin A => LastOf(Append(q, m), A, B)
           /\ m \in B => LastOf(Append(q, m), A, B)
  <1> DEFINE ms == <<m>>
  <1>1. ms \in Seq(S) /\ Len(ms) = 1 /\ ms[1] = m
    OBVIOUS
  <1>2. Append(q, m) = q \o ms
    BY AppendIsConcat
  <1> HIDE DEF ms
  <1>3. /\ m \notin A <=> None(ms, A)
        /\ m \in B => LastOf(ms, A, B)
    <2>1. \A k \in 1 .. Len(ms) : k = 1
      BY <1>1
    <2>2. 1 \in 1 .. Len(ms) /\ \A j \in (1 + 1) .. Len(ms) : FALSE
      BY <1>1
    <2> QED
      BY <1>1, <2>1, <2>2 DEF None, LastOf
  <1>4. Append(q, m) \in Seq(S)
    BY Appended
  <1> QED
    BY <1>1, <1>2, <1>3, <1>4, PutAtEnd

\* The same for a single set of messages.
LEMMA Sends ==
    ASSUME NEW S, NEW q \in Seq(S), NEW m \in S, NEW A
    PROVE  None(Append(q, m), A) <=> None(q, A) /\ m \notin A
  <1>1. \A B : None(Append(q, m), A) <=> None(q, A) /\ m \notin A
    BY SentLast
  <1> QED
    BY <1>1

\* The same for a single set of messages.
LEMMA Takes ==
    ASSUME NEW S, NEW q \in Seq(S), q # <<>>, NEW A
    PROVE  None(q, A) <=> None(Tail(q), A) /\ Head(q) \notin A
  <1>1. \A B : None(q, A) <=> None(Tail(q), A) /\ Head(q) \notin A
    BY TakenOut
  <1> QED
    BY <1>1

\* The same for a single set of messages.
LEMMA Joins ==
    ASSUME NEW S, NEW q \in Seq(S), NEW ms \in Seq(S), NEW A
    PROVE  None(q \o ms, A) <=> None(q, A) /\ None(ms, A)
  <1>1. \A B : None(q \o ms, A) <=> None(q, A) /\ None(ms, A)
    BY PutAtEnd
  <1> QED
    BY <1>1

-----------------------------------------------------------------------------
(* The inductive invariant *)

DaemonMsgs == [type : {"fetch", "unfetch"}, fetch : Fetches, v : {Yes, No}]
PeerMsgs ==
    [type : {"notify"}, fetch : Fetches, v : 0 .. MaxChanges]
    \cup [type : {"result"}, fetch : Fetches, v : {Yes, No}]
AnyMsgs == DaemonMsgs \cup PeerMsgs

\* What is about fetch f.
FetchesOf(f) == {m \in DaemonMsgs : m.fetch = f /\ m.type = "fetch"}
UnfetchesOf(f) == {m \in DaemonMsgs : m.fetch = f /\ m.type = "unfetch"}
About(f) == {m \in DaemonMsgs : m.fetch = f}
NewsOf(f) == {m \in PeerMsgs : m.fetch = f /\ m.type = "notify"}
NewsWith(f, v) == {m \in PeerMsgs : m.fetch = f /\ m.type = "notify" /\ m.v = v}

Types ==
    /\ TypeOK
    /\ toDaemon \in Seq(DaemonMsgs) /\ toPeer \in Seq(PeerMsgs)
    /\ \A f \in Fetches : f > created => None(toDaemon, About(f))

\* Without connection nothing is on its way and nothing is established.  A
\* fetch that is about to be asked for is known and waits for nothing; one whose
\* removal is about to be sent is not known.
Linked ==
    /\ ~conn => toDaemon = <<>> /\ toPeer = <<>> /\ dfetches = {}
    /\ adding # 0 => adding \in fetchers /\ adding \notin open
    /\ removing \notin fetchers

\* The daemon has not established f, now and until another request for it.
Down(f) ==
    \/ None(toDaemon, About(f)) /\ f \notin dfetches
    \/ LastOf(toDaemon, About(f), UnfetchesOf(f))

\* What peer and daemon know of f.
Agreed(f) ==
    /\ f \notin fetchers /\ f \notin dropped => Down(f) \/ f = removing
    /\ f \in fetchers => None(toDaemon, UnfetchesOf(f))
    /\ f \in fetchers /\ conn /\ ~resuming =>
          f = adding \/ f \in dfetches \/ ~None(toDaemon, FetchesOf(f))

\* The last a known fetch hears of the state is its current value.
Fresh(f) ==
    f \in dfetches =>
        \/ LastOf(toPeer, NewsOf(f), NewsWith(f, value))
        \/ /\ None(toPeer, NewsOf(f))
           /\ stopping = "no"
           /\ f \in fetchers => IF running = f THEN news = value ELSE view[f] = value

Agreement ==
    /\ Linked
    /\ \A f \in Fetches : Agreed(f) /\ Fresh(f)

IndInv == Types /\ Agreement

-----------------------------------------------------------------------------
(* Messages *)

\* The fields of a message.
LEMMA MsgFields ==
    ASSUME NEW t, NEW f, NEW v
    PROVE  /\ Msg(t, f, v).type = t /\ Msg(t, f, v).fetch = f /\ Msg(t, f, v).v = v
           /\ f \in Fetches =>
                /\ t \in {"fetch", "unfetch"} /\ v \in {Yes, No} => Msg(t, f, v) \in DaemonMsgs
                /\ t = "notify" /\ v \in 0 .. MaxChanges => Msg(t, f, v) \in PeerMsgs
                /\ t = "result" /\ v \in {Yes, No} => Msg(t, f, v) \in PeerMsgs
  BY DEF Msg, DaemonMsgs, PeerMsgs

\* What the messages in the queues are.
LEMMA MsgTypes ==
    /\ \A m \in DaemonMsgs : m.type \in {"fetch", "unfetch"} /\ m.fetch \in Fetches /\ m.v \in {Yes, No}
    /\ \A m \in PeerMsgs : /\ m.fetch \in Fetches
                           /\ \/ m.type = "notify" /\ m.v \in 0 .. MaxChanges
                              \/ m.type = "result" /\ m.v \in {Yes, No}
  BY DEF DaemonMsgs, PeerMsgs

\* SetToSeq lists a finite set, every element once.
LEMMA Listed ==
    ASSUME NEW S, IsFiniteSet(S)
    PROVE  /\ SetToSeq(S) \in Seq(S)
           /\ \A x \in S : \E k \in 1 .. Len(SetToSeq(S)) : SetToSeq(S)[k] = x
           /\ \A j, k \in 1 .. Len(SetToSeq(S)) : SetToSeq(S)[j] = SetToSeq(S)[k] => j = k
  <1> DEFINE n == Cardinality(S)
  <1> DEFINE s == SetToSeq(S)
  <1>1. n \in Nat /\ ExistsBijection(1 .. n, S)
    BY FS_CardinalityType
  <1>2. PICK b \in Bijection(1 .. n, S) : TRUE
    BY <1>1 DEF ExistsBijection
  <1>3. \E h \in [1 .. n -> S] : IsInjective(h)
    BY <1>2 DEF Bijection, Injection, IsInjective
  <1>4. s \in [1 .. n -> S] /\ IsInjective(s)
    BY <1>3 DEF SetToSeq
  <1>5. s \in Injection(1 .. n, S)
    BY <1>4 DEF Injection, IsInjective
  <1>6. IsFiniteSet(1 .. n) /\ Cardinality(1 .. n) = n
    BY <1>1, FS_Interval
  <1>7. s \in Surjection(1 .. n, S)
    BY <1>5, <1>6, FS_Injection
  <1>8. s \in Seq(S) /\ Len(s) = n
    BY <1>1, <1>4
  <1> QED
    BY <1>4, <1>7, <1>8 DEF Surjection, IsInjective

\* One message about each of some fetches, in any order.
LEMMA ListedMsgs ==
    ASSUME NEW F \in SUBSET Fetches, NEW h \in [F -> AnyMsgs],
           \A f \in F : h[f].fetch = f,
           NEW S, \A m : m \in S <=> \E f \in F : m = h[f]
    PROVE  /\ SetToSeq(S) \in Seq(S)
           /\ \A k \in 1 .. Len(SetToSeq(S)) : \E f \in F : SetToSeq(S)[k] = h[f]
           /\ \A f \in F : \E k \in 1 .. Len(SetToSeq(S)) :
                 /\ SetToSeq(S)[k] = h[f]
                 /\ \A j \in 1 .. Len(SetToSeq(S)) : SetToSeq(S)[j].fetch = f => j = k
  <1> DEFINE L == SetToSeq(S)
  <1>1. IsFiniteSet(F)
    <2>1. IsFiniteSet(1 .. MaxFetches)
      BY FetchAssumption, FS_Interval
    <2> QED
      BY <2>1, FS_Subset DEF Fetches
  <1>2. h \in Surjection(F, S)
    BY DEF Surjection
  <1>3. IsFiniteSet(S)
    BY <1>1, <1>2, FS_Surjection
  <1>5. /\ L \in Seq(S)
        /\ \A y \in S : \E k \in 1 .. Len(L) : L[k] = y
        /\ \A j, k \in 1 .. Len(L) : L[j] = L[k] => j = k
    BY <1>3, Listed
  <1> HIDE DEF L
  <1>6. \A k \in 1 .. Len(L) : L[k] \in S
    BY <1>5, Elements
  <1>8. \A k \in 1 .. Len(L) : \E f \in F : L[k] = h[f]
    BY <1>6
  <1>9. ASSUME NEW f \in F
        PROVE  \E k \in 1 .. Len(L) : L[k] = h[f] /\ \A j \in 1 .. Len(L) : L[j].fetch = f => j = k
    <2>1. PICK k \in 1 .. Len(L) : L[k] = h[f]
      BY <1>5
    <2>2. ASSUME NEW j \in 1 .. Len(L), L[j].fetch = f PROVE j = k
      <3>1. PICK e \in F : L[j] = h[e]
        BY <1>8
      <3>2. e = f
        BY <2>2, <3>1
      <3> QED
        BY <1>5, <2>1, <3>1, <3>2
    <2> QED
      BY <2>1, <2>2
  <1> QED
    BY <1>5, <1>8, <1>9 DEF L

\* start() sends one request for each known fetch.
LEMMA Restored ==
    ASSUME NEW F \in SUBSET Fetches
    PROVE  /\ Restore(F) \in Seq(DaemonMsgs)
           /\ \A f \in F : ~None(Restore(F), FetchesOf(f)) /\ None(Restore(F), UnfetchesOf(f))
           /\ \A f \in Fetches \ F : None(Restore(F), About(f))
  <1> DEFINE h == [f \in F |-> Msg("fetch", f, No)]
  <1> DEFINE S == {Msg("fetch", f, No) : f \in F}
  <1> DEFINE L == SetToSeq(S)
  <1>1. h \in [F -> AnyMsgs] /\ S \subseteq DaemonMsgs /\ \A f \in F : h[f].fetch = f /\ h[f].type = "fetch"
    BY MsgFields DEF AnyMsgs
  <1>2. \A m : m \in S <=> \E f \in F : m = h[f]
    OBVIOUS
  <1>3. L = Restore(F)
    BY DEF Restore
  <1> HIDE DEF h, S
  <1>4. \A f \in F : h[f].fetch = f
    BY <1>1
  <1>5. /\ L \in Seq(S)
        /\ \A k \in 1 .. Len(L) : \E f \in F : L[k] = h[f]
        /\ \A f \in F : \E k \in 1 .. Len(L) : L[k] = h[f] /\ \A j \in 1 .. Len(L) : L[j].fetch = f => j = k
    BY <1>1, <1>2, <1>4, ListedMsgs DEF L
  <1> HIDE DEF L
  <1>5a. L \in Seq(DaemonMsgs)
    BY <1>1, <1>5
  <1>6. ASSUME NEW f \in F
        PROVE  ~None(L, FetchesOf(f)) /\ None(L, UnfetchesOf(f))
    <2>1. PICK k \in 1 .. Len(L) : L[k] = h[f] /\ \A j \in 1 .. Len(L) : L[j].fetch = f => j = k
      BY <1>5
    <2>2. L[k] \in FetchesOf(f)
      BY <1>1, <1>5a, <2>1, Elements DEF FetchesOf
    <2>3. \A j \in 1 .. Len(L) : L[j].type = "fetch"
      BY <1>1, <1>5
    <2> QED
      BY <2>1, <2>2, <2>3 DEF None, UnfetchesOf
  <1>7. ASSUME NEW f \in Fetches \ F PROVE None(L, About(f))
    BY <1>1, <1>5 DEF None, About
  <1> QED
    BY <1>3, <1>5a, <1>6, <1>7

\* The notifications of value v to fetches F.
Notices(F, v) == SetToSeq({Msg("notify", f, v) : f \in F})

\* A change of the state is notified to each established fetch.
LEMMA Notified ==
    ASSUME NEW F \in SUBSET Fetches, NEW v \in 0 .. MaxChanges
    PROVE  /\ Notices(F, v) \in Seq(PeerMsgs)
           /\ \A f \in F : LastOf(Notices(F, v), NewsOf(f), NewsWith(f, v))
           /\ \A f \in Fetches \ F : None(Notices(F, v), NewsOf(f))
           /\ F = {} => Notices(F, v) = <<>>
  <1> DEFINE h == [f \in F |-> Msg("notify", f, v)]
  <1> DEFINE S == {Msg("notify", f, v) : f \in F}
  <1> DEFINE L == SetToSeq(S)
  <1>1. h \in [F -> AnyMsgs] /\ S \subseteq PeerMsgs /\ \A f \in F : h[f].fetch = f /\ h[f].type = "notify" /\ h[f].v = v
    BY MsgFields DEF AnyMsgs
  <1>2. \A m : m \in S <=> \E f \in F : m = h[f]
    OBVIOUS
  <1>3. Notices(F, v) = L
    BY DEF Notices
  <1> HIDE DEF h, S
  <1>4. \A f \in F : h[f].fetch = f
    BY <1>1
  <1>5. /\ L \in Seq(S)
        /\ \A k \in 1 .. Len(L) : \E f \in F : L[k] = h[f]
        /\ \A f \in F : \E k \in 1 .. Len(L) : L[k] = h[f] /\ \A j \in 1 .. Len(L) : L[j].fetch = f => j = k
    BY <1>1, <1>2, <1>4, ListedMsgs
  <1> HIDE DEF L
  <1>5a. L \in Seq(PeerMsgs)
    BY <1>1, <1>5
  <1>6. ASSUME NEW f \in F PROVE LastOf(L, NewsOf(f), NewsWith(f, v))
    <2>1. PICK k \in 1 .. Len(L) : L[k] = h[f] /\ \A j \in 1 .. Len(L) : L[j].fetch = f => j = k
      BY <1>5
    <2>2. L[k] \in NewsWith(f, v)
      BY <1>1, <1>5a, <2>1, Elements DEF NewsWith
    <2>3. ASSUME NEW j \in (k + 1) .. Len(L) PROVE L[j] \notin NewsOf(f)
      <3>1. Len(L) \in Nat
        BY <1>5, Elements
      <3>2. j \in 1 .. Len(L) /\ j # k
        BY <3>1
      <3> QED
        BY <2>1, <3>2 DEF NewsOf
    <2> QED
      BY <2>2, <2>3 DEF LastOf
  <1>7. ASSUME NEW f \in Fetches \ F PROVE None(L, NewsOf(f))
    BY <1>1, <1>5 DEF None, NewsOf
  <1>9. ASSUME F = {} PROVE L = <<>>
    <2>1. Len(L) \in Nat
      BY <1>5, Elements
    <2>2. \A k \in 1 .. Len(L) : FALSE
      BY <1>5, <1>9
    <2>3. Len(L) = 0
      BY <2>1, <2>2
    <2> QED
      BY <1>5, <2>3, EmptySeq
  <1> QED
    BY <1>3, <1>5a, <1>6, <1>7, <1>9

-----------------------------------------------------------------------------
(* Types *)

\* The sets the constants are in.
LEMMA ConstantTypes ==
    /\ MaxFetches \in Nat /\ MaxChanges \in Nat /\ MaxLosses \in Nat
    /\ Fetches = 1 .. MaxFetches
  BY FetchAssumption DEF Fetches

\* More fetches are known than before: what was typed still is.
LEMMA Ranges ==
    ASSUME TypeOK
    PROVE  /\ created \in Nat /\ created <= MaxFetches
           /\ 1 .. created \subseteq Fetches /\ 1 .. created \subseteq 1 .. (created + 1)
           /\ \A f \in Fetches : f \in Nat /\ f # 0 /\ (f \in 1 .. created <=> f <= created)
           /\ fetchers \subseteq Fetches /\ dfetches \subseteq Fetches
           /\ removed \subseteq Fetches /\ open \subseteq Fetches
           /\ adding # 0 => adding \in 1 .. created
           /\ removing # 0 => removing \in 1 .. created
           /\ running # 0 => running \in 1 .. created
           /\ value \in 0 .. MaxChanges
  <1>1. created \in Nat /\ created <= MaxFetches
    BY ConstantTypes DEF TypeOK
  <1>2. 1 .. created \subseteq Fetches /\ 1 .. created \subseteq 1 .. (created + 1)
    BY <1>1, ConstantTypes
  <1>3. \A f \in Fetches : f \in Nat /\ f # 0 /\ (f \in 1 .. created <=> f <= created)
    BY <1>1, ConstantTypes
  <1>4. adding \in 0 .. created /\ removing \in 0 .. created /\ running \in 0 .. created
    BY DEF TypeOK
  <1>5. /\ adding # 0 => adding \in 1 .. created
        /\ removing # 0 => removing \in 1 .. created
        /\ running # 0 => running \in 1 .. created
    BY <1>1, <1>4
  <1> QED
    BY <1>1, <1>2, <1>3, <1>5 DEF TypeOK

\* A message to the daemon is about a fetch that was created.
LEMMA SentCreated ==
    ASSUME Types, NEW m \in DaemonMsgs, m.fetch <= created
    PROVE  /\ Append(toDaemon, m) \in Seq(DaemonMsgs)
           /\ \A f \in Fetches : f > created => None(Append(toDaemon, m), About(f))
  <1>1. toDaemon \in Seq(DaemonMsgs) /\ m.fetch \in Nat /\ created \in Nat
    BY MsgTypes, Ranges DEF Types
  <1>2. Append(toDaemon, m) \in Seq(DaemonMsgs)
    BY <1>1, Appended
  <1>3. ASSUME NEW f \in Fetches, f > created PROVE None(Append(toDaemon, m), About(f))
    <2>1. m \notin About(f)
      <3>1. m.fetch # f
        BY <1>1, <1>3, ConstantTypes
      <3> QED
        BY <3>1 DEF About
    <2>2. None(toDaemon, About(f))
      BY <1>3 DEF Types
    <2> QED
      BY <1>1, <2>1, <2>2, Sends
  <1> QED
    BY <1>2, <1>3

\* So is the message the daemon takes.
LEMMA TakenCreated ==
    ASSUME Types, toDaemon # <<>>
    PROVE  /\ Tail(toDaemon) \in Seq(DaemonMsgs) /\ Head(toDaemon) \in DaemonMsgs
           /\ Head(toDaemon).fetch \in 1 .. created
           /\ \A f \in Fetches : f > created => None(Tail(toDaemon), About(f))
  <1>1. toDaemon \in Seq(DaemonMsgs)
    BY DEF Types
  <1>2. Tail(toDaemon) \in Seq(DaemonMsgs) /\ Head(toDaemon) \in DaemonMsgs
    BY <1>1, HeadTaken
  <1>3. ASSUME NEW f \in Fetches, f > created
        PROVE  None(Tail(toDaemon), About(f)) /\ Head(toDaemon) \notin About(f)
    <2>1. None(toDaemon, About(f))
      BY <1>3 DEF Types
    <2> QED
      BY <1>1, <2>1, Takes
  <1>4. Head(toDaemon).fetch \in Fetches /\ ~(Head(toDaemon).fetch > created)
    <2>1. Head(toDaemon).fetch \in Fetches
      BY <1>2, MsgTypes
    <2>2. Head(toDaemon) \in About(Head(toDaemon).fetch)
      BY <1>2 DEF About
    <2> QED
      BY <1>3, <2>1, <2>2
  <1>5. Head(toDaemon).fetch \in 1 .. created
    <2>1. TypeOK
      BY DEF Types
    <2> QED
      BY <1>4, <2>1, Ranges
  <1> QED
    BY <1>2, <1>3, <1>5

\* The application's operations.
LEMMA ApplicationTypes ==
    ASSUME Types, Application
    PROVE  Types'
  <1>t. TypeOK /\ toDaemon \in Seq(DaemonMsgs) /\ toPeer \in Seq(PeerMsgs)
    BY DEF Types
  <1>r. /\ created \in Nat /\ created <= MaxFetches /\ MaxFetches \in Nat
        /\ 1 .. created \subseteq Fetches /\ 1 .. created \subseteq 1 .. (created + 1)
        /\ fetchers \subseteq Fetches
        /\ adding # 0 => adding \in 1 .. created
        /\ removing # 0 => removing \in 1 .. created
    BY <1>t, Ranges, ConstantTypes
  <1>1. ASSUME AddRegister PROVE Types'
    <2>1. /\ created' = created + 1 /\ created < MaxFetches
          /\ fetchers' = fetchers \cup {created + 1} /\ adding' = created + 1
          /\ telling' \subseteq telling \cup {created + 1}
          /\ UNCHANGED <<removing, resuming, open, failed, dropped, removed, running, news, view,
                         conn, stopping, losses, toDaemon, toPeer, dfetches, value>>
      BY <1>1 DEF AddRegister, requests, callback, link, daemon
    <2>2. created + 1 \in 1 .. (created + 1) /\ created + 1 \in 0 .. MaxFetches
      BY <1>r, <2>1
    <2>3. 0 .. created \subseteq 0 .. (created + 1) /\ created + 1 \in 0 .. (created + 1)
      BY <1>r
    <2>4. TypeOK'
      BY <1>t, <1>r, <2>1, <2>2, <2>3 DEF TypeOK
    <2>5. ASSUME NEW f \in Fetches, f > created' PROVE None(toDaemon', About(f))
      <3>1. f > created
        BY <1>r, <2>1, <2>5, ConstantTypes
      <3> QED
        BY <2>1, <3>1 DEF Types
    <2> QED
      BY <1>t, <2>1, <2>4, <2>5 DEF Types
  <1>2. ASSUME NEW cb \in FetchCallback, AddSend(cb) PROVE Types'
    <2> DEFINE m == Msg("fetch", adding, IF cb THEN Yes ELSE No)
    <2>1. /\ adding # 0 /\ adding' = 0
          /\ open' = IF cb THEN open \cup {adding} ELSE open
          /\ failed' = IF cb /\ ~conn THEN failed \cup {adding} ELSE failed
          /\ toDaemon' = toDaemon \/ toDaemon' = Append(toDaemon, m)
          /\ UNCHANGED <<created, removing, resuming, fetchers, removed, dropped, running, news,
                         view, conn, stopping, telling, losses, toPeer, dfetches, value>>
      BY <1>2 DEF AddSend, callback, link, daemon
    <2>2. m \in DaemonMsgs /\ m.fetch <= created
      BY <1>r, <2>1, MsgFields
    <2> HIDE DEF m
    <2>3. adding \in 1 .. created /\ 0 \in 0 .. created
      BY <1>r, <2>1
    <2>4. open' \subseteq 1 .. created /\ failed' \subseteq open'
      BY <1>t, <2>1, <2>3 DEF TypeOK
    <2>5. TypeOK'
      BY <1>t, <2>1, <2>3, <2>4 DEF TypeOK
    <2>6. /\ Append(toDaemon, m) \in Seq(DaemonMsgs)
          /\ \A f \in Fetches : f > created => None(Append(toDaemon, m), About(f))
      BY <2>2, SentCreated
    <2> QED
      BY <1>t, <2>1, <2>5, <2>6 DEF Types
  <1>3. ASSUME NEW f \in Fetches, RemoveUnregister(f) PROVE Types'
    <2>1. /\ f <= created /\ fetchers' = fetchers \ {f} /\ removed' = removed \cup {f} /\ removing' = f
          /\ UNCHANGED <<created, adding, resuming, open, failed, dropped, running, news, view,
                         conn, stopping, telling, losses, toDaemon, toPeer, dfetches, value>>
      BY <1>3 DEF RemoveUnregister, requests, callback, link, daemon
    <2>2. f \in 1 .. created /\ f \in 0 .. created
      <3>1. f \in 1 .. created
        BY <1>t, <2>1, Ranges
      <3> QED
        BY <1>r, <3>1
    <2>3. TypeOK'
      BY <1>t, <2>1, <2>2 DEF TypeOK
    <2> QED
      BY <1>t, <2>1, <2>3 DEF Types
  <1>4. ASSUME RemoveSend PROVE Types'
    <2> DEFINE m == Msg("unfetch", removing, No)
    <2>1. /\ removing # 0 /\ removing' = 0
          /\ toDaemon' = toDaemon \/ toDaemon' = Append(toDaemon, m)
          /\ UNCHANGED <<created, adding, resuming, removed, fetchers, open, failed, dropped,
                         running, news, view, conn, stopping, telling, losses, toPeer, dfetches, value>>
      BY <1>4 DEF RemoveSend, requests, callback, link, daemon
    <2>2. m \in DaemonMsgs /\ m.fetch <= created
      BY <1>r, <2>1, MsgFields
    <2> HIDE DEF m
    <2>3. 0 \in 0 .. created
      BY <1>r
    <2>4. TypeOK'
      BY <1>t, <2>1, <2>3 DEF TypeOK
    <2>5. /\ Append(toDaemon, m) \in Seq(DaemonMsgs)
          /\ \A e \in Fetches : e > created => None(Append(toDaemon, m), About(e))
      BY <2>2, SentCreated
    <2> QED
      BY <1>t, <2>1, <2>4, <2>5 DEF Types
  <1>5. ASSUME Resume PROVE Types'
    <2>1. /\ conn' = TRUE /\ resuming' = TRUE
          /\ UNCHANGED <<created, adding, removing, removed, fetchers, open, failed, dropped,
                         running, news, view, stopping, telling, losses, toDaemon, toPeer, dfetches,
                         value>>
      BY <1>5 DEF Resume, requests, callback, daemon
    <2>2. TypeOK'
      BY <1>t, <2>1 DEF TypeOK
    <2> QED
      BY <1>t, <2>1, <2>2 DEF Types
  <1>6. ASSUME StartRestores PROVE Types'
    <2>1. /\ resuming' = FALSE
          /\ toDaemon' = toDaemon \/ toDaemon' = toDaemon \o Restore(fetchers)
          /\ UNCHANGED <<created, adding, removing, removed, fetchers, open, failed, dropped,
                         running, news, view, conn, stopping, telling, losses, toPeer, dfetches, value>>
      BY <1>6 DEF StartRestores, requests, callback, link, daemon
    <2>2. /\ Restore(fetchers) \in Seq(DaemonMsgs)
          /\ \A f \in Fetches \ fetchers : None(Restore(fetchers), About(f))
      BY <1>r, Restored
    <2>3. TypeOK'
      BY <1>t, <2>1 DEF TypeOK
    <2>4. toDaemon' \in Seq(DaemonMsgs)
      BY <1>t, <2>1, <2>2, Joined
    <2>5. ASSUME NEW f \in Fetches, f > created PROVE None(toDaemon', About(f))
      <3>1. f \notin fetchers
        BY <1>t, <1>r, <2>5, ConstantTypes DEF TypeOK
      <3>2. None(toDaemon, About(f)) /\ None(Restore(fetchers), About(f))
        BY <2>2, <2>5, <3>1 DEF Types
      <3>3. None(toDaemon \o Restore(fetchers), About(f))
        BY <1>t, <2>2, <3>2, Joins
      <3> QED
        BY <2>1, <3>2, <3>3
    <2> QED
      BY <1>t, <2>1, <2>3, <2>4, <2>5 DEF Types
  <1> QED
    BY <1>1, <1>2, <1>3, <1>4, <1>5, <1>6 DEF Application

\* The peer takes a message.
LEMMA PeerTakes ==
    ASSUME Types, toPeer # <<>>
    PROVE  /\ Tail(toPeer) \in Seq(PeerMsgs) /\ Head(toPeer) \in PeerMsgs
           /\ Head(toPeer).fetch \in Fetches
           /\ Head(toPeer).type = "notify" => Head(toPeer).v \in 0 .. MaxChanges
           /\ Head(toPeer).type = "result" => Head(toPeer).v \in {Yes, No}
  <1>1. toPeer \in Seq(PeerMsgs)
    BY DEF Types
  <1>2. Tail(toPeer) \in Seq(PeerMsgs) /\ Head(toPeer) \in PeerMsgs
    BY <1>1, HeadTaken
  <1> QED
    BY <1>2, MsgTypes

\* The callbacks of open requests fs.
LEMMA ResultTypes ==
    ASSUME Types, NEW fs \in SUBSET open, NEW ok \in BOOLEAN, AddResult(fs, ok),
           failed' \subseteq failed \ fs, stopping' \in {"no", "fetchers", "requests"},
           toPeer' \in Seq(PeerMsgs),
           UNCHANGED <<created, adding, removing, resuming, removed, running, news, view, conn,
                       telling, losses, toDaemon, dfetches, value>>
    PROVE  Types'
  <1>1. /\ open' = open \ fs /\ fetchers' \subseteq fetchers
        /\ dropped' \subseteq dropped \cup fs
    BY DEF AddResult
  <1>2. TypeOK'
    BY <1>1 DEF Types, TypeOK
  <1> QED
    BY <1>2 DEF Types

\* The event loop.
LEMMA EventLoopTypes ==
    ASSUME Types, EventLoop
    PROVE  Types'
  <1>t. /\ TypeOK /\ toDaemon \in Seq(DaemonMsgs) /\ toPeer \in Seq(PeerMsgs)
        /\ \A f \in Fetches : f > created => None(toDaemon, About(f))
    BY DEF Types
  <1>r. /\ created \in Nat /\ MaxChanges \in Nat
        /\ 1 .. created \subseteq Fetches
        /\ running # 0 => running \in 1 .. created
        /\ 0 \in 0 .. created /\ 1 .. created \subseteq 0 .. created
    <2>1. /\ created \in Nat /\ MaxChanges \in Nat
          /\ 1 .. created \subseteq Fetches
          /\ running # 0 => running \in 1 .. created
      BY <1>t, Ranges, ConstantTypes
    <2> QED
      BY <2>1
  <1>1. ASSUME HandleResult PROVE Types'
    <2> DEFINE e == Head(toPeer).fetch
    <2> DEFINE ok == Head(toPeer).v = Yes
    <2>1. /\ toPeer # <<>> /\ toPeer' = Tail(toPeer)
          /\ AddResult({e} \cap open, ok) /\ failed' = failed \ {e}
          /\ UNCHANGED <<created, adding, removing, resuming, removed, running, news, view, conn,
                         stopping, telling, losses, toDaemon, dfetches, value>>
      BY <1>1 DEF HandleResult, Receiving, app, callback, link, daemon
    <2>2. Tail(toPeer) \in Seq(PeerMsgs)
      BY <2>1, PeerTakes
    <2>3. ok \in BOOLEAN /\ failed' \subseteq failed \ ({e} \cap open) /\ stopping' = stopping
      BY <2>1
    <2> HIDE DEF e, ok
    <2> QED
      BY <1>t, <2>1, <2>2, <2>3, ResultTypes DEF TypeOK
  <1>2. ASSUME NEW f \in Fetches, NEW g \in 0 .. MaxFetches, HandleFailed(f, g) PROVE Types'
    <2>1. /\ AddResult({g} \cap open, FALSE) /\ failed' = failed \ {f, g}
          /\ UNCHANGED <<created, adding, removing, resuming, removed, running, news, view, conn,
                         stopping, telling, losses, toDaemon, toPeer, dfetches, value>>
      BY <1>2 DEF HandleFailed, app, callback, link, daemon
    <2> QED
      BY <1>t, <2>1, ResultTypes DEF TypeOK
  <1>3. ASSUME NotificationBegins PROVE Types'
    <2> DEFINE m == Head(toPeer)
    <2>1. /\ toPeer # <<>> /\ m.type = "notify" /\ toPeer' = Tail(toPeer)
          /\ running' = IF m.fetch \in fetchers THEN m.fetch ELSE 0
          /\ news' = IF m.fetch \in fetchers THEN m.v ELSE news
          /\ UNCHANGED <<created, adding, removing, resuming, removed, fetchers, open, failed,
                         dropped, view, conn, stopping, telling, losses, toDaemon, dfetches, value>>
      BY <1>3 DEF NotificationBegins, Receiving, app, requests, link, daemon
    <2>2. Tail(toPeer) \in Seq(PeerMsgs) /\ m.v \in 0 .. MaxChanges
      BY <2>1, PeerTakes
    <2>3. running' \in 0 .. created /\ news' \in 0 .. MaxChanges
      BY <1>t, <1>r, <2>1, <2>2 DEF TypeOK
    <2>4. TypeOK'
      BY <1>t, <2>1, <2>3 DEF TypeOK
    <2> QED
      BY <1>t, <2>1, <2>2, <2>4 DEF Types
  <1>4. ASSUME NEW b \in BOOLEAN, NotificationEnds(b) PROVE Types'
    <2> DEFINE m == Msg("unfetch", running, No)
    <2>1. /\ running # 0 /\ running' = 0 /\ view' = [view EXCEPT ![running] = news]
          /\ fetchers' \subseteq fetchers
          /\ removed' = removed \/ removed' = removed \cup {running}
          /\ toDaemon' = toDaemon \/ toDaemon' = Append(toDaemon, m)
          /\ UNCHANGED <<created, adding, removing, resuming, open, failed, dropped, news, conn,
                         stopping, telling, losses, toPeer, dfetches, value>>
      BY <1>4 DEF NotificationEnds, requests, link, daemon
    <2>2. running \in 1 .. created /\ running \in Fetches /\ running <= created
      BY <1>r, <2>1
    <2>3. m \in DaemonMsgs /\ m.fetch <= created
      BY <2>2, MsgFields
    <2> HIDE DEF m
    <2>4. news \in Unknown .. MaxChanges
      BY <1>t, <1>r DEF TypeOK, Unknown
    <2>5. view' \in [Fetches -> Unknown .. MaxChanges]
      BY <1>t, <2>1, <2>2, <2>4 DEF TypeOK
    <2>6. TypeOK'
      BY <1>t, <1>r, <2>1, <2>2, <2>5 DEF TypeOK
    <2>7. /\ Append(toDaemon, m) \in Seq(DaemonMsgs)
          /\ \A f \in Fetches : f > created => None(Append(toDaemon, m), About(f))
      BY <2>3, SentCreated
    <2> QED
      BY <1>t, <2>1, <2>6, <2>7 DEF Types
  <1>5. ASSUME NEW f \in Fetches, StopNotifies(f) PROVE Types'
    <2>1. /\ f \in fetchers /\ telling' = telling \ {f} /\ view' = [view EXCEPT ![f] = Lost]
          /\ UNCHANGED <<created, adding, removing, resuming, removed, fetchers, open, failed,
                         dropped, running, news, conn, stopping, losses, toDaemon, toPeer,
                         dfetches, value>>
      BY <1>5 DEF StopNotifies, app, requests, daemon
    <2>2. Lost \in Unknown .. MaxChanges
      BY <1>r DEF Lost, Unknown
    <2>3. view' \in [Fetches -> Unknown .. MaxChanges]
      BY <1>t, <2>1, <2>2 DEF TypeOK
    <2>4. telling' \subseteq 1 .. created
      BY <1>t, <1>r, <2>1 DEF TypeOK
    <2>5. TypeOK'
      BY <1>t, <2>1, <2>3, <2>4 DEF TypeOK
    <2> QED
      BY <1>t, <2>1, <2>5 DEF Types
  <1>6. ASSUME StopHasNotified PROVE Types'
    <2>1. /\ stopping' = "requests" /\ telling' = {}
          /\ UNCHANGED <<created, adding, removing, resuming, removed, fetchers, open, failed,
                         dropped, running, news, view, conn, losses, toDaemon, toPeer, dfetches,
                         value>>
      BY <1>6 DEF StopHasNotified, app, requests, callback, daemon
    <2>2. TypeOK'
      BY <1>t, <1>r, <2>1 DEF TypeOK
    <2> QED
      BY <1>t, <2>1, <2>2 DEF Types
  <1>7. ASSUME StopCancels PROVE Types'
    <2>1. /\ stopping' = "no" /\ AddResult(open, FALSE) /\ failed' = {}
          /\ UNCHANGED <<created, adding, removing, resuming, removed, running, news, view, conn,
                         telling, losses, toDaemon, toPeer, dfetches, value>>
      BY <1>7 DEF StopCancels, Clear, app, callback, daemon
    <2> QED
      BY <1>t, <2>1, ResultTypes
  <1> QED
    BY <1>1, <1>2, <1>3, <1>4, <1>5, <1>6, <1>7 DEF EventLoop

\* What the daemon sends when it handles a fetch request.
Answer(m, ok) ==
    (IF ok THEN <<Msg("notify", m.fetch, value)>> ELSE <<>>)
    \o (IF m.v = Yes THEN <<Msg("result", m.fetch, IF ok THEN Yes ELSE No)>> ELSE <<>>)

\* It is at most a notification and a result.
LEMMA Answers ==
    ASSUME NEW m \in DaemonMsgs, value \in 0 .. MaxChanges, NEW ok \in BOOLEAN
    PROVE  /\ Answer(m, ok) \in Seq(PeerMsgs)
           /\ toPeer \in Seq(PeerMsgs) =>
                toPeer \o (IF ok THEN <<Msg("notify", m.fetch, value)>> ELSE <<>>)
                       \o (IF m.v = Yes THEN <<Msg("result", m.fetch, IF ok THEN Yes ELSE No)>> ELSE <<>>)
                = toPeer \o Answer(m, ok)
           /\ ok => LastOf(Answer(m, ok), NewsOf(m.fetch), NewsWith(m.fetch, value))
           /\ \A f : f # m.fetch \/ ~ok => None(Answer(m, ok), NewsOf(f))
  <1> DEFINE n == Msg("notify", m.fetch, value)
  <1> DEFINE r == Msg("result", m.fetch, IF ok THEN Yes ELSE No)
  <1> DEFINE a == IF ok THEN <<n>> ELSE <<>>
  <1> DEFINE b == IF m.v = Yes THEN <<r>> ELSE <<>>
  <1>1. n \in PeerMsgs /\ n.type = "notify" /\ n.fetch = m.fetch /\ n.v = value
    BY MsgFields, MsgTypes
  <1>2. r \in PeerMsgs /\ r.type = "result" /\ r.fetch = m.fetch
    BY MsgFields, MsgTypes
  <1>3. Answer(m, ok) = a \o b
    BY DEF Answer
  <1> HIDE DEF n, r
  <1>4. a \in Seq(PeerMsgs) /\ b \in Seq(PeerMsgs)
    BY <1>1, <1>2
  <1>5. /\ \A k \in 1 .. Len(a) : a[k] = n
        /\ \A k \in 1 .. Len(b) : b[k] = r
        /\ ok => 1 \in 1 .. Len(a) /\ \A k \in (1 + 1) .. Len(a) : FALSE
        /\ ~ok => \A k \in 1 .. Len(a) : FALSE
    <2>1. /\ a = <<n>> \/ (~ok /\ a = <<>>)
          /\ b = <<r>> \/ b = <<>>
      OBVIOUS
    <2>2. /\ \A k \in 1 .. 1 : k = 1
          /\ \A x : Len(<<x>>) = 1 /\ <<x>>[1] = x
      OBVIOUS
    <2> HIDE DEF a, b
    <2>3. \A k \in 1 .. Len(b) : b[k] = r
      BY <2>1, <2>2
    <2>4. \A k \in 1 .. Len(a) : a[k] = n
      BY <2>1, <2>2
    <2>5. ASSUME ok PROVE 1 \in 1 .. Len(a) /\ \A k \in (1 + 1) .. Len(a) : FALSE
      <3>1. Len(a) = 1
        BY <2>1, <2>2, <2>5
      <3> QED
        BY <3>1
    <2>6. ASSUME ~ok PROVE \A k \in 1 .. Len(a) : FALSE
      BY <2>6 DEF a
    <2> QED
      BY <2>3, <2>4, <2>5, <2>6
  <1>7. /\ n \in NewsWith(m.fetch, value)
        /\ \A f : f # m.fetch => n \notin NewsOf(f)
        /\ \A f : r \notin NewsOf(f)
    BY <1>1, <1>2 DEF NewsOf, NewsWith
  <1> HIDE DEF a, b
  <1>6. toPeer \in Seq(PeerMsgs) => (toPeer \o a) \o b = toPeer \o (a \o b)
    BY <1>4, ConcatAssociative
  <1>9. ASSUME ok PROVE LastOf(a \o b, NewsOf(m.fetch), NewsWith(m.fetch, value))
    <2>1. LastOf(a, NewsOf(m.fetch), NewsWith(m.fetch, value)) /\ None(b, NewsOf(m.fetch))
      BY <1>5, <1>7, <1>9 DEF None, LastOf
    <2> QED
      BY <1>4, <2>1, PutAtEnd
  <1>10. ASSUME NEW f, f # m.fetch \/ ~ok PROVE None(a \o b, NewsOf(f))
    <2>1. None(a, NewsOf(f)) /\ None(b, NewsOf(f))
      BY <1>5, <1>7, <1>10 DEF None
    <2> QED
      BY <1>4, <2>1, Joins
  <1>11. a \o b \in Seq(PeerMsgs)
    BY <1>4, Joined
  <1> QED
    BY <1>3, <1>6, <1>9, <1>10, <1>11 DEF a, b, n, r

\* The daemon, its other clients, the connection and the other peers of the process.
LEMMA DaemonTypes ==
    ASSUME Types, OtherPeerStops \/ ConnectionLost \/ Daemon \/ StateChanges
    PROVE  Types'
  <1>t. /\ TypeOK /\ toDaemon \in Seq(DaemonMsgs) /\ toPeer \in Seq(PeerMsgs)
        /\ \A f \in Fetches : f > created => None(toDaemon, About(f))
    BY DEF Types
  <1>r. /\ MaxChanges \in Nat /\ MaxLosses \in Nat /\ dfetches \subseteq Fetches
        /\ value \in 0 .. MaxChanges
    BY <1>t, Ranges, ConstantTypes
  <1>1. ASSUME ConnectionLost PROVE Types'
    <2>1. /\ losses < MaxLosses /\ losses' = losses + 1 /\ conn' = FALSE /\ stopping' = "fetchers"
          /\ toDaemon' = <<>> /\ toPeer' = <<>> /\ dfetches' = {}
          /\ dropped' = {} /\ telling' = fetchers
          /\ UNCHANGED <<created, adding, removing, resuming, removed, fetchers, open, failed,
                         running, news, view, value>>
      BY <1>1 DEF ConnectionLost, app, callback
    <2>2. losses' \in 0 .. MaxLosses
      BY <1>t, <1>r, <2>1 DEF TypeOK
    <2>3. TypeOK'
      BY <1>t, <2>1, <2>2 DEF TypeOK
    <2>4. \A A : None(toDaemon', A)
      BY <2>1, EmptyQueue
    <2> QED
      BY <2>1, <2>3, <2>4, EmptySeq DEF Types
  <1>2. ASSUME DaemonFetches PROVE Types'
    <2> DEFINE m == Head(toDaemon)
    <2> DEFINE ok == m.fetch \notin dfetches
    <2>1. /\ toDaemon # <<>> /\ dfetches' = dfetches \cup {m.fetch} /\ toDaemon' = Tail(toDaemon)
          /\ toPeer' = toPeer \o (IF ok THEN <<Msg("notify", m.fetch, value)>> ELSE <<>>)
                              \o (IF m.v = Yes
                                  THEN <<Msg("result", m.fetch, IF ok THEN Yes ELSE No)>> ELSE <<>>)
          /\ UNCHANGED <<created, adding, removing, resuming, removed, fetchers, open, failed,
                         dropped, running, news, view, conn, stopping, telling, losses, value>>
      BY <1>2 DEF DaemonFetches, app, requests, callback, link
    <2>2. /\ Tail(toDaemon) \in Seq(DaemonMsgs) /\ m \in DaemonMsgs /\ m.fetch \in 1 .. created
          /\ \A f \in Fetches : f > created => None(Tail(toDaemon), About(f))
      BY <2>1, TakenCreated
    <2>3. ok \in BOOLEAN
      OBVIOUS
    <2> HIDE DEF m, ok
    <2>4. toPeer' = toPeer \o Answer(m, ok) /\ Answer(m, ok) \in Seq(PeerMsgs)
      BY <1>t, <1>r, <2>1, <2>2, <2>3, Answers
    <2>5. toPeer' \in Seq(PeerMsgs)
      BY <1>t, <2>4, Joined
    <2>6. TypeOK'
      BY <1>t, <2>1, <2>2 DEF TypeOK
    <2> QED
      BY <2>1, <2>2, <2>5, <2>6 DEF Types
  <1>3. ASSUME DaemonUnfetches PROVE Types'
    <2>1. /\ toDaemon # <<>> /\ dfetches' \subseteq dfetches /\ toDaemon' = Tail(toDaemon)
          /\ UNCHANGED <<created, adding, removing, resuming, removed, fetchers, open, failed,
                         dropped, running, news, view, conn, stopping, telling, losses, toPeer, value>>
      BY <1>3 DEF DaemonUnfetches, app, requests, callback, link
    <2>2. /\ Tail(toDaemon) \in Seq(DaemonMsgs)
          /\ \A f \in Fetches : f > created => None(Tail(toDaemon), About(f))
      BY <2>1, TakenCreated
    <2>3. TypeOK'
      BY <1>t, <2>1 DEF TypeOK
    <2> QED
      BY <1>t, <2>1, <2>2, <2>3 DEF Types
  <1>4. ASSUME StateChanges PROVE Types'
    <2> DEFINE ms == Notices(dfetches, value + 1)
    <2>1. /\ value < MaxChanges /\ value' = value + 1 /\ toPeer' = toPeer \o ms
          /\ UNCHANGED <<created, adding, removing, resuming, removed, fetchers, open, failed,
                         dropped, running, news, view, conn, stopping, telling, losses, toDaemon,
                         dfetches>>
      BY <1>4 DEF StateChanges, Notices, app, requests, callback, link
    <2>2. value + 1 \in 0 .. MaxChanges
      BY <1>r, <2>1
    <2>3. ms \in Seq(PeerMsgs)
      BY <1>r, <2>2, Notified
    <2> HIDE DEF ms
    <2>4. toPeer' \in Seq(PeerMsgs)
      BY <1>t, <2>1, <2>3, Joined
    <2>5. TypeOK'
      BY <1>t, <2>1, <2>2 DEF TypeOK
    <2> QED
      BY <1>t, <2>1, <2>4, <2>5 DEF Types
  <1>5. ASSUME OtherPeerStops PROVE Types'
    <2>1. /\ AddResult(open, FALSE) /\ failed' = {}
          /\ UNCHANGED <<created, adding, removing, resuming, removed, running, news, view, conn,
                         stopping, telling, losses, toDaemon, toPeer, dfetches, value>>
      BY <1>5 DEF OtherPeerStops, Clear, app, callback, link, daemon
    <2> QED
      BY <1>t, <2>1, ResultTypes DEF TypeOK
  <1> QED
    BY <1>1, <1>2, <1>3, <1>4, <1>5 DEF Daemon

-----------------------------------------------------------------------------
(* Fetches a step is not about *)

\* Nothing about f is in a queue: neither requests nor what ends it.
LEMMA NoneAbout ==
    ASSUME NEW q \in Seq(DaemonMsgs), NEW f
    PROVE  None(q, About(f)) <=> None(q, FetchesOf(f)) /\ None(q, UnfetchesOf(f))
  <1>1. \A k \in 1 .. Len(q) : q[k] \in DaemonMsgs
    BY Elements
  <1>2. \A k \in 1 .. Len(q) : q[k] \in About(f) <=> q[k] \in FetchesOf(f) \/ q[k] \in UnfetchesOf(f)
    BY <1>1, MsgTypes DEF About, FetchesOf, UnfetchesOf
  <1> QED
    BY <1>2 DEF None

\* Queue q to the daemon becomes t when messages about other fetches come or go.
MovesElse(q, t, f) ==
    \/ t = q
    \/ \E ms \in Seq(DaemonMsgs) : None(ms, About(f)) /\ t = q \o ms
    \/ q # <<>> /\ Head(q).fetch # f /\ t = Tail(q)

\* What it holds about f stays.
LEMMA QueueKept ==
    ASSUME NEW q \in Seq(DaemonMsgs), NEW t, NEW f, MovesElse(q, t, f)
    PROVE  /\ None(q, About(f)) => None(t, About(f))
           /\ None(q, FetchesOf(f)) <=> None(t, FetchesOf(f))
           /\ None(q, UnfetchesOf(f)) => None(t, UnfetchesOf(f))
           /\ LastOf(q, About(f), UnfetchesOf(f)) => LastOf(t, About(f), UnfetchesOf(f))
  <1>1. CASE t = q
    BY <1>1
  <1>2. ASSUME NEW ms \in Seq(DaemonMsgs), None(ms, About(f)), t = q \o ms
        PROVE  /\ None(q, About(f)) => None(t, About(f))
               /\ None(q, FetchesOf(f)) <=> None(t, FetchesOf(f))
               /\ None(q, UnfetchesOf(f)) => None(t, UnfetchesOf(f))
               /\ LastOf(q, About(f), UnfetchesOf(f)) => LastOf(t, About(f), UnfetchesOf(f))
    <2>1. None(ms, FetchesOf(f)) /\ None(ms, UnfetchesOf(f))
      BY <1>2, NoneAbout
    <2>2. None(q \o ms, FetchesOf(f)) <=> None(q, FetchesOf(f)) /\ None(ms, FetchesOf(f))
      BY Joins
    <2>3. None(q \o ms, UnfetchesOf(f)) <=> None(q, UnfetchesOf(f)) /\ None(ms, UnfetchesOf(f))
      BY Joins
    <2>4. /\ None(q \o ms, About(f)) <=> None(q, About(f)) /\ None(ms, About(f))
          /\ LastOf(q, About(f), UnfetchesOf(f)) => LastOf(q \o ms, About(f), UnfetchesOf(f))
      BY <1>2, PutAtEnd
    <2> QED
      BY <1>2, <2>1, <2>2, <2>3, <2>4
  <1>3. ASSUME q # <<>>, Head(q).fetch # f, t = Tail(q)
        PROVE  /\ None(q, About(f)) => None(t, About(f))
               /\ None(q, FetchesOf(f)) <=> None(t, FetchesOf(f))
               /\ None(q, UnfetchesOf(f)) => None(t, UnfetchesOf(f))
               /\ LastOf(q, About(f), UnfetchesOf(f)) => LastOf(t, About(f), UnfetchesOf(f))
    <2>1. Head(q) \notin FetchesOf(f) /\ Head(q) \notin UnfetchesOf(f)
      BY <1>3 DEF FetchesOf, UnfetchesOf
    <2>2. None(q, FetchesOf(f)) <=> None(Tail(q), FetchesOf(f)) /\ Head(q) \notin FetchesOf(f)
      BY <1>3, Takes
    <2>3. None(q, UnfetchesOf(f)) => None(Tail(q), UnfetchesOf(f))
      BY <1>3, Takes
    <2>4. /\ None(q, About(f)) => None(Tail(q), About(f))
          /\ LastOf(q, About(f), UnfetchesOf(f)) => LastOf(Tail(q), About(f), UnfetchesOf(f))
      BY <1>3, <2>1, TakenOut
    <2> QED
      BY <1>3, <2>1, <2>2, <2>3, <2>4
  <1> QED
    BY <1>1, <1>2, <1>3 DEF MovesElse

\* A message about another fetch is sent.
LEMMA SentElse ==
    ASSUME NEW q \in Seq(DaemonMsgs), NEW m \in DaemonMsgs, NEW f, m.fetch # f
    PROVE  MovesElse(q, Append(q, m), f)
  <1> DEFINE ms == <<m>>
  <1>1. ms \in Seq(DaemonMsgs) /\ Len(ms) = 1 /\ ms[1] = m
    OBVIOUS
  <1>2. Append(q, m) = q \o ms
    BY AppendIsConcat
  <1> HIDE DEF ms
  <1>3. None(ms, About(f))
    <2>1. \A k \in 1 .. Len(ms) : k = 1
      BY <1>1
    <2> QED
      BY <1>1, <2>1 DEF None, About
  <1> QED
    BY <1>1, <1>2, <1>3 DEF MovesElse

\* A step that is not about f leaves peer and daemon agreed about it.
LEMMA AgreedKept ==
    ASSUME Types, NEW f, Agreed(f), MovesElse(toDaemon, toDaemon', f),
           f \in dfetches' <=> f \in dfetches, f \in fetchers' <=> f \in fetchers,
           f = adding => f = adding', f = removing => f = removing',
           f \in dropped => f \in dropped',
           f \in fetchers /\ conn' /\ ~resuming' => conn /\ ~resuming
    PROVE  Agreed(f)'
  <1>1. toDaemon \in Seq(DaemonMsgs)
    BY DEF Types
  <1>2. /\ None(toDaemon, About(f)) => None(toDaemon', About(f))
        /\ None(toDaemon, FetchesOf(f)) <=> None(toDaemon', FetchesOf(f))
        /\ None(toDaemon, UnfetchesOf(f)) => None(toDaemon', UnfetchesOf(f))
        /\ LastOf(toDaemon, About(f), UnfetchesOf(f)) => LastOf(toDaemon', About(f), UnfetchesOf(f))
    BY <1>1, QueueKept
  <1>3. Down(f) => Down(f)'
    BY <1>2 DEF Down
  <1> QED
    BY <1>2, <1>3 DEF Agreed

\* Queue q to the peer becomes t when no news of f come or go.
NoNews(q, t, f) ==
    \/ t = q
    \/ \E ms \in Seq(PeerMsgs) : None(ms, NewsOf(f)) /\ t = q \o ms
    \/ q # <<>> /\ Head(q) \notin NewsOf(f) /\ t = Tail(q)

\* The news of f it holds stay.
LEMMA NewsKept ==
    ASSUME NEW q \in Seq(PeerMsgs), NEW t, NEW f, NoNews(q, t, f), NEW v
    PROVE  /\ None(q, NewsOf(f)) => None(t, NewsOf(f))
           /\ LastOf(q, NewsOf(f), NewsWith(f, v)) => LastOf(t, NewsOf(f), NewsWith(f, v))
  <1>1. CASE t = q
    BY <1>1
  <1>2. ASSUME NEW ms \in Seq(PeerMsgs), None(ms, NewsOf(f)), t = q \o ms
        PROVE  /\ None(q, NewsOf(f)) => None(t, NewsOf(f))
               /\ LastOf(q, NewsOf(f), NewsWith(f, v)) => LastOf(t, NewsOf(f), NewsWith(f, v))
    <2>1. /\ None(q, NewsOf(f)) => None(q \o ms, NewsOf(f))
          /\ LastOf(q, NewsOf(f), NewsWith(f, v)) => LastOf(q \o ms, NewsOf(f), NewsWith(f, v))
      BY <1>2, PutAtEnd
    <2> QED
      BY <1>2, <2>1
  <1>3. ASSUME q # <<>>, Head(q) \notin NewsOf(f), t = Tail(q)
        PROVE  /\ None(q, NewsOf(f)) => None(t, NewsOf(f))
               /\ LastOf(q, NewsOf(f), NewsWith(f, v)) => LastOf(t, NewsOf(f), NewsWith(f, v))
    <2>1. Head(q) \notin NewsWith(f, v)
      BY <1>3 DEF NewsOf, NewsWith
    <2>2. /\ None(q, NewsOf(f)) => None(Tail(q), NewsOf(f))
          /\ LastOf(q, NewsOf(f), NewsWith(f, v)) => LastOf(Tail(q), NewsOf(f), NewsWith(f, v))
      BY <1>3, <2>1, TakenOut
    <2> QED
      BY <1>3, <2>2
  <1> QED
    BY <1>1, <1>2, <1>3 DEF NoNews

\* A step without news of f leaves it as up to date as it is.
LEMMA FreshKept ==
    ASSUME Types, NEW f, Fresh(f), NoNews(toPeer, toPeer', f),
           f \in dfetches' => f \in dfetches, f \in fetchers' => f \in fetchers, value' = value,
           stopping = "no" =>
              /\ stopping' = "no"
              /\ f \in fetchers' => IF running' = f THEN running = f /\ news' = news
                                    ELSE IF running = f THEN view'[f] = news
                                         ELSE view'[f] = view[f]
    PROVE  Fresh(f)'
  <1>1. toPeer \in Seq(PeerMsgs)
    BY DEF Types
  <1>2. /\ None(toPeer, NewsOf(f)) => None(toPeer', NewsOf(f))
        /\ LastOf(toPeer, NewsOf(f), NewsWith(f, value)) => LastOf(toPeer', NewsOf(f), NewsWith(f, value))
    BY <1>1, NewsKept
  <1> QED
    BY <1>2 DEF Fresh

\* What has been sent.
LEMMA SentMessages ==
    ASSUME Types, NEW f
    PROVE  /\ Sent("fetch", f) <=> ~None(toDaemon, FetchesOf(f))
           /\ LastOf(toDaemon, About(f), UnfetchesOf(f)) => Sent("unfetch", f)
  <1>1. toDaemon \in Seq(DaemonMsgs)
    BY DEF Types
  <1>2. DOMAIN toDaemon = 1 .. Len(toDaemon) /\ \A k \in 1 .. Len(toDaemon) : toDaemon[k] \in DaemonMsgs
    BY <1>1, Elements
  <1> QED
    BY <1>2 DEF Sent, None, LastOf, FetchesOf, UnfetchesOf

-----------------------------------------------------------------------------
(* Agreement: the application *)

\* A fetch is registered: the daemon has not heard of it.
LEMMA AddRegisterAgrees ==
    ASSUME Types, Agreement, AddRegister
    PROVE  Agreement'
  <1> DEFINE n == created + 1
  <1>0. /\ running = 0 /\ adding = 0 /\ removing = 0 /\ created < MaxFetches
        /\ created' = n /\ fetchers' = fetchers \cup {n} /\ adding' = n
        /\ UNCHANGED <<removing, resuming, open, dropped, running, news, view, conn, stopping,
                       toDaemon, toPeer, dfetches, value>>
    BY DEF AddRegister, requests, callback, link, daemon
  <1>1. TypeOK /\ created \in Nat /\ fetchers \subseteq 1 .. created /\ dfetches \subseteq 1 .. created
        /\ open \subseteq 1 .. created
    BY Ranges DEF Types, TypeOK
  <1>2. n \in Fetches /\ n # 0 /\ n > created /\ n \notin fetchers /\ n \notin dfetches /\ n \notin open
    BY <1>0, <1>1, ConstantTypes
  <1> HIDE DEF n
  <1>3. Linked'
    BY <1>0, <1>2 DEF Agreement, Linked
  <1>4. ASSUME NEW f \in Fetches PROVE Agreed(f)' /\ Fresh(f)'
    <2>0. Agreed(f) /\ Fresh(f) /\ f # 0
      BY ConstantTypes DEF Agreement
    <2>1. CASE f = n
      <3>1. None(toDaemon, UnfetchesOf(n))
        <4>1. None(toDaemon, About(n)) /\ toDaemon \in Seq(DaemonMsgs)
          BY <1>2 DEF Types
        <4> QED
          BY <4>1, NoneAbout
      <3> QED
        BY <1>0, <1>2, <2>1, <3>1 DEF Agreed, Fresh
    <2>2. CASE f # n
      <3>1. Agreed(f)'
        BY <1>0, <2>0, <2>2, AgreedKept DEF MovesElse
      <3>2. Fresh(f)'
        BY <1>0, <2>0, <2>2, FreshKept DEF NoNews
      <3> QED
        BY <3>1, <3>2
    <2> QED
      BY <2>1, <2>2
  <1> QED
    BY <1>3, <1>4 DEF Agreement

\* The request for it is sent.
LEMMA AddSendAgrees ==
    ASSUME Types, Agreement, NEW cb \in FetchCallback, AddSend(cb)
    PROVE  Agreement'
  <1> DEFINE m == Msg("fetch", adding, IF cb THEN Yes ELSE No)
  <1>0. /\ adding # 0 /\ adding' = 0
        /\ conn => toDaemon' = Append(toDaemon, m)
        /\ ~conn => toDaemon' = toDaemon
        /\ UNCHANGED <<removing, resuming, fetchers, dropped, running, news, view, conn, stopping,
                       toPeer, dfetches, value>>
    BY DEF AddSend, callback, link, daemon
  <1>1. adding \in Fetches /\ toDaemon \in Seq(DaemonMsgs)
    BY <1>0, Ranges DEF Types
  <1>2. m \in DaemonMsgs /\ m.fetch = adding /\ m.type = "fetch"
    BY <1>1, MsgFields
  <1> HIDE DEF m
  <1>3. Linked'
    BY <1>0 DEF Agreement, Linked
  <1>4. ASSUME NEW f \in Fetches PROVE Agreed(f)' /\ Fresh(f)'
    <2>0. Agreed(f) /\ Fresh(f) /\ f # 0
      BY ConstantTypes DEF Agreement
    <2>1. Fresh(f)'
      BY <1>0, <2>0, FreshKept DEF NoNews
    <2>2. CASE f # adding
      <3>1. MovesElse(toDaemon, toDaemon', f)
        <4>1. CASE conn
          BY <1>0, <1>1, <1>2, <2>2, <4>1, SentElse
        <4>2. CASE ~conn
          BY <1>0, <4>2 DEF MovesElse
        <4> QED
          BY <4>1, <4>2
      <3> QED
        BY <1>0, <2>0, <2>1, <2>2, <3>1, AgreedKept
    <2>3. CASE f = adding
      <3>1. f \in fetchers
        BY <1>0, <2>3 DEF Agreement, Linked
      <3>2. None(toDaemon, UnfetchesOf(f))
        BY <2>0, <3>1 DEF Agreed
      <3>3. CASE conn
        <4>1. m \in FetchesOf(f) /\ m \notin UnfetchesOf(f)
          BY <1>2, <2>3 DEF FetchesOf, UnfetchesOf
        <4>2. None(Append(toDaemon, m), UnfetchesOf(f))
          BY <1>1, <1>2, <3>2, <4>1, Sends
        <4>3. ~None(Append(toDaemon, m), FetchesOf(f))
          BY <1>1, <1>2, <4>1, Sends
        <4> QED
          BY <1>0, <2>1, <3>1, <3>3, <4>2, <4>3 DEF Agreed
      <3>4. CASE ~conn
        BY <1>0, <2>1, <3>1, <3>2, <3>4 DEF Agreed
      <3> QED
        BY <3>3, <3>4
    <2> QED
      BY <2>2, <2>3
  <1> QED
    BY <1>3, <1>4 DEF Agreement

\* The end of fetch e, which the peer does not know any more, is sent, if there
\* is a connection.
LEMMA EndSent ==
    ASSUME Types, Agreement, NEW e \in Fetches, NEW f \in Fetches,
           fetchers' = fetchers \ {e},
           toDaemon' = IF conn THEN Append(toDaemon, Msg("unfetch", e, No)) ELSE toDaemon,
           f # e /\ f = removing => f = removing',
           UNCHANGED <<adding, resuming, dropped, conn, dfetches>>
    PROVE  Agreed(f)'
  <1> DEFINE m == Msg("unfetch", e, No)
  <1>0. Agreed(f)
    BY DEF Agreement
  <1>1. m \in DaemonMsgs /\ m.fetch = e /\ m.type = "unfetch" /\ toDaemon \in Seq(DaemonMsgs)
    BY MsgFields DEF Types
  <1>2. (conn => toDaemon' = Append(toDaemon, m)) /\ (~conn => toDaemon' = toDaemon)
    OBVIOUS
  <1> HIDE DEF m
  <1>3. CASE f # e
    <2>1. MovesElse(toDaemon, toDaemon', f)
      <3>1. CASE conn
        BY <1>1, <1>2, <1>3, <3>1, SentElse
      <3>2. CASE ~conn
        BY <1>2, <3>2 DEF MovesElse
      <3> QED
        BY <3>1, <3>2
    <2> QED
      BY <1>0, <1>3, <2>1, AgreedKept
  <1>4. CASE f = e
    <2>1. Down(f)'
      <3>1. CASE conn
        <4>1. m \in UnfetchesOf(f)
          BY <1>1, <1>4 DEF UnfetchesOf
        <4>2. LastOf(Append(toDaemon, m), About(f), UnfetchesOf(f))
          BY <1>1, <4>1, SentLast
        <4> QED
          BY <1>2, <3>1, <4>2 DEF Down
      <3>2. CASE ~conn
        <4>1. toDaemon' = <<>> /\ dfetches' = {}
          BY <1>2, <3>2 DEF Agreement, Linked
        <4>2. None(toDaemon', About(f))
          BY <4>1, EmptyQueue
        <4> QED
          BY <4>1, <4>2 DEF Down
      <3> QED
        BY <3>1, <3>2
    <2>2. f \notin fetchers'
      BY <1>4
    <2> QED
      BY <2>1, <2>2 DEF Agreed
  <1> QED
    BY <1>3, <1>4

\* removeFetchAsync: the fetch is forgotten.
LEMMA RemoveUnregisterAgrees ==
    ASSUME Types, Agreement, NEW e \in Fetches, RemoveUnregister(e)
    PROVE  Agreement'
  <1>0. /\ adding = 0 /\ removing = 0
        /\ fetchers' = fetchers \ {e} /\ removing' = e
        /\ UNCHANGED <<adding, resuming, open, dropped, running, news, view, conn, stopping,
                       toDaemon, toPeer, dfetches, value>>
    BY DEF RemoveUnregister, requests, callback, link, daemon
  <1>1. Linked'
    BY <1>0 DEF Agreement, Linked
  <1>2. ASSUME NEW f \in Fetches PROVE Agreed(f)' /\ Fresh(f)'
    <2>0. Agreed(f) /\ Fresh(f) /\ f # 0
      BY ConstantTypes DEF Agreement
    <2>1. Fresh(f)'
      BY <1>0, <2>0, FreshKept DEF NoNews
    <2>2. CASE f = e
      BY <1>0, <2>1, <2>2 DEF Agreed
    <2>3. CASE f # e
      BY <1>0, <2>0, <2>1, <2>3, AgreedKept DEF MovesElse
    <2> QED
      BY <2>2, <2>3
  <1> QED
    BY <1>1, <1>2 DEF Agreement

\* removeFetchAsync: the daemon is told.
LEMMA RemoveSendAgrees ==
    ASSUME Types, Agreement, RemoveSend
    PROVE  Agreement'
  <1>0. /\ removing # 0 /\ removing' = 0
        /\ toDaemon' = IF conn THEN Append(toDaemon, Msg("unfetch", removing, No)) ELSE toDaemon
        /\ UNCHANGED <<adding, resuming, fetchers, open, dropped, running, news, view, conn,
                       stopping, toPeer, dfetches, value>>
    BY DEF RemoveSend, requests, callback, link, daemon
  <1>1. removing \in Fetches /\ 0 \notin fetchers
    BY <1>0, Ranges DEF Types
  <1>2. fetchers' = fetchers \ {removing}
    BY <1>0 DEF Agreement, Linked
  <1>3. Linked'
    <2>1. ~conn => toDaemon' = toDaemon
      BY <1>0
    <2> QED
      BY <1>0, <1>1, <2>1 DEF Agreement, Linked
  <1>4. ASSUME NEW f \in Fetches PROVE Agreed(f)' /\ Fresh(f)'
    <2>0. Fresh(f)
      BY DEF Agreement
    <2>1. Fresh(f)'
      BY <1>0, <2>0, FreshKept DEF NoNews
    <2>2. Agreed(f)'
      BY <1>0, <1>1, <1>2, EndSent
    <2> QED
      BY <2>1, <2>2
  <1> QED
    BY <1>3, <1>4 DEF Agreement

\* resume(): start() has connected, and is still to restore the fetches.
LEMMA ResumeAgrees ==
    ASSUME Types, Agreement, Resume
    PROVE  Agreement'
  <1>0. /\ conn' = TRUE /\ resuming' = TRUE
        /\ UNCHANGED <<adding, removing, fetchers, open, dropped, running, news, view, stopping,
                       toDaemon, toPeer, dfetches, value>>
    BY DEF Resume, requests, callback, daemon
  <1>1. Linked'
    BY <1>0 DEF Agreement, Linked
  <1>2. ASSUME NEW f \in Fetches PROVE Agreed(f)' /\ Fresh(f)'
    <2>0. Agreed(f) /\ Fresh(f)
      BY DEF Agreement
    <2>1. Agreed(f)'
      BY <1>0, <2>0, AgreedKept DEF MovesElse
    <2>2. Fresh(f)'
      BY <1>0, <2>0, FreshKept DEF NoNews
    <2> QED
      BY <2>1, <2>2
  <1> QED
    BY <1>1, <1>2 DEF Agreement

\* start(): what is known is asked for, perhaps once more.
LEMMA RestoreAgrees ==
    ASSUME Types, Agreement, StartRestores
    PROVE  Agreement'
  <1>0. /\ resuming' = FALSE
        /\ conn => toDaemon' = toDaemon \o Restore(fetchers)
        /\ ~conn => toDaemon' = toDaemon
        /\ UNCHANGED <<adding, removing, fetchers, open, dropped, running, news, view, conn,
                       stopping, toPeer, dfetches, value>>
    BY DEF StartRestores, requests, callback, link, daemon
  <1>1. /\ Restore(fetchers) \in Seq(DaemonMsgs) /\ toDaemon \in Seq(DaemonMsgs)
        /\ \A f \in fetchers : ~None(Restore(fetchers), FetchesOf(f))
                               /\ None(Restore(fetchers), UnfetchesOf(f))
        /\ \A f \in Fetches \ fetchers : None(Restore(fetchers), About(f))
    <2>1. fetchers \subseteq Fetches /\ toDaemon \in Seq(DaemonMsgs)
      BY Ranges DEF Types
    <2> QED
      BY <2>1, Restored
  <1>2. Linked'
    BY <1>0 DEF Agreement, Linked
  <1>3. ASSUME NEW f \in Fetches PROVE Agreed(f)' /\ Fresh(f)'
    <2>0. Agreed(f) /\ Fresh(f)
      BY DEF Agreement
    <2>1. Fresh(f)'
      BY <1>0, <2>0, FreshKept DEF NoNews
    <2>2. CASE f \in fetchers /\ conn
      <3>1. None(toDaemon, UnfetchesOf(f))
        BY <2>0, <2>2 DEF Agreed
      <3>2. None(toDaemon', UnfetchesOf(f))
        <4>1. None(Restore(fetchers), UnfetchesOf(f))
          BY <1>1, <2>2
        <4>2. None(toDaemon \o Restore(fetchers), UnfetchesOf(f))
          BY <1>1, <3>1, <4>1, Joins
        <4> QED
          BY <1>0, <2>2, <4>2
      <3>3. ~None(toDaemon', FetchesOf(f))
        <4>1. ~None(Restore(fetchers), FetchesOf(f))
          BY <1>1, <2>2
        <4>2. ~None(toDaemon \o Restore(fetchers), FetchesOf(f))
          BY <1>1, <4>1, Joins
        <4> QED
          BY <1>0, <2>2, <4>2
      <3> QED
        BY <1>0, <2>1, <2>2, <3>2, <3>3 DEF Agreed
    <2>3. CASE f \notin fetchers \/ ~conn
      <3>1. MovesElse(toDaemon, toDaemon', f)
        BY <1>0, <1>1, <2>3 DEF MovesElse
      <3> QED
        BY <1>0, <2>0, <2>1, <2>3, <3>1, AgreedKept
    <2> QED
      BY <2>2, <2>3
  <1> QED
    BY <1>2, <1>3 DEF Agreement

-----------------------------------------------------------------------------
(* Agreement: results of requests *)

\* The callbacks of open requests fs are called: on error the fetch is down, or
\* has been dropped.
LEMMA ResultAgrees ==
    ASSUME Types, Agreement, NEW fs \in SUBSET open, NEW ok \in BOOLEAN, AddResult(fs, ok),
           stopping = "no" => stopping' = "no",
           \A f \in Fetches : NoNews(toPeer, toPeer', f), ~conn => toPeer' = toPeer,
           UNCHANGED <<adding, removing, resuming, running, news, view, conn, toDaemon, dfetches,
                       value>>
    PROVE  Agreement'
  <1>0. /\ open' = open \ fs
        /\ ok => fetchers' = fetchers /\ dropped' = dropped
        /\ ~ok => /\ fetchers' = fetchers \ fs
                  /\ \A f \in fs : f \in dfetches \/ Sent("fetch", f) => f \in dropped'
        /\ dropped \subseteq dropped'
    BY DEF AddResult
  <1>1. Linked'
    BY <1>0 DEF Agreement, Linked
  <1>2. ASSUME NEW f \in Fetches PROVE Agreed(f)' /\ Fresh(f)'
    <2>0. Agreed(f) /\ Fresh(f)
      BY DEF Agreement
    <2>1. Fresh(f)'
      BY <1>0, <2>0, FreshKept
    <2>2. CASE ok \/ f \notin fs \/ f \notin fetchers
      <3>1. f \in fetchers' <=> f \in fetchers
        BY <1>0, <2>2
      <3> QED
        BY <1>0, <2>0, <2>1, <3>1, AgreedKept DEF MovesElse
    <2>3. CASE ~ok /\ f \in fs /\ f \in fetchers
      <3>1. f \notin fetchers'
        BY <1>0, <2>3
      <3>2. f \in dropped' \/ Down(f)
        <4>1. CASE f \in dfetches \/ Sent("fetch", f)
          BY <1>0, <2>3, <4>1
        <4>2. CASE f \notin dfetches /\ ~Sent("fetch", f)
          <5>1. None(toDaemon, FetchesOf(f)) /\ None(toDaemon, UnfetchesOf(f))
            BY <2>0, <2>3, <4>2, SentMessages DEF Agreed
          <5>2. None(toDaemon, About(f))
            BY <5>1, NoneAbout DEF Types
          <5> QED
            BY <4>2, <5>2 DEF Down
        <4> QED
          BY <4>1, <4>2
      <3>3. Down(f) => Down(f)'
        BY DEF Down
      <3> QED
        BY <2>1, <3>1, <3>2, <3>3 DEF Agreed
    <2> QED
      BY <2>2, <2>3
  <1> QED
    BY <1>1, <1>2 DEF Agreement

\* A result, an error notifier, and the stop of any peer.
LEMMA ResultsAgree ==
    ASSUME Types, Agreement,
           \/ HandleResult
           \/ \E e \in Fetches, g \in 0 .. MaxFetches : HandleFailed(e, g)
           \/ OtherPeerStops
           \/ StopCancels
    PROVE  Agreement'
  <1>1. CASE HandleResult
    <2> DEFINE e == Head(toPeer).fetch
    <2> DEFINE ok == Head(toPeer).v = Yes
    <2>1. /\ toPeer # <<>> /\ Head(toPeer).type = "result" /\ toPeer' = Tail(toPeer) /\ conn
          /\ AddResult({e} \cap open, ok)
          /\ UNCHANGED <<adding, removing, resuming, running, news, view, conn, stopping,
                         toDaemon, dfetches, value>>
      BY <1>1 DEF HandleResult, Receiving, app, callback, link, daemon
    <2>2. \A f \in Fetches : NoNews(toPeer, toPeer', f)
      BY <2>1 DEF NoNews, NewsOf
    <2>3. ok \in BOOLEAN
      OBVIOUS
    <2> HIDE DEF e, ok
    <2> QED
      BY <2>1, <2>2, <2>3, ResultAgrees
  <1>2. CASE \E e \in Fetches, g \in 0 .. MaxFetches : HandleFailed(e, g)
    <2>1. PICK e \in Fetches, g \in 0 .. MaxFetches : HandleFailed(e, g)
      BY <1>2
    <2>2. /\ AddResult({g} \cap open, FALSE)
          /\ UNCHANGED <<adding, removing, resuming, running, news, view, conn, stopping,
                         toDaemon, toPeer, dfetches, value>>
      BY <2>1 DEF HandleFailed, app, callback, link, daemon
    <2>3. \A f \in Fetches : NoNews(toPeer, toPeer', f)
      BY <2>2 DEF NoNews
    <2> QED
      BY <2>2, <2>3, ResultAgrees
  <1>3. CASE OtherPeerStops \/ StopCancels
    <2>1. /\ AddResult(open, FALSE) /\ stopping' \in {stopping, "no"}
          /\ UNCHANGED <<adding, removing, resuming, running, news, view, conn,
                         toDaemon, toPeer, dfetches, value>>
      BY <1>3 DEF OtherPeerStops, StopCancels, Clear, app, callback, link, daemon
    <2>2. \A f \in Fetches : NoNews(toPeer, toPeer', f)
      BY <2>1 DEF NoNews
    <2> QED
      BY <2>1, <2>2, ResultAgrees
  <1> QED
    BY <1>1, <1>2, <1>3

-----------------------------------------------------------------------------
(* Agreement: the event loop *)

\* A notification: the last one has the current value.
LEMMA NotificationBeginsAgrees ==
    ASSUME Types, Agreement, NotificationBegins
    PROVE  Agreement'
  <1> DEFINE m == Head(toPeer)
  <1>0. /\ running = 0 /\ conn /\ stopping = "no" /\ toPeer # <<>> /\ m.type = "notify"
        /\ toPeer' = Tail(toPeer)
        /\ running' = IF m.fetch \in fetchers THEN m.fetch ELSE 0
        /\ news' = IF m.fetch \in fetchers THEN m.v ELSE news
        /\ UNCHANGED <<adding, removing, resuming, fetchers, open, dropped, view, conn, stopping,
                       toDaemon, dfetches, value>>
    BY DEF NotificationBegins, Receiving, app, requests, link, daemon
  <1>1. toPeer \in Seq(PeerMsgs) /\ m \in PeerMsgs /\ m.fetch \in Fetches
    BY <1>0, PeerTakes DEF Types
  <1>2. Linked'
    BY <1>0 DEF Agreement, Linked
  <1>3. ASSUME NEW f \in Fetches PROVE Agreed(f)' /\ Fresh(f)'
    <2>0. Agreed(f) /\ Fresh(f) /\ f # 0
      BY ConstantTypes DEF Agreement
    <2>1. Agreed(f)'
      BY <1>0, <2>0, AgreedKept DEF MovesElse
    <2>2. CASE f # m.fetch
      <3>1. NoNews(toPeer, toPeer', f)
        BY <1>0, <2>2 DEF NoNews, NewsOf
      <3> QED
        BY <1>0, <2>0, <2>1, <2>2, <3>1, FreshKept
    <2>3. CASE f = m.fetch
      <3>1. m \in NewsOf(f)
        BY <1>0, <1>1, <2>3 DEF NewsOf
      <3>2. ~None(toPeer, NewsOf(f))
        BY <1>0, <1>1, <3>1, Takes
      <3>3. LastOf(toPeer, NewsOf(f), NewsWith(f, value)) =>
               \/ LastOf(Tail(toPeer), NewsOf(f), NewsWith(f, value))
               \/ m \in NewsWith(f, value) /\ None(Tail(toPeer), NewsOf(f))
        BY <1>0, <1>1, TakenOut
      <3>4. m \in NewsWith(f, value) => m.v = value
        BY DEF NewsWith
      <3> QED
        BY <1>0, <2>0, <2>1, <2>3, <3>2, <3>3, <3>4 DEF Fresh
    <2> QED
      BY <2>2, <2>3
  <1> QED
    BY <1>2, <1>3 DEF Agreement

\* The callback returns, and may have removed its own fetch.
LEMMA NotificationEndsAgrees ==
    ASSUME Types, Agreement, NEW b \in BOOLEAN, NotificationEnds(b)
    PROVE  Agreement'
  <1>0. /\ running # 0 /\ running' = 0 /\ view' = [view EXCEPT ![running] = news]
        /\ b => /\ running # adding
                /\ fetchers' = fetchers \ {running}
                /\ toDaemon' = IF conn THEN Append(toDaemon, Msg("unfetch", running, No))
                               ELSE toDaemon
        /\ ~b => UNCHANGED <<fetchers, toDaemon>>
        /\ ~conn => toDaemon' = toDaemon
        /\ UNCHANGED <<adding, removing, resuming, open, dropped, news, conn, stopping, toPeer,
                       dfetches, value>>
    BY DEF NotificationEnds, requests, link, daemon
  <1>1. running \in Fetches /\ view \in [Fetches -> Unknown .. MaxChanges]
    BY <1>0, Ranges DEF Types, TypeOK
  <1>2. fetchers' \subseteq fetchers /\ (adding \in fetchers => adding \in fetchers')
    BY <1>0
  <1>3. Linked'
    BY <1>0, <1>2 DEF Agreement, Linked
  <1>4. ASSUME NEW f \in Fetches PROVE Agreed(f)' /\ Fresh(f)'
    <2>0. Agreed(f) /\ Fresh(f) /\ f # 0
      BY ConstantTypes DEF Agreement
    <2>1. IF running = f THEN view'[f] = news ELSE view'[f] = view[f]
      BY <1>0, <1>1
    <2>2. Fresh(f)'
      BY <1>0, <1>2, <2>0, <2>1, FreshKept DEF NoNews
    <2>3. Agreed(f)'
      <3>1. CASE b
        BY <1>0, <1>1, <3>1, EndSent
      <3>2. CASE ~b
        BY <1>0, <2>0, <3>2, AgreedKept DEF MovesElse
      <3> QED
        BY <3>1, <3>2
    <2> QED
      BY <2>2, <2>3
  <1> QED
    BY <1>3, <1>4 DEF Agreement

\* The connection is lost: nothing is established, asked for or ended any more.
LEMMA ConnectionLostAgrees ==
    ASSUME Types, Agreement, ConnectionLost
    PROVE  Agreement'
  <1>0. /\ conn' = FALSE
        /\ toDaemon' = <<>> /\ toPeer' = <<>> /\ dfetches' = {}
        /\ UNCHANGED <<adding, removing, fetchers, open>>
    BY DEF ConnectionLost, app
  <1>1. Linked'
    BY <1>0 DEF Agreement, Linked
  <1>2. ASSUME NEW f \in Fetches PROVE Agreed(f)' /\ Fresh(f)'
    <2>1. None(toDaemon', About(f))
      BY <1>0, EmptyQueue
    <2>2. None(toDaemon', UnfetchesOf(f))
      BY <1>0, EmptyQueue
    <2> QED
      BY <1>0, <2>1, <2>2 DEF Agreed, Down, Fresh
  <1> QED
    BY <1>1, <1>2 DEF Agreement

\* stop() tells the fetches: what they have been told before does not count.
LEMMA StopNotifiesAgrees ==
    ASSUME Types, Agreement, StopHasNotified \/ \E e \in Fetches : StopNotifies(e)
    PROVE  Agreement'
  <1>0. /\ stopping = "fetchers"
        /\ UNCHANGED <<adding, removing, resuming, fetchers, open, dropped, running, news, conn,
                       toDaemon, toPeer, dfetches, value>>
    BY DEF StopHasNotified, StopNotifies, app, requests, callback, daemon
  <1>1. Linked'
    BY <1>0 DEF Agreement, Linked
  <1>2. ASSUME NEW f \in Fetches PROVE Agreed(f)' /\ Fresh(f)'
    <2>0. Agreed(f) /\ Fresh(f)
      BY DEF Agreement
    <2>1. Agreed(f)'
      BY <1>0, <2>0, AgreedKept DEF MovesElse
    <2>2. Fresh(f)'
      BY <1>0, <2>0, FreshKept DEF NoNews
    <2> QED
      BY <2>1, <2>2
  <1> QED
    BY <1>1, <1>2 DEF Agreement

-----------------------------------------------------------------------------
(* Agreement: the daemon *)

\* The daemon establishes a fetch, unless it has done so before.
LEMMA DaemonFetchesAgrees ==
    ASSUME Types, Agreement, DaemonFetches
    PROVE  Agreement'
  <1> DEFINE m == Head(toDaemon)
  <1> DEFINE e == m.fetch
  <1> DEFINE ok == e \notin dfetches
  <1>0. /\ toDaemon # <<>> /\ m.type = "fetch" /\ dfetches' = dfetches \cup {e}
        /\ toDaemon' = Tail(toDaemon)
        /\ toPeer' = toPeer \o (IF ok THEN <<Msg("notify", e, value)>> ELSE <<>>)
                            \o (IF m.v = Yes
                                THEN <<Msg("result", e, IF ok THEN Yes ELSE No)>>
                                ELSE <<>>)
        /\ UNCHANGED <<adding, removing, resuming, fetchers, open, dropped, running, news, view,
                       conn, stopping, value>>
    BY DEF DaemonFetches, app, requests, callback, link
  <1>1. /\ toDaemon \in Seq(DaemonMsgs) /\ toPeer \in Seq(PeerMsgs) /\ m \in DaemonMsgs
        /\ e \in Fetches /\ value \in 0 .. MaxChanges
    BY <1>0, TakenCreated, MsgTypes, Ranges DEF Types
  <1>2. m \in About(e) /\ m \notin UnfetchesOf(e)
    BY <1>0, <1>1 DEF UnfetchesOf, About
  <1>3. ~None(toDaemon, About(e))
    BY <1>0, <1>1, <1>2, Takes
  <1> DEFINE ms == Answer(m, ok)
  <1>4. ok \in BOOLEAN
    OBVIOUS
  <1> HIDE DEF ok
  <1>5. /\ ms \in Seq(PeerMsgs) /\ toPeer' = toPeer \o ms
        /\ ok => LastOf(ms, NewsOf(e), NewsWith(e, value))
        /\ \A f : f # e \/ ~ok => None(ms, NewsOf(f))
    BY <1>0, <1>1, <1>4, Answers
  <1> HIDE DEF m, ms
  <1>6. Linked'
    BY <1>0 DEF Agreement, Linked
  <1>7. ASSUME NEW f \in Fetches PROVE Agreed(f)' /\ Fresh(f)'
    <2>0. Agreed(f) /\ Fresh(f)
      BY DEF Agreement
    <2>1. CASE f # e
      <3>1. MovesElse(toDaemon, toDaemon', f)
        BY <1>0, <2>1 DEF MovesElse, m
      <3>2. Agreed(f)'
        BY <1>0, <2>0, <2>1, <3>1, AgreedKept
      <3>3. NoNews(toPeer, toPeer', f)
        BY <1>5, <2>1 DEF NoNews
      <3>4. Fresh(f)'
        BY <1>0, <2>0, <2>1, <3>3, FreshKept
      <3> QED
        BY <3>2, <3>4
    <2>2. CASE f = e
      <3>1. None(toDaemon, UnfetchesOf(f)) => None(Tail(toDaemon), UnfetchesOf(f))
        BY <1>0, <1>1, Takes
      <3>2. LastOf(toDaemon, About(f), UnfetchesOf(f)) => LastOf(Tail(toDaemon), About(f), UnfetchesOf(f))
        BY <1>0, <1>1, <1>2, <2>2, TakenOut DEF m
      <3>3. Agreed(f)'
        BY <1>0, <1>3, <2>0, <2>2, <3>1, <3>2 DEF Agreed, Down
      <3>4. CASE ok
        <4>1. LastOf(toPeer \o ms, NewsOf(f), NewsWith(f, value))
          BY <1>1, <1>5, <2>2, <3>4, PutAtEnd
        <4> QED
          BY <1>0, <1>5, <3>3, <4>1 DEF Fresh
      <3>5. CASE ~ok
        <4>1. NoNews(toPeer, toPeer', f)
          BY <1>5, <3>5 DEF NoNews
        <4>2. f \in dfetches
          BY <2>2, <3>5 DEF ok
        <4> QED
          BY <1>0, <2>0, <3>3, <4>1, <4>2, FreshKept
      <3> QED
        BY <3>4, <3>5
    <2> QED
      BY <2>1, <2>2
  <1> QED
    BY <1>6, <1>7 DEF Agreement

\* The daemon forgets a fetch that the peer does not know.
LEMMA DaemonUnfetchesAgrees ==
    ASSUME Types, Agreement, DaemonUnfetches
    PROVE  Agreement'
  <1> DEFINE m == Head(toDaemon)
  <1> DEFINE e == m.fetch
  <1>0. /\ toDaemon # <<>> /\ m.type = "unfetch" /\ dfetches' = dfetches \ {e}
        /\ toDaemon' = Tail(toDaemon)
        /\ UNCHANGED <<adding, removing, resuming, fetchers, open, dropped, running, news, view,
                       conn, stopping, toPeer, value>>
    BY DEF DaemonUnfetches, app, requests, callback, link
  <1>1. toDaemon \in Seq(DaemonMsgs) /\ m \in DaemonMsgs /\ e \in Fetches
    BY <1>0, TakenCreated, MsgTypes DEF Types
  <1>2. m \in UnfetchesOf(e) /\ m \in About(e)
    BY <1>0, <1>1 DEF UnfetchesOf, About
  <1>3. ~None(toDaemon, UnfetchesOf(e)) /\ ~None(toDaemon, About(e))
    <2>1. ~None(toDaemon, UnfetchesOf(e))
      BY <1>0, <1>1, <1>2, Takes
    <2>2. ~None(toDaemon, About(e))
      BY <1>0, <1>1, <1>2, Takes
    <2> QED
      BY <2>1, <2>2
  <1> HIDE DEF m
  <1>4. e \notin fetchers
    BY <1>1, <1>3 DEF Agreement, Agreed
  <1>5. Linked'
    BY <1>0 DEF Agreement, Linked
  <1>6. ASSUME NEW f \in Fetches PROVE Agreed(f)' /\ Fresh(f)'
    <2>0. Agreed(f) /\ Fresh(f)
      BY DEF Agreement
    <2>1. Fresh(f)'
      BY <1>0, <2>0, FreshKept DEF NoNews
    <2>2. CASE f # e
      <3>1. MovesElse(toDaemon, toDaemon', f)
        BY <1>0, <2>2 DEF MovesElse, m
      <3> QED
        BY <1>0, <2>0, <2>1, <2>2, <3>1, AgreedKept
    <2>3. CASE f = e
      <3>1. LastOf(toDaemon, About(f), UnfetchesOf(f)) =>
               LastOf(Tail(toDaemon), About(f), UnfetchesOf(f)) \/ None(Tail(toDaemon), About(f))
        BY <1>0, <1>1, TakenOut
      <3> QED
        BY <1>0, <1>3, <1>4, <2>0, <2>1, <2>3, <3>1 DEF Agreed, Down
    <2> QED
      BY <2>2, <2>3
  <1> QED
    BY <1>5, <1>6 DEF Agreement

\* The state changes: every established fetch is notified.
LEMMA StateChangesAgrees ==
    ASSUME Types, Agreement, StateChanges
    PROVE  Agreement'
  <1> DEFINE ms == Notices(dfetches, value + 1)
  <1>0. /\ value < MaxChanges /\ value' = value + 1 /\ toPeer' = toPeer \o ms
        /\ UNCHANGED <<adding, removing, resuming, fetchers, open, dropped, running, news, view,
                       conn, stopping, toDaemon, dfetches>>
    BY DEF StateChanges, Notices, app, requests, callback, link
  <1>1. /\ value + 1 \in 0 .. MaxChanges /\ dfetches \subseteq Fetches /\ toPeer \in Seq(PeerMsgs)
    BY <1>0, Ranges, ConstantTypes DEF Types
  <1>2. /\ ms \in Seq(PeerMsgs)
        /\ \A f \in dfetches : LastOf(ms, NewsOf(f), NewsWith(f, value + 1))
        /\ dfetches = {} => ms = <<>>
    BY <1>1, Notified
  <1> HIDE DEF ms
  <1>3. Linked'
    <2>1. ~conn => toPeer' = <<>>
      BY <1>0, <1>2 DEF Agreement, Linked
    <2> QED
      BY <1>0, <2>1 DEF Agreement, Linked
  <1>4. ASSUME NEW f \in Fetches PROVE Agreed(f)' /\ Fresh(f)'
    <2>0. Agreed(f)
      BY DEF Agreement
    <2>1. Agreed(f)'
      BY <1>0, <2>0, AgreedKept DEF MovesElse
    <2>2. f \in dfetches => LastOf(toPeer \o ms, NewsOf(f), NewsWith(f, value + 1))
      BY <1>1, <1>2, PutAtEnd
    <2>3. Fresh(f)'
      BY <1>0, <2>2 DEF Fresh
    <2> QED
      BY <2>1, <2>3
  <1> QED
    BY <1>3, <1>4 DEF Agreement

-----------------------------------------------------------------------------
(* Theorems *)

\* The inductive invariant holds at first, and every step keeps it.
THEOREM Invariance == Spec => []IndInv
  <1>1. Init => IndInv
    <2> SUFFICES ASSUME Init PROVE IndInv
      OBVIOUS
    <2>1. \A A : None(toDaemon, A) /\ None(toPeer, A)
      BY EmptyQueue DEF Init
    <2>2. TypeOK
      <3>1. Unknown \in Unknown .. MaxChanges
        BY ConstantTypes DEF Unknown
      <3>2. /\ MaxFetches \in Nat /\ MaxChanges \in Nat /\ MaxLosses \in Nat
            /\ 0 \in 0 .. MaxFetches /\ 0 \in 0 .. MaxChanges /\ 0 \in 0 .. MaxLosses /\ 0 \in 0 .. 0
        BY ConstantTypes
      <3> QED
        BY <3>1, <3>2 DEF Init, TypeOK
    <2>3. Types
      BY <2>1, <2>2, EmptySeq DEF Init, Types
    <2>4. Linked
      BY DEF Init, Linked
    <2>5. \A f \in Fetches : Agreed(f) /\ Fresh(f)
      BY <2>1 DEF Init, Agreed, Down, Fresh
    <2> QED
      BY <2>3, <2>4, <2>5 DEF IndInv, Agreement
  <1>2. IndInv /\ [Next]_vars => IndInv'
    <2> SUFFICES ASSUME IndInv, [Next]_vars PROVE IndInv'
      OBVIOUS
    <2>1. Types /\ Agreement
      BY DEF IndInv
    <2>2. CASE UNCHANGED vars
      BY <2>2 DEF IndInv, Types, TypeOK, Agreement, Linked, Agreed, Down, Fresh,
                  vars, app, requests, callback, link, daemon
    <2>3. CASE Next
      <3>1. Types'
        BY <2>1, <2>3, ApplicationTypes, EventLoopTypes, DaemonTypes DEF Next
      <3>2. Agreement'
        <4>1. CASE Application
          BY <2>1, <4>1, AddRegisterAgrees, AddSendAgrees, RemoveUnregisterAgrees,
             RemoveSendAgrees, ResumeAgrees, RestoreAgrees
             DEF Application
        <4>2. CASE EventLoop \/ OtherPeerStops
          BY <2>1, <4>2, ResultsAgree, NotificationBeginsAgrees, NotificationEndsAgrees,
             StopNotifiesAgrees
             DEF EventLoop
        <4>3. CASE ConnectionLost
          BY <2>1, <4>3, ConnectionLostAgrees
        <4>4. CASE Daemon
          BY <2>1, <4>4, DaemonFetchesAgrees, DaemonUnfetchesAgrees DEF Daemon
        <4>5. CASE StateChanges
          BY <2>1, <4>5, StateChangesAgrees
        <4> QED
          BY <2>3, <4>1, <4>2, <4>3, <4>4, <4>5 DEF Next
      <3> QED
        BY <3>1, <3>2 DEF IndInv
    <2> QED
      BY <2>2, <2>3
  <1> QED
    BY <1>1, <1>2, PTL DEF Spec

\* The variables stay in their types, and only known fetches are registered,
\* also when callbacks, lost connections and other threads and peers interleave.
THEOREM TypeCorrect == Spec => []TypeOK
  <1>1. IndInv => TypeOK
    BY DEF IndInv, Types
  <1> QED
    BY <1>1, Invariance, PTL

\* What the daemon has established is known to the peer, or about to be ended,
\* or was unregistered by the error of a request: by nothing else.
THEOREM EstablishedFetchesAreKnown == Spec => []EstablishedUnlessDropped
  <1>1. IndInv => EstablishedUnlessDropped
    <2> SUFFICES ASSUME IndInv, NEW f \in dfetches \ dropped, f \notin fetchers, f # removing
                 PROVE  Sent("unfetch", f)
      BY DEF EstablishedUnlessDropped, Known
    <2>1. f \in Fetches /\ Agreement /\ Types
      BY Ranges DEF IndInv, Types
    <2>2. LastOf(toDaemon, About(f), UnfetchesOf(f))
      BY <2>1 DEF Agreement, Agreed, Down
    <2> QED
      BY <2>1, <2>2, SentMessages
  <1> QED
    BY <1>1, Invariance, PTL

\* When nothing is on its way, the daemon has established the known fetches, and
\* each has been told the current value: start() has restored them, whatever
\* the callbacks of stop() have added, removed or resumed meanwhile.
THEOREM SettledFetchesAreUpToDate == Spec => []SettledUpToDate
  <1>1. IndInv => SettledUpToDate
    <2> SUFFICES ASSUME IndInv, Settled
                 PROVE  /\ fetchers \subseteq dfetches
                        /\ dfetches \ fetchers \subseteq dropped
                        /\ \A f \in fetchers : view[f] = value
      BY DEF SettledUpToDate
    <2>1. /\ Agreement /\ fetchers \subseteq Fetches /\ dfetches \subseteq Fetches
      BY Ranges DEF IndInv, Types
    <2>2. /\ conn /\ ~resuming /\ toDaemon = <<>> /\ toPeer = <<>>
          /\ adding = 0 /\ removing = 0 /\ running = 0
      BY DEF Settled
    <2>3. \A f \in Fetches : f # 0
      BY ConstantTypes
    <2>4. /\ \A A, B : ~LastOf(toDaemon, A, B) /\ ~LastOf(toPeer, A, B)
          /\ \A A : None(toDaemon, A)
      BY <2>2, EmptyQueue DEF LastOf
    <2>5. \A f \in fetchers : f \in dfetches
      BY <2>1, <2>2, <2>3, <2>4 DEF Agreement, Agreed
    <2>6. \A f \in dfetches \ fetchers : f \in dropped
      BY <2>1, <2>2, <2>3, <2>4 DEF Agreement, Agreed, Down
    <2>7. \A f \in fetchers : view[f] = value
      BY <2>1, <2>2, <2>3, <2>4, <2>5 DEF Agreement, Fresh
    <2> QED
      BY <2>5, <2>6, <2>7
  <1> QED
    BY <1>1, Invariance, PTL
=============================================================================
