-------------------------- MODULE OwnerPeerProofs --------------------------
(***************************************************************************)
(* Proofs about OwnerPeer, for any paths, adds, requests and losses.       *)
(*                                                                         *)
(* Serving: a routed request is in one place, so it is answered once, and  *)
(* a change leaves the peer before the response it belongs to, whatever    *)
(* the application does.                                                   *)
(*                                                                         *)
(* Agreement: an application that adds a path only when it is free agrees  *)
(* with the daemon about every path that is not dropped, i.e. whose        *)
(* callback was not given up by a cancelled request or by a stop() that    *)
(* ran on after resume().  It may call the peer from any thread, and other *)
(* peers may stop at any time.  The argument is that a path the peer does  *)
(* not serve is down for good: the daemon does not believe the peer owns   *)
(* it, or a removal is the last thing it will hear (Down), or will be as   *)
(* soon as it is sent (Leaving).  Only sending an add ends that.           *)
(***************************************************************************)
EXTENDS OwnerPeer, FiniteSetTheorems, SequenceTheorems, TLAPS

-----------------------------------------------------------------------------
(* Queues *)

\* The elements of a queue.
LEMMA Elements ==
    ASSUME NEW S, NEW q \in Seq(S)
    PROVE  /\ Len(q) \in Nat
           /\ DOMAIN q = 1 .. Len(q)
           /\ \A k \in 1 .. Len(q) : q[k] \in S
  BY LenProperties, ElementOfSeq

\* The head is taken out of a queue.
LEMMA HeadTaken ==
    ASSUME NEW S, NEW q \in Seq(S), q # <<>>
    PROVE  /\ Head(q) \in S /\ Head(q) = q[1]
           /\ Tail(q) \in Seq(S)
           /\ Len(q) \in Nat /\ Len(q) >= 1
           /\ Len(Tail(q)) = Len(q) - 1
           /\ \A k \in 1 .. Len(q) - 1 : Tail(q)[k] = q[k + 1]
           /\ \A k \in 2 .. Len(q) : Tail(q)[k - 1] = q[k]
  BY HeadTailProperties, LenProperties

\* Something is put at the end of a queue.
LEMMA Appended ==
    ASSUME NEW S, NEW q \in Seq(S), NEW m \in S
    PROVE  /\ Append(q, m) \in Seq(S)
           /\ Len(q) \in Nat
           /\ Len(Append(q, m)) = Len(q) + 1
           /\ \A k \in 1 .. Len(q) : Append(q, m)[k] = q[k]
           /\ Append(q, m)[Len(q) + 1] = m
  BY AppendProperties, LenProperties

\* Two queues are joined.
LEMMA Joined ==
    ASSUME NEW S, NEW q \in Seq(S), NEW r \in Seq(S)
    PROVE  /\ q \o r \in Seq(S)
           /\ Len(q) \in Nat /\ Len(r) \in Nat
           /\ Len(q \o r) = Len(q) + Len(r)
           /\ \A k \in 1 .. Len(q) : (q \o r)[k] = q[k]
           /\ \A k \in 1 .. Len(r) : (q \o r)[Len(q) + k] = r[k]
  BY ConcatProperties, LenProperties

-----------------------------------------------------------------------------
(* The messages of a set in a queue *)

\* None of the messages of A is in q; one of them is, once; no more than one is.
None(q, A) == \A k \in 1 .. Len(q) : q[k] \notin A
One(q, A) == \E k \in 1 .. Len(q) : q[k] \in A /\ \A j \in 1 .. Len(q) : q[j] \in A => j = k
AtMostOne(q, A) == \A j, k \in 1 .. Len(q) : q[j] \in A /\ q[k] \in A => j = k

\* A message of B is in q, and no message of A after it.
LastOf(q, A, B) ==
    \E k \in 1 .. Len(q) : q[k] \in B /\ \A j \in (k + 1) .. Len(q) : q[j] \notin A

\* No message of A comes after one of B.
NoneAfter(q, A, B) == \A j, k \in 1 .. Len(q) : j < k /\ q[j] \in B => q[k] \notin A

\* Before every message of A there is one of B.
Preceded(q, A, B) == \A k \in 1 .. Len(q) : q[k] \in A => \E j \in 1 .. (k - 1) : q[j] \in B

\* Between any two messages of A there is one of B.
Parted(q, A, B) ==
    \A j, k \in 1 .. Len(q) :
        j < k /\ q[j] \in A /\ q[k] \in A => \E i \in (j + 1) .. (k - 1) : q[i] \in B

\* Nothing is in an empty queue.
LEMMA EmptyQueue ==
    ASSUME NEW q, q = <<>>, NEW A, NEW B
    PROVE  None(q, A) /\ AtMostOne(q, A) /\ NoneAfter(q, A, B) /\ Preceded(q, A, B) /\ Parted(q, A, B)
  BY DEF None, AtMostOne, NoneAfter, Preceded, Parted

\* The head is taken out of a queue: what is still true of the rest.
LEMMA TakenOut ==
    ASSUME NEW S, NEW q \in Seq(S), q # <<>>, NEW A, NEW B
    PROVE  /\ None(q, A) => None(Tail(q), A) /\ Head(q) \notin A
           /\ One(q, A) /\ Head(q) \notin A => One(Tail(q), A)
           /\ One(q, A) /\ Head(q) \in A => None(Tail(q), A)
           /\ AtMostOne(q, A) => AtMostOne(Tail(q), A)
           /\ AtMostOne(q, A) /\ Head(q) \in A => None(Tail(q), A)
           /\ LastOf(q, A, B) => LastOf(Tail(q), A, B) \/ (Head(q) \in B /\ None(Tail(q), A))
           /\ NoneAfter(q, A, B) => NoneAfter(Tail(q), A, B)
           /\ NoneAfter(q, A, B) /\ Head(q) \in B => None(Tail(q), A)
           /\ Preceded(q, A, B) => Head(q) \notin A
           /\ Preceded(q, A, B) /\ Head(q) \notin B => Preceded(Tail(q), A, B)
  <1>1. /\ Head(q) = q[1] /\ Len(q) \in Nat /\ Len(q) >= 1 /\ Len(Tail(q)) = Len(q) - 1
        /\ \A k \in 1 .. Len(q) - 1 : Tail(q)[k] = q[k + 1]
        /\ \A k \in 2 .. Len(q) : Tail(q)[k - 1] = q[k]
    BY HeadTaken
  <1> DEFINE t == Tail(q)
  <1> HIDE DEF t
  <1>2. /\ Head(q) = q[1] /\ Len(q) \in Nat /\ Len(q) >= 1 /\ Len(t) = Len(q) - 1
        /\ \A k \in 1 .. Len(t) : t[k] = q[k + 1] /\ k + 1 \in 1 .. Len(q)
        /\ \A k \in 2 .. Len(q) : t[k - 1] = q[k] /\ k - 1 \in 1 .. Len(t)
        /\ 1 \in 1 .. Len(q)
    BY <1>1 DEF t
  <1>3. None(q, A) => None(t, A) /\ Head(q) \notin A
    BY <1>2 DEF None
  <1>4. ASSUME One(q, A) PROVE (Head(q) \notin A => One(t, A)) /\ (Head(q) \in A => None(t, A))
    <2>1. PICK k \in 1 .. Len(q) : q[k] \in A /\ \A j \in 1 .. Len(q) : q[j] \in A => j = k
      BY <1>4 DEF One
    <2>2. ASSUME Head(q) \notin A PROVE One(t, A)
      <3>1. k \in 2 .. Len(q)
        BY <1>2, <2>1, <2>2
      <3>2. t[k - 1] \in A /\ k - 1 \in 1 .. Len(t)
        BY <1>2, <2>1, <3>1
      <3>3. \A j \in 1 .. Len(t) : t[j] \in A => j = k - 1
        BY <1>2, <2>1
      <3> QED
        BY <3>2, <3>3 DEF One
    <2>3. ASSUME Head(q) \in A PROVE None(t, A)
      BY <1>2, <2>1, <2>3 DEF None
    <2> QED
      BY <2>2, <2>3
  <1>5. ASSUME AtMostOne(q, A) PROVE AtMostOne(t, A) /\ (Head(q) \in A => None(t, A))
    <2>1. AtMostOne(t, A)
      BY <1>2, <1>5 DEF AtMostOne
    <2>2. ASSUME Head(q) \in A PROVE None(t, A)
      BY <1>2, <1>5, <2>2 DEF AtMostOne, None
    <2> QED
      BY <2>1, <2>2
  <1>6. ASSUME LastOf(q, A, B) PROVE LastOf(t, A, B) \/ (Head(q) \in B /\ None(t, A))
    <2>1. PICK k \in 1 .. Len(q) : q[k] \in B /\ \A j \in (k + 1) .. Len(q) : q[j] \notin A
      BY <1>6 DEF LastOf
    <2>2. CASE k = 1
      <3>1. \A j \in 1 .. Len(t) : j + 1 \in (k + 1) .. Len(q)
        BY <1>2, <2>2
      <3> QED
        BY <1>2, <2>1, <2>2, <3>1 DEF None
    <2>3. CASE k # 1
      <3>1. k \in 2 .. Len(q)
        BY <1>2, <2>3
      <3>2. \A j \in ((k - 1) + 1) .. Len(t) : j \in 1 .. Len(t) /\ j + 1 \in (k + 1) .. Len(q)
        BY <1>2, <3>1
      <3>3. \A j \in ((k - 1) + 1) .. Len(t) : t[j] \notin A
        BY <1>2, <2>1, <3>2
      <3> QED
        BY <1>2, <2>1, <3>1, <3>3 DEF LastOf
    <2> QED
      BY <2>2, <2>3
  <1>7. ASSUME NoneAfter(q, A, B) PROVE NoneAfter(t, A, B) /\ (Head(q) \in B => None(t, A))
    <2>1. NoneAfter(t, A, B)
      <3>1. ASSUME NEW j \in 1 .. Len(t), NEW k \in 1 .. Len(t), j < k, t[j] \in B
            PROVE  t[k] \notin A
        <4>1. j + 1 < k + 1 /\ j + 1 \in 1 .. Len(q) /\ k + 1 \in 1 .. Len(q)
          BY <1>2, <3>1
        <4> QED
          BY <1>2, <1>7, <3>1, <4>1 DEF NoneAfter
      <3> QED
        BY <3>1 DEF NoneAfter
    <2>2. ASSUME Head(q) \in B PROVE None(t, A)
      <3>1. \A k \in 1 .. Len(t) : 1 < k + 1 /\ k + 1 \in 1 .. Len(q)
        BY <1>2
      <3> QED
        BY <1>2, <1>7, <2>2, <3>1 DEF NoneAfter, None
    <2> QED
      BY <2>1, <2>2
  <1>8. ASSUME Preceded(q, A, B) PROVE Head(q) \notin A /\ (Head(q) \notin B => Preceded(t, A, B))
    <2>1. Head(q) \notin A
      BY <1>2, <1>8 DEF Preceded
    <2>2. ASSUME Head(q) \notin B, NEW k \in 1 .. Len(t), t[k] \in A
          PROVE  \E j \in 1 .. (k - 1) : t[j] \in B
      <3>1. PICK j \in 1 .. ((k + 1) - 1) : q[j] \in B
        BY <1>2, <1>8, <2>2 DEF Preceded
      <3>2. j # 1
        BY <1>2, <2>2, <3>1
      <3>3. j \in 2 .. Len(q) /\ j - 1 \in 1 .. (k - 1)
        BY <1>2, <3>1, <3>2
      <3> QED
        BY <1>2, <3>1, <3>3
    <2> QED
      BY <2>1, <2>2 DEF Preceded
  <1> QED
    BY <1>3, <1>4, <1>5, <1>6, <1>7, <1>8 DEF t

\* Messages are put at the end of a queue: what is still true of all of it.
LEMMA PutAtEnd ==
    ASSUME NEW S, NEW q \in Seq(S), NEW ms \in Seq(S), NEW A, NEW B
    PROVE  /\ None(q, A) /\ None(ms, A) => None(q \o ms, A)
           /\ One(q, A) /\ None(ms, A) => One(q \o ms, A)
           /\ None(q, A) /\ One(ms, A) => One(q \o ms, A)
           /\ AtMostOne(q, A) /\ None(ms, A) => AtMostOne(q \o ms, A)
           /\ None(q, A) /\ AtMostOne(ms, A) => AtMostOne(q \o ms, A)
           /\ LastOf(q, A, B) /\ None(ms, A) => LastOf(q \o ms, A, B)
           /\ LastOf(ms, A, B) => LastOf(q \o ms, A, B)
           /\ NoneAfter(q, A, B) /\ None(ms, A) => NoneAfter(q \o ms, A, B)
           /\ None(q, B) /\ NoneAfter(ms, A, B) => NoneAfter(q \o ms, A, B)
           /\ Preceded(q, A, B) /\ None(ms, A) => Preceded(q \o ms, A, B)
           /\ Preceded(q, A, B) /\ ~None(q, B) => Preceded(q \o ms, A, B)
  <1> DEFINE t == q \o ms
  <1> HIDE DEF t
  <1>1. /\ Len(q) \in Nat /\ Len(ms) \in Nat /\ Len(t) = Len(q) + Len(ms)
        /\ \A k \in 1 .. Len(q) : t[k] = q[k] /\ k \in 1 .. Len(t)
        /\ \A k \in 1 .. Len(ms) : t[Len(q) + k] = ms[k] /\ Len(q) + k \in 1 .. Len(t)
    <2>1. /\ Len(q) \in Nat /\ Len(ms) \in Nat /\ Len(t) = Len(q) + Len(ms)
          /\ \A k \in 1 .. Len(q) : t[k] = q[k]
          /\ \A k \in 1 .. Len(ms) : t[Len(q) + k] = ms[k]
      BY Joined DEF t
    <2>2. /\ \A k \in 1 .. Len(q) : k \in 1 .. Len(t)
          /\ \A k \in 1 .. Len(ms) : Len(q) + k \in 1 .. Len(t)
      BY <2>1
    <2> QED
      BY <2>1, <2>2
  <1>2. /\ \A k \in 1 .. Len(t) : k \in 1 .. Len(q) \/ (k > Len(q) /\ k - Len(q) \in 1 .. Len(ms))
        /\ \A k \in 1 .. Len(t) : k > Len(q) => t[k] = ms[k - Len(q)]
    <2>1. \A k \in 1 .. Len(t) : k \in 1 .. Len(q) \/ (k > Len(q) /\ k - Len(q) \in 1 .. Len(ms))
      BY <1>1
    <2>2. ASSUME NEW k \in 1 .. Len(t), k > Len(q) PROVE t[k] = ms[k - Len(q)]
      <3>1. k - Len(q) \in 1 .. Len(ms) /\ Len(q) + (k - Len(q)) = k
        BY <1>1, <2>2
      <3> QED
        BY <1>1, <3>1
    <2> QED
      BY <2>1, <2>2
  <1>3. ASSUME None(ms, A), NEW k \in 1 .. Len(t), t[k] \in A PROVE k \in 1 .. Len(q) /\ q[k] \in A
    BY <1>1, <1>2, <1>3 DEF None
  <1>4. None(q, A) /\ None(ms, A) => None(t, A)
    BY <1>3 DEF None
  <1>5. One(q, A) /\ None(ms, A) => One(t, A)
    BY <1>1, <1>3 DEF One
  <1>6. ASSUME None(q, A), NEW k \in 1 .. Len(t), t[k] \in A
        PROVE  k > Len(q) /\ k - Len(q) \in 1 .. Len(ms) /\ ms[k - Len(q)] \in A
    BY <1>1, <1>2, <1>6 DEF None
  <1>7. ASSUME None(q, A), One(ms, A) PROVE One(t, A)
    <2>1. PICK k \in 1 .. Len(ms) : ms[k] \in A /\ \A j \in 1 .. Len(ms) : ms[j] \in A => j = k
      BY <1>7 DEF One
    <2>2. t[Len(q) + k] \in A /\ Len(q) + k \in 1 .. Len(t)
      BY <1>1, <2>1
    <2>3. ASSUME NEW j \in 1 .. Len(t), t[j] \in A PROVE j = Len(q) + k
      <3>1. j - Len(q) = k
        BY <1>6, <1>7, <2>1, <2>3
      <3> QED
        BY <1>1, <3>1
    <2> QED
      BY <2>2, <2>3 DEF One
  <1>8. AtMostOne(q, A) /\ None(ms, A) => AtMostOne(t, A)
    BY <1>3 DEF AtMostOne
  <1>9. ASSUME None(q, A), AtMostOne(ms, A) PROVE AtMostOne(t, A)
    <2>1. ASSUME NEW j \in 1 .. Len(t), NEW k \in 1 .. Len(t), t[j] \in A, t[k] \in A PROVE j = k
      <3>1. j - Len(q) = k - Len(q)
        BY <1>6, <1>9, <2>1 DEF AtMostOne
      <3> QED
        BY <1>1, <3>1
    <2> QED
      BY <2>1 DEF AtMostOne
  <1>10. ASSUME LastOf(q, A, B), None(ms, A) PROVE LastOf(t, A, B)
    <2>1. PICK k \in 1 .. Len(q) : q[k] \in B /\ \A j \in (k + 1) .. Len(q) : q[j] \notin A
      BY <1>10 DEF LastOf
    <2>2. ASSUME NEW j \in (k + 1) .. Len(t), t[j] \in A PROVE FALSE
      <3>1. j \in 1 .. Len(t)
        BY <1>1
      <3>2. j \in 1 .. Len(q) /\ q[j] \in A
        BY <1>3, <1>10, <2>2, <3>1
      <3>3. j \in (k + 1) .. Len(q)
        BY <1>1, <3>2
      <3> QED
        BY <2>1, <3>2, <3>3
    <2> QED
      BY <1>1, <2>1, <2>2 DEF LastOf
  <1>11. ASSUME LastOf(ms, A, B) PROVE LastOf(t, A, B)
    <2>1. PICK k \in 1 .. Len(ms) : ms[k] \in B /\ \A j \in (k + 1) .. Len(ms) : ms[j] \notin A
      BY <1>11 DEF LastOf
    <2>2. ASSUME NEW j \in ((Len(q) + k) + 1) .. Len(t) PROVE t[j] \notin A
      <3>1. j \in 1 .. Len(t) /\ j > Len(q) /\ j - Len(q) \in (k + 1) .. Len(ms)
        BY <1>1
      <3> QED
        BY <1>2, <2>1, <3>1
    <2> QED
      BY <1>1, <2>1, <2>2 DEF LastOf
  <1>12. ASSUME NoneAfter(q, A, B), None(ms, A) PROVE NoneAfter(t, A, B)
    <2>1. ASSUME NEW j \in 1 .. Len(t), NEW k \in 1 .. Len(t), j < k, t[j] \in B, t[k] \in A PROVE FALSE
      <3>1. k \in 1 .. Len(q) /\ q[k] \in A
        BY <1>3, <1>12, <2>1
      <3>2. j \in 1 .. Len(q)
        BY <1>1, <2>1, <3>1
      <3> QED
        BY <1>1, <1>12, <2>1, <3>1, <3>2 DEF NoneAfter
    <2> QED
      BY <2>1 DEF NoneAfter
  <1>13. ASSUME None(q, B), NoneAfter(ms, A, B) PROVE NoneAfter(t, A, B)
    <2>1. ASSUME NEW j \in 1 .. Len(t), NEW k \in 1 .. Len(t), j < k, t[j] \in B PROVE t[k] \notin A
      <3>1. j > Len(q) /\ j - Len(q) \in 1 .. Len(ms) /\ ms[j - Len(q)] \in B
        BY <1>1, <1>2, <1>13, <2>1 DEF None
      <3>2. k > Len(q) /\ j - Len(q) < k - Len(q) /\ k - Len(q) \in 1 .. Len(ms)
        BY <1>1, <1>2, <2>1, <3>1
      <3>3. ms[k - Len(q)] \notin A
        BY <1>13, <3>1, <3>2 DEF NoneAfter
      <3> QED
        BY <1>2, <3>2, <3>3
    <2> QED
      BY <2>1 DEF NoneAfter
  <1>14. ASSUME Preceded(q, A, B), NEW k \in 1 .. Len(q), t[k] \in A
         PROVE  \E j \in 1 .. (k - 1) : t[j] \in B
    <2>1. PICK j \in 1 .. (k - 1) : q[j] \in B
      BY <1>1, <1>14 DEF Preceded
    <2>2. j \in 1 .. Len(q)
      BY <1>1
    <2> QED
      BY <1>1, <2>1, <2>2
  <1>15. Preceded(q, A, B) /\ None(ms, A) => Preceded(t, A, B)
    BY <1>3, <1>14 DEF Preceded
  <1>16. ASSUME Preceded(q, A, B), ~None(q, B) PROVE Preceded(t, A, B)
    <2>1. PICK i \in 1 .. Len(q) : q[i] \in B
      BY <1>16 DEF None
    <2>2. ASSUME NEW k \in 1 .. Len(t), t[k] \in A PROVE \E j \in 1 .. (k - 1) : t[j] \in B
      <3>1. CASE k \in 1 .. Len(q)
        BY <1>14, <1>16, <2>2, <3>1
      <3>2. CASE k > Len(q)
        <4>1. i \in 1 .. (k - 1)
          BY <1>1, <3>2
        <4> QED
          BY <1>1, <2>1, <4>1
      <3> QED
        BY <1>2, <3>1, <3>2
    <2> QED
      BY <2>2 DEF Preceded
  <1> QED
    BY <1>4, <1>5, <1>7, <1>8, <1>9, <1>10, <1>11, <1>12, <1>13, <1>15, <1>16 DEF t

\* A message is put at the end of a queue.
LEMMA SentLast ==
    ASSUME NEW S, NEW q \in Seq(S), NEW m \in S, NEW A, NEW B
    PROVE  /\ Append(q, m) \in Seq(S)
           /\ None(q, A) /\ m \notin A => None(Append(q, m), A)
           /\ One(q, A) /\ m \notin A => One(Append(q, m), A)
           /\ None(q, A) /\ m \in A => One(Append(q, m), A)
           /\ AtMostOne(q, A) /\ m \notin A => AtMostOne(Append(q, m), A)
           /\ None(q, A) => AtMostOne(Append(q, m), A)
           /\ LastOf(q, A, B) /\ m \notin A => LastOf(Append(q, m), A, B)
           /\ m \in B => LastOf(Append(q, m), A, B)
           /\ NoneAfter(q, A, B) /\ m \notin A => NoneAfter(Append(q, m), A, B)
           /\ None(q, B) => NoneAfter(Append(q, m), A, B)
           /\ Preceded(q, A, B) /\ m \notin A => Preceded(Append(q, m), A, B)
           /\ Preceded(q, A, B) /\ ~None(q, B) => Preceded(Append(q, m), A, B)
  <1> DEFINE ms == <<m>>
  <1>1. ms \in Seq(S) /\ Len(ms) = 1 /\ ms[1] = m
    OBVIOUS
  <1>2. Append(q, m) = q \o ms
    BY AppendIsConcat
  <1> HIDE DEF ms
  <1>3. /\ m \notin A => None(ms, A)
        /\ m \in A => One(ms, A)
        /\ AtMostOne(ms, A)
        /\ m \in B => LastOf(ms, A, B)
        /\ NoneAfter(ms, A, B)
    <2>1. \A k \in 1 .. Len(ms) : k = 1
      BY <1>1
    <2>2. 1 \in 1 .. Len(ms) /\ \A j \in (1 + 1) .. Len(ms) : FALSE
      BY <1>1
    <2> QED
      BY <1>1, <2>1, <2>2 DEF None, One, AtMostOne, LastOf, NoneAfter
  <1>4. Append(q, m) \in Seq(S)
    BY Appended
  <1> QED
    BY <1>1, <1>2, <1>3, <1>4, PutAtEnd

\* Messages that are parted, when one comes or goes.
LEMMA PartedMoves ==
    ASSUME NEW S, NEW q \in Seq(S), NEW A, NEW B, A \cap B = {}, Parted(q, A, B)
    PROVE  /\ q # <<>> => Parted(Tail(q), A, B)
           /\ q # <<>> /\ Head(q) \in A => Preceded(Tail(q), A, B)
           /\ \A m \in S : m \notin A \/ None(q, A) \/ LastOf(q, A, B) => Parted(Append(q, m), A, B)
  <1>1. ASSUME q # <<>>
        PROVE  Parted(Tail(q), A, B) /\ (Head(q) \in A => Preceded(Tail(q), A, B))
    <2> DEFINE t == Tail(q)
    <2> HIDE DEF t
    <2>1. /\ Head(q) = q[1] /\ Len(q) \in Nat /\ Len(q) >= 1 /\ Len(t) = Len(q) - 1
          /\ \A k \in 1 .. Len(t) : t[k] = q[k + 1] /\ k + 1 \in 1 .. Len(q)
          /\ \A k \in 2 .. Len(q) : t[k - 1] = q[k]
          /\ 1 \in 1 .. Len(q)
      BY <1>1, HeadTaken DEF t
    <2>2. ASSUME NEW j \in 0 .. Len(t), NEW k \in 1 .. Len(t), j < k, q[j + 1] \in A, t[k] \in A
          PROVE  \E i \in (j + 1) .. (k - 1) : t[i] \in B
      <3>1. j + 1 \in 1 .. Len(q) /\ k + 1 \in 1 .. Len(q) /\ j + 1 < k + 1 /\ q[k + 1] \in A
        BY <2>1, <2>2
      <3>2. PICK i \in ((j + 1) + 1) .. ((k + 1) - 1) : q[i] \in B
        BY <2>2, <3>1 DEF Parted
      <3>3. i \in 2 .. Len(q) /\ i - 1 \in (j + 1) .. (k - 1)
        BY <2>1, <3>2
      <3> QED
        BY <2>1, <3>2, <3>3
    <2>3. Parted(t, A, B)
      <3>1. ASSUME NEW j \in 1 .. Len(t), NEW k \in 1 .. Len(t), j < k, t[j] \in A, t[k] \in A
            PROVE  \E i \in (j + 1) .. (k - 1) : t[i] \in B
        <4>1. j \in 0 .. Len(t) /\ q[j + 1] \in A
          BY <2>1, <3>1
        <4> QED
          BY <2>2, <3>1, <4>1
      <3> QED
        BY <3>1 DEF Parted
    <2>4. ASSUME Head(q) \in A, NEW k \in 1 .. Len(t), t[k] \in A
          PROVE  \E i \in 1 .. (k - 1) : t[i] \in B
      <3>1. 0 \in 0 .. Len(t) /\ 0 < k /\ q[0 + 1] \in A
        BY <2>1, <2>4
      <3>2. \E i \in (0 + 1) .. (k - 1) : t[i] \in B
        BY <2>2, <2>4, <3>1
      <3> QED
        BY <3>2
    <2>5. Head(q) \in A => Preceded(t, A, B)
      BY <2>4 DEF Preceded
    <2> QED
      BY <2>3, <2>5 DEF t
  <1>2. ASSUME NEW m \in S, m \notin A \/ None(q, A) \/ LastOf(q, A, B)
        PROVE  Parted(Append(q, m), A, B)
    <2> DEFINE t == Append(q, m)
    <2> HIDE DEF t
    <2>1. /\ Len(q) \in Nat /\ Len(t) = Len(q) + 1 /\ t[Len(q) + 1] = m
          /\ \A k \in 1 .. Len(q) : t[k] = q[k]
      BY Appended DEF t
    <2>2. ASSUME NEW j \in 1 .. Len(t), NEW k \in 1 .. Len(t), j < k, t[j] \in A, t[k] \in A
          PROVE  \E i \in (j + 1) .. (k - 1) : t[i] \in B
      <3>1. j \in 1 .. Len(q) /\ q[j] \in A
        BY <2>1, <2>2
      <3>2. CASE k \in 1 .. Len(q)
        <4>1. PICK i \in (j + 1) .. (k - 1) : q[i] \in B
          BY <2>1, <2>2, <3>1, <3>2 DEF Parted
        <4>2. i \in 1 .. Len(q)
          BY <2>1, <3>1, <3>2
        <4> QED
          BY <2>1, <4>1, <4>2
      <3>3. CASE k = Len(q) + 1
        <4>1. LastOf(q, A, B)
          BY <1>2, <2>1, <2>2, <3>1, <3>3 DEF None
        <4>2. PICK i \in 1 .. Len(q) : q[i] \in B /\ \A l \in (i + 1) .. Len(q) : q[l] \notin A
          BY <4>1 DEF LastOf
        <4>3. CASE i = j
          BY <2>1, <3>1, <4>2, <4>3
        <4>4. CASE i > j
          <5>1. i \in (j + 1) .. (k - 1)
            BY <2>1, <3>3, <4>4
          <5> QED
            BY <2>1, <4>2, <5>1
        <4>5. CASE i < j
          <5>1. j \in (i + 1) .. Len(q)
            BY <3>1, <4>5
          <5> QED
            BY <3>1, <4>2, <5>1
        <4> QED
          BY <4>3, <4>4, <4>5
      <3> QED
        BY <2>1, <3>2, <3>3
    <2> QED
      BY <2>2 DEF Parted, t
  <1> QED
    BY <1>1, <1>2

\* The same for a single set of messages.
LEMMA Sends ==
    ASSUME NEW S, NEW q \in Seq(S), NEW m \in S, NEW A
    PROVE  /\ Append(q, m) \in Seq(S)
           /\ None(q, A) /\ m \notin A => None(Append(q, m), A)
           /\ One(q, A) /\ m \notin A => One(Append(q, m), A)
           /\ None(q, A) /\ m \in A => One(Append(q, m), A)
           /\ AtMostOne(q, A) /\ m \notin A => AtMostOne(Append(q, m), A)
           /\ None(q, A) => AtMostOne(Append(q, m), A)
  <1>1. \A B : Append(q, m) \in Seq(S) /\ (None(q, A) /\ m \notin A => None(Append(q, m), A))
    BY SentLast
  <1>2. \A B : /\ One(q, A) /\ m \notin A => One(Append(q, m), A)
               /\ None(q, A) /\ m \in A => One(Append(q, m), A)
    BY SentLast
  <1>3. \A B : /\ AtMostOne(q, A) /\ m \notin A => AtMostOne(Append(q, m), A)
               /\ None(q, A) => AtMostOne(Append(q, m), A)
    BY SentLast
  <1> QED
    BY <1>1, <1>2, <1>3

\* The same for a single set of messages.
LEMMA Takes ==
    ASSUME NEW S, NEW q \in Seq(S), q # <<>>, NEW A
    PROVE  /\ Tail(q) \in Seq(S) /\ Head(q) \in S
           /\ None(q, A) => None(Tail(q), A) /\ Head(q) \notin A
           /\ One(q, A) /\ Head(q) \notin A => One(Tail(q), A)
           /\ One(q, A) /\ Head(q) \in A => None(Tail(q), A)
           /\ AtMostOne(q, A) => AtMostOne(Tail(q), A)
           /\ AtMostOne(q, A) /\ Head(q) \in A => None(Tail(q), A)
  <1>1. \A B : /\ None(q, A) => None(Tail(q), A) /\ Head(q) \notin A
               /\ One(q, A) /\ Head(q) \notin A => One(Tail(q), A)
               /\ One(q, A) /\ Head(q) \in A => None(Tail(q), A)
    BY TakenOut
  <1>2. \A B : /\ AtMostOne(q, A) => AtMostOne(Tail(q), A)
               /\ AtMostOne(q, A) /\ Head(q) \in A => None(Tail(q), A)
    BY TakenOut
  <1> QED
    BY <1>1, <1>2, HeadTaken

\* Message m is in q.
In(q, m) == \E k \in 1 .. Len(q) : q[k] = m

\* What is in a queue when one message comes or goes.
LEMMA InMoves ==
    ASSUME NEW S, NEW q \in Seq(S), NEW m
    PROVE  /\ q # <<>> /\ In(Tail(q), m) => In(q, m)
           /\ q # <<>> => In(q, Head(q))
           /\ \A x \in S : In(Append(q, x), m) => In(q, m) \/ m = x
           /\ In(q, m) => m \in S
  <1>1. ASSUME q # <<>>, In(Tail(q), m) PROVE In(q, m)
    <2>1. PICK k \in 1 .. Len(Tail(q)) : Tail(q)[k] = m
      BY <1>1 DEF In
    <2>2. Len(q) \in Nat /\ Len(Tail(q)) = Len(q) - 1 /\ \A j \in 1 .. Len(q) - 1 : Tail(q)[j] = q[j + 1]
      BY <1>1, HeadTaken
    <2>3. k + 1 \in 1 .. Len(q) /\ q[k + 1] = m
      BY <2>1, <2>2
    <2> QED
      BY <2>3 DEF In
  <1>2. ASSUME q # <<>> PROVE In(q, Head(q))
    <2>1. Len(q) \in Nat /\ Len(q) >= 1 /\ Head(q) = q[1]
      BY <1>2, HeadTaken
    <2> QED
      BY <2>1 DEF In
  <1>3. ASSUME NEW x \in S, In(Append(q, x), m) PROVE In(q, m) \/ m = x
    <2>1. PICK k \in 1 .. Len(Append(q, x)) : Append(q, x)[k] = m
      BY <1>3 DEF In
    <2>2. /\ Len(q) \in Nat /\ Len(Append(q, x)) = Len(q) + 1 /\ Append(q, x)[Len(q) + 1] = x
          /\ \A j \in 1 .. Len(q) : Append(q, x)[j] = q[j]
      BY Appended
    <2>3. k \in 1 .. Len(q) \/ k = Len(q) + 1
      BY <2>1, <2>2
    <2> QED
      BY <2>1, <2>2, <2>3 DEF In
  <1>4. In(q, m) => m \in S
    BY Elements DEF In
  <1> QED
    BY <1>1, <1>2, <1>3, <1>4

\* What is in a queue, and what is not.
LEMMA InNone ==
    ASSUME NEW q, NEW A
    PROVE  /\ \A m \in A : In(q, m) => ~None(q, A)
           /\ ~None(q, A) => \E m \in A : In(q, m)
  BY DEF In, None

-----------------------------------------------------------------------------
(* The inductive invariant *)

DaemonMsgs == Messages({"add", "remove", "change", "success", "failure"})
PeerMsgs == Messages({"ok", "error", "set", "setnull", "call"})

\* What is about request r.
Requests(r) == {m \in PeerMsgs : m.n = r /\ m.type \in {"set", "setnull", "call"}}
Responses(r) == {m \in DaemonMsgs : m.n = r /\ m.type \in {"success", "failure"}}
Successes(r) == {m \in DaemonMsgs : m.n = r /\ m.type = "success"}
Changes(r) == {m \in DaemonMsgs : m.n = r /\ m.type = "change"}

\* What is about path p.
AddsOf(p) == {m \in DaemonMsgs : m.path = p /\ m.type = "add"}
NumberedAdds(p) == {m \in AddsOf(p) : m.n # 0}
RemovesOf(p) == {m \in DaemonMsgs : m.path = p /\ m.type = "remove"}
About(p) == {m \in DaemonMsgs : m.path = p /\ m.type \in {"add", "remove"}}
ResultsOf(p) == {m \in PeerMsgs : m.path = p /\ m.type \in {"ok", "error"}}
OksOf(p) == {m \in PeerMsgs : m.path = p /\ m.type = "ok"}
ErrorsOf(p) == {m \in PeerMsgs : m.path = p /\ m.type = "error"}

\* A path is removed without waiting for a response.
NumberedRemoves == {m \in DaemonMsgs : m.type = "remove" /\ m.n # 0}

Types ==
    /\ TypeOK
    /\ adding # NoPath => adds < MaxAdds
    /\ \A i \in 1 .. adds : addPath[i] \in Paths
    /\ None(toDaemon, NumberedRemoves)

\* A request the daemon waits for is in one place, any other in none.
Placed(r) ==
    IF routed[r] = "open" /\ r \notin ignored
    THEN \/ One(toPeer, Requests(r)) /\ None(toDaemon, Responses(r))
         \/ None(toPeer, Requests(r)) /\ One(toDaemon, Responses(r))
    ELSE None(toPeer, Requests(r)) /\ None(toDaemon, Responses(r))

Serving ==
    \A r \in Reqs :
        /\ r > reqs => routed[r] = "none"
        /\ r \in ignored => routed[r] # "none"
        /\ Placed(r)
        /\ NoneAfter(toDaemon, Changes(r), Successes(r))
        /\ routed[r] = "success" => None(toDaemon, Changes(r))

\* The daemon does not believe this peer owns p, now and until another add of p.
Down(p) ==
    \/ None(toDaemon, About(p)) /\ owner[p] # "self"
    \/ LastOf(toDaemon, About(p), RemovesOf(p))

\* The daemon believes this peer owns p, until something is sent about it.
Held(p) == None(toDaemon, About(p)) /\ owner[p] = "self"

\* The result of an add of p is waited for.
Open(p) == \E i \in openAdds : addPath[i] = p

\* The callback of p is forgotten, and a removal is about to be sent.
Leaving(p) == removing = p /\ NoneAfter(toDaemon, RemovesOf(p), NumberedAdds(p))

\* Without connection nothing is on its way and nothing is owned.
Linked == ~conn => toDaemon = <<>> /\ toPeer = <<>> /\ \A p \in Paths : owner[p] # "self"

\* Message m is about an add that was sent and is waited for, unless its path is
\* dropped.
Awaited(m) ==
    /\ m.n \in 1 .. adds /\ addPath[m.n] = m.path
    /\ m.path \in dropped \/ m.n \in openAdds \ failed

\* No more than one add of a path is waited for; a path is added when no earlier
\* add of it is waited for; a path is either added or removed.
Waiting ==
    /\ \A i, j \in openAdds : addPath[i] = addPath[j] => i = j
    /\ adding # NoPath => ~Open(adding)
    /\ removing # NoPath => adding = NoPath /\ reg[removing] = "none"
    /\ \A m \in DaemonMsgs : m.type = "add" /\ m.n # 0 /\ In(toDaemon, m) => Awaited(m)
    /\ \A m \in PeerMsgs : m.type \in {"ok", "error"} /\ In(toPeer, m) => Awaited(m)

\* The add of a path that is waited for, or its result, is in one place; no add
\* follows it, and a remove is between any two adds.
OneAdd(p) ==
    /\ AtMostOne(toDaemon, NumberedAdds(p)) /\ AtMostOne(toPeer, ResultsOf(p))
    /\ ~None(toPeer, ResultsOf(p)) => None(toDaemon, AddsOf(p))
    /\ NoneAfter(toDaemon, AddsOf(p), NumberedAdds(p))
    /\ Parted(toDaemon, AddsOf(p), RemovesOf(p))

\* What is not served, or will not be, is down.
NotServed(p) ==
    /\ reg[p] = "none" => Down(p) \/ Leaving(p)
    /\ adding = p => Down(p)
    /\ (\E i \in failed : addPath[i] = p) => Down(p)
    /\ ~None(toPeer, ErrorsOf(p)) => Down(p)
    /\ owner[p] = "self" => Preceded(toDaemon, AddsOf(p), RemovesOf(p))

\* What is served, and was added with a result callback, is held, or its add is
\* on its way.
Served(p) ==
    reg[p] # "none" =>
        /\ AddCallback = {TRUE} => adding = p \/ Open(p) \/ stopping = "states" \/ Held(p)
        /\ ~None(toPeer, OksOf(p)) => Held(p)
        /\ NoneAfter(toDaemon, RemovesOf(p), NumberedAdds(p))

Agreed(p) == OneAdd(p) /\ NotServed(p) /\ Served(p)

\* The application adds a path when it is free: it is not served, and no earlier
\* add of it is waited for.
Orderly == ~Overlap

Agreement == Linked /\ Waiting /\ \A p \in Paths \ dropped : Agreed(p)

IndInv == Types /\ Serving /\ (Orderly => Agreement)

-----------------------------------------------------------------------------
(* Types *)

\* The fields of a message.
LEMMA MsgFields ==
    ASSUME NEW t, NEW p, NEW n
    PROVE  /\ Msg(t, p, n).type = t /\ Msg(t, p, n).path = p /\ Msg(t, p, n).n = n
           /\ p \in Paths /\ n \in 0 .. MaxAdds + MaxRequests =>
                /\ t \in {"add", "remove", "change", "success", "failure"} => Msg(t, p, n) \in DaemonMsgs
                /\ t \in {"ok", "error", "set", "setnull", "call"} => Msg(t, p, n) \in PeerMsgs
  BY DEF Msg, DaemonMsgs, PeerMsgs, Messages

\* What the messages in the queues are.
LEMMA MsgTypes ==
    /\ \A m \in DaemonMsgs : /\ m.type \in {"add", "remove", "change", "success", "failure"}
                             /\ m.path \in Paths /\ m.n \in 0 .. MaxAdds + MaxRequests
    /\ \A m \in PeerMsgs : /\ m.type \in {"ok", "error", "set", "setnull", "call"}
                           /\ m.path \in Paths /\ m.n \in 0 .. MaxAdds + MaxRequests
  BY DEF DaemonMsgs, PeerMsgs, Messages

\* The type facts the proofs about the actions use.
Typing ==
    /\ reg \in [Paths -> {"none", "readonly", "callback"}]
    /\ adding \in Paths \cup {NoPath} /\ removing \in Paths \cup {NoPath} /\ NoPath \notin Paths
    /\ adds \in Nat /\ MaxAdds \in Nat /\ MaxRequests \in Nat /\ MaxLosses \in Nat
    /\ adds <= MaxAdds /\ (adding # NoPath => adds < MaxAdds)
    /\ addPath \in [Adds -> Paths \cup {NoPath}] /\ \A i \in 1 .. adds : addPath[i] \in Paths
    /\ openAdds \subseteq 1 .. adds /\ openAdds \subseteq Adds /\ failed \subseteq openAdds
    /\ conn \in BOOLEAN /\ stopping \in {"no", "states", "requests"}
    /\ losses \in Nat /\ losses <= MaxLosses
    /\ toDaemon \in Seq(DaemonMsgs) /\ toPeer \in Seq(PeerMsgs)
    /\ owner \in [Paths -> {"none", "self", "other"}]
    /\ reqs \in Nat /\ reqs <= MaxRequests
    /\ routed \in [Reqs -> {"none", "open", "silent", "success", "failure", "disconnected"}]
    /\ ignored \subseteq Reqs /\ dropped \subseteq Paths

\* The type invariant is equivalent to Typing.
LEMMA Typed ==
    ASSUME IndInv
    PROVE  Typing
  <1>1. MaxAdds \in Nat /\ MaxRequests \in Nat /\ MaxLosses \in Nat /\ NoPath \notin Paths
    BY OwnerAssumption
  <1>2. TypeOK /\ (adding # NoPath => adds < MaxAdds) /\ \A i \in 1 .. adds : addPath[i] \in Paths
    BY DEF IndInv, Types
  <1>3. adds \in 0 .. MaxAdds /\ losses \in 0 .. MaxLosses /\ reqs \in 0 .. MaxRequests
    BY <1>2 DEF TypeOK
  <1>4. 1 .. adds \subseteq Adds
    BY <1>1, <1>3 DEF Adds
  <1> QED
    BY <1>1, <1>2, <1>3, <1>4 DEF TypeOK, Typing, DaemonMsgs, PeerMsgs

\* Typing is enough for the type invariant.
LEMMA TypesFromTyping ==
    ASSUME Typing', None(toDaemon', NumberedRemoves)
    PROVE  Types'
  <1>1. adds' \in 0 .. MaxAdds /\ losses' \in 0 .. MaxLosses /\ reqs' \in 0 .. MaxRequests
    BY DEF Typing
  <1>2. TypeOK'
    BY <1>1 DEF TypeOK, Typing, DaemonMsgs, PeerMsgs
  <1>3. (adding # NoPath => adds < MaxAdds)' /\ \A i \in 1 .. adds' : addPath'[i] \in Paths
    BY DEF Typing
  <1> QED
    BY <1>2, <1>3 DEF Types

\* A callback that is unregistered, or registered, leaves reg in its type.
LEMMA Unregistered ==
    ASSUME Typing, NEW ps, Unregister(ps)
    PROVE  /\ reg' \in [Paths -> {"none", "readonly", "callback"}]
           /\ \A p \in Paths : p \in ps => reg'[p] = "none"
           /\ \A p \in Paths : p \notin ps => reg'[p] = reg[p]
  BY DEF Typing, Unregister

\* Adding a path.
LEMMA AddTypes ==
    ASSUME IndInv,
           \/ \E p \in Paths, k \in {"readonly", "callback"} : AddRegister(p, k)
           \/ \E cb \in AddCallback, sent \in BOOLEAN : AddSend(cb, sent)
    PROVE  Types'
  <1>t. Typing
    BY Typed
  <1>1. ASSUME NEW p \in Paths, NEW k \in {"readonly", "callback"}, AddRegister(p, k)
        PROVE  Types'
    <2>1. Typing'
      BY <1>1, <1>t DEF AddRegister, Register, link, daemon, Typing
    <2> QED
      BY <1>1, <2>1, TypesFromTyping DEF AddRegister, IndInv, Types
  <1>2. ASSUME NEW cb \in AddCallback, NEW sent \in BOOLEAN, AddSend(cb, sent)
        PROVE  Types'
    <2>1. adding \in Paths /\ adds + 1 \in 1 .. MaxAdds /\ adds + 1 \in Nat
      BY <1>2, <1>t DEF AddSend, Typing
    <2> DEFINE m == Msg("add", adding, IF cb THEN adds + 1 ELSE 0)
    <2>2. m \in DaemonMsgs /\ m \notin NumberedRemoves
      <3>1. (IF cb THEN adds + 1 ELSE 0) \in 0 .. MaxAdds + MaxRequests
        BY <1>t, <2>1 DEF Typing
      <3> QED
        BY <2>1, <3>1, MsgFields DEF NumberedRemoves
    <2> HIDE DEF m
    <2>3. toDaemon' = toDaemon \/ toDaemon' = Append(toDaemon, m)
      BY <1>2 DEF AddSend, m
    <2>4. /\ toDaemon' \in Seq(DaemonMsgs)
          /\ None(toDaemon', NumberedRemoves)
      <3>1. toDaemon \in Seq(DaemonMsgs) /\ None(toDaemon, NumberedRemoves)
        BY <1>t DEF IndInv, Types, Typing
      <3>2. Append(toDaemon, m) \in Seq(DaemonMsgs) /\ None(Append(toDaemon, m), NumberedRemoves)
        BY <2>2, <3>1, Sends
      <3> QED
        BY <2>3, <3>1, <3>2
    <2>5. /\ openAdds' \subseteq 1 .. adds' /\ openAdds' \subseteq Adds /\ failed' \subseteq openAdds'
          /\ adds' \in Nat /\ adds' <= MaxAdds /\ addPath' \in [Adds -> Paths \cup {NoPath}]
          /\ \A i \in 1 .. adds' : addPath'[i] \in Paths
      <3>1. adds' = adds + 1 /\ openAdds' \in {openAdds, openAdds \cup {adds + 1}}
            /\ addPath' = [addPath EXCEPT ![adds + 1] = adding]
        BY <1>2 DEF AddSend
      <3>2. failed' \subseteq openAdds'
        BY <1>2, <1>t DEF AddSend, Typing
      <3>3. \A i \in 1 .. adds' : i \in Adds /\ (i \in 1 .. adds \/ i = adds + 1)
        BY <1>t, <2>1, <3>1 DEF Typing, Adds
      <3> QED
        BY <1>t, <2>1, <3>1, <3>2, <3>3 DEF Typing, Adds
    <2>6. /\ UNCHANGED <<reg, removing, conn, stopping, losses, toPeer, owner, reqs, routed, ignored>>
          /\ adding' = NoPath /\ dropped' \in {dropped, dropped \cup {adding}}
      BY <1>2 DEF AddSend, link, daemon
    <2>7. Typing'
      BY <1>t, <2>1, <2>4, <2>5, <2>6 DEF Typing
    <2> QED
      BY <2>4, <2>7, TypesFromTyping
  <1> QED
    BY <1>1, <1>2

-----------------------------------------------------------------------------
(* Serving *)

\* Queue q becomes t when a message of one of the types comes or goes.
Moves(q, t, S, types) ==
    \/ t = q
    \/ \E m \in S : m.type \in types /\ t = Append(q, m)
    \/ q # <<>> /\ Head(q).type \in types /\ t = Tail(q)

\* Messages about paths come and go: the others stay what they are.
LEMMA DaemonQueueMoves ==
    ASSUME NEW q \in Seq(DaemonMsgs), NEW t, Moves(q, t, DaemonMsgs, {"add", "remove"}), NEW r
    PROVE  /\ t \in Seq(DaemonMsgs)
           /\ None(q, Responses(r)) => None(t, Responses(r))
           /\ One(q, Responses(r)) => One(t, Responses(r))
           /\ None(q, Changes(r)) => None(t, Changes(r))
           /\ NoneAfter(q, Changes(r), Successes(r)) => NoneAfter(t, Changes(r), Successes(r))
  <1>1. ASSUME NEW m \in DaemonMsgs, m.type \in {"add", "remove"}
        PROVE  m \notin Responses(r) /\ m \notin Changes(r) /\ m \notin Successes(r)
    BY <1>1 DEF Responses, Changes, Successes
  <1>2. ASSUME NEW m \in DaemonMsgs, m.type \in {"add", "remove"}, t = Append(q, m)
        PROVE  /\ t \in Seq(DaemonMsgs)
               /\ None(q, Responses(r)) => None(t, Responses(r))
               /\ One(q, Responses(r)) => One(t, Responses(r))
               /\ None(q, Changes(r)) => None(t, Changes(r))
               /\ NoneAfter(q, Changes(r), Successes(r)) => NoneAfter(t, Changes(r), Successes(r))
    <2>0. m \notin Responses(r) /\ m \notin Changes(r) /\ m \notin Successes(r)
      BY <1>1, <1>2
    <2>1. /\ None(q, Responses(r)) => None(Append(q, m), Responses(r))
          /\ One(q, Responses(r)) => One(Append(q, m), Responses(r))
      BY <2>0, Sends
    <2>2. /\ Append(q, m) \in Seq(DaemonMsgs)
          /\ None(q, Changes(r)) => None(Append(q, m), Changes(r))
      BY <2>0, Sends
    <2>3. NoneAfter(q, Changes(r), Successes(r)) => NoneAfter(Append(q, m), Changes(r), Successes(r))
      BY <2>0, SentLast
    <2> QED
      BY <1>2, <2>1, <2>2, <2>3
  <1>3. ASSUME q # <<>>, Head(q).type \in {"add", "remove"}, t = Tail(q)
        PROVE  /\ t \in Seq(DaemonMsgs)
               /\ None(q, Responses(r)) => None(t, Responses(r))
               /\ One(q, Responses(r)) => One(t, Responses(r))
               /\ None(q, Changes(r)) => None(t, Changes(r))
               /\ NoneAfter(q, Changes(r), Successes(r)) => NoneAfter(t, Changes(r), Successes(r))
    <2>1. Tail(q) \in Seq(DaemonMsgs) /\ Head(q) \in DaemonMsgs
      BY <1>3, HeadTaken
    <2>2. Head(q) \notin Responses(r)
      BY <1>1, <1>3, <2>1
    <2>3. /\ None(q, Responses(r)) => None(Tail(q), Responses(r))
          /\ One(q, Responses(r)) => One(Tail(q), Responses(r))
      BY <1>3, <2>2, Takes
    <2>4. None(q, Changes(r)) => None(Tail(q), Changes(r))
      BY <1>3, Takes
    <2>5. NoneAfter(q, Changes(r), Successes(r)) => NoneAfter(Tail(q), Changes(r), Successes(r))
      BY <1>3, TakenOut
    <2> QED
      BY <1>3, <2>1, <2>3, <2>4, <2>5
  <1> QED
    BY <1>2, <1>3 DEF Moves

\* Results come and go: the requests stay what they are.
LEMMA PeerQueueMoves ==
    ASSUME NEW q \in Seq(PeerMsgs), NEW t, Moves(q, t, PeerMsgs, {"ok", "error"}), NEW r
    PROVE  /\ t \in Seq(PeerMsgs)
           /\ None(q, Requests(r)) => None(t, Requests(r))
           /\ One(q, Requests(r)) => One(t, Requests(r))
  <1>1. ASSUME NEW m \in PeerMsgs, m.type \in {"ok", "error"}
        PROVE  m \notin Requests(r)
    BY <1>1 DEF Requests
  <1>2. ASSUME NEW m \in PeerMsgs, m.type \in {"ok", "error"}, t = Append(q, m)
        PROVE  /\ t \in Seq(PeerMsgs)
               /\ None(q, Requests(r)) => None(t, Requests(r))
               /\ One(q, Requests(r)) => One(t, Requests(r))
    <2>1. m \notin Requests(r)
      BY <1>1, <1>2
    <2>2. /\ Append(q, m) \in Seq(PeerMsgs)
          /\ None(q, Requests(r)) => None(Append(q, m), Requests(r))
          /\ One(q, Requests(r)) => One(Append(q, m), Requests(r))
      BY <2>1, Sends
    <2> QED
      BY <1>2, <2>2
  <1>3. ASSUME q # <<>>, Head(q).type \in {"ok", "error"}, t = Tail(q)
        PROVE  /\ t \in Seq(PeerMsgs)
               /\ None(q, Requests(r)) => None(t, Requests(r))
               /\ One(q, Requests(r)) => One(t, Requests(r))
    <2>1. Tail(q) \in Seq(PeerMsgs) /\ Head(q) \in PeerMsgs
      BY <1>3, HeadTaken
    <2>2. Head(q) \notin Requests(r)
      BY <1>1, <1>3, <2>1
    <2>3. /\ None(q, Requests(r)) => None(Tail(q), Requests(r))
          /\ One(q, Requests(r)) => One(Tail(q), Requests(r))
      BY <1>3, <2>2, Takes
    <2> QED
      BY <1>3, <2>1, <2>3
  <1> QED
    BY <1>2, <1>3 DEF Moves

\* Messages about paths come and go: requests are where they were.
LEMMA ServingKept ==
    ASSUME IndInv,
           Moves(toDaemon, toDaemon', DaemonMsgs, {"add", "remove"}),
           Moves(toPeer, toPeer', PeerMsgs, {"ok", "error"}),
           UNCHANGED <<reqs, routed, ignored>>
    PROVE  /\ toDaemon' \in Seq(DaemonMsgs) /\ toPeer' \in Seq(PeerMsgs)
           /\ Serving'
  <1>t. toDaemon \in Seq(DaemonMsgs) /\ toPeer \in Seq(PeerMsgs)
    BY Typed DEF Typing
  <1>1. toDaemon' \in Seq(DaemonMsgs) /\ toPeer' \in Seq(PeerMsgs)
    BY <1>t, DaemonQueueMoves, PeerQueueMoves
  <1>2. ASSUME NEW r \in Reqs
        PROVE  /\ Placed(r)'
               /\ NoneAfter(toDaemon', Changes(r), Successes(r))
               /\ routed[r] = "success" => None(toDaemon', Changes(r))
    <2>1. /\ Placed(r) /\ NoneAfter(toDaemon, Changes(r), Successes(r))
          /\ routed[r] = "success" => None(toDaemon, Changes(r))
      BY DEF IndInv, Serving
    <2>2. /\ None(toDaemon, Responses(r)) => None(toDaemon', Responses(r))
          /\ One(toDaemon, Responses(r)) => One(toDaemon', Responses(r))
          /\ None(toDaemon, Changes(r)) => None(toDaemon', Changes(r))
          /\ NoneAfter(toDaemon, Changes(r), Successes(r)) => NoneAfter(toDaemon', Changes(r), Successes(r))
      BY <1>t, DaemonQueueMoves
    <2>3. /\ None(toPeer, Requests(r)) => None(toPeer', Requests(r))
          /\ One(toPeer, Requests(r)) => One(toPeer', Requests(r))
      BY <1>t, PeerQueueMoves
    <2> QED
      BY <2>1, <2>2, <2>3 DEF Placed
  <1>3. Serving'
    BY <1>2 DEF IndInv, Serving
  <1> QED
    BY <1>1, <1>3

\* A path is added.
LEMMA AddBase ==
    ASSUME IndInv,
           \/ \E p \in Paths, k \in {"readonly", "callback"} : AddRegister(p, k)
           \/ \E cb \in AddCallback, sent \in BOOLEAN : AddSend(cb, sent)
    PROVE  Types' /\ Serving'
  <1>t. Typing
    BY Typed
  <1>1. UNCHANGED <<toPeer, reqs, routed, ignored>>
    BY DEF AddRegister, AddSend, daemon
  <1>2. Moves(toDaemon, toDaemon', DaemonMsgs, {"add", "remove"})
    <2>1. CASE toDaemon' = toDaemon
      BY <2>1 DEF Moves
    <2>2. ASSUME NEW cb \in AddCallback, NEW sent \in BOOLEAN, AddSend(cb, sent), toDaemon' # toDaemon
          PROVE  Moves(toDaemon, toDaemon', DaemonMsgs, {"add", "remove"})
      <3> DEFINE m == Msg("add", adding, IF cb THEN adds + 1 ELSE 0)
      <3>1. toDaemon' = Append(toDaemon, m)
        BY <2>2 DEF AddSend
      <3>2. adding \in Paths /\ (IF cb THEN adds + 1 ELSE 0) \in 0 .. MaxAdds + MaxRequests
        BY <1>t, <2>2 DEF AddSend, Typing
      <3>3. m \in DaemonMsgs /\ m.type = "add"
        BY <3>2, MsgFields
      <3> HIDE DEF m
      <3> QED
        BY <3>1, <3>3 DEF Moves
    <2>3. (\E p \in Paths, k \in {"readonly", "callback"} : AddRegister(p, k)) => toDaemon' = toDaemon
      BY DEF AddRegister
    <2> QED
      BY <2>1, <2>2, <2>3
  <1>3. Moves(toPeer, toPeer', PeerMsgs, {"ok", "error"})
    BY <1>1 DEF Moves
  <1> QED
    BY <1>1, <1>2, <1>3, AddTypes, ServingKept

\* A path is removed.
LEMMA RemoveBase ==
    ASSUME IndInv, RemoveSend \/ \E p \in Paths : RemoveUnregister(p)
    PROVE  Types' /\ Serving'
  <1>t. Typing
    BY Typed
  <1>0. PICK p \in Paths : RemoveUnregister(p) \/ (RemoveSend /\ removing = p)
    BY <1>t DEF RemoveSend, Typing
  <1> DEFINE m == Msg("remove", p, 0)
  <1>1. /\ UNCHANGED <<adding, adds, addPath, openAdds, failed, conn, stopping, losses,
                       toPeer, owner, reqs, routed, ignored, dropped>>
        /\ removing' \in {p, NoPath}
        /\ Unregister({p}) \/ UNCHANGED reg
        /\ toDaemon' = toDaemon \/ toDaemon' = Append(toDaemon, m)
    BY <1>0 DEF RemoveUnregister, RemoveSend, link, daemon
  <1>2. m \in DaemonMsgs /\ m.type = "remove" /\ m.n = 0
    <2>1. 0 \in 0 .. MaxAdds + MaxRequests
      BY <1>t DEF Typing
    <2> QED
      BY <2>1, MsgFields
  <1> HIDE DEF m
  <1>3. m \notin NumberedRemoves
    BY <1>2 DEF NumberedRemoves
  <1>4. toDaemon \in Seq(DaemonMsgs) /\ None(toDaemon, NumberedRemoves)
    BY <1>t DEF IndInv, Types, Typing
  <1>5. None(Append(toDaemon, m), NumberedRemoves)
    BY <1>2, <1>3, <1>4, Sends
  <1>6. None(toDaemon', NumberedRemoves)
    BY <1>1, <1>4, <1>5
  <1>7. Moves(toDaemon, toDaemon', DaemonMsgs, {"add", "remove"})
    BY <1>1, <1>2 DEF Moves
  <1>8. Moves(toPeer, toPeer', PeerMsgs, {"ok", "error"})
    BY <1>1 DEF Moves
  <1>9. toDaemon' \in Seq(DaemonMsgs) /\ Serving'
    BY <1>1, <1>7, <1>8, ServingKept
  <1>10. reg' \in [Paths -> {"none", "readonly", "callback"}]
    BY <1>t, <1>1, Unregistered DEF Typing
  <1>11. Typing'
    BY <1>t, <1>1, <1>9, <1>10 DEF Typing
  <1> QED
    BY <1>6, <1>9, <1>11, TypesFromTyping

\* A result callback is called, or all of them by stop().
LEMMA ResultBase ==
    ASSUME IndInv,
           \/ HandleAddResult
           \/ \E i \in Adds, x \in 0 .. MaxAdds : HandleAddFailed(i, x)
           \/ StopClearsStates
           \/ StopCancelsRequests
           \/ OtherPeerStops
    PROVE  Types' /\ Serving'
  <1>t. Typing
    BY Typed
  <1>1. UNCHANGED <<adding, removing, adds, addPath, conn, losses, toDaemon, owner, reqs, routed, ignored>>
    BY DEF HandleAddResult, HandleAddFailed, StopClearsStates, StopCancelsRequests, OtherPeerStops, link, daemon
  <1>2. /\ openAdds' \subseteq openAdds /\ failed' \subseteq openAdds' /\ stopping' \in {"no", "states", "requests"}
        /\ \E ps : Unregister(ps)
    <2>1. CASE HandleAddResult
      BY <1>t, <2>1 DEF HandleAddResult, AddResult, link, Typing
    <2>2. CASE \E i \in Adds, x \in 0 .. MaxAdds : HandleAddFailed(i, x)
      BY <1>t, <2>2 DEF HandleAddFailed, link, Typing
    <2>3. CASE StopClearsStates
      BY <1>t, <2>3 DEF StopClearsStates, Typing
    <2>4. CASE StopCancelsRequests \/ OtherPeerStops
      BY <1>t, <2>4 DEF StopCancelsRequests, OtherPeerStops, Clear, link, Typing
    <2> QED
      BY <2>1, <2>2, <2>3, <2>4
  <1>d. dropped' \subseteq Paths
    <2>1. CASE UNCHANGED dropped
      BY <1>t, <2>1 DEF Typing
    <2>2. ASSUME NEW ps, Drops(ps), ps \subseteq Paths PROVE dropped' \subseteq Paths
      BY <1>t, <2>2 DEF Drops, Typing
    <2>3. \A i \in openAdds : addPath[i] \in Paths
      BY <1>t DEF Typing
    <2>4. ASSUME Clear PROVE dropped' \subseteq Paths
      BY <2>2, <2>3, <2>4 DEF Clear
    <2>5. ASSUME NEW i, NEW x, HandleAddFailed(i, x) PROVE dropped' \subseteq Paths
      <3>1. (IF x = 0 \/ x \in failed THEN {} ELSE {addPath[x]}) \subseteq Paths
        BY <2>3, <2>5 DEF HandleAddFailed
      <3> QED
        BY <2>2, <2>5, <3>1 DEF HandleAddFailed
    <2>6. ASSUME StopClearsStates PROVE dropped' \subseteq Paths
      BY <2>2, <2>6 DEF StopClearsStates
    <2> QED
      BY <2>1, <2>4, <2>5, <2>6 DEF HandleAddResult, StopCancelsRequests, OtherPeerStops
  <1>3. Moves(toPeer, toPeer', PeerMsgs, {"ok", "error"})
    <2>1. ASSUME HandleAddResult PROVE toPeer # <<>> /\ Head(toPeer).type \in {"ok", "error"} /\ toPeer' = Tail(toPeer)
      BY <2>1 DEF HandleAddResult, Receiving
    <2>2. HandleAddResult \/ toPeer' = toPeer
      BY DEF HandleAddFailed, StopClearsStates, StopCancelsRequests, OtherPeerStops
    <2> QED
      BY <2>1, <2>2 DEF Moves
  <1>4. Moves(toDaemon, toDaemon', DaemonMsgs, {"add", "remove"})
    BY <1>1 DEF Moves
  <1>5. toPeer' \in Seq(PeerMsgs) /\ Serving'
    BY <1>1, <1>3, <1>4, ServingKept
  <1>6. reg' \in [Paths -> {"none", "readonly", "callback"}]
    BY <1>t, <1>2, Unregistered
  <1>7. Typing'
    BY <1>t, <1>1, <1>2, <1>d, <1>5, <1>6 DEF Typing
  <1>8. None(toDaemon', NumberedRemoves)
    BY <1>1 DEF IndInv, Types
  <1> QED
    BY <1>5, <1>7, <1>8, TypesFromTyping

\* The daemon adds or removes a path.
LEMMA DaemonBase ==
    ASSUME IndInv, DaemonAdds \/ DaemonRemoves
    PROVE  Types' /\ Serving'
  <1>t. Typing
    BY Typed
  <1> DEFINE m == Head(toDaemon)
  <1>1. /\ UNCHANGED <<reg, adding, removing, adds, addPath, openAdds, failed, conn, stopping, losses, reqs, routed,
                       ignored, dropped>>
        /\ toDaemon # <<>> /\ m.type \in {"add", "remove"} /\ toDaemon' = Tail(toDaemon)
    BY DEF DaemonAdds, DaemonRemoves, Processing, peer, link
  <1>2. m \in DaemonMsgs /\ None(Tail(toDaemon), NumberedRemoves)
    <2>1. toDaemon \in Seq(DaemonMsgs) /\ None(toDaemon, NumberedRemoves)
      BY <1>t DEF IndInv, Types, Typing
    <2> QED
      BY <1>1, <2>1, Takes
  <1>3. owner' \in [Paths -> {"none", "self", "other"}]
    BY <1>t, <1>2, MsgTypes DEF DaemonAdds, DaemonRemoves, Typing
  <1>4. Moves(toPeer, toPeer', PeerMsgs, {"ok", "error"})
    <2> DEFINE a == Msg(IF owner[m.path] = "none" THEN "ok" ELSE "error", m.path, m.n)
    <2>1. a \in PeerMsgs /\ a.type \in {"ok", "error"}
      BY <1>2, MsgFields, MsgTypes
    <2>2. toPeer' = toPeer \/ toPeer' = Append(toPeer, a)
      BY DEF DaemonAdds, DaemonRemoves
    <2> HIDE DEF a
    <2> QED
      BY <2>1, <2>2 DEF Moves
  <1>5. Moves(toDaemon, toDaemon', DaemonMsgs, {"add", "remove"})
    BY <1>1 DEF Moves
  <1>6. toDaemon' \in Seq(DaemonMsgs) /\ toPeer' \in Seq(PeerMsgs) /\ Serving'
    BY <1>1, <1>4, <1>5, ServingKept
  <1>7. Typing'
    BY <1>t, <1>1, <1>3, <1>6 DEF Typing
  <1> QED
    BY <1>1, <1>2, <1>6, <1>7, TypesFromTyping

\* The peer connects again, another peer adds or removes a path, nothing happens.
LEMMA OtherBase ==
    ASSUME IndInv, Resume \/ (\E p \in Paths : OtherPeer(p)) \/ UNCHANGED vars
    PROVE  Types' /\ Serving'
  <1>t. Typing
    BY Typed
  <1>1. /\ UNCHANGED <<reg, adding, removing, adds, addPath, openAdds, failed, stopping, losses, toDaemon, toPeer,
                       reqs, routed, ignored, dropped>>
        /\ conn' \in {conn, TRUE}
    BY DEF Resume, OtherPeer, vars, peer, link, daemon
  <1>2. owner' \in [Paths -> {"none", "self", "other"}]
    BY <1>t DEF Resume, OtherPeer, vars, daemon, Typing
  <1>3. Typing'
    BY <1>t, <1>1, <1>2 DEF Typing
  <1>4. None(toDaemon', NumberedRemoves)
    BY <1>1 DEF IndInv, Types
  <1>5. Serving'
    BY <1>1 DEF IndInv, Serving, Placed
  <1> QED
    BY <1>3, <1>4, <1>5, TypesFromTyping

\* The connection is lost: no message is left, and no request is open.
LEMMA LostBase ==
    ASSUME IndInv, ConnectionLost
    PROVE  Types' /\ Serving'
  <1>t. Typing
    BY Typed
  <1>1. /\ UNCHANGED <<reg, adding, removing, adds, addPath, openAdds, failed, reqs, ignored>> /\ dropped' = {}
        /\ losses < MaxLosses /\ losses' = losses + 1
        /\ conn' = FALSE /\ stopping' = "states" /\ toDaemon' = <<>> /\ toPeer' = <<>>
        /\ owner' = [p \in Paths |-> IF owner[p] = "self" THEN "none" ELSE owner[p]]
        /\ routed' = [r \in Reqs |-> IF routed[r] = "open" THEN "disconnected" ELSE routed[r]]
    BY DEF ConnectionLost, peer
  <1>2. losses' \in Nat /\ losses' <= MaxLosses
    BY <1>t, <1>1 DEF Typing
  <1>3. Typing'
    <2>1. owner' \in [Paths -> {"none", "self", "other"}]
      BY <1>t, <1>1 DEF Typing
    <2>2. routed' \in [Reqs -> {"none", "open", "silent", "success", "failure", "disconnected"}]
      BY <1>t, <1>1 DEF Typing
    <2>3. toDaemon' \in Seq(DaemonMsgs) /\ toPeer' \in Seq(PeerMsgs)
      BY <1>1
    <2> QED
      BY <1>t, <1>1, <1>2, <2>1, <2>2, <2>3 DEF Typing
  <1>4. \A A, B : None(toDaemon', A) /\ None(toPeer', A) /\ NoneAfter(toDaemon', A, B)
    BY <1>1, EmptyQueue
  <1>5. \A r \in Reqs : /\ routed'[r] # "open" /\ (routed'[r] = "none" <=> routed[r] = "none")
                        /\ r > reqs => routed[r] = "none"
                        /\ r \in ignored => routed[r] # "none"
    BY <1>1 DEF IndInv, Serving
  <1>6. Serving'
    BY <1>1, <1>4, <1>5 DEF Serving, Placed
  <1> QED
    BY <1>3, <1>4, <1>6, TypesFromTyping

\* Another peer makes a request: it is in the queue, and nothing answers it yet.
LEMMA RouteBase ==
    ASSUME IndInv, NEW p \in Paths, NEW t \in {"set", "setnull", "call"}, NEW wants \in BOOLEAN,
           RouteRequest(p, t, wants)
    PROVE  Types' /\ Serving'
  <1>t. Typing
    BY Typed
  <1>0. PICK new \in Reqs : new = reqs + 1
    BY <1>t DEF RouteRequest, Typing, Reqs
  <1> DEFINE n == IF wants THEN new ELSE 0
  <1> DEFINE m == Msg(t, p, n)
  <1>1. /\ UNCHANGED <<reg, adding, removing, adds, addPath, openAdds, failed, conn, stopping, losses,
                       toDaemon, owner, ignored, dropped>>
        /\ reqs < MaxRequests /\ reqs' = new /\ toPeer' = Append(toPeer, m)
        /\ routed' = [routed EXCEPT ![new] = IF wants THEN "open" ELSE "silent"]
    BY <1>0 DEF RouteRequest, peer, link
  <1>2. new \in Reqs /\ n \in 0 .. MaxAdds + MaxRequests /\ reqs' \in Nat /\ reqs' <= MaxRequests
        /\ (wants => n = new) /\ (~wants => n = 0) /\ new # 0
    BY <1>t, <1>0, <1>1 DEF Typing, Reqs
  <1>3. m \in PeerMsgs /\ m.n = n /\ m.type = t
    BY <1>2, MsgFields
  <1> HIDE DEF m, n
  <1>4. toPeer \in Seq(PeerMsgs) /\ toPeer' \in Seq(PeerMsgs)
    BY <1>t, <1>1, <1>3, Appended DEF Typing
  <1>5. routed' \in [Reqs -> {"none", "open", "silent", "success", "failure", "disconnected"}]
        /\ routed'[new] = (IF wants THEN "open" ELSE "silent")
        /\ \A r \in Reqs \ {new} : routed'[r] = routed[r]
    BY <1>t, <1>1, <1>2 DEF Typing
  <1>6. Typing'
    BY <1>t, <1>1, <1>2, <1>4, <1>5 DEF Typing
  <1>7. None(toDaemon', NumberedRemoves)
    BY <1>1 DEF IndInv, Types
  <1>8. ASSUME NEW r \in Reqs, r # new
        PROVE  Placed(r)'
    <2>1. m \notin Requests(r)
      <3>1. r # 0
        BY DEF Reqs
      <3> QED
        BY <1>2, <1>3, <1>8, <3>1 DEF Requests
    <2>2. /\ None(toPeer, Requests(r)) => None(Append(toPeer, m), Requests(r))
          /\ One(toPeer, Requests(r)) => One(Append(toPeer, m), Requests(r))
      BY <1>3, <1>4, <2>1, Sends
    <2>3. Placed(r)
      BY DEF IndInv, Serving
    <2> QED
      BY <1>1, <1>5, <1>8, <2>2, <2>3 DEF Placed
  <1>9. /\ None(toPeer, Requests(new)) /\ None(toDaemon, Responses(new)) /\ new \notin ignored
        /\ NoneAfter(toDaemon, Changes(new), Successes(new))
    <2>1. new > reqs
      BY <1>t, <1>0 DEF Typing
    <2>2. routed[new] = "none"
      BY <1>2, <2>1 DEF IndInv, Serving
    <2> QED
      BY <1>2, <2>2 DEF IndInv, Serving, Placed
  <1>10. Placed(new)'
    <2>1. CASE wants
      <3>1. m \in Requests(new)
        BY <1>2, <1>3, <2>1 DEF Requests
      <3>2. One(Append(toPeer, m), Requests(new))
        BY <1>3, <1>4, <1>9, <3>1, Sends
      <3> QED
        BY <1>1, <1>5, <1>9, <2>1, <3>2 DEF Placed
    <2>2. CASE ~wants
      <3>1. m \notin Requests(new)
        BY <1>2, <1>3, <2>2 DEF Requests
      <3>2. None(Append(toPeer, m), Requests(new))
        BY <1>3, <1>4, <1>9, <3>1, Sends
      <3> QED
        BY <1>1, <1>5, <1>9, <2>2, <3>2 DEF Placed
    <2> QED
      BY <2>1, <2>2
  <1>11. ASSUME NEW r \in Reqs
         PROVE  /\ r > reqs' => routed'[r] = "none"
                /\ r \in ignored' => routed'[r] # "none"
                /\ NoneAfter(toDaemon', Changes(r), Successes(r))
                /\ routed'[r] = "success" => None(toDaemon', Changes(r))
    <2>1. CASE r = new
      <3>1. ~(r > reqs')
        BY <1>t, <1>0, <1>1, <2>1 DEF Typing
      <3> QED
        BY <1>1, <1>5, <1>9, <2>1, <3>1
    <2>2. CASE r # new
      <3>1. r > reqs' => r > reqs
        BY <1>t, <1>0, <1>1 DEF Typing, Reqs
      <3> QED
        BY <1>1, <1>5, <2>2, <3>1 DEF IndInv, Serving
    <2> QED
      BY <2>1, <2>2
  <1>12. \A r \in Reqs : Placed(r)'
    BY <1>8, <1>10
  <1>13. Serving'
    BY <1>11, <1>12 DEF Serving
  <1> QED
    BY <1>6, <1>7, <1>13, TypesFromTyping

\* The daemon routes a response back, or distributes a change.
LEMMA RoutesBackBase ==
    ASSUME IndInv, DaemonRoutesBack
    PROVE  Types' /\ Serving'
  <1>t. Typing
    BY Typed
  <1> DEFINE m == Head(toDaemon)
  <1>1. /\ UNCHANGED <<reg, adding, removing, adds, addPath, openAdds, failed, conn, stopping, losses,
                       toPeer, owner, reqs, ignored, dropped>>
        /\ toDaemon # <<>> /\ m.type \in {"change", "success", "failure"} /\ toDaemon' = Tail(toDaemon)
        /\ routed' = [r \in Reqs |-> IF r = m.n /\ m.type # "change" /\ routed[r] = "open"
                                     THEN m.type ELSE routed[r]]
    BY DEF DaemonRoutesBack, Processing, peer, link
  <1>2. toDaemon \in Seq(DaemonMsgs) /\ None(toDaemon, NumberedRemoves)
    BY <1>t DEF IndInv, Types, Typing
  <1>3. m \in DaemonMsgs /\ Tail(toDaemon) \in Seq(DaemonMsgs) /\ None(Tail(toDaemon), NumberedRemoves)
    BY <1>1, <1>2, Takes
  <1> HIDE DEF m
  <1>4. routed' \in [Reqs -> {"none", "open", "silent", "success", "failure", "disconnected"}]
    BY <1>t, <1>1 DEF Typing
  <1>5. Typing'
    BY <1>t, <1>1, <1>3, <1>4 DEF Typing
  <1>6. ASSUME NEW r \in Reqs
        PROVE  /\ Placed(r)'
               /\ NoneAfter(toDaemon', Changes(r), Successes(r))
               /\ routed'[r] = "success" => None(toDaemon', Changes(r))
               /\ routed'[r] = "none" <=> routed[r] = "none"
    <2>0. /\ Placed(r) /\ NoneAfter(toDaemon, Changes(r), Successes(r))
          /\ routed[r] = "success" => None(toDaemon, Changes(r))
      BY DEF IndInv, Serving
    <2>1. /\ None(toDaemon, Responses(r)) => None(Tail(toDaemon), Responses(r)) /\ m \notin Responses(r)
          /\ One(toDaemon, Responses(r)) /\ m \notin Responses(r) => One(Tail(toDaemon), Responses(r))
          /\ One(toDaemon, Responses(r)) /\ m \in Responses(r) => None(Tail(toDaemon), Responses(r))
      BY <1>1, <1>2, Takes DEF m
    <2>2. None(toDaemon, Changes(r)) => None(Tail(toDaemon), Changes(r))
      BY <1>1, <1>2, Takes
    <2>3. /\ NoneAfter(Tail(toDaemon), Changes(r), Successes(r))
          /\ m \in Successes(r) => None(Tail(toDaemon), Changes(r))
      BY <1>1, <1>2, <2>0, TakenOut DEF m
    <2>4. CASE m \in Responses(r)
      <3>1. /\ routed[r] = "open" /\ r \notin ignored /\ None(toPeer, Requests(r))
            /\ None(Tail(toDaemon), Responses(r))
        BY <2>0, <2>1, <2>4 DEF Placed
      <3>2. r = m.n /\ m.type \in {"success", "failure"} /\ (m.type = "success" => m \in Successes(r))
        BY <1>3, <2>4 DEF Responses, Successes
      <3>3. routed'[r] = m.type
        BY <1>1, <3>1, <3>2
      <3>4. Placed(r)'
        BY <1>1, <3>1, <3>2, <3>3 DEF Placed
      <3> QED
        BY <1>1, <2>3, <3>1, <3>2, <3>3, <3>4
    <2>5. CASE m \notin Responses(r)
      <3>1. routed'[r] = routed[r]
        BY <1>1, <1>3, <2>5 DEF Responses
      <3>2. Placed(r)'
        BY <1>1, <2>0, <2>1, <2>5, <3>1 DEF Placed
      <3> QED
        BY <1>1, <2>0, <2>2, <2>3, <3>1, <3>2
    <2> QED
      BY <2>4, <2>5
  <1>7. Serving'
    BY <1>1, <1>6 DEF IndInv, Serving
  <1> QED
    BY <1>1, <1>3, <1>5, <1>7, TypesFromTyping

\* The notification and the response are sent one after the other.
LEMMA AnswerSent ==
    ASSUME NEW q \in Seq(DaemonMsgs), NEW m \in PeerMsgs, NEW o
    PROVE  LET q1 == q \o Notification(m, o)
               t == q \o Answer(m, o)
           IN /\ q1 \in Seq(DaemonMsgs) /\ t \in Seq(DaemonMsgs)
              /\ \/ o \notin {"notify", "remove"} /\ q1 = q
                 \/ o = "notify" /\ q1 = Append(q, Msg("change", m.path, m.n))
                 \/ o = "remove" /\ q1 = Append(q, Msg("remove", m.path, 0))
              /\ \/ (m.n = 0 \/ o = "unsendable") /\ t = q1
                 \/ ~(m.n = 0 \/ o = "unsendable") /\ t = Append(q1, Msg(Verdict(o), m.path, m.n))
  <1> DEFINE c == Msg("change", m.path, m.n)
  <1> DEFINE d == Msg("remove", m.path, 0)
  <1> DEFINE a == Msg(Verdict(o), m.path, m.n)
  <1> DEFINE ns == Notification(m, o)
  <1> DEFINE rs == Response(m, o)
  <1>1. c \in DaemonMsgs /\ d \in DaemonMsgs /\ a \in DaemonMsgs
    <2>1. m.path \in Paths /\ m.n \in 0 .. MaxAdds + MaxRequests /\ 0 \in 0 .. MaxAdds + MaxRequests
      BY MsgTypes, OwnerAssumption
    <2>2. Verdict(o) \in {"success", "failure"}
      BY DEF Verdict
    <2> QED
      BY <2>1, <2>2, MsgFields
  <1>2. \/ o \notin {"notify", "remove"} /\ ns = <<>>
        \/ o = "notify" /\ ns = <<c>>
        \/ o = "remove" /\ ns = <<d>>
    BY DEF Notification
  <1>3. \/ (m.n = 0 \/ o = "unsendable") /\ rs = <<>>
        \/ ~(m.n = 0 \/ o = "unsendable") /\ rs = <<a>>
    BY DEF Response
  <1>5. Answer(m, o) = ns \o rs
    BY DEF Answer
  <1> HIDE DEF c, d, a, ns, rs
  <1>4. ns \in Seq(DaemonMsgs) /\ rs \in Seq(DaemonMsgs)
    <2>1. <<c>> \in Seq(DaemonMsgs) /\ <<d>> \in Seq(DaemonMsgs) /\ <<a>> \in Seq(DaemonMsgs)
          /\ <<>> \in Seq(DaemonMsgs)
      BY <1>1
    <2> QED
      BY <1>2, <1>3, <2>1
  <1>6. q \o (ns \o rs) = (q \o ns) \o rs
    BY <1>4, ConcatAssociative
  <1>7. q \o ns \in Seq(DaemonMsgs) /\ q \o (ns \o rs) \in Seq(DaemonMsgs)
    BY <1>4, <1>6, Joined
  <1>8. /\ q \o <<>> = q /\ (q \o ns) \o <<>> = q \o ns
        /\ Append(q, c) = q \o <<c>> /\ Append(q, d) = q \o <<d>> /\ Append(q \o ns, a) = (q \o ns) \o <<a>>
    BY <1>1, <1>7, ConcatEmptySeq, AppendIsConcat
  <1> QED
    BY <1>2, <1>3, <1>5, <1>6, <1>7, <1>8 DEF c, d, a, ns

\* The peer takes a request and answers it, or ignores it.
LEMMA RequestBase ==
    ASSUME IndInv,
           IgnoreRequest \/ \E o \in StateOutcomes \cup MethodOutcomes : HandleRequest(o)
    PROVE  Types' /\ Serving'
  <1>t. Typing
    BY Typed
  <1> DEFINE m == Head(toPeer)
  <1>1. /\ UNCHANGED <<adding, removing, adds, addPath, openAdds, failed, conn, stopping, losses, owner, reqs,
                       routed, dropped>>
        /\ toPeer # <<>> /\ m.type \in {"set", "setnull", "call"} /\ toPeer' = Tail(toPeer)
    BY DEF IgnoreRequest, HandleRequest, Receiving, peer, link, daemon
  <1>2. toPeer \in Seq(PeerMsgs) /\ toDaemon \in Seq(DaemonMsgs) /\ None(toDaemon, NumberedRemoves)
    BY <1>t DEF IndInv, Types, Typing
  <1>3. m \in PeerMsgs /\ Tail(toPeer) \in Seq(PeerMsgs)
    BY <1>1, <1>2, HeadTaken
  <1>4. reg' \in [Paths -> {"none", "readonly", "callback"}]
    <2>1. CASE IgnoreRequest
      BY <1>t, <2>1 DEF IgnoreRequest, peer, Typing
    <2>2. ASSUME NEW o, HandleRequest(o)
          PROVE  \E ps : Unregister(ps)
      BY <2>2 DEF HandleRequest
    <2> QED
      BY <1>t, <2>1, <2>2, Unregistered
  <1>5. \E q1 \in Seq(DaemonMsgs), x \in DaemonMsgs, a \in DaemonMsgs :
           /\ x \notin NumberedRemoves /\ a.type \in {"success", "failure"} /\ a.n = m.n
           /\ x.type = "remove" \/ (x.type = "change" /\ x.n = m.n)
           /\ q1 = toDaemon \/ q1 = Append(toDaemon, x)
           /\ \/ toDaemon' = q1 /\ ignored' = ignored \cup ({m.n} \cap Reqs)
              \/ toDaemon' = Append(q1, a) /\ ignored' = ignored
              \/ m.n = 0 /\ toDaemon' = q1 /\ ignored' = ignored
    <2> DEFINE d == Msg("remove", m.path, 0)
    <2> DEFINE c == Msg("change", m.path, m.n)
    <2>0. m.path \in Paths /\ m.n \in 0 .. MaxAdds + MaxRequests /\ 0 \in 0 .. MaxAdds + MaxRequests
      BY <1>3, <1>t, MsgTypes DEF Typing
    <2>1. /\ d \in DaemonMsgs /\ d \notin NumberedRemoves /\ d.type = "remove"
          /\ c \in DaemonMsgs /\ c \notin NumberedRemoves /\ c.type = "change" /\ c.n = m.n
      BY <2>0, MsgFields DEF NumberedRemoves
    <2>2. CASE IgnoreRequest
      <3> DEFINE a == Msg("success", m.path, m.n)
      <3>1. a \in DaemonMsgs /\ a.type = "success" /\ a.n = m.n
        BY <2>0, MsgFields
      <3>2. toDaemon' = toDaemon /\ ignored' = ignored \cup ({m.n} \cap Reqs)
        BY <2>2 DEF IgnoreRequest
      <3> HIDE DEF a, d, c, m
      <3> QED
        BY <1>2, <2>1, <3>1, <3>2
    <2>3. ASSUME NEW o, HandleRequest(o)
          PROVE  \E q1 \in Seq(DaemonMsgs), x \in DaemonMsgs, a \in DaemonMsgs :
                   /\ x \notin NumberedRemoves /\ a.type \in {"success", "failure"} /\ a.n = m.n
                   /\ x.type = "remove" \/ (x.type = "change" /\ x.n = m.n)
                   /\ q1 = toDaemon \/ q1 = Append(toDaemon, x)
                   /\ \/ toDaemon' = q1 /\ ignored' = ignored \cup ({m.n} \cap Reqs)
                      \/ toDaemon' = Append(q1, a) /\ ignored' = ignored
                      \/ m.n = 0 /\ toDaemon' = q1 /\ ignored' = ignored
      <3> DEFINE a == Msg(Verdict(o), m.path, m.n)
      <3> DEFINE q1 == toDaemon \o Notification(m, o)
      <3>1. a \in DaemonMsgs /\ a.type \in {"success", "failure"} /\ a.n = m.n
        BY <2>0, MsgFields DEF Verdict
      <3>2. /\ toDaemon' = toDaemon \o Answer(m, o)
            /\ o = "unsendable" => ignored' = ignored \cup ({m.n} \cap Reqs)
            /\ o # "unsendable" => ignored' = ignored
        BY <2>3 DEF HandleRequest
      <3>3. /\ q1 \in Seq(DaemonMsgs)
            /\ \/ o \notin {"notify", "remove"} /\ q1 = toDaemon
               \/ o = "notify" /\ q1 = Append(toDaemon, c)
               \/ o = "remove" /\ q1 = Append(toDaemon, d)
            /\ \/ (m.n = 0 \/ o = "unsendable") /\ toDaemon' = q1
               \/ ~(m.n = 0 \/ o = "unsendable") /\ toDaemon' = Append(q1, a)
        BY <1>2, <1>3, <3>2, AnswerSent
      <3> HIDE DEF a, d, c, m, q1
      <3>4. \/ toDaemon' = q1 /\ ignored' = ignored \cup ({m.n} \cap Reqs)
            \/ toDaemon' = Append(q1, a) /\ ignored' = ignored
            \/ m.n = 0 /\ toDaemon' = q1 /\ ignored' = ignored
        BY <3>2, <3>3
      <3>5. \E x \in DaemonMsgs : /\ x \notin NumberedRemoves
                                  /\ x.type = "remove" \/ (x.type = "change" /\ x.n = m.n)
                                  /\ q1 = toDaemon \/ q1 = Append(toDaemon, x)
        BY <2>1, <3>3
      <3> QED
        BY <3>1, <3>3, <3>4, <3>5
    <2> QED
      BY <2>2, <2>3
  <1>6. PICK q1 \in Seq(DaemonMsgs), x \in DaemonMsgs, a \in DaemonMsgs :
           /\ x \notin NumberedRemoves /\ a.type \in {"success", "failure"} /\ a.n = m.n
           /\ x.type = "remove" \/ (x.type = "change" /\ x.n = m.n)
           /\ q1 = toDaemon \/ q1 = Append(toDaemon, x)
           /\ \/ toDaemon' = q1 /\ ignored' = ignored \cup ({m.n} \cap Reqs)
              \/ toDaemon' = Append(q1, a) /\ ignored' = ignored
              \/ m.n = 0 /\ toDaemon' = q1 /\ ignored' = ignored
    BY <1>5
  <1> HIDE DEF m
  <1>7. toDaemon' \in Seq(DaemonMsgs) /\ None(toDaemon', NumberedRemoves)
    <2>1. None(Append(toDaemon, x), NumberedRemoves)
      BY <1>2, <1>6, Sends
    <2>2. None(q1, NumberedRemoves) /\ a \notin NumberedRemoves
      BY <1>2, <1>6, <2>1 DEF NumberedRemoves
    <2>3. None(Append(q1, a), NumberedRemoves) /\ Append(q1, a) \in Seq(DaemonMsgs)
      BY <2>2, Sends
    <2> QED
      BY <1>6, <2>2, <2>3
  <1>8. ignored' \subseteq Reqs
    BY <1>t, <1>6 DEF Typing
  <1>9. Typing'
    BY <1>t, <1>1, <1>3, <1>4, <1>7, <1>8 DEF Typing
  <1>10. ASSUME NEW r \in Reqs
         PROVE  /\ r \in ignored' => routed[r] # "none"
                /\ Placed(r)'
                /\ NoneAfter(toDaemon', Changes(r), Successes(r))
                /\ routed[r] = "success" => None(toDaemon', Changes(r))
    <2>0. /\ Placed(r) /\ NoneAfter(toDaemon, Changes(r), Successes(r))
          /\ routed[r] = "success" => None(toDaemon, Changes(r))
          /\ r \in ignored => routed[r] # "none"
      BY DEF IndInv, Serving
    <2>1. /\ None(toPeer, Requests(r)) => None(Tail(toPeer), Requests(r)) /\ m \notin Requests(r)
          /\ One(toPeer, Requests(r)) /\ m \notin Requests(r) => One(Tail(toPeer), Requests(r))
          /\ One(toPeer, Requests(r)) /\ m \in Requests(r) => None(Tail(toPeer), Requests(r))
      BY <1>1, <1>2, Takes DEF m
    <2>2. x \notin Responses(r) /\ x \notin Successes(r) /\ a \notin Changes(r)
      BY <1>6 DEF Responses, Successes, Changes
    <2>3. /\ None(toDaemon, Responses(r)) => None(Append(toDaemon, x), Responses(r))
          /\ One(toDaemon, Responses(r)) => One(Append(toDaemon, x), Responses(r))
      BY <1>2, <2>2, Sends
    <2>4. /\ None(toDaemon, Responses(r)) => None(q1, Responses(r))
          /\ One(toDaemon, Responses(r)) => One(q1, Responses(r))
      BY <1>6, <2>3
    <2>5. CASE m \in Requests(r)
      <3>1. m.n = r /\ r # 0
        BY <2>5 DEF Requests, Reqs
      <3>2. /\ routed[r] = "open" /\ r \notin ignored /\ None(Tail(toPeer), Requests(r))
            /\ None(toDaemon, Responses(r))
        BY <2>0, <2>1, <2>5 DEF Placed
      <3>3. None(q1, Responses(r)) /\ a \in Responses(r)
        BY <1>6, <2>4, <3>1, <3>2 DEF Responses
      <3>4. One(Append(q1, a), Responses(r))
        BY <3>3, Sends
      <3>5. \/ toDaemon' = q1 /\ r \in ignored'
            \/ toDaemon' = Append(q1, a) /\ r \notin ignored'
        BY <1>6, <3>1, <3>2
      <3>6. Placed(r)'
        BY <1>1, <3>2, <3>3, <3>4, <3>5 DEF Placed
      <3>7. None(toDaemon, Successes(r)) /\ None(q1, Successes(r))
        BY <3>2, <3>3 DEF None, Responses, Successes
      <3>8. /\ NoneAfter(Append(toDaemon, x), Changes(r), Successes(r))
            /\ NoneAfter(Append(q1, a), Changes(r), Successes(r))
        BY <1>2, <1>6, <3>7, SentLast
      <3> QED
        BY <1>6, <2>0, <3>2, <3>5, <3>6, <3>8
    <2>6. CASE m \notin Requests(r)
      <3>1. m.n # r
        BY <1>1, <1>3, <2>6 DEF Requests, m
      <3>2. a \notin Responses(r) /\ x \notin Changes(r) /\ (r \in ignored' <=> r \in ignored)
        BY <1>6, <3>1 DEF Responses, Changes
      <3>3. /\ None(q1, Responses(r)) => None(Append(q1, a), Responses(r))
            /\ One(q1, Responses(r)) => One(Append(q1, a), Responses(r))
        BY <1>6, <3>2, Sends
      <3>4. Placed(r)'
        <4>1. /\ None(toDaemon, Responses(r)) => None(toDaemon', Responses(r))
              /\ One(toDaemon, Responses(r)) => One(toDaemon', Responses(r))
          BY <1>6, <2>4, <3>3
        <4> QED
          BY <1>1, <2>0, <2>1, <2>6, <3>2, <4>1 DEF Placed
      <3>5. None(toDaemon, Changes(r)) => None(Append(toDaemon, x), Changes(r))
        BY <1>2, <3>2, Sends
      <3>6. None(q1, Changes(r)) => None(Append(q1, a), Changes(r))
        BY <2>2, Sends
      <3>7. NoneAfter(Append(toDaemon, x), Changes(r), Successes(r))
        BY <1>2, <2>0, <3>2, SentLast
      <3>8. NoneAfter(q1, Changes(r), Successes(r))
        BY <1>6, <2>0, <3>7
      <3>9. NoneAfter(Append(q1, a), Changes(r), Successes(r))
        BY <2>2, <3>8, SentLast
      <3> QED
        BY <1>6, <2>0, <3>2, <3>4, <3>5, <3>6, <3>8, <3>9
    <2> QED
      BY <2>5, <2>6
  <1>11. Serving'
    BY <1>1, <1>10 DEF IndInv, Serving
  <1> QED
    BY <1>7, <1>9, <1>11, TypesFromTyping

-----------------------------------------------------------------------------
(* Agreement: queues *)

\* Queue t is q, or q with another message, or q without its first one, and the
\* message that came or went is not in A.
MovesOutside(q, t, S, A) ==
    \/ t = q
    \/ \E m \in S : m \notin A /\ t = Append(q, m)
    \/ q # <<>> /\ Head(q) \notin A /\ t = Tail(q)

\* What is true of the messages about p in q is true of those in t.
Keeps(q, t, p) ==
    /\ None(q, NumberedAdds(p)) => None(t, NumberedAdds(p))
    /\ None(q, AddsOf(p)) => None(t, AddsOf(p))
    /\ None(q, About(p)) => None(t, About(p))
    /\ AtMostOne(q, NumberedAdds(p)) => AtMostOne(t, NumberedAdds(p))
    /\ LastOf(q, About(p), RemovesOf(p)) => LastOf(t, About(p), RemovesOf(p))
    /\ NoneAfter(q, RemovesOf(p), NumberedAdds(p)) => NoneAfter(t, RemovesOf(p), NumberedAdds(p))
    /\ NoneAfter(q, AddsOf(p), NumberedAdds(p)) => NoneAfter(t, AddsOf(p), NumberedAdds(p))
    /\ Preceded(q, AddsOf(p), RemovesOf(p)) => Preceded(t, AddsOf(p), RemovesOf(p))
    /\ Parted(q, AddsOf(p), RemovesOf(p)) => Parted(t, AddsOf(p), RemovesOf(p))

\* A message that is not about p comes or goes: what is true of p stays true.
LEMMA DaemonKeeps ==
    ASSUME NEW q \in Seq(DaemonMsgs), NEW t, NEW p, MovesOutside(q, t, DaemonMsgs, About(p))
    PROVE  Keeps(q, t, p)
  <1>1. /\ \A m : m \notin About(p) => m \notin AddsOf(p) /\ m \notin RemovesOf(p) /\ m \notin NumberedAdds(p)
        /\ AddsOf(p) \cap RemovesOf(p) = {}
    BY DEF About, AddsOf, RemovesOf, NumberedAdds
  <1>2. ASSUME NEW m \in DaemonMsgs, m \notin About(p), t = Append(q, m)
        PROVE  Keeps(q, t, p)
    <2>0. m \notin AddsOf(p) /\ m \notin RemovesOf(p) /\ m \notin NumberedAdds(p)
      BY <1>1, <1>2
    <2>1. /\ None(q, NumberedAdds(p)) => None(Append(q, m), NumberedAdds(p))
          /\ AtMostOne(q, NumberedAdds(p)) => AtMostOne(Append(q, m), NumberedAdds(p))
      BY <2>0, Sends
    <2>2. /\ None(q, About(p)) => None(Append(q, m), About(p))
          /\ None(q, AddsOf(p)) => None(Append(q, m), AddsOf(p))
      BY <1>2, <2>0, Sends
    <2>3. LastOf(q, About(p), RemovesOf(p)) => LastOf(Append(q, m), About(p), RemovesOf(p))
      BY <1>2, SentLast
    <2>4. NoneAfter(q, RemovesOf(p), NumberedAdds(p)) => NoneAfter(Append(q, m), RemovesOf(p), NumberedAdds(p))
      BY <2>0, SentLast
    <2>5. NoneAfter(q, AddsOf(p), NumberedAdds(p)) => NoneAfter(Append(q, m), AddsOf(p), NumberedAdds(p))
      BY <2>0, SentLast
    <2>6. Preceded(q, AddsOf(p), RemovesOf(p)) => Preceded(Append(q, m), AddsOf(p), RemovesOf(p))
      BY <2>0, SentLast
    <2>7. Parted(q, AddsOf(p), RemovesOf(p)) => Parted(Append(q, m), AddsOf(p), RemovesOf(p))
      BY <1>1, <2>0, PartedMoves
    <2> QED
      BY <1>2, <2>1, <2>2, <2>3, <2>4, <2>5, <2>6, <2>7 DEF Keeps
  <1>3. ASSUME q # <<>>, Head(q) \notin About(p), t = Tail(q)
        PROVE  Keeps(q, t, p)
    <2>0. Head(q) \notin AddsOf(p) /\ Head(q) \notin RemovesOf(p)
      BY <1>1, <1>3
    <2>1. /\ None(q, NumberedAdds(p)) => None(Tail(q), NumberedAdds(p))
          /\ AtMostOne(q, NumberedAdds(p)) => AtMostOne(Tail(q), NumberedAdds(p))
      BY <1>3, Takes
    <2>2. /\ None(q, About(p)) => None(Tail(q), About(p))
          /\ None(q, AddsOf(p)) => None(Tail(q), AddsOf(p))
      BY <1>3, Takes
    <2>3. LastOf(q, About(p), RemovesOf(p)) => LastOf(Tail(q), About(p), RemovesOf(p))
      BY <1>3, <2>0, TakenOut
    <2>4. NoneAfter(q, RemovesOf(p), NumberedAdds(p)) => NoneAfter(Tail(q), RemovesOf(p), NumberedAdds(p))
      BY <1>3, TakenOut
    <2>5. NoneAfter(q, AddsOf(p), NumberedAdds(p)) => NoneAfter(Tail(q), AddsOf(p), NumberedAdds(p))
      BY <1>3, TakenOut
    <2>6. Preceded(q, AddsOf(p), RemovesOf(p)) => Preceded(Tail(q), AddsOf(p), RemovesOf(p))
      BY <1>3, <2>0, TakenOut
    <2>7. Parted(q, AddsOf(p), RemovesOf(p)) => Parted(Tail(q), AddsOf(p), RemovesOf(p))
      BY <1>1, <1>3, PartedMoves
    <2> QED
      BY <1>3, <2>1, <2>2, <2>3, <2>4, <2>5, <2>6, <2>7 DEF Keeps
  <1> QED
    BY <1>2, <1>3 DEF MovesOutside, Keeps

\* A message that is no result for p comes, or any message goes.
LEMMA PeerKeeps ==
    ASSUME NEW q \in Seq(PeerMsgs), NEW t, NEW p,
           MovesOutside(q, t, PeerMsgs, ResultsOf(p)) \/ (q # <<>> /\ t = Tail(q))
    PROVE  /\ None(q, ResultsOf(p)) => None(t, ResultsOf(p))
           /\ None(q, OksOf(p)) => None(t, OksOf(p))
           /\ None(q, ErrorsOf(p)) => None(t, ErrorsOf(p))
           /\ AtMostOne(q, ResultsOf(p)) => AtMostOne(t, ResultsOf(p))
  <1>1. \A m : m \notin ResultsOf(p) => m \notin OksOf(p) /\ m \notin ErrorsOf(p)
    BY DEF ResultsOf, OksOf, ErrorsOf
  <1>2. ASSUME NEW m \in PeerMsgs, m \notin ResultsOf(p), t = Append(q, m)
        PROVE  /\ None(q, ResultsOf(p)) => None(t, ResultsOf(p))
               /\ None(q, OksOf(p)) => None(t, OksOf(p))
               /\ None(q, ErrorsOf(p)) => None(t, ErrorsOf(p))
               /\ AtMostOne(q, ResultsOf(p)) => AtMostOne(t, ResultsOf(p))
    <2>0. m \notin OksOf(p) /\ m \notin ErrorsOf(p)
      BY <1>1, <1>2
    <2>1. /\ None(q, ResultsOf(p)) => None(Append(q, m), ResultsOf(p))
          /\ AtMostOne(q, ResultsOf(p)) => AtMostOne(Append(q, m), ResultsOf(p))
      BY <1>2, Sends
    <2>2. None(q, OksOf(p)) => None(Append(q, m), OksOf(p))
      BY <2>0, Sends
    <2>3. None(q, ErrorsOf(p)) => None(Append(q, m), ErrorsOf(p))
      BY <2>0, Sends
    <2> QED
      BY <1>2, <2>1, <2>2, <2>3
  <1>3. ASSUME q # <<>>, t = Tail(q)
        PROVE  /\ None(q, ResultsOf(p)) => None(t, ResultsOf(p))
               /\ None(q, OksOf(p)) => None(t, OksOf(p))
               /\ None(q, ErrorsOf(p)) => None(t, ErrorsOf(p))
               /\ AtMostOne(q, ResultsOf(p)) => AtMostOne(t, ResultsOf(p))
    <2>1. /\ None(q, ResultsOf(p)) => None(Tail(q), ResultsOf(p))
          /\ AtMostOne(q, ResultsOf(p)) => AtMostOne(Tail(q), ResultsOf(p))
      BY <1>3, Takes
    <2>2. None(q, OksOf(p)) => None(Tail(q), OksOf(p))
      BY <1>3, Takes
    <2>3. None(q, ErrorsOf(p)) => None(Tail(q), ErrorsOf(p))
      BY <1>3, Takes
    <2> QED
      BY <1>3, <2>1, <2>2, <2>3
  <1> QED
    BY <1>2, <1>3 DEF MovesOutside

\* A path nothing happens to, when two messages are sent.
LEMMA PathKeptTwice ==
    ASSUME IndInv, Orderly, NEW p \in Paths, p \notin dropped, NEW q1 \in Seq(DaemonMsgs),
           MovesOutside(toDaemon, q1, DaemonMsgs, About(p)),
           MovesOutside(q1, toDaemon', DaemonMsgs, About(p)),
           \/ MovesOutside(toPeer, toPeer', PeerMsgs, ResultsOf(p))
           \/ toPeer # <<>> /\ toPeer' = Tail(toPeer),
           reg'[p] = reg[p], adding' = p <=> adding = p, removing' = p <=> removing = p,
           Open(p)' <=> Open(p),
           (\E i \in failed' : addPath'[i] = p) => (\E i \in failed : addPath[i] = p),
           owner'[p] = "self" <=> owner[p] = "self",
           stopping = "states" => stopping' = "states"
    PROVE  Agreed(p)'
  <1>t. toDaemon \in Seq(DaemonMsgs) /\ toPeer \in Seq(PeerMsgs)
    BY Typed DEF Typing
  <1>1. OneAdd(p) /\ NotServed(p) /\ Served(p)
    BY DEF IndInv, Agreement, Agreed
  <1>2. Keeps(toDaemon, toDaemon', p)
    <2>1. Keeps(toDaemon, q1, p)
      BY <1>t, DaemonKeeps
    <2>2. Keeps(q1, toDaemon', p)
      BY DaemonKeeps
    <2> QED
      BY <2>1, <2>2 DEF Keeps
  <1>3. /\ None(toPeer, ResultsOf(p)) => None(toPeer', ResultsOf(p))
        /\ None(toPeer, OksOf(p)) => None(toPeer', OksOf(p))
        /\ None(toPeer, ErrorsOf(p)) => None(toPeer', ErrorsOf(p))
        /\ AtMostOne(toPeer, ResultsOf(p)) => AtMostOne(toPeer', ResultsOf(p))
    BY <1>t, PeerKeeps
  <1>4. (Down(p) => Down(p)') /\ (Held(p) => Held(p)')
    BY <1>2 DEF Keeps, Down, Held
  <1>5. OneAdd(p)'
    BY <1>1, <1>2, <1>3 DEF Keeps, OneAdd
  <1>6. NotServed(p)'
    BY <1>1, <1>2, <1>3, <1>4 DEF Keeps, NotServed, Leaving
  <1>7. Served(p)'
    BY <1>1, <1>2, <1>3, <1>4 DEF Keeps, Served
  <1> QED
    BY <1>5, <1>6, <1>7 DEF Agreed

\* A path nothing happens to.
LEMMA PathKept ==
    ASSUME IndInv, Orderly, NEW p \in Paths, p \notin dropped,
           MovesOutside(toDaemon, toDaemon', DaemonMsgs, About(p)),
           \/ MovesOutside(toPeer, toPeer', PeerMsgs, ResultsOf(p))
           \/ toPeer # <<>> /\ toPeer' = Tail(toPeer),
           reg'[p] = reg[p], adding' = p <=> adding = p, removing' = p <=> removing = p,
           Open(p)' <=> Open(p),
           (\E i \in failed' : addPath'[i] = p) => (\E i \in failed : addPath[i] = p),
           owner'[p] = "self" <=> owner[p] = "self",
           stopping = "states" => stopping' = "states"
    PROVE  Agreed(p)'
  <1>1. toDaemon \in Seq(DaemonMsgs)
    BY Typed DEF Typing
  <1>2. MovesOutside(toDaemon, toDaemon, DaemonMsgs, About(p))
    BY DEF MovesOutside
  <1> QED
    BY <1>1, <1>2, PathKeptTwice

\* A path that is removed.
LEMMA PathRemoved ==
    ASSUME IndInv, Orderly, NEW p \in Paths, p \notin dropped, NEW d \in RemovesOf(p),
           MovesOutside(Append(toDaemon, d), toDaemon', DaemonMsgs, About(p)),
           toPeer' = toPeer \/ (toPeer # <<>> /\ toPeer' = Tail(toPeer)),
           reg'[p] = "none", owner'[p] = owner[p]
    PROVE  Agreed(p)'
  <1> DEFINE q1 == Append(toDaemon, d)
  <1>t. toDaemon \in Seq(DaemonMsgs) /\ toPeer \in Seq(PeerMsgs)
    BY Typed DEF Typing
  <1>0. d \in DaemonMsgs /\ d \notin AddsOf(p) /\ d \notin NumberedAdds(p) /\ AddsOf(p) \cap RemovesOf(p) = {}
    BY DEF RemovesOf, AddsOf, NumberedAdds
  <1>1. OneAdd(p) /\ NotServed(p)
    BY DEF IndInv, Agreement, Agreed
  <1>2. /\ q1 \in Seq(DaemonMsgs)
        /\ None(toDaemon, AddsOf(p)) => None(q1, AddsOf(p))
        /\ AtMostOne(toDaemon, NumberedAdds(p)) => AtMostOne(q1, NumberedAdds(p))
    BY <1>t, <1>0, Sends
  <1>3. LastOf(q1, About(p), RemovesOf(p))
    BY <1>t, <1>0, SentLast
  <1>4. /\ Preceded(toDaemon, AddsOf(p), RemovesOf(p)) => Preceded(q1, AddsOf(p), RemovesOf(p))
        /\ Parted(toDaemon, AddsOf(p), RemovesOf(p)) => Parted(q1, AddsOf(p), RemovesOf(p))
        /\ NoneAfter(toDaemon, AddsOf(p), NumberedAdds(p)) => NoneAfter(q1, AddsOf(p), NumberedAdds(p))
    <2>1. Preceded(toDaemon, AddsOf(p), RemovesOf(p)) => Preceded(q1, AddsOf(p), RemovesOf(p))
      BY <1>t, <1>0, SentLast
    <2>2. Parted(toDaemon, AddsOf(p), RemovesOf(p)) => Parted(q1, AddsOf(p), RemovesOf(p))
      BY <1>t, <1>0, PartedMoves
    <2>3. NoneAfter(toDaemon, AddsOf(p), NumberedAdds(p)) => NoneAfter(q1, AddsOf(p), NumberedAdds(p))
      BY <1>t, <1>0, SentLast
    <2> QED
      BY <2>1, <2>2, <2>3
  <1> HIDE DEF q1
  <1>5. MovesOutside(q1, toDaemon', DaemonMsgs, About(p))
    BY DEF q1
  <1>6. Keeps(q1, toDaemon', p)
    BY <1>2, <1>5, DaemonKeeps
  <1>7. MovesOutside(toPeer, toPeer', PeerMsgs, ResultsOf(p)) \/ (toPeer # <<>> /\ toPeer' = Tail(toPeer))
    BY DEF MovesOutside
  <1>8. /\ None(toPeer, ResultsOf(p)) => None(toPeer', ResultsOf(p))
        /\ AtMostOne(toPeer, ResultsOf(p)) => AtMostOne(toPeer', ResultsOf(p))
    BY <1>t, <1>7, PeerKeeps
  <1>9. Down(p)'
    BY <1>3, <1>6 DEF Keeps, Down
  <1>10. OneAdd(p)'
    BY <1>1, <1>2, <1>4, <1>6, <1>8 DEF Keeps, OneAdd
  <1>11. NotServed(p)' /\ Served(p)'
    BY <1>1, <1>4, <1>6, <1>9 DEF Keeps, NotServed, Served
  <1> QED
    BY <1>10, <1>11 DEF Agreed

\* An add or a result that is on its way is waited for.
LEMMA NotOpen ==
    ASSUME IndInv, Orderly, NEW p \in Paths, p \notin dropped, ~Open(p)
    PROVE  None(toDaemon, NumberedAdds(p)) /\ None(toPeer, ResultsOf(p))
  <1>1. Waiting
    BY DEF IndInv, Agreement
  <1>2. ASSUME ~None(toDaemon, NumberedAdds(p)) PROVE FALSE
    <2>1. PICK m \in NumberedAdds(p) : In(toDaemon, m)
      BY <1>2, InNone
    <2>2. m \in DaemonMsgs /\ m.path = p /\ m.type = "add" /\ m.n # 0
      BY <2>1 DEF AddsOf, NumberedAdds
    <2>3. Awaited(m)
      BY <1>1, <2>1, <2>2 DEF Waiting
    <2> QED
      BY <2>2, <2>3 DEF Awaited, Open
  <1>3. ASSUME ~None(toPeer, ResultsOf(p)) PROVE FALSE
    <2>1. PICK m \in ResultsOf(p) : In(toPeer, m)
      BY <1>3, InNone
    <2>2. m \in PeerMsgs /\ m.path = p /\ m.type \in {"ok", "error"}
      BY <2>1 DEF ResultsOf
    <2>3. Awaited(m)
      BY <1>1, <2>1, <2>2 DEF Waiting
    <2> QED
      BY <2>2, <2>3 DEF Awaited, Open
  <1> QED
    BY <1>2, <1>3

\* Messages about other things come and go: what is waited for stays.
LEMMA WaitingKept ==
    ASSUME IndInv, Orderly,
           \A m \in DaemonMsgs : m.type = "add" /\ In(toDaemon', m) => In(toDaemon, m),
           \A m \in PeerMsgs : m.type \in {"ok", "error"} /\ In(toPeer', m) => In(toPeer, m),
           UNCHANGED <<adding, adds, openAdds, failed, addPath>>, dropped \subseteq dropped',
           removing' = removing \/ removing' = NoPath,
           \A p \in Paths : reg[p] = "none" => reg'[p] = "none"
    PROVE  Waiting'
  <1>t. Typing
    BY Typed
  <1>1. Waiting
    BY DEF IndInv, Agreement
  <1>2. \A m : Awaited(m) => Awaited(m)'
    BY DEF Awaited
  <1>3. (adding # NoPath => ~Open(adding))'
    BY <1>1 DEF Waiting, Open
  <1>4. (removing # NoPath => adding = NoPath /\ reg[removing] = "none")'
    BY <1>t, <1>1 DEF Waiting, Typing
  <1> QED
    BY <1>1, <1>2, <1>3, <1>4 DEF Waiting

-----------------------------------------------------------------------------
(* Agreement: steps *)

\* A path is registered: it was down.
LEMMA AddRegisterAgrees ==
    ASSUME IndInv, Orderly, NEW p \in Paths, NEW k \in {"readonly", "callback"}, AddRegister(p, k)
    PROVE  Agreement'
  <1>t. Typing
    BY Typed
  <1>1. /\ UNCHANGED <<removing, adds, addPath, openAdds, failed, conn, stopping, losses, toDaemon, toPeer, owner, dropped>>
        /\ adding = NoPath /\ removing = NoPath /\ adding' = p /\ reg' = [reg EXCEPT ![p] = k]
        /\ reg[p] = "none" /\ ~Open(p)
    BY DEF AddRegister, Register, MayAdd, Orderly, Open, link, daemon
  <1>2. reg'[p] # "none" /\ \A q \in Paths : q # p => reg'[q] = reg[q]
    BY <1>t, <1>1 DEF Typing
  <1>3. Linked'
    BY <1>1 DEF IndInv, Agreement, Linked
  <1>w. Waiting'
    <2>1. \A m : Awaited(m) => Awaited(m)'
      BY <1>1 DEF Awaited
    <2>2. ~Open(p)'
      BY <1>1 DEF Open
    <2> QED
      BY <1>1, <2>1, <2>2 DEF IndInv, Agreement, Waiting
  <1>4. ASSUME p \notin dropped PROVE Agreed(p)'
    <2>1. None(toDaemon, NumberedAdds(p)) /\ None(toPeer, ResultsOf(p))
      BY <1>1, <1>4, NotOpen
    <2>2. None(toPeer, OksOf(p)) /\ None(toPeer, ErrorsOf(p))
      BY <2>1 DEF None, ResultsOf, OksOf, ErrorsOf
    <2>3. NoneAfter(toDaemon, RemovesOf(p), NumberedAdds(p))
      BY <2>1 DEF None, NoneAfter
    <2>4. OneAdd(p) /\ NotServed(p)
      BY <1>4 DEF IndInv, Agreement, Agreed
    <2>p. ~Leaving(p)
      BY <1>t, <1>1 DEF Leaving, Typing
    <2>5. Down(p) /\ Down(p)'
      BY <1>1, <2>4, <2>p DEF NotServed, Down
    <2>6. OneAdd(p)' /\ Served(p)'
      BY <1>1, <2>1, <2>2, <2>3, <2>4 DEF OneAdd, Served
    <2>7. NotServed(p)'
      BY <1>1, <1>2, <2>4, <2>5 DEF NotServed
    <2> QED
      BY <2>6, <2>7 DEF Agreed
  <1>5. ASSUME NEW q \in Paths, q \notin dropped, q # p PROVE Agreed(q)'
    <2>1. adding # q /\ adding' # q
      BY <1>t, <1>1, <1>5 DEF Typing
    <2>2. Open(q)' <=> Open(q)
      BY <1>1 DEF Open
    <2>3. /\ MovesOutside(toDaemon, toDaemon', DaemonMsgs, About(q))
          /\ MovesOutside(toPeer, toPeer', PeerMsgs, ResultsOf(q))
      BY <1>1 DEF MovesOutside
    <2> QED
      BY <1>1, <1>2, <1>5, <2>1, <2>2, <2>3, PathKept
  <1> QED
    BY <1>1, <1>3, <1>w, <1>4, <1>5 DEF Agreement

\* The add is sent, or fails to be sent.
LEMMA AddSendAgrees ==
    ASSUME IndInv, Orderly, NEW cb \in AddCallback, NEW sent \in BOOLEAN, AddSend(cb, sent)
    PROVE  Agreement'
  <1>t. Typing
    BY Typed
  <1>0. PICK p \in Paths, i \in Adds : p = adding /\ i = adds + 1
    BY <1>t DEF AddSend, Typing, Adds
  <1> DEFINE n == IF cb THEN i ELSE 0
  <1> DEFINE m == Msg("add", p, n)
  <1>1. /\ UNCHANGED <<reg, removing, conn, stopping, losses, toPeer, owner>>
        /\ (sent => conn) /\ adding' = NoPath /\ adds' = i
        /\ dropped' = IF sent /\ reg[p] = "none" THEN dropped \cup {p} ELSE dropped
        /\ addPath' = [addPath EXCEPT ![i] = p]
        /\ openAdds' = IF cb THEN openAdds \cup {i} ELSE openAdds
        /\ failed' = IF cb /\ ~sent THEN failed \cup {i} ELSE failed
        /\ toDaemon' = IF sent THEN Append(toDaemon, m) ELSE toDaemon
    BY <1>0 DEF AddSend, link, daemon
  <1>2. i \notin openAdds /\ i \notin failed /\ i # 0
    BY <1>t, <1>0 DEF Typing
  <1>3. m \in DaemonMsgs /\ m.type = "add" /\ m.path = p /\ m.n = n
    <2>1. n \in 0 .. MaxAdds + MaxRequests
      BY <1>t DEF Typing, Adds
    <2> QED
      BY <2>1, MsgFields
  <1>n. (cb => n = i) /\ (n # 0 => cb)
    OBVIOUS
  <1> HIDE DEF m, n
  <1>4. addPath'[i] = p /\ \A j \in openAdds : addPath'[j] = addPath[j]
    BY <1>t, <1>1, <1>2 DEF Typing
  <1>5. toDaemon \in Seq(DaemonMsgs) /\ toPeer \in Seq(PeerMsgs)
    BY <1>t DEF Typing
  <1>6. ~Open(p)
    BY <1>t, <1>0 DEF IndInv, Agreement, Waiting, Typing
  <1>e. i \in 1 .. i /\ \A j \in 1 .. adds : j \in 1 .. i /\ addPath'[j] = addPath[j]
    BY <1>t, <1>0, <1>1 DEF Typing, Adds
  <1>8. Linked'
    BY <1>1 DEF IndInv, Agreement, Linked
  <1>9. Waiting'
    <2>0. Waiting
      BY DEF IndInv, Agreement
    <2>1. \A j, k \in openAdds' : addPath'[j] = addPath'[k] => j = k
      BY <1>1, <1>4, <1>6, <2>0 DEF Waiting, Open
    <2>a. dropped \subseteq dropped' /\ openAdds \ failed \subseteq openAdds' \ failed'
      BY <1>1, <1>2
    <2>2. \A x : Awaited(x) => Awaited(x)'
      BY <1>1, <1>e, <2>a DEF Awaited
    <2>3. ASSUME NEW x \in DaemonMsgs, x.type = "add", x.n # 0, In(toDaemon', x) PROVE Awaited(x)'
      <3>1. In(toDaemon, x) \/ (sent /\ x = m)
        BY <1>1, <1>3, <1>5, <2>3, InMoves
      <3>2. ASSUME sent, x = m PROVE Awaited(x)'
        BY <1>1, <1>2, <1>3, <1>n, <1>4, <1>e, <2>3, <3>2 DEF Awaited
      <3> QED
        BY <2>0, <2>2, <2>3, <3>1, <3>2 DEF Waiting
    <2>4. (adding # NoPath => ~Open(adding))' /\ (removing # NoPath => adding = NoPath /\ reg[removing] = "none")'
      BY <1>1, <2>0 DEF Waiting
    <2> QED
      BY <1>1, <2>0, <2>1, <2>2, <2>3, <2>4 DEF Waiting
  <1>10. ASSUME p \notin dropped' PROVE Agreed(p)'
    <2>a. p \notin dropped /\ (sent => reg[p] # "none")
      BY <1>1, <1>10
    <2>b. OneAdd(p) /\ NotServed(p) /\ Served(p) /\ Down(p)
      BY <1>0, <2>a DEF IndInv, Agreement, Agreed, NotServed
    <2>c. None(toDaemon, NumberedAdds(p)) /\ None(toPeer, ResultsOf(p))
      BY <1>6, <2>a, NotOpen
    <2>1. m \in AddsOf(p) /\ m \notin RemovesOf(p) /\ AddsOf(p) \cap RemovesOf(p) = {}
      BY <1>3 DEF AddsOf, RemovesOf
    <2>2. /\ AtMostOne(Append(toDaemon, m), NumberedAdds(p))
          /\ NoneAfter(Append(toDaemon, m), AddsOf(p), NumberedAdds(p))
      BY <1>3, <1>5, <2>c, SentLast
    <2>3. OneAdd(p)'
      <3>1. None(toDaemon, AddsOf(p)) \/ LastOf(toDaemon, AddsOf(p), RemovesOf(p))
        <4>1. AddsOf(p) \subseteq About(p)
          BY DEF AddsOf, About
        <4> QED
          BY <2>b, <4>1 DEF Down, None, LastOf
      <3>2. Parted(toDaemon, AddsOf(p), RemovesOf(p))
        BY <2>b DEF OneAdd
      <3>3. Parted(Append(toDaemon, m), AddsOf(p), RemovesOf(p))
        BY <1>3, <1>5, <2>1, <3>1, <3>2, PartedMoves
      <3> QED
        BY <1>1, <2>b, <2>c, <2>2, <3>3 DEF OneAdd
    <2>4. None(toPeer, OksOf(p)) /\ None(toPeer, ErrorsOf(p))
      BY <2>c DEF None, ResultsOf, OksOf, ErrorsOf
    <2>5. adding' # p
      BY <1>t, <1>1 DEF Typing
    <2>6. owner[p] = "self" => Preceded(Append(toDaemon, m), AddsOf(p), RemovesOf(p))
      <3> SUFFICES ASSUME owner[p] = "self"
                   PROVE  Preceded(Append(toDaemon, m), AddsOf(p), RemovesOf(p))
        OBVIOUS
      <3>1. Preceded(toDaemon, AddsOf(p), RemovesOf(p)) /\ LastOf(toDaemon, About(p), RemovesOf(p))
        BY <2>b DEF NotServed, Down
      <3>2. ~None(toDaemon, RemovesOf(p))
        BY <3>1 DEF LastOf, None
      <3> QED
        BY <1>3, <1>5, <3>1, <3>2, SentLast
    <2>d. ~sent => Down(p)'
      BY <1>1, <2>b DEF Down
    <2>7. ASSUME NEW j \in failed', addPath'[j] = p PROVE Down(p)'
      <3>1. j = i
        BY <1>t, <1>1, <1>4, <1>6, <2>7 DEF Typing, Open
      <3>2. ~sent
        BY <1>1, <1>2, <2>7, <3>1
      <3> QED
        BY <2>d, <3>2
    <2>8. NotServed(p)'
      BY <1>1, <2>a, <2>b, <2>d, <2>4, <2>5, <2>6, <2>7 DEF NotServed
    <2>9. NoneAfter(toDaemon, RemovesOf(p), NumberedAdds(p))
      BY <2>c DEF None, NoneAfter
    <2>10. NoneAfter(Append(toDaemon, m), RemovesOf(p), NumberedAdds(p))
      BY <1>3, <1>5, <2>1, <2>9, SentLast
    <2>11. AddCallback = {TRUE} => Open(p)'
      BY <1>1, <1>4 DEF Open
    <2>12. Served(p)'
      BY <1>1, <2>4, <2>9, <2>10, <2>11 DEF Served
    <2> QED
      BY <2>3, <2>8, <2>12 DEF Agreed
  <1>11. ASSUME NEW q \in Paths, q \notin dropped, q # p PROVE Agreed(q)'
    <2>1. adding # q /\ adding' # q
      BY <1>t, <1>0, <1>1, <1>11 DEF Typing
    <2>2. Open(q)' <=> Open(q)
      BY <1>1, <1>4, <1>11 DEF Open
    <2>3. m \notin About(q)
      BY <1>3, <1>11 DEF About
    <2>4. /\ MovesOutside(toDaemon, toDaemon', DaemonMsgs, About(q))
          /\ MovesOutside(toPeer, toPeer', PeerMsgs, ResultsOf(q))
      BY <1>1, <1>3, <2>3 DEF MovesOutside
    <2>5. (\E j \in failed' : addPath'[j] = q) => (\E j \in failed : addPath[j] = q)
      BY <1>t, <1>1, <1>4, <1>11 DEF Typing
    <2> QED
      BY <1>1, <1>11, <2>1, <2>2, <2>4, <2>5, PathKept
  <1>12. \A q \in Paths \ dropped' : q \notin dropped
    BY <1>1
  <1> QED
    BY <1>8, <1>9, <1>10, <1>11, <1>12 DEF Agreement

\* Without connection every path is down.
LEMMA NothingOwned ==
    ASSUME IndInv, Orderly, ~conn
    PROVE  /\ toDaemon = <<>> /\ toPeer = <<>>
           /\ \A p \in Paths : owner[p] # "self" /\ Down(p)
  <1>1. toDaemon = <<>> /\ toPeer = <<>> /\ \A p \in Paths : owner[p] # "self"
    BY DEF IndInv, Agreement, Linked
  <1>2. \A A : None(toDaemon, A)
    BY <1>1, EmptyQueue
  <1> QED
    BY <1>1, <1>2 DEF Down

\* The callback of a path is forgotten: it is leaving, or was down.
LEMMA RemoveUnregisterAgrees ==
    ASSUME IndInv, Orderly, NEW p \in Paths, RemoveUnregister(p)
    PROVE  Agreement'
  <1>t. Typing
    BY Typed
  <1>1. /\ UNCHANGED <<adding, adds, addPath, openAdds, failed, conn, stopping, losses, toDaemon, toPeer, owner, dropped>>
        /\ adding = NoPath /\ removing = NoPath /\ removing' = p
    BY DEF RemoveUnregister, link, daemon
  <1>2. reg'[p] = "none" /\ \A q \in Paths : q # p => reg'[q] = reg[q]
    BY <1>t, Unregistered DEF RemoveUnregister
  <1>3. Linked'
    BY <1>1 DEF IndInv, Agreement, Linked
  <1>4. Waiting'
    <2>1. \A m : Awaited(m) => Awaited(m)'
      BY <1>1 DEF Awaited
    <2> QED
      BY <1>1, <1>2, <2>1 DEF IndInv, Agreement, Waiting
  <1>5. ASSUME p \notin dropped PROVE Agreed(p)'
    <2>1. OneAdd(p) /\ NotServed(p) /\ Served(p)
      BY <1>5 DEF IndInv, Agreement, Agreed
    <2>2. Down(p) => Down(p)'
      BY <1>1 DEF Down
    <2>3. ~Leaving(p)
      BY <1>t, <1>1 DEF Leaving, Typing
    <2>4. Down(p)' \/ Leaving(p)'
      BY <1>1, <2>1, <2>2, <2>3 DEF NotServed, Served, Leaving
    <2>5. adding' # p
      BY <1>t, <1>1 DEF Typing
    <2>6. NotServed(p)'
      BY <1>1, <2>1, <2>2, <2>4, <2>5 DEF NotServed
    <2>7. OneAdd(p)' /\ Served(p)'
      BY <1>1, <1>2, <2>1 DEF OneAdd, Served
    <2> QED
      BY <2>6, <2>7 DEF Agreed
  <1>6. ASSUME NEW q \in Paths, q \notin dropped, q # p PROVE Agreed(q)'
    <2>1. /\ MovesOutside(toDaemon, toDaemon', DaemonMsgs, About(q))
          /\ MovesOutside(toPeer, toPeer', PeerMsgs, ResultsOf(q))
      BY <1>1 DEF MovesOutside
    <2>2. (Open(q)' <=> Open(q)) /\ removing # q /\ removing' # q
      BY <1>t, <1>1, <1>6 DEF Open, Typing
    <2> QED
      BY <1>1, <1>2, <1>6, <2>1, <2>2, PathKept
  <1> QED
    BY <1>1, <1>3, <1>4, <1>5, <1>6 DEF Agreement

\* The removal is sent: it is the last thing the daemon hears of the path, or
\* there is no connection.
LEMMA RemoveSendAgrees ==
    ASSUME IndInv, Orderly, RemoveSend
    PROVE  Agreement'
  <1>t. Typing
    BY Typed
  <1>0. PICK p \in Paths : p = removing
    BY <1>t DEF RemoveSend, Typing
  <1> DEFINE d == Msg("remove", p, 0)
  <1>1. /\ UNCHANGED <<reg, adding, adds, addPath, openAdds, failed, conn, stopping, losses, toPeer, owner, dropped>>
        /\ removing' = NoPath
        /\ toDaemon' = IF conn THEN Append(toDaemon, d) ELSE toDaemon
    BY <1>0 DEF RemoveSend, link, daemon
  <1>2. reg[p] = "none" /\ adding = NoPath /\ adding # p
    BY <1>t, <1>0 DEF IndInv, Agreement, Waiting, Typing
  <1>3. d \in DaemonMsgs /\ d.type = "remove" /\ d.path = p
    <2>1. 0 \in 0 .. MaxAdds + MaxRequests
      BY <1>t DEF Typing
    <2> QED
      BY <2>1, MsgFields
  <1> HIDE DEF d
  <1>4. toDaemon \in Seq(DaemonMsgs)
    BY <1>t DEF Typing
  <1>5. Linked'
    BY <1>1 DEF IndInv, Agreement, Linked
  <1>6. Waiting'
    <2>1. \A m \in DaemonMsgs : m.type = "add" /\ In(toDaemon', m) => In(toDaemon, m)
      BY <1>1, <1>3, <1>4, InMoves
    <2> QED
      BY <1>1, <2>1, WaitingKept
  <1>7. ASSUME p \notin dropped PROVE Agreed(p)'
    <2>1. CASE conn
      <3>1. d \in RemovesOf(p)
        BY <1>3 DEF RemovesOf
      <3>2. MovesOutside(Append(toDaemon, d), toDaemon', DaemonMsgs, About(p))
        BY <1>1, <2>1 DEF MovesOutside
      <3> QED
        BY <1>1, <1>2, <1>7, <3>1, <3>2, PathRemoved
    <2>2. CASE ~conn
      <3>1. OneAdd(p) /\ NotServed(p)
        BY <1>7 DEF IndInv, Agreement, Agreed
      <3>2. Down(p)
        BY <2>2, NothingOwned
      <3>3. OneAdd(p)' /\ NotServed(p)' /\ Served(p)'
        BY <1>1, <1>2, <2>2, <3>1, <3>2 DEF OneAdd, NotServed, Served, Down
      <3> QED
        BY <3>3 DEF Agreed
    <2> QED
      BY <1>t, <2>1, <2>2 DEF Typing
  <1>8. ASSUME NEW q \in Paths, q \notin dropped, q # p PROVE Agreed(q)'
    <2>1. d \notin About(q)
      BY <1>3, <1>8 DEF About
    <2>2. /\ MovesOutside(toDaemon, toDaemon', DaemonMsgs, About(q))
          /\ MovesOutside(toPeer, toPeer', PeerMsgs, ResultsOf(q))
      BY <1>1, <1>3, <2>1 DEF MovesOutside
    <2>3. (Open(q)' <=> Open(q)) /\ removing # q /\ removing' # q
      BY <1>t, <1>0, <1>1, <1>8 DEF Open, Typing
    <2> QED
      BY <1>1, <1>8, <2>2, <2>3, PathKept
  <1> QED
    BY <1>1, <1>5, <1>6, <1>7, <1>8 DEF Agreement

\* A request is handled: the callback may have removed its own path.
LEMMA HandleRequestAgrees ==
    ASSUME IndInv, Orderly, NEW o \in StateOutcomes \cup MethodOutcomes, HandleRequest(o)
    PROVE  Agreement'
  <1>t. Typing
    BY Typed
  <1> DEFINE m == Head(toPeer)
  <1> DEFINE x == m.path
  <1>1. /\ UNCHANGED <<adding, removing, adds, addPath, openAdds, failed, conn, stopping, losses, owner, dropped>>
        /\ toPeer # <<>> /\ m.type \in {"set", "call"} /\ toPeer' = Tail(toPeer)
        /\ conn /\ stopping = "no"
        /\ toDaemon' = toDaemon \o Answer(m, o)
        /\ Unregister(IF o = "remove" THEN {x} ELSE {})
    BY DEF HandleRequest, Receiving, Orderly, link, daemon
  <1>2. toPeer \in Seq(PeerMsgs) /\ toDaemon \in Seq(DaemonMsgs)
    BY <1>t DEF Typing
  <1>3. m \in PeerMsgs /\ x \in Paths /\ m.n \in 0 .. MaxAdds + MaxRequests /\ 0 \in 0 .. MaxAdds + MaxRequests
    BY <1>t, <1>1, <1>2, HeadTaken, MsgTypes DEF Typing
  <1>4. /\ \A q \in Paths : q # x \/ o # "remove" => reg'[q] = reg[q]
        /\ o = "remove" => reg'[x] = "none"
    BY <1>t, <1>1, <1>3, Unregistered
  <1> DEFINE c == Msg("change", x, m.n)
  <1> DEFINE d == Msg("remove", x, 0)
  <1> DEFINE a == Msg(Verdict(o), x, m.n)
  <1> DEFINE q1 == toDaemon \o Notification(m, o)
  <1>5. /\ c \in DaemonMsgs /\ c.type = "change"
        /\ d \in DaemonMsgs /\ d.type = "remove" /\ d.path = x
        /\ a \in DaemonMsgs /\ a.type \in {"success", "failure"}
    BY <1>3, MsgFields DEF Verdict
  <1>6. /\ q1 \in Seq(DaemonMsgs)
        /\ \/ o \notin {"notify", "remove"} /\ q1 = toDaemon
           \/ o = "notify" /\ q1 = Append(toDaemon, c)
           \/ o = "remove" /\ q1 = Append(toDaemon, d)
        /\ \/ (m.n = 0 \/ o = "unsendable") /\ toDaemon' = q1
           \/ ~(m.n = 0 \/ o = "unsendable") /\ toDaemon' = Append(q1, a)
    <2>1. toDaemon' = toDaemon \o Answer(m, o)
      BY <1>1
    <2>2. toDaemon \in Seq(DaemonMsgs) /\ m \in PeerMsgs
      BY <1>2, <1>3
    <2> HIDE DEF m
    <2> QED
      BY <2>1, <2>2, AnswerSent
  <1> HIDE DEF m, c, d, a, q1
  <1>7. Linked'
    BY <1>1 DEF IndInv, Agreement, Linked
  <1>8. Waiting'
    <2>0. \A y : /\ In(Append(q1, a), y) => In(q1, y) \/ y = a
                 /\ In(Append(toDaemon, c), y) => In(toDaemon, y) \/ y = c
                 /\ In(Append(toDaemon, d), y) => In(toDaemon, y) \/ y = d
      BY <1>2, <1>5, <1>6, InMoves
    <2>1. \A y \in DaemonMsgs : y.type = "add" /\ In(toDaemon', y) => In(q1, y)
      BY <1>5, <1>6, <2>0
    <2>2. \A y \in DaemonMsgs : y.type = "add" /\ In(q1, y) => In(toDaemon, y)
      BY <1>5, <1>6, <2>0
    <2>3. \A y \in PeerMsgs : In(toPeer', y) => In(toPeer, y)
      BY <1>1, <1>2, InMoves
    <2>4. \A y \in Paths : reg[y] = "none" => reg'[y] = "none"
      BY <1>4
    <2> QED
      BY <1>1, <2>1, <2>2, <2>3, <2>4, WaitingKept
  <1>9. ASSUME NEW q \in Paths PROVE MovesOutside(q1, toDaemon', DaemonMsgs, About(q))
    <2>1. a \notin About(q)
      BY <1>5 DEF About
    <2> QED
      BY <1>5, <1>6, <2>1 DEF MovesOutside
  <1>10. ASSUME NEW q \in Paths, q \notin dropped, q # x \/ o # "remove" PROVE Agreed(q)'
    <2>1. c \notin About(q) /\ (q # x => d \notin About(q))
      BY <1>5 DEF About
    <2>2. MovesOutside(toDaemon, q1, DaemonMsgs, About(q))
      BY <1>5, <1>6, <1>10, <2>1 DEF MovesOutside
    <2>3. reg'[q] = reg[q]
      BY <1>4, <1>10
    <2>4. Open(q)' <=> Open(q)
      BY <1>1 DEF Open
    <2> QED
      BY <1>1, <1>6, <1>9, <1>10, <2>2, <2>3, <2>4, PathKeptTwice
  <1>11. ASSUME NEW y \in Paths, y \notin dropped, y = x, o = "remove" PROVE Agreed(y)'
    <2>1. d \in RemovesOf(y)
      BY <1>5, <1>11 DEF RemovesOf
    <2>2. q1 = Append(toDaemon, d)
      BY <1>6, <1>11
    <2>3. MovesOutside(Append(toDaemon, d), toDaemon', DaemonMsgs, About(y))
      BY <1>9, <2>2
    <2>4. reg'[y] = "none"
      BY <1>4, <1>11
    <2> QED
      BY <1>1, <1>11, <2>1, <2>3, <2>4, PathRemoved
  <1>12. \A q \in Paths \ dropped' : Agreed(q)'
    BY <1>1, <1>10, <1>11
  <1> QED
    BY <1>7, <1>8, <1>12 DEF Agreement

\* A request is ignored, or another peer makes one.
LEMMA RequestAgrees ==
    ASSUME IndInv, Orderly,
           \/ IgnoreRequest
           \/ \E p \in Paths, t \in {"set", "setnull", "call"}, w \in BOOLEAN : RouteRequest(p, t, w)
    PROVE  Agreement'
  <1>t. Typing
    BY Typed
  <1>1. UNCHANGED <<reg, adding, removing, adds, addPath, openAdds, failed, conn, stopping, losses, toDaemon,
                    owner, dropped>>
    BY DEF IgnoreRequest, RouteRequest, peer, link, daemon
  <1>2. toPeer \in Seq(PeerMsgs)
    BY <1>t DEF Typing
  <1>3. Moves(toPeer, toPeer', PeerMsgs, {"set", "setnull", "call"})
    <2>1. CASE IgnoreRequest
      BY <2>1 DEF IgnoreRequest, Receiving, Moves
    <2>2. ASSUME NEW p \in Paths, NEW t \in {"set", "setnull", "call"}, NEW w \in BOOLEAN, RouteRequest(p, t, w)
          PROVE  Moves(toPeer, toPeer', PeerMsgs, {"set", "setnull", "call"})
      <3> DEFINE n == IF w THEN reqs + 1 ELSE 0
      <3> DEFINE m == Msg(t, p, n)
      <3>1. n \in 0 .. MaxAdds + MaxRequests /\ toPeer' = Append(toPeer, m)
        BY <1>t, <2>2 DEF RouteRequest, Typing
      <3>2. m \in PeerMsgs /\ m.type = t
        BY <3>1, MsgFields
      <3> HIDE DEF m
      <3> QED
        BY <3>1, <3>2 DEF Moves
    <2> QED
      BY <2>1, <2>2
  <1>4. Linked'
    <2>1. CASE conn
      BY <1>1, <2>1 DEF IndInv, Agreement, Linked
    <2>2. CASE ~conn
      <3>1. toPeer = <<>> /\ \A p \in Paths : owner[p] # "self"
        BY <2>2, NothingOwned
      <3> QED
        BY <3>1 DEF IgnoreRequest, RouteRequest, Receiving
    <2> QED
      BY <2>1, <2>2
  <1>5. Waiting'
    <2>1. ASSUME NEW m \in PeerMsgs, m.type \in {"ok", "error"}, In(toPeer', m) PROVE In(toPeer, m)
      <3>1. CASE toPeer # <<>> /\ toPeer' = Tail(toPeer)
        BY <1>2, <2>1, <3>1, InMoves
      <3>2. ASSUME NEW y \in PeerMsgs, y.type \in {"set", "setnull", "call"}, toPeer' = Append(toPeer, y)
            PROVE  In(toPeer, m)
        <4>1. In(Append(toPeer, y), m) => In(toPeer, m) \/ m = y
          BY <1>2, InMoves
        <4> QED
          BY <2>1, <3>2, <4>1
      <3> QED
        BY <1>3, <2>1, <3>1, <3>2 DEF Moves
    <2> QED
      BY <1>1, <2>1, WaitingKept
  <1>6. ASSUME NEW q \in Paths, q \notin dropped PROVE Agreed(q)'
    <2>1. MovesOutside(toPeer, toPeer', PeerMsgs, ResultsOf(q)) \/ (toPeer # <<>> /\ toPeer' = Tail(toPeer))
      BY <1>3 DEF Moves, MovesOutside, ResultsOf
    <2>2. MovesOutside(toDaemon, toDaemon', DaemonMsgs, About(q))
      BY <1>1 DEF MovesOutside
    <2>3. Open(q)' <=> Open(q)
      BY <1>1 DEF Open
    <2> QED
      BY <1>1, <1>6, <2>1, <2>2, <2>3, PathKept
  <1> QED
    BY <1>1, <1>4, <1>5, <1>6 DEF Agreement

\* The daemon routes back a response, the peer connects again, another peer adds
\* or removes a path, nothing happens.
LEMMA OtherAgrees ==
    ASSUME IndInv, Orderly,
           DaemonRoutesBack \/ Resume \/ (\E p \in Paths : OtherPeer(p)) \/ UNCHANGED vars
    PROVE  Agreement'
  <1>t. Typing
    BY Typed
  <1>1. UNCHANGED <<reg, adding, removing, adds, addPath, openAdds, failed, stopping, losses, toPeer, dropped>>
    BY DEF DaemonRoutesBack, Resume, OtherPeer, vars, peer, link, daemon
  <1>2. toDaemon \in Seq(DaemonMsgs)
    BY <1>t DEF Typing
  <1>3. \/ toDaemon' = toDaemon
        \/ /\ toDaemon # <<>> /\ Head(toDaemon).type \in {"change", "success", "failure"}
           /\ toDaemon' = Tail(toDaemon)
    BY DEF DaemonRoutesBack, Processing, Resume, OtherPeer, vars
  <1>4. \A p \in Paths : owner'[p] = "self" <=> owner[p] = "self"
    BY <1>t DEF DaemonRoutesBack, Resume, OtherPeer, vars, daemon, Typing
  <1>5. Linked'
    <2>1. conn' = conn \/ conn' = TRUE
      BY DEF DaemonRoutesBack, Resume, OtherPeer, vars, link
    <2> QED
      BY <1>1, <1>3, <1>4, <2>1 DEF IndInv, Agreement, Linked
  <1>6. Waiting'
    <2>1. \A m \in DaemonMsgs : In(toDaemon', m) => In(toDaemon, m)
      BY <1>2, <1>3, InMoves
    <2> QED
      BY <1>1, <2>1, WaitingKept
  <1>7. ASSUME NEW q \in Paths, q \notin dropped PROVE Agreed(q)'
    <2>1. /\ MovesOutside(toDaemon, toDaemon', DaemonMsgs, About(q))
          /\ MovesOutside(toPeer, toPeer', PeerMsgs, ResultsOf(q))
      BY <1>1, <1>3 DEF MovesOutside, About
    <2>2. Open(q)' <=> Open(q)
      BY <1>1 DEF Open
    <2> QED
      BY <1>1, <1>4, <1>7, <2>1, <2>2, PathKept
  <1> QED
    BY <1>1, <1>5, <1>6, <1>7 DEF Agreement

\* The connection is lost: no path is owned, and the callbacks are still there.
LEMMA LostAgrees ==
    ASSUME IndInv, Orderly, ConnectionLost
    PROVE  Agreement'
  <1>t. Typing
    BY Typed
  <1>1. /\ UNCHANGED <<reg, adding, removing, adds, addPath, openAdds, failed>>
        /\ conn' = FALSE /\ stopping' = "states" /\ toDaemon' = <<>> /\ toPeer' = <<>>
        /\ owner' = [p \in Paths |-> IF owner[p] = "self" THEN "none" ELSE owner[p]]
    BY DEF ConnectionLost, peer
  <1>2. \A p \in Paths : owner'[p] # "self"
    BY <1>t, <1>1 DEF Typing
  <1>3. \A A, B : /\ None(toDaemon', A) /\ None(toPeer', A) /\ AtMostOne(toDaemon', A) /\ AtMostOne(toPeer', A)
                  /\ NoneAfter(toDaemon', A, B) /\ Preceded(toDaemon', A, B) /\ Parted(toDaemon', A, B)
    BY <1>1, EmptyQueue
  <1>4. Linked'
    BY <1>1, <1>2 DEF Linked
  <1>5. Waiting'
    <2>1. \A m : ~In(toDaemon', m) /\ ~In(toPeer', m)
      BY <1>1 DEF In
    <2>2. \A p : Open(p)' <=> Open(p)
      BY <1>1 DEF Open
    <2> QED
      BY <1>1, <2>1, <2>2 DEF IndInv, Agreement, Waiting
  <1>6. ASSUME NEW p \in Paths PROVE Agreed(p)'
    <2>1. Down(p)'
      BY <1>2, <1>3 DEF Down
    <2> QED
      BY <1>1, <1>2, <1>3, <2>1 DEF Agreed, OneAdd, NotServed, Served
  <1> QED
    BY <1>4, <1>5, <1>6 DEF Agreement

\* What the daemon does not count on is down.
LEMMA OutOfTouch ==
    ASSUME IndInv, NEW p \in Paths, ~InTouch(p)
    PROVE  Down(p)
  <1>1. toDaemon \in Seq(DaemonMsgs)
    BY Typed DEF Typing
  <1>2. DOMAIN toDaemon = 1 .. Len(toDaemon)
    BY <1>1, Elements
  <1>3. None(toDaemon, About(p)) /\ owner[p] # "self"
    BY <1>2 DEF InTouch, None, About
  <1> QED
    BY <1>3 DEF Down

\* The daemon counts on a path something is on its way about.
LEMMA InTouchBy ==
    ASSUME IndInv, NEW m, In(toDaemon, m) \/ In(toPeer, m)
    PROVE  InTouch(m.path)
  <1>1. toDaemon \in Seq(DaemonMsgs) /\ toPeer \in Seq(PeerMsgs)
    BY Typed DEF Typing
  <1>2. DOMAIN toDaemon = 1 .. Len(toDaemon) /\ DOMAIN toPeer = 1 .. Len(toPeer)
    BY <1>1, Elements
  <1> QED
    BY <1>2 DEF InTouch, In

\* A path that is down stays agreed about when its callback is given up.
LEMMA GivenUp ==
    ASSUME IndInv, Orderly, NEW p \in Paths, p \notin dropped, Down(p),
           reg'[p] = "none", UNCHANGED <<adding, toDaemon, toPeer, owner>>
    PROVE  Agreed(p)'
  <1>1. OneAdd(p) /\ NotServed(p)
    BY DEF IndInv, Agreement, Agreed
  <1>2. Down(p)'
    BY DEF Down
  <1> QED
    BY <1>1, <1>2 DEF Agreed, OneAdd, NotServed, Served

\* stop() forgets the callbacks: what was served is down, or dropped.
LEMMA StopClearsAgrees ==
    ASSUME IndInv, Orderly, StopClearsStates
    PROVE  Agreement'
  <1>t. Typing
    BY Typed
  <1>1. /\ UNCHANGED <<adding, removing, adds, addPath, openAdds, failed, conn, toDaemon, toPeer, owner>>
        /\ dropped' = dropped \cup {p \in {q \in Paths : reg[q] # "none"} : InTouch(p)}
    BY DEF StopClearsStates, Drops, daemon
  <1>2. \A p \in Paths : reg'[p] = "none"
    BY <1>t, Unregistered DEF StopClearsStates
  <1>3. Linked'
    BY <1>1 DEF IndInv, Agreement, Linked
  <1>4. Waiting'
    BY <1>1, <1>2, WaitingKept
  <1>5. ASSUME NEW p \in Paths, p \notin dropped' PROVE Agreed(p)'
    <2>1. p \notin dropped /\ (reg[p] # "none" => ~InTouch(p))
      BY <1>1, <1>5
    <2>2. CASE Down(p)
      BY <1>1, <1>2, <2>1, <2>2, GivenUp
    <2>3. CASE ~Down(p)
      <3>1. reg[p] = "none"
        BY <2>1, <2>3, OutOfTouch
      <3>2. OneAdd(p) /\ NotServed(p)
        BY <2>1 DEF IndInv, Agreement, Agreed
      <3>3. Leaving(p)'
        BY <1>1, <2>3, <3>1, <3>2 DEF NotServed, Leaving
      <3>4. OneAdd(p)' /\ Served(p)'
        BY <1>1, <1>2, <3>2 DEF OneAdd, Served
      <3>5. NotServed(p)'
        BY <1>1, <2>3, <3>2, <3>3 DEF NotServed
      <3> QED
        BY <3>4, <3>5 DEF Agreed
    <2> QED
      BY <2>2, <2>3
  <1> QED
    BY <1>3, <1>4, <1>5 DEF Agreement

\* The stop of this peer or of another one cancels the open adds: a path whose add
\* was sent is dropped, unless the daemon has answered and is out of touch; a path
\* whose add was not sent is down.
LEMMA ClearAgrees ==
    ASSUME IndInv, Orderly, Clear,
           UNCHANGED <<adding, removing, adds, addPath, conn, toDaemon, toPeer, owner>>,
           stopping = "states" => stopping' = "states"
    PROVE  Agreement'
  <1>t. Typing
    BY Typed
  <1>1. /\ openAdds' = {} /\ failed' = {}
        /\ dropped' = dropped \cup {p \in {addPath[i] : i \in openAdds \ failed} : InTouch(p)}
        /\ Unregister({addPath[i] : i \in openAdds})
    BY DEF Clear, Drops
  <1>2. /\ \A p \in Paths : Open(p) => reg'[p] = "none"
        /\ \A p \in Paths : ~Open(p) => reg'[p] = reg[p]
    BY <1>t, <1>1, Unregistered DEF Open
  <1>3. Linked'
    BY DEF IndInv, Agreement, Linked
  <1>4. Waiting'
    <2>0. Waiting
      BY DEF IndInv, Agreement
    <2>1. ASSUME NEW m, In(toDaemon, m) \/ In(toPeer, m), Awaited(m) PROVE Awaited(m)'
      <3>1. m.path \in dropped'
        BY <1>1, <2>1, InTouchBy DEF Awaited
      <3> QED
        BY <2>1, <3>1 DEF Awaited
    <2>2. (adding # NoPath => ~Open(adding))'
      BY <1>1 DEF Open
    <2>3. (removing # NoPath => adding = NoPath /\ reg[removing] = "none")'
      BY <1>t, <1>2, <2>0 DEF Waiting, Typing
    <2> QED
      BY <1>1, <2>0, <2>1, <2>2, <2>3 DEF Waiting
  <1>5. ASSUME NEW p \in Paths, p \notin dropped' PROVE Agreed(p)'
    <2>1. p \notin dropped
      BY <1>1, <1>5
    <2>2. CASE Open(p)
      <3>1. PICK i \in openAdds : addPath[i] = p
        BY <2>2 DEF Open
      <3>2. CASE i \in failed
        <4>1. Down(p)
          BY <2>1, <3>1, <3>2 DEF IndInv, Agreement, Agreed, NotServed
        <4> QED
          BY <1>2, <2>1, <2>2, <4>1, GivenUp
      <3>3. CASE i \notin failed
        <4>1. ~InTouch(p)
          BY <1>1, <1>5, <3>1, <3>3
        <4> QED
          BY <1>2, <2>1, <2>2, <4>1, OutOfTouch, GivenUp
      <3> QED
        BY <3>2, <3>3
    <2>3. CASE ~Open(p)
      <3>1. /\ MovesOutside(toDaemon, toDaemon', DaemonMsgs, About(p))
            /\ MovesOutside(toPeer, toPeer', PeerMsgs, ResultsOf(p))
        BY DEF MovesOutside
      <3>2. ~Open(p)'
        BY <1>1 DEF Open
      <3> QED
        BY <1>1, <1>2, <2>1, <2>3, <3>1, <3>2, PathKept
    <2> QED
      BY <2>2, <2>3
  <1> QED
    BY <1>3, <1>4, <1>5 DEF Agreement

\* The two places that cancel the open adds.
LEMMA CancelAgrees ==
    ASSUME IndInv, Orderly, StopCancelsRequests \/ OtherPeerStops
    PROVE  Agreement'
  <1>1. /\ Clear
        /\ UNCHANGED <<adding, removing, adds, addPath, conn, toDaemon, toPeer, owner>>
        /\ stopping = "states" => stopping' = "states"
    BY DEF StopCancelsRequests, OtherPeerStops, link, daemon
  <1> QED
    BY <1>1, ClearAgrees

\* The result of an add arrives: if it is an error, the path is down, and if it is
\* not, the path is held or was removed.
LEMMA AddResultAgrees ==
    ASSUME IndInv, Orderly, HandleAddResult
    PROVE  Agreement'
  <1>t. Typing
    BY Typed
  <1> DEFINE m == Head(toPeer)
  <1>1. /\ UNCHANGED <<adding, removing, adds, addPath, conn, stopping, losses, toDaemon, owner, dropped>>
        /\ toPeer # <<>> /\ m.type \in {"ok", "error"} /\ toPeer' = Tail(toPeer)
        /\ conn /\ stopping = "no"
        /\ AddResult(m.n, m.type = "ok")
    BY DEF HandleAddResult, Receiving, Orderly, link, daemon
  <1>2. toPeer \in Seq(PeerMsgs) /\ toDaemon \in Seq(DaemonMsgs)
    BY <1>t DEF Typing
  <1>3. m \in PeerMsgs /\ In(toPeer, m)
    BY <1>1, <1>2, HeadTaken, InMoves
  <1>4. Awaited(m)
    BY <1>1, <1>3 DEF IndInv, Agreement, Waiting
  <1>5. PICK i \in 1 .. adds, p \in Paths : i = m.n /\ p = m.path
    BY <1>3, <1>4, MsgTypes DEF Awaited
  <1> HIDE DEF m
  <1>6. addPath[i] = p /\ (p \notin dropped => i \in openAdds \ failed)
    BY <1>4, <1>5 DEF Awaited
  <1>7. /\ openAdds' = openAdds \ {i} /\ failed' = failed \ {i}
        /\ Unregister(IF i \in openAdds /\ m.type # "ok" THEN {p} ELSE {})
    BY <1>1, <1>5, <1>6 DEF AddResult
  <1>8. /\ \A q \in Paths : q # p \/ m.type = "ok" => reg'[q] = reg[q]
        /\ p \notin dropped /\ m.type = "error" => reg'[p] = "none"
        /\ \A q \in Paths : reg[q] = "none" => reg'[q] = "none"
    BY <1>t, <1>1, <1>6, <1>7, Unregistered
  <1>9. m \in ResultsOf(p) /\ (m.type = "error" => m \in ErrorsOf(p)) /\ (m.type = "ok" => m \in OksOf(p))
    BY <1>1, <1>3, <1>5 DEF ResultsOf, ErrorsOf, OksOf
  <1>10. ASSUME p \notin dropped PROVE OneAdd(p) /\ NotServed(p) /\ Served(p)
    BY <1>10 DEF IndInv, Agreement, Agreed
  <1>11. ASSUME p \notin dropped PROVE None(toDaemon, AddsOf(p))
    BY <1>3, <1>9, <1>10, <1>11, InNone DEF OneAdd
  <1>12. ASSUME p \notin dropped PROVE None(Tail(toPeer), ResultsOf(p))
    <2>1. AtMostOne(toPeer, ResultsOf(p)) /\ Head(toPeer) \in ResultsOf(p)
      BY <1>9, <1>10, <1>12 DEF OneAdd, m
    <2> QED
      BY <1>1, <1>2, <2>1, Takes
  <1>13. Linked'
    BY <1>1 DEF IndInv, Agreement, Linked
  <1>14. Waiting'
    <2>0. Waiting
      BY DEF IndInv, Agreement
    <2>1. ASSUME NEW y \in DaemonMsgs, y.type = "add", y.n # 0, In(toDaemon, y) PROVE Awaited(y)'
      <3>1. Awaited(y)
        BY <2>0, <2>1 DEF Waiting
      <3>2. p \notin dropped => y \notin AddsOf(p)
        BY <1>11, <2>1, InNone
      <3>3. y.n # i \/ y.path \in dropped
        BY <1>6, <2>1, <3>1, <3>2 DEF Awaited, AddsOf
      <3> QED
        BY <1>1, <1>7, <3>1, <3>3 DEF Awaited
    <2>2. ASSUME NEW y \in PeerMsgs, y.type \in {"ok", "error"}, In(toPeer', y) PROVE Awaited(y)'
      <3>1. In(toPeer, y) /\ Awaited(y)
        BY <1>1, <1>2, <2>0, <2>2, InMoves DEF Waiting
      <3>2. p \notin dropped => y \notin ResultsOf(p)
        BY <1>1, <1>12, <2>2, InNone
      <3>3. y.n # i \/ y.path \in dropped
        BY <1>6, <2>2, <3>1, <3>2 DEF Awaited, ResultsOf
      <3> QED
        BY <1>1, <1>7, <3>1, <3>3 DEF Awaited
    <2>3. (adding # NoPath => ~Open(adding))'
      BY <1>1, <1>7, <2>0 DEF Waiting, Open
    <2>4. (removing # NoPath => adding = NoPath /\ reg[removing] = "none")'
      BY <1>t, <1>1, <1>8, <2>0 DEF Waiting, Typing
    <2> QED
      BY <1>1, <1>7, <2>0, <2>1, <2>2, <2>3, <2>4 DEF Waiting
  <1>15. ASSUME p \notin dropped PROVE Agreed(p)'
    <2>0. OneAdd(p) /\ NotServed(p) /\ Served(p) /\ None(toDaemon, AddsOf(p)) /\ None(Tail(toPeer), ResultsOf(p))
      BY <1>10, <1>11, <1>12, <1>15
    <2>1. OneAdd(p)'
      <3>1. AtMostOne(Tail(toPeer), ResultsOf(p))
        BY <2>0 DEF AtMostOne, None
      <3> QED
        BY <1>1, <2>0, <3>1 DEF OneAdd
    <2>2. None(toPeer', OksOf(p)) /\ None(toPeer', ErrorsOf(p))
      BY <1>1, <2>0 DEF None, ResultsOf, OksOf, ErrorsOf
    <2>4. (Down(p) => Down(p)') /\ (Held(p) => Held(p)') /\ (Leaving(p) => Leaving(p)')
      BY <1>1 DEF Down, Held, Leaving
    <2>5. CASE m.type = "error"
      <3>1. Down(p)
        BY <1>3, <1>9, <2>0, <2>5, InNone DEF NotServed
      <3> QED
        BY <1>1, <1>7, <1>8, <1>15, <2>0, <2>1, <2>2, <2>4, <2>5, <3>1 DEF Agreed, NotServed, Served
    <2>6. CASE m.type = "ok"
      <3>1. reg[p] # "none" => Held(p)
        BY <1>3, <1>9, <2>0, <2>6, InNone DEF Served
      <3>2. NotServed(p)'
        BY <1>1, <1>7, <1>8, <2>0, <2>2, <2>4, <2>6 DEF NotServed
      <3>3. Served(p)'
        BY <1>1, <1>8, <2>0, <2>2, <2>4, <2>6, <3>1 DEF Served
      <3> QED
        BY <2>1, <3>2, <3>3 DEF Agreed
    <2> QED
      BY <1>1, <2>5, <2>6
  <1>16. ASSUME NEW q \in Paths, q \notin dropped, q # p PROVE Agreed(q)'
    <2>1. Open(q)' <=> Open(q)
      BY <1>1, <1>6, <1>7, <1>16 DEF Open
    <2>2. MovesOutside(toDaemon, toDaemon', DaemonMsgs, About(q))
      BY <1>1 DEF MovesOutside
    <2>3. (\E j \in failed' : addPath'[j] = q) => (\E j \in failed : addPath[j] = q)
      BY <1>1, <1>7
    <2> QED
      BY <1>1, <1>8, <1>16, <2>1, <2>2, <2>3, PathKept
  <1> QED
    BY <1>1, <1>13, <1>14, <1>15, <1>16 DEF Agreement

\* The error notifier of an add fires, and completes the add whose id it reads:
\* that was never sent, and its path is down, or its path is out of touch, or
\* dropped.
LEMMA AddFailedAgrees ==
    ASSUME IndInv, Orderly, NEW i \in Adds, NEW x \in 0 .. MaxAdds, HandleAddFailed(i, x)
    PROVE  Agreement'
  <1>t. Typing
    BY Typed
  <1>1. /\ UNCHANGED <<adding, removing, adds, addPath, conn, stopping, losses, toDaemon, toPeer, owner>>
        /\ i \in failed /\ i \in openAdds /\ (x # 0 => x \in openAdds)
        /\ openAdds' = openAdds \ {x} /\ failed' = failed \ {i, x}
        /\ Unregister(IF x = 0 THEN {} ELSE {addPath[x]})
        /\ dropped' = dropped \cup {p \in IF x = 0 \/ x \in failed THEN {} ELSE {addPath[x]} : InTouch(p)}
    BY <1>t DEF HandleAddFailed, Drops, link, daemon, Typing, Adds
  <1>2. dropped \subseteq dropped' /\ \A p \in Paths : reg[p] = "none" => reg'[p] = "none"
    BY <1>t, <1>1, Unregistered
  <1>3. 0 \notin openAdds
    BY <1>t DEF Typing, Adds
  <1>4. Linked'
    BY <1>1 DEF IndInv, Agreement, Linked
  <1>5. Waiting'
    <2>0. Waiting
      BY DEF IndInv, Agreement
    <2>1. ASSUME NEW m, In(toDaemon, m) \/ In(toPeer, m), Awaited(m) PROVE Awaited(m)'
      <3>1. CASE m.path \in dropped
        BY <1>1, <1>2, <2>1, <3>1 DEF Awaited
      <3>2. CASE m.path \notin dropped
        <4>1. m.n \in openAdds \ failed /\ addPath[m.n] = m.path /\ m.n # 0 /\ InTouch(m.path)
          BY <1>3, <2>1, <3>2, InTouchBy DEF Awaited
        <4>2. m.n = x => m.path \in dropped'
          BY <1>1, <4>1
        <4> QED
          BY <1>1, <2>1, <4>1, <4>2 DEF Awaited
      <3> QED
        BY <3>1, <3>2
    <2>2. (adding # NoPath => ~Open(adding))'
      BY <1>1, <2>0 DEF Waiting, Open
    <2>3. (removing # NoPath => adding = NoPath /\ reg[removing] = "none")'
      BY <1>t, <1>1, <1>2, <2>0 DEF Waiting, Typing
    <2> QED
      BY <1>1, <2>0, <2>1, <2>2, <2>3 DEF Waiting
  <1>6. ASSUME NEW q \in Paths, q \notin dropped' PROVE Agreed(q)'
    <2>0. q \notin dropped
      BY <1>2, <1>6
    <2>1. /\ MovesOutside(toDaemon, toDaemon', DaemonMsgs, About(q))
          /\ MovesOutside(toPeer, toPeer', PeerMsgs, ResultsOf(q))
      BY <1>1 DEF MovesOutside
    <2>2. CASE x # 0 /\ addPath[x] = q
      <3>1. Down(q)
        <4>1. CASE x \in failed
          BY <2>0, <2>2, <4>1 DEF IndInv, Agreement, Agreed, NotServed
        <4>2. CASE x \notin failed
          <5>1. ~InTouch(q)
            BY <1>1, <1>6, <2>2, <4>2
          <5> QED
            BY <5>1, OutOfTouch
        <4> QED
          BY <4>1, <4>2
      <3>2. reg'[q] = "none"
        BY <1>t, <1>1, <2>2, Unregistered
      <3> QED
        BY <1>1, <2>0, <3>1, <3>2, GivenUp
    <2>3. CASE ~(x # 0 /\ addPath[x] = q)
      <3>1. reg'[q] = reg[q]
        BY <1>t, <1>1, <2>3, Unregistered
      <3>2. Open(q)' <=> Open(q)
        BY <1>1, <1>3, <2>3 DEF Open
      <3>3. (\E j \in failed' : addPath'[j] = q) => (\E j \in failed : addPath[j] = q)
        BY <1>1
      <3> QED
        BY <1>1, <2>0, <2>1, <3>1, <3>2, <3>3, PathKept
    <2> QED
      BY <2>2, <2>3
  <1> QED
    BY <1>4, <1>5, <1>6 DEF Agreement

\* The daemon adds a path: it is the peer's, or another's and down.
LEMMA DaemonAddsAgrees ==
    ASSUME IndInv, Orderly, DaemonAdds
    PROVE  Agreement'
  <1>t. Typing
    BY Typed
  <1> DEFINE m == Head(toDaemon)
  <1>1. /\ UNCHANGED <<reg, adding, removing, adds, addPath, openAdds, failed, conn, stopping, losses, dropped>>
        /\ toDaemon # <<>> /\ m.type = "add" /\ toDaemon' = Tail(toDaemon)
    BY DEF DaemonAdds, Processing, peer, link
  <1>2. toPeer \in Seq(PeerMsgs) /\ toDaemon \in Seq(DaemonMsgs)
    BY <1>t DEF Typing
  <1>3. m \in DaemonMsgs /\ In(toDaemon, m) /\ m.n \in 0 .. MaxAdds + MaxRequests
    BY <1>1, <1>2, HeadTaken, InMoves, MsgTypes
  <1>4. m.n # 0 => Awaited(m)
    BY <1>1, <1>3 DEF IndInv, Agreement, Waiting
  <1>5. PICK p \in Paths : p = m.path
    BY <1>3, MsgTypes
  <1> DEFINE a == Msg(IF owner[p] = "none" THEN "ok" ELSE "error", p, m.n)
  <1>7. /\ owner' = [owner EXCEPT ![p] = IF owner[p] = "none" THEN "self" ELSE owner[p]]
        /\ toPeer' = IF m.n = 0 THEN toPeer ELSE Append(toPeer, a)
    BY <1>5 DEF DaemonAdds
  <1>8. /\ a \in PeerMsgs /\ a.path = p /\ a.n = m.n
        /\ a.type = IF owner[p] = "none" THEN "ok" ELSE "error"
    BY <1>3, <1>5, MsgFields
  <1> HIDE DEF m, a
  <1>9. /\ owner'[p] = IF owner[p] = "none" THEN "self" ELSE owner[p]
        /\ \A q \in Paths : q # p => owner'[q] = owner[q]
    BY <1>t, <1>7 DEF Typing
  <1>10. /\ m \in AddsOf(p) /\ m \in About(p) /\ a \in ResultsOf(p)
         /\ m.n # 0 => m \in NumberedAdds(p)
    BY <1>1, <1>3, <1>5, <1>8 DEF AddsOf, NumberedAdds, About, ResultsOf
  <1>12. Linked'
    <2>1. conn
      BY <1>1, NothingOwned
    <2> QED
      BY <1>1, <2>1 DEF IndInv, Agreement, Linked
  <1>13. Waiting'
    <2>0. Waiting
      BY DEF IndInv, Agreement
    <2>1. \A y : Awaited(y) => Awaited(y)'
      BY <1>1 DEF Awaited
    <2>2. /\ \A y \in DaemonMsgs : In(toDaemon', y) => In(toDaemon, y)
          /\ \A q : Open(q)' <=> Open(q)
      BY <1>1, <1>2, InMoves DEF Open
    <2>3. \A y : In(Append(toPeer, a), y) => In(toPeer, y) \/ y = a
      BY <1>2, <1>8, InMoves
    <2>4. m.n # 0 => Awaited(a)
      BY <1>4, <1>5, <1>8 DEF Awaited
    <2> QED
      BY <1>1, <1>7, <2>0, <2>1, <2>2, <2>3, <2>4 DEF Waiting
  <1>14. ASSUME p \notin dropped PROVE Agreed(p)'
    <2>0. OneAdd(p) /\ NotServed(p) /\ Served(p)
      BY <1>14 DEF IndInv, Agreement, Agreed
    <2>1. None(toPeer, ResultsOf(p)) /\ AtMostOne(toPeer, ResultsOf(p))
      BY <1>3, <1>10, <2>0, InNone DEF OneAdd
    <2>2. None(toPeer, OksOf(p)) /\ None(toPeer, ErrorsOf(p))
      BY <2>1 DEF None, ResultsOf, OksOf, ErrorsOf
    <2>3. /\ AtMostOne(Tail(toDaemon), NumberedAdds(p))
          /\ NoneAfter(Tail(toDaemon), AddsOf(p), NumberedAdds(p))
          /\ m.n # 0 => None(Tail(toDaemon), AddsOf(p))
      <3>1. /\ AtMostOne(toDaemon, NumberedAdds(p)) /\ NoneAfter(toDaemon, AddsOf(p), NumberedAdds(p))
            /\ m.n # 0 => Head(toDaemon) \in NumberedAdds(p)
        BY <1>10, <2>0 DEF OneAdd, m
      <3>2. AtMostOne(Tail(toDaemon), NumberedAdds(p))
        BY <1>1, <1>2, <3>1, Takes
      <3>3. /\ NoneAfter(Tail(toDaemon), AddsOf(p), NumberedAdds(p))
            /\ m.n # 0 => None(Tail(toDaemon), AddsOf(p))
        BY <1>1, <1>2, <3>1, TakenOut
      <3> QED
        BY <3>2, <3>3
    <2>4. /\ Parted(Tail(toDaemon), AddsOf(p), RemovesOf(p))
          /\ Preceded(Tail(toDaemon), AddsOf(p), RemovesOf(p))
      <3>1. /\ Parted(toDaemon, AddsOf(p), RemovesOf(p)) /\ Head(toDaemon) \in AddsOf(p)
            /\ AddsOf(p) \cap RemovesOf(p) = {}
        BY <1>10, <2>0 DEF OneAdd, AddsOf, RemovesOf, m
      <3> QED
        BY <1>1, <1>2, <3>1, PartedMoves
    <2>5. OneAdd(p)'
      <3>1. AtMostOne(Append(toPeer, a), ResultsOf(p))
        BY <1>2, <1>8, <2>1, Sends
      <3> QED
        BY <1>1, <1>7, <2>1, <2>3, <2>4, <3>1 DEF OneAdd
    <2>6. owner[p] # "self"
      <3>1. ASSUME owner[p] = "self" PROVE Head(toDaemon) \notin AddsOf(p)
        <4>1. Preceded(toDaemon, AddsOf(p), RemovesOf(p))
          BY <2>0, <3>1 DEF NotServed
        <4> QED
          BY <1>1, <1>2, <4>1, TakenOut
      <3> QED
        BY <1>10, <3>1 DEF m
    <2>7. ~None(toDaemon, About(p)) /\ (Down(p) => Down(p)')
      <3>1. ~None(toDaemon, About(p))
        BY <1>3, <1>10, InNone
      <3>2. ASSUME Down(p) PROVE Down(p)'
        <4>1. LastOf(toDaemon, About(p), RemovesOf(p))
          BY <3>1, <3>2 DEF Down
        <4>2. Head(toDaemon) \notin RemovesOf(p)
          BY <1>1 DEF RemovesOf, m
        <4>3. LastOf(Tail(toDaemon), About(p), RemovesOf(p))
          BY <1>1, <1>2, <4>1, <4>2, TakenOut
        <4> QED
          BY <1>1, <4>3 DEF Down
      <3> QED
        BY <3>1, <3>2
    <2>8. ASSUME reg[p] # "none" \/ Leaving(p)
          PROVE  /\ NoneAfter(Tail(toDaemon), RemovesOf(p), NumberedAdds(p))
                 /\ m.n # 0 => None(Tail(toDaemon), About(p))
      <3>1. /\ NoneAfter(toDaemon, RemovesOf(p), NumberedAdds(p))
            /\ m.n # 0 => Head(toDaemon) \in NumberedAdds(p)
        BY <1>10, <2>0, <2>8 DEF Served, Leaving, m
      <3>2. /\ NoneAfter(Tail(toDaemon), RemovesOf(p), NumberedAdds(p))
            /\ m.n # 0 => None(Tail(toDaemon), RemovesOf(p))
        BY <1>1, <1>2, <3>1, TakenOut
      <3> QED
        BY <2>3, <3>2 DEF None, About, AddsOf, RemovesOf
    <2>9. ASSUME ~None(toPeer', ErrorsOf(p)) PROVE Down(p)'
      <3>1. m.n # 0 /\ a \in ErrorsOf(p)
        BY <1>2, <1>7, <1>8, <2>2, <2>9, Sends
      <3>2. owner[p] # "none" /\ owner'[p] # "self"
        BY <1>8, <1>9, <2>6, <3>1 DEF ErrorsOf
      <3>3. CASE Down(p)
        BY <2>7, <3>3
      <3>4. CASE reg[p] # "none" \/ Leaving(p)
        BY <1>1, <2>8, <3>1, <3>2, <3>4 DEF Down
      <3> QED
        BY <2>0, <3>3, <3>4 DEF NotServed
    <2>10. Open(p)' <=> Open(p)
      BY <1>1 DEF Open
    <2>l. Leaving(p) => Leaving(p)'
      BY <1>1, <2>8 DEF Leaving
    <2>11. NotServed(p)'
      BY <1>1, <2>0, <2>l, <2>4, <2>7, <2>9, <2>10 DEF NotServed
    <2>12. ASSUME reg[p] # "none", ~None(toPeer', OksOf(p)) PROVE Held(p)'
      <3>1. m.n # 0 /\ a \in OksOf(p)
        BY <1>2, <1>7, <1>8, <2>2, <2>12, Sends
      <3>2. owner'[p] = "self"
        BY <1>8, <1>9, <3>1 DEF OksOf
      <3> QED
        BY <1>1, <2>8, <2>12, <3>1, <3>2 DEF Held
    <2>13. Served(p)'
      <3>1. ~Held(p)
        BY <2>7 DEF Held
      <3> QED
        BY <1>1, <2>0, <2>8, <2>10, <2>12, <3>1 DEF Served
    <2> QED
      BY <2>5, <2>11, <2>13 DEF Agreed
  <1>15. ASSUME NEW q \in Paths, q \notin dropped, q # p PROVE Agreed(q)'
    <2>1. m \notin About(q) /\ a \notin ResultsOf(q)
      BY <1>5, <1>8, <1>15 DEF About, ResultsOf
    <2>2. /\ MovesOutside(toDaemon, toDaemon', DaemonMsgs, About(q))
          /\ MovesOutside(toPeer, toPeer', PeerMsgs, ResultsOf(q))
      BY <1>1, <1>7, <1>8, <2>1 DEF MovesOutside, m
    <2>3. Open(q)' <=> Open(q)
      BY <1>1 DEF Open
    <2>4. owner'[q] = owner[q]
      BY <1>9, <1>15
    <2> QED
      BY <1>1, <1>15, <2>2, <2>3, <2>4, PathKept
  <1> QED
    BY <1>1, <1>12, <1>13, <1>14, <1>15 DEF Agreement

\* The daemon removes a path: it is down, then as before.
LEMMA DaemonRemovesAgrees ==
    ASSUME IndInv, Orderly, DaemonRemoves
    PROVE  Agreement'
  <1>t. Typing
    BY Typed
  <1> DEFINE m == Head(toDaemon)
  <1>1. /\ UNCHANGED <<reg, adding, removing, adds, addPath, openAdds, failed, conn, stopping, losses, toPeer, dropped>>
        /\ toDaemon # <<>> /\ m.type = "remove" /\ toDaemon' = Tail(toDaemon)
    BY DEF DaemonRemoves, Processing, peer, link
  <1>2. toPeer \in Seq(PeerMsgs) /\ toDaemon \in Seq(DaemonMsgs)
    BY <1>t DEF Typing
  <1>3. m \in DaemonMsgs /\ In(toDaemon, m)
    BY <1>1, <1>2, HeadTaken, InMoves
  <1>4. PICK p \in Paths : p = m.path
    BY <1>3, MsgTypes
  <1>5. owner' = [owner EXCEPT ![p] = IF owner[p] = "self" THEN "none" ELSE owner[p]]
    BY <1>4 DEF DaemonRemoves
  <1>6. owner'[p] # "self" /\ \A q \in Paths : q # p => owner'[q] = owner[q]
    BY <1>t, <1>5 DEF Typing
  <1> HIDE DEF m
  <1>7. Linked'
    <2>1. conn
      BY <1>1, NothingOwned
    <2> QED
      BY <1>1, <2>1 DEF IndInv, Agreement, Linked
  <1>8. Waiting'
    <2>1. \A y \in DaemonMsgs : In(toDaemon', y) => In(toDaemon, y)
      BY <1>1, <1>2, InMoves
    <2> QED
      BY <1>1, <2>1, WaitingKept
  <1>9. ASSUME p \notin dropped PROVE Agreed(p)'
    <2>1. OneAdd(p) /\ NotServed(p) /\ Served(p)
      BY <1>9 DEF IndInv, Agreement, Agreed
    <2>2. m \in RemovesOf(p) /\ m \in About(p)
      BY <1>1, <1>3, <1>4 DEF RemovesOf, About
    <2>3. Down(p) => Down(p)'
      <3>1. ~None(toDaemon, About(p))
        BY <1>3, <2>2, InNone
      <3>2. LastOf(toDaemon, About(p), RemovesOf(p)) =>
               LastOf(Tail(toDaemon), About(p), RemovesOf(p)) \/ None(Tail(toDaemon), About(p))
        BY <1>1, <1>2, TakenOut
      <3> QED
        BY <1>1, <1>6, <3>1, <3>2 DEF Down
    <2>4. ~Held(p)
      BY <1>3, <2>2, InNone DEF Held
    <2>5. /\ AtMostOne(toDaemon, NumberedAdds(p)) => AtMostOne(Tail(toDaemon), NumberedAdds(p))
          /\ None(toDaemon, AddsOf(p)) => None(Tail(toDaemon), AddsOf(p))
      BY <1>1, <1>2, Takes
    <2>6. /\ NoneAfter(toDaemon, RemovesOf(p), NumberedAdds(p)) =>
                NoneAfter(Tail(toDaemon), RemovesOf(p), NumberedAdds(p))
          /\ NoneAfter(toDaemon, AddsOf(p), NumberedAdds(p)) =>
                NoneAfter(Tail(toDaemon), AddsOf(p), NumberedAdds(p))
          /\ Parted(toDaemon, AddsOf(p), RemovesOf(p)) => Parted(Tail(toDaemon), AddsOf(p), RemovesOf(p))
      <3>1. AddsOf(p) \cap RemovesOf(p) = {}
        BY DEF AddsOf, RemovesOf
      <3>2. /\ NoneAfter(toDaemon, RemovesOf(p), NumberedAdds(p)) =>
                  NoneAfter(Tail(toDaemon), RemovesOf(p), NumberedAdds(p))
            /\ NoneAfter(toDaemon, AddsOf(p), NumberedAdds(p)) =>
                  NoneAfter(Tail(toDaemon), AddsOf(p), NumberedAdds(p))
        BY <1>1, <1>2, TakenOut
      <3>3. Parted(toDaemon, AddsOf(p), RemovesOf(p)) => Parted(Tail(toDaemon), AddsOf(p), RemovesOf(p))
        BY <1>1, <1>2, <3>1, PartedMoves
      <3> QED
        BY <3>2, <3>3
    <2>7. Open(p)' <=> Open(p)
      BY <1>1 DEF Open
    <2>8. OneAdd(p)'
      BY <1>1, <2>1, <2>5, <2>6 DEF OneAdd
    <2>9. NotServed(p)'
      BY <1>1, <1>6, <2>1, <2>3, <2>6, <2>7 DEF NotServed, Leaving
    <2>10. Served(p)'
      BY <1>1, <2>1, <2>4, <2>6, <2>7 DEF Served
    <2> QED
      BY <2>8, <2>9, <2>10 DEF Agreed
  <1>10. ASSUME NEW q \in Paths, q \notin dropped, q # p PROVE Agreed(q)'
    <2>1. m \notin About(q)
      BY <1>4, <1>10 DEF About
    <2>2. /\ MovesOutside(toDaemon, toDaemon', DaemonMsgs, About(q))
          /\ MovesOutside(toPeer, toPeer', PeerMsgs, ResultsOf(q))
      BY <1>1, <2>1 DEF MovesOutside, m
    <2>3. Open(q)' <=> Open(q)
      BY <1>1 DEF Open
    <2>4. owner'[q] = owner[q]
      BY <1>6, <1>10
    <2> QED
      BY <1>1, <1>10, <2>2, <2>3, <2>4, PathKept
  <1> QED
    BY <1>1, <1>7, <1>8, <1>9, <1>10 DEF Agreement

-----------------------------------------------------------------------------
(* Theorems *)

\* At first nothing is added, and nothing is on its way.
LEMMA Initially == Init => IndInv
  <1> SUFFICES ASSUME Init PROVE IndInv
    OBVIOUS
  <1> USE DEF Init
  <1>0. MaxAdds \in Nat /\ MaxRequests \in Nat /\ MaxLosses \in Nat /\ NoPath \notin Paths
    BY OwnerAssumption
  <1>1. \A A, B : /\ None(toDaemon, A) /\ None(toPeer, A) /\ AtMostOne(toDaemon, A) /\ AtMostOne(toPeer, A)
                  /\ NoneAfter(toDaemon, A, B) /\ Preceded(toDaemon, A, B) /\ Parted(toDaemon, A, B)
    BY EmptyQueue
  <1>2. TypeOK
    BY <1>0 DEF TypeOK
  <1>3. Types
    <2>1. \A i \in 1 .. adds : addPath[i] \in Paths
      OBVIOUS
    <2> QED
      BY <1>1, <1>2, <2>1 DEF Types
  <1>4. Serving
    BY <1>1 DEF Serving, Placed
  <1>5. Linked
    BY DEF Linked
  <1>6. Waiting
    BY DEF Waiting, In
  <1>7. ASSUME NEW p \in Paths \ dropped PROVE Agreed(p)
    BY <1>0, <1>1 DEF Agreed, OneAdd, NotServed, Served, Down, Open
  <1> QED
    BY <1>3, <1>4, <1>5, <1>6, <1>7 DEF IndInv, Agreement

\* Every step keeps the types, and keeps requests in one place.
LEMMA BaseStep ==
    ASSUME IndInv, [Next]_vars
    PROVE  Types' /\ Serving'
  <1>1. CASE Application
    BY <1>1, AddBase, RemoveBase, OtherBase DEF Application
  <1>2. CASE EventLoop
    BY <1>2, ResultBase, RequestBase DEF EventLoop
  <1>3. CASE ConnectionLost
    BY <1>3, LostBase
  <1>4. CASE Daemon
    BY <1>4, DaemonBase, RoutesBackBase DEF Daemon
  <1>5. CASE OtherPeers
    BY <1>5, RouteBase, OtherBase, ResultBase DEF OtherPeers
  <1>6. CASE UNCHANGED vars
    BY <1>6, OtherBase
  <1> QED
    BY <1>1, <1>2, <1>3, <1>4, <1>5, <1>6 DEF Next

\* Every step of an orderly application keeps the agreement.
LEMMA AgreementStep ==
    ASSUME IndInv, Orderly, [Next]_vars
    PROVE  Agreement'
  <1>1. CASE Application
    BY <1>1, AddRegisterAgrees, AddSendAgrees, RemoveUnregisterAgrees, RemoveSendAgrees, OtherAgrees
      DEF Application
  <1>2. CASE EventLoop
    BY <1>2, AddResultAgrees, AddFailedAgrees, HandleRequestAgrees, RequestAgrees, StopClearsAgrees,
       CancelAgrees DEF EventLoop
  <1>3. CASE ConnectionLost
    BY <1>3, LostAgrees
  <1>4. CASE Daemon
    BY <1>4, DaemonAddsAgrees, DaemonRemovesAgrees, OtherAgrees DEF Daemon
  <1>5. CASE OtherPeers
    BY <1>5, RequestAgrees, OtherAgrees, CancelAgrees DEF OtherPeers
  <1>6. CASE UNCHANGED vars
    BY <1>6, OtherAgrees
  <1> QED
    BY <1>1, <1>2, <1>3, <1>4, <1>5, <1>6 DEF Next

\* The inductive invariant holds in every state that is reached.
THEOREM Invariance == Spec => []IndInv
  <1>1. IndInv /\ [Next]_vars => IndInv'
    BY BaseStep, AgreementStep DEF IndInv, Orderly
  <1> QED
    BY Initially, <1>1, PTL DEF Spec

\* The variables stay in their types, whatever the application does: only an
\* open add waits for its error notifier.
THEOREM TypeCorrect == Spec => []TypeOK
  <1>1. IndInv => TypeOK
    BY DEF IndInv, Types
  <1> QED
    BY Invariance, <1>1, PTL

\* The positions of no message, and of one.
LEMMA Counted ==
    ASSUME NEW q, NEW A
    PROVE  /\ None(q, A) => Cardinality({k \in 1 .. Len(q) : q[k] \in A}) = 0
           /\ One(q, A) => Cardinality({k \in 1 .. Len(q) : q[k] \in A}) = 1
  <1>1. ASSUME None(q, A) PROVE Cardinality({k \in 1 .. Len(q) : q[k] \in A}) = 0
    <2>1. {k \in 1 .. Len(q) : q[k] \in A} = {}
      BY <1>1 DEF None
    <2> QED
      BY <2>1, FS_EmptySet
  <1>2. ASSUME One(q, A) PROVE Cardinality({k \in 1 .. Len(q) : q[k] \in A}) = 1
    <2>1. PICK k \in 1 .. Len(q) : q[k] \in A /\ \A j \in 1 .. Len(q) : q[j] \in A => j = k
      BY <1>2 DEF One
    <2>2. {j \in 1 .. Len(q) : q[j] \in A} = {k}
      BY <2>1
    <2> QED
      BY <2>2, FS_Singleton
  <1> QED
    BY <1>1, <1>2

\* A routed request is in one place until it is answered, or ignored, or the
\* connection is lost: handleMessage answers it exactly once, for any callbacks,
\* from any thread, and with error notifiers that read any id.
THEOREM RequestsAreAnsweredOnce == Spec => []AnsweredOnce
  <1>1. IndInv => AnsweredOnce
    <2> SUFFICES ASSUME IndInv PROVE AnsweredOnce
      OBVIOUS
    <2>t. toDaemon \in Seq(DaemonMsgs) /\ toPeer \in Seq(PeerMsgs)
      BY Typed DEF Typing
    <2>1. ASSUME NEW r \in Reqs
          PROVE    Cardinality({k \in DOMAIN toPeer :
                       toPeer[k].n = r /\ toPeer[k].type \in {"set", "setnull", "call"}})
                 + Cardinality({k \in DOMAIN toDaemon :
                       toDaemon[k].n = r /\ toDaemon[k].type \in {"success", "failure"}})
                 = IF routed[r] = "open" /\ r \notin ignored THEN 1 ELSE 0
      <3>1. {k \in DOMAIN toPeer : toPeer[k].n = r /\ toPeer[k].type \in {"set", "setnull", "call"}}
              = {k \in 1 .. Len(toPeer) : toPeer[k] \in Requests(r)}
        <4>1. DOMAIN toPeer = 1 .. Len(toPeer) /\ \A k \in 1 .. Len(toPeer) : toPeer[k] \in PeerMsgs
          BY <2>t, Elements
        <4> QED
          BY <4>1 DEF Requests
      <3>2. {k \in DOMAIN toDaemon : toDaemon[k].n = r /\ toDaemon[k].type \in {"success", "failure"}}
              = {k \in 1 .. Len(toDaemon) : toDaemon[k] \in Responses(r)}
        <4>1. DOMAIN toDaemon = 1 .. Len(toDaemon) /\ \A k \in 1 .. Len(toDaemon) : toDaemon[k] \in DaemonMsgs
          BY <2>t, Elements
        <4> QED
          BY <4>1 DEF Responses
      <3> DEFINE a == Cardinality({k \in 1 .. Len(toPeer) : toPeer[k] \in Requests(r)})
      <3> DEFINE b == Cardinality({k \in 1 .. Len(toDaemon) : toDaemon[k] \in Responses(r)})
      <3>3. /\ None(toPeer, Requests(r)) => a = 0
            /\ One(toPeer, Requests(r)) => a = 1
            /\ None(toDaemon, Responses(r)) => b = 0
            /\ One(toDaemon, Responses(r)) => b = 1
        BY Counted
      <3>4. Placed(r)
        BY DEF IndInv, Serving
      <3> HIDE DEF a, b
      <3>5. a + b = IF routed[r] = "open" /\ r \notin ignored THEN 1 ELSE 0
        BY <3>3, <3>4 DEF Placed
      <3> QED
        BY <3>1, <3>2, <3>5 DEF a, b
    <2> QED
      BY <2>1 DEF AnsweredOnce
  <1> QED
    BY Invariance, <1>1, PTL

\* When the requesting peer is told of its success, the change has left the
\* peer, whatever the callbacks and the other threads do.
THEOREM ChangesComeFirst == Spec => []ChangeBeforeResponse
  <1>1. IndInv => ChangeBeforeResponse
    <2> SUFFICES ASSUME IndInv, NEW r \in Reqs, routed[r] = "success",
                        NEW k \in DOMAIN toDaemon, toDaemon[k].type = "change"
                 PROVE  toDaemon[k].n # r
      BY DEF ChangeBeforeResponse
    <2>1. k \in 1 .. Len(toDaemon) /\ toDaemon[k] \in DaemonMsgs
      BY Typed, Elements DEF Typing
    <2>2. toDaemon[k] \notin Changes(r)
      BY <2>1 DEF IndInv, Serving, None
    <2> QED
      BY <2>1, <2>2 DEF Changes
  <1> QED
    BY Invariance, <1>1, PTL

\* What the daemon routes to this peer has a callback, or its removal is on its
\* way, unless the path was dropped, if the application adds a path only when it
\* is free; it may call from any thread, and add paths without a result callback.
THEOREM OwnedPathsAreServed ==
    ASSUME Orderly
    PROVE  Spec => []ServedUnlessDropped
  <1>1. IndInv => ServedUnlessDropped
    <2> SUFFICES ASSUME IndInv, NEW p \in Paths \ dropped, owner[p] = "self", reg[p] = "none"
                 PROVE  BeingRemoved(p)
      BY DEF ServedUnlessDropped
    <2>t. toDaemon \in Seq(DaemonMsgs)
      BY Typed DEF Typing
    <2>1. CASE Leaving(p)
      BY <2>1 DEF Leaving, BeingRemoved
    <2>2. CASE Down(p)
      <3>1. PICK k \in 1 .. Len(toDaemon) : toDaemon[k] \in RemovesOf(p)
        BY <2>2 DEF Down, LastOf
      <3>2. k \in DOMAIN toDaemon /\ toDaemon[k] \notin NumberedRemoves
        BY <2>t, Elements DEF IndInv, Types, None
      <3>3. toDaemon[k] = Msg("remove", p, 0)
        BY <3>1, <3>2 DEF RemovesOf, NumberedRemoves, DaemonMsgs, Messages, Msg
      <3> QED
        BY <3>2, <3>3 DEF Sent, BeingRemoved
    <2>3. Down(p) \/ Leaving(p)
      BY DEF IndInv, Agreement, Agreed, NotServed
    <2> QED
      BY <2>1, <2>2, <2>3
  <1> QED
    BY Invariance, <1>1, PTL

\* When nothing is on its way, the daemon and an application that adds a path only
\* when it is free, and with a result callback, agree about every path that was
\* not dropped, over any number of lost connections, of stops of other peers and
\* of error notifiers that complete another request.
THEOREM SettledPeersAgree ==
    ASSUME Orderly, AddCallback = {TRUE}
    PROVE  Spec => []SettledAgreement
  <1>1. IndInv => SettledAgreement
    <2> SUFFICES ASSUME IndInv, Settled, NEW p \in Paths \ dropped
                 PROVE  reg[p] # "none" <=> owner[p] = "self"
      BY DEF SettledAgreement
    <2>1. /\ toDaemon = <<>> /\ stopping = "no" /\ adding # p /\ ~Leaving(p) /\ ~Open(p)
      BY Typed DEF Settled, Open, Leaving, Typing
    <2>2. NotServed(p) /\ Served(p)
      BY DEF IndInv, Agreement, Agreed
    <2>3. reg[p] # "none" => owner[p] = "self"
      BY <2>1, <2>2 DEF Served, Held
    <2>4. reg[p] = "none" => owner[p] # "self"
      <3>1. ~LastOf(toDaemon, About(p), RemovesOf(p))
        BY <2>1 DEF LastOf
      <3> QED
        BY <2>1, <2>2, <3>1 DEF NotServed, Down
    <2> QED
      BY <2>3, <2>4
  <1> QED
    BY Invariance, <1>1, PTL
=============================================================================
