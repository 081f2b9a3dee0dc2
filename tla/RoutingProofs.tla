--------------------------- MODULE RoutingProofs ---------------------------
(***************************************************************************)
(* Proofs about Routing, for any set of devices, any of them flaky, and    *)
(* any number of restarts and faults.                                      *)
(*                                                                         *)
(* What the tester knows of a device follows from what has happened to the *)
(* device and from the messages about it that are on their way: every      *)
(* message that withdraws a device belongs to a down of its own            *)
(* (Withdrawn), an announced device is known or about to be (Announced),   *)
(* and the last message of its daemon says whether its service runs        *)
(* (Served).                                                               *)
(***************************************************************************)
EXTENDS Routing, FunctionTheorems, FiniteSetTheorems, SequenceTheorems, TLAPS

-----------------------------------------------------------------------------
(* The inductive invariant *)

Notices == [event : {"add", "change", "remove"}, dev : Devices, port : BOOLEAN]
Results == {ResultMsg}
ServiceMsgs == {"hbk", "nohbk", "lost"}
Requests == {"no", "open", "failed", "lost"}

\* Message m says that device d is there and has a jet port; that it is withdrawn.
Appears(m, d) == m \in Notices /\ m.dev = d /\ m.event # "remove" /\ m.port
Removes(m, d) == m \in Notices /\ m.dev = d /\ m.event = "remove"

Sets ==
    /\ main \in {"register", "send", "wait", "count", "restart", "join", "end"}
    /\ todo \subseteq Devices
    /\ conn \subseteq routed /\ routed \subseteq infos /\ infos \subseteq Devices
    /\ available \subseteq infos /\ disappeared \subseteq infos
    /\ hbk \subseteq up /\ up \subseteq Devices

Flags ==
    /\ pending \in Requests /\ fetched \in {"no", "sent", "yes"}
    /\ fetching \in BOOLEAN /\ fetchDone \in BOOLEAN
    /\ timer \in BOOLEAN /\ crashed \in BOOLEAN /\ linked \in BOOLEAN

Counters ==
    /\ cycle \in 0 .. MaxCycles
    /\ count \in [Devices -> Nat]
    /\ downs \in [Devices -> Nat]
    /\ announced \in [Devices -> {"no", "noport", "port"}]

Messages ==
    /\ inbox \in Seq(Notices \cup Results)
    /\ services \in [Devices -> Seq(ServiceMsgs)]
    /\ \A d \in Devices \ conn : services[d] = <<>>

Types == Sets /\ Flags /\ Counters /\ Messages

\* The response is not in q; it is at most once.
NoResult(q) == \A k \in 1 .. Len(q) : q[k] \notin Results
OneResult(q) == \A j, k \in 1 .. Len(q) : q[j] \in Results /\ q[k] \in Results => j = k

\* The response comes once, to a fetch that was sent.  The constructor of Device
\* goes on only when it has come or the fetch was cancelled.
Responded ==
    /\ main \notin {"register", "send", "wait"} => fetchDone
    /\ main = "register" => ~fetchDone /\ pending = "no"
    /\ main \in {"register", "send"} => fetched = "no"
    /\ fetchDone => pending = "no"
    /\ fetching /\ (main = "send" \/ fetched = "sent") => pending = "open"
    /\ OneResult(inbox)
    /\ fetching /\ pending # "open" => NoResult(inbox)
    /\ fetched # "yes" => inbox = <<>>
    /\ fetching /\ fetchDone /\ linked => fetched = "yes"

\* A message that makes d appear is in q.
Coming(q, d) == \E k \in 1 .. Len(q) : Appears(q[k], d)

\* A device that never went down is up since it was announced; it is known, or
\* its announcement is on its way.
Announced(d) ==
    /\ downs[d] = 0 /\ announced[d] # "no" => d \in up
    /\ fetching /\ fetched = "yes" /\ downs[d] = 0 /\ announced[d] = "port" => d \in routed \/ Coming(inbox, d)

\* The appearances of d so far, and the one that may come before it is withdrawn.
Possible(d) == IF d \in routed THEN count[d] ELSE count[d] + 1

\* How often it was noticed that d had gone down.
Noticed(d) == IF d \notin up /\ announced[d] # "no" THEN downs[d] - 1 ELSE downs[d]

\* Every message of q that withdraws d belongs to a down of its own, one after the
\* other, from low to high; by[k] is the number of this down.
WithdrawnBy(q, d, low, high) ==
    \E by \in [1 .. Len(q) -> Nat] :
        /\ \A k \in 1 .. Len(q) : Removes(q[k], d) => low <= by[k] /\ by[k] <= high
        /\ \A j, k \in 1 .. Len(q) :
              j < k /\ Removes(q[j], d) /\ Removes(q[k], d) => by[j] < by[k]

\* Every withdrawal of d follows a down that was noticed, and the next appearance.
Withdrawn(d) == WithdrawnBy(inbox, d, Possible(d), Noticed(d))

\* No more appearances than starts.
Appeared(d) ==
    /\ Possible(d) <= Noticed(d) + 1
    /\ count[d] = 0 => d \notin routed

\* The loss of the connection is in s; x is the last message in s.
Lost(s) == \E k \in 1 .. Len(s) : s[k] = "lost"
LastIs(s, x) == s # <<>> /\ s[Len(s)] = x

\* What the tester knows of the service of d, when all messages are handled, and
\* what their last one says.
Served(d) ==
    /\ services[d] = <<>> =>
          /\ d \in hbk => d \in available
          /\ d \in available => d \in hbk \/ downs[d] > 0
    /\ services[d] # <<>> => LastIs(services[d], IF d \in hbk THEN "hbk" ELSE "nohbk")

\* Only a device that went down loses its connection.
Connected(d) ==
    /\ d \in available /\ d \notin conn => downs[d] > 0
    /\ Lost(services[d]) => downs[d] > 0
    /\ d \in conn => Lost(services[d]) \/ Served(d)

Known(d) == Announced(d) /\ Withdrawn(d) /\ Appeared(d) /\ Connected(d)

IndInv == Types /\ Responded /\ \A d \in Devices : Known(d)

-----------------------------------------------------------------------------
(* Sequences *)

\* The head is taken out of a queue.
LEMMA HeadTaken ==
    ASSUME NEW S, NEW q \in Seq(S), q # <<>>
    PROVE  /\ Head(q) \in S /\ Head(q) = q[1]
           /\ Tail(q) \in Seq(S)
           /\ Len(q) \in Nat /\ Len(q) >= 1
           /\ Len(Tail(q)) = Len(q) - 1
           /\ \A k \in 1 .. Len(q) - 1 : Tail(q)[k] = q[k + 1]
           /\ \A k \in 2 .. Len(q) : Tail(q)[k - 1] = q[k]
  BY HeadTailProperties, LenProperties

\* Something is put at the end of a queue.
LEMMA Appended ==
    ASSUME NEW S, NEW q \in Seq(S), NEW m \in S
    PROVE  /\ Append(q, m) \in Seq(S)
           /\ Len(q) \in Nat
           /\ Len(Append(q, m)) = Len(q) + 1
           /\ \A k \in 1 .. Len(q) : Append(q, m)[k] = q[k]
           /\ Append(q, m)[Len(q) + 1] = m
  BY AppendProperties, LenProperties

\* A finite set as a sequence: its elements, all of them.
LEMMA SetAsSequence ==
    ASSUME NEW S, IsFiniteSet(S)
    PROVE  /\ SetToSeq(S) \in Seq(S)
           /\ \A x \in S : \E k \in 1 .. Len(SetToSeq(S)) : SetToSeq(S)[k] = x
  <1> DEFINE n == Cardinality(S)
             f == SetToSeq(S)
  <1>1. n \in Nat /\ ExistsBijection(1 .. n, S)
    BY FS_CardinalityType
  <1>2. \E g \in [1 .. n -> S] : IsInjective(g)
    BY <1>1 DEF ExistsBijection, Bijection, Injection
  <1>3. f \in [1 .. n -> S] /\ IsInjective(f)
    BY <1>2 DEF SetToSeq
  <1> HIDE DEF f
  <1>4. f \in Injection(1 .. n, S)
    BY <1>3 DEF Injection
  <1>5. Cardinality(1 .. n) = n
    <2>1. Cardinality(1 .. n) = IF 1 > n THEN 0 ELSE n - 1 + 1
      BY <1>1, FS_Interval
    <2> QED
      BY <1>1, <2>1
  <1> HIDE DEF n
  <1>6. f \in Surjection(1 .. n, S)
    BY <1>4, <1>5, FS_Injection DEF n
  <1>7. f \in Seq(S) /\ Len(f) = n
    <2>1. [1 .. n -> S] \subseteq Seq(S)
      BY <1>1, SeqDef
    <2>2. f \in Seq(S) /\ DOMAIN f = 1 .. n
      BY <1>3, <2>1
    <2>3. Len(f) \in Nat /\ 1 .. Len(f) = 1 .. n
      BY <2>2, LenProperties
    <2> QED
      BY <1>1, <2>2, <2>3
  <1>8. \A x \in S : \E k \in 1 .. n : f[k] = x
    BY <1>6 DEF Surjection
  <1> QED
    BY <1>7, <1>8 DEF f

\* The notices about the devices that are announced, as a finite set.
LEMMA FinitelyMany ==
    ASSUME NEW U, NEW how, IsFiniteSet(U)
    PROVE  IsFiniteSet({Msg("add", d, how[d] = "port") : d \in U})
  <1> DEFINE T == {Msg("add", d, how[d] = "port") : d \in U}
             f == [d \in U |-> Msg("add", d, how[d] = "port")]
  <1>1. f \in [U -> T] /\ \A t \in T : \E d \in U : f[d] = t
    OBVIOUS
  <1>2. f \in Surjection(U, T)
    BY <1>1 DEF Surjection
  <1> QED
    BY <1>2, FS_Surjection

-----------------------------------------------------------------------------
(* What is true of a queue when a message comes or goes *)

\* The response.
LEMMA ResultMoves ==
    ASSUME NEW S, NEW q \in Seq(S)
    PROVE  /\ OneResult(<<>>) /\ NoResult(<<>>)
           /\ q # <<>> /\ NoResult(q) => NoResult(Tail(q))
           /\ q # <<>> /\ OneResult(q) => OneResult(Tail(q))
           /\ q # <<>> /\ OneResult(q) /\ Head(q) \in Results => NoResult(Tail(q))
           /\ \A m \in S \ Results : NoResult(q) => NoResult(Append(q, m))
           /\ \A m \in S \ Results : OneResult(q) => OneResult(Append(q, m))
           /\ \A m \in S : NoResult(q) => OneResult(Append(q, m))
  <1>1. OneResult(<<>>) /\ NoResult(<<>>)
    BY DEF OneResult, NoResult
  <1>2. ASSUME q # <<>>
        PROVE  /\ NoResult(q) => NoResult(Tail(q))
               /\ OneResult(q) => OneResult(Tail(q))
               /\ OneResult(q) /\ Head(q) \in Results => NoResult(Tail(q))
    <2> DEFINE t == Tail(q)
    <2>1. /\ Head(q) = q[1] /\ Len(q) \in Nat /\ Len(q) >= 1 /\ Len(t) = Len(q) - 1
          /\ \A k \in 1 .. Len(q) - 1 : t[k] = q[k + 1]
      BY <1>2, HeadTaken
    <2> HIDE DEF t
    <2>2. /\ \A k \in 1 .. Len(t) : t[k] = q[k + 1] /\ k + 1 \in 1 .. Len(q) /\ k + 1 # 1
          /\ 1 \in 1 .. Len(q)
      BY <2>1
    <2>3. NoResult(q) => NoResult(t)
      BY <2>2 DEF NoResult
    <2>4. OneResult(q) => OneResult(t)
      <3>1. ASSUME OneResult(q), NEW j \in 1 .. Len(t), NEW k \in 1 .. Len(t),
                   t[j] \in Results, t[k] \in Results
            PROVE  j = k
        <4>1. j + 1 = k + 1
          BY <2>2, <3>1 DEF OneResult
        <4> QED
          BY <4>1
      <3> QED
        BY <3>1 DEF OneResult
    <2>5. OneResult(q) /\ Head(q) \in Results => NoResult(t)
      BY <2>1, <2>2 DEF OneResult, NoResult
    <2> QED
      BY <2>3, <2>4, <2>5 DEF t
  <1>3. ASSUME NEW m \in S
        PROVE  /\ m \notin Results /\ NoResult(q) => NoResult(Append(q, m))
               /\ m \notin Results /\ OneResult(q) => OneResult(Append(q, m))
               /\ NoResult(q) => OneResult(Append(q, m))
    <2> DEFINE t == Append(q, m)
    <2>1. /\ Len(q) \in Nat /\ Len(t) = Len(q) + 1 /\ t[Len(q) + 1] = m
          /\ \A k \in 1 .. Len(q) : t[k] = q[k]
      BY Appended
    <2> HIDE DEF t
    <2>2. \A k \in 1 .. Len(t) : (k \in 1 .. Len(q) /\ t[k] = q[k]) \/ (k = Len(t) /\ t[k] = m)
      BY <2>1
    <2> QED
      BY <2>2 DEF NoResult, OneResult, t
  <1> QED
    BY <1>1, <1>2, <1>3

\* What makes a device appear.
LEMMA ComingMoves ==
    ASSUME NEW S, NEW q \in Seq(S), NEW d
    PROVE  /\ q # <<>> /\ Coming(q, d) => Coming(Tail(q), d) \/ Appears(Head(q), d)
           /\ \A m \in S : Coming(q, d) \/ Appears(m, d) => Coming(Append(q, m), d)
  <1>1. ASSUME q # <<>>, Coming(q, d) PROVE Coming(Tail(q), d) \/ Appears(Head(q), d)
    <2>1. PICK k \in 1 .. Len(q) : Appears(q[k], d)
      BY <1>1 DEF Coming
    <2>2. /\ Head(q) = q[1] /\ Len(q) \in Nat /\ Len(Tail(q)) = Len(q) - 1
          /\ \A j \in 2 .. Len(q) : Tail(q)[j - 1] = q[j]
      BY <1>1, HeadTaken
    <2>3. CASE k = 1
      BY <2>1, <2>2, <2>3
    <2>4. CASE k # 1
      <3>1. k - 1 \in 1 .. Len(Tail(q)) /\ k \in 2 .. Len(q)
        BY <2>2, <2>4
      <3>2. Appears(Tail(q)[k - 1], d)
        BY <2>1, <2>2, <3>1
      <3> QED
        BY <3>1, <3>2 DEF Coming
    <2> QED
      BY <2>3, <2>4
  <1>2. ASSUME NEW m \in S, Coming(q, d) \/ Appears(m, d) PROVE Coming(Append(q, m), d)
    <2>1. /\ Len(q) \in Nat /\ Len(Append(q, m)) = Len(q) + 1 /\ Append(q, m)[Len(q) + 1] = m
          /\ \A k \in 1 .. Len(q) : Append(q, m)[k] = q[k]
      BY Appended
    <2>2. Len(q) + 1 \in 1 .. Len(Append(q, m)) /\ \A k \in 1 .. Len(q) : k \in 1 .. Len(Append(q, m))
      BY <2>1
    <2> QED
      BY <1>2, <2>1, <2>2 DEF Coming
  <1> QED
    BY <1>1, <1>2

\* The notices that withdraw a device.
LEMMA NothingWithdrawn ==
    ASSUME NEW S, NEW q \in Seq(S), NEW d, NEW low, NEW high,
           \A k \in 1 .. Len(q) : ~Removes(q[k], d)
    PROVE  WithdrawnBy(q, d, low, high)
  <1>1. [k \in 1 .. Len(q) |-> 0] \in [1 .. Len(q) -> Nat]
    OBVIOUS
  <1> QED
    BY <1>1 DEF WithdrawnBy

\* More downs have been noticed.
LEMMA WithdrawnWider ==
    ASSUME NEW q, NEW d, NEW low \in Int, NEW high \in Int, NEW higher \in Int, high <= higher,
           WithdrawnBy(q, d, low, high)
    PROVE  WithdrawnBy(q, d, low, higher)
  <1>1. PICK by \in [1 .. Len(q) -> Nat] :
            /\ \A k \in 1 .. Len(q) : Removes(q[k], d) => low <= by[k] /\ by[k] <= high
            /\ \A j, k \in 1 .. Len(q) :
                  j < k /\ Removes(q[j], d) /\ Removes(q[k], d) => by[j] < by[k]
    BY DEF WithdrawnBy
  <1>2. \A k \in 1 .. Len(q) : Removes(q[k], d) => low <= by[k] /\ by[k] <= higher
    BY <1>1
  <1> QED
    BY <1>1, <1>2 DEF WithdrawnBy

\* A message is handled: a withdrawal uses up its down.
LEMMA WithdrawnTaken ==
    ASSUME NEW S, NEW q \in Seq(S), q # <<>>, NEW d, NEW low \in Int, NEW high \in Int,
           WithdrawnBy(q, d, low, high)
    PROVE  /\ WithdrawnBy(Tail(q), d, low, high)
           /\ Removes(Head(q), d) => low <= high /\ 0 <= high /\ WithdrawnBy(Tail(q), d, low + 1, high)
  <1> DEFINE t == Tail(q)
  <1>1. /\ Head(q) = q[1] /\ Len(q) \in Nat /\ Len(q) >= 1 /\ Len(t) = Len(q) - 1
        /\ \A k \in 1 .. Len(q) - 1 : t[k] = q[k + 1]
    BY HeadTaken
  <1> HIDE DEF t
  <1>2. PICK by \in [1 .. Len(q) -> Nat] :
            /\ \A k \in 1 .. Len(q) : Removes(q[k], d) => low <= by[k] /\ by[k] <= high
            /\ \A j, k \in 1 .. Len(q) :
                  j < k /\ Removes(q[j], d) /\ Removes(q[k], d) => by[j] < by[k]
    BY DEF WithdrawnBy
  <1> DEFINE rest == [k \in 1 .. Len(t) |-> by[k + 1]]
  <1>3. /\ \A k \in 1 .. Len(t) : t[k] = q[k + 1] /\ k + 1 \in 1 .. Len(q) /\ 1 < k + 1
        /\ 1 \in 1 .. Len(q)
    BY <1>1
  <1>4. rest \in [1 .. Len(t) -> Nat] /\ \A k \in 1 .. Len(t) : rest[k] = by[k + 1]
    BY <1>3
  <1> HIDE DEF rest
  <1>5. \A j, k \in 1 .. Len(t) : j < k /\ Removes(t[j], d) /\ Removes(t[k], d) => rest[j] < rest[k]
    <2>1. ASSUME NEW j \in 1 .. Len(t), NEW k \in 1 .. Len(t), j < k, Removes(t[j], d), Removes(t[k], d)
          PROVE  rest[j] < rest[k]
      <3>1. j + 1 < k + 1 /\ j + 1 \in 1 .. Len(q) /\ k + 1 \in 1 .. Len(q)
        BY <1>3, <2>1
      <3>2. Removes(q[j + 1], d) /\ Removes(q[k + 1], d)
        BY <1>3, <2>1
      <3>3. by[j + 1] < by[k + 1]
        BY <1>2, <3>1, <3>2
      <3> QED
        BY <1>4, <3>3
    <2> QED
      BY <2>1
  <1>6. WithdrawnBy(t, d, low, high)
    <2>1. \A k \in 1 .. Len(t) : Removes(t[k], d) => low <= rest[k] /\ rest[k] <= high
      BY <1>2, <1>3, <1>4
    <2> QED
      BY <1>4, <1>5, <2>1 DEF WithdrawnBy
  <1>7. ASSUME Removes(Head(q), d)
        PROVE  low <= high /\ 0 <= high /\ WithdrawnBy(t, d, low + 1, high)
    <2>1. Removes(q[1], d)
      BY <1>1, <1>7
    <2>2. low <= by[1] /\ by[1] <= high /\ by[1] \in Nat
      BY <1>2, <1>3, <2>1
    <2>3. ASSUME NEW k \in 1 .. Len(t), Removes(t[k], d) PROVE low + 1 <= rest[k] /\ rest[k] <= high
      <3>1. Removes(q[k + 1], d) /\ k + 1 \in 1 .. Len(q) /\ 1 < k + 1
        BY <1>3, <2>3
      <3>2. by[1] < by[k + 1] /\ by[k + 1] <= high /\ by[k + 1] \in Nat
        BY <1>2, <1>3, <2>1, <3>1
      <3> QED
        BY <1>4, <2>2, <3>2
    <2>4. WithdrawnBy(t, d, low + 1, high)
      BY <1>4, <1>5, <2>3 DEF WithdrawnBy
    <2> QED
      BY <2>2, <2>4
  <1> QED
    BY <1>6, <1>7 DEF t

\* A message comes: a withdrawal belongs to the down that has just been noticed.
LEMMA WithdrawnSent ==
    ASSUME NEW S, NEW q \in Seq(S), NEW m \in S, NEW d, NEW low \in Int, NEW high \in Int,
           WithdrawnBy(q, d, low, high)
    PROVE  /\ ~Removes(m, d) => WithdrawnBy(Append(q, m), d, low, high)
           /\ low <= high + 1 /\ 0 <= high + 1 => WithdrawnBy(Append(q, m), d, low, high + 1)
  <1> DEFINE t == Append(q, m)
  <1>1. /\ Len(q) \in Nat /\ Len(t) = Len(q) + 1 /\ t[Len(q) + 1] = m
        /\ \A k \in 1 .. Len(q) : t[k] = q[k]
    BY Appended
  <1> HIDE DEF t
  <1>2. PICK by \in [1 .. Len(q) -> Nat] :
            /\ \A k \in 1 .. Len(q) : Removes(q[k], d) => low <= by[k] /\ by[k] <= high
            /\ \A j, k \in 1 .. Len(q) :
                  j < k /\ Removes(q[j], d) /\ Removes(q[k], d) => by[j] < by[k]
    BY DEF WithdrawnBy
  <1>3. \A k \in 1 .. Len(t) : (k \in 1 .. Len(q) /\ t[k] = q[k]) \/ (k = Len(t) /\ t[k] = m)
    BY <1>1
  <1>4. ASSUME NEW z \in Nat,
               \/ ~Removes(m, d) /\ z = 0
               \/ low <= high + 1 /\ z = high + 1
        PROVE  /\ ~Removes(m, d) => WithdrawnBy(t, d, low, high)
               /\ z = high + 1 => WithdrawnBy(t, d, low, high + 1)
    <2> DEFINE more == [k \in 1 .. Len(t) |-> IF k \in 1 .. Len(q) THEN by[k] ELSE z]
    <2>1. /\ more \in [1 .. Len(t) -> Nat]
          /\ \A k \in 1 .. Len(t) : (k \in 1 .. Len(q) /\ more[k] = by[k]) \/ (k = Len(t) /\ more[k] = z)
          /\ Len(t) \notin 1 .. Len(q)
      BY <1>1, <1>3
    <2> HIDE DEF more
    <2>2. \A k \in 1 .. Len(q) : Removes(q[k], d) =>
              low <= by[k] /\ by[k] <= high /\ by[k] < high + 1 /\ by[k] <= high + 1
      BY <1>2
    <2>3. ASSUME NEW j \in 1 .. Len(t), NEW k \in 1 .. Len(t), j < k, Removes(t[j], d), Removes(t[k], d)
          PROVE  more[j] < more[k]
      <3>1. j \in 1 .. Len(q) /\ t[j] = q[j] /\ more[j] = by[j]
        BY <1>1, <1>3, <2>1, <2>3
      <3>2. CASE k \in 1 .. Len(q)
        <4>1. more[k] = by[k] /\ t[k] = q[k]
          BY <1>1, <2>1, <3>2
        <4>2. by[j] < by[k]
          BY <1>2, <2>3, <3>1, <3>2, <4>1
        <4> QED
          BY <3>1, <4>1, <4>2
      <3>3. CASE k \notin 1 .. Len(q)
        <4>1. t[k] = m /\ more[k] = z
          BY <1>3, <2>1, <3>3
        <4>2. z = high + 1
          BY <1>4, <2>3, <4>1
        <4> QED
          BY <2>2, <2>3, <3>1, <4>1, <4>2
      <3> QED
        BY <3>2, <3>3
    <2>4. ASSUME ~Removes(m, d), NEW k \in 1 .. Len(t), Removes(t[k], d)
          PROVE  low <= more[k] /\ more[k] <= high
      <3>1. k \in 1 .. Len(q) /\ t[k] = q[k] /\ more[k] = by[k]
        BY <1>3, <2>1, <2>4
      <3> QED
        BY <2>2, <2>4, <3>1
    <2>5. ASSUME z = high + 1, NEW k \in 1 .. Len(t), Removes(t[k], d)
          PROVE  low <= more[k] /\ more[k] <= high + 1
      <3>1. CASE k \in 1 .. Len(q)
        <4>1. t[k] = q[k] /\ more[k] = by[k]
          BY <1>1, <2>1, <3>1
        <4> QED
          BY <2>2, <2>5, <3>1, <4>1
      <3>2. CASE k \notin 1 .. Len(q)
        <4>1. t[k] = m /\ more[k] = z
          BY <1>3, <2>1, <3>2
        <4> QED
          BY <1>4, <2>5, <4>1
      <3> QED
        BY <3>1, <3>2
    <2>6. ~Removes(m, d) => WithdrawnBy(t, d, low, high)
      BY <2>1, <2>3, <2>4 DEF WithdrawnBy
    <2>7. z = high + 1 => WithdrawnBy(t, d, low, high + 1)
      BY <2>1, <2>3, <2>5 DEF WithdrawnBy
    <2> QED
      BY <2>6, <2>7
  <1>5. ~Removes(m, d) => WithdrawnBy(t, d, low, high)
    BY <1>4
  <1>6. ASSUME low <= high + 1, 0 <= high + 1 PROVE WithdrawnBy(t, d, low, high + 1)
    <2>1. high + 1 \in Nat
      BY <1>6
    <2> QED
      BY <1>4, <1>6, <2>1
  <1> QED
    BY <1>5, <1>6 DEF t

\* The messages of the daemon of a routed device.
LEMMA ServiceMoves ==
    ASSUME NEW S, NEW s \in Seq(S), NEW x
    PROVE  /\ ~Lost(<<>>)
           /\ s # <<>> /\ Lost(s) => Lost(Tail(s)) \/ Head(s) = "lost"
           /\ s # <<>> /\ Head(s) = "lost" => Lost(s)
           /\ s # <<>> /\ Lost(Tail(s)) => Lost(s)
           /\ s # <<>> /\ LastIs(s, x) => LastIs(Tail(s), x) \/ (Tail(s) = <<>> /\ Head(s) = x)
           /\ \A m \in S : LastIs(Append(s, m), m) /\ Append(s, m) # <<>>
           /\ \A m \in S : Lost(Append(s, m)) <=> Lost(s) \/ m = "lost"
  <1>1. ~Lost(<<>>)
    BY DEF Lost
  <1>2. ASSUME s # <<>>
        PROVE  /\ Lost(s) => Lost(Tail(s)) \/ Head(s) = "lost"
               /\ Head(s) = "lost" => Lost(s)
               /\ Lost(Tail(s)) => Lost(s)
               /\ LastIs(s, x) => LastIs(Tail(s), x) \/ (Tail(s) = <<>> /\ Head(s) = x)
    <2> DEFINE t == Tail(s)
    <2>1. /\ Head(s) = s[1] /\ Len(s) \in Nat /\ Len(s) >= 1 /\ Len(t) = Len(s) - 1
          /\ \A k \in 1 .. Len(s) - 1 : t[k] = s[k + 1]
          /\ \A k \in 2 .. Len(s) : t[k - 1] = s[k]
          /\ t \in Seq(S)
      BY <1>2, HeadTaken
    <2>2. t = <<>> <=> Len(t) = 0
      BY <2>1, EmptySeq
    <2> HIDE DEF t
    <2>3. /\ \A k \in 1 .. Len(t) : t[k] = s[k + 1] /\ k + 1 \in 1 .. Len(s)
          /\ \A k \in 1 .. Len(s) : k = 1 \/ (k - 1 \in 1 .. Len(t) /\ t[k - 1] = s[k])
          /\ 1 \in 1 .. Len(s)
      BY <2>1
    <2>4. /\ Lost(s) => Lost(t) \/ Head(s) = "lost"
          /\ Head(s) = "lost" => Lost(s)
          /\ Lost(t) => Lost(s)
      BY <2>1, <2>3 DEF Lost
    <2>5. LastIs(s, x) => LastIs(t, x) \/ (t = <<>> /\ Head(s) = x)
      <3>1. CASE Len(t) = 0
        <4>1. Len(s) = 1 /\ t = <<>>
          BY <2>1, <2>2, <3>1
        <4> QED
          BY <2>1, <4>1 DEF LastIs
      <3>2. CASE Len(t) # 0
        <4>1. Len(t) \in 1 .. Len(t) /\ Len(t) + 1 = Len(s)
          BY <2>1, <3>2
        <4>2. t[Len(t)] = s[Len(s)]
          BY <2>3, <4>1
        <4> QED
          BY <2>2, <3>2, <4>2 DEF LastIs
      <3> QED
        BY <3>1, <3>2
    <2> QED
      BY <2>4, <2>5 DEF t
  <1>3. ASSUME NEW m \in S
        PROVE  /\ LastIs(Append(s, m), m) /\ Append(s, m) # <<>>
               /\ Lost(Append(s, m)) <=> Lost(s) \/ m = "lost"
    <2> DEFINE t == Append(s, m)
    <2>1. /\ Len(s) \in Nat /\ Len(t) = Len(s) + 1 /\ t[Len(s) + 1] = m
          /\ \A k \in 1 .. Len(s) : t[k] = s[k]
          /\ t # <<>>
      BY Appended, AppendProperties
    <2> HIDE DEF t
    <2>2. /\ \A k \in 1 .. Len(t) : (k \in 1 .. Len(s) /\ t[k] = s[k]) \/ t[k] = m
          /\ \A k \in 1 .. Len(s) : k \in 1 .. Len(t)
          /\ Len(t) \in 1 .. Len(t) /\ t[Len(t)] = m
      BY <2>1
    <2> QED
      BY <2>1, <2>2 DEF LastIs, Lost, t
  <1> QED
    BY <1>1, <1>2, <1>3

-----------------------------------------------------------------------------
(* Facts about the invariant *)

\* The flags, as the type invariant has them.
LEMMA FlagsTyped ==
    Flags => \A b \in {fetching, fetchDone, timer, crashed, linked} : b \in BOOLEAN
  BY Zenon DEF Flags

\* The type invariant is part of the invariant.
LEMMA TypesTyped == Types => TypeOK
  <1> SUFFICES ASSUME Types PROVE TypeOK
    OBVIOUS
  <1>1. \A b \in {fetching, fetchDone, timer, crashed, linked} : b \in BOOLEAN
    BY FlagsTyped DEF Types
  <1>2. available \cup disappeared \subseteq infos
    BY DEF Types, Sets
  <1> QED
    BY <1>1, <1>2 DEF Types, Sets, Flags, Requests, Counters, Messages, TypeOK

\* The counts of a device.
LEMMA Counted ==
    ASSUME Types, NEW d \in Devices
    PROVE  /\ count[d] \in Nat /\ downs[d] \in Nat
           /\ Possible(d) \in Nat /\ count[d] <= Possible(d)
           /\ Noticed(d) \in Int /\ Noticed(d) <= downs[d] /\ downs[d] <= Noticed(d) + 1
  <1>1. count[d] \in Nat /\ downs[d] \in Nat
    BY DEF Types, Counters
  <1> QED
    BY <1>1 DEF Possible, Noticed

\* The message that is handled next.
LEMMA FirstMessage ==
    ASSUME Types, inbox # <<>>
    PROVE  /\ Head(inbox) \in Notices \cup Results
           /\ Tail(inbox) \in Seq(Notices \cup Results)
           /\ Head(inbox).event = "result" => Head(inbox) \in Results
           /\ Head(inbox).event # "result" => Head(inbox) \in Notices /\ Head(inbox).dev \in Devices
  <1>1. Head(inbox) \in Notices \cup Results /\ Tail(inbox) \in Seq(Notices \cup Results)
    BY HeadTaken DEF Types, Messages
  <1>2. \A m \in Notices : m.event # "result" /\ m.dev \in Devices
    BY DEF Notices
  <1>3. \A m \in Results : m.event = "result"
    BY DEF Results, ResultMsg
  <1> QED
    BY <1>1, <1>2, <1>3

\* The flags after the requests were cancelled, and the response.
LEMMA Cancelled ==
    ASSUME Flags, CancelRequests
    PROVE  /\ pending' \in Requests /\ fetching' \in BOOLEAN /\ fetchDone' \in BOOLEAN
           /\ fetching' => fetching /\ pending = "no"
           /\ pending' = "no" /\ (fetchDone => fetchDone')
           /\ fetchDone' => fetchDone \/ pending # "no"
  <1>1. pending' \in Requests
    BY DEF CancelRequests, Requests
  <1> QED
    BY <1>1, Zenon DEF Flags, CancelRequests

\* Nothing changes but what is in the inbox, or the requests are cancelled.
LEMMA RespondedKept ==
    ASSUME Responded, Flags, main' = main, OneResult(inbox'),
           NoResult(inbox) => NoResult(inbox'),
           UNCHANGED <<fetched, linked>>, fetched = "yes" \/ inbox' = inbox,
           CancelRequests \/ UNCHANGED <<pending, fetching, fetchDone>>
    PROVE  Responded'
  <1>1. CASE CancelRequests
    BY <1>1, Cancelled DEF Responded
  <1>2. CASE UNCHANGED <<pending, fetching, fetchDone>>
    BY <1>2 DEF Responded
  <1> QED
    BY <1>1, <1>2

\* Device d is as it was, and the messages about it are in order.
LEMMA RouterKept ==
    ASSUME NEW d \in Devices, Announced(d), Appeared(d),
           downs'[d] = downs[d], announced'[d] = announced[d], count'[d] = count[d],
           d \in up' <=> d \in up, d \in routed' <=> d \in routed,
           fetched' = "yes" => fetched = "yes", fetching' => fetching,
           fetching /\ fetched' = "yes" => (Coming(inbox, d) => d \in routed \/ Coming(inbox', d)),
           WithdrawnBy(inbox', d, Possible(d), Noticed(d))
    PROVE  Announced(d)' /\ Withdrawn(d)' /\ Appeared(d)'
  <1>1. Possible(d)' = Possible(d) /\ Noticed(d)' = Noticed(d)
    BY DEF Possible, Noticed
  <1>2. Announced(d)'
    BY DEF Announced
  <1>3. Withdrawn(d)'
    BY <1>1 DEF Withdrawn
  <1>4. Appeared(d)'
    BY <1>1 DEF Appeared
  <1> QED
    BY <1>2, <1>3, <1>4

\* The connection to device d and its service are as they were.
LEMMA ConnectionKept ==
    ASSUME NEW d \in Devices, Connected(d),
           downs'[d] = downs[d], services'[d] = services[d], d \in conn' <=> d \in conn,
           d \in available' <=> d \in available, d \in hbk' <=> d \in hbk
    PROVE  Connected(d)'
  BY DEF Connected, Served

\* Nothing about the devices changes.
LEMMA KnownKept ==
    ASSUME IndInv, fetching' => fetching,
           UNCHANGED <<inbox, fetched, linked, routed, conn, count, available, services, up, hbk, announced, downs>>
    PROVE  \A d \in Devices : Known(d)'
  <1> SUFFICES ASSUME NEW d \in Devices PROVE Known(d)'
    OBVIOUS
  <1>1. Announced(d) /\ Withdrawn(d) /\ Appeared(d) /\ Connected(d)
    BY DEF IndInv, Known
  <1>2. WithdrawnBy(inbox', d, Possible(d), Noticed(d))
    BY <1>1 DEF Withdrawn
  <1>3. Announced(d)' /\ Withdrawn(d)' /\ Appeared(d)'
    BY <1>1, <1>2, RouterKept
  <1>4. Connected(d)'
    BY <1>1, ConnectionKept
  <1> QED
    BY <1>3, <1>4 DEF Known

-----------------------------------------------------------------------------
(* The initial states *)

LEMMA InitialState == Init => IndInv
  <1> SUFFICES ASSUME Init PROVE IndInv
    OBVIOUS
  <1>1. Types
    <2>1. Sets /\ Counters
      BY RoutingAssumption DEF Init, Sets, Counters
    <2>2. Flags
      BY DEF Init, Flags, Requests
    <2>3. inbox \in Seq(Notices \cup Results)
      BY DEF Init
    <2>4. services \in [Devices -> Seq(ServiceMsgs)] /\ \A d \in Devices : services[d] = <<>>
      BY DEF Init
    <2> QED
      BY <2>1, <2>2, <2>3, <2>4 DEF Types, Messages
  <1>2. inbox \in Seq(Notices \cup Results) /\ Len(inbox) = 0
    BY DEF Init
  <1>3. Responded
    BY <1>2 DEF Init, Responded, OneResult, NoResult
  <1>4. ASSUME NEW d \in Devices PROVE Known(d)
    <2>1. /\ downs[d] = 0 /\ count[d] = 0 /\ services[d] = <<>> /\ fetched = "no"
          /\ announced[d] = IF d \in up THEN "port" ELSE "no"
          /\ routed = {} /\ conn = {} /\ available = {}
      BY DEF Init
    <2>2. Possible(d) = 1 /\ Noticed(d) = 0
      BY <2>1 DEF Possible, Noticed
    <2>3. Announced(d)
      BY <2>1 DEF Announced
    <2>4. Withdrawn(d)
      <3>1. \A k \in 1 .. Len(inbox) : ~Removes(inbox[k], d)
        BY <1>2
      <3>2. \A low, high : WithdrawnBy(inbox, d, low, high)
        BY <1>2, <3>1, NothingWithdrawn
      <3> QED
        BY <3>2 DEF Withdrawn
    <2>5. Appeared(d)
      BY <2>1, <2>2 DEF Appeared
    <2>6. Connected(d)
      BY <2>1, ServiceMoves, EmptySeq DEF Connected, Lost
    <2> QED
      BY <2>3, <2>4, <2>5, <2>6 DEF Known
  <1> QED
    BY <1>1, <1>3, <1>4 DEF IndInv

-----------------------------------------------------------------------------
(* The main thread *)

LEMMA RegisteredStep == IndInv /\ FetchRegistered => IndInv'
  <1> SUFFICES ASSUME IndInv, FetchRegistered PROVE IndInv'
    OBVIOUS
  <1>1. /\ main = "register" /\ main' = "send" /\ fetching' = TRUE /\ pending' = "open"
        /\ UNCHANGED <<todo, fetchDone, inbox, fetched, linked, routed, conn, infos, count,
                       available, disappeared, services, cycle, timer, crashed, up, hbk, announced, downs>>
    BY DEF FetchRegistered, tester, world
  <1>2. Types /\ Responded /\ \A d \in Devices : Known(d)
    BY DEF IndInv
  <1>3. Types'
    BY <1>1, <1>2 DEF Types, Sets, Flags, Requests, Counters, Messages
  <1>4. fetched' = "no" /\ Responded'
    BY <1>1, <1>2 DEF Responded
  <1>5. ASSUME NEW d \in Devices PROVE Known(d)'
    <2>1. Announced(d) /\ Withdrawn(d) /\ Appeared(d) /\ Connected(d)
      BY <1>2 DEF Known
    <2>2. Announced(d)'
      BY <1>1, <1>4, <2>1 DEF Announced
    <2>3. Withdrawn(d)' /\ Appeared(d)'
      BY <1>1, <2>1 DEF Withdrawn, Appeared, Possible, Noticed
    <2>4. Connected(d)'
      BY <1>1, <2>1, ConnectionKept
    <2> QED
      BY <2>2, <2>3, <2>4 DEF Known
  <1> QED
    BY <1>3, <1>4, <1>5 DEF IndInv

LEMMA SentStep == IndInv /\ FetchSent => IndInv'
  <1> SUFFICES ASSUME IndInv, FetchSent PROVE IndInv'
    OBVIOUS
  <1>1. /\ main = "send" /\ main' = "wait"
        /\ \/ fetched' = "sent" /\ pending' = pending
           \/ fetched' = fetched /\ pending' = IF pending = "open" THEN "failed" ELSE pending
        /\ UNCHANGED <<todo, fetching, fetchDone, inbox, linked, routed, conn, infos, count,
                       available, disappeared, services, cycle, timer, crashed, up, hbk, announced, downs>>
    BY DEF FetchSent, tester, world
  <1>2. Types /\ Responded /\ \A d \in Devices : Known(d)
    BY DEF IndInv
  <1>3. Types'
    <2>1. Flags'
      BY <1>1, <1>2 DEF Types, Flags, Requests
    <2> QED
      BY <1>1, <1>2, <2>1 DEF Types, Sets, Counters, Messages
  <1>4. fetched = "no" /\ inbox = <<>> /\ NoResult(inbox')
    BY <1>1, <1>2, ResultMoves DEF Responded, Types, Messages
  <1>5. fetched' # "yes" /\ Responded'
    BY <1>1, <1>2, <1>4 DEF Responded
  <1>6. ASSUME NEW d \in Devices PROVE Known(d)'
    <2>1. Announced(d) /\ Withdrawn(d) /\ Appeared(d) /\ Connected(d)
      BY <1>2 DEF Known
    <2>2. Announced(d)'
      BY <1>1, <1>5, <2>1 DEF Announced
    <2>3. Withdrawn(d)' /\ Appeared(d)'
      BY <1>1, <2>1 DEF Withdrawn, Appeared, Possible, Noticed
    <2>4. Connected(d)'
      BY <1>1, <2>1, ConnectionKept
    <2> QED
      BY <2>2, <2>3, <2>4 DEF Known
  <1> QED
    BY <1>3, <1>5, <1>6 DEF IndInv

LEMMA ConstructedStep == IndInv /\ DeviceConstructed => IndInv'
  <1> SUFFICES ASSUME IndInv, DeviceConstructed PROVE IndInv'
    OBVIOUS
  <1>1. /\ main = "wait" /\ fetchDone /\ main' = "count"
        /\ UNCHANGED <<todo, pending, fetching, fetchDone, inbox, fetched, linked, routed, conn, infos, count,
                       available, disappeared, services, cycle, timer, crashed, up, hbk, announced,
                       asked, downs, faults>>
    BY DEF DeviceConstructed, device, tester, world
  <1>2. Types'
    BY <1>1 DEF IndInv, Types, Sets, Flags, Counters, Messages
  <1>3. Responded'
    BY <1>1 DEF IndInv, Responded
  <1>4. \A d \in Devices : Known(d)'
    BY <1>1, KnownKept
  <1> QED
    BY <1>2, <1>3, <1>4 DEF IndInv

LEMMA RebootStep == IndInv /\ FirstReboot => IndInv'
  <1> SUFFICES ASSUME IndInv, FirstReboot PROVE IndInv'
    OBVIOUS
  <1>1. /\ main = "count" /\ cycle < MaxCycles
        /\ UNCHANGED <<pending, fetching, fetchDone, inbox, fetched, linked, routed, conn, infos, count,
                       available, disappeared, services, crashed, up, hbk, announced, asked, downs, faults>>
        /\ \/ main' = "end" /\ UNCHANGED <<todo, cycle, timer>>
           \/ main' = "restart" /\ todo' = routed /\ cycle' = cycle + 1 /\ timer' = TRUE
    BY DEF FirstReboot, Running, device, tester, world, Arm
  <1>2. Types'
    <2>1. cycle' \in 0 .. MaxCycles
      BY <1>1, RoutingAssumption DEF IndInv, Types, Counters
    <2>2. Sets'
      BY <1>1 DEF IndInv, Types, Sets
    <2>3. Flags'
      BY <1>1 DEF IndInv, Types, Flags
    <2> QED
      BY <1>1, <2>1, <2>2, <2>3 DEF IndInv, Types, Counters, Messages
  <1>3. Responded'
    BY <1>1 DEF IndInv, Responded
  <1>4. \A d \in Devices : Known(d)'
    BY <1>1, KnownKept
  <1> QED
    BY <1>2, <1>3, <1>4 DEF IndInv

LEMMA RestartsStep == IndInv /\ FirstRestarts => IndInv'
  <1> SUFFICES ASSUME IndInv, FirstRestarts PROVE IndInv'
    OBVIOUS
  <1>1. /\ main = "restart"
        /\ UNCHANGED <<pending, fetching, fetchDone, inbox, fetched, linked, routed, conn, count, available,
                       disappeared, services, cycle, timer, crashed, up, hbk, announced, downs, faults>>
        /\ \/ \E d \in todo : infos' = infos \cup ({d} \cap routed) /\ todo' = todo \ {d} /\ main' = main
           \/ main' = "join" /\ todo' = todo /\ infos' = infos
    BY DEF FirstRestarts, Restart, device
  <1>2. Types'
    <2>1. Sets'
      BY <1>1 DEF IndInv, Types, Sets
    <2> QED
      BY <1>1, <2>1 DEF IndInv, Types, Flags, Counters, Messages
  <1>3. Responded'
    BY <1>1 DEF IndInv, Responded
  <1>4. \A d \in Devices : Known(d)'
    BY <1>1, KnownKept
  <1> QED
    BY <1>2, <1>3, <1>4 DEF IndInv

LEMMA TimerStep == IndInv /\ TimerFires => IndInv'
  <1> SUFFICES ASSUME IndInv, TimerFires PROVE IndInv'
    OBVIOUS
  <1>1. /\ cycle < MaxCycles /\ cycle' = cycle + 1 /\ timer' = TRUE /\ infos' = infos \cup routed
        /\ UNCHANGED <<main, todo, pending, fetching, fetchDone, inbox, fetched, linked, routed, conn, count,
                       available, disappeared, services, crashed, up, hbk, announced, downs, faults>>
    BY DEF TimerFires, Running, CheckAndReboot, Restart, Arm, mainThread, device
  <1>2. Types'
    <2>1. cycle' \in 0 .. MaxCycles
      BY <1>1, RoutingAssumption DEF IndInv, Types, Counters
    <2>2. Sets'
      BY <1>1 DEF IndInv, Types, Sets
    <2>3. Flags'
      BY <1>1 DEF IndInv, Types, Flags
    <2> QED
      BY <1>1, <2>1, <2>2, <2>3 DEF IndInv, Types, Counters, Messages
  <1>3. Responded'
    BY <1>1 DEF IndInv, Responded
  <1>4. \A d \in Devices : Known(d)'
    BY <1>1, KnownKept
  <1> QED
    BY <1>2, <1>3, <1>4 DEF IndInv

-----------------------------------------------------------------------------
(* The event loop *)

\* A message of the Device's daemon is handled: devices that it does not change.
LEMMA OthersKept ==
    ASSUME IndInv, inbox # <<>>, inbox' = Tail(inbox), NEW d \in Devices,
           UNCHANGED <<fetched, linked, available, up, hbk, announced, downs>>,
           d \in routed' <=> d \in routed, d \in conn' <=> d \in conn,
           count'[d] = count[d], services'[d] = services[d],
           fetching' => fetching,
           fetching /\ Appears(Head(inbox), d) => d \in routed \/ downs[d] > 0 \/ announced[d] # "port"
    PROVE  Known(d)'
  <1>1. Announced(d) /\ Withdrawn(d) /\ Appeared(d) /\ Connected(d) /\ Types
    BY DEF IndInv, Known
  <1>2. inbox \in Seq(Notices \cup Results)
    BY <1>1 DEF Types, Messages
  <1>3. Possible(d) \in Int /\ Noticed(d) \in Int /\ downs[d] \in Nat
    BY <1>1, Counted
  <1>4. WithdrawnBy(inbox', d, Possible(d), Noticed(d))
    BY <1>1, <1>2, <1>3, WithdrawnTaken DEF Withdrawn
  <1>5. Coming(inbox, d) => Coming(inbox', d) \/ Appears(Head(inbox), d)
    BY <1>2, ComingMoves
  <1>6. Withdrawn(d)' /\ Appeared(d)'
    <2>1. Possible(d)' = Possible(d) /\ Noticed(d)' = Noticed(d)
      BY DEF Possible, Noticed
    <2> QED
      BY <1>1, <1>4, <2>1 DEF Withdrawn, Appeared
  <1>7. Announced(d)'
    <2>1. downs'[d] = 0 => ~(downs[d] > 0)
      BY <1>3
    <2> QED
      BY <1>1, <1>5, <2>1 DEF Announced
  <1>8. Connected(d)'
    BY <1>1, ConnectionKept
  <1> QED
    BY <1>6, <1>7, <1>8 DEF Known

LEMMA AppearsStep ==
    IndInv /\ FetchRoutedCb /\ DeviceAppears(Head(inbox)) => IndInv'
  <1> SUFFICES ASSUME IndInv, FetchRoutedCb, DeviceAppears(Head(inbox)) PROVE IndInv'
    OBVIOUS
  <1>1. PICK m : m = Head(inbox)
    OBVIOUS
  <1>2. /\ inbox # <<>> /\ m.event # "result" /\ inbox' = Tail(inbox)
        /\ UNCHANGED <<main, todo, fetched, linked, available, disappeared, cycle, timer, up, hbk, announced,
                       asked, downs, faults>>
    BY <1>1 DEF FetchRoutedCb, mainThread, world
  <1>3. /\ fetching /\ m.event # "remove" /\ m.dev \notin routed /\ m.port /\ m.dev \in up
        /\ routed' = routed \cup {m.dev} /\ conn' = conn \cup {m.dev} /\ infos' = infos \cup {m.dev}
        /\ services' = [services EXCEPT ![m.dev] = FirstServices(m.dev)]
        /\ count' = [count EXCEPT ![m.dev] = @ + 1]
        /\ MapsChanged
        /\ UNCHANGED <<pending, fetching, fetchDone>>
    BY <1>1 DEF DeviceAppears, device
  <1>4. Types /\ Responded /\ \A d \in Devices : Known(d)
    BY DEF IndInv
  <1>5. m \in Notices /\ m.dev \in Devices /\ inbox' \in Seq(Notices \cup Results)
    BY <1>1, <1>2, <1>4, FirstMessage
  <1>6. PICK e \in Devices : e = m.dev
    BY <1>5
  <1>7. PICK fs \in Seq(ServiceMsgs) : fs = FirstServices(e) /\ fs = IF e \in hbk THEN <<"hbk">> ELSE <<>>
    <2>1. FirstServices(e) \in Seq(ServiceMsgs)
      <3>1. "hbk" \in ServiceMsgs
        BY DEF ServiceMsgs
      <3>2. <<"hbk">> \in Seq(ServiceMsgs) /\ <<>> \in Seq(ServiceMsgs)
        BY <3>1
      <3> QED
        BY <3>2 DEF FirstServices
    <2> QED
      BY <2>1 DEF FirstServices
  <1>8. /\ count'[e] = count[e] + 1 /\ services'[e] = fs
        /\ \A d \in Devices \ {e} : count'[d] = count[d] /\ services'[d] = services[d]
    BY <1>3, <1>4, <1>6, <1>7 DEF Types, Counters, Messages
  <1>9. Types'
    <2>1. Sets'
      BY <1>2, <1>3, <1>4, <1>5 DEF Types, Sets
    <2>2. Flags'
      <3>1. crashed' \in BOOLEAN
        BY <1>3, <1>4, Zenon DEF Types, Flags, MapsChanged
      <3> QED
        BY <1>2, <1>3, <1>4, <3>1 DEF Types, Flags
    <2>3. Counters'
      BY <1>2, <1>3, <1>4, <1>5 DEF Types, Counters
    <2>4. services' \in [Devices -> Seq(ServiceMsgs)]
      BY <1>3, <1>4, <1>6, <1>7 DEF Types, Messages
    <2>5. \A d \in Devices \ conn' : services'[d] = <<>>
      BY <1>3, <1>4, <1>6, <1>8 DEF Types, Messages
    <2> QED
      BY <1>5, <2>1, <2>2, <2>3, <2>4, <2>5 DEF Types, Messages
  <1>10. Responded'
    <2>1. inbox \in Seq(Notices \cup Results)
      BY <1>4 DEF Types, Messages
    <2>2. OneResult(inbox') /\ (NoResult(inbox) => NoResult(inbox'))
      BY <1>2, <1>4, <2>1, ResultMoves DEF Responded
    <2>3. fetched = "yes"
      BY <1>2, <1>4 DEF Responded
    <2> QED
      BY <1>2, <1>3, <1>4, <2>2, <2>3, RespondedKept DEF Types
  <1>11. ASSUME NEW d \in Devices, d # e PROVE Known(d)'
    <2>1. ~Appears(Head(inbox), d)
      BY <1>1, <1>6, <1>11 DEF Appears
    <2>2. (d \in routed' <=> d \in routed) /\ (d \in conn' <=> d \in conn)
      BY <1>3, <1>6, <1>11
    <2> QED
      BY <1>2, <1>3, <1>8, <1>11, <2>1, <2>2, OthersKept
  <1>12. Known(e)'
    <2>1. Announced(e) /\ Withdrawn(e) /\ Appeared(e) /\ Connected(e)
      BY <1>4 DEF Known
    <2>2. /\ count[e] \in Nat /\ downs[e] \in Nat /\ Possible(e) \in Int /\ Noticed(e) \in Int
      BY <1>4, Counted
    <2>3. e \notin routed /\ e \in routed' /\ e \in conn' /\ e \in up
      BY <1>3, <1>6
    <2>4. Possible(e)' = Possible(e) /\ Noticed(e)' = Noticed(e)
      BY <1>2, <1>8, <2>2, <2>3 DEF Possible, Noticed
    <2>5. inbox \in Seq(Notices \cup Results)
      BY <1>4 DEF Types, Messages
    <2>6. Withdrawn(e)'
      BY <1>2, <2>1, <2>2, <2>4, <2>5, WithdrawnTaken DEF Withdrawn
    <2>7. Announced(e)'
      BY <1>2, <2>1, <2>3 DEF Announced
    <2>8. Appeared(e)'
      BY <1>8, <2>1, <2>2, <2>4 DEF Appeared
    <2>9. Connected(e)'
      <3>1. e \notin conn
        BY <1>4, <2>3 DEF Types, Sets
      <3>2. e \in available => downs[e] > 0
        BY <2>1, <3>1 DEF Connected
      <3>3. ~Lost(fs)
        BY <1>7 DEF Lost
      <3>4. CASE e \in hbk
        <4>1. fs # <<>> /\ fs[Len(fs)] = "hbk"
          BY <1>7, <3>4
        <4> QED
          BY <1>2, <1>8, <2>3, <3>3, <3>4, <4>1 DEF Connected, Served, LastIs
      <3>5. CASE e \notin hbk
        <4>1. fs = <<>>
          BY <1>7, <3>5
        <4> QED
          BY <1>2, <1>8, <2>3, <3>2, <3>3, <3>5, <4>1 DEF Connected, Served, LastIs
      <3> QED
        BY <3>4, <3>5
    <2> QED
      BY <2>6, <2>7, <2>8, <2>9 DEF Known
  <1> QED
    BY <1>9, <1>10, <1>11, <1>12 DEF IndInv

LEMMA VanishesStep ==
    IndInv /\ FetchRoutedCb /\ DeviceVanishes(Head(inbox)) => IndInv'
  <1> SUFFICES ASSUME IndInv, FetchRoutedCb, DeviceVanishes(Head(inbox)) PROVE IndInv'
    OBVIOUS
  <1>1. PICK m : m = Head(inbox)
    OBVIOUS
  <1>2. /\ inbox # <<>> /\ m.event # "result" /\ inbox' = Tail(inbox)
        /\ UNCHANGED <<main, todo, fetched, linked, available, disappeared, cycle, timer, up, hbk, announced,
                       asked, downs, faults>>
    BY <1>1 DEF FetchRoutedCb, mainThread, world
  <1>3. /\ m.event = "remove" /\ m.dev \in routed
        /\ routed' = routed \ {m.dev} /\ conn' = conn \ {m.dev}
        /\ services' = [services EXCEPT ![m.dev] = <<>>]
        /\ CancelRequests /\ MapsChanged
        /\ UNCHANGED <<count, infos>>
    BY <1>1 DEF DeviceVanishes
  <1>4. Types /\ Responded /\ \A d \in Devices : Known(d)
    BY DEF IndInv
  <1>5. m \in Notices /\ m.dev \in Devices /\ inbox' \in Seq(Notices \cup Results)
    BY <1>1, <1>2, <1>4, FirstMessage
  <1>6. PICK e \in Devices : e = m.dev
    BY <1>5
  <1>7. services'[e] = <<>> /\ \A d \in Devices \ {e} : services'[d] = services[d]
    BY <1>3, <1>4, <1>6 DEF Types, Messages
  <1>8. /\ pending' \in Requests /\ fetching' \in BOOLEAN /\ fetchDone' \in BOOLEAN
        /\ fetching' => fetching
    BY <1>3, <1>4, Cancelled DEF Types
  <1>9. Types'
    <2>1. Sets'
      BY <1>2, <1>3, <1>4 DEF Types, Sets
    <2>2. Flags'
      <3>1. crashed' \in BOOLEAN
        BY <1>3, <1>4, Zenon DEF Types, Flags, MapsChanged
      <3> QED
        BY <1>2, <1>4, <1>8, <3>1 DEF Types, Flags
    <2>3. Counters'
      BY <1>2, <1>3, <1>4 DEF Types, Counters
    <2>4. services' \in [Devices -> Seq(ServiceMsgs)]
      <3>1. <<>> \in Seq(ServiceMsgs)
        OBVIOUS
      <3> QED
        BY <1>3, <1>4, <3>1 DEF Types, Messages
    <2>5. \A d \in Devices \ conn' : services'[d] = <<>>
      BY <1>3, <1>4, <1>6, <1>7 DEF Types, Messages
    <2> QED
      BY <1>5, <2>1, <2>2, <2>3, <2>4, <2>5 DEF Types, Messages
  <1>10. Responded'
    <2>1. inbox \in Seq(Notices \cup Results)
      BY <1>4 DEF Types, Messages
    <2>2. OneResult(inbox') /\ (NoResult(inbox) => NoResult(inbox'))
      BY <1>2, <1>4, <2>1, ResultMoves DEF Responded
    <2>3. fetched = "yes"
      BY <1>2, <1>4 DEF Responded
    <2> QED
      BY <1>2, <1>3, <1>4, <2>2, <2>3, RespondedKept DEF Types
  <1>11. ASSUME NEW d \in Devices, d # e PROVE Known(d)'
    <2>1. ~Appears(Head(inbox), d)
      BY <1>1, <1>6, <1>11 DEF Appears
    <2>2. (d \in routed' <=> d \in routed) /\ (d \in conn' <=> d \in conn) /\ count'[d] = count[d]
      BY <1>3, <1>6, <1>11
    <2> QED
      BY <1>2, <1>7, <1>8, <1>11, <2>1, <2>2, OthersKept
  <1>12. Known(e)'
    <2>1. Announced(e) /\ Withdrawn(e) /\ Appeared(e) /\ Connected(e)
      BY <1>4 DEF Known
    <2>2. /\ count[e] \in Nat /\ downs[e] \in Nat /\ Possible(e) \in Int /\ Noticed(e) \in Int
          /\ Noticed(e) <= downs[e]
      BY <1>4, Counted
    <2>3. e \in routed /\ e \notin routed' /\ e \notin conn'
      BY <1>3, <1>6
    <2>4. Possible(e) = count[e] /\ Possible(e)' = count[e] + 1 /\ Noticed(e)' = Noticed(e)
      BY <1>2, <1>3, <2>3 DEF Possible, Noticed
    <2>5. inbox \in Seq(Notices \cup Results) /\ Removes(Head(inbox), e)
      BY <1>1, <1>3, <1>4, <1>5, <1>6 DEF Types, Messages, Removes
    <2>6. Possible(e) <= Noticed(e) /\ WithdrawnBy(inbox', e, Possible(e) + 1, Noticed(e))
      BY <1>2, <2>1, <2>2, <2>5, WithdrawnTaken DEF Withdrawn
    <2>7. count[e] # 0
      BY <2>1, <2>3 DEF Appeared
    <2>8. downs[e] > 0
      BY <2>2, <2>4, <2>6, <2>7
    <2>9. Withdrawn(e)'
      BY <2>4, <2>6 DEF Withdrawn
    <2>10. Announced(e)'
      BY <1>2, <2>1, <2>2, <2>8 DEF Announced
    <2>11. Appeared(e)'
      <3>1. count[e] + 1 <= Noticed(e) + 1
        BY <2>2, <2>4, <2>6
      <3> QED
        BY <2>3, <2>4, <3>1 DEF Appeared
    <2>12. Connected(e)'
      BY <1>2, <1>7, <2>3, <2>8 DEF Connected
    <2> QED
      BY <2>9, <2>10, <2>11, <2>12 DEF Known
  <1> QED
    BY <1>9, <1>10, <1>11, <1>12 DEF IndInv

LEMMA NothingStep ==
    IndInv /\ FetchRoutedCb /\ NothingToDo(Head(inbox)) => IndInv'
  <1> SUFFICES ASSUME IndInv, FetchRoutedCb, NothingToDo(Head(inbox)) PROVE IndInv'
    OBVIOUS
  <1>1. PICK m : m = Head(inbox)
    OBVIOUS
  <1>2. /\ inbox # <<>> /\ m.event # "result" /\ inbox' = Tail(inbox)
        /\ UNCHANGED <<main, todo, fetched, linked, available, disappeared, cycle, timer, up, hbk, announced,
                       asked, downs, faults>>
    BY <1>1 DEF FetchRoutedCb, mainThread, world
  <1>3. /\ \/ ~fetching
           \/ m.event # "remove" /\ (m.dev \in routed \/ ~m.port \/ m.dev \notin up)
           \/ m.event = "remove" /\ m.dev \notin routed
        /\ UNCHANGED <<routed, conn, services, count, infos, crashed, pending, fetching, fetchDone>>
    BY <1>1 DEF NothingToDo, device
  <1>4. Types /\ Responded /\ \A d \in Devices : Known(d)
    BY DEF IndInv
  <1>5. inbox \in Seq(Notices \cup Results) /\ inbox' \in Seq(Notices \cup Results)
    BY <1>2, <1>4, FirstMessage DEF Types, Messages
  <1>6. Types'
    BY <1>2, <1>3, <1>4, <1>5 DEF Types, Sets, Flags, Counters, Messages
  <1>7. Responded'
    <2>1. OneResult(inbox') /\ (NoResult(inbox) => NoResult(inbox'))
      BY <1>2, <1>4, <1>5, ResultMoves DEF Responded
    <2>2. fetched = "yes"
      BY <1>2, <1>4 DEF Responded
    <2> QED
      BY <1>2, <1>3, <1>4, <2>1, <2>2, RespondedKept DEF Types
  <1>8. ASSUME NEW d \in Devices PROVE Known(d)'
    <2>1. ASSUME fetching, Appears(Head(inbox), d)
          PROVE  d \in routed \/ downs[d] > 0 \/ announced[d] # "port"
      <3>1. d \in routed \/ d \notin up
        BY <1>1, <1>3, <2>1 DEF Appears
      <3>2. downs[d] \in Nat
        BY <1>4, Counted
      <3>3. downs[d] = 0 /\ announced[d] # "no" => d \in up
        BY <1>4 DEF Known, Announced
      <3> QED
        BY <3>1, <3>2, <3>3
    <2> QED
      BY <1>2, <1>3, <2>1, OthersKept
  <1> QED
    BY <1>6, <1>7, <1>8 DEF IndInv

LEMMA ResponseStep == IndInv /\ FetchResponseCb => IndInv'
  <1> SUFFICES ASSUME IndInv, FetchResponseCb PROVE IndInv'
    OBVIOUS
  <1>1. /\ inbox # <<>> /\ Head(inbox).event = "result" /\ inbox' = Tail(inbox)
        /\ pending' = "no" /\ fetchDone' = (fetchDone \/ pending # "no")
        /\ UNCHANGED <<main, todo, fetching, fetched, linked, routed, conn, infos, count, available, disappeared,
                       services, cycle, timer, crashed, up, hbk, announced, asked, downs, faults>>
    BY DEF FetchResponseCb, mainThread, tester, world
  <1>2. Types /\ Responded /\ \A d \in Devices : Known(d)
    BY DEF IndInv
  <1>3. /\ inbox \in Seq(Notices \cup Results) /\ inbox' \in Seq(Notices \cup Results)
        /\ Head(inbox) \in Results
    BY <1>1, <1>2, FirstMessage DEF Types, Messages
  <1>4. pending' \in Requests /\ fetchDone' \in BOOLEAN
    <2>1. pending' \in Requests
      BY <1>1 DEF Requests
    <2> QED
      BY <1>1, <1>2, <2>1, Zenon DEF Types, Flags
  <1>5. Types'
    BY <1>1, <1>2, <1>3, <1>4 DEF Types, Sets, Flags, Counters, Messages
  <1>6. Responded'
    <2>1. OneResult(inbox') /\ NoResult(inbox')
      BY <1>1, <1>2, <1>3, ResultMoves DEF Responded
    <2>2. fetched = "yes"
      BY <1>1, <1>2 DEF Responded
    <2> QED
      BY <1>1, <1>2, <2>1, <2>2 DEF Responded
  <1>7. ASSUME NEW d \in Devices PROVE Known(d)'
    <2>1. ~Appears(Head(inbox), d)
      <3>1. \A n \in Notices : n.event # "result"
        BY DEF Notices
      <3> QED
        BY <1>1, <3>1 DEF Appears
    <2> QED
      BY <1>1, <2>1, OthersKept
  <1> QED
    BY <1>5, <1>6, <1>7 DEF IndInv

\* The error notifier of a request that could not be sent.
LEMMA NotifierStep == IndInv /\ ErrorNotifierFires => IndInv'
  <1> SUFFICES ASSUME IndInv, ErrorNotifierFires PROVE IndInv'
    OBVIOUS
  <1>1. /\ pending = "failed"
        /\ CancelRequests \/ (pending' = "lost" /\ UNCHANGED <<fetching, fetchDone>>)
        /\ UNCHANGED <<main, todo, inbox, fetched, linked, routed, conn, infos, count, available,
                       disappeared, services, cycle, timer, crashed, up, hbk, announced, downs>>
    BY DEF ErrorNotifierFires, mainThread, tester, world
  <1>2. Types /\ Responded
    BY DEF IndInv
  <1>3. CASE CancelRequests
    <2>1. /\ pending' \in Requests /\ fetching' \in BOOLEAN /\ fetchDone' \in BOOLEAN
          /\ fetching' => fetching
      BY <1>2, <1>3, Cancelled DEF Types
    <2>2. Types'
      BY <1>1, <1>2, <2>1 DEF Types, Sets, Flags, Counters, Messages
    <2>3. Responded'
      BY <1>1, <1>2, <1>3, RespondedKept DEF Types, Responded
    <2>4. \A d \in Devices : Known(d)'
      BY <1>1, <2>1, KnownKept
    <2> QED
      BY <2>2, <2>3, <2>4 DEF IndInv
  <1>4. CASE pending' = "lost" /\ UNCHANGED <<fetching, fetchDone>>
    <2>1. Types'
      BY <1>1, <1>2, <1>4 DEF Types, Sets, Flags, Requests, Counters, Messages
    <2>2. Responded'
      BY <1>1, <1>2, <1>4 DEF Responded
    <2>3. \A d \in Devices : Known(d)'
      BY <1>1, <1>4, KnownKept
    <2> QED
      BY <2>1, <2>2, <2>3 DEF IndInv
  <1> QED
    BY <1>1, <1>3, <1>4

\* The connection of the Device is lost.
LEMMA StopsStep == IndInv /\ DeviceStops => IndInv'
  <1> SUFFICES ASSUME IndInv, DeviceStops PROVE IndInv'
    OBVIOUS
  <1>1. /\ linked' = FALSE /\ fetched' = "no" /\ inbox' = <<>> /\ CancelRequests
        /\ UNCHANGED <<main, todo, routed, conn, infos, count, available, disappeared, services, cycle,
                       timer, crashed, up, hbk, announced, asked, downs>>
    BY DEF DeviceStops, mainThread, tester
  <1>2. Types /\ Responded /\ \A d \in Devices : Known(d)
    BY DEF IndInv
  <1>3. /\ pending' \in Requests /\ fetching' \in BOOLEAN /\ fetchDone' \in BOOLEAN
        /\ fetching' => fetching
    BY <1>1, <1>2, Cancelled DEF Types
  <1>4. inbox' \in Seq(Notices \cup Results) /\ Len(inbox') = 0
    BY <1>1
  <1>5. Types'
    BY <1>1, <1>2, <1>3, <1>4 DEF Types, Sets, Flags, Counters, Messages
  <1>6. Responded'
    <2>1. OneResult(inbox') /\ NoResult(inbox')
      BY <1>4 DEF OneResult, NoResult
    <2> QED
      BY <1>1, <1>2, <2>1, Cancelled DEF Types, Responded
  <1>7. ASSUME NEW d \in Devices PROVE Known(d)'
    <2>1. Announced(d) /\ Appeared(d) /\ Connected(d)
      BY <1>2 DEF Known
    <2>2. WithdrawnBy(inbox', d, Possible(d), Noticed(d))
      <3>1. \A k \in 1 .. Len(inbox') : ~Removes(inbox'[k], d)
        BY <1>4
      <3>2. \A low, high : WithdrawnBy(inbox', d, low, high)
        BY <1>4, <3>1, NothingWithdrawn
      <3> QED
        BY <3>2
    <2>3. Announced(d)' /\ Withdrawn(d)' /\ Appeared(d)'
      BY <1>1, <1>3, <2>1, <2>2, RouterKept
    <2>4. Connected(d)'
      BY <1>1, <2>1, ConnectionKept
    <2> QED
      BY <2>3, <2>4 DEF Known
  <1> QED
    BY <1>5, <1>6, <1>7 DEF IndInv

\* A message of the daemon of device e is handled: what the router knows, and
\* the other devices.
LEMMA ServicesKept ==
    ASSUME IndInv, NEW e \in Devices, NEW s,
           services' = [services EXCEPT ![e] = s],
           fetching' => fetching,
           UNCHANGED <<inbox, fetched, linked, routed, count, up, hbk, announced, downs>>,
           \A d \in Devices \ {e} : (d \in conn' <=> d \in conn) /\ (d \in available' <=> d \in available),
           Connected(e)'
    PROVE  \A d \in Devices : Known(d)'
  <1> SUFFICES ASSUME NEW d \in Devices PROVE Known(d)'
    OBVIOUS
  <1>1. Announced(d) /\ Withdrawn(d) /\ Appeared(d) /\ Connected(d) /\ Types
    BY DEF IndInv, Known
  <1>2. WithdrawnBy(inbox', d, Possible(d), Noticed(d))
    BY <1>1 DEF Withdrawn
  <1>3. Announced(d)' /\ Withdrawn(d)' /\ Appeared(d)'
    BY <1>1, <1>2, RouterKept
  <1>4. d # e => services'[d] = services[d]
    BY <1>1 DEF Types, Messages
  <1>5. d # e => Connected(d)'
    BY <1>1, <1>4, ConnectionKept
  <1> QED
    BY <1>3, <1>5 DEF Known

\* The services of a device, and the message that is handled next.
LEMMA FirstService ==
    ASSUME Types, NEW e \in Devices, services[e] # <<>>
    PROVE  /\ e \in conn /\ e \in infos
           /\ services[e] \in Seq(ServiceMsgs)
           /\ Tail(services[e]) \in Seq(ServiceMsgs)
  <1>1. services[e] \in Seq(ServiceMsgs)
    BY DEF Types, Messages
  <1>2. Tail(services[e]) \in Seq(ServiceMsgs)
    BY <1>1, HeadTaken
  <1>3. e \in conn /\ e \in infos
    BY DEF Types, Messages, Sets
  <1> QED
    BY <1>1, <1>2, <1>3

\* A message about the service of e is handled.
LEMMA ServiceTaken ==
    ASSUME Types, NEW e \in Devices, services[e] # <<>>, Connected(e),
           services'[e] = Tail(services[e]), e \in conn' <=> e \in conn,
           UNCHANGED <<hbk, downs>>,
           \/ Head(services[e]) = "hbk" /\ e \in available'
           \/ Head(services[e]) = "nohbk" /\ e \notin available'
    PROVE  Connected(e)'
  <1>1. PICK s \in Seq(ServiceMsgs) : s = services[e]
    BY FirstService
  <1>2. PICK x : x = IF e \in hbk THEN "hbk" ELSE "nohbk"
    OBVIOUS
  <1>3. /\ Lost(s) => Lost(Tail(s)) \/ Head(s) = "lost"
        /\ Lost(Tail(s)) => Lost(s)
        /\ LastIs(s, x) => LastIs(Tail(s), x) \/ (Tail(s) = <<>> /\ Head(s) = x)
    BY <1>1, ServiceMoves
  <1>4. Head(s) # "lost" /\ e \in conn /\ e \in conn'
    BY <1>1, FirstService
  <1>5. Lost(s) \/ LastIs(s, x)
    BY <1>1, <1>2, <1>4 DEF Connected, Served
  <1>6. Lost(services'[e]) => downs'[e] > 0
    BY <1>1, <1>3 DEF Connected
  <1>7. CASE Lost(Tail(s))
    BY <1>1, <1>4, <1>6, <1>7 DEF Connected
  <1>8. CASE LastIs(Tail(s), x)
    BY <1>1, <1>2, <1>4, <1>6, <1>8 DEF Connected, Served, LastIs
  <1>9. CASE Tail(s) = <<>> /\ Head(s) = x
    <2>1. e \in hbk <=> e \in available'
      BY <1>1, <1>2, <1>9
    <2> QED
      BY <1>1, <1>4, <1>6, <1>9, <2>1 DEF Connected, Served
  <1> QED
    BY <1>3, <1>4, <1>5, <1>7, <1>8, <1>9

\* The next message of the daemon of e.
LEMMA ServicesStep ==
    ASSUME IndInv, NEW e \in Devices, FetchServicesCb(e)
    PROVE  IndInv'
  <1>1. /\ cycle < MaxCycles /\ services[e] # <<>>
        /\ UNCHANGED <<main, todo, inbox, fetched, linked, routed, count, crashed, up, hbk, announced, downs, faults>>
        /\ HbkAppears(e) \/ HbkDisappears(e) \/ ConnectionLost(e)
    BY DEF FetchServicesCb, Running, mainThread
  <1>2. Types /\ Responded /\ Connected(e)
    BY DEF IndInv, Known
  <1>3. /\ e \in conn /\ e \in infos /\ services[e] \in Seq(ServiceMsgs)
        /\ Tail(services[e]) \in Seq(ServiceMsgs)
    BY <1>1, <1>2, FirstService
  <1>4. PICK s \in Seq(ServiceMsgs) : s = Tail(services[e])
    BY <1>3
  <1>5. PICK none \in Seq(ServiceMsgs) : none = <<>>
    <2>1. <<>> \in Seq(ServiceMsgs)
      OBVIOUS
    <2> QED
      BY <2>1, Zenon
  <1>6. ASSUME NEW t \in Seq(ServiceMsgs), services' = [services EXCEPT ![e] = t],
               conn' = conn \/ (conn' = conn \ {e} /\ t = <<>>)
        PROVE  Messages' /\ services'[e] = t
    <2>1. services'[e] = t /\ \A d \in Devices \ {e} : services'[d] = services[d]
      BY <1>2, <1>6 DEF Types, Messages
    <2>2. services' \in [Devices -> Seq(ServiceMsgs)]
      BY <1>2, <1>6 DEF Types, Messages
    <2>3. ASSUME NEW d \in Devices \ conn' PROVE services'[d] = <<>>
      <3>1. d = e => t = <<>>
        BY <1>3, <1>6
      <3>2. d # e => d \in Devices \ conn
        BY <1>6
      <3> QED
        BY <1>2, <2>1, <3>1, <3>2 DEF Types, Messages
    <2> QED
      BY <1>1, <1>2, <2>1, <2>2, <2>3 DEF Types, Messages
  <1>7. CASE HbkAppears(e)
    <2>1. /\ Head(services[e]) = "hbk" /\ available' = available \cup {e}
          /\ services' = [services EXCEPT ![e] = s]
          /\ UNCHANGED <<conn, disappeared, pending, fetching, fetchDone>>
          /\ \/ cycle' = cycle + 1 /\ timer' = TRUE /\ infos' = infos \cup routed
             \/ UNCHANGED <<cycle, timer, infos>>
      <3>1. services' = [services EXCEPT ![e] = Tail(services[e])]
        BY <1>2, <1>7 DEF HbkAppears, Types, Messages
      <3>2. CASE e \in disappeared /\ Complete(available')
        BY <1>4, <1>7, <3>1, <3>2 DEF HbkAppears, CheckAndReboot, Restart, Arm, device
      <3>3. CASE ~(e \in disappeared /\ Complete(available'))
        BY <1>4, <1>7, <3>1, <3>3 DEF HbkAppears, device
      <3> QED
        BY <3>2, <3>3
    <2>2. Messages' /\ services'[e] = s
      BY <1>6, <2>1
    <2>3. Types'
      <3>1. Sets'
        BY <1>1, <1>2, <1>3, <2>1 DEF Types, Sets
      <3>2. Flags'
        BY <1>1, <1>2, <2>1 DEF Types, Flags
      <3>3. Counters'
        <4>1. cycle' \in 0 .. MaxCycles
          BY <1>1, <1>2, <2>1, RoutingAssumption DEF Types, Counters
        <4> QED
          BY <1>1, <1>2, <4>1 DEF Types, Counters
      <3> QED
        BY <2>2, <3>1, <3>2, <3>3 DEF Types
    <2>4. Responded'
      BY <1>1, <1>2, <2>1 DEF Responded
    <2>5. Connected(e)'
      BY <1>1, <1>2, <1>4, <2>1, <2>2, ServiceTaken
    <2>6. \A d \in Devices : Known(d)'
      BY <1>1, <2>1, <2>5, ServicesKept
    <2> QED
      BY <2>3, <2>4, <2>6 DEF IndInv
  <1>8. CASE HbkDisappears(e)
    <2>1. /\ Head(services[e]) = "nohbk" /\ available' = available \ {e}
          /\ services' = [services EXCEPT ![e] = s]
          /\ UNCHANGED <<conn, disappeared, cycle, timer, infos, pending, fetching, fetchDone>>
      <3>1. services' = [services EXCEPT ![e] = Tail(services[e])]
        BY <1>2, <1>8 DEF HbkDisappears, Types, Messages
      <3> QED
        BY <1>4, <1>8, <3>1 DEF HbkDisappears, device
    <2>2. Messages' /\ services'[e] = s
      BY <1>6, <2>1
    <2>3. Types'
      <3>1. Sets'
        BY <1>1, <1>2, <2>1 DEF Types, Sets
      <3> QED
        BY <1>1, <1>2, <2>1, <2>2, <3>1 DEF Types, Flags, Counters
    <2>4. Responded'
      BY <1>1, <1>2, <2>1 DEF Responded
    <2>5. Connected(e)'
      BY <1>1, <1>2, <1>4, <2>1, <2>2, ServiceTaken
    <2>6. \A d \in Devices : Known(d)'
      BY <1>1, <2>1, <2>5, ServicesKept
    <2> QED
      BY <2>3, <2>4, <2>6 DEF IndInv
  <1>9. CASE ConnectionLost(e)
    <2>1. /\ Head(services[e]) = "lost" /\ conn' = conn \ {e} /\ disappeared' = disappeared \cup {e}
          /\ services' = [services EXCEPT ![e] = none]
          /\ CancelRequests
          /\ UNCHANGED <<available, cycle, timer, infos>>
      BY <1>5, <1>9 DEF ConnectionLost
    <2>2. Messages' /\ services'[e] = <<>>
      BY <1>5, <1>6, <2>1
    <2>3. /\ pending' \in Requests /\ fetching' \in BOOLEAN /\ fetchDone' \in BOOLEAN
          /\ fetching' => fetching
      BY <1>2, <2>1, Cancelled DEF Types
    <2>4. Types'
      <3>1. Sets'
        BY <1>1, <1>2, <1>3, <2>1 DEF Types, Sets
      <3> QED
        BY <1>1, <1>2, <2>1, <2>2, <2>3, <3>1 DEF Types, Flags, Counters
    <2>5. Responded'
      BY <1>1, <1>2, <2>1, RespondedKept DEF Types, Responded
    <2>6. Connected(e)'
      <3>1. Lost(services[e])
        BY <1>1, <1>3, <2>1, ServiceMoves
      <3>2. downs'[e] > 0
        BY <1>1, <1>2, <3>1 DEF Connected
      <3> QED
        BY <2>1, <3>2 DEF Connected
    <2>7. \A d \in Devices : Known(d)'
      BY <1>1, <2>1, <2>3, <2>6, ServicesKept
    <2> QED
      BY <2>4, <2>5, <2>7 DEF IndInv
  <1> QED
    BY <1>1, <1>7, <1>8, <1>9

-----------------------------------------------------------------------------
(* The daemon of the Device, and the devices *)

\* The daemon of the Device has the fetch: the devices announced, and the result.
LEMMA DaemonStep == IndInv /\ DaemonFetches => IndInv'
  <1> SUFFICES ASSUME IndInv, DaemonFetches PROVE IndInv'
    OBVIOUS
  <1> DEFINE there == {e \in Devices : announced[e] # "no"}
             first == {Msg("add", d, announced[d] = "port") : d \in there}
             q == SetToSeq(first)
  <1>0. /\ fetched = "sent" /\ fetched' = "yes" /\ inbox' = Append(q, ResultMsg)
        /\ UNCHANGED <<main, todo, pending, fetching, fetchDone, linked, routed, conn, infos, count,
                       available, disappeared, services, cycle, timer, crashed, up, hbk, announced, downs>>
    BY DEF DaemonFetches, mainThread, device, tester, world
  <1>1. IsFiniteSet(first)
    <2>1. IsFiniteSet(there)
      BY RoutingAssumption, FS_Subset
    <2> HIDE DEF there
    <2> QED
      BY <2>1, FinitelyMany
  <1>2. q \in Seq(first) /\ \A x \in first : \E k \in 1 .. Len(q) : q[k] = x
    BY <1>1, SetAsSequence
  <1>3. first \subseteq Notices /\ \A m \in first : m.event = "add"
    <2>1. ASSUME NEW d \in Devices
          PROVE  /\ Msg("add", d, announced[d] = "port") \in Notices
                 /\ Msg("add", d, announced[d] = "port").event = "add"
      BY DEF Msg, Notices
    <2> QED
      BY <2>1
  <1>4. first \subseteq Notices \cup Results
    BY <1>3
  <1>5. /\ \A m \in first : ~Removes(m, m.dev) /\ m \notin Results
        /\ \A d \in Devices : announced[d] = "port" => Msg("add", d, TRUE) \in first
        /\ \A d \in Devices : Appears(Msg("add", d, TRUE), d)
    <2>1. \A m \in first : ~Removes(m, m.dev) /\ m \notin Results
      BY <1>3 DEF Removes, Notices, Results, ResultMsg
    <2>2. ASSUME NEW d \in Devices, announced[d] = "port" PROVE Msg("add", d, TRUE) \in first
      <3>1. (announced[d] = "port") = TRUE /\ d \in there
        BY <2>2
      <3>2. Msg("add", d, announced[d] = "port") \in first
        BY <3>1
      <3> QED
        BY <3>1, <3>2
    <2>3. \A d \in Devices : Appears(Msg("add", d, TRUE), d)
      BY DEF Appears, Notices, Msg
    <2> QED
      BY <2>1, <2>2, <2>3
  <1> HIDE DEF there, first, q
  <1>6. q \in Seq(Notices \cup Results) /\ \A k \in 1 .. Len(q) : q[k] \in first
    BY <1>2, <1>4, SeqMonotonic, ElementOfSeq
  <1>7. ResultMsg \in Notices \cup Results /\ inbox' \in Seq(Notices \cup Results)
    <2>1. ResultMsg \in Notices \cup Results
      BY DEF Results
    <2> QED
      BY <1>0, <1>6, <2>1, Appended
  <1>8. Types /\ Responded /\ \A d \in Devices : Known(d)
    BY DEF IndInv
  <1>9. Types'
    BY <1>0, <1>7, <1>8 DEF Types, Sets, Flags, Counters, Messages
  <1>10. Responded'
    <2>1. NoResult(q)
      BY <1>5, <1>6 DEF NoResult
    <2>2. OneResult(inbox')
      BY <1>0, <1>6, <1>7, <2>1, ResultMoves
    <2>3. fetching => pending = "open"
      BY <1>0, <1>8 DEF Responded
    <2> QED
      BY <1>0, <1>8, <2>2, <2>3 DEF Responded
  <1>11. ASSUME NEW d \in Devices PROVE Known(d)'
    <2>1. Announced(d) /\ Appeared(d) /\ Connected(d)
      BY <1>8 DEF Known
    <2>2. Possible(d) \in Int /\ Noticed(d) \in Int
      BY <1>8, Counted
    <2>3. announced[d] = "port" => Coming(inbox', d)
      <3>1. ASSUME announced[d] = "port" PROVE Coming(inbox', d)
        <4>1. PICK k \in 1 .. Len(q) : q[k] = Msg("add", d, TRUE)
          BY <1>2, <1>5, <3>1
        <4>2. Coming(q, d)
          BY <1>5, <4>1 DEF Coming
        <4> QED
          BY <1>0, <1>6, <1>7, <4>2, ComingMoves
      <3> QED
        BY <3>1
    <2>4. Announced(d)'
      BY <1>0, <2>1, <2>3 DEF Announced
    <2>5. \A k \in 1 .. Len(q) : ~Removes(q[k], d)
      BY <1>5, <1>6 DEF Removes
    <2>6. WithdrawnBy(q, d, Possible(d), Noticed(d))
      <3>1. \A low, high : WithdrawnBy(q, d, low, high)
        BY <1>6, <2>5, NothingWithdrawn
      <3> QED
        BY <3>1
    <2>7. ~Removes(ResultMsg, d)
      BY DEF Removes, Notices, ResultMsg
    <2>8. WithdrawnBy(inbox', d, Possible(d), Noticed(d))
      BY <1>0, <1>6, <1>7, <2>2, <2>6, <2>7, WithdrawnSent
    <2>9. Withdrawn(d)' /\ Appeared(d)'
      <3>1. Possible(d)' = Possible(d) /\ Noticed(d)' = Noticed(d)
        BY <1>0 DEF Possible, Noticed
      <3> QED
        BY <1>0, <2>1, <2>8, <3>1 DEF Withdrawn, Appeared
    <2>10. Connected(d)'
      BY <1>0, <2>1, ConnectionKept
    <2> QED
      BY <2>4, <2>9, <2>10 DEF Known
  <1> QED
    BY <1>9, <1>10, <1>11 DEF IndInv

\* The daemon of device e tells its peer something.
LEMMA Told ==
    ASSUME Types, NEW e \in Devices, NEW x \in ServiceMsgs, Tells(e, x)
    PROVE  /\ services' \in [Devices -> Seq(ServiceMsgs)]
           /\ \A d \in Devices \ {e} : services'[d] = services[d]
           /\ \A d \in Devices \ conn : services'[d] = <<>>
           /\ e \in conn => /\ LastIs(services'[e], x) /\ services'[e] # <<>>
                            /\ Lost(services'[e]) <=> Lost(services[e]) \/ x = "lost"
           /\ e \notin conn => ~Lost(services'[e])
  <1>1. services \in [Devices -> Seq(ServiceMsgs)] /\ \A d \in Devices \ conn : services[d] = <<>>
    BY DEF Types, Messages
  <1>2. CASE e \in conn
    <2>1. PICK s \in Seq(ServiceMsgs) : s = services[e]
      BY <1>1
    <2>2. PICK t \in Seq(ServiceMsgs) : t = Append(s, x)
      BY Appended
    <2>3. services' = [services EXCEPT ![e] = t]
      BY <1>1, <1>2, <2>1, <2>2 DEF Tells
    <2>4. LastIs(t, x) /\ t # <<>> /\ (Lost(t) <=> Lost(s) \/ x = "lost")
      BY <2>2, ServiceMoves
    <2> QED
      BY <1>1, <1>2, <2>1, <2>3, <2>4
  <1>3. CASE e \notin conn
    <2>1. services' = services
      BY <1>3 DEF Tells
    <2>2. services'[e] = <<>>
      BY <1>1, <1>3, <2>1
    <2>3. ~Lost(services'[e])
      BY <2>2 DEF Lost
    <2> QED
      BY <1>1, <1>3, <2>1, <2>3
  <1> QED
    BY <1>2, <1>3

\* A device goes down.
LEMMA DownStep ==
    ASSUME IndInv, NEW e \in Devices, GoesDown(e)
    PROVE  IndInv'
  <1>1. /\ e \in up /\ up' = up \ {e} /\ hbk' = hbk \ {e}
        /\ downs' = [downs EXCEPT ![e] = @ + 1]
        /\ Tells(e, "lost")
        /\ UNCHANGED <<main, todo, pending, fetching, fetchDone, inbox, fetched, linked, routed, conn, infos, count,
                       available, disappeared, cycle, timer, crashed, announced>>
    BY DEF GoesDown, Outside, mainThread, device, tester
  <1>2. Types /\ Responded /\ \A d \in Devices : Known(d)
    BY DEF IndInv
  <1>3. "lost" \in ServiceMsgs
    BY DEF ServiceMsgs
  <1>4. /\ services' \in [Devices -> Seq(ServiceMsgs)]
        /\ \A d \in Devices \ {e} : services'[d] = services[d]
        /\ \A d \in Devices \ conn : services'[d] = <<>>
        /\ e \in conn => Lost(services'[e])
    BY <1>1, <1>2, <1>3, Told
  <1>5. downs'[e] = downs[e] + 1 /\ \A d \in Devices \ {e} : downs'[d] = downs[d]
    BY <1>1, <1>2 DEF Types, Counters
  <1>6. Types'
    <2>1. Sets'
      BY <1>1, <1>2 DEF Types, Sets
    <2>2. Counters'
      BY <1>1, <1>2 DEF Types, Counters
    <2> QED
      BY <1>1, <1>2, <1>4, <2>1, <2>2 DEF Types, Flags, Messages
  <1>7. Responded'
    BY <1>1, <1>2 DEF Responded
  <1>8. ASSUME NEW d \in Devices, d # e PROVE Known(d)'
    <2>1. Announced(d) /\ Withdrawn(d) /\ Appeared(d) /\ Connected(d)
      BY <1>2 DEF Known
    <2>2. WithdrawnBy(inbox', d, Possible(d), Noticed(d))
      BY <1>1, <2>1 DEF Withdrawn
    <2>3. (d \in up' <=> d \in up) /\ (d \in hbk' <=> d \in hbk)
      BY <1>1, <1>8
    <2>4. Announced(d)' /\ Withdrawn(d)' /\ Appeared(d)'
      BY <1>1, <1>5, <1>8, <2>1, <2>2, <2>3, RouterKept
    <2>5. Connected(d)'
      BY <1>1, <1>4, <1>5, <1>8, <2>1, <2>3, ConnectionKept
    <2> QED
      BY <2>4, <2>5 DEF Known
  <1>9. Known(e)'
    <2>1. Announced(e) /\ Withdrawn(e) /\ Appeared(e) /\ Connected(e)
      BY <1>2 DEF Known
    <2>2. downs[e] \in Nat /\ Possible(e) \in Int /\ Noticed(e) \in Int
      BY <1>2, Counted
    <2>3. Possible(e)' = Possible(e)
      BY <1>1 DEF Possible
    <2>4. Noticed(e)' \in Int /\ Noticed(e) <= Noticed(e)'
      BY <1>1, <1>5, <2>2 DEF Noticed
    <2>5. PICK low \in Int, high \in Int, higher \in Int :
              low = Possible(e) /\ high = Noticed(e) /\ higher = Noticed(e)'
      BY <2>2, <2>4
    <2>6. WithdrawnBy(inbox, e, low, higher)
      BY <2>1, <2>4, <2>5, WithdrawnWider DEF Withdrawn
    <2>7. Withdrawn(e)'
      BY <1>1, <2>3, <2>5, <2>6 DEF Withdrawn
    <2>8. Announced(e)'
      BY <1>5, <2>2 DEF Announced
    <2>9. Appeared(e)'
      <3>1. Possible(e)' <= Noticed(e)' + 1
        BY <2>1, <2>2, <2>3, <2>4 DEF Appeared
      <3> QED
        BY <1>1, <2>1, <3>1 DEF Appeared
    <2>10. Connected(e)'
      BY <1>1, <1>4, <1>5, <2>2 DEF Connected
    <2> QED
      BY <2>7, <2>8, <2>9, <2>10 DEF Known
  <1> QED
    BY <1>6, <1>7, <1>8, <1>9 DEF IndInv

\* A device comes up.
LEMMA UpStep ==
    ASSUME IndInv, NEW e \in Devices, ComesUp(e)
    PROVE  IndInv'
  <1>1. /\ up' = up \cup {e}
        /\ UNCHANGED <<main, todo, pending, fetching, fetchDone, inbox, fetched, linked, routed, conn, infos, count,
                       available, disappeared, cycle, timer, crashed, announced, services, hbk, downs>>
    BY DEF ComesUp, Outside, mainThread, device, tester
  <1>2. Types /\ Responded /\ \A d \in Devices : Known(d)
    BY DEF IndInv
  <1>3. Types'
    <2>1. Sets'
      BY <1>1, <1>2 DEF Types, Sets
    <2> QED
      BY <1>1, <1>2, <2>1 DEF Types, Flags, Counters, Messages
  <1>4. Responded'
    BY <1>1, <1>2 DEF Responded
  <1>5. ASSUME NEW d \in Devices PROVE Known(d)'
    <2>1. Announced(d) /\ Withdrawn(d) /\ Appeared(d) /\ Connected(d)
      BY <1>2 DEF Known
    <2>2. downs[d] \in Nat /\ Possible(d) \in Int /\ Noticed(d) \in Int
      BY <1>2, Counted
    <2>3. Possible(d)' = Possible(d)
      BY <1>1 DEF Possible
    <2>4. Noticed(d)' \in Int /\ Noticed(d) <= Noticed(d)'
      BY <1>1, <2>2 DEF Noticed
    <2>5. PICK low \in Int, high \in Int, higher \in Int :
              low = Possible(d) /\ high = Noticed(d) /\ higher = Noticed(d)'
      BY <2>2, <2>4
    <2>6. WithdrawnBy(inbox, d, low, higher)
      BY <2>1, <2>4, <2>5, WithdrawnWider DEF Withdrawn
    <2>7. Withdrawn(d)'
      BY <1>1, <2>3, <2>5, <2>6 DEF Withdrawn
    <2>8. Announced(d)'
      BY <1>1, <2>1 DEF Announced
    <2>9. Appeared(d)'
      <3>1. Possible(d)' <= Noticed(d)' + 1
        BY <2>1, <2>2, <2>3, <2>4 DEF Appeared
      <3> QED
        BY <1>1, <2>1, <3>1 DEF Appeared
    <2>10. Connected(d)'
      BY <1>1, <2>1, ConnectionKept
    <2> QED
      BY <2>7, <2>8, <2>9, <2>10 DEF Known
  <1> QED
    BY <1>3, <1>4, <1>5 DEF IndInv

\* The service of a device changes.
LEMMA ServiceStep ==
    ASSUME IndInv, NEW e \in Devices, ServiceChanges(e)
    PROVE  IndInv'
  <1>1. PICK x \in {"hbk", "nohbk"} :
            /\ \/ x = "hbk" /\ hbk' = hbk \cup {e}
               \/ x = "nohbk" /\ hbk' = hbk \ {e}
            /\ Tells(e, x)
    BY DEF ServiceChanges
  <1>2. /\ e \in up
        /\ UNCHANGED <<main, todo, pending, fetching, fetchDone, inbox, fetched, linked, routed, conn, infos, count,
                       available, disappeared, cycle, timer, crashed, up, announced, downs>>
    BY DEF ServiceChanges, Outside, mainThread, device, tester
  <1>3. Types /\ Responded /\ \A d \in Devices : Known(d)
    BY DEF IndInv
  <1>4. x \in ServiceMsgs
    BY DEF ServiceMsgs
  <1>5. /\ services' \in [Devices -> Seq(ServiceMsgs)]
        /\ \A d \in Devices \ {e} : services'[d] = services[d]
        /\ \A d \in Devices \ conn : services'[d] = <<>>
        /\ e \in conn => /\ LastIs(services'[e], x) /\ services'[e] # <<>>
                         /\ Lost(services'[e]) <=> Lost(services[e]) \/ x = "lost"
        /\ e \notin conn => ~Lost(services'[e])
    BY <1>1, <1>3, <1>4, Told
  <1>6. Types'
    <2>1. Sets'
      BY <1>1, <1>2, <1>3 DEF Types, Sets
    <2> QED
      BY <1>2, <1>3, <1>5, <2>1 DEF Types, Flags, Counters, Messages
  <1>7. Responded'
    BY <1>2, <1>3 DEF Responded
  <1>8. ASSUME NEW d \in Devices PROVE Known(d)'
    <2>1. Announced(d) /\ Withdrawn(d) /\ Appeared(d) /\ Connected(d)
      BY <1>3 DEF Known
    <2>2. WithdrawnBy(inbox', d, Possible(d), Noticed(d))
      BY <1>2, <2>1 DEF Withdrawn
    <2>3. Announced(d)' /\ Withdrawn(d)' /\ Appeared(d)'
      BY <1>2, <2>1, <2>2, RouterKept
    <2>4. CASE d # e
      <3>1. d \in hbk' <=> d \in hbk
        BY <1>1, <2>4
      <3>2. Connected(d)'
        BY <1>2, <1>5, <2>1, <2>4, <3>1, ConnectionKept
      <3> QED
        BY <2>3, <3>2 DEF Known
    <2>5. CASE d = e
      <3>1. x = IF e \in hbk' THEN "hbk" ELSE "nohbk"
        BY <1>1
      <3>2. x # "lost"
        BY <1>1
      <3>3. Lost(services'[e]) => downs'[e] > 0
        BY <1>2, <1>5, <2>1, <2>5, <3>2 DEF Connected
      <3>4. e \in conn => Served(e)'
        BY <1>5, <3>1 DEF Served
      <3>5. Connected(e)'
        BY <1>2, <2>1, <2>5, <3>3, <3>4 DEF Connected
      <3> QED
        BY <2>3, <2>5, <3>5 DEF Known
    <2> QED
      BY <2>4, <2>5
  <1> QED
    BY <1>6, <1>7, <1>8 DEF IndInv

\* The router announces device e, once more or for the first time.
LEMMA PresentStep ==
    ASSUME IndInv, NEW e \in Devices, NEW m \in Notices, Announces(m), e \in up,
           m.dev = e, m.event # "remove",
           \/ announced' = [announced EXCEPT ![e] = "port"] /\ m.port
           \/ announced' = [announced EXCEPT ![e] = "noport"] /\ announced[e] = "no"
           \/ announced' = announced,
           UNCHANGED <<main, todo, pending, fetching, fetchDone, fetched, linked, routed, conn, infos, count,
                       available, disappeared, cycle, timer, crashed, services, up, hbk, downs>>
    PROVE  IndInv'
  <1>1. Types /\ Responded /\ \A d \in Devices : Known(d)
    BY DEF IndInv
  <1>2. inbox \in Seq(Notices \cup Results) /\ m \in Notices \cup Results
    BY <1>1 DEF Types, Messages
  <1>3. m \notin Results
    BY DEF Results, ResultMsg, Notices
  <1>4. \A d \in Devices : ~Removes(m, d)
    BY DEF Removes
  <1>5. (inbox' = Append(inbox, m) /\ fetched = "yes") \/ (inbox' = inbox /\ fetched # "yes")
    BY DEF Announces
  <1>6. /\ inbox' \in Seq(Notices \cup Results)
        /\ OneResult(inbox')
        /\ NoResult(inbox) => NoResult(inbox')
    <2>1. Append(inbox, m) \in Seq(Notices \cup Results)
      BY <1>2, Appended
    <2>2. m \in (Notices \cup Results) \ Results
      BY <1>2, <1>3
    <2>3. OneResult(Append(inbox, m)) /\ (NoResult(inbox) => NoResult(Append(inbox, m)))
      BY <1>1, <1>2, <2>2, ResultMoves DEF Responded
    <2> QED
      BY <1>1, <1>2, <1>5, <2>1, <2>3 DEF Responded
  <1>7. /\ announced' \in [Devices -> {"no", "noport", "port"}]
        /\ \A d \in Devices \ {e} : announced'[d] = announced[d]
        /\ announced'[e] = "port" => announced[e] = "port" \/ m.port
    BY <1>1 DEF Types, Counters
  <1>8. Types'
    BY <1>1, <1>6, <1>7 DEF Types, Sets, Flags, Counters, Messages
  <1>9. Responded'
    BY <1>1, <1>5, <1>6, RespondedKept DEF Types
  <1>10. ASSUME NEW d \in Devices PROVE Known(d)'
    <2>1. Announced(d) /\ Withdrawn(d) /\ Appeared(d) /\ Connected(d)
      BY <1>1 DEF Known
    <2>2. Possible(d) \in Int /\ Noticed(d) \in Int
      BY <1>1, Counted
    <2>3. Possible(d)' = Possible(d) /\ Noticed(d)' = Noticed(d)
      BY <1>7 DEF Possible, Noticed
    <2>4. WithdrawnBy(inbox', d, Possible(d), Noticed(d))
      <3>1. WithdrawnBy(Append(inbox, m), d, Possible(d), Noticed(d))
        BY <1>2, <1>4, <2>1, <2>2, WithdrawnSent DEF Withdrawn
      <3> QED
        BY <1>5, <2>1, <3>1 DEF Withdrawn
    <2>5. Withdrawn(d)' /\ Appeared(d)'
      BY <2>1, <2>3, <2>4 DEF Withdrawn, Appeared
    <2>6. Announced(d)'
      <3>1. fetched = "yes" /\ (Coming(inbox, d) \/ Appears(m, d)) => Coming(inbox', d)
        <4>1. Coming(inbox, d) \/ Appears(m, d) => Coming(Append(inbox, m), d)
          BY <1>2, ComingMoves
        <4> QED
          BY <1>5, <4>1
      <3>2. CASE d # e
        <4>1. announced'[d] = announced[d]
          BY <1>7, <3>2
        <4> QED
          BY <2>1, <3>1, <4>1 DEF Announced
      <3>3. CASE d = e
        <4>1. announced'[e] = "port" => announced[e] = "port" \/ Appears(m, e)
          BY <1>7 DEF Appears
        <4> QED
          BY <2>1, <3>1, <3>3, <4>1 DEF Announced
      <3> QED
        BY <3>2, <3>3
    <2>7. Connected(d)'
      BY <2>1, ConnectionKept
    <2> QED
      BY <2>5, <2>6, <2>7 DEF Known
  <1> QED
    BY <1>8, <1>9, <1>10 DEF IndInv

\* The router withdraws device e, which is down.
LEMMA WithdrawStep ==
    ASSUME IndInv, NEW e \in Devices, NEW m \in Notices, Announces(m), e \notin up,
           m.dev = e, m.event = "remove", announced[e] # "no",
           announced' = [announced EXCEPT ![e] = "no"],
           UNCHANGED <<main, todo, pending, fetching, fetchDone, fetched, linked, routed, conn, infos, count,
                       available, disappeared, cycle, timer, crashed, services, up, hbk, downs>>
    PROVE  IndInv'
  <1>1. Types /\ Responded /\ \A d \in Devices : Known(d)
    BY DEF IndInv
  <1>2. inbox \in Seq(Notices \cup Results) /\ m \in Notices \cup Results
    BY <1>1 DEF Types, Messages
  <1>3. m \notin Results
    BY DEF Results, ResultMsg, Notices
  <1>4. \A d \in Devices \ {e} : ~Removes(m, d)
    BY DEF Removes
  <1>5. (inbox' = Append(inbox, m) /\ fetched = "yes") \/ (inbox' = inbox /\ fetched # "yes")
    BY DEF Announces
  <1>6. /\ inbox' \in Seq(Notices \cup Results)
        /\ OneResult(inbox')
        /\ NoResult(inbox) => NoResult(inbox')
    <2>1. Append(inbox, m) \in Seq(Notices \cup Results)
      BY <1>2, Appended
    <2>2. m \in (Notices \cup Results) \ Results
      BY <1>2, <1>3
    <2>3. OneResult(Append(inbox, m)) /\ (NoResult(inbox) => NoResult(Append(inbox, m)))
      BY <1>1, <1>2, <2>2, ResultMoves DEF Responded
    <2> QED
      BY <1>1, <1>2, <1>5, <2>1, <2>3 DEF Responded
  <1>7. /\ announced' \in [Devices -> {"no", "noport", "port"}]
        /\ \A d \in Devices \ {e} : announced'[d] = announced[d]
        /\ announced'[e] = "no"
    BY <1>1 DEF Types, Counters
  <1>8. Types'
    BY <1>1, <1>6, <1>7 DEF Types, Sets, Flags, Counters, Messages
  <1>9. Responded'
    BY <1>1, <1>5, <1>6, RespondedKept DEF Types
  <1>10. ASSUME NEW d \in Devices, d # e PROVE Known(d)'
    <2>1. Announced(d) /\ Withdrawn(d) /\ Appeared(d) /\ Connected(d)
      BY <1>1 DEF Known
    <2>2. Possible(d) \in Int /\ Noticed(d) \in Int
      BY <1>1, Counted
    <2>3. WithdrawnBy(inbox', d, Possible(d), Noticed(d))
      <3>1. WithdrawnBy(Append(inbox, m), d, Possible(d), Noticed(d))
        BY <1>2, <1>4, <1>10, <2>1, <2>2, WithdrawnSent DEF Withdrawn
      <3> QED
        BY <1>5, <2>1, <3>1 DEF Withdrawn
    <2>4. Coming(inbox, d) /\ fetched = "yes" => Coming(inbox', d)
      <3>1. Coming(inbox, d) => Coming(Append(inbox, m), d)
        BY <1>2, ComingMoves
      <3> QED
        BY <1>5, <3>1
    <2>5. Announced(d)' /\ Withdrawn(d)' /\ Appeared(d)'
      BY <1>7, <1>10, <2>1, <2>3, <2>4, RouterKept
    <2>6. Connected(d)'
      BY <2>1, ConnectionKept
    <2> QED
      BY <2>5, <2>6 DEF Known
  <1>11. Known(e)'
    <2>1. Announced(e) /\ Withdrawn(e) /\ Appeared(e) /\ Connected(e)
      BY <1>1 DEF Known
    <2>2. downs[e] \in Nat /\ Possible(e) \in Int /\ Noticed(e) \in Int
      BY <1>1, Counted
    <2>3. Possible(e)' = Possible(e) /\ Noticed(e) + 1 = downs[e] /\ Noticed(e)' = downs[e]
      BY <1>7, <2>2 DEF Possible, Noticed
    <2>4. Possible(e) <= Noticed(e) + 1 /\ 0 <= Noticed(e) + 1
      BY <2>1, <2>2, <2>3 DEF Appeared
    <2>5. WithdrawnBy(Append(inbox, m), e, Possible(e), Noticed(e) + 1)
      BY <1>2, <2>1, <2>2, <2>4, WithdrawnSent DEF Withdrawn
    <2>6. WithdrawnBy(inbox, e, Possible(e), Noticed(e) + 1)
      <3>1. PICK low \in Int, high \in Int, higher \in Int :
                low = Possible(e) /\ high = Noticed(e) /\ higher = Noticed(e) + 1
        BY <2>2
      <3>2. high <= higher
        BY <3>1
      <3> QED
        BY <2>1, <3>1, <3>2, WithdrawnWider DEF Withdrawn
    <2>7. Withdrawn(e)'
      BY <1>5, <2>3, <2>5, <2>6 DEF Withdrawn
    <2>8. Appeared(e)'
      <3>1. Possible(e) <= downs[e] + 1
        BY <2>2, <2>3, <2>4
      <3> QED
        BY <2>1, <2>3, <3>1 DEF Appeared
    <2>9. Announced(e)'
      BY <1>7 DEF Announced
    <2>10. Connected(e)'
      BY <2>1, ConnectionKept
    <2> QED
      BY <2>7, <2>8, <2>9, <2>10 DEF Known
  <1> QED
    BY <1>8, <1>9, <1>10, <1>11 DEF IndInv

LEMMA AnnouncementStep ==
    ASSUME IndInv, NEW e \in Devices, Announcement(e)
    PROVE  IndInv'
  <1>1. UNCHANGED <<main, todo, pending, fetching, fetchDone, fetched, linked, routed, conn, infos, count,
                    available, disappeared, cycle, timer, crashed, services, up, hbk, downs>>
    BY DEF Announcement, Outside, mainThread, device, tester
  <1>2. ASSUME NEW v \in {"add", "change", "remove"}, NEW p \in BOOLEAN
        PROVE  /\ Msg(v, e, p) \in Notices
               /\ Msg(v, e, p).dev = e /\ Msg(v, e, p).event = v /\ Msg(v, e, p).port = p
    BY DEF Msg, Notices
  <1>3. ASSUME e \in up, announced' = [announced EXCEPT ![e] = "port"],
               NEW v \in {"add", "change"}, Announces(Msg(v, e, TRUE))
        PROVE  IndInv'
    <2>1. PICK m : m = Msg(v, e, TRUE)
      OBVIOUS
    <2>2. m \in Notices /\ m.dev = e /\ m.event = v /\ m.port
      BY <1>2, <2>1
    <2> QED
      BY <1>1, <1>3, <2>1, <2>2, PresentStep
  <1>4. ASSUME e \in up, announced[e] = "no", announced' = [announced EXCEPT ![e] = "noport"],
               Announces(Msg("add", e, FALSE))
        PROVE  IndInv'
    <2>1. PICK m : m = Msg("add", e, FALSE)
      OBVIOUS
    <2>2. m \in Notices /\ m.dev = e /\ m.event = "add"
      BY <1>2, <2>1
    <2> QED
      BY <1>1, <1>4, <2>1, <2>2, PresentStep
  <1>5. ASSUME e \in up, announced' = announced, Announces(Msg("change", e, TRUE))
        PROVE  IndInv'
    <2>1. PICK m : m = Msg("change", e, TRUE)
      OBVIOUS
    <2>2. m \in Notices /\ m.dev = e /\ m.event = "change"
      BY <1>2, <2>1
    <2> QED
      BY <1>1, <1>5, <2>1, <2>2, PresentStep
  <1>6. ASSUME e \notin up, announced[e] # "no", announced' = [announced EXCEPT ![e] = "no"],
               Announces(Msg("remove", e, FALSE))
        PROVE  IndInv'
    <2>1. PICK m : m = Msg("remove", e, FALSE)
      OBVIOUS
    <2>2. m \in Notices /\ m.dev = e /\ m.event = "remove"
      BY <1>2, <2>1
    <2> QED
      BY <1>1, <1>6, <2>1, <2>2, WithdrawStep
  <1>7. \/ /\ e \in up /\ announced' = [announced EXCEPT ![e] = "port"]
           /\ \E v \in {"add", "change"} : Announces(Msg(v, e, TRUE))
        \/ /\ e \in up /\ announced[e] = "no" /\ announced' = [announced EXCEPT ![e] = "noport"]
           /\ Announces(Msg("add", e, FALSE))
        \/ e \in up /\ announced' = announced /\ Announces(Msg("change", e, TRUE))
        \/ /\ e \notin up /\ announced[e] # "no" /\ announced' = [announced EXCEPT ![e] = "no"]
           /\ Announces(Msg("remove", e, FALSE))
    BY DEF Announcement
  <1> QED
    BY <1>3, <1>4, <1>5, <1>6, <1>7

-----------------------------------------------------------------------------
(* The theorems *)

\* A step preserves the invariant.
LEMMA NextState == IndInv /\ [Next]_vars => IndInv'
  <1> SUFFICES ASSUME IndInv, [Next]_vars PROVE IndInv'
    OBVIOUS
  <1>1. CASE DeviceConstructed
    BY <1>1, ConstructedStep
  <1>2. CASE FirstReboot
    BY <1>2, RebootStep
  <1>3. CASE FirstRestarts
    BY <1>3, RestartsStep
  <1>4. CASE FetchRoutedCb
    BY <1>4, AppearsStep, VanishesStep, NothingStep DEF FetchRoutedCb
  <1>5. CASE FetchResponseCb
    BY <1>5, ResponseStep
  <1>6. CASE \E d \in Devices : FetchServicesCb(d)
    BY <1>6, ServicesStep
  <1>7. CASE TimerFires
    BY <1>7, TimerStep
  <1>8. CASE DeviceStops
    BY <1>8, StopsStep
  <1>9. CASE \E d \in Devices : GoesDown(d) \/ ComesUp(d) \/ ServiceChanges(d) \/ Announcement(d)
    BY <1>9, DownStep, UpStep, ServiceStep, AnnouncementStep
  <1>10. CASE FetchRegistered
    BY <1>10, RegisteredStep
  <1>11. CASE FetchSent
    BY <1>11, SentStep
  <1>12. CASE ErrorNotifierFires
    BY <1>12, NotifierStep
  <1>13. CASE DaemonFetches
    BY <1>13, DaemonStep
  <1>14. CASE UNCHANGED vars
    <2>1. UNCHANGED <<main, todo, pending, fetching, fetchDone, inbox, fetched, linked, routed, conn, infos, count,
                      available, disappeared, services, cycle, timer, crashed, up, hbk, announced, downs>>
      BY <1>14 DEF vars, mainThread, device, tester, world
    <2>2. Types' /\ Responded'
      BY <2>1 DEF IndInv, Types, Sets, Flags, Counters, Messages, Responded
    <2>3. \A d \in Devices : Known(d)'
      BY <2>1, KnownKept
    <2> QED
      BY <2>2, <2>3 DEF IndInv
  <1> QED
    BY <1>1, <1>2, <1>3, <1>4, <1>5, <1>6, <1>7, <1>8, <1>9, <1>10,
       <1>11, <1>12, <1>13, <1>14 DEF Next, MainThread, EventLoop

\* The invariant holds in every reachable state of the restart test.
THEOREM Invariance == Spec => []IndInv
  BY InitialState, NextState, PTL DEF Spec

\* The maps of Device keep their types: only a RoutedDevice that is kept is
\* connected or has messages to handle, and it has an appearance info.
THEOREM TypeCorrect == Spec => []TypeOK
  <1>1. IndInv => TypeOK
    BY TypesTyped DEF IndInv
  <1> QED
    BY <1>1, Invariance, PTL

\* When the constructor of Device has returned, main() may count the devices: it
\* knows all that were announced before the response, whatever the interleaving
\* with the event loop, unless the fetch was cancelled or the connection lost.
THEOREM FirstDevicesAreKnown == Spec => []FirstDevicesKnown
  <1>1. IndInv => FirstDevicesKnown
    <2> SUFFICES ASSUME IndInv, main = "count", fetching, linked, NEW d \in Devices,
                        announced[d] = "port", downs[d] = 0, d \notin routed
                 PROVE  \E k \in DOMAIN inbox :
                            /\ inbox[k].event # "result" /\ inbox[k].dev = d
                            /\ \A j \in k .. Len(inbox) : inbox[j].event # "result"
      BY DEF FirstDevicesKnown
    <2>1. /\ inbox \in Seq(Notices \cup Results) /\ NoResult(inbox) /\ Coming(inbox, d)
      BY DEF IndInv, Types, Messages, Responded, Known, Announced
    <2>2. PICK k \in 1 .. Len(inbox) : Appears(inbox[k], d)
      BY <2>1 DEF Coming
    <2>3. Len(inbox) \in Nat /\ DOMAIN inbox = 1 .. Len(inbox)
      BY <2>1, LenProperties
    <2>4. \A m \in Notices : m.event # "result"
      BY DEF Notices
    <2>5. ASSUME NEW j \in k .. Len(inbox) PROVE inbox[j].event # "result"
      <3>1. j \in 1 .. Len(inbox)
        BY <2>3
      <3>2. inbox[j] \in Notices
        BY <2>1, <3>1, ElementOfSeq DEF NoResult
      <3> QED
        BY <2>4, <3>2
    <2>6. inbox[k].event # "result" /\ inbox[k].dev = d
      BY <2>2, <2>4 DEF Appears
    <2> QED
      BY <2>3, <2>5, <2>6
  <1> QED
    BY <1>1, Invariance, PTL

\* A device is counted as having appeared at most once more than it went down,
\* although announcements, withdrawals and restarts cross each other.
THEOREM AppearancesAreStarts == Spec => []AppearancesCountStarts
  <1>1. IndInv => AppearancesCountStarts
    <2> SUFFICES ASSUME IndInv, NEW d \in Devices PROVE count[d] <= downs[d] + 1
      BY DEF AppearancesCountStarts
    <2>1. /\ count[d] \in Nat /\ downs[d] \in Nat /\ Possible(d) \in Nat /\ count[d] <= Possible(d)
          /\ Noticed(d) \in Int /\ Noticed(d) <= downs[d]
      BY Counted DEF IndInv
    <2>2. Possible(d) <= Noticed(d) + 1
      BY DEF IndInv, Known, Appeared
    <2> QED
      BY <2>1, <2>2
  <1> QED
    BY <1>1, Invariance, PTL

\* When all messages of a connected device are handled, hbkProtocolAvailable says
\* that the service runs when it does; it may be left over only from before a down.
THEOREM ServicesAreKnown == Spec => []AvailabilityKnown
  <1>1. IndInv => AvailabilityKnown
    <2> SUFFICES ASSUME IndInv, NEW d \in conn, services[d] = <<>>
                 PROVE  /\ d \in hbk => d \in available
                        /\ d \in available => d \in hbk \/ downs[d] > 0
      BY DEF AvailabilityKnown
    <2>1. d \in Devices
      BY DEF IndInv, Types, Sets
    <2>2. ~Lost(services[d])
      BY DEF Lost
    <2> QED
      BY <2>1, <2>2 DEF IndInv, Known, Connected, Served
  <1> QED
    BY <1>1, Invariance, PTL
=============================================================================
