--------------------------- MODULE MutexesProofs ---------------------------
(***************************************************************************)
(* Proofs about Mutexes, for any peers, threads and event loops, and any   *)
(* user's code that keeps to the order of the mutexes (KeepsOrder): nobody *)
(* waits in a circle.                                                      *)
(*                                                                         *)
(* The unlock steps in the program of an actor tell which mutexes it holds *)
(* at each step to come (Holds).  The invariant says what a step may be,   *)
(* given what is held there (Allowed), and that held agrees with it.  Then *)
(* an actor that holds a mutex of states, methods or fetches waits for     *)
(* nobody, so one that holds the table mutex does not either, so one that  *)
(* handles a message does not, and so a response is handled.               *)
(***************************************************************************)
EXTENDS Mutexes, FiniteSetTheorems, SequenceTheorems, TLAPS

-----------------------------------------------------------------------------
(* The inductive invariant *)

\* The mutexes of callbacks: of states, methods or fetches.
CallbackMutexes == Roles \X Peers

Items ==
    [do : {"lock", "unlock"}, m : AllMutexes]
    \cup [do : {"touch"}, m : CallbackMutexes]
    \cup [do : {"user"}, context : Contexts \ {"thread"}, peer : Peers]
    \cup [do : {"enter", "drop"}, m : {Table}, r : Requests]
    \cup [do : {"take"}, m : {Table}, r : Requests, failed : BOOLEAN]
    \cup [do : {"await", "promise"}, r : Requests]
    \cup [do : {"cancel"}]

\* Whoever works off s holds m when step k comes.
Holds(s, k, m) ==
    \E j \in k .. Len(s) :
        /\ s[j].do = "unlock" /\ s[j].m = m
        /\ \A i \in k .. j : ~(s[i].do = "lock" /\ s[i].m = m)

\* No mutex of callbacks is in H; no other mutex than those of receive() is.
NoCallback(H) == \A h \in H : h[1] \notin Roles
OnlyReceive(H) == \A h \in H : h[1] = "receive"

\* What the user's code may be called in.
UserAllowed(c, p, H) ==
    CASE c = "result" -> OnlyReceive(H)
      [] c = "cancel" -> NoCallback(H)
      [] c = "lost"   -> \A h \in H : h[1] \in Roles => h = <<"fetch", p>>
      [] OTHER        -> \A h \in H : h[1] \in Roles => h[2] = p /\ <<"receive", p>> \in H

\* A callback that holds a mutex takes one of the same peer, protected by its
\* receive mutex, or the one it holds.
TouchAllowed(m, H) ==
    \A h \in H : h[1] \in Roles => h = m \/ (h[2] = m[2] /\ <<"receive", m[2]>> \in H)

\* Actor a may do x when it holds H before and N afterwards.
Allowed(a, x, H, N) ==
    /\ x.do = "lock" => x.m \in N /\ OnlyReceive(H) /\ (x.m[1] = "receive" => H = {})
    /\ x.do = "unlock" => x.m \notin N
    /\ x.do = "touch" => TouchAllowed(x.m, H)
    /\ x.do = "user" => UserAllowed(x.context, x.peer, H)
    /\ x.do \in {"enter", "drop", "take"} => OnlyReceive(H)
    /\ x.do = "await" => H = {} /\ a \in Threads
    /\ x.do = "cancel" => NoCallback(H)

HeldAt(s, k) == {m \in AllMutexes : Holds(s, k, m)}

\* Actor a may work off s.
Fits(a, s) == \A k \in 1 .. Len(s) : Allowed(a, s[k], HeldAt(s, k), HeldAt(s, k + 1))

Types ==
    /\ prog \in [Actors -> Seq(Items)]
    /\ held \in [AllMutexes -> [by : Actors \cup {NoActor}, count : {0, 1}]]
    /\ open \subseteq Requests
    /\ done \subseteq 1 .. MaxOps
    /\ events \in 0 .. MaxEvents
    /\ ops \in 0 .. MaxOps

\* Who holds a mutex is going to unlock it.
Owned ==
    \A m \in AllMutexes :
        /\ held[m].count = IF held[m].by = NoActor THEN 0 ELSE 1
        /\ \A a \in Actors : held[m].by = a <=> Holds(prog[a], 1, m)

IndInv == Types /\ Owned /\ \A a \in Actors : Fits(a, prog[a])

-----------------------------------------------------------------------------
(* The steps of a program *)

Dos == {"lock", "unlock", "touch", "user", "enter", "drop", "take", "await", "promise",
        "cancel"}

\* The fields of a step.
LEMMA ItemFields ==
    ASSUME NEW x \in Items
    PROVE  /\ x.do \in Dos
           /\ x.do \in {"lock", "unlock"} => x.m \in AllMutexes
           /\ x.do = "touch" => x.m \in CallbackMutexes
           /\ x.do = "user" => x.context \in Contexts \ {"thread"} /\ x.peer \in Peers
           /\ x.do \in {"enter", "drop", "take"} => x.m = Table /\ x.r \in Requests
           /\ x.do \in {"await", "promise"} => x.r \in Requests
           /\ x.do = "take" => x.failed \in BOOLEAN
  <1>1. CASE x \in [do : {"lock", "unlock"}, m : AllMutexes]
    BY <1>1 DEF Dos
  <1>2. CASE x \in [do : {"touch"}, m : CallbackMutexes]
    BY <1>2 DEF Dos
  <1>3. CASE x \in [do : {"user"}, context : Contexts \ {"thread"}, peer : Peers]
    BY <1>3 DEF Dos
  <1>4. CASE x \in [do : {"enter", "drop"}, m : {Table}, r : Requests]
    BY <1>4 DEF Dos
  <1>5. CASE x \in [do : {"take"}, m : {Table}, r : Requests, failed : BOOLEAN]
    BY <1>5 DEF Dos
  <1>6. CASE x \in [do : {"await", "promise"}, r : Requests]
    BY <1>6 DEF Dos
  <1>7. CASE x \in [do : {"cancel"}]
    BY <1>7 DEF Dos
  <1> QED BY <1>1, <1>2, <1>3, <1>4, <1>5, <1>6, <1>7 DEF Items

\* The mutexes that are held when s begins.
Top(s) == HeldAt(s, 1)

\* A step x comes before the steps r.
LEMMA Before ==
    ASSUME NEW x \in Items, NEW r \in Seq(Items)
    PROVE  /\ <<x>> \o r \in Seq(Items)
           /\ Len(r) \in Nat
           /\ Len(<<x>> \o r) = Len(r) + 1
           /\ (<<x>> \o r)[1] = x
           /\ \A k \in 1 .. Len(r) : (<<x>> \o r)[k + 1] = r[k]
           /\ \A k \in 2 .. Len(r) + 1 : (<<x>> \o r)[k] = r[k - 1]
  <1>1. <<x>> \in Seq(Items) /\ Len(<<x>>) = 1 /\ <<x>>[1] = x
    OBVIOUS
  <1>2. /\ <<x>> \o r \in Seq(Items)
        /\ Len(r) \in Nat
        /\ Len(<<x>> \o r) = 1 + Len(r)
        /\ \A k \in 1 .. 1 : (<<x>> \o r)[k] = <<x>>[k]
        /\ \A k \in 1 .. Len(r) : (<<x>> \o r)[1 + k] = r[k]
    BY <1>1, ConcatProperties, LenProperties
  <1>3. ASSUME NEW k \in 2 .. Len(r) + 1
        PROVE  (<<x>> \o r)[k] = r[k - 1]
    <2>1. k - 1 \in 1 .. Len(r) /\ 1 + (k - 1) = k
      BY <1>2
    <2> QED BY <2>1, <1>2
  <1> QED BY <1>1, <1>2, <1>3

\* What is held when x comes, and what is held at the steps after it.
LEMMA HoldsBefore ==
    ASSUME NEW x \in Items, NEW r \in Seq(Items), NEW m
    PROVE  /\ Holds(<<x>> \o r, 1, m) <=>
                 \/ x.do = "unlock" /\ x.m = m
                 \/ ~(x.do = "lock" /\ x.m = m) /\ Holds(r, 1, m)
           /\ \A k \in 1 .. Len(r) + 1 : Holds(<<x>> \o r, k + 1, m) <=> Holds(r, k, m)
  <1> DEFINE s == <<x>> \o r
  <1>1. /\ Len(r) \in Nat
        /\ Len(s) = Len(r) + 1
        /\ s[1] = x
        /\ \A k \in 1 .. Len(r) : s[k + 1] = r[k]
        /\ \A k \in 2 .. Len(r) + 1 : s[k] = r[k - 1]
    BY Before
  <1> HIDE DEF s
  <1>2. ASSUME NEW k \in 1 .. Len(r) + 1
        PROVE  Holds(s, k + 1, m) <=> Holds(r, k, m)
    <2>1. ASSUME Holds(s, k + 1, m)
          PROVE  Holds(r, k, m)
      <3>1. PICK j \in k + 1 .. Len(s) :
                   /\ s[j].do = "unlock" /\ s[j].m = m
                   /\ \A i \in k + 1 .. j : ~(s[i].do = "lock" /\ s[i].m = m)
        BY <2>1 DEF Holds
      <3>2. j - 1 \in k .. Len(r) /\ j \in 2 .. Len(r) + 1
        BY <1>1, <3>1
      <3>3. r[j - 1] = s[j]
        BY <1>1, <3>2
      <3>4. ASSUME NEW i \in k .. j - 1
            PROVE  ~(r[i].do = "lock" /\ r[i].m = m)
        <4>1. i + 1 \in k + 1 .. j /\ i \in 1 .. Len(r)
          BY <1>1, <3>2
        <4> QED BY <4>1, <3>1, <1>1
      <3> QED BY <3>1, <3>2, <3>3, <3>4 DEF Holds
    <2>2. ASSUME Holds(r, k, m)
          PROVE  Holds(s, k + 1, m)
      <3>1. PICK j \in k .. Len(r) :
                   /\ r[j].do = "unlock" /\ r[j].m = m
                   /\ \A i \in k .. j : ~(r[i].do = "lock" /\ r[i].m = m)
        BY <2>2 DEF Holds
      <3>2. j + 1 \in k + 1 .. Len(s) /\ j \in 1 .. Len(r)
        BY <1>1, <3>1
      <3>3. s[j + 1] = r[j]
        BY <1>1, <3>2
      <3>4. ASSUME NEW i \in k + 1 .. j + 1
            PROVE  ~(s[i].do = "lock" /\ s[i].m = m)
        <4>1. i - 1 \in k .. j /\ i \in 2 .. Len(r) + 1
          BY <1>1, <3>2
        <4> QED BY <4>1, <3>1, <1>1
      <3> QED BY <3>1, <3>2, <3>3, <3>4 DEF Holds
    <2> QED BY <2>1, <2>2
  <1>3. Holds(s, 2, m) <=> Holds(r, 1, m)
    <2>1. 1 \in 1 .. Len(r) + 1 /\ 1 + 1 = 2
      BY <1>1
    <2> QED BY <2>1, <1>2
  <1>4. Holds(s, 1, m) <=>
            \/ x.do = "unlock" /\ x.m = m
            \/ ~(x.do = "lock" /\ x.m = m) /\ Holds(s, 2, m)
    <2>1. ASSUME Holds(s, 1, m), ~(x.do = "unlock" /\ x.m = m)
          PROVE  ~(x.do = "lock" /\ x.m = m) /\ Holds(s, 2, m)
      <3>1. PICK j \in 1 .. Len(s) :
                   /\ s[j].do = "unlock" /\ s[j].m = m
                   /\ \A i \in 1 .. j : ~(s[i].do = "lock" /\ s[i].m = m)
        BY <2>1 DEF Holds
      <3>2. j # 1 /\ 1 \in 1 .. j
        BY <2>1, <3>1, <1>1
      <3>3. j \in 2 .. Len(s) /\ \A i \in 2 .. j : i \in 1 .. j
        BY <3>2, <1>1
      <3> QED BY <3>1, <3>2, <3>3, <1>1 DEF Holds
    <2>2. ASSUME x.do = "unlock", x.m = m
          PROVE  Holds(s, 1, m)
      <3>1. 1 \in 1 .. Len(s) /\ \A i \in 1 .. 1 : s[i] = x
        BY <1>1
      <3> QED BY <2>2, <3>1, <1>1 DEF Holds
    <2>3. ASSUME ~(x.do = "lock" /\ x.m = m), Holds(s, 2, m)
          PROVE  Holds(s, 1, m)
      <3>1. PICK j \in 2 .. Len(s) :
                   /\ s[j].do = "unlock" /\ s[j].m = m
                   /\ \A i \in 2 .. j : ~(s[i].do = "lock" /\ s[i].m = m)
        BY <2>3 DEF Holds
      <3>2. j \in 1 .. Len(s) /\ \A i \in 1 .. j : i = 1 \/ i \in 2 .. j
        BY <1>1, <3>1
      <3> QED BY <2>3, <3>1, <3>2, <1>1 DEF Holds
    <2> QED BY <2>1, <2>2, <2>3
  <1>5. /\ Holds(s, 1, m) <=>
                 \/ x.do = "unlock" /\ x.m = m
                 \/ ~(x.do = "lock" /\ x.m = m) /\ Holds(r, 1, m)
        /\ \A k \in 1 .. Len(r) + 1 : Holds(s, k + 1, m) <=> Holds(r, k, m)
    BY <1>2, <1>3, <1>4
  <1> QED BY <1>5 DEF s

\* A step x comes before the steps r: what is held, and whether it fits.
LEMMA FitsBefore ==
    ASSUME NEW x \in Items, NEW r \in Seq(Items), NEW a
    PROVE  /\ <<x>> \o r \in Seq(Items)
           /\ x.do = "lock" => Top(<<x>> \o r) = Top(r) \ {x.m}
           /\ x.do = "unlock" => Top(<<x>> \o r) = Top(r) \cup {x.m}
           /\ x.do \notin {"lock", "unlock"} => Top(<<x>> \o r) = Top(r)
           /\ Fits(a, <<x>> \o r) <=> Allowed(a, x, Top(<<x>> \o r), Top(r)) /\ Fits(a, r)
  <1> DEFINE s == <<x>> \o r
  <1>1. /\ s \in Seq(Items)
        /\ Len(r) \in Nat
        /\ Len(s) = Len(r) + 1
        /\ s[1] = x
        /\ \A k \in 1 .. Len(r) : s[k + 1] = r[k]
        /\ \A k \in 2 .. Len(r) + 1 : s[k] = r[k - 1]
    BY Before
  <1>2. \A m : Holds(s, 1, m) <=>
                 \/ x.do = "unlock" /\ x.m = m
                 \/ ~(x.do = "lock" /\ x.m = m) /\ Holds(r, 1, m)
    BY HoldsBefore
  <1>3. \A m : \A k \in 1 .. Len(r) + 1 : Holds(s, k + 1, m) <=> Holds(r, k, m)
    BY HoldsBefore
  <1> HIDE DEF s
  <1>4. x.do \in {"lock", "unlock"} => x.m \in AllMutexes
    BY ItemFields
  <1>5. /\ x.do = "lock" => Top(s) = Top(r) \ {x.m}
        /\ x.do = "unlock" => Top(s) = Top(r) \cup {x.m}
        /\ x.do \notin {"lock", "unlock"} => Top(s) = Top(r)
    BY <1>2, <1>4 DEF Top, HeldAt
  <1>6. \A k \in 1 .. Len(r) + 1 : HeldAt(s, k + 1) = HeldAt(r, k)
    BY <1>3 DEF HeldAt
  <1>7. HeldAt(s, 2) = Top(r)
    <2>1. 1 \in 1 .. Len(r) + 1 /\ 1 + 1 = 2
      BY <1>1
    <2> QED BY <2>1, <1>6 DEF Top
  <1>8. ASSUME Fits(a, s)
        PROVE  Allowed(a, x, Top(s), Top(r)) /\ Fits(a, r)
    <2>1. Allowed(a, x, Top(s), Top(r))
      <3>1. 1 \in 1 .. Len(s) /\ 1 + 1 = 2
        BY <1>1
      <3> QED BY <3>1, <1>1, <1>7, <1>8 DEF Fits, Top
    <2>2. ASSUME NEW k \in 1 .. Len(r)
          PROVE  Allowed(a, r[k], HeldAt(r, k), HeldAt(r, k + 1))
      <3>1. k + 1 \in 1 .. Len(s) /\ k \in 1 .. Len(r) + 1 /\ k + 1 \in 1 .. Len(r) + 1
        BY <1>1
      <3>2. Allowed(a, s[k + 1], HeldAt(s, k + 1), HeldAt(s, (k + 1) + 1))
        BY <3>1, <1>8 DEF Fits
      <3> QED BY <3>1, <3>2, <1>1, <1>6
    <2> QED BY <2>1, <2>2 DEF Fits
  <1>9. ASSUME Allowed(a, x, Top(s), Top(r)), Fits(a, r)
        PROVE  Fits(a, s)
    <2>1. ASSUME NEW k \in 1 .. Len(s)
          PROVE  Allowed(a, s[k], HeldAt(s, k), HeldAt(s, k + 1))
      <3>1. CASE k = 1
        BY <3>1, <1>1, <1>7, <1>9 DEF Top
      <3>2. CASE k # 1
        <4>1. k - 1 \in 1 .. Len(r) /\ k \in 2 .. Len(r) + 1 /\ (k - 1) + 1 = k
              /\ k - 1 \in 1 .. Len(r) + 1 /\ k \in 1 .. Len(r) + 1
          BY <3>2, <1>1
        <4>2. Allowed(a, r[k - 1], HeldAt(r, k - 1), HeldAt(r, (k - 1) + 1))
          BY <4>1, <1>9 DEF Fits
        <4>3. HeldAt(s, (k - 1) + 1) = HeldAt(r, k - 1) /\ HeldAt(s, k + 1) = HeldAt(r, k)
          BY <4>1, <1>6
        <4> QED BY <4>1, <4>2, <4>3, <1>1
      <3> QED BY <3>1, <3>2
    <2> QED BY <2>1 DEF Fits
  <1>10. /\ s \in Seq(Items)
         /\ x.do = "lock" => Top(s) = Top(r) \ {x.m}
         /\ x.do = "unlock" => Top(s) = Top(r) \cup {x.m}
         /\ x.do \notin {"lock", "unlock"} => Top(s) = Top(r)
         /\ Fits(a, s) <=> Allowed(a, x, Top(s), Top(r)) /\ Fits(a, r)
    BY <1>1, <1>5, <1>8, <1>9
  <1> QED BY <1>10 DEF s

\* Nothing is left to do.
LEMMA FitsEmpty ==
    ASSUME NEW a
    PROVE  <<>> \in Seq(Items) /\ Fits(a, <<>>) /\ Top(<<>>) = {}
  BY DEF Fits, Top, HeldAt, Holds

\* The next step is taken out of a program.
LEMMA FitsAfter ==
    ASSUME NEW s \in Seq(Items), s # <<>>, NEW a, Fits(a, s)
    PROVE  /\ Head(s) \in Items
           /\ Tail(s) \in Seq(Items)
           /\ Fits(a, Tail(s))
           /\ Allowed(a, Head(s), Top(s), Top(Tail(s)))
           /\ Head(s).do = "lock" => Top(s) = Top(Tail(s)) \ {Head(s).m}
           /\ Head(s).do = "unlock" => Top(s) = Top(Tail(s)) \cup {Head(s).m}
           /\ Head(s).do \notin {"lock", "unlock"} => Top(s) = Top(Tail(s))
  <1>1. Head(s) \in Items /\ Tail(s) \in Seq(Items)
    BY HeadTailProperties
  <1>2. s = <<Head(s)>> \o Tail(s)
    BY HeadTailProperties
  <1> QED BY <1>1, <1>2, FitsBefore

-----------------------------------------------------------------------------
(* Programs that leave behind what they found *)

\* Whoever holds H may work off s, and then holds H again.
Runs(a, s, H) ==
    /\ s \in Seq(Items)
    /\ \A r \in Seq(Items) :
          Fits(a, r) /\ Top(r) = H => Fits(a, s \o r) /\ Top(s \o r) = H

LEMMA RunsNothing ==
    ASSUME NEW a, NEW H
    PROVE  Runs(a, <<>>, H)
  BY ConcatEmptySeq, FitsEmpty DEF Runs

\* A step that neither locks nor unlocks.
LEMMA RunsOne ==
    ASSUME NEW a, NEW H, NEW x \in Items, x.do \notin {"lock", "unlock"},
           Allowed(a, x, H, H)
    PROVE  Runs(a, <<x>>, H)
  <1>1. <<x>> \in Seq(Items)
    OBVIOUS
  <1> QED BY <1>1, FitsBefore DEF Runs

LEMMA RunsBoth ==
    ASSUME NEW a, NEW H, NEW s, NEW t, Runs(a, s, H), Runs(a, t, H)
    PROVE  Runs(a, s \o t, H)
  <1>1. s \in Seq(Items) /\ t \in Seq(Items) /\ s \o t \in Seq(Items)
    BY ConcatProperties DEF Runs
  <1>2. ASSUME NEW r \in Seq(Items), Fits(a, r), Top(r) = H
        PROVE  Fits(a, (s \o t) \o r) /\ Top((s \o t) \o r) = H
    <2>1. t \o r \in Seq(Items) /\ (s \o t) \o r = s \o (t \o r)
      BY <1>1, ConcatProperties, ConcatAssociative
    <2>2. Fits(a, t \o r) /\ Top(t \o r) = H
      BY <1>2 DEF Runs
    <2>3. Fits(a, s \o (t \o r)) /\ Top(s \o (t \o r)) = H
      <3>1. PICK u \in Seq(Items) : u = t \o r
        BY <2>1
      <3>2. Fits(a, s \o u) /\ Top(s \o u) = H
        BY <3>1, <2>2 DEF Runs
      <3> QED BY <3>1, <3>2
    <2> QED BY <2>1, <2>3
  <1> QED BY <1>1, <1>2 DEF Runs

\* A critical section.
LEMMA RunsGuarded ==
    ASSUME NEW a, NEW H, NEW m \in AllMutexes, m \notin H, OnlyReceive(H),
           m[1] = "receive" => H = {},
           NEW s, Runs(a, s, H \cup {m})
    PROVE  Runs(a, Guarded(m, s), H)
  <1> DEFINE x == [do |-> "lock", m |-> m]
             y == [do |-> "unlock", m |-> m]
  <1>1. x \in Items /\ y \in Items /\ x.do = "lock" /\ y.do = "unlock" /\ x.m = m /\ y.m = m
    BY DEF Items
  <1> HIDE DEF x, y
  <1>2. s \in Seq(Items) /\ <<x>> \in Seq(Items) /\ <<y>> \in Seq(Items)
    BY <1>1 DEF Runs
  <1>3. <<x>> \o s \in Seq(Items) /\ (<<x>> \o s) \o <<y>> \in Seq(Items)
    BY <1>2, ConcatProperties
  <1>4. ASSUME NEW r \in Seq(Items), Fits(a, r), Top(r) = H
        PROVE  /\ Fits(a, ((<<x>> \o s) \o <<y>>) \o r)
               /\ Top(((<<x>> \o s) \o <<y>>) \o r) = H
    <2>1. /\ <<y>> \o r \in Seq(Items)
          /\ Top(<<y>> \o r) = H \cup {m}
          /\ Fits(a, <<y>> \o r)
      <3>1. /\ <<y>> \o r \in Seq(Items)
            /\ Top(<<y>> \o r) = H \cup {m}
            /\ Fits(a, <<y>> \o r) <=> Allowed(a, y, Top(<<y>> \o r), H) /\ Fits(a, r)
        BY <1>1, <1>4, FitsBefore
      <3>2. Allowed(a, y, Top(<<y>> \o r), H)
        BY <1>1 DEF Allowed
      <3> QED BY <3>1, <3>2, <1>4
    <2>2. /\ s \o (<<y>> \o r) \in Seq(Items)
          /\ Fits(a, s \o (<<y>> \o r))
          /\ Top(s \o (<<y>> \o r)) = H \cup {m}
      BY <2>1, <1>2, ConcatProperties DEF Runs
    <2>3. /\ Top(<<x>> \o (s \o (<<y>> \o r))) = (H \cup {m}) \ {m}
          /\ Fits(a, <<x>> \o (s \o (<<y>> \o r))) <=>
                 /\ Allowed(a, x, Top(<<x>> \o (s \o (<<y>> \o r))), H \cup {m})
                 /\ Fits(a, s \o (<<y>> \o r))
      <3>1. PICK u \in Seq(Items) : u = s \o (<<y>> \o r)
        BY <2>2
      <3>2. /\ Top(<<x>> \o u) = Top(u) \ {m}
            /\ Fits(a, <<x>> \o u) <=> Allowed(a, x, Top(<<x>> \o u), Top(u)) /\ Fits(a, u)
        BY <1>1, FitsBefore
      <3> QED BY <3>1, <3>2, <2>2
    <2>4. (H \cup {m}) \ {m} = H
      OBVIOUS
    <2>5. Allowed(a, x, H, H \cup {m})
      BY <1>1 DEF Allowed
    <2>6. ((<<x>> \o s) \o <<y>>) \o r = <<x>> \o (s \o (<<y>> \o r))
      <3>1. ((<<x>> \o s) \o <<y>>) \o r = (<<x>> \o s) \o (<<y>> \o r)
        BY <1>2, <1>3, ConcatAssociative
      <3>2. (<<x>> \o s) \o (<<y>> \o r) = <<x>> \o (s \o (<<y>> \o r))
        BY <1>2, <2>1, ConcatAssociative
      <3> QED BY <3>1, <3>2
    <2> QED BY <2>2, <2>3, <2>4, <2>5, <2>6
  <1>5. Runs(a, (<<x>> \o s) \o <<y>>, H)
    BY <1>3, <1>4 DEF Runs
  <1> QED BY <1>5 DEF Guarded, x, y

-----------------------------------------------------------------------------
(* The functions of the library *)

\* The mutexes by name.
LEMMA MutexNames ==
    /\ Table \in AllMutexes /\ Table[1] = "table"
    /\ \A p \in Peers : <<"receive", p>> \in AllMutexes
    /\ CallbackMutexes \subseteq AllMutexes
    /\ \A role \in Roles, p \in Peers : <<role, p>> \in CallbackMutexes
    /\ \A m \in CallbackMutexes : m[1] \in Roles /\ m[2] \in Peers /\ Recursive(m)
    /\ \A m \in AllMutexes : m = Table \/ m \in CallbackMutexes \/ m[1] = "receive"
    /\ \A m \in AllMutexes : m[1] \in Roles => m \in CallbackMutexes
  BY DEF Table, AllMutexes, CallbackMutexes, Roles, Recursive

LEMMA RunsTouch ==
    ASSUME NEW a, NEW H, NEW role \in Roles, NEW p \in Peers, TouchAllowed(<<role, p>>, H)
    PROVE  Runs(a, Touch(role, p), H)
  <1> DEFINE x == [do |-> "touch", m |-> <<role, p>>]
  <1>1. x \in Items /\ x.do = "touch" /\ x.m = <<role, p>>
    BY MutexNames DEF Items
  <1> HIDE DEF x
  <1>2. Allowed(a, x, H, H)
    BY <1>1 DEF Allowed
  <1>3. Runs(a, <<x>>, H)
    BY <1>1, <1>2, RunsOne
  <1> QED BY <1>3 DEF Touch, x

LEMMA RunsUser ==
    ASSUME NEW a, NEW H, NEW c \in Contexts \ {"thread"}, NEW p \in Peers,
           UserAllowed(c, p, H)
    PROVE  Runs(a, User(c, p), H)
  <1> DEFINE x == [do |-> "user", context |-> c, peer |-> p]
  <1>1. x \in Items /\ x.do = "user" /\ x.context = c /\ x.peer = p
    BY DEF Items
  <1> HIDE DEF x
  <1>2. Allowed(a, x, H, H)
    BY <1>1 DEF Allowed
  <1>3. Runs(a, <<x>>, H)
    BY <1>1, <1>2, RunsOne
  <1> QED BY <1>3 DEF User, x

LEMMA RunsExecute ==
    ASSUME NEW a, NEW H, NEW r \in Requests, OnlyReceive(H)
    PROVE  Runs(a, Execute(r), H)
  <1> DEFINE x == [do |-> "enter", m |-> Table, r |-> r]
  <1>1. x \in Items /\ x.do = "enter"
    BY DEF Items
  <1> HIDE DEF x
  <1>2. Allowed(a, x, H, H)
    BY <1>1 DEF Allowed
  <1>3. Runs(a, <<x>>, H)
    BY <1>1, <1>2, RunsOne
  <1> QED BY <1>3 DEF Execute, x

\* A thread that holds nothing waits for a response.
LEMMA RunsExecuteSync ==
    ASSUME NEW a \in Threads, NEW r \in Requests
    PROVE  Runs(a, ExecuteSync(r), {})
  <1> DEFINE x == [do |-> "await", r |-> r]
             y == [do |-> "drop", m |-> Table, r |-> r]
  <1>1. x \in Items /\ x.do = "await" /\ y \in Items /\ y.do = "drop"
    BY DEF Items
  <1> HIDE DEF x, y
  <1>2. Allowed(a, x, {}, {}) /\ Allowed(a, y, {}, {})
    BY <1>1 DEF Allowed, OnlyReceive
  <1>3. Runs(a, <<x>>, {}) /\ Runs(a, <<y>>, {})
    BY <1>1, <1>2, RunsOne
  <1>4. Runs(a, <<x>> \o <<y>>, {})
    BY <1>3, RunsBoth
  <1>5. <<x>> \o <<y>> = <<x, y>>
    <2>1. <<x>> \in Seq(Items) /\ <<y>> \in Seq(Items) /\ <<x, y>> \in Seq(Items)
          /\ Len(<<x>>) = 1 /\ Len(<<y>>) = 1 /\ Len(<<x, y>>) = 2
      BY <1>1
    <2>2. /\ <<x>> \o <<y>> \in Seq(Items)
          /\ Len(<<x>> \o <<y>>) = 2
          /\ (<<x>> \o <<y>>)[1] = x /\ (<<x>> \o <<y>>)[2] = y
      BY <2>1, <1>1, Before
    <2>3. \A k \in 1 .. 2 : (<<x>> \o <<y>>)[k] = <<x, y>>[k]
      BY <2>2
    <2> QED BY <2>1, <2>2, <2>3, SeqEqual
  <1>6. Runs(a, Execute(r), {})
    BY RunsExecute DEF OnlyReceive
  <1>7. Runs(a, Execute(r) \o <<x, y>>, {})
    BY <1>4, <1>5, <1>6, RunsBoth
  <1> QED BY <1>7 DEF ExecuteSync, x, y

LEMMA RunsHandleResult ==
    ASSUME NEW a, NEW H, NEW r \in Requests, NEW failed \in BOOLEAN, OnlyReceive(H)
    PROVE  Runs(a, HandleResult(r, failed), H)
  <1> DEFINE x == [do |-> "take", m |-> Table, r |-> r, failed |-> failed]
  <1>1. x \in Items /\ x.do = "take"
    BY DEF Items
  <1> HIDE DEF x
  <1>2. Allowed(a, x, H, H)
    BY <1>1 DEF Allowed
  <1>3. Runs(a, <<x>>, H)
    BY <1>1, <1>2, RunsOne
  <1> QED BY <1>3 DEF HandleResult, x

\* Whoever holds mutexes of receive() only may cancel all requests.
LEMMA RunsClear ==
    ASSUME NEW a, NEW H, OnlyReceive(H)
    PROVE  Runs(a, Clear, H)
  <1> DEFINE x == [do |-> "cancel"]
  <1>1. x \in Items /\ x.do = "cancel"
    BY DEF Items
  <1> HIDE DEF x
  <1>2. NoCallback(H \cup {Table}) /\ Table \notin H /\ Table[1] # "receive"
    BY MutexNames DEF OnlyReceive, NoCallback, Roles
  <1>3. Allowed(a, x, H \cup {Table}, H \cup {Table})
    BY <1>1, <1>2 DEF Allowed
  <1>4. Runs(a, <<x>>, H \cup {Table})
    BY <1>1, <1>3, RunsOne
  <1>5. Runs(a, Guarded(Table, <<x>>), H)
    BY <1>2, <1>4, MutexNames, RunsGuarded
  <1> QED BY <1>5 DEF Clear, x

\* ... and may touch anything.
LEMMA RunsTouchFreely ==
    ASSUME NEW a, NEW H, NoCallback(H), NEW role \in Roles, NEW p \in Peers
    PROVE  Runs(a, Touch(role, p), H)
  <1>1. TouchAllowed(<<role, p>>, H)
    BY DEF TouchAllowed, NoCallback
  <1> QED BY <1>1, RunsTouch

\* Under the mutex of a role of peer p, its callback is called.
LEMMA RunsCallback ==
    ASSUME NEW a, NEW H, OnlyReceive(H), NEW role \in Roles, NEW p \in Peers,
           NEW c \in Contexts \ {"thread"},
           \/ c = role /\ <<"receive", p>> \in H
           \/ c = "lost" /\ role = "fetch"
    PROVE  Runs(a, Guarded(<<role, p>>, User(c, p)), H)
  <1>1. <<role, p>> \in AllMutexes /\ <<role, p>> \notin H /\ <<role, p>>[1] # "receive"
    BY MutexNames DEF OnlyReceive, Roles
  <1>2. \A h \in H : h[1] \notin Roles
    BY DEF OnlyReceive, Roles
  <1>3. UserAllowed(c, p, H \cup {<<role, p>>})
    <2>1. CASE c = "lost" /\ role = "fetch"
      BY <2>1, <1>2 DEF UserAllowed
    <2>2. CASE c = role /\ <<"receive", p>> \in H
      <3>1. c # "result" /\ c # "cancel" /\ c # "lost"
        BY <2>2 DEF Roles
      <3>2. \A h \in H \cup {<<role, p>>} :
               h[1] \in Roles => h[2] = p /\ <<"receive", p>> \in H \cup {<<role, p>>}
        BY <2>2, <1>2
      <3> QED BY <3>1, <3>2 DEF UserAllowed
    <2> QED BY <2>1, <2>2
  <1>4. Runs(a, User(c, p), H \cup {<<role, p>>})
    BY <1>3, RunsUser
  <1> QED BY <1>1, <1>4, RunsGuarded

LEMMA RunsStop ==
    ASSUME NEW a, NEW H, OnlyReceive(H), NEW p \in Peers
    PROVE  Runs(a, Stop(p), H)
  <1>1. NoCallback(H)
    BY DEF OnlyReceive, NoCallback, Roles
  <1>2. "fetch" \in Roles /\ "state" \in Roles /\ "method" \in Roles
        /\ "lost" \in Contexts \ {"thread"}
    BY DEF Roles, Contexts
  <1>3. Runs(a, Guarded(<<"fetch", p>>, User("lost", p)), H)
    BY <1>2, RunsCallback
  <1>4. Runs(a, Touch("state", p), H) /\ Runs(a, Touch("method", p), H)
    BY <1>1, <1>2, RunsTouchFreely
  <1>5. Runs(a, Guarded(<<"fetch", p>>, User("lost", p)) \o Touch("state", p), H)
    BY <1>3, <1>4, RunsBoth
  <1>6. Runs(a, (Guarded(<<"fetch", p>>, User("lost", p)) \o Touch("state", p))
                \o Touch("method", p), H)
    BY <1>4, <1>5, RunsBoth
  <1>7. Runs(a, Clear, H)
    BY RunsClear
  <1>8. Runs(a, ((Guarded(<<"fetch", p>>, User("lost", p)) \o Touch("state", p))
                 \o Touch("method", p)) \o Clear, H)
    BY <1>6, <1>7, RunsBoth
  <1> QED BY <1>8 DEF Stop

\* A result callback, called by handleResult() or by clear().
LEMMA RunsResultCallback ==
    ASSUME NEW a, NEW H, NEW r \in Requests, NEW failed \in BOOLEAN,
           NEW c \in {"result", "cancel"},
           c = "result" => OnlyReceive(H), c = "cancel" => NoCallback(H)
    PROVE  Runs(a, ResultCallback(r, c, failed), H)
  <1>1. NoCallback(H) /\ UserAllowed(c, r.peer, H)
    BY DEF OnlyReceive, NoCallback, Roles, UserAllowed
  <1>2. r.peer \in Peers /\ c \in Contexts \ {"thread"}
    BY DEF Requests, Contexts
  <1>3. CASE r.kind = "sync"
    <2> DEFINE x == [do |-> "promise", r |-> r]
    <2>1. x \in Items /\ x.do = "promise"
      BY DEF Items
    <2> HIDE DEF x
    <2>2. Allowed(a, x, H, H)
      BY <2>1 DEF Allowed
    <2>3. Runs(a, <<x>>, H)
      BY <2>1, <2>2, RunsOne
    <2> QED BY <1>3, <2>3 DEF ResultCallback, x
  <1>4. CASE r.kind # "sync"
    <2>1. Runs(a, User(c, r.peer), H)
      BY <1>1, <1>2, RunsUser
    <2>2. Runs(a, IF failed /\ r.kind \in Roles THEN Touch(r.kind, r.peer) ELSE <<>>, H)
      BY <1>1, <1>2, RunsTouchFreely, RunsNothing
    <2>3. Runs(a, (IF failed /\ r.kind \in Roles THEN Touch(r.kind, r.peer) ELSE <<>>)
                  \o User(c, r.peer), H)
      BY <2>1, <2>2, RunsBoth
    <2> QED BY <1>4, <2>3 DEF ResultCallback
  <1> QED BY <1>3, <1>4

\* What handleMessage() does, with the receive mutex of the peer.
LEMMA RunsMessage ==
    ASSUME NEW a, NEW p \in Peers
    PROVE  /\ Runs(a, Receive(p, Notification(p)), {})
           /\ \A role \in {"state", "method"} : Runs(a, Receive(p, Request(role, p)), {})
           /\ Runs(a, Receive(p, Stop(p)), {})
           /\ \A r \in Requests, failed \in BOOLEAN :
                 /\ Runs(a, Receive(p, HandleResult(r, failed)), {})
                 /\ Runs(a, HandleResult(r, failed), {})
  <1> DEFINE R == {} \cup {<<"receive", p>>}
  <1>1. OnlyReceive(R) /\ NoCallback(R) /\ <<"receive", p>> \in R
    BY DEF OnlyReceive, NoCallback, Roles
  <1>2. ASSUME NEW s, Runs(a, s, R)
        PROVE  Runs(a, Receive(p, s), {})
    <2>1. <<"receive", p>> \in AllMutexes /\ OnlyReceive({})
      BY MutexNames DEF OnlyReceive
    <2>2. Runs(a, Guarded(<<"receive", p>>, s), {})
      BY <1>2, <2>1, RunsGuarded
    <2> QED BY <2>2 DEF Receive
  <1> HIDE DEF R
  <1>3. \A c \in Roles : c \in Contexts \ {"thread"}
    BY DEF Roles, Contexts
  <1>4. \A c \in Roles : Runs(a, Guarded(<<c, p>>, User(c, p)), R)
    BY <1>1, <1>3, RunsCallback
  <1>5. Runs(a, Notification(p), R)
    BY <1>4 DEF Notification, Roles
  <1>6. Runs(a, Request("state", p), R)
    BY <1>4 DEF Request, Roles
  <1>7. Runs(a, Request("method", p), R)
    <2>1. Runs(a, Touch("state", p), R)
      BY <1>1, RunsTouchFreely DEF Roles
    <2>2. Runs(a, Guarded(<<"method", p>>, User("method", p)), R)
      BY <1>4 DEF Roles
    <2>3. Runs(a, Touch("state", p) \o Guarded(<<"method", p>>, User("method", p)), R)
      BY <2>1, <2>2, RunsBoth
    <2> QED BY <2>3 DEF Request
  <1>8. Runs(a, Stop(p), R)
    BY <1>1, RunsStop
  <1>9. ASSUME NEW r \in Requests, NEW failed \in BOOLEAN
        PROVE  /\ Runs(a, Receive(p, HandleResult(r, failed)), {})
               /\ Runs(a, HandleResult(r, failed), {})
    <2>1. OnlyReceive({})
      BY DEF OnlyReceive
    <2> QED BY <1>1, <1>2, <2>1, RunsHandleResult
  <1> QED BY <1>2, <1>5, <1>6, <1>7, <1>8, <1>9

\* What the user's code calls in context c, of peer p, over peer r.peer: every
\* function may be called there, as the code keeps to the order of the mutexes.
LEMMA RunsOperation ==
    ASSUME KeepsOrder, NEW a, NEW H, NEW c \in Contexts, NEW p,
           c = "thread" => H = {} /\ a \in Threads,
           c # "thread" => UserAllowed(c, p, H),
           NEW o \in MayDo[c], NEW r \in Requests, o.own => r.peer = p
    PROVE  Runs(a, Operation(o, r), H)
  <1>1. /\ o.do \in Roles \cup {"plain", "sync", "start", "stop"}
        /\ o.reply \in BOOLEAN /\ o.own \in BOOLEAN
        /\ r.peer \in Peers
    BY MutexesAssumption DEF Operations, Requests
  <1>2. c \notin {"thread", "result"} => ~o.reply /\ o.do \notin {"sync", "stop"}
    BY DEF KeepsOrder, Contexts
  <1>3. c \in {"thread", "result"} => OnlyReceive(H)
    BY DEF UserAllowed, OnlyReceive
  <1>4. OnlyReceive(H) => NoCallback(H)
    BY DEF OnlyReceive, NoCallback, Roles
  <1>5. ASSUME NEW role \in Roles, c = "lost" => role = "fetch"
        PROVE  Runs(a, Touch(role, r.peer), H)
    <2>1. CASE c \in {"thread", "result", "cancel"}
      <3>1. NoCallback(H)
        BY <2>1, <1>3, <1>4 DEF UserAllowed
      <3> QED BY <3>1, <1>1, RunsTouchFreely
    <2>2. CASE c = "lost"
      <3>1. r.peer = p /\ role = "fetch"
        BY <2>2, <1>5 DEF KeepsOrder
      <3>2. \A h \in H : h[1] \in Roles => h = <<"fetch", p>>
        BY <2>2 DEF UserAllowed
      <3>3. TouchAllowed(<<role, r.peer>>, H)
        BY <3>1, <3>2 DEF TouchAllowed
      <3> QED BY <3>3, <1>1, RunsTouch
    <2>3. CASE c \in {"state", "method", "fetch"}
      <3>1. r.peer = p
        BY <2>3 DEF KeepsOrder
      <3>2. \A h \in H : h[1] \in Roles => h[2] = p /\ <<"receive", p>> \in H
        BY <2>3 DEF UserAllowed
      <3>3. TouchAllowed(<<role, r.peer>>, H)
        BY <3>1, <3>2 DEF TouchAllowed
      <3> QED BY <3>3, <1>1, RunsTouch
    <2> QED BY <2>1, <2>2, <2>3 DEF Contexts
  <1>6. CASE o.do = "sync"
    <2>1. c = "thread"
      BY <1>2, <1>6 DEF KeepsOrder
    <2>2. Runs(a, ExecuteSync(r), {})
      BY <2>1, RunsExecuteSync
    <2> QED BY <1>6, <2>1, <2>2 DEF Operation
  <1>7. CASE o.do = "stop"
    <2>1. OnlyReceive(H)
      BY <1>2, <1>3, <1>7
    <2>2. Runs(a, Stop(r.peer), H)
      BY <2>1, <1>1, RunsStop
    <2> QED BY <1>7, <2>2 DEF Operation
  <1>8. CASE o.do = "start"
    <2>1. Runs(a, Touch("fetch", r.peer), H)
      BY <1>5 DEF Roles
    <2> QED BY <1>8, <2>1 DEF Operation, Start
  <1>9. CASE o.do \notin {"sync", "stop", "start"}
    <2>1. Runs(a, IF o.do \in Roles THEN Touch(o.do, r.peer) ELSE <<>>, H)
      <3>1. CASE o.do \in Roles
        <4>1. c = "lost" => o.do = "fetch"
          BY <3>1 DEF KeepsOrder, Roles
        <4> QED BY <3>1, <4>1, <1>5
      <3>2. CASE o.do \notin Roles
        BY <3>2, RunsNothing
      <3> QED BY <3>1, <3>2
    <2>2. Runs(a, IF o.reply THEN Execute(r) ELSE <<>>, H)
      <3>1. CASE o.reply
        BY <3>1, <1>2, <1>3, RunsExecute
      <3>2. CASE ~o.reply
        BY <3>2, RunsNothing
      <3> QED BY <3>1, <3>2
    <2>3. Runs(a, (IF o.do \in Roles THEN Touch(o.do, r.peer) ELSE <<>>)
                  \o (IF o.reply THEN Execute(r) ELSE <<>>), H)
      BY <2>1, <2>2, RunsBoth
    <2> QED BY <1>9, <2>3 DEF Operation
  <1> QED BY <1>6, <1>7, <1>8, <1>9

-----------------------------------------------------------------------------
(* The steps preserve the invariant *)

\* What Owned says of the mutexes an actor holds.
LEMMA Owning ==
    ASSUME IndInv, NEW a \in Actors, NEW m \in AllMutexes
    PROVE  /\ held[m].by = a <=> m \in Top(prog[a])
           /\ held[m].by \in Actors \cup {NoActor}
           /\ held[m].count = IF held[m].by = NoActor THEN 0 ELSE 1
           /\ a # NoActor
  BY MutexesAssumption DEF IndInv, Types, Owned, Top, HeldAt

\* What the invariant says of the step an actor is at.
LEMMA NextItem ==
    ASSUME IndInv, NEW a \in Actors, prog[a] # <<>>
    PROVE  /\ Item(a) \in Items
           /\ Tail(prog[a]) \in Seq(Items)
           /\ Fits(a, Tail(prog[a]))
           /\ Allowed(a, Item(a), Top(prog[a]), Top(Tail(prog[a])))
           /\ Item(a).do = "lock" => Top(prog[a]) = Top(Tail(prog[a])) \ {Item(a).m}
           /\ Item(a).do = "unlock" => Top(prog[a]) = Top(Tail(prog[a])) \cup {Item(a).m}
           /\ Item(a).do \notin {"lock", "unlock"} => Top(prog[a]) = Top(Tail(prog[a]))
  <1>1. prog[a] \in Seq(Items) /\ Fits(a, prog[a])
    BY DEF IndInv, Types
  <1> QED BY <1>1, FitsAfter DEF Item

\* Who may work off what, and who holds what.
Orderly(p, h) ==
    /\ p \in [Actors -> Seq(Items)]
    /\ \A m \in AllMutexes :
          /\ h[m].count = IF h[m].by = NoActor THEN 0 ELSE 1
          /\ \A a \in Actors : h[m].by = a <=> m \in Top(p[a])
    /\ \A a \in Actors : Fits(a, p[a])

LEMMA IndInvSplit ==
    IndInv <=>
        /\ Orderly(prog, held)
        /\ held \in [AllMutexes -> [by : Actors \cup {NoActor}, count : {0, 1}]]
        /\ open \subseteq Requests
        /\ done \subseteq 1 .. MaxOps
        /\ events \in 0 .. MaxEvents
        /\ ops \in 0 .. MaxOps
  BY DEF IndInv, Types, Owned, Orderly, Top, HeldAt

\* A step that neither locks nor unlocks leaves its actor with the mutexes it holds.
LEMMA Quiet ==
    ASSUME IndInv, NEW a \in Actors, NEW s \in Seq(Items), Fits(a, s),
           Top(s) = Top(prog[a]), Goes(a, s)
    PROVE  Orderly(prog', held)
  <1>1. Orderly(prog, held)
    BY IndInvSplit
  <1>2. prog' \in [Actors -> Seq(Items)] /\ prog'[a] = s
        /\ \A b \in Actors \ {a} : prog'[b] = prog[b]
    BY <1>1 DEF Goes, Orderly
  <1>3. \A b \in Actors : Fits(b, prog'[b]) /\ Top(prog'[b]) = Top(prog[b])
    BY <1>1, <1>2 DEF Orderly
  <1> QED BY <1>1, <1>2, <1>3 DEF Orderly

\* ... as when it goes on with the rest,
LEMMA QuietContinues ==
    ASSUME IndInv, NEW a \in Actors, prog[a] # <<>>, Item(a).do \notin {"lock", "unlock"},
           Continues(a)
    PROVE  Orderly(prog', held)
  BY NextItem, Quiet DEF Continues

\* ... or works off something before what it had to do,
LEMMA QuietRuns ==
    ASSUME IndInv, NEW a \in Actors, NEW s \in Seq(Items), Fits(a, s),
           Top(s) = Top(prog[a]), NEW f, Runs(a, f, Top(prog[a])), Goes(a, f \o s)
    PROVE  Orderly(prog', held)
  <1>1. f \o s \in Seq(Items) /\ Fits(a, f \o s) /\ Top(f \o s) = Top(prog[a])
    BY ConcatProperties DEF Runs
  <1> QED BY <1>1, Quiet

\* ... or begins something.
LEMMA QuietBegins ==
    ASSUME IndInv, NEW a \in Actors, prog[a] = <<>>, NEW f, Runs(a, f, {}), Goes(a, f)
    PROVE  Orderly(prog', held)
  <1>1. <<>> \in Seq(Items) /\ Fits(a, <<>>) /\ Top(<<>>) = {}
    BY FitsEmpty
  <1>2. f \o <<>> = f
    BY ConcatEmptySeq DEF Runs
  <1> QED BY <1>1, <1>2, QuietRuns

LEMMA LockKeeps ==
    ASSUME IndInv, NEW a \in Actors, LockStep(a)
    PROVE  IndInv'
  <1> DEFINE m == Item(a).m
  <1>0. /\ prog[a] # <<>> /\ Item(a).do = "lock" /\ MayLock(a, m)
        /\ held' = [held EXCEPT ![m] = [by |-> a, count |-> @.count + 1]]
        /\ Goes(a, Tail(prog[a]))
        /\ open' = open /\ done' = done /\ events' = events /\ ops' = ops
    BY DEF LockStep, MayEnter, At, Continues
  <1>1. m \in AllMutexes
    BY <1>0, NextItem, ItemFields
  <1>2. /\ Tail(prog[a]) \in Seq(Items) /\ Fits(a, Tail(prog[a]))
        /\ Top(prog[a]) = Top(Tail(prog[a])) \ {m}
        /\ m \in Top(Tail(prog[a]))
    BY <1>0, NextItem DEF Allowed
  <1> HIDE DEF m
  <1>3. held[m].by = NoActor /\ held[m].count = 0
    BY <1>0, <1>1, <1>2, Owning DEF MayLock
  <1>4. Orderly(prog, held) /\ held \in [AllMutexes -> [by : Actors \cup {NoActor}, count : {0, 1}]]
    BY IndInvSplit
  <1>5. prog' \in [Actors -> Seq(Items)] /\ prog'[a] = Tail(prog[a])
        /\ \A b \in Actors \ {a} : prog'[b] = prog[b]
    BY <1>0, <1>2, <1>4 DEF Goes, Orderly
  <1>6. /\ held' \in [AllMutexes -> [by : Actors \cup {NoActor}, count : {0, 1}]]
        /\ held'[m].by = a /\ held'[m].count = 1
        /\ \A n \in AllMutexes \ {m} : held'[n] = held[n]
    <2>1. held' = [held EXCEPT ![m] = [by |-> a, count |-> 1]]
      BY <1>0, <1>1, <1>3, <1>4
    <2> QED BY <2>1, <1>1, <1>4
  <1>7. a # NoActor
    BY MutexesAssumption
  <1>8. ASSUME NEW n \in AllMutexes, NEW b \in Actors
        PROVE  held'[n].by = b <=> n \in Top(prog'[b])
    <2>1. held[n].by = b <=> n \in Top(prog[b])
      BY <1>4 DEF Orderly
    <2>2. n \in Top(prog'[b]) <=> n \in Top(prog[b]) \/ (b = a /\ n = m)
      BY <1>2, <1>5
    <2>3. NoActor # b
      BY MutexesAssumption
    <2> QED BY <2>1, <2>2, <2>3, <1>3, <1>6
  <1>9. Orderly(prog', held')
    <2>1. \A n \in AllMutexes : held'[n].count = IF held'[n].by = NoActor THEN 0 ELSE 1
      BY <1>4, <1>6, <1>7 DEF Orderly
    <2>2. \A b \in Actors : Fits(b, prog'[b])
      BY <1>2, <1>4, <1>5 DEF Orderly
    <2> QED BY <1>5, <1>8, <2>1, <2>2 DEF Orderly
  <1> QED BY <1>0, <1>6, <1>9 DEF IndInv, Types, Owned, Orderly, Top, HeldAt

LEMMA UnlockKeeps ==
    ASSUME IndInv, NEW a \in Actors, UnlockStep(a)
    PROVE  IndInv'
  <1> DEFINE m == Item(a).m
  <1>0. /\ prog[a] # <<>> /\ Item(a).do = "unlock"
        /\ held' = [held EXCEPT ![m] =
                       [by |-> IF @.count = 1 THEN NoActor ELSE a, count |-> @.count - 1]]
        /\ Goes(a, Tail(prog[a]))
        /\ open' = open /\ done' = done /\ events' = events /\ ops' = ops
    BY DEF UnlockStep, At, Continues
  <1>1. m \in AllMutexes
    BY <1>0, NextItem, ItemFields
  <1>2. /\ Tail(prog[a]) \in Seq(Items) /\ Fits(a, Tail(prog[a]))
        /\ Top(prog[a]) = Top(Tail(prog[a])) \cup {m}
        /\ m \notin Top(Tail(prog[a]))
    BY <1>0, NextItem DEF Allowed
  <1> HIDE DEF m
  <1>3. held[m].by = a /\ held[m].count = 1
    BY <1>1, <1>2, Owning
  <1>4. Orderly(prog, held) /\ held \in [AllMutexes -> [by : Actors \cup {NoActor}, count : {0, 1}]]
    BY IndInvSplit
  <1>5. prog' \in [Actors -> Seq(Items)] /\ prog'[a] = Tail(prog[a])
        /\ \A b \in Actors \ {a} : prog'[b] = prog[b]
    BY <1>0, <1>2, <1>4 DEF Goes, Orderly
  <1>6. /\ held' \in [AllMutexes -> [by : Actors \cup {NoActor}, count : {0, 1}]]
        /\ held'[m].by = NoActor /\ held'[m].count = 0
        /\ \A n \in AllMutexes \ {m} : held'[n] = held[n]
    <2>1. held' = [held EXCEPT ![m] = [by |-> NoActor, count |-> 0]]
      BY <1>0, <1>1, <1>3, <1>4
    <2> QED BY <2>1, <1>1, <1>4
  <1>8. ASSUME NEW n \in AllMutexes, NEW b \in Actors
        PROVE  held'[n].by = b <=> n \in Top(prog'[b])
    <2>1. held[n].by = b <=> n \in Top(prog[b])
      BY <1>4 DEF Orderly
    <2>2. n \in Top(prog'[b]) <=> n \in Top(prog[b]) /\ ~(b = a /\ n = m)
      BY <1>2, <1>5
    <2>3. NoActor # b
      BY MutexesAssumption
    <2> QED BY <2>1, <2>2, <2>3, <1>3, <1>6
  <1>9. Orderly(prog', held')
    <2>1. \A n \in AllMutexes : held'[n].count = IF held'[n].by = NoActor THEN 0 ELSE 1
      BY <1>4, <1>6 DEF Orderly
    <2>2. \A b \in Actors : Fits(b, prog'[b])
      BY <1>2, <1>4, <1>5 DEF Orderly
    <2> QED BY <1>5, <1>8, <2>1, <2>2 DEF Orderly
  <1> QED BY <1>0, <1>6, <1>9 DEF IndInv, Types, Owned, Orderly, Top, HeldAt

\* The other steps leave held alone.
LEMMA QuietKeeps ==
    ASSUME IndInv, Orderly(prog', held), held' = held, open' \subseteq Requests,
           done' \subseteq 1 .. MaxOps, events' \in 0 .. MaxEvents, ops' \in 0 .. MaxOps
    PROVE  IndInv'
  BY DEF IndInv, Types, Owned, Orderly, Top, HeldAt

\* The user's code calls a function.
LEMMA CallsKeep ==
    ASSUME KeepsOrder, IndInv, NEW a \in Actors, NEW s \in Seq(Items), Fits(a, s),
           Top(s) = Top(prog[a]), NEW c \in Contexts, NEW p,
           c = "thread" => Top(prog[a]) = {} /\ a \in Threads,
           c # "thread" => p \in Peers /\ UserAllowed(c, p, Top(prog[a])),
           Calls(a, c, p, s)
    PROVE  Orderly(prog', held) /\ ops' \in 0 .. MaxOps
  <1>1. ops \in 0 .. MaxOps /\ ops < MaxOps /\ ops' = ops + 1
    BY DEF Calls, IndInv, Types
  <1>2. ops' \in 0 .. MaxOps /\ ops + 1 \in 1 .. MaxOps
    BY <1>1, MutexesAssumption
  <1>3. PICK o \in MayDo[c], q \in Peers \cup {p} :
            /\ q \in IF o.own THEN {p} ELSE Peers
            /\ Goes(a, Operation(o, [n |-> ops + 1, peer |-> q,
                                     kind |-> IF o.do \in {"start", "stop"} THEN "plain"
                                              ELSE o.do]) \o s)
    BY DEF Calls
  <1>4. PICK k : k = IF o.do \in {"start", "stop"} THEN "plain" ELSE o.do
    OBVIOUS
  <1>5. o.do \in Roles \cup {"plain", "sync", "start", "stop"} /\ o.own \in BOOLEAN
    BY MutexesAssumption DEF Operations
  <1>6. k \in Roles \cup {"plain", "sync"}
    BY <1>4, <1>5
  <1>7. q \in Peers /\ (o.own => q = p)
    <2>1. c = "thread" => ~o.own
      BY MutexesAssumption
    <2> QED BY <1>3, <1>5, <2>1
  <1>8. PICK r \in Requests : r = [n |-> ops + 1, peer |-> q, kind |-> k]
    BY <1>2, <1>6, <1>7 DEF Requests
  <1>9. r.peer = q
    BY <1>8
  <1>10. Runs(a, Operation(o, r), Top(prog[a]))
    BY <1>7, <1>9, RunsOperation
  <1>11. Goes(a, Operation(o, r) \o s)
    BY <1>3, <1>4, <1>8
  <1> QED BY <1>2, <1>10, <1>11, QuietRuns

LEMMA UserKeeps ==
    ASSUME KeepsOrder, IndInv, NEW a \in Actors, UserStep(a)
    PROVE  IndInv'
  <1>0. /\ prog[a] # <<>> /\ Item(a).do = "user"
        /\ held' = held /\ open' = open /\ done' = done /\ events' = events
    BY DEF UserStep, At
  <1>1. /\ Item(a) \in Items /\ Tail(prog[a]) \in Seq(Items)
        /\ Fits(a, Tail(prog[a])) /\ Top(Tail(prog[a])) = Top(prog[a])
        /\ UserAllowed(Item(a).context, Item(a).peer, Top(prog[a]))
    BY <1>0, NextItem DEF Allowed
  <1>2. Item(a).context \in Contexts \ {"thread"} /\ Item(a).peer \in Peers
    BY <1>0, <1>1, ItemFields
  <1>3. Orderly(prog', held) /\ ops' \in 0 .. MaxOps
    <2>1. CASE Continues(a) /\ UNCHANGED ops
      <3>1. ops \in 0 .. MaxOps
        BY DEF IndInv, Types
      <3> QED BY <2>1, <3>1, <1>0, QuietContinues
    <2>2. CASE Calls(a, Item(a).context, Item(a).peer, Tail(prog[a]))
      BY <2>2, <1>1, <1>2, CallsKeep
    <2> QED BY <2>1, <2>2 DEF UserStep
  <1> QED BY <1>0, <1>3, QuietKeeps DEF IndInv, Types

LEMMA ThreadCallsKeep ==
    ASSUME KeepsOrder, IndInv, NEW t \in Threads, ThreadCalls(t)
    PROVE  IndInv'
  <1>0. /\ prog[t] = <<>> /\ Calls(t, "thread", NoPeer, <<>>)
        /\ held' = held /\ open' = open /\ done' = done /\ events' = events
    BY DEF ThreadCalls
  <1>1. <<>> \in Seq(Items) /\ Fits(t, <<>>) /\ Top(<<>>) = {}
    BY FitsEmpty
  <1>2. t \in Actors /\ "thread" \in Contexts
    BY DEF Actors, Contexts
  <1>3. Orderly(prog', held) /\ ops' \in 0 .. MaxOps
    BY <1>0, <1>1, <1>2, CallsKeep
  <1> QED BY <1>0, <1>3, QuietKeeps DEF IndInv, Types

\* The steps that only go on with the rest.
LEMMA OthersKeep ==
    ASSUME IndInv, NEW a \in Actors,
           TouchStep(a) \/ EnterStep(a) \/ DropStep(a) \/ PromiseStep(a) \/ AwaitStep(a)
    PROVE  IndInv'
  <1>1. /\ prog[a] # <<>> /\ Item(a).do \in {"touch", "enter", "drop", "promise", "await"}
        /\ Continues(a)
        /\ held' = held /\ events' = events /\ ops' = ops
        /\ open' \subseteq open \/ (Item(a).do = "enter" /\ open' = open \cup {Item(a).r})
        /\ done' = done \/ (Item(a).do = "promise" /\ done' = done \cup {Item(a).r.n})
    BY DEF TouchStep, EnterStep, DropStep, PromiseStep, AwaitStep, MayEnter, At
  <1>2. Orderly(prog', held)
    BY <1>1, QuietContinues
  <1>3. Item(a).do \in {"enter", "promise"} => Item(a).r \in Requests
    BY <1>1, NextItem, ItemFields
  <1>4. \A r \in Requests : r.n \in 1 .. MaxOps
    BY DEF Requests
  <1>5. open' \subseteq Requests /\ done' \subseteq 1 .. MaxOps
    BY <1>1, <1>3, <1>4 DEF IndInv, Types
  <1> QED BY <1>1, <1>2, <1>5, QuietKeeps DEF IndInv, Types

LEMMA TakeKeeps ==
    ASSUME IndInv, NEW a \in Actors, TakeStep(a)
    PROVE  IndInv'
  <1>0. /\ prog[a] # <<>> /\ Item(a).do = "take"
        /\ open' = open \ {Item(a).r}
        /\ \/ Goes(a, ResultCallback(Item(a).r, "result", Item(a).failed) \o Tail(prog[a]))
           \/ Continues(a)
        /\ held' = held /\ done' = done /\ events' = events /\ ops' = ops
    BY DEF TakeStep, MayEnter, At
  <1>1. /\ Item(a) \in Items /\ Tail(prog[a]) \in Seq(Items)
        /\ Fits(a, Tail(prog[a])) /\ Top(Tail(prog[a])) = Top(prog[a])
        /\ OnlyReceive(Top(prog[a]))
    BY <1>0, NextItem DEF Allowed
  <1>2. Item(a).r \in Requests /\ Item(a).failed \in BOOLEAN
    BY <1>0, <1>1, ItemFields
  <1>3. Runs(a, ResultCallback(Item(a).r, "result", Item(a).failed), Top(prog[a]))
    BY <1>1, <1>2, RunsResultCallback
  <1>4. Orderly(prog', held)
    <2>1. CASE Continues(a)
      BY <2>1, <1>0, QuietContinues
    <2>2. CASE Goes(a, ResultCallback(Item(a).r, "result", Item(a).failed) \o Tail(prog[a]))
      BY <2>2, <1>1, <1>3, QuietRuns
    <2> QED BY <2>1, <2>2, <1>0
  <1> QED BY <1>0, <1>4, QuietKeeps DEF IndInv, Types

LEMMA CancelKeeps ==
    ASSUME IndInv, NEW a \in Actors, CancelStep(a)
    PROVE  IndInv'
  <1>0. /\ prog[a] # <<>> /\ Item(a).do = "cancel"
        /\ \/ Continues(a) /\ open' = open
           \/ \E r \in open : open' = open \ {r}
                              /\ Goes(a, ResultCallback(r, "cancel", TRUE) \o prog[a])
        /\ held' = held /\ done' = done /\ events' = events /\ ops' = ops
    BY DEF CancelStep, At
  <1>1. NoCallback(Top(prog[a]))
    BY <1>0, NextItem DEF Allowed
  <1>2. prog[a] \in Seq(Items) /\ Fits(a, prog[a]) /\ open \subseteq Requests
    BY DEF IndInv, Types
  <1>3. Orderly(prog', held) /\ open' \subseteq Requests
    <2>1. CASE Continues(a) /\ open' = open
      BY <2>1, <1>0, <1>2, QuietContinues
    <2>2. CASE \E r \in open : open' = open \ {r}
                               /\ Goes(a, ResultCallback(r, "cancel", TRUE) \o prog[a])
      <3>1. PICK r \in open : open' = open \ {r}
                              /\ Goes(a, ResultCallback(r, "cancel", TRUE) \o prog[a])
        BY <2>2
      <3>2. Runs(a, ResultCallback(r, "cancel", TRUE), Top(prog[a]))
        BY <1>1, <1>2, RunsResultCallback
      <3> QED BY <3>1, <3>2, <1>2, QuietRuns
    <2> QED BY <2>1, <2>2, <1>0
  <1> QED BY <1>0, <1>3, QuietKeeps DEF IndInv, Types

LEMMA StepKeeps ==
    ASSUME KeepsOrder, IndInv, NEW a \in Actors, Step(a)
    PROVE  IndInv'
  BY LockKeeps, UnlockKeeps, UserKeeps, OthersKeep, TakeKeeps, CancelKeeps DEF Step

\* An event loop begins to work off a program.
LEMMA BeginsKeeps ==
    ASSUME IndInv, NEW l \in Loops, NEW p \in Peers, NEW f, Runs(l, f, {}), Begins(l, p, f),
           events' \in 0 .. MaxEvents
    PROVE  IndInv'
  <1>1. /\ prog[l] = <<>> /\ Goes(l, f)
        /\ held' = held /\ open' = open /\ done' = done /\ ops' = ops
    BY DEF Begins
  <1>2. Orderly(prog', held)
    BY <1>1, QuietBegins DEF Actors
  <1> QED BY <1>1, <1>2, QuietKeeps DEF IndInv, Types

LEMMA EventsKeep ==
    ASSUME IndInv, NEW l \in Loops, NEW p \in Peers, NetworkEvent(l, p) \/ ResultEvent(l, p)
    PROVE  IndInv'
  <1>1. CASE NetworkEvent(l, p)
    <2>1. events' \in 0 .. MaxEvents
      BY <1>1, MutexesAssumption DEF NetworkEvent, IndInv, Types
    <2> QED BY <1>1, <2>1, RunsMessage, BeginsKeeps DEF NetworkEvent
  <1>2. CASE ResultEvent(l, p)
    <2>1. events' \in 0 .. MaxEvents
      BY <1>2 DEF ResultEvent, IndInv, Types
    <2>2. PICK r \in open :
              \/ \E failed \in BOOLEAN : Begins(l, p, Receive(p, HandleResult(r, failed)))
              \/ Begins(l, p, HandleResult(r, TRUE))
      BY <1>2 DEF ResultEvent
    <2>3. r \in Requests
      BY DEF IndInv, Types
    <2> QED BY <2>1, <2>2, <2>3, RunsMessage, BeginsKeeps
  <1> QED BY <1>1, <1>2

\* Whoever works off a program holds what its unlock steps say, and every step
\* is allowed there.
THEOREM Invariance ==
    ASSUME KeepsOrder
    PROVE  Spec => []IndInv
  <1>1. Init => IndInv
    <2> SUFFICES ASSUME Init PROVE IndInv
      OBVIOUS
    <2>1. \A a \in Actors : prog[a] = <<>> /\ Fits(a, <<>>)
      BY FitsEmpty DEF Init
    <2>2. Top(<<>>) = {}
      BY FitsEmpty
    <2>3. Orderly(prog, held)
      <3>1. prog \in [Actors -> Seq(Items)]
        BY DEF Init
      <3>2. \A m \in AllMutexes : held[m].by = NoActor /\ held[m].count = 0
        BY DEF Init
      <3>3. \A a \in Actors : a # NoActor
        BY MutexesAssumption
      <3> QED BY <2>1, <2>2, <3>1, <3>2, <3>3 DEF Orderly
    <2> QED BY <2>3, IndInvSplit, MutexesAssumption DEF Init
  <1>2. IndInv /\ [Next]_vars => IndInv'
    <2> SUFFICES ASSUME IndInv, [Next]_vars PROVE IndInv'
      OBVIOUS
    <2>1. ASSUME NEW a \in Actors, Step(a) PROVE IndInv'
      BY <2>1, StepKeeps
    <2>2. ASSUME NEW t \in Threads, ThreadCalls(t) PROVE IndInv'
      BY <2>2, ThreadCallsKeep
    <2>3. ASSUME NEW l \in Loops, NEW p \in Peers, NetworkEvent(l, p) \/ ResultEvent(l, p)
          PROVE  IndInv'
      BY <2>3, EventsKeep
    <2>4. CASE UNCHANGED vars
      BY <2>4 DEF vars, IndInv, Types, Owned
    <2> QED BY <2>1, <2>2, <2>3, <2>4 DEF Next
  <1> QED BY <1>1, <1>2, PTL DEF Spec

\* The variables stay in their types, and an actor that has returned to where it
\* came from holds no mutex: every lock_guard of the library is balanced.
THEOREM TypeCorrect ==
    ASSUME KeepsOrder
    PROVE  Spec => []TypeOK
  <1>1. IndInv => TypeOK
    <2> SUFFICES ASSUME IndInv PROVE TypeOK
      OBVIOUS
    <2>1. ASSUME NEW m \in AllMutexes
          PROVE  /\ held[m].count \in IF Recursive(m) THEN Nat ELSE {0, 1}
                 /\ held[m].by \in IF held[m].count = 0 THEN {NoActor} ELSE Actors
                 /\ held[m].by # NoActor => prog[held[m].by] # <<>>
      <3>1. held[m].count = IF held[m].by = NoActor THEN 0 ELSE 1
        BY DEF IndInv, Owned
      <3>2. held[m].by \in Actors \cup {NoActor}
        BY DEF IndInv, Types
      <3>3. ASSUME NEW a \in Actors, held[m].by = a
            PROVE  prog[a] # <<>>
        BY <3>3, Owning, FitsEmpty
      <3> QED BY <3>1, <3>2, <3>3
    <2> QED BY <2>1 DEF TypeOK, IndInv, Types
  <1> QED BY <1>1, Invariance, PTL

-----------------------------------------------------------------------------
(* Nobody waits in a circle *)

\* Actor a waits for a mutex that a member of S holds, and what it holds then.
WaitsForMutex(a, S) ==
    /\ Item(a).m \in AllMutexes
    /\ held[Item(a).m].by \in S
    /\ Item(a).m \in CallbackMutexes => held[Item(a).m].by # a
    /\ \/ OnlyReceive(Top(prog[a]))
       \/ Item(a).m \in CallbackMutexes /\ TouchAllowed(Item(a).m, Top(prog[a]))
    /\ Item(a).m[1] = "receive" => Top(prog[a]) = {}

\* Actor a waits for a response: only a thread that holds nothing does.
WaitsForResponse(a, S) ==
    /\ Item(a).r.peer \in Peers
    /\ LoopsOf[Item(a).r.peer] \subseteq S
    /\ Top(prog[a]) = {}
    /\ a \in Threads

LEMMA Waiting ==
    ASSUME IndInv, NEW S \in SUBSET Actors, NEW a \in S, WaitsWithin(a, S)
    PROVE  WaitsForMutex(a, S) \/ WaitsForResponse(a, S)
  <1>0. a \in Actors
    OBVIOUS
  <1>1. CASE /\ \E do \in {"lock", "touch", "enter", "drop", "take"} : At(a, do)
             /\ ~MayLock(a, Item(a).m)
             /\ held[Item(a).m].by \in S
    <2>1. /\ prog[a] # <<>> /\ Item(a).do \in {"lock", "touch", "enter", "drop", "take"}
          /\ Item(a).m \in CallbackMutexes => held[Item(a).m].by # a
      BY <1>1, MutexNames DEF At, MayLock
    <2>2. Item(a) \in Items /\ Allowed(a, Item(a), Top(prog[a]), Top(Tail(prog[a])))
      BY <2>1, <1>0, NextItem
    <2>3. /\ Item(a).do = "lock" => Item(a).m \in AllMutexes
          /\ Item(a).do = "touch" => Item(a).m \in CallbackMutexes
          /\ Item(a).do \in {"enter", "drop", "take"} => Item(a).m = Table
      BY <2>2, ItemFields
    <2>4. /\ Item(a).do # "touch" => OnlyReceive(Top(prog[a]))
          /\ Item(a).do = "touch" => TouchAllowed(Item(a).m, Top(prog[a]))
          /\ Item(a).do = "lock" /\ Item(a).m[1] = "receive" => Top(prog[a]) = {}
      BY <2>1, <2>2 DEF Allowed
    <2>5. /\ Item(a).m \in AllMutexes
          /\ Item(a).m[1] = "receive" => Item(a).do = "lock"
      BY <2>1, <2>3, MutexNames DEF Roles
    <2> QED BY <1>1, <2>1, <2>3, <2>4, <2>5 DEF WaitsForMutex
  <1>2. CASE /\ At(a, "await")
             /\ LoopsOf[Item(a).r.peer] \subseteq S
    <2>1. prog[a] # <<>> /\ Item(a).do = "await"
      BY <1>2 DEF At
    <2>2. Item(a) \in Items /\ Allowed(a, Item(a), Top(prog[a]), Top(Tail(prog[a])))
      BY <2>1, <1>0, NextItem
    <2>3. Item(a).r.peer \in Peers
      BY <2>1, <2>2, ItemFields DEF Requests
    <2> QED BY <1>2, <2>1, <2>2, <2>3 DEF Allowed, WaitsForResponse
  <1> QED BY <1>1, <1>2 DEF WaitsWithin

\* No group of actors waits for one another, whatever the peers, threads and
\* event loops, when the user's code keeps to the order of the mutexes: not in
\* handleMessage(), not in stop() and clear(), not over a synchronous call.
THEOREM NobodyWaitsInACircle ==
    ASSUME KeepsOrder
    PROVE  Spec => []NoCircularWait
  <1>1. IndInv => NoCircularWait
    <2> SUFFICES ASSUME IndInv, NEW S \in SUBSET Actors, S # {},
                        \A a \in S : WaitsWithin(a, S)
                 PROVE  FALSE
      BY DEF NoCircularWait
    <2>1. \A a \in S : WaitsForMutex(a, S) \/ WaitsForResponse(a, S)
      BY Waiting
    <2>2. ASSUME NEW m \in AllMutexes, NEW a \in S
          PROVE  held[m].by = a <=> m \in Top(prog[a])
      BY Owning
    <2>3. ASSUME NEW a \in S, NEW h \in Top(prog[a]), h[1] \in Roles
          PROVE  /\ Item(a).m \in CallbackMutexes
                 /\ <<"receive", Item(a).m[2]>> \in Top(prog[a])
                 /\ h[2] = Item(a).m[2]
                 /\ held[Item(a).m].by \in S \ {a}
      \* Who holds a mutex of callbacks and waits: for one of the same peer,
      \* while it handles a message of this peer.
      <3>1. h \in AllMutexes
        BY DEF Top, HeldAt
      <3>2. ~OnlyReceive(Top(prog[a])) /\ Top(prog[a]) # {}
        BY <2>3 DEF OnlyReceive, Roles
      <3>3. /\ Item(a).m \in CallbackMutexes
            /\ TouchAllowed(Item(a).m, Top(prog[a]))
            /\ held[Item(a).m].by \in S
            /\ held[Item(a).m].by # a
        BY <3>2, <2>1 DEF WaitsForMutex, WaitsForResponse
      <3>4. h # Item(a).m
        BY <3>1, <3>3, <2>2
      <3> QED BY <2>3, <3>3, <3>4 DEF TouchAllowed
    <2>4. \A a \in S : \A h \in Top(prog[a]) : h[1] \notin Roles
      \* The one it waits for would handle a message of this peer, too.
      <3> SUFFICES ASSUME NEW a \in S, NEW h \in Top(prog[a]), h[1] \in Roles
                   PROVE  FALSE
        OBVIOUS
      <3>1. PICK m : m = Item(a).m
        OBVIOUS
      <3>2. PICK b \in S \ {a} : b = held[m].by
        BY <2>3, <3>1
      <3>3. m \in CallbackMutexes /\ m \in AllMutexes /\ m[1] \in Roles /\ m[2] \in Peers
            /\ <<"receive", m[2]>> \in Top(prog[a])
        BY <2>3, <3>1, MutexNames
      <3>4. m \in Top(prog[b])
        BY <3>2, <3>3, <2>2
      <3>5. <<"receive", Item(b).m[2]>> \in Top(prog[b]) /\ m[2] = Item(b).m[2]
        BY <3>3, <3>4, <2>3
      <3>6. <<"receive", m[2]>> \in AllMutexes
        BY <3>3, MutexNames
      <3>7. held[<<"receive", m[2]>>].by = a /\ held[<<"receive", m[2]>>].by = b
        BY <3>3, <3>5, <3>6, <2>2
      <3> QED BY <3>2, <3>7
    <2>5. \A a \in S : Table \notin Top(prog[a])
      \* Who holds the table mutex could wait for those only.
      <3> SUFFICES ASSUME NEW a \in S, Table \in Top(prog[a])
                   PROVE  FALSE
        OBVIOUS
      <3>1. ~OnlyReceive(Top(prog[a])) /\ Top(prog[a]) # {}
        BY MutexNames DEF OnlyReceive
      <3>2. Item(a).m \in CallbackMutexes /\ held[Item(a).m].by \in S
        BY <3>1, <2>1 DEF WaitsForMutex, WaitsForResponse
      <3>3. Item(a).m \in AllMutexes /\ Item(a).m[1] \in Roles
        BY <3>2, MutexNames
      <3> QED BY <3>2, <3>3, <2>2, <2>4
    <2>6. \A a \in S : Top(prog[a]) = {}
      \* So everybody waits for a receive mutex or a response, and holds nothing.
      <3> SUFFICES ASSUME NEW a \in S, Top(prog[a]) # {}
                   PROVE  FALSE
        OBVIOUS
      <3>1. /\ Item(a).m \in AllMutexes /\ Item(a).m[1] # "receive"
            /\ held[Item(a).m].by \in S
        BY <2>1 DEF WaitsForMutex, WaitsForResponse
      <3>2. Item(a).m \in Top(prog[held[Item(a).m].by])
        BY <3>1, <2>2
      <3>3. Item(a).m = Table \/ Item(a).m[1] \in Roles
        BY <3>1, MutexNames
      <3> QED BY <3>1, <3>2, <3>3, <2>4, <2>5
    <2>7. \A a \in S : /\ Item(a).r.peer \in Peers
                       /\ LoopsOf[Item(a).r.peer] \subseteq S
                       /\ a \in Threads
      \* Nobody holds a mutex they wait for: they wait for responses.
      <3> SUFFICES ASSUME NEW a \in S,
                          Item(a).m \in AllMutexes, held[Item(a).m].by \in S
                   PROVE  FALSE
        BY <2>1 DEF WaitsForMutex, WaitsForResponse
      <3>1. Item(a).m \in Top(prog[held[Item(a).m].by])
        BY <2>2
      <3> QED BY <3>1, <2>6
    <2>8. PICK a \in S : LoopsOf[Item(a).r.peer] \subseteq S /\ Item(a).r.peer \in Peers
      BY <2>7
    <2>9. PICK l \in Loops : l \in LoopsOf[Item(a).r.peer]
      BY <2>8, MutexesAssumption
    <2> QED BY <2>7, <2>8, <2>9, MutexesAssumption
  <1> QED BY <1>1, Invariance, PTL
=============================================================================
