------------------------- MODULE OpenRequestsProofs -------------------------
(***************************************************************************)
(* Proofs about OpenRequests, for any number of threads, event loops,      *)
(* peers, requests and stops: IndInv is an inductive invariant; the safety *)
(* invariants and the refinement of RequestLifecycle follow from it.       *)
(***************************************************************************)
EXTENDS OpenRequests, TLAPS

USE DEF Ids, Actors

\* Initially the table is empty and nobody is doing anything.
LEMMA InitIndInv == Init => IndInv
  <1> SUFFICES ASSUME Init PROVE IndInv
    OBVIOUS
  <1> USE ConstantsAssumption DEF Init
  <1>1. TypeOK
    <2>1. /\ hand \in [Actors -> [id : Ids \cup {0}, outcome : Outcomes] \cup {NoHand}]
          /\ req \in [Ids -> Requests \cup {NoRequest}]
      OBVIOUS
    <2>2. crashed \in BOOLEAN /\ connected \in [Peers -> {"up", "lost", "gone"}]
      OBVIOUS
    <2> QED BY <2>1, <2>2 DEF TypeOK, PcValues
  <1>2. Bookkeeping /\ ActorsOK /\ MutexOK /\ ExactlyOnce
    BY DEF Bookkeeping, ActorsOK, MutexOK, ExactlyOnce
  <1>3. SyncObjectAlive
    BY DEF SyncObjectAlive, InHand, NoRequest
  <1> QED BY <1>1, <1>2, <1>3 DEF IndInv

\* Facts about types that several steps need.
LEMMA SyncActor ==
  ASSUME TypeOK, NEW i \in Ids, req[i].kind = "sync"
  PROVE  req[i].actor \in Actors
  BY DEF TypeOK, Requests, NoRequest

\* A step that neither moves nor calls the callback of request i.
LEMMA SamePlace ==
  ASSUME NEW i, OnePlace(i), Waiting(i)' <=> Waiting(i), calls'[i] = calls[i],
         \A a \in Actors : InHand(i, a)' <=> InHand(i, a)
  PROVE  OnePlace(i)'
  BY ConstantsAssumption DEF OnePlace

\* execute() registers a request under a fresh identifier.
LEMMA RegisterStep ==
  ASSUME IndInv, NEW a \in Actors, NEW p \in Peers, NEW k \in Kinds,
         ExecuteRegister(a, p, k)
  PROVE  IndInv'
  <1> USE ConstantsAssumption DEF ExecuteRegister, Goto, IndInv, link, ghost
  <1>1. TypeOK'
    BY DEF TypeOK, Requests, PcValues
  <1>2. Bookkeeping'
    BY DEF TypeOK, Bookkeeping, Requests
  <1>3. ActorsOK'
    BY DEF TypeOK, ActorsOK, PcValues
  <1>4. MutexOK'
    BY DEF TypeOK, MutexOK
  <1>5. ASSUME NEW i \in 1 .. sid' PROVE OnePlace(i)'
    <2>1. CASE i = sid + 1
      <3>1. Waiting(i)' /\ calls'[i] = 0
        BY <2>1 DEF TypeOK, Bookkeeping, Waiting
      <3>2. \A b \in Actors : ~InHand(i, b)'
        BY <2>1 DEF TypeOK, ActorsOK, InHand
      <3> QED BY <3>1, <3>2 DEF OnePlace
    <2>2. CASE i \in 1 .. sid
      <3>1. \A b \in Actors : InHand(i, b)' <=> InHand(i, b)
        BY <2>2 DEF TypeOK, InHand
      <3>2. OnePlace(i) /\ (Waiting(i)' <=> Waiting(i)) /\ calls'[i] = calls[i]
        BY <2>2 DEF TypeOK, ExactlyOnce, Waiting
      <3> QED BY <3>1, <3>2, SamePlace
    <2> QED BY <1>5, <2>1, <2>2 DEF TypeOK
  <1>6. SyncObjectAlive'
    BY DEF TypeOK, Bookkeeping, ActorsOK, SyncObjectAlive, InHand, Alive
  <1> QED BY <1>1, <1>2, <1>3, <1>4, <1>5, <1>6 DEF ExactlyOnce
\* What the steps of execute() after the registration have in common: they work
\* on the actor's own entry and touch neither a callback nor the mutex.
InsideExecute(a) ==
  /\ pc[a] \in {"send", "create", "set", "notify"}
  /\ open' = open \/ open' = open \cup {cur[a]}
  /\ \/ notifier' = notifier
     \/ /\ cur[a] \in open'
        /\ \E v \in {"made", "set", "notified"} :
              notifier' = [notifier EXCEPT ![cur[a]] = v]
  /\ flight' = flight \/ flight' = [flight EXCEPT ![cur[a]] = "sent"]
  /\ \/ pc' = pc /\ cur' = cur
     \/ cur' = cur /\ \E v \in {"create", "set", "notify"} : pc' = [pc EXCEPT ![a] = v]
     \/ req[cur[a]].kind = "sync" /\ pc' = [pc EXCEPT ![a] = "wait"] /\ cur' = cur
     \/ /\ req[cur[a]].kind # "sync"
        /\ pc' = [pc EXCEPT ![a] = "idle"] /\ cur' = [cur EXCEPT ![a] = 0]
  /\ crashed' \in BOOLEAN
  /\ UNCHANGED <<mutex, sid, hasCb, todo, hand, req, connected, stops, calls, result>>

\* A step of an actor inside execute() preserves IndInv.
LEMMA InsideExecuteStep ==
  ASSUME IndInv, NEW a \in Actors, InsideExecute(a)
  PROVE  IndInv'
  <1> USE ConstantsAssumption DEF IndInv
  <1>0. cur[a] \in Ids /\ cur[a] <= sid /\ req[cur[a]].actor = a
    BY DEF InsideExecute, TypeOK, ActorsOK
  <1>1. TypeOK'
    <2>1. cur' \in [Actors -> Ids \cup {0}]
      BY <1>0 DEF InsideExecute, TypeOK
    <2>2. pc' \in [Actors -> PcValues]
      <3>1. pc' = pc \/ \E v \in PcValues : pc' = [pc EXCEPT ![a] = v]
        BY DEF InsideExecute, PcValues
      <3> QED BY <3>1 DEF TypeOK
    <2>3. open' \subseteq Ids /\ hasCb' \subseteq open'
      BY <1>0 DEF InsideExecute, TypeOK
    <2>4. notifier' \in [Ids -> {"null", "made", "set", "notified", "fired"}]
      <3>1. /\ notifier \in [Ids -> {"null", "made", "set", "notified", "fired"}]
            /\ \/ notifier' = notifier
               \/ \E v \in {"made", "set", "notified"} :
                      notifier' = [notifier EXCEPT ![cur[a]] = v]
        BY DEF InsideExecute, TypeOK
      <3> QED BY <1>0, <3>1
    <2>5. \A i \in Ids \ open' : notifier'[i] = "null"
      BY <1>0 DEF InsideExecute, TypeOK
    <2>6. flight' \in [Ids -> {"none", "sent", "answered"}]
      <3>1. /\ flight \in [Ids -> {"none", "sent", "answered"}]
            /\ flight' = flight \/ flight' = [flight EXCEPT ![cur[a]] = "sent"]
        BY DEF InsideExecute, TypeOK
      <3> QED BY <1>0, <3>1
    <2>7. crashed' \in BOOLEAN
      BY DEF InsideExecute
    <2> QED BY <2>1, <2>2, <2>3, <2>4, <2>5, <2>6, <2>7 DEF InsideExecute, TypeOK
  <1>2. Bookkeeping' /\ MutexOK'
    BY <1>0 DEF InsideExecute, TypeOK, Bookkeeping, MutexOK
  <1>3. ActorsOK'
    BY <1>0 DEF InsideExecute, TypeOK, ActorsOK
  <1>4. ASSUME NEW i \in 1 .. sid' PROVE OnePlace(i)'
    <2>1. \A b \in Actors : InHand(i, b)' <=> InHand(i, b)
      BY DEF InsideExecute, TypeOK, InHand
    <2>2. OnePlace(i) /\ (Waiting(i)' <=> Waiting(i)) /\ calls'[i] = calls[i]
      BY DEF InsideExecute, ExactlyOnce, Waiting
    <2> QED BY <2>1, <2>2, SamePlace
  <1>5. SyncObjectAlive'
    <2> SUFFICES ASSUME NEW i \in Ids, req[i].kind = "sync",
                        (i \in open \/ \E l \in Loops : InHand(i, l))'
                 PROVE  Alive(i)'
      BY DEF InsideExecute, SyncObjectAlive
    <2>1. i = cur[a] \/ i \in open \/ \E l \in Loops : InHand(i, l)
      BY DEF InsideExecute, TypeOK, InHand
    <2>2. Alive(i)
      BY <1>0, <2>1 DEF InsideExecute, SyncObjectAlive, Alive
    <2>3. req[i].actor \in Actors
      BY SyncActor
    <2>4. CASE req[i].actor = a
      BY <2>2, <2>4 DEF InsideExecute, TypeOK, Alive
    <2>5. CASE req[i].actor # a
      BY <2>2, <2>3, <2>5 DEF InsideExecute, TypeOK, Alive
    <2> QED BY <2>4, <2>5
  <1> QED BY <1>1, <1>2, <1>3, <1>4, <1>5 DEF ExactlyOnce

\* sendMessage() returns.
LEMMA SendInside ==
  ASSUME IndInv, NEW a \in Actors, ExecuteSend(a)
  PROVE  InsideExecute(a)
  BY DEF ExecuteSend, InsideExecute, IndInv, TypeOK, table, link, ghost, Goto, ExecuteReturns

\* sendMessage() throws.
LEMMA SendFailsInside ==
  ASSUME IndInv, NEW a \in Actors, ExecuteSendFails(a)
  PROVE  InsideExecute(a)
  BY DEF ExecuteSendFails, InsideExecute, IndInv, TypeOK, table, link, ghost, Goto

\* The error notifier is created without the mutex.
LEMMA CreateInside ==
  ASSUME IndInv, NEW a \in Actors, CreateErrorNotifier(a)
  PROVE  InsideExecute(a)
  BY DEF CreateErrorNotifier, InsideExecute, IndInv, TypeOK, table, link, ghost, Goto

\* The error notifier is set without the mutex.
LEMMA SetInside ==
  ASSUME IndInv, NEW a \in Actors, SetErrorNotifier(a)
  PROVE  InsideExecute(a)
  BY DEF SetErrorNotifier, InsideExecute, IndInv, TypeOK, table, link, ghost, Goto

\* The error notifier is notified without the mutex.
LEMMA NotifyInside ==
  ASSUME IndInv, NEW a \in Actors, NotifyErrorNotifier(a)
  PROVE  InsideExecute(a)
  BY DEF NotifyErrorNotifier, InsideExecute, IndInv, TypeOK, table, link, ghost, Goto, ExecuteReturns

\* stop() begins: the connection is closed and its messages are lost.
LEMMA StopStep ==
  ASSUME IndInv, NEW a \in Actors, NEW p \in Peers,
         NEW c \in {"up", "lost", "gone"}, StopBegin(a, p, c)
  PROVE  IndInv'
  <1> USE ConstantsAssumption DEF StopBegin, DropMessages, Goto, IndInv, table, link, ghost
  <1>1. TypeOK'
    BY DEF TypeOK, PcValues
  <1>2. Bookkeeping' /\ MutexOK'
    BY DEF TypeOK, Bookkeeping, MutexOK
  <1>3. ActorsOK'
    BY DEF TypeOK, ActorsOK
  <1>4. ExactlyOnce'
    <2> SUFFICES ASSUME NEW i \in 1 .. sid' PROVE OnePlace(i)'
      BY DEF ExactlyOnce
    <2>1. \A b \in Actors : InHand(i, b)' <=> InHand(i, b)
      BY DEF TypeOK, InHand
    <2>2. OnePlace(i) /\ (Waiting(i)' <=> Waiting(i)) /\ calls'[i] = calls[i]
      BY DEF ExactlyOnce, Waiting
    <2> QED BY <2>1, <2>2, SamePlace
  <1>5. SyncObjectAlive'
    BY DEF TypeOK, Bookkeeping, ActorsOK, SyncObjectAlive, InHand, Alive
  <1> QED BY <1>1, <1>2, <1>3, <1>4, <1>5

\* start() changes only the connection.
LEMMA StartStep ==
  ASSUME IndInv, NEW t \in Threads, NEW p \in Peers, Start(t, p)
  PROVE  IndInv'
  <1> USE ConstantsAssumption DEF Start, Goto, IndInv, table, link, ghost
  <1>1. TypeOK'
    BY DEF TypeOK, PcValues
  <1>2. Bookkeeping' /\ MutexOK'
    BY DEF TypeOK, Bookkeeping, MutexOK
  <1>3. ActorsOK'
    BY DEF TypeOK, ActorsOK
  <1>4. ExactlyOnce'
    <2> SUFFICES ASSUME NEW i \in 1 .. sid' PROVE OnePlace(i)'
      BY DEF ExactlyOnce
    <2>1. \A b \in Actors : InHand(i, b)' <=> InHand(i, b)
      BY DEF TypeOK, InHand
    <2>2. OnePlace(i) /\ (Waiting(i)' <=> Waiting(i)) /\ calls'[i] = calls[i]
      BY DEF ExactlyOnce, Waiting
    <2> QED BY <2>1, <2>2, SamePlace
  <1>5. SyncObjectAlive'
    BY DEF TypeOK, Bookkeeping, ActorsOK, SyncObjectAlive, InHand, Alive
  <1> QED BY <1>1, <1>2, <1>3, <1>4, <1>5

\* The daemon answers.
LEMMA DaemonStep ==
  ASSUME IndInv, NEW j \in Ids, DaemonAnswers(j)
  PROVE  IndInv'
  <1> USE ConstantsAssumption DEF DaemonAnswers, Goto, IndInv, table, link, ghost
  <1>1. TypeOK'
    BY DEF TypeOK, PcValues
  <1>2. Bookkeeping' /\ MutexOK'
    BY DEF TypeOK, Bookkeeping, MutexOK
  <1>3. ActorsOK'
    BY DEF TypeOK, ActorsOK
  <1>4. ExactlyOnce'
    <2> SUFFICES ASSUME NEW i \in 1 .. sid' PROVE OnePlace(i)'
      BY DEF ExactlyOnce
    <2>1. \A b \in Actors : InHand(i, b)' <=> InHand(i, b)
      BY DEF TypeOK, InHand
    <2>2. OnePlace(i) /\ (Waiting(i)' <=> Waiting(i)) /\ calls'[i] = calls[i]
      BY DEF ExactlyOnce, Waiting
    <2> QED BY <2>1, <2>2, SamePlace
  <1>5. SyncObjectAlive'
    BY DEF TypeOK, Bookkeeping, ActorsOK, SyncObjectAlive, InHand, Alive
  <1> QED BY <1>1, <1>2, <1>3, <1>4, <1>5

\* handleResult() moves a callback from the table into the hands of the event
\* loop, whatever identifier it is given, and destroys the entry's notifier.
LEMMA HandleResultStep ==
  ASSUME IndInv, NEW l \in Loops, NEW x \in Ids \cup {0}, NEW o \in Outcomes,
         NEW n \in [Ids -> {"null", "made", "set", "notified", "fired"}],
         \A i \in Ids \ open : n[i] = "null",
         pc[l] \in {"idle", "result"}, HandleResult(l, x, o, n),
         UNCHANGED <<mutex, sid, todo, cur, req, connected, stops, ghost, crashed>>,
         flight' \in [Ids -> {"none", "sent", "answered"}],
         \A i \in Ids : flight[i] = "none" => flight'[i] = "none"
  PROVE  IndInv'
  <1> USE ConstantsAssumption DEF IndInv, ghost
  <1>a. /\ mutex = NoActor
        /\ open' = open \ {x}
        /\ hasCb' = hasCb \ {x}
        /\ notifier' = [i \in Ids |-> IF i \in {x} THEN "null" ELSE n[i]]
    BY DEF HandleResult, Erase
  <1>0. \/ /\ x \in Ids /\ x \in hasCb /\ x \in open /\ x <= sid
           /\ pc' = [pc EXCEPT ![l] = "callback"]
           /\ hand' = [hand EXCEPT ![l] = [id |-> x, outcome |-> o]]
        \/ /\ x \notin hasCb
           /\ pc' = [pc EXCEPT ![l] = "idle"]
           /\ hand' = [hand EXCEPT ![l] = NoHand]
    BY DEF TypeOK, Bookkeeping, HandleResult, Goto
  <1>b. /\ pc \in [Actors -> PcValues] /\ "callback" \in PcValues /\ "idle" \in PcValues /\ l \in Actors
        /\ hand \in [Actors -> [id : Ids \cup {0}, outcome : Outcomes] \cup {NoHand}]
    BY DEF TypeOK, PcValues
  <1>1. TypeOK'
    <2>1. open' \subseteq Ids /\ hasCb' \subseteq open'
      BY <1>a DEF TypeOK
    <2>2. /\ notifier' \in [Ids -> {"null", "made", "set", "notified", "fired"}]
          /\ \A i \in Ids \ open' : notifier'[i] = "null"
      BY <1>a DEF TypeOK
    <2>3. pc' \in [Actors -> PcValues]
      BY <1>0, <1>b
    <2>4. hand' \in [Actors -> [id : Ids \cup {0}, outcome : Outcomes] \cup {NoHand}]
      BY <1>0, <1>b
    <2> QED BY <2>1, <2>2, <2>3, <2>4 DEF TypeOK
  <1>2. Bookkeeping' /\ MutexOK'
    BY <1>a, <1>0 DEF TypeOK, Bookkeeping, MutexOK
  <1>3. ActorsOK'
    BY <1>a, <1>0 DEF TypeOK, ActorsOK
  <1>4. ASSUME NEW i \in 1 .. sid' PROVE OnePlace(i)'
    <2>0. OnePlace(i) /\ calls'[i] = calls[i]
      BY <1>4 DEF ExactlyOnce
    <2>1. CASE i = x /\ i \in hasCb
      <3>1. Waiting(i) /\ ~Waiting(i)'
        BY <1>a, <2>1 DEF Waiting
      <3>2. InHand(i, l)' /\ \A b \in Actors \ {l} : ~InHand(i, b)'
        BY <1>0, <1>b, <2>0, <2>1, <3>1 DEF OnePlace, InHand
      <3> QED BY <2>0, <3>1, <3>2 DEF OnePlace
    <2>2. CASE ~(i = x /\ i \in hasCb)
      <3>1. \A b \in Actors : InHand(i, b)' <=> InHand(i, b)
        BY <1>0, <2>2 DEF InHand, TypeOK
      <3>2. Waiting(i)' <=> Waiting(i)
        BY <1>a, <2>2 DEF Waiting
      <3> QED BY <2>0, <3>1, <3>2, SamePlace
    <2> QED BY <2>1, <2>2
  <1>5. SyncObjectAlive'
    <2> SUFFICES ASSUME NEW i \in Ids, req[i].kind = "sync",
                        (i \in open \/ \E b \in Loops : InHand(i, b))'
                 PROVE  Alive(i)'
      BY DEF SyncObjectAlive
    <2>0. ASSUME NEW b \in Loops, InHand(i, b)'
          PROVE  i \in open \/ InHand(i, b)
      BY <1>0, <1>b, <2>0 DEF InHand
    <2>1. i \in open \/ \E b \in Loops : InHand(i, b)
      BY <1>a, <2>0
    <2>2. Alive(i) /\ req[i].actor \in Actors
      BY <2>1, SyncActor DEF SyncObjectAlive
    <2> QED BY <1>0, <2>2 DEF TypeOK, Alive
  <1> QED BY <1>1, <1>2, <1>3, <1>4, <1>5 DEF ExactlyOnce

\* A response is handled by handleResult().
LEMMA ResponseStep ==
  ASSUME IndInv, NEW l \in Loops, NEW j \in Ids, HandleResponse(l, j)
  PROVE  IndInv'
  <1> USE DEF HandleResponse
  <1>1. /\ notifier \in [Ids -> {"null", "made", "set", "notified", "fired"}]
        /\ \A i \in Ids \ open : notifier[i] = "null"
        /\ flight' \in [Ids -> {"none", "sent", "answered"}]
        /\ \A i \in Ids : flight[i] = "none" => flight'[i] = "none"
    BY DEF IndInv, TypeOK
  <1>2. j \in Ids \cup {0} /\ "answer" \in Outcomes
    BY DEF Outcomes
  <1> QED BY <1>1, <1>2, HandleResultStep

\* An event loop that has no callback in its hands works on an error notifier.
LEMMA NotifierInside ==
  ASSUME IndInv, NEW l \in Loops, pc[l] \in {"idle", "notifier"},
         NEW v \in {"notifier", "result"}, pc' = [pc EXCEPT ![l] = v],
         NEW h \in [id : Ids \cup {0}, outcome : Outcomes], hand' = [hand EXCEPT ![l] = h],
         v = "notifier" => h.id \in 1 .. sid,
         notifier' \in [Ids -> {"null", "made", "set", "notified", "fired"}],
         \A i \in Ids \ open : notifier'[i] = "null",
         UNCHANGED <<mutex, sid, open, hasCb, todo, cur, req, flight, connected, stops,
                     calls, result, crashed>>
  PROVE  IndInv'
  <1> USE ConstantsAssumption DEF IndInv
  <1>1. TypeOK'
    <2>1. pc' \in [Actors -> PcValues]
      BY DEF TypeOK, PcValues
    <2>2. hand' \in [Actors -> [id : Ids \cup {0}, outcome : Outcomes] \cup {NoHand}]
      BY DEF TypeOK
    <2> QED BY <2>1, <2>2 DEF TypeOK
  <1>2. Bookkeeping' /\ MutexOK'
    BY DEF TypeOK, Bookkeeping, MutexOK
  <1>3. ActorsOK'
    BY DEF TypeOK, ActorsOK
  <1>4. \A i \in Ids, b \in Actors : InHand(i, b)' <=> InHand(i, b)
    BY DEF TypeOK, InHand
  <1>5. ASSUME NEW i \in 1 .. sid' PROVE OnePlace(i)'
    <2>1. OnePlace(i) /\ (Waiting(i)' <=> Waiting(i)) /\ i \in Ids
      BY <1>5 DEF ExactlyOnce, Waiting, TypeOK
    <2> QED BY <1>4, <2>1, SamePlace
  <1>6. SyncObjectAlive'
    BY <1>4, SyncActor DEF TypeOK, SyncObjectAlive, Alive
  <1> QED BY <1>1, <1>2, <1>3, <1>5, <1>6 DEF ExactlyOnce

\* The callback of an error notifier is started.
LEMMA NotifierFiresStep ==
  ASSUME IndInv, NEW l \in Loops, NEW j \in Ids, NotifierFires(l, j)
  PROVE  IndInv'
  <1>1. /\ pc[l] = "idle" /\ pc' = [pc EXCEPT ![l] = "notifier"]
        /\ hand' = [hand EXCEPT ![l] = [id |-> j, outcome |-> "error"]]
        /\ UNCHANGED <<mutex, sid, open, hasCb, todo, cur, req, flight, connected, stops,
                       calls, result, crashed>>
    BY DEF NotifierFires, Goto, link, ghost
  <1>2. /\ notifier' \in [Ids -> {"null", "made", "set", "notified", "fired"}]
        /\ \A i \in Ids \ open : notifier'[i] = "null"
        /\ j \in open /\ j \in 1 .. sid
    BY ConstantsAssumption DEF NotifierFires, IndInv, TypeOK, Bookkeeping
  <1>3. [id |-> j, outcome |-> "error"] \in [id : Ids \cup {0}, outcome : Outcomes]
    BY DEF Outcomes
  <1> QED BY <1>1, <1>2, <1>3, NotifierInside

\* It reads an identifier, whatever the memory of its request object holds ...
LEMMA ReadIdStep ==
  ASSUME IndInv, NEW l \in Loops, NEW x \in Ids \cup {0}, ReadId(l, x)
  PROVE  IndInv'
  <1>1. /\ pc[l] = "notifier" /\ pc' = [pc EXCEPT ![l] = "result"]
        /\ hand' = [hand EXCEPT ![l] = [id |-> x, outcome |-> "error"]]
        /\ UNCHANGED <<mutex, sid, open, hasCb, notifier, todo, cur, req, flight, connected, stops,
                       calls, result, crashed>>
    BY DEF ReadId, Goto, table, link, ghost
  <1>2. [id |-> x, outcome |-> "error"] \in [id : Ids \cup {0}, outcome : Outcomes]
    BY DEF Outcomes
  <1>3. /\ notifier' \in [Ids -> {"null", "made", "set", "notified", "fired"}]
        /\ \A i \in Ids \ open : notifier'[i] = "null"
    BY <1>1 DEF IndInv, TypeOK
  <1> QED BY <1>1, <1>2, <1>3, NotifierInside

\* ... and passes it to handleResult().
LEMMA ErrorNotifierStep ==
  ASSUME IndInv, NEW l \in Loops, HandleError(l)
  PROVE  IndInv'
  <1>1. /\ HandleResult(l, hand[l].id, "error", notifier) /\ pc[l] = "result"
        /\ hand[l].id \in Ids \cup {0}
    BY DEF HandleError, IndInv, TypeOK, NoHand
  <1>2. /\ notifier \in [Ids -> {"null", "made", "set", "notified", "fired"}]
        /\ \A i \in Ids \ open : notifier[i] = "null"
    BY DEF IndInv, TypeOK
  <1>3. /\ flight' \in [Ids -> {"none", "sent", "answered"}]
        /\ \A i \in Ids : flight[i] = "none" => flight'[i] = "none"
        /\ UNCHANGED <<mutex, sid, todo, cur, req, connected, stops, ghost, crashed>>
    BY DEF HandleError, IndInv, TypeOK, link
  <1>4. "error" \in Outcomes
    BY DEF Outcomes
  <1> QED BY <1>1, <1>2, <1>3, <1>4, HandleResultStep

\* The event loop calls the callback in its hands.
LEMMA CallbackStep ==
  ASSUME IndInv, NEW l \in Loops, RunCallback(l)
  PROVE  IndInv'
  <1> DEFINE x == hand[l].id
  <1> USE ConstantsAssumption DEF IndInv, table, link
  <1>0. /\ x \in Ids /\ x \in 1 .. sid /\ hand[l].outcome \in Outcomes
        /\ l \in Actors /\ InHand(x, l)
    BY DEF RunCallback, TypeOK, ActorsOK, InHand, NoHand
  <1>1. /\ calls' = [calls EXCEPT ![x] = @ + 1]
        /\ result' = [result EXCEPT ![x] = hand[l].outcome]
        /\ hand' = [hand EXCEPT ![l] = NoHand]
        /\ \E v \in {"idle", "execute"} : pc' = [pc EXCEPT ![l] = v]
        /\ UNCHANGED <<mutex, sid, open, hasCb, notifier, todo, cur, req, flight,
                       connected, stops, crashed>>
    BY DEF RunCallback, CallCallback, Goto
  <1>2. calls[x] = 0 /\ ~Waiting(x) /\ \A b \in Actors \ {l} : ~InHand(x, b)
    BY <1>0 DEF ExactlyOnce, OnePlace
  <1> HIDE DEF x
  <1>3. TypeOK'
    <2>1. pc' \in [Actors -> PcValues]
      BY <1>0, <1>1 DEF TypeOK, PcValues
    <2>2. hand' \in [Actors -> [id : Ids \cup {0}, outcome : Outcomes] \cup {NoHand}]
      BY <1>0, <1>1 DEF TypeOK
    <2>3. calls' \in [Ids -> Nat] /\ result' \in [Ids -> Outcomes \cup {"none"}]
      BY <1>0, <1>1 DEF TypeOK
    <2> QED BY <1>1, <2>1, <2>2, <2>3 DEF TypeOK
  <1>4. Bookkeeping'
    BY <1>0, <1>1, <1>2 DEF TypeOK, Bookkeeping, Outcomes
  <1>5. ActorsOK' /\ MutexOK'
    BY <1>0, <1>1 DEF TypeOK, ActorsOK, MutexOK
  <1>6. ASSUME NEW i \in 1 .. sid' PROVE OnePlace(i)'
    <2>0. OnePlace(i) /\ i \in Ids /\ (Waiting(i)' <=> Waiting(i))
      BY <1>1 DEF ExactlyOnce, Waiting, TypeOK
    <2>1. CASE i = x
      <3>1. \A b \in Actors : ~InHand(i, b)'
        BY <1>0, <1>1, <1>2, <2>1 DEF TypeOK, InHand
      <3>2. calls'[i] = 1
        BY <1>0, <1>1, <1>2, <2>1 DEF TypeOK
      <3> QED BY <1>2, <2>0, <2>1, <3>1, <3>2 DEF OnePlace
    <2>2. CASE i # x
      <3>1. \A b \in Actors : InHand(i, b)' <=> InHand(i, b)
        BY <1>0, <1>1, <2>2 DEF TypeOK, InHand, x
      <3>2. calls'[i] = calls[i]
        BY <1>0, <1>1, <2>0, <2>2 DEF TypeOK
      <3> QED BY <2>0, <3>1, <3>2, SamePlace
    <2> QED BY <2>1, <2>2
  <1>7. SyncObjectAlive'
    <2> SUFFICES ASSUME NEW i \in Ids, req[i].kind = "sync",
                        (i \in open \/ \E b \in Loops : InHand(i, b))'
                 PROVE  Alive(i)'
      BY <1>1 DEF SyncObjectAlive
    <2>1. \A b \in Loops : InHand(i, b)' => InHand(i, b)
      BY <1>0, <1>1 DEF TypeOK, InHand
    <2>2. Alive(i) /\ req[i].actor \in Actors
      BY <1>1, <2>1, SyncActor DEF SyncObjectAlive
    <2>3. req[i].actor # l
      BY <1>0, <2>2 DEF Alive, InHand
    <2> QED BY <1>1, <2>2, <2>3 DEF TypeOK, Alive
  <1> QED BY <1>3, <1>4, <1>5, <1>6, <1>7 DEF ExactlyOnce

\* executeSync() returns only after its callback has been called, so that no
\* event loop has it, and ~SyncRequest empties the entry.
LEMMA SyncReturnsStep ==
  ASSUME IndInv, NEW t \in Threads, SyncRequestReturns(t)
  PROVE  IndInv'
  <1> DEFINE x == cur[t]
  <1> USE ConstantsAssumption DEF IndInv
  <1>0. x \in Ids /\ x \in 1 .. sid /\ t \in Actors /\ calls[x] > 0 /\ req[x].actor = t
    BY DEF SyncRequestReturns, TypeOK, ActorsOK
  <1>1. /\ mutex = NoActor /\ pc[t] = "wait"
        /\ open' = open \ {x} /\ hasCb' = hasCb \ {x}
        /\ notifier' = [i \in Ids |-> IF i \in {x} THEN "null" ELSE notifier[i]]
        /\ pc' = [pc EXCEPT ![t] = "idle"] /\ cur' = [cur EXCEPT ![t] = 0]
        /\ UNCHANGED <<mutex, sid, todo, hand, req, flight, connected, stops,
                       calls, result, crashed>>
    BY DEF SyncRequestReturns, Erase, Goto, link, ghost
  <1>2. ~Waiting(x) /\ \A a \in Actors : ~InHand(x, a)
    BY <1>0 DEF TypeOK, ExactlyOnce, OnePlace
  <1> HIDE DEF x
  <1>3. TypeOK'
    <2>1. pc' \in [Actors -> PcValues] /\ cur' \in [Actors -> Ids \cup {0}]
      BY <1>0, <1>1 DEF TypeOK, PcValues
    <2>2. /\ open' \subseteq Ids /\ hasCb' \subseteq open'
          /\ notifier' \in [Ids -> {"null", "made", "set", "notified", "fired"}]
          /\ \A i \in Ids \ open' : notifier'[i] = "null"
      BY <1>0, <1>1 DEF TypeOK
    <2> QED BY <1>1, <2>1, <2>2 DEF TypeOK
  <1>4. Bookkeeping' /\ MutexOK'
    BY <1>0, <1>1 DEF TypeOK, Bookkeeping, MutexOK
  <1>5. ActorsOK'
    BY <1>0, <1>1 DEF TypeOK, ActorsOK
  <1>6. ASSUME NEW i \in 1 .. sid' PROVE OnePlace(i)'
    <2>1. OnePlace(i) /\ calls'[i] = calls[i]
      BY <1>1 DEF ExactlyOnce
    <2>2. Waiting(i)' <=> Waiting(i)
      BY <1>1, <1>2 DEF Waiting
    <2>3. \A a \in Actors : InHand(i, a)' <=> InHand(i, a)
      BY <1>0, <1>1 DEF TypeOK, InHand
    <2> QED BY <2>1, <2>2, <2>3, SamePlace
  <1>7. SyncObjectAlive'
    <2> SUFFICES ASSUME NEW i \in Ids, req[i].kind = "sync",
                        (i \in open \/ \E b \in Loops : InHand(i, b))'
                 PROVE  Alive(i)'
      BY <1>1 DEF SyncObjectAlive
    <2>1. \A b \in Loops : InHand(i, b)' => InHand(i, b)
      BY <1>0, <1>1 DEF TypeOK, InHand
    <2>2. i # x
      BY <1>1, <1>2, <2>1
    <2>3. Alive(i) /\ req[i].actor \in Actors
      BY <1>1, <2>1, SyncActor DEF SyncObjectAlive
    <2>4. req[i].actor # t
      BY <2>2, <2>3 DEF Alive, x
    <2> QED BY <1>1, <2>3, <2>4 DEF TypeOK, Alive
  <1> QED BY <1>3, <1>4, <1>5, <1>6, <1>7 DEF ExactlyOnce

\* clear() takes the mutex: every callback in the table is still to be visited.
LEMMA ClearLockStep ==
  ASSUME IndInv, NEW a \in Actors, ClearLock(a)
  PROVE  IndInv'
  <1> USE ConstantsAssumption DEF ClearLock, Goto, IndInv, table, link, ghost
  <1>1. TypeOK'
    BY DEF TypeOK, PcValues
  <1>2. Bookkeeping' /\ MutexOK' /\ ActorsOK'
    BY DEF TypeOK, Bookkeeping, MutexOK, ActorsOK
  <1>3. ASSUME NEW i \in 1 .. sid' PROVE OnePlace(i)'
    <2>1. OnePlace(i) /\ calls'[i] = calls[i]
      BY DEF ExactlyOnce
    <2>2. Waiting(i)' <=> Waiting(i)
      BY DEF TypeOK, Waiting
    <2>3. \A b \in Actors : InHand(i, b)' <=> InHand(i, b)
      BY DEF TypeOK, InHand
    <2> QED BY <2>1, <2>2, <2>3, SamePlace
  <1>4. SyncObjectAlive'
    BY DEF TypeOK, SyncObjectAlive, InHand, Alive
  <1> QED BY <1>1, <1>2, <1>3, <1>4 DEF ExactlyOnce

\* clear() calls a callback that was waiting, once, and does not come back to it.
LEMMA ClearCallStep ==
  ASSUME IndInv, NEW a \in Actors, NEW j \in Ids, ClearCall(a, j)
  PROVE  IndInv'
  <1> USE ConstantsAssumption DEF IndInv
  <1>1. /\ pc[a] = "clear" /\ mutex = a /\ j \in todo /\ todo' = todo \ {j}
        /\ UNCHANGED <<mutex, sid, open, hasCb, notifier, cur, hand, req, flight,
                       connected, stops, crashed>>
    BY DEF ClearCall, MutexOK, table, link
  <1>2. \E v \in {"clear", "execute"} : pc' = [pc EXCEPT ![a] = v]
    BY DEF ClearCall, Goto, TypeOK, ghost
  <1>3. \/ /\ j \in hasCb
           /\ calls' = [calls EXCEPT ![j] = @ + 1]
           /\ result' = [result EXCEPT ![j] = "cancel"]
        \/ j \notin hasCb /\ UNCHANGED <<calls, result>>
    BY DEF ClearCall, CallCallback, ghost
  <1>4. TypeOK'
    <2>1. pc' \in [Actors -> PcValues]
      <3>1. \E v \in PcValues : pc' = [pc EXCEPT ![a] = v]
        BY <1>2 DEF PcValues
      <3> QED BY <3>1 DEF TypeOK
    <2>2. calls' \in [Ids -> Nat] /\ result' \in [Ids -> Outcomes \cup {"none"}]
      <3>1. "cancel" \in Outcomes
        BY DEF Outcomes
      <3>2. calls \in [Ids -> Nat] /\ result \in [Ids -> Outcomes \cup {"none"}]
        BY DEF TypeOK
      <3> QED BY <1>3, <3>1, <3>2
    <2> QED BY <1>1, <2>1, <2>2 DEF TypeOK
  <1>5. j \in hasCb => j <= sid /\ calls[j] = 0 /\ Waiting(j)
    BY <1>1 DEF TypeOK, Bookkeeping, ExactlyOnce, OnePlace, Waiting
  <1>6. Bookkeeping'
    BY <1>1, <1>3, <1>5 DEF TypeOK, Bookkeeping, Outcomes
  <1>7. ActorsOK' /\ MutexOK'
    BY <1>1, <1>2 DEF TypeOK, ActorsOK, MutexOK
  <1>8. ASSUME NEW i \in 1 .. sid' PROVE OnePlace(i)'
    <2>0. OnePlace(i)
      BY <1>1 DEF ExactlyOnce
    <2>1. \A b \in Actors : InHand(i, b)' <=> InHand(i, b)
      BY <1>1, <1>2 DEF TypeOK, InHand
    <2>2. CASE i = j /\ i \in hasCb
      <3>1. calls'[i] = 1 /\ ~Waiting(i)'
        BY <1>1, <1>3, <1>5, <2>2 DEF TypeOK, Waiting
      <3> QED BY <1>5, <2>0, <2>1, <2>2, <3>1 DEF OnePlace
    <2>3. CASE ~(i = j /\ i \in hasCb)
      <3>1. calls'[i] = calls[i] /\ (Waiting(i)' <=> Waiting(i))
        BY <1>1, <1>3, <2>3 DEF TypeOK, Waiting
      <3> QED BY <2>0, <2>1, <3>1, SamePlace
    <2> QED BY <2>2, <2>3
  <1>9. SyncObjectAlive'
    BY <1>1, <1>2 DEF TypeOK, SyncObjectAlive, InHand, Alive
  <1> QED BY <1>4, <1>6, <1>7, <1>8, <1>9 DEF ExactlyOnce

\* When clear() empties the table, every callback in it has been called.
LEMMA ClearEndStep ==
  ASSUME IndInv, NEW a \in Actors, ClearEnd(a)
  PROVE  IndInv'
  <1> USE ConstantsAssumption DEF IndInv
  <1>1. /\ pc[a] = "clear" /\ mutex = a /\ todo = {} /\ mutex' = NoActor
        /\ open' = open \ Ids /\ hasCb' = hasCb \ Ids
        /\ notifier' = [i \in Ids |-> "null"]
        /\ pc' = [pc EXCEPT ![a] = "idle"]
        /\ UNCHANGED <<sid, todo, cur, hand, req, flight, connected, stops,
                       calls, result, crashed>>
    BY DEF ClearEnd, Erase, Goto, MutexOK, link, ghost
  <1>2. open' = {} /\ hasCb' = {}
    BY <1>1 DEF TypeOK
  <1>3. TypeOK'
    BY <1>1, <1>2 DEF TypeOK, PcValues
  <1>4. Bookkeeping' /\ MutexOK' /\ ActorsOK'
    BY <1>1, <1>2 DEF TypeOK, Bookkeeping, MutexOK, ActorsOK
  <1>5. ASSUME NEW i \in 1 .. sid' PROVE OnePlace(i)'
    <2>1. OnePlace(i) /\ calls'[i] = calls[i]
      BY <1>1 DEF ExactlyOnce
    <2>2. ~Waiting(i) /\ ~Waiting(i)'
      BY <1>1, <1>2 DEF Waiting
    <2>3. \A b \in Actors : InHand(i, b)' <=> InHand(i, b)
      BY <1>1 DEF TypeOK, InHand
    <2> QED BY <2>1, <2>2, <2>3, SamePlace
  <1>6. SyncObjectAlive'
    BY <1>1, <1>2 DEF TypeOK, SyncObjectAlive, InHand, Alive
  <1> QED BY <1>3, <1>4, <1>5, <1>6 DEF ExactlyOnce

\* IndInv is preserved by every step.
LEMMA NextIndInv == IndInv /\ [Next]_vars => IndInv'
  <1> SUFFICES ASSUME IndInv, [Next]_vars PROVE IndInv'
    OBVIOUS
  <1>1. CASE UNCHANGED vars
    <2> USE <1>1 DEF vars, IndInv
    <2>1. TypeOK'
      BY DEF TypeOK
    <2>2. Bookkeeping'
      BY DEF Bookkeeping
    <2>3. ActorsOK' /\ MutexOK'
      BY DEF ActorsOK, MutexOK
    <2>4. ExactlyOnce'
      BY DEF ExactlyOnce, OnePlace, Waiting, InHand
    <2>5. SyncObjectAlive'
      BY DEF SyncObjectAlive, InHand, Alive
    <2> QED BY <2>1, <2>2, <2>3, <2>4, <2>5
  <1>2. ASSUME NEW t \in Threads, ThreadStep(t) PROVE IndInv'
    BY <1>2, StartStep, SyncReturnsStep, StopStep DEF ThreadStep, DestroyPeer
  <1>3. ASSUME NEW l \in Loops, LoopStep(l) PROVE IndInv'
    BY <1>3, ResponseStep, NotifierFiresStep, ReadIdStep, ErrorNotifierStep, CallbackStep, StopStep
       DEF LoopStep, Dispatch, ConnectionLost
  <1>4. ASSUME NEW a \in Actors, ActorStep(a) PROVE IndInv'
    BY <1>4, RegisterStep, SendInside, SendFailsInside, CreateInside, SetInside,
       NotifyInside, InsideExecuteStep, ClearLockStep, ClearCallStep, ClearEndStep
       DEF ActorStep, AsyncOperation, SyncOperation
  <1>5. ASSUME NEW i \in Ids, DaemonAnswers(i) PROVE IndInv'
    BY <1>5, DaemonStep
  <1> QED BY <1>1, <1>2, <1>3, <1>4, <1>5 DEF Next

\* The inductive invariant holds in every reachable state.
THEOREM Invariance == Spec => []IndInv
  BY InitIndInv, NextIndInv, PTL DEF Spec

\* The variables of the request layer keep their types, and no entry that has
\* been erased keeps a callback or a notifier.
THEOREM TypeCorrect == Spec => []TypeOK
  <1>1. IndInv => TypeOK
    BY DEF IndInv
  <1> QED BY <1>1, Invariance, PTL

\* No request is lost and none is completed twice, however responses, error
\* notifiers, destructors and stops of any number of peers interleave.
THEOREM CompletedExactlyOnce == Spec => []ExactlyOnce
  <1>1. IndInv => ExactlyOnce
    BY DEF IndInv
  <1> QED BY <1>1, Invariance, PTL

\* The callback that sets the promise of a SyncRequest does not survive it: while
\* it is in the table or about to be called, executeSync() has not returned.  (The
\* error notifier of the request, which reads m_id without the mutex, may.)
THEOREM SyncRequestSafe == Spec => []SyncObjectAlive
  <1>1. IndInv => SyncObjectAlive
    BY DEF IndInv
  <1> QED BY <1>1, Invariance, PTL

-----------------------------------------------------------------------------
(* The refinement: only execute(), the call of a callback by an event loop and *)
(* the call of one by clear() are visible; all other steps stutter.            *)

\* A callback that is in the hands of an event loop has not been called before.
LEMMA CallbackCompletes ==
  ASSUME IndInv, NEW l \in Loops, RunCallback(l)
  PROVE  Lifecycle!Next
  <1> DEFINE x == hand[l].id
  <1>1. /\ x \in Ids /\ x \in 1 .. sid /\ hand[l].outcome \in Outcomes /\ InHand(x, l)
        /\ l \in Actors
    BY DEF IndInv, RunCallback, TypeOK, ActorsOK, InHand, NoHand
  <1>2. calls[x] = 0
    BY <1>1 DEF IndInv, ExactlyOnce, OnePlace
  <1>3. result[x] = "none" /\ x <= sid
    BY <1>1, <1>2 DEF IndInv, TypeOK, Bookkeeping
  <1>4. result' = [result EXCEPT ![x] = hand[l].outcome] /\ UNCHANGED sid
    BY DEF RunCallback, CallCallback, table
  <1> HIDE DEF x
  <1>5. Lifecycle!Complete(x, hand[l].outcome)
    BY <1>3, <1>4 DEF Lifecycle!Complete
  <1> QED BY <1>1, <1>5 DEF Lifecycle!Next, Lifecycle!Ids, Lifecycle!Outcomes, Outcomes

\* A callback that clear() has still to visit has not been called before.
LEMMA ClearCompletes ==
  ASSUME IndInv, NEW a \in Actors, NEW j \in Ids, ClearCall(a, j)
  PROVE  Lifecycle!Next \/ UNCHANGED Lifecycle!vars
  <1>1. CASE j \in hasCb
    <2>1. Waiting(j) /\ j \in 1 .. sid
      BY <1>1 DEF IndInv, TypeOK, Bookkeeping, ClearCall, Waiting
    <2>2. result[j] = "none" /\ j <= sid
      BY <2>1 DEF IndInv, TypeOK, Bookkeeping, ExactlyOnce, OnePlace
    <2>3. result' = [result EXCEPT ![j] = "cancel"] /\ UNCHANGED sid
      BY <1>1 DEF ClearCall, CallCallback, table
    <2>4. Lifecycle!Complete(j, "cancel")
      BY <2>2, <2>3 DEF Lifecycle!Complete
    <2> QED BY <2>4 DEF Lifecycle!Next, Lifecycle!Ids, Lifecycle!Outcomes
  <1>2. CASE j \notin hasCb
    BY <1>2 DEF ClearCall, ghost, table, Lifecycle!vars
  <1> QED BY <1>1, <1>2

\* Every step is a step of RequestLifecycle or changes nothing it sees.
LEMMA NextRefines ==
  ASSUME IndInv, [Next]_vars
  PROVE  [Lifecycle!Next]_(Lifecycle!vars)
  <1> USE DEF Lifecycle!vars, table, link, ghost
  <1>1. CASE UNCHANGED vars
    BY <1>1 DEF vars
  <1>2. ASSUME NEW t \in Threads, ThreadStep(t) PROVE UNCHANGED Lifecycle!vars
    BY <1>2 DEF ThreadStep, Start, DestroyPeer, StopBegin, SyncRequestReturns
  <1>3. ASSUME NEW l \in Loops, LoopStep(l)
        PROVE  Lifecycle!Next \/ UNCHANGED Lifecycle!vars
    <2>1. CASE RunCallback(l)
      BY <2>1, CallbackCompletes
    <2>2. CASE ~RunCallback(l)
      BY <1>3, <2>2 DEF LoopStep, Dispatch, HandleResponse, NotifierFires, ReadId,
                        HandleError, ConnectionLost, StopBegin
    <2> QED BY <2>1, <2>2
  <1>4. ASSUME NEW a \in Actors, ActorStep(a)
        PROVE  Lifecycle!Next \/ UNCHANGED Lifecycle!vars
    <2>1. ASSUME NEW q \in Peers, NEW k \in Kinds, ExecuteRegister(a, q, k)
          PROVE  Lifecycle!Next
      BY <2>1 DEF ExecuteRegister, Lifecycle!Next, Lifecycle!Issue
    <2>2. ASSUME NEW j \in Ids, ClearCall(a, j)
          PROVE  Lifecycle!Next \/ UNCHANGED Lifecycle!vars
      BY <2>2, ClearCompletes
    <2>3. CASE \/ ExecuteSend(a) \/ ExecuteSendFails(a) \/ CreateErrorNotifier(a)
               \/ SetErrorNotifier(a) \/ NotifyErrorNotifier(a)
      BY <2>3 DEF ExecuteSend, ExecuteSendFails, CreateErrorNotifier,
                  SetErrorNotifier, NotifyErrorNotifier
    <2>4. CASE ClearLock(a) \/ ClearEnd(a)
      BY <2>4 DEF ClearLock, ClearEnd
    <2> QED BY <1>4, <2>1, <2>2, <2>3, <2>4 DEF ActorStep, AsyncOperation, SyncOperation
  <1>5. ASSUME NEW i \in Ids, DaemonAnswers(i) PROVE UNCHANGED Lifecycle!vars
    BY <1>5 DEF DaemonAnswers
  <1> QED BY <1>1, <1>2, <1>3, <1>4, <1>5 DEF Next

\* The request layer implements the life of a request promised to its callers.
THEOREM Refinement == Spec => ImplementsLifecycle
  <1>1. Init => Lifecycle!Init
    BY DEF Init, Lifecycle!Init, Lifecycle!Ids
  <1>2. IndInv /\ [Next]_vars => [Lifecycle!Next]_(Lifecycle!vars)
    BY NextRefines
  <1> QED BY <1>1, <1>2, Invariance, PTL DEF Spec, ImplementsLifecycle, Lifecycle!Spec
=============================================================================
