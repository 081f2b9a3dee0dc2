----------------------------- MODULE MCMutexes -----------------------------
(* Small instances of Mutexes for TLC. *)
EXTENDS Mutexes, TLC

CONSTANTS t1, l1, l2, p1, p2

\* Each peer has an event loop of its own.
OwnLoops == p1 :> {l1} @@ p2 :> {l2}

Op(do, reply, own) == [do |-> do, reply |-> reply, own |-> own]
Silent(dos, own) == {Op(d, FALSE, own) : d \in dos}

\* Callbacks that respect the order of the mutexes.  Under a mutex they use
\* their own peer only and want no result; stop() allows them the fetches only.
\* Without a mutex they use any peer, but wait for nothing.  Threads do anything.
Disciplined ==
    [c \in Contexts |->
        CASE c = "thread" -> {Op("state", TRUE, FALSE)} \cup Silent({"sync", "stop"}, FALSE)
          [] c = "state"  -> Silent({"state", "fetch"}, TRUE)
          [] c = "method" -> Silent({"state"}, TRUE)
          [] c = "fetch"  -> Silent({"state"}, TRUE)
          [] c = "lost"   -> Silent({"start"}, TRUE)
          [] c = "cancel" -> Silent({"method"}, FALSE)
          [] c = "result" -> {Op("fetch", TRUE, FALSE)}]

ASSUME DisciplineKeepsOrder == MayDo = Disciplined => KeepsOrder

\* A thread adds states, and a state callback adds another state of its peer,
\* both with a result callback.
AsDocumented ==
    [c \in Contexts |->
        CASE c = "thread" -> {Op("state", TRUE, FALSE)}
          [] c = "state"  -> {Op("state", TRUE, TRUE)}
          [] OTHER -> {}]
=============================================================================
