------------------------- MODULE RequestLifecycle -------------------------
(***************************************************************************)
(* What the request layer of the jet peer promises to the code that issues *)
(* requests with a response callback: request identifiers are handed out   *)
(* in ascending order, a request is answered at most once, only after it   *)
(* was issued, and its outcome never changes afterwards.                   *)
(* OpenRequests is shown to implement this specification.                  *)
(***************************************************************************)
EXTENDS Integers

CONSTANT MaxId      \* number of requests considered

Ids == 1 .. MaxId

\* "answer": the response of the jet daemon; "error": the message could not
\* be sent; "cancel": the request was dropped because a peer was stopped.
Outcomes == {"answer", "error", "cancel"}

VARIABLES
    issued,         \* number of identifiers handed out
    result          \* the outcome each request's callback has been given

vars == <<issued, result>>

Init ==
    /\ issued = 0
    /\ result = [i \in Ids |-> "none"]

Issue ==
    /\ issued < MaxId
    /\ issued' = issued + 1
    /\ UNCHANGED result

Complete(i, o) ==
    /\ i <= issued
    /\ result[i] = "none"
    /\ result' = [result EXCEPT ![i] = o]
    /\ UNCHANGED issued

Next == Issue \/ \E i \in Ids, o \in Outcomes : Complete(i, o)

Spec == Init /\ [][Next]_vars
=============================================================================
