-------------------------- MODULE MCOpenRequests --------------------------
(* Small instances of OpenRequests for TLC. *)
EXTENDS OpenRequests, TLC

CONSTANTS t1, t2, l1, l2, p1, p2

OnePeer == p1 :> l1                     \* one peer
OwnLoops == p1 :> l1 @@ p2 :> l2        \* two peers, each with its own loop
=============================================================================
