---------------------------- MODULE MCOwnerPeer ----------------------------
(* Small instances of OwnerPeer for TLC. *)
EXTENDS OwnerPeer

CONSTANTS s1, m1    \* a state and a method
=============================================================================
