------------------------------- MODULE Mirror -------------------------------
(***************************************************************************)
(* What somebody who reads the states of another peer out of a cache may   *)
(* rely on: the copy of a state holds a version that was published, and    *)
(* never an older one than it has held before, even if it has forgotten    *)
(* the state in between.  Publish is shown to implement this.              *)
(***************************************************************************)
EXTENDS Integers

CONSTANT Paths

VARIABLES
    version,    \* number of the latest version of a state, 0: none yet
    seen,       \* the version in the copy, 0: no entry
    mark        \* the latest version the copy has ever held

vars == <<version, seen, mark>>

Init ==
    /\ version = [p \in Paths |-> 0]
    /\ seen = [p \in Paths |-> 0]
    /\ mark = [p \in Paths |-> 0]

NewVersion(p) ==
    /\ version' = [version EXCEPT ![p] = @ + 1]
    /\ UNCHANGED <<seen, mark>>

Learn(p, v) ==
    /\ v > 0
    /\ mark[p] <= v
    /\ seen' = [seen EXCEPT ![p] = v]
    /\ mark' = [mark EXCEPT ![p] = v]
    /\ UNCHANGED version

Forget(p) ==
    /\ seen' = [seen EXCEPT ![p] = 0]
    /\ UNCHANGED <<version, mark>>

Next ==
    \E p \in Paths :
        \/ NewVersion(p)
        \/ \E v \in 1 .. version[p] : Learn(p, v)
        \/ Forget(p)

Spec == Init /\ [][Next]_vars
=============================================================================
