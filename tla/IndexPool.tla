------------------------------- MODULE IndexPool -------------------------------
(***************************************************************************)
(* What an IndexAllocator promises to clients that free only what they     *)
(* hold: a set of indices below Max, each held at most once, where a new   *)
(* index is opened only when every opened one is held and a request fails  *)
(* only when all Max are held.  Which freed index is reused is left open.  *)
(***************************************************************************)
EXTENDS Naturals

CONSTANTS Max, Preallocated, INVALID_INDEX

VARIABLES
    live,     \* the indices that are held
    opened,   \* how many indices have been used since the last clear
    returned  \* what the last call of allocate() returned

vars == <<live, opened, returned>>

Init ==
    /\ live = 0..(Preallocated - 1)
    /\ opened = Preallocated
    /\ returned = INVALID_INDEX

Idle == (0..(opened - 1)) \ live

Reuse(i) ==
    /\ i \in Idle
    /\ live' = live \cup {i}
    /\ returned' = i
    /\ UNCHANGED opened

Open ==
    /\ Idle = {}
    /\ opened < Max
    /\ live' = live \cup {opened}
    /\ returned' = opened
    /\ opened' = opened + 1

Exhausted ==
    /\ live = 0..(Max - 1)
    /\ returned' = INVALID_INDEX
    /\ UNCHANGED <<live, opened>>

Release(i) ==
    /\ i \in live
    /\ live' = live \ {i}
    /\ UNCHANGED <<opened, returned>>

Clear ==
    /\ live' = {}
    /\ opened' = 0
    /\ UNCHANGED returned

Next ==
    \/ \E i \in 0..(Max - 1) : Reuse(i) \/ Release(i)
    \/ Open
    \/ Exhausted
    \/ Clear

Spec == Init /\ [][Next]_vars
=============================================================================
