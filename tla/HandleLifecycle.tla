-------------------------- MODULE HandleLifecycle --------------------------
(***************************************************************************)
(* What the binding promises of every Go-side resource behind a move-only  *)
(* C++ object (itb3.hpp, "Ownership"): from its creation to its release it *)
(* has exactly one holder, the holder may hand it on, and it is released,  *)
(* with its secret material zeroed, exactly once, when its holder gives it *)
(* up.  No resource comes back.                                            *)
(***************************************************************************)
CONSTANTS
    Resources,   \* Go-side pipelines, or Go-side stream sessions
    Holders      \* C++ objects and constructor locals

VARIABLES
    held,        \* the holders of each resource
    stage        \* its life: unborn, open, closed (emptied but still held), freed

lifeVars == <<held, stage>>

Init ==
    /\ held = [r \in Resources |-> {}]
    /\ stage = [r \in Resources |-> "unborn"]

Create(r, x) ==
    /\ held[r] = {} /\ stage[r] = "unborn"
    /\ held' = [held EXCEPT ![r] = {x}]
    /\ stage' = [stage EXCEPT ![r] = "open"]

Transfer(r, x, y) ==
    /\ held[r] = {x}
    /\ held' = [held EXCEPT ![r] = {y}]
    /\ UNCHANGED stage

\* An explicit close: the holder keeps the resource, emptied.
Close(r) ==
    /\ held[r] # {} /\ stage[r] = "open"
    /\ stage' = [stage EXCEPT ![r] = "closed"]
    /\ UNCHANGED held

Release(r, x) ==
    /\ held[r] = {x}
    /\ held' = [held EXCEPT ![r] = {}]
    /\ stage' = [stage EXCEPT ![r] = "freed"]

\* Move-assignment: the target's resource goes, the source's takes its place.
Replace(old, new, x, y) ==
    /\ old # new /\ held[old] = {y} /\ held[new] = {x}
    /\ held' = [held EXCEPT ![old] = {}, ![new] = {y}]
    /\ stage' = [stage EXCEPT ![old] = "freed"]

Next ==
    \E r \in Resources, x \in Holders :
        \/ Create(r, x) \/ Close(r) \/ Release(r, x)
        \/ \E y \in Holders : \/ Transfer(r, x, y)
                              \/ \E q \in Resources : Replace(r, q, x, y)

Spec == Init /\ [][Next]_lifeVars

=============================================================================
