----------------------------- MODULE LeaseFencing -----------------------------
(* What every implementation of the queue promises the code that writes      *)
(* under a lease (taskqueue.LeaseToken): a task has at most one holder, and  *)
(* whoever becomes its holder does so with a generation nobody had before.   *)
(* A holder that was replaced or released never holds the task again under   *)
(* its old token.                                                            *)
EXTENDS Integers

CONSTANTS FencedTask, FencedHolder, Nobody

VARIABLES
    holding,    \* [FencedTask -> FencedHolder \cup {Nobody}]
    generation  \* [FencedTask -> Nat]

fencing == <<holding, generation>>

FencingInit ==
    /\ holding = [t \in FencedTask |-> Nobody]
    /\ generation = [t \in FencedTask |-> 0]

\* A task keeps its holder or loses it, or gets one with a new generation.
Turn(t) ==
    \/ holding'[t] \in {holding[t], Nobody} /\ generation'[t] = generation[t]
    \/ holding'[t] \in FencedHolder /\ generation'[t] = generation[t] + 1

FencingNext ==
    /\ holding' \in [FencedTask -> FencedHolder \cup {Nobody}]
    /\ generation' \in [FencedTask -> Nat]
    /\ \A t \in FencedTask : Turn(t)

FencingSpec == FencingInit /\ [][FencingNext]_fencing
==============================================================================
