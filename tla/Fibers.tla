-------------------------------- MODULE Fibers --------------------------------
(* The names of the VM's fibers and of the states of their life cycle      *)
(* (packages/core/src/runtime/vm-types.ts).                                *)
EXTENDS FiniteSets

CONSTANTS
    FiberId,      \* identifiers of fibers
    NoFiber

ASSUME FibersAssumption == IsFiniteSet(FiberId) /\ NoFiber \notin FiberId

Alive == {"RUNNABLE", "WAITING"}
Terminal == {"DONE", "FAULT", "CANCELLED"}

(* "absent" is the state of an identifier that the fiber table lacks.      *)
FiberState == {"absent"} \cup Alive \cup Terminal
=============================================================================
