---------------------------- MODULE MCFiberRounds ----------------------------
(* Model checking of FiberRounds: two fibers and two handles.              *)
EXTENDS FiberRounds, TLC

CONSTANTS f1, f2, a1, h1
=============================================================================
