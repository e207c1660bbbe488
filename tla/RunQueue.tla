------------------------------- MODULE RunQueue -------------------------------
(***************************************************************************)
(* The queues of class FiberScheduler (packages/core/src/runtime/vm.ts)    *)
(* and the loop of tick() and drainSpawnedSubtrees(), cut where one slice  *)
(* ends and the next begins.                                               *)
(*                                                                         *)
(* The recursion of drainSpawnedSubtrees is flattened: cascade holds the   *)
(* child rules that the nested calls still have to run, the innermost call *)
(* first, so the children of the slice that just ended go to its front.    *)
(***************************************************************************)
EXTENDS Fibers, Naturals, Sequences, SequencesExt

VARIABLES
    state,      \* life-cycle state of every fiber identifier
    runQueue,   \* FIFO of runnable fibers
    spawned,    \* pendingSpawns: child rules spawned by the current slice
    cascade,    \* child rules the tick still has to drain, next first
    round,      \* entries of runQueue that belong to the current round
    running,    \* the fiber whose slice is executing
    phase       \* "idle" between thinks, "tick" inside scheduler.tick()

queueVars == <<runQueue, spawned, cascade, round, running, phase>>

(* The fibers in the spawn drain and in the run queue, next first.         *)
Pending == cascade \o spawned \o runQueue

QueueTypeOK ==
    /\ state \in [FiberId -> FiberState]
    /\ runQueue \in Seq(FiberId)
    /\ spawned \in Seq(FiberId)
    /\ cascade \in Seq(FiberId)
    /\ round \in 0 .. Len(runQueue)
    /\ running \in FiberId \cup {NoFiber}
    /\ phase \in {"idle", "tick"}

QueueInit ==
    /\ state = [f \in FiberId |-> "absent"]
    /\ runQueue = << >>
    /\ spawned = << >>
    /\ cascade = << >>
    /\ round = 0
    /\ running = NoFiber
    /\ phase = "idle"

-----------------------------------------------------------------------------

Tracked == {f \in FiberId : state[f] # "absent"}

(* Identifiers are never used again in the VM: a fresh one is one that no  *)
(* table holds and that no queue refers to.                                *)
FreshFiber(f) == state[f] = "absent" /\ f \notin ToSet(Pending)

(* Mutant: a runnable fiber jumps the queue.                               *)
EnqueueAtFront(f) == runQueue' = <<f>> \o SelectSeq(runQueue, LAMBDA g : g # f)

(* enqueueRunnable, for a fiber that is runnable.                          *)
Enqueue(f) == runQueue' = IF f \in ToSet(runQueue) THEN runQueue
                                                      ELSE Append(runQueue, f)

OpenRound ==
    /\ phase = "idle"
    /\ phase' = "tick"
    /\ round' = Len(runQueue)
    /\ UNCHANGED <<runQueue, spawned, cascade, running>>

Between == phase = "tick" /\ running = NoFiber

RoundOver == Between /\ cascade = << >> /\ round = 0

(* Mutant: the round takes its newest entry first.                         *)
NextInRoundNewest ==
    /\ Between /\ cascade = << >> /\ round > 0
    /\ running' = IF state[runQueue[round]] = "RUNNABLE" THEN runQueue[round]
                                                         ELSE NoFiber
    /\ runQueue' = SubSeq(runQueue, 1, round - 1)
                      \o SubSeq(runQueue, round + 1, Len(runQueue))
    /\ round' = round - 1
    /\ UNCHANGED <<state, spawned, cascade, phase>>

(* The next entry of the round gets its slice, or is dropped when its      *)
(* fiber is not runnable any more.                                         *)
NextInRound ==
    /\ Between /\ cascade = << >> /\ round > 0
    /\ running' = IF state[Head(runQueue)] = "RUNNABLE" THEN Head(runQueue)
                                                        ELSE NoFiber
    /\ runQueue' = Tail(runQueue)
    /\ round' = round - 1
    /\ UNCHANGED <<state, spawned, cascade, phase>>

NextInCascade ==
    /\ Between /\ cascade # << >>
    /\ running' = IF state[Head(cascade)] = "RUNNABLE" THEN Head(cascade)
                                                       ELSE NoFiber
    /\ cascade' = Tail(cascade)
    /\ UNCHANGED <<state, runQueue, spawned, round, phase>>

(* Mutant: the children a slice spawned stay where they are.               *)
EndSliceUndrained ==
    /\ running' = NoFiber
    /\ UNCHANGED <<spawned, cascade, round, phase>>

(* The slice is over: the children it spawned drain before anything else.  *)
EndSlice ==
    /\ running' = NoFiber
    /\ cascade' = spawned \o cascade
    /\ spawned' = << >>
    /\ UNCHANGED <<round, phase>>

(* An error leaves runFiber, and tick() and think() with it: the rest of   *)
(* the round stays queued, the calls that drain the cascade are gone.      *)
AbandonTick ==
    /\ running' = NoFiber
    /\ phase' = "idle"
    /\ round' = 0
    /\ cascade' = << >>
    /\ UNCHANGED <<state, runQueue, spawned>>
=============================================================================
