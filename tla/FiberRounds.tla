------------------------------ MODULE FiberRounds ------------------------------
(***************************************************************************)
(* The order of slices within one tick of the fiber scheduler.  History    *)
(* variables record what the current round was due to serve and who has    *)
(* had a slice; they change nothing in the scheduler.                      *)
(***************************************************************************)
EXTENDS FiberScheduler

VARIABLES
    due,        \* what was queued when the current tick opened
    slices      \* the fibers that had a slice in this tick, in order

history == <<due, slices>>

(* The fibers that are due when a tick opens, by their places in the       *)
(* queue.  A queue entry may outlive its fiber; only fibers are due.       *)
Due == [i \in DOMAIN runQueue |-> IF runQueue[i] \in Tracked THEN runQueue[i] ELSE NoFiber]

RoundsInit ==
    /\ Init
    /\ due = << >>
    /\ slices = << >>

RoundsNext ==
    /\ Next
    /\ due' = IF phase' = "idle" THEN << >>
              ELSE IF phase = "idle" THEN Due ELSE due
    /\ slices' = IF phase' = "idle" THEN << >>
                 ELSE IF running = NoFiber /\ running' # NoFiber
                      THEN Append(slices, running') ELSE slices

RoundsSpec == RoundsInit /\ [][RoundsNext]_<<vars, history>>

FairRoundsSpec == RoundsSpec /\ Fairness

(* The round is fair: a fiber gets at most one slice per tick, however     *)
(* often it yields, is resumed or is spawned meanwhile; the fibers of the  *)
(* round run in the order in which they were queued; and when the round is *)
(* over every one of them had its slice or died before its turn.           *)
RoundIsFair ==
    /\ \A i, j \in DOMAIN slices : slices[i] = slices[j] => i = j
    /\ \A i, j \in DOMAIN slices : \A k, l \in DOMAIN due :
          slices[i] = due[k] /\ slices[j] = due[l] /\ i < j => k < l
    /\ RoundOver => \A f \in ToSet(due) \ {NoFiber} :
          f \in ToSet(slices) \/ state[f] \in Terminal \cup {"absent"}
=============================================================================
