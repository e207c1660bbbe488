----------------------------- MODULE HandleTable -----------------------------
(***************************************************************************)
(* The VM's table of asynchronous operations (class HandleTable in         *)
(* packages/core/src/runtime/vm-types.ts).  A handle is created PENDING by *)
(* an asynchronous dispatch, settled once, and removed from the table      *)
(* either by the completion that resumed its waiters or by a sweep.        *)
(*                                                                         *)
(* The real table never uses an identifier again.  Here the identifiers    *)
(* are the elements of HandleId, and one that is "absent" and that nothing *)
(* refers to any more stands for a fresh one.                              *)
(***************************************************************************)
EXTENDS Fibers, Naturals

CONSTANTS
    HandleId,     \* identifiers of handles
    MaxHandles    \* cap on the live handles that count against it

ASSUME HandleTableAssumption == IsFiniteSet(HandleId) /\ MaxHandles \in Nat

VARIABLES
    hstate,       \* life-cycle state of every handle identifier
    waiters,      \* fibers suspended on a handle
    capped,       \* whether a live handle counts against MaxHandles
    cappedCount   \* the running count the code keeps of those handles

handleVars == <<hstate, waiters, capped, cappedCount>>

Settled == {"RESOLVED", "REJECTED", "CANCELLED"}

HandleState == {"absent", "PENDING"} \cup Settled

Live(h) == hstate[h] # "absent"

HandleTypeOK ==
    /\ hstate \in [HandleId -> HandleState]
    /\ waiters \in [HandleId -> SUBSET FiberId]
    /\ capped \in [HandleId -> BOOLEAN]
    /\ cappedCount \in Nat

HandleInit ==
    /\ hstate = [h \in HandleId |-> "absent"]
    /\ waiters = [h \in HandleId |-> {}]
    /\ capped = [h \in HandleId |-> FALSE]
    /\ cappedCount = 0

-----------------------------------------------------------------------------

HasCapacity == cappedCount < MaxHandles

CreatePending(h, counts) ==
    /\ hstate[h] = "absent"
    /\ counts => HasCapacity
    /\ hstate' = [hstate EXCEPT ![h] = "PENDING"]
    /\ capped' = [capped EXCEPT ![h] = counts]
    /\ cappedCount' = IF counts THEN cappedCount + 1 ELSE cappedCount
    /\ UNCHANGED waiters

(* A handle that is created and settled before its dispatch returns.       *)
CreateSettled(h, counts, outcome) ==
    /\ hstate[h] = "absent"
    /\ counts => HasCapacity
    /\ hstate' = [hstate EXCEPT ![h] = outcome]
    /\ capped' = [capped EXCEPT ![h] = counts]
    /\ cappedCount' = IF counts THEN cappedCount + 1 ELSE cappedCount
    /\ UNCHANGED waiters

AddWaiter(h, f) ==
    /\ waiters' = [waiters EXCEPT ![h] = @ \cup {f}]
    /\ UNCHANGED <<hstate, capped, cappedCount>>

(* Mutant: the deletion after a completion forgets the capped count.       *)
SettleHandleUncounted(h, outcome, w) ==
    /\ hstate[h] = "PENDING"
    /\ hstate' = [hstate EXCEPT ![h] = IF w[h] = {} THEN outcome ELSE "absent"]
    /\ waiters' = [w EXCEPT ![h] = {}]
    /\ UNCHANGED <<capped, cappedCount>>

(* resolve, reject or cancel, with the scheduler's completion callback: a  *)
(* settled handle whose waiters were resumed is deleted at once, one with  *)
(* no waiter stays for the AWAIT still to come.  w is who waits for what.  *)
SettleHandle(h, outcome, w) ==
    /\ hstate[h] = "PENDING"
    /\ hstate' = [hstate EXCEPT ![h] = IF w[h] = {} THEN outcome ELSE "absent"]
    /\ cappedCount' = IF w[h] # {} /\ capped[h] THEN cappedCount - 1 ELSE cappedCount
    /\ waiters' = [w EXCEPT ![h] = {}]
    /\ UNCHANGED capped

Sweepable == {h \in HandleId : hstate[h] \in Settled /\ waiters[h] = {}}

(* Mutant: the sweep counts down for uncapped handles too.                 *)
SweepHandlesAllCounted ==
    /\ hstate' = [h \in HandleId |-> IF h \in Sweepable THEN "absent" ELSE hstate[h]]
    /\ cappedCount' = cappedCount - Cardinality(Sweepable)
    /\ UNCHANGED <<waiters, capped>>

SweepHandles ==
    /\ hstate' = [h \in HandleId |-> IF h \in Sweepable THEN "absent" ELSE hstate[h]]
    /\ cappedCount' = cappedCount - Cardinality({h \in Sweepable : capped[h]})
    /\ UNCHANGED <<waiters, capped>>

-----------------------------------------------------------------------------

CappedLive == {h \in HandleId : Live(h) /\ capped[h]}

(* The counter behind the backpressure check is the number of live capped  *)
(* handles, and never exceeds the cap.                                     *)
CapAccounting ==
    /\ cappedCount = Cardinality(CappedLive)
    /\ cappedCount <= MaxHandles
=============================================================================
