---------------------------- MODULE FiberScheduler ----------------------------
(***************************************************************************)
(* The cooperative scheduler of the Wendoo VM: class FiberScheduler and    *)
(* the fiber life cycle of class VM (packages/core/src/runtime/vm.ts),     *)
(* over the handle table.                                                  *)
(*                                                                         *)
(* A fiber is a thread of bytecode.  What its code computes is abstracted: *)
(* while its slice lasts it may perform, in any order, every instruction   *)
(* that touches the scheduler or the handle table.  One tick is a round:   *)
(* the fibers queued at its start get one slice each, and the child rules  *)
(* a slice spawns run right behind it, depth first.  Everything inside     *)
(* think() is synchronous, so the host acts only between two thinks        *)
(* (phase "idle") or inside a host body the running fiber has called.      *)
(*                                                                         *)
(* The programs modelled here have no rule trigger, so the settle walk of  *)
(* a terminal transition finds no watcher (BrainRuntime.tla models it).  *)
(***************************************************************************)
EXTENDS HandleTable, RunQueue

CONSTANTS
    ActionHandleId,   \* handles that back a bytecode action's child fiber
    MaxFibers,        \* the scheduler's cap on the fibers it tracks
    StarveRounds,     \* HANDLE_BACKPRESSURE_FAULT_ROUNDS
    NoHandle

ASSUME SchedulerAssumption ==
    /\ ActionHandleId \subseteq HandleId
    /\ MaxFibers \in Nat
    /\ StarveRounds \in Nat \ {0}
    /\ NoHandle \notin HandleId

HostHandleId == HandleId \ ActionHandleId

VARIABLES
    kind,       \* "root" rule, "child" rule or bytecode "action" fiber
    await,      \* the handle a suspended fiber waits for
    held,       \* handles a fiber has dispatched and not awaited yet
    result,     \* asyncResultHandleId: the handle an action fiber will settle
    injected,   \* pendingInjectedThrow
    rounds      \* handleBackpressureRounds of the dispatch being retried

fiberVars == <<state, kind, await, held, result, injected, rounds>>
vars == <<handleVars, fiberVars, queueVars>>

TypeOK ==
    /\ HandleTypeOK
    /\ QueueTypeOK
    /\ kind \in [FiberId -> {"root", "child", "action"}]
    /\ await \in [FiberId -> HandleId \cup {NoHandle}]
    /\ held \in [FiberId -> SUBSET HandleId]
    /\ result \in [FiberId -> ActionHandleId \cup {NoHandle}]
    /\ injected \in [FiberId -> BOOLEAN]
    /\ rounds \in [FiberId -> Nat]

Init ==
    /\ HandleInit
    /\ QueueInit
    /\ kind = [f \in FiberId |-> "root"]
    /\ await = [f \in FiberId |-> NoHandle]
    /\ held = [f \in FiberId |-> {}]
    /\ result = [f \in FiberId |-> NoHandle]
    /\ injected = [f \in FiberId |-> FALSE]
    /\ rounds = [f \in FiberId |-> 0]

-----------------------------------------------------------------------------
(* Steps that several handlers share.                                      *)

(* A handle that the table lacks and that no operand stack holds.          *)
FreshHandle(h) == hstate[h] = "absent" /\ \A f \in FiberId : h \notin held[f]

(* The fiber and waiter state a settlement starts from: as it is now, or   *)
(* after f has made its terminal transition and left the handle it awaits. *)
Now == [state |-> state, await |-> await, injected |-> injected, waiters |-> waiters]

(* Mutant: a terminal transition leaves the fiber among the waiters.       *)
EndedStillWaiting(f, final) ==
    [state    |-> [state EXCEPT ![f] = final],
     await    |-> [await EXCEPT ![f] = NoHandle],
     injected |-> [injected EXCEPT ![f] = FALSE],
     waiters  |-> waiters]

Ended(f, final) ==
    [state    |-> [state EXCEPT ![f] = final],
     await    |-> [await EXCEPT ![f] = NoHandle],
     injected |-> [injected EXCEPT ![f] = FALSE],
     waiters  |-> [h \in HandleId |-> waiters[h] \ {f}]]

(* Mutant: a cancelled handle resumes nobody.                              *)
CompleteForgetsCancelled(h, outcome, b) ==
    LET woken == {f \in b.waiters[h] : b.state[f] = "WAITING" /\ outcome # "CANCELLED"}
    IN  /\ SettleHandle(h, outcome, b.waiters)
        /\ state' = [f \in FiberId |-> IF f \in woken THEN "RUNNABLE" ELSE b.state[f]]
        /\ await' = [f \in FiberId |-> IF f \in woken THEN NoHandle ELSE b.await[f]]
        /\ injected' = [f \in FiberId |-> IF f \in woken THEN outcome # "RESOLVED"
                                                         ELSE b.injected[f]]
        /\ \E order \in SetToSeqs(woken \ ToSet(runQueue)) :
              runQueue' = runQueue \o order

(* A handle settles and onHandleCompleted resumes its waiters; b is the    *)
(* state just before.                                                      *)
Complete(h, outcome, b) ==
    LET woken == {f \in b.waiters[h] : b.state[f] = "WAITING" /\ b.await[f] = h}
    IN  /\ SettleHandle(h, outcome, b.waiters)
        /\ state' = [f \in FiberId |-> IF f \in woken THEN "RUNNABLE" ELSE b.state[f]]
        /\ await' = [f \in FiberId |-> IF f \in woken THEN NoHandle ELSE b.await[f]]
        /\ injected' = [f \in FiberId |-> IF f \in woken THEN outcome # "RESOLVED"
                                                         ELSE b.injected[f]]
        /\ \E order \in SetToSeqs(woken \ ToSet(runQueue)) :
              runQueue' = runQueue \o order

(* Mutant: cancelling an action's fiber leaves its handle pending.         *)
FinishCancelUnsettled(f, final, outcome) ==
    LET h == result[f]
        b == Ended(f, final)
    IN  /\ IF h # NoHandle /\ hstate[h] = "PENDING" /\ final # "CANCELLED"
             THEN Complete(h, outcome, b)
             ELSE /\ state' = b.state
                  /\ await' = b.await
                  /\ injected' = b.injected
                  /\ waiters' = b.waiters
                  /\ UNCHANGED <<hstate, capped, cappedCount, runQueue>>
        /\ result' = [result EXCEPT ![f] = NoHandle]
        /\ held' = [held EXCEPT ![f] = {}]
        /\ rounds' = [rounds EXCEPT ![f] = 0]
        /\ UNCHANGED kind

(* A live fiber makes its terminal transition and settles the handle it    *)
(* owes if it runs a bytecode action.                                      *)
Finish(f, final, outcome) ==
    LET h == result[f]
        b == Ended(f, final)
    IN  /\ IF h # NoHandle /\ hstate[h] = "PENDING"
             THEN Complete(h, outcome, b)
             ELSE /\ state' = b.state
                  /\ await' = b.await
                  /\ injected' = b.injected
                  /\ waiters' = b.waiters
                  /\ UNCHANGED <<hstate, capped, cappedCount, runQueue>>
        /\ result' = [result EXCEPT ![f] = NoHandle]
        /\ held' = [held EXCEPT ![f] = {}]
        /\ rounds' = [rounds EXCEPT ![f] = 0]
        /\ UNCHANGED kind

Executing(f) == running = f /\ state[f] = "RUNNABLE" /\ ~injected[f]

(* f is at an instruction other than the dispatch it is retrying.          *)
Advancing(f) == Executing(f) /\ rounds[f] = 0

(* Host code has control: between thinks, in a body called by a fiber, or  *)
(* in one called by the System functions that follow the round.            *)
HostActs == phase = "idle" \/ RoundOver \/ \E f \in FiberId : Advancing(f)

-----------------------------------------------------------------------------
(* The scheduler.                                                          *)

(* scheduler.spawn of a root rule, by activatePage or thinkPage.           *)
Spawn(f) ==
    /\ phase = "idle"
    /\ FreshFiber(f)
    /\ Cardinality(Tracked) < MaxFibers
    /\ state' = [state EXCEPT ![f] = "RUNNABLE"]
    /\ kind' = [kind EXCEPT ![f] = "root"]
    /\ Enqueue(f)
    /\ UNCHANGED <<handleVars, await, held, result, injected, rounds,
                   spawned, cascade, round, running, phase>>

StartTick == OpenRound /\ UNCHANGED <<handleVars, fiberVars>>

RunNext ==
    /\ NextInRound \/ NextInCascade
    /\ UNCHANGED <<handleVars, kind, await, held, result, injected, rounds>>

(* The think ends with scheduler.gc().                                     *)
Gc ==
    /\ RoundOver
    /\ phase' = "idle"
    /\ state' = [f \in FiberId |-> IF state[f] \in Terminal THEN "absent" ELSE state[f]]
    /\ SweepHandles
    /\ UNCHANGED <<kind, await, held, result, injected, rounds,
                   runQueue, spawned, cascade, round, running>>

(* A System's think function faults: the error leaves think() before gc(). *)
SystemThinkFails ==
    /\ RoundOver
    /\ phase' = "idle"
    /\ UNCHANGED <<handleVars, fiberVars, runQueue, spawned, cascade, round, running>>

-----------------------------------------------------------------------------
(* Host code.                                                              *)

HostSettle(h, outcome) ==
    /\ HostActs
    /\ h \in HostHandleId
    /\ Complete(h, outcome, Now)
    /\ UNCHANGED <<kind, held, result, rounds, spawned, cascade, round, running, phase>>

(* requestPageChange and requestPageRestart: every root- and child-rule    *)
(* fiber is cancelled; the fibers of bytecode actions live on.             *)
PageFibers == {f \in FiberId : state[f] \in Alive /\ kind[f] # "action"}

CancelPage ==
    /\ HostActs
    /\ state' = [f \in FiberId |-> IF f \in PageFibers THEN "CANCELLED" ELSE state[f]]
    /\ await' = [f \in FiberId |-> IF f \in PageFibers THEN NoHandle ELSE await[f]]
    /\ held' = [f \in FiberId |-> IF f \in PageFibers THEN {} ELSE held[f]]
    /\ waiters' = [h \in HandleId |-> waiters[h] \ PageFibers]
    /\ UNCHANGED <<hstate, capped, cappedCount, kind, result, injected, rounds, queueVars>>

(* scheduler.cancel, called by the embedding host on one fiber.            *)
Cancel(f) ==
    /\ phase = "idle"
    /\ state[f] \in Alive
    /\ Finish(f, "CANCELLED", "CANCELLED")
    /\ UNCHANGED <<spawned, cascade, round, running, phase>>

-----------------------------------------------------------------------------
(* The instructions of the running fiber.                                  *)

(* A YIELD, or the end of the instruction budget.                          *)
Yield(f) ==
    /\ Advancing(f)
    /\ Enqueue(f)
    /\ EndSlice
    /\ UNCHANGED <<handleVars, fiberVars>>

(* HOST_CALL_ASYNC and HOST_ACTION_CALL_ASYNC: the host body may settle    *)
(* the handle before it returns.                                           *)
DispatchHost(f, h, counts, outcome) ==
    /\ Executing(f)
    /\ h \in HostHandleId
    /\ FreshHandle(h)
    /\ rounds[f] > 0 => counts
    /\ IF outcome = "PENDING" THEN CreatePending(h, counts)
                              ELSE CreateSettled(h, counts, outcome)
    /\ held' = [held EXCEPT ![f] = @ \cup {h}]
    /\ rounds' = [rounds EXCEPT ![f] = 0]
    /\ UNCHANGED <<state, kind, await, result, injected, queueVars>>

(* ACTION_CALL_ASYNC: a child fiber runs the action and settles h.         *)
DispatchAction(f, h, c) ==
    /\ Executing(f)
    /\ h \in ActionHandleId
    /\ FreshHandle(h)
    /\ FreshFiber(c)
    /\ Cardinality(Tracked) < MaxFibers
    /\ CreatePending(h, TRUE)
    /\ state' = [state EXCEPT ![c] = "RUNNABLE"]
    /\ kind' = [kind EXCEPT ![c] = "action"]
    /\ result' = [result EXCEPT ![c] = h]
    /\ held' = [held EXCEPT ![f] = @ \cup {h}]
    /\ rounds' = [rounds EXCEPT ![f] = 0]
    /\ Enqueue(c)
    /\ UNCHANGED <<await, injected, spawned, cascade, round, running, phase>>

(* No free handle: the fiber yields and retries the dispatch next round.   *)
Backpressure(f) ==
    /\ Executing(f)
    /\ ~HasCapacity
    /\ rounds[f] + 1 < StarveRounds
    /\ rounds' = [rounds EXCEPT ![f] = @ + 1]
    /\ Enqueue(f)
    /\ EndSlice
    /\ UNCHANGED <<handleVars, state, kind, await, held, result, injected>>

Starve(f) ==
    /\ Executing(f)
    /\ ~HasCapacity
    /\ rounds[f] + 1 >= StarveRounds
    /\ Finish(f, "FAULT", "REJECTED")
    /\ EndSlice

(* AWAIT of a settled handle; a rejection is caught by an active TRY.      *)
AwaitSettled(f, h) ==
    /\ Advancing(f)
    /\ h \in held[f] /\ hstate[h] \in Settled
    /\ held' = [held EXCEPT ![f] = @ \ {h}]
    /\ UNCHANGED <<handleVars, state, kind, await, result, injected, rounds, queueVars>>

(* Mutant: a slice that ends in a wait is put back on the queue.           *)
AwaitPendingRequeued(f, h) ==
    /\ Advancing(f)
    /\ h \in held[f] /\ hstate[h] = "PENDING"
    /\ state' = [state EXCEPT ![f] = "WAITING"]
    /\ await' = [await EXCEPT ![f] = h]
    /\ held' = [held EXCEPT ![f] = @ \ {h}]
    /\ AddWaiter(h, f)
    /\ Enqueue(f)
    /\ EndSlice
    /\ UNCHANGED <<kind, result, injected, rounds>>

AwaitPending(f, h) ==
    /\ Advancing(f)
    /\ h \in held[f] /\ hstate[h] = "PENDING"
    /\ state' = [state EXCEPT ![f] = "WAITING"]
    /\ await' = [await EXCEPT ![f] = h]
    /\ held' = [held EXCEPT ![f] = @ \ {h}]
    /\ AddWaiter(h, f)
    /\ EndSlice
    /\ UNCHANGED <<kind, result, injected, rounds, runQueue>>

(* AWAIT of a handle that is not in the table any more.                    *)
AwaitUnknown(f, h) ==
    /\ Advancing(f)
    /\ h \in held[f] /\ hstate[h] = "absent"
    /\ Finish(f, "FAULT", "REJECTED")
    /\ EndSlice

SpawnChild(f, c) ==
    /\ Advancing(f)
    /\ FreshFiber(c)
    /\ Cardinality(Tracked) < MaxFibers
    /\ state' = [state EXCEPT ![c] = "RUNNABLE"]
    /\ kind' = [kind EXCEPT ![c] = "child"]
    /\ spawned' = Append(spawned, c)
    /\ UNCHANGED <<handleVars, await, held, result, injected, rounds,
                   runQueue, cascade, round, running, phase>>

Return(f) ==
    /\ Advancing(f)
    /\ Finish(f, "DONE", "RESOLVED")
    /\ EndSlice

(* An uncaught throw, a host body that throws, or a cap that is exceeded.  *)
Fault(f) ==
    /\ Executing(f)
    /\ Finish(f, "FAULT", "REJECTED")
    /\ EndSlice

(* The failure of the handle a fiber awaited enters its exception path.    *)
CatchInjected(f) ==
    /\ running = f /\ state[f] = "RUNNABLE" /\ injected[f]
    /\ injected' = [injected EXCEPT ![f] = FALSE]
    /\ UNCHANGED <<handleVars, state, kind, await, held, result, rounds, queueVars>>

FaultInjected(f) ==
    /\ running = f /\ state[f] = "RUNNABLE" /\ injected[f]
    /\ Finish(f, "FAULT", "REJECTED")
    /\ EndSlice

(* The running fiber was cancelled by a host body it called.  If that body *)
(* returns, the slice stops before the next instruction; if the call then  *)
(* fails, faulting a cancelled fiber is an invalid transition, whose error *)
(* leaves tick() and think().                                              *)
LeaveCancelled(f) ==
    /\ running = f /\ state[f] = "CANCELLED"
    /\ EndSlice
    /\ UNCHANGED <<handleVars, fiberVars, runQueue>>

ErrorEscapes(f) ==
    /\ running = f /\ state[f] = "CANCELLED"
    /\ AbandonTick
    /\ UNCHANGED <<handleVars, kind, await, held, result, injected, rounds>>

-----------------------------------------------------------------------------

Instruction(f) ==
    \/ Yield(f) \/ Backpressure(f) \/ Starve(f)
    \/ Return(f) \/ Fault(f) \/ CatchInjected(f) \/ FaultInjected(f)
    \/ LeaveCancelled(f) \/ ErrorEscapes(f)
    \/ \E h \in HandleId :
          \/ AwaitSettled(f, h) \/ AwaitPending(f, h) \/ AwaitUnknown(f, h)
          \/ \E c \in FiberId : DispatchAction(f, h, c)
          \/ \E counts \in BOOLEAN, outcome \in {"PENDING"} \cup Settled :
                DispatchHost(f, h, counts, outcome)
    \/ \E c \in FiberId : SpawnChild(f, c)

Scheduling == StartTick \/ RunNext \/ Gc \/ SystemThinkFails

Host ==
    \/ \E f \in FiberId : Spawn(f) \/ Cancel(f)
    \/ \E h \in HandleId, outcome \in Settled : HostSettle(h, outcome)
    \/ CancelPage

Next == Scheduling \/ Host \/ \E f \in FiberId : Instruction(f)

Spec == Init /\ [][Next]_vars

-----------------------------------------------------------------------------
(* Properties.                                                             *)

(* No wake-up is lost: a suspended fiber waits for a handle that is still  *)
(* pending and that lists it as a waiter, and whoever a handle lists is    *)
(* suspended on that handle.  Settlements, cancellations, faults and the   *)
(* sweep all have to keep the two sides together.                          *)
NoLostWakeup ==
    /\ \A f \in FiberId : state[f] = "WAITING" =>
          /\ await[f] \in HandleId
          /\ hstate[await[f]] = "PENDING"
          /\ f \in waiters[await[f]]
    /\ \A h \in HandleId : \A f \in waiters[h] : state[f] = "WAITING" /\ await[f] = h

(* Every runnable fiber is running or queued somewhere it will be taken    *)
(* from, also after an error has thrown away the rest of a tick; a fiber   *)
(* is queued at most once over the three queues, and a running or a        *)
(* suspended one not at all, so no fiber gets two slices from one wake.    *)
QueuedOnce ==
    /\ \A f \in FiberId : state[f] = "RUNNABLE" =>
          f = running \/ f \in ToSet(Pending)
    /\ \A i, j \in DOMAIN Pending : Pending[i] = Pending[j] => i = j
    /\ running \notin ToSet(Pending)
    /\ \A f \in ToSet(Pending) : state[f] # "WAITING"

(* The call of a bytecode action is answered exactly once: while its       *)
(* handle is pending one live fiber owes it a settlement, and a fiber that *)
(* owes one finds the handle still pending.                                *)
ActionOwed ==
    /\ \A h \in ActionHandleId : hstate[h] = "PENDING" =>
          \E f \in FiberId : state[f] \in Alive /\ result[f] = h
    /\ \A f, g \in FiberId : result[f] # NoHandle =>
          /\ hstate[result[f]] = "PENDING"
          /\ result[f] = result[g] => f = g
    /\ \A f \in FiberId : result[f] # await[f] \/ await[f] = NoHandle

(* A child rule gets its first slice in the think that spawns it: when the *)
(* think is over nobody is left waiting in the spawn drain, whichever way  *)
(* the think ended.                                                        *)
SameThinkCascade ==
    phase = "idle" =>
        \A f \in ToSet(spawned \o cascade) : state[f] # "RUNNABLE"

-----------------------------------------------------------------------------
(* Liveness.  The host keeps calling think(), a slice ends because its     *)
(* instruction budget is finite, and a host body settles every handle it   *)
(* was given (its obligation under the VM contract).                       *)

SliceAdvances(f) ==
    \/ Yield(f) \/ Backpressure(f) \/ Starve(f) \/ CatchInjected(f) \/ LeaveCancelled(f)

Fairness ==
    /\ WF_vars(StartTick)
    /\ WF_vars(RunNext)
    /\ WF_vars(Gc)
    /\ \A f \in FiberId : WF_vars(Instruction(f)) /\ WF_vars(SliceAdvances(f))
    /\ \A h \in HostHandleId : SF_vars(\E outcome \in Settled : HostSettle(h, outcome))

FairSpec == Spec /\ Fairness

(* No starvation: a runnable fiber gets a slice, or is cancelled first.    *)
EveryRunnableRuns ==
    \A f \in FiberId : state[f] = "RUNNABLE" ~> (running = f \/ state[f] # "RUNNABLE")

(* A fiber that waits for the host runs again or is cancelled; a fiber     *)
(* that retries a dispatch does not do so for ever.                        *)
WaitsEnd ==
    \A f \in FiberId :
        /\ \A h \in HostHandleId : await[f] = h ~> await[f] # h
        /\ rounds[f] > 0 ~> (rounds[f] = 0 \/ state[f] \notin Alive)
=============================================================================
