------------------------- MODULE FiberSchedulerProofs -------------------------
(***************************************************************************)
(* Invariants of the fiber scheduler, for every set of fibers and handles  *)
(* and every value of the caps.                                            *)
(***************************************************************************)
EXTENDS FiberRounds, FiniteSetTheorems, TLAPS

-----------------------------------------------------------------------------
(* The operations of the handle table keep its types and the count behind  *)
(* the backpressure check.  The count has to be exact for it to stay a     *)
(* natural number, so the two facts are one inductive invariant.           *)

HandleInv == HandleTypeOK /\ CapAccounting

LEMMA CappedLiveFinite ==
    /\ IsFiniteSet(CappedLive)
    /\ Cardinality(CappedLive) \in Nat
<1>1. IsFiniteSet(HandleId)
  BY HandleTableAssumption
<1>2. CappedLive \in SUBSET HandleId
  BY DEF CappedLive
<1>3. IsFiniteSet(CappedLive)
  BY <1>1, <1>2, FS_Subset
<1> QED
  BY <1>3, FS_CardinalityType

(* The table is empty at the start.                                        *)
LEMMA HandleInitInv == HandleInit => HandleInv
<1> SUFFICES ASSUME HandleInit PROVE HandleInv
  OBVIOUS
<1>1. HandleTypeOK
  BY DEF HandleInit, HandleTypeOK, HandleState
<1>2. CappedLive = {}
  BY DEF HandleInit, CappedLive, Live
<1> QED
  BY <1>1, <1>2, FS_EmptySet, HandleTableAssumption
     DEF HandleInv, CapAccounting, HandleInit

(* Creating a handle adds it to the counted ones if it is capped.          *)
LEMMA CreateInv ==
    ASSUME HandleInv, NEW h \in HandleId, NEW counts \in BOOLEAN,
           NEW st \in HandleState \ {"absent"},
           hstate[h] = "absent",
           counts => HasCapacity,
           hstate' = [hstate EXCEPT ![h] = st],
           capped' = [capped EXCEPT ![h] = counts],
           cappedCount' = IF counts THEN cappedCount + 1 ELSE cappedCount,
           waiters' \in [HandleId -> SUBSET FiberId]
    PROVE  HandleInv'
<1>1. HandleTypeOK'
  <2>1. hstate' \in [HandleId -> HandleState]
    BY DEF HandleInv, HandleTypeOK
  <2>2. capped' \in [HandleId -> BOOLEAN]
    BY DEF HandleInv, HandleTypeOK
  <2>3. cappedCount' \in Nat
    BY DEF HandleInv, HandleTypeOK
  <2> QED
    BY <2>1, <2>2, <2>3 DEF HandleTypeOK
<1>2. CappedLive' = IF counts THEN CappedLive \cup {h} ELSE CappedLive
  BY DEF HandleInv, HandleTypeOK, CappedLive, Live
<1>3. h \notin CappedLive
  BY DEF CappedLive, Live
<1>4. Cardinality(CappedLive') = IF counts THEN Cardinality(CappedLive) + 1
                                           ELSE Cardinality(CappedLive)
  BY <1>2, <1>3, CappedLiveFinite, FS_AddElement
<1>5. cappedCount' <= MaxHandles
  BY CappedLiveFinite, HandleTableAssumption DEF HandleInv, CapAccounting, HasCapacity
<1> QED
  BY <1>1, <1>4, <1>5 DEF HandleInv, CapAccounting

LEMMA CreatePendingInv ==
    ASSUME HandleInv, NEW h \in HandleId, NEW counts \in BOOLEAN,
           CreatePending(h, counts)
    PROVE  HandleInv'
BY CreateInv DEF CreatePending, HandleInv, HandleTypeOK, HandleState

LEMMA CreateSettledInv ==
    ASSUME HandleInv, NEW h \in HandleId, NEW counts \in BOOLEAN,
           NEW outcome \in Settled, CreateSettled(h, counts, outcome)
    PROVE  HandleInv'
BY CreateInv DEF CreateSettled, HandleInv, HandleTypeOK, HandleState, Settled

(* A settlement deletes the handle when it resumed a waiter.               *)
LEMMA SettleHandleInv ==
    ASSUME HandleInv, NEW h \in HandleId, NEW outcome \in Settled,
           NEW w \in [HandleId -> SUBSET FiberId], SettleHandle(h, outcome, w)
    PROVE  HandleInv'
<1> DEFINE deleted == w[h] # {}
<1>1. hstate' = [hstate EXCEPT ![h] = IF deleted THEN "absent" ELSE outcome]
  BY DEF SettleHandle
<1>2. capped' = capped /\ hstate[h] = "PENDING" /\ waiters' \in [HandleId -> SUBSET FiberId]
  BY DEF SettleHandle
<1>3. h \in CappedLive <=> capped[h]
  BY <1>2 DEF CappedLive, Live
<1>4. CappedLive' = IF deleted THEN CappedLive \ {h} ELSE CappedLive
  <2>1. outcome # "absent"
    BY DEF Settled
  <2>2. \A g \in HandleId : hstate'[g] = IF g = h THEN IF deleted THEN "absent" ELSE outcome
                                                  ELSE hstate[g]
    BY <1>1 DEF HandleInv, HandleTypeOK
  <2> QED
    BY <2>1, <2>2, <1>2 DEF CappedLive, Live
<1>5. Cardinality(CappedLive') = IF deleted /\ capped[h] THEN Cardinality(CappedLive) - 1
                                                        ELSE Cardinality(CappedLive)
  BY <1>3, <1>4, CappedLiveFinite, FS_RemoveElement
<1>6. cappedCount' = IF deleted /\ capped[h] THEN cappedCount - 1 ELSE cappedCount
  BY DEF SettleHandle
<1>7. cappedCount' = Cardinality(CappedLive')
  BY <1>5, <1>6 DEF HandleInv, CapAccounting
<1>8. cappedCount' \in Nat
  <2>1. IsFiniteSet(CappedLive')
    BY <1>4, CappedLiveFinite, FS_RemoveElement
  <2> QED
    BY <1>7, <2>1, FS_CardinalityType
<1>9. hstate' \in [HandleId -> HandleState]
  BY <1>1 DEF HandleInv, HandleTypeOK, HandleState
<1>10. HandleTypeOK'
  BY <1>2, <1>8, <1>9 DEF HandleInv, HandleTypeOK
<1> QED
  BY <1>6, <1>7, <1>10, HandleTableAssumption DEF HandleInv, CapAccounting, HandleTypeOK

(* A sweep takes the settled handles nobody waits for out of the count.    *)
LEMMA SweepHandlesInv ==
    ASSUME HandleInv, SweepHandles
    PROVE  HandleInv'
<1> DEFINE swept == {h \in Sweepable : capped[h]}
<1>1. swept \subseteq CappedLive
  BY DEF Sweepable, CappedLive, Live, Settled
<1>2. CappedLive' = CappedLive \ swept
  BY DEF SweepHandles, Sweepable, CappedLive, Live, HandleInv, HandleTypeOK
<1>3. /\ IsFiniteSet(CappedLive')
      /\ Cardinality(CappedLive') = Cardinality(CappedLive) - Cardinality(swept)
  <2>1. CappedLive \cap swept = swept
    BY <1>1
  <2>2. IsFiniteSet(CappedLive)
    BY CappedLiveFinite
  <2>3. /\ IsFiniteSet(CappedLive \ swept)
        /\ Cardinality(CappedLive \ swept)
              = Cardinality(CappedLive) - Cardinality(CappedLive \cap swept)
    BY <2>2, FS_Difference
  <2> HIDE DEF swept
  <2> QED
    BY <1>2, <2>1, <2>3
<1>4. Cardinality(swept) \in Nat
  BY <1>1, CappedLiveFinite, FS_Subset, FS_CardinalityType
<1>5. cappedCount' = Cardinality(CappedLive') /\ cappedCount' \in Nat
  BY <1>3, FS_CardinalityType DEF SweepHandles, HandleInv, CapAccounting
<1>6. cappedCount' <= MaxHandles
  BY <1>3, <1>4, <1>5, CappedLiveFinite, HandleTableAssumption DEF HandleInv, CapAccounting
<1>7. HandleTypeOK'
  BY <1>5 DEF SweepHandles, HandleInv, HandleTypeOK, HandleState
<1> QED
  BY <1>5, <1>6, <1>7 DEF HandleInv, CapAccounting

(* Nothing but the waiters changes.                                        *)
LEMMA WaitersInv ==
    ASSUME HandleInv, UNCHANGED <<hstate, capped, cappedCount>>,
           waiters' \in [HandleId -> SUBSET FiberId]
    PROVE  HandleInv'
BY DEF HandleInv, HandleTypeOK, CapAccounting, CappedLive, Live

-----------------------------------------------------------------------------
(* The types of the scheduler.                                             *)

(* The part of the state a settlement starts from.                         *)
Moment ==
    [state    : [FiberId -> FiberState],
     await    : [FiberId -> HandleId \cup {NoHandle}],
     injected : [FiberId -> BOOLEAN],
     waiters  : [HandleId -> SUBSET FiberId]]

LEMMA OrderIsSeq ==
    ASSUME NEW S \in SUBSET FiberId, NEW order \in SetToSeqs(S)
    PROVE  order \in Seq(FiberId)
<1>1. Cardinality(S) \in Nat
  BY FibersAssumption, FS_Subset, FS_CardinalityType
<1>2. order \in [1 .. Cardinality(S) -> FiberId]
  BY DEF SetToSeqs
<1> QED
  BY <1>1, <1>2

LEMMA NowMoment == TypeOK => Now \in Moment
BY DEF TypeOK, HandleTypeOK, QueueTypeOK, Now, Moment

LEMMA EndedMoment ==
    ASSUME TypeOK, NEW f \in FiberId, NEW final \in Terminal
    PROVE  Ended(f, final) \in Moment
BY DEF TypeOK, HandleTypeOK, QueueTypeOK, Ended, Moment, FiberState

(* Enqueueing, and appending the fibers a settlement wakes, only make the  *)
(* run queue longer.                                                       *)
LEMMA EnqueueType ==
    ASSUME TypeOK, NEW f \in FiberId, Enqueue(f)
    PROVE  runQueue' \in Seq(FiberId) /\ Len(runQueue') >= Len(runQueue)
BY DEF TypeOK, QueueTypeOK, Enqueue

LEMMA CompleteType ==
    ASSUME TypeOK, CapAccounting,
           NEW h \in HandleId, NEW outcome \in Settled, NEW b \in Moment,
           Complete(h, outcome, b)
    PROVE  /\ HandleInv'
           /\ state' \in [FiberId -> FiberState]
           /\ await' \in [FiberId -> HandleId \cup {NoHandle}]
           /\ injected' \in [FiberId -> BOOLEAN]
           /\ runQueue' \in Seq(FiberId) /\ Len(runQueue') >= Len(runQueue)
<1> DEFINE woken == {f \in b.waiters[h] : b.state[f] = "WAITING" /\ b.await[f] = h}
<1>1. HandleInv'
  BY SettleHandleInv DEF Complete, HandleInv, TypeOK, Moment
<1>2. /\ state' \in [FiberId -> FiberState]
      /\ await' \in [FiberId -> HandleId \cup {NoHandle}]
  BY DEF Complete, Moment, FiberState, Alive
<1>3. injected' \in [FiberId -> BOOLEAN]
  <2>1. \A f \in FiberId : b.injected[f] \in BOOLEAN
    BY DEF Moment
  <2> QED
    BY <2>1 DEF Complete
<1>4. PICK order \in SetToSeqs(woken \ ToSet(runQueue)) : runQueue' = runQueue \o order
  BY DEF Complete
<1>5. woken \ ToSet(runQueue) \in SUBSET FiberId
  BY DEF Moment
<1>6. order \in Seq(FiberId)
  BY <1>5, OrderIsSeq
<1>7. runQueue' \in Seq(FiberId) /\ Len(runQueue') >= Len(runQueue)
  BY <1>4, <1>6 DEF TypeOK, QueueTypeOK
<1> QED
  BY <1>1, <1>2, <1>3, <1>7
(* What a step may do to the types, apart from the queues of the tick.     *)
StepType ==
    /\ HandleInv'
    /\ state' \in [FiberId -> FiberState]
    /\ kind' \in [FiberId -> {"root", "child", "action"}]
    /\ await' \in [FiberId -> HandleId \cup {NoHandle}]
    /\ held' \in [FiberId -> SUBSET HandleId]
    /\ result' \in [FiberId -> ActionHandleId \cup {NoHandle}]
    /\ injected' \in [FiberId -> BOOLEAN]
    /\ rounds' \in [FiberId -> Nat]
    /\ runQueue' \in Seq(FiberId)

LEMMA FinishType ==
    ASSUME TypeOK, CapAccounting,
           NEW f \in FiberId, NEW final \in Terminal, NEW outcome \in Settled,
           Finish(f, final, outcome)
    PROVE  StepType /\ Len(runQueue') >= Len(runQueue)
<1> DEFINE h == result[f]
           b == Ended(f, final)
<1>1. b \in Moment
  BY EndedMoment
<1>2. /\ kind' \in [FiberId -> {"root", "child", "action"}]
      /\ held' \in [FiberId -> SUBSET HandleId]
      /\ result' \in [FiberId -> ActionHandleId \cup {NoHandle}]
      /\ rounds' \in [FiberId -> Nat]
  BY DEF Finish, TypeOK
<1>3. CASE h # NoHandle /\ hstate[h] = "PENDING"
  <2>1. h \in HandleId
    BY <1>3, SchedulerAssumption DEF TypeOK
  <2>2. Complete(h, outcome, b)
    BY <1>3 DEF Finish
  <2> HIDE DEF h, b
  <2> QED
    BY <1>1, <1>2, <2>1, <2>2, CompleteType DEF StepType
<1>4. CASE ~(h # NoHandle /\ hstate[h] = "PENDING")
  <2>1. /\ state' = b.state /\ await' = b.await
        /\ injected' = b.injected /\ waiters' = b.waiters
        /\ UNCHANGED <<hstate, capped, cappedCount, runQueue>>
    BY <1>4 DEF Finish
  <2> HIDE DEF b
  <2>2. HandleInv'
    BY <1>1, <2>1, WaitersInv DEF Moment, HandleInv, TypeOK
  <2>3. Len(runQueue) \in Nat
    BY DEF TypeOK, QueueTypeOK
  <2> QED
    BY <1>1, <1>2, <2>1, <2>2, <2>3 DEF StepType, Moment, TypeOK, QueueTypeOK
<1> QED
  BY <1>3, <1>4

(* The types hold again when a step keeps the queues of the tick.          *)
LEMMA KeepsTick ==
    ASSUME TypeOK, StepType, Len(runQueue') >= Len(runQueue),
           UNCHANGED <<spawned, cascade, round, running, phase>>
    PROVE  TypeOK' /\ CapAccounting'
BY DEF TypeOK, QueueTypeOK, StepType, HandleInv

(* ... and when it ends the slice of the running fiber.                    *)
LEMMA EndsSlice ==
    ASSUME TypeOK, StepType, Len(runQueue') >= Len(runQueue), EndSlice
    PROVE  TypeOK' /\ CapAccounting'
BY DEF TypeOK, QueueTypeOK, StepType, HandleInv, EndSlice

LEMMA FinishKeepsTick ==
    ASSUME TypeOK, CapAccounting,
           NEW f \in FiberId, NEW final \in Terminal, NEW outcome \in Settled,
           Finish(f, final, outcome)
    PROVE  /\ UNCHANGED <<spawned, cascade, round, running, phase>> => TypeOK' /\ CapAccounting'
           /\ EndSlice => TypeOK' /\ CapAccounting'
BY FinishType, KeepsTick, EndsSlice

-----------------------------------------------------------------------------

LEMMA InitType == Init => TypeOK /\ CapAccounting
BY HandleInitInv DEF Init, TypeOK, HandleInv, QueueTypeOK, QueueInit, FiberState

LEMMA SchedulingType ==
    ASSUME TypeOK, CapAccounting, Scheduling
    PROVE  TypeOK' /\ CapAccounting'
<1>1. HandleInv
  BY DEF TypeOK, HandleInv
<1>2. CASE StartTick
  BY <1>1, <1>2, WaitersInv
     DEF StartTick, OpenRound, TypeOK, QueueTypeOK, HandleTypeOK, HandleInv,
         handleVars, fiberVars
<1>3. CASE RunNext
  <2>1. HandleInv' /\ UNCHANGED <<state, kind, await, held, result, injected, rounds>>
    BY <1>1, <1>3, WaitersInv
       DEF RunNext, NextInRound, NextInCascade, TypeOK, HandleTypeOK, handleVars
  <2>2. CASE NextInRound
    <3>1. round \in 1 .. Len(runQueue) /\ runQueue # << >>
      BY <2>2 DEF NextInRound, TypeOK, QueueTypeOK
    <3>2. runQueue' \in Seq(FiberId) /\ Len(runQueue') = Len(runQueue) - 1
      BY <2>2, <3>1 DEF NextInRound, TypeOK, QueueTypeOK
    <3>3. Head(runQueue) \in FiberId
      BY <3>1 DEF TypeOK, QueueTypeOK
    <3>4. QueueTypeOK'
      BY <2>2, <3>1, <3>2, <3>3 DEF NextInRound, TypeOK, QueueTypeOK
    <3> QED
      BY <2>1, <3>4 DEF TypeOK, HandleInv
  <2>3. CASE NextInCascade
    <3>1. cascade' \in Seq(FiberId) /\ Head(cascade) \in FiberId
      BY <2>3 DEF NextInCascade, TypeOK, QueueTypeOK
    <3>2. QueueTypeOK'
      BY <2>3, <3>1 DEF NextInCascade, TypeOK, QueueTypeOK
    <3> QED
      BY <2>1, <3>2 DEF TypeOK, HandleInv
  <2> QED
    BY <1>3, <2>2, <2>3 DEF RunNext
<1>4. CASE Gc
  <2>1. HandleInv'
    BY <1>1, <1>4, SweepHandlesInv DEF Gc
  <2>2. state' \in [FiberId -> FiberState]
    BY <1>4 DEF Gc, TypeOK, QueueTypeOK, FiberState
  <2> QED
    BY <1>4, <2>1, <2>2 DEF Gc, TypeOK, QueueTypeOK, HandleInv
<1>5. CASE SystemThinkFails
  BY <1>1, <1>5, WaitersInv
     DEF SystemThinkFails, TypeOK, QueueTypeOK, HandleTypeOK, HandleInv,
         handleVars, fiberVars
<1> QED
  BY <1>2, <1>3, <1>4, <1>5 DEF Scheduling

LEMMA HostType ==
    ASSUME TypeOK, CapAccounting, Host
    PROVE  TypeOK' /\ CapAccounting'
<1>1. HandleInv
  BY DEF TypeOK, HandleInv
<1>2. ASSUME NEW f \in FiberId, Spawn(f)
      PROVE  TypeOK' /\ CapAccounting'
  <2>1. HandleInv'
    BY <1>1, <1>2, WaitersInv DEF Spawn, handleVars, TypeOK, HandleTypeOK
  <2>2. runQueue' \in Seq(FiberId) /\ Len(runQueue') >= Len(runQueue)
    BY <1>2, EnqueueType DEF Spawn
  <2>3. StepType
    BY <1>2, <2>1, <2>2 DEF Spawn, StepType, TypeOK, QueueTypeOK, FiberState, Alive
  <2> QED
    BY <1>2, <2>2, <2>3, KeepsTick DEF Spawn
<1>3. ASSUME NEW f \in FiberId, Cancel(f)
      PROVE  TypeOK' /\ CapAccounting'
  BY <1>3, FinishKeepsTick DEF Cancel, Terminal, Settled
<1>4. ASSUME NEW h \in HandleId, NEW outcome \in Settled, HostSettle(h, outcome)
      PROVE  TypeOK' /\ CapAccounting'
  <2>1. Complete(h, outcome, Now)
    BY <1>4 DEF HostSettle
  <2>2. StepType /\ Len(runQueue') >= Len(runQueue)
    BY <1>4, <2>1, NowMoment, CompleteType DEF HostSettle, StepType, TypeOK
  <2> QED
    BY <1>4, <2>2, KeepsTick DEF HostSettle
<1>5. CASE CancelPage
  <2>1. waiters' \in [HandleId -> SUBSET FiberId]
    BY <1>5 DEF CancelPage, TypeOK, HandleTypeOK
  <2>2. HandleInv'
    BY <1>1, <1>5, <2>1, WaitersInv DEF CancelPage
  <2>3. state' \in [FiberId -> FiberState]
    BY <1>5 DEF CancelPage, TypeOK, QueueTypeOK, FiberState, Terminal
  <2> QED
    BY <1>5, <2>2, <2>3 DEF CancelPage, TypeOK, QueueTypeOK, HandleInv, queueVars
<1> QED
  BY <1>2, <1>3, <1>4, <1>5 DEF Host

LEMMA InstructionType ==
    ASSUME TypeOK, CapAccounting, NEW f \in FiberId, Instruction(f)
    PROVE  TypeOK' /\ CapAccounting'
<1>1. HandleInv /\ Len(runQueue) \in Nat
  BY DEF TypeOK, HandleInv, QueueTypeOK
<1>2. UNCHANGED handleVars => HandleInv'
  BY <1>1, WaitersInv DEF handleVars, TypeOK, HandleTypeOK
<1>3. CASE Yield(f)
  <2>1. StepType /\ Len(runQueue') >= Len(runQueue)
    BY <1>2, <1>3, EnqueueType DEF Yield, fiberVars, StepType, TypeOK, QueueTypeOK
  <2> QED
    BY <1>3, <2>1, EndsSlice DEF Yield
<1>4. CASE Backpressure(f)
  <2>1. StepType /\ Len(runQueue') >= Len(runQueue)
    BY <1>2, <1>4, EnqueueType DEF Backpressure, StepType, TypeOK, QueueTypeOK
  <2> QED
    BY <1>4, <2>1, EndsSlice DEF Backpressure
<1>5. CASE Starve(f) \/ Return(f) \/ Fault(f) \/ FaultInjected(f)
  BY <1>5, FinishKeepsTick
     DEF Starve, Return, Fault, FaultInjected, Terminal, Settled
<1>6. CASE CatchInjected(f)
  <2>1. StepType
    BY <1>2, <1>6 DEF CatchInjected, StepType, TypeOK, QueueTypeOK, queueVars
  <2> QED
    BY <1>1, <1>6, <2>1, KeepsTick DEF CatchInjected, queueVars
<1>7. CASE LeaveCancelled(f)
  <2>1. StepType
    BY <1>2, <1>7 DEF LeaveCancelled, fiberVars, StepType, TypeOK, QueueTypeOK
  <2> QED
    BY <1>1, <1>7, <2>1, EndsSlice DEF LeaveCancelled
<1>8. CASE ErrorEscapes(f)
  BY <1>2, <1>8 DEF ErrorEscapes, AbandonTick, TypeOK, QueueTypeOK, HandleInv
<1>9. ASSUME NEW h \in HandleId, AwaitSettled(f, h)
      PROVE  TypeOK' /\ CapAccounting'
  <2>1. StepType
    BY <1>2, <1>9 DEF AwaitSettled, StepType, TypeOK, QueueTypeOK, queueVars
  <2> QED
    BY <1>1, <1>9, <2>1, KeepsTick DEF AwaitSettled, queueVars
<1>10. ASSUME NEW h \in HandleId, AwaitPending(f, h)
       PROVE  TypeOK' /\ CapAccounting'
  <2>1. HandleInv'
    BY <1>1, <1>10, WaitersInv DEF AwaitPending, AddWaiter, TypeOK, HandleTypeOK
  <2>2. StepType
    BY <1>10, <2>1
       DEF AwaitPending, StepType, TypeOK, QueueTypeOK, FiberState, Alive
  <2> QED
    BY <1>1, <1>10, <2>2, EndsSlice DEF AwaitPending
<1>11. ASSUME NEW h \in HandleId, AwaitUnknown(f, h)
       PROVE  TypeOK' /\ CapAccounting'
  BY <1>11, FinishKeepsTick DEF AwaitUnknown, Terminal, Settled
<1>12. ASSUME NEW h \in HandleId, NEW c \in FiberId, DispatchAction(f, h, c)
       PROVE  TypeOK' /\ CapAccounting'
  <2>1. HandleInv'
    BY <1>1, <1>12, CreatePendingInv DEF DispatchAction
  <2>2. runQueue' \in Seq(FiberId) /\ Len(runQueue') >= Len(runQueue)
    BY <1>12, EnqueueType DEF DispatchAction
  <2>3. StepType
    BY <1>12, <2>1, <2>2
       DEF DispatchAction, StepType, TypeOK, QueueTypeOK, FiberState, Alive
  <2> QED
    BY <1>12, <2>2, <2>3, KeepsTick DEF DispatchAction
<1>13. ASSUME NEW h \in HandleId, NEW counts \in BOOLEAN,
              NEW outcome \in {"PENDING"} \cup Settled,
              DispatchHost(f, h, counts, outcome)
       PROVE  TypeOK' /\ CapAccounting'
  <2>1. HandleInv'
    BY <1>1, <1>13, CreatePendingInv, CreateSettledInv DEF DispatchHost
  <2>2. StepType
    BY <1>13, <2>1 DEF DispatchHost, StepType, TypeOK, QueueTypeOK, queueVars
  <2> QED
    BY <1>1, <1>13, <2>2, KeepsTick DEF DispatchHost, queueVars
<1>14. ASSUME NEW c \in FiberId, SpawnChild(f, c)
       PROVE  TypeOK' /\ CapAccounting'
  <2>1. state' \in [FiberId -> FiberState] /\ spawned' \in Seq(FiberId)
    BY <1>14 DEF SpawnChild, TypeOK, QueueTypeOK, FiberState, Alive
  <2> QED
    BY <1>2, <1>14, <2>1 DEF SpawnChild, TypeOK, QueueTypeOK, HandleInv
<1> QED
  BY <1>3, <1>4, <1>5, <1>6, <1>7, <1>8, <1>9, <1>10, <1>11, <1>12, <1>13, <1>14
     DEF Instruction

(* The type invariant and the count behind the backpressure check, which   *)
(* the type invariant needs: the count of a table whose entries are gone   *)
(* would otherwise become negative.                                        *)
THEOREM TypeCorrect == Spec => [](TypeOK /\ CapAccounting)
<1>1. Init => TypeOK /\ CapAccounting
  BY InitType
<1>2. TypeOK /\ CapAccounting /\ [Next]_vars => TypeOK' /\ CapAccounting'
  <2> SUFFICES ASSUME TypeOK, CapAccounting, [Next]_vars
               PROVE  TypeOK' /\ CapAccounting'
    OBVIOUS
  <2>1. CASE UNCHANGED vars
    BY <2>1, WaitersInv
       DEF vars, handleVars, fiberVars, queueVars, TypeOK, HandleTypeOK, QueueTypeOK,
           HandleInv
  <2> QED
    BY <2>1, SchedulingType, HostType, InstructionType DEF Next
<1> QED
  BY <1>1, <1>2, PTL DEF Spec

(* The counter behind the backpressure check counts the live capped        *)
(* handles and stays within the cap.                                       *)
THEOREM CapAccounted == Spec => []CapAccounting
BY TypeCorrect, PTL

-----------------------------------------------------------------------------
(* No lost wake-up.  Parked says of a moment what NoLostWakeup says of a   *)
(* state: it is inductive as it stands, given the types.                   *)

Parked(b) ==
    /\ \A f \in FiberId : b.state[f] = "WAITING" =>
          /\ b.await[f] \in HandleId
          /\ hstate[b.await[f]] = "PENDING"
          /\ f \in b.waiters[b.await[f]]
    /\ \A h \in HandleId : \A f \in b.waiters[h] : b.state[f] = "WAITING" /\ b.await[f] = h

LEMMA NowParked == NoLostWakeup => Parked(Now)
BY DEF NoLostWakeup, Parked, Now

(* A fiber that ends leaves the list of the handle it waited for.          *)
LEMMA EndedParked ==
    ASSUME TypeOK, NoLostWakeup, NEW f \in FiberId, NEW final \in Terminal
    PROVE  Parked(Ended(f, final))
<1>1. \A g \in FiberId : Ended(f, final).state[g] = "WAITING" => g # f
  BY DEF Ended, TypeOK, QueueTypeOK, Terminal
<1>2. \A g \in FiberId : g # f =>
         /\ Ended(f, final).state[g] = state[g]
         /\ Ended(f, final).await[g] = await[g]
  BY DEF Ended, TypeOK, QueueTypeOK
<1>3. \A h \in HandleId : Ended(f, final).waiters[h] = waiters[h] \ {f}
  BY DEF Ended
<1>4. \A h \in HandleId : waiters[h] \subseteq FiberId
  BY DEF TypeOK, HandleTypeOK
<1> HIDE DEF Ended
<1> QED
  BY <1>1, <1>2, <1>3, <1>4 DEF NoLostWakeup, Parked

(* A completion resumes every waiter of its handle and nobody else.        *)
LEMMA CompleteWakeup ==
    ASSUME TypeOK, NEW h \in HandleId, NEW outcome \in Settled,
           NEW b \in Moment, Parked(b), Complete(h, outcome, b)
    PROVE  NoLostWakeup'
<1> DEFINE woken == {f \in b.waiters[h] : b.state[f] = "WAITING" /\ b.await[f] = h}
<1>1. /\ woken = b.waiters[h]
      /\ woken \subseteq FiberId
  BY DEF Parked, Moment
<1>2. \A f \in FiberId : /\ state'[f] = IF f \in woken THEN "RUNNABLE" ELSE b.state[f]
                         /\ await'[f] = IF f \in woken THEN NoHandle ELSE b.await[f]
  BY DEF Complete
<1>3. \A g \in HandleId : /\ waiters'[g] = IF g = h THEN {} ELSE b.waiters[g]
                          /\ g # h => hstate'[g] = hstate[g]
  BY DEF Complete, SettleHandle, Moment, TypeOK, HandleTypeOK
<1> HIDE DEF woken
<1>4. ASSUME NEW f \in FiberId, state'[f] = "WAITING"
      PROVE  /\ await'[f] \in HandleId
             /\ hstate'[await'[f]] = "PENDING"
             /\ f \in waiters'[await'[f]]
  <2>1. f \notin woken /\ b.state[f] = "WAITING" /\ await'[f] = b.await[f]
    BY <1>2, <1>4
  <2>2. b.await[f] # h
    BY <1>1, <2>1 DEF Parked
  <2> QED
    BY <1>3, <2>1, <2>2 DEF Parked
<1>5. ASSUME NEW g \in HandleId, NEW f \in waiters'[g]
      PROVE  state'[f] = "WAITING" /\ await'[f] = g
  <2>1. g # h /\ f \in b.waiters[g] /\ f \in FiberId
    BY <1>3, <1>5 DEF Moment
  <2>2. b.state[f] = "WAITING" /\ b.await[f] = g
    BY <2>1 DEF Parked
  <2>3. f \notin woken
    BY <1>1, <2>1, <2>2 DEF Parked
  <2> QED
    BY <1>2, <2>1, <2>2, <2>3
<1> QED
  BY <1>4, <1>5 DEF NoLostWakeup

LEMMA FinishWakeup ==
    ASSUME TypeOK, NoLostWakeup,
           NEW f \in FiberId, NEW final \in Terminal, NEW outcome \in Settled,
           Finish(f, final, outcome)
    PROVE  NoLostWakeup'
<1> DEFINE h == result[f]
           b == Ended(f, final)
<1>1. b \in Moment /\ Parked(b)
  BY EndedMoment, EndedParked
<1>2. CASE h # NoHandle /\ hstate[h] = "PENDING"
  <2>1. h \in HandleId /\ Complete(h, outcome, b)
    BY <1>2, SchedulerAssumption DEF Finish, TypeOK
  <2> HIDE DEF h, b
  <2> QED
    BY <1>1, <2>1, CompleteWakeup
<1>3. CASE ~(h # NoHandle /\ hstate[h] = "PENDING")
  <2>1. /\ state' = b.state /\ await' = b.await /\ waiters' = b.waiters
        /\ hstate' = hstate
    BY <1>3 DEF Finish
  <2> HIDE DEF h, b
  <2> QED
    BY <1>1, <2>1 DEF NoLostWakeup, Parked
<1> QED
  BY <1>2, <1>3

LEMMA SchedulingWakeup ==
    ASSUME TypeOK, NoLostWakeup, Scheduling
    PROVE  NoLostWakeup'
<1>1. CASE Gc
  <2>1. \A f \in FiberId : state'[f] = "WAITING" <=> state[f] = "WAITING"
    BY <1>1 DEF Gc, TypeOK, QueueTypeOK, Terminal
  <2>2. \A h \in HandleId : hstate[h] = "PENDING" => hstate'[h] = "PENDING"
    BY <1>1 DEF Gc, SweepHandles, Sweepable, Settled
  <2>3. UNCHANGED <<await, waiters>> /\ \A h \in HandleId : waiters[h] \subseteq FiberId
    BY <1>1 DEF Gc, SweepHandles, TypeOK, HandleTypeOK
  <2> QED
    BY <2>1, <2>2, <2>3 DEF NoLostWakeup
<1>2. CASE StartTick \/ RunNext \/ SystemThinkFails
  BY <1>2 DEF StartTick, RunNext, NextInRound, NextInCascade, SystemThinkFails,
              NoLostWakeup, handleVars, fiberVars
<1> QED
  BY <1>1, <1>2 DEF Scheduling

LEMMA HostWakeup ==
    ASSUME TypeOK, NoLostWakeup, Host
    PROVE  NoLostWakeup'
<1>1. ASSUME NEW f \in FiberId, Spawn(f)
      PROVE  NoLostWakeup'
  BY <1>1 DEF Spawn, FreshFiber, NoLostWakeup, handleVars, TypeOK, HandleTypeOK, QueueTypeOK
<1>2. ASSUME NEW f \in FiberId, Cancel(f)
      PROVE  NoLostWakeup'
  BY <1>2, FinishWakeup DEF Cancel, Terminal, Settled
<1>3. ASSUME NEW h \in HandleId, NEW outcome \in Settled, HostSettle(h, outcome)
      PROVE  NoLostWakeup'
  BY <1>3, NowMoment, NowParked, CompleteWakeup DEF HostSettle
<1>4. CASE CancelPage
  BY <1>4 DEF CancelPage, PageFibers, Alive, NoLostWakeup, TypeOK, HandleTypeOK, QueueTypeOK
<1> QED
  BY <1>1, <1>2, <1>3, <1>4 DEF Host

LEMMA InstructionWakeup ==
    ASSUME TypeOK, NoLostWakeup, NEW f \in FiberId, Instruction(f)
    PROVE  NoLostWakeup'
<1>1. CASE Yield(f) \/ Backpressure(f) \/ CatchInjected(f) \/ LeaveCancelled(f) \/ ErrorEscapes(f)
  BY <1>1 DEF Yield, Backpressure, CatchInjected, LeaveCancelled, ErrorEscapes,
              AbandonTick, NoLostWakeup, handleVars, fiberVars
<1>2. CASE Starve(f) \/ Return(f) \/ Fault(f) \/ FaultInjected(f)
  BY <1>2, FinishWakeup DEF Starve, Return, Fault, FaultInjected, Terminal, Settled
<1>3. ASSUME NEW h \in HandleId, AwaitSettled(f, h)
      PROVE  NoLostWakeup'
  BY <1>3 DEF AwaitSettled, NoLostWakeup, handleVars
<1>4. ASSUME NEW h \in HandleId, AwaitPending(f, h)
      PROVE  NoLostWakeup'
  <2>1. state[f] = "RUNNABLE"
    BY <1>4 DEF AwaitPending, Advancing, Executing
  <2> QED
    BY <1>4, <2>1
       DEF AwaitPending, AddWaiter, NoLostWakeup, TypeOK, HandleTypeOK, QueueTypeOK
<1>5. ASSUME NEW h \in HandleId, AwaitUnknown(f, h)
      PROVE  NoLostWakeup'
  BY <1>5, FinishWakeup DEF AwaitUnknown, Terminal, Settled
<1>6. ASSUME NEW h \in HandleId, NEW c \in FiberId, DispatchAction(f, h, c)
      PROVE  NoLostWakeup'
  BY <1>6
     DEF DispatchAction, CreatePending, FreshFiber, FreshHandle, NoLostWakeup,
         TypeOK, HandleTypeOK, QueueTypeOK
<1>7. ASSUME NEW h \in HandleId, NEW counts \in BOOLEAN,
             NEW outcome \in {"PENDING"} \cup Settled,
             DispatchHost(f, h, counts, outcome)
      PROVE  NoLostWakeup'
  BY <1>7
     DEF DispatchHost, CreatePending, CreateSettled, FreshHandle, NoLostWakeup,
         TypeOK, HandleTypeOK, QueueTypeOK
<1>8. ASSUME NEW c \in FiberId, SpawnChild(f, c)
      PROVE  NoLostWakeup'
  BY <1>8
     DEF SpawnChild, FreshFiber, NoLostWakeup, handleVars,
         TypeOK, HandleTypeOK, QueueTypeOK
<1> QED
  BY <1>1, <1>2, <1>3, <1>4, <1>5, <1>6, <1>7, <1>8 DEF Instruction

(* A suspended fiber is always on the list of a handle that can still wake *)
(* it, whatever is settled, cancelled, faulted or swept meanwhile.         *)
THEOREM WakeupsKept == Spec => []NoLostWakeup
<1>1. Init => NoLostWakeup
  BY DEF Init, HandleInit, QueueInit, NoLostWakeup
<1>2. TypeOK /\ NoLostWakeup /\ [Next]_vars => NoLostWakeup'
  <2> SUFFICES ASSUME TypeOK, NoLostWakeup, [Next]_vars
               PROVE  NoLostWakeup'
    OBVIOUS
  <2>1. CASE UNCHANGED vars
    BY <2>1 DEF vars, handleVars, fiberVars, NoLostWakeup
  <2> QED
    BY <2>1, SchedulingWakeup, HostWakeup, InstructionWakeup DEF Next
<1> QED
  BY <1>1, <1>2, TypeCorrect, PTL DEF Spec

-----------------------------------------------------------------------------
(* Every pending action handle has its one fiber.  The strengthening says  *)
(* who may owe a settlement: only a live action fiber, which cannot hold   *)
(* its own handle since handles are dispatched after their fiber exists.   *)

OwedInv ==
    /\ ActionOwed
    /\ \A f \in FiberId : state[f] \notin Alive => held[f] = {} /\ result[f] = NoHandle
    /\ \A f \in FiberId : result[f] # NoHandle => kind[f] = "action" /\ result[f] \notin held[f]
    /\ \A f \in FiberId : await[f] # NoHandle => state[f] = "WAITING"

(* What a completion does to fibers and handles.                           *)
LEMMA CompleteEffect ==
    ASSUME TypeOK, NEW h \in HandleId, NEW outcome \in Settled,
           NEW b \in Moment, Complete(h, outcome, b)
    PROVE  /\ \A g \in FiberId :
                 \/ state'[g] = b.state[g] /\ await'[g] = b.await[g]
                 \/ b.state[g] = "WAITING" /\ state'[g] = "RUNNABLE" /\ await'[g] = NoHandle
           /\ \A k \in HandleId : k # h => hstate'[k] = hstate[k]
           /\ hstate'[h] # "PENDING"
BY DEF Complete, SettleHandle, Moment, TypeOK, HandleTypeOK, Settled

LEMMA FinishOwed ==
    ASSUME TypeOK, OwedInv,
           NEW f \in FiberId, NEW final \in Terminal, NEW outcome \in Settled,
           Finish(f, final, outcome)
    PROVE  OwedInv'
<1> DEFINE h == result[f]
           b == Ended(f, final)
<1>1. /\ \A g \in FiberId : /\ result'[g] = IF g = f THEN NoHandle ELSE result[g]
                            /\ held'[g] = IF g = f THEN {} ELSE held[g]
      /\ kind' = kind
  BY DEF Finish, TypeOK
<1>2. \A g \in FiberId : /\ b.state[g] = IF g = f THEN final ELSE state[g]
                         /\ b.await[g] = IF g = f THEN NoHandle ELSE await[g]
  BY DEF Ended, TypeOK, QueueTypeOK
<1>3. final \notin Alive /\ final # "WAITING"
  BY DEF Terminal, Alive
<1>4. b \in Moment
  BY EndedMoment
<1>5. CASE h # NoHandle
  <2>1. h \in HandleId /\ hstate[h] = "PENDING" /\ Complete(h, outcome, b)
    BY <1>5, SchedulerAssumption DEF Finish, OwedInv, ActionOwed, TypeOK
  <2> HIDE DEF b
  <2>2. /\ \A g \in FiberId :
              \/ state'[g] = b.state[g] /\ await'[g] = b.await[g]
              \/ b.state[g] = "WAITING" /\ state'[g] = "RUNNABLE" /\ await'[g] = NoHandle
        /\ \A k \in HandleId : k # h => hstate'[k] = hstate[k]
        /\ hstate'[h] # "PENDING"
    BY <1>4, <2>1, CompleteEffect
  <2>3. \A g \in FiberId : g # f =>
            /\ state[g] \in Alive => state'[g] \in Alive
            /\ state'[g] \in Alive => state[g] \in Alive
            /\ await'[g] = await[g] \/ await'[g] = NoHandle
            /\ await'[g] # NoHandle => state'[g] = state[g]
    BY <1>2, <2>2 DEF Alive
  <2>4. state'[f] \notin Alive /\ await'[f] = NoHandle
    BY <1>2, <1>3, <2>2
  <2>5. \A g \in FiberId : g # f => result[g] # h
    BY <1>5 DEF OwedInv, ActionOwed
  <2>6. \A g \in FiberId : result[g] # NoHandle => result[g] \in HandleId
    BY SchedulerAssumption DEF TypeOK
  <2>7. ActionHandleId \subseteq HandleId
    BY SchedulerAssumption
  <2>8. ActionOwed'
    <3>1. ASSUME NEW k \in ActionHandleId, hstate'[k] = "PENDING"
          PROVE  \E g \in FiberId : state'[g] \in Alive /\ result'[g] = k
      <4>1. k # h /\ hstate[k] = "PENDING"
        BY <2>2, <2>7, <3>1
      <4>2. PICK g \in FiberId : state[g] \in Alive /\ result[g] = k
        BY <4>1 DEF OwedInv, ActionOwed
      <4>3. g # f
        BY <4>1, <4>2
      <4> QED
        BY <1>1, <2>3, <4>2, <4>3
    <3>2. ASSUME NEW g1 \in FiberId, NEW g2 \in FiberId, result'[g1] # NoHandle
          PROVE  /\ hstate'[result'[g1]] = "PENDING"
                 /\ result'[g1] = result'[g2] => g1 = g2
      <4>1. g1 # f /\ result'[g1] = result[g1]
        BY <1>1, <3>2
      <4>2. hstate'[result[g1]] = "PENDING"
        BY <2>2, <2>5, <2>6, <3>2, <4>1 DEF OwedInv, ActionOwed
      <4> QED
        BY <1>1, <3>2, <4>1, <4>2 DEF OwedInv, ActionOwed
    <3>3. ASSUME NEW g \in FiberId
          PROVE  result'[g] # await'[g] \/ await'[g] = NoHandle
      BY <1>1, <2>3, <2>4, <3>3 DEF OwedInv, ActionOwed
    <3> HIDE DEF h
    <3> QED
      BY <3>1, <3>2, <3>3 DEF ActionOwed
  <2> QED
    BY <1>1, <2>3, <2>4, <2>8 DEF OwedInv
<1>6. CASE h = NoHandle
  <2>1. state' = b.state /\ await' = b.await /\ hstate' = hstate
    BY <1>6 DEF Finish
  <2>2. \A g \in FiberId : result'[g] = result[g]
    BY <1>1, <1>6
  <2> HIDE DEF b, h
  <2>3. ActionOwed'
    <3>1. \A g \in FiberId : result[g] # NoHandle => g # f
      BY <1>6 DEF h
    <3>2. \A k \in ActionHandleId : k # NoHandle
      BY SchedulerAssumption
    <3>3. \A g \in FiberId : g # f => state'[g] = state[g] /\ await'[g] = await[g]
      BY <1>2, <2>1
    <3>4. await'[f] = NoHandle
      BY <1>2, <2>1
    <3> QED
      BY <2>1, <2>2, <3>1, <3>2, <3>3, <3>4 DEF OwedInv, ActionOwed
  <2> QED
    BY <1>1, <1>2, <1>3, <2>1, <2>2, <2>3 DEF OwedInv
<1> QED
  BY <1>5, <1>6

LEMMA HostOwed ==
    ASSUME TypeOK, OwedInv, Host
    PROVE  OwedInv'
<1>1. ASSUME NEW f \in FiberId, Spawn(f)
      PROVE  OwedInv'
  BY <1>1 DEF Spawn, FreshFiber, OwedInv, ActionOwed, Alive, handleVars, TypeOK, QueueTypeOK
<1>2. ASSUME NEW f \in FiberId, Cancel(f)
      PROVE  OwedInv'
  BY <1>2, FinishOwed DEF Cancel, Terminal, Settled
<1>3. ASSUME NEW h \in HandleId, NEW outcome \in Settled, HostSettle(h, outcome)
      PROVE  OwedInv'
  <2>1. Complete(h, outcome, Now) /\ UNCHANGED <<kind, held, result>>
    BY <1>3 DEF HostSettle
  <2>2. /\ \A g \in FiberId :
              \/ state'[g] = state[g] /\ await'[g] = await[g]
              \/ state[g] = "WAITING" /\ state'[g] = "RUNNABLE" /\ await'[g] = NoHandle
        /\ \A k \in HandleId : k # h => hstate'[k] = hstate[k]
    BY <2>1, NowMoment, CompleteEffect DEF Now
  <2>3. h \notin ActionHandleId /\ ActionHandleId \subseteq HandleId
    BY <1>3, SchedulerAssumption DEF HostSettle, HostHandleId
  <2>4. \A k \in ActionHandleId : hstate'[k] = hstate[k]
    BY <2>2, <2>3
  <2>5. \A g \in FiberId : result[g] # NoHandle => result[g] \in ActionHandleId
    BY DEF TypeOK
  <2>6. \A g \in FiberId : state'[g] \in Alive <=> state[g] \in Alive
    BY <2>2 DEF Alive
  <2> QED
    BY <2>1, <2>2, <2>4, <2>5, <2>6 DEF OwedInv, ActionOwed
<1>4. CASE CancelPage
  <2>1. /\ \A g \in FiberId : IF g \in PageFibers
              THEN state'[g] = "CANCELLED" /\ await'[g] = NoHandle /\ held'[g] = {}
              ELSE state'[g] = state[g] /\ await'[g] = await[g] /\ held'[g] = held[g]
        /\ UNCHANGED <<hstate, kind, result>>
    BY <1>4 DEF CancelPage, TypeOK, QueueTypeOK
  <2>2. \A g \in PageFibers : result[g] = NoHandle
    BY DEF PageFibers, OwedInv
  <2>3. \A k \in ActionHandleId : k # NoHandle
    BY SchedulerAssumption
  <2> QED
    BY <2>1, <2>2, <2>3 DEF OwedInv, ActionOwed, Alive
<1> QED
  BY <1>1, <1>2, <1>3, <1>4 DEF Host

LEMMA InstructionOwed ==
    ASSUME TypeOK, OwedInv, NEW f \in FiberId, Instruction(f)
    PROVE  OwedInv'
<1> USE SchedulerAssumption
<1>1. CASE Yield(f) \/ Backpressure(f) \/ CatchInjected(f) \/ LeaveCancelled(f) \/ ErrorEscapes(f)
  BY <1>1 DEF Yield, Backpressure, CatchInjected, LeaveCancelled, ErrorEscapes,
              AbandonTick, OwedInv, ActionOwed, handleVars, fiberVars
<1>2. CASE Starve(f) \/ Return(f) \/ Fault(f) \/ FaultInjected(f)
  BY <1>2, FinishOwed DEF Starve, Return, Fault, FaultInjected, Terminal, Settled
<1>3. ASSUME NEW h \in HandleId, AwaitSettled(f, h)
      PROVE  OwedInv'
  BY <1>3 DEF AwaitSettled, Advancing, Executing, OwedInv, ActionOwed, Alive,
              handleVars, TypeOK
<1>4. ASSUME NEW h \in HandleId, AwaitPending(f, h)
      PROVE  OwedInv'
  BY <1>4 DEF AwaitPending, AddWaiter, Advancing, Executing, OwedInv, ActionOwed, Alive,
              TypeOK, QueueTypeOK
<1>5. ASSUME NEW h \in HandleId, AwaitUnknown(f, h)
      PROVE  OwedInv'
  BY <1>5, FinishOwed DEF AwaitUnknown, Terminal, Settled
<1>6. ASSUME NEW h \in HandleId, NEW c \in FiberId, DispatchAction(f, h, c)
      PROVE  OwedInv'
  <2>1. /\ c # f /\ h # NoHandle /\ hstate[h] = "absent"
        /\ held[c] = {} /\ await[c] = NoHandle
        /\ h \in ActionHandleId /\ \A g \in FiberId : h \notin held[g]
    BY <1>6 DEF DispatchAction, FreshFiber, FreshHandle, Executing, OwedInv, Alive
  <2>2. /\ \A g \in FiberId :
              /\ state'[g] = IF g = c THEN "RUNNABLE" ELSE state[g]
              /\ kind'[g] = IF g = c THEN "action" ELSE kind[g]
              /\ result'[g] = IF g = c THEN h ELSE result[g]
              /\ held'[g] = IF g = f THEN held[f] \cup {h} ELSE held[g]
        /\ await' = await
        /\ \A k \in HandleId : hstate'[k] = IF k = h THEN "PENDING" ELSE hstate[k]
    BY <1>6 DEF DispatchAction, CreatePending, TypeOK, HandleTypeOK, QueueTypeOK
  <2>3. \A g \in FiberId : /\ result[g] # h
                           /\ result[g] # NoHandle => result[g] \in HandleId
    BY <2>1 DEF OwedInv, ActionOwed, TypeOK
  <2>4. result[c] = NoHandle
    BY <1>6 DEF DispatchAction, FreshFiber, OwedInv, Alive
  <2>5. ActionOwed'
    <3>1. \A k \in ActionHandleId : hstate'[k] = "PENDING" =>
             \E g \in FiberId : state'[g] \in Alive /\ result'[g] = k
      BY <2>1, <2>2, <2>4 DEF OwedInv, ActionOwed, Alive
    <3>2. \A g1, g2 \in FiberId : result'[g1] # NoHandle =>
             /\ hstate'[result'[g1]] = "PENDING"
             /\ result'[g1] = result'[g2] => g1 = g2
      BY <2>2, <2>3 DEF OwedInv, ActionOwed
    <3>3. \A g \in FiberId : result'[g] # await'[g] \/ await'[g] = NoHandle
      BY <2>1, <2>2 DEF OwedInv, ActionOwed
    <3> QED
      BY <3>1, <3>2, <3>3 DEF ActionOwed
  <2>6. \A g \in FiberId : state'[g] \notin Alive => held'[g] = {} /\ result'[g] = NoHandle
    <3>1. state[f] = "RUNNABLE"
      BY <1>6 DEF DispatchAction, Executing
    <3> QED
      BY <2>2, <3>1 DEF OwedInv, Alive
  <2>7. \A g \in FiberId : result'[g] # NoHandle =>
           kind'[g] = "action" /\ result'[g] \notin held'[g]
    BY <2>1, <2>2, <2>3 DEF OwedInv
  <2>8. \A g \in FiberId : await'[g] # NoHandle => state'[g] = "WAITING"
    BY <2>1, <2>2 DEF OwedInv
  <2> QED
    BY <2>5, <2>6, <2>7, <2>8 DEF OwedInv
<1>7. ASSUME NEW h \in HandleId, NEW counts \in BOOLEAN,
             NEW outcome \in {"PENDING"} \cup Settled,
             DispatchHost(f, h, counts, outcome)
      PROVE  OwedInv'
  BY <1>7 DEF DispatchHost, CreatePending, CreateSettled, FreshHandle, HostHandleId,
              Executing, OwedInv, ActionOwed, Alive, TypeOK, HandleTypeOK
<1>8. ASSUME NEW c \in FiberId, SpawnChild(f, c)
      PROVE  OwedInv'
  BY <1>8 DEF SpawnChild, FreshFiber, OwedInv, ActionOwed, Alive, handleVars,
              TypeOK, QueueTypeOK
<1> QED
  BY <1>1, <1>2, <1>3, <1>4, <1>5, <1>6, <1>7, <1>8 DEF Instruction

LEMMA SchedulingOwed ==
    ASSUME TypeOK, OwedInv, Scheduling
    PROVE  OwedInv'
<1>1. CASE Gc
  <2>1. \A f \in FiberId : /\ state'[f] \in Alive <=> state[f] \in Alive
                           /\ state[f] = "WAITING" => state'[f] = "WAITING"
    BY <1>1 DEF Gc, TypeOK, QueueTypeOK, Terminal, Alive
  <2>2. \A h \in HandleId : hstate[h] = "PENDING" <=> hstate'[h] = "PENDING"
    BY <1>1 DEF Gc, SweepHandles, Sweepable, Settled
  <2>3. UNCHANGED <<kind, await, held, result>>
    BY <1>1 DEF Gc
  <2> QED
    BY <2>1, <2>2, <2>3, SchedulerAssumption DEF OwedInv, ActionOwed, TypeOK
<1>2. CASE StartTick \/ RunNext \/ SystemThinkFails
  BY <1>2 DEF StartTick, RunNext, NextInRound, NextInCascade, SystemThinkFails,
              OwedInv, ActionOwed, handleVars, fiberVars
<1> QED
  BY <1>1, <1>2 DEF Scheduling

(* The call of a bytecode action is answered exactly once.                 *)
THEOREM ActionsOwed == Spec => []ActionOwed
<1>1. Init => OwedInv
  BY SchedulerAssumption DEF Init, HandleInit, QueueInit, OwedInv, ActionOwed
<1>2. TypeOK /\ OwedInv /\ [Next]_vars => OwedInv'
  <2> SUFFICES ASSUME TypeOK, OwedInv, [Next]_vars
               PROVE  OwedInv'
    OBVIOUS
  <2>1. CASE UNCHANGED vars
    BY <2>1 DEF vars, handleVars, fiberVars, OwedInv, ActionOwed
  <2> QED
    BY <2>1, SchedulingOwed, HostOwed, InstructionOwed DEF Next
<1>3. OwedInv => ActionOwed
  BY DEF OwedInv
<1> QED
  BY <1>1, <1>2, <1>3, TypeCorrect, PTL DEF Spec

-----------------------------------------------------------------------------
(* The queues of the fiber scheduler: no runnable fiber is lost from them, *)
(* none is in them twice, and the children a think spawns are run in it.   *)

(* No entry of a queue is repeated.                                        *)
Distinct(s) == \A i, j \in DOMAIN s : s[i] = s[j] => i = j

LEMMA ConcatDistinct ==
    ASSUME NEW S, NEW s \in Seq(S), NEW t \in Seq(S)
    PROVE  /\ ToSet(s \o t) = ToSet(s) \cup ToSet(t)
           /\ Distinct(s \o t) <=>
                 Distinct(s) /\ Distinct(t) /\ ToSet(s) \cap ToSet(t) = {}
<1> DEFINE c == s \o t
<1>1. /\ Len(s) \in Nat /\ Len(t) \in Nat
      /\ DOMAIN s = 1 .. Len(s) /\ DOMAIN t = 1 .. Len(t)
      /\ DOMAIN c = 1 .. Len(s) + Len(t)
  OBVIOUS
<1>2. \A i \in DOMAIN s : i \in DOMAIN c /\ c[i] = s[i]
  OBVIOUS
<1>3. \A i \in DOMAIN t : i + Len(s) \in DOMAIN c /\ c[i + Len(s)] = t[i]
  OBVIOUS
<1>4. \A i \in DOMAIN c :
         \/ i \in DOMAIN s
         \/ i - Len(s) \in DOMAIN t /\ c[i] = t[i - Len(s)]
  BY <1>1
<1> HIDE DEF c
<1>5. ToSet(c) = ToSet(s) \cup ToSet(t)
  BY <1>2, <1>3, <1>4 DEF ToSet
<1>6. ASSUME Distinct(c)
      PROVE  Distinct(s) /\ Distinct(t) /\ ToSet(s) \cap ToSet(t) = {}
  <2>1. Distinct(s)
    BY <1>2, <1>6 DEF Distinct
  <2>2. Distinct(t)
    BY <1>1, <1>3, <1>6 DEF Distinct
  <2>3. ASSUME NEW i \in DOMAIN s, NEW j \in DOMAIN t, s[i] = t[j]
        PROVE  FALSE
    BY <1>1, <1>2, <1>3, <1>6, <2>3 DEF Distinct
  <2> QED
    BY <2>1, <2>2, <2>3 DEF ToSet
<1>7. ASSUME Distinct(s), Distinct(t), ToSet(s) \cap ToSet(t) = {},
             NEW i \in DOMAIN c, NEW j \in DOMAIN c, c[i] = c[j]
      PROVE  i = j
  <2>1. \A m \in DOMAIN s, n \in DOMAIN t : s[m] # t[n]
    BY <1>7 DEF ToSet
  <2>2. CASE i \in DOMAIN s /\ j \in DOMAIN s
    BY <1>2, <1>7, <2>2 DEF Distinct
  <2>3. CASE i \notin DOMAIN s /\ j \notin DOMAIN s
    <3>1. i - Len(s) = j - Len(s)
      BY <1>4, <1>7, <2>3 DEF Distinct
    <3> QED
      BY <1>1, <3>1
  <2> QED
    BY <1>2, <1>4, <1>7, <2>1, <2>2, <2>3
<1> QED
  BY <1>5, <1>6, <1>7 DEF c, Distinct

LEMMA TailDistinct ==
    ASSUME NEW S, NEW s \in Seq(S), s # << >>, Distinct(s)
    PROVE  /\ Distinct(Tail(s))
           /\ ToSet(Tail(s)) = ToSet(s) \ {Head(s)}
           /\ Head(s) \in ToSet(s)
<1>1. /\ Len(s) \in Nat \ {0} /\ DOMAIN s = 1 .. Len(s)
      /\ DOMAIN Tail(s) = 1 .. Len(s) - 1
      /\ \A i \in DOMAIN Tail(s) : Tail(s)[i] = s[i + 1]
      /\ Head(s) = s[1]
  OBVIOUS
<1>2. Distinct(Tail(s))
  BY <1>1 DEF Distinct
<1>3. \A i \in DOMAIN s : i # 1 => i - 1 \in DOMAIN Tail(s) /\ s[i] = Tail(s)[i - 1]
  BY <1>1
<1>4. \A i \in DOMAIN Tail(s) : i + 1 \in DOMAIN s /\ i + 1 # 1
  BY <1>1
<1>5. 1 \in DOMAIN s
  BY <1>1
<1>6. \A i \in DOMAIN Tail(s) : Tail(s)[i] # Head(s)
  BY <1>1, <1>4, <1>5 DEF Distinct
<1>7. ToSet(Tail(s)) \subseteq ToSet(s) \ {Head(s)}
  BY <1>1, <1>4, <1>6 DEF ToSet
<1>8. ToSet(s) \ {Head(s)} \subseteq ToSet(Tail(s))
  <2>1. ASSUME NEW i \in DOMAIN s, s[i] # Head(s)
        PROVE  \E j \in DOMAIN Tail(s) : s[i] = Tail(s)[j]
    BY <1>1, <1>3, <2>1
  <2> QED
    BY <2>1 DEF ToSet
<1>9. Head(s) \in ToSet(s)
  BY <1>1, <1>5 DEF ToSet
<1> QED
  BY <1>2, <1>7, <1>8, <1>9

(* An order of a set names each of its elements once.                      *)
LEMMA OrderIsDistinct ==
    ASSUME NEW S \in SUBSET FiberId, NEW order \in SetToSeqs(S)
    PROVE  order \in Seq(FiberId) /\ Distinct(order) /\ ToSet(order) = S
<1> DEFINE D == 1 .. Cardinality(S)
<1>1. IsFiniteSet(S) /\ Cardinality(S) \in Nat
  BY FibersAssumption, FS_Subset, FS_CardinalityType
<1>2. order \in [D -> S] /\ \A i, j \in D : i # j => order[i] # order[j]
  BY DEF SetToSeqs
<1>3. order \in Injection(D, S)
  BY <1>2 DEF Injection, IsInjective
<1>4. Cardinality(D) = Cardinality(S)
  BY <1>1, FS_Interval
<1>5. order \in Surjection(D, S)
  BY <1>1, <1>3, <1>4, FS_Injection
<1>6. ToSet(order) = S
  BY <1>2, <1>5 DEF Surjection, ToSet
<1>7. Distinct(order)
  BY <1>2 DEF Distinct
<1> QED
  BY <1>6, <1>7, OrderIsSeq

-----------------------------------------------------------------------------
(* The inductive invariant.  A queue is spoken of as the set of its        *)
(* entries, and QueueSets is QueuedOnce in these terms.                    *)

Queued == ToSet(cascade) \cup ToSet(spawned) \cup ToSet(runQueue)

QueueSets ==
    /\ Distinct(cascade) /\ Distinct(spawned) /\ Distinct(runQueue)
    /\ ToSet(cascade) \cap ToSet(spawned) = {}
    /\ ToSet(cascade) \cap ToSet(runQueue) = {}
    /\ ToSet(spawned) \cap ToSet(runQueue) = {}
    /\ \A f \in FiberId : state[f] = "RUNNABLE" => f = running \/ f \in Queued
    /\ running \notin Queued
    /\ \A f \in Queued : state[f] # "WAITING"

(* Nobody in the spawn drain is runnable.                                  *)
Drained == \A f \in ToSet(cascade) \cup ToSet(spawned) : state[f] # "RUNNABLE"

(* What makes it inductive: an error that throws a tick away, and the end  *)
(* of a think, find a drain without a runnable fiber, because only child   *)
(* rules are in it and the host body that cancelled the running fiber has  *)
(* cancelled all of them.                                                  *)
QueueInv ==
    /\ QueueSets
    /\ running # NoFiber => phase = "tick" /\ state[running] \in {"RUNNABLE", "CANCELLED"}
    /\ \A f \in ToSet(cascade) \cup ToSet(spawned) : kind[f] = "child"
    /\ phase = "idle" => Drained
    /\ running # NoFiber /\ state[running] = "CANCELLED" => Drained
    /\ running = NoFiber => \A f \in ToSet(spawned) : state[f] # "RUNNABLE"

LEMMA QueueSeqs ==
    TypeOK => /\ cascade \in Seq(FiberId) /\ spawned \in Seq(FiberId) /\ runQueue \in Seq(FiberId)
              /\ state \in [FiberId -> FiberState] /\ kind \in [FiberId -> {"root", "child", "action"}]
              /\ Queued \subseteq FiberId
<1> SUFFICES ASSUME TypeOK
             PROVE  /\ cascade \in Seq(FiberId) /\ spawned \in Seq(FiberId)
                    /\ runQueue \in Seq(FiberId)
                    /\ state \in [FiberId -> FiberState]
                    /\ kind \in [FiberId -> {"root", "child", "action"}]
                    /\ Queued \subseteq FiberId
  OBVIOUS
<1>1. cascade \in Seq(FiberId) /\ spawned \in Seq(FiberId) /\ runQueue \in Seq(FiberId)
  BY DEF TypeOK, QueueTypeOK
<1>2. \A s \in Seq(FiberId) : ToSet(s) \subseteq FiberId
  BY DEF ToSet
<1> QED
  BY <1>1, <1>2 DEF TypeOK, QueueTypeOK, Queued

(* The fibers that are pending, by queue.                                  *)
LEMMA PendingSets ==
    ASSUME TypeOK
    PROVE  /\ ToSet(Pending) = Queued
           /\ QueueSets => Distinct(Pending)
<1>1. PICK s : s = cascade \o spawned
  OBVIOUS
<1>2. cascade \in Seq(FiberId) /\ spawned \in Seq(FiberId) /\ runQueue \in Seq(FiberId)
  BY QueueSeqs
<1>3. s \in Seq(FiberId)
  BY <1>1, <1>2
<1>4. /\ ToSet(s) = ToSet(cascade) \cup ToSet(spawned)
      /\ Distinct(s) <=> Distinct(cascade) /\ Distinct(spawned)
                            /\ ToSet(cascade) \cap ToSet(spawned) = {}
  BY <1>1, <1>2, ConcatDistinct
<1>5. /\ ToSet(s \o runQueue) = ToSet(s) \cup ToSet(runQueue)
      /\ Distinct(s \o runQueue) <=> Distinct(s) /\ Distinct(runQueue)
                                        /\ ToSet(s) \cap ToSet(runQueue) = {}
  BY <1>2, <1>3, ConcatDistinct
<1>6. Pending = s \o runQueue
  BY <1>1 DEF Pending
<1> QED
  BY ONLY <1>4, <1>5, <1>6 DEF QueueSets, Queued

(* QueueSets and QueuedOnce are the same.                                  *)
LEMMA QueueSetsSound == TypeOK /\ QueueSets => QueuedOnce
BY PendingSets DEF QueueSets, QueuedOnce, Distinct

LEMMA QueuedFresh ==
    ASSUME TypeOK, NEW f \in FiberId, FreshFiber(f)
    PROVE  state[f] = "absent" /\ f \notin Queued
BY PendingSets DEF FreshFiber

LEMMA AppendSets ==
    ASSUME NEW s \in Seq(FiberId), Distinct(s), NEW f \in FiberId, f \notin ToSet(s)
    PROVE  Distinct(Append(s, f)) /\ ToSet(Append(s, f)) = ToSet(s) \cup {f}
<1>1. <<f>> \in Seq(FiberId) /\ ToSet(<<f>>) = {f} /\ Distinct(<<f>>)
  BY DEF ToSet, Distinct
<1>2. Append(s, f) = s \o <<f>>
  OBVIOUS
<1>3. /\ ToSet(s \o <<f>>) = ToSet(s) \cup ToSet(<<f>>)
      /\ Distinct(s \o <<f>>) <=>
            Distinct(s) /\ Distinct(<<f>>) /\ ToSet(s) \cap ToSet(<<f>>) = {}
  BY <1>1, ConcatDistinct
<1> QED
  BY <1>1, <1>2, <1>3

LEMMA EnqueueSets ==
    ASSUME TypeOK, Distinct(runQueue), NEW f \in FiberId, Enqueue(f)
    PROVE  Distinct(runQueue') /\ ToSet(runQueue') = ToSet(runQueue) \cup {f}
BY QueueSeqs, AppendSets DEF Enqueue

LEMMA EndSliceSets ==
    ASSUME TypeOK, QueueSets, EndSlice
    PROVE  /\ Distinct(cascade') /\ ToSet(cascade') = ToSet(cascade) \cup ToSet(spawned)
           /\ Distinct(spawned') /\ ToSet(spawned') = {}
           /\ running' = NoFiber /\ phase' = phase
<1>1. cascade \in Seq(FiberId) /\ spawned \in Seq(FiberId)
  BY QueueSeqs
<1>2. cascade' = spawned \o cascade /\ spawned' = << >>
  BY DEF EndSlice
<1>3. ToSet(<< >>) = {} /\ Distinct(<< >>)
  BY DEF ToSet, Distinct
<1> QED
  BY <1>1, <1>2, <1>3, ConcatDistinct DEF QueueSets, EndSlice

(* A settlement makes its waiters runnable and enqueues them.              *)
LEMMA CompleteSets ==
    ASSUME TypeOK, Distinct(runQueue), NEW h \in HandleId, NEW outcome \in Settled,
           NEW b \in Moment, Complete(h, outcome, b)
    PROVE  \E woken \in SUBSET FiberId :
              /\ \A f \in woken : b.state[f] = "WAITING"
              /\ Distinct(runQueue')
              /\ ToSet(runQueue') = ToSet(runQueue) \cup woken
              /\ \A f \in FiberId :
                    state'[f] = IF f \in woken THEN "RUNNABLE" ELSE b.state[f]
<1> DEFINE woken == {f \in b.waiters[h] : b.state[f] = "WAITING" /\ b.await[f] = h}
<1>1. woken \in SUBSET FiberId
  BY DEF Moment
<1>2. PICK order \in SetToSeqs(woken \ ToSet(runQueue)) : runQueue' = runQueue \o order
  BY DEF Complete
<1>3. /\ order \in Seq(FiberId) /\ Distinct(order)
      /\ ToSet(order) = woken \ ToSet(runQueue)
  BY <1>1, OrderIsDistinct
<1>4. Distinct(runQueue') /\ ToSet(runQueue') = ToSet(runQueue) \cup woken
  BY <1>2, <1>3, QueueSeqs, ConcatDistinct
<1>5. \A f \in FiberId : state'[f] = IF f \in woken THEN "RUNNABLE" ELSE b.state[f]
  BY DEF Complete
<1> QED
  BY <1>1, <1>4, <1>5

(* A terminal transition does so after its fiber has ended.                *)
LEMMA FinishSets ==
    ASSUME TypeOK, Distinct(runQueue), NEW f \in FiberId, NEW final \in Terminal,
           NEW outcome \in Settled, Finish(f, final, outcome)
    PROVE  \E woken \in SUBSET FiberId :
              /\ \A g \in woken : state[g] = "WAITING" /\ g # f
              /\ Distinct(runQueue')
              /\ ToSet(runQueue') = ToSet(runQueue) \cup woken
              /\ \A g \in FiberId :
                    state'[g] = IF g \in woken THEN "RUNNABLE" ELSE IF g = f THEN final ELSE state[g]
              /\ kind' = kind
<1> DEFINE b == Ended(f, final)
<1>1. b \in Moment /\ final # "WAITING" /\ kind' = kind
  BY EndedMoment DEF Terminal, Finish
<1>2. \A g \in FiberId : b.state[g] = IF g = f THEN final ELSE state[g]
  BY QueueSeqs DEF Ended
<1>3. CASE result[f] # NoHandle /\ hstate[result[f]] = "PENDING"
  <2>1. result[f] \in HandleId /\ Complete(result[f], outcome, b)
    BY <1>3, SchedulerAssumption DEF Finish, TypeOK
  <2> HIDE DEF b
  <2>2. PICK woken \in SUBSET FiberId :
              /\ \A g \in woken : b.state[g] = "WAITING"
              /\ Distinct(runQueue')
              /\ ToSet(runQueue') = ToSet(runQueue) \cup woken
              /\ \A g \in FiberId :
                    state'[g] = IF g \in woken THEN "RUNNABLE" ELSE b.state[g]
    BY <1>1, <2>1, CompleteSets
  <2>3. \A g \in woken : state[g] = "WAITING" /\ g # f
    BY <1>1, <1>2, <2>2
  <2> QED
    BY <1>1, <1>2, <2>2, <2>3
<1>4. CASE ~(result[f] # NoHandle /\ hstate[result[f]] = "PENDING")
  <2>1. state' = b.state /\ runQueue' = runQueue
    BY <1>4 DEF Finish
  <2> HIDE DEF b
  <2>2. \A g \in FiberId : state'[g] = IF g = f THEN final ELSE state[g]
    BY <1>2, <2>1
  <2> WITNESS {} \in SUBSET FiberId
  <2> QED
    BY <1>1, <2>1, <2>2
<1> QED
  BY <1>3, <1>4

-----------------------------------------------------------------------------
(* Every step keeps the invariant.                                         *)

LEMMA QueueTypes ==
    TypeOK /\ QueueInv =>
        /\ Queued \subseteq FiberId /\ NoFiber \notin FiberId
        /\ running \in FiberId \cup {NoFiber}
        /\ state \in [FiberId -> FiberState]
        /\ kind \in [FiberId -> {"root", "child", "action"}]
BY QueueSeqs, FibersAssumption DEF TypeOK, QueueTypeOK

(* A step that wakes fibers and ends others, during a slice or with it.    *)
LEMMA WakingQueue ==
    ASSUME TypeOK, QueueInv, NEW woken \in SUBSET FiberId, NEW ended \in SUBSET FiberId,
           \A g \in woken : state[g] = "WAITING" /\ g \notin ended,
           Distinct(runQueue'), ToSet(runQueue') = ToSet(runQueue) \cup woken,
           \A g \in FiberId : \/ g \in woken /\ state'[g] = "RUNNABLE"
                              \/ g \in ended /\ state'[g] \in Terminal
                              \/ g \notin woken \cup ended /\ state'[g] = state[g],
           kind' = kind
    PROVE  /\ UNCHANGED <<spawned, cascade, running, phase>> /\ running \notin ended => QueueInv'
           /\ EndSlice /\ running \in ended => QueueInv'
<1>1. /\ Queued \subseteq FiberId /\ NoFiber \notin FiberId
      /\ running \in FiberId \cup {NoFiber}
  BY QueueTypes
<1>2. woken \cap Queued = {} /\ running \notin woken
  BY <1>1 DEF QueueInv, QueueSets
<1>3. \A g \in Queued : state'[g] = "RUNNABLE" => state[g] = "RUNNABLE"
  BY <1>1, <1>2 DEF Terminal
<1>4. \A g \in Queued \cup woken : state'[g] # "WAITING"
  BY <1>1, <1>2 DEF Terminal, QueueInv, QueueSets
<1>5. \A g \in FiberId : state'[g] = "RUNNABLE" => (state[g] = "RUNNABLE" /\ g \notin ended) \/ g \in woken
  BY DEF Terminal
<1>6. ASSUME UNCHANGED <<spawned, cascade, running, phase>>, running \notin ended
      PROVE  QueueInv'
  <2>1. QueueSets'
    BY <1>1, <1>2, <1>4, <1>5, <1>6 DEF QueueInv, QueueSets, Queued
  <2>2. Drained => Drained'
    BY <1>3, <1>6 DEF Drained, Queued
  <2>3. running # NoFiber => state'[running] = state[running]
    BY <1>1, <1>2, <1>6
  <2> QED
    BY <1>3, <1>6, <2>1, <2>2, <2>3 DEF QueueInv, Queued
<1>7. ASSUME EndSlice, running \in ended
      PROVE  QueueInv'
  <2>1. /\ Distinct(cascade') /\ ToSet(cascade') = ToSet(cascade) \cup ToSet(spawned)
        /\ Distinct(spawned') /\ ToSet(spawned') = {}
        /\ running' = NoFiber /\ phase' = phase
    BY <1>7, EndSliceSets DEF QueueInv
  <2>2. QueueSets'
    <3>1. Queued' = Queued \cup woken /\ running' \notin Queued'
      BY <1>1, <2>1 DEF Queued
    <3>2. \A g \in FiberId : state'[g] = "RUNNABLE" => g \in Queued'
      BY <1>5, <1>7, <3>1 DEF QueueInv, QueueSets
    <3>3. /\ ToSet(cascade') \cap ToSet(spawned') = {}
          /\ ToSet(cascade') \cap ToSet(runQueue') = {}
          /\ ToSet(spawned') \cap ToSet(runQueue') = {}
      BY <1>2, <2>1 DEF QueueInv, QueueSets, Queued
    <3> QED
      BY <1>4, <2>1, <3>1, <3>2, <3>3 DEF QueueSets
  <2>3. phase' = "tick"
    BY <1>1, <1>7, <2>1 DEF QueueInv
  <2> QED
    BY <2>1, <2>2, <2>3 DEF QueueInv
<1> QED
  BY <1>6, <1>7

LEMMA SchedulingQueue ==
    ASSUME TypeOK, QueueInv, Scheduling
    PROVE  QueueInv'
<1>1. /\ Queued \subseteq FiberId /\ NoFiber \notin FiberId
      /\ cascade \in Seq(FiberId) /\ spawned \in Seq(FiberId) /\ runQueue \in Seq(FiberId)
  BY QueueTypes, QueueSeqs
<1>2. CASE StartTick
  BY <1>2 DEF StartTick, OpenRound, fiberVars, QueueInv, QueueSets, Queued, Drained
<1>3. CASE RunNext
  <2>1. /\ running = NoFiber /\ phase = "tick" /\ phase' = "tick"
        /\ state' = state /\ kind' = kind /\ spawned' = spawned
    BY <1>3 DEF RunNext, NextInRound, NextInCascade, Between
  <2>2. ASSUME NEW f \in Queued, Queued' = Queued \ {f},
               running' = IF state[f] = "RUNNABLE" THEN f ELSE NoFiber
        PROVE  /\ \A g \in FiberId : state'[g] = "RUNNABLE" => g = running' \/ g \in Queued'
               /\ running' \notin Queued'
               /\ \A g \in Queued' : state'[g] # "WAITING"
               /\ running' # NoFiber => state'[running'] = "RUNNABLE"
    BY <1>1, <2>1, <2>2 DEF QueueInv, QueueSets
  <2>3. CASE NextInRound
    <3>1. /\ Distinct(runQueue') /\ ToSet(runQueue') = ToSet(runQueue) \ {Head(runQueue)}
          /\ Head(runQueue) \in ToSet(runQueue)
          /\ running' = IF state[Head(runQueue)] = "RUNNABLE" THEN Head(runQueue) ELSE NoFiber
          /\ cascade' = cascade
      <4>1. runQueue # << >>
        BY <2>3 DEF NextInRound, TypeOK, QueueTypeOK
      <4> QED
        BY <1>1, <2>3, <4>1, TailDistinct DEF NextInRound, QueueInv, QueueSets
    <3>2. Head(runQueue) \in Queued /\ Queued' = Queued \ {Head(runQueue)}
      BY <2>1, <3>1 DEF QueueInv, QueueSets, Queued
    <3> QED
      BY <2>1, <2>2, <3>1, <3>2 DEF QueueInv, QueueSets
  <2>4. CASE NextInCascade
    <3>1. /\ Distinct(cascade') /\ ToSet(cascade') = ToSet(cascade) \ {Head(cascade)}
          /\ Head(cascade) \in ToSet(cascade)
          /\ running' = IF state[Head(cascade)] = "RUNNABLE" THEN Head(cascade) ELSE NoFiber
          /\ runQueue' = runQueue
      BY <1>1, <2>4, TailDistinct DEF NextInCascade, QueueInv, QueueSets
    <3>2. Head(cascade) \in Queued /\ Queued' = Queued \ {Head(cascade)}
      BY <2>1, <3>1 DEF QueueInv, QueueSets, Queued
    <3> QED
      BY <2>1, <2>2, <3>1, <3>2 DEF QueueInv, QueueSets
  <2> QED
    BY <1>3, <2>3, <2>4 DEF RunNext
<1>4. CASE Gc \/ SystemThinkFails
  <2>1. /\ running = NoFiber /\ cascade = << >>
        /\ UNCHANGED <<kind, runQueue, spawned, cascade, running>>
    BY <1>4 DEF Gc, SystemThinkFails, RoundOver, Between, fiberVars
  <2>2. \A g \in FiberId : state'[g] = state[g] \/ state'[g] = "absent"
    BY <1>4 DEF Gc, SystemThinkFails, fiberVars
  <2>3. ToSet(cascade) = {}
    BY <2>1 DEF ToSet
  <2>4. Drained'
    BY <1>1, <2>1, <2>2, <2>3 DEF QueueInv, Drained, Queued
  <2>5. QueueSets'
    BY <1>1, <2>1, <2>2 DEF QueueInv, QueueSets, Queued
  <2> QED
    BY <2>1, <2>4, <2>5 DEF QueueInv, Drained
<1> QED
  BY <1>2, <1>3, <1>4 DEF Scheduling

(* A terminal transition: of any fiber between slices, or of the running   *)
(* one with the end of its slice.                                          *)
LEMMA FinishQueue ==
    ASSUME TypeOK, QueueInv,
           NEW f \in FiberId, NEW final \in Terminal, NEW outcome \in Settled,
           Finish(f, final, outcome)
    PROVE  /\ running = NoFiber /\ UNCHANGED <<spawned, cascade, running, phase>> => QueueInv'
           /\ running = f /\ EndSlice => QueueInv'
<1>1. NoFiber \notin FiberId /\ Distinct(runQueue)
  BY QueueTypes DEF QueueInv, QueueSets
<1>2. PICK woken \in SUBSET FiberId :
         /\ \A g \in woken : state[g] = "WAITING" /\ g # f
         /\ Distinct(runQueue')
         /\ ToSet(runQueue') = ToSet(runQueue) \cup woken
         /\ \A g \in FiberId :
               state'[g] = IF g \in woken THEN "RUNNABLE" ELSE IF g = f THEN final ELSE state[g]
         /\ kind' = kind
  BY <1>1, FinishSets
<1>3. {f} \in SUBSET FiberId
  OBVIOUS
<1>4. \A g \in FiberId : \/ g \in woken /\ state'[g] = "RUNNABLE"
                         \/ g \in {f} /\ state'[g] \in Terminal
                         \/ g \notin woken \cup {f} /\ state'[g] = state[g]
  BY <1>2
<1>5. \A g \in woken : state[g] = "WAITING" /\ g \notin {f}
  BY <1>2
<1>6. /\ UNCHANGED <<spawned, cascade, running, phase>> /\ running \notin {f} => QueueInv'
      /\ EndSlice /\ running \in {f} => QueueInv'
  BY <1>2, <1>3, <1>4, <1>5, WakingQueue
<1> QED
  BY <1>1, <1>6

LEMMA HostQueue ==
    ASSUME TypeOK, QueueInv, Host
    PROVE  QueueInv'
<1>1. /\ Queued \subseteq FiberId /\ NoFiber \notin FiberId
      /\ running \in FiberId \cup {NoFiber}
      /\ state \in [FiberId -> FiberState]
      /\ kind \in [FiberId -> {"root", "child", "action"}]
  BY QueueTypes
<1>2. ASSUME NEW f \in FiberId, Spawn(f)
      PROVE  QueueInv'
  <2>1. /\ running = NoFiber /\ phase = "idle"
        /\ UNCHANGED <<spawned, cascade, running, phase>>
    BY <1>2 DEF Spawn, QueueInv
  <2>2. state[f] = "absent" /\ f \notin Queued
    BY <1>2, QueuedFresh DEF Spawn
  <2>3. Distinct(runQueue') /\ ToSet(runQueue') = ToSet(runQueue) \cup {f}
    BY <1>2, EnqueueSets DEF Spawn, QueueInv, QueueSets
  <2>4. \A g \in FiberId : /\ state'[g] = IF g = f THEN "RUNNABLE" ELSE state[g]
                           /\ g # f => kind'[g] = kind[g]
    BY <1>1, <1>2 DEF Spawn
  <2>5. QueueSets'
    BY <1>1, <2>1, <2>2, <2>3, <2>4 DEF QueueInv, QueueSets, Queued
  <2> QED
    BY <1>1, <2>1, <2>2, <2>4, <2>5 DEF QueueInv, Drained, Queued
<1>3. ASSUME NEW f \in FiberId, Cancel(f)
      PROVE  QueueInv'
  BY <1>3, FinishQueue DEF Cancel, QueueInv, Terminal, Settled
<1>4. ASSUME NEW h \in HandleId, NEW outcome \in Settled, HostSettle(h, outcome)
      PROVE  QueueInv'
  <2>1. /\ Complete(h, outcome, Now) /\ Now \in Moment /\ Distinct(runQueue)
        /\ UNCHANGED <<spawned, cascade, running, phase>> /\ kind' = kind
    BY <1>4, NowMoment DEF HostSettle, QueueInv, QueueSets
  <2>2. PICK woken \in SUBSET FiberId :
           /\ \A f \in woken : Now.state[f] = "WAITING"
           /\ Distinct(runQueue')
           /\ ToSet(runQueue') = ToSet(runQueue) \cup woken
           /\ \A f \in FiberId :
                 state'[f] = IF f \in woken THEN "RUNNABLE" ELSE Now.state[f]
    BY <2>1, CompleteSets
  <2>3. /\ {} \in SUBSET FiberId
        /\ \A g \in woken : state[g] = "WAITING" /\ g \notin {}
        /\ \A g \in FiberId : \/ g \in woken /\ state'[g] = "RUNNABLE"
                              \/ g \in {} /\ state'[g] \in Terminal
                              \/ g \notin woken \cup {} /\ state'[g] = state[g]
    BY <2>2 DEF Now
  <2> QED
    BY <2>1, <2>2, <2>3, WakingQueue
<1>5. CASE CancelPage
  <2>1. /\ UNCHANGED <<runQueue, spawned, cascade, running, phase, kind>>
        /\ \A g \in FiberId : state'[g] = IF g \in PageFibers THEN "CANCELLED" ELSE state[g]
    BY <1>1, <1>5 DEF CancelPage, queueVars
  <2>2. Drained'
    BY <1>1, <2>1 DEF QueueInv, Drained, Queued, PageFibers, Alive
  <2>3. QueueSets'
    BY <1>1, <2>1 DEF QueueInv, QueueSets, Queued
  <2>4. running # NoFiber => state'[running] \in {"RUNNABLE", "CANCELLED"}
    BY <1>1, <2>1 DEF QueueInv
  <2> QED
    BY <2>1, <2>2, <2>3, <2>4 DEF QueueInv, Drained
<1> QED
  BY <1>2, <1>3, <1>4, <1>5 DEF Host

LEMMA InstructionQueue ==
    ASSUME TypeOK, QueueInv, NEW f \in FiberId, Instruction(f)
    PROVE  QueueInv'
<1>1. /\ Queued \subseteq FiberId /\ NoFiber \notin FiberId
      /\ state \in [FiberId -> FiberState]
      /\ kind \in [FiberId -> {"root", "child", "action"}]
  BY QueueTypes
<1>2. CASE Yield(f) \/ Backpressure(f)
  <2>1. /\ running = f /\ state[f] = "RUNNABLE" /\ Enqueue(f) /\ EndSlice
        /\ UNCHANGED <<state, kind>>
    BY <1>2 DEF Yield, Backpressure, Advancing, Executing, fiberVars
  <2>2. Distinct(runQueue') /\ ToSet(runQueue') = ToSet(runQueue) \cup {f}
    BY <2>1, EnqueueSets DEF QueueInv, QueueSets
  <2>3. /\ Distinct(cascade') /\ ToSet(cascade') = ToSet(cascade) \cup ToSet(spawned)
        /\ Distinct(spawned') /\ ToSet(spawned') = {}
        /\ running' = NoFiber /\ phase' = "tick"
    BY <1>1, <2>1, EndSliceSets DEF QueueInv
  <2>4. Queued' = Queued \cup {f} /\ f \notin Queued
    BY <2>1, <2>2, <2>3 DEF QueueInv, QueueSets, Queued
  <2>5. QueueSets'
    BY <1>1, <2>1, <2>2, <2>3, <2>4 DEF QueueInv, QueueSets, Queued
  <2> QED
    BY <2>1, <2>3, <2>5 DEF QueueInv
<1>3. CASE Starve(f) \/ Return(f) \/ Fault(f) \/ FaultInjected(f)
  <2>1. "FAULT" \in Terminal /\ "DONE" \in Terminal /\ "REJECTED" \in Settled /\ "RESOLVED" \in Settled
    BY DEF Terminal, Settled
  <2>2. running = f /\ EndSlice /\ (Finish(f, "FAULT", "REJECTED") \/ Finish(f, "DONE", "RESOLVED"))
    BY <1>3 DEF Starve, Return, Fault, FaultInjected, Advancing, Executing
  <2> QED
    BY <2>1, <2>2, FinishQueue
<1>4. ASSUME NEW h \in HandleId, AwaitUnknown(f, h)
      PROVE  QueueInv'
  BY <1>4, FinishQueue DEF AwaitUnknown, Advancing, Executing, Terminal, Settled
<1>5. ASSUME UNCHANGED <<state, kind, queueVars>>
      PROVE  QueueInv'
  BY <1>5 DEF queueVars, QueueInv, QueueSets, Queued, Drained
<1>6. CASE CatchInjected(f)
  BY <1>5, <1>6 DEF CatchInjected
<1>7. ASSUME NEW h \in HandleId, AwaitSettled(f, h)
      PROVE  QueueInv'
  BY <1>5, <1>7 DEF AwaitSettled
<1>8. ASSUME NEW h \in HandleId, NEW counts \in BOOLEAN,
             NEW outcome \in {"PENDING"} \cup Settled,
             DispatchHost(f, h, counts, outcome)
      PROVE  QueueInv'
  BY <1>5, <1>8 DEF DispatchHost
<1>9. CASE LeaveCancelled(f)
  <2>1. /\ running = f /\ state[f] = "CANCELLED" /\ EndSlice
        /\ UNCHANGED <<state, kind, runQueue>>
    BY <1>9 DEF LeaveCancelled, fiberVars
  <2>2. /\ Distinct(cascade') /\ ToSet(cascade') = ToSet(cascade) \cup ToSet(spawned)
        /\ Distinct(spawned') /\ ToSet(spawned') = {}
        /\ running' = NoFiber /\ phase' = "tick"
    BY <1>1, <2>1, EndSliceSets DEF QueueInv
  <2>3. QueueSets'
    BY <1>1, <2>1, <2>2 DEF QueueInv, QueueSets, Queued
  <2> QED
    BY <2>1, <2>2, <2>3 DEF QueueInv
<1>10. CASE ErrorEscapes(f)
  <2>1. /\ running = f /\ state[f] = "CANCELLED" /\ running' = NoFiber /\ cascade' = << >>
        /\ UNCHANGED <<state, kind, runQueue, spawned>>
    BY <1>10 DEF ErrorEscapes, AbandonTick
  <2>2. ToSet(cascade') = {} /\ Distinct(cascade')
    BY <2>1 DEF ToSet, Distinct
  <2>3. Drained
    BY <1>1, <2>1 DEF QueueInv
  <2>4. QueueSets'
    <3>1. \A g \in FiberId : state'[g] = "RUNNABLE" => g \in Queued'
      BY <1>1, <2>1, <2>2, <2>3 DEF QueueInv, QueueSets, Queued, Drained
    <3> QED
      BY <1>1, <2>1, <2>2, <3>1 DEF QueueInv, QueueSets, Queued
  <2> QED
    BY <1>1, <2>1, <2>2, <2>3, <2>4 DEF QueueInv, Drained
<1>11. ASSUME NEW h \in HandleId, AwaitPending(f, h)
       PROVE  QueueInv'
  <2>1. /\ running = f /\ EndSlice /\ UNCHANGED <<kind, runQueue>>
        /\ \A g \in FiberId : state'[g] = IF g = f THEN "WAITING" ELSE state[g]
    BY <1>1, <1>11 DEF AwaitPending, Advancing, Executing
  <2>2. /\ Distinct(cascade') /\ ToSet(cascade') = ToSet(cascade) \cup ToSet(spawned)
        /\ Distinct(spawned') /\ ToSet(spawned') = {}
        /\ running' = NoFiber /\ phase' = "tick"
    BY <1>1, <2>1, EndSliceSets DEF QueueInv
  <2>3. QueueSets'
    BY <1>1, <2>1, <2>2 DEF QueueInv, QueueSets, Queued
  <2> QED
    BY <2>1, <2>2, <2>3, <1>1 DEF QueueInv, Queued
<1>12. ASSUME NEW h \in HandleId, NEW c \in FiberId, DispatchAction(f, h, c)
       PROVE  QueueInv'
  <2>1. /\ running = f /\ state[f] = "RUNNABLE" /\ Enqueue(c)
        /\ UNCHANGED <<spawned, cascade, running, phase>>
        /\ \A g \in FiberId : /\ state'[g] = IF g = c THEN "RUNNABLE" ELSE state[g]
                              /\ g # c => kind'[g] = kind[g]
    BY <1>1, <1>12 DEF DispatchAction, Executing
  <2>2. state[c] = "absent" /\ c \notin Queued
    BY <1>12, QueuedFresh DEF DispatchAction
  <2>3. Distinct(runQueue') /\ ToSet(runQueue') = ToSet(runQueue) \cup {c}
    BY <2>1, EnqueueSets DEF QueueInv, QueueSets
  <2>4. QueueSets'
    BY <1>1, <2>1, <2>2, <2>3 DEF QueueInv, QueueSets, Queued
  <2> QED
    BY <1>1, <2>1, <2>2, <2>4 DEF QueueInv, Drained, Queued
<1>13. ASSUME NEW c \in FiberId, SpawnChild(f, c)
       PROVE  QueueInv'
  <2>1. /\ running = f /\ state[f] = "RUNNABLE" /\ spawned' = Append(spawned, c)
        /\ UNCHANGED <<runQueue, cascade, running, phase>>
        /\ \A g \in FiberId : /\ state'[g] = IF g = c THEN "RUNNABLE" ELSE state[g]
                              /\ kind'[g] = IF g = c THEN "child" ELSE kind[g]
    BY <1>1, <1>13 DEF SpawnChild, Advancing, Executing
  <2>2. state[c] = "absent" /\ c \notin Queued
    BY <1>13, QueuedFresh DEF SpawnChild
  <2>3. Distinct(spawned') /\ ToSet(spawned') = ToSet(spawned) \cup {c}
    BY <2>1, <2>2, QueueSeqs, AppendSets DEF QueueInv, QueueSets, Queued
  <2>4. QueueSets'
    BY <1>1, <2>1, <2>2, <2>3 DEF QueueInv, QueueSets, Queued
  <2> QED
    BY <1>1, <2>1, <2>2, <2>3, <2>4 DEF QueueInv, Queued
<1> QED
  BY <1>2, <1>3, <1>4, <1>6, <1>7, <1>8, <1>9, <1>10, <1>11, <1>12, <1>13 DEF Instruction

LEMMA QueueStep == TypeOK /\ QueueInv /\ [Next]_vars => QueueInv'
<1> SUFFICES ASSUME TypeOK, QueueInv, [Next]_vars
             PROVE  QueueInv'
  OBVIOUS
<1>1. CASE UNCHANGED vars
  BY <1>1 DEF vars, fiberVars, queueVars, QueueInv, QueueSets, Queued, Drained
<1> QED
  BY <1>1, SchedulingQueue, HostQueue, InstructionQueue DEF Next

LEMMA InitQueue == Init => QueueInv
BY FibersAssumption
   DEF Init, QueueInit, QueueInv, QueueSets, Queued, Drained, Distinct, ToSet

(* No runnable fiber is ever lost from the queues and none is in them      *)
(* twice, whatever ends its slice, wakes it or throws the tick away.       *)
THEOREM QueuedOnceHolds == Spec => []QueuedOnce
<1>1. TypeOK /\ QueueInv => QueuedOnce
  BY QueueSetsSound DEF QueueInv
<1> QED
  BY <1>1, InitQueue, QueueStep, TypeCorrect, PTL DEF Spec

(* The children a think spawns get their slice in it, also when an error   *)
(* leaves tick() in the middle of the drain.                               *)
THEOREM CascadeDrained == Spec => []SameThinkCascade
<1>1. TypeOK /\ QueueInv => SameThinkCascade
  <2> SUFFICES ASSUME TypeOK, QueueInv, phase = "idle"
               PROVE  \A f \in ToSet(spawned \o cascade) : state[f] # "RUNNABLE"
    BY DEF SameThinkCascade
  <2>1. ToSet(spawned \o cascade) = ToSet(spawned) \cup ToSet(cascade)
    BY QueueSeqs, ConcatDistinct
  <2> QED
    BY <2>1 DEF QueueInv, Drained
<1> QED
  BY <1>1, InitQueue, QueueStep, TypeCorrect, PTL DEF Spec

-----------------------------------------------------------------------------
(* The round of a tick.  Nothing that happens in it, but for the slices    *)
(* themselves, touches an entry of the round or a fiber that was due.      *)

(* The queue r begins with all of q.                                       *)
Extends(q, r) == \A i \in DOMAIN q : i \in DOMAIN r /\ r[i] = q[i]

LEMMA EnqueueExtends ==
    ASSUME TypeOK, NEW f \in FiberId, Enqueue(f)
    PROVE  Extends(runQueue, runQueue')
BY QueueSeqs DEF Enqueue, Extends

LEMMA CompleteExtends ==
    ASSUME TypeOK, NEW h \in HandleId, NEW outcome \in Settled, NEW b \in Moment,
           Complete(h, outcome, b)
    PROVE  Extends(runQueue, runQueue')
<1> DEFINE woken == {f \in b.waiters[h] : b.state[f] = "WAITING" /\ b.await[f] = h}
<1>1. woken \in SUBSET FiberId
  BY DEF Moment
<1>2. PICK order \in SetToSeqs(woken \ ToSet(runQueue)) : runQueue' = runQueue \o order
  BY DEF Complete
<1>3. order \in Seq(FiberId)
  BY <1>1, OrderIsDistinct
<1> QED
  BY <1>2, <1>3, QueueSeqs DEF Extends

LEMMA FinishExtends ==
    ASSUME TypeOK, NEW f \in FiberId, NEW final \in Terminal, NEW outcome \in Settled,
           Finish(f, final, outcome)
    PROVE  Extends(runQueue, runQueue')
<1> DEFINE b == Ended(f, final)
<1>1. b \in Moment
  BY EndedMoment
<1>2. CASE result[f] # NoHandle /\ hstate[result[f]] = "PENDING"
  <2>1. result[f] \in HandleId /\ Complete(result[f], outcome, b)
    BY <1>2, SchedulerAssumption DEF Finish, TypeOK
  <2> HIDE DEF b
  <2> QED
    BY <1>1, <2>1, CompleteExtends
<1>3. CASE ~(result[f] # NoHandle /\ hstate[result[f]] = "PENDING")
  <2>1. runQueue' = runQueue
    BY <1>3 DEF Finish
  <2> QED
    BY <2>1 DEF Extends
<1> QED
  BY <1>2, <1>3

(* What a step of a tick does to fibers and queues when it gives nobody a  *)
(* slice: a tracked fiber stays tracked, a fiber that is over stays as it  *)
(* ended, and only new fibers join the spawn drain.                        *)
Draining == ToSet(cascade) \cup ToSet(spawned)

FibersStay ==
    \A f \in FiberId :
        /\ state[f] # "absent" => state'[f] # "absent"
        /\ state[f] = "absent" /\ f \in Queued => state'[f] = "absent"
        /\ state[f] \in Terminal => state'[f] = state[f]

Meanwhile ==
    /\ phase' = phase /\ round' = round
    /\ Extends(runQueue, runQueue')
    /\ FibersStay
    /\ \A f \in Draining' : f \in Draining \/ (f \in FiberId /\ state[f] = "absent")

LEMMA EndSliceDrains ==
    ASSUME TypeOK, QueueInv, EndSlice
    PROVE  Draining' = Draining /\ phase' = phase /\ round' = round /\ running' = NoFiber
BY EndSliceSets DEF QueueInv, Draining, EndSlice

LEMMA FinishMeanwhile ==
    ASSUME TypeOK, QueueInv, NEW f \in FiberId, state[f] \in Alive,
           NEW final \in Terminal, NEW outcome \in Settled, Finish(f, final, outcome)
    PROVE  Extends(runQueue, runQueue') /\ FibersStay
<1>1. Extends(runQueue, runQueue')
  BY FinishExtends
<1>2. PICK woken \in SUBSET FiberId :
              /\ \A g \in woken : state[g] = "WAITING" /\ g # f
              /\ \A g \in FiberId :
                    state'[g] = IF g \in woken THEN "RUNNABLE" ELSE IF g = f THEN final ELSE state[g]
  BY FinishSets DEF QueueInv, QueueSets
<1>3. FibersStay
  BY <1>2 DEF FibersStay, Terminal, Alive
<1> QED
  BY <1>1, <1>3

LEMMA HostMeanwhile ==
    ASSUME TypeOK, QueueInv, Host, phase = "tick"
    PROVE  Meanwhile /\ running' = running
<1>1. ASSUME NEW h \in HandleId, NEW outcome \in Settled, HostSettle(h, outcome)
      PROVE  Meanwhile /\ running' = running
  <2>1. /\ Complete(h, outcome, Now) /\ Now \in Moment /\ Distinct(runQueue)
        /\ UNCHANGED <<spawned, cascade, round, running, phase>>
    BY <1>1, NowMoment DEF HostSettle, QueueInv, QueueSets
  <2>2. PICK woken \in SUBSET FiberId :
           /\ \A f \in woken : Now.state[f] = "WAITING"
           /\ \A f \in FiberId :
                 state'[f] = IF f \in woken THEN "RUNNABLE" ELSE Now.state[f]
    BY <2>1, CompleteSets
  <2>3. FibersStay
    BY <2>2 DEF Now, FibersStay, Terminal
  <2>4. Extends(runQueue, runQueue')
    BY <2>1, CompleteExtends
  <2> QED
    BY <2>1, <2>3, <2>4 DEF Meanwhile, Draining
<1>2. CASE CancelPage
  <2>1. /\ UNCHANGED <<runQueue, spawned, cascade, round, running, phase>>
        /\ \A g \in FiberId : state'[g] = IF g \in PageFibers THEN "CANCELLED" ELSE state[g]
    BY <1>2, QueueTypes DEF CancelPage, queueVars
  <2>2. FibersStay
    BY <2>1 DEF FibersStay, PageFibers, Alive, Terminal
  <2> QED
    BY <2>1, <2>2 DEF Meanwhile, Draining, Extends
<1> QED
  BY <1>1, <1>2 DEF Host, Spawn, Cancel

LEMMA InstructionMeanwhile ==
    ASSUME TypeOK, QueueInv, NEW f \in FiberId, Instruction(f), phase' # "idle"
    PROVE  Meanwhile /\ running' \in {running, NoFiber}
<1>0. /\ Queued \subseteq FiberId /\ state \in [FiberId -> FiberState]
      /\ NoFiber \notin FiberId /\ runQueue \in Seq(FiberId)
  BY QueueTypes, QueueSeqs
<1>1. CASE Yield(f) \/ Backpressure(f)
  <2>1. Enqueue(f) /\ EndSlice /\ UNCHANGED state
    BY <1>1 DEF Yield, Backpressure, fiberVars
  <2>2. FibersStay
    BY <2>1 DEF FibersStay
  <2> QED
    BY <2>1, <2>2, EnqueueExtends, EndSliceDrains DEF Meanwhile
<1>2. ASSUME NEW h \in HandleId,
             Starve(f) \/ Return(f) \/ Fault(f) \/ FaultInjected(f) \/ AwaitUnknown(f, h)
      PROVE  Meanwhile /\ running' \in {running, NoFiber}
  <2>1. PICK final \in Terminal, outcome \in Settled :
           state[f] \in Alive /\ EndSlice /\ Finish(f, final, outcome)
    BY <1>2 DEF Starve, Return, Fault, FaultInjected, AwaitUnknown, Advancing, Executing, Alive,
                Terminal, Settled
  <2> QED
    BY <2>1, FinishMeanwhile, EndSliceDrains DEF Meanwhile
<1>3. CASE Starve(f) \/ Return(f) \/ Fault(f) \/ FaultInjected(f)
  <2>1. PICK final \in Terminal, outcome \in Settled :
           state[f] \in Alive /\ EndSlice /\ Finish(f, final, outcome)
    BY <1>3 DEF Starve, Return, Fault, FaultInjected, Advancing, Executing, Alive,
                Terminal, Settled
  <2> QED
    BY <2>1, FinishMeanwhile, EndSliceDrains DEF Meanwhile
<1>4. ASSUME UNCHANGED <<state, queueVars>>
      PROVE  Meanwhile /\ running' \in {running, NoFiber}
  BY <1>4 DEF queueVars, Meanwhile, FibersStay, Draining, Extends
<1>5. CASE CatchInjected(f)
  BY <1>4, <1>5 DEF CatchInjected
<1>6. ASSUME NEW h \in HandleId, AwaitSettled(f, h)
      PROVE  Meanwhile /\ running' \in {running, NoFiber}
  BY <1>4, <1>6 DEF AwaitSettled
<1>7. ASSUME NEW h \in HandleId, NEW counts \in BOOLEAN,
             NEW outcome \in {"PENDING"} \cup Settled,
             DispatchHost(f, h, counts, outcome)
      PROVE  Meanwhile /\ running' \in {running, NoFiber}
  BY <1>4, <1>7 DEF DispatchHost
<1>8. CASE LeaveCancelled(f)
  <2>1. EndSlice /\ UNCHANGED <<state, runQueue>>
    BY <1>8 DEF LeaveCancelled, fiberVars
  <2> QED
    BY <2>1, EndSliceDrains DEF Meanwhile, FibersStay, Extends
<1>9. ASSUME NEW h \in HandleId, AwaitPending(f, h)
      PROVE  Meanwhile /\ running' \in {running, NoFiber}
  <2>1. /\ EndSlice /\ UNCHANGED runQueue /\ state[f] = "RUNNABLE"
        /\ \A g \in FiberId : state'[g] = IF g = f THEN "WAITING" ELSE state[g]
    BY <1>0, <1>9 DEF AwaitPending, Advancing, Executing
  <2>2. FibersStay
    BY <2>1 DEF FibersStay, Terminal
  <2> QED
    BY <2>1, <2>2, EndSliceDrains DEF Meanwhile, Extends
<1>10. ASSUME NEW h \in HandleId, NEW c \in FiberId, DispatchAction(f, h, c)
       PROVE  Meanwhile /\ running' \in {running, NoFiber}
  <2>1. /\ Enqueue(c) /\ UNCHANGED <<spawned, cascade, round, running, phase>>
        /\ \A g \in FiberId : state'[g] = IF g = c THEN "RUNNABLE" ELSE state[g]
    BY <1>0, <1>10 DEF DispatchAction
  <2>2. state[c] = "absent" /\ c \notin Queued
    BY <1>10, QueuedFresh DEF DispatchAction
  <2>3. FibersStay
    BY <2>1, <2>2 DEF FibersStay, Terminal
  <2> QED
    BY <2>1, <2>3, EnqueueExtends DEF Meanwhile, Draining
<1>11. ASSUME NEW c \in FiberId, SpawnChild(f, c)
       PROVE  Meanwhile /\ running' \in {running, NoFiber}
  <2>1. /\ spawned' = Append(spawned, c) /\ UNCHANGED <<runQueue, cascade, round, running, phase>>
        /\ \A g \in FiberId : state'[g] = IF g = c THEN "RUNNABLE" ELSE state[g]
    BY <1>0, <1>11 DEF SpawnChild
  <2>2. state[c] = "absent" /\ c \notin Queued
    BY <1>11, QueuedFresh DEF SpawnChild
  <2>3. FibersStay
    BY <2>1, <2>2 DEF FibersStay, Terminal
  <2>4. ToSet(spawned') = ToSet(spawned) \cup {c}
    BY <2>1, <2>2, QueueSeqs, AppendSets DEF QueueInv, QueueSets, Queued
  <2> QED
    BY <2>1, <2>2, <2>3, <2>4 DEF Meanwhile, Draining, Extends
<1>12. ~ErrorEscapes(f)
  BY DEF ErrorEscapes, AbandonTick
<1> QED
  BY <1>1, <1>2, <1>3, <1>5, <1>6, <1>7, <1>8, <1>9, <1>10, <1>11, <1>12 DEF Instruction

(* The inductive invariant of a round.  Of the fibers that were due, the   *)
(* first Served have had their turn and the others are at the front of the *)
(* run queue, in their order.  Who has had a slice is not among those nor  *)
(* in the spawn drain, however often it has been queued again.             *)
Served == Len(due) - round

Lined == \A i \in 1 .. round :
    \/ due[Served + i] = runQueue[i]
    \/ due[Served + i] = NoFiber /\ state[runQueue[i]] = "absent"

TrackedStill == \A f \in (ToSet(due) \ {NoFiber}) \cup ToSet(slices) : state[f] # "absent"

OneEach ==
    /\ \A k, l \in DOMAIN due : due[k] = due[l] /\ due[k] # NoFiber => k = l
    /\ \A i, j \in DOMAIN slices : slices[i] = slices[j] => i = j

SlicedFirst ==
    /\ \A i \in DOMAIN slices, k \in DOMAIN due : slices[i] = due[k] => k <= Served
    /\ \A f \in Draining : f \notin ToSet(slices) /\ f \notin ToSet(due)

InDueOrder ==
    \A i, j \in DOMAIN slices : \A k, l \in DOMAIN due :
        slices[i] = due[k] /\ slices[j] = due[l] /\ i < j => k < l

ServedOrOver ==
    \A k \in 1 .. Served : due[k] = NoFiber \/ due[k] \in ToSet(slices) \/ state[due[k]] \in Terminal

RoundTypes == due \in Seq(FiberId \cup {NoFiber}) /\ slices \in Seq(FiberId)

InRound ==
    round <= Len(due) /\ Lined /\ TrackedStill /\ OneEach /\ SlicedFirst /\ InDueOrder /\ ServedOrOver

RoundInv ==
    /\ RoundTypes
    /\ phase = "idle" => due = << >> /\ slices = << >>
    /\ phase = "tick" => InRound

LEMMA RoundSeqs ==
    ASSUME TypeOK, RoundTypes
    PROVE  /\ round \in Nat /\ round <= Len(runQueue) /\ runQueue \in Seq(FiberId)
           /\ Len(due) \in Nat /\ Len(slices) \in Nat /\ NoFiber \notin FiberId
           /\ DOMAIN due = 1 .. Len(due) /\ DOMAIN slices = 1 .. Len(slices)
           /\ DOMAIN runQueue = 1 .. Len(runQueue) /\ Len(runQueue) \in Nat
           /\ \A k \in DOMAIN due : due[k] \in FiberId \cup {NoFiber}
           /\ \A i \in DOMAIN slices : slices[i] \in FiberId
           /\ \A x : x \in ToSet(due) <=> \E k \in DOMAIN due : due[k] = x
           /\ \A x : x \in ToSet(slices) <=> \E i \in DOMAIN slices : slices[i] = x
           /\ state \in [FiberId -> FiberState]
BY FibersAssumption DEF TypeOK, QueueTypeOK, RoundTypes, ToSet

LEMMA MeanwhileRound ==
    ASSUME TypeOK, QueueInv, RoundTypes, InRound, Meanwhile, UNCHANGED history
    PROVE  RoundTypes' /\ InRound'
<1> USE RoundSeqs DEF InRound, Meanwhile
<1>1. due' = due /\ slices' = slices /\ round' = round /\ Served' = Served
  BY DEF history, Served
<1>2. RoundTypes'
  BY <1>1 DEF RoundTypes
<1>3. Lined'
  <2> SUFFICES ASSUME NEW i \in 1 .. round
               PROVE  \/ due[Served + i] = runQueue'[i]
                      \/ due[Served + i] = NoFiber /\ state'[runQueue'[i]] = "absent"
    BY <1>1 DEF Lined
  <2>1. i \in DOMAIN runQueue /\ runQueue[i] \in FiberId /\ runQueue'[i] = runQueue[i]
    BY DEF Extends
  <2>2. runQueue[i] \in Queued
    BY <2>1 DEF Queued, ToSet
  <2> QED
    BY <2>1, <2>2 DEF Lined, FibersStay
<1>4. TrackedStill'
  <2>1. \A f \in (ToSet(due) \ {NoFiber}) \cup ToSet(slices) : f \in FiberId
    OBVIOUS
  <2> QED
    BY <1>1, <2>1 DEF TrackedStill, FibersStay
<1>5. OneEach' /\ InDueOrder'
  BY <1>1 DEF OneEach, InDueOrder
<1>6. SlicedFirst'
  <2>1. ASSUME NEW f \in Draining'
        PROVE  f \notin ToSet(slices) /\ f \notin ToSet(due)
    BY <2>1 DEF SlicedFirst, TrackedStill
  <2> QED
    BY <1>1, <2>1 DEF SlicedFirst
<1>7. ServedOrOver'
  <2> SUFFICES ASSUME NEW k \in 1 .. Served
               PROVE  \/ due[k] = NoFiber \/ due[k] \in ToSet(slices)
                      \/ state'[due[k]] \in Terminal
    BY <1>1 DEF ServedOrOver
  <2>1. k \in DOMAIN due
    BY DEF Served
  <2> QED
    BY <2>1 DEF ServedOrOver, FibersStay
<1> QED
  BY <1>1, <1>2, <1>3, <1>4, <1>5, <1>6, <1>7

(* A slice is given to a fiber that had none, and that was due next if it  *)
(* was due at all.                                                         *)
LEMMA SliceGiven ==
    ASSUME TypeOK, RoundTypes, InRound, NEW f \in FiberId, f \notin ToSet(slices),
           \A k \in DOMAIN due : due[k] = f => k = Served + 1,
           due' = due, slices' = Append(slices, f)
    PROVE  /\ RoundTypes' /\ OneEach' /\ InDueOrder'
           /\ ToSet(slices') = ToSet(slices) \cup {f}
           /\ \A i \in DOMAIN slices', k \in DOMAIN due :
                 slices'[i] = due[k] => k <= Served \/ (k = Served + 1 /\ due[k] = f)
<1> USE RoundSeqs DEF InRound
<1> PICK n : n = Len(slices) + 1
  OBVIOUS
<1>1. /\ DOMAIN slices' = 1 .. n /\ slices'[n] = f /\ n \in Nat
      /\ \A i \in 1 .. n : i # n => i \in DOMAIN slices /\ slices'[i] = slices[i] /\ i < n
  OBVIOUS
<1>2. RoundTypes'
  BY DEF RoundTypes
<1>3. OneEach'
  BY <1>1 DEF OneEach
<1>4. ASSUME NEW i \in DOMAIN slices', NEW k \in DOMAIN due, slices'[i] = due[k]
      PROVE  k <= Served \/ (k = Served + 1 /\ due[k] = f)
  BY <1>1, <1>4 DEF SlicedFirst
<1>5. InDueOrder'
  <2> SUFFICES ASSUME NEW i \in 1 .. n, NEW j \in 1 .. n, NEW k \in DOMAIN due, NEW l \in DOMAIN due,
                      slices'[i] = due[k], slices'[j] = due[l], i < j
               PROVE  k < l
    BY <1>1 DEF InDueOrder
  <2>1. i # n
    BY <1>1
  <2>2. CASE j # n
    BY <1>1, <2>1, <2>2 DEF InDueOrder
  <2>3. CASE j = n
    <3>1. l = Served + 1
      BY <1>1, <2>3
    <3>2. k <= Served
      BY <1>1, <2>1 DEF SlicedFirst
    <3> QED
      BY <3>1, <3>2 DEF Served
  <2> QED
    BY <2>2, <2>3
<1>6. ToSet(slices') = ToSet(slices) \cup {f}
  <2>1. \A x : x \in ToSet(slices') <=> \E i \in 1 .. n : slices'[i] = x
    BY ONLY <1>1 DEF ToSet
  <2>2. \A x : x \in ToSet(slices') <=> x \in ToSet(slices) \/ x = f
    <3>1. \A i \in DOMAIN slices : i \in 1 .. n /\ slices'[i] = slices[i]
      BY <1>1
    <3>2. n \in 1 .. n
      BY <1>1
    <3> QED
      BY <1>1, <2>1, <3>1, <3>2
  <2> QED
    BY <2>2
<1> QED
  BY <1>2, <1>3, <1>4, <1>5, <1>6

(* The next entry of the round has its turn.                               *)
LEMMA RoundTaken ==
    ASSUME TypeOK, QueueInv, RoundTypes, InRound, NextInRound, due' = due,
           slices' = IF running' # NoFiber THEN Append(slices, running') ELSE slices
    PROVE  RoundTypes' /\ InRound'
<1> USE RoundSeqs DEF InRound
<1> PICK f : f = Head(runQueue)
  OBVIOUS
<1>1. /\ running' = IF state[f] = "RUNNABLE" THEN f ELSE NoFiber
      /\ runQueue' = Tail(runQueue) /\ round' = round - 1 /\ round > 0
      /\ state' = state /\ Draining' = Draining
  BY DEF NextInRound, Draining
<1>2. f = runQueue[1] /\ f \in FiberId /\ 1 \in DOMAIN runQueue
  BY <1>1
<1>3. f \in Queued /\ f \notin Draining /\ state[f] # "WAITING"
  BY <1>2 DEF Queued, QueueInv, QueueSets, Draining, ToSet
<1> PICK next : next = Served + 1
  OBVIOUS
<1>4. /\ next \in DOMAIN due /\ Served' = next /\ Served \in Nat
      /\ due[next] = f \/ (due[next] = NoFiber /\ state[f] = "absent")
  <2>1. Served \in Nat /\ next \in 1 .. Len(due)
    BY <1>1 DEF Served
  <2>2. Served' = next
    BY <1>1, <2>1 DEF Served
  <2>3. 1 \in 1 .. round
    BY <1>1
  <2> QED
    BY <1>2, <2>1, <2>2, <2>3 DEF Lined
<1>5. Lined'
  <2> SUFFICES ASSUME NEW i \in 1 .. round - 1
               PROVE  \/ due[next + i] = Tail(runQueue)[i]
                      \/ due[next + i] = NoFiber /\ state[Tail(runQueue)[i]] = "absent"
    BY <1>1, <1>4 DEF Lined
  <2>1. Tail(runQueue)[i] = runQueue[i + 1] /\ i + 1 \in 1 .. round
    BY <1>1
  <2>2. next + i = Served + (i + 1)
    BY <1>4
  <2> QED
    BY <2>1, <2>2 DEF Lined
<1>6. round' <= Len(due')
  BY <1>1
<1>7. CASE state[f] = "RUNNABLE"
  <2>1. running' = f /\ f # NoFiber /\ due[next] = f /\ slices' = Append(slices, f)
    BY <1>1, <1>2, <1>4, <1>7
  <2>2. f \notin ToSet(slices)
    BY <1>4, <2>1 DEF SlicedFirst
  <2>3. \A k \in DOMAIN due : due[k] = f => k = Served + 1
    BY <1>4, <2>1 DEF OneEach
  <2>4. /\ RoundTypes' /\ OneEach' /\ InDueOrder'
        /\ ToSet(slices') = ToSet(slices) \cup {f}
        /\ \A i \in DOMAIN slices', k \in DOMAIN due :
              slices'[i] = due[k] => k <= Served \/ (k = Served + 1 /\ due[k] = f)
    BY <1>2, <2>1, <2>2, <2>3, SliceGiven
  <2>5. TrackedStill'
    BY <1>1, <1>7, <2>4 DEF TrackedStill
  <2>6. SlicedFirst'
    BY <1>1, <1>3, <1>4, <2>4 DEF SlicedFirst
  <2>7. ServedOrOver'
    <3> SUFFICES ASSUME NEW k \in 1 .. next
                 PROVE  \/ due[k] = NoFiber \/ due[k] \in ToSet(slices')
                        \/ state[due[k]] \in Terminal
      BY <1>1, <1>4 DEF ServedOrOver
    <3>1. k \in 1 .. Served \/ k = next
      BY <1>4
    <3> QED
      BY <2>1, <2>4, <3>1 DEF ServedOrOver
  <2> QED
    BY <1>5, <1>6, <2>4, <2>5, <2>6, <2>7
<1>8. CASE state[f] # "RUNNABLE"
  <2>1. slices' = slices
    BY <1>1, <1>8
  <2>2. RoundTypes' /\ OneEach' /\ InDueOrder' /\ TrackedStill'
    BY ONLY RoundTypes, OneEach, InDueOrder, TrackedStill, <1>1, <2>1, due' = due
       DEF RoundTypes, OneEach, InDueOrder, TrackedStill
  <2>3. SlicedFirst'
    <3>1. \A i \in DOMAIN slices, k \in DOMAIN due : slices[i] = due[k] => k <= next
      BY <1>4 DEF SlicedFirst
    <3> QED
      BY <1>1, <1>4, <2>1, <3>1 DEF SlicedFirst
  <2>4. due[next] = f => state[f] \in Terminal
    <3>1. due[next] = f => state[f] # "absent"
      BY <1>2, <1>4 DEF TrackedStill
    <3> QED
      BY <1>2, <1>3, <1>8, <3>1 DEF FiberState, Alive, Terminal
  <2>5. ServedOrOver'
    <3> SUFFICES ASSUME NEW k \in 1 .. next
                 PROVE  \/ due[k] = NoFiber \/ due[k] \in ToSet(slices)
                        \/ state[due[k]] \in Terminal
      BY <1>1, <1>4, <2>1 DEF ServedOrOver
    <3>1. k \in 1 .. Served \/ k = next
      BY <1>4
    <3> QED
      BY <1>4, <2>4, <3>1 DEF ServedOrOver
  <2> QED
    BY <1>5, <1>6, <2>2, <2>3, <2>5
<1> QED
  BY <1>7, <1>8

(* A child of the slices before it has its turn: it was not due.           *)
LEMMA ChildTaken ==
    ASSUME TypeOK, QueueInv, RoundTypes, InRound, NextInCascade, due' = due,
           slices' = IF running' # NoFiber THEN Append(slices, running') ELSE slices
    PROVE  RoundTypes' /\ InRound'
<1> USE RoundSeqs DEF InRound
<1> PICK f : f = Head(cascade)
  OBVIOUS
<1>1. /\ running' = IF state[f] = "RUNNABLE" THEN f ELSE NoFiber
      /\ cascade' = Tail(cascade) /\ cascade # << >>
      /\ UNCHANGED <<state, runQueue, spawned, round>> /\ Served' = Served
  BY DEF NextInCascade, Served
<1>2. /\ f \in ToSet(cascade) /\ ToSet(cascade') = ToSet(cascade) \ {f}
      /\ ToSet(cascade) \subseteq FiberId
  BY <1>1, TailDistinct, QueueSeqs DEF QueueInv, QueueSets, Queued
<1>3. f \in Draining /\ f \in FiberId /\ Draining' \subseteq Draining \ {f}
  BY <1>1, <1>2 DEF Draining, QueueInv, QueueSets
<1>4. f \notin ToSet(slices) /\ f \notin ToSet(due)
  BY <1>3 DEF SlicedFirst
<1>5. Lined' /\ round' <= Len(due')
  BY <1>1 DEF Lined
<1>6. CASE state[f] = "RUNNABLE"
  <2>1. f # NoFiber /\ slices' = Append(slices, f)
    BY <1>1, <1>3, <1>6
  <2>2. \A k \in DOMAIN due : due[k] # f
    BY <1>4
  <2>3. /\ RoundTypes' /\ OneEach' /\ InDueOrder'
        /\ ToSet(slices') = ToSet(slices) \cup {f}
        /\ \A i \in DOMAIN slices', k \in DOMAIN due :
              slices'[i] = due[k] => k <= Served \/ (k = Served + 1 /\ due[k] = f)
    BY <1>3, <1>4, <2>1, <2>2, SliceGiven
  <2>4. TrackedStill'
    BY <1>1, <1>6, <2>3 DEF TrackedStill
  <2>5. SlicedFirst'
    BY <1>1, <1>3, <2>2, <2>3 DEF SlicedFirst
  <2>6. ServedOrOver'
    BY <1>1, <2>3 DEF ServedOrOver
  <2> QED
    BY <1>5, <2>3, <2>4, <2>5, <2>6
<1>7. CASE state[f] # "RUNNABLE"
  <2>1. slices' = slices
    BY <1>1, <1>7
  <2>2. RoundTypes' /\ OneEach' /\ InDueOrder' /\ TrackedStill' /\ ServedOrOver'
    BY ONLY RoundTypes, OneEach, InDueOrder, TrackedStill, ServedOrOver, <1>1, <2>1, due' = due
       DEF RoundTypes, OneEach, InDueOrder, TrackedStill, ServedOrOver
  <2>3. SlicedFirst'
    BY <1>1, <1>3, <2>1 DEF SlicedFirst
  <2> QED
    BY <1>5, <2>2, <2>3
<1> QED
  BY <1>6, <1>7

(* A tick opens with everything queued, and nobody of the drain, due.      *)
LEMMA RoundOpened ==
    ASSUME TypeOK, QueueInv, StartTick, due' = Due, slices' = << >>
    PROVE  RoundTypes' /\ InRound'
<1>1. /\ round' = Len(runQueue) /\ runQueue' = runQueue /\ state' = state /\ Draining' = Draining
      /\ runQueue \in Seq(FiberId) /\ NoFiber \notin FiberId
  BY QueueSeqs, FibersAssumption DEF StartTick, OpenRound, fiberVars, Draining
<1>2. /\ DOMAIN due' = 1 .. Len(runQueue) /\ Len(runQueue) \in Nat
      /\ \A k \in 1 .. Len(runQueue) :
            /\ runQueue[k] \in FiberId
            /\ due'[k] = IF state[runQueue[k]] # "absent" THEN runQueue[k] ELSE NoFiber
  BY <1>1 DEF Due, Tracked
<1>3. due' \in Seq(FiberId \cup {NoFiber}) /\ Len(due') = Len(runQueue)
  <2>1. due' \in [1 .. Len(runQueue) -> FiberId \cup {NoFiber}]
    BY <1>1, <1>2 DEF Due
  <2> QED
    BY <1>2, <2>1
<1>4. RoundTypes' /\ Served' = 0 /\ round' <= Len(due') /\ DOMAIN slices' = {}
  BY <1>1, <1>2, <1>3 DEF RoundTypes, Served
<1>5. Lined'
  <2> SUFFICES ASSUME NEW i \in 1 .. Len(runQueue)
               PROVE  \/ due'[0 + i] = runQueue[i]
                      \/ due'[0 + i] = NoFiber /\ state[runQueue[i]] = "absent"
    BY <1>1, <1>4 DEF Lined
  <2> QED
    BY <1>2
<1>6. ToSet(slices') = {}
  BY DEF ToSet
<1>7. \A x \in ToSet(due') : x = NoFiber \/ (x \in ToSet(runQueue) /\ state[x] # "absent")
  BY <1>1, <1>2 DEF ToSet
<1>8. TrackedStill'
  BY <1>1, <1>6, <1>7 DEF TrackedStill
<1>9. OneEach'
  BY <1>2, <1>4 DEF OneEach, QueueInv, QueueSets, Distinct
<1>10. SlicedFirst'
  <2>1. \A f \in Draining : f \in FiberId /\ f \notin ToSet(runQueue)
    BY QueueSeqs DEF Draining, QueueInv, QueueSets, Queued
  <2> QED
    BY <1>1, <1>4, <1>6, <1>7, <2>1 DEF SlicedFirst
<1>11. InDueOrder' /\ ServedOrOver'
  BY <1>4 DEF InDueOrder, ServedOrOver
<1> QED
  BY <1>4, <1>5, <1>8, <1>9, <1>10, <1>11 DEF InRound

LEMMA RoundStep ==
    ASSUME TypeOK, TypeOK', QueueInv, RoundInv, [RoundsNext]_<<vars, history>>
    PROVE  RoundInv'
<1>1. phase \in {"idle", "tick"} /\ phase' \in {"idle", "tick"}
  BY DEF TypeOK, QueueTypeOK
<1>2. CASE UNCHANGED <<vars, history>>
  BY <1>2 DEF vars, fiberVars, queueVars, history, RoundInv, RoundTypes, InRound, Served, Lined,
              TrackedStill, OneEach, SlicedFirst, Draining, InDueOrder, ServedOrOver
<1>3. CASE RoundsNext /\ phase' = "idle"
  BY <1>3 DEF RoundsNext, RoundInv, RoundTypes
<1>4. CASE RoundsNext /\ phase = "idle" /\ phase' = "tick"
  <2>1. StartTick
    <3>1. ~\E f \in FiberId : Instruction(f)
      <4> SUFFICES ASSUME NEW f \in FiberId, Instruction(f)
                   PROVE  FALSE
        OBVIOUS
      <4>1. running = f
        BY DEF Instruction, Yield, Backpressure, Starve, Return, Fault, CatchInjected, FaultInjected,
               LeaveCancelled, ErrorEscapes, AwaitSettled, AwaitPending, AwaitUnknown,
               DispatchAction, DispatchHost, SpawnChild, Advancing, Executing
      <4> QED
        BY <1>4, <4>1, FibersAssumption DEF QueueInv
    <3>2. ~Host
      BY <1>4 DEF Host, Spawn, Cancel, HostSettle, CancelPage, queueVars
    <3>3. ~RunNext /\ ~Gc /\ ~SystemThinkFails
      BY <1>4 DEF RunNext, NextInRound, NextInCascade, Gc, SystemThinkFails, RoundOver, Between
    <3> QED
      BY <1>4, <3>1, <3>2, <3>3 DEF RoundsNext, Next, Scheduling
  <2>2. due' = Due /\ slices' = << >>
    BY <1>4, <2>1 DEF RoundsNext, RoundInv, StartTick, OpenRound
  <2> QED
    BY <1>4, <2>1, <2>2, RoundOpened DEF RoundInv
<1>5. CASE RoundsNext /\ phase = "tick" /\ phase' = "tick"
  <2>1. /\ due' = due /\ RoundTypes /\ InRound
        /\ slices' = IF running = NoFiber /\ running' # NoFiber THEN Append(slices, running')
                     ELSE slices
    BY <1>5 DEF RoundsNext, RoundInv
  <2>2. CASE RunNext
    <3>1. running = NoFiber
      BY <2>2 DEF RunNext, NextInRound, NextInCascade, Between
    <3>2. RoundTypes' /\ InRound'
      BY <2>1, <2>2, <3>1, RoundTaken, ChildTaken DEF RunNext
    <3> QED
      BY <1>5, <3>2 DEF RoundInv
  <2>3. CASE Host \/ \E f \in FiberId : Instruction(f)
    <3>1. Meanwhile /\ running' \in {running, NoFiber}
      BY <1>5, <2>3, HostMeanwhile, InstructionMeanwhile
    <3>2. UNCHANGED history
      BY <2>1, <3>1 DEF history
    <3>3. RoundTypes' /\ InRound'
      BY <2>1, <3>1, <3>2, MeanwhileRound
    <3> QED
      BY <1>5, <3>3 DEF RoundInv
  <2>4. ~StartTick /\ ~Gc /\ ~SystemThinkFails
    BY <1>5 DEF StartTick, OpenRound, Gc, SystemThinkFails
  <2> QED
    BY <1>5, <2>2, <2>3, <2>4 DEF RoundsNext, Next, Scheduling
<1> QED
  BY <1>1, <1>2, <1>3, <1>4, <1>5

LEMMA RoundFair ==
    ASSUME TypeOK, RoundInv
    PROVE  RoundIsFair
<1>1. CASE phase = "idle"
  BY <1>1 DEF RoundInv, RoundIsFair, RoundOver, Between
<1>2. CASE phase = "tick"
  <2>1. RoundTypes /\ InRound
    BY <1>2 DEF RoundInv
  <2>2. ASSUME RoundOver, NEW f \in ToSet(due) \ {NoFiber}
        PROVE  f \in ToSet(slices) \/ state[f] \in Terminal \cup {"absent"}
    <3>1. PICK k \in DOMAIN due : due[k] = f
      BY <2>1, RoundSeqs
    <3>2. k \in 1 .. Served
      BY <2>1, <2>2, RoundSeqs DEF Served, RoundOver
    <3> QED
      BY <2>1, <3>1, <3>2 DEF InRound, ServedOrOver
  <2> QED
    BY <2>1, <2>2 DEF RoundIsFair, InRound, OneEach, InDueOrder
<1> QED
  BY <1>1, <1>2 DEF TypeOK, QueueTypeOK

(* Every tick is fair, for any number of fibers and whatever they do: one  *)
(* slice each, in the order of the queue, and nobody who was due is left   *)
(* out when the round is over.                                             *)
THEOREM RoundsFair == RoundsSpec => []RoundIsFair
<1>1. RoundsInit => TypeOK /\ CapAccounting /\ QueueInv /\ RoundInv
  <2>1. RoundsInit => RoundInv
    BY DEF RoundsInit, Init, QueueInit, RoundInv, RoundTypes
  <2> QED
    BY <2>1, InitType, InitQueue DEF RoundsInit
<1>2. TypeOK /\ CapAccounting /\ QueueInv /\ RoundInv /\ [RoundsNext]_<<vars, history>>
        => TypeOK' /\ CapAccounting' /\ QueueInv' /\ RoundInv'
  <2> SUFFICES ASSUME TypeOK, CapAccounting, QueueInv, RoundInv, [RoundsNext]_<<vars, history>>
               PROVE  TypeOK' /\ CapAccounting' /\ QueueInv' /\ RoundInv'
    OBVIOUS
  <2>1. [Next]_vars
    BY DEF RoundsNext
  <2>2. TypeOK' /\ CapAccounting'
    <3>1. CASE UNCHANGED vars
      BY <3>1 DEF vars, fiberVars, queueVars, handleVars, TypeOK, HandleTypeOK, QueueTypeOK,
                  CapAccounting, CappedLive, Live
    <3> QED
      BY <2>1, <3>1, SchedulingType, HostType, InstructionType DEF Next
  <2>3. QueueInv'
    BY <2>1, QueueStep
  <2> QED
    BY <2>2, <2>3, RoundStep
<1>3. TypeOK /\ RoundInv => RoundIsFair
  BY RoundFair
<1> QED
  BY <1>1, <1>2, <1>3, PTL DEF RoundsSpec
=============================================================================
