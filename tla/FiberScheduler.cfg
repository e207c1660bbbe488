CONSTANTS
    f1 = f1
    a1 = a1
    f2 = f2
    h1 = h1
    FiberId = {f1, f2}
    HandleId = {a1, h1}
    ActionHandleId = {a1}
    MaxHandles = 1
    MaxFibers = 2
    StarveRounds = 2
    NoFiber = NoFiber
    NoHandle = NoHandle
SPECIFICATION FairRoundsSpec
INVARIANTS TypeOK NoLostWakeup QueuedOnce CapAccounting ActionOwed SameThinkCascade RoundIsFair
PROPERTIES EveryRunnableRuns WaitsEnd
