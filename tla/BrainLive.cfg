CONSTANTS
    FiberId = {1, 2, 3, 4, 5}
    NoFiber = NoFiber
    Rule <- NestedRules
    NoRule = 0
    Parent <- NestedParent
    ChildRules <- NestedChildren
    Pages <- NestedPages
    Mode <- NestedMode
    Stale = Stale
    Requested = {1, 2}
    MaxActions = 0

SPECIFICATION FairSpec

PROPERTIES WaitingThenEnds RootFiresAgain RequestedPageEntered
