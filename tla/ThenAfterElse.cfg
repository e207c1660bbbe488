CONSTANTS
    FiberId = {1, 2, 3, 4, 5, 6}
    NoFiber = NoFiber
    Rule <- LadderRules
    NoRule = 0
    Parent <- LadderParent
    ChildRules <- LadderChildren
    Pages <- LadderPages
    Mode <- ElseThenMode
    Stale = Stale
    Requested = {}
    MaxActions = 0
SPECIFICATION HistorySpec
PROPERTIES FiresOncePerCompletion
