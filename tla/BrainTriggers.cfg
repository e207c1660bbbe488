CONSTANTS
    FiberId = {1, 2, 3, 4, 5}
    NoFiber = NoFiber
    Rule <- PagedRules
    NoRule = 0
    Parent <- PagedParent
    ChildRules <- PagedChildren
    Pages <- PagedPages
    Mode <- PagedMode
    Stale = Stale
    Requested = {1, 2}
    MaxActions = 1
SPECIFICATION Spec
INVARIANTS TriggerWillBeAnswered
