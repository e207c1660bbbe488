CONSTANTS
    FiberId = {1, 2, 3, 4, 5}
    NoFiber = NoFiber
    Rule <- ClusterRules
    NoRule = 0
    Parent <- ClusterParent
    ChildRules <- ClusterChildren
    Pages <- ClusterPages
    Mode <- ClusterMode
    Stale = Stale
    Requested = {1, 2}
    MaxActions = 0

SPECIFICATION HistorySpec

INVARIANTS TypeOK OneFiringInFlight InitialRecordUnread
PROPERTIES FiresOncePerCompletion
