SPECIFICATION Spec
CONSTANTS
    Brain = {b1}
    Elsewhere = elsewhere
    Socket = {s1, s2}
    NoSocket = none
    Ask = {a1, a2}
    Library = {l1}
INVARIANTS
    TypeOK
    OneSession
    StatusTruthful
PROPERTIES
    QueuePromise
    WaitingIsAsked
CHECK_DEADLOCK FALSE
