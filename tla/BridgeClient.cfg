SPECIFICATION Spec
CONSTANTS
    Token = {t1, t2}
    NoToken = none
    MaxQueueSize = 2
    MaxMissed = 2
    MaxMessages = 4
INVARIANTS
    TypeOK
    InOrder
    OneWayForward
PROPERTIES
    QueueIsKept
    QueueIsSent
    SilenceIsNoticed
