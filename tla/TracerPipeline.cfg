SPECIFICATION FairSpec
CONSTANTS
    t1 = t1
    t2 = t2
    t3 = t3
    Traces <- ThreeTraces
    Kept <- OneKept
    Flushers = {f1}
    NoFlusher = NoFlusher
    QueueSize = 2
    ConnLimit = 2
    PayloadLimit = 1
CHECK_DEADLOCK FALSE
INVARIANTS
    StopDelivers FlushHandsOver P0Accounted
PROPERTIES StopReturns FlushReturns ImplementsDelivery
