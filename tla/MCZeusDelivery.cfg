CONSTANTS
    CapBytes = 4
    Burst = 2
    MaxOutstanding = 2
    IngressCap = 1
    MaxTx = 4
    MaxBatch = 2
SPECIFICATION Spec
INVARIANTS
    CacheWithinBudget
    UnemittedKept
    SinkFollowsChain
    ConfirmedWasDelivered
PROPERTY ReceivedIsDelivered
CHECK_DEADLOCK FALSE
