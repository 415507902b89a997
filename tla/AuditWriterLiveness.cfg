SPECIFICATION FairSpec
CONSTANTS
    a1 = a1
    a2 = a2
    s1 = s1
    s2 = s2
    k1 = k1
    k2 = k2
    None = None
    AsyncCalls <- TwoAsync
    SyncCalls <- OneSync
    Closers <- OneCloser
    Ids <- MCIds
    Buffer = 1
    MaxTime = 1
    AmbiguousAppend = TRUE
PROPERTIES
    CallsReturn
    ClosedQueueDrains
CHECK_DEADLOCK FALSE
INVARIANT
    NoDanglingLink
