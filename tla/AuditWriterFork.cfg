SPECIFICATION Spec
CONSTANTS
    a1 = a1
    a2 = a2
    s1 = s1
    s2 = s2
    k1 = k1
    k2 = k2
    None = None
    AsyncCalls <- TwoAsync
    SyncCalls <- OneSync
    Closers <- OneCloser
    Ids <- MCIds
    Buffer = 1
    MaxTime = 1
    AmbiguousAppend = TRUE
INVARIANT
    ChainIntact
CHECK_DEADLOCK FALSE
