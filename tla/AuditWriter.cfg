SPECIFICATION Spec
CONSTANTS
    a1 = a1
    a2 = a2
    s1 = s1
    s2 = s2
    k1 = k1
    k2 = k2
    None = None
    AsyncCalls <- TwoAsync
    SyncCalls <- OneSync
    Closers <- TwoClosers
    Ids <- MCIds
    Buffer = 2
    MaxTime = 2
    AmbiguousAppend = FALSE
SYMMETRY Symmetry
INVARIANTS
    ChainIntact
    NoPanic
    SyncAnswerTruthful
    Accounting
    
CHECK_DEADLOCK FALSE
PROPERTY
    ImplementsAuditLog
