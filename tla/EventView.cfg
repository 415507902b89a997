CONSTANTS
    Kinds = {"traffic"}
    IPs = {"a", "b"}
    PageSize = 1
    MaxLimit = 2
    MaxLog = 3
    MaxLoads = 4

SPECIFICATION ViewFairSpec

INVARIANTS
    
    
    NoEntrySkipped

PROPERTY LoadingEnds

CHECK_DEADLOCK FALSE
