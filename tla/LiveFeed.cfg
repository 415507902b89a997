CONSTANTS
    Conns = {c1, c2}
    None = None
    LastEntry = 3
    StreamBuffer = 1
    ClientBuffer = 1
    MaxEvents = 2
    MaxBreaks = 1

SPECIFICATION FairSpec

INVARIANTS
    ClosedOnce
    

PROPERTIES
    NoGhostClients
    FeedRecovers
