CONSTANTS
    alice = alice
    bob = bob
    edge = edge
    inner = inner
    Empty = Empty
    Malformed = Malformed
    Attempts = {a1, a2, a3, a4, a5}
    Clients = {alice, bob}
    Proxies = {edge, inner}
    Written <- MCWritten
    Paths <- MCPaths
    Limit = 2
    Window = 1
    SweepAt = 2
    MaxTime = 2
SYMMETRY Interchangeable
SPECIFICATION Spec
INVARIANTS
    ChargedToTheirAuthor
    OvershootIsConcurrency
PROPERTY RefusalHasCause
CHECK_DEADLOCK FALSE
