CONSTANTS
    ClientRequests = {r1, r2, r3, r4, r5}
    Limit = 2
    Window = 3
    MaxDelay = 1
    MaxTime = 6

SYMMETRY Interchangeable

SPECIFICATION LimitSpec

INVARIANTS
    CapHolds
    AtMostTwice
    RefusedHasCause

CHECK_DEADLOCK FALSE
