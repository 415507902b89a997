CONSTANTS
    net = net
    host = host
    None = None
    Requests = {r1}
    CIDRs = {net, host}
    Chain <- MCChain
    Within <- MCWithin
    EnabledSets <- MCEnabledSets
    AccessLists <- MCAccessLists
    MaxChanges = 3
    FailModes = {"open", "closed"}

SPECIFICATION FairSpec

INVARIANTS
    VerdictOfOneConfig
    ForwardedWasAllowed

PROPERTY RequestsAreServed
