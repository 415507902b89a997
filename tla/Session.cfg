CONSTANTS
    t1 = t1
    t2 = t2
    None = None
    Keep = Keep
    Tabs = {t1, t2}
    MaxTokens = 2
    MaxCalls = 1

SPECIFICATION FairSpec

PROPERTIES
    SessionIsKept
    SignedOutEverywhere
