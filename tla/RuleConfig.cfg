CONSTANTS
    turnOff = turnOff
    turnOn = turnOn
    misspelt = misspelt
    deny = deny
    allow = allow
    delete = delete
    cidr = cidr
    Requests = {turnOff, deny, delete}
    CIDRs = {cidr}
    Rules <- MCRules
    What <- MCWhat
    MayFail = {"audit", "store", "read"}
    MaxPending = 1

SPECIFICATION FairSpec

INVARIANTS
    EnforcedIsRecorded
    

PROPERTIES
    NeverOlder
    ChangesLand
