CONSTANTS
    new = new
    old = old
    board = board
    None = None
    Engines = {new, old}
    Dashboards = {board}
    Release <- MCRelease
    Default <- MCDefault
    Deployments <- MCDeployments
    Second = 10
    MaxDuration = 127
    MaxFailures = 2

SPECIFICATION FairStartup

INVARIANTS
    SchemaIsRecorded
    ServesAsConfigured

PROPERTY StartupEnds

CHECK_DEADLOCK FALSE
