SPECIFICATION Spec
CONSTANTS
    MaxGen = 3
    Changes <- RootHostBack
    Redundancy = 2
    StaleStatus = FALSE
    MayFail = {}
    MaxDisruptions = 0
    MaxErrors = 0
    MaxRestarts = 0
    MaxStatusFailures = 0
    MaxRelists = 0
INVARIANTS
    RootCanConnect
CHECK_DEADLOCK FALSE
