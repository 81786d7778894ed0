SPECIFICATION Spec
CONSTANTS
    MaxGen = 2
    Changes <- AddNodes
    Redundancy = 2
    StaleStatus = FALSE
    MayFail = {}
    MaxDisruptions = 1
    MaxErrors = 0
    MaxRestarts = 0
    MaxStatusFailures = 0
    MaxRelists = 0
INVARIANTS
    NodesInducted
CHECK_DEADLOCK FALSE
