SPECIFICATION Spec
CONSTANTS
    MaxGen = 2
    Changes <- TemplateAndRootHost
    Redundancy = 2
    StaleStatus = FALSE
    MayFail = {}
    MaxDisruptions = 0
    MaxErrors = 0
    MaxRestarts = 0
    MaxStatusFailures = 0
    MaxRelists = 0
INVARIANTS
    OnlyRootHost
CHECK_DEADLOCK FALSE
