SPECIFICATION Spec
CONSTANTS
    MaxGen = 2
    Changes <- AnyChange
    Redundancy = 2
    StaleStatus = FALSE
    MayFail = {}
    MaxDisruptions = 0
    MaxErrors = 1
    MaxRestarts = 1
    MaxStatusFailures = 1
    MaxRelists = 1
INVARIANTS
    SafeUnderFaults
PROPERTIES
    NeverBackwards
    ImplementsContract
CHECK_DEADLOCK FALSE
