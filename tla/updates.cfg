SPECIFICATION Spec
CONSTANTS
    MaxGen = 3
    Changes <- SuccessiveChanges
    Redundancy = 2
    StaleStatus = TRUE
    MayFail = {}
    MaxDisruptions = 0
    MaxErrors = 0
    MaxRestarts = 0
    MaxStatusFailures = 0
    MaxRelists = 0
INVARIANTS
    TypeOK
    ProcessedMatchesSpec
    ProcessedNodes
    ProcessedWasRolledOut
    NodesInducted
    InitialFlagCleared
    RootCanConnect
PROPERTIES
    ConfigAdoptedFirst
    ImplementsContract
CHECK_DEADLOCK FALSE
