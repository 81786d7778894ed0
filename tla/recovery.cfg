SPECIFICATION FairSpec
CONSTANTS
    MaxGen = 2
    Changes <- LiveChanges
    Redundancy = 2
    StaleStatus = FALSE
    MayFail = {"mgmd"}
    MaxDisruptions = 1
    MaxErrors = 0
    MaxRestarts = 1
    MaxStatusFailures = 0
    MaxRelists = 0
PROPERTIES
    EveryUpdateProcessed
CHECK_DEADLOCK FALSE
