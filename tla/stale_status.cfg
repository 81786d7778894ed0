SPECIFICATION FairSpec
CONSTANTS
    MaxGen = 1
    Changes <- ConfigChange
    Redundancy = 2
    StaleStatus = TRUE
    MayFail = {}
    MaxDisruptions = 1
    MaxErrors = 0
    MaxRestarts = 0
    MaxStatusFailures = 0
    MaxRelists = 0
PROPERTIES
    EveryUpdateProcessed
CHECK_DEADLOCK FALSE
