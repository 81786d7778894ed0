SPECIFICATION FairSpec
CONSTANTS
    MaxGen = 2
    Changes <- ConfigChange
    Redundancy = 2
    StaleStatus = FALSE
    MayFail = {"ndbmtd"}
    MaxDisruptions = 0
    MaxErrors = 0
    MaxRestarts = 0
    MaxStatusFailures = 0
    MaxRelists = 0
PROPERTIES
    EveryUpdateProcessed
CHECK_DEADLOCK FALSE
