SPECIFICATION Spec
CONSTANTS
    MaxGen = 3
    Changes <- ServersThenManagement
    Redundancy = 2
    StaleStatus = FALSE
    MayFail = {"mysqld"}
    MaxDisruptions = 0
    MaxErrors = 0
    MaxRestarts = 0
    MaxStatusFailures = 0
    MaxRelists = 0
INVARIANTS
    ProcessedWasRolledOut
CHECK_DEADLOCK FALSE
