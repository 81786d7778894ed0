SPECIFICATION FairSpec
CONSTANTS
    Objects = {"secret", "svc"}
    MaxDeletions = 1
    Legacy = {TRUE, FALSE}
    MaxDisturbances = 1
    MaxLag = 1
    Edits <- SomeEdits
INVARIANTS
    TypeOK
    IsolatedFirst
PROPERTIES
    NoConcurrentEditLost
    DriftRepaired
    Recreated
CHECK_DEADLOCK FALSE
