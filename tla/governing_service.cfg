SPECIFICATION FairSpec
CONSTANTS
    Objects = {"svc"}
    MaxDeletions = 1
    Legacy = {TRUE, FALSE}
    MaxDisturbances = 0
    MaxLag = 1
    Edits <- SomeEdits
PROPERTIES
    GoverningServiceKept
CHECK_DEADLOCK FALSE
