SPECIFICATION FairSpec
CONSTANTS
    Objects = {"pvc"}
    MaxDeletions = 1
    Legacy = {TRUE, FALSE}
    MaxDisturbances = 1
    MaxLag = 1
    Edits <- SomeEdits
PROPERTIES
    VolumesDeleted
CHECK_DEADLOCK FALSE
