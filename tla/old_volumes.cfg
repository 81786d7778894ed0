SPECIFICATION Spec
CONSTANTS
    Objects = {"pvc"}
    MaxDeletions = 1
    Legacy = {TRUE, FALSE}
    MaxDisturbances = 0
    MaxLag = 1
    Edits <- SomeEdits
INVARIANTS
    VolumesFresh
CHECK_DEADLOCK FALSE
