SPECIFICATION Spec
CONSTANTS
    Objects = {"pvc"}
    MaxDeletions = 1
    Legacy = {TRUE, FALSE}
    MaxDisturbances = 0
    MaxLag = 2
    Edits <- SomeEdits
PROPERTIES
    OwnVolumesKept
CHECK_DEADLOCK FALSE
