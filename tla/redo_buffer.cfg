SPECIFICATION Spec
CONSTANTS
    Programs = {"memory"}
    Mgmds = 2
    Clusters <- SomeClusters
    ApiNode = 147
    OwnId = 3
    NodeIdPool <- Pool
    Redundancy = 2
    Configs <- LargeRedoBuffer
    Replicas = {1, 2}
    Window = 2
    MaxCrashes = 1
    MaxTimeouts = 1
INVARIANTS
    MemoryRequestExact
CHECK_DEADLOCK FALSE
