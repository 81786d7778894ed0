SPECIFICATION Spec
CONSTANTS
    Programs = {"initialize MySQL Server"}
    Mgmds = 2
    Clusters <- SomeClusters
    ApiNode = 147
    OwnId = 3
    NodeIdPool <- Pool
    Redundancy = 2
    Configs <- SomeConfigs
    Replicas = {1, 2}
    Window = 2
    MaxCrashes = 0
    MaxTimeouts = 1
INVARIANTS
    NodeIdsGrantedDespiteTimeouts
CHECK_DEADLOCK FALSE
