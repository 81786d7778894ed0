SPECIFICATION FairSpec
CONSTANTS
    Programs = {"initialize MySQL Server"}
    Mgmds = 2
    Clusters <- SomeClusters
    ApiNode = 147
    OwnId = 3
    NodeIdPool <- Pool
    Redundancy = 2
    Configs <- SomeConfigs
    Replicas = {1, 2}
    Window = 2
    MaxCrashes = 1
    MaxTimeouts = 0
PROPERTIES
    InitializerEnds
CHECK_DEADLOCK FALSE
