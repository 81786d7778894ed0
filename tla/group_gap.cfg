SPECIFICATION Spec
CONSTANTS
    Programs = {"ensureDataNodePodVersion"}
    Mgmds = 2
    Clusters <- GapClusters
    ApiNode = 147
    OwnId = 3
    NodeIdPool <- Pool
    Redundancy = 2
    Configs <- SomeConfigs
    Replicas = {1, 2}
    Window = 2
    MaxCrashes = 1
    MaxTimeouts = 1
INVARIANTS
    NodeGroupsComplete
CHECK_DEADLOCK FALSE
