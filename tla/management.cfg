SPECIFICATION FairSpec
CONSTANTS
    Programs = {"initialize data node", "initialize MySQL Server", "createNodeGroups", "ensureDataNodePodVersion", "memory"}
    Mgmds = 2
    Clusters <- SomeClusters
    ApiNode = 147
    OwnId = 3
    NodeIdPool <- Pool
    Redundancy = 2
    Configs <- SomeConfigs
    Replicas = {1, 2}
    Window = 2
    MaxCrashes = 2
    MaxTimeouts = 1
INVARIANTS
    TypeOK
    StatusExact
    NodeGroupsComplete
    NewNodesGrouped
    NodeIdsGranted
    MemoryRequestExact
PROPERTIES
    ProgramEnds
CHECK_DEADLOCK FALSE
