SPECIFICATION Spec
CONSTANTS
    Specs <- AnySpec
    Configs <- AnyConfig
    Redundancy = 2
    MaxGen = 4
    MayOverlap = FALSE
INVARIANTS
    TypeOK
    ConfigApplied
    PodsHaveNodeIds
    DistinctNodeIds
    NewNodesMarked
PROPERTIES
    DataNodesKeepIds
    VersionNamesConfig
CHECK_DEADLOCK FALSE
