SPECIFICATION Spec
CONSTANTS
    Specs <- AddThenChange
    Configs <- AnyConfig
    Redundancy = 2
    MaxGen = 3
    MayOverlap = TRUE
INVARIANTS
    NewNodesMarked
CHECK_DEADLOCK FALSE
