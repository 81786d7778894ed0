SPECIFICATION Spec
CONSTANTS
    Specs <- ManyNodes
    Configs <- AnyConfig
    Redundancy = 2
    MaxGen = 1
    MayOverlap = FALSE
INVARIANTS
    PodNamesResolve
CHECK_DEADLOCK FALSE
