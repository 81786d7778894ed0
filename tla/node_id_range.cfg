SPECIFICATION Spec
CONSTANTS
    Specs <- LargeSpecs
    Configs <- AnyConfig
    Redundancy = 2
    MaxGen = 1
    MayOverlap = FALSE
INVARIANTS
    NodeIdsInRange
CHECK_DEADLOCK FALSE
