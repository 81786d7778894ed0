SPECIFICATION Spec
CONSTANTS
    Specs <- ManagementSpecs
    Configs <- AnyConfig
    Redundancy = 2
    MaxGen = 2
    MayOverlap = FALSE
INVARIANTS
    ManagementConfigApplied
CHECK_DEADLOCK FALSE
