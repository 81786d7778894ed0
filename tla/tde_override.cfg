SPECIFICATION Spec
CONSTANTS
    Specs <- OverrideSpecs
    Configs <- AnyConfig
    Redundancy = 2
    MaxGen = 2
    MayOverlap = FALSE
INVARIANTS
    ConfigApplied
CHECK_DEADLOCK FALSE
