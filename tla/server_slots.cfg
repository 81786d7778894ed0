SPECIFICATION Spec
CONSTANTS
    Specs <- SlotSpecs
    Configs <- AnyConfig
    Redundancy = 2
    MaxGen = 2
    MayOverlap = FALSE
INVARIANTS
    PodsFindTheirNodeIds
CHECK_DEADLOCK FALSE
