SPECIFICATION Spec
CONSTANTS
    Specs <- CnfSpecs
    Configs <- AnyConfig
    Redundancy = 2
    MaxGen = 2
    MayOverlap = FALSE
PROPERTIES
    CnfVersionNamesChange
CHECK_DEADLOCK FALSE
