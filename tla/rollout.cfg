SPECIFICATION FairSpec
CONSTANTS
    Groups = 2
    Redundancy = 2
    MaxRev = 2
    MaxFaults = 1
INVARIANTS
    TypeOK
PROPERTIES
    RestartedInOrder
    RolloutCompletes
CHECK_DEADLOCK FALSE
