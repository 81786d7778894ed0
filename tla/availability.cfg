SPECIFICATION Spec
CONSTANTS
    Groups = 2
    Redundancy = 2
    MaxRev = 3
    MaxFaults = 0
INVARIANTS
    OneNodePerGroup
CHECK_DEADLOCK FALSE
