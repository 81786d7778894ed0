SPECIFICATION Spec
CONSTANTS
    Keys = {k1, k2}
    Workers = {w1, w2}
    MaxEvents = 1
    MaxErrors = 0
    MayShutDown = TRUE
INVARIANTS
    RunWaitsForWorkers
CHECK_DEADLOCK FALSE
