SPECIFICATION FairSpec
CONSTANTS
    Keys = {k1, k2}
    Workers = {w1, w2}
    MaxEvents = 3
    MaxErrors = 2
    MayShutDown = TRUE

INVARIANTS
    TypeOK
    OneWorkerPerKey
    NoEventLost
PROPERTIES
    ImplementsRequests
    EveryEventSynced
CHECK_DEADLOCK FALSE
