SPECIFICATION FairSpec
CONSTANTS
    k1 = k1
    k2 = k2
    w1 = w1
    w2 = w2
    Tasks = {k1, k2}
    Workers = {w1, w2}
    BatchSize = 2
    MaxGeneration = 3
    MaxFailures = 1
    MaxAbandons = 1
INVARIANTS
    TypeOK
    
    OneWorkerPerTask
    OrphansAreAbandoned
PROPERTIES
    ResultsMoveForward
    ChangesAreShown
    
CHECK_DEADLOCK FALSE
