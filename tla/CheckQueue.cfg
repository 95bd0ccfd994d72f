CONSTANTS
    Workers = {w1, w2}
    Master = master
    BatchSize = 2
    MaxChecks = 4
    MaxBad = 1
SPECIFICATION FairSpec
INVARIANTS
    ControlFindsQueueIdle
    WaitResultIsConjunction
    CheckedDataIsAlive
PROPERTIES
    WaitReturns
