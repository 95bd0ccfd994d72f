SPECIFICATION Spec

CONSTANTS
    s1 = s1
    s2 = s2
    dump = dump
    check = check
    r1 = r1
    r2 = r2
    w1 = w1
    w2 = w2
    Threads <- MCThreads
    Tasks <- MCTasks
    MaxTime = 2
    Requests <- MCRequests
    WaitingRequests = {r1}
    StopRequests = {r2}
    Workers <- MCWorkers
    MaxDepth = 1
    Programs <- MCPrograms

INVARIANTS
    NothingRunsOnFreedState
    DrainLeavesNothing
    EveryRequestIsAnswered

PROPERTIES
    ShutdownCompletes

CHECK_DEADLOCK FALSE
