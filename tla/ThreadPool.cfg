CONSTANTS
    p1 = p1
    p2 = p2
    Producers <- MCProducers
    WorkerNum = 2
    Called <- MCCalled
    Keys = {3}
    Nums = {2, 3}
    Capacity = 2
    SeqMax = 1
    MaxCalls = 2
SPECIFICATION FairSpec
INVARIANTS
    TypeOK
    ExactlyOnce
    FifoPerProducer
    DrainedBeforeStopReturns
    ExitedWorkerLeftOnlyLateTasks
    IndexInRange
PROPERTIES
    ImplementsTasks
    EarlyTasksRun
    StopTerminates
CHECK_DEADLOCK FALSE
