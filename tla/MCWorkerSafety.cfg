SPECIFICATION PoolSpec
CONSTANTS
    t1 = t1
    t2 = t2
    t3 = t3
    w1 = w1
    w2 = w2
    pa = pa
    pb = pb
    ra = ra
    Task = {t1, t2, t3}
    Worker = {w1, w2}
    NoHolder = NoHolder
    Pool = {pa, pb}
    Resource = {ra}
    NoResource = NoResource
    PoolOf <- MCPoolOf
    ResourceOf <- MCResourceOf
    Concurrency <- MCConcurrency
    Setting <- SafetySettings
    MaxAttempts = 1
    MaxGeneration = 2
    MaxFaults = 1
SYMMETRY WorkerSymmetry
CHECK_DEADLOCK FALSE
INVARIANTS ExecutionsFit SuccessIsEarned
PROPERTIES HandlerStopsFirst
