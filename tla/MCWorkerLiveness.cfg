SPECIFICATION FairSpec
CONSTANTS
    t1 = t1
    t2 = t2
    t3 = t3
    w1 = w1
    w2 = w2
    pa = pa
    pb = pb
    ra = ra
    Task = {t2}
    Worker = {w1, w2}
    NoHolder = NoHolder
    Pool = {pa, pb}
    Resource = {ra}
    NoResource = NoResource
    PoolOf <- MCPoolOf
    ResourceOf <- MCResourceOf
    Concurrency <- MCConcurrency
    Setting <- LivenessSettings
    MaxAttempts = 2
    MaxGeneration = 5
    MaxFaults = 1
PROPERTIES EveryTaskSettles
CHECK_DEADLOCK FALSE
