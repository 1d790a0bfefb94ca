SPECIFICATION TxSpec
CONSTANTS
    t1 = t1
    t2 = t2
    t3 = t3
    w1 = w1
    w2 = w2
    pa = pa
    pb = pb
    ra = ra
    Task = {t1, t2}
    Worker = {w1, w2}
    NoHolder = NoHolder
    Pool = {pa, pb}
    Resource = {ra}
    NoResource = NoResource
    PoolOf <- MCPoolOf
    ResourceOf <- MCResourceOf
    Order <- MCOrder
    Session <- MCSession
    Limit = {1}
    MaxAttempts = 2
    MaxGeneration = 2

CHECK_DEADLOCK FALSE
INVARIANTS ResourceExclusive FencingUnique RetryBudget
PROPERTIES QueueFences ImplementsQueue
