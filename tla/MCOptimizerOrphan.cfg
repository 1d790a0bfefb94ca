SPECIFICATION RunSpec
CONSTANTS
    t1 = t1
    t2 = t2
    t3 = t3
    w1 = w1
    w2 = w2
    u1 = u1
    u2 = u2
    optimizer = optimizer
    theRun = theRun
    Task = {t1}
    Worker = {w1, w2}
    NoHolder = NoHolder
    Pool = {optimizer}
    Resource = {theRun}
    NoResource = NoResource
    PoolOf <- MCPoolOf
    ResourceOf <- MCResourceOf
    Concurrency <- MCConcurrency
    Setting <- OrphanSettings
    MaxAttempts = 3
    MaxGeneration = 2
    MaxFaults = 0
    CandidateCount = 2
    MaxScore <- MCMaxScore
    Namespaced = {}
    HoldoutSplit = FALSE
    MaxJudgeCalls = 0
    OtherBudget = FALSE
    User = {u1}
    NoTask = NoTask
    TaskApiUsed = FALSE
    MaxCallErrors <- MCMaxCallErrors
SYMMETRY Symmetry
INVARIANT NoOrphanedRun
CHECK_DEADLOCK FALSE
