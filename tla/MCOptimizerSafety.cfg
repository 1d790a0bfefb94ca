SPECIFICATION RunSpec
CONSTANTS
    t1 = t1
    t2 = t2
    t3 = t3
    w1 = w1
    w2 = w2
    u1 = u1
    u2 = u2
    optimizer = optimizer
    theRun = theRun
    Task = {t1, t2, t3}
    Worker = {w1, w2}
    NoHolder = NoHolder
    Pool = {optimizer}
    Resource = {theRun}
    NoResource = NoResource
    PoolOf <- MCPoolOf
    ResourceOf <- MCResourceOf
    Concurrency <- MCConcurrency
    Setting <- SafetySettings
    MaxAttempts = 3
    MaxGeneration = 2
    MaxFaults = 0
    CandidateCount = 2
    MaxScore <- MCMaxScore
    Namespaced = {1}
    HoldoutSplit = TRUE
    MaxJudgeCalls = 0
    OtherBudget = TRUE
    User = {u1, u2}
    NoTask = NoTask
    TaskApiUsed = TRUE
    MaxCallErrors <- MCMaxCallErrors
SYMMETRY Symmetry
CHECK_DEADLOCK FALSE
INVARIANTS TaskTellsRun
PROPERTIES CompletionIsExact
