SPECIFICATION JobsSpec
CONSTANTS
    ItemRequest = {a1, a2}
    MaxItemRequests = 7
    w1 = w1
    w2 = w2
    q1 = q1
    q2 = q2
    Window = {w1, w2}
    Question = {q1, q2}
    QuestionsOf <- TwoWindows
    Answer = {s1, s2}
    Server = {p1, p2}
    Execution = {x1, x2}
    MaxExecutions = 2
    ToolCall = {c1, c2}
    Session = {e1, e2}
    MaxSteps = 2
    MaxQPSPerTenant = 2
    MaxSecond = 1
    PackObject = {o1, o2}
    CloneHost = {h1, h2}
    CloneRoutine = {r1, r2}
    RetryRequest = {t1, t2}
    MaxCloneEvents = 4
    TutorialRuns = {n1, n2}
    Baselines = {n1}
    ReusesIndex = {n2}
    PackDocument = {d1, d2}
    RunHost = {k1, k2}
    RunRoutine = {g1, g2}
    MaxRunEvents = 4
    JudgeConf <- JudgeConfs
    ScoreAnswer <- ScoresSaid
    PairAnswer <- PairsSaid
    ClaimAnswer <- ClaimsSaid
    i1 = i1
    EvalDoc = {"d1", "d2"}
    EvalChunk <- TestChunks
    MaxRetrieved = 3
    AspectsOf <- TestAspects
    EvalItem = {i1, i2, i3}
    ItemWeight <- TestWeights
    ItemValue = {0, 1}
    MemTask = {1, 2}
    MemHolder = {p1, p2}
    MemPoolOf <- OnePool
    MemResourceOf <- OneResource
    MemMaxAttempts = 2
    MemPage = 1
    MaxMemGeneration = 2
    OpCaller = {u1, u2}
    ScopeAsked = {"agent_artifacts", "remediation_issue"}
    Manifest = {1, 2}
    GitHead = {1}
    FirstCheckout <- CleanCheckout
    MaxOps = 4
    MaxEdits = 1
    RpcLine <- McpLines
    ToolSchema <- Schemas
    Runtime <- NoDatabase
    MaxRpcLines = 2
    Span = {"a", "b"}
    Observation <- TraceSpans
    FlushLoop = {p1, p2}
    DefaultSize = 2
    FlushCaller = {"f"}
    BatchSize = 1
    ExporterConfig <- ExporterConfigs
    MaxExportEvents = 1
SYMMETRY JobsSymmetry
CHECK_DEADLOCK FALSE
INVARIANTS WindowIsOrganized LimitsHold CloneIsEarned VerdictIsHeard MetricsReward OpsAreSound ExportIsAccounted
PROPERTIES StatusIsTrue RunMeasures MemoryKeepsLeases
