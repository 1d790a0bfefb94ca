SPECIFICATION ServingSpec
CONSTANTS
    Key = {k1, k2, k3}
    KeyReplica = {a1}
    KeyCall = {c1, c2}
    KeyExpiry = {2}
    MaxKeyTime = 2
    LastUsedInterval = 2
    MaxThrottleEntries = 1
    UploadCall = {u1, u2}
    StreamBytes = 3
    DeclaredTotals = {0, 2, 3}
    MaxDocumentBytes = 3
    t1 = t1
    t2 = t2
    j1 = j1
    j2 = j2
    Tenant = {t1, t2}
    Project = {j1, j2}
    ProjectTenant <- TwoProjects
    BaseId = {b1}
    DatasetId = {d1}
    WorkId = {w1}
    AuditId = {1, 2, 3}
    MaxAuditTime = 3
    PageLimit = 1
    MaxAudited = 4
    op1 = op1
    op2 = op2
    op3 = op3
    Request = {q1, q2, q3}
    Operation = {op1, op2, op3}
    Concurrency <- OneSlot
    Timeout <- OneTimeout
    ModelConfig <- Configs
    ModelCaller = {"chat", "embedding", "rerank", "provider_auth", "service"}
    RetryTimes = 1
    MaxTexts = 2
    MaxCalls = 2
    Prober = {u1}
    ProbeAsked = {{"chat", "embedding"}, {"rerank", "multimodal"}, {"provider_auth"}}
    Handler = {c1, c2}
    Report <- SomeReports
    Bounds <- FamilyBounds
    MaxReports = 2
    MaxScrapes = 1
SYMMETRY ServingSymmetry
CHECK_DEADLOCK FALSE
INVARIANTS UploadIsWhole ProjectsAreSeparate PagesAreExact SlotsAreHeld ModelsAreSound ScrapeIsConsistent
PROPERTIES KeysKeepOrder
