SPECIFICATION PlaneSpec
CONSTANTS
    Version = {v1, v2}
    NoVersion = NoVersion
    EvalRun = {good, bad}
    PassingRun = {good}
    NoRun = NoRun
    Request = {q1, q2}
    Query = {p1}
    Unbound = {"production"}
    MaxReleases = 3
    MaxEvidence = 3
    Definition = {none, bad1, d1, d2}
    EmptyDefinition = none
    ValidDefinition = {d1, d2}
    Author = {a1, a2}
    MaxSaves = 4
    PolicyName = {n1, n2}
    Creator = {c1, c2, c3}
    MaxPolicies = 3
    EvalItem = {i1, i2, i3}
    Holdout = {i2, i3}
    EvalID = {e1}
    JudgeSets = {{}, {"judge", "qag", "pairwise"}}
    Proposals <- SomeProposals
SYMMETRY PlaneSymmetry
CHECK_DEADLOCK FALSE
INVARIANTS HistoryChained ActiveIsEarned RevisionsAreKept PolicyVersionsDense StoredRunIsWhole ValidationIsExact
