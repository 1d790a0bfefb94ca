------------------------------ MODULE MCServing ------------------------------
(* What stands between a request and the work it asks for, one part at a     *)
(* time: the first state chooses the part whose steps are taken.             *)
EXTENDS ApiKeys, Uploads, Authorization, AuditTrail, ExecutionBudget, ModelReadiness,
        MetricsRegistry, TLC

CONSTANTS t1, t2, j1, j2, op1, op2, op3

\* Two projects of one tenant, none of the other.
TwoProjects == (j1 :> t1) @@ (j2 :> t1)

\* One class of requests limited to one at a time, two whose budget lacks the
\* concurrency or the timeout.
OneSlot == (op1 :> 1) @@ (op2 :> 0) @@ (op3 :> 1)
OneTimeout == (op1 :> 1) @@ (op2 :> 1) @@ (op3 :> 0)

\* The services of the example configuration, and changes to it: other
\* providers, a missing key or address, a mock service.
ArkConfig == [env |-> "production", chat |-> "ark", embedding |-> "ark", rerank |-> "aliyun",
              image2text |-> "ark", urls |-> {}, mock |-> FALSE,
              keys |-> {"volcengine", "tongyi-qianwen", "cohere", "openai", "gemini", "voyage-ai"}]
AzureConfig == [ArkConfig EXCEPT !.embedding = "azure-openai", !.chat = "azure-openai",
                                 !.keys = @ \cup {"azure-openai"}]
TestConfig == [ArkConfig EXCEPT !.env = "development", !.rerank = "mock", !.chat = "mock"]
Configs ==
    {ArkConfig, AzureConfig, [AzureConfig EXCEPT !.urls = {"azure-openai"}],
     [ArkConfig EXCEPT !.embedding = "gemini", !.rerank = "cohere", !.image2text = "gemini", !.chat = "cohere"],
     [ArkConfig EXCEPT !.env = "development", !.chat = "anthropic", !.embedding = "voyage-ai",
                       !.rerank = "voyage-ai", !.keys = @ \cup {"anthropic"}],
     TestConfig, [TestConfig EXCEPT !.mock = TRUE], [TestConfig EXCEPT !.mock = TRUE, !.env = "production"],
     [ArkConfig EXCEPT !.chat = "anthropic"], [ArkConfig EXCEPT !.embedding = "other"]}

\* Answered and failed requests and queries, one under a name without a label of
\* its own, a run of offline knowledge that fails in its first cluster and one that
\* repeats another, and a revalidation.
Item == [fails |-> "none", skipped |-> FALSE, verdict |-> "conclusion_rejected"]
Cluster == [fails |-> "none", steps |-> 2, verdict |-> "valid", status |-> "candidate"]
SomeReports ==
    {[family |-> "http", method |-> "POST", route |-> "query", status |-> s, latency |-> 3] : s \in {200, 400, 404}}
        \cup {[family |-> "rag", profile |-> "", cache |-> "hit", outcome |-> "success", latency |-> 2],
              [family |-> "rag", profile |-> "own", cache |-> "unknown", outcome |-> "error", code |-> "denied",
               latency |-> 1],
              [family |-> "run", by |-> "once", repeated |-> FALSE, fails |-> "none", questions |-> 2,
               clusters |-> <<[Cluster EXCEPT !.fails = "response"], Cluster>>, unstored |-> FALSE],
              [family |-> "run", by |-> "once", repeated |-> TRUE],
              [family |-> "revalidate", bulk |-> TRUE, items |-> <<Item, [Item EXCEPT !.skipped = TRUE]>>]}

FamilyBounds == [http |-> {1, 2}, rag |-> {1, 4}, dependency |-> {2}, trace_store |-> {2}, shadow |-> {1}]

VARIABLE part

Part == {"keys", "uploads", "authorization", "audit", "budget", "models", "metrics"}

ServingVars == <<keyVars, uploadVars, authVars, auditVars, budgetVars, modelsVars, metricVars, part>>

ServingInit ==
    /\ part \in Part
    /\ KeysInit /\ UploadInit /\ AuthInit /\ AuditInit /\ BudgetInit /\ ModelsInit /\ MetricsInit
    /\ part # "models" => modelConfig = ArkConfig
    /\ sink = IF part = "metrics" THEN "on" ELSE "none"

ServingNext ==
    /\ \/ /\ part = "keys" /\ KeysNext
          /\ UNCHANGED <<uploadVars, authVars, auditVars, budgetVars, modelsVars, metricVars>>
       \/ /\ part = "uploads" /\ UploadNext
          /\ UNCHANGED <<keyVars, authVars, auditVars, budgetVars, modelsVars, metricVars>>
       \/ /\ part = "authorization" /\ AuthNext
          /\ UNCHANGED <<keyVars, uploadVars, auditVars, budgetVars, modelsVars, metricVars>>
       \/ /\ part = "audit" /\ AuditNext
          /\ UNCHANGED <<keyVars, uploadVars, authVars, budgetVars, modelsVars, metricVars>>
       \/ /\ part = "budget" /\ BudgetNext
          /\ UNCHANGED <<keyVars, uploadVars, authVars, auditVars, modelsVars, metricVars>>
       \/ /\ part = "models" /\ ModelsNext
          /\ UNCHANGED <<keyVars, uploadVars, authVars, auditVars, budgetVars, metricVars>>
       \/ /\ part = "metrics" /\ MetricsNext
          /\ UNCHANGED <<keyVars, uploadVars, authVars, auditVars, budgetVars, modelsVars>>
    /\ UNCHANGED part

ServingSpec == ServingInit /\ [][ServingNext]_ServingVars

\* The handlers of "metrics" bear the names of the calls of "keys".
ServingSymmetry == Permutations(Key) \cup Permutations(KeyCall)
==============================================================================
