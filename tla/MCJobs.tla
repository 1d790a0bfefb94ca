-------------------------------- MODULE MCJobs --------------------------------
(* The work done besides the task queue of PostgreSQL, one part at a time:  *)
(* the first state chooses the part whose steps are taken.                  *)
EXTENDS OfflineItem, OfflineRun, CodexTools, TutorialClone, TutorialRun, EvaluationJudge, EvaluationMetrics,
        MemoryQueue, SelfOps, TraceExport, TLC

CONSTANTS w1, w2, q1, q2, i1

\* Two windows of one base: the second one repeats a question of the first.
TwoWindows == (w1 :> {q1, q2}) @@ (w2 :> {q1})

\* What a judge may be asked, and what models may say: scores outside of the
\* range, preferences that contradict the winner, verdicts nobody asked for.
ScoreConf == [ask |-> "score", models |-> 1, repeat |-> 3, swap |-> FALSE, retries |-> 1, circuit |-> 0, maxCalls |-> 4]
PairConf == [ScoreConf EXCEPT !.ask = "pairwise", !.swap = TRUE]
JudgeConfs ==
    {ScoreConf, [ScoreConf EXCEPT !.repeat = 2, !.maxCalls = 0, !.retries = 2, !.circuit = 2],
     [PairConf EXCEPT !.maxCalls = 0], [PairConf EXCEPT !.repeat = 0],
     [PairConf EXCEPT !.models = 2, !.repeat = 1, !.swap = FALSE], [ScoreConf EXCEPT !.ask = "qag", !.circuit = 1]}
ScoresSaid ==
    {[scored |-> TRUE, score |-> s, label |-> ""] : s \in {-3, 4, 10, 16, 30}}
    \cup {[scored |-> TRUE, score |-> 16, label |-> "bad"]}
    \cup [scored : {FALSE}, score : {0}, label : {"", "good"}]
PairsSaid ==
    {[winner |-> "A", preference |-> "A_better"], [winner |-> "A", preference |-> ""],
     [winner |-> "B", preference |-> "B_much_better"], [winner |-> "B", preference |-> "A_better"],
     [winner |-> "tie", preference |-> ""], [winner |-> "C", preference |-> ""]}
ClaimsSaid == [claims : UNION {[1..n -> QAGVerdicts \cup {"unclear"}] : n \in 0..3}, score : {-1, 12}]

\* Chunks with and without an id, a hash, a text, a document and a source, and
\* annotations of chunks and of a document.
PlainChunk == [id |-> "", hash |-> "", text |-> "x", doc |-> "d1", source |-> "s"]
TestChunks ==
    {[PlainChunk EXCEPT !.id = "c1"], PlainChunk, [PlainChunk EXCEPT !.id = "c2", !.doc = "d2"],
     [PlainChunk EXCEPT !.doc = "d2", !.text = ""], [PlainChunk EXCEPT !.hash = "h"],
     [PlainChunk EXCEPT !.doc = ""], [PlainChunk EXCEPT !.doc = "", !.source = ""]}
TestAspects == ("c1" :> {"p", "q"}) @@ ("c2" :> {"q"}) @@ ("d2" :> {"p", "r"})
TestWeights == [i \in EvalItem |-> IF i = i1 THEN 2 ELSE 1]

\* Two tasks of one pool that lock one resource.
OnePool == [t \in MemTask |-> "x"]
OneResource == [t \in MemTask |-> 1]

\* Every file of the checkout is generated from its first manifest.
CleanCheckout == [manifest |-> 1, head |-> 1, artifacts |-> 1]

\* Lines of standard input: some that are no requests, requests of every kind,
\* a notification, self checks of one check and of several.
Text(word) == [kind |-> "string", val |-> word]
Enum(words) == [type |-> "string", enum |-> words]
Seconds == [type |-> "integer", minimum |-> 1]
CheckSchema ==
    [auth |-> TRUE, required |-> {"scope", "mode"},
     properties |-> [scope |-> Enum(SelfScopes), mode |-> Enum({"focused", "broad"}), overall_deadline_seconds |-> Seconds]]
FreeSchema == [auth |-> TRUE, required |-> {}, properties |-> [scope |-> Enum({})]]
Schemas ==
    [tool \in {"orag_check", "orag_query"} \cup DiagnosticTool \cup SelfOpsTool |->
        IF tool = "orag_check" THEN CheckSchema ELSE FreeSchema]
ToolLine(tool, args) ==
    [long |-> FALSE, json |-> TRUE, rpc |-> TRUE, id |-> TRUE, method |-> "tools/call", params |-> TRUE,
     tool |-> tool, args |-> args]
CheckLine(scope) == ToolLine("orag_check", [scope |-> Text(scope), mode |-> Text("focused")])
NoArgs == [other |-> Text("")]
McpLines ==
    {CheckLine("all"), CheckLine("contract"), [CheckLine("smoke") EXCEPT !.id = FALSE],
     ToolLine("orag_check", [scope |-> Text("all")]), ToolLine("orag_unknown", NoArgs), ToolLine("orag_query", NoArgs),
     ToolLine("orag_trace_lookup", [trace_id |-> Text("t")]), ToolLine("orag_maintenance_plan", NoArgs),
     ToolLine("orag_create_remediation_issue", NoArgs), ToolLine("orag_runbook_suggest", [scope |-> Text("disk")]),
     ToolLine("orag_diagnose", [failed_command_exit_code |-> Text("1")]),
     ToolLine("orag_diagnose", [scope |-> Text("agentsync"), failed_command |-> Text("make")]),
     [CheckLine("all") EXCEPT !.method = "initialize"], [CheckLine("all") EXCEPT !.method = "ping"],
     [CheckLine("all") EXCEPT !.json = FALSE, !.id = FALSE], [CheckLine("all") EXCEPT !.rpc = FALSE, !.id = FALSE],
     [CheckLine("all") EXCEPT !.long = TRUE]}
NoDatabase == [timeoutValid |-> TRUE, backend |-> "qdrant_postgres", database |-> FALSE, configured |-> TRUE, baseURL |-> TRUE]

\* A trace with a root and a failed child, whose latency is not given;
\* identifiers plain or hashed, an exporter that is off.
RootSpan == [trace |-> "t", parent |-> NoSpan, type |-> "span", latency |-> 2, start |-> 1, end |-> 3,
             input |-> <<"prompt">>, output |-> <<"answer">>, failed |-> FALSE, level |-> "INFO"]
TraceSpans == ("a" :> RootSpan)
    @@ ("b" :> [RootSpan EXCEPT !.parent = "a", !.type = "other", !.latency = 0, !.failed = TRUE])
HashedExporter == [enabled |-> TRUE, keys |-> TRUE, hash |-> TRUE, prompts |-> FALSE, size |-> 0]
ExporterConfigs == {HashedExporter, [HashedExporter EXCEPT !.hash = FALSE, !.prompts = TRUE, !.size = 1],
                    [HashedExporter EXCEPT !.keys = FALSE]}

VARIABLE part

Parts == {"item", "run", "tools", "clone", "tutorial", "judge", "metrics", "memory", "ops", "export", "mcp"}

JobsVars == <<itemVars, offlineRunVars, toolVars, cloneVars, tutorialRunVars, judging, metricVars, memVars,
              opsVars, exportVars, rpcVars, part>>

JobsInit ==
    /\ part \in Parts
    /\ ItemInit /\ OfflineRunInit /\ ToolsInit /\ CloneInit /\ TutorialRunInit
    /\ JudgeInit /\ MetricsInit /\ MemInit /\ OpsInit /\ ExportInit /\ RpcInit
    /\ part # "item" => item.status = "verified"
    /\ part # "export" => exportConfig = HashedExporter

JobsNext ==
    /\ \/ /\ part = "item" /\ ItemNext
          /\ UNCHANGED <<offlineRunVars, toolVars, cloneVars, tutorialRunVars, judging, metricVars, memVars,
                       opsVars, exportVars, rpcVars>>
       \/ /\ part = "run" /\ OfflineRunNext
          /\ UNCHANGED <<itemVars, toolVars, cloneVars, tutorialRunVars, judging, metricVars, memVars, opsVars,
                       exportVars, rpcVars>>
       \/ /\ part = "tools" /\ ToolsNext
          /\ UNCHANGED <<itemVars, offlineRunVars, cloneVars, tutorialRunVars, judging, metricVars, memVars,
                       opsVars, exportVars, rpcVars>>
       \/ /\ part = "clone" /\ CloneNext
          /\ UNCHANGED <<itemVars, offlineRunVars, toolVars, tutorialRunVars, judging, metricVars, memVars,
                       opsVars, exportVars, rpcVars>>
       \/ /\ part = "tutorial" /\ TutorialRunNext
          /\ UNCHANGED <<itemVars, offlineRunVars, toolVars, cloneVars, judging, metricVars, memVars, opsVars,
                       exportVars, rpcVars>>
       \/ /\ part = "judge" /\ JudgeNext
          /\ UNCHANGED <<itemVars, offlineRunVars, toolVars, cloneVars, tutorialRunVars, metricVars, memVars,
                       opsVars, exportVars, rpcVars>>
       \/ /\ part = "metrics" /\ MetricsNext
          /\ UNCHANGED <<itemVars, offlineRunVars, toolVars, cloneVars, tutorialRunVars, judging, memVars,
                       opsVars, exportVars, rpcVars>>
       \/ /\ part = "memory" /\ MemNext
          /\ UNCHANGED <<itemVars, offlineRunVars, toolVars, cloneVars, tutorialRunVars, judging, metricVars,
                       opsVars, exportVars, rpcVars>>
       \/ /\ part = "ops" /\ OpsNext
          /\ UNCHANGED <<itemVars, offlineRunVars, toolVars, cloneVars, tutorialRunVars, judging, metricVars,
                       memVars, exportVars, rpcVars>>
       \/ /\ part = "export" /\ ExportNext
          /\ UNCHANGED <<itemVars, offlineRunVars, toolVars, cloneVars, tutorialRunVars, judging, metricVars,
                       memVars, opsVars, rpcVars>>
       \/ /\ part = "mcp" /\ RpcNext
          /\ UNCHANGED <<itemVars, offlineRunVars, toolVars, cloneVars, tutorialRunVars, judging, metricVars,
                       memVars, opsVars, exportVars>>
    /\ UNCHANGED part

JobsSpec == JobsInit /\ [][JobsNext]_JobsVars

\* One pair of process names serves every part that has interchangeable ones:
\* the servers of "run", the holders of "memory" and the loops of "export".
JobsSymmetry == Permutations(Execution) \cup Permutations(Server)
===============================================================================
