---------------------------- MODULE MetricsRegistry ----------------------------
(***************************************************************************)
(* The metrics of one process: what the request handlers and the runs of   *)
(* offline knowledge count, what a scrape of /metrics prints while they    *)
(* do, and what is mirrored to the OTLP exporter.                          *)
(*                                                                         *)
(* Some totals are atomics that are added to one by one before the mutex   *)
(* is taken; the labelled counters and the histograms are changed under    *)
(* the mutex, the exporter is called after it.  A scrape loads the atomics *)
(* and copies the maps section by section, so other reports are counted    *)
(* between its sections.                                                   *)
(***************************************************************************)
EXTENDS Integers, FiniteSetsExt, SequencesExt

CONSTANTS
    Handler,          \* the goroutines that report
    Report,           \* what they may report
    Bounds,           \* per family of histograms, the upper bounds of its buckets
    MaxReports,       \* bound: reports of a behaviour
    MaxScrapes        \* bound: scrapes of a behaviour

\* Buckets have whole bounds, the duration of a query is not negative, and the
\* handlers answer with statuses of HTTP (the exporter knows no class of others).
ASSUME MetricsAssumption ==
    /\ Bounds \in [{"http", "rag", "dependency", "trace_store", "shadow"} -> SUBSET Nat]
    /\ IsFiniteSet(Handler)
    /\ \A r \in Report :
         /\ r.family \in {"http", "rag", "dependency", "trace_store", "shadow",
                          "run", "revalidate", "regression", "item", "drop", "tool"}
         /\ r.family \in DOMAIN Bounds => r.latency \in Int
         /\ r.family = "rag" => r.latency \in Nat
         /\ r.family = "http" => r.status \in 0..599

VARIABLES
    totals,           \* the atomics
    counters,         \* per family, how often every label seen was counted
    histograms,       \* per family, the histogram of every label seen
    offline,          \* offline knowledge: its counters, questions, clusters, search steps, lift
    mirror,           \* per family, how often the exporter was given every label
    sink,             \* the exporter: none, on, restored, shut down
    handlers,         \* per handler, what it reports, the calls left to make and what it owes the exporter
    reports,          \* how many reports were begun
    scrape            \* the scrape in progress: what is left, and what it printed

measures   == <<totals, counters, histograms, offline>>
metricVars == <<measures, mirror, sink, handlers, reports, scrape>>

-----------------------------------------------------------------------------
\* The low-cardinality labels of what is reported.
normalizeMethod(m) == IF m \in {"GET", "POST", "PUT", "PATCH", "DELETE", "OPTIONS", "HEAD"} THEN m ELSE "OTHER"

normalizeRoute(route) == IF route = "" THEN "unknown" ELSE route

\* 0 stands for unknown.
statusClass(status) == IF status \in 100..599 THEN status \div 100 ELSE 0

normalizeStatus(status) == IF status \in 100..599 THEN status ELSE 0

normalizeProfile(profile) ==
    CASE profile \in {"realtime", "high_precision"} -> profile
      [] profile = "" -> "default"
      [] OTHER -> "other"

normalizeCacheStatus(cache) == IF cache \in {"hit", "miss"} THEN cache ELSE "unknown"

normalizeOutcome(outcome) == IF outcome = "success" THEN "success" ELSE "error"

normalizeDependency(name) == IF name \in {"postgres", "qdrant", "model_provider"} THEN name ELSE "other"

normalizeDependencyStatus(status) == IF status \in {"ready", "timeout"} THEN status ELSE "error"

normalizeErrorCode(code) ==
    CASE code = "query_failed" -> code
      [] code = "" -> "unknown"
      [] OTHER -> "other"

normalizeOfflineRunStatus(status) ==
    IF status \in {"pending", "running", "completed", "failed"} THEN status ELSE "other"

normalizeItemStatus(status) ==
    IF status \in {"candidate", "evidence_validating", "needs_review", "verified", "shadow_enabled", "regression_passed",
                   "regression_failed", "published", "knowledge_gap", "rejected", "stale", "deprecated"}
    THEN status ELSE "other"

normalizeShadowDropReason(reason) ==
    IF reason \in {"rate_limited", "sampled", "sampled_out", "write_failed"} THEN reason ELSE "other"

normalizeHallucinationReason(reason) ==
    IF reason \in {"evidence_insufficient", "contradiction", "judge_failed"} THEN reason ELSE "other"

\* What the exporter knows, and what has a histogram.
Mirrored == {"http", "rag", "dependency", "trace_store"}

Family == Mirrored \cup {"shadow"}

OfflineCounters == {"runs", "replay", "codex", "validation", "revalidate", "item_status", "shadow_drop", "risk"}

Labels(r) ==
    CASE r.family = "http" ->
           [method |-> normalizeMethod(r.method), route |-> normalizeRoute(r.route),
            status |-> normalizeStatus(r.status), class |-> statusClass(r.status)]
      [] r.family = "rag" ->
           [profile |-> normalizeProfile(r.profile), cache |-> normalizeCacheStatus(r.cache),
            outcome |-> normalizeOutcome(r.outcome)]
      [] r.family = "dependency" ->
           [dependency |-> normalizeDependency(r.dependency), status |-> normalizeDependencyStatus(r.status)]
      [] r.family = "trace_store" -> [outcome |-> normalizeOutcome(r.outcome)]
      [] r.family = "shadow" -> [injected |-> r.injected]

ErrorLabels(r) == [profile |-> normalizeProfile(r.profile), code |-> normalizeErrorCode(r.code)]

-----------------------------------------------------------------------------
NoHistogram(f) == [count |-> 0, sum |-> 0, buckets |-> [b \in Bounds[f] |-> 0]]

\* Every bucket whose bound is not below the latency.
Observed(h, latency) ==
    [count |-> h.count + 1, sum |-> h.sum + latency,
     buckets |-> [b \in DOMAIN h.buckets |-> h.buckets[b] + IF latency <= b THEN 1 ELSE 0]]

\* observeHistogram takes a negative latency for none; ObserveRAGQuery, which
\* does the same in place, does not.
Latency(r) == IF r.family # "rag" /\ r.latency < 0 THEN 0 ELSE r.latency

HistogramOf(f, l) == IF l \in DOMAIN histograms[f] THEN histograms[f][l] ELSE NoHistogram(f)

observeHistogram(f, l, latency) ==
    [k \in DOMAIN histograms[f] \cup {l} |->
        IF k = l THEN Observed(HistogramOf(f, l), latency) ELSE histograms[f][k]]

\* How often l was counted, and a counter that was added to.
Copies(counter, l) == IF l \in DOMAIN counter THEN counter[l] ELSE 0

Counted(counter, l, n) ==
    [k \in DOMAIN counter \cup {l} |-> Copies(counter, k) + IF k = l THEN n ELSE 0]

\* Mutant: only the errors of the server are counted.
ServerErrorsIn(r) == {r.family} \cup IF r.family = "http" /\ r.status >= 500 THEN {"http_errors"} ELSE {}

\* The families a report is counted in; the exporter tells errors by class.
CountedIn(r) == {r.family} \cup IF r.family = "http" /\ r.status >= 400 THEN {"http_errors"} ELSE {}

MirroredIn(r) == {r.family} \cup IF r.family = "http" /\ statusClass(r.status) \in {4, 5} THEN {"http_errors"} ELSE {}

-----------------------------------------------------------------------------
\* The calls of a report, one record each.
AddTo(total, n) == [do |-> "total", total |-> total, count |-> n]

Count(counter, label, n) == [do |-> "count", counter |-> counter, label |-> label, count |-> n]

ObserveOfflineKnowledgeRun(status) == Count("runs", [status |-> normalizeOfflineRunStatus(status)], 1)

\* Of replays, validations and revalidations.
ObserveOutcome(counter, outcome, n) == Count(counter, [outcome |-> normalizeOutcome(outcome)], n)

IncOptimizationItemStatusTotal(status) == Count("item_status", [status |-> normalizeItemStatus(status)], 1)

IncOptimizationShadowWriteDropped(reason) == Count("shadow_drop", [reason |-> normalizeShadowDropReason(reason)], 1)

IncOptimizationHallucinationRisk(reason) == Count("risk", [reason |-> normalizeHallucinationReason(reason)], 1)

ObserveOfflineKnowledgeCodexAnalysis(outcome, steps) == [do |-> "codex", outcome |-> outcome, count |-> steps]

Sets(field, value) == [do |-> "set", field |-> field, value |-> value]

Adds(field, n) == [do |-> "add", field |-> field, count |-> n]

\* The validation of an item: nothing wrong, or what its error is.
recordValidationRisk(verdict) ==
    CASE verdict \in {"conclusion_rejected", "conclusion_disabled", "conclusion_unavailable"} ->
           <<IncOptimizationHallucinationRisk("judge_failed")>>
      [] verdict \in {"missing_evidence", "missing_quote", "missing_fingerprint", "quote_not_contained"} ->
           <<IncOptimizationHallucinationRisk("evidence_insufficient")>>
      [] OTHER -> << >>

ValidationCalls(verdict) ==
    IF verdict = "valid" THEN <<ObserveOutcome("validation", "success", 1)>>
    ELSE <<ObserveOutcome("validation", "error", 1)>> \o recordValidationRisk(verdict)

\* ProcessCluster of c = [fails, steps, verdict, status]: the step that fails,
\* "none" if there is none, the search steps of the answer, and either the
\* verdict on an item that is validated or the status of one that is not.
ClusterCalls(c) ==
    CASE c.fails = "cluster" -> << >>
      [] c.fails = "replay" -> <<ObserveOutcome("replay", "error", 1)>>
      [] OTHER ->
           <<ObserveOutcome("replay", "success", 1)>> \o
           CASE c.fails = "analysis" -> <<ObserveOfflineKnowledgeCodexAnalysis("error", 0)>>
             [] c.fails = "response" -> <<ObserveOfflineKnowledgeCodexAnalysis("error", c.steps)>>
             [] OTHER ->
                  <<ObserveOfflineKnowledgeCodexAnalysis("success", c.steps)>>
                  \o (IF c.verdict = "none" THEN << >> ELSE ValidationCalls(c.verdict))
                  \o (IF c.fails = "item" THEN << >>
                      ELSE <<IncOptimizationItemStatusTotal(
                                 CASE c.verdict = "none" -> c.status
                                   [] c.verdict = "valid" -> "verified"
                                   [] OTHER -> "rejected")>>)

\* A loop over s ends after the first element that fails.
Reached(s) ==
    LET failing == {i \in DOMAIN s : s[i].fails # "none"}
    IN  IF failing = {} THEN s ELSE SubSeq(s, 1, Min(failing))

Fails(s) == \E i \in DOMAIN s : s[i].fails # "none"

\* executeRun of r = [fails, questions, clusters, unstored]: its start may not
\* be stored, its history or clusters may fail, and its end may not be stored.
ExecuteCalls(r) ==
    IF r.fails = "start" THEN << >>
    ELSE <<ObserveOfflineKnowledgeRun("running")>>
         \o (IF r.fails = "history" THEN << >> ELSE <<Adds("questions", r.questions)>>)
         \o (IF r.fails \in {"history", "clusters"} THEN << >>
             ELSE <<Sets("clusters", Len(r.clusters))>>
                  \o FlattenSeq([i \in DOMAIN Reached(r.clusters) |-> ClusterCalls(r.clusters[i])]))
         \o (IF r.unstored THEN << >>
             ELSE <<ObserveOfflineKnowledgeRun(IF r.fails = "none" /\ ~Fails(r.clusters) THEN "completed" ELSE "failed")>>)

\* CreateRun, RunOnce and ExecuteRun.
RunCalls(r) ==
    CASE r.by = "execute" -> ExecuteCalls(r)
      [] r.by # "execute" /\ r.repeated ->
           IF r.by = "once" THEN <<ObserveOfflineKnowledgeRun("deduplicated")>> ELSE << >>
      [] OTHER -> <<ObserveOfflineKnowledgeRun("pending")>> \o IF r.by = "once" THEN ExecuteCalls(r) ELSE << >>

\* RevalidateItem of i = [fails, skipped, verdict]: the item is not stale, or
\* the step before or after the validation fails.
RevalidateCalls(i) ==
    IF i.skipped \/ i.fails = "start" THEN << >>
    ELSE ValidationCalls(i.verdict)
         \o (IF i.fails = "item" THEN << >>
             ELSE <<IncOptimizationItemStatusTotal(
                        CASE i.verdict = "valid" -> "verified"
                          [] i.verdict \in {"stale_fingerprint", "source_not_found"} -> "deprecated"
                          [] OTHER -> "rejected")>>)

\* BulkRevalidate.
BulkCalls(items) ==
    FlattenSeq([i \in DOMAIN Reached(items) |-> RevalidateCalls(items[i])])
    \o (IF Fails(items) THEN <<ObserveOutcome("revalidate", "error", 1)>>
        ELSE <<ObserveOutcome("revalidate", "success", Len(items))>>)

\* The end of RunRegressionForItem.
RegressionCalls(r) ==
    <<Sets("lift", r.lift)>>
    \o (IF r.risk > 0 THEN <<IncOptimizationHallucinationRisk("evidence_insufficient")>> ELSE << >>)
    \o <<IncOptimizationItemStatusTotal(r.status)>>

\* ObserveRAGQuery: the atomics, then the part under the mutex; observeRAGError,
\* which knows no cache status, counts the error by a call of its own.
QueryCalls(r) ==
    <<AddTo("queries", 1)>>
    \o (CASE normalizeCacheStatus(r.cache) = "hit" -> <<AddTo("hits", 1)>>
          [] normalizeCacheStatus(r.cache) = "miss" -> <<AddTo("misses", 1)>>
          [] OTHER -> << >>)
    \o <<AddTo("latency", r.latency), [do |-> "locked"]>>
    \o (IF r.outcome = "success" THEN << >> ELSE <<[do |-> "error"]>>)

CallsOf(r) ==
    CASE r.family = "http" -> <<AddTo("requests", 1), [do |-> "locked"]>>
      [] r.family = "rag" -> QueryCalls(r)
      [] r.family = "run" -> RunCalls(r)
      [] r.family = "revalidate" -> IF r.bulk THEN BulkCalls(r.items) ELSE RevalidateCalls(r.items[1])
      [] r.family = "regression" -> RegressionCalls(r)
      [] r.family = "item" -> <<IncOptimizationItemStatusTotal(r.status)>>
      [] r.family = "drop" -> <<IncOptimizationShadowWriteDropped(r.reason)>>
      [] r.family = "tool" -> <<Adds("steps", 1)>>
      [] r.family \in {"dependency", "trace_store", "shadow"} -> <<[do |-> "locked"]>>

Resting == [calls |-> << >>, owed |-> "none", report |-> [family |-> "none"]]

Rests(x) == IF x.calls = << >> /\ x.owed = "none" THEN Resting ELSE x

MetricsInit ==
    /\ totals = [t \in {"requests", "queries", "hits", "misses", "latency"} |-> 0]
    /\ counters = [f \in Family \cup {"http_errors", "rag_errors"} |-> << >>]
    /\ histograms = [f \in Family |-> << >>]
    /\ offline = [counted |-> [f \in OfflineCounters |-> << >>], questions |-> 0, clusters |-> 0, steps |-> 0, lift |-> 0]
    /\ mirror = [f \in Mirrored \cup {"http_errors", "rag_errors"} |-> << >>]
    /\ sink \in {"none", "on"}
    /\ handlers = [h \in Handler |-> Resting]
    /\ reports = 0
    /\ scrape = [left |-> << >>, page |-> << >>, number |-> 0]

\* The middleware, the query handler, the readiness check, the trace store and
\* the service of offline knowledge.
BeginReport(h) ==
    /\ handlers[h] = Resting /\ reports < MaxReports
    /\ \E r \in Report : handlers' = [handlers EXCEPT ![h] = Rests([calls |-> CallsOf(r), owed |-> "none", report |-> r])]
    /\ reports' = reports + 1
    /\ UNCHANGED <<measures, mirror, sink, scrape>>

\* The next call of h, up to the one of the exporter that it owes.
Calls(h, do, owed) ==
    /\ handlers[h].owed = "none" /\ handlers[h].calls # << >> /\ Head(handlers[h].calls).do = do
    /\ handlers' = [handlers EXCEPT ![h] = Rests([handlers[h] EXCEPT !.calls = Tail(@), !.owed = owed])]
    /\ UNCHANGED <<sink, reports, scrape>>

Call(h) == Head(handlers[h].calls)

\* An atomic is added to.
AddTotal(h) ==
    /\ Calls(h, "total", "none")
    /\ totals' = [totals EXCEPT ![Call(h).total] = @ + Call(h).count]
    /\ UNCHANGED <<counters, histograms, offline, mirror>>

\* The exporter that is read under the mutex is called after it.
Owed(what) == IF sink = "on" THEN what ELSE "none"

\* The part of ObserveHTTP, ObserveRAGQuery, ObserveDependencyCheck and
\* ObserveTraceStore under the mutex, and ObserveOptimizationShadowHit.
Observe(h) ==
    /\ Calls(h, "locked", IF handlers[h].report.family \in Mirrored THEN Owed("report") ELSE "none")
    /\ LET r == handlers[h].report
           l == Labels(r)
       IN  /\ counters' = [f \in DOMAIN counters |->
                  IF f \in CountedIn(r) THEN Counted(counters[f], l, 1) ELSE counters[f]]
           /\ histograms' = [histograms EXCEPT ![r.family] = observeHistogram(r.family, l, Latency(r))]
    /\ UNCHANGED <<totals, offline, mirror>>

IncRAGError(h) ==
    /\ Calls(h, "error", Owed("error"))
    /\ counters' = [counters EXCEPT !["rag_errors"] = Counted(@, ErrorLabels(handlers[h].report), 1)]
    /\ UNCHANGED <<totals, histograms, offline, mirror>>

\* What the exporter's instruments are given once it is shut down is dropped.
Mirror(h) ==
    /\ handlers[h].owed # "none"
    /\ LET r == handlers[h].report
           given(families, l) == IF sink = "shut" THEN mirror
               ELSE [f \in DOMAIN mirror |-> IF f \in families THEN Counted(mirror[f], l, 1) ELSE mirror[f]]
       IN  mirror' = IF handlers[h].owed = "report" THEN given(MirroredIn(r), Labels(r))
                     ELSE given({"rag_errors"}, ErrorLabels(r))
    /\ handlers' = [handlers EXCEPT ![h] = Rests([handlers[h] EXCEPT !.owed = "none"])]
    /\ UNCHANGED <<measures, sink, reports, scrape>>

\* A labelled counter of offline knowledge; addOutcomeCounter ignores an
\* outcome that happened no times.
addCounter(h) ==
    /\ Calls(h, "count", "none")
    /\ LET c == Call(h)
       IN  offline' = IF c.count <= 0 THEN offline
                      ELSE [offline EXCEPT !.counted[c.counter] = Counted(@, c.label, c.count)]
    /\ UNCHANGED <<totals, counters, histograms, mirror>>

\* ObserveOfflineKnowledgeCodexAnalysis counts the analysis, and its search
\* steps if there are any, under one lock.
CountAnalysis(h) ==
    /\ Calls(h, "codex", "none")
    /\ offline' = [offline EXCEPT !.counted["codex"] = Counted(@, [outcome |-> normalizeOutcome(Call(h).outcome)], 1),
                                  !.steps = @ + IF Call(h).count > 0 THEN Call(h).count ELSE 0]
    /\ UNCHANGED <<totals, counters, histograms, mirror>>

\* AddOfflineKnowledgeExtractedQuestions and AddOfflineKnowledgeDeepSearchSteps.
AddMeasure(h) ==
    /\ Calls(h, "add", "none")
    /\ offline' = IF Call(h).count <= 0 THEN offline ELSE [offline EXCEPT ![Call(h).field] = @ + Call(h).count]
    /\ UNCHANGED <<totals, counters, histograms, mirror>>

\* SetOfflineKnowledgeClusters and SetOptimizationQualityLift.
SetMeasure(h) ==
    /\ Calls(h, "set", "none")
    /\ offline' = [offline EXCEPT ![Call(h).field] = Call(h).value]
    /\ UNCHANGED <<totals, counters, histograms, mirror>>

\* The closer that ConfigureOTLPMetrics returns: the exporter is taken out,
\* then it is shut down.
CloseSink ==
    /\ sink \in {"on", "restored"}
    /\ sink' = IF sink = "on" THEN "restored" ELSE "shut"
    /\ UNCHANGED <<measures, mirror, handlers, reports, scrape>>

-----------------------------------------------------------------------------
\* Render: the sections in the order they are printed.
Sections == <<"requests", "http", "http_latency", "queries", "rag",
              "dependency", "trace_store", "offline", "hits", "misses", "latency">>

\* The labels a latency of requests is printed with: renderHTTPLatency leaves
\* out the status that the histogram is kept by.
SeriesOf(l) == [method |-> l.method, route |-> l.route, class |-> l.class]

\* What a section prints: a total, or copies made under the mutex, a block of
\* lines for every label; the block of a latency of requests names its series.
Copied(s) ==
    CASE s \in DOMAIN totals -> [total |-> totals[s]]
      [] s = "http" -> [counts |-> counters["http"], errors |-> counters["http_errors"]]
      [] s = "http_latency" -> [latencies |-> histograms["http"],
                                  series |-> [l \in DOMAIN histograms["http"] |-> SeriesOf(l)]]
      [] s = "rag" -> [counts |-> counters["rag"], errors |-> counters["rag_errors"], latencies |-> histograms["rag"]]
      [] s = "offline" ->
           [history |-> offline, counts |-> counters["shadow"], latencies |-> histograms["shadow"]]
      [] s \in {"dependency", "trace_store"} -> [counts |-> counters[s], latencies |-> histograms[s]]

BeginScrape ==
    /\ scrape.left = << >> /\ scrape.number < MaxScrapes
    /\ scrape' = [left |-> Sections, page |-> << >>, number |-> scrape.number + 1]
    /\ UNCHANGED <<measures, mirror, sink, handlers, reports>>

RenderSection ==
    /\ scrape.left # << >>
    /\ LET s == Head(scrape.left)
       IN  scrape' = [scrape EXCEPT !.left = Tail(@),
               !.page = [k \in DOMAIN @ \cup {s} |-> IF k = s THEN Copied(s) ELSE @[k]]]
    /\ UNCHANGED <<measures, mirror, sink, handlers, reports>>

MetricsNext ==
    \/ \E h \in Handler :
         \/ BeginReport(h) \/ AddTotal(h) \/ Observe(h) \/ IncRAGError(h) \/ Mirror(h)
         \/ addCounter(h) \/ CountAnalysis(h) \/ AddMeasure(h) \/ SetMeasure(h)
    \/ CloseSink \/ BeginScrape \/ RenderSection

MetricsSpec == MetricsInit /\ [][MetricsNext]_metricVars

-----------------------------------------------------------------------------
Rendered(s) == s \in DOMAIN scrape.page

Times(counter, L) == MapThenSumSet(LAMBDA l : counter[l], L)

\* One counter is never above another.
Within(c, d) == \A l \in DOMAIN c : c[l] <= Copies(d, l)

\* The cache totals and the total latency of a scrape are never below what
\* the labels of the same scrape add up to, although they are atomics changed
\* outside the mutex: they are added to before the labels and printed after
\* them (ObserveRAGQuery, Render).
TotalsCoverLabels ==
    LET labelled == scrape.page["rag"].counts
        latencies == scrape.page["rag"].latencies
    IN  Rendered("rag") =>
          /\ Rendered("hits") =>
               scrape.page["hits"].total >= Times(labelled, {l \in DOMAIN labelled : l.cache = "hit"})
          /\ Rendered("misses") =>
               scrape.page["misses"].total >= Times(labelled, {l \in DOMAIN labelled : l.cache = "miss"})
          /\ Rendered("latency") =>
               scrape.page["latency"].total >= MapThenSumSet(LAMBDA l : latencies[l].sum, DOMAIN latencies)

\* No status is printed with more failed requests than requests (ObserveHTTP,
\* renderHTTPCounters).
RequestErrorsFit == Rendered("http") => Within(scrape.page["http"].errors, scrape.page["http"].counts)

\* A scrape never shows more errors than failures: a rate of errors computed
\* from one scrape is at most one, for requests and for queries, although the
\* error of a query is counted by a second call.  The counters of offline
\* knowledge keep the order of its steps, whatever fails between them: no more
\* runs have ended than begun, no more clusters were analysed than replayed,
\* and the judge failed no more items than failed (observeRAGError,
\* renderRAGCounters, renderHTTPCounters, executeRun, ProcessCluster).
ErrorsAreCounted ==
    /\ RequestErrorsFit
    /\ Rendered("rag") =>
         LET rag == scrape.page["rag"]
         IN  Times(rag.errors, DOMAIN rag.errors) <= Times(rag.counts, {l \in DOMAIN rag.counts : l.outcome = "error"})
    /\ Rendered("offline") =>
         LET counted == scrape.page["offline"].history.counted
             in(f, L) == Times(counted[f], DOMAIN counted[f] \cap L)
             outcome(o) == {[outcome |-> o]}
         IN  /\ in("runs", {[status |-> "completed"], [status |-> "failed"]}) <= in("runs", {[status |-> "running"]})
             /\ in("codex", outcome("success") \cup outcome("error")) <= in("replay", outcome("success"))
             /\ in("risk", {[reason |-> "judge_failed"]}) <= in("validation", outcome("error"))

\* Every printed block of a histogram can be read as one: its buckets are cumulative, no
\* bucket exceeds the count, and the sum lies within what the buckets allow;
\* its count is that of the counter beside it, or, for requests, whose
\* counters are copied earlier, at least that (observeHistogram, Render).
HistogramsAgree ==
    \A s \in DOMAIN scrape.page :
        "latencies" \in DOMAIN scrape.page[s] =>
            \A l \in DOMAIN scrape.page[s].latencies :
                LET h == scrape.page[s].latencies[l]
                    bounds == DOMAIN h.buckets
                IN  /\ \A b, c \in bounds : b <= c => h.buckets[b] <= h.buckets[c]
                    /\ \A b \in bounds :
                         h.buckets[b] <= h.count /\ h.sum >= (h.count - h.buckets[b]) * (b + 1)
                    /\ IF s = "http_latency"
                       THEN l \in DOMAIN scrape.page["http"].counts => h.count >= scrape.page["http"].counts[l]
                       ELSE h.count = scrape.page[s].counts[l]

\* A block of the latencies of requests stands in the series of the class of
\* its status, and a series is printed once more for every further status of
\* its class: 400 and 404 of one route print the series of 4xx twice, with
\* different values.  A series is not one histogram, as its labels in
\* docs/operations/README.md:64 say, but a status of no class does not repeat.
SeriesAreClasses ==
    Rendered("http_latency") =>
        LET latency == scrape.page["http_latency"]
        IN  /\ \A l \in DOMAIN latency.latencies : latency.series[l].class = statusClass(l.status)
            /\ \A l, k \in DOMAIN latency.latencies :
                 l # k /\ latency.series[l] = latency.series[k]
                     => l.status # k.status /\ {l.status, k.status} \subseteq 100..599

\* The exporter is told what is counted, each report once: never more, and,
\* while it is installed, less only by the reports that are on their way
\* (otlpMetricsSink, which decides by itself what an error is).
MirrorFollows ==
    \A f \in DOMAIN mirror :
        /\ Within(mirror[f], counters[f])
        /\ sink = "on" /\ (\A h \in Handler : handlers[h] = Resting) => mirror[f] = counters[f]

\* One scrape is consistent with itself, although its sections are read one
\* after another while reports come in, and with what is exported; the
\* latencies of requests block by block only, since their series repeat
\* (Render).
ScrapeIsConsistent ==
    TotalsCoverLabels /\ ErrorsAreCounted /\ HistogramsAgree /\ SeriesAreClasses /\ MirrorFollows
=============================================================================
