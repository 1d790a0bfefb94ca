# Verification of ORAG

TLA+ models, TLC checks and TLAPS proofs for the parts of ORAG whose
correctness depends on the order in which processes, transactions and calls
interleave, and for the tables and computations that have to agree with each
other. Paths below are relative to the repository root.

## 1. The system

ORAG is a multi-tenant RAG service in Go. PostgreSQL is the authority for all
durable state; Qdrant holds vectors and the semantic cache; TOS (or the local
disk) holds tutorial packs. Several API processes run side by side: each serves
HTTP requests, drains a shared task queue with worker pools, and runs the
goroutines of the tutorials and the scheduler of offline knowledge.

| Component | State | Hard behaviour | Module |
|---|---|---|---|
| Task queue (`storage/postgres/task_queue.go`) | one row per task: status, holder, generation, expiry, attempt | concurrent Lease transactions, expired leases, stale tokens, resource locks across pools, repeated requests | `LeaseFencing`, `TaskQueue`, `LeaseTransaction`, `IdempotentEnqueue` |
| In-memory queue (`taskqueue/repository_memory.go`) | the same rows under one mutex | takes abandoned tasks over directly | `MemoryQueue` |
| Worker pools (`taskqueue/worker.go`) | schedulers, a semaphore per pool, three goroutines per execution | a handler that outlives its lease, cancellation racing completion, stop and crash at any call | `WorkerPool` |
| Optimization runs (`optimizer`, `storage/postgres/optimizer.go`) | run row with its checkpoint, candidate rows, copies in the handler | read-modify-write of whole rows, takeover, cancel and resume during any call | `OptimizerRun` |
| Ingestion, deletion, dense retrieval (`ingest`, `kb/composite.go`, both stores, `app/app.go`) | documents and chunks with a searchable flag, points, jobs, a mutex per source | two stores without a common transaction, lost acknowledgements, repeated DELETE | `KnowledgeIngest` |
| Uploads (`ingest/uploads.go`, `http/router.go`) | session and part file | a read after the mutex was released | `Uploads` |
| Queries (`graph`, `rag`, `storage/postgres/trace.go`) | semantic caches, traces | shared cache, eviction, colliding trace ids | `QueryPipeline` |
| Pipelines (`pipeline`) | drafts and versions | lost updates; a validator that has to agree with the compiler | `PipelineDraft`, `PipelineValidation` |
| Releases (`release`, `pipeline/production.go`) | environments, evidence, history | reads before a compare-and-swap of one of the rows read | `ReleaseLifecycle` |
| Evaluation policies and runs (`evaluationpolicy`, `eval/service.go`) | versions; the rows of a run | list then insert; writes one by one | `EvaluationPolicy`, `EvaluationRun` |
| Judges and metrics (`eval`) | budget of a call | aggregation of answers that disagree | `EvaluationJudge`, `EvaluationMetrics` |
| Offline knowledge (`offlineknowledge`) | items, runs, windows of tool calls | whole-row writes after minutes of work, schedulers of several processes | `OfflineItem`, `OfflineRun`, `CodexTools` |
| Tutorials (`tutorial`, `storage/postgres/tutorial_*.go`) | clone jobs, runs, experiments | recovery at start while another process works | `TutorialClone`, `TutorialRun`, `TutorialExperiment` |
| Pack release (`packrelease`, `tutorial/public_reader.go`, `private_store.go`) | release directory, bucket, private store | create-only writes that fail half way | `PackRelease` |
| API keys (`auth/api_key.go`) | key rows, a throttle map per replica | two rotations, rotation and revocation | `ApiKeys` |
| Authorization (`auth/policy.go`, `http`) | tenant and project of every resource | many handlers, one rule | `Authorization` |
| Audit trail (`audit`, `storage/postgres/audit.go`) | append-only table, cursors | rows inserted while a client pages | `AuditTrail` |
| Execution budgets (`execution`) | slots per class | panics and deadlines | `ExecutionBudget` |
| Model clients and probes (`llm`, `config`, `modelreadiness`) | configuration, adapters, probe runs | two tables that have to agree; services that answer anything | `ModelClient`, `ModelReadiness` |
| Metrics (`observability/metrics.go`) | atomics and maps under a mutex | a scrape during reports | `MetricsRegistry` |
| Self operations (`selfops`, `selfcheck`, `mcp`) | plans, locks, completed keys; the lines read and answered | an edit between plan, lock and action; commands that time out, a caller that goes away | `SelfOps` |
| Trace export (`llmtrace`) | bounded channel, flush loop | Close and Flush against the loop | `TraceExport` |

Left out, with the reasons in `PROJECT.json`: the console and the documentation
site, SDK and commands, tutorial videos, backup and compatibility tools,
generators of agent artifacts, the commands that the diagnostics run, and
tracing.

How they interact: the HTTP API enqueues tasks and calls services; the worker
pools lease tasks and call the registered handlers; the optimizer's repository
joins its run rows with the task rows, so that a lease fences the writes of a
run; ingestion, deletion and queries meet only in the two stores; releases
decide which frozen pipeline version a production query compiles and runs, on
evidence derived from evaluation runs; a tutorial clone installs a published
pack, and its runs ingest and evaluate it.

What makes each component correct is what its properties state; section 3 lists
them. The hazards behind them are in `PROJECT.json`, each at its line.

## 2. Modules

### The queue and what runs on it

`TaskQueue` is the base: `WorkerPool` EXTENDS it and drives its actions,
`OptimizerRun` EXTENDS `WorkerPool` and replaces the abstract handler by
`HandleTask`. `LeaseTransaction` EXTENDS `TaskQueue` and refines one action of
it. All the others stand alone and communicate through no shared variable.

**LeaseFencing** is the abstract specification of a lease: a task has a holder
or none and a generation, and whoever becomes the holder does so under a new
generation. `TaskQueue` (`QueueFences`) and `MemoryQueue` (`MemoryFences`)
implement it, which is proved of both; the refinement mapping forgets
everything but holder and generation.

**TaskQueue.** `row` is the table, `issued` every lease token ever handed out,
`failures` a history of accepted retryable failures. One action per committed
transaction. Time is reduced to the two comparisons the SQL makes:
`row.expired` is `lease_expires_at <= NOW()` and `row.ready` is `run_after <=
NOW()`; `LeaseExpires` and `BecomesReady` flip them. Any worker may use any
token it was ever given, at any time, so the properties hold for callers worse
than the real ones. A call that finds its lease gone changes nothing and is not
an action. `Lease` reclaims expired rows of the pool and leases a batch; when
it leases nothing it returns before the commit, so the reclaim is undone too.

**LeaseTransaction.** The statements of `Lease` under READ COMMITTED: the
reclaiming UPDATE, the ranked `SELECT ... FOR UPDATE SKIP LOCKED`, the advisory
try-lock and the rechecking UPDATE per task, COMMIT or rollback. `tx` holds
the open transactions with their row and advisory locks. `ImplementsQueue` is
`TaskQueue`'s `Spec` as a property: the refinement mapping is the identity on
the committed rows.

**IdempotentEnqueue.** Enqueue with a key: INSERT against the unique index,
the SELECT after a violation, commit, read back, faults and repeated requests.

**MemoryQueue.** The repository of tests and local development, one action per
operation, and a client (`walk`) that follows the cursors of `List`.

**WorkerPool.** `exec` holds one execution per lease token, with the phase it
is in (the repository call it makes next) and whether its context is done.
`LeaseAndDispatch` is the scheduler; `Start`, `HeartbeatTick`, `MonitorTick`,
`HandlerReturns` and the settling calls are the goroutines. Every call may be
refused, fail with a storage error, or be made with a context that is done.
`Stop` and `Crash` end a process; a restarted process has a new worker id and is
another member of `Worker`. The first state chooses a `setting`: which workers,
tasks and handlers there are, how many operator requests, and when a lease may
expire (`anytime`, only while `unrenewed` by a running heartbeat, or only when
`abandoned` by its execution).

**OptimizerRun.** `run` and `cand` are the rows, `local` the handler's copies
and its place in `HandleTask`. One action per repository call with the work in
memory that follows it, so that other processes run between a read and the
write that uses it. Writes carry the fence `OwnsRun`. Scores are small numbers,
candidates are numbered in listing order, and costs and wall time are one
nondeterministic budget stop (`OtherBudget`); the judge calls are counted. A
run without the split a gate asks for, or whose objective cannot be evaluated,
fails in `ScoreFails`. The history `skewed` remembers that a resumption
overwrote a run that had moved on since it was read, or that `failRun` stored a
best or holdout candidate whose own row had not been written: what `CompletionIsExact` says
of a completed run is not claimed after either.

### Knowledge and answers

**KnowledgeIngest.** `docs` and `chunks` are PostgreSQL's rows, `points`
Qdrant's. A document is its content, as `documentID` hashes it; the chunks of a
document move together and are one value. Each call of `CompositeIndexer.Store`
is an action and may fail, a process may crash, and a COMMIT may be applied
without its acknowledgement. `Host` is whatever owns a `sourceLocks` map. The
searchable payload kept in Qdrant is never read by a query and is left out.

**QueryPipeline.** A query runs the nodes of the graph in order, or `Execute`
without graph and trace. Vectors are abstract (`Near`), ranked results are sets
from which any node may drop; both cache backends are modelled with their keys,
filters and eviction, and the trace store with its row lock.

**PackRelease.** Two machines build, publish and verify one version of the
packs; executors download, check and store the corpus. A file is the machine
that built it and whether it is whole.

**TutorialExperiment.** The candidates a manifest may declare, the definition
a run records when it starts, its acquisition, index and evaluation by processes
that may each run in another environment, cancellation and the requeueing of a
starting process, and the comparison with a baseline. A hash is what it hashes.

### The control plane

**ReleaseLifecycle.** Each of Activate, Promote and Rollback is a process with
one step per read and a compare-and-swap at the end; queries resolve the
production version with their own reads.

**PipelineDraft**, **EvaluationPolicy**: load and save against a revision; list
and insert against a unique key. **EvaluationRun**: the two reads of the
dataset, the answers and judgements, the writes in order, any of which fails.

**PipelineValidation.** `Validate` as operators: the errors of a definition
under a registry, each code with the places it is reported at, the search for
cycles as the code walks it, and the graph `Compile` makes. The built-in
registry has its eleven stages.

### Jobs

**OfflineItem**, **OfflineRun**, **CodexTools**: the item's status table and
the requests that read, work and write back; runs and schedulers of several
processes; the window of calls per second and the step budget, with clocks read
before the lock. **TutorialClone**, **TutorialRun**: stages with an effect and
a conditional update each, recovery at every start. **EvaluationJudge**: one
call of Judge, Compare or ScoreQAG. **EvaluationMetrics**: ranking, duplicate
and diversity metrics and the paired decision; a quotient is its numerator and
denominator. **SelfOps**: plan, lock, recapture, drift check, action; and the
MCP server's loop on standard input, which admits a line, hands it to a tool and
writes at most one answer, with the self checks of a scope one after the other
under a common deadline.
**TraceExport**: the channel, Flush, the flush loop of every `Start`, sending
with retries and cancelled contexts, Close and a start after it.

### Serving

**ApiKeys**, **Uploads**, **AuditTrail**, **ExecutionBudget**: rows, sessions,
cursors and slots as in the code. **Authorization**: every handler is one step
with the lookups it makes before it asks the policy, or, for traces, jobs and
offline knowledge, without asking it: those look at the tenant only, and the
middleware keeps a principal that is bound to a project away from them. **ModelClient**: the
validation of a configuration, the adapter built for each capability, and calls
with retries; **ModelReadiness** EXTENDS it with the probes.
**MetricsRegistry**: every counter and histogram reported; a report writes
atomics and, under the mutex, maps, and then calls the OTLP mirror, which may be
shut down meanwhile; a scrape reads section by section.

### Instances

`MC*` modules give constants their values. Components that share no state are
checked together: `MCKnowledge`, `MCControlPlane`, `MCJobs` and `MCServing`
EXTEND several modules and have a variable `part` that the first state chooses;
only the steps of that part are taken, and the variables of the others keep
their initial value. The states of such a run are the sum, not the product, of
those of its parts.

## 3. Runs

Sizes are distinct states.

| Run | Checks | Instance |
|---|---|---|
| `task_queue` | `ResourceExclusive`, `FencingUnique`, `RetryBudget`, `QueueFences`, `ImplementsQueue` | three sessions over two pools, two tasks with one resource, two workers, two generations and attempts |
| `worker_safety` | `ExecutionsFit`, `SuccessIsEarned`, `HandlerStopsFirst` | `Competing`: two pools, one resource, heartbeats in time. `Expiring`: one slot each, a task without a handler, leases that expire at any moment, one request. One fault each |
| `worker_liveness` | `EveryTaskSettles` | `Abandoning`: one task, two processes, one fault, one request, five generations |
| `optimizer_safety` (776k) | `TaskTellsRun`, `CompletionIsExact` | `TakingOver`: two processes, leases that expire at any call. `Resuming`: three tasks, two callers who cancel and resume, the task API used behind the run's back, one failing call. `Ranking`: one failing call and one Resume, or one failing call and a second process, with two scores. Budget stops and runs that cannot be scored everywhere |
| `optimizer_liveness` | `RunEnds` | two processes, one fault and one failing repository call |
| `knowledge` (1.71M) | `SearchStaysWhole`, `DeletionIsFinal`, `AnswersAreOwn`, `PackIsSound`, `ComparisonIsFair` | one process with three ingestions and two DELETEs, one with an ingestion, a DELETE and a query, or two processes with two ingestions, lost acknowledgements and a query; a query has up to two pages; two queries over seven questions and both caches; two machines and two executors; two runs over five packs, two processes and environments, two restarts or failures |
| `control_plane` (1.60M) | `HistoryChained`, `ActiveIsEarned`, `RevisionsAreKept`, `PolicyVersionsDense`, `StoredRunIsWhole`, `ValidationIsExact` | two versions, three environments, two requests, three releases; two authors; three creators; three items; chains of nine to eleven built-in stages with one change, and small definitions under registries that connect anything |
| `jobs` (1.33M) | `StatusIsTrue`, `WindowIsOrganized`, `LimitsHold`, `CloneIsEarned`, `RunMeasures`, `VerdictIsHeard`, `MetricsReward`, `MemoryKeepsLeases`, `OpsAreSound`, `ExportIsAccounted` | two of each actor, two to seven requests or events |
| `serving` (1.02M) | `KeysKeepOrder`, `UploadIsWhole`, `ProjectsAreSeparate`, `PagesAreExact`, `SlotsAreHeld`, `ModelsAreSound`, `ScrapeIsConsistent` | three keys; three bytes in chunks; two projects of one tenant and a second tenant, with tasks made for any base of them; three events and pages of one; a limited class of requests and two whose budget is incomplete; eleven configurations; two reports and a scrape, with two statuses of one class |

Most properties are conjunctions of parts with names and comments of their own
in the module:

| Property | Module | Parts |
|---|---|---|
| `ExecutionsFit` | `WorkerPool` | `HandlersExclusive`, `NoLeaseDropped` |
| `CompletionIsExact` | `OptimizerRun` | the checkpoint is kept except by a `StaleResume`, its candidates are not evaluated again, and `CompletedRunIsWhole` unless the run is `skewed` |
| `SearchStaysWhole` | `KnowledgeIngest` | `NoGap`, `OneActiveVersion`, `FailedLeavesPrior`, `ActiveHasPoints`, `PageUnmixed` |
| `DeletionIsFinal` | `KnowledgeIngest` | `OnlyLateWritesRemain`, `DeletedOnce`, `RowsStayDeleted` |
| `AnswersAreOwn` | `QueryPipeline` | `AnswerInBase`, `HitMatches`, `TraceOfOneQuery` |
| `PackIsSound` | `PackRelease` | `QuickKeepsBudget`, `ManifestBacked`, `VerifiedIsPublic`, `StoredIsDeclared` |
| `ComparisonIsFair` | `TutorialExperiment` | `OneFactor`, `CandidateIsComparable` |
| `ActiveIsEarned` | `ReleaseLifecycle` | `PromotedThroughSource`, `ReleasedIsFrozen`, `ReleasedWasValidated`, `EvidenceIsDerived`, `AnswerLineage`, `AnswerWasEvaluated` |
| `RevisionsAreKept` | `PipelineDraft` | `NoLostUpdate`, `SnapshotIsRevision` |
| `StoredRunIsWhole` | `EvaluationRun` | `RunRowEarned`, `DetailHasParents`, `ReturnedIsComplete`, `SummaryCovered` |
| `ValidationIsExact` | `PipelineValidation` | `AcceptedIsChain`, `CyclesAreFound` |
| `StatusIsTrue` | `OfflineItem` | `ArchivedIsFinal`, `ReportBacksStatus`, `EligibleIsFound` |
| `WindowIsOrganized` | `OfflineRun` | `ScheduledOnce`, `SchedulerExclusive`, `CompletedIsProcessed` |
| `LimitsHold` | `CodexTools` | `StepBudget`, `CallsPerSecond` |
| `CloneIsEarned` | `TutorialClone` | `StageEarned`, `InstalledIsWhole`, `CloneNotStranded` |
| `RunMeasures` | `TutorialRun` | `CancelIsFinal`, `EvaluatedIsIndexed`, `CandidateHasBaseline`, `RunNotStranded` |
| `VerdictIsHeard` | `EvaluationJudge` | `JudgeCallsBounded`, `ScoredWinnerHasMajority`, `MedianFollowsMajority`, `ClaimsKeepScoreDown` |
| `MetricsReward` | `EvaluationMetrics` | `RankingRewardsOrder`, `DuplicatesAreRepeats`, `RepeatsGainLess`, `DecisionIsUnanimous` |
| `MemoryKeepsLeases` | `MemoryQueue` | `MemoryFences`, `GrantIsExclusive`, `WalkIsComplete` |
| `OpsAreSound` | `SelfOps` | `ApplyIsPlanned` (`LockIsHeld`, `RunsOnPlanned`, `ReplayIsEarned`), `OneAnswerEach`, `VerdictIsEarned` |
| `ExportIsAccounted` | `TraceExport` | `ClosedIsDrained`, `NothingVanishes`, `TreeIsKept` |
| `KeysKeepOrder` | `ApiKeys` | `RevokedHasNoHeir`, `LastUsedAdvances`, `OneReplacement` |
| `UploadIsWhole` | `Uploads` | `IngestedIsSent`, `CompletedIsIngested` |
| `ProjectsAreSeparate` | `Authorization` | `AccessInScope`, `WorkKeepsProject` |
| `PagesAreExact` | `AuditTrail` | `PagesComplete`, `PagesRepeatNothing` |
| `ModelsAreSound` | `ModelReadiness` | `AcceptedBuilds`, `NoFakeInProduction`, `RequestsBounded`, `AnswersFit`, `ReadyIsEarned` |
| `ScrapeIsConsistent` | `MetricsRegistry` | `TotalsCoverLabels`, `ErrorsAreCounted`, `HistogramsAgree`, `SeriesAreClasses`, `MirrorFollows` |

What a property says is in the comment above it. Each has a mutant in
`PROJECT.json`: a plausible bug in the code it is about, which breaks it.

**Bounds.** The races need at most two contenders and one intruding fault or
request, and the instances have them: two tasks that share a resource from
different pools, two leases of one task (so a stale token exists), two
candidates (one to finish before the other is lost), two contents of one source,
two requests that read the same revision, three releases (to return to an
earlier version), two processes of which one restarts. The constants `Max...`
bound counters in guards; `MaxAttempts`, `MaxSteps`, `MaxEntries` and
`MaxThrottleEntries` are the code's own limits, made small enough to be reached.
In the liveness runs `MaxGeneration` exceeds the number of leases that attempts,
faults and requests allow, so that the bound itself never stops a task. Deadlock
is not checked: a queue whose tasks have ended, and a bounded instance whose
requests are used up, may stop.

**Symmetry.** Workers, tasks of the optimizer, requests, callers, processes and
the other actors that no definition tells apart; in the safety runs only. Parts
of one run share the names of their processes, or exchange them together, so
that one permutation group serves them all.

**Fairness.** `FairSpec` and `FairRunSpec` assume weak fairness of the clock
(expiry, backoff), of every scheduler's tick in a process that is up (a
`time.Ticker` loop), of every call an execution is about to make (calls have
contexts and return), and of handlers returning. Nothing is assumed of clients,
faults, heartbeats or the monitor. The liveness runs use leases that expire when
`abandoned`: a lease that could expire under a working handler again and again
would let a task run for ever, which the code does not exclude either. The other
components have no liveness property: clone jobs and tutorial runs wait for a
process start after a fault, and nothing guarantees one; that they are not left
alone otherwise is an invariant (`CloneNotStranded`, `RunNotStranded`).

### Disagreements found

Three runs have `expect: violation`: the property states what a document or a
comment says, TLC's trace shows what the code does. The quotations are in
`PROJECT.json` under `findings`.

| Run | Property | What happens |
|---|---|---|
| `idempotent_answer` | `ExistingReturned` | the repeated request reads the existing task in an aborted transaction and gets an error |
| `optimizer_orphan` | `NoOrphanedRun` | a cancellation just before the claim ends the task and leaves the run canceling |
| `paired_regression` | `PairedAnswersDiffer` | the run with the offline optimization is answered from the cache entry the baseline run has just stored |

The passing runs leave out circumstances in which their properties do not hold.
TLC shows each of these when the instance is widened.

| Run | Leaves out | Otherwise |
|---|---|---|
| `worker_safety`, `Competing` | leases that expire under a running heartbeat | the old handler works on until its next heartbeat or monitor tick |
| `optimizer_liveness` | more faults than the retry budget; cancellations | the task is a dead letter and the run stays running; `optimizer_orphan` |
| `knowledge`, one process | lost acknowledgements | an applied commit is reported as failed and not undone: `FailedLeavesPrior` fails |
| `knowledge`, one process | a second process | one process's finalization deletes the points another staged: `ActiveHasPoints` fails |
| `knowledge`, two processes | contents shared by two sources | staging moves the active row to the other source: `OneActiveVersion` fails |

The other properties are stated for what the code does keep, and where a step
breaks what a reader would expect, the property names that step and admits no
other: a stale Resume and `failRun` in `CompletionIsExact`, the late writes in
`DeletionIsFinal`, a request that writes an outdated copy in `StatusIsTrue`,
rollbacks in `ActiveIsEarned`, tasks made from a payload in
`ProjectsAreSeparate`, a repeated series in `ScrapeIsConsistent`. What the code
does not keep, met while modelling, follows. A path is given where a document or
a test says something else.

- *Queue and workers.* A cancelling task whose worker died is queued again and
  runs. An execution that lost its lease cancels the one that has it, because
  `repo.Cancel` takes no token. In the in-memory repository a late heartbeat
  revives a lease whose resource was given away
  (`taskqueue/repository_memory.go:102`, `:197`).
- *Optimizer.* A whole-row write overwrites a cancellation that arrived after
  the last merge, and the run completes. Of two callers who read the same run
  before they resume it, the second writes its older checkpoint over the newer
  one and may take the best candidate back to scored, because only the status is
  compared (`storage/postgres/optimizer.go:296`); the crash-recovery design of
  2026-08-03 (`:23`) calls completed checkpoint entries exactly-once. When a write
  of a candidate fails, `failRun` persists the best or the holdout candidate all
  the same, and a resume skips the step: the run completes with candidates that
  were never scored or promoted.
- *Knowledge.* An answer of several pages mixes two versions of a source when a
  commit comes between them (`storage/qdrant/vector_store.go:124`, against lines
  194, 207 and 261 of the staged-visibility design of 2026-07-15). Points and
  answers that an ingestion or a query writes during a DELETE, after the store
  was cleaned, stay for ever (kb-delete-retry design, `:72`: "no hidden orphan
  state is created").
- *Queries.* A new document version does not invalidate cached answers; a query
  in flight stores its answer after the deletion of the base; a trace id chosen
  by a client overwrites a stored trace; the cache in memory lower-cases names
  that clients gave to candidates.
- *Releases and pipelines.* Rollback accepts a version that was never active in
  the environment, has no frozen definition and passed no evaluation: any
  evidence that passed there is enough, and a client may supply it as a manual
  validation (`release/service.go:176-215`, `http/releases.go:82-86`; against
  lines 196 and 337 of the console's orchestration design of 2026-07-11 and
  `ROADMAP_EN.md:15`); what then answers in production is refused, unless it is
  frozen and an evaluation passed. Promotion
  is not one transaction (release lifecycle plan, `:7`); evidence is not tied to the version evaluated; `CreatePipeline`
  writes twice without a transaction; `Validate` accepts repeated node ids that
  `Compile` refuses, and its search misses some forbidden cycles when a node
  type allows cycles.
- *Judges and metrics.* Tokens and cost of the first output are counted twice
  (`eval/llm_judge.go:466-482`); ties are broken lexicographically; alpha nDCG may
  exceed 1; the paired comparison calls equal runs improved
  (`eval/paired_comparison.go:102`) and ignores `min_effect` (design 2026-07-19, `:188-191`);
  it takes candidate minus baseline for every metric, so that a run that is worse
  on latency or redundancy on every item is called improved
  (`eval/paired_comparison.go:57-62`, `eval/metric_registry.go:38`, `:47-49`).
- *Offline knowledge.* Deprecation is not final: a request that read the row
  before writes it back whole (`storage/postgres/offline_knowledge.go:349-370`,
  against line 396 of the plan of 2026-07-08). A shadow
  item cannot be deprecated, nothing becomes stale when a source changes, and
  there is no lock between schedulers of several processes, all against the
  design; a late `failRun` overwrites completed; a crashed run is never executed
  again; the window of calls restarts under an older clock; `BulkRevalidate`
  stops at its first error.
- *Tutorials.* A cancellation between two updates is lost when the job is queued
  again; a failed `Advance` strands the job until the next start; `RecoverPending`
  queues another replica's work again, and the stale executor's `Fail` hits the
  newer one; a request that dies between `CreateOrGet` and `Schedule` leaves its
  job to the next start. A clone is shown as installed while its runtime is
  unavailable, which is the default (`tutorial/runtime_resources.go:27`). The baseline knowledge base is shared by environments
  (`tutorial/comparison.go:25-27`).
- *Pack release.* A failed publication strands the version, and `Publish` does
  not ask whether the build completed; the order of a dataset depends on a map
  (`packrelease/builder.go:309-334`); the quick budget counts record bytes only;
  `VerifyPublic` does not compare `SHA256SUMS` itself, and a list that was cut off
  after a line verifies with what it still names; the private store accepts an
  existing object by its size.
- *Self operations.* The plan id does not include the scope; plans, locks and
  results are those of one process, although `docs/api/agent-integrations.md:88`
  says that single-flight locks block concurrent applies; the completed check precedes the lock, and an artifact set back
  to an old state is answered as skipped.
- *Trace export.* Not wired into the application. An export after `Close` is
  lost, `Start` after `Close` and another `Close` panics, and the counter of
  drops is unused.
- *Models.* The multimodal probe is always skipped, and the run passes all the
  same; the embedding probe compares dimensions only when the request states them
  (`modelreadiness/probe.go:265`, `http/model_readiness.go:57`; line 821 of the
  governance plan of 2026-07-26 asks for those of the configuration or the
  collection); an empty vector of a query is searched with; the service mutex is held
  during probes; the Ark client retries 4xx answers, and its deadline hides a 401
  (`llm/ark/client.go:390`); blank content is success.
- *Authorization and audit.* `POST /v1/tasks` compares the task's project and not
  what its payload names, so that a key of one project may import into, or
  evaluate against, a knowledge base of another project of its tenant
  (`http/tasks.go:65-118`, `app/task_handlers.go:55-76`, `:100-113`); an
  asynchronous evaluation without a dataset is enqueued without authorization,
  and fails when it is run (`http/router.go:1159-1181`). The video routes ask for a tenant-wide action with
  a project id, which nobody has (`http/tutorial_clones.go:20`, `:59`;
  `auth/policy.go:32-35`; against `docs/tutorials/clone-and-pack-install.md:29-30`).
  HTTP handlers record audit events with an empty id, so every one after the
  first is lost (`http/router.go:333`, `audit/audit.go:55-72`); task handlers set
  no time.
- *Uploads and keys.* Without `total_bytes` a chunk that arrives between the
  read and the completion is lost; two completions ingest twice; a cancellation
  during the ingestion changes nothing; the last-used throttle is per replica.
- *Metrics endpoint.* The latency series are printed without their status
  label, so that 400 and 404 of one route print the series of 4xx twice
  (`observability/metrics.go:421-440`; `docs/operations/README.md:64` names the
  labels of one series); a total printed before
  its labels may be below their sum.

## 4. Proofs

Every theorem below holds for every value of the constants that satisfies the
assumptions named in the module it is about: any number of tasks, workers,
requests, rows or processes, and any bound. The assumptions say what the code or
its schema gives: columns are functions of the row (`ColumnAssumption`), tables
are finite (`TableAssumption`), a listing order is total (`OrderAssumption`),
limits are numbers and positive where the configuration enforces it
(`BoundAssumption`, `ToolsAssumption`, `ExportAssumption`), ids are numbers in
the order they are compared (`AuditAssumption`, `MemoryAssumption`), and a value
that stands for "none" is not one of the others. TLC evaluates them in the runs.

Each proof has the same shape: an inductive invariant, a lemma for each action
that it is preserved, and the property from it, by `PTL`. Invariants are
conjunctions over single rows, calls or goroutines, stated with an operator of
the row, so that a step that writes one of them leaves the others alone.

### Queue (`TaskQueueProofs`)

| Theorem | States |
|---|---|
| `TypeCorrect` | `Spec => []TypeOK` |
| `ResourceLock` | `Spec => []ResourceExclusive` |
| `Fencing` | `Spec => []FencingUnique` |
| `Retries` | `Spec => []RetryBudget` |
| `Freshness` | `Spec => FreshToken`: a token handed out was never handed out before |
| `LeaseKept` | `Spec => LiveLeaseKept`: nobody takes a lease that has not expired from a holder that works on it |
| `RefinesFencing` | `Spec => QueueFences`: the queue implements `LeaseFencing` |

The inductive invariant `IInv` adds three facts to the properties:

- `LeaseColumns`: a row has a holder exactly while it is leased, running or
  cancelling. Without it a token of an ended lease might match a row again.
- `TokenHistory`: no token is newer than its row, and a generation is issued
  once per task. `FencingUnique` and `FreshToken` follow from it with
  `LeaseColumns`.
- `FailureAccounting`: each accepted failure used up an attempt, and an active
  row has one attempt more than failures. `failures[t] <= MaxAttempts` alone is
  not inductive: it does not say why the last failure goes to `dead_letter`.

The actions that write one row are proved through `RowStep`: if the new row
fits (`RowFits`), the invariant is preserved. `Lease` writes many rows and has
a lemma of its own, `LeaseIInv`, with one step per conjunct: its exclusivity
part splits on whether the two tasks are in the batch, reclaimed or untouched.
The refinement maps every action to a step of `LeaseFencing` on the rows it
changes, or to a stutter.

### Lease transaction (`TaskQueueProofs`)

`TransactionImplementsQueue`: `TxSpec => ImplementsQueue`. A COMMIT of the
statements is an atomic `Lease` of `TaskQueue`, every other statement a stutter.
`TxIInv`: row locks and advisory locks of open transactions are disjoint, and
what a transaction has done still stands on the committed rows (`TxStands`): the
rows it reclaimed are still abandoned, its batch are still candidates, and each
task of the batch is `Guarded` by the advisory lock of its resource, so that no
other batch has a task of it. This is where the row locks alone would not
suffice: two tasks of one resource are two rows.

### Worker pools (`TaskQueueProofs`)

`PoolImplementsQueue`: `PoolSpec => Spec`, so that the invariants of the queue
hold of the workers too; `ExecutionsAlwaysFit`, `SuccessEarned` and
`HandlersStopFirst` are the three properties of `worker_safety`. `PoolIInv`
adds to the queue's `IInv` that the phase of an execution tells what its
handler answered (`ExecIsSound`), that the executions of a pool never exceed its
semaphore, and that while leases are renewed in time a handler with a live
context works under a lease that is its own (`HandlerHolds`); `Advances` says
what a step may do to an execution, and is what makes the confirmation of a
cancellation wait for the handler.

### Optimization runs (`TaskQueueProofs`)

`TasksTellRuns`: `RunSpec => []TaskTellsRun`, for any number of processes, tasks,
candidates, callers, faults and failing calls, and with the task API used
beside the run's. `TellIInv`: an execution speaks for the run only while its
lease is the newest of the run's task (`Mine`), since every write of the run is
fenced and a lost lease stays lost (`TokensGo`); for such an execution the
answer of the handler (`HandlerStands`) and the outcome the worker took over
(`ExecutionStands`) say how the run ended (`AnswerStands`). No answer is a success
or a terminal failure before the run has ended, which is why a cancellation may
still change the run's status: the lemmas `HandlerAny` and `ExecutionAny`. The
proof rests on `RunInit` saying that every process has the handler of
optimization runs (`app.go:329` registers it wherever a worker pool is made): a
task without a handler is failed for good while its run stays queued.

### Control plane (`ControlPlaneProofs`)

| Theorem | Invariant |
|---|---|
| `PoliciesDense` | `PolicyIInv`: what a call is about to insert was the next version when it listed, so by now it exists or is still the next |
| `DraftRevisions` | `DraftIInv`: the row is the last revision saved, every copy is some revision, and a copy with the row's number is the row |
| `ReleaseHistory`, `ReleasesEarned` | `ReleaseIInv`: `PointerIsLast`, `ChainOfRecords`, `ExpectationFresh` (what a request read of the target is current unless the revision moved on since, which the compare-and-swap sees), `SourceReleased`, `DefinitionChecked` (an activation or promotion past its check has a frozen definition; a rollback makes no such check), `GatesNoted`, `EvidenceHasVersion` |
| `EvaluationStored` | `EvaluationIInv`: rows are stored in the order of the writes, and none before every item was answered |
| `VerdictsHeard` | `JudgeIInv`: what was heard so far is what the outputs were made from, and the calls sent are covered by the questions behind it, each with all its retries, and the attempts of the one it is at (`AsksOn`, `WithinBudget`) |

`VerdictsHeard` assumes of a judge what its configuration gives: at least one
model and retries that are not negative (`JudgeAssumption`). Votes are
cardinalities of sets of indices, so that no induction over the list of answers
is needed: a winner's stable comparisons are mapped into those that name it, and
the element of a rank has as many scores on each side as the rank says (`Sorted`).

### Knowledge (`KnowledgeProofs`)

| Theorem | Invariant |
|---|---|
| `DeletionFinal` | `DeleteIInv`: how far the deletion is by the place of any of its requests (`DeletePlace`), and that only one of them was told so (`ToldOnce`); what is left in a store that was cleaned is among the late writes (`PointsClean`, `CacheClean`), which a history variable collects |
| `SourcesWhole`: `NoGap`, `OneActiveVersion`, `FailedLeavesPrior`, `ActiveHasPoints` | `WholeIInv`: rows, points and requests are those of their source (`OwnRows`, `OwnRequests`); two requests that hold a mutex differ in process or source (`SourceMutex`), so that in one process nobody else commits a source between the moment its versions were noted and the request's own commit (`PriorActive`) or finalization (`OnlyNewActive`); points are written before the commit that needs them (`PointsFirst`). Every step leaves the versions of all sources as they are, replaces those of one, or deletes the base |
| `SearchWhole`: `SearchStaysWhole` | `PageIInv` beside it: every page is filtered at one moment, from one version per source |
| `AnswersOwn` | `QueryIInv`: what a query found is its own (`Own`), so is every cache entry (`EntryOwn`), and the holder of a trace row's lock wrote the row and can restore it (`Holds`) |
| `PacksAreSound` | `PackIInv`: a root holds what one machine built (`RootStands`) and so does the bucket (`PublicStands`); a publication past a file found it put by its own root (`PublishStands`), which is what the order of the files is for; a verification and an installation have behind them what they checked (`VerifyStands`, `InstallStands`). That the quick corpus fits its budget is a lemma about `CorpusRecords` for any checkout (`QuickFits`): it is a beginning of the texts, its last record was taken within the budget, and the first one left out did not fit |
| `ComparisonsAreFair` | `ExpIInv`: whatever process works on a run does it in the environment the run was started in (`RowMeasures`, `WorkMeasures`), that environment has built the run's knowledge base (`Built`), a candidate names a baseline completed under its fingerprint (`Based`); the three tables are compared chapter by chapter (`TablesAgree`, `DiffersIn`) |

`SourcesWhole` and `SearchWhole` have a hypothesis, `SeparateContents`: no two
sources share a content, and a named source has one version at first. Documents
are identified by their content, so that two sources with the same text share a
row, and a commit of either then changes the other. Every deployment of the run
`knowledge` has it. The parts of the theorems
that need one process with answered COMMITs say so themselves (`OneProcess`).

### Jobs (`JobsProofs`)

| Theorem | Invariant |
|---|---|
| `ItemsAreTrue` | `ItemIInv`: the row has the report and the time its status asks for (`RowBacked`), a copy too (`CopyIsSound`); a request whose copy no other request has outdated (`behind`) works on what the row holds (`CopyIsCurrent`), and a retrieval that is under way has seen the item or finds it in a list that is still to come (`ShadowIsSound`) |
| `WindowsOrganized` | `OfflineIInv`: every cluster an execution has behind it has an item; a scheduler's execution is among its keys in flight |
| `ToolLimits` | `ToolsIInv`: the window counts the calls of its second (`WindowCounts`); the tools that ran and the calls that may still run one are covered by the steps (`StepsCover`) |
| `ClonesEarned` | `CloneIInv`: what a stage asks of those before it (`Earned`), with a runtime that is ready or unavailable, what a goroutine knows of its effects (`Backed`), and that a job has a goroutine where its row says (`Attended`) |
| `RunsMeasure` | `TutorialRunIInv`: `RowIsSound`, `BaselineDone`, `RoutineIsSound`, `RunAttended`; `RowMoves` says what a step may do to a row and gives `CancelIsFinal` |
| `MemoryLeases` | `MemIInv`: a client that pages has all it began with up to its cursor (`WalkIsSound`); every step of a task is a `MemTurn`, a step of the abstract lease |
| `OpsArePlanned` | `OpsIInv`: how far an apply has come tells what it found (`CallStands`), the locks are those of the calls inside (`LocksStand`), a completed key has its run (`KeysStand`) |
| `McpAnswers` | `RpcIInv`: at most the line in hand is without its answer, and the results of a self check so far are those of the checks of its scope, in their order |
| `OpsSound` | the two together: `OpsAreSound` |
| `ExportsAccounted` | `ExportIInv`: a batch is in hand only while it is drained and sent (`SenderStands`), a running exporter whose contexts are not cancelled has its loop (`LoopsStand`), and an accepted span is queued, in hand, stored or given up (`SpanStands`) |

### Serving (`ServingProofs`)

| Theorem | Invariant |
|---|---|
| `BudgetsHold` | `BudgetIInv`: the slots of a class are counted by its requests (`SlotsCounted`), and a slot belongs to a request at work in a class with a limit (`HoldsRightly`), which is why leaving may skip the release of the others |
| `UploadsAreWhole` | `UploadIInv`: a part file with no more bytes than acknowledged is what the client sent (`FileIsSound`); with a declared size, a call past its read has seen all of it (`CallIsSound`) |
| `KeysInOrder` | `KeysIInv`: a prepared rotation has a fresh id and names its source (`CallIsFresh`), rows are whole (`KeyIsWhole`) |
| `ProjectsSeparate` | `AuthIInv`, with a lemma for each kind of action that what the policy permits is `InScope`, and lemmas that work keeps the project of what was looked up (`vetted`) and a task from a payload its tenant |
| `PagesExact` | `AuditIInv`: a reader has what was there at its start or will still get it (`NothingLost`); while every event has a time, all it saw lies before its cursor (`NothingTwice`). A page is the first events of what a cursor leaves, from `NumberLemmas` |
| `ModelsSound` | `ModelsIInv`: a configuration past the validation keeps what it asked for (`ConfigStands`); a call has sent a full round of attempts for every text behind it and the attempts of the one it is at (`CallCounts`, `CallAsked`); a readiness run has the results of the answers it got, and of no others (`ProbesStand`) |

The metrics have two theorems about parts of `ScrapeIsConsistent`:

| Theorem | Invariant |
|---|---|
| `ScrapesReadable`: `HistogramsAgree`, `SeriesAreClasses` and `RequestErrorsFit` | `ReadableIInv`: labels of requests are of one shape (`IsRequestLabel`), so that two of one series differ in the status; every histogram goes with its counter and can be read as one (`Together`, `IsHistogram`), and so does what stands on the page; of the requests printed there are now at least as many (`Earlier`), and they are printed before their latencies and not again after them (`LeftFits`), so that the histograms copied later cover them |
| `MirrorIsTold`: `MirrorFollows` | `MirrorIInv`: of every label, what was mirrored and what handlers owe the exporter (`Debt`, counted by cardinality) is at most what was counted, and exactly that while the exporter is installed. That the two sides agree on what an error is (`MirroredAsCounted`) needs a status of HTTP (`MetricsAssumption`) |

`NumberLemmas` has what a page of a list and a batch of a queue need: a least
and a greatest element, and that the first n numbers of a set are below the
others and n unless they are all. They are proved by minimal counterexample,
from the library's well-foundedness of the naturals.

### Only model-checked

- `EveryTaskSettles`, `RunEnds`: liveness under fairness.
- `ValidationIsExact`: what a recursive search computes for every graph.
- `MetricsReward`: sums and rankings over sequences, which need induction over
  data. `ScrapeIsConsistent` has sums too, over labels (`TotalsCoverLabels`, the
  errors of queries) and over the calls of a run of offline knowledge; its other
  parts are proved.
- `CompletionIsExact`: a run, its candidates and the copies of every execution,
  over some thirty steps of the handler. The run explores failing calls and stale
  resumptions; leases that expire under their holder are kept apart from both, for
  the size of the run.

## 5. Not modelled

- Console, documentation site, SDK, commands, backup and compatibility tools,
  tutorial videos, generators of agent artifacts: I/O, formatting or code of
  other languages, without state that several actors share.
- `task_events`, `Stats`: history and reads no decision depends on.
- The arithmetic of the retry backoff: a task is ready or it is not.
- Parsing, chunking, embedding, RAPTOR and graph relations: the computation
  around the activation protocol. An error in it is an error of the staging
  call, before anything is written.
- Scores, rank fusion and prompts: a query's results are sets.
- Search spaces and objectives with constraints of the optimizer, the harness's
  files.
- Streaming answers of the chat clients (`ChatStream`): nothing in the
  repository calls them.
- Diagnostics, tracing and logging.

The reasons for the other parts, and for the hazards that no property covers,
are in `PROJECT.json`.

## 6. Plan

1. Done: the models of sections 1 and 2; the proofs of section 4.
2. Prove next: `CompletionIsExact`, first for runs that no caller resumes.
3. Model further where it pays: document imports and evaluations as handlers of
   `WorkerPool`, rank fusion as an operator, the optimizer's search space.
