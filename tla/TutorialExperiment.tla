-------------------------- MODULE TutorialExperiment --------------------------
(***************************************************************************)
(* What the live runs of a text tutorial measure: a pack declares          *)
(* candidates, a run records the definition it was derived from, and a     *)
(* candidate is compared with a baseline when nothing but its own factor   *)
(* differs.  Processes come and go with their environment (the models and  *)
(* the build), so a run may be started, indexed and evaluated by three;    *)
(* a starting process requeues what another one is still running.          *)
(*                                                                         *)
(* Three tables of the code have to agree: the candidates ParseManifest    *)
(* accepts, the definition runtimeDefinition derives, and the rows that    *)
(* isComparableTutorialCandidate accepts.  A hash is what it hashes.  A    *)
(* process works on one request or run at a time.  Rows written before     *)
(* definitions were recorded and visual packs are left out.                *)
(***************************************************************************)
EXTENDS Integers, FiniteSets, Sequences

CONSTANTS
    ExpHost,        \* processes
    ExpEnvironment, \* runtime environments: models, evaluator and build
    FirstEnvironment, \* the one every process begins in
    ExpRun,         \* ids of runs, in the order they are created
    ExpKey,         \* idempotency keys
    OfferedPack,    \* packs
    RuntimeOf,      \* what their manifests declare: [profile, topK, json, candidates]
    MaxExpEvents    \* bound of the model: restarts and failed calls

ASSUME ExperimentAssumption == ExpRun \subseteq Nat /\ MaxExpEvents \in Nat

VARIABLES
    expEnv,      \* the environment each process runs in
    expPack,     \* the installed pack: a set with it, or empty
    expRuns,     \* rows of tutorial_experiment_runs
    expIndex,    \* the environments a knowledge base was indexed in
    expWork,     \* what each process is doing
    expEvents    \* restarts and failed calls so far

experimentVars == <<expEnv, expPack, expRuns, expIndex, expWork, expEvents>>

-----------------------------------------------------------------------------
(***************************************************************************)
(* Candidates and definitions                                              *)
(***************************************************************************)

TutorialBaselineChunkSizeTokens == 800
TutorialBaselineChunkOverlapTokens == 120
TutorialP2ChunkSizeTokens == 400
TutorialP2ChunkOverlapTokens == 80
TutorialBaselineContextPackTopN == 5
TutorialP8ContextPackTopN == 3
TutorialContextPackMaxTokens == 6000

\* A candidate without a setting of its own, but with the chunks of the baseline.
PlainCandidate ==
    [parser |-> "basic", size |-> TutorialBaselineChunkSizeTokens, overlap |-> TutorialBaselineChunkOverlapTokens,
     contextual |-> FALSE, strategy |-> "", reuse |-> FALSE, queries |-> 0, rerank |-> FALSE, graph |-> FALSE,
     topN |-> 0, maxTokens |-> 0]

ReusingCandidate == [PlainCandidate EXCEPT !.strategy = "hybrid", !.reuse = TRUE]

\* validP1Candidate to validP8Candidate: the one form of each candidate.
Canonical ==
    [p1 |-> [PlainCandidate EXCEPT !.parser = "structured_json", !.size = 0, !.overlap = 0],
     p2 |-> [PlainCandidate EXCEPT !.size = TutorialP2ChunkSizeTokens, !.overlap = TutorialP2ChunkOverlapTokens],
     p3 |-> [PlainCandidate EXCEPT !.contextual = TRUE],
     p4 |-> [ReusingCandidate EXCEPT !.strategy = "sparse"],
     p5 |-> [ReusingCandidate EXCEPT !.queries = 3],
     p6 |-> [ReusingCandidate EXCEPT !.rerank = TRUE],
     p7 |-> [PlainCandidate EXCEPT !.strategy = "graph", !.graph = TRUE],
     p8 |-> [ReusingCandidate EXCEPT !.topN = TutorialP8ContextPackTopN, !.maxTokens = TutorialContextPackMaxTokens]]

\* A chapter stands for the candidate it introduces; structured parsing needs
\* a JSON document.
ValidCandidate(c, json) ==
    /\ c.id \in DOMAIN Canonical /\ c.chapter = c.id /\ c.set = Canonical[c.id]
    /\ c.id = "p1" => json

\* validateRuntimeManifest: a bounded baseline and known candidates, none of
\* them twice.
ValidPack(pack) ==
    LET m == RuntimeOf[pack]
    IN  /\ m.profile \in {"realtime", "high_precision"} /\ m.topK \in 1..100
        /\ \A i \in DOMAIN m.candidates :
              /\ ValidCandidate(m.candidates[i], m.json)
              /\ \A j \in DOMAIN m.candidates : m.candidates[i].id = m.candidates[j].id => i = j

\* ConfigureCandidateIngestors and ConfigureCandidateEvaluators.
CandidateIngestors == {"p1", "p2", "p3", "p7"}
CandidateEvaluators == {"p4", "p5", "p6", "p7", "p8"}

BaselineDefinition ==
    [kb |-> "baseline", parser |-> "basic", size |-> TutorialBaselineChunkSizeTokens,
     overlap |-> TutorialBaselineChunkOverlapTokens, contextual |-> FALSE, prompt |-> "", strategy |-> "hybrid",
     reuse |-> FALSE, mode |-> "none", queries |-> 0, rerank |-> FALSE, graph |-> FALSE,
     topN |-> TutorialBaselineContextPackTopN, maxTokens |-> TutorialContextPackMaxTokens]

\* Settings that are not given keep those of the baseline.
CandidateDefinition(id, s) ==
    [kb |-> IF s.reuse THEN "baseline" ELSE id, parser |-> s.parser,
     size |-> IF s.size > 0 THEN s.size ELSE TutorialBaselineChunkSizeTokens,
     overlap |-> IF s.size > 0 THEN s.overlap ELSE TutorialBaselineChunkOverlapTokens,
     contextual |-> s.contextual, prompt |-> IF s.contextual THEN "tutorial_contextual_v1" ELSE "",
     strategy |-> IF s.strategy = "" THEN "hybrid" ELSE s.strategy, reuse |-> s.reuse,
     mode |-> IF s.queries > 0 THEN "multi_query" ELSE "none", queries |-> s.queries,
     rerank |-> s.rerank, graph |-> s.graph,
     topN |-> IF s.topN > 0 THEN s.topN ELSE TutorialBaselineContextPackTopN,
     maxTokens |-> IF s.maxTokens > 0 THEN s.maxTokens ELSE TutorialContextPackMaxTokens]

Candidates(pack) == {RuntimeOf[pack].candidates[i] : i \in DOMAIN RuntimeOf[pack].candidates}

Declared(v) == {c \in UNION {Candidates(pack) : pack \in expPack} : c.id = v}

\* A candidate has what indexes or evaluates it.
Served(c) == IF c.set.reuse THEN c.id \in CandidateEvaluators ELSE c.id \in CandidateIngestors

\* The definitions of a variant: none for one that is unknown or not served.
VariantDefinitions(v) ==
    IF v = "baseline" THEN {BaselineDefinition}
    ELSE {CandidateDefinition(c.id, c.set) : c \in {d \in Declared(v) : Served(d)}}

\* comparisonFingerprint: the template and the dataset are those of the one
\* experiment, the profile and top k those of its pack.
ComparisonFingerprint(h) == [pack |-> expPack, env |-> {expEnv[h]}]

-----------------------------------------------------------------------------
AtRest == [step |-> "rest"]

\* The statistics of an index: none, chunks, or chunks with contexts.
NoStats == [chunks |-> FALSE, contexts |-> FALSE]

ExpInit ==
    /\ expEnv = [h \in ExpHost |-> FirstEnvironment]
    /\ expPack = {}
    /\ expRuns = << >>
    /\ expIndex = [kb \in {"baseline"} \cup DOMAIN Canonical |-> {}]
    /\ expWork = [h \in ExpHost |-> AtRest]
    /\ expEvents = 0

CountExpEvent == expEvents < MaxExpEvents /\ expEvents' = expEvents + 1

InstallPack(pack) ==
    /\ expPack = {} /\ ValidPack(pack)
    /\ expPack' = {pack}
    /\ UNCHANGED <<expEnv, expRuns, expIndex, expWork, expEvents>>

\* RecoverExperimentRuns: all runs that were being executed, by whomever.
Recovered(row) ==
    CASE row.status = "running" -> [row EXCEPT !.status = "queued"]
      [] row.status = "cancel_requested" -> [row EXCEPT !.status = "cancelled"]
      [] OTHER -> row

\* A process is replaced by another one, with its configuration and build.
RestartHost(h) ==
    /\ CountExpEvent
    /\ \E e \in ExpEnvironment : expEnv' = [expEnv EXCEPT ![h] = e]
    /\ expRuns' = [n \in DOMAIN expRuns |-> Recovered(expRuns[n])]
    /\ expWork' = [expWork EXCEPT ![h] = AtRest]
    /\ UNCHANGED <<expPack, expIndex>>

Works(h, work) == expWork' = [expWork EXCEPT ![h] = work]

SetExpRun(n, row) == expRuns' = [expRuns EXCEPT ![n] = row]

-----------------------------------------------------------------------------
(***************************************************************************)
(* Requests                                                                *)
(***************************************************************************)

CompletedBaselines(print) ==
    {n \in DOMAIN expRuns :
        expRuns[n].variant = "baseline" /\ expRuns[n].status = "completed" /\ expRuns[n].fingerprint = print}

NewExpRun(h, v, key, def, b) ==
    [variant |-> v, key |-> key, baseline |-> b, def |-> def, fingerprint |-> ComparisonFingerprint(h),
     env |-> expEnv[h], stage |-> IF def.reuse THEN "evaluate" ELSE "index", status |-> "queued",
     stats |-> IF b = 0 THEN NoStats ELSE expRuns[b].stats, indexEnv |-> {}, evalEnv |-> {}, kbEnv |-> {}, done |-> 0]

\* StartVariant reads: a candidate names the baseline that was completed last
\* under its fingerprint, and begins with that baseline's statistics.
StartVariant(h, v, key) ==
    /\ expWork[h] = AtRest /\ expPack # {}
    /\ \E def \in VariantDefinitions(v), b \in {0} \cup DOMAIN expRuns :
          LET found == CompletedBaselines(ComparisonFingerprint(h))
          IN  /\ IF v = "baseline" THEN b = 0
                 ELSE b \in found /\ \A n \in found : expRuns[n].done <= expRuns[b].done
              /\ def.reuse => expRuns[b].def.kb = def.kb
              /\ Works(h, [step |-> "create", row |-> NewExpRun(h, v, key, def, b)])
    /\ UNCHANGED <<expEnv, expPack, expRuns, expIndex, expEvents>>

\* CreateOrGetRun: a key creates one run of a variant.
CreateOrGetRun(h) ==
    /\ expWork[h].step = "create"
    /\ LET new == expWork[h].row
           exists == \E n \in DOMAIN expRuns : expRuns[n].variant = new.variant /\ expRuns[n].key = new.key
       IN  IF exists THEN UNCHANGED expRuns
           ELSE Len(expRuns) + 1 \in ExpRun /\ expRuns' = Append(expRuns, new)
    /\ Works(h, AtRest)
    /\ UNCHANGED <<expEnv, expPack, expIndex, expEvents>>

\* The two updates of CancelExperimentRun; one that finds the run in another
\* status changes nothing.
CancelRun(n) ==
    /\ CountExpEvent
    /\ \/ expRuns[n].status = "queued" /\ SetExpRun(n, [expRuns[n] EXCEPT !.status = "cancelled"])
       \/ expRuns[n].status = "running" /\ SetExpRun(n, [expRuns[n] EXCEPT !.status = "cancel_requested"])
    /\ UNCHANGED <<expEnv, expPack, expIndex, expWork>>

-----------------------------------------------------------------------------
(***************************************************************************)
(* Execute                                                                 *)
(***************************************************************************)

\* Mutant: a run is executed under whatever definition it has.
MatchesAnything(h, n) == TRUE

\* The definition that this process derives is the one of the row.
Matches(h, n) ==
    /\ expRuns[n].def \in VariantDefinitions(expRuns[n].variant)
    /\ expRuns[n].env = expEnv[h] /\ expRuns[n].fingerprint = ComparisonFingerprint(h)

\* AcquireExperimentRun, and the definition of the run as this process sees it.
Acquire(h, n) ==
    /\ expWork[h] = AtRest /\ expRuns[n].status = "queued"
    /\ SetExpRun(n, [expRuns[n] EXCEPT !.status = "running"])
    /\ Works(h, [step |-> IF Matches(h, n) THEN expRuns[n].stage ELSE "fail", run |-> n, stage |-> expRuns[n].stage])
    /\ UNCHANGED <<expEnv, expPack, expIndex, expEvents>>

\* index: the documents are ingested into the knowledge base of the run, all or
\* some of them.
Index(h) ==
    LET w == expWork[h]
        row == expRuns[w.run]
    IN  /\ w.step = "index"
        /\ \/ \E some, contexts \in BOOLEAN :
                /\ contexts => some /\ row.def.contextual
                /\ Works(h, [step |-> "record", run |-> w.run, stage |-> w.stage,
                             stats |-> [chunks |-> some, contexts |-> contexts]])
           \/ Works(h, [w EXCEPT !.step = "fail"])
        /\ expIndex' = [expIndex EXCEPT ![row.def.kb] = @ \cup {expEnv[h]}]
        /\ UNCHANGED <<expEnv, expPack, expRuns, expEvents>>

\* An update of the run, if it is still running in the stage of the worker.
Updates(h, row, next) ==
    LET w == expWork[h]
    IN  /\ IF expRuns[w.run].status = "running" /\ expRuns[w.run].stage = w.stage
           THEN SetExpRun(w.run, row) /\ Works(h, next)
           ELSE UNCHANGED expRuns /\ Works(h, [w EXCEPT !.step = "cancel"])
        /\ UNCHANGED <<expEnv, expPack, expIndex, expEvents>>

RecordIndexStats(h) ==
    LET w == expWork[h]
    IN  /\ w.step = "record"
        /\ Updates(h, [expRuns[w.run] EXCEPT !.stats = w.stats, !.indexEnv = {expEnv[h]}],
                   [step |-> "advance", run |-> w.run, stage |-> w.stage])

AdvanceRun(h) ==
    LET w == expWork[h]
    IN  /\ w.step = "advance"
        /\ Updates(h, [expRuns[w.run] EXCEPT !.stage = "evaluate", !.status = "queued"], AtRest)

EvaluateRun(h) ==
    LET w == expWork[h]
    IN  /\ w.step = "evaluate"
        /\ \/ Works(h, [w EXCEPT !.step = "fail"])
           \/ Works(h, [step |-> "complete", run |-> w.run, stage |-> w.stage,
                        seen |-> expIndex[expRuns[w.run].def.kb]])
        /\ UNCHANGED <<expEnv, expPack, expRuns, expIndex, expEvents>>

CompletedSoFar == Cardinality({n \in DOMAIN expRuns : expRuns[n].status = "completed"})

CompleteRun(h) ==
    LET w == expWork[h]
    IN  /\ w.step = "complete"
        /\ Updates(h, [expRuns[w.run] EXCEPT !.stage = "completed", !.status = "completed", !.evalEnv = {expEnv[h]},
                                             !.kbEnv = w.seen, !.done = CompletedSoFar + 1], AtRest)

FailRun(h) == expWork[h].step = "fail" /\ Updates(h, [expRuns[expWork[h].run] EXCEPT !.status = "failed"], AtRest)

\* finishCancellationIfRequested
MarkCancelled(h) ==
    LET n == expWork[h].run
    IN  /\ expWork[h].step = "cancel"
        /\ IF expRuns[n].status = "cancel_requested" THEN SetExpRun(n, [expRuns[n] EXCEPT !.status = "cancelled"])
           ELSE UNCHANGED expRuns
        /\ Works(h, AtRest)
        /\ UNCHANGED <<expEnv, expPack, expIndex, expEvents>>

\* A statement fails: the one that reads the experiment or the one that
\* records statistics fails the run, the others leave it as it is.
StatementFails(h) ==
    /\ expWork[h].step \in {"index", "record", "advance", "complete", "fail", "cancel"} /\ CountExpEvent
    /\ Works(h, IF expWork[h].step \in {"index", "record"}
                THEN [step |-> "fail", run |-> expWork[h].run, stage |-> expWork[h].stage] ELSE AtRest)
    /\ UNCHANGED <<expEnv, expPack, expRuns, expIndex>>

ExpNext ==
    \/ \E pack \in OfferedPack : InstallPack(pack)
    \/ \E n \in DOMAIN expRuns : CancelRun(n)
    \/ \E h \in ExpHost :
          \/ \E v \in {"baseline"} \cup DOMAIN Canonical, key \in ExpKey : StartVariant(h, v, key)
          \/ \E n \in DOMAIN expRuns : Acquire(h, n)
          \/ RestartHost(h) \/ CreateOrGetRun(h) \/ Index(h) \/ RecordIndexStats(h) \/ AdvanceRun(h)
          \/ EvaluateRun(h) \/ CompleteRun(h) \/ FailRun(h) \/ MarkCancelled(h) \/ StatementFails(h)

ExpSpec == ExpInit /\ [][ExpNext]_experimentVars

-----------------------------------------------------------------------------
(***************************************************************************)
(* Compare                                                                 *)
(***************************************************************************)

\* isComparableTutorialCandidate: what a run of each variant has to look like,
\* beside the knowledge base.
ComparableDefinition(v) ==
    LET own == [BaselineDefinition EXCEPT !.kb = v]
    IN  CASE v = "p1" -> [own EXCEPT !.parser = "structured_json"]
          [] v = "p2" -> [own EXCEPT !.size = TutorialP2ChunkSizeTokens, !.overlap = TutorialP2ChunkOverlapTokens]
          [] v = "p3" -> [own EXCEPT !.contextual = TRUE, !.prompt = "tutorial_contextual_v1"]
          [] v = "p4" -> [BaselineDefinition EXCEPT !.strategy = "sparse", !.reuse = TRUE]
          [] v = "p5" -> [BaselineDefinition EXCEPT !.mode = "multi_query", !.queries = 3, !.reuse = TRUE]
          [] v = "p6" -> [BaselineDefinition EXCEPT !.rerank = TRUE, !.reuse = TRUE]
          [] v = "p7" -> [own EXCEPT !.strategy = "graph", !.graph = TRUE]
          [] v = "p8" -> [BaselineDefinition EXCEPT !.topN = TutorialP8ContextPackTopN, !.reuse = TRUE]
          [] OTHER -> own

\* The columns of a row that are compared: the contextual prompt is none.
Columns == DOMAIN BaselineDefinition \ {"prompt", "kb"}

IsComparableCandidate(row) ==
    /\ row.variant \in DOMAIN Canonical
    /\ \A f \in Columns : row.def[f] = ComparableDefinition(row.variant)[f]
    /\ row.variant = "p3" => row.stats.contexts

\* The base is that of the baseline for p4, p5, p6 and p8, another one for p7.
RightBase(prior, row) ==
    /\ row.variant \in {"p4", "p5", "p6", "p8"} => prior.def.kb = row.def.kb
    /\ row.variant = "p7" => prior.def.kb # row.def.kb

RunsComparable(b, n) ==
    LET prior == expRuns[b]
        row == expRuns[n]
    IN  /\ prior.status = "completed" /\ row.status = "completed"
        /\ prior.variant = "baseline" /\ IsComparableCandidate(row) /\ row.baseline = b
        /\ prior.fingerprint = row.fingerprint /\ prior.env = row.env
        /\ RightBase(prior, row)
        /\ \A f \in Columns : prior.def[f] = BaselineDefinition[f]
        /\ ~prior.stats.contexts /\ prior.stats.chunks /\ row.stats.chunks

-----------------------------------------------------------------------------
\* What an experiment may vary, one factor per chapter.
Factors ==
    {{"parser"}, {"size", "overlap"}, {"contextual"}, {"strategy", "graph"}, {"mode", "queries"}, {"rerank"},
     {"topN", "maxTokens"}}

ChangedFactors(b, n) == {factor \in Factors : \E f \in factor : expRuns[b].def[f] # expRuns[n].def[f]}

\* Two runs that are called comparable differ in one factor: they were indexed
\* and evaluated by processes of one environment, whichever processes ran
\* them, were restarted meanwhile or took over from one another, and exactly
\* one setting of the candidate is not the baseline's; and the indexes they
\* were evaluated on were built in that environment too, unless a process of
\* another one has indexed the same knowledge base, which nothing prevents
\* (runsComparable, runtimeDefinition, matches).
OneFactor ==
    \A b, n \in DOMAIN expRuns : RunsComparable(b, n) =>
        LET both(f) == expRuns[b][f] \cup expRuns[n][f]
        IN  /\ Cardinality(both("indexEnv") \cup both("evalEnv")) = 1
            /\ Cardinality(both("kbEnv")) = 1 => both("kbEnv") = both("evalEnv")
            /\ Cardinality(ChangedFactors(b, n)) = 1

\* The three tables agree: every candidate of a pack that was accepted, once
\* it is completed and its index and its baseline's hold something, is
\* comparable with the baseline it names (ParseManifest, runtimeDefinition,
\* isComparableTutorialCandidate).
CandidateIsComparable ==
    \A n \in DOMAIN expRuns :
        LET row == expRuns[n]
        IN  /\ row.status = "completed" /\ row.variant # "baseline" /\ row.stats.chunks
            /\ expRuns[row.baseline].stats.chunks /\ (row.variant = "p3" => row.stats.contexts)
            => RunsComparable(row.baseline, n)

\* Comparable means that one factor differs, and every candidate that was
\* accepted is comparable: the comparison neither says too much nor too little.
ComparisonIsFair == OneFactor /\ CandidateIsComparable
=============================================================================
