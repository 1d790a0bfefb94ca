----------------------------- MODULE TutorialRun -----------------------------
(***************************************************************************)
(* The live runs of a tutorial experiment: a baseline and candidates that  *)
(* are compared with it, one of which evaluates the baseline's index.      *)
(*                                                                         *)
(* A run is indexed and evaluated by goroutines of several processes; every*)
(* change of the row is an UPDATE with a condition.  A cancellation is two *)
(* such updates, one for a queued and one for a running run.               *)
(***************************************************************************)
EXTENDS Integers, FiniteSets

CONSTANTS
    TutorialRuns,   \* runs: baseline and candidates
    Baselines,      \* the runs of the baseline variant
    ReusesIndex,    \* candidates that evaluate the baseline's knowledge base
    PackDocument,   \* documents of the pack
    RunHost,        \* processes
    RunRoutine,     \* goroutines of the runners
    MaxRunEvents    \* bound of the model: faults, starts and cancellations in all

ASSUME TutorialRunAssumption ==
    /\ Baselines \subseteq TutorialRuns
    /\ ReusesIndex \subseteq TutorialRuns \ Baselines
    /\ MaxRunEvents \in Nat

VARIABLES
    tutorialRun,   \* tutorial_experiment_runs, NoTutorialRun without a row
    indexed,       \* documents ingested into each run's knowledge base
    runRoutine,    \* the goroutines
    cancelRequest, \* runs whose cancellation is between its two updates
    runLost,       \* history: runs that may have no goroutine, since a fault
    runEvents      \* bounded events so far

tutorialRunVars == <<tutorialRun, indexed, runRoutine, cancelRequest, runLost, runEvents>>

-----------------------------------------------------------------------------

ExperimentRunStatus == {"absent", "queued", "running", "completed", "failed", "cancel_requested", "cancelled"}

NoTutorialRun == [status |-> "absent", stage |-> "index", stats |-> FALSE, evaluation |-> FALSE, baseline |-> {}]

IdleRun == [step |-> "idle"]

AcquireStep(h, n) == [step |-> "acquire", host |-> h, run |-> n]

TutorialRunInit ==
    /\ tutorialRun = [n \in TutorialRuns |-> NoTutorialRun]
    /\ indexed = [n \in TutorialRuns |-> {}]
    /\ runRoutine = [r \in RunRoutine |-> IdleRun]
    /\ cancelRequest = {}
    /\ runLost = {}
    /\ runEvents = 0

CountRunEvent == runEvents < MaxRunEvents /\ runEvents' = runEvents + 1

SetRun(n, row) == tutorialRun' = [tutorialRun EXCEPT ![n] = row]

SetRoutine(r, value) == runRoutine' = [runRoutine EXCEPT ![r] = value]

-----------------------------------------------------------------------------
(***************************************************************************)
(* Requests                                                                *)
(***************************************************************************)

CompletedBaseline(b) == tutorialRun[b].status = "completed"

FindCompletedBaseline == {b \in Baselines : CompletedBaseline(b)}

\* The knowledge base that a run evaluates.
KnowledgeBaseOf(n) == IF n \in ReusesIndex /\ tutorialRun[n].baseline # {}
                      THEN CHOOSE b \in tutorialRun[n].baseline : TRUE ELSE n

\* StartVariant: a candidate needs a completed baseline and begins with its
\* statistics; one that reuses the baseline's index starts with the evaluation.
StartVariant(n, h, r) ==
    /\ tutorialRun[n] = NoTutorialRun
    /\ runRoutine[r] = IdleRun
    /\ IF n \in Baselines
       THEN SetRun(n, [NoTutorialRun EXCEPT !.status = "queued"])
       ELSE \E b \in FindCompletedBaseline :
              SetRun(n, [NoTutorialRun EXCEPT
                           !.status = "queued", !.baseline = {b},
                           !.stage = IF n \in ReusesIndex THEN "evaluate" ELSE "index",
                           !.stats = tutorialRun[b].stats])
    /\ \/ SetRoutine(r, AcquireStep(h, n)) /\ UNCHANGED runLost
       \/ runLost' = runLost \cup {n} /\ UNCHANGED runRoutine
    /\ UNCHANGED <<indexed, cancelRequest, runEvents>>

\* CancelExperimentRun's first update.
CancelQueued(n) ==
    /\ tutorialRun[n].status # "absent"
    /\ n \notin cancelRequest
    /\ CountRunEvent
    /\ IF tutorialRun[n].status = "queued"
       THEN /\ SetRun(n, [tutorialRun[n] EXCEPT !.status = "cancelled"])
            /\ UNCHANGED cancelRequest
       ELSE /\ cancelRequest' = cancelRequest \cup {n}
            /\ UNCHANGED tutorialRun
    /\ UNCHANGED <<indexed, runRoutine, runLost>>

\* Its second update: a run that is queued again by now is not found.
CancelRunning(n) ==
    /\ n \in cancelRequest
    /\ cancelRequest' = cancelRequest \ {n}
    /\ IF tutorialRun[n].status = "running"
       THEN SetRun(n, [tutorialRun[n] EXCEPT !.status = "cancel_requested"])
       ELSE UNCHANGED tutorialRun
    /\ UNCHANGED <<indexed, runRoutine, runLost, runEvents>>

-----------------------------------------------------------------------------
(***************************************************************************)
(* Execute                                                                 *)
(***************************************************************************)

At(r, step) == runRoutine[r].step = step

GoTo(r, step) == SetRoutine(r, [runRoutine[r] EXCEPT !.step = step])

AcquireExperimentRun(r) ==
    LET n == runRoutine[r].run
    IN  /\ At(r, "acquire")
        /\ IF tutorialRun[n].status = "queued"
           THEN /\ SetRun(n, [tutorialRun[n] EXCEPT !.status = "running"])
                /\ SetRoutine(r, [step |-> tutorialRun[n].stage, host |-> runRoutine[r].host,
                                  run |-> n, stage |-> tutorialRun[n].stage, left |-> PackDocument])
           ELSE SetRoutine(r, IdleRun) /\ UNCHANGED tutorialRun
        /\ UNCHANGED <<indexed, cancelRequest, runLost, runEvents>>

\* One document of index.
IndexDocument(r, d) ==
    /\ At(r, "index")
    /\ d \in runRoutine[r].left
    /\ indexed' = [indexed EXCEPT ![runRoutine[r].run] = @ \cup {d}]
    /\ SetRoutine(r, [runRoutine[r] EXCEPT !.left = @ \ {d}])
    /\ UNCHANGED <<tutorialRun, cancelRequest, runLost, runEvents>>

\* The condition of the transitions of a running stage.
Held(n, stage) == tutorialRun[n].stage = stage /\ tutorialRun[n].status = "running"

AllIndexed(r) == runRoutine[r].left = {}

\* When the condition of a transition does not hold, the goroutine finishes a
\* cancellation, if one was requested, and returns.
RecordIndexStats(r) ==
    LET n == runRoutine[r].run
    IN  /\ At(r, "index")
        /\ AllIndexed(r)
        /\ IF Held(n, "index")
           THEN SetRun(n, [tutorialRun[n] EXCEPT !.stats = TRUE]) /\ GoTo(r, "advance")
           ELSE GoTo(r, "finish") /\ UNCHANGED tutorialRun
        /\ UNCHANGED <<indexed, cancelRequest, runLost, runEvents>>

AdvanceExperimentRun(r) ==
    LET n == runRoutine[r].run
    IN  /\ At(r, "advance")
        /\ IF Held(n, "index")
           THEN /\ SetRun(n, [tutorialRun[n] EXCEPT !.stage = "evaluate", !.status = "queued"])
                /\ SetRoutine(r, AcquireStep(runRoutine[r].host, n))
           ELSE GoTo(r, "finish") /\ UNCHANGED tutorialRun
        /\ UNCHANGED <<indexed, cancelRequest, runLost, runEvents>>

\* The evaluation and CompleteExperimentRun.
CompleteExperimentRun(r) ==
    LET n == runRoutine[r].run
    IN  /\ At(r, "evaluate")
        /\ IF Held(n, "evaluate")
           THEN /\ SetRun(n, [tutorialRun[n] EXCEPT !.stage = "completed", !.status = "completed", !.evaluation = TRUE])
                /\ SetRoutine(r, IdleRun)
           ELSE GoTo(r, "finish") /\ UNCHANGED tutorialRun
        /\ UNCHANGED <<indexed, cancelRequest, runLost, runEvents>>

\* The definition has changed, an object cannot be read, the ingestion or the
\* evaluation fails, or the statistics cannot be recorded.
WorkFails(r) ==
    /\ runRoutine[r].step \in {"index", "evaluate"}
    /\ CountRunEvent
    /\ GoTo(r, "fail")
    /\ UNCHANGED <<tutorialRun, indexed, cancelRequest, runLost>>

FailExperimentRun(r) ==
    LET n == runRoutine[r].run
    IN  /\ At(r, "fail")
        /\ IF Held(n, runRoutine[r].stage)
           THEN SetRun(n, [tutorialRun[n] EXCEPT !.status = "failed"]) /\ SetRoutine(r, IdleRun)
           ELSE GoTo(r, "finish") /\ UNCHANGED tutorialRun
        /\ UNCHANGED <<indexed, cancelRequest, runLost, runEvents>>

\* MarkExperimentRunCancelled.
MarkCancelledRun(n) ==
    IF tutorialRun[n].status = "cancel_requested"
    THEN SetRun(n, [tutorialRun[n] EXCEPT !.status = "cancelled"])
    ELSE UNCHANGED tutorialRun

finishCancellationIfRequested(r) ==
    /\ At(r, "finish")
    /\ MarkCancelledRun(runRoutine[r].run)
    /\ SetRoutine(r, IdleRun)
    /\ UNCHANGED <<indexed, cancelRequest, runLost, runEvents>>

\* A transition returns an error: Execute returns and the row stays.
ExecuteError(r) ==
    /\ runRoutine[r].step \in {"acquire", "advance", "evaluate", "fail", "finish"}
    /\ CountRunEvent
    /\ runLost' = runLost \cup {runRoutine[r].run}
    /\ SetRoutine(r, IdleRun)
    /\ UNCHANGED <<tutorialRun, indexed, cancelRequest>>

-----------------------------------------------------------------------------
(***************************************************************************)
(* The runner of a process                                                 *)
(***************************************************************************)

Of(h) == {r \in RunRoutine : ~At(r, "idle") /\ runRoutine[r].host = h}

\* Stop, or the end of the process.
StopRunRunner(h) ==
    /\ Of(h) # {}
    /\ CountRunEvent
    /\ runRoutine' = [r \in RunRoutine |-> IF r \in Of(h) THEN IdleRun ELSE runRoutine[r]]
    /\ runLost' = runLost \cup {runRoutine[r].run : r \in Of(h)}
    /\ UNCHANGED <<tutorialRun, indexed, cancelRequest>>

\* Mutant: a requested cancellation is requeued like a running run.
RecoveredToQueue(status) == IF status \in {"running", "cancel_requested"} THEN "queued" ELSE status

\* RecoverExperimentRuns: running runs are requeued, requested cancellations
\* are finished, those of live processes as well.
RecoveredStatus(status) ==
    IF status = "running" THEN "queued" ELSE IF status = "cancel_requested" THEN "cancelled" ELSE status

\* Start: recover everything, then schedule what is queued.  The model starts
\* a runner when it has goroutines for all of it.
StartRunRunner(h) ==
    LET row == [n \in TutorialRuns |-> [tutorialRun[n] EXCEPT !.status = RecoveredStatus(@)]]
        queue == {n \in TutorialRuns : row[n].status = "queued"}
    IN  /\ CountRunEvent
        /\ tutorialRun' = row
        /\ \E place \in [queue -> {r \in RunRoutine : At(r, "idle")}] :
             /\ \A n, p \in queue : n # p => place[n] # place[p]
             /\ runRoutine' = [r \in RunRoutine |->
                                 IF \E n \in queue : place[n] = r
                                 THEN AcquireStep(h, CHOOSE n \in queue : place[n] = r)
                                 ELSE runRoutine[r]]
        /\ runLost' = {}
        /\ UNCHANGED <<indexed, cancelRequest>>

-----------------------------------------------------------------------------

TutorialRunNext ==
    \/ \E n \in TutorialRuns, h \in RunHost, r \in RunRoutine : StartVariant(n, h, r)
    \/ \E n \in TutorialRuns : CancelQueued(n) \/ CancelRunning(n)
    \/ \E r \in RunRoutine :
         \/ AcquireExperimentRun(r) \/ RecordIndexStats(r) \/ AdvanceExperimentRun(r)
         \/ \E d \in PackDocument : IndexDocument(r, d)
         \/ CompleteExperimentRun(r) \/ WorkFails(r) \/ FailExperimentRun(r)
         \/ finishCancellationIfRequested(r) \/ ExecuteError(r)
    \/ \E h \in RunHost : StopRunRunner(h) \/ StartRunRunner(h)

TutorialRunSpec == TutorialRunInit /\ [][TutorialRunNext]_tutorialRunVars

-----------------------------------------------------------------------------
(***************************************************************************)
(* Properties                                                              *)
(***************************************************************************)

\* A run that is evaluated or completed is measured on a whole index: every
\* document of the pack is in the knowledge base it evaluates, its own or the
\* baseline's, and its statistics are recorded.
EvaluatedIsIndexed ==
    \A n \in TutorialRuns :
        tutorialRun[n].stage \in {"evaluate", "completed"} =>
            tutorialRun[n].stats /\ indexed[KnowledgeBaseOf(n)] = PackDocument

\* What a candidate is compared with is a completed run with an evaluation.
CandidateHasBaseline ==
    \A n \in TutorialRuns \ Baselines :
        tutorialRun[n].status # "absent" =>
            \E b \in tutorialRun[n].baseline : tutorialRun[b].status = "completed" /\ tutorialRun[b].evaluation

\* A run whose cancellation was accepted is cancelled and nothing else, through
\* recoveries, goroutines of two processes and results that arrive late.
CancelIsFinal ==
    [][\A n \in TutorialRuns :
          /\ tutorialRun[n].status = "cancelled" => tutorialRun'[n] = tutorialRun[n]
          /\ tutorialRun[n].status = "cancel_requested" =>
                tutorialRun'[n].status \in {"cancel_requested", "cancelled"}]_tutorialRunVars

\* As long as no transition was lost, every unfinished run, a requested
\* cancellation included, has a goroutine that will end it.
RunNotStranded ==
    \A n \in TutorialRuns \ runLost :
        tutorialRun[n].status \in {"queued", "running", "cancel_requested"} =>
            \E r \in RunRoutine :
                /\ ~At(r, "idle") /\ runRoutine[r].run = n
                /\ tutorialRun[n].status = "queued" => At(r, "acquire")
                /\ tutorialRun[n].status = "running" => ~At(r, "finish")

\* A run ends once and measures what it says: a cancellation is final, an
\* evaluation had its index, a candidate its baseline, and no run is left
\* alone (LiveRunService, the conditional updates of its repository).
RunMeasures == CancelIsFinal /\ [](EvaluatedIsIndexed /\ CandidateHasBaseline /\ RunNotStranded)
=============================================================================
