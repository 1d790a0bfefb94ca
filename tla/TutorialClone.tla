---------------------------- MODULE TutorialClone ----------------------------
(***************************************************************************)
(* A tutorial clone: a durable job that walks through stages, each with an *)
(* effect on another store and a compare-and-swap of the stage afterwards. *)
(*                                                                         *)
(* Goroutines of several processes may run the same job: RecoverPending at *)
(* the start of one process requeues what another one is running.  A call  *)
(* that fails, a process that ends and a request that dies before it       *)
(* schedules the job leave it to the next start.                           *)
(***************************************************************************)
EXTENDS Integers

CONSTANTS
    PackObject,     \* objects of the pack
    CloneHost,      \* processes
    CloneRoutine,   \* goroutines of the clone runners
    RetryRequest,   \* retry requests in flight
    MaxCloneEvents  \* bound of the model: faults, starts and retries in all

ASSUME CloneAssumption == MaxCloneEvents \in Nat

VARIABLES
    cloneJob,     \* tutorial_clone_jobs: stage and status, NoJob without a row
    tutorial,     \* the project and the tutorial_experiments row
    stored,       \* verified objects in the private store
    cloneRoutine, \* the goroutines
    retryRequest, \* the retry requests
    cloneLost,    \* history: the job may have no goroutine, since a fault
    cloneEvents   \* bounded events so far

cloneVars == <<cloneJob, tutorial, stored, cloneRoutine, retryRequest, cloneLost, cloneEvents>>

-----------------------------------------------------------------------------

CloneStage == <<"create_project", "validate_manifest", "download_pack", "verify_pack",
                "write_private_store", "create_runtime_resources", "pack_installed">>

StageNumber(stage) == CHOOSE n \in DOMAIN CloneStage : CloneStage[n] = stage

NoJob == [stage |-> "create_project", status |-> "absent"]

IdleRoutine == [step |-> "idle"]

\* A goroutine of Run before its first Acquire.
Scheduled(h) == [step |-> "acquire", host |-> h]

CloneInit ==
    /\ cloneJob = NoJob
    /\ tutorial = [project |-> FALSE, pack |-> "absent", runtime |-> "absent"]
    /\ stored = {}
    /\ cloneRoutine = [r \in CloneRoutine |-> IdleRoutine]
    /\ retryRequest = [q \in RetryRequest |-> "idle"]
    /\ cloneLost = FALSE
    /\ cloneEvents = 0

CountCloneEvent == cloneEvents < MaxCloneEvents /\ cloneEvents' = cloneEvents + 1

Routine(r, value) == cloneRoutine' = [cloneRoutine EXCEPT ![r] = value]

-----------------------------------------------------------------------------
(***************************************************************************)
(* Requests                                                                *)
(***************************************************************************)

\* Schedule follows the request's transaction, unless the process ends or the
\* runner stops in between.
Schedule(h, r) ==
    \/ Routine(r, Scheduled(h)) /\ UNCHANGED cloneLost
    \/ cloneLost' = TRUE /\ UNCHANGED cloneRoutine

\* createTutorialClone: CreateOrGet inserts the job; a duplicate is answered
\* with the job and schedules nothing.
StartClone(h, r) ==
    /\ cloneJob = NoJob
    /\ cloneRoutine[r] = IdleRoutine
    /\ cloneJob' = [NoJob EXCEPT !.status = "queued"]
    /\ Schedule(h, r)
    /\ UNCHANGED <<tutorial, stored, retryRequest, cloneEvents>>

\* The objects are downloaded again before they are written.
resumeStage(stage) ==
    IF stage \in {"download_pack", "verify_pack", "write_private_store"}
    THEN "download_pack" ELSE stage

\* Retry reads the failed job and chooses the stage to resume from.
ReadForRetry(q) ==
    /\ retryRequest[q] = "idle"
    /\ cloneJob.status = "failed"
    /\ CountCloneEvent
    /\ retryRequest' = [retryRequest EXCEPT ![q] = resumeStage(cloneJob.stage)]
    /\ UNCHANGED <<cloneJob, tutorial, stored, cloneRoutine, cloneLost>>

Retriable == cloneJob.status = "failed"

\* The UPDATE asks for the status only; the stage is the one read before.
RetryClone(q, h, r) ==
    /\ retryRequest[q] # "idle"
    /\ retryRequest' = [retryRequest EXCEPT ![q] = "idle"]
    /\ IF Retriable
       THEN /\ cloneRoutine[r] = IdleRoutine
            /\ cloneJob' = [stage |-> retryRequest[q], status |-> "queued"]
            /\ Schedule(h, r)
       ELSE UNCHANGED <<cloneJob, cloneRoutine, cloneLost>>
    /\ UNCHANGED <<tutorial, stored, cloneEvents>>

-----------------------------------------------------------------------------
(***************************************************************************)
(* Run                                                                     *)
(***************************************************************************)

\* Acquire: queued to running.  Whoever finds the job otherwise returns.
AcquireClone(r) ==
    /\ cloneRoutine[r].step = "acquire"
    /\ IF cloneJob.status = "queued"
       THEN /\ cloneJob' = [cloneJob EXCEPT !.status = "running"]
            /\ Routine(r, [step |-> "work", host |-> cloneRoutine[r].host,
                           stage |-> cloneJob.stage, left |-> PackObject])
       ELSE /\ Routine(r, IdleRoutine)
            /\ UNCHANGED cloneJob
    /\ UNCHANGED <<tutorial, stored, retryRequest, cloneLost, cloneEvents>>

Works(r, stage) == cloneRoutine[r].step = "work" /\ cloneRoutine[r].stage = stage

Worked(r, step) == Routine(r, [cloneRoutine[r] EXCEPT !.step = step])

\* The project is created unless it exists.
EnsureProject(r) ==
    /\ Works(r, "create_project")
    /\ tutorial' = [tutorial EXCEPT !.project = TRUE]
    /\ Worked(r, "experiment")
    /\ UNCHANGED <<cloneJob, stored, retryRequest, cloneLost, cloneEvents>>

\* EnsureExperiment: ON CONFLICT DO NOTHING.
EnsureExperiment(r) ==
    /\ cloneRoutine[r].step = "experiment"
    /\ tutorial' = IF tutorial.pack # "absent" THEN tutorial
                   ELSE [tutorial EXCEPT !.pack = "installing", !.runtime = "pending"]
    /\ Worked(r, "advance")
    /\ UNCHANGED <<cloneJob, stored, retryRequest, cloneLost, cloneEvents>>

\* The manifest is read, the objects are fetched into temporary files and
\* removed: nothing outside the goroutine changes.
FetchManifest(r) ==
    /\ \/ Works(r, "validate_manifest")
       \/ Works(r, "download_pack")
       \/ Works(r, "verify_pack")
    /\ Worked(r, "advance")
    /\ UNCHANGED <<cloneJob, tutorial, stored, retryRequest, cloneLost, cloneEvents>>

\* One object of installVerified.
PutVerified(r, o) ==
    /\ Works(r, "write_private_store")
    /\ o \in cloneRoutine[r].left
    /\ stored' = stored \cup {o}
    /\ Routine(r, [cloneRoutine[r] EXCEPT !.left = @ \ {o}])
    /\ UNCHANGED <<cloneJob, tutorial, retryRequest, cloneLost, cloneEvents>>

InstallEnds(r) ==
    /\ Works(r, "write_private_store")
    /\ cloneRoutine[r].left = {}
    /\ Worked(r, "advance")
    /\ UNCHANGED <<cloneJob, tutorial, stored, retryRequest, cloneLost, cloneEvents>>

\* The order of the two updates of the experiment, SetExperimentRuntime and
\* SetExperimentStatus.
ExperimentUpdates == <<"runtime", "status">>

\* The runtime is unavailable where the template or its tier supports none,
\* the manifest declares none, or the process has no initializer of resources;
\* Ensure answers ready.
RuntimeStatuses == {"ready", "runtime_unavailable"}

Updated(update) ==
    IF update = "runtime" THEN {[tutorial EXCEPT !.runtime = status] : status \in RuntimeStatuses}
    ELSE {[tutorial EXCEPT !.pack = "installed"]}

\* runtime.Ensure and the first update.  The visual assets are prepared and
\* the knowledge bases and the dataset get or create under fixed identifiers.
CreateResources(r) ==
    /\ Works(r, "create_runtime_resources")
    /\ IF tutorial.pack = "absent"
       THEN Worked(r, "fail") /\ UNCHANGED tutorial
       ELSE Worked(r, "status") /\ tutorial' \in Updated(ExperimentUpdates[1])
    /\ UNCHANGED <<cloneJob, stored, retryRequest, cloneLost, cloneEvents>>

SetExperimentStatus(r) ==
    /\ cloneRoutine[r].step = "status"
    /\ tutorial' \in Updated(ExperimentUpdates[2])
    /\ Worked(r, "advance")
    /\ UNCHANGED <<cloneJob, stored, retryRequest, cloneLost, cloneEvents>>

\* Mutant: the goroutine keeps the job for its next stage.
StatusKept(next) == IF next = "pack_installed" THEN "completed" ELSE "running"

StatusOf(next) == IF next = "pack_installed" THEN "completed" ELSE "queued"

\* The condition of Advance and of Fail.
Owned(stage) == cloneJob.stage = stage /\ cloneJob.status = "running"

\* Advance: the next stage is queued, the last one completes the job.  Who
\* loses the comparison returns, who wins it acquires the next stage.
AdvanceClone(r) ==
    LET stage == cloneRoutine[r].stage
        next == CloneStage[StageNumber(stage) + 1]
    IN  /\ cloneRoutine[r].step = "advance"
        /\ cloneJob' = IF Owned(stage)
                       THEN [stage |-> next, status |-> StatusOf(next)]
                       ELSE cloneJob
        /\ Routine(r, IF Owned(stage) /\ next # "pack_installed"
                      THEN Scheduled(cloneRoutine[r].host) ELSE IdleRoutine)
        /\ UNCHANGED <<tutorial, stored, retryRequest, cloneLost, cloneEvents>>

\* An error of any step of a stage ends in fail, which changes the job only
\* when the comparison holds.
StageError(r) ==
    /\ cloneRoutine[r].step \in {"work", "experiment", "status"}
    /\ cloneRoutine[r].stage # "verify_pack"
    /\ CountCloneEvent
    /\ Worked(r, "fail")
    /\ UNCHANGED <<cloneJob, tutorial, stored, retryRequest, cloneLost>>

FailClone(r) ==
    /\ cloneRoutine[r].step = "fail"
    /\ cloneJob' = IF Owned(cloneRoutine[r].stage) THEN [cloneJob EXCEPT !.status = "failed"] ELSE cloneJob
    /\ Routine(r, IdleRoutine)
    /\ UNCHANGED <<tutorial, stored, retryRequest, cloneLost, cloneEvents>>

\* Acquire, Advance or Fail returns an error: Run returns, and the job keeps
\* the status it has.
TransitionError(r) ==
    /\ cloneRoutine[r].step \in {"acquire", "advance", "fail"}
    /\ CountCloneEvent
    /\ Routine(r, IdleRoutine)
    /\ cloneLost' = TRUE
    /\ UNCHANGED <<cloneJob, tutorial, stored, retryRequest>>

-----------------------------------------------------------------------------
(***************************************************************************)
(* The runner of a process                                                 *)
(***************************************************************************)

\* Stop cancels the context, every call of the goroutines fails and so does
\* their Fail; a crash looks the same.
StopRunner(h) ==
    /\ CountCloneEvent
    /\ \E r \in CloneRoutine : cloneRoutine[r] # IdleRoutine /\ cloneRoutine[r].host = h
    /\ cloneRoutine' = [r \in CloneRoutine |->
                          IF cloneRoutine[r] # IdleRoutine /\ cloneRoutine[r].host = h
                          THEN IdleRoutine ELSE cloneRoutine[r]]
    /\ cloneLost' = TRUE
    /\ UNCHANGED <<cloneJob, tutorial, stored, retryRequest>>

\* RecoverPending requeues the running job, of whatever process.
Recovered(status) == IF status = "running" THEN "queued" ELSE status

\* Start: recover, then schedule what is queued.
StartRunner(h, r) ==
    /\ CountCloneEvent
    /\ cloneRoutine[r] = IdleRoutine
    /\ cloneJob.status \in {"queued", "running"}
    /\ cloneJob' = [cloneJob EXCEPT !.status = Recovered(@)]
    /\ Routine(r, Scheduled(h))
    /\ cloneLost' = FALSE
    /\ UNCHANGED <<tutorial, stored, retryRequest>>

-----------------------------------------------------------------------------

CloneNext ==
    \/ \E h \in CloneHost, r \in CloneRoutine :
         \/ StartClone(h, r) \/ StartRunner(h, r)
         \/ \E q \in RetryRequest : RetryClone(q, h, r)
    \/ \E q \in RetryRequest : ReadForRetry(q)
    \/ \E r \in CloneRoutine :
         \/ AcquireClone(r) \/ EnsureProject(r) \/ EnsureExperiment(r) \/ FetchManifest(r)
         \/ \E o \in PackObject : PutVerified(r, o)
         \/ InstallEnds(r) \/ CreateResources(r) \/ SetExperimentStatus(r)
         \/ AdvanceClone(r) \/ StageError(r) \/ FailClone(r) \/ TransitionError(r)
    \/ \E h \in CloneHost : StopRunner(h)

CloneSpec == CloneInit /\ [][CloneNext]_cloneVars

-----------------------------------------------------------------------------
(***************************************************************************)
(* Properties                                                              *)
(***************************************************************************)

\* A job is past a stage only when the effect of the stage exists: the
\* project and the experiment, then every object of the pack, whatever was
\* recovered, retried from an old reading, or run twice at a time.
StageEarned ==
    LET n == StageNumber(cloneJob.stage)
    IN  /\ n > StageNumber("create_project") => tutorial.project /\ tutorial.pack # "absent"
        /\ n > StageNumber("write_private_store") => stored = PackObject

\* An experiment that is shown as installed has every object in the private
\* store, and whether it can be run is decided: its runtime is ready or
\* unavailable, and never pending again.
InstalledIsWhole == tutorial.pack = "installed" => tutorial.runtime \in RuntimeStatuses /\ stored = PackObject

\* As long as no transition was lost, a job that is neither completed nor
\* failed has a goroutine that will take it further, even when processes take
\* it over from each other.
CloneNotStranded ==
    cloneJob.status \in {"queued", "running"} /\ ~cloneLost =>
        \E r \in CloneRoutine :
            \/ cloneRoutine[r].step = "acquire"
            \/ cloneRoutine[r].step # "idle" /\ cloneJob.status = "running" /\ cloneRoutine[r].stage = cloneJob.stage

\* A clone goes on by what was done: through recoveries, retries and two
\* goroutines at work no stage is skipped, no pack is shown as installed
\* without its objects and a decided runtime, and no job is left alone
\* (CloneService.Run, RecoverPending).
CloneIsEarned == StageEarned /\ InstalledIsWhole /\ CloneNotStranded
=============================================================================
