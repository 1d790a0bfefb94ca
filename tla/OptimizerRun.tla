----------------------------- MODULE OptimizerRun -----------------------------
(***************************************************************************)
(* One optimization run, executed by tasks of the optimizer pool.          *)
(*                                                                         *)
(* The run row and the candidate rows live in PostgreSQL.  An execution    *)
(* keeps its own copies of them (local) and writes whole rows back; every  *)
(* write is fenced by the execution's lease.  The API submits, cancels and *)
(* resumes the run.  A step is one repository call together with the       *)
(* memory work that follows it, so other processes run between a read and  *)
(* the write that uses it.                                                 *)
(***************************************************************************)
EXTENDS WorkerPool

CONSTANTS
    CandidateCount,  \* candidates of the run, in the order they are listed
    MaxScore,        \* bound of the model in each setting: scores are 1..MaxScore[setting]
    Namespaced,      \* candidates whose evaluation registers temp namespaces
    HoldoutSplit,    \* whether the request names a holdout split
    MaxJudgeCalls,   \* Budget.MaxJudgeCalls, 0 for none
    OtherBudget,     \* whether a cost or wall time budget may stop the run
    User,            \* concurrent API callers
    NoTask,          \* the run has no task
    TaskApiUsed,     \* whether operators also cancel and retry the task itself
    MaxCallErrors    \* bound of the model in each setting: storage errors of the handlers

Candidate == 1..CandidateCount
None == 0

ASSUME OptimizerAssumption == /\ CandidateCount \in Nat \ {0}
                              /\ MaxScore \in [Setting -> Nat \ {0}]
                              /\ Namespaced \subseteq Candidate
                              /\ HoldoutSplit \in BOOLEAN
                              /\ OtherBudget \in BOOLEAN
                              /\ TaskApiUsed \in BOOLEAN
                              /\ NoTask \notin Task
                              /\ MaxJudgeCalls \in Nat
                              /\ MaxCallErrors \in [Setting -> Nat]

VARIABLES
    run,     \* the row of optimization_runs
    cand,    \* the rows of optimization_candidates
    local,   \* the state of HandleTask in each execution
    reader,  \* the run each API caller read at the start of Resume
    errors,  \* storage errors of handlers so far
    skewed   \* history: run and candidates were written out of step

runVars == <<run, cand, local, reader, errors, skewed>>
everything == <<allVars, runVars>>

Terminal == {"completed", "canceled", "budget_stopped", "failed"}
Resumable == Terminal \ {"completed"}
RunStatus == Terminal \cup {"absent", "queued", "running", "canceling"}

\* isCandidateComplete
Finished == {"scored", "promoted", "holdout_evaluated", "cleanup_done"}
Partial == {"running", "evaluated", "judged"}
CandidateStatus == Finished \cup Partial \cup {"queued", "failed"}

Run == [status : RunStatus, cancelRequested : BOOLEAN, task : Task \cup {NoTask},
        generation : 0..MaxGeneration, completed : SUBSET Candidate,
        best : Candidate \cup {None}, holdout : Candidate \cup {None}, judgeCalls : Nat]

CandidateRow == [status : CandidateStatus, score : 0..MaxScore[setting], pending : BOOLEAN]

NoRun == [status |-> "absent", cancelRequested |-> FALSE, task |-> NoTask, generation |-> 0,
          completed |-> {}, best |-> None, holdout |-> None, judgeCalls |-> 0]

NoCandidates == [c \in Candidate |-> [status |-> "queued", score |-> 0, pending |-> FALSE]]

\* Where HandleTask is: the repository call it makes next.
Step == {"claim", "load", "cancel", "begin", "list", "check", "stop", "acquire", "evaluate",
         "evaluated", "judged", "merge", "save", "recheck", "score", "scoring", "saveBest",
         "holdout", "gate", "rejected", "heldOut", "promote", "clean", "saveHoldout",
         "pending", "cleanup", "complete", "candidateFailed", "failing", "returned", "answered"}

Local == [step : Step, run : Run, cand : [Candidate -> CandidateRow],
          todo : SUBSET Candidate, holding : BOOLEAN, answer : Answer]

Idle == [step |-> "claim", run |-> NoRun, cand |-> NoCandidates,
         todo |-> {}, holding |-> FALSE, answer |-> "ok"]

\* Every process registers the handler of optimization runs.
RunInit == /\ PoolInit
           /\ setting.handled = Task
           /\ run = NoRun
           /\ cand = NoCandidates
           /\ local = [k \in Token |-> Idle]
           /\ reader = [u \in User |-> NoRun]
           /\ errors = 0
           /\ skewed = FALSE

-----------------------------------------------------------------------------
(***************************************************************************)
(* The API: each operation is one transaction over run, candidates, task   *)
(***************************************************************************)

\* Submit: run, candidates and task are inserted together.
Submit(t) ==
    /\ run.status = "absent"
    /\ t \in setting.tasks /\ Enqueue(t)
    /\ run' = [run EXCEPT !.status = "queued", !.task = t]
    /\ UNCHANGED <<poolVars, cand, local, reader, errors, skewed>>

\* The task statuses with which a cancellation needs no worker.
Immediate == {"queued", "failed_retryable", "leased", "cancelled", "failed_terminal", "dead_letter"}

\* CancelOptimizationRunWithTask: a terminal run is left alone.
CancelWithTask ==
    LET t == run.task
        now == row[t].status \in Immediate
    IN  /\ run.status \in {"queued", "running", "canceling"}
        /\ row' = [row EXCEPT ![t] = IF now THEN Unleased(@, "cancelled")
                                            ELSE [@ EXCEPT !.status = "cancelling"]]
        /\ run' = [run EXCEPT !.status = IF now THEN "canceled" ELSE "canceling",
                              !.cancelRequested = TRUE]

\* Cancel: a run of the task queue always has a task.
CancelRun ==
    /\ requests < setting.requests
    /\ CancelWithTask
    /\ requests' = requests + 1
    /\ UNCHANGED <<issued, failures, setting, worker, exec, faults, cand, local, reader, errors, skewed>>

\* Resume reads the run and prepares its new row in memory.
ReadForResume(u) ==
    /\ reader[u] = NoRun
    /\ run.status \in Resumable
    /\ requests < setting.requests
    /\ reader' = [reader EXCEPT ![u] = run]
    /\ requests' = requests + 1
    /\ UNCHANGED <<vars, setting, worker, exec, faults, run, cand, local, errors, skewed>>

\* Work that left no checkpoint starts over.
Requeued(r, cs) ==
    [c \in Candidate |-> IF cs[c].status \in Partial /\ c \notin r.completed
                         THEN [cs[c] EXCEPT !.status = "queued"] ELSE cs[c]]

\* The best candidate starts the holdout over while it has no result.
Rescored(r, cs) ==
    [c \in Candidate |->
       IF /\ HoldoutSplit /\ c = r.best /\ r.holdout = None
          /\ cs[c].status \in Partial \cup {"holdout_evaluated", "promoted", "cleanup_done"}
       THEN [cs[c] EXCEPT !.status = "scored"] ELSE cs[c]]

\* The checkpoint that was read before is written; best and holdout keep their
\* columns.
Resumed(r, t) ==
    [run EXCEPT !.status = "queued", !.cancelRequested = FALSE, !.task = t, !.generation = 0,
                !.completed = r.completed, !.judgeCalls = r.judgeCalls]

\* The run has moved on since it was read.
Overtaken(r) == <<r.completed, r.best, r.holdout>> # <<run.completed, run.best, run.holdout>>

\* ResumeOptimizationRunWithTask compares the status only.
Resume(u, t) ==
    /\ reader[u] # NoRun
    /\ reader' = [reader EXCEPT ![u] = NoRun]
    /\ \/ /\ run.status = reader[u].status
          /\ t \in setting.tasks /\ Enqueue(t)
          /\ run' = Resumed(reader[u], t)
          /\ cand' = Rescored(reader[u], Requeued(reader[u], cand))
          /\ skewed' = (skewed \/ Overtaken(reader[u]))
       \/ /\ run.status # reader[u].status
          /\ UNCHANGED <<vars, run, cand, skewed>>
    /\ UNCHANGED <<poolVars, local, errors>>

\* The task API does not know the run.
TaskApi(t) ==
    /\ TaskApiUsed
    /\ requests < setting.requests
    /\ Cancel(t) \/ Retry(t)
    /\ requests' = requests + 1
    /\ UNCHANGED <<setting, worker, exec, faults, runVars>>

-----------------------------------------------------------------------------
(***************************************************************************)
(* Repository calls of an execution                                        *)
(***************************************************************************)

\* The handler is at this call, and its context is live.
AtCall(k, s) == /\ exec[k].phase = "handling"
                /\ ~ContextDone(k)
                /\ local[k].step = s
                /\ UNCHANGED <<allVars, reader, errors>>

Handling(k, s) == AtCall(k, s) /\ UNCHANGED skewed

\* The fence of every write.
OwnsRun(k) == /\ run.task = k.task
              /\ run.generation = k.generation
              /\ OwnsLease(k)
              /\ row[k.task].status \in Active
              /\ ~row[k.task].expired

\* Which call follows a failed one: failRun for errors of candidates, scoring,
\* holdout and cleanup; HandleTask's return for the others.
Unfailing == {"load", "cancel", "begin", "list", "check", "stop", "recheck", "complete",
              "failing"}

OnError(s) == CASE s = "claim" -> "answered"
                [] s \in Unfailing -> "returned"
                [] OTHER -> "failing"

Failed(l) == [l EXCEPT !.step = OnError(@), !.answer = "retryable"]

Goto(k, l) == local' = [local EXCEPT ![k] = l]

\* A call the fence refuses: ErrOptimizationOwnershipLost.
Lost(k) == ~OwnsRun(k) /\ Goto(k, Failed(local[k])) /\ UNCHANGED <<run, cand>>

\* UpdateOptimizationRun with the local copy, which becomes l.run.
SaveRun(k, l) == \/ OwnsRun(k) /\ run' = l.run /\ Goto(k, l) /\ UNCHANGED cand
                 \/ Lost(k)

\* UpdateOptimizationCandidate with the local copy in l.cand.
SaveCandidate(k, c, l) ==
    \/ /\ OwnsRun(k)
       /\ cand' = [cand EXCEPT ![c] = l.cand[c]]
       /\ Goto(k, l)
       /\ UNCHANGED run
    \/ Lost(k)

\* A read.
Read(k, l) == Goto(k, l) /\ UNCHANGED <<run, cand>>

Smallest(S) == CHOOSE c \in S : \A d \in S : c <= d

\* compareCandidateScores: the higher score, then the older candidate.
Better(cs, c, d) == cs[c].score > cs[d].score \/ (cs[c].score = cs[d].score /\ c <= d)

BestOf(cs, S) == CHOOSE c \in S : \A d \in S : Better(cs, c, d)

-----------------------------------------------------------------------------
(***************************************************************************)
(* HandleTask and Service.run                                              *)
(***************************************************************************)

\* Mutant: a run that has ended needs no execution, so the task succeeds.
AnswerToEnded(status) == IF status = "canceled" THEN "cancelled" ELSE "ok"

\* What ClaimOptimizationExecution answers for a run that needs no execution.
AnswerTo(status) == CASE status \in {"completed", "budget_stopped"} -> "ok"
                      [] status = "canceled" -> "cancelled"
                      [] OTHER -> "terminal"

\* Mutant: a run left running is not taken over.
StartableNotRunning == {"queued", "canceling"}

\* The run statuses an execution is started for.
Startable == {"queued", "canceling", "running"}

\* Mutant: an execution that takes over starts with an empty checkpoint.
TakenOverAfresh(k) ==
    [run EXCEPT !.generation = k.generation, !.completed = {},
                !.status = IF @ = "running" THEN "queued" ELSE @]

\* A run that was left running is put back first.
TakenOver(k) ==
    [run EXCEPT !.generation = k.generation,
                !.status = IF @ = "running" THEN "queued" ELSE @]

\* ClaimOptimizationExecution; an older or a repeated generation is refused.
\* The two resets are one statement here: a row both would match is rescored.
Claim(k) ==
    /\ Handling(k, "claim")
    /\ LET mine == /\ run.task = k.task
                   /\ OwnsLease(k)
                   /\ row[k.task].status \in {"leased", "running"}
                   /\ ~row[k.task].expired
                   /\ run.generation < k.generation
           answered(a) == /\ Goto(k, [Idle EXCEPT !.step = "answered", !.answer = a])
                          /\ UNCHANGED <<run, cand>>
       IN  \/ /\ mine /\ run.status \in Startable
              /\ run' = TakenOver(k)
              /\ cand' = IF run.status = "running" THEN Requeued(run, Rescored(run, cand)) ELSE cand
              /\ Goto(k, [Idle EXCEPT !.step = "load"])
           \/ mine /\ run.status \in Terminal /\ answered(AnswerTo(run.status))
           \/ /\ ~mine \/ run.status \notin Startable \cup Terminal
              /\ answered("retryable")

Load(k) ==
    /\ Handling(k, "load")
    /\ LET l == [local[k] EXCEPT !.run = run]
       IN  Read(k, IF run.status = "canceling" \/ run.cancelRequested THEN [l EXCEPT !.step = "cancel"]
                   ELSE IF run.status = "queued" THEN [l EXCEPT !.step = "begin"]
                   ELSE Failed(l))

\* CompareAndSwapOptimizationRun and CompareAndSwapOptimizationCandidate find
\* the status that was read, for the owner of the run.
SwapsRun(k, expected) == OwnsRun(k) /\ run.status = expected

SwapsCandidate(k, c, expected) == OwnsRun(k) /\ cand[c].status = expected

\* claimRun: a compare and swap of the status that was read.
ClaimRun(k, s, status, next) ==
    /\ Handling(k, s)
    /\ IF SwapsRun(k, local[k].run.status)
       THEN /\ run' = [local[k].run EXCEPT !.status = status]
            /\ Goto(k, [local[k] EXCEPT !.run.status = status, !.step = next])
       ELSE UNCHANGED run /\ Goto(k, Failed(local[k]))
    /\ UNCHANGED cand

\* What run does after the selection and after the scoring.
AfterScoring(l) == IF HoldoutSplit /\ l.run.best # None /\ l.run.holdout = None
                   THEN "holdout" ELSE "pending"

AfterSelection(l) == IF l.run.best = None THEN "score" ELSE AfterScoring(l)

NextCandidate(l) == IF l.todo = {} THEN AfterSelection(l) ELSE "check"

Advance(l) == [l EXCEPT !.step = NextCandidate(l)]

\* The candidates the checkpoint does not list and that are not finished.
List(k) ==
    /\ Handling(k, "list")
    /\ Read(k, Advance([local[k] EXCEPT !.cand = cand,
                 !.todo = {c \in Candidate : /\ c \notin local[k].run.completed
                                             /\ cand[c].status \notin Finished}]))

\* The loop runs its candidate after the first check, and turns after the second.
GoOn(l) == IF l.step = "check" THEN [l EXCEPT !.step = "acquire"] ELSE Advance(l)

\* shouldStop reads the run over the local copy.
ShouldStop(k, s) ==
    /\ Handling(k, s)
    /\ LET l == [local[k] EXCEPT !.run = run]
           stop(status) == [l EXCEPT !.run.status = status, !.step = "stop"]
           spent == MaxJudgeCalls > 0 /\ run.judgeCalls >= MaxJudgeCalls
       IN  IF run.cancelRequested \/ run.status = "canceling"
           THEN Read(k, stop("canceled"))
           ELSE \/ (spent \/ OtherBudget) /\ Read(k, stop("budget_stopped"))
                \/ ~spent /\ Read(k, GoOn(l))

Check(k) == ShouldStop(k, "check")

Recheck(k) == ShouldStop(k, "recheck")

Stopping(k) == Handling(k, "stop") /\ SaveRun(k, [local[k] EXCEPT !.step = "returned"])

-----------------------------------------------------------------------------
(***************************************************************************)
(* runCandidate, for the selection and for the holdout                     *)
(***************************************************************************)

Current(l) == IF l.holding THEN l.run.best ELSE Smallest(l.todo)

\* claimCandidate: a compare and swap of the status that was listed.
Acquire(k) ==
    /\ Handling(k, "acquire")
    /\ LET l == local[k]
           c == Current(l)
           allowed == IF l.holding THEN {"scored"} ELSE {"queued", "failed"}
       IN  IF l.cand[c].status \in allowed /\ SwapsCandidate(k, c, l.cand[c].status)
           THEN /\ cand' = [cand EXCEPT ![c] = [l.cand[c] EXCEPT !.status = "running"]]
                /\ Goto(k, [l EXCEPT !.cand[c].status = "running", !.step = "evaluate"])
           ELSE UNCHANGED cand /\ Goto(k, Failed(l))
    /\ UNCHANGED run

\* The limiter and the candidate runner; no row changes.
Evaluate(k) ==
    /\ Handling(k, "evaluate")
    /\ LET c == Current(local[k])
       IN  \/ \E s \in 1..MaxScore[setting] :
                Read(k, [local[k] EXCEPT !.step = "evaluated", !.cand[c] =
                           [status |-> "evaluated", score |-> s, pending |-> c \in Namespaced]])
           \/ Read(k, [local[k] EXCEPT !.step = "candidateFailed", !.cand[c].status = "failed"])

Evaluated(k) ==
    /\ Handling(k, "evaluated")
    /\ SaveCandidate(k, Current(local[k]), [local[k] EXCEPT !.step = "judged"])

\* The candidate is judged; the checkpoint grows in memory.
Judged(k) ==
    /\ Handling(k, "judged")
    /\ LET l == local[k]
           c == Current(l)
       IN  SaveCandidate(k, c, [l EXCEPT !.step = "merge", !.cand[c].status = "judged",
                                         !.run.judgeCalls = @ + 1,
                                         !.run.completed = IF l.holding THEN @ ELSE @ \cup {c}])

\* mergeCurrentRunControlState
Merge(k) ==
    /\ Handling(k, "merge")
    /\ LET l == [local[k] EXCEPT !.step = "save"]
       IN  Read(k, IF run.cancelRequested \/ run.status \in {"canceling", "canceled"}
                   THEN [l EXCEPT !.run.status = run.status,
                                  !.run.cancelRequested = run.cancelRequested]
                   ELSE l)

Save(k) ==
    /\ Handling(k, "save")
    /\ LET l == local[k]
       IN  SaveRun(k, IF l.holding THEN [l EXCEPT !.step = "gate"]
                      ELSE [l EXCEPT !.step = "recheck", !.todo = @ \ {Smallest(@)}])

\* The status of the failed candidate is written if it can be.
CandidateFailed(k) ==
    /\ Handling(k, "candidateFailed")
    /\ LET l == Failed(local[k])
       IN  SaveCandidate(k, Current(l), l)

-----------------------------------------------------------------------------
(***************************************************************************)
(* scoreAndPromote, runHoldout, cleanupPendingCandidates, the end          *)
(***************************************************************************)

\* The objective cannot be evaluated, or a gate is asked for without a split.
ScoreFails(k) == Handling(k, "score") /\ Read(k, Failed(local[k]))

Score(k) ==
    /\ Handling(k, "score")
    /\ LET inputs == {c \in Candidate : cand[c].status \notin {"failed", "queued", "running"}}
           l == [local[k] EXCEPT !.cand = cand, !.todo = inputs]
       IN  Read(k, IF inputs = {} THEN [l EXCEPT !.step = "saveBest"]
                   ELSE [l EXCEPT !.step = "scoring", !.run.best = BestOf(cand, inputs)])

\* The candidates are written one by one, the best one first.
Scoring(k) ==
    /\ Handling(k, "scoring")
    /\ LET l == local[k]
           c == BestOf(l.cand, l.todo)
           status == IF c = l.run.best /\ ~HoldoutSplit THEN "promoted" ELSE "scored"
       IN  SaveCandidate(k, c, [l EXCEPT !.cand[c].status = status, !.todo = @ \ {c},
                                         !.step = IF l.todo = {c} THEN "saveBest" ELSE "scoring"])

SaveBest(k) ==
    /\ Handling(k, "saveBest")
    /\ SaveRun(k, [local[k] EXCEPT !.step = AfterScoring(local[k])])

Holdout(k) ==
    /\ Handling(k, "holdout")
    /\ Read(k, [local[k] EXCEPT !.cand = cand, !.holding = TRUE, !.step = "acquire"])

\* The gate is decided in memory.
Gate(k) ==
    /\ Handling(k, "gate")
    /\ \/ Read(k, [local[k] EXCEPT !.run.holdout = local[k].run.best, !.step = "heldOut"])
       \/ Read(k, [local[k] EXCEPT !.step = "rejected"])

Rejected(k) == Handling(k, "rejected") /\ SaveRun(k, Failed(local[k]))

HeldOut(k) ==
    /\ Handling(k, "heldOut")
    /\ LET c == Current(local[k])
       IN  SaveCandidate(k, c, [local[k] EXCEPT !.cand[c].status = "holdout_evaluated",
                                                !.step = "promote"])

Promote(k) ==
    /\ Handling(k, "promote")
    /\ LET c == Current(local[k])
       IN  SaveCandidate(k, c, [local[k] EXCEPT !.cand[c].status = "promoted",
                  !.step = IF local[k].cand[c].pending THEN "clean" ELSE "saveHoldout"])

Cleaned(l, c) == [l EXCEPT !.cand[c].status = "cleanup_done", !.cand[c].pending = FALSE]

Clean(k) ==
    /\ Handling(k, "clean")
    /\ LET c == Current(local[k])
       IN  SaveCandidate(k, c, [Cleaned(local[k], c) EXCEPT !.step = "saveHoldout"])

SaveHoldout(k) ==
    /\ Handling(k, "saveHoldout")
    /\ SaveRun(k, [local[k] EXCEPT !.step = "pending"])

Pending(k) ==
    /\ Handling(k, "pending")
    /\ LET pending == {c \in Candidate : cand[c].pending}
       IN  Read(k, [local[k] EXCEPT !.cand = cand, !.todo = pending,
                                    !.step = IF pending = {} THEN "complete" ELSE "cleanup"])

Cleanup(k) ==
    /\ Handling(k, "cleanup")
    /\ LET c == Smallest(local[k].todo)
       IN  SaveCandidate(k, c, [Cleaned(local[k], c) EXCEPT !.todo = @ \ {c},
                  !.step = IF local[k].todo = {c} THEN "complete" ELSE "cleanup"])

\* The namespaces cannot be deleted: the candidate is not pending any more.
CleanupFails(k) ==
    /\ Handling(k, "clean") \/ Handling(k, "cleanup")
    /\ LET c == IF local[k].step = "clean" THEN Current(local[k]) ELSE Smallest(local[k].todo)
           l == [Failed(local[k]) EXCEPT !.cand[c].pending = FALSE]
       IN  SaveCandidate(k, c, l)

CompleteRun(k) ==
    /\ Handling(k, "complete")
    /\ SaveRun(k, [local[k] EXCEPT !.run.status = "completed", !.step = "returned"])

\* The best candidate, or the one of the holdout, is known to this execution only.
OnlyInMemory(l) == \/ run.best = None /\ l.run.best # None
                   \/ run.holdout = None /\ l.run.holdout # None

\* failRun ignores the result of its write.
FailRun(k) ==
    /\ AtCall(k, "failing")
    /\ SaveRun(k, [local[k] EXCEPT !.run.status = "failed", !.step = "returned"])
    /\ skewed' = (skewed \/ (OwnsRun(k) /\ OnlyInMemory(local[k])))

\* A call fails in the storage layer.
CallFails(k) ==
    /\ exec[k].phase = "handling"
    /\ ~ContextDone(k)
    /\ local[k].step \notin {"evaluate", "gate", "returned", "answered"}
    /\ errors < MaxCallErrors[setting]
    /\ errors' = errors + 1
    /\ Goto(k, Failed(local[k]))
    /\ UNCHANGED <<allVars, run, cand, reader, skewed>>

-----------------------------------------------------------------------------
(***************************************************************************)
(* The end of HandleTask                                                   *)
(***************************************************************************)

\* The run is read again to classify the result.
Returned(k) ==
    /\ Handling(k, "returned")
    /\ LET ok == local[k].answer = "ok"
           answer == CASE ok /\ run.status = "canceled" -> "cancelled"
                       [] ~ok /\ run.status = "failed" -> "terminal"
                       [] OTHER -> local[k].answer
       IN  Read(k, [Idle EXCEPT !.step = "answered", !.answer = answer])

\* cleanupPendingCandidates stops at the first candidate, none or one of the pending,
\* whose namespaces cannot be deleted.
CleanedUpTo(f) ==
    [c \in Candidate |->
       CASE cand[c].pending /\ (f = None \/ c < f) ->
              [cand[c] EXCEPT !.status = "cleanup_done", !.pending = FALSE]
         [] c = f -> [cand[c] EXCEPT !.pending = FALSE]
         [] OTHER -> cand[c]]

\* A done context fails every call that is left; finalizeTaskCancellation runs
\* on a context of its own and ignores what the cleanup answers.  The fence makes
\* its read and writes one step.
Interrupted(k) ==
    /\ exec[k].phase = "handling"
    /\ ContextDone(k)
    /\ local[k].step # "answered"
    /\ IF /\ local[k].step # "claim" /\ OwnsRun(k)
          /\ run.status = "canceling" \/ run.cancelRequested
       THEN /\ run' = [run EXCEPT !.status = "canceled"]
            /\ \E f \in {None} \cup {c \in Candidate : cand[c].pending} : cand' = CleanedUpTo(f)
       ELSE UNCHANGED <<run, cand>>
    /\ Goto(k, [Idle EXCEPT !.step = "answered", !.answer = "retryable"])
    /\ UNCHANGED <<allVars, reader, errors, skewed>>

Answered(k) ==
    /\ local[k].step = "answered"
    /\ HandlerReturns(k, local[k].answer)
    /\ Goto(k, Idle)
    /\ UNCHANGED <<run, cand, reader, errors, skewed>>

\* A crash also ends the handlers of the worker.
CrashHandlers(w) ==
    /\ Crash(w)
    /\ local' = [k \in Token |-> IF k.holder = w THEN Idle ELSE local[k]]
    /\ UNCHANGED <<run, cand, reader, errors, skewed>>

-----------------------------------------------------------------------------

CandidateStep(k) == \/ Acquire(k) \/ Evaluate(k) \/ Evaluated(k) \/ Judged(k) \/ Merge(k)
                    \/ Save(k) \/ CandidateFailed(k)

HoldoutStep(k) == \/ Holdout(k) \/ Gate(k) \/ Rejected(k) \/ HeldOut(k) \/ Promote(k)
                  \/ Clean(k) \/ SaveHoldout(k)

HandlerStep(k) ==
    \/ Claim(k) \/ Load(k)
    \/ ClaimRun(k, "cancel", "canceled", "returned") \/ ClaimRun(k, "begin", "running", "list")
    \/ List(k) \/ Check(k) \/ Recheck(k) \/ Stopping(k)
    \/ CandidateStep(k) \/ Score(k) \/ ScoreFails(k) \/ Scoring(k) \/ SaveBest(k) \/ HoldoutStep(k)
    \/ Pending(k) \/ Cleanup(k) \/ CleanupFails(k) \/ CompleteRun(k) \/ FailRun(k)
    \/ CallFails(k) \/ Returned(k) \/ Interrupted(k) \/ Answered(k)

Queue == \/ \E t \in Task : Expiry(t) \/ Backoff(t)
         \/ \E w \in Worker, p \in Pool : LeaseAndDispatch(w, p)
         \/ \E k \in DOMAIN exec : Settle(k) \/ HeartbeatTick(k) \/ MonitorTick(k)
         \/ \E w \in Worker : Stop(w) \/ Stopped(w)

RunNext == \/ \E t \in Task : Submit(t) \/ TaskApi(t)
           \/ CancelRun
           \/ \E u \in User : ReadForResume(u) \/ \E t \in Task : Resume(u, t)
           \/ \E k \in DOMAIN exec : HandlerStep(k)
           \/ \E w \in Worker : CrashHandlers(w)
           \/ Queue /\ UNCHANGED runVars

RunSpec == RunInit /\ [][RunNext]_everything

\* Handlers and the worker pool keep going, as in FairSpec.
RunFairness ==
    /\ \A t \in Task : /\ WF_everything(Expiry(t) /\ UNCHANGED runVars)
                      /\ WF_everything(Backoff(t) /\ UNCHANGED runVars)
    /\ \A w \in Worker, p \in Pool :
         WF_everything(LeaseAndDispatch(w, p) /\ UNCHANGED runVars)
    /\ \A k \in Token : /\ WF_everything(k \in DOMAIN exec /\ Settle(k) /\ UNCHANGED runVars)
                       /\ WF_everything(k \in DOMAIN exec /\ HandlerStep(k))

FairRunSpec == RunSpec /\ RunFairness

-----------------------------------------------------------------------------
(***************************************************************************)
(* Properties                                                              *)
(***************************************************************************)

\* A completed run is complete: every candidate is scored, the best one is
\* promoted, on the word of the holdout if there is one, and nothing is left to
\* clean up.
CompletedRunIsWhole ==
    run.status = "completed" =>
        /\ run.best # None
        /\ cand[run.best].status \in {"promoted", "cleanup_done"}
        /\ HoldoutSplit => run.holdout = run.best
        /\ \A c \in Candidate : cand[c].status \in Finished /\ ~cand[c].pending

\* A caller carries out the Resume it prepared before the run moved on.
StaleResume == \E u \in User : reader[u] # NoRun /\ reader'[u] = NoRun /\ Overtaken(reader[u])

\* The checkpoint under take-overs, cancellations, resumptions and failing calls.
\* Only a Resume that was prepared before the run moved on takes a candidate out of
\* it (ResumeOptimizationRunWithTask compares nothing but the status).  A candidate
\* in it is evaluated again only as the best one, on the holdout split.  A run that
\* completes is whole unless it is skewed: failRun wrote a best or holdout candidate
\* ahead of the rows of the candidates, whose steps the next execution then skips,
\* or such a Resume took the best candidate back.  So "completed checkpoint entries
\* are exactly-once with respect to optimizer scheduling" holds of executions and
\* fails of these two writes.
CompletionIsExact ==
    [][/\ run.completed \subseteq run'.completed \/ StaleResume
       /\ \A c \in run.completed :
            cand[c].status # "running" /\ cand'[c].status = "running" =>
                HoldoutSplit /\ c = run.best
       /\ CompletedRunIsWhole' \/ skewed']_everything

\* A task ends the way its run does, whoever executed the run, resumed or cancelled
\* it: it succeeds only for a run that ended by itself and fails terminally only for
\* a failed one (HandleTask, Resume, Cancel).
TaskTellsRun ==
    run.task # NoTask =>
        /\ row[run.task].status = "succeeded" => run.status \in {"completed", "budget_stopped"}
        /\ row[run.task].status = "failed_terminal" => run.status = "failed"

\* The worker persists "the canceled checkpoint, and then acknowledges task
\* cancellation": no run is left alive by a cancelled task.
NoOrphanedRun ==
    run.task # NoTask /\ row[run.task].status = "cancelled" => run.status \in Terminal

\* A crash is recovered "without calling resume": the run ends as long as one
\* process stays up.
RunEnds ==
    [](run.status # "absent" =>
         <>(run.status \in Terminal \/ \A w \in Worker : worker[w] # "up"))
=============================================================================
