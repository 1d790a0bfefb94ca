------------------------------ MODULE WorkerPool ------------------------------
(***************************************************************************)
(* The worker processes that drain the task queue.  Each worker runs one   *)
(* scheduler per pool and, per leased task, an execution made of three     *)
(* goroutines: the handler, the heartbeat and the cancellation monitor.    *)
(* An execution is identified by its lease token, so a worker that leases  *)
(* a task again after losing it has two executions of the same task.       *)
(*                                                                         *)
(* Steps of one execution are atomic between its calls of the repository.  *)
(* A repository call may also fail with a storage error, a process may     *)
(* crash, and Stop may be called; the number of these is bounded by        *)
(* MaxFaults, the number of operator requests by setting.requests.  The    *)
(* first state chooses a setting, which nothing changes.                   *)
(***************************************************************************)
EXTENDS TaskQueue

CONSTANTS
    Concurrency,   \* PoolConfig.Concurrency of each pool
    Setting,       \* the deployments and conditions to look at, see SettingType
    MaxFaults      \* bound of the model: storage errors, crashes and stops

\* A deployment (the processes, the pools with PoolConfig.CancelOnStop, the
\* tasks that are created and those whose type has a registered handler), which
\* leases may expire (see Expiry), and a bound of the model: the cancellations
\* and manual retries of operators.
SettingType ==
    [workers : SUBSET Worker, cancelOnStop : SUBSET Pool, tasks : SUBSET Task,
     handled : SUBSET Task, expires : {"anytime", "unrenewed", "abandoned"}, requests : Nat]

ASSUME WorkerAssumption == /\ Concurrency \in [Pool -> Nat \ {0}]
                           /\ \A s \in Setting : s \in SettingType
                           /\ MaxFaults \in Nat

VARIABLES
    setting,  \* the setting this behaviour is in
    worker,   \* "up", "stopping" or "down", for each worker
    exec,     \* the executions, by lease token
    faults,   \* storage errors, crashes and stops so far
    requests  \* cancellations and manual retries so far

poolVars == <<setting, worker, exec, faults, requests>>
allVars == <<vars, poolVars>>

\* Where an execution is.  "unhandled": leased, no handler registered.
\* "starting": the goroutine is about to send its first heartbeat.
\* "checking" and "acknowledging" are the two calls of handleCancelledTask,
\* "requesting" and "confirming" those made for a handler's cancelled error.
\* "dropped": leased, but the semaphore had no free slot.
Phase == {"unhandled", "dropped", "starting", "handling", "completing", "failing",
          "requesting", "confirming", "checking", "acknowledging", "over"}

\* What the handler answered; "interrupted" whatever it was, if its context
\* was done by then.
Answer == {"ok", "retryable", "terminal", "cancelled"}
Outcome == Answer \cup {"none", "interrupted"}

Execution == [phase : Phase, ctx : {"live", "done"}, monitor : BOOLEAN, outcome : Outcome]

Fresh(phase) == [phase |-> phase, ctx |-> "live", monitor |-> TRUE, outcome |-> "none"]

\* The statuses Cancel acts on.
Cancellable == Claimable \cup {"leased", "running"}

Executions(w, p) == {k \in DOMAIN exec : k.holder = w /\ PoolOf[k.task] = p}

\* Slots of the semaphore are taken from dispatch to the end of executeTask.
Busy(w, p) == {k \in Executions(w, p) : exec[k].phase \notin {"unhandled", "dropped", "over"}}

\* Mutant: the scheduler asks for a full batch whatever is running.
AllSlots(w, p) == Concurrency[p]

AvailableSlots(w, p) == Concurrency[p] - Cardinality(Busy(w, p))

PoolInit == /\ Init
            /\ setting \in Setting
            /\ worker = [w \in Worker |-> IF w \in setting.workers THEN "up" ELSE "down"]
            /\ exec = [k \in {} |-> Fresh("over")]
            /\ faults = 0
            /\ requests = 0

-----------------------------------------------------------------------------
(***************************************************************************)
(* Clients of the queue, and time                                          *)
(***************************************************************************)

Client(t) == /\ \/ t \in setting.tasks /\ Enqueue(t) /\ UNCHANGED requests
                \/ /\ requests < setting.requests
                   /\ Cancel(t) \/ Retry(t)
                   /\ requests' = requests + 1
             /\ UNCHANGED <<setting, worker, exec, faults>>

\* The context executeTask was given: the scheduler's in CancelOnStop pools,
\* otherwise one that nothing cancels.
ParentDone(k) == worker[k.holder] # "up" /\ PoolOf[k.task] \in setting.cancelOnStop

\* taskCtx.Err() # nil
ContextDone(k) == exec[k].ctx = "done" \/ ParentDone(k)

\* The execution that works under the task's lease, if there still is one.
Working(t) == {k \in DOMAIN exec : k = TokenOf(t) /\ exec[k].phase \notin {"over", "dropped"}}

\* The heartbeat goroutine of the lease's execution is running.
Beating(t) == \E k \in Working(t) : exec[k].phase = "handling" /\ ~ContextDone(k)

\* Leases expire "anytime" (a heartbeat may always come too late), only when
\* "unrenewed" by a running heartbeat goroutine (the interval is a third of the
\* lease by default), or only when "abandoned" by a lost execution.
Expiry(t) == /\ setting.expires = "unrenewed" => ~Beating(t)
             /\ setting.expires = "abandoned" => Working(t) = {}
             /\ LeaseExpires(t)
             /\ UNCHANGED poolVars

Backoff(t) == BecomesReady(t) /\ UNCHANGED poolVars

-----------------------------------------------------------------------------
(***************************************************************************)
(* The scheduler                                                           *)
(***************************************************************************)

\* Lease as many tasks as there are free slots, then start an execution for
\* each: a task without a handler takes no slot, and a task that finds the
\* semaphore full is skipped although it stays leased.  One step: a pool has one
\* scheduler, and what happens between its count and its dispatch frees slots only.
LeaseAndDispatch(w, p) ==
    /\ worker[w] = "up"
    /\ AvailableSlots(w, p) > 0
    /\ Lease(w, p, AvailableSlots(w, p))
    /\ LET new == issued' \ issued
           free == Concurrency[p] - Cardinality(Busy(w, p))
       IN  \E started \in SUBSET {k \in new : k.task \in setting.handled} :
             /\ Cardinality(started) <= free
             /\ \/ started = {k \in new : k.task \in setting.handled}
                \/ Cardinality(started) = free
             /\ exec' = [k \in issued' |->
                           IF k \in started THEN Fresh("starting")
                           ELSE IF k \notin new THEN exec[k]
                           ELSE IF k.task \in setting.handled THEN Fresh("dropped")
                           ELSE Fresh("unhandled")]
    /\ UNCHANGED <<setting, worker, faults, requests>>

-----------------------------------------------------------------------------
(***************************************************************************)
(* One execution                                                           *)
(***************************************************************************)

GoTo(k, phase) == exec' = [exec EXCEPT ![k].phase = phase]

\* The goroutines are gone; what the handler answered is kept as history.
Ended(e) == [Fresh("over") EXCEPT !.outcome = e.outcome]

Finish(k) == exec' = [exec EXCEPT ![k] = Ended(@)]

At(k, phase) == exec[k].phase = phase /\ UNCHANGED <<setting, worker, requests>>

\* A call that the repository refuses with ErrLeaseLost.
Refused(k, statuses) == /\ ~(OwnsLease(k) /\ row[k.task].status \in statuses)
                        /\ UNCHANGED <<vars, faults>>

\* A call that fails in the storage layer and changes nothing.
StorageError == faults < MaxFaults /\ faults' = faults + 1 /\ UNCHANGED vars

\* A call made with a context that is done.
ContextError(done) == done /\ UNCHANGED <<vars, faults>>

\* The scheduler makes this call itself, with its own context.
FailUnhandled(k) ==
    /\ At(k, "unhandled")
    /\ \/ worker[k.holder] = "up" /\ Fail(k, FALSE) /\ UNCHANGED faults
       \/ Refused(k, {"leased", "running"})
       \/ ContextError(worker[k.holder] # "up")
       \/ StorageError
    /\ Finish(k)

\* The first heartbeat moves the task to running before the handler is called.
Start(k) ==
    /\ At(k, "starting")
    /\ \/ ~ParentDone(k) /\ Heartbeat(k) /\ GoTo(k, "handling") /\ UNCHANGED faults
       \/ /\ Refused(k, {"leased", "running"}) \/ ContextError(ParentDone(k)) \/ StorageError
          /\ GoTo(k, "checking")

\* runHeartbeat: a heartbeat that fails cancels the task context.
HeartbeatTick(k) ==
    /\ At(k, "handling")
    /\ ~ContextDone(k)
    /\ \/ Heartbeat(k) /\ UNCHANGED <<exec, faults>>
       \/ /\ Refused(k, {"leased", "running"}) \/ StorageError
          /\ exec' = [exec EXCEPT ![k].ctx = "done"]

\* Mutant: the monitor confirms the cancellation itself.
MonitorAcknowledges(k) ==
    /\ At(k, "handling")
    /\ ~ContextDone(k)
    /\ exec[k].monitor
    /\ MarkCancelled(k)
    /\ exec' = [exec EXCEPT ![k].ctx = "done", ![k].monitor = FALSE]
    /\ UNCHANGED faults

\* monitorCancellation reads the status without comparing the lease token, and
\* gives up at the first storage error.
MonitorTick(k) ==
    /\ At(k, "handling")
    /\ ~ContextDone(k)
    /\ exec[k].monitor
    /\ \/ /\ row[k.task].status = "cancelling"
          /\ exec' = [exec EXCEPT ![k].ctx = "done", ![k].monitor = FALSE]
          /\ UNCHANGED <<vars, faults>>
       \/ StorageError /\ exec' = [exec EXCEPT ![k].monitor = FALSE]

\* Mutant: a cancelled context is only looked at when the handler failed.
AfterHandlerTrustsOk(cancelled, answer) ==
    IF answer = "ok" THEN "completing"
    ELSE IF cancelled THEN "checking"
    ELSE IF answer = "cancelled" THEN "requesting" ELSE "failing"

\* What executeTask does once the handler has returned.
AfterHandler(cancelled, answer) ==
    IF cancelled THEN "checking"
    ELSE IF answer = "ok" THEN "completing"
    ELSE IF answer = "cancelled" THEN "requesting" ELSE "failing"

HandlerReturns(k, answer) ==
    /\ At(k, "handling")
    /\ exec' = [exec EXCEPT ![k].outcome = IF ContextDone(k) THEN "interrupted" ELSE answer,
                            ![k].phase = AfterHandler(ContextDone(k), answer)]
    /\ UNCHANGED <<vars, faults>>

CompleteTask(k) ==
    /\ At(k, "completing")
    /\ \/ ~ParentDone(k) /\ Complete(k) /\ UNCHANGED faults
       \/ Refused(k, {"running"})
       \/ ContextError(ParentDone(k))
       \/ StorageError
    /\ Finish(k)

FailTask(k) ==
    /\ At(k, "failing")
    /\ \/ ~ParentDone(k) /\ Fail(k, exec[k].outcome = "retryable") /\ UNCHANGED faults
       \/ Refused(k, {"leased", "running"})
       \/ ContextError(ParentDone(k))
       \/ StorageError
    /\ Finish(k)

\* A handler that reports a cancellation: Cancel takes the task id only.
RequestCancel(k) ==
    /\ At(k, "requesting")
    /\ \/ /\ ~ParentDone(k)
          /\ Cancel(k.task) \/ (row[k.task].status \notin Cancellable /\ UNCHANGED vars)
          /\ GoTo(k, "confirming")
          /\ UNCHANGED faults
       \/ (ContextError(ParentDone(k)) \/ StorageError) /\ Finish(k)

\* handleCancelledTask after the handler is detached from the stop signal;
\* after a failed first heartbeat it is not.
Detached(k) == exec[k].outcome # "none" \/ ~ParentDone(k)

\* handleCancelledTask: read the task, acknowledge if it is still ours.
CheckCancelled(k) ==
    /\ At(k, "checking")
    /\ \/ /\ IF Detached(k) /\ OwnsLease(k) /\ row[k.task].status = "cancelling"
             THEN GoTo(k, "acknowledging") ELSE Finish(k)
          /\ UNCHANGED <<vars, faults>>
       \/ StorageError /\ Finish(k)

\* The context of the MarkCancelled call.
AcknowledgeDone(k) == IF exec[k].phase = "confirming" THEN ParentDone(k) ELSE ~Detached(k)

Acknowledge(k) ==
    /\ At(k, "acknowledging") \/ At(k, "confirming")
    /\ \/ ~AcknowledgeDone(k) /\ MarkCancelled(k) /\ UNCHANGED faults
       \/ Refused(k, {"cancelling"})
       \/ ContextError(AcknowledgeDone(k))
       \/ StorageError
    /\ Finish(k)

-----------------------------------------------------------------------------
(***************************************************************************)
(* Stop and crash.  A restarted process is another member of Worker.       *)
(***************************************************************************)

Crash(w) ==
    /\ worker[w] # "down"
    /\ faults < MaxFaults
    /\ worker' = [worker EXCEPT ![w] = "down"]
    /\ exec' = [k \in DOMAIN exec |->
                  IF k.holder = w THEN Ended(exec[k]) ELSE exec[k]]
    /\ faults' = faults + 1
    /\ UNCHANGED <<vars, setting, requests>>

\* Stop ends the schedulers and cancels the context of their pools.
Stop(w) ==
    /\ worker[w] = "up"
    /\ faults < MaxFaults
    /\ worker' = [worker EXCEPT ![w] = "stopping"]
    /\ faults' = faults + 1
    /\ UNCHANGED <<vars, setting, exec, requests>>

\* wg.Wait returns when no execution is left.
Stopped(w) ==
    /\ worker[w] = "stopping"
    /\ \A p \in Pool : Busy(w, p) = {}
    /\ worker' = [worker EXCEPT ![w] = "down"]
    /\ UNCHANGED <<vars, setting, exec, faults, requests>>

-----------------------------------------------------------------------------

\* What executeTask does before and after the handler.
Settle(k) == \/ FailUnhandled(k) \/ Start(k) \/ CompleteTask(k) \/ FailTask(k)
             \/ RequestCancel(k) \/ CheckCancelled(k) \/ Acknowledge(k)

ExecutionStep(k) == \/ Settle(k) \/ HeartbeatTick(k) \/ MonitorTick(k)
                    \/ \E answer \in Answer : HandlerReturns(k, answer)

PoolNext == \/ \E t \in Task : Client(t) \/ Expiry(t) \/ Backoff(t)
            \/ \E w \in Worker, p \in Pool : LeaseAndDispatch(w, p)
            \/ \E k \in DOMAIN exec : ExecutionStep(k)
            \/ \E w \in Worker : Crash(w) \/ Stop(w) \/ Stopped(w)

PoolSpec == PoolInit /\ [][PoolNext]_allVars

-----------------------------------------------------------------------------
(***************************************************************************)
(* Fairness: tickers keep ticking in every process that is up, handlers    *)
(* return, and the clock moves.                                            *)
(***************************************************************************)

\* Every call of an execution that is under way ends, and handlers return.
Progress(k) == Settle(k) \/ \E answer \in Answer : HandlerReturns(k, answer)

Token == [task : Task, holder : Worker, generation : 1..MaxGeneration]

Fairness ==
    /\ \A t \in Task : WF_allVars(Expiry(t)) /\ WF_allVars(Backoff(t))
    /\ \A w \in Worker, p \in Pool : WF_allVars(LeaseAndDispatch(w, p))
    /\ \A k \in Token : WF_allVars(k \in DOMAIN exec /\ Progress(k))

FairSpec == PoolSpec /\ Fairness

-----------------------------------------------------------------------------
(***************************************************************************)
(* Properties                                                              *)
(***************************************************************************)

\* An execution whose handler is running under a context that is still live.
LiveHandler(k) == exec[k].phase = "handling" /\ ~ContextDone(k)

\* While heartbeats arrive in time no two handlers with a live context work on the
\* same task or on the same locked resource, in whatever processes and pools.
HandlersExclusive ==
    setting.expires # "anytime" => \A j, k \in DOMAIN exec :
        j # k /\ (j.task = k.task \/ SameResource(j.task, k.task))
            => ~(LiveHandler(j) /\ LiveHandler(k))

\* The scheduler never leases a task it has no slot for.
NoLeaseDropped ==
    /\ \A k \in DOMAIN exec : exec[k].phase # "dropped"
    /\ \A w \in Worker, p \in Pool : Cardinality(Busy(w, p)) <= Concurrency[p]

\* executeTask: a task is succeeded only on the word of the handler of its
\* newest lease, and that handler returned while its context was live.
SuccessIsEarned ==
    \A t \in Task : row[t].status = "succeeded" =>
        \E k \in DOMAIN exec : /\ k.task = t
                               /\ k.generation = row[t].generation
                               /\ exec[k].outcome = "ok"

\* MarkCancelled "is intentionally separate from Cancel so handlers have a
\* chance to release downstream resources first": a cancellation is confirmed
\* when no handler of the lease is running any more.
HandlerStopsFirst ==
    [][\A t \in Task :
         row[t].status = "cancelling" /\ row'[t].status = "cancelled" =>
            \A k \in DOMAIN exec : k = TokenOf(t) => exec[k].phase # "handling"]_allVars

Settled(t) == row[t].status \in Retriable \cup {"absent", "succeeded"}

\* No task is stuck: whatever crashes, stops and storage errors there were,
\* every task ends, as long as one process stays up.
EveryTaskSettles ==
    \A t \in Task : []<>(Settled(t) \/ \A w \in Worker : worker[w] # "up")

\* What runs has its place: no two handlers of one task or resource at a time,
\* and no lease without a slot to run in, although the free slots are counted
\* before Lease and used after it (poolScheduler, executeTask).
ExecutionsFit == HandlersExclusive /\ NoLeaseDropped
=============================================================================
