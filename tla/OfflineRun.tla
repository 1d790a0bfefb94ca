------------------------------ MODULE OfflineRun ------------------------------
(***************************************************************************)
(* Runs of the offline knowledge organizer: created by the API, executed by*)
(* the API or by the schedulers of several processes, one per window and   *)
(* configuration.                                                          *)
(*                                                                         *)
(* An execution is a process with one step per repository call that other  *)
(* executions can meet.  The history, the replay, the analysis and the     *)
(* validation of a cluster are computations: they fail, or they give the   *)
(* clusters of the window and an answer of each.                           *)
(***************************************************************************)
EXTENDS Integers

CONSTANTS
    Window,        \* tenant, base, window and configuration: the key of a run
    Question,      \* question clusters
    QuestionsOf,   \* the clusters that the history of each window gives
    Answer,        \* what an analysis may answer
    Server,        \* processes with a scheduler each
    Execution,     \* executions in flight
    MaxExecutions  \* bound of the model: executions begun in all

ASSUME OfflineRunAssumption ==
    /\ QuestionsOf \in [Window -> SUBSET Question]
    /\ MaxExecutions \in Nat

VARIABLES
    offlineRun,   \* offline_knowledge_runs: the status, "absent" without a row
    storedItems,  \* optimization_items by what their identifier is made of
    execution,    \* the executions in flight
    inFlight,     \* the keys each scheduler is working on
    executed      \* history: how often RunOnce executed each window

offlineRunVars == <<offlineRun, storedItems, execution, inFlight, executed>>

-----------------------------------------------------------------------------

NoExecution == [step |-> "idle"]

\* An execution on server s: by is "schedule" for Trigger's RunOnce and "api"
\* for the handlers.
NewExecution(s, w, by, step) ==
    [step |-> step, server |-> s, window |-> w, by |-> by, left |-> QuestionsOf[w]]

OfflineRunInit ==
    /\ offlineRun = [w \in Window |-> "absent"]
    /\ storedItems = {}
    /\ execution = [x \in Execution |-> NoExecution]
    /\ inFlight = [s \in Server |-> {}]
    /\ executed = [w \in Window |-> 0]

\* The scheduler forgets the key when its RunOnce returns.
releaseRun(x) ==
    inFlight' = IF execution[x].by = "schedule"
                THEN [inFlight EXCEPT ![execution[x].server] = @ \ {execution[x].window}]
                ELSE inFlight

Proceed(x, e) == execution' = [execution EXCEPT ![x] = e]

Return(x) == Proceed(x, NoExecution) /\ releaseRun(x)

-----------------------------------------------------------------------------

acquireRun(s, w) == w \notin inFlight[s]

\* Trigger: a window that this scheduler is working on is skipped.
Trigger(x, s, w) ==
    /\ execution[x].step = "idle"
    /\ acquireRun(s, w)
    /\ inFlight' = [inFlight EXCEPT ![s] = @ \cup {w}]
    /\ Proceed(x, NewExecution(s, w, "schedule", "list"))
    /\ UNCHANGED <<offlineRun, storedItems, executed>>

\* createOfflineKnowledgeRun: CreateRun without an execution.
CreateByAPI(x, s, w) ==
    /\ execution[x].step = "idle"
    /\ Proceed(x, NewExecution(s, w, "api", "list"))
    /\ UNCHANGED <<offlineRun, storedItems, inFlight, executed>>

\* CreateRun's first ListRuns: an existing run is the answer.
ListRuns(x) ==
    /\ execution[x].step = "list"
    /\ IF offlineRun[execution[x].window] # "absent"
       THEN Return(x)
       ELSE Proceed(x, [execution[x] EXCEPT !.step = "insert"]) /\ UNCHANGED inFlight
    /\ UNCHANGED <<offlineRun, storedItems, executed>>

\* The unique index on tenant, base, window and configuration.
Inserted(w) == offlineRun[w] = "absent"

\* The INSERT; on a conflict the run of the other caller is the answer.  The
\* API stops here, RunOnce goes on to execute.
CreateRun(x) ==
    LET w == execution[x].window
    IN  /\ execution[x].step = "insert"
        /\ offlineRun' = IF Inserted(w) THEN [offlineRun EXCEPT ![w] = "pending"] ELSE offlineRun
        /\ IF Inserted(w) /\ execution[x].by = "schedule"
           THEN /\ executed[w] < MaxExecutions
                /\ Proceed(x, [execution[x] EXCEPT !.step = "start"])
                /\ executed' = [executed EXCEPT ![w] = @ + 1]
                /\ UNCHANGED inFlight
           ELSE Return(x) /\ UNCHANGED executed
        /\ UNCHANGED storedItems

\* ExecuteRun: the status is read here and not looked at again.
ExecuteRun(x, s, w) ==
    /\ execution[x].step = "idle"
    /\ offlineRun[w] \in {"pending", "failed"}
    /\ Proceed(x, NewExecution(s, w, "api", "start"))
    /\ UNCHANGED <<offlineRun, storedItems, inFlight, executed>>

\* executeRun's first UpdateRun.
StartRun(x) ==
    /\ execution[x].step = "start"
    /\ offlineRun' = [offlineRun EXCEPT ![execution[x].window] = "running"]
    /\ Proceed(x, [execution[x] EXCEPT !.step = "process"])
    /\ UNCHANGED <<storedItems, inFlight, executed>>

\* failRun: its UpdateRun has no condition either.
failRun(x) ==
    /\ execution[x].step = "fail"
    /\ offlineRun' = [offlineRun EXCEPT ![execution[x].window] = "failed"]
    /\ Return(x)
    /\ UNCHANGED <<storedItems, executed>>

\* Mutant: a cluster that fails is skipped.
SkipsCluster(x, q) == [execution[x] EXCEPT !.left = @ \ {q}]

\* After an error of the cluster the whole run fails.
AfterClusterError(x, q) == [execution[x] EXCEPT !.step = "fail"]

\* ProcessCluster: the cluster is upserted, replayed, analysed and validated;
\* the INSERT of the item fails when the same answer was stored before.
ProcessCluster(x, q, a) ==
    /\ execution[x].step = "process"
    /\ q \in execution[x].left
    /\ IF <<q, a>> \in storedItems
       THEN /\ Proceed(x, AfterClusterError(x, q))
            /\ UNCHANGED storedItems
       ELSE /\ Proceed(x, [execution[x] EXCEPT !.left = @ \ {q}])
            /\ storedItems' = storedItems \cup {<<q, a>>}
    /\ UNCHANGED <<offlineRun, inFlight, executed>>

\* The history, the clustering or any step of a cluster returns an error.
StepFails(x) ==
    /\ execution[x].step = "process"
    /\ \/ Proceed(x, [execution[x] EXCEPT !.step = "fail"])
       \/ \E q \in execution[x].left : Proceed(x, AfterClusterError(x, q))
    /\ UNCHANGED <<offlineRun, storedItems, inFlight, executed>>

\* The last UpdateRun.
CompleteRun(x) ==
    /\ execution[x].step = "process"
    /\ execution[x].left = {}
    /\ offlineRun' = [offlineRun EXCEPT ![execution[x].window] = "completed"]
    /\ Return(x)
    /\ UNCHANGED <<storedItems, executed>>

\* A server dies with its executions and its keys in flight.
ServerDies(s) ==
    /\ execution' = [x \in Execution |->
                       IF execution[x].step # "idle" /\ execution[x].server = s
                       THEN NoExecution ELSE execution[x]]
    /\ inFlight' = [inFlight EXCEPT ![s] = {}]
    /\ UNCHANGED <<offlineRun, storedItems, executed>>

-----------------------------------------------------------------------------

OfflineRunNext ==
    \/ \E x \in Execution, s \in Server, w \in Window :
         Trigger(x, s, w) \/ CreateByAPI(x, s, w) \/ ExecuteRun(x, s, w)
    \/ \E x \in Execution :
         \/ ListRuns(x) \/ CreateRun(x) \/ StartRun(x) \/ StepFails(x) \/ failRun(x) \/ CompleteRun(x)
         \/ \E q \in Question, a \in Answer : ProcessCluster(x, q, a)
    \/ \E s \in Server : ServerDies(s)

OfflineRunSpec == OfflineRunInit /\ [][OfflineRunNext]_offlineRunVars

-----------------------------------------------------------------------------
(***************************************************************************)
(* Properties                                                              *)
(***************************************************************************)

\* "Run creation deduplicates the window; a repeated trigger returns the
\* existing run": however many schedulers fire, one of them executes it.
ScheduledOnce == \A w \in Window : executed[w] <= 1

\* A run reads completed only when every cluster of its window has an item,
\* through crashes, failures and executions that overlap.
CompletedIsProcessed ==
    \A w \in Window :
        offlineRun[w] = "completed" =>
            \A q \in QuestionsOf[w] : \E a \in Answer : <<q, a>> \in storedItems

\* A scheduler never works on one window twice at a time.
SchedulerExclusive ==
    \A x, y \in Execution :
        /\ execution[x].step # "idle" /\ execution[y].step # "idle"
        /\ execution[x].by = "schedule" /\ execution[y].by = "schedule"
        /\ execution[x].server = execution[y].server
        /\ execution[x].window = execution[y].window
        => x = y

\* A window is organized once and wholly, by schedulers of several processes,
\* requests, crashes and failing clusters (RunOnce, ExecuteRun).
WindowIsOrganized == ScheduledOnce /\ SchedulerExclusive /\ CompletedIsProcessed
=============================================================================
