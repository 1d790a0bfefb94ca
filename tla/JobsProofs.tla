----------------------------- MODULE JobsProofs -----------------------------
(***************************************************************************)
(* Proofs about the work done besides the task queue of PostgreSQL: the    *)
(* items, the runs and the tools of the offline knowledge organizer,       *)
(* tutorial clones and runs, the in-memory queue, self operations and the  *)
(* export of traces.                                                       *)
(***************************************************************************)
EXTENDS OfflineItem, OfflineRun, CodexTools, TutorialClone, TutorialRun, MemoryQueue, SelfOps,
        TraceExport, NumberLemmas, TLAPS

-----------------------------------------------------------------------------
(***************************************************************************)
(* Offline runs                                                            *)
(***************************************************************************)

ExecutionRow ==
    [step : {"list", "insert", "start", "process", "fail"}, server : Server, window : Window,
     by : {"schedule", "api"}, left : SUBSET Question]

Covered(q, items) == \E a \in Answer : <<q, a>> \in items

\* Every cluster an execution has behind it has an item, and a scheduler's
\* execution is noted in its keys in flight.
ExecutionIsSound(e, items, keys) ==
    e # NoExecution =>
      /\ e \in ExecutionRow
      /\ \A q \in QuestionsOf[e.window] \ e.left : Covered(q, items)
      /\ e.by = "schedule" => e.window \in keys[e.server]

Exclusive(e, f) ==
    ~(/\ e # NoExecution /\ f # NoExecution /\ e.by = "schedule" /\ f.by = "schedule"
      /\ e.server = f.server /\ e.window = f.window)

WindowIsSound(status, count, w, items) ==
    /\ count \in {0, 1}
    /\ status = "absent" => count = 0
    /\ status = "completed" => \A q \in QuestionsOf[w] : Covered(q, items)

OfflineIInv ==
    /\ offlineRun \in [Window -> {"absent", "pending", "running", "failed", "completed"}]
    /\ executed \in [Window -> {0, 1}]
    /\ inFlight \in [Server -> SUBSET Window]
    /\ execution = [x \in Execution |-> execution[x]]
    /\ \A x \in Execution : ExecutionIsSound(execution[x], storedItems, inFlight)
    /\ \A x, y \in Execution : x # y => Exclusive(execution[x], execution[y])
    /\ \A w \in Window : WindowIsSound(offlineRun[w], executed[w], w, storedItems)

\* The step of an execution that keeps its key, or lets go of it and ends.
LEMMA ExecutionMoves ==
    ASSUME OfflineIInv, NEW x \in Execution, NEW e \in ExecutionRow, execution[x] # NoExecution,
           \/ execution' = [execution EXCEPT ![x] = e] /\ inFlight' = inFlight
              /\ ExecutionIsSound(e, storedItems', inFlight)
              /\ e.by = execution[x].by /\ e.server = execution[x].server /\ e.window = execution[x].window
           \/ Return(x),
           storedItems \subseteq storedItems',
           offlineRun' \in [Window -> {"absent", "pending", "running", "failed", "completed"}],
           executed' \in [Window -> {0, 1}],
           \A w \in Window : WindowIsSound(offlineRun'[w], executed'[w], w, storedItems')
    PROVE  OfflineIInv'
<1>1. /\ \A y \in Execution : ExecutionIsSound(execution[y], storedItems, inFlight)
      /\ \A y, z \in Execution : y # z => Exclusive(execution[y], execution[z])
      /\ execution[x] \in ExecutionRow /\ inFlight \in [Server -> SUBSET Window]
      /\ execution = [y \in Execution |-> execution[y]]
  BY DEF OfflineIInv, ExecutionIsSound
<1>2. CASE /\ execution' = [execution EXCEPT ![x] = e] /\ inFlight' = inFlight
           /\ ExecutionIsSound(e, storedItems', inFlight)
           /\ e.by = execution[x].by /\ e.server = execution[x].server /\ e.window = execution[x].window
  <2>1. /\ execution' = [y \in Execution |-> execution'[y]]
        /\ \A y \in Execution : execution'[y] = IF y = x THEN e ELSE execution[y]
    BY <1>1, <1>2
  <2>2. \A y \in Execution : ExecutionIsSound(execution'[y], storedItems', inFlight')
    BY <1>1, <1>2, <2>1 DEF ExecutionIsSound, Covered
  <2>3. \A y, z \in Execution : y # z => Exclusive(execution'[y], execution'[z])
    BY <1>1, <1>2, <2>1 DEF Exclusive
  <2> QED BY <1>1, <1>2, <2>1, <2>2, <2>3 DEF OfflineIInv
<1>3. CASE Return(x)
  <2>1. /\ execution' = [y \in Execution |-> execution'[y]]
        /\ \A y \in Execution : execution'[y] = IF y = x THEN NoExecution ELSE execution[y]
    BY <1>1, <1>3 DEF Return, Proceed
  <2>2. /\ inFlight' \in [Server -> SUBSET Window]
        /\ \A s \in Server, w \in Window :
             w \in inFlight[s] /\ ~(execution[x].by = "schedule" /\ s = execution[x].server /\ w = execution[x].window)
               => w \in inFlight'[s]
    BY <1>1, <1>3 DEF Return, releaseRun, ExecutionRow
  <2>3. ASSUME NEW y \in Execution PROVE ExecutionIsSound(execution'[y], storedItems', inFlight')
    <3>1. CASE y = x
      BY <2>1, <3>1 DEF ExecutionIsSound
    <3>2. CASE y # x
      <4>1. execution'[y] = execution[y] /\ Exclusive(execution[y], execution[x])
        BY <1>1, <2>1, <3>2
      <4>2. ASSUME execution[y] # NoExecution, execution[y].by = "schedule"
            PROVE  execution[y].window \in inFlight'[execution[y].server]
        BY <1>1, <2>2, <4>1, <4>2 DEF ExecutionIsSound, Exclusive, ExecutionRow
      <4> QED BY <1>1, <4>1, <4>2 DEF ExecutionIsSound, Covered
    <3> QED BY <3>1, <3>2
  <2>4. \A y, z \in Execution : y # z => Exclusive(execution'[y], execution'[z])
    BY <1>1, <2>1 DEF Exclusive
  <2> QED BY <1>1, <2>1, <2>2, <2>3, <2>4 DEF OfflineIInv
<1> QED BY <1>2, <1>3

\* An idle execution begins.
LEMMA ExecutionBegins ==
    ASSUME OfflineIInv, NEW x \in Execution, NEW s \in Server, NEW w \in Window, NEW by \in {"schedule", "api"},
           NEW step \in {"list", "start"}, execution[x].step = "idle", Proceed(x, NewExecution(s, w, by, step)),
           offlineRun' = offlineRun, storedItems' = storedItems, executed' = executed,
           by = "api" => inFlight' = inFlight,
           by = "schedule" => w \notin inFlight[s] /\ inFlight' = [inFlight EXCEPT ![s] = @ \cup {w}]
    PROVE  OfflineIInv'
<1> USE OfflineRunAssumption
<1> DEFINE e == NewExecution(s, w, by, step)
<1>1. /\ \A y \in Execution : ExecutionIsSound(execution[y], storedItems, inFlight)
      /\ \A y, z \in Execution : y # z => Exclusive(execution[y], execution[z])
      /\ inFlight \in [Server -> SUBSET Window]
      /\ execution = [y \in Execution |-> execution[y]]
  BY DEF OfflineIInv
<1>2. /\ e \in ExecutionRow /\ e.left = QuestionsOf[w] /\ e.by = by /\ e.window = w /\ e.server = s
  BY DEF NewExecution, ExecutionRow
<1> HIDE DEF e
<1>3. /\ execution' = [y \in Execution |-> execution'[y]]
      /\ \A y \in Execution : execution'[y] = IF y = x THEN e ELSE execution[y]
  BY <1>1 DEF Proceed, e
<1>4. /\ inFlight' \in [Server -> SUBSET Window]
      /\ \A t \in Server : inFlight[t] \subseteq inFlight'[t]
      /\ by = "schedule" => w \in inFlight'[s]
  BY <1>1
<1>5. ExecutionIsSound(e, storedItems, inFlight')
  BY <1>2, <1>4 DEF ExecutionIsSound
<1>6. \A y \in Execution : ExecutionIsSound(execution'[y], storedItems', inFlight')
  BY <1>1, <1>3, <1>4, <1>5 DEF ExecutionIsSound, ExecutionRow
<1>7. ASSUME NEW y \in Execution, y # x PROVE Exclusive(execution[y], e) /\ Exclusive(e, execution[y])
  BY <1>1, <1>2 DEF Exclusive, ExecutionIsSound
<1>8. \A y, z \in Execution : y # z => Exclusive(execution'[y], execution'[z])
  BY <1>1, <1>3, <1>7
<1> QED BY <1>3, <1>4, <1>6, <1>8 DEF OfflineIInv

LEMMA OfflineStep == OfflineIInv /\ [OfflineRunNext]_offlineRunVars => OfflineIInv'
<1> SUFFICES ASSUME OfflineIInv, [OfflineRunNext]_offlineRunVars PROVE OfflineIInv'
  OBVIOUS
<1> DEFINE Statuses == {"absent", "pending", "running", "failed", "completed"}
<1>0. /\ offlineRun \in [Window -> Statuses] /\ executed \in [Window -> {0, 1}]
      /\ \A w \in Window : WindowIsSound(offlineRun[w], executed[w], w, storedItems)
      /\ \A x \in Execution : execution[x].step # "idle" =>
           /\ execution[x] # NoExecution /\ execution[x] \in ExecutionRow
           /\ execution[x].window \in Window
           /\ ExecutionIsSound(execution[x], storedItems, inFlight)
  BY DEF OfflineIInv, NoExecution, ExecutionIsSound, ExecutionRow
<1>1. ASSUME NEW x \in Execution, NEW s \in Server, NEW w \in Window,
             Trigger(x, s, w) \/ CreateByAPI(x, s, w) \/ ExecuteRun(x, s, w)
      PROVE  OfflineIInv'
  BY <1>1, ExecutionBegins DEF Trigger, CreateByAPI, ExecuteRun, acquireRun
\* A step that changes nothing of an execution but its step.
<1>2. ASSUME NEW x \in Execution, execution[x].step # "idle", NEW step \in {"list", "insert", "start", "process", "fail"}
      PROVE  LET e == [execution[x] EXCEPT !.step = step]
             IN  /\ e \in ExecutionRow /\ ExecutionIsSound(e, storedItems, inFlight)
                 /\ e.by = execution[x].by /\ e.server = execution[x].server /\ e.window = execution[x].window
  BY <1>0, <1>2 DEF ExecutionRow, ExecutionIsSound
<1>3. ASSUME NEW x \in Execution, ListRuns(x) PROVE OfflineIInv'
  <2> DEFINE e == [execution[x] EXCEPT !.step = "insert"]
  <2>1. /\ execution[x].step # "idle"
        /\ Return(x) \/ (execution' = [execution EXCEPT ![x] = e] /\ inFlight' = inFlight)
        /\ offlineRun' = offlineRun /\ storedItems' = storedItems /\ executed' = executed
    BY <1>3 DEF ListRuns, Proceed
  <2>2. /\ e \in ExecutionRow /\ ExecutionIsSound(e, storedItems, inFlight)
        /\ e.by = execution[x].by /\ e.server = execution[x].server /\ e.window = execution[x].window
    BY <1>2, <2>1
  <2> HIDE DEF e
  <2> QED BY <1>0, <2>1, <2>2, ExecutionMoves
<1>4. ASSUME NEW x \in Execution, CreateRun(x) PROVE OfflineIInv'
  <2> DEFINE e == [execution[x] EXCEPT !.step = "start"]
             w == execution[x].window
  <2>1. execution[x].step # "idle" /\ storedItems' = storedItems
    BY <1>4 DEF CreateRun
  <2>2. /\ e \in ExecutionRow /\ ExecutionIsSound(e, storedItems, inFlight)
        /\ e.by = execution[x].by /\ e.server = execution[x].server /\ e.window = execution[x].window
    BY <1>2, <2>1
  <2>3. Return(x) \/ (execution' = [execution EXCEPT ![x] = e] /\ inFlight' = inFlight)
    BY <1>4 DEF CreateRun, Proceed
  <2>4. /\ offlineRun' \in [Window -> Statuses] /\ executed' \in [Window -> {0, 1}]
        /\ \A v \in Window : WindowIsSound(offlineRun'[v], executed'[v], v, storedItems')
    <3>1. CASE ~Inserted(w)
      BY <1>0, <1>4, <2>1, <3>1 DEF CreateRun
    <3>2. CASE Inserted(w)
      <4>1. /\ w \in Window /\ offlineRun[w] = "absent" /\ executed[w] = 0
        BY <1>0, <2>1, <3>2 DEF Inserted, WindowIsSound
      <4>2. /\ offlineRun' = [offlineRun EXCEPT ![w] = "pending"]
            /\ executed' = executed \/ executed' = [executed EXCEPT ![w] = 1]
        BY <1>4, <3>2, <4>1 DEF CreateRun
      <4> HIDE DEF w
      <4>3. /\ offlineRun' \in [Window -> Statuses] /\ executed' \in [Window -> {0, 1}]
            /\ offlineRun'[w] = "pending" /\ executed'[w] \in {0, 1}
            /\ \A v \in Window : v # w => offlineRun'[v] = offlineRun[v] /\ executed'[v] = executed[v]
        BY <1>0, <4>1, <4>2
      <4> QED BY <1>0, <2>1, <4>3 DEF WindowIsSound
    <3> QED BY <3>1, <3>2
  <2> HIDE DEF e
  <2> QED BY <1>0, <2>1, <2>2, <2>3, <2>4, ExecutionMoves
\* The unconditional updates of the run's status.
<1>5. ASSUME NEW w \in Window, NEW status \in {"running", "failed", "completed"},
             offlineRun' = [offlineRun EXCEPT ![w] = status], storedItems' = storedItems, executed' = executed,
             status = "completed" => \A q \in QuestionsOf[w] : Covered(q, storedItems)
      PROVE  /\ offlineRun' \in [Window -> Statuses] /\ executed' \in [Window -> {0, 1}]
             /\ \A v \in Window : WindowIsSound(offlineRun'[v], executed'[v], v, storedItems')
  <2>1. /\ offlineRun' \in [Window -> Statuses] /\ offlineRun'[w] = status
        /\ \A v \in Window : v # w => offlineRun'[v] = offlineRun[v]
    BY <1>0, <1>5
  <2> QED BY <1>0, <1>5, <2>1 DEF WindowIsSound
<1>6. ASSUME NEW x \in Execution, StartRun(x) PROVE OfflineIInv'
  <2> DEFINE e == [execution[x] EXCEPT !.step = "process"]
             w == execution[x].window
  <2>1. /\ execution[x].step # "idle" /\ storedItems' = storedItems /\ executed' = executed
        /\ execution' = [execution EXCEPT ![x] = e] /\ inFlight' = inFlight
        /\ offlineRun' = [offlineRun EXCEPT ![w] = "running"]
    BY <1>6 DEF StartRun, Proceed
  <2>2. /\ e \in ExecutionRow /\ ExecutionIsSound(e, storedItems, inFlight)
        /\ e.by = execution[x].by /\ e.server = execution[x].server /\ e.window = execution[x].window
    BY <1>2, <2>1
  <2> HIDE DEF e
  <2>3. /\ offlineRun' \in [Window -> Statuses] /\ executed' \in [Window -> {0, 1}]
        /\ \A v \in Window : WindowIsSound(offlineRun'[v], executed'[v], v, storedItems')
    BY <1>0, <1>5, <2>1
  <2> QED BY <1>0, <2>1, <2>2, <2>3, ExecutionMoves
<1>7. ASSUME NEW x \in Execution, failRun(x) PROVE OfflineIInv'
  <2>1. /\ execution[x].step # "idle" /\ storedItems' = storedItems /\ executed' = executed
        /\ offlineRun' = [offlineRun EXCEPT ![execution[x].window] = "failed"] /\ Return(x)
    BY <1>7 DEF failRun
  <2>2. /\ offlineRun' \in [Window -> Statuses] /\ executed' \in [Window -> {0, 1}]
        /\ \A v \in Window : WindowIsSound(offlineRun'[v], executed'[v], v, storedItems')
    BY <1>0, <1>5, <2>1
  <2> QED BY <1>0, <2>1, <2>2, ExecutionMoves
<1>8. ASSUME NEW x \in Execution, CompleteRun(x) PROVE OfflineIInv'
  <2>1. /\ execution[x].step # "idle" /\ storedItems' = storedItems /\ executed' = executed
        /\ offlineRun' = [offlineRun EXCEPT ![execution[x].window] = "completed"] /\ Return(x)
        /\ execution[x].left = {}
    BY <1>8 DEF CompleteRun
  <2>2. \A q \in QuestionsOf[execution[x].window] : Covered(q, storedItems)
    BY <1>0, <2>1 DEF ExecutionIsSound
  <2>3. /\ offlineRun' \in [Window -> Statuses] /\ executed' \in [Window -> {0, 1}]
        /\ \A v \in Window : WindowIsSound(offlineRun'[v], executed'[v], v, storedItems')
    BY <1>0, <1>5, <2>1, <2>2
  <2> QED BY <1>0, <2>1, <2>3, ExecutionMoves
<1>9. ASSUME NEW x \in Execution, execution[x].step # "idle",
             Proceed(x, [execution[x] EXCEPT !.step = "fail"]),
             UNCHANGED <<offlineRun, storedItems, inFlight, executed>>
      PROVE  OfflineIInv'
  <2> DEFINE e == [execution[x] EXCEPT !.step = "fail"]
  <2>1. /\ execution' = [execution EXCEPT ![x] = e] /\ inFlight' = inFlight
        /\ offlineRun' = offlineRun /\ storedItems' = storedItems /\ executed' = executed
    BY <1>9 DEF Proceed
  <2>2. /\ e \in ExecutionRow /\ ExecutionIsSound(e, storedItems, inFlight)
        /\ e.by = execution[x].by /\ e.server = execution[x].server /\ e.window = execution[x].window
    BY <1>2, <1>9
  <2> HIDE DEF e
  <2> QED BY <1>0, <1>9, <2>1, <2>2, ExecutionMoves
<1>10. ASSUME NEW x \in Execution, StepFails(x) PROVE OfflineIInv'
  BY <1>9, <1>10 DEF StepFails, AfterClusterError
<1>11. ASSUME NEW x \in Execution, NEW q \in Question, NEW a \in Answer, ProcessCluster(x, q, a)
       PROVE  OfflineIInv'
  <2>1. execution[x].step # "idle" /\ offlineRun' = offlineRun /\ inFlight' = inFlight /\ executed' = executed
    BY <1>11 DEF ProcessCluster
  <2>2. CASE <<q, a>> \in storedItems
    BY <1>9, <1>11, <2>1, <2>2 DEF ProcessCluster, AfterClusterError
  <2>3. CASE <<q, a>> \notin storedItems
    <3> DEFINE e == [execution[x] EXCEPT !.left = @ \ {q}]
    <3>1. execution' = [execution EXCEPT ![x] = e] /\ storedItems' = storedItems \cup {<<q, a>>}
      BY <1>11, <2>3 DEF ProcessCluster, Proceed
    <3>2. /\ e \in ExecutionRow /\ e.left = execution[x].left \ {q}
          /\ e.by = execution[x].by /\ e.server = execution[x].server /\ e.window = execution[x].window
      BY <1>0, <2>1 DEF ExecutionRow
    <3> HIDE DEF e
    <3>3. Covered(q, storedItems')
      BY <3>1 DEF Covered
    <3>4. ExecutionIsSound(e, storedItems', inFlight)
      BY <1>0, <2>1, <3>1, <3>2, <3>3 DEF ExecutionIsSound, Covered
    <3>5. \A w \in Window : WindowIsSound(offlineRun'[w], executed'[w], w, storedItems')
      BY <1>0, <2>1, <3>1 DEF WindowIsSound, Covered
    <3> QED BY <1>0, <2>1, <3>1, <3>2, <3>4, <3>5, ExecutionMoves
  <2> QED BY <2>2, <2>3
<1>12. ASSUME NEW s \in Server, ServerDies(s) PROVE OfflineIInv'
  <2>1. /\ execution' = [x \in Execution |-> execution'[x]]
        /\ \A x \in Execution : \/ execution'[x] = NoExecution
                                \/ execution'[x] = execution[x] /\ ~(execution[x].step # "idle" /\ execution[x].server = s)
        /\ inFlight' \in [Server -> SUBSET Window]
        /\ \A t \in Server : t # s => inFlight'[t] = inFlight[t]
        /\ offlineRun' = offlineRun /\ storedItems' = storedItems /\ executed' = executed
    BY <1>12 DEF ServerDies, OfflineIInv
  <2>2. ASSUME NEW x \in Execution PROVE ExecutionIsSound(execution'[x], storedItems, inFlight')
    <3>1. CASE execution'[x] = NoExecution
      BY <3>1 DEF ExecutionIsSound
    <3>2. CASE execution'[x] = execution[x] /\ execution[x] # NoExecution
      <4>1. execution[x] \in ExecutionRow /\ ExecutionIsSound(execution[x], storedItems, inFlight)
        BY <3>2 DEF OfflineIInv, ExecutionIsSound
      <4>2. execution[x].server \in Server /\ execution[x].server # s
        BY <2>1, <3>2, <4>1 DEF ExecutionRow
      <4> QED BY <2>1, <3>2, <4>1, <4>2 DEF ExecutionIsSound
    <3> QED BY <2>1, <3>1, <3>2
  <2>3. \A x, y \in Execution : x # y => Exclusive(execution'[x], execution'[y])
    BY <2>1 DEF OfflineIInv, Exclusive
  <2> QED BY <1>0, <2>1, <2>2, <2>3 DEF OfflineIInv
<1>13. CASE UNCHANGED offlineRunVars
  <2>1. /\ offlineRun' = offlineRun /\ storedItems' = storedItems /\ execution' = execution
        /\ inFlight' = inFlight /\ executed' = executed
    BY <1>13 DEF offlineRunVars
  <2> QED BY <2>1 DEF OfflineIInv
<1> QED BY <1>1, <1>3, <1>4, <1>6, <1>7, <1>8, <1>10, <1>11, <1>12, <1>13 DEF OfflineRunNext

\* However many schedulers, requests and crashes meet, RunOnce executes a
\* window once, no scheduler works on it twice at a time, and it reads
\* completed only when every cluster of it has an item.
THEOREM WindowsOrganized == OfflineRunSpec => []WindowIsOrganized
<1>1. OfflineRunInit => OfflineIInv
  BY DEF OfflineRunInit, OfflineIInv, ExecutionIsSound, Exclusive, WindowIsSound
<1>2. OfflineIInv => WindowIsOrganized
  <2> SUFFICES ASSUME OfflineIInv PROVE ScheduledOnce /\ SchedulerExclusive /\ CompletedIsProcessed
    BY DEF WindowIsOrganized
  <2>1. ScheduledOnce /\ CompletedIsProcessed
    BY DEF OfflineIInv, WindowIsSound, Covered, ScheduledOnce, CompletedIsProcessed
  <2>2. \A x \in Execution : execution[x].step # "idle" => execution[x] # NoExecution
    BY DEF NoExecution
  <2>3. SchedulerExclusive
    BY <2>2 DEF OfflineIInv, Exclusive, SchedulerExclusive
  <2> QED BY <2>1, <2>3
<1> QED BY <1>1, <1>2, OfflineStep, PTL DEF OfflineRunSpec

-----------------------------------------------------------------------------
(***************************************************************************)
(* The tools of an analysis                                                *)
(***************************************************************************)

CallRow == [step : {"qps", "step", "tool"}, session : Session, started : 0..MaxSecond]

\* The calls of a session that hold a step and have not run their tool.
HoldStep(s, calls) == {c \in ToolCall : calls[c].step = "tool" /\ calls[c].session = s}

\* The window counts the calls of its second, and no later second has any.
WindowCounts(grants, w) ==
    /\ w.count <= MaxQPSPerTenant
    /\ grants[w.second] = w.count
    /\ \A n \in 0..MaxSecond : grants[n] <= MaxQPSPerTenant
    /\ \A n \in 0..MaxSecond : n > w.second => grants[n] = 0

\* A step is reserved before its tool runs: the tools that ran and the calls
\* that may still run one never exceed the session's steps.
StepsCover(ran, held, reserved) ==
    /\ IsFiniteSet(held)
    /\ ran + Cardinality(held) <= reserved
    /\ reserved <= MaxSteps

ToolsIInv ==
    /\ second \in 0..MaxSecond
    /\ qps \in [second : 0..MaxSecond, count : Nat]
    /\ steps \in [Session -> Nat]
    /\ toolCall = [c \in ToolCall |-> toolCall[c]]
    /\ \A c \in ToolCall : toolCall[c] = NoCall \/ toolCall[c] \in CallRow
    /\ granted \in [0..MaxSecond -> Nat]
    /\ executedBy \in [Session -> Nat]
    /\ reordered \in BOOLEAN
    /\ \A s \in Session : StepsCover(executedBy[s], HoldStep(s, toolCall), steps[s])
    /\ ~reordered => WindowCounts(granted, qps)

LEMMA ToolsStep == ToolsIInv /\ [ToolsNext]_toolVars => ToolsIInv'
<1> SUFFICES ASSUME ToolsIInv, [ToolsNext]_toolVars PROVE ToolsIInv'
  OBVIOUS
<1>0. MaxSteps \in Nat /\ MaxQPSPerTenant \in Nat \ {0} /\ MaxSecond \in Nat
  BY ToolsAssumption
<1>1. CASE ClockTicks
  <2>1. second' \in 0..MaxSecond
    BY <1>0, <1>1 DEF ClockTicks, ToolsIInv
  <2> QED BY <2>1, <1>1 DEF ClockTicks, ToolsIInv
<1>2. ASSUME NEW c \in ToolCall, NEW s \in Session, BeginCall(c, s) PROVE ToolsIInv'
  <2> DEFINE row == [step |-> "qps", session |-> s, started |-> second]
  <2>1. toolCall' = [toolCall EXCEPT ![c] = row] /\ row \in CallRow /\ row.step # "tool"
    BY <1>2 DEF BeginCall, ToolsIInv, CallRow
  <2>2. /\ toolCall' = [d \in ToolCall |-> toolCall'[d]] /\ toolCall'[c] = row
        /\ \A d \in ToolCall : d # c => toolCall'[d] = toolCall[d]
    <3> HIDE DEF row
    <3> QED BY <2>1 DEF ToolsIInv
  <2>3. \A t \in Session : HoldStep(t, toolCall') = HoldStep(t, toolCall)
    BY <1>2, <2>1, <2>2 DEF HoldStep, BeginCall
  <2>4. \A d \in ToolCall : toolCall'[d] = NoCall \/ toolCall'[d] \in CallRow
    BY <2>1, <2>2 DEF ToolsIInv
  <2> QED BY <1>2, <2>2, <2>3, <2>4 DEF BeginCall, ToolsIInv
<1>3. ASSUME NEW c \in ToolCall, reserveTenantQPS(c) PROVE ToolsIInv'
  <2> DEFINE n == toolCall[c].started
             w == windowAt(n)
  <2>1. toolCall[c] \in CallRow /\ n \in 0..MaxSecond /\ toolCall[c].step = "qps"
    BY <1>3 DEF reserveTenantQPS, ToolsIInv, NoCall, CallRow
  <2>2. w \in [second : 0..MaxSecond, count : Nat] /\ w.second = n
        /\ w.count = (IF qps.second = n THEN qps.count ELSE 0)
    BY <2>1 DEF windowAt, ToolsIInv
  <2>3. /\ toolCall' = [d \in ToolCall |-> toolCall'[d]]
        /\ \A d \in ToolCall : d # c => toolCall'[d] = toolCall[d]
        /\ toolCall'[c] = NoCall \/ toolCall'[c] \in CallRow
        /\ toolCall'[c].step # "tool"
    <3>1. CASE toolCall' = [toolCall EXCEPT ![c] = NoCall]
      BY <3>1 DEF ToolsIInv, NoCall
    <3>2. CASE toolCall' = [toolCall EXCEPT ![c].step = "step"]
      <4>1. toolCall'[c] = [toolCall[c] EXCEPT !.step = "step"]
        BY <3>2 DEF ToolsIInv
      <4> QED BY <2>1, <3>2, <4>1 DEF ToolsIInv, CallRow
    <3> QED BY <1>3, <3>1, <3>2 DEF reserveTenantQPS, Answered
  <2>4. \A t \in Session : HoldStep(t, toolCall') = HoldStep(t, toolCall)
    BY <2>1, <2>3 DEF HoldStep
  <2>5. /\ qps' \in [second : 0..MaxSecond, count : Nat]
        /\ granted' \in [0..MaxSecond -> Nat]
        /\ ~reordered' => WindowCounts(granted', qps')
    <3> DEFINE over == n < qps.second
    <3>0. reordered' = (reordered \/ over)
      BY <1>3 DEF reserveTenantQPS
    <3>1. CASE WindowFull(w)
      <4>1. qps' = w /\ granted' = granted
        BY <1>3, <3>1 DEF reserveTenantQPS
      <4>2. w.count >= MaxQPSPerTenant /\ qps.second = n /\ w = qps
        BY <1>0, <2>2, <3>1 DEF WindowFull, windowAt
      <4> QED BY <3>0, <4>1, <4>2 DEF ToolsIInv
    <3>2. CASE ~WindowFull(w)
      <4>1. /\ qps' = [w EXCEPT !.count = @ + 1]
            /\ granted' = IF reordered' THEN granted ELSE [granted EXCEPT ![n] = @ + 1]
        BY <1>3, <3>2 DEF reserveTenantQPS
      <4>2. w.count < MaxQPSPerTenant
        BY <1>0, <2>2, <3>2 DEF WindowFull
      <4>3. qps' \in [second : 0..MaxSecond, count : Nat] /\ qps'.second = n /\ qps'.count = w.count + 1
        <5> HIDE DEF w, n
        <5> QED BY <2>1, <2>2, <4>1
      <4>4. CASE reordered'
        BY <4>1, <4>3, <4>4 DEF ToolsIInv
      <4>5. CASE ~reordered'
        <5>1. granted' = [granted EXCEPT ![n] = @ + 1] /\ ~reordered /\ ~(n < qps.second)
          BY <3>0, <4>1, <4>5 DEF ToolsIInv
        <5>2. WindowCounts(granted, qps) /\ granted \in [0..MaxSecond -> Nat]
              /\ qps.second \in 0..MaxSecond /\ qps.count \in Nat
          BY <5>1 DEF ToolsIInv
        <5>3. granted' \in [0..MaxSecond -> Nat] /\ granted'[n] = granted[n] + 1
              /\ \A k \in 0..MaxSecond : k # n => granted'[k] = granted[k]
          <6> HIDE DEF n
          <6> QED BY <2>1, <5>1, <5>2
        <5>4. granted[n] = w.count
          <6> HIDE DEF n, w
          <6> QED BY <1>0, <2>1, <2>2, <5>1, <5>2 DEF WindowCounts
        <5>5. WindowCounts(granted', qps')
          <6> HIDE DEF n, w
          <6> QED BY <1>0, <2>1, <2>2, <4>2, <4>3, <5>1, <5>2, <5>3, <5>4 DEF WindowCounts
        <5> QED BY <4>3, <5>3, <5>5
      <4> QED BY <4>4, <4>5
    <3> QED BY <3>1, <3>2
  <2>6. second' = second /\ steps' = steps /\ executedBy' = executedBy /\ reordered' \in BOOLEAN
    BY <1>3 DEF reserveTenantQPS, ToolsIInv
  <2>7. \A d \in ToolCall : toolCall'[d] = NoCall \/ toolCall'[d] \in CallRow
    BY <2>3 DEF ToolsIInv
  <2> QED BY <2>3, <2>4, <2>5, <2>6, <2>7 DEF ToolsIInv
<1>4. ASSUME NEW c \in ToolCall, reserveStep(c) PROVE ToolsIInv'
  <2>1. /\ toolCall[c] \in CallRow /\ toolCall[c].step = "step"
        /\ second' = second /\ qps' = qps /\ granted' = granted
        /\ executedBy' = executedBy /\ reordered' = reordered
    BY <1>4 DEF reserveStep, ToolsIInv, NoCall
  <2>2. PICK s \in Session : s = toolCall[c].session
    BY <2>1 DEF CallRow
  <2>3. CASE OverBudget(steps[s] + 1)
    <3>1. toolCall' = [toolCall EXCEPT ![c] = NoCall] /\ steps' = steps
      BY <1>4, <2>2, <2>3 DEF reserveStep, Answered
    <3>2. /\ toolCall' = [d \in ToolCall |-> toolCall'[d]] /\ toolCall'[c] = NoCall
          /\ \A d \in ToolCall : d # c => toolCall'[d] = toolCall[d]
      BY <3>1 DEF ToolsIInv
    <3>3. \A t \in Session : HoldStep(t, toolCall') = HoldStep(t, toolCall)
      BY <2>1, <3>2 DEF HoldStep, NoCall
    <3>4. \A d \in ToolCall : toolCall'[d] = NoCall \/ toolCall'[d] \in CallRow
      BY <3>2 DEF ToolsIInv
    <3> QED BY <2>1, <3>1, <3>2, <3>3, <3>4 DEF ToolsIInv
  <2>4. CASE ~OverBudget(steps[s] + 1)
    <3>1. toolCall' = [toolCall EXCEPT ![c].step = "tool"] /\ steps' = [steps EXCEPT ![s] = @ + 1]
      BY <1>4, <2>2, <2>4 DEF reserveStep
    <3>2. /\ toolCall' = [d \in ToolCall |-> toolCall'[d]]
          /\ toolCall'[c] = [toolCall[c] EXCEPT !.step = "tool"]
          /\ \A d \in ToolCall : d # c => toolCall'[d] = toolCall[d]
      BY <3>1 DEF ToolsIInv
    <3>3. toolCall'[c] \in CallRow /\ toolCall'[c].step = "tool" /\ toolCall'[c].session = s
      BY <2>1, <2>2, <3>2 DEF CallRow
    <3>4. /\ HoldStep(s, toolCall') = HoldStep(s, toolCall) \cup {c}
          /\ c \notin HoldStep(s, toolCall)
          /\ \A t \in Session : t # s => HoldStep(t, toolCall') = HoldStep(t, toolCall)
      BY <2>1, <3>2, <3>3 DEF HoldStep
    <3>5. /\ steps' \in [Session -> Nat] /\ steps'[s] = steps[s] + 1 /\ steps[s] + 1 <= MaxSteps
          /\ \A t \in Session : t # s => steps'[t] = steps[t]
      BY <1>0, <2>4, <3>1 DEF ToolsIInv, OverBudget
    <3>6. StepsCover(executedBy[s], HoldStep(s, toolCall'), steps'[s])
      <4>1. /\ IsFiniteSet(HoldStep(s, toolCall)) /\ executedBy[s] \in Nat /\ steps[s] \in Nat
            /\ executedBy[s] + Cardinality(HoldStep(s, toolCall)) <= steps[s]
        BY DEF ToolsIInv, StepsCover
      <4>2. /\ Cardinality(HoldStep(s, toolCall) \cup {c}) = Cardinality(HoldStep(s, toolCall)) + 1
            /\ IsFiniteSet(HoldStep(s, toolCall) \cup {c})
            /\ Cardinality(HoldStep(s, toolCall)) \in Nat
        BY <3>4, <4>1, FS_AddElement, FS_CardinalityType
      <4> QED BY <1>0, <3>4, <3>5, <4>1, <4>2 DEF StepsCover
    <3>7. \A t \in Session : StepsCover(executedBy[t], HoldStep(t, toolCall'), steps'[t])
      BY <3>4, <3>5, <3>6 DEF ToolsIInv
    <3>8. \A d \in ToolCall : toolCall'[d] = NoCall \/ toolCall'[d] \in CallRow
      BY <3>2, <3>3 DEF ToolsIInv
    <3> QED BY <2>1, <3>2, <3>5, <3>7, <3>8 DEF ToolsIInv
  <2> QED BY <2>3, <2>4
<1>5. ASSUME NEW c \in ToolCall, NEW refused \in BOOLEAN, RunTool(c, refused) PROVE ToolsIInv'
  <2>1. /\ toolCall[c] \in CallRow /\ toolCall[c].step = "tool"
        /\ toolCall' = [toolCall EXCEPT ![c] = NoCall]
        /\ second' = second /\ qps' = qps /\ granted' = granted
        /\ steps' = steps /\ reordered' = reordered
    BY <1>5 DEF RunTool, Answered, ToolsIInv, NoCall
  <2>2. PICK s \in Session : s = toolCall[c].session
    BY <2>1 DEF CallRow
  <2>3. /\ toolCall' = [d \in ToolCall |-> toolCall'[d]] /\ toolCall'[c] = NoCall
        /\ \A d \in ToolCall : d # c => toolCall'[d] = toolCall[d]
    BY <2>1 DEF ToolsIInv
  <2>4. /\ c \in HoldStep(s, toolCall) /\ HoldStep(s, toolCall') = HoldStep(s, toolCall) \ {c}
        /\ \A t \in Session : t # s => HoldStep(t, toolCall') = HoldStep(t, toolCall)
    BY <2>1, <2>2, <2>3 DEF HoldStep, NoCall
  <2>5. /\ executedBy' \in [Session -> Nat] /\ executedBy'[s] <= executedBy[s] + 1
        /\ \A t \in Session : t # s => executedBy'[t] = executedBy[t]
    BY <1>5, <2>2 DEF RunTool, ToolsIInv
  <2>6. StepsCover(executedBy'[s], HoldStep(s, toolCall'), steps[s])
    <3>1. /\ IsFiniteSet(HoldStep(s, toolCall)) /\ executedBy[s] \in Nat /\ steps[s] \in Nat
          /\ executedBy[s] + Cardinality(HoldStep(s, toolCall)) <= steps[s] /\ steps[s] <= MaxSteps
      BY DEF ToolsIInv, StepsCover
    <3>2. /\ Cardinality(HoldStep(s, toolCall) \ {c}) = Cardinality(HoldStep(s, toolCall)) - 1
          /\ IsFiniteSet(HoldStep(s, toolCall) \ {c})
          /\ Cardinality(HoldStep(s, toolCall)) \in Nat
      BY <2>4, <3>1, FS_RemoveElement, FS_CardinalityType
    <3> QED BY <1>0, <2>4, <2>5, <3>1, <3>2 DEF StepsCover
  <2>7. \A t \in Session : StepsCover(executedBy'[t], HoldStep(t, toolCall'), steps[t])
    BY <2>4, <2>5, <2>6 DEF ToolsIInv
  <2>8. \A d \in ToolCall : toolCall'[d] = NoCall \/ toolCall'[d] \in CallRow
    BY <2>3 DEF ToolsIInv
  <2> QED BY <2>1, <2>3, <2>5, <2>7, <2>8 DEF ToolsIInv
<1>6. CASE UNCHANGED toolVars
  BY <1>6 DEF toolVars, ToolsIInv
<1> QED BY <1>1, <1>2, <1>3, <1>4, <1>5, <1>6 DEF ToolsNext

\* Concurrent calls never run more tools of a session than its step budget,
\* and, as long as no call reserves with an older clock than the window's, the
\* tenant gets at most its calls per second (reserveTenantQPS, reserveStep).
THEOREM ToolLimits == ToolsSpec => []LimitsHold
<1>0. MaxSteps \in Nat /\ MaxQPSPerTenant \in Nat \ {0} /\ MaxSecond \in Nat
  BY ToolsAssumption
<1>1. ToolsInit => ToolsIInv
  <2> SUFFICES ASSUME ToolsInit PROVE ToolsIInv
    OBVIOUS
  <2>1. \A s \in Session : HoldStep(s, toolCall) = {}
    BY DEF ToolsInit, HoldStep, NoCall
  <2>2. \A s \in Session : StepsCover(executedBy[s], HoldStep(s, toolCall), steps[s])
    BY <1>0, <2>1, FS_EmptySet DEF ToolsInit, StepsCover
  <2>3. WindowCounts(granted, qps)
    BY <1>0 DEF ToolsInit, WindowCounts
  <2>4. /\ second \in 0..MaxSecond /\ qps \in [second : 0..MaxSecond, count : Nat]
        /\ steps \in [Session -> Nat] /\ executedBy \in [Session -> Nat]
        /\ granted \in [0..MaxSecond -> Nat]
    BY <1>0 DEF ToolsInit
  <2>5. /\ toolCall = [c \in ToolCall |-> toolCall[c]] /\ \A c \in ToolCall : toolCall[c] = NoCall
        /\ reordered = FALSE
    BY DEF ToolsInit
  <2> QED BY <2>2, <2>3, <2>4, <2>5 DEF ToolsIInv
<1>2. ToolsIInv => LimitsHold
  <2> SUFFICES ASSUME ToolsIInv PROVE StepBudget /\ CallsPerSecond
    BY DEF LimitsHold
  <2>1. ASSUME NEW s \in Session PROVE executedBy[s] <= MaxSteps
    <3>1. /\ IsFiniteSet(HoldStep(s, toolCall)) /\ executedBy[s] \in Nat /\ steps[s] \in Nat
          /\ executedBy[s] + Cardinality(HoldStep(s, toolCall)) <= steps[s] /\ steps[s] <= MaxSteps
      BY DEF ToolsIInv, StepsCover
    <3>2. Cardinality(HoldStep(s, toolCall)) \in Nat
      BY <3>1, FS_CardinalityType
    <3> QED BY <1>0, <3>1, <3>2
  <2> QED BY <2>1 DEF ToolsIInv, WindowCounts, StepBudget, CallsPerSecond
<1> QED BY <1>1, <1>2, ToolsStep, PTL DEF ToolsSpec
-----------------------------------------------------------------------------
(***************************************************************************)
(* Tutorial clones                                                         *)
(***************************************************************************)

WorkStage == {"create_project", "validate_manifest", "download_pack", "verify_pack",
              "write_private_store", "create_runtime_resources"}

JobRow ==
    [stage : WorkStage \cup {"pack_installed"},
     status : {"absent", "queued", "running", "failed", "completed"}]

TutorialRow ==
    [project : BOOLEAN, pack : {"absent", "installing", "installed"},
     runtime : {"absent", "pending"} \cup RuntimeStatuses]

AcquireRow == [step : {"acquire"}, host : CloneHost]

WorkRow ==
    [step : {"work", "experiment", "advance", "status", "fail"}, host : CloneHost,
     stage : WorkStage, left : SUBSET PackObject]

RoutineRow == {IdleRoutine} \cup AcquireRow \cup WorkRow

\* What a stage asks of the stages before it.
Earned(stage, t, objects) ==
    /\ stage # "create_project" => t.project = TRUE /\ t.pack # "absent"
    /\ stage \in {"create_runtime_resources", "pack_installed"} => objects = PackObject

\* What a goroutine knows of the effects it has had.
Backed(e, t, objects) ==
    e \in WorkRow =>
      /\ Earned(e.stage, t, objects)
      /\ e.step = "experiment" => t.project = TRUE /\ e.stage = "create_project"
      /\ e.step = "status" => /\ e.stage = "create_runtime_resources"
                              /\ t.runtime \in RuntimeStatuses /\ t.pack # "absent"
      /\ e.step = "advance" =>
           /\ e.stage = "create_project" => t.project = TRUE /\ t.pack # "absent"
           /\ e.stage = "write_private_store" => objects = PackObject
      /\ e.step = "work" /\ e.stage = "write_private_store" => PackObject \ e.left \subseteq objects

\* A queued job has a goroutine about to acquire it, a running one has a
\* goroutine at its stage.
Attended(job, routines, lost) ==
    lost = FALSE =>
      /\ job.status = "queued" => \E r \in CloneRoutine : routines[r].step = "acquire"
      /\ job.status = "running" =>
           \E r \in CloneRoutine : routines[r] \in WorkRow /\ routines[r].stage = job.stage

CloneIInv ==
    /\ cloneJob \in JobRow
    /\ tutorial \in TutorialRow
    /\ stored \subseteq PackObject
    /\ cloneRoutine \in [CloneRoutine -> RoutineRow]
    /\ retryRequest \in [RetryRequest -> {"idle"} \cup WorkStage]
    /\ cloneLost \in BOOLEAN
    /\ Earned(cloneJob.stage, tutorial, stored)
    /\ cloneJob.stage = "pack_installed" => cloneJob.status = "completed"
    /\ \A q \in RetryRequest : retryRequest[q] # "idle" => Earned(retryRequest[q], tutorial, stored)
    /\ \A r \in CloneRoutine : Backed(cloneRoutine[r], tutorial, stored)
    /\ tutorial.pack = "installed" => tutorial.runtime \in RuntimeStatuses /\ stored = PackObject
    /\ tutorial.runtime \in RuntimeStatuses => tutorial.pack # "absent"
    /\ Attended(cloneJob, cloneRoutine, cloneLost)

\* Effects are never taken back.
EffectsGrow(t, objects, u, more) ==
    /\ t.project = TRUE => u.project = TRUE
    /\ t.pack # "absent" => u.pack # "absent"
    /\ t.runtime \in RuntimeStatuses => u.runtime \in RuntimeStatuses
    /\ objects \subseteq more /\ more \subseteq PackObject

LEMMA BackedGrows ==
    ASSUME NEW t, NEW objects, NEW u, NEW more, EffectsGrow(t, objects, u, more)
    PROVE  /\ \A stage \in WorkStage \cup {"pack_installed"} : Earned(stage, t, objects) => Earned(stage, u, more)
           /\ \A e \in RoutineRow : Backed(e, t, objects) => Backed(e, u, more)
<1>1. ASSUME NEW stage, Earned(stage, t, objects) PROVE Earned(stage, u, more)
  BY <1>1 DEF Earned, EffectsGrow
<1>2. ASSUME NEW e \in RoutineRow, Backed(e, t, objects), e \in WorkRow PROVE Backed(e, u, more)
  <2>1. Earned(e.stage, u, more)
    BY <1>1, <1>2 DEF Backed
  <2> QED BY <1>2, <2>1 DEF Backed, EffectsGrow
<1>3. ASSUME NEW e \in RoutineRow, e \notin WorkRow PROVE Backed(e, u, more)
  BY <1>3 DEF Backed
<1> QED BY <1>1, <1>2, <1>3

LEMMA RowsDiffer ==
    ASSUME NEW e \in RoutineRow
    PROVE  /\ e.step = "idle" <=> e = IdleRoutine
           /\ e.step = "acquire" <=> e \in AcquireRow
           /\ e \in WorkRow <=> e.step \notin {"idle", "acquire"}
BY DEF RoutineRow, IdleRoutine, AcquireRow, WorkRow

\* A goroutine takes a step whose row is backed by the effects after it.
LEMMA RoutineMoves ==
    ASSUME CloneIInv, NEW r \in CloneRoutine, NEW v \in RoutineRow, Routine(r, v),
           EffectsGrow(tutorial, stored, tutorial', stored'), Backed(v, tutorial', stored')
    PROVE  /\ cloneRoutine' \in [CloneRoutine -> RoutineRow] /\ cloneRoutine'[r] = v
           /\ \A s \in CloneRoutine : s # r => cloneRoutine'[s] = cloneRoutine[s]
           /\ \A s \in CloneRoutine : Backed(cloneRoutine'[s], tutorial', stored')
<1>1. /\ cloneRoutine' \in [CloneRoutine -> RoutineRow] /\ cloneRoutine'[r] = v
      /\ \A s \in CloneRoutine : s # r => cloneRoutine'[s] = cloneRoutine[s]
  BY DEF Routine, CloneIInv
<1>2. ASSUME NEW s \in CloneRoutine, s # r PROVE Backed(cloneRoutine'[s], tutorial', stored')
  <2>1. cloneRoutine[s] \in RoutineRow /\ Backed(cloneRoutine[s], tutorial, stored)
    BY DEF CloneIInv
  <2> QED BY <1>1, <1>2, <2>1, BackedGrows
<1> QED BY <1>1, <1>2

LEMMA StaysEarned ==
    ASSUME CloneIInv, EffectsGrow(tutorial, stored, tutorial', stored')
    PROVE  /\ Earned(cloneJob.stage, tutorial', stored')
           /\ \A q \in RetryRequest : retryRequest[q] # "idle" => Earned(retryRequest[q], tutorial', stored')
<1>1. cloneJob.stage \in WorkStage \cup {"pack_installed"}
  BY DEF CloneIInv, JobRow
<1>2. \A q \in RetryRequest : retryRequest[q] # "idle" => retryRequest[q] \in WorkStage
  BY DEF CloneIInv
<1> QED BY <1>1, <1>2, BackedGrows DEF CloneIInv

LEMMA NothingChanges == CloneIInv => EffectsGrow(tutorial, stored, tutorial, stored)
BY DEF CloneIInv, EffectsGrow

\* A goroutine that works on at its stage leaves the job attended.
LEMMA StaysAttended ==
    ASSUME CloneIInv, NEW r \in CloneRoutine, cloneRoutine[r] \in WorkRow,
           cloneRoutine'[r] \in WorkRow, cloneRoutine'[r].stage = cloneRoutine[r].stage,
           \A s \in CloneRoutine : s # r => cloneRoutine'[s] = cloneRoutine[s],
           cloneRoutine' \in [CloneRoutine -> RoutineRow]
    PROVE  Attended(cloneJob, cloneRoutine', cloneLost)
<1>1. cloneRoutine[r].step # "acquire"
  BY DEF WorkRow
<1> QED BY <1>1 DEF CloneIInv, Attended

\* The row of a goroutine that goes on to another step of its stage.
LEMMA WorkedRow ==
    ASSUME NEW e \in WorkRow, NEW step \in {"work", "experiment", "advance", "status", "fail"}
    PROVE  LET v == [e EXCEPT !.step = step]
           IN  v \in WorkRow /\ v \in RoutineRow /\ v.step = step /\ v.stage = e.stage /\ v.left = e.left
BY DEF WorkRow, RoutineRow

LEMMA StageNumbers ==
    /\ DOMAIN CloneStage = 1..7
    /\ StageNumber("create_project") = 1 /\ StageNumber("validate_manifest") = 2
    /\ StageNumber("download_pack") = 3 /\ StageNumber("verify_pack") = 4
    /\ StageNumber("write_private_store") = 5 /\ StageNumber("create_runtime_resources") = 6
    /\ StageNumber("pack_installed") = 7
<1>1. DOMAIN CloneStage = 1..7
  BY DEF CloneStage
<1>2. /\ CloneStage[1] = "create_project" /\ CloneStage[2] = "validate_manifest"
      /\ CloneStage[3] = "download_pack" /\ CloneStage[4] = "verify_pack"
      /\ CloneStage[5] = "write_private_store" /\ CloneStage[6] = "create_runtime_resources"
      /\ CloneStage[7] = "pack_installed"
  BY DEF CloneStage
<1>3. \A k \in 1..7 : k = 1 \/ k = 2 \/ k = 3 \/ k = 4 \/ k = 5 \/ k = 6 \/ k = 7
  OBVIOUS
<1>4. \A j, k \in 1..7 : CloneStage[j] = CloneStage[k] => j = k
  BY <1>2, <1>3
<1>5. ASSUME NEW k \in 1..7 PROVE StageNumber(CloneStage[k]) = k
  <2>1. \A n \in DOMAIN CloneStage : CloneStage[n] = CloneStage[k] <=> n = k
    BY <1>1, <1>4
  <2> QED BY <1>1, <2>1 DEF StageNumber
<1>6. 1 \in 1..7 /\ 2 \in 1..7 /\ 3 \in 1..7 /\ 4 \in 1..7 /\ 5 \in 1..7 /\ 6 \in 1..7 /\ 7 \in 1..7
  OBVIOUS
<1> QED BY <1>1, <1>2, <1>5, <1>6

\* The stage after one whose work is done is earned.
LEMMA NextStage ==
    ASSUME NEW stage \in WorkStage
    PROVE  LET next == CloneStage[StageNumber(stage) + 1]
           IN  /\ next \in WorkStage \cup {"pack_installed"} /\ next # "create_project"
               /\ next = "create_runtime_resources" <=> stage = "write_private_store"
               /\ next = "pack_installed" <=> stage = "create_runtime_resources"
<1>1. /\ CloneStage[2] = "validate_manifest" /\ CloneStage[3] = "download_pack"
      /\ CloneStage[4] = "verify_pack" /\ CloneStage[5] = "write_private_store"
      /\ CloneStage[6] = "create_runtime_resources" /\ CloneStage[7] = "pack_installed"
  BY DEF CloneStage
<1> QED BY <1>1, StageNumbers DEF WorkStage

\* Schedule leaves a queued job attended, or lost.
LEMMA ScheduledIsAttended ==
    ASSUME CloneIInv, NEW h \in CloneHost, NEW r \in CloneRoutine, cloneRoutine[r] = IdleRoutine,
           Schedule(h, r), tutorial' = tutorial, stored' = stored, NEW job, job.status = "queued"
    PROVE  /\ cloneRoutine' \in [CloneRoutine -> RoutineRow]
           /\ \A s \in CloneRoutine : Backed(cloneRoutine'[s], tutorial', stored')
           /\ cloneLost' \in BOOLEAN
           /\ Attended(job, cloneRoutine', cloneLost')
<1>1. CASE Routine(r, Scheduled(h)) /\ UNCHANGED cloneLost
  <2>1. Scheduled(h) \in RoutineRow /\ Scheduled(h).step = "acquire" /\ Scheduled(h) \in AcquireRow
    BY DEF Scheduled, RoutineRow, AcquireRow
  <2>2. Backed(Scheduled(h), tutorial', stored')
    BY <2>1, RowsDiffer DEF Backed
  <2>3. /\ cloneRoutine' \in [CloneRoutine -> RoutineRow] /\ cloneRoutine'[r] = Scheduled(h)
        /\ \A s \in CloneRoutine : Backed(cloneRoutine'[s], tutorial', stored')
    BY <1>1, <2>1, <2>2, NothingChanges, RoutineMoves
  <2> QED BY <1>1, <2>1, <2>3 DEF Attended, CloneIInv
<1>2. CASE cloneLost' = TRUE /\ UNCHANGED cloneRoutine
  BY <1>2 DEF CloneIInv, Attended
<1> QED BY <1>1, <1>2 DEF Schedule

LEMMA CloneRequestStep ==
    ASSUME CloneIInv
    PROVE  /\ \A h \in CloneHost, r \in CloneRoutine : StartClone(h, r) => CloneIInv'
           /\ \A q \in RetryRequest : ReadForRetry(q) => CloneIInv'
           /\ \A q \in RetryRequest, h \in CloneHost, r \in CloneRoutine : RetryClone(q, h, r) => CloneIInv'
<1>1. ASSUME NEW h \in CloneHost, NEW r \in CloneRoutine, StartClone(h, r) PROVE CloneIInv'
  <2>1. /\ cloneJob' = [stage |-> "create_project", status |-> "queued"]
        /\ tutorial' = tutorial /\ stored' = stored /\ retryRequest' = retryRequest
        /\ cloneRoutine[r] = IdleRoutine /\ Schedule(h, r)
    BY <1>1 DEF StartClone, NoJob
  <2>2. cloneJob' \in JobRow /\ cloneJob'.status = "queued" /\ cloneJob'.stage = "create_project"
    BY <2>1 DEF JobRow, WorkStage
  <2>3. /\ cloneRoutine' \in [CloneRoutine -> RoutineRow]
        /\ \A s \in CloneRoutine : Backed(cloneRoutine'[s], tutorial', stored')
        /\ cloneLost' \in BOOLEAN
        /\ Attended(cloneJob', cloneRoutine', cloneLost')
    BY <2>1, <2>2, ScheduledIsAttended
  <2>4. Earned(cloneJob'.stage, tutorial', stored')
    BY <2>2 DEF Earned
  <2> QED BY <2>1, <2>2, <2>3, <2>4 DEF CloneIInv
<1>2. ASSUME NEW q \in RetryRequest, ReadForRetry(q) PROVE CloneIInv'
  <2> DEFINE stage == resumeStage(cloneJob.stage)
  <2>1. /\ retryRequest' = [retryRequest EXCEPT ![q] = stage] /\ cloneJob.status = "failed"
        /\ cloneJob' = cloneJob /\ tutorial' = tutorial /\ stored' = stored
        /\ cloneRoutine' = cloneRoutine /\ cloneLost' = cloneLost
    BY <1>2 DEF ReadForRetry
  <2>2. cloneJob.stage \in WorkStage
    BY <2>1 DEF CloneIInv, JobRow
  <2>3. stage \in WorkStage /\ Earned(stage, tutorial, stored)
    BY <2>2 DEF resumeStage, CloneIInv, Earned, WorkStage
  <2>4. /\ retryRequest' \in [RetryRequest -> {"idle"} \cup WorkStage]
        /\ \A p \in RetryRequest : retryRequest'[p] # "idle" => Earned(retryRequest'[p], tutorial, stored)
    <3> HIDE DEF stage
    <3> QED BY <2>1, <2>3 DEF CloneIInv
  <2> QED BY <2>1, <2>4 DEF CloneIInv
<1>3. ASSUME NEW q \in RetryRequest, NEW h \in CloneHost, NEW r \in CloneRoutine, RetryClone(q, h, r) PROVE CloneIInv'
  <2>1. /\ retryRequest' = [retryRequest EXCEPT ![q] = "idle"] /\ retryRequest[q] # "idle"
        /\ tutorial' = tutorial /\ stored' = stored
    BY <1>3 DEF RetryClone
  <2>2. /\ retryRequest' \in [RetryRequest -> {"idle"} \cup WorkStage]
        /\ \A p \in RetryRequest : retryRequest'[p] # "idle" => Earned(retryRequest'[p], tutorial, stored)
    BY <2>1 DEF CloneIInv
  <2>3. CASE Retriable
    <3>1. /\ cloneJob' = [stage |-> retryRequest[q], status |-> "queued"]
          /\ cloneRoutine[r] = IdleRoutine /\ Schedule(h, r)
      BY <1>3, <2>3 DEF RetryClone
    <3>2. retryRequest[q] \in WorkStage /\ Earned(retryRequest[q], tutorial, stored)
      BY <2>1 DEF CloneIInv
    <3>3. /\ cloneJob' \in JobRow /\ cloneJob'.status = "queued" /\ cloneJob'.stage # "pack_installed"
          /\ Earned(cloneJob'.stage, tutorial, stored)
      BY <3>1, <3>2 DEF JobRow, WorkStage
    <3>4. /\ cloneRoutine' \in [CloneRoutine -> RoutineRow]
          /\ \A s \in CloneRoutine : Backed(cloneRoutine'[s], tutorial', stored')
          /\ cloneLost' \in BOOLEAN
          /\ Attended(cloneJob', cloneRoutine', cloneLost')
      BY <2>1, <3>1, <3>3, ScheduledIsAttended
    <3> QED BY <2>1, <2>2, <3>3, <3>4 DEF CloneIInv
  <2>4. CASE ~Retriable
    <3>1. cloneJob' = cloneJob /\ cloneRoutine' = cloneRoutine /\ cloneLost' = cloneLost
      BY <1>3, <2>4 DEF RetryClone
    <3> QED BY <2>1, <2>2, <3>1 DEF CloneIInv
  <2> QED BY <2>3, <2>4
<1> QED BY <1>1, <1>2, <1>3

\* Acquire, the comparisons that end a stage, and the runners.
LEMMA CloneTransitionStep ==
    ASSUME CloneIInv, NEW r \in CloneRoutine
    PROVE  /\ AcquireClone(r) => CloneIInv'
           /\ AdvanceClone(r) => CloneIInv'
           /\ FailClone(r) => CloneIInv'
           /\ TransitionError(r) => CloneIInv'
           /\ \A h \in CloneHost : StartRunner(h, r) => CloneIInv'
<1>0. /\ cloneRoutine[r] \in RoutineRow /\ IdleRoutine \in RoutineRow
      /\ \A t, o : Backed(IdleRoutine, t, o)
      /\ EffectsGrow(tutorial, stored, tutorial, stored)
  BY NothingChanges, RowsDiffer DEF CloneIInv, RoutineRow, Backed, IdleRoutine
<1>1. ASSUME AcquireClone(r) PROVE CloneIInv'
  <2>1. /\ cloneRoutine[r].step = "acquire" /\ cloneRoutine[r].host \in CloneHost
        /\ tutorial' = tutorial /\ stored' = stored /\ retryRequest' = retryRequest /\ cloneLost' = cloneLost
    BY <1>0, <1>1, RowsDiffer DEF AcquireClone, AcquireRow
  <2>2. CASE cloneJob.status = "queued"
    <3> DEFINE v == [step |-> "work", host |-> cloneRoutine[r].host,
                     stage |-> cloneJob.stage, left |-> PackObject]
    <3>1. cloneJob' = [cloneJob EXCEPT !.status = "running"] /\ Routine(r, v)
      BY <1>1, <2>2 DEF AcquireClone
    <3>2. cloneJob.stage \in WorkStage
      BY <2>2 DEF CloneIInv, JobRow
    <3>3. v \in WorkRow /\ v \in RoutineRow /\ v.stage = cloneJob.stage /\ v.step = "work" /\ v.left = PackObject
      BY <2>1, <3>2 DEF WorkRow, RoutineRow
    <3>4. cloneJob' \in JobRow /\ cloneJob'.stage = cloneJob.stage /\ cloneJob'.status = "running"
      BY <3>1 DEF CloneIInv, JobRow
    <3> HIDE DEF v
    <3>5. Backed(v, tutorial', stored')
      BY <2>1, <3>3 DEF Backed, CloneIInv
    <3>6. /\ cloneRoutine' \in [CloneRoutine -> RoutineRow] /\ cloneRoutine'[r] = v
          /\ \A s \in CloneRoutine : Backed(cloneRoutine'[s], tutorial', stored')
      BY <1>0, <2>1, <3>1, <3>3, <3>5, RoutineMoves
    <3>7. Attended(cloneJob', cloneRoutine', cloneLost')
      BY <3>3, <3>4, <3>6 DEF Attended
    <3>8. cloneJob'.stage # "pack_installed" /\ Earned(cloneJob'.stage, tutorial', stored')
      BY <2>1, <3>2, <3>4 DEF CloneIInv, WorkStage
    <3> QED BY <2>1, <3>4, <3>6, <3>7, <3>8 DEF CloneIInv
  <2>3. CASE cloneJob.status # "queued"
    <3>1. cloneJob' = cloneJob /\ Routine(r, IdleRoutine)
      BY <1>1, <2>3 DEF AcquireClone
    <3>2. /\ cloneRoutine' \in [CloneRoutine -> RoutineRow] /\ cloneRoutine'[r] = IdleRoutine
          /\ \A s \in CloneRoutine : s # r => cloneRoutine'[s] = cloneRoutine[s]
          /\ \A s \in CloneRoutine : Backed(cloneRoutine'[s], tutorial', stored')
      BY <1>0, <2>1, <3>1, RoutineMoves
    <3>3. cloneRoutine[r] \notin WorkRow
      BY <2>1 DEF WorkRow
    <3>4. Attended(cloneJob', cloneRoutine', cloneLost')
      BY <2>1, <2>3, <3>1, <3>2, <3>3 DEF Attended, CloneIInv
    <3> QED BY <2>1, <3>1, <3>2, <3>4 DEF CloneIInv
  <2> QED BY <2>2, <2>3
<1>2. ASSUME AdvanceClone(r) PROVE CloneIInv'
  <2> DEFINE stage == cloneRoutine[r].stage
             next == CloneStage[StageNumber(stage) + 1]
             v == IF Owned(stage) /\ next # "pack_installed" THEN Scheduled(cloneRoutine[r].host) ELSE IdleRoutine
  <2>1. /\ cloneRoutine[r].step = "advance" /\ Routine(r, v)
        /\ cloneJob' = IF Owned(stage) THEN [stage |-> next, status |-> StatusOf(next)] ELSE cloneJob
        /\ tutorial' = tutorial /\ stored' = stored /\ retryRequest' = retryRequest /\ cloneLost' = cloneLost
    BY <1>2 DEF AdvanceClone
  <2>2. cloneRoutine[r] \in WorkRow /\ stage \in WorkStage /\ cloneRoutine[r].host \in CloneHost
    BY <1>0, <2>1, RowsDiffer DEF WorkRow
  <2>3. /\ next \in WorkStage \cup {"pack_installed"} /\ next # "create_project"
        /\ next = "create_runtime_resources" <=> stage = "write_private_store"
        /\ next = "pack_installed" <=> stage = "create_runtime_resources"
    <3> HIDE DEF stage
    <3> QED BY <2>2, NextStage
  <2>4. Earned(next, tutorial, stored)
    <3>1. Backed(cloneRoutine[r], tutorial, stored)
      BY DEF CloneIInv
    <3> HIDE DEF next
    <3> QED BY <2>1, <2>2, <2>3, <3>1 DEF Backed, Earned, WorkStage
  <2> HIDE DEF next
  <2>5. /\ v \in RoutineRow /\ \A t, o : Backed(v, t, o)
        /\ Owned(stage) /\ next # "pack_installed" => v.step = "acquire"
    <3>1. Scheduled(cloneRoutine[r].host) \in AcquireRow /\ Scheduled(cloneRoutine[r].host).step = "acquire"
      BY <2>2 DEF Scheduled, AcquireRow
    <3>2. Scheduled(cloneRoutine[r].host) \in RoutineRow
      BY <3>1 DEF RoutineRow
    <3>3. \A t, o : Backed(Scheduled(cloneRoutine[r].host), t, o)
      BY <3>1, <3>2, RowsDiffer DEF Backed
    <3> QED BY <1>0, <3>1, <3>2, <3>3
  <2> HIDE DEF v
  <2>6. /\ cloneRoutine' \in [CloneRoutine -> RoutineRow] /\ cloneRoutine'[r] = v
        /\ \A s \in CloneRoutine : s # r => cloneRoutine'[s] = cloneRoutine[s]
        /\ \A s \in CloneRoutine : Backed(cloneRoutine'[s], tutorial', stored')
    BY <1>0, <2>1, <2>5, RoutineMoves
  <2>7. CASE Owned(stage)
    <3>1. /\ cloneJob' \in JobRow /\ cloneJob'.stage = next
          /\ cloneJob'.status = IF next = "pack_installed" THEN "completed" ELSE "queued"
      BY <2>1, <2>3, <2>7 DEF JobRow, StatusOf
    <3>2. Attended(cloneJob', cloneRoutine', cloneLost')
      BY <2>5, <2>6, <2>7, <3>1 DEF Attended
    <3> QED BY <2>1, <2>4, <2>6, <3>1, <3>2 DEF CloneIInv
  <2>8. CASE ~Owned(stage)
    <3>1. cloneJob' = cloneJob
      BY <2>1, <2>8
    <3>2. cloneRoutine[r].step # "acquire"
      BY <2>1
    <3>3. ~(cloneJob.status = "running" /\ stage = cloneJob.stage)
      BY <2>8 DEF Owned
    <3>4. Attended(cloneJob', cloneRoutine', cloneLost')
      BY <2>1, <2>6, <3>1, <3>2, <3>3 DEF Attended, CloneIInv
    <3> QED BY <2>1, <2>6, <3>1, <3>4 DEF CloneIInv
  <2> QED BY <2>7, <2>8
<1>3. ASSUME FailClone(r) PROVE CloneIInv'
  <2>1. /\ cloneRoutine[r].step = "fail" /\ Routine(r, IdleRoutine)
        /\ cloneJob' = IF Owned(cloneRoutine[r].stage) THEN [cloneJob EXCEPT !.status = "failed"] ELSE cloneJob
        /\ tutorial' = tutorial /\ stored' = stored /\ retryRequest' = retryRequest /\ cloneLost' = cloneLost
    BY <1>3 DEF FailClone
  <2>2. /\ cloneRoutine' \in [CloneRoutine -> RoutineRow] /\ cloneRoutine'[r] = IdleRoutine
        /\ \A s \in CloneRoutine : s # r => cloneRoutine'[s] = cloneRoutine[s]
        /\ \A s \in CloneRoutine : Backed(cloneRoutine'[s], tutorial', stored')
    BY <1>0, <2>1, RoutineMoves
  <2>3. CASE Owned(cloneRoutine[r].stage)
    <3>1. cloneJob' \in JobRow /\ cloneJob'.stage = cloneJob.stage /\ cloneJob'.status = "failed"
      BY <2>1, <2>3 DEF CloneIInv, JobRow
    <3>2. Attended(cloneJob', cloneRoutine', cloneLost') /\ cloneJob.stage # "pack_installed"
      BY <2>3, <3>1 DEF Attended, CloneIInv, Owned
    <3> QED BY <2>1, <2>2, <3>1, <3>2 DEF CloneIInv
  <2>4. CASE ~Owned(cloneRoutine[r].stage)
    <3>1. cloneJob' = cloneJob /\ cloneRoutine[r].step # "acquire"
      BY <2>1, <2>4
    <3>2. ~(cloneJob.status = "running" /\ cloneRoutine[r].stage = cloneJob.stage)
      BY <2>4 DEF Owned
    <3>4. Attended(cloneJob', cloneRoutine', cloneLost')
      BY <2>1, <2>2, <3>1, <3>2 DEF Attended, CloneIInv
    <3> QED BY <2>1, <2>2, <3>1, <3>4 DEF CloneIInv
  <2> QED BY <2>3, <2>4
<1>4. ASSUME TransitionError(r) PROVE CloneIInv'
  <2>1. /\ Routine(r, IdleRoutine) /\ cloneJob' = cloneJob /\ cloneLost' = TRUE
        /\ tutorial' = tutorial /\ stored' = stored /\ retryRequest' = retryRequest
    BY <1>4 DEF TransitionError
  <2>2. /\ cloneRoutine' \in [CloneRoutine -> RoutineRow]
        /\ \A s \in CloneRoutine : Backed(cloneRoutine'[s], tutorial', stored')
    BY <1>0, <2>1, RoutineMoves
  <2>3. Attended(cloneJob', cloneRoutine', cloneLost') /\ cloneLost' \in BOOLEAN
    BY <2>1 DEF Attended
  <2> QED BY <2>1, <2>2, <2>3 DEF CloneIInv
<1>5. ASSUME NEW h \in CloneHost, StartRunner(h, r) PROVE CloneIInv'
  <2>1. /\ cloneJob.status \in {"queued", "running"}
        /\ cloneJob' = [cloneJob EXCEPT !.status = Recovered(cloneJob.status)]
        /\ Routine(r, Scheduled(h)) /\ cloneLost' = FALSE
        /\ tutorial' = tutorial /\ stored' = stored /\ retryRequest' = retryRequest
    BY <1>5 DEF StartRunner
  <2>2. cloneJob' \in JobRow /\ cloneJob'.stage = cloneJob.stage /\ cloneJob'.status = "queued"
    BY <2>1 DEF CloneIInv, JobRow, Recovered
  <2>3. /\ Scheduled(h) \in RoutineRow /\ Scheduled(h).step = "acquire"
        /\ \A t, o : Backed(Scheduled(h), t, o)
    <3>1. Scheduled(h) \in AcquireRow /\ Scheduled(h) \in RoutineRow /\ Scheduled(h).step = "acquire"
      BY DEF Scheduled, AcquireRow, RoutineRow
    <3> QED BY <3>1, RowsDiffer DEF Backed
  <2>4. /\ cloneRoutine' \in [CloneRoutine -> RoutineRow] /\ cloneRoutine'[r] = Scheduled(h)
        /\ \A s \in CloneRoutine : Backed(cloneRoutine'[s], tutorial', stored')
    BY <1>0, <2>1, <2>3, RoutineMoves
  <2>5. Attended(cloneJob', cloneRoutine', cloneLost') /\ cloneLost' \in BOOLEAN
    BY <2>1, <2>2, <2>3, <2>4 DEF Attended
  <2>6. cloneJob.stage # "pack_installed"
    BY <2>1 DEF CloneIInv
  <2> QED BY <2>1, <2>2, <2>4, <2>5, <2>6 DEF CloneIInv
<1> QED BY <1>1, <1>2, <1>3, <1>4, <1>5

LEMMA StopStep ==
    ASSUME CloneIInv, NEW h \in CloneHost, StopRunner(h)
    PROVE  CloneIInv'
<1>0. IdleRoutine \in RoutineRow /\ \A t, o : Backed(IdleRoutine, t, o)
  BY RowsDiffer DEF RoutineRow, Backed, IdleRoutine
<1>1. /\ cloneJob' = cloneJob /\ cloneLost' = TRUE
      /\ tutorial' = tutorial /\ stored' = stored /\ retryRequest' = retryRequest
      /\ cloneRoutine' = [s \in CloneRoutine |-> cloneRoutine'[s]]
      /\ \A s \in CloneRoutine : cloneRoutine'[s] \in {IdleRoutine, cloneRoutine[s]}
  BY DEF StopRunner
<1>2. /\ cloneRoutine' \in [CloneRoutine -> RoutineRow]
      /\ \A s \in CloneRoutine : Backed(cloneRoutine'[s], tutorial', stored')
  BY <1>0, <1>1 DEF CloneIInv
<1>3. Attended(cloneJob', cloneRoutine', cloneLost') /\ cloneLost' \in BOOLEAN
  BY <1>1 DEF Attended
<1> QED BY <1>1, <1>2, <1>3 DEF CloneIInv

\* The effects of a stage.
LEMMA CloneWorkStep ==
    ASSUME CloneIInv, NEW r \in CloneRoutine
    PROVE  /\ EnsureProject(r) => CloneIInv'
           /\ EnsureExperiment(r) => CloneIInv'
           /\ FetchManifest(r) => CloneIInv'
           /\ \A o \in PackObject : PutVerified(r, o) => CloneIInv'
           /\ InstallEnds(r) => CloneIInv'
           /\ CreateResources(r) => CloneIInv'
           /\ SetExperimentStatus(r) => CloneIInv'
           /\ StageError(r) => CloneIInv'
<1> DEFINE e == cloneRoutine[r]
<1>0. /\ e \in RoutineRow /\ Backed(e, tutorial, stored) /\ (e \in WorkRow <=> e.step \notin {"idle", "acquire"})
      /\ tutorial \in TutorialRow /\ stored \subseteq PackObject
      /\ EffectsGrow(tutorial, stored, tutorial, stored)
  BY NothingChanges, RowsDiffer DEF CloneIInv
\* What every step of a stage leaves of the invariant.
<1>a. ASSUME e \in WorkRow, NEW v \in WorkRow, v.stage = e.stage, Routine(r, v),
             EffectsGrow(tutorial, stored, tutorial', stored'), Backed(v, tutorial', stored'),
             tutorial' \in TutorialRow,
             tutorial'.pack = "installed" => tutorial'.runtime \in RuntimeStatuses /\ stored' = PackObject,
             tutorial'.runtime \in RuntimeStatuses => tutorial'.pack # "absent",
             cloneJob' = cloneJob, retryRequest' = retryRequest, cloneLost' = cloneLost
      PROVE  CloneIInv'
  <2>1. v \in RoutineRow
    BY <1>a DEF RoutineRow
  <2>2. /\ cloneRoutine' \in [CloneRoutine -> RoutineRow] /\ cloneRoutine'[r] = v
        /\ \A s \in CloneRoutine : s # r => cloneRoutine'[s] = cloneRoutine[s]
        /\ \A s \in CloneRoutine : Backed(cloneRoutine'[s], tutorial', stored')
    BY <1>a, <2>1, RoutineMoves
  <2>3. Attended(cloneJob, cloneRoutine', cloneLost)
    BY <1>a, <2>2, StaysAttended
  <2>4. /\ Earned(cloneJob.stage, tutorial', stored')
        /\ \A q \in RetryRequest : retryRequest[q] # "idle" => Earned(retryRequest[q], tutorial', stored')
    BY <1>a, StaysEarned
  <2>5. stored' \subseteq PackObject
    BY <1>a DEF EffectsGrow
  <2> QED BY <1>a, <2>2, <2>3, <2>4, <2>5 DEF CloneIInv
\* The same for a step without an effect.
<1>b. ASSUME e \in WorkRow, NEW v \in WorkRow, v.stage = e.stage, Routine(r, v), Backed(v, tutorial, stored),
             tutorial' = tutorial, stored' = stored,
             cloneJob' = cloneJob, retryRequest' = retryRequest, cloneLost' = cloneLost
      PROVE  CloneIInv'
  <2>1. /\ tutorial.pack = "installed" => tutorial.runtime \in RuntimeStatuses /\ stored = PackObject
        /\ tutorial.runtime \in RuntimeStatuses => tutorial.pack # "absent"
    BY DEF CloneIInv
  <2> QED BY <1>0, <1>a, <1>b, <2>1
<1>1. ASSUME EnsureProject(r) PROVE CloneIInv'
  <2> DEFINE v == [e EXCEPT !.step = "experiment"]
  <2>1. /\ e.step = "work" /\ e.stage = "create_project" /\ Routine(r, v)
        /\ tutorial' = [tutorial EXCEPT !.project = TRUE] /\ stored' = stored
        /\ cloneJob' = cloneJob /\ retryRequest' = retryRequest /\ cloneLost' = cloneLost
    BY <1>1 DEF EnsureProject, Works, Worked
  <2>2. /\ e \in WorkRow /\ v \in WorkRow /\ v.step = "experiment" /\ v.stage = e.stage
    BY <1>0, <2>1, WorkedRow
  <2>3. /\ tutorial' \in TutorialRow /\ tutorial'.project = TRUE
        /\ tutorial'.pack = tutorial.pack /\ tutorial'.runtime = tutorial.runtime
    BY <1>0, <2>1 DEF TutorialRow
  <2>4. EffectsGrow(tutorial, stored, tutorial', stored')
    BY <1>0, <2>1, <2>3 DEF EffectsGrow
  <2> HIDE DEF v, e
  <2>5. Backed(v, tutorial', stored')
    BY <2>1, <2>2, <2>3 DEF Backed, Earned
  <2>6. /\ tutorial'.pack = "installed" => tutorial'.runtime \in RuntimeStatuses /\ stored' = PackObject
        /\ tutorial'.runtime \in RuntimeStatuses => tutorial'.pack # "absent"
    BY <2>1, <2>3 DEF CloneIInv
  <2> QED BY <1>a, <2>1, <2>2, <2>3, <2>4, <2>5, <2>6
<1>2. ASSUME EnsureExperiment(r) PROVE CloneIInv'
  <2> DEFINE v == [e EXCEPT !.step = "advance"]
  <2>1. /\ e.step = "experiment" /\ Routine(r, v)
        /\ tutorial' = IF tutorial.pack # "absent" THEN tutorial
                       ELSE [tutorial EXCEPT !.pack = "installing", !.runtime = "pending"]
        /\ stored' = stored
        /\ cloneJob' = cloneJob /\ retryRequest' = retryRequest /\ cloneLost' = cloneLost
    BY <1>2 DEF EnsureExperiment, Worked
  <2>2. e \in WorkRow /\ v \in WorkRow /\ v.step = "advance" /\ v.stage = e.stage
    BY <1>0, <2>1, WorkedRow
  <2>3. e.stage = "create_project" /\ tutorial.project = TRUE
    BY <1>0, <2>1, <2>2 DEF Backed
  <2>4. /\ tutorial' \in TutorialRow /\ tutorial'.pack # "absent"
        /\ tutorial.pack # "absent" => tutorial' = tutorial
        /\ tutorial.pack = "absent" => tutorial'.pack = "installing" /\ tutorial'.runtime = "pending"
    BY <1>0, <2>1 DEF TutorialRow
  <2>5. tutorial'.project = tutorial.project
    BY <1>0, <2>1 DEF TutorialRow
  <2>6. /\ EffectsGrow(tutorial, stored, tutorial', stored')
        /\ tutorial'.pack = "installed" => tutorial'.runtime \in RuntimeStatuses /\ stored' = PackObject
    BY <1>0, <2>1, <2>4, <2>5 DEF EffectsGrow, CloneIInv, RuntimeStatuses
  <2> HIDE DEF v, e
  <2>7. Backed(v, tutorial', stored')
    BY <2>2, <2>3, <2>4, <2>5 DEF Backed, Earned
  <2> QED BY <1>a, <2>1, <2>2, <2>4, <2>6, <2>7
<1>3. ASSUME FetchManifest(r) PROVE CloneIInv'
  <2> DEFINE v == [e EXCEPT !.step = "advance"]
  <2>1. /\ e.step = "work" /\ e.stage \in {"validate_manifest", "download_pack", "verify_pack"} /\ Routine(r, v)
        /\ tutorial' = tutorial /\ stored' = stored
        /\ cloneJob' = cloneJob /\ retryRequest' = retryRequest /\ cloneLost' = cloneLost
    BY <1>3 DEF FetchManifest, Works, Worked
  <2>2. e \in WorkRow /\ v \in WorkRow /\ v.step = "advance" /\ v.stage = e.stage
    BY <1>0, <2>1, WorkedRow
  <2> HIDE DEF v, e
  <2>3. Backed(v, tutorial, stored)
    BY <1>0, <2>1, <2>2 DEF Backed
  <2> QED BY <1>b, <2>1, <2>2, <2>3
<1>4. ASSUME NEW o \in PackObject, PutVerified(r, o) PROVE CloneIInv'
  <2> DEFINE v == [e EXCEPT !.left = @ \ {o}]
  <2>1. /\ e.step = "work" /\ e.stage = "write_private_store" /\ o \in e.left /\ Routine(r, v)
        /\ tutorial' = tutorial /\ stored' = stored \cup {o}
        /\ cloneJob' = cloneJob /\ retryRequest' = retryRequest /\ cloneLost' = cloneLost
    BY <1>4 DEF PutVerified, Works
  <2>2. e \in WorkRow
    BY <1>0, <2>1
  <2>3. v \in WorkRow /\ v.step = "work" /\ v.stage = e.stage /\ v.left = e.left \ {o}
    BY <2>1, <2>2 DEF WorkRow
  <2>4. EffectsGrow(tutorial, stored, tutorial', stored')
    BY <1>0, <2>1 DEF EffectsGrow
  <2> HIDE DEF v, e
  <2>5. Earned(v.stage, tutorial', stored')
    BY <1>0, <2>1, <2>2, <2>3 DEF Backed, Earned
  <2>6. Backed(v, tutorial', stored')
    BY <1>0, <2>1, <2>2, <2>3, <2>5 DEF Backed
  <2>7. /\ tutorial'.pack = "installed" => tutorial'.runtime \in RuntimeStatuses /\ stored' = PackObject
        /\ tutorial'.runtime \in RuntimeStatuses => tutorial'.pack # "absent"
    BY <2>1 DEF CloneIInv
  <2> QED BY <1>0, <1>a, <2>1, <2>2, <2>3, <2>4, <2>6, <2>7
<1>5. ASSUME InstallEnds(r) PROVE CloneIInv'
  <2> DEFINE v == [e EXCEPT !.step = "advance"]
  <2>1. /\ e.step = "work" /\ e.stage = "write_private_store" /\ e.left = {} /\ Routine(r, v)
        /\ tutorial' = tutorial /\ stored' = stored
        /\ cloneJob' = cloneJob /\ retryRequest' = retryRequest /\ cloneLost' = cloneLost
    BY <1>5 DEF InstallEnds, Works, Worked
  <2>2. e \in WorkRow /\ v \in WorkRow /\ v.step = "advance" /\ v.stage = e.stage
    BY <1>0, <2>1, WorkedRow
  <2> HIDE DEF v, e
  <2>3. stored = PackObject
    BY <1>0, <2>1, <2>2 DEF Backed
  <2>4. Backed(v, tutorial, stored)
    BY <1>0, <2>1, <2>2, <2>3 DEF Backed
  <2> QED BY <1>b, <2>1, <2>2, <2>4
<1>6. ASSUME CreateResources(r) PROVE CloneIInv'
  <2>1. /\ e.step = "work" /\ e.stage = "create_runtime_resources" /\ stored' = stored
        /\ cloneJob' = cloneJob /\ retryRequest' = retryRequest /\ cloneLost' = cloneLost
    BY <1>6 DEF CreateResources, Works
  <2>2. CASE tutorial.pack = "absent"
    <3> DEFINE v == [e EXCEPT !.step = "fail"]
    <3>1. Routine(r, v) /\ tutorial' = tutorial
      BY <1>6, <2>2 DEF CreateResources, Worked
    <3>2. e \in WorkRow /\ v \in WorkRow /\ v.step = "fail" /\ v.stage = e.stage
      BY <1>0, <2>1, WorkedRow
    <3> HIDE DEF v, e
    <3>3. Backed(v, tutorial, stored)
      BY <1>0, <2>1, <3>2 DEF Backed
    <3> QED BY <1>b, <2>1, <3>1, <3>2, <3>3
  <2>3. CASE tutorial.pack # "absent"
    <3> DEFINE v == [e EXCEPT !.step = "status"]
    <3>0. Routine(r, v) /\ tutorial' \in Updated("runtime")
      BY <1>6, <2>3 DEF CreateResources, Worked, ExperimentUpdates
    <3>1. PICK status \in RuntimeStatuses : tutorial' = [tutorial EXCEPT !.runtime = status]
      BY <3>0 DEF Updated
    <3>2. e \in WorkRow /\ v \in WorkRow /\ v.step = "status" /\ v.stage = e.stage
      BY <1>0, <2>1, WorkedRow
    <3>3. /\ tutorial' \in TutorialRow /\ tutorial'.runtime \in RuntimeStatuses /\ tutorial'.pack = tutorial.pack
      BY <1>0, <3>1 DEF TutorialRow
    <3>4. tutorial'.project = tutorial.project
      BY <1>0, <3>1 DEF TutorialRow
    <3>5. EffectsGrow(tutorial, stored, tutorial', stored')
      BY <1>0, <2>1, <3>3, <3>4 DEF EffectsGrow
    <3> HIDE DEF v, e
    <3>6. Earned(v.stage, tutorial, stored) /\ v \in RoutineRow
      BY <1>0, <2>1, <3>2 DEF Backed, RoutineRow
    <3>7. Backed(v, tutorial', stored')
      BY <2>1, <2>3, <3>2, <3>3, <3>4, <3>6 DEF Backed, Earned
    <3>8. tutorial'.pack = "installed" => tutorial'.runtime \in RuntimeStatuses /\ stored' = PackObject
      BY <2>1, <3>3 DEF CloneIInv
    <3> QED BY <1>a, <2>1, <2>3, <3>0, <3>2, <3>3, <3>5, <3>7, <3>8
  <2> QED BY <2>2, <2>3
<1>7. ASSUME SetExperimentStatus(r) PROVE CloneIInv'
  <2> DEFINE v == [e EXCEPT !.step = "advance"]
  <2>1. /\ e.step = "status" /\ Routine(r, v)
        /\ tutorial' = [tutorial EXCEPT !.pack = "installed"] /\ stored' = stored
        /\ cloneJob' = cloneJob /\ retryRequest' = retryRequest /\ cloneLost' = cloneLost
    BY <1>7 DEF SetExperimentStatus, Worked, Updated, ExperimentUpdates
  <2>2. e \in WorkRow /\ v \in WorkRow /\ v.step = "advance" /\ v.stage = e.stage
    BY <1>0, <2>1, WorkedRow
  <2>3. /\ e.stage = "create_runtime_resources" /\ tutorial.runtime \in RuntimeStatuses
        /\ tutorial.project = TRUE /\ stored = PackObject
    BY <1>0, <2>1, <2>2 DEF Backed, Earned
  <2>4. tutorial' \in TutorialRow /\ tutorial'.pack = "installed" /\ tutorial'.runtime = tutorial.runtime
    BY <1>0, <2>1 DEF TutorialRow
  <2>5. tutorial'.project = tutorial.project
    BY <1>0, <2>1 DEF TutorialRow
  <2>6. EffectsGrow(tutorial, stored, tutorial', stored')
    BY <1>0, <2>1, <2>4, <2>5 DEF EffectsGrow
  <2> HIDE DEF v, e
  <2>7. Backed(v, tutorial', stored')
    BY <2>1, <2>2, <2>3, <2>4, <2>5 DEF Backed, Earned
  <2> QED BY <1>a, <2>1, <2>2, <2>3, <2>4, <2>6, <2>7
<1>8. ASSUME StageError(r) PROVE CloneIInv'
  <2> DEFINE v == [e EXCEPT !.step = "fail"]
  <2>1. /\ e.step \in {"work", "experiment", "status"} /\ Routine(r, v)
        /\ tutorial' = tutorial /\ stored' = stored
        /\ cloneJob' = cloneJob /\ retryRequest' = retryRequest /\ cloneLost' = cloneLost
    BY <1>8 DEF StageError, Worked
  <2>2. e \in WorkRow /\ v \in WorkRow /\ v.step = "fail" /\ v.stage = e.stage
    BY <1>0, <2>1, WorkedRow
  <2> HIDE DEF v, e
  <2>3. Backed(v, tutorial, stored)
    BY <1>0, <2>2 DEF Backed
  <2> QED BY <1>b, <2>1, <2>2, <2>3
<1> QED BY <1>1, <1>2, <1>3, <1>4, <1>5, <1>6, <1>7, <1>8

LEMMA CloneStep == CloneIInv /\ [CloneNext]_cloneVars => CloneIInv'
<1> SUFFICES ASSUME CloneIInv, [CloneNext]_cloneVars PROVE CloneIInv'
  OBVIOUS
<1>1. CASE UNCHANGED cloneVars
  BY <1>1 DEF cloneVars, CloneIInv
<1>2. ASSUME NEW h \in CloneHost, StopRunner(h) PROVE CloneIInv'
  BY <1>2, StopStep
<1> QED BY <1>1, <1>2, CloneRequestStep, CloneWorkStep, CloneTransitionStep DEF CloneNext

\* A clone goes on by what was done: through recoveries of other processes,
\* retries from an old reading and two goroutines at work, no stage is
\* skipped, no pack is shown as installed without its objects and a decided
\* runtime, and no job is left without a goroutine unless a transition was
\* lost (CloneService.Run).
THEOREM ClonesEarned == CloneSpec => []CloneIsEarned
<1>1. CloneInit => CloneIInv
  <2> SUFFICES ASSUME CloneInit PROVE CloneIInv
    OBVIOUS
  <2>1. /\ cloneJob \in JobRow /\ cloneJob.stage = "create_project" /\ cloneJob.status = "absent"
        /\ stored = {} /\ cloneLost = FALSE
    BY DEF CloneInit, NoJob, JobRow, WorkStage
  <2>2. tutorial \in TutorialRow /\ tutorial.pack = "absent" /\ tutorial.runtime = "absent"
    BY DEF CloneInit, TutorialRow
  <2>3. /\ cloneRoutine \in [CloneRoutine -> RoutineRow]
        /\ retryRequest \in [RetryRequest -> {"idle"} \cup WorkStage]
        /\ \A q \in RetryRequest : retryRequest[q] = "idle"
        /\ \A r \in CloneRoutine : cloneRoutine[r] \notin WorkRow
    BY DEF CloneInit, RoutineRow, IdleRoutine, WorkRow
  <2>4. /\ Attended(cloneJob, cloneRoutine, cloneLost) /\ Earned(cloneJob.stage, tutorial, stored)
        /\ \A r \in CloneRoutine : Backed(cloneRoutine[r], tutorial, stored)
    BY <2>1, <2>3 DEF Attended, Earned, Backed
  <2> QED BY <2>1, <2>2, <2>3, <2>4 DEF CloneIInv, RuntimeStatuses
<1>2. CloneIInv => CloneIsEarned
  <2> SUFFICES ASSUME CloneIInv PROVE StageEarned /\ InstalledIsWhole /\ CloneNotStranded
    BY DEF CloneIsEarned
  <2>1. StageEarned
    <3>1. cloneJob.stage \in WorkStage \cup {"pack_installed"} /\ Earned(cloneJob.stage, tutorial, stored)
      BY DEF CloneIInv, JobRow
    <3>2. StageNumber(cloneJob.stage) > 1 => tutorial.project = TRUE /\ tutorial.pack # "absent"
      BY <3>1, StageNumbers DEF Earned
    <3>3. StageNumber(cloneJob.stage) > 5 => stored = PackObject
      BY <3>1, StageNumbers DEF Earned, WorkStage
    <3>4. StageNumber("create_project") = 1 /\ StageNumber("write_private_store") = 5
      BY StageNumbers
    <3> QED BY <3>2, <3>3, <3>4, Zenon DEF StageEarned
  <2>2. InstalledIsWhole
    BY DEF CloneIInv, InstalledIsWhole
  <2>3. CloneNotStranded
    <3> SUFFICES ASSUME cloneJob.status \in {"queued", "running"}, ~cloneLost
                 PROVE  \E r \in CloneRoutine :
                          \/ cloneRoutine[r].step = "acquire"
                          \/ cloneRoutine[r].step # "idle" /\ cloneJob.status = "running" /\ cloneRoutine[r].stage = cloneJob.stage
      BY DEF CloneNotStranded
    <3>1. cloneLost = FALSE
      BY Zenon DEF CloneIInv
    <3>2. \A r \in CloneRoutine : cloneRoutine[r] \in WorkRow => cloneRoutine[r].step # "idle"
      BY DEF WorkRow
    <3> QED BY <3>1, <3>2 DEF CloneIInv, Attended
  <2> QED BY <2>1, <2>2, <2>3
<1> QED BY <1>1, <1>2, CloneStep, PTL DEF CloneSpec

-----------------------------------------------------------------------------
(***************************************************************************)
(* Tutorial runs                                                           *)
(***************************************************************************)

TutorialRunRow ==
    [status : ExperimentRunStatus, stage : {"index", "evaluate", "completed"}, stats : BOOLEAN,
     evaluation : BOOLEAN, baseline : SUBSET Baselines]

RunAcquireRow == [step : {"acquire"}, host : RunHost, run : TutorialRuns]

RunWorkRow ==
    [step : {"index", "advance", "evaluate", "fail", "finish"}, host : RunHost, run : TutorialRuns,
     stage : {"index", "evaluate"}, left : SUBSET PackDocument]

RunRoutineRow == {IdleRun} \cup RunAcquireRow \cup RunWorkRow

\* A row past its index has statistics and a whole index, its own or the
\* baseline's; only the latter starts there.
RowIsSound(n, row, docs) ==
    /\ row \in TutorialRunRow
    /\ row.status = "absent" => row.stage = "index"
    /\ row.status = "completed" => row.stage = "completed" /\ row.evaluation = TRUE
    /\ row.status \in {"queued", "running"} => row.stage # "completed"
    /\ row.stage # "index" => row.stats = TRUE /\ (n \notin ReusesIndex => docs[n] = PackDocument)
    /\ n \in ReusesIndex /\ row.status # "absent" => row.stage # "index"

BaselineDone(n, row, rows) ==
    n \notin Baselines /\ row.status # "absent" =>
        \E b \in Baselines : row.baseline = {b} /\ rows[b].status = "completed"

\* What a goroutine knows of the run it works on.
RoutineIsSound(e, rows, docs) ==
    e \in RunWorkRow =>
      /\ rows[e.run].status # "absent"
      /\ e.step \in {"index", "advance"} => e.stage = "index"
      /\ e.step = "evaluate" => e.stage = "evaluate"
      /\ e.stage = "index" => e.run \notin ReusesIndex
      /\ e.step = "index" => PackDocument \ e.left \subseteq docs[e.run]
      /\ e.step = "advance" => rows[e.run].stats = TRUE /\ docs[e.run] = PackDocument

\* A queued run has a goroutine about to acquire it, a running one a goroutine
\* whose transition will find its stage, a requested cancellation one that
\* will finish it.
RunAttended(n, row, routines, lost) ==
    n \notin lost =>
      /\ row.status = "queued" => \E r \in RunRoutine : routines[r].step = "acquire" /\ routines[r].run = n
      /\ row.status = "running" =>
           \E r \in RunRoutine : /\ routines[r] \in RunWorkRow /\ routines[r].run = n
                                 /\ routines[r].stage = row.stage /\ routines[r].step # "finish"
      /\ row.status = "cancel_requested" =>
           \E r \in RunRoutine : routines[r] \in RunWorkRow /\ routines[r].run = n

TutorialRunIInv ==
    /\ tutorialRun = [n \in TutorialRuns |-> tutorialRun[n]]
    /\ indexed \in [TutorialRuns -> SUBSET PackDocument]
    /\ runRoutine \in [RunRoutine -> RunRoutineRow]
    /\ \A n \in TutorialRuns :
         /\ RowIsSound(n, tutorialRun[n], indexed)
         /\ BaselineDone(n, tutorialRun[n], tutorialRun)
         /\ RunAttended(n, tutorialRun[n], runRoutine, runLost)
    /\ \A r \in RunRoutine : RoutineIsSound(runRoutine[r], tutorialRun, indexed)

\* What a step may do to a row: one that ended stays, a requested cancellation
\* only ends, and what a candidate was started from is kept.
RowMoves(a, b) ==
    /\ a.status \in {"completed", "cancelled", "failed"} => b = a
    /\ a.status = "cancel_requested" => b.status \in {"cancel_requested", "cancelled"}
    /\ a.status # "absent" => b.status # "absent" /\ b.baseline = a.baseline
    /\ a.stats = TRUE => b.stats = TRUE

LEMMA RunRowsDiffer ==
    ASSUME NEW e \in RunRoutineRow
    PROVE  /\ e.step = "idle" <=> e = IdleRun
           /\ e.step = "acquire" <=> e \in RunAcquireRow
           /\ e \in RunWorkRow <=> e.step \notin {"idle", "acquire"}
           /\ e.step # "idle" => e.run \in TutorialRuns
BY DEF RunRoutineRow, IdleRun, RunAcquireRow, RunWorkRow

LEMMA RowUpdate ==
    ASSUME NEW row \in TutorialRunRow, NEW st \in ExperimentRunStatus
    PROVE  LET v == [row EXCEPT !.status = st]
           IN  /\ v \in TutorialRunRow /\ v.status = st /\ v.stage = row.stage
               /\ v.stats = row.stats /\ v.evaluation = row.evaluation /\ v.baseline = row.baseline
<1> DEFINE v == [row EXCEPT !.status = st]
<1>1. v \in TutorialRunRow
  BY DEF TutorialRunRow
<1>2. v.status = st /\ v.stage = row.stage /\ v.baseline = row.baseline
  BY DEF TutorialRunRow
<1>3. v.stats = row.stats /\ v.evaluation = row.evaluation
  BY DEF TutorialRunRow
<1> QED BY <1>1, <1>2, <1>3

\* The rows and the indexes of a step that moves rows only as they may.
LEMMA RunsMove ==
    ASSUME TutorialRunIInv, indexed' \in [TutorialRuns -> SUBSET PackDocument],
           \A n \in TutorialRuns : indexed[n] \subseteq indexed'[n],
           \A n \in TutorialRuns :
             /\ RowMoves(tutorialRun[n], tutorialRun'[n])
             /\ tutorialRun[n].status = "absent" => BaselineDone(n, tutorialRun'[n], tutorialRun)
    PROVE  /\ \A n \in TutorialRuns : BaselineDone(n, tutorialRun'[n], tutorialRun')
           /\ \A e \in RunRoutineRow :
                RoutineIsSound(e, tutorialRun, indexed) => RoutineIsSound(e, tutorialRun', indexed')
<1>0. Baselines \subseteq TutorialRuns
  BY TutorialRunAssumption
<1>1. ASSUME NEW n \in TutorialRuns PROVE BaselineDone(n, tutorialRun'[n], tutorialRun')
  <2>1. BaselineDone(n, tutorialRun'[n], tutorialRun)
    <3>1. CASE tutorialRun[n].status = "absent"
      BY <3>1
    <3>2. CASE tutorialRun[n].status # "absent"
      <4>1. BaselineDone(n, tutorialRun[n], tutorialRun) /\ tutorialRun'[n].baseline = tutorialRun[n].baseline
        BY <3>2 DEF TutorialRunIInv, RowMoves
      <4> QED BY <3>2, <4>1 DEF BaselineDone
    <3> QED BY <3>1, <3>2
  <2>2. \A b \in Baselines : tutorialRun[b].status = "completed" => tutorialRun'[b].status = "completed"
    BY <1>0 DEF RowMoves
  <2> QED BY <2>1, <2>2 DEF BaselineDone
<1>2. ASSUME NEW e \in RunRoutineRow, RoutineIsSound(e, tutorialRun, indexed)
      PROVE  RoutineIsSound(e, tutorialRun', indexed')
  <2> SUFFICES ASSUME e \in RunWorkRow PROVE RoutineIsSound(e, tutorialRun', indexed')
    BY DEF RoutineIsSound
  <2>1. e.run \in TutorialRuns
    BY DEF RunWorkRow
  <2>2. /\ tutorialRun'[e.run].status # "absent"
        /\ tutorialRun[e.run].stats = TRUE => tutorialRun'[e.run].stats = TRUE
        /\ indexed[e.run] \subseteq indexed'[e.run] /\ indexed'[e.run] \subseteq PackDocument
    BY <1>2, <2>1 DEF RoutineIsSound, RowMoves
  <2> QED BY <1>2, <2>2 DEF RoutineIsSound
<1> QED BY <1>1, <1>2

LEMMA RowStays == \A a : RowMoves(a, a)
BY DEF RowMoves

\* A step that writes one row.
LEMMA OneRow ==
    ASSUME TutorialRunIInv, NEW n \in TutorialRuns, NEW v, SetRun(n, v), indexed' = indexed,
           RowMoves(tutorialRun[n], v), RowIsSound(n, v, indexed),
           tutorialRun[n].status = "absent" => BaselineDone(n, v, tutorialRun)
    PROVE  /\ tutorialRun' = [m \in TutorialRuns |-> tutorialRun'[m]] /\ tutorialRun'[n] = v
           /\ \A m \in TutorialRuns : m # n => tutorialRun'[m] = tutorialRun[m]
           /\ \A m \in TutorialRuns : RowMoves(tutorialRun[m], tutorialRun'[m])
           /\ \A m \in TutorialRuns : RowIsSound(m, tutorialRun'[m], indexed')
           /\ \A m \in TutorialRuns : BaselineDone(m, tutorialRun'[m], tutorialRun')
           /\ \A e \in RunRoutineRow :
                RoutineIsSound(e, tutorialRun, indexed) => RoutineIsSound(e, tutorialRun', indexed')
<1>1. /\ tutorialRun' = [m \in TutorialRuns |-> tutorialRun'[m]] /\ tutorialRun'[n] = v
      /\ \A m \in TutorialRuns : m # n => tutorialRun'[m] = tutorialRun[m]
  BY DEF SetRun, TutorialRunIInv
<1>2. \A m \in TutorialRuns : RowMoves(tutorialRun[m], tutorialRun'[m])
  BY <1>1, RowStays
<1>3. \A m \in TutorialRuns : RowIsSound(m, tutorialRun'[m], indexed')
  BY <1>1 DEF TutorialRunIInv
<1>4. \A m \in TutorialRuns : tutorialRun[m].status = "absent" => BaselineDone(m, tutorialRun'[m], tutorialRun)
  BY <1>1 DEF TutorialRunIInv
<1>5. indexed' \in [TutorialRuns -> SUBSET PackDocument] /\ \A m \in TutorialRuns : indexed[m] \subseteq indexed'[m]
  BY DEF TutorialRunIInv
<1> QED BY <1>1, <1>2, <1>3, <1>4, <1>5, RunsMove

\* A step of one goroutine.
LEMMA OneRoutine ==
    ASSUME TutorialRunIInv, NEW r \in RunRoutine, NEW v \in RunRoutineRow, SetRoutine(r, v),
           RoutineIsSound(v, tutorialRun', indexed'),
           \A e \in RunRoutineRow :
             RoutineIsSound(e, tutorialRun, indexed) => RoutineIsSound(e, tutorialRun', indexed')
    PROVE  /\ runRoutine' \in [RunRoutine -> RunRoutineRow] /\ runRoutine'[r] = v
           /\ \A s \in RunRoutine : s # r => runRoutine'[s] = runRoutine[s]
           /\ \A s \in RunRoutine : RoutineIsSound(runRoutine'[s], tutorialRun', indexed')
<1>1. /\ runRoutine' \in [RunRoutine -> RunRoutineRow] /\ runRoutine'[r] = v
      /\ \A s \in RunRoutine : s # r => runRoutine'[s] = runRoutine[s]
  BY DEF SetRoutine, TutorialRunIInv
<1> QED BY <1>1 DEF TutorialRunIInv

\* A goroutine of run n that moves leaves the other runs attended.
LEMMA AttendedElsewhere ==
    ASSUME TutorialRunIInv, NEW n \in TutorialRuns, NEW r \in RunRoutine,
           runRoutine[r] = IdleRun \/ runRoutine[r].run = n,
           \A s \in RunRoutine : s # r => runRoutine'[s] = runRoutine[s],
           runLost \subseteq runLost',
           NEW m \in TutorialRuns, m # n, tutorialRun'[m] = tutorialRun[m]
    PROVE  RunAttended(m, tutorialRun'[m], runRoutine', runLost')
<1>1. RunAttended(m, tutorialRun[m], runRoutine, runLost) /\ runRoutine[r] \in RunRoutineRow
  BY DEF TutorialRunIInv
<1>2. IdleRun.step # "acquire" /\ IdleRun \notin RunWorkRow
  BY DEF IdleRun, RunWorkRow
<1>3. ~(runRoutine[r].step = "acquire" /\ runRoutine[r].run = m)
      /\ ~(runRoutine[r] \in RunWorkRow /\ runRoutine[r].run = m)
  BY <1>2
<1> QED BY <1>1, <1>3 DEF RunAttended

\* Goroutines untouched: only the row's status matters.
LEMMA AttendedAsBefore ==
    ASSUME TutorialRunIInv, runRoutine' = runRoutine, runLost' = runLost,
           NEW m \in TutorialRuns, tutorialRun'[m] = tutorialRun[m]
    PROVE  RunAttended(m, tutorialRun'[m], runRoutine', runLost')
BY DEF TutorialRunIInv

LEMMA RunWorkedRow ==
    ASSUME NEW e \in RunWorkRow, NEW step \in {"index", "advance", "evaluate", "fail", "finish"}
    PROVE  LET v == [e EXCEPT !.step = step]
           IN  /\ v \in RunWorkRow /\ v \in RunRoutineRow /\ v.step = step
               /\ v.stage = e.stage /\ v.run = e.run /\ v.left = e.left
BY DEF RunWorkRow, RunRoutineRow

LEMMA RunRequestStep ==
    ASSUME TutorialRunIInv, NEW n \in TutorialRuns
    PROVE  /\ \A h \in RunHost, r \in RunRoutine : StartVariant(n, h, r) => TutorialRunIInv'
           /\ CancelQueued(n) => TutorialRunIInv'
           /\ CancelRunning(n) => TutorialRunIInv'
           /\ (\E h \in RunHost, r \in RunRoutine : StartVariant(n, h, r)) \/ CancelQueued(n) \/ CancelRunning(n) =>
                \A m \in TutorialRuns : RowMoves(tutorialRun[m], tutorialRun'[m])
<1>0. /\ RowIsSound(n, tutorialRun[n], indexed) /\ tutorialRun[n] \in TutorialRunRow
      /\ RunAttended(n, tutorialRun[n], runRoutine, runLost)
  BY DEF TutorialRunIInv, RowIsSound
<1>1. ASSUME NEW h \in RunHost, NEW r \in RunRoutine, StartVariant(n, h, r)
      PROVE  TutorialRunIInv' /\ \A m \in TutorialRuns : RowMoves(tutorialRun[m], tutorialRun'[m])
  <2>1. /\ tutorialRun[n] = NoTutorialRun /\ runRoutine[r] = IdleRun /\ indexed' = indexed
        /\ \/ SetRoutine(r, AcquireStep(h, n)) /\ UNCHANGED runLost
           \/ runLost' = runLost \cup {n} /\ UNCHANGED runRoutine
    BY <1>1 DEF StartVariant
  <2>2. tutorialRun[n].status = "absent" /\ tutorialRun[n].stats = FALSE
    BY <2>1 DEF NoTutorialRun
  <2>3. \E v : /\ SetRun(n, v) /\ v.status = "queued" /\ RowIsSound(n, v, indexed)
               /\ BaselineDone(n, v, tutorialRun)
    <3>1. CASE n \in Baselines
      <4> DEFINE v == [NoTutorialRun EXCEPT !.status = "queued"]
      <4>1. SetRun(n, v)
        BY <1>1, <3>1 DEF StartVariant
      <4>2. v \in TutorialRunRow /\ v.status = "queued" /\ v.stage = "index"
        BY DEF NoTutorialRun, TutorialRunRow, ExperimentRunStatus
      <4>3. n \notin ReusesIndex
        BY <3>1, TutorialRunAssumption
      <4> HIDE DEF v
      <4> QED BY <3>1, <4>1, <4>2, <4>3 DEF RowIsSound, BaselineDone
    <3>2. CASE n \notin Baselines
      <4>1. PICK b \in FindCompletedBaseline :
              SetRun(n, [NoTutorialRun EXCEPT
                           !.status = "queued", !.baseline = {b},
                           !.stage = IF n \in ReusesIndex THEN "evaluate" ELSE "index",
                           !.stats = tutorialRun[b].stats])
        BY <1>1, <3>2 DEF StartVariant
      <4> DEFINE v == [NoTutorialRun EXCEPT
                         !.status = "queued", !.baseline = {b},
                         !.stage = IF n \in ReusesIndex THEN "evaluate" ELSE "index",
                         !.stats = tutorialRun[b].stats]
      <4>2. b \in Baselines /\ b \in TutorialRuns /\ tutorialRun[b].status = "completed"
        BY TutorialRunAssumption DEF FindCompletedBaseline, CompletedBaseline
      <4>3. RowIsSound(b, tutorialRun[b], indexed)
        BY <4>2 DEF TutorialRunIInv
      <4>4. tutorialRun[b].stage = "completed" /\ tutorialRun[b].stats = TRUE
        BY <4>2, <4>3 DEF RowIsSound
      <4>5. SetRun(n, v)
        BY <4>1
      <4>6. v \in TutorialRunRow /\ v.status = "queued" /\ v.baseline = {b} /\ v.stats = TRUE
            /\ v.stage = IF n \in ReusesIndex THEN "evaluate" ELSE "index"
        <5>1. /\ v.status = "queued" /\ v.baseline = {b}
              /\ v.stage = IF n \in ReusesIndex THEN "evaluate" ELSE "index"
          BY DEF NoTutorialRun
        <5>2. v.stats = tutorialRun[b].stats /\ v.evaluation = FALSE
          BY DEF NoTutorialRun
        <5>3. NoTutorialRun \in TutorialRunRow
          BY DEF NoTutorialRun, TutorialRunRow, ExperimentRunStatus
        <5>4. /\ v.status \in ExperimentRunStatus /\ v.stage \in {"index", "evaluate", "completed"}
              /\ v.baseline \in SUBSET Baselines
          BY <4>2, <5>1 DEF ExperimentRunStatus
        <5>5. v.stats \in BOOLEAN /\ v.evaluation \in BOOLEAN /\ v.stats = TRUE
          BY <4>4, <5>2
        <5> DEFINE o == [NoTutorialRun EXCEPT !.status = "queued"]
                   p == [o EXCEPT !.baseline = {b}]
                   q == [p EXCEPT !.stage = IF n \in ReusesIndex THEN "evaluate" ELSE "index"]
        <5>6. v \in TutorialRunRow
          <6>1. o \in TutorialRunRow
            BY <5>3 DEF TutorialRunRow, ExperimentRunStatus
          <6>2. p \in TutorialRunRow
            <7> HIDE DEF o
            <7> QED BY <4>2, <6>1 DEF TutorialRunRow
          <6>3. q \in TutorialRunRow
            <7> HIDE DEF p
            <7> QED BY <6>2 DEF TutorialRunRow
          <6>4. v = [q EXCEPT !.stats = tutorialRun[b].stats]
            OBVIOUS
          <6> HIDE DEF q, v
          <6> QED BY <4>4, <6>3, <6>4 DEF TutorialRunRow
        <5> QED BY <5>1, <5>5, <5>6
      <4> HIDE DEF v
      <4>7. RowIsSound(n, v, indexed)
        BY <4>6 DEF RowIsSound
      <4> QED BY <4>2, <4>5, <4>6, <4>7 DEF BaselineDone
    <3> QED BY <3>1, <3>2
  <2>4. PICK v : /\ SetRun(n, v) /\ v.status = "queued" /\ RowIsSound(n, v, indexed)
                 /\ BaselineDone(n, v, tutorialRun)
    BY <2>3
  <2>5. RowMoves(tutorialRun[n], v)
    BY <2>2, <2>4 DEF RowMoves
  <2>6. /\ tutorialRun' = [m \in TutorialRuns |-> tutorialRun'[m]] /\ tutorialRun'[n] = v
        /\ \A m \in TutorialRuns : m # n => tutorialRun'[m] = tutorialRun[m]
        /\ \A m \in TutorialRuns : RowMoves(tutorialRun[m], tutorialRun'[m])
        /\ \A m \in TutorialRuns : RowIsSound(m, tutorialRun'[m], indexed')
        /\ \A m \in TutorialRuns : BaselineDone(m, tutorialRun'[m], tutorialRun')
        /\ \A e \in RunRoutineRow :
             RoutineIsSound(e, tutorialRun, indexed) => RoutineIsSound(e, tutorialRun', indexed')
    BY <2>1, <2>4, <2>5, OneRow
  <2>7. CASE SetRoutine(r, AcquireStep(h, n)) /\ UNCHANGED runLost
    <3>1. /\ AcquireStep(h, n) \in RunRoutineRow /\ AcquireStep(h, n) \notin RunWorkRow
          /\ AcquireStep(h, n).step = "acquire" /\ AcquireStep(h, n).run = n
      BY DEF AcquireStep, RunRoutineRow, RunAcquireRow, RunWorkRow
    <3>2. /\ runRoutine' \in [RunRoutine -> RunRoutineRow] /\ runRoutine'[r] = AcquireStep(h, n)
          /\ \A s \in RunRoutine : s # r => runRoutine'[s] = runRoutine[s]
          /\ \A s \in RunRoutine : RoutineIsSound(runRoutine'[s], tutorialRun', indexed')
      <4>1. RoutineIsSound(AcquireStep(h, n), tutorialRun', indexed')
        BY <3>1 DEF RoutineIsSound
      <4> QED BY <2>6, <2>7, <3>1, <4>1, OneRoutine
    <3>3. RunAttended(n, tutorialRun'[n], runRoutine', runLost')
      BY <2>4, <2>6, <3>1, <3>2 DEF RunAttended
    <3>4. \A m \in TutorialRuns : m # n => RunAttended(m, tutorialRun'[m], runRoutine', runLost')
      BY <2>1, <2>6, <2>7, <3>2, AttendedElsewhere
    <3> QED BY <2>1, <2>6, <3>2, <3>3, <3>4 DEF TutorialRunIInv
  <2>8. CASE runLost' = runLost \cup {n} /\ UNCHANGED runRoutine
    <3>1. RunAttended(n, tutorialRun'[n], runRoutine', runLost')
      BY <2>8 DEF RunAttended
    <3>2. \A m \in TutorialRuns : m # n => RunAttended(m, tutorialRun'[m], runRoutine', runLost')
      BY <2>1, <2>6, <2>8, AttendedElsewhere
    <3>3. \A s \in RunRoutine : RoutineIsSound(runRoutine'[s], tutorialRun', indexed')
      BY <2>6, <2>8 DEF TutorialRunIInv
    <3> QED BY <2>1, <2>6, <2>8, <3>1, <3>2, <3>3 DEF TutorialRunIInv
  <2> QED BY <2>1, <2>6, <2>7, <2>8
\* A row whose status changes to one that is attended by the same goroutines.
<1>a. ASSUME NEW st \in {"cancelled", "cancel_requested"}, SetRun(n, [tutorialRun[n] EXCEPT !.status = st]),
             tutorialRun[n].status = IF st = "cancelled" THEN "queued" ELSE "running",
             indexed' = indexed, runRoutine' = runRoutine, runLost' = runLost
      PROVE  TutorialRunIInv' /\ \A m \in TutorialRuns : RowMoves(tutorialRun[m], tutorialRun'[m])
  <2> DEFINE v == [tutorialRun[n] EXCEPT !.status = st]
  <2>1. /\ v \in TutorialRunRow /\ v.status = st /\ v.stage = tutorialRun[n].stage
        /\ v.stats = tutorialRun[n].stats /\ v.evaluation = tutorialRun[n].evaluation
        /\ v.baseline = tutorialRun[n].baseline
    <3>1. st \in ExperimentRunStatus
      BY <1>a DEF ExperimentRunStatus
    <3> QED BY <1>0, <3>1, RowUpdate
  <2>2. SetRun(n, v) /\ tutorialRun[n].status \in {"queued", "running"}
    BY <1>a
  <2> HIDE DEF v
  <2>3. RowMoves(tutorialRun[n], v) /\ RowIsSound(n, v, indexed)
    BY <1>0, <1>a, <2>1, <2>2 DEF RowMoves, RowIsSound
  <2>6. /\ tutorialRun' = [m \in TutorialRuns |-> tutorialRun'[m]] /\ tutorialRun'[n] = v
        /\ \A m \in TutorialRuns : m # n => tutorialRun'[m] = tutorialRun[m]
        /\ \A m \in TutorialRuns : RowMoves(tutorialRun[m], tutorialRun'[m])
        /\ \A m \in TutorialRuns : RowIsSound(m, tutorialRun'[m], indexed')
        /\ \A m \in TutorialRuns : BaselineDone(m, tutorialRun'[m], tutorialRun')
        /\ \A e \in RunRoutineRow :
             RoutineIsSound(e, tutorialRun, indexed) => RoutineIsSound(e, tutorialRun', indexed')
    BY <1>a, <2>2, <2>3, OneRow
  <2>7. RunAttended(n, tutorialRun'[n], runRoutine', runLost')
    BY <1>0, <1>a, <2>1, <2>6 DEF RunAttended
  <2>8. \A m \in TutorialRuns : m # n => RunAttended(m, tutorialRun'[m], runRoutine', runLost')
    BY <1>a, <2>6, AttendedAsBefore
  <2>9. \A s \in RunRoutine : RoutineIsSound(runRoutine'[s], tutorialRun', indexed')
    BY <1>a, <2>6 DEF TutorialRunIInv
  <2> QED BY <1>a, <2>6, <2>7, <2>8, <2>9 DEF TutorialRunIInv
<1>b. ASSUME tutorialRun' = tutorialRun, indexed' = indexed, runRoutine' = runRoutine, runLost' = runLost
      PROVE  TutorialRunIInv' /\ \A m \in TutorialRuns : RowMoves(tutorialRun[m], tutorialRun'[m])
  BY <1>b, RowStays DEF TutorialRunIInv
<1>2. ASSUME CancelQueued(n)
      PROVE  TutorialRunIInv' /\ \A m \in TutorialRuns : RowMoves(tutorialRun[m], tutorialRun'[m])
  <2>1. CASE tutorialRun[n].status = "queued"
    BY <1>2, <1>a, <2>1 DEF CancelQueued
  <2>2. CASE tutorialRun[n].status # "queued"
    BY <1>2, <1>b, <2>2 DEF CancelQueued
  <2> QED BY <2>1, <2>2
<1>3. ASSUME CancelRunning(n)
      PROVE  TutorialRunIInv' /\ \A m \in TutorialRuns : RowMoves(tutorialRun[m], tutorialRun'[m])
  <2>1. CASE tutorialRun[n].status = "running"
    BY <1>3, <1>a, <2>1 DEF CancelRunning
  <2>2. CASE tutorialRun[n].status # "running"
    BY <1>3, <1>b, <2>2 DEF CancelRunning
  <2> QED BY <2>1, <2>2
<1> QED BY <1>1, <1>2, <1>3

\* A goroutine that works on, or that goes to finish when its transition did
\* not find its stage, leaves every run attended.
LEMMA WorksOn ==
    ASSUME TutorialRunIInv, NEW r \in RunRoutine, runRoutine[r] \in RunWorkRow,
           NEW v \in RunWorkRow, v.run = runRoutine[r].run, v.stage = runRoutine[r].stage,
           v.step # "finish" \/ runRoutine[r].step = "finish" \/ ~Held(v.run, v.stage),
           SetRoutine(r, v), tutorialRun' = tutorialRun, indexed' = indexed, runLost' = runLost,
           RoutineIsSound(v, tutorialRun, indexed)
    PROVE  TutorialRunIInv' /\ \A m \in TutorialRuns : RowMoves(tutorialRun[m], tutorialRun'[m])
<1>1. /\ runRoutine' \in [RunRoutine -> RunRoutineRow] /\ runRoutine'[r] = v
      /\ \A s \in RunRoutine : s # r => runRoutine'[s] = runRoutine[s]
      /\ \A s \in RunRoutine : RoutineIsSound(runRoutine'[s], tutorialRun', indexed')
  <2>1. v \in RunRoutineRow
    BY DEF RunRoutineRow
  <2> QED BY <2>1, OneRoutine
<1>2. v.run \in TutorialRuns /\ runRoutine[r].step # "acquire"
  BY DEF RunWorkRow
<1>3. RunAttended(v.run, tutorialRun'[v.run], runRoutine', runLost')
  <2>1. RunAttended(v.run, tutorialRun[v.run], runRoutine, runLost)
    BY <1>2 DEF TutorialRunIInv
  <2> QED BY <1>1, <1>2, <2>1 DEF RunAttended, Held
<1>4. \A m \in TutorialRuns : m # v.run => RunAttended(m, tutorialRun'[m], runRoutine', runLost')
  BY <1>1, <1>2, AttendedElsewhere
<1> QED BY <1>1, <1>3, <1>4, RowStays DEF TutorialRunIInv

\* A transition that writes the row of the goroutine's run.
LEMMA WritesRow ==
    ASSUME TutorialRunIInv, NEW r \in RunRoutine, runRoutine[r] \in RunRoutineRow, runRoutine[r].step # "idle",
           NEW n \in TutorialRuns, n = runRoutine[r].run, NEW row, SetRun(n, row),
           NEW v \in RunRoutineRow, SetRoutine(r, v), v = IdleRun \/ v.run = n,
           indexed' = indexed, runLost' = runLost,
           tutorialRun[n].status # "absent", RowMoves(tutorialRun[n], row), RowIsSound(n, row, indexed),
           v \in RunWorkRow => /\ v.stage = row.stage /\ row.status = "running"
                               /\ RoutineIsSound(v, [tutorialRun EXCEPT ![n] = row], indexed),
           \/ row.status \notin {"queued", "running", "cancel_requested"}
           \/ row.status = "queued" /\ v.step = "acquire"
           \/ row.status = "running" /\ v \in RunWorkRow /\ v.step # "finish"
    PROVE  TutorialRunIInv' /\ \A m \in TutorialRuns : RowMoves(tutorialRun[m], tutorialRun'[m])
<1>1. /\ tutorialRun' = [m \in TutorialRuns |-> tutorialRun'[m]] /\ tutorialRun'[n] = row
      /\ \A m \in TutorialRuns : m # n => tutorialRun'[m] = tutorialRun[m]
      /\ \A m \in TutorialRuns : RowMoves(tutorialRun[m], tutorialRun'[m])
      /\ \A m \in TutorialRuns : RowIsSound(m, tutorialRun'[m], indexed')
      /\ \A m \in TutorialRuns : BaselineDone(m, tutorialRun'[m], tutorialRun')
      /\ \A e \in RunRoutineRow :
           RoutineIsSound(e, tutorialRun, indexed) => RoutineIsSound(e, tutorialRun', indexed')
  BY OneRow
<1>2. RoutineIsSound(v, tutorialRun', indexed')
  <2>1. CASE v \in RunWorkRow
    BY <2>1 DEF SetRun
  <2>2. CASE v \notin RunWorkRow
    BY <2>2 DEF RoutineIsSound
  <2> QED BY <2>1, <2>2
<1>3. /\ runRoutine' \in [RunRoutine -> RunRoutineRow] /\ runRoutine'[r] = v
      /\ \A s \in RunRoutine : s # r => runRoutine'[s] = runRoutine[s]
      /\ \A s \in RunRoutine : RoutineIsSound(runRoutine'[s], tutorialRun', indexed')
  BY <1>1, <1>2, OneRoutine
<1>4. RunAttended(n, tutorialRun'[n], runRoutine', runLost')
  <2>1. IdleRun.step = "idle" /\ IdleRun \notin RunWorkRow
    BY DEF IdleRun, RunWorkRow
  <2> QED BY <1>1, <1>3, <2>1 DEF RunAttended
<1>5. \A m \in TutorialRuns : m # n => RunAttended(m, tutorialRun'[m], runRoutine', runLost')
  BY <1>1, <1>3, AttendedElsewhere
<1> QED BY <1>1, <1>3, <1>4, <1>5 DEF TutorialRunIInv

\* A goroutine that returns with an error: its run is lost.
LEMMA Returns ==
    ASSUME TutorialRunIInv, NEW r \in RunRoutine, runRoutine[r].step # "idle", SetRoutine(r, IdleRun),
           tutorialRun' = tutorialRun, indexed' = indexed, runLost' = runLost \cup {runRoutine[r].run}
    PROVE  TutorialRunIInv' /\ \A m \in TutorialRuns : RowMoves(tutorialRun[m], tutorialRun'[m])
<1>0. IdleRun \in RunRoutineRow /\ IdleRun \notin RunWorkRow /\ runRoutine[r].run \in TutorialRuns
  BY RunRowsDiffer DEF TutorialRunIInv, RunRoutineRow, IdleRun, RunWorkRow
<1>1. /\ runRoutine' \in [RunRoutine -> RunRoutineRow] /\ runRoutine'[r] = IdleRun
      /\ \A s \in RunRoutine : s # r => runRoutine'[s] = runRoutine[s]
      /\ \A s \in RunRoutine : RoutineIsSound(runRoutine'[s], tutorialRun', indexed')
  BY <1>0, OneRoutine DEF RoutineIsSound
<1>2. PICK n \in TutorialRuns : n = runRoutine[r].run
  BY <1>0
<1>3. RunAttended(n, tutorialRun'[n], runRoutine', runLost')
  BY <1>2 DEF RunAttended
<1>4. \A m \in TutorialRuns : m # n => RunAttended(m, tutorialRun'[m], runRoutine', runLost')
  BY <1>1, <1>2, AttendedElsewhere
<1> QED BY <1>1, <1>3, <1>4, RowStays DEF TutorialRunIInv

LEMMA ExecuteStep ==
    ASSUME TutorialRunIInv, NEW r \in RunRoutine,
           \/ AcquireExperimentRun(r) \/ RecordIndexStats(r) \/ AdvanceExperimentRun(r)
           \/ \E d \in PackDocument : IndexDocument(r, d)
           \/ CompleteExperimentRun(r) \/ WorkFails(r) \/ FailExperimentRun(r)
           \/ finishCancellationIfRequested(r) \/ ExecuteError(r)
    PROVE  TutorialRunIInv' /\ \A m \in TutorialRuns : RowMoves(tutorialRun[m], tutorialRun'[m])
<1> DEFINE e == runRoutine[r]
           Goal == TutorialRunIInv' /\ \A m \in TutorialRuns : RowMoves(tutorialRun[m], tutorialRun'[m])
<1>0. /\ e \in RunRoutineRow /\ RoutineIsSound(e, tutorialRun, indexed) /\ e.step # "idle"
      /\ IdleRun \in RunRoutineRow /\ IdleRun \notin RunWorkRow
  BY DEF TutorialRunIInv, AcquireExperimentRun, RecordIndexStats, AdvanceExperimentRun, IndexDocument,
         CompleteExperimentRun, WorkFails, FailExperimentRun, finishCancellationIfRequested, ExecuteError,
         At, RunRoutineRow, IdleRun, RunWorkRow
<1>1. PICK n \in TutorialRuns : n = e.run
  BY <1>0, RunRowsDiffer
<1>2. RowIsSound(n, tutorialRun[n], indexed) /\ tutorialRun[n] \in TutorialRunRow
  BY DEF TutorialRunIInv, RowIsSound
<1>3. e.step # "acquire" => e \in RunWorkRow /\ e.stage \in {"index", "evaluate"} /\ tutorialRun[n].status # "absent"
  BY <1>0, <1>1, RunRowsDiffer DEF RoutineIsSound, RunWorkRow
\* A transition that does not find its stage goes to finish.
<1>a. ASSUME e.step # "acquire", GoTo(r, "finish"), ~Held(n, e.stage),
             tutorialRun' = tutorialRun, indexed' = indexed, runLost' = runLost
      PROVE  Goal
  <2> DEFINE v == [e EXCEPT !.step = "finish"]
  <2>1. e \in RunWorkRow /\ v \in RunWorkRow /\ v.step = "finish" /\ v.stage = e.stage /\ v.run = e.run
    BY <1>3, <1>a, RunWorkedRow
  <2>2. SetRoutine(r, v)
    BY <1>a DEF GoTo
  <2> HIDE DEF v
  <2>3. RoutineIsSound(v, tutorialRun, indexed)
    BY <1>0, <2>1 DEF RoutineIsSound
  <2> QED BY <1>1, <1>a, <2>1, <2>2, <2>3, WorksOn
\* A transition that ends the run.
<1>b. ASSUME e.step # "acquire", NEW row, SetRun(n, row), SetRoutine(r, IdleRun), indexed' = indexed, runLost' = runLost,
             row.status \in {"completed", "failed", "cancelled"},
             RowMoves(tutorialRun[n], row), RowIsSound(n, row, indexed)
      PROVE  Goal
  BY <1>0, <1>1, <1>3, <1>b, WritesRow
<1>4. CASE AcquireExperimentRun(r)
  <2>1. e.step = "acquire" /\ indexed' = indexed /\ runLost' = runLost /\ e \in RunAcquireRow /\ e.host \in RunHost
    BY <1>0, <1>4, RunRowsDiffer DEF AcquireExperimentRun, At, RunAcquireRow
  <2>2. CASE tutorialRun[n].status = "queued"
    <3> DEFINE row == [tutorialRun[n] EXCEPT !.status = "running"]
               v == [step |-> tutorialRun[n].stage, host |-> e.host, run |-> n,
                     stage |-> tutorialRun[n].stage, left |-> PackDocument]
    <3>1. SetRun(n, row) /\ SetRoutine(r, v)
      BY <1>1, <1>4, <2>2 DEF AcquireExperimentRun
    <3>2. /\ row \in TutorialRunRow /\ row.status = "running" /\ row.stage = tutorialRun[n].stage
          /\ row.stats = tutorialRun[n].stats /\ row.evaluation = tutorialRun[n].evaluation
          /\ row.baseline = tutorialRun[n].baseline
      <4>1. "running" \in ExperimentRunStatus
        BY DEF ExperimentRunStatus
      <4> QED BY <1>2, <4>1, RowUpdate
    <3>3. row.stage \in {"index", "evaluate"}
      BY <1>2, <2>2, <3>2 DEF RowIsSound, TutorialRunRow
    <3>4. /\ v \in RunWorkRow /\ v \in RunRoutineRow /\ v.run = n /\ v.stage = row.stage /\ v.step = row.stage
          /\ v.left = PackDocument
      <4> HIDE DEF row
      <4> QED BY <2>1, <3>2, <3>3 DEF RunWorkRow, RunRoutineRow
    <3> HIDE DEF v, row
    <3>5. RowMoves(tutorialRun[n], row) /\ RowIsSound(n, row, indexed)
      BY <1>2, <2>2, <3>2, <3>3 DEF RowMoves, RowIsSound
    <3>6. [tutorialRun EXCEPT ![n] = row][n] = row
      BY DEF TutorialRunIInv
    <3>7. RoutineIsSound(v, [tutorialRun EXCEPT ![n] = row], indexed)
      BY <2>2, <3>2, <3>3, <3>4, <3>5, <3>6 DEF RoutineIsSound, RowIsSound
    <3> QED BY <1>0, <1>1, <2>1, <2>2, <3>1, <3>2, <3>3, <3>4, <3>5, <3>7, WritesRow
  <2>3. CASE tutorialRun[n].status # "queued"
    <3>1. SetRoutine(r, IdleRun) /\ tutorialRun' = tutorialRun
      BY <1>1, <1>4, <2>3 DEF AcquireExperimentRun
    <3>2. /\ runRoutine' \in [RunRoutine -> RunRoutineRow] /\ runRoutine'[r] = IdleRun
          /\ \A s \in RunRoutine : s # r => runRoutine'[s] = runRoutine[s]
          /\ \A s \in RunRoutine : RoutineIsSound(runRoutine'[s], tutorialRun', indexed')
      BY <1>0, <2>1, <3>1, OneRoutine DEF RoutineIsSound
    <3>3. RunAttended(n, tutorialRun'[n], runRoutine', runLost')
      <4>1. RunAttended(n, tutorialRun[n], runRoutine, runLost)
        BY DEF TutorialRunIInv
      <4>2. runRoutine[r] \notin RunWorkRow
        BY <2>1 DEF RunWorkRow
      <4> QED BY <2>1, <2>3, <3>1, <3>2, <4>1, <4>2 DEF RunAttended
    <3>4. \A m \in TutorialRuns : m # n => RunAttended(m, tutorialRun'[m], runRoutine', runLost')
      BY <1>1, <2>1, <3>1, <3>2, AttendedElsewhere
    <3> QED BY <2>1, <3>1, <3>2, <3>3, <3>4, RowStays DEF TutorialRunIInv
  <2> QED BY <2>2, <2>3
<1>5. CASE RecordIndexStats(r)
  <2>1. e.step = "index" /\ e.left = {} /\ indexed' = indexed /\ runLost' = runLost
    BY <1>5 DEF RecordIndexStats, At, AllIndexed
  <2>2. e \in RunWorkRow /\ e.stage = "index" /\ n \notin ReusesIndex /\ indexed[n] = PackDocument
    BY <1>0, <1>1, <1>3, <2>1 DEF RoutineIsSound, TutorialRunIInv
  <2>3. CASE Held(n, "index")
    <3> DEFINE row == [tutorialRun[n] EXCEPT !.stats = TRUE]
               v == [e EXCEPT !.step = "advance"]
    <3>1. SetRun(n, row) /\ SetRoutine(r, v)
      BY <1>1, <1>5, <2>3 DEF RecordIndexStats, GoTo
    <3>2. /\ v \in RunWorkRow /\ v \in RunRoutineRow /\ v.step = "advance" /\ v.stage = e.stage /\ v.run = e.run
      BY <2>2, RunWorkedRow
    <3>3. row \in TutorialRunRow /\ row.status = tutorialRun[n].status /\ row.stage = tutorialRun[n].stage
          /\ row.baseline = tutorialRun[n].baseline
      BY <1>2 DEF TutorialRunRow
    <3>4. row.stats = TRUE /\ row.evaluation = tutorialRun[n].evaluation
      BY <1>2 DEF TutorialRunRow
    <3> HIDE DEF v, row
    <3>5. /\ RowMoves(tutorialRun[n], row) /\ RowIsSound(n, row, indexed)
          /\ row.status = "running" /\ row.stage = "index" /\ tutorialRun[n].status = "running"
      BY <1>2, <2>3, <3>3, <3>4 DEF RowMoves, RowIsSound, Held
    <3>6. [tutorialRun EXCEPT ![n] = row][n] = row
      BY DEF TutorialRunIInv
    <3>7. RoutineIsSound(v, [tutorialRun EXCEPT ![n] = row], indexed)
      BY <1>1, <2>2, <3>2, <3>4, <3>5, <3>6 DEF RoutineIsSound
    <3> QED BY <1>0, <1>1, <2>1, <2>2, <3>1, <3>2, <3>5, <3>7, WritesRow
  <2>4. CASE ~Held(n, "index")
    <3>1. GoTo(r, "finish") /\ tutorialRun' = tutorialRun
      BY <1>1, <1>5, <2>4 DEF RecordIndexStats
    <3> QED BY <1>a, <2>1, <2>2, <2>4, <3>1
  <2> QED BY <2>3, <2>4
<1>6. CASE AdvanceExperimentRun(r)
  <2>1. e.step = "advance" /\ indexed' = indexed /\ runLost' = runLost
    BY <1>6 DEF AdvanceExperimentRun, At
  <2>2. /\ e \in RunWorkRow /\ e.stage = "index" /\ e.host \in RunHost
        /\ tutorialRun[n].stats = TRUE /\ indexed[n] = PackDocument
    BY <1>0, <1>1, <1>3, <2>1 DEF RoutineIsSound, RunWorkRow
  <2>3. CASE Held(n, "index")
    <3> DEFINE mid == [tutorialRun[n] EXCEPT !.stage = "evaluate"]
               row == [tutorialRun[n] EXCEPT !.stage = "evaluate", !.status = "queued"]
               v == AcquireStep(e.host, n)
    <3>1. SetRun(n, row) /\ SetRoutine(r, v)
      BY <1>1, <1>6, <2>3 DEF AdvanceExperimentRun
    <3>2. v \in RunRoutineRow /\ v.step = "acquire" /\ v.run = n /\ v \notin RunWorkRow
      BY <2>2 DEF AcquireStep, RunRoutineRow, RunAcquireRow, RunWorkRow
    <3>3. row \in TutorialRunRow /\ row.status = "queued" /\ row.stage = "evaluate"
          /\ row.baseline = tutorialRun[n].baseline
      <4>1. mid \in TutorialRunRow
        BY <1>2 DEF TutorialRunRow
      <4>2. row = [mid EXCEPT !.status = "queued"]
        OBVIOUS
      <4>3. row.status = "queued" /\ row.stage = "evaluate" /\ row.baseline = tutorialRun[n].baseline
        BY <1>2 DEF TutorialRunRow
      <4> HIDE DEF row, mid
      <4>4. row \in TutorialRunRow
        BY <4>1, <4>2 DEF TutorialRunRow, ExperimentRunStatus
      <4> QED BY <4>3, <4>4
    <3>4. row.stats = tutorialRun[n].stats /\ row.evaluation = tutorialRun[n].evaluation
      BY <1>2 DEF TutorialRunRow
    <3> HIDE DEF v, row
    <3>5. /\ RowMoves(tutorialRun[n], row) /\ RowIsSound(n, row, indexed) /\ tutorialRun[n].status = "running"
      BY <1>2, <2>2, <2>3, <3>3, <3>4 DEF RowMoves, RowIsSound, Held
    <3> QED BY <1>0, <1>1, <2>1, <3>1, <3>2, <3>3, <3>5, WritesRow
  <2>4. CASE ~Held(n, "index")
    <3>1. GoTo(r, "finish") /\ tutorialRun' = tutorialRun
      BY <1>1, <1>6, <2>4 DEF AdvanceExperimentRun
    <3> QED BY <1>a, <2>1, <2>2, <2>4, <3>1
  <2> QED BY <2>3, <2>4
<1>7. ASSUME NEW d \in PackDocument, IndexDocument(r, d) PROVE Goal
  <2> DEFINE v == [e EXCEPT !.left = @ \ {d}]
  <2>1. /\ e.step = "index" /\ d \in e.left /\ SetRoutine(r, v) /\ tutorialRun' = tutorialRun /\ runLost' = runLost
        /\ indexed' = [indexed EXCEPT ![n] = @ \cup {d}]
    BY <1>1, <1>7 DEF IndexDocument, At
  <2>2. e \in RunWorkRow /\ e.stage = "index" /\ n \notin ReusesIndex /\ PackDocument \ e.left \subseteq indexed[n]
    BY <1>0, <1>1, <1>3, <2>1 DEF RoutineIsSound
  <2>3. /\ v \in RunWorkRow /\ v \in RunRoutineRow /\ v.step = "index" /\ v.stage = "index"
        /\ v.run = n /\ v.left = e.left \ {d}
    BY <1>1, <2>1, <2>2 DEF RunWorkRow, RunRoutineRow
  <2>4. /\ indexed' \in [TutorialRuns -> SUBSET PackDocument] /\ indexed'[n] = indexed[n] \cup {d}
        /\ \A m \in TutorialRuns : indexed[m] \subseteq indexed'[m]
    BY <2>1 DEF TutorialRunIInv
  <2> HIDE DEF v
  <2>5. /\ \A m \in TutorialRuns : BaselineDone(m, tutorialRun'[m], tutorialRun')
        /\ \A f \in RunRoutineRow :
             RoutineIsSound(f, tutorialRun, indexed) => RoutineIsSound(f, tutorialRun', indexed')
    BY <2>1, <2>4, RunsMove, RowStays DEF TutorialRunIInv
  <2>6. RoutineIsSound(v, tutorialRun', indexed')
    BY <1>3, <2>1, <2>2, <2>3, <2>4 DEF RoutineIsSound
  <2>7. /\ runRoutine' \in [RunRoutine -> RunRoutineRow] /\ runRoutine'[r] = v
        /\ \A s \in RunRoutine : s # r => runRoutine'[s] = runRoutine[s]
        /\ \A s \in RunRoutine : RoutineIsSound(runRoutine'[s], tutorialRun', indexed')
    BY <2>1, <2>3, <2>5, <2>6, OneRoutine
  <2>8. \A m \in TutorialRuns : RowIsSound(m, tutorialRun'[m], indexed')
    <3>1. \A m \in TutorialRuns : indexed[m] = PackDocument => indexed'[m] = PackDocument
      BY <2>4
    <3> QED BY <2>1, <3>1 DEF TutorialRunIInv, RowIsSound
  <2>9. RunAttended(n, tutorialRun'[n], runRoutine', runLost')
    <3>1. RunAttended(n, tutorialRun[n], runRoutine, runLost)
      BY DEF TutorialRunIInv
    <3> QED BY <1>1, <2>1, <2>2, <2>3, <2>7, <3>1 DEF RunAttended
  <2>10. \A m \in TutorialRuns : m # n => RunAttended(m, tutorialRun'[m], runRoutine', runLost')
    BY <1>1, <2>1, <2>7, AttendedElsewhere
  <2> QED BY <2>1, <2>4, <2>5, <2>7, <2>8, <2>9, <2>10, RowStays DEF TutorialRunIInv
<1>8. CASE CompleteExperimentRun(r)
  <2>1. e.step = "evaluate" /\ indexed' = indexed /\ runLost' = runLost
    BY <1>8 DEF CompleteExperimentRun, At
  <2>2. e \in RunWorkRow /\ e.stage = "evaluate"
    BY <1>0, <1>3, <2>1 DEF RoutineIsSound
  <2>3. CASE Held(n, "evaluate")
    <3> DEFINE o == [tutorialRun[n] EXCEPT !.stage = "completed"]
               p == [o EXCEPT !.status = "completed"]
               row == [tutorialRun[n] EXCEPT !.stage = "completed", !.status = "completed", !.evaluation = TRUE]
    <3>1. SetRun(n, row) /\ SetRoutine(r, IdleRun)
      BY <1>1, <1>8, <2>3 DEF CompleteExperimentRun
    <3>2. row.status = "completed" /\ row.stage = "completed" /\ row.baseline = tutorialRun[n].baseline
      BY <1>2 DEF TutorialRunRow
    <3>3. row.stats = tutorialRun[n].stats /\ row.evaluation = TRUE
      BY <1>2 DEF TutorialRunRow
    <3>4. row \in TutorialRunRow
      <4>1. o \in TutorialRunRow
        BY <1>2 DEF TutorialRunRow
      <4>2. p \in TutorialRunRow
        <5> HIDE DEF o
        <5> QED BY <4>1 DEF TutorialRunRow, ExperimentRunStatus
      <4>3. row = [p EXCEPT !.evaluation = TRUE]
        OBVIOUS
      <4> HIDE DEF row, p
      <4> QED BY <4>2, <4>3 DEF TutorialRunRow
    <3> HIDE DEF row
    <3>5. RowMoves(tutorialRun[n], row) /\ RowIsSound(n, row, indexed)
      BY <1>2, <2>3, <3>2, <3>3, <3>4 DEF RowMoves, RowIsSound, Held
    <3> QED BY <1>b, <2>1, <3>1, <3>2, <3>5
  <2>4. CASE ~Held(n, "evaluate")
    <3>1. GoTo(r, "finish") /\ tutorialRun' = tutorialRun
      BY <1>1, <1>8, <2>4 DEF CompleteExperimentRun
    <3> QED BY <1>a, <2>1, <2>2, <2>4, <3>1
  <2> QED BY <2>3, <2>4
<1>9. CASE WorkFails(r)
  <2> DEFINE v == [e EXCEPT !.step = "fail"]
  <2>1. /\ e.step \in {"index", "evaluate"} /\ SetRoutine(r, v)
        /\ tutorialRun' = tutorialRun /\ indexed' = indexed /\ runLost' = runLost
    BY <1>9 DEF WorkFails, GoTo
  <2>2. e \in RunWorkRow /\ v \in RunWorkRow /\ v.step = "fail" /\ v.stage = e.stage /\ v.run = e.run
    BY <1>3, <2>1, RunWorkedRow
  <2> HIDE DEF v
  <2>3. RoutineIsSound(v, tutorialRun, indexed)
    BY <1>0, <2>2 DEF RoutineIsSound
  <2> QED BY <2>1, <2>2, <2>3, WorksOn
<1>10. CASE FailExperimentRun(r)
  <2>1. e.step = "fail" /\ indexed' = indexed /\ runLost' = runLost
    BY <1>10 DEF FailExperimentRun, At
  <2>2. CASE Held(n, e.stage)
    <3> DEFINE row == [tutorialRun[n] EXCEPT !.status = "failed"]
    <3>1. SetRun(n, row) /\ SetRoutine(r, IdleRun)
      BY <1>1, <1>10, <2>2 DEF FailExperimentRun
    <3>2. /\ row \in TutorialRunRow /\ row.status = "failed" /\ row.stage = tutorialRun[n].stage
          /\ row.stats = tutorialRun[n].stats /\ row.evaluation = tutorialRun[n].evaluation
          /\ row.baseline = tutorialRun[n].baseline
      <4>1. "failed" \in ExperimentRunStatus
        BY DEF ExperimentRunStatus
      <4> QED BY <1>2, <4>1, RowUpdate
    <3> HIDE DEF row
    <3>3. RowMoves(tutorialRun[n], row) /\ RowIsSound(n, row, indexed)
      BY <1>2, <2>2, <3>2 DEF RowMoves, RowIsSound, Held
    <3> QED BY <1>b, <2>1, <3>1, <3>2, <3>3
  <2>3. CASE ~Held(n, e.stage)
    <3>1. GoTo(r, "finish") /\ tutorialRun' = tutorialRun
      BY <1>1, <1>10, <2>3 DEF FailExperimentRun
    <3> QED BY <1>a, <2>1, <2>3, <3>1
  <2> QED BY <2>2, <2>3
<1>11. CASE finishCancellationIfRequested(r)
  <2>1. e.step = "finish" /\ SetRoutine(r, IdleRun) /\ MarkCancelledRun(n) /\ indexed' = indexed /\ runLost' = runLost
    BY <1>1, <1>11 DEF finishCancellationIfRequested, At
  <2>2. CASE tutorialRun[n].status = "cancel_requested"
    <3> DEFINE row == [tutorialRun[n] EXCEPT !.status = "cancelled"]
    <3>1. SetRun(n, row)
      BY <2>1, <2>2 DEF MarkCancelledRun
    <3>2. /\ row \in TutorialRunRow /\ row.status = "cancelled" /\ row.stage = tutorialRun[n].stage
          /\ row.stats = tutorialRun[n].stats /\ row.evaluation = tutorialRun[n].evaluation
          /\ row.baseline = tutorialRun[n].baseline
      <4>1. "cancelled" \in ExperimentRunStatus
        BY DEF ExperimentRunStatus
      <4> QED BY <1>2, <4>1, RowUpdate
    <3> HIDE DEF row
    <3>3. RowMoves(tutorialRun[n], row) /\ RowIsSound(n, row, indexed)
      BY <1>2, <2>2, <3>2 DEF RowMoves, RowIsSound
    <3> QED BY <1>b, <2>1, <3>1, <3>2, <3>3
  <2>3. CASE tutorialRun[n].status # "cancel_requested"
    <3>1. tutorialRun' = tutorialRun
      BY <2>1, <2>3 DEF MarkCancelledRun
    <3>2. /\ runRoutine' \in [RunRoutine -> RunRoutineRow] /\ runRoutine'[r] = IdleRun
          /\ \A s \in RunRoutine : s # r => runRoutine'[s] = runRoutine[s]
          /\ \A s \in RunRoutine : RoutineIsSound(runRoutine'[s], tutorialRun', indexed')
      BY <1>0, <2>1, <3>1, OneRoutine DEF RoutineIsSound
    <3>3. RunAttended(n, tutorialRun'[n], runRoutine', runLost')
      <4>1. RunAttended(n, tutorialRun[n], runRoutine, runLost)
        BY DEF TutorialRunIInv
      <4> QED BY <2>1, <2>3, <3>1, <3>2, <4>1 DEF RunAttended
    <3>4. \A m \in TutorialRuns : m # n => RunAttended(m, tutorialRun'[m], runRoutine', runLost')
      BY <1>1, <2>1, <3>1, <3>2, AttendedElsewhere
    <3> QED BY <2>1, <3>1, <3>2, <3>3, <3>4, RowStays DEF TutorialRunIInv
  <2> QED BY <2>2, <2>3
<1>12. CASE ExecuteError(r)
  BY <1>0, <1>12, Returns DEF ExecuteError
<1> QED BY <1>4, <1>5, <1>6, <1>7, <1>8, <1>9, <1>10, <1>11, <1>12

LEMMA RunnerStep ==
    ASSUME TutorialRunIInv, NEW h \in RunHost, StopRunRunner(h) \/ StartRunRunner(h)
    PROVE  TutorialRunIInv' /\ \A m \in TutorialRuns : RowMoves(tutorialRun[m], tutorialRun'[m])
<1>0. /\ IdleRun \in RunRoutineRow /\ IdleRun \notin RunWorkRow /\ IdleRun.step = "idle"
      /\ \A e \in RunRoutineRow : e.step = "idle" => e = IdleRun
  BY RunRowsDiffer DEF RunRoutineRow, IdleRun, RunWorkRow
<1>1. CASE StopRunRunner(h)
  <2>1. /\ tutorialRun' = tutorialRun /\ indexed' = indexed
        /\ runRoutine' = [r \in RunRoutine |-> IF r \in Of(h) THEN IdleRun ELSE runRoutine[r]]
        /\ runLost' = runLost \cup {runRoutine[r].run : r \in Of(h)}
    BY <1>1 DEF StopRunRunner
  <2>2. /\ runRoutine' \in [RunRoutine -> RunRoutineRow]
        /\ \A r \in RunRoutine : r \notin Of(h) => runRoutine'[r] = runRoutine[r]
        /\ \A r \in RunRoutine : r \in Of(h) => runRoutine'[r] = IdleRun
    BY <1>0, <2>1 DEF TutorialRunIInv
  <2>3. \A r \in RunRoutine : RoutineIsSound(runRoutine'[r], tutorialRun', indexed')
    BY <1>0, <2>1, <2>2 DEF TutorialRunIInv, RoutineIsSound
  <2>4. ASSUME NEW m \in TutorialRuns PROVE RunAttended(m, tutorialRun'[m], runRoutine', runLost')
    <3> SUFFICES ASSUME m \notin runLost' PROVE RunAttended(m, tutorialRun'[m], runRoutine', runLost')
      BY DEF RunAttended
    <3>1. m \notin runLost /\ \A r \in RunRoutine : r \in Of(h) => runRoutine[r].run # m
      BY <2>1
    <3>2. RunAttended(m, tutorialRun[m], runRoutine, runLost)
      BY DEF TutorialRunIInv
    <3> QED BY <2>1, <2>2, <3>1, <3>2 DEF RunAttended
  <2> QED BY <2>1, <2>2, <2>3, <2>4, RowStays DEF TutorialRunIInv
<1>2. CASE StartRunRunner(h)
  <2> DEFINE row == [n \in TutorialRuns |-> [tutorialRun[n] EXCEPT !.status = RecoveredStatus(@)]]
             queue == {n \in TutorialRuns : row[n].status = "queued"}
  <2>1. /\ tutorialRun' = row /\ runLost' = {} /\ indexed' = indexed
    BY <1>2 DEF StartRunRunner
  <2>2. PICK place \in [queue -> {r \in RunRoutine : At(r, "idle")}] :
             /\ \A n, p \in queue : n # p => place[n] # place[p]
             /\ runRoutine' = [r \in RunRoutine |->
                                 IF \E n \in queue : place[n] = r
                                 THEN AcquireStep(h, CHOOSE n \in queue : place[n] = r)
                                 ELSE runRoutine[r]]
    BY <1>2 DEF StartRunRunner
  <2>3. ASSUME NEW n \in TutorialRuns
        PROVE  /\ tutorialRun'[n] \in TutorialRunRow
               /\ tutorialRun'[n].status = RecoveredStatus(tutorialRun[n].status)
               /\ tutorialRun'[n].stage = tutorialRun[n].stage /\ tutorialRun'[n].stats = tutorialRun[n].stats
               /\ tutorialRun'[n].evaluation = tutorialRun[n].evaluation
               /\ tutorialRun'[n].baseline = tutorialRun[n].baseline
               /\ tutorialRun[n].status \notin {"running", "cancel_requested"} => tutorialRun'[n] = tutorialRun[n]
    <3>1. tutorialRun[n] \in TutorialRunRow /\ tutorialRun'[n] = [tutorialRun[n] EXCEPT !.status = RecoveredStatus(@)]
      BY <2>1 DEF TutorialRunIInv, RowIsSound
    <3>2. RecoveredStatus(tutorialRun[n].status) \in ExperimentRunStatus
      BY <3>1 DEF RecoveredStatus, ExperimentRunStatus, TutorialRunRow
    <3>3. tutorialRun[n].status \notin {"running", "cancel_requested"} => tutorialRun'[n] = tutorialRun[n]
      <4>1. ASSUME NEW a \in TutorialRunRow PROVE [a EXCEPT !.status = a.status] = a
        BY DEF TutorialRunRow
      <4> QED BY <3>1, <4>1 DEF RecoveredStatus
    <3> QED BY <3>1, <3>2, <3>3, RowUpdate
  <2>4. tutorialRun' = [m \in TutorialRuns |-> tutorialRun'[m]]
    BY <2>1
  <2> HIDE DEF row
  <2>5. queue = {n \in TutorialRuns : tutorialRun'[n].status = "queued"}
    BY <2>1
  <2> HIDE DEF queue
  <2>6. \A m \in TutorialRuns : RowMoves(tutorialRun[m], tutorialRun'[m])
    BY <2>3 DEF RowMoves, RecoveredStatus
  <2>7. \A m \in TutorialRuns : RowIsSound(m, tutorialRun'[m], indexed')
    <3> SUFFICES ASSUME NEW m \in TutorialRuns PROVE RowIsSound(m, tutorialRun'[m], indexed')
      OBVIOUS
    <3>1. RowIsSound(m, tutorialRun[m], indexed)
      BY DEF TutorialRunIInv
    <3>2. /\ tutorialRun'[m].status = "absent" => tutorialRun[m].status = "absent"
          /\ tutorialRun'[m].status = "completed" => tutorialRun[m].status = "completed"
          /\ tutorialRun'[m].status \in {"queued", "running"} => tutorialRun[m].status \in {"queued", "running"}
          /\ tutorialRun[m].status = "absent" => tutorialRun'[m].status = "absent"
      BY <2>3 DEF RecoveredStatus
    <3>3. tutorialRun[m].stage # "index" => tutorialRun'[m].stats = TRUE
      BY <2>3, <3>1 DEF RowIsSound
    <3>4. tutorialRun'[m].status = "completed" => tutorialRun'[m].evaluation = TRUE
      BY <2>3, <3>1, <3>2 DEF RowIsSound
    <3> QED BY <2>1, <2>3, <3>1, <3>2, <3>3, <3>4 DEF RowIsSound
  <2>8. /\ \A m \in TutorialRuns : BaselineDone(m, tutorialRun'[m], tutorialRun')
        /\ \A e \in RunRoutineRow :
             RoutineIsSound(e, tutorialRun, indexed) => RoutineIsSound(e, tutorialRun', indexed')
    <3>1. \A m \in TutorialRuns : tutorialRun[m].status = "absent" => BaselineDone(m, tutorialRun'[m], tutorialRun)
      BY <2>3 DEF BaselineDone, RecoveredStatus
    <3>2. indexed' \in [TutorialRuns -> SUBSET PackDocument] /\ \A m \in TutorialRuns : indexed[m] \subseteq indexed'[m]
      BY <2>1 DEF TutorialRunIInv
    <3> QED BY <2>6, <3>1, <3>2, RunsMove
  <2>9. ASSUME NEW n \in queue
        PROVE  /\ place[n] \in RunRoutine /\ runRoutine'[place[n]] = AcquireStep(h, n)
    <3>1. place[n] \in RunRoutine /\ \A p \in queue : place[p] = place[n] <=> p = n
      BY <2>2
    <3>2. (CHOOSE p \in queue : place[p] = place[n]) = n
      BY <3>1
    <3> QED BY <2>2, <3>1, <3>2
  <2>10. \A r \in RunRoutine : \/ runRoutine'[r] = runRoutine[r]
                               \/ \E n \in queue : runRoutine'[r] = AcquireStep(h, n)
    BY <2>2, <2>9
  <2>11. ASSUME NEW n \in queue
         PROVE  /\ AcquireStep(h, n) \in RunRoutineRow /\ AcquireStep(h, n) \notin RunWorkRow
                /\ AcquireStep(h, n).step = "acquire" /\ AcquireStep(h, n).run = n
    BY <2>5 DEF AcquireStep, RunRoutineRow, RunAcquireRow, RunWorkRow
  <2>12. runRoutine' \in [RunRoutine -> RunRoutineRow]
    BY <2>2, <2>10, <2>11 DEF TutorialRunIInv
  <2>13. \A r \in RunRoutine : RoutineIsSound(runRoutine'[r], tutorialRun', indexed')
    BY <2>8, <2>10, <2>11 DEF TutorialRunIInv, RoutineIsSound
  <2>14. ASSUME NEW m \in TutorialRuns PROVE RunAttended(m, tutorialRun'[m], runRoutine', runLost')
    <3>1. tutorialRun'[m].status \notin {"running", "cancel_requested"}
      BY <2>3 DEF RecoveredStatus
    <3>2. tutorialRun'[m].status = "queued" => m \in queue
      BY <2>5
    <3> QED BY <2>9, <2>11, <3>1, <3>2 DEF RunAttended
  <2> QED BY <2>1, <2>4, <2>6, <2>7, <2>8, <2>12, <2>13, <2>14 DEF TutorialRunIInv
<1> QED BY <1>1, <1>2

LEMMA TutorialRunStep ==
    TutorialRunIInv /\ [TutorialRunNext]_tutorialRunVars =>
        TutorialRunIInv' /\ \A m \in TutorialRuns : RowMoves(tutorialRun[m], tutorialRun'[m])
<1> SUFFICES ASSUME TutorialRunIInv, [TutorialRunNext]_tutorialRunVars
             PROVE  TutorialRunIInv' /\ \A m \in TutorialRuns : RowMoves(tutorialRun[m], tutorialRun'[m])
  OBVIOUS
<1>1. CASE UNCHANGED tutorialRunVars
  BY <1>1, RowStays DEF tutorialRunVars, TutorialRunIInv
<1>2. CASE TutorialRunNext
  BY <1>2, RunRequestStep, ExecuteStep, RunnerStep DEF TutorialRunNext
<1> QED BY <1>1, <1>2

\* A run ends once and measures what it says: an accepted cancellation is
\* final, an evaluation had its whole index, a candidate its completed
\* baseline, and no run is left without a goroutine unless a transition was
\* lost (LiveRunService and the conditional updates of its repository).
THEOREM RunsMeasure == TutorialRunSpec => RunMeasures
<1> DEFINE Good == EvaluatedIsIndexed /\ CandidateHasBaseline /\ RunNotStranded
           Final == \A n \in TutorialRuns :
                      /\ tutorialRun[n].status = "cancelled" => tutorialRun'[n] = tutorialRun[n]
                      /\ tutorialRun[n].status = "cancel_requested" =>
                            tutorialRun'[n].status \in {"cancel_requested", "cancelled"}
<1>1. TutorialRunInit => TutorialRunIInv
  <2> SUFFICES ASSUME TutorialRunInit PROVE TutorialRunIInv
    OBVIOUS
  <2>1. /\ tutorialRun = [n \in TutorialRuns |-> tutorialRun[n]]
        /\ \A n \in TutorialRuns : tutorialRun[n] = NoTutorialRun
        /\ indexed \in [TutorialRuns -> SUBSET PackDocument]
        /\ runRoutine \in [RunRoutine -> RunRoutineRow]
        /\ \A r \in RunRoutine : runRoutine[r] \notin RunWorkRow
    BY DEF TutorialRunInit, RunRoutineRow, IdleRun, RunWorkRow
  <2>2. /\ NoTutorialRun \in TutorialRunRow /\ NoTutorialRun.status = "absent" /\ NoTutorialRun.stage = "index"
    BY DEF NoTutorialRun, TutorialRunRow, ExperimentRunStatus
  <2>3. \A n \in TutorialRuns : /\ RowIsSound(n, tutorialRun[n], indexed)
                                /\ BaselineDone(n, tutorialRun[n], tutorialRun)
                                /\ RunAttended(n, tutorialRun[n], runRoutine, runLost)
    BY <2>1, <2>2 DEF RowIsSound, BaselineDone, RunAttended
  <2>4. \A r \in RunRoutine : RoutineIsSound(runRoutine[r], tutorialRun, indexed)
    BY <2>1 DEF RoutineIsSound
  <2> QED BY <2>1, <2>3, <2>4 DEF TutorialRunIInv
<1>2. TutorialRunIInv => Good
  <2> SUFFICES ASSUME TutorialRunIInv PROVE Good
    OBVIOUS
  <2>0. Baselines \subseteq TutorialRuns /\ ReusesIndex \subseteq TutorialRuns \ Baselines
    BY TutorialRunAssumption
  <2>1. EvaluatedIsIndexed
    <3> SUFFICES ASSUME NEW n \in TutorialRuns, tutorialRun[n].stage \in {"evaluate", "completed"}
                 PROVE  tutorialRun[n].stats /\ indexed[KnowledgeBaseOf(n)] = PackDocument
      BY DEF EvaluatedIsIndexed
    <3>1. RowIsSound(n, tutorialRun[n], indexed) /\ BaselineDone(n, tutorialRun[n], tutorialRun)
      BY DEF TutorialRunIInv
    <3>2. tutorialRun[n].stats = TRUE /\ tutorialRun[n].status # "absent"
      BY <3>1 DEF RowIsSound
    <3>3. indexed[KnowledgeBaseOf(n)] = PackDocument
      <4>1. CASE n \notin ReusesIndex
        BY <3>1, <4>1 DEF RowIsSound, KnowledgeBaseOf
      <4>2. CASE n \in ReusesIndex
        <5>1. PICK b \in Baselines : tutorialRun[n].baseline = {b} /\ tutorialRun[b].status = "completed"
          BY <2>0, <3>1, <3>2, <4>2 DEF BaselineDone
        <5>2. KnowledgeBaseOf(n) = b
          BY <4>2, <5>1 DEF KnowledgeBaseOf
        <5>3. RowIsSound(b, tutorialRun[b], indexed) /\ b \notin ReusesIndex
          BY <2>0 DEF TutorialRunIInv
        <5> QED BY <5>1, <5>2, <5>3 DEF RowIsSound
      <4> QED BY <4>1, <4>2
    <3> QED BY <3>2, <3>3, Zenon
  <2>2. CandidateHasBaseline
    <3> SUFFICES ASSUME NEW n \in TutorialRuns \ Baselines, tutorialRun[n].status # "absent"
                 PROVE  \E b \in tutorialRun[n].baseline : tutorialRun[b].status = "completed" /\ tutorialRun[b].evaluation
      BY DEF CandidateHasBaseline
    <3>1. PICK b \in Baselines : tutorialRun[n].baseline = {b} /\ tutorialRun[b].status = "completed"
      BY DEF TutorialRunIInv, BaselineDone
    <3>2. tutorialRun[b].evaluation = TRUE
      BY <2>0, <3>1 DEF TutorialRunIInv, RowIsSound
    <3>3. b \in tutorialRun[n].baseline
      BY <3>1
    <3> QED BY <3>1, <3>2, <3>3, Zenon
  <2>3. RunNotStranded
    <3> SUFFICES ASSUME NEW n \in TutorialRuns \ runLost,
                        tutorialRun[n].status \in {"queued", "running", "cancel_requested"}
                 PROVE  \E r \in RunRoutine :
                          /\ ~At(r, "idle") /\ runRoutine[r].run = n
                          /\ tutorialRun[n].status = "queued" => At(r, "acquire")
                          /\ tutorialRun[n].status = "running" => ~At(r, "finish")
      BY DEF RunNotStranded
    <3>1. RunAttended(n, tutorialRun[n], runRoutine, runLost)
      BY DEF TutorialRunIInv
    <3>2. \A r \in RunRoutine : runRoutine[r] \in RunWorkRow => runRoutine[r].step # "idle"
      BY DEF RunWorkRow
    <3> QED BY <3>1, <3>2 DEF RunAttended, At
  <2> QED BY <2>1, <2>2, <2>3
<1>3. TutorialRunIInv /\ [TutorialRunNext]_tutorialRunVars => [Final]_tutorialRunVars
  BY TutorialRunStep DEF RowMoves
<1> QED BY <1>1, <1>2, <1>3, TutorialRunStep, PTL DEF TutorialRunSpec, RunMeasures, CancelIsFinal

-----------------------------------------------------------------------------
(***************************************************************************)
(* The in-memory task queue                                                *)
(***************************************************************************)

MemRow ==
    [status : {"absent", "succeeded"} \cup MemActive \cup MemWaiting \cup MemEnded,
     holder : MemHolder \cup {Free}, generation : Nat, attempt : Nat, expired : BOOLEAN, ready : BOOLEAN]

MemToken == [task : MemTask, holder : MemHolder, generation : Nat]

PresentIn(m) == {t \in MemTask : m[t].status # "absent"}

\* While a client pages it has all it began with up to the cursor, and nothing
\* beyond it.
WalkIsSound(w, present) ==
    /\ w \in [cursor : Nat, began : SUBSET present, seen : Seq(SUBSET MemTask), pc : {"idle", "paging", "done"}]
    /\ w.pc = "idle" => w.cursor = 0 /\ w.seen = << >>
    /\ w.pc # "done" =>
         /\ \A i \in DOMAIN w.seen : \A t \in w.seen[i] : t <= w.cursor
         /\ \A t \in w.began : t <= w.cursor => \E i \in DOMAIN w.seen : t \in w.seen[i]
    /\ w.pc = "done" => \A t \in w.began : \E i \in DOMAIN w.seen : t \in w.seen[i]
    /\ \A i, j \in DOMAIN w.seen : i # j => w.seen[i] \cap w.seen[j] = {}

MemIInv ==
    /\ mem \in [MemTask -> MemRow]
    /\ tokens \subseteq MemToken
    /\ WalkIsSound(walk, PresentIn(mem))

\* What a step may do to a task, as the abstract queue sees it.
MemTurn(a, b) ==
    /\ b \in MemRow
    /\ a.status # "absent" => b.status # "absent"
    /\ \/ b.holder \in {a.holder, Free} /\ b.generation = a.generation
       \/ b.holder \in MemHolder /\ b.generation = a.generation + 1

LEMMA EndsFields ==
    ASSUME NEW a \in MemRow, NEW status \in {"succeeded"} \cup MemEnded \cup MemWaiting
    PROVE  /\ Ends(a, status) \in MemRow /\ Ends(a, status).status = status
           /\ Ends(a, status).holder = Free /\ Ends(a, status).generation = a.generation
<1> DEFINE x == [a EXCEPT !.status = status]
           y == [x EXCEPT !.holder = Free]
<1>1. x \in MemRow /\ x.generation = a.generation /\ x.status = status
  BY DEF MemRow
<1>2. y \in MemRow /\ y.generation = a.generation /\ y.status = status /\ y.holder = Free
  <2> HIDE DEF x
  <2> QED BY <1>1 DEF MemRow
<1>3. Ends(a, status) = [y EXCEPT !.expired = FALSE]
  BY DEF Ends
<1> HIDE DEF y
<1> QED BY <1>2, <1>3 DEF MemRow

LEMMA EndsTurn ==
    ASSUME NEW a \in MemRow, NEW status \in {"succeeded"} \cup MemEnded \cup MemWaiting
    PROVE  MemTurn(a, Ends(a, status))
<1>1. status # "absent"
  BY DEF MemEnded, MemWaiting
<1> QED BY <1>1, EndsFields DEF MemTurn

LEMMA TakenTurn ==
    ASSUME NEW a \in MemRow, NEW w \in MemHolder
    PROVE  /\ MemTurn(a, Taken(a, w)) /\ Taken(a, w).status = "leased"
           /\ Taken(a, w).generation = a.generation + 1
<1> DEFINE x == [a EXCEPT !.status = "leased"]
           y == [x EXCEPT !.holder = w]
           z == [y EXCEPT !.expired = FALSE]
           v == [z EXCEPT !.attempt = a.attempt + 1]
<1>0. a.generation \in Nat /\ a.attempt \in Nat
  BY DEF MemRow
<1>1. x \in MemRow /\ x.generation = a.generation /\ x.status = "leased"
  BY DEF MemRow, MemActive
<1>2. y \in MemRow /\ y.generation = a.generation /\ y.status = "leased" /\ y.holder = w
  <2> HIDE DEF x
  <2> QED BY <1>1 DEF MemRow
<1>3. z \in MemRow /\ z.generation = a.generation /\ z.status = "leased" /\ z.holder = w
  <2> HIDE DEF y
  <2> QED BY <1>2 DEF MemRow
<1>4. v \in MemRow /\ v.generation = a.generation /\ v.status = "leased" /\ v.holder = w
  <2> HIDE DEF z
  <2> QED BY <1>0, <1>3 DEF MemRow
<1>5. Taken(a, w) = [v EXCEPT !.generation = a.generation + 1]
  BY DEF Taken, MemRow
<1> HIDE DEF v
<1>6. /\ Taken(a, w) \in MemRow /\ Taken(a, w).generation = a.generation + 1
      /\ Taken(a, w).status = "leased" /\ Taken(a, w).holder = w
  BY <1>0, <1>4, <1>5 DEF MemRow
<1> QED BY <1>6 DEF MemTurn

\* An update of fields that do not hold the lease.
LEMMA FieldsTurn ==
    ASSUME NEW a \in MemRow,
           NEW status \in {"queued", "running", "cancelling"}, NEW flag \in BOOLEAN
    PROVE  /\ MemTurn(a, [a EXCEPT !.status = status])
           /\ MemTurn(a, [a EXCEPT !.expired = flag])
           /\ MemTurn(a, [a EXCEPT !.ready = flag])
           /\ MemTurn(a, [a EXCEPT !.attempt = 0])
<1>1. MemTurn(a, [a EXCEPT !.status = status])
  BY DEF MemRow, MemTurn, MemActive, MemWaiting
<1>2. MemTurn(a, [a EXCEPT !.expired = flag])
  BY DEF MemRow, MemTurn
<1>3. MemTurn(a, [a EXCEPT !.ready = flag])
  BY DEF MemRow, MemTurn
<1>4. MemTurn(a, [a EXCEPT !.attempt = 0])
  BY DEF MemRow, MemTurn
<1> QED BY <1>1, <1>2, <1>3, <1>4

\* Two updates of such fields are one turn.
LEMMA TurnsCompose ==
    ASSUME NEW a \in MemRow, NEW b, NEW c, MemTurn(a, b), MemTurn(b, c), b.generation = a.generation,
           c.generation = b.generation
    PROVE  MemTurn(a, c)
<1>1. a.generation \in Nat /\ b.generation \in Nat
  BY DEF MemTurn, MemRow
<1>2. b.holder \in {a.holder, Free} /\ c.holder \in {b.holder, Free}
  BY <1>1 DEF MemTurn
<1> QED BY <1>2 DEF MemTurn

MemTurns == mem' \in [MemTask -> MemRow] /\ \A t \in MemTask : MemTurn(mem[t], mem'[t])

LEMMA OneTask ==
    ASSUME MemIInv, NEW t \in MemTask, NEW v, MemTurn(mem[t], v), mem' = [mem EXCEPT ![t] = v]
    PROVE  MemTurns
<1>1. v \in MemRow /\ \A u \in MemTask : mem[u] \in MemRow
  BY DEF MemTurn, MemIInv
<1>2. \A a \in MemRow : MemTurn(a, a)
  BY DEF MemTurn
<1>3. mem' \in [MemTask -> MemRow] /\ mem'[t] = v /\ \A u \in MemTask : u # t => mem'[u] = mem[u]
  BY <1>1 DEF MemIInv
<1> QED BY <1>1, <1>2, <1>3 DEF MemTurns

\* A status and a flag are written together.
LEMMA StatusAndFlag ==
    ASSUME NEW a \in MemRow, NEW status \in {"queued", "running", "cancelling"}, NEW flag \in BOOLEAN
    PROVE  /\ MemTurn(a, [[a EXCEPT !.status = status] EXCEPT !.expired = flag])
           /\ MemTurn(a, [[a EXCEPT !.status = status] EXCEPT !.ready = flag])
<1> DEFINE b == [a EXCEPT !.status = status]
<1>1. MemTurn(a, b) /\ b \in MemRow /\ b.generation = a.generation
  BY FieldsTurn DEF MemTurn, MemRow
<1> HIDE DEF b
<1>2. /\ MemTurn(b, [b EXCEPT !.expired = flag]) /\ MemTurn(b, [b EXCEPT !.ready = flag])
      /\ [b EXCEPT !.expired = flag].generation = b.generation
      /\ [b EXCEPT !.ready = flag].generation = b.generation
  BY <1>1, FieldsTurn DEF MemRow
<1>3. MemTurn(a, [b EXCEPT !.expired = flag]) /\ MemTurn(a, [b EXCEPT !.ready = flag])
  BY <1>1, <1>2, TurnsCompose
<1> QED BY <1>3 DEF b

LEMMA ClientTurns ==
    ASSUME MemIInv, NEW t \in MemTask, MemEnqueue(t) \/ MemTime(t) \/ MemCancel(t) \/ MemRetry(t)
    PROVE  MemTurns
<1>0. mem[t] \in MemRow
  BY DEF MemIInv
<1>1. CASE MemEnqueue(t)
  <2>1. PICK ready \in BOOLEAN : mem' = [mem EXCEPT ![t].status = "queued", ![t].ready = ready]
    BY <1>1 DEF MemEnqueue
  <2>2. mem' = [mem EXCEPT ![t] = [[mem[t] EXCEPT !.status = "queued"] EXCEPT !.ready = ready]]
    BY <2>1 DEF MemIInv
  <2> QED BY <1>0, <2>2, StatusAndFlag, OneTask
<1>2. CASE MemTime(t)
  <2>1. \/ mem' = [mem EXCEPT ![t] = [mem[t] EXCEPT !.expired = TRUE]]
        \/ mem' = [mem EXCEPT ![t] = [mem[t] EXCEPT !.ready = TRUE]]
    BY <1>2 DEF MemTime
  <2>2. MemTurn(mem[t], [mem[t] EXCEPT !.expired = TRUE]) /\ MemTurn(mem[t], [mem[t] EXCEPT !.ready = TRUE])
    BY <1>0, FieldsTurn
  <2> QED BY <2>1, <2>2, OneTask
<1>3. CASE MemCancel(t)
  <2>1. \/ mem' = [mem EXCEPT ![t] = Ends(mem[t], "cancelled")]
        \/ mem' = [mem EXCEPT ![t] = [mem[t] EXCEPT !.status = "cancelling"]]
    BY <1>3 DEF MemCancel
  <2>2. MemTurn(mem[t], Ends(mem[t], "cancelled")) /\ MemTurn(mem[t], [mem[t] EXCEPT !.status = "cancelling"])
    <3>1. "cancelled" \in {"succeeded"} \cup MemEnded \cup MemWaiting
      BY DEF MemEnded
    <3> QED BY <1>0, <3>1, EndsTurn, FieldsTurn
  <2> QED BY <2>1, <2>2, OneTask
<1>4. CASE MemRetry(t)
  <2> DEFINE a == mem[t]
             b == [a EXCEPT !.status = "queued"]
             c == [b EXCEPT !.attempt = 0]
             d == [c EXCEPT !.ready = TRUE]
  <2>1. mem' = [mem EXCEPT ![t] = d]
    BY <1>4 DEF MemRetry, MemIInv
  <2>2. MemTurn(a, b) /\ b \in MemRow /\ b.generation = a.generation
    BY <1>0, FieldsTurn DEF MemTurn, MemRow
  <2>3. MemTurn(b, c) /\ c \in MemRow /\ c.generation = b.generation
    <3> HIDE DEF b
    <3> QED BY <2>2, FieldsTurn DEF MemTurn, MemRow
  <2>4. MemTurn(c, d) /\ d.generation = c.generation
    <3> HIDE DEF c
    <3> QED BY <2>3, FieldsTurn DEF MemTurn, MemRow
  <2> HIDE DEF a, b, c, d
  <2>5. MemTurn(a, c) /\ c.generation = a.generation
    BY <1>0, <2>2, <2>3, TurnsCompose DEF a
  <2>6. MemTurn(a, d)
    BY <1>0, <2>3, <2>4, <2>5, TurnsCompose DEF a
  <2> QED BY <2>1, <2>6, OneTask DEF a
<1> QED BY <1>1, <1>2, <1>3, <1>4

LEMMA HolderTurns ==
    ASSUME MemIInv, NEW k \in tokens,
           MemHeartbeat(k) \/ MemComplete(k) \/ MemFail(k, TRUE) \/ MemFail(k, FALSE) \/ MemMarkCancelled(k)
    PROVE  MemTurns
<1>0. k.task \in MemTask /\ mem[k.task] \in MemRow
  BY DEF MemIInv, MemToken
<1>1. PICK t \in MemTask : t = k.task
  BY <1>0
<1>2. /\ "succeeded" \in {"succeeded"} \cup MemEnded \cup MemWaiting
      /\ {"failed_terminal", "dead_letter", "failed_retryable", "cancelled"} \subseteq
           {"succeeded"} \cup MemEnded \cup MemWaiting
  BY DEF MemEnded, MemWaiting
<1>3. CASE MemHeartbeat(k)
  <2>1. mem' = [mem EXCEPT ![t] = [[mem[t] EXCEPT !.status = "running"] EXCEPT !.expired = FALSE]]
    BY <1>1, <1>3 DEF MemHeartbeat, MemIInv
  <2> QED BY <1>0, <1>1, <2>1, StatusAndFlag, OneTask
<1>4. CASE MemComplete(k)
  BY <1>0, <1>1, <1>2, <1>4, EndsTurn, OneTask DEF MemComplete
<1>5. ASSUME NEW retryable \in BOOLEAN, MemFail(k, retryable) PROVE MemTurns
  <2> DEFINE last == [Ends(mem[t], "failed_retryable") EXCEPT !.ready = FALSE]
  <2>1. \/ mem' = [mem EXCEPT ![t] = Ends(mem[t], "failed_terminal")]
        \/ mem' = [mem EXCEPT ![t] = Ends(mem[t], "dead_letter")]
        \/ mem' = [mem EXCEPT ![t] = last]
    BY <1>1, <1>5 DEF MemFail
  <2>2. /\ MemTurn(mem[t], Ends(mem[t], "failed_terminal")) /\ MemTurn(mem[t], Ends(mem[t], "dead_letter"))
        /\ MemTurn(mem[t], Ends(mem[t], "failed_retryable"))
        /\ Ends(mem[t], "failed_retryable") \in MemRow
        /\ Ends(mem[t], "failed_retryable").generation = mem[t].generation
    BY <1>0, <1>1, <1>2, EndsTurn, EndsFields
  <2>3. MemTurn(mem[t], last)
    <3>1. /\ MemTurn(Ends(mem[t], "failed_retryable"), last)
          /\ last.generation = Ends(mem[t], "failed_retryable").generation
      BY <2>2, FieldsTurn DEF MemRow
    <3> QED BY <1>0, <1>1, <2>2, <3>1, TurnsCompose
  <2> HIDE DEF last
  <2> QED BY <2>1, <2>2, <2>3, OneTask
<1>6. CASE MemMarkCancelled(k)
  BY <1>0, <1>1, <1>2, <1>6, EndsTurn, OneTask DEF MemMarkCancelled
<1> QED BY <1>3, <1>4, <1>5, <1>6

LEMMA GrantTurns ==
    ASSUME MemIInv, NEW w \in MemHolder, NEW p, NEW n \in Nat, MemLease(w, p, n)
    PROVE  /\ MemTurns /\ tokens' \subseteq MemToken
           /\ \A k \in tokens' \ tokens : \A u \in MemTask \ {k.task} :
                MemResourceOf[u] = MemResourceOf[k.task] /\ MemResourceOf[u] # 0 =>
                   ~(mem'[u].status \in MemActive /\ ~mem'[u].expired)
<1> DEFINE B == MemBatch(p, n)
<1>1. /\ mem' = [t \in MemTask |-> IF t \in B THEN Taken(mem[t], w) ELSE mem[t]]
      /\ tokens' = tokens \cup {[task |-> t, holder |-> w, generation |-> mem'[t].generation] : t \in B}
  BY DEF MemLease
<1>2. /\ B \subseteq ReadyTasks(p) /\ ReadyTasks(p) \subseteq MemTask
      /\ \A t \in B : ~Blocked(p, t)
  BY DEF MemBatch, ReadyTasks
<1> HIDE DEF B
<1>3. \A a \in MemRow : MemTurn(a, a)
  BY DEF MemTurn
<1>4. ASSUME NEW t \in MemTask
      PROVE  mem'[t] = (IF t \in B THEN Taken(mem[t], w) ELSE mem[t]) /\ mem[t] \in MemRow /\ MemTurn(mem[t], mem'[t])
  <2>1. mem'[t] = (IF t \in B THEN Taken(mem[t], w) ELSE mem[t]) /\ mem[t] \in MemRow
    BY <1>1 DEF MemIInv
  <2>2. MemTurn(mem[t], Taken(mem[t], w))
    BY <2>1, TakenTurn
  <2> QED BY <1>3, <2>1, <2>2
<1>5. MemTurns
  <2>1. \A t \in MemTask : mem'[t] \in MemRow
    BY <1>4 DEF MemTurn
  <2> QED BY <1>1, <1>4, <2>1 DEF MemTurns
<1>6. tokens' \subseteq MemToken
  <2>1. \A t \in B : [task |-> t, holder |-> w, generation |-> mem'[t].generation] \in MemToken
    <3>1. \A t \in B : t \in MemTask /\ mem'[t].generation \in Nat
      BY <1>2, <1>5 DEF MemTurns, MemRow
    <3> QED BY <3>1 DEF MemToken
  <2> QED BY <1>1, <2>1 DEF MemIInv
<1>7. ASSUME NEW k \in tokens' \ tokens, NEW u \in MemTask \ {k.task},
             MemResourceOf[u] = MemResourceOf[k.task], MemResourceOf[u] # 0,
             mem'[u].status \in MemActive, ~mem'[u].expired
      PROVE  FALSE
  <2>1. PICK t \in B : k = [task |-> t, holder |-> w, generation |-> mem'[t].generation]
    BY <1>1, <1>7
  <2>2. t = k.task /\ t \in MemTask /\ t \in ReadyTasks(p) /\ ~Blocked(p, t) /\ u # t
    BY <1>2, <1>7, <2>1
  <2>3. CASE u \in B
    <3>1. u \in ReadyTasks(p) /\ ~Blocked(p, u)
      BY <1>2, <2>3
    <3>2. u < t \/ t < u
      BY <2>2, MemoryAssumption
    <3> QED BY <1>7, <2>2, <3>1, <3>2 DEF Blocked
  <2>4. CASE u \notin B
    <3>1. mem'[u] = mem[u]
      BY <1>4, <2>4
    <3>2. MemResourceOf[u] \in ActiveResources
      BY <1>7, <3>1 DEF ActiveResources
    <3> QED BY <1>7, <2>2, <3>2 DEF Blocked
  <2> QED BY <2>3, <2>4
<1> QED BY <1>5, <1>6, <1>7

LEMMA PresentGrows ==
    ASSUME MemIInv, MemTurns, walk' = walk
    PROVE  WalkIsSound(walk', PresentIn(mem'))
<1>1. PresentIn(mem) \subseteq PresentIn(mem')
  BY DEF PresentIn, MemTurns, MemTurn
<1> QED BY <1>1 DEF MemIInv, WalkIsSound

LEMMA ListTurns ==
    ASSUME MemIInv, MemList
    PROVE  MemIInv' /\ mem' = mem /\ tokens' = tokens
<1> DEFINE present == PresentIn(mem)
           after == AfterCursor(walk.cursor)
           page == LowestOf(after, MemPage)
           last == CHOOSE t \in page : \A u \in page : u <= t
           full == Cardinality(page) = MemPage
           began == IF walk.pc = "idle" THEN present ELSE walk.began
           cursor == IF full THEN last ELSE 0
           pc == IF full THEN "paging" ELSE "done"
           seen == Append(walk.seen, page)
<1>1. /\ walk.pc # "done" /\ mem' = mem /\ tokens' = tokens
      /\ walk' = [began |-> began, seen |-> seen, cursor |-> cursor, pc |-> pc]
  BY DEF MemList, LowestOf, PresentIn, Present
<1>2. /\ MemTask \subseteq Nat \ {0} /\ IsFiniteSet(MemTask) /\ MemPage \in Nat \ {0}
  BY MemoryAssumption
<1>3. /\ walk.cursor \in Nat /\ walk.began \subseteq present /\ walk.seen \in Seq(SUBSET MemTask)
      /\ present \subseteq MemTask /\ WalkIsSound(walk, present)
  BY DEF MemIInv, WalkIsSound, PresentIn
<1>4. /\ after \in SUBSET Nat /\ IsFiniteSet(after) /\ after \subseteq MemTask
      /\ \A t \in present : t \in after <=> t > walk.cursor
      /\ \A t \in after : t > walk.cursor
  <2>1. after \subseteq MemTask
    BY DEF AfterCursor, Present
  <2>2. after \subseteq Nat
    BY <1>2, <2>1
  <2>3. IsFiniteSet(after)
    BY <1>2, <2>1, FS_Subset
  <2>4. /\ \A t \in present : t \in after <=> t > walk.cursor
        /\ \A t \in after : t > walk.cursor
    BY DEF AfterCursor, Present, PresentIn
  <2> HIDE DEF after
  <2> QED BY <2>1, <2>2, <2>3, <2>4
<1> HIDE DEF after
<1>5. page \subseteq after /\ page \subseteq MemTask
  BY <1>4 DEF LowestOf
<1>6. began \subseteq present
  BY <1>3
<1>7. /\ seen \in Seq(SUBSET MemTask) /\ DOMAIN seen = 1..(Len(walk.seen) + 1)
      /\ DOMAIN walk.seen = 1..Len(walk.seen) /\ Len(walk.seen) \in Nat
      /\ \A i \in DOMAIN walk.seen : seen[i] = walk.seen[i]
      /\ seen[Len(walk.seen) + 1] = page
  <2>1. page \in SUBSET MemTask
    BY <1>5
  <2> HIDE DEF page
  <2> QED BY <1>3, <2>1
<1>8. full => /\ last \in page /\ \A u \in page : u <= last
              /\ last \in Nat
  <2>1. SUFFICES ASSUME full PROVE last \in page /\ (\A u \in page : u <= last) /\ last \in Nat
    OBVIOUS
  <2>2. page # {}
    <3> HIDE DEF page
    <3> QED BY <1>2, <2>1, FS_EmptySet
  <2>3. page \in SUBSET Nat /\ IsFiniteSet(page)
    BY <1>4, <1>5, FS_Subset
  <2>4. \E m \in page : \A u \in page : u <= m
    <3> HIDE DEF page
    <3> QED BY <2>2, <2>3, GreatestOf
  <2> HIDE DEF page
  <2> QED BY <2>3, <2>4
<1>9. ~full => page = after
  BY <1>2, <1>4, LowestIsFull
<1>a. \A i \in DOMAIN walk.seen : \A t \in walk.seen[i] : t <= walk.cursor /\ t \in Nat
  <2>1. ASSUME NEW i \in DOMAIN walk.seen, NEW t \in walk.seen[i] PROVE t <= walk.cursor /\ t \in Nat
    <3>1. walk.seen[i] \subseteq MemTask /\ t <= walk.cursor
      BY <1>1, <1>3 DEF WalkIsSound
    <3>2. t \in MemTask
      BY <3>1
    <3> QED BY <1>2, <3>1, <3>2
  <2> QED BY <2>1
\* A task of before that is not beyond the page is in it or was in an earlier one.
<1>10. ASSUME NEW t \in began, ~full \/ t <= last PROVE \E i \in DOMAIN seen : t \in seen[i]
  <2>1. t \in present /\ t \in Nat /\ t > 0
    <3> HIDE DEF present, began, full, last
    <3>1. t \in MemTask
      BY <1>3, <1>6, <1>10
    <3>2. t \in Nat /\ t # 0
      BY <1>2, <3>1
    <3> QED BY <1>6, <1>10, <3>2
  <2>2. CASE t > walk.cursor
    <3>1. t \in after
      BY <1>4, <2>1, <2>2
    <3>2. t \in page
      <4>1. CASE ~full
        BY <1>9, <3>1, <4>1
      <4>2. CASE full /\ t = last
        BY <1>8, <4>2
      <4>3. CASE full /\ t < last
        BY <1>2, <1>4, <1>8, <3>1, <4>3, LowestIsPrefix
      <4> QED BY <1>8, <1>10, <2>1, <4>1, <4>2, <4>3
    <3> HIDE DEF page, seen
    <3> QED BY <1>7, <3>2
  <2>3. CASE ~(t > walk.cursor)
    <3>1. t <= walk.cursor /\ walk.pc # "idle"
      BY <1>3, <2>1, <2>3 DEF WalkIsSound
    <3>2. t \in walk.began
      BY <3>1
    <3>3. PICK i \in DOMAIN walk.seen : t \in walk.seen[i]
      BY <1>1, <1>3, <3>1, <3>2 DEF WalkIsSound
    <3> HIDE DEF page, seen
    <3> QED BY <1>7, <3>3
  <2> QED BY <2>2, <2>3
<1>11. ASSUME NEW i \in DOMAIN seen, NEW j \in DOMAIN seen, i # j PROVE seen[i] \cap seen[j] = {}
  <2>1. \A m \in DOMAIN walk.seen : walk.seen[m] \cap page = {}
    <3>1. ASSUME NEW m \in DOMAIN walk.seen, NEW t \in walk.seen[m] PROVE t \notin page
      <4>1. t <= walk.cursor /\ t \in Nat
        BY <1>1, <1>a, <3>1
      <4>2. ~(t > walk.cursor)
        BY <1>3, <4>1
      <4> QED BY <1>4, <1>5, <4>2
    <3> HIDE DEF page
    <3> QED BY <3>1
  <2>2. \A a, b \in DOMAIN walk.seen : a # b => walk.seen[a] \cap walk.seen[b] = {}
    BY <1>3 DEF WalkIsSound
  <2>3. (i \in DOMAIN walk.seen \/ i = Len(walk.seen) + 1) /\ (j \in DOMAIN walk.seen \/ j = Len(walk.seen) + 1)
    <3> HIDE DEF seen
    <3> QED BY <1>7
  <2> HIDE DEF page, seen
  <2> QED BY <1>7, <1>11, <2>1, <2>2, <2>3
<1>12. full => \A i \in DOMAIN seen : \A t \in seen[i] : t <= last
  <2> SUFFICES ASSUME full, NEW i \in DOMAIN seen, NEW t \in seen[i] PROVE t <= last
    OBVIOUS
  <2>1. i \in DOMAIN walk.seen \/ i = Len(walk.seen) + 1
    <3> HIDE DEF seen
    <3> QED BY <1>7
  <2>2. CASE i = Len(walk.seen) + 1
    <3> HIDE DEF seen, page, last
    <3> QED BY <1>7, <1>8, <2>2
  <2>3. CASE i \in DOMAIN walk.seen
    <3>1. t \in walk.seen[i]
      <4> HIDE DEF seen
      <4> QED BY <1>7, <2>3
    <3>2. t <= walk.cursor /\ t \in Nat
      BY <1>1, <1>a, <2>3, <3>1
    <3>3. walk.cursor < last
      <4> HIDE DEF last, page
      <4> QED BY <1>3, <1>4, <1>5, <1>8
    <3>4. last \in Nat
      BY <1>8
    <3> HIDE DEF last
    <3> QED BY <1>3, <3>2, <3>3, <3>4
  <2> QED BY <2>1, <2>2, <2>3
<1>13. WalkIsSound(walk', present)
  <2>1. /\ walk'.pc = pc /\ walk'.cursor = cursor /\ walk'.seen = seen /\ walk'.began = began
        /\ cursor \in Nat /\ pc \in {"paging", "done"}
    <3>1. cursor \in Nat
      BY <1>8
    <3> HIDE DEF cursor, seen, began
    <3> QED BY <1>1, <3>1
  <2>2. walk' \in [cursor : Nat, began : SUBSET present, seen : Seq(SUBSET MemTask), pc : {"idle", "paging", "done"}]
    <3> HIDE DEF cursor, seen, began, pc
    <3> QED BY <1>1, <1>6, <1>7, <2>1
  <2>3. pc # "done" => full /\ cursor = last
    OBVIOUS
  <2>4. pc = "done" => ~full
    OBVIOUS
  <2> HIDE DEF cursor, seen, began, pc, full, last, page, present
  <2> QED BY <1>10, <1>11, <1>12, <2>1, <2>2, <2>3, <2>4 DEF WalkIsSound
<1> QED BY <1>1, <1>13 DEF MemIInv

LEMMA MemStep ==
    MemIInv /\ [MemNext]_memVars =>
      /\ MemIInv' /\ MemTurns
      /\ \A k \in tokens' \ tokens : \A u \in MemTask \ {k.task} :
           MemResourceOf[u] = MemResourceOf[k.task] /\ MemResourceOf[u] # 0 =>
              ~(mem'[u].status \in MemActive /\ ~mem'[u].expired)
<1> DEFINE Exclusively == \A k \in tokens' \ tokens : \A u \in MemTask \ {k.task} :
                            MemResourceOf[u] = MemResourceOf[k.task] /\ MemResourceOf[u] # 0 =>
                               ~(mem'[u].status \in MemActive /\ ~mem'[u].expired)
<1> SUFFICES ASSUME MemIInv, [MemNext]_memVars PROVE MemIInv' /\ MemTurns /\ Exclusively
  OBVIOUS
<1>1. ASSUME MemTurns, tokens' = tokens, walk' = walk PROVE MemIInv' /\ Exclusively
  BY <1>1, PresentGrows DEF MemIInv, MemTurns
<1>2. ASSUME NEW t \in MemTask, MemEnqueue(t) \/ MemTime(t) \/ MemCancel(t) \/ MemRetry(t)
      PROVE  MemIInv' /\ MemTurns /\ Exclusively
  <2>1. tokens' = tokens /\ walk' = walk
    BY <1>2 DEF MemEnqueue, MemTime, MemCancel, MemRetry
  <2> QED BY <1>1, <1>2, <2>1, ClientTurns
<1>3. ASSUME NEW k \in tokens,
             MemHeartbeat(k) \/ MemComplete(k) \/ MemFail(k, TRUE) \/ MemFail(k, FALSE) \/ MemMarkCancelled(k)
      PROVE  MemIInv' /\ MemTurns /\ Exclusively
  <2>1. tokens' = tokens /\ walk' = walk
    BY <1>3 DEF MemHeartbeat, MemComplete, MemFail, MemMarkCancelled
  <2> QED BY <1>1, <1>3, <2>1, HolderTurns
<1>4. ASSUME NEW w \in MemHolder, NEW t \in MemTask, NEW n \in 1..Cardinality(MemTask), MemLease(w, MemPoolOf[t], n)
      PROVE  MemIInv' /\ MemTurns /\ Exclusively
  <2>1. Cardinality(MemTask) \in Nat
    BY MemoryAssumption, FS_CardinalityType
  <2>2. n \in Nat /\ walk' = walk
    BY <1>4, <2>1 DEF MemLease
  <2>3. MemTurns /\ tokens' \subseteq MemToken /\ Exclusively
    BY <1>4, <2>2, GrantTurns
  <2> QED BY <2>2, <2>3, PresentGrows DEF MemIInv, MemTurns
<1>a. \A a \in MemRow : MemTurn(a, a)
  BY DEF MemTurn
<1>b. mem' = mem => MemTurns
  BY <1>a DEF MemIInv, MemTurns
<1>5. CASE MemList
  BY <1>5, <1>b, ListTurns
<1>6. CASE UNCHANGED memVars
  BY <1>1, <1>6, <1>b DEF memVars
<1> QED BY <1>2, <1>3, <1>4, <1>5, <1>6 DEF MemNext

\* The in-memory queue implements the abstract lease, grants no resource next
\* to a live lease of it, and lists every task that was there once, while
\* tasks are leased, taken over, cancelled and retried.
THEOREM MemoryLeases == MemSpec => MemoryKeepsLeases
<1>1. MemInit => MemIInv /\ Fencing!FencingInit
  <2> SUFFICES ASSUME MemInit PROVE MemIInv /\ Fencing!FencingInit
    OBVIOUS
  <2> DEFINE none == [status |-> "absent", holder |-> Free, generation |-> 0, attempt |-> 0,
                      expired |-> FALSE, ready |-> FALSE]
  <2>1. none \in MemRow /\ none.status = "absent" /\ none.holder = Free /\ none.generation = 0
    BY DEF MemRow
  <2>2. mem = [t \in MemTask |-> none]
    BY DEF MemInit
  <2> HIDE DEF none
  <2>3. mem \in [MemTask -> MemRow] /\ PresentIn(mem) = {}
    BY <2>1, <2>2 DEF PresentIn
  <2>4. WalkIsSound(walk, PresentIn(mem)) /\ tokens = {}
    BY <2>3 DEF MemInit, WalkIsSound
  <2>5. Fencing!FencingInit
    BY <2>1, <2>2 DEF Fencing!FencingInit
  <2> QED BY <2>3, <2>4, <2>5 DEF MemIInv
<1>2. MemIInv => WalkIsComplete
  BY DEF MemIInv, WalkIsSound, WalkIsComplete
<1>3. MemIInv /\ MemIInv' /\ [MemNext]_memVars => [Fencing!FencingNext]_(Fencing!fencing)
  <2> SUFFICES ASSUME MemIInv, MemIInv', [MemNext]_memVars PROVE Fencing!FencingNext
    OBVIOUS
  <2> DEFINE holders == [t \in MemTask |-> mem[t].holder]
             generations == [t \in MemTask |-> mem[t].generation]
  <2>1. holders' \in [MemTask -> MemHolder \cup {Free}] /\ generations' \in [MemTask -> Nat]
    BY DEF MemIInv, MemRow
  <2>2. ASSUME NEW t \in MemTask
        PROVE  \/ holders'[t] \in {holders[t], Free} /\ generations'[t] = generations[t]
               \/ holders'[t] \in MemHolder /\ generations'[t] = generations[t] + 1
    BY MemStep DEF MemTurns, MemTurn
  <2> QED BY <2>1, <2>2 DEF Fencing!FencingNext, Fencing!Turn
<1>4. MemIInv /\ [MemNext]_memVars =>
        [\A k \in tokens' \ tokens : \A u \in MemTask \ {k.task} :
           MemResourceOf[u] = MemResourceOf[k.task] /\ MemResourceOf[u] # 0 =>
              ~(mem'[u].status \in MemActive /\ ~mem'[u].expired)]_memVars
  BY MemStep
<1>5. MemIInv /\ [MemNext]_memVars => MemIInv'
  BY MemStep
<1> QED BY <1>1, <1>2, <1>3, <1>4, <1>5, PTL
    DEF MemSpec, MemoryKeepsLeases, MemoryFences, GrantIsExclusive, Fencing!FencingSpec

-----------------------------------------------------------------------------
(***************************************************************************)
(* Offline items                                                           *)
(***************************************************************************)

ItemRow == [status : ItemStatus, report : {"none", "passed", "failed"}, published : BOOLEAN]

ItemRequestRow == [step : {"idle", "write", "regression", "mark", "validate"}, copy : ItemRow]

ShadowRow == [lists : 0..4, seen : Nat, eligible : BOOLEAN, outdated : BOOLEAN]

\* The report and the time that a status asks for.
RowBacked(row) ==
    /\ row.status \in {"regression_passed", "published", "stale"} => row.report = "passed"
    /\ row.status \in {"published", "stale"} => row.published = TRUE

\* The list of listEligibleItems in which a status is found.
Place(status) ==
    IF status = "verified" THEN 1 ELSE IF status = "shadow_enabled" THEN 2
    ELSE IF status = "regression_passed" THEN 3 ELSE IF status = "published" THEN 4 ELSE 0

CopyIsSound(rq) ==
    /\ rq \in ItemRequestRow
    /\ rq.step = "write" => RowBacked(rq.copy)
    /\ rq.step = "regression" => rq.copy.status \in {"shadow_enabled", "regression_failed"}
    /\ rq.step = "mark" => rq.copy.status = "stale"

\* A request that is not behind works on what the row holds: its write never
\* moves an eligible item back.
CopyIsCurrent(rq, status) ==
    rq.step # "idle" =>
      /\ status # "deprecated"
      /\ rq.step = "regression" => rq.copy.status = status
      /\ rq.step = "mark" => status = "stale"
      /\ rq.step = "validate" => Place(status) = 0
      /\ rq.step = "write" => Place(status) = 0 \/ Place(rq.copy.status) = 0 \/ Place(status) <= Place(rq.copy.status)

ShadowIsSound(sh, status) ==
    /\ sh.lists > 0 /\ sh.eligible = TRUE => Place(status) > 0
    /\ sh.outdated = FALSE /\ sh.lists > 0 /\ sh.eligible = TRUE /\ sh.seen = 0 => Place(status) > sh.lists

ItemIInv ==
    /\ item \in ItemRow /\ RowBacked(item)
    /\ itemRequest \in [ItemRequest -> ItemRequestRow]
    /\ shadow \in ShadowRow
    /\ \A a \in ItemRequest : CopyIsSound(itemRequest[a])
    /\ \A a \in ItemRequest : a \notin behind => CopyIsCurrent(itemRequest[a], item.status)
    /\ ShadowIsSound(shadow, item.status)

LEMMA PlaceIsEligible ==
    \A status : /\ shadowStatusEligible(status) <=> Place(status) > 0
                /\ Place(status) \in 0..4
BY DEF shadowStatusEligible, Place

LEMMA TransitionFacts ==
    ASSUME NEW s \in ItemStatus, NEW t \in ItemStatus, CanTransition(s, t)
    PROVE  /\ s # "deprecated"
           /\ t = "published" => s = "regression_passed"
           /\ t = "stale" => s = "published"
           /\ t = "regression_passed" => s = "shadow_enabled"
           /\ Place(s) = 0 \/ Place(t) = 0 \/ Place(s) <= Place(t)
<1>1. t \in itemStatusTransitions[s]
  BY DEF CanTransition
<1>2. CASE s \in {"candidate", "evidence_validating", "needs_review", "regression_failed", "stale", "rejected", "knowledge_gap"}
  BY <1>1, <1>2 DEF itemStatusTransitions, Place
<1>3. CASE s = "verified"
  BY <1>1, <1>3 DEF itemStatusTransitions, Place
<1>4. CASE s = "shadow_enabled"
  BY <1>1, <1>4 DEF itemStatusTransitions, Place
<1>5. CASE s = "regression_passed"
  BY <1>1, <1>5 DEF itemStatusTransitions, Place
<1>6. CASE s = "published"
  BY <1>1, <1>6 DEF itemStatusTransitions, Place
<1>7. CASE s = "deprecated"
  BY <1>1, <1>7 DEF itemStatusTransitions
<1> QED BY <1>2, <1>3, <1>4, <1>5, <1>6, <1>7 DEF ItemStatus

LEMMA IdleRequest == NoRequest \in ItemRequestRow /\ NoRequest.step = "idle"
BY DEF NoRequest, ItemRequestRow, ItemRow, ItemStatus

\* A request begins on a row that is not archived.
LEMMA BeginKeeps ==
    ASSUME ItemIInv, NEW a \in ItemRequest, NEW step \in {"write", "regression", "mark"}, NEW copy \in ItemRow,
           Begin(a, step, copy), item.status # "deprecated",
           CopyIsSound([step |-> step, copy |-> copy]),
           CopyIsCurrent([step |-> step, copy |-> copy], item.status)
    PROVE  ItemIInv'
<1> DEFINE rq == [step |-> step, copy |-> copy]
<1>1. /\ itemRequest[a].step = "idle" /\ itemRequest' = [itemRequest EXCEPT ![a] = rq]
      /\ item' = item /\ shadow' = shadow
      /\ behind' = behind \ {a}
  BY DEF Begin
<1>2. rq \in ItemRequestRow /\ rq.step = step
  BY DEF ItemRequestRow
<1> HIDE DEF rq
<1>3. /\ itemRequest' \in [ItemRequest -> ItemRequestRow] /\ itemRequest'[a] = rq
      /\ \A b \in ItemRequest : b # a => itemRequest'[b] = itemRequest[b]
  BY <1>1, <1>2 DEF ItemIInv
<1>4. \A b \in ItemRequest : CopyIsSound(itemRequest'[b])
  BY <1>3 DEF ItemIInv, rq
<1>5. \A b \in ItemRequest : b \notin behind' => CopyIsCurrent(itemRequest'[b], item.status)
  BY <1>1, <1>3 DEF ItemIInv, rq
<1> QED BY <1>1, <1>3, <1>4, <1>5 DEF ItemIInv

\* A request goes on without a write.
LEMMA GoOnKeeps ==
    ASSUME ItemIInv, NEW a \in ItemRequest, NEW rq, GoOn(a, rq), item' = item, shadow' = shadow,
           behind' = behind, CopyIsSound(rq), a \notin behind => CopyIsCurrent(rq, item.status)
    PROVE  ItemIInv'
<1>1. /\ itemRequest' \in [ItemRequest -> ItemRequestRow] /\ itemRequest'[a] = rq
      /\ \A b \in ItemRequest : b # a => itemRequest'[b] = itemRequest[b]
  BY DEF GoOn, ItemIInv, CopyIsSound
<1>2. \A b \in ItemRequest : CopyIsSound(itemRequest'[b])
  BY <1>1 DEF ItemIInv
<1>3. \A b \in ItemRequest : b \notin behind => CopyIsCurrent(itemRequest'[b], item.status)
  BY <1>1 DEF ItemIInv
<1> QED BY <1>1, <1>2, <1>3 DEF ItemIInv

\* A request writes the row: not behind, it does not move an eligible item back.
LEMMA WriteKeeps ==
    ASSUME ItemIInv, NEW a \in ItemRequest, NEW rq, NEW row \in ItemRow, RowBacked(row),
           GoOn(a, rq), WriteItem(a, row), CopyIsSound(rq),
           a \notin behind =>
             /\ CopyIsCurrent(rq, row.status)
             /\ Place(item.status) = 0 \/ Place(row.status) = 0 \/ Place(item.status) <= Place(row.status)
    PROVE  ItemIInv'
<1>1. /\ itemRequest' \in [ItemRequest -> ItemRequestRow] /\ itemRequest'[a] = rq
      /\ \A b \in ItemRequest : b # a => itemRequest'[b] = itemRequest[b]
      /\ item' = row
      /\ behind' = behind \cup {b \in ItemRequest \ {a} : itemRequest[b].step # "idle"}
      /\ shadow' = [shadow EXCEPT !.eligible = @ /\ shadowStatusEligible(row.status),
                                  !.outdated = @ \/ a \in behind]
  BY DEF GoOn, ItemIInv, CopyIsSound, WriteItem
<1>2. \A b \in ItemRequest : CopyIsSound(itemRequest'[b])
  BY <1>1 DEF ItemIInv
<1>3. \A b \in ItemRequest : b \notin behind' => CopyIsCurrent(itemRequest'[b], row.status)
  BY <1>1 DEF ItemIInv, CopyIsCurrent
<1>4. /\ shadow'.lists = shadow.lists /\ shadow'.seen = shadow.seen
      /\ shadow' \in ShadowRow
  BY <1>1 DEF ItemIInv, ShadowRow
<1>5. shadow'.eligible = TRUE => shadow.eligible = TRUE /\ Place(row.status) > 0
  <2>1. shadow'.eligible = (shadow.eligible /\ shadowStatusEligible(row.status))
    BY <1>1 DEF ItemIInv, ShadowRow
  <2>2. shadow.eligible \in BOOLEAN
    BY DEF ItemIInv, ShadowRow
  <2>3. shadow'.eligible = TRUE => shadow.eligible = TRUE /\ shadowStatusEligible(row.status)
    BY <2>1, <2>2, Zenon
  <2> QED BY <2>3, PlaceIsEligible
<1>6. shadow'.outdated = FALSE => shadow.outdated = FALSE /\ a \notin behind
  <2>1. shadow'.outdated = (shadow.outdated \/ a \in behind)
    BY <1>1 DEF ItemIInv, ShadowRow
  <2>2. shadow.outdated \in BOOLEAN
    BY DEF ItemIInv, ShadowRow
  <2> QED BY <2>1, <2>2, Zenon
<1>7. ShadowIsSound(shadow', row.status)
  <2>1. Place(row.status) \in 0..4 /\ Place(item.status) \in 0..4 /\ shadow.lists \in 0..4
    BY PlaceIsEligible DEF ItemIInv, ShadowRow
  <2>2. ShadowIsSound(shadow, item.status)
    BY DEF ItemIInv
  <2> QED BY <1>4, <1>5, <1>6, <2>1, <2>2 DEF ShadowIsSound
<1> QED BY <1>1, <1>2, <1>3, <1>4, <1>7 DEF ItemIInv

\* A copy of the row that a transition writes back, by its fields.
LEMMA TransitionCopy ==
    ASSUME NEW row \in ItemRow, NEW next \in ItemStatus
    PROVE  LET copy == [row EXCEPT !.status = next, !.published = @ \/ next = "published"]
           IN  /\ copy \in ItemRow /\ copy.status = next /\ copy.report = row.report
               /\ row.published = TRUE \/ next = "published" => copy.published = TRUE
<1> DEFINE copy == [row EXCEPT !.status = next, !.published = @ \/ next = "published"]
<1>1. copy.published = (row.published \/ next = "published")
  BY DEF ItemRow
<1>2. row.published \in BOOLEAN
  BY DEF ItemRow
<1>3. row.published = TRUE \/ next = "published" => copy.published = TRUE
  BY <1>1, <1>2, Zenon
<1>4. copy \in ItemRow /\ copy.status = next /\ copy.report = row.report
  BY <1>2 DEF ItemRow
<1> QED BY <1>3, <1>4

LEMMA ItemStep == ItemIInv /\ [ItemNext]_itemVars => ItemIInv'
<1> SUFFICES ASSUME ItemIInv, [ItemNext]_itemVars
             PROVE  ItemIInv'
  OBVIOUS
<1> USE DEF ItemIInv
<1>1. ASSUME NEW a \in ItemRequest, NEW next \in Requested, TransitionReads(a, next)
      PROVE  ItemIInv'
  <2> DEFINE copy == [item EXCEPT !.status = next, !.published = @ \/ next = "published"]
  <2>1. next \in ItemStatus /\ next # "regression_passed"
    BY DEF Requested, ItemStatus
  <2>2. item.status \in ItemStatus /\ CanTransition(item.status, next)
    BY <1>1 DEF TransitionReads, ItemRow
  <2>3. /\ item.status # "deprecated"
        /\ next = "published" => item.status = "regression_passed"
        /\ next = "stale" => item.status = "published"
        /\ Place(item.status) = 0 \/ Place(next) = 0 \/ Place(item.status) <= Place(next)
    BY <2>1, <2>2, TransitionFacts
  <2>4. /\ copy \in ItemRow /\ copy.status = next /\ copy.report = item.report
        /\ item.published = TRUE \/ next = "published" => copy.published = TRUE
    BY <2>1, TransitionCopy
  <2>5. Begin(a, "write", copy)
    BY <1>1 DEF TransitionReads
  <2> HIDE DEF copy
  <2>6. RowBacked(copy)
    BY <2>1, <2>3, <2>4 DEF RowBacked
  <2>7. CopyIsSound([step |-> "write", copy |-> copy])
    BY <2>4, <2>6 DEF CopyIsSound, ItemRequestRow
  <2>8. CopyIsCurrent([step |-> "write", copy |-> copy], item.status)
    BY <2>3, <2>4 DEF CopyIsCurrent
  <2> QED BY <2>3, <2>4, <2>5, <2>7, <2>8, BeginKeeps
<1>2. ASSUME NEW a \in ItemRequest, RegressionReads(a)
      PROVE  ItemIInv'
  <2>1. item.status \in {"shadow_enabled", "regression_failed"} /\ Begin(a, "regression", item)
    BY <1>2 DEF RegressionReads, canRunRegressionForStatus
  <2>2. CopyIsSound([step |-> "regression", copy |-> item])
    BY <2>1 DEF CopyIsSound, ItemRequestRow
  <2>3. CopyIsCurrent([step |-> "regression", copy |-> item], item.status)
    BY <2>1 DEF CopyIsCurrent
  <2> QED BY <2>1, <2>2, <2>3, BeginKeeps
<1>3. ASSUME NEW a \in ItemRequest, RevalidateReads(a)
      PROVE  ItemIInv'
  <2>1. item.status = "stale" /\ Begin(a, "mark", item)
    BY <1>3 DEF RevalidateReads
  <2>2. CopyIsSound([step |-> "mark", copy |-> item])
    BY <2>1 DEF CopyIsSound, ItemRequestRow
  <2>3. CopyIsCurrent([step |-> "mark", copy |-> item], item.status)
    BY <2>1 DEF CopyIsCurrent
  <2> QED BY <2>1, <2>2, <2>3, BeginKeeps
<1>4. ASSUME NEW a \in ItemRequest, RevalidateMarks(a)
      PROVE  ItemIInv'
  <2> DEFINE row == [item EXCEPT !.status = "evidence_validating"]
             rq == [itemRequest[a] EXCEPT !.step = "validate"]
  <2>1. itemRequest[a].step = "mark" /\ WriteItem(a, row) /\ GoOn(a, rq)
    BY <1>4 DEF RevalidateMarks
  <2>2. row \in ItemRow /\ row.status = "evidence_validating"
    BY DEF ItemRow, ItemStatus
  <2>3. rq \in ItemRequestRow /\ rq.step = "validate"
    BY DEF ItemRequestRow
  <2>4. a \notin behind => item.status = "stale"
    BY <2>1 DEF CopyIsCurrent
  <2> HIDE DEF row, rq
  <2>5. RowBacked(row) /\ Place(row.status) = 0 /\ Place("stale") = 0
    BY <2>2 DEF RowBacked, Place
  <2>6. CopyIsSound(rq) /\ CopyIsCurrent(rq, row.status)
    BY <2>2, <2>3, <2>5 DEF CopyIsSound, CopyIsCurrent
  <2>7. a \notin behind =>
             /\ CopyIsCurrent(rq, row.status)
             /\ Place(item.status) = 0 \/ Place(row.status) = 0 \/ Place(item.status) <= Place(row.status)
    BY <2>5, <2>6
  <2> QED BY <2>1, <2>2, <2>5, <2>6, <2>7, WriteKeeps
<1>5. ASSUME NEW a \in ItemRequest, NEW passed \in BOOLEAN, RegressionEnds(a, passed)
      PROVE  ItemIInv'
  <2> DEFINE copy == itemRequest[a].copy
             row == Reported(copy, passed)
             rq == IF row.status = copy.status \/ CanTransition(copy.status, row.status)
                   THEN [step |-> "write", copy |-> row] ELSE NoRequest
  <2>1. itemRequest[a].step = "regression" /\ GoOn(a, rq) /\ item' = item /\ behind' = behind /\ shadow' = shadow
    BY <1>5 DEF RegressionEnds
  <2>2. copy \in ItemRow /\ copy.status \in {"shadow_enabled", "regression_failed"}
    BY <2>1 DEF ItemRequestRow, CopyIsSound
  <2>3. /\ row \in ItemRow /\ row.status \in {"regression_passed", "regression_failed"}
        /\ row.status = "regression_passed" => row.report = "passed"
    BY <2>2 DEF Reported, ItemRow, ItemStatus
  <2>4. a \notin behind => item.status = copy.status
    BY <2>1 DEF CopyIsCurrent
  <2> HIDE DEF copy, row
  <2>5. CopyIsSound(rq)
    <3>1. CASE rq = NoRequest
      BY <3>1, IdleRequest DEF CopyIsSound
    <3>2. CASE rq = [step |-> "write", copy |-> row]
      BY <3>2, <2>3 DEF CopyIsSound, ItemRequestRow, RowBacked
    <3> QED BY <3>1, <3>2
  <2>6. a \notin behind => CopyIsCurrent(rq, item.status)
    <3>1. CASE rq = NoRequest
      BY <3>1, IdleRequest DEF CopyIsCurrent
    <3>2. CASE rq = [step |-> "write", copy |-> row]
      <4>1. Place(copy.status) = 0 \/ Place(row.status) = 0 \/ Place(copy.status) <= Place(row.status)
        BY <2>2, <2>3 DEF Place
      <4> QED BY <3>2, <2>2, <2>4, <4>1 DEF CopyIsCurrent
    <3> QED BY <3>1, <3>2
  <2> HIDE DEF rq
  <2> QED BY <2>1, <2>5, <2>6, GoOnKeeps
<1>6. ASSUME NEW a \in ItemRequest, NEW verdict \in {"verified", "deprecated", "rejected"},
             RevalidateValidates(a, verdict)
      PROVE  ItemIInv'
  <2> DEFINE copy == [itemRequest[a].copy EXCEPT !.status = verdict]
             rq == [step |-> "write", copy |-> copy]
  <2>1. itemRequest[a].step = "validate" /\ GoOn(a, rq) /\ item' = item /\ behind' = behind /\ shadow' = shadow
    BY <1>6 DEF RevalidateValidates
  <2>2. copy \in ItemRow /\ copy.status = verdict
    BY DEF ItemRequestRow, ItemRow, ItemStatus
  <2>3. a \notin behind => Place(item.status) = 0 /\ item.status # "deprecated"
    BY <2>1 DEF CopyIsCurrent
  <2> HIDE DEF copy
  <2>4. CopyIsSound(rq)
    BY <2>2 DEF CopyIsSound, ItemRequestRow, RowBacked
  <2>5. a \notin behind => CopyIsCurrent(rq, item.status)
    BY <2>3 DEF CopyIsCurrent
  <2> HIDE DEF rq
  <2> QED BY <2>1, <2>4, <2>5, GoOnKeeps
<1>7. ASSUME NEW a \in ItemRequest, UpdateOptimizationItem(a)
      PROVE  ItemIInv'
  <2> DEFINE row == itemRequest[a].copy
  <2>1. itemRequest[a].step = "write" /\ WriteItem(a, row) /\ GoOn(a, NoRequest)
    BY <1>7 DEF UpdateOptimizationItem
  <2>2. row \in ItemRow /\ RowBacked(row)
    BY <2>1 DEF ItemRequestRow, CopyIsSound
  <2>3. a \notin behind =>
          Place(item.status) = 0 \/ Place(row.status) = 0 \/ Place(item.status) <= Place(row.status)
    BY <2>1 DEF CopyIsCurrent
  <2> HIDE DEF row
  <2>4. CopyIsSound(NoRequest) /\ CopyIsCurrent(NoRequest, row.status)
    BY IdleRequest DEF CopyIsSound, CopyIsCurrent
  <2> QED BY <2>1, <2>2, <2>3, <2>4, WriteKeeps
<1>8. ASSUME NEW a \in ItemRequest, RequestDies(a)
      PROVE  ItemIInv'
  <2>1. GoOn(a, NoRequest) /\ item' = item /\ behind' = behind /\ shadow' = shadow
    BY <1>8 DEF RequestDies
  <2>2. CopyIsSound(NoRequest) /\ CopyIsCurrent(NoRequest, item.status)
    BY IdleRequest DEF CopyIsSound, CopyIsCurrent
  <2> QED BY <2>1, <2>2, GoOnKeeps
<1>9. CASE RetrievalBegins
  <2>1. /\ shadow' = [NoRetrieval EXCEPT !.eligible = shadowStatusEligible(item.status)]
        /\ item' = item /\ itemRequest' = itemRequest /\ behind' = behind
    BY <1>9 DEF RetrievalBegins
  <2>2. shadow'.lists = 0 /\ shadow' \in ShadowRow
    <3>1. shadowStatusEligible(item.status) \in BOOLEAN
      BY DEF shadowStatusEligible
    <3> DEFINE eligible == shadowStatusEligible(item.status)
    <3>2. shadow' = [lists |-> 0, seen |-> 0, eligible |-> eligible, outdated |-> FALSE]
      BY <2>1 DEF NoRetrieval
    <3>3. eligible \in BOOLEAN
      BY <3>1
    <3> HIDE DEF eligible
    <3> QED BY <3>2, <3>3 DEF ShadowRow
  <2>3. ShadowIsSound(shadow', item.status)
    BY <2>2 DEF ShadowIsSound
  <2> QED BY <2>1, <2>2, <2>3
<1>10. CASE ListsStatus
  <2> DEFINE hit == IF item.status = EligibleStatuses[shadow.lists + 1] THEN 1 ELSE 0
             ok == shadow.eligible /\ shadowStatusEligible(item.status)
  <2>1. /\ shadow' = [lists |-> shadow.lists + 1, seen |-> shadow.seen + hit, eligible |-> ok,
                      outdated |-> shadow.outdated]
        /\ shadow.lists < Len(EligibleStatuses)
        /\ item' = item /\ itemRequest' = itemRequest /\ behind' = behind
    BY <1>10 DEF ListsStatus
  <2>2. Len(EligibleStatuses) = 4
    BY DEF EligibleStatuses
  <2>3. shadow.lists \in 0..3 /\ shadow.seen \in Nat /\ hit \in 0..1 /\ ok \in BOOLEAN
    BY <2>1, <2>2 DEF ShadowRow
  <2>4. hit = 0 => Place(item.status) # shadow.lists + 1
    BY <2>3 DEF Place, EligibleStatuses
  <2>5. ok = TRUE => shadow.eligible = TRUE /\ shadowStatusEligible(item.status)
    <3>1. shadow.eligible \in BOOLEAN
      BY DEF ShadowRow
    <3> QED BY <3>1, Zenon
  <2> HIDE DEF hit, ok
  <2>6. /\ shadow'.lists = shadow.lists + 1 /\ shadow'.seen = shadow.seen + hit /\ shadow'.eligible = ok
        /\ shadow'.outdated = shadow.outdated
        /\ shadow' \in ShadowRow
    BY <2>1, <2>3 DEF ShadowRow
  <2>7. ShadowIsSound(shadow', item.status)
    <3>1. Place(item.status) \in 0..4
      BY PlaceIsEligible
    <3>2. shadow'.eligible = TRUE => Place(item.status) > 0 /\ shadow.eligible = TRUE
      BY <2>5, <2>6, PlaceIsEligible
    <3>3. shadow'.seen = 0 => shadow.seen = 0 /\ hit = 0
      BY <2>3, <2>6
    <3>4. ASSUME shadow'.outdated = FALSE, shadow'.eligible = TRUE, shadow'.seen = 0
          PROVE  Place(item.status) > shadow'.lists
      <4>1. CASE shadow.lists = 0
        BY <4>1, <3>1, <3>2, <3>3, <3>4, <2>4, <2>6
      <4>2. CASE shadow.lists > 0
        BY <4>2, <3>1, <3>2, <3>3, <3>4, <2>3, <2>4, <2>6 DEF ShadowIsSound
      <4> QED BY <4>1, <4>2, <2>3
    <3> QED BY <3>2, <3>4 DEF ShadowIsSound
  <2> QED BY <2>1, <2>6, <2>7
<1>11. CASE UNCHANGED itemVars
  BY <1>11 DEF itemVars
<1> QED BY <1>1, <1>2, <1>3, <1>4, <1>5, <1>6, <1>7, <1>8, <1>9, <1>10, <1>11 DEF ItemNext

\* A request that is not behind does not find an archived item.
LEMMA ArchivedStays ==
    ASSUME ItemIInv, [ItemNext]_itemVars, item.status = "deprecated", item'.status # "deprecated"
    PROVE  \E a \in behind : itemRequest'[a] # itemRequest[a]
<1>1. PICK a \in ItemRequest : RevalidateMarks(a) \/ UpdateOptimizationItem(a)
  BY DEF ItemNext, TransitionReads, RegressionReads, RevalidateReads, RegressionEnds,
         RevalidateValidates, RequestDies, RetrievalBegins, ListsStatus, Begin, itemVars
<1>2. itemRequest[a].step \in {"mark", "write"}
  BY <1>1 DEF RevalidateMarks, UpdateOptimizationItem
<1>3. a \in behind
  BY <1>2 DEF ItemIInv, CopyIsCurrent
<1>4. itemRequest'[a].step # itemRequest[a].step
  <2>1. CASE UpdateOptimizationItem(a)
    BY <2>1, <1>2, IdleRequest DEF UpdateOptimizationItem, GoOn, ItemIInv
  <2>2. CASE RevalidateMarks(a)
    BY <2>2 DEF RevalidateMarks, GoOn, ItemIInv, ItemRequestRow
  <2> QED BY <1>1, <2>1, <2>2
<1> QED BY <1>3, <1>4

(***************************************************************************)
(* What the status of an item is worth while requests that work for minutes*)
(* on copies of the row write them back: a passing report backs it always; *)
(* only the write of a copy that another write made outdated brings an     *)
(* archived item back, or hides an item that stayed eligible from the four *)
(* queries of listEligibleItems.                                           *)
(***************************************************************************)
THEOREM ItemsAreTrue == ItemSpec => StatusIsTrue
<1>1. ItemInit => ItemIInv
  <2> SUFFICES ASSUME ItemInit PROVE ItemIInv
    OBVIOUS
  <2>1. PICK s \in {"rejected", "knowledge_gap", "needs_review", "verified"} :
          item = [status |-> s, report |-> "none", published |-> FALSE]
    BY DEF ItemInit, Created
  <2>2. item \in ItemRow /\ RowBacked(item) /\ item.status # "deprecated"
    BY <2>1 DEF ItemRow, RowBacked, ItemStatus
  <2>3. /\ itemRequest \in [ItemRequest -> ItemRequestRow]
        /\ \A a \in ItemRequest : itemRequest[a].step = "idle" /\ itemRequest[a] \in ItemRequestRow
    BY IdleRequest DEF ItemInit
  <2>4. \A a \in ItemRequest : CopyIsSound(itemRequest[a]) /\ CopyIsCurrent(itemRequest[a], item.status)
    BY <2>3 DEF CopyIsSound, CopyIsCurrent
  <2>5. /\ shadow.lists = 0 /\ shadow \in ShadowRow
    BY DEF ItemInit, NoRetrieval, ShadowRow
  <2>6. ShadowIsSound(shadow, item.status)
    BY <2>5 DEF ShadowIsSound
  <2> QED BY <2>2, <2>3, <2>4, <2>5, <2>6 DEF ItemIInv
<1>2. ItemIInv => ReportBacksStatus
  BY Zenon DEF ItemIInv, RowBacked, ReportBacksStatus
<1>3. ItemIInv => EligibleIsFound
  <2> SUFFICES ASSUME ItemIInv, shadow.lists = Len(EligibleStatuses), shadow.eligible, ~(shadow.seen > 0)
               PROVE  shadow.outdated
    BY DEF EligibleIsFound
  <2>1. shadow.lists = 4
    BY DEF EligibleStatuses
  <2>2. shadow.eligible \in BOOLEAN /\ shadow.outdated \in BOOLEAN
    BY DEF ItemIInv, ShadowRow
  <2>3. shadow.eligible = TRUE
    BY <2>2, Zenon
  <2>4. Place(item.status) \in 0..4 /\ shadow.seen \in Nat
    BY PlaceIsEligible DEF ItemIInv, ShadowRow
  <2>5. shadow.outdated # FALSE
    <3>1. ShadowIsSound(shadow, item.status)
      BY DEF ItemIInv
    <3>2. shadow.seen = 0
      BY <2>4
    <3>3. shadow.lists > 0 /\ ~(Place(item.status) > shadow.lists)
      BY <2>1, <2>4
    <3> QED BY <2>3, <3>1, <3>2, <3>3, Zenon DEF ShadowIsSound
  <2> QED BY <2>2, <2>5, Zenon
<1>4. ItemIInv /\ [ItemNext]_itemVars =>
        (item.status = "deprecated" /\ item'.status # "deprecated" =>
           \E a \in behind : itemRequest'[a] # itemRequest[a])
  BY ArchivedStays
<1>5. ItemIInv /\ [ItemNext]_itemVars =>
        [item.status = "deprecated" /\ item'.status # "deprecated" =>
           \E a \in behind : itemRequest'[a] # itemRequest[a]]_itemVars
  BY <1>4
<1> QED BY <1>1, <1>2, <1>3, <1>5, ItemStep, PTL DEF ItemSpec, StatusIsTrue, ArchivedIsFinal

-----------------------------------------------------------------------------
(***************************************************************************)
(* Self operations                                                         *)
(***************************************************************************)

OpPlan == [scope : DOMAIN Actions, snapshot : Snapshots]

OpCall ==
    [pc : {"idle", "check", "lock", "read", "captured", "run", "record", "unlock"}, op : {"plan", "apply"},
     plan : OpPlan, approved : BOOLEAN, part : {1, 2, 3}, seen : Snapshots, moved : BOOLEAN,
     answer : {"none", "planned", "blocked", "skipped", "completed"}]

\* What a recapture has read so far is still there, unless the checkout moved.
ReadStands(call, now) ==
    /\ call.part >= 2 => call.seen.manifest = now.manifest
    /\ call.part = 3 => call.seen.head = now.head

\* How far an apply has come tells what it found.
ApplyStands(call, now) ==
    /\ call.approved = TRUE /\ Actions[call.plan.scope].blocked = FALSE
    /\ call.pc = "read" /\ call.moved = FALSE => ReadStands(call, now)
    /\ call.pc = "captured" /\ call.moved = FALSE => call.seen = now
    /\ call.pc \in {"run", "record"} => call.seen = call.plan.snapshot
    /\ call.pc = "run" /\ call.moved = FALSE => call.seen = now

CallStands(call, now, runs) ==
    /\ call.pc \in {"check", "lock", "run", "record", "unlock"} => call.op = "apply"
    /\ call.pc # "read" => call.part = 1
    /\ call.op = "apply" => ApplyStands(call, now)
    /\ call.pc = "record" => [scope |-> call.plan.scope, seen |-> call.seen] \in runs
    /\ call.answer = "skipped" =>
          \E run \in runs : /\ run.scope = call.plan.scope
                            /\ run.seen.manifest = call.plan.snapshot.manifest
                            /\ run.seen.artifacts = call.plan.snapshot.artifacts

\* A call is between tryLock and the deferred unlock.
Locked(call) == call.op = "apply" /\ call.pc \in {"read", "captured", "run", "record", "unlock"}

\* The locks are those of the calls inside, one for each.
LocksStand(calls, locks) ==
    /\ \A c \in OpCaller : Locked(calls[c]) => calls[c].plan.scope \in locks
    /\ \A scope \in locks : \E c \in OpCaller : Locked(calls[c]) /\ calls[c].plan.scope = scope
    /\ \A c, d \in OpCaller :
          Locked(calls[c]) /\ Locked(calls[d]) /\ calls[c].plan.scope = calls[d].plan.scope => c = d

\* A completed key has its run.
KeysStand(keys, runs) ==
    \A key \in keys : \E run \in runs : key = <<run.scope, run.seen.manifest, run.seen.artifacts>>

OpsIInv ==
    /\ checkout \in Snapshots
    /\ \A id \in DOMAIN opPlans : opPlans[id] \in OpPlan
    /\ opCalls \in [OpCaller -> OpCall]
    /\ \A c \in OpCaller : CallStands(opCalls[c], checkout, applied)
    /\ LocksStand(opCalls, opLocks)
    /\ KeysStand(opCompleted, applied)

\* The callers of a snapshot that moved are told, the others see it as before.
LEMMA DisturbedStands ==
  ASSUME NEW calls \in [OpCaller -> OpCall], NEW now \in Snapshots, NEW runs,
         checkout \in Snapshots,
         \A c \in OpCaller : CallStands(calls[c], checkout, runs)
  PROVE  /\ Disturbs(calls, now) \in [OpCaller -> OpCall]
         /\ \A c \in OpCaller : CallStands(Disturbs(calls, now)[c], now, runs)
         /\ \A c \in OpCaller : /\ Disturbs(calls, now)[c].plan = calls[c].plan
                                /\ Locked(Disturbs(calls, now)[c]) <=> Locked(calls[c])
<1>0. Disturbs(calls, now) = [c \in OpCaller |-> Disturbs(calls, now)[c]]
  BY DEF Disturbs
<1> SUFFICES ASSUME NEW c \in OpCaller
             PROVE  /\ Disturbs(calls, now)[c] \in OpCall /\ CallStands(Disturbs(calls, now)[c], now, runs)
                    /\ Disturbs(calls, now)[c].plan = calls[c].plan
                    /\ Locked(Disturbs(calls, now)[c]) <=> Locked(calls[c])
  BY <1>0, Zenon
<1>1. PICK call \in OpCall : call = calls[c]
  OBVIOUS
<1>2. CallStands(call, checkout, runs)
  BY <1>1
<1>3. PICK next : next = Disturbs(calls, now)[c]
  OBVIOUS
<1>4. call.moved \in BOOLEAN
  BY DEF OpCall
<1>5. CASE call.op = "apply" /\ call.pc \in {"read", "captured", "run"}
  <2>1. next = [call EXCEPT !.moved = call.moved \/ now # checkout]
    BY <1>1, <1>3, <1>5 DEF Disturbs
  <2>2. CASE now = checkout
    <3>1. (call.moved \/ now # checkout) = call.moved
      BY <1>4, <2>2
    <3>2. next = [call EXCEPT !.moved = call.moved]
      BY <2>1, <3>1
    <3>3. next = call
      BY <3>2 DEF OpCall
    <3> QED BY <1>1, <1>2, <1>3, <2>2, <3>3
  <2>3. CASE now # checkout
    <3>1. (call.moved \/ now # checkout) = TRUE
      BY <2>3
    <3>2. next = [call EXCEPT !.moved = TRUE]
      BY <2>1, <3>1
    <3>3. /\ next \in OpCall /\ next.moved = TRUE /\ next.plan = call.plan /\ next.seen = call.seen /\ next.pc = call.pc
          /\ next.op = call.op /\ next.part = call.part /\ next.approved = call.approved /\ next.answer = call.answer
      BY <3>2 DEF OpCall
    <3>4. CallStands(next, now, runs) /\ (Locked(next) <=> Locked(call))
      BY <1>2, <1>5, <3>3 DEF CallStands, ApplyStands, Locked
    <3> QED BY <1>1, <1>3, <3>3, <3>4
  <2> QED BY <2>2, <2>3
<1>6. CASE ~(call.op = "apply" /\ call.pc \in {"read", "captured", "run"})
  <2>1. next = call
    BY <1>1, <1>3, <1>6 DEF Disturbs
  <2>2. CallStands(call, now, runs)
    BY <1>2, <1>6 DEF CallStands, ApplyStands
  <2> QED BY <1>1, <1>3, <2>1, <2>2
<1> QED BY <1>5, <1>6

\* A call that stays on its side of the lock leaves the locks alone.
LEMMA LocksStay ==
  ASSUME NEW calls \in [OpCaller -> OpCall], NEW next \in [OpCaller -> OpCall], NEW locks,
         LocksStand(calls, locks),
         \A c \in OpCaller : Locked(next[c]) <=> Locked(calls[c]),
         \A c \in OpCaller : Locked(calls[c]) => next[c].plan = calls[c].plan
  PROVE  LocksStand(next, locks)
BY DEF LocksStand

\* So does one caller.
LEMMA OneCallStays ==
  ASSUME NEW c \in OpCaller, NEW call \in OpCall, Moves(c, call), opCalls \in [OpCaller -> OpCall],
         LocksStand(opCalls, opLocks),
         Locked(call) <=> Locked(opCalls[c]), Locked(call) => call.plan = opCalls[c].plan
  PROVE  LocksStand(opCalls', opLocks)
<1>1. opCalls' \in [OpCaller -> OpCall] /\ \A d \in OpCaller : opCalls'[d] = IF d = c THEN call ELSE opCalls[d]
  BY DEF Moves
<1> QED BY <1>1 DEF LocksStand

\* A call that leaves gives back its own lock.
LEMMA LocksLeft ==
  ASSUME NEW calls \in [OpCaller -> OpCall], NEW next \in [OpCaller -> OpCall], NEW locks, NEW c \in OpCaller,
         LocksStand(calls, locks), Locked(calls[c]), ~Locked(next[c]),
         \A d \in OpCaller \ {c} : Locked(next[d]) <=> Locked(calls[d]),
         \A d \in OpCaller \ {c} : next[d].plan = calls[d].plan
  PROVE  LocksStand(next, locks \ {calls[c].plan.scope})
BY DEF LocksStand

\* A step of one caller that changes neither checkout nor runs.
LEMMA OneCallMoves ==
  ASSUME OpsIInv, NEW c \in OpCaller, NEW call \in OpCall, Moves(c, call),
         checkout' = checkout, applied' = applied, opCompleted' = opCompleted,
         \A id \in DOMAIN opPlans' : opPlans'[id] \in OpPlan,
         CallStands(call, checkout, applied),
         LocksStand(opCalls', opLocks')
  PROVE  OpsIInv'
<1>1. opCalls' \in [OpCaller -> OpCall] /\ \A d \in OpCaller : opCalls'[d] = IF d = c THEN call ELSE opCalls[d]
  BY DEF Moves, OpsIInv
<1>2. \A d \in OpCaller : CallStands(opCalls[d], checkout, applied)
  BY DEF OpsIInv
<1>3. \A d \in OpCaller : CallStands(opCalls'[d], checkout, applied)
  BY <1>1, <1>2
<1> QED BY <1>1, <1>3 DEF OpsIInv

LEMMA OpsStart == OpsInit => OpsIInv
<1> SUFFICES ASSUME OpsInit PROVE OpsIInv
  OBVIOUS
<1>0. FirstCheckout \in Snapshots
  BY OpsAssumption DEF Snapshots, Edited
<1>1. NewCall \in OpCall /\ CallStands(NewCall, checkout, applied) /\ ~Locked(NewCall)
  BY <1>0 DEF NewCall, NewPlan, OpCall, OpPlan, Actions, CallStands, Locked
<1>2. LocksStand(opCalls, opLocks)
  BY <1>1 DEF OpsInit, LocksStand
<1> QED BY <1>0, <1>1, <1>2 DEF OpsInit, OpsIInv, KeysStand

\* Every answer leaves an idle call.
LEMMA RepliedStands ==
  ASSUME NEW c \in OpCaller, NEW now \in Snapshots, NEW runs, opCalls[c] \in OpCall,
         NEW word \in {"none", "planned", "blocked", "skipped", "completed"},
         word # "skipped"
  PROVE  /\ Replied(c, word) \in OpCall /\ CallStands(Replied(c, word), now, runs)
         /\ ~Locked(Replied(c, word)) /\ Replied(c, word).plan = opCalls[c].plan
<1>1. PICK plan \in OpPlan : plan = opCalls[c].plan
  BY DEF OpCall
<1>2. FirstCheckout \in Snapshots
  BY OpsAssumption DEF Snapshots, Edited
<1>3. Replied(c, word) = [pc |-> "idle", op |-> "plan", plan |-> plan, approved |-> FALSE, part |-> 1,
                          seen |-> FirstCheckout, moved |-> FALSE, answer |-> word]
  <2>1. Replied(c, word) = [NewCall EXCEPT !.plan = plan, !.answer = word]
    BY <1>1 DEF Replied
  <2> QED BY <2>1 DEF NewCall
<1> QED BY <1>1, <1>2, <1>3 DEF OpCall, CallStands, Locked

LEMMA PlanStep ==
  ASSUME OpsIInv, NEW c \in OpCaller, Plan(c) \/ StorePlan(c)
  PROVE  OpsIInv'
<1>0. FirstCheckout \in Snapshots
  BY OpsAssumption DEF Snapshots, Edited
<1>c. opCalls \in [OpCaller -> OpCall] /\ opCalls[c] \in OpCall /\ CallStands(opCalls[c], checkout, applied)
  BY DEF OpsIInv
<1>1. CASE Plan(c)
  <2>1. PICK scope \in DOMAIN Actions : Moves(c, [NewCall EXCEPT !.pc = "read", !.plan.scope = scope])
    BY <1>1 DEF Plan
  <2>2. PICK call : call = [NewCall EXCEPT !.pc = "read", !.plan.scope = scope]
    OBVIOUS
  <2>3. call = [pc |-> "read", op |-> "plan", plan |-> [scope |-> scope, snapshot |-> FirstCheckout],
                approved |-> FALSE, part |-> 1, seen |-> FirstCheckout, moved |-> FALSE, answer |-> "none"]
    BY <2>2 DEF NewCall, NewPlan
  <2>4. call \in OpCall /\ CallStands(call, checkout, applied) /\ ~Locked(call) /\ ~Locked(opCalls[c])
    BY <1>0, <1>1, <2>3 DEF OpCall, OpPlan, CallStands, Locked, Plan
  <2>5. LocksStand(opCalls', opLocks)
    BY <1>c, <2>1, <2>2, <2>4, OneCallStays DEF OpsIInv
  <2> QED BY <1>1, <2>1, <2>2, <2>4, <2>5, OneCallMoves DEF Plan, OpsIInv
<1>2. CASE StorePlan(c)
  <2>1. PICK plan : plan = NewPlan(opCalls[c].plan.scope, opCalls[c].seen)
    OBVIOUS
  <2>2. plan \in OpPlan
    BY <1>c, <2>1 DEF NewPlan, OpCall, OpPlan
  <2>3. \A id \in DOMAIN opPlans' : opPlans'[id] \in OpPlan
    BY <1>2, <2>1, <2>2 DEF StorePlan, OpsIInv
  <2>4. Moves(c, Replied(c, "planned"))
    BY <1>2 DEF StorePlan, Replies
  <2>5. /\ Replied(c, "planned") \in OpCall /\ CallStands(Replied(c, "planned"), checkout, applied)
        /\ ~Locked(Replied(c, "planned")) /\ ~Locked(opCalls[c])
    BY <1>2, <1>c, RepliedStands DEF StorePlan, OpsIInv, Locked
  <2>6. LocksStand(opCalls', opLocks)
    BY <1>c, <2>4, <2>5, OneCallStays DEF OpsIInv
  <2> QED BY <1>2, <2>3, <2>4, <2>5, <2>6, OneCallMoves DEF StorePlan, OpsIInv
<1> QED BY <1>1, <1>2

LEMMA ReadStep ==
  ASSUME OpsIInv, NEW c \in OpCaller, ReadSnapshot(c)
  PROVE  OpsIInv'
<1>1. PICK call \in OpCall : call = opCalls[c]
  BY DEF OpsIInv
<1>2. opCalls \in [OpCaller -> OpCall] /\ CallStands(call, checkout, applied) /\ call.pc = "read" /\ checkout \in Snapshots
  BY <1>1 DEF OpsIInv, ReadSnapshot
<1>3. PICK next : next = [call EXCEPT !.seen[SnapshotOrder[call.part]] = checkout[SnapshotOrder[call.part]],
                                      !.pc = IF call.part = 3 THEN "captured" ELSE "read",
                                      !.part = IF call.part = 3 THEN 1 ELSE call.part + 1]
  OBVIOUS
<1>4. Moves(c, next)
  BY <1>1, <1>3 DEF ReadSnapshot
<1>5. call.part \in {1, 2, 3} /\ call.seen \in Snapshots
  BY DEF OpCall
<1>6. PICK name : name = SnapshotOrder[call.part]
  OBVIOUS
<1>a. /\ name \in {"manifest", "head", "artifacts"}
      /\ call.part = 1 => name = "manifest"
      /\ call.part = 2 => name = "head"
      /\ call.part = 3 => name = "artifacts"
  BY <1>5, <1>6 DEF SnapshotOrder
<1>b. PICK seen : seen = [call.seen EXCEPT ![name] = checkout[name]]
  OBVIOUS
<1>d. /\ seen \in Snapshots
      /\ name = "manifest" => seen.manifest = checkout.manifest
      /\ name = "head" => seen.manifest = call.seen.manifest /\ seen.head = checkout.head
      /\ name = "artifacts" => /\ seen.manifest = call.seen.manifest /\ seen.head = call.seen.head
                               /\ seen.artifacts = checkout.artifacts
  BY <1>2, <1>5, <1>a, <1>b DEF Snapshots
<1>e. PICK pc, part : /\ pc = (IF call.part = 3 THEN "captured" ELSE "read")
                      /\ part = (IF call.part = 3 THEN 1 ELSE call.part + 1)
  OBVIOUS
<1>f. next = [call EXCEPT !.seen = seen, !.pc = pc, !.part = part]
  BY <1>3, <1>6, <1>b, <1>e DEF OpCall
<1>g. pc \in {"read", "captured"} /\ part \in {1, 2, 3}
  BY <1>5, <1>e
<1>7. /\ next \in OpCall /\ next.plan = call.plan /\ next.op = call.op /\ next.approved = call.approved
      /\ next.moved = call.moved /\ next.answer = call.answer /\ next.pc \in {"read", "captured"}
      /\ next.seen = seen /\ next.pc = pc /\ next.part = part
  BY <1>d, <1>f, <1>g DEF OpCall
<1>8. /\ call.part = 1 => next.pc = "read" /\ next.part = 2 /\ next.seen.manifest = checkout.manifest
      /\ call.part = 2 => next.pc = "read" /\ next.part = 3 /\ next.seen.manifest = call.seen.manifest
                          /\ next.seen.head = checkout.head
      /\ call.part = 3 => next.pc = "captured" /\ next.part = 1 /\ next.seen.manifest = call.seen.manifest
                          /\ next.seen.head = call.seen.head /\ next.seen.artifacts = checkout.artifacts
  BY <1>5, <1>7, <1>a, <1>d, <1>e
<1>9. call.part = 3 /\ ReadStands(call, checkout) => next.seen = checkout
  BY <1>2, <1>7, <1>8 DEF ReadStands, OpCall, Snapshots
<1>10. CallStands(next, checkout, applied)
  <2>1. call.op = "apply" /\ call.moved = FALSE => ReadStands(call, checkout)
    BY <1>2 DEF CallStands, ApplyStands
  <2>2. call.op = "apply" /\ call.moved = FALSE /\ call.part # 3 => ReadStands(next, checkout)
    BY <1>5, <1>8, <2>1 DEF ReadStands
  <2>3. call.op = "apply" => ApplyStands(next, checkout)
    BY <1>2, <1>5, <1>7, <1>8, <1>9, <2>1, <2>2 DEF CallStands, ApplyStands
  <2> QED BY <1>2, <1>5, <1>7, <1>8, <2>3 DEF CallStands
<1>11. LocksStand(opCalls', opLocks)
  <2>1. Locked(next) <=> Locked(opCalls[c])
    BY <1>1, <1>2, <1>7 DEF Locked
  <2> QED BY <1>1, <1>2, <1>4, <1>7, <2>1, OneCallStays DEF OpsIInv
<1> QED BY <1>4, <1>7, <1>10, <1>11, OneCallMoves DEF ReadSnapshot, OpsIInv

LEMMA AskStep ==
  ASSUME OpsIInv, NEW c \in OpCaller, Apply(c)
  PROVE  OpsIInv'
<1>0. FirstCheckout \in Snapshots
  BY OpsAssumption DEF Snapshots, Edited
<1>c. opCalls \in [OpCaller -> OpCall] /\ opCalls[c] \in OpCall /\ LocksStand(opCalls, opLocks) /\ opCalls[c].pc = "idle"
  BY DEF OpsIInv, Apply
<1>1. PICK id \in DOMAIN opPlans, approved \in BOOLEAN :
         Moves(c, IF approved /\ ~Actions[opPlans[id].scope].blocked
                  THEN [[NewCall EXCEPT !.op = "apply", !.plan = opPlans[id], !.approved = approved] EXCEPT !.pc = "check"]
                  ELSE [NewCall EXCEPT !.answer = "blocked"])
  BY DEF Apply, NewCall
<1>2. PICK plan \in OpPlan : plan = opPlans[id]
  BY DEF OpsIInv
<1>3. PICK call : call = IF approved /\ ~Actions[plan.scope].blocked
                         THEN [[NewCall EXCEPT !.op = "apply", !.plan = plan, !.approved = approved] EXCEPT !.pc = "check"]
                         ELSE [NewCall EXCEPT !.answer = "blocked"]
  OBVIOUS
<1>4. CASE approved /\ ~Actions[plan.scope].blocked
  <2>1. call = [pc |-> "check", op |-> "apply", plan |-> plan, approved |-> approved, part |-> 1,
                seen |-> FirstCheckout, moved |-> FALSE, answer |-> "none"]
    BY <1>3, <1>4 DEF NewCall
  <2>2. call \in OpCall /\ ~Locked(call)
    BY <1>0, <2>1 DEF OpCall, Locked
  <2>3. Actions[plan.scope].blocked = FALSE
    BY <1>4 DEF OpPlan, Actions
  <2>4. CallStands(call, checkout, applied)
    BY <1>4, <2>1, <2>3 DEF CallStands, ApplyStands
  <2>5. Moves(c, call)
    BY <1>1, <1>2, <1>3
  <2>6. LocksStand(opCalls', opLocks)
    BY <1>c, <2>2, <2>5, OneCallStays DEF Locked
  <2> QED BY <2>2, <2>4, <2>5, <2>6, OneCallMoves DEF Apply, OpsIInv
<1>5. CASE ~(approved /\ ~Actions[plan.scope].blocked)
  <2>1. call = [pc |-> "idle", op |-> "plan", plan |-> [scope |-> "remediation_issue", snapshot |-> FirstCheckout],
                approved |-> FALSE, part |-> 1, seen |-> FirstCheckout, moved |-> FALSE, answer |-> "blocked"]
    BY <1>3, <1>5 DEF NewCall, NewPlan
  <2>2. call \in OpCall /\ ~Locked(call) /\ CallStands(call, checkout, applied)
    BY <1>0, <2>1 DEF OpCall, OpPlan, Actions, Locked, CallStands
  <2>5. Moves(c, call)
    BY <1>1, <1>2, <1>3
  <2>6. LocksStand(opCalls', opLocks)
    BY <1>c, <2>2, <2>5, OneCallStays DEF Locked
  <2> QED BY <2>2, <2>5, <2>6, OneCallMoves DEF Apply, OpsIInv
<1> QED BY <1>4, <1>5

\* An apply takes its lock, unless it is skipped or finds the lock held.
LEMMA TakeStep ==
  ASSUME OpsIInv, NEW c \in OpCaller, CheckCompleted(c) \/ TryLock(c)
  PROVE  OpsIInv'
<1>1. PICK call \in OpCall : call = opCalls[c]
  BY DEF OpsIInv
<1>2. /\ opCalls \in [OpCaller -> OpCall] /\ CallStands(call, checkout, applied)
      /\ LocksStand(opCalls, opLocks) /\ KeysStand(opCompleted, applied) /\ checkout \in Snapshots
  BY <1>1 DEF OpsIInv
<1>3. call.pc \in {"check", "lock"} /\ call.op = "apply" /\ call.part = 1 /\ ApplyStands(call, checkout) /\ ~Locked(call)
  BY <1>1, <1>2 DEF CheckCompleted, TryLock, CallStands, Locked
<1>4. CASE CheckCompleted(c) /\ IdempotencyKey(call.plan) \in opCompleted
  <2>1. PICK next : next = Replied(c, "skipped")
    OBVIOUS
  <2>2. PICK plan \in OpPlan : plan = call.plan
    BY DEF OpCall
  <2>3. next = [pc |-> "idle", op |-> "plan", plan |-> plan, approved |-> FALSE, part |-> 1,
                seen |-> FirstCheckout, moved |-> FALSE, answer |-> "skipped"]
    <3>1. next = [NewCall EXCEPT !.plan = plan, !.answer = "skipped"]
      BY <1>1, <2>1, <2>2 DEF Replied
    <3> QED BY <3>1 DEF NewCall
  <2>4. FirstCheckout \in Snapshots
    BY OpsAssumption DEF Snapshots, Edited
  <2>5. \E run \in applied : /\ run.scope = plan.scope /\ run.seen.manifest = plan.snapshot.manifest
                             /\ run.seen.artifacts = plan.snapshot.artifacts
    BY <1>2, <1>4, <2>2 DEF IdempotencyKey, KeysStand
  <2>6. next \in OpCall /\ CallStands(next, checkout, applied) /\ ~Locked(next)
    BY <2>3, <2>4, <2>5 DEF OpCall, CallStands, Locked
  <2>7. Moves(c, next)
    BY <1>1, <1>4, <2>1 DEF CheckCompleted, Replies
  <2>8. LocksStand(opCalls', opLocks)
    BY <1>1, <1>2, <1>3, <2>6, <2>7, OneCallStays
  <2> QED BY <1>4, <2>6, <2>7, <2>8, OneCallMoves DEF CheckCompleted, OpsIInv
<1>5. CASE CheckCompleted(c) /\ IdempotencyKey(call.plan) \notin opCompleted
  <2>1. PICK next : next = [call EXCEPT !.pc = "lock"]
    OBVIOUS
  <2>2. /\ next \in OpCall /\ next.pc = "lock" /\ next.op = call.op /\ next.plan = call.plan /\ next.part = call.part
        /\ next.approved = call.approved /\ next.answer = call.answer
    BY <2>1 DEF OpCall
  <2>3. CallStands(next, checkout, applied) /\ ~Locked(next)
    BY <1>2, <1>3, <2>2 DEF CallStands, ApplyStands, Locked
  <2>4. Moves(c, next)
    BY <1>1, <1>5, <2>1 DEF CheckCompleted
  <2>5. LocksStand(opCalls', opLocks)
    BY <1>1, <1>2, <1>3, <2>2, <2>3, <2>4, OneCallStays
  <2> QED BY <1>5, <2>2, <2>3, <2>4, <2>5, OneCallMoves DEF CheckCompleted, OpsIInv
<1>6. CASE TryLock(c) /\ call.plan.scope \in opLocks
  <2>1. Moves(c, Replied(c, "blocked")) /\ opLocks' = opLocks
    BY <1>1, <1>6 DEF TryLock, Replies
  <2>2. /\ Replied(c, "blocked") \in OpCall /\ CallStands(Replied(c, "blocked"), checkout, applied)
        /\ ~Locked(Replied(c, "blocked"))
    BY <1>1, <1>2, RepliedStands
  <2>3. LocksStand(opCalls', opLocks)
    BY <1>1, <1>2, <1>3, <2>1, <2>2, OneCallStays
  <2> QED BY <1>6, <2>1, <2>2, <2>3, OneCallMoves DEF TryLock, OpsIInv
<1>7. CASE TryLock(c) /\ call.plan.scope \notin opLocks
  <2>1. PICK next : next = [call EXCEPT !.pc = "read", !.moved = FALSE]
    OBVIOUS
  <2>2. /\ next \in OpCall /\ next.pc = "read" /\ next.op = call.op /\ next.plan = call.plan /\ next.part = 1
        /\ next.approved = call.approved /\ next.answer = call.answer
    BY <1>3, <2>1 DEF OpCall
  <2>3. CallStands(next, checkout, applied) /\ Locked(next)
    BY <1>2, <1>3, <2>2 DEF CallStands, ApplyStands, Locked, ReadStands
  <2>4. Moves(c, next) /\ opLocks' = opLocks \cup {call.plan.scope}
    BY <1>1, <1>7, <2>1 DEF TryLock
  <2>5. LocksStand(opCalls', opLocks')
    <3>1. opCalls' \in [OpCaller -> OpCall] /\ \A d \in OpCaller : opCalls'[d] = IF d = c THEN next ELSE opCalls[d]
      BY <1>2, <2>2, <2>4 DEF Moves
    <3> QED BY <1>1, <1>2, <1>3, <1>7, <2>2, <2>3, <2>4, <3>1 DEF LocksStand
  <2> QED BY <1>7, <2>2, <2>3, <2>4, <2>5, OneCallMoves DEF TryLock, OpsIInv
<1> QED BY <1>4, <1>5, <1>6, <1>7

\* The answer of an apply that has the lock gives it back.
LEMMA ReplyUnlocks ==
  ASSUME OpsIInv, NEW c \in OpCaller, Locked(opCalls[c]),
         NEW word \in {"blocked", "completed"}, Replies(c, word), opLocks' = Unlocked(c)
  PROVE  /\ Replied(c, word) \in OpCall /\ CallStands(Replied(c, word), checkout, applied)
         /\ Moves(c, Replied(c, word)) /\ LocksStand(opCalls', opLocks')
<1>1. /\ Replied(c, word) \in OpCall /\ CallStands(Replied(c, word), checkout, applied)
      /\ ~Locked(Replied(c, word))
  BY RepliedStands DEF OpsIInv
<1>2. Moves(c, Replied(c, word))
  BY DEF Replies
<1>3. opCalls \in [OpCaller -> OpCall] /\ LocksStand(opCalls, opLocks)
  BY DEF OpsIInv
<1>4. opCalls' \in [OpCaller -> OpCall] /\ \A d \in OpCaller : opCalls'[d] = IF d = c THEN Replied(c, word) ELSE opCalls[d]
  BY <1>1, <1>2, <1>3 DEF Moves
<1>5. opLocks' = opLocks \ {opCalls[c].plan.scope}
  BY DEF Unlocked, KeepsLock
<1>6. LocksStand(opCalls', opLocks')
  BY <1>1, <1>3, <1>4, <1>5, LocksLeft
<1> QED BY <1>1, <1>2, <1>6

LEMMA DriftStep ==
  ASSUME OpsIInv, NEW c \in OpCaller, CheckDrift(c)
  PROVE  OpsIInv'
<1>1. PICK call \in OpCall : call = opCalls[c]
  BY DEF OpsIInv
<1>2. /\ opCalls \in [OpCaller -> OpCall] /\ CallStands(call, checkout, applied)
      /\ LocksStand(opCalls, opLocks) /\ checkout \in Snapshots
  BY <1>1 DEF OpsIInv
<1>3. call.pc = "captured" /\ call.op = "apply" /\ call.part = 1 /\ ApplyStands(call, checkout) /\ Locked(call)
  BY <1>1, <1>2 DEF CheckDrift, CallStands, Locked
<1>4. CASE driftReason(call.plan.snapshot, call.seen)
  <2>1. Replies(c, "blocked") /\ opLocks' = Unlocked(c)
    BY <1>1, <1>4 DEF CheckDrift
  <2> QED BY <1>1, <1>3, <2>1, ReplyUnlocks, OneCallMoves DEF CheckDrift, OpsIInv
<1>5. CASE ~driftReason(call.plan.snapshot, call.seen)
  <2>1. PICK next : next = [call EXCEPT !.pc = "run"]
    OBVIOUS
  <2>2. /\ next \in OpCall /\ next.pc = "run" /\ next.op = call.op /\ next.plan = call.plan /\ next.part = call.part
        /\ next.approved = call.approved /\ next.answer = call.answer /\ next.seen = call.seen /\ next.moved = call.moved
    BY <2>1 DEF OpCall
  <2>3. call.seen = call.plan.snapshot
    <3>1. call.seen \in Snapshots /\ call.plan.snapshot \in Snapshots
      BY DEF OpCall, OpPlan
    <3> QED BY <1>5, <3>1 DEF driftReason, Snapshots
  <2>4. CallStands(next, checkout, applied) /\ Locked(next)
    BY <1>2, <1>3, <2>2, <2>3 DEF CallStands, ApplyStands, Locked
  <2>5. Moves(c, next) /\ opLocks' = opLocks
    BY <1>1, <1>5, <2>1 DEF CheckDrift
  <2>6. LocksStand(opCalls', opLocks')
    BY <1>1, <1>2, <1>3, <2>2, <2>4, <2>5, OneCallStays
  <2> QED BY <2>2, <2>4, <2>5, <2>6, OneCallMoves DEF CheckDrift, OpsIInv
<1> QED BY <1>4, <1>5

\* Calls that stood before a run was added stand after it.
LEMMA MoreRuns ==
  ASSUME NEW call, NEW now, NEW runs, NEW more, CallStands(call, now, runs)
  PROVE  CallStands(call, now, runs \cup more)
BY DEF CallStands

LEMMA RunStep ==
  ASSUME OpsIInv, NEW c \in OpCaller, RunAction(c)
  PROVE  OpsIInv'
<1>1. PICK call \in OpCall : call = opCalls[c]
  BY DEF OpsIInv
<1>2. /\ opCalls \in [OpCaller -> OpCall] /\ CallStands(call, checkout, applied)
      /\ LocksStand(opCalls, opLocks) /\ KeysStand(opCompleted, applied) /\ checkout \in Snapshots
      /\ \A d \in OpCaller : CallStands(opCalls[d], checkout, applied)
  BY <1>1 DEF OpsIInv
<1>3. call.pc = "run" /\ call.op = "apply" /\ ApplyStands(call, checkout) /\ Locked(call)
  BY <1>1, <1>2 DEF RunAction, CallStands, Locked
<1>4. checkout' \in Snapshots /\ checkout' = Synced(c)
  BY <1>2 DEF RunAction, Synced, Snapshots
<1>5. applied' = applied \cup {[scope |-> call.plan.scope, seen |-> call.seen]}
  BY <1>1 DEF RunAction
<1>6. PICK next : next = [call EXCEPT !.pc = "record"]
  OBVIOUS
<1>7. /\ next \in OpCall /\ next.pc = "record" /\ next.op = call.op /\ next.plan = call.plan /\ next.part = call.part
      /\ next.approved = call.approved /\ next.answer = call.answer /\ next.seen = call.seen /\ next.moved = call.moved
  BY <1>6 DEF OpCall
<1>8. PICK calls : calls = [opCalls EXCEPT ![c].pc = "record"]
  OBVIOUS
<1>9. calls \in [OpCaller -> OpCall] /\ \A d \in OpCaller : calls[d] = IF d = c THEN next ELSE opCalls[d]
  BY <1>1, <1>2, <1>6, <1>7, <1>8
<1>10. CallStands(next, checkout, applied')
  <2>1. CallStands(call, checkout, applied')
    BY <1>2, <1>5, MoreRuns
  <2> QED BY <1>3, <1>5, <1>7, <2>1 DEF CallStands, ApplyStands
<1>11. \A d \in OpCaller : CallStands(calls[d], checkout, applied')
  BY <1>2, <1>5, <1>9, <1>10, MoreRuns
<1>12. opCalls' = Disturbs(calls, checkout')
  BY <1>4, <1>8 DEF RunAction
<1>13. /\ opCalls' \in [OpCaller -> OpCall]
       /\ \A d \in OpCaller : CallStands(opCalls'[d], checkout', applied')
       /\ \A d \in OpCaller : opCalls'[d].plan = calls[d].plan /\ (Locked(opCalls'[d]) <=> Locked(calls[d]))
  <2> PICK now \in Snapshots : now = checkout'
    BY <1>4
  <2> PICK runs : runs = applied'
    OBVIOUS
  <2> QED BY <1>2, <1>9, <1>11, <1>12, DisturbedStands
<1>14. LocksStand(opCalls', opLocks)
  <2>1. Locked(next)
    BY <1>3, <1>7 DEF Locked
  <2>2. \A d \in OpCaller : opCalls'[d].plan = opCalls[d].plan /\ (Locked(opCalls'[d]) <=> Locked(opCalls[d]))
    BY <1>1, <1>3, <1>7, <1>9, <1>13, <2>1
  <2> QED BY <1>2, <1>13, <2>2, LocksStay
<1>15. KeysStand(opCompleted, applied')
  BY <1>2, <1>5 DEF KeysStand
<1> QED BY <1>4, <1>13, <1>14, <1>15 DEF RunAction, OpsIInv

LEMMA FailStep ==
  ASSUME OpsIInv, NEW c \in OpCaller, ActionFails(c)
  PROVE  OpsIInv'
<1>1. PICK call \in OpCall : call = opCalls[c]
  BY DEF OpsIInv
<1>2. /\ opCalls \in [OpCaller -> OpCall] /\ CallStands(call, checkout, applied)
      /\ LocksStand(opCalls, opLocks) /\ KeysStand(opCompleted, applied) /\ checkout \in Snapshots
      /\ \A d \in OpCaller : CallStands(opCalls[d], checkout, applied)
  BY <1>1 DEF OpsIInv
<1>3. call.pc = "run" /\ call.op = "apply" /\ Locked(call)
  BY <1>1, <1>2 DEF ActionFails, CallStands, Locked
<1>4. checkout' \in Snapshots
  BY <1>2 DEF ActionFails, Snapshots
<1>5. PICK next : next = Replied(c, "blocked")
  OBVIOUS
<1>6. next \in OpCall /\ CallStands(next, checkout, applied) /\ ~Locked(next)
  BY <1>1, <1>2, <1>5, RepliedStands
<1>7. PICK calls : calls = [opCalls EXCEPT ![c] = next]
  OBVIOUS
<1>8. calls \in [OpCaller -> OpCall] /\ \A d \in OpCaller : calls[d] = IF d = c THEN next ELSE opCalls[d]
  BY <1>2, <1>6, <1>7
<1>9. \A d \in OpCaller : CallStands(calls[d], checkout, applied)
  BY <1>2, <1>6, <1>8
<1>10. opCalls' = Disturbs(calls, checkout') /\ opLocks' = Unlocked(c)
  BY <1>5, <1>7 DEF ActionFails
<1>11. /\ opCalls' \in [OpCaller -> OpCall]
       /\ \A d \in OpCaller : CallStands(opCalls'[d], checkout', applied)
       /\ \A d \in OpCaller : opCalls'[d].plan = calls[d].plan /\ (Locked(opCalls'[d]) <=> Locked(calls[d]))
  <2> PICK now \in Snapshots : now = checkout'
    BY <1>4
  <2> QED BY <1>2, <1>8, <1>9, <1>10, DisturbedStands
<1>12. LocksStand(opCalls', opLocks')
  <2>1. opLocks' = opLocks \ {opCalls[c].plan.scope}
    BY <1>10 DEF Unlocked, KeepsLock
  <2>2. ~Locked(opCalls'[c]) /\ Locked(opCalls[c])
    BY <1>1, <1>3, <1>6, <1>8, <1>11
  <2>3. \A d \in OpCaller \ {c} : opCalls'[d].plan = opCalls[d].plan /\ (Locked(opCalls'[d]) <=> Locked(opCalls[d]))
    BY <1>8, <1>11
  <2> QED BY <1>2, <1>11, <2>1, <2>2, <2>3, LocksLeft
<1> QED BY <1>2, <1>4, <1>11, <1>12 DEF ActionFails, OpsIInv

LEMMA DoneStep ==
  ASSUME OpsIInv, NEW c \in OpCaller, RecordCompleted(c) \/ Unlock(c)
  PROVE  OpsIInv'
<1>1. PICK call \in OpCall : call = opCalls[c]
  BY DEF OpsIInv
<1>2. /\ opCalls \in [OpCaller -> OpCall] /\ CallStands(call, checkout, applied)
      /\ LocksStand(opCalls, opLocks) /\ KeysStand(opCompleted, applied) /\ checkout \in Snapshots
      /\ \A d \in OpCaller : CallStands(opCalls[d], checkout, applied)
  BY <1>1 DEF OpsIInv
<1>3. call.pc \in {"record", "unlock"} /\ call.op = "apply" /\ ApplyStands(call, checkout) /\ Locked(call)
  BY <1>1, <1>2 DEF RecordCompleted, Unlock, CallStands, Locked
<1>4. CASE RecordCompleted(c)
  <2>0. call.pc = "record"
    BY <1>1, <1>4 DEF RecordCompleted
  <2>1. PICK next : next = [call EXCEPT !.pc = "unlock"]
    OBVIOUS
  <2>2. /\ next \in OpCall /\ next.pc = "unlock" /\ next.op = call.op /\ next.plan = call.plan /\ next.part = call.part
        /\ next.approved = call.approved /\ next.answer = call.answer
    BY <2>1 DEF OpCall
  <2>3. CallStands(next, checkout, applied) /\ Locked(next)
    BY <1>2, <1>3, <2>0, <2>2 DEF CallStands, ApplyStands, Locked
  <2>4. Moves(c, next) /\ opCompleted' = opCompleted \cup {IdempotencyKey(call.plan)}
    BY <1>1, <1>4, <2>1 DEF RecordCompleted
  <2>5. LocksStand(opCalls', opLocks)
    BY <1>1, <1>2, <1>3, <2>2, <2>3, <2>4, OneCallStays
  <2>6. KeysStand(opCompleted', applied)
    <3>1. call.seen = call.plan.snapshot /\ [scope |-> call.plan.scope, seen |-> call.seen] \in applied
      BY <1>2, <1>3, <2>0 DEF CallStands, ApplyStands
    <3> QED BY <1>2, <2>4, <3>1 DEF KeysStand, IdempotencyKey
  <2>7. opCalls' \in [OpCaller -> OpCall] /\ \A d \in OpCaller : opCalls'[d] = IF d = c THEN next ELSE opCalls[d]
    BY <1>2, <2>2, <2>4 DEF Moves
  <2>8. \A d \in OpCaller : CallStands(opCalls'[d], checkout, applied)
    BY <1>2, <2>3, <2>7
  <2> QED BY <1>4, <2>5, <2>6, <2>7, <2>8 DEF RecordCompleted, OpsIInv
<1>5. CASE Unlock(c)
  BY <1>1, <1>3, <1>5, ReplyUnlocks, OneCallMoves DEF Unlock, OpsIInv
<1> QED BY <1>4, <1>5

LEMMA EditStep ==
  ASSUME OpsIInv, EditCheckout
  PROVE  OpsIInv'
<1>1. /\ opCalls \in [OpCaller -> OpCall] /\ LocksStand(opCalls, opLocks) /\ checkout \in Snapshots
      /\ \A d \in OpCaller : CallStands(opCalls[d], checkout, applied)
  BY DEF OpsIInv
<1>2. PICK now \in Snapshots : now = checkout'
  BY DEF EditCheckout
<1>3. opCalls' = Disturbs(opCalls, now)
  BY <1>2 DEF EditCheckout
<1>4. /\ opCalls' \in [OpCaller -> OpCall]
      /\ \A d \in OpCaller : CallStands(opCalls'[d], now, applied)
      /\ \A d \in OpCaller : opCalls'[d].plan = opCalls[d].plan /\ (Locked(opCalls'[d]) <=> Locked(opCalls[d]))
  <2> PICK calls \in [OpCaller -> OpCall] : calls = opCalls
    BY <1>1
  <2> PICK runs : runs = applied
    OBVIOUS
  <2> QED BY <1>1, <1>3, DisturbedStands
<1>5. LocksStand(opCalls', opLocks)
  BY <1>1, <1>4, LocksStay
<1> QED BY <1>2, <1>4, <1>5 DEF EditCheckout, OpsIInv

\* An approved action runs alone, on the checkout its plan described, or is
\* skipped because it was done, for any number of callers, plans and edits of
\* the checkout (Executor.Apply).
THEOREM OpsArePlanned == OpsSpec => []ApplyIsPlanned
<1>1. OpsIInv /\ [OpsNext]_opsVars => OpsIInv'
  <2> SUFFICES ASSUME OpsIInv, [OpsNext]_opsVars PROVE OpsIInv'
    OBVIOUS
  <2>1. CASE OpsNext
    BY <2>1, PlanStep, ReadStep, AskStep, TakeStep, DriftStep, RunStep, FailStep, DoneStep, EditStep DEF OpsNext
  <2>2. CASE UNCHANGED opsVars
    BY <2>2 DEF opsVars, OpsIInv
  <2> QED BY <2>1, <2>2
<1>2. OpsIInv => ApplyIsPlanned
  <2> SUFFICES ASSUME OpsIInv PROVE ApplyIsPlanned
    OBVIOUS
  <2>1. LockIsHeld
    <3> SUFFICES ASSUME NEW scope \in DOMAIN Actions
                 PROVE  Cardinality({c \in OpCaller : Inside(c, scope)}) = IF scope \in opLocks THEN 1 ELSE 0
      BY DEF LockIsHeld
    <3>1. \A c \in OpCaller : Inside(c, scope) <=> Locked(opCalls[c]) /\ opCalls[c].plan.scope = scope
      BY DEF Inside, Locked
    <3>2. LocksStand(opCalls, opLocks)
      BY DEF OpsIInv
    <3>3. CASE scope \in opLocks
      <4>1. PICK c \in OpCaller : {d \in OpCaller : Inside(d, scope)} = {c}
        BY <3>1, <3>2, <3>3 DEF LocksStand
      <4> QED BY <3>3, <4>1, FS_Singleton
    <3>4. CASE scope \notin opLocks
      <4>1. {d \in OpCaller : Inside(d, scope)} = {}
        BY <3>1, <3>2, <3>4 DEF LocksStand
      <4> QED BY <3>4, <4>1, FS_EmptySet
    <3> QED BY <3>3, <3>4
  <2>2. RunsOnPlanned
    <3> SUFFICES ASSUME NEW c \in OpCaller, opCalls[c].pc = "run"
                 PROVE  /\ opCalls[c].approved /\ ~Actions[opCalls[c].plan.scope].blocked
                        /\ opCalls[c].moved \/ checkout = opCalls[c].plan.snapshot
      BY DEF RunsOnPlanned
    <3>1. CallStands(opCalls[c], checkout, applied) /\ opCalls[c].moved \in BOOLEAN
      BY DEF OpsIInv, OpCall
    <3> QED BY <3>1 DEF CallStands, ApplyStands
  <2>3. ReplayIsEarned
    BY DEF ReplayIsEarned, OpsIInv, CallStands
  <2> QED BY <2>1, <2>2, <2>3 DEF ApplyIsPlanned
<1> QED BY <1>1, <1>2, OpsStart, PTL DEF OpsSpec

-----------------------------------------------------------------------------
(***************************************************************************)
(* The MCP server and the self checks                                      *)
(***************************************************************************)

RanWord == {"sound", "failed", "late", "skipped"}
ResultWord == {"pass", "fail", "blocked"}

ResultOf(what) == IF what = "sound" THEN "pass" ELSE IF what = "failed" THEN "fail" ELSE "blocked"

AnswerRec ==
    [number : Nat, kind : {"error", "result"}, verdict : ResultWord \cup {"invalid", "none"}, exit : 0..3,
     isError : BOOLEAN, results : Seq(ResultWord), ran : Seq(RanWord)]

\* The verdicts of the checks follow from what became of them, and once a
\* check is skipped so are all others.
Followed(results, ran) ==
    /\ results \in Seq(ResultWord) /\ ran \in Seq(RanWord) /\ Len(results) = Len(ran)
    /\ \A i \in 1..Len(ran) : results[i] = ResultOf(ran[i])
    /\ \A i, j \in 1..Len(ran) : i < j /\ ran[i] = "skipped" => ran[j] = "skipped"

Ordered(answers) == \A i, j \in DOMAIN answers : i < j => answers[i].number < answers[j].number
Numbers(answers) == {a.number : a \in ToSet(answers)}

EarnedAnswer(a, line) ==
    a.kind = "result" /\ Handle(line) = "check" =>
        /\ DOMAIN a.ran = DOMAIN checksForScope(stringArg(line.args, "scope"))
        /\ a.exit = 0 <=> \A i \in DOMAIN a.ran : a.ran[i] = "sound"
        /\ a.exit = 1 <=> \E i \in DOMAIN a.ran : a.ran[i] = "failed"
        /\ a.isError <=> a.exit # 0
        /\ \A i, j \in DOMAIN a.ran : i < j /\ a.ran[i] = "skipped" => a.ran[j] = "skipped"

AnswersStand(answers, lines, open) ==
    /\ answers \in Seq(AnswerRec)
    /\ Ordered(answers)
    /\ Numbers(answers) = {n \in 1..Len(lines) : Answerable(lines[n])} \ open
    /\ \A a \in ToSet(answers) : EarnedAnswer(a, lines[a.number])

Executors == {"check", "lookup", "ops", "call"}

\* The line in hand, while an executor is at work.
HandStands(pc, lines) ==
    /\ lines \in Seq(RpcLine)
    /\ pc \in {"read", "over", "command"} \cup Executors
    /\ pc \notin {"read", "over"} => Len(lines) > 0
    /\ pc \in Executors => Handle(lines[Len(lines)]) = pc
    /\ pc = "command" => Handle(lines[Len(lines)]) = "check"

ChecksStand(pc, lines, scope, results, ran, over) ==
    pc \in {"check", "command"} =>
        /\ Followed(results, ran)
        /\ scope = stringArg(lines[Len(lines)].args, "scope")
        /\ Len(results) <= Len(checksForScope(scope))
        /\ pc = "command" => /\ Len(results) < Len(checksForScope(scope))
                             /\ \A i \in 1..Len(ran) : ran[i] # "skipped"
        /\ (\E i \in 1..Len(ran) : ran[i] = "skipped") => over

RpcIInv ==
    /\ HandStands(rpcPc, linesRead)
    /\ checkOver \in BOOLEAN
    /\ ChecksStand(rpcPc, linesRead, checkScope, checkResults, checkRan, checkOver)
    /\ AnswersStand(rpcAnswers, linesRead, OpenLines)

\* What is done with a line, and that a line which asks for an answer is the
\* only one with which something is done.
LEMMA HandleWords ==
  ASSUME NEW line \in RpcLine
  PROVE  /\ Handle(line) \in {"nothing", "error", "result", "diagnose"} \cup Executors
         /\ Handle(line) # "nothing" <=> Answerable(line)
         /\ Handle(line) \in Executors => line.id
<1>1. handleToolCall(line) \in {"error", "diagnose"} \cup Executors
  BY DEF handleToolCall, Executors
<1>2. line.id \in BOOLEAN /\ line.json \in BOOLEAN /\ line.rpc \in BOOLEAN
  BY RpcAssumption
<1> QED BY <1>1, <1>2 DEF Handle, Answerable, Executors

\* An answer to a later line.
LEMMA AnswerAdded ==
  ASSUME NEW answers \in Seq(AnswerRec), NEW a \in AnswerRec, Ordered(answers),
         \A n \in Numbers(answers) : n < a.number
  PROVE  /\ Append(answers, a) \in Seq(AnswerRec)
         /\ ToSet(Append(answers, a)) = ToSet(answers) \cup {a}
         /\ Numbers(Append(answers, a)) = Numbers(answers) \cup {a.number}
         /\ Ordered(Append(answers, a))
<1> DEFINE more == Append(answers, a)
<1>1. /\ more \in Seq(AnswerRec) /\ Len(more) = Len(answers) + 1 /\ Len(answers) \in Nat
      /\ more[Len(more)] = a /\ \A i \in 1..Len(answers) : more[i] = answers[i]
      /\ DOMAIN more = 1..Len(more) /\ DOMAIN answers = 1..Len(answers)
  OBVIOUS
<1>2. ToSet(more) = ToSet(answers) \cup {a}
  BY <1>1 DEF ToSet
<1>3. Numbers(more) = Numbers(answers) \cup {a.number}
  BY <1>2 DEF Numbers
<1>4. \A i \in 1..Len(answers) : answers[i].number < a.number
  BY <1>1 DEF Numbers, ToSet
<1>5. ASSUME NEW i \in DOMAIN more, NEW j \in DOMAIN more, i < j PROVE more[i].number < more[j].number
  <2>1. i \in 1..Len(answers)
    BY <1>1, <1>5
  <2>2. CASE j = Len(more)
    BY <1>1, <1>4, <2>1, <2>2
  <2>3. CASE j \in 1..Len(answers)
    BY <1>1, <1>5, <2>1, <2>3 DEF Ordered
  <2> QED BY <1>1, <2>2, <2>3
<1> QED BY <1>1, <1>2, <1>3, <1>5 DEF Ordered

LEMMA AnswerTyped ==
  ASSUME NEW number \in Nat, NEW kind \in {"error", "result"}, NEW verdict \in ResultWord \cup {"invalid", "none"},
         NEW results \in Seq(ResultWord), NEW ran \in Seq(RanWord)
  PROVE  /\ RpcAnswer(number, kind, verdict, results, ran) \in AnswerRec
         /\ RpcAnswer(number, kind, verdict, results, ran).number = number
         /\ RpcAnswer(number, kind, verdict, results, ran).kind = kind
         /\ RpcAnswer(number, kind, verdict, results, ran).ran = ran
         /\ RpcAnswer(number, kind, verdict, results, ran).exit = ExitCode(verdict)
         /\ RpcAnswer(number, kind, verdict, results, ran).isError <=> (kind = "result" /\ verdict \notin {"pass", "none"})
<1>1. ExitCode(verdict) \in 0..3
  BY DEF ExitCode
<1> QED BY <1>1 DEF RpcAnswer, AnswerRec

\* An answer without results of self checks.
LEMMA PlainAnswer ==
  ASSUME NEW number \in Nat, NEW kind \in {"error", "result"}, NEW verdict \in ResultWord \cup {"invalid", "none"}
  PROVE  \E a \in AnswerRec : a = RpcAnswer(number, kind, verdict, << >>, << >>)
<1>1. << >> \in Seq(ResultWord) /\ << >> \in Seq(RanWord)
  OBVIOUS
<1>2. RpcAnswer(number, kind, verdict, << >>, << >>) \in AnswerRec
  BY <1>1, AnswerTyped
<1> QED BY <1>2

\* The answer to the line in hand closes it.
LEMMA LineAnswered ==
  ASSUME NEW answers, NEW lines \in Seq(RpcLine), Len(lines) > 0, AnswersStand(answers, lines, {Len(lines)}),
         Answerable(lines[Len(lines)]),
         NEW a \in AnswerRec, a.number = Len(lines), EarnedAnswer(a, lines[Len(lines)])
  PROVE  AnswersStand(Append(answers, a), lines, {})
<1>1. answers \in Seq(AnswerRec) /\ Ordered(answers) /\ Len(lines) \in Nat
  BY DEF AnswersStand
<1>2. \A n \in Numbers(answers) : n < a.number
  BY <1>1 DEF AnswersStand
<1>3. /\ Append(answers, a) \in Seq(AnswerRec) /\ ToSet(Append(answers, a)) = ToSet(answers) \cup {a}
      /\ Numbers(Append(answers, a)) = Numbers(answers) \cup {a.number} /\ Ordered(Append(answers, a))
  BY <1>1, <1>2, AnswerAdded
<1>4. Numbers(answers) \cup {a.number} = {n \in 1..Len(lines) : Answerable(lines[n])}
  BY <1>1 DEF AnswersStand
<1>5. \A b \in ToSet(answers) : EarnedAnswer(b, lines[b.number])
  BY DEF AnswersStand
<1> QED BY <1>3, <1>4, <1>5 DEF AnswersStand

\* A line more is open when it asks for an answer.
LEMMA LineRead ==
  ASSUME NEW answers, NEW lines \in Seq(RpcLine), AnswersStand(answers, lines, {}), NEW line \in RpcLine
  PROVE  /\ Append(lines, line) \in Seq(RpcLine) /\ Len(Append(lines, line)) = Len(lines) + 1
         /\ Append(lines, line)[Len(lines) + 1] = line
         /\ AnswersStand(answers, Append(lines, line), {Len(lines) + 1})
         /\ ~Answerable(line) => AnswersStand(answers, Append(lines, line), {})
<1> DEFINE more == Append(lines, line)
<1>1. /\ more \in Seq(RpcLine) /\ Len(more) = Len(lines) + 1 /\ Len(lines) \in Nat /\ more[Len(lines) + 1] = line
      /\ \A n \in 1..Len(lines) : more[n] = lines[n]
  OBVIOUS
<1>2. Numbers(answers) = {n \in 1..Len(lines) : Answerable(lines[n])}
  BY DEF AnswersStand
<1>3. {n \in 1..Len(more) : Answerable(more[n])} \ {Len(lines) + 1} = Numbers(answers)
  BY <1>1, <1>2
<1>4. ~Answerable(line) => {n \in 1..Len(more) : Answerable(more[n])} = Numbers(answers)
  BY <1>1, <1>2
<1>5. \A a \in ToSet(answers) : a.number \in 1..Len(lines)
  BY <1>2 DEF Numbers
<1>6. \A a \in ToSet(answers) : EarnedAnswer(a, more[a.number])
  BY <1>1, <1>5 DEF AnswersStand
<1> QED BY <1>1, <1>3, <1>4, <1>6 DEF AnswersStand

\* Whatever is said of a line that asks for no self check is earned.
LEMMA PlainlyEarned ==
  ASSUME NEW a, NEW line, a.kind = "error" \/ Handle(line) # "check"
  PROVE  EarnedAnswer(a, line)
BY Zenon DEF EarnedAnswer

\* What becomes of one check more.
LEMMA FollowedFurther ==
  ASSUME NEW results, NEW ran, Followed(results, ran), NEW what \in RanWord,
         (\E i \in 1..Len(ran) : ran[i] = "skipped") => what = "skipped"
  PROVE  /\ Followed(Append(results, ResultOf(what)), Append(ran, what))
         /\ Len(Append(results, ResultOf(what))) = Len(results) + 1
         /\ (\E i \in 1..Len(Append(ran, what)) : Append(ran, what)[i] = "skipped") => what = "skipped"
<1>1. /\ results \in Seq(ResultWord) /\ ran \in Seq(RanWord) /\ Len(results) = Len(ran) /\ Len(ran) \in Nat
      /\ \A i \in 1..Len(ran) : results[i] = ResultOf(ran[i])
      /\ \A i, j \in 1..Len(ran) : i < j /\ ran[i] = "skipped" => ran[j] = "skipped"
  BY DEF Followed
<1>2. PICK verdict \in ResultWord : verdict = ResultOf(what)
  BY DEF ResultOf, ResultWord
<1>a. Append(results, verdict) \in Seq(ResultWord) /\ Append(ran, what) \in Seq(RanWord)
  BY <1>1
<1>3. PICK more \in Seq(ResultWord) : more = Append(results, verdict)
  BY <1>a, Zenon
<1>4. PICK runs \in Seq(RanWord) : runs = Append(ran, what)
  BY <1>a, Zenon
<1>5. Len(more) = Len(ran) + 1 /\ Len(runs) = Len(ran) + 1
  BY <1>1, <1>3, <1>4
<1>6. more[Len(ran) + 1] = verdict /\ runs[Len(ran) + 1] = what
  BY <1>1, <1>3, <1>4
<1>7. \A i \in 1..Len(ran) : more[i] = results[i] /\ runs[i] = ran[i]
  BY <1>1, <1>3, <1>4
<1>8. \A i \in 1..Len(runs) : i \in 1..Len(ran) \/ i = Len(ran) + 1
  BY <1>1, <1>5
<1>9. \A i \in 1..Len(runs) : more[i] = ResultOf(runs[i])
  BY <1>1, <1>2, <1>6, <1>7, <1>8, Zenon
<1>10. ASSUME NEW i \in 1..Len(runs), NEW j \in 1..Len(runs), i < j, runs[i] = "skipped" PROVE runs[j] = "skipped"
  <2>1. i \in 1..Len(ran)
    BY <1>1, <1>5, <1>10
  <2>2. ran[i] = "skipped"
    BY <1>7, <1>10, <2>1
  <2>3. CASE j \in 1..Len(ran)
    BY <1>1, <1>7, <1>10, <2>1, <2>2, <2>3
  <2>4. CASE j = Len(ran) + 1
    BY <1>6, <2>1, <2>2, <2>4
  <2> QED BY <1>8, <2>3, <2>4
<1>11. (\E i \in 1..Len(runs) : runs[i] = "skipped") => what = "skipped"
  BY <1>6, <1>7, <1>8
<1>12. Followed(more, runs)
  BY <1>5, <1>9, <1>10 DEF Followed
<1>13. Followed(Append(results, ResultOf(what)), Append(ran, what))
  BY ONLY <1>2, <1>3, <1>4, <1>12, Zenon
<1>14. Len(Append(results, ResultOf(what))) = Len(results) + 1
  BY ONLY <1>1, <1>2, <1>3, <1>5, Zenon
<1>15. (\E i \in 1..Len(Append(ran, what)) : Append(ran, what)[i] = "skipped") => what = "skipped"
  BY ONLY <1>4, <1>11, Zenon
<1> QED BY ONLY <1>13, <1>14, <1>15

\* The verdict over all checks, from what became of each of them.
LEMMA FollowedIsEarned ==
  ASSUME NEW results, NEW ran, Followed(results, ran)
  PROVE  /\ aggregateVerdict(results) \in ResultWord
         /\ ExitCode(aggregateVerdict(results)) = 0 <=> \A i \in DOMAIN ran : ran[i] = "sound"
         /\ ExitCode(aggregateVerdict(results)) = 1 <=> \E i \in DOMAIN ran : ran[i] = "failed"
         /\ aggregateVerdict(results) \notin {"pass", "none"} <=> ExitCode(aggregateVerdict(results)) # 0
<1>1. /\ results \in Seq(ResultWord) /\ ran \in Seq(RanWord) /\ Len(results) = Len(ran) /\ Len(ran) \in Nat
      /\ \A i \in 1..Len(ran) : results[i] = ResultOf(ran[i])
  BY DEF Followed
<1>2. DOMAIN ran = 1..Len(ran) /\ DOMAIN results = 1..Len(ran)
  BY <1>1
<1>3. \A i \in 1..Len(ran) : ran[i] \in RanWord
  BY <1>1
<1>4. \A i \in 1..Len(ran) : /\ results[i] = "pass" <=> ran[i] = "sound"
                             /\ results[i] = "fail" <=> ran[i] = "failed"
                             /\ results[i] \in {"pass", "fail", "blocked"}
  BY <1>1, <1>3 DEF ResultOf, RanWord
<1>5. "fail" \in ToSet(results) <=> \E i \in DOMAIN ran : ran[i] = "failed"
  BY <1>2, <1>4 DEF ToSet
<1>6. ("fail" \notin ToSet(results) /\ "blocked" \notin ToSet(results)) <=> \A i \in DOMAIN ran : ran[i] = "sound"
  BY <1>2, <1>4 DEF ToSet
<1>7. PICK verdict \in ResultWord : verdict = aggregateVerdict(results)
  BY DEF aggregateVerdict, ResultWord
<1>8. /\ verdict = "fail" <=> "fail" \in ToSet(results)
      /\ verdict = "pass" <=> ("fail" \notin ToSet(results) /\ "blocked" \notin ToSet(results))
  BY <1>7 DEF aggregateVerdict
<1>9. /\ ExitCode(verdict) = 0 <=> verdict = "pass"
      /\ ExitCode(verdict) = 1 <=> verdict = "fail"
      /\ verdict \notin {"pass", "none"} <=> ExitCode(verdict) # 0
  BY <1>7 DEF ExitCode, ResultWord
<1> QED BY ONLY <1>5, <1>6, <1>7, <1>8, <1>9, Zenon

\* No check leaves the list of its scope empty.
LEMMA SomeChecks ==
  ASSUME NEW scope
  PROVE  Len(checksForScope(scope)) \in Nat /\ DOMAIN checksForScope(scope) = 1..Len(checksForScope(scope))
<1>1. CASE scope = "release"
  BY <1>1 DEF checksForScope
<1>2. CASE scope = "all"
  BY <1>2 DEF checksForScope
<1>3. CASE scope # "release" /\ scope # "all"
  BY <1>3 DEF checksForScope
<1> QED BY <1>1, <1>2, <1>3

\* A line is read and answered at once, without an executor.
LEMMA AnsweredAtOnce ==
  ASSUME RpcIInv, NEW line \in RpcLine, rpcPc = "read", Handle(line) # "nothing",
         NEW kind \in {"error", "result"}, NEW verdict \in ResultWord \cup {"invalid", "none"},
         kind = "error" \/ Handle(line) # "check",
         linesRead' = Append(linesRead, line), Writes(Len(linesRead) + 1, kind, verdict), UNCHANGED checkVars
  PROVE  RpcIInv'
<1>1. linesRead \in Seq(RpcLine) /\ AnswersStand(rpcAnswers, linesRead, {}) /\ checkOver \in BOOLEAN
  BY DEF RpcIInv, HandStands, OpenLines
<1>2. PICK lines \in Seq(RpcLine) : lines = Append(linesRead, line)
  BY <1>1
<1>3. /\ Len(lines) = Len(linesRead) + 1 /\ lines[Len(linesRead) + 1] = line /\ Len(linesRead) \in Nat
      /\ AnswersStand(rpcAnswers, lines, {Len(linesRead) + 1})
  BY <1>1, <1>2, LineRead
<1>4. Answerable(line)
  BY HandleWords
<1>n. PICK number \in Nat : number = Len(linesRead) + 1
  BY <1>3
<1>6. PICK a \in AnswerRec : a = RpcAnswer(number, kind, verdict, << >>, << >>)
  BY PlainAnswer
<1>7. a.number = Len(linesRead) + 1 /\ a.kind = kind
  BY ONLY <1>n, <1>6 DEF RpcAnswer
<1>8. EarnedAnswer(a, line)
  BY <1>7, PlainlyEarned
<1>9. AnswersStand(Append(rpcAnswers, a), lines, {})
  BY <1>3, <1>4, <1>7, <1>8, LineAnswered
<1>10. rpcPc' = "read" /\ rpcAnswers' = Append(rpcAnswers, a) /\ linesRead' = lines /\ checkOver' \in BOOLEAN
  BY <1>1, <1>2, <1>6, <1>n DEF Writes, checkVars
<1>11. HandStands(rpcPc', linesRead')
  BY <1>10 DEF HandStands, Executors
<1>12. ChecksStand(rpcPc', linesRead', checkScope', checkResults', checkRan', checkOver')
  BY <1>10 DEF ChecksStand
<1>13. OpenLines' = {}
  BY <1>10 DEF OpenLines
<1> QED BY <1>9, <1>10, <1>11, <1>12, <1>13 DEF RpcIInv

\* A line is handed to an executor.
LEMMA HandedOver ==
  ASSUME RpcIInv, NEW line \in RpcLine, rpcPc = "read", NEW todo \in Executors, todo = Handle(line),
         linesRead' = Append(linesRead, line), rpcPc' = todo, rpcAnswers' = rpcAnswers, checkOver' \in BOOLEAN,
         todo = "check" => /\ checkScope' = stringArg(line.args, "scope")
                           /\ checkResults' = << >> /\ checkRan' = << >> /\ checkOver' = FALSE
  PROVE  RpcIInv'
<1>1. linesRead \in Seq(RpcLine) /\ AnswersStand(rpcAnswers, linesRead, {})
  BY DEF RpcIInv, HandStands, OpenLines
<1>2. PICK lines \in Seq(RpcLine) : lines = Append(linesRead, line)
  BY <1>1
<1>3. /\ Len(lines) = Len(linesRead) + 1 /\ lines[Len(lines)] = line /\ Len(linesRead) \in Nat
      /\ AnswersStand(rpcAnswers, lines, {Len(lines)})
  BY <1>1, <1>2, LineRead
<1>4. HandStands(todo, lines)
  BY <1>3 DEF HandStands, Executors
<1>5. OpenLines' = {Len(lines)}
  BY <1>2 DEF OpenLines, Executors
<1>6. Len(checksForScope(checkScope')) \in Nat
  BY SomeChecks
<1>7. todo = "check" => Followed(checkResults', checkRan') /\ Len(checkResults') = 0 /\ Len(checkRan') = 0
  BY DEF Followed
<1>8. ChecksStand(todo, lines, checkScope', checkResults', checkRan', checkOver')
  BY <1>3, <1>6, <1>7 DEF ChecksStand, Executors
<1>9. rpcPc' = todo /\ linesRead' = lines /\ rpcAnswers' = rpcAnswers
  BY <1>2
<1> QED BY <1>3, <1>4, <1>5, <1>8, <1>9 DEF RpcIInv

LEMMA ServeStep ==
  ASSUME RpcIInv, NEW line \in RpcLine, Serve(line)
  PROVE  RpcIInv'
<1> DEFINE todo == Handle(line)
           Says(kind, verdict) == Writes(Len(linesRead) + 1, kind, verdict) /\ UNCHANGED checkVars
<1>1. rpcPc = "read" /\ linesRead' = Append(linesRead, line) /\ checkOver \in BOOLEAN
  BY DEF Serve, RpcIInv
<1>2. CASE todo = "nothing" /\ UNCHANGED <<rpcPc, rpcAnswers, checkVars>>
  <2>1. linesRead \in Seq(RpcLine) /\ AnswersStand(rpcAnswers, linesRead, {})
    BY <1>1 DEF RpcIInv, HandStands, OpenLines
  <2>2. ~Answerable(line)
    BY <1>2, HandleWords
  <2>0. Append(linesRead, line) \in Seq(RpcLine)
    BY <2>1
  <2>3. PICK lines \in Seq(RpcLine) : lines = Append(linesRead, line)
    BY <2>0, Zenon
  <2>4. AnswersStand(rpcAnswers, lines, {})
    BY <2>1, <2>2, <2>3, LineRead
  <2>5. rpcPc' = "read" /\ rpcAnswers' = rpcAnswers /\ linesRead' = lines /\ checkOver' \in BOOLEAN
    BY <1>1, <1>2, <2>3 DEF checkVars
  <2>6. HandStands(rpcPc', linesRead')
    BY <2>5 DEF HandStands, Executors
  <2>7. ChecksStand(rpcPc', linesRead', checkScope', checkResults', checkRan', checkOver')
    BY <2>5 DEF ChecksStand
  <2>8. OpenLines' = {}
    BY <2>5 DEF OpenLines
  <2> QED BY <2>4, <2>5, <2>6, <2>7, <2>8 DEF RpcIInv
<1>3. CASE todo = "error" /\ Says("error", "none")
  BY <1>1, <1>3, AnsweredAtOnce
<1>4. CASE todo = "result" /\ Says("result", "none")
  BY <1>1, <1>4, AnsweredAtOnce
<1>5. CASE Refused(todo, line) /\ Says("error", "none")
  <2>1. todo # "nothing"
    BY <1>5 DEF Refused
  <2> QED BY <1>1, <1>5, <2>1, AnsweredAtOnce
<1>6. CASE /\ todo = "diagnose"
           /\ Says("result", IF line.tool = "orag_diagnose" THEN Diagnose(line.args) ELSE RunbookSuggest(line.args))
  <2>1. PICK verdict \in ResultWord \cup {"invalid", "none"} :
            verdict = IF line.tool = "orag_diagnose" THEN Diagnose(line.args) ELSE RunbookSuggest(line.args)
    <3>1. Diagnose(line.args) \in {"invalid", "fail", "pass"} /\ RunbookSuggest(line.args) \in {"invalid", "pass"}
      BY DEF Diagnose, RunbookSuggest
    <3> QED BY <3>1 DEF ResultWord
  <2> QED BY <1>1, <1>6, <2>1, AnsweredAtOnce
<1>7. CASE todo \in {"lookup", "ops", "call"} /\ rpcPc' = todo /\ UNCHANGED <<rpcAnswers, checkVars>>
  <2>1. checkOver' \in BOOLEAN /\ todo \in Executors /\ todo # "check"
    BY <1>1, <1>7 DEF checkVars, Executors
  <2> QED BY <1>1, <1>7, <2>1, HandedOver
<1>8. CASE /\ todo = "check" /\ rpcPc' = "check" /\ checkScope' = stringArg(line.args, "scope")
           /\ checkResults' = << >> /\ checkRan' = << >> /\ checkOver' = FALSE /\ UNCHANGED rpcAnswers
  <2>1. todo \in Executors
    BY <1>8 DEF Executors
  <2> QED BY <1>1, <1>8, <2>1, HandedOver
<1> QED BY <1>2, <1>3, <1>4, <1>5, <1>6, <1>7, <1>8 DEF Serve

\* An executor other than the self checks answers.
LEMMA ExecutorAnswers ==
  ASSUME RpcIInv, rpcPc \in {"lookup", "ops", "call"}, NEW kind \in {"error", "result"},
         NEW verdict \in ResultWord \cup {"invalid", "none"}, Answers(kind, verdict)
  PROVE  RpcIInv'
<1>1. /\ linesRead \in Seq(RpcLine) /\ Len(linesRead) > 0 /\ Len(linesRead) \in Nat
      /\ AnswersStand(rpcAnswers, linesRead, {Len(linesRead)})
      /\ Handle(linesRead[Len(linesRead)]) = rpcPc /\ checkOver \in BOOLEAN
  BY DEF RpcIInv, HandStands, OpenLines, Executors
<1>2. PICK line \in RpcLine : line = linesRead[Len(linesRead)]
  BY <1>1
<1>3. Answerable(line) /\ Handle(line) # "check"
  BY <1>1, <1>2, HandleWords
<1>n. PICK number \in Nat : number = Len(linesRead)
  BY <1>1
<1>5. PICK a \in AnswerRec : a = RpcAnswer(number, kind, verdict, << >>, << >>)
  BY PlainAnswer
<1>6. a.number = Len(linesRead) /\ a.kind = kind
  BY ONLY <1>n, <1>5 DEF RpcAnswer
<1>7. EarnedAnswer(a, line)
  BY <1>3, PlainlyEarned
<1>8. AnswersStand(Append(rpcAnswers, a), linesRead, {})
  BY <1>1, <1>2, <1>3, <1>6, <1>7, LineAnswered
<1>9. rpcPc' = "read" /\ rpcAnswers' = Append(rpcAnswers, a) /\ linesRead' = linesRead /\ checkOver' \in BOOLEAN
  BY <1>1, <1>5, <1>n DEF Answers, Writes, checkVars
<1>10. HandStands(rpcPc', linesRead')
  BY <1>1, <1>9 DEF HandStands, Executors
<1>11. ChecksStand(rpcPc', linesRead', checkScope', checkResults', checkRan', checkOver')
  BY <1>9 DEF ChecksStand
<1>12. OpenLines' = {}
  BY <1>9 DEF OpenLines
<1> QED BY <1>8, <1>9, <1>10, <1>11, <1>12 DEF RpcIInv

\* What holds while the self check of the line in hand is under way.
LEMMA CheckUnderWay ==
  ASSUME RpcIInv, rpcPc \in {"check", "command"}
  PROVE  /\ linesRead \in Seq(RpcLine) /\ Len(linesRead) > 0 /\ Len(linesRead) \in Nat
         /\ AnswersStand(rpcAnswers, linesRead, {Len(linesRead)})
         /\ Handle(linesRead[Len(linesRead)]) = "check"
         /\ checkOver \in BOOLEAN /\ Followed(checkResults, checkRan)
         /\ checkScope = stringArg(linesRead[Len(linesRead)].args, "scope")
         /\ Len(checkResults) <= Len(checksForScope(checkScope))
         /\ rpcPc = "command" => /\ Len(checkResults) < Len(checksForScope(checkScope))
                                 /\ \A i \in 1..Len(checkRan) : checkRan[i] # "skipped"
         /\ (\E i \in 1..Len(checkRan) : checkRan[i] = "skipped") => checkOver
<1>1. OpenLines = {Len(linesRead)}
  BY DEF OpenLines
<1>2. /\ linesRead \in Seq(RpcLine) /\ Len(linesRead) > 0 /\ Len(linesRead) \in Nat
      /\ Handle(linesRead[Len(linesRead)]) = "check"
  BY DEF RpcIInv, HandStands, Executors
<1>3. ChecksStand(rpcPc, linesRead, checkScope, checkResults, checkRan, checkOver)
  BY DEF RpcIInv
<1>4. AnswersStand(rpcAnswers, linesRead, {Len(linesRead)}) /\ checkOver \in BOOLEAN
  BY <1>1 DEF RpcIInv
<1> QED BY <1>2, <1>3, <1>4 DEF ChecksStand

\* The self check goes on with the line in hand.
LEMMA CheckGoesOn ==
  ASSUME RpcIInv, rpcPc \in {"check", "command"}, rpcPc' \in {"check", "command"},
         linesRead' = linesRead, rpcAnswers' = rpcAnswers, checkScope' = checkScope, checkOver' \in BOOLEAN,
         Followed(checkResults', checkRan'), Len(checkResults') <= Len(checksForScope(checkScope)),
         rpcPc' = "command" => /\ Len(checkResults') < Len(checksForScope(checkScope))
                               /\ \A i \in 1..Len(checkRan') : checkRan'[i] # "skipped",
         (\E i \in 1..Len(checkRan') : checkRan'[i] = "skipped") => checkOver'
  PROVE  RpcIInv'
<1>1. /\ linesRead \in Seq(RpcLine) /\ Len(linesRead) > 0
      /\ AnswersStand(rpcAnswers, linesRead, {Len(linesRead)})
      /\ Handle(linesRead[Len(linesRead)]) = "check"
      /\ checkScope = stringArg(linesRead[Len(linesRead)].args, "scope")
  BY CheckUnderWay
<1>2. HandStands(rpcPc', linesRead')
  BY <1>1 DEF HandStands, Executors
<1>3. ChecksStand(rpcPc', linesRead', checkScope', checkResults', checkRan', checkOver')
  BY <1>1 DEF ChecksStand
<1>4. OpenLines' = {Len(linesRead)}
  BY DEF OpenLines
<1> QED BY <1>1, <1>2, <1>3, <1>4 DEF RpcIInv

\* One more check is judged; one is skipped exactly when the deadline passed
\* before it was started.
LEMMA JudgedStep ==
  ASSUME RpcIInv, rpcPc \in {"check", "command"}, Len(checkResults) < Len(checksForScope(checkScope)),
         NEW what \in RanWord, what = "skipped" <=> (rpcPc = "check" /\ checkOver),
         Judged(ResultOf(what), what)
  PROVE  RpcIInv'
<1>1. /\ checkOver \in BOOLEAN /\ Followed(checkResults, checkRan)
      /\ rpcPc = "command" => \A i \in 1..Len(checkRan) : checkRan[i] # "skipped"
      /\ (\E i \in 1..Len(checkRan) : checkRan[i] = "skipped") => checkOver
  BY CheckUnderWay
<1>2. (\E i \in 1..Len(checkRan) : checkRan[i] = "skipped") => what = "skipped"
  BY <1>1
<1>3. PICK results : results = Append(checkResults, ResultOf(what))
  OBVIOUS
<1>4. PICK ran : ran = Append(checkRan, what)
  OBVIOUS
<1>5. /\ Followed(results, ran) /\ Len(results) = Len(checkResults) + 1
      /\ (\E i \in 1..Len(ran) : ran[i] = "skipped") => what = "skipped"
  BY <1>1, <1>2, <1>3, <1>4, FollowedFurther
<1>6. /\ rpcPc' = "check" /\ linesRead' = linesRead /\ rpcAnswers' = rpcAnswers /\ checkScope' = checkScope
      /\ checkOver' = checkOver /\ checkResults' = results /\ checkRan' = ran
  BY <1>3, <1>4 DEF Judged
<1>7. Len(checksForScope(checkScope)) \in Nat /\ Len(checkResults) \in Nat
  BY <1>1, SomeChecks DEF Followed
<1>8. Len(results) <= Len(checksForScope(checkScope))
  BY <1>5, <1>7
<1> QED BY <1>1, <1>5, <1>6, <1>8, CheckGoesOn

LEMMA CheckingStep ==
  ASSUME RpcIInv,
         SkipCheck \/ RunProbe \/ StartCommand \/ DeadlinePasses \/ CommandTimesOut \/ \E yes \in BOOLEAN : CommandReturns(yes)
  PROVE  RpcIInv'
<1>1. CASE SkipCheck
  <2>1. /\ rpcPc = "check" /\ checkOver /\ Len(checkResults) < Len(checksForScope(checkScope))
        /\ Judged("blocked", "skipped")
    BY <1>1 DEF SkipCheck, Pending
  <2>2. "skipped" \in RanWord /\ ResultOf("skipped") = "blocked"
    BY DEF RanWord, ResultOf
  <2> QED BY <2>1, <2>2, JudgedStep
<1>2. CASE RunProbe
  <2>1. /\ rpcPc = "check" /\ ~checkOver /\ Len(checkResults) < Len(checksForScope(checkScope))
        /\ Judged(runProbe(NextCheck), IF runProbe(NextCheck) = "pass" THEN "sound" ELSE "failed")
    BY <1>2 DEF RunProbe, Pending
  <2>2. PICK what \in RanWord : what = IF runProbe(NextCheck) = "pass" THEN "sound" ELSE "failed"
    BY DEF RanWord
  <2>3. runProbe(NextCheck) = ResultOf(what)
    BY <2>2 DEF runProbe, ResultOf
  <2>4. what # "skipped"
    BY <2>2
  <2>5. Judged(ResultOf(what), what)
    BY ONLY <2>1, <2>2, <2>3, Zenon
  <2> QED BY <2>1, <2>4, <2>5, JudgedStep
<1>3. CASE StartCommand
  <2>1. /\ rpcPc = "check" /\ ~checkOver /\ Len(checkResults) < Len(checksForScope(checkScope)) /\ rpcPc' = "command"
        /\ UNCHANGED <<linesRead, rpcAnswers, checkScope, checkResults, checkRan, checkOver>>
    BY <1>3 DEF StartCommand, Pending, checkVars
  <2> QED BY <2>1, CheckUnderWay, CheckGoesOn
<1>4. CASE DeadlinePasses
  <2>1. /\ rpcPc \in {"check", "command"} /\ checkOver' = TRUE
        /\ UNCHANGED <<rpcPc, linesRead, rpcAnswers, checkScope, checkResults, checkRan>>
    BY <1>4 DEF DeadlinePasses
  <2> QED BY <2>1, CheckUnderWay, CheckGoesOn
<1>5. CASE CommandTimesOut
  <2>1. /\ rpcPc = "command"
        /\ UNCHANGED <<rpcPc, linesRead, rpcAnswers, checkScope, checkResults, checkRan, checkOver>>
    BY <1>5 DEF CommandTimesOut
  <2> QED BY <2>1, CheckUnderWay, CheckGoesOn
<1>6. ASSUME NEW yes \in BOOLEAN, CommandReturns(yes) PROVE RpcIInv'
  <2>1. PICK what \in RanWord : what = IF TooLate THEN "late" ELSE IF yes THEN "sound" ELSE "failed"
    BY DEF RanWord
  <2>2. ResultOf(what) = IF TooLate THEN "blocked" ELSE IF yes THEN "pass" ELSE "fail"
    BY <2>1 DEF ResultOf
  <2>3. rpcPc = "command" /\ Judged(ResultOf(what), what)
    BY ONLY <1>6, <2>1, <2>2, Zenon DEF CommandReturns
  <2>4. what # "skipped"
    BY <2>1
  <2>5. Len(checkResults) < Len(checksForScope(checkScope))
    BY <2>3, CheckUnderWay
  <2> QED BY <2>3, <2>4, <2>5, JudgedStep
<1> QED BY <1>1, <1>2, <1>3, <1>4, <1>5, <1>6

LEMMA FinishChecksStep ==
  ASSUME RpcIInv, FinishChecks
  PROVE  RpcIInv'
<1>1. /\ linesRead \in Seq(RpcLine) /\ Len(linesRead) > 0 /\ Len(linesRead) \in Nat
      /\ AnswersStand(rpcAnswers, linesRead, {Len(linesRead)}) /\ Handle(linesRead[Len(linesRead)]) = "check"
      /\ checkOver \in BOOLEAN /\ Followed(checkResults, checkRan)
      /\ checkScope = stringArg(linesRead[Len(linesRead)].args, "scope")
      /\ Len(checkResults) <= Len(checksForScope(checkScope))
  BY CheckUnderWay DEF FinishChecks
<1>2. PICK line \in RpcLine : line = linesRead[Len(linesRead)]
  BY <1>1
<1>3. Answerable(line)
  BY <1>1, <1>2, HandleWords
<1>4. /\ checkResults \in Seq(ResultWord) /\ checkRan \in Seq(RanWord) /\ Len(checkResults) = Len(checkRan)
      /\ \A i, j \in 1..Len(checkRan) : i < j /\ checkRan[i] = "skipped" => checkRan[j] = "skipped"
  BY <1>1 DEF Followed
<1>5. Len(checksForScope(checkScope)) \in Nat /\ DOMAIN checksForScope(checkScope) = 1..Len(checksForScope(checkScope))
  BY SomeChecks
<1>6. Len(checkResults) = Len(checksForScope(checkScope))
  BY <1>1, <1>4, <1>5 DEF FinishChecks, Pending
<1>7. PICK verdict \in ResultWord : verdict = aggregateVerdict(checkResults)
  BY <1>1, FollowedIsEarned
<1>8. /\ ExitCode(verdict) = 0 <=> \A i \in DOMAIN checkRan : checkRan[i] = "sound"
      /\ ExitCode(verdict) = 1 <=> \E i \in DOMAIN checkRan : checkRan[i] = "failed"
      /\ verdict \notin {"pass", "none"} <=> ExitCode(verdict) # 0
  BY ONLY <1>1, <1>7, FollowedIsEarned
<1>9. PICK a \in AnswerRec : a = RpcAnswer(Len(linesRead), "result", verdict, checkResults, checkRan)
  BY <1>1, <1>4, AnswerTyped
<1>10. /\ a.number = Len(linesRead) /\ a.kind = "result" /\ a.ran = checkRan /\ a.exit = ExitCode(verdict)
       /\ a.isError <=> verdict \notin {"pass", "none"}
  BY <1>1, <1>4, <1>9, AnswerTyped
<1>11. DOMAIN checkRan = 1..Len(checkRan)
  BY <1>4
<1>12. DOMAIN a.ran = DOMAIN checksForScope(stringArg(line.args, "scope"))
  BY <1>1, <1>2, <1>4, <1>5, <1>6, <1>10, <1>11
<1>13. EarnedAnswer(a, line)
  BY <1>4, <1>8, <1>10, <1>11, <1>12 DEF EarnedAnswer
<1>14. AnswersStand(Append(rpcAnswers, a), linesRead, {})
  BY <1>1, <1>2, <1>3, <1>10, <1>13, LineAnswered
<1>15. rpcPc' = "read" /\ rpcAnswers' = Append(rpcAnswers, a) /\ linesRead' = linesRead /\ checkOver' \in BOOLEAN
  BY <1>1, <1>7, <1>9 DEF FinishChecks, checkVars
<1>16. HandStands(rpcPc', linesRead')
  BY <1>1, <1>15 DEF HandStands, Executors
<1>17. ChecksStand(rpcPc', linesRead', checkScope', checkResults', checkRan', checkOver')
  BY <1>15 DEF ChecksStand
<1>18. OpenLines' = {}
  BY <1>15 DEF OpenLines
<1> QED BY <1>14, <1>15, <1>16, <1>17, <1>18 DEF RpcIInv

LEMMA RpcInvInit == RpcInit => RpcIInv
<1> SUFFICES ASSUME RpcInit PROVE RpcIInv
  OBVIOUS
<1>1. rpcPc = "read" /\ linesRead = << >> /\ rpcAnswers = << >> /\ checkOver = FALSE
  BY DEF RpcInit
<1>2. HandStands(rpcPc, linesRead) /\ ChecksStand(rpcPc, linesRead, checkScope, checkResults, checkRan, checkOver)
  BY <1>1 DEF HandStands, ChecksStand, Executors
<1>3. ToSet(rpcAnswers) = {} /\ Numbers(rpcAnswers) = {} /\ Ordered(rpcAnswers) /\ rpcAnswers \in Seq(AnswerRec)
  BY <1>1 DEF ToSet, Numbers, Ordered
<1>4. OpenLines = {} /\ {n \in 1..Len(linesRead) : Answerable(linesRead[n])} = {}
  BY <1>1 DEF OpenLines
<1> QED BY <1>1, <1>2, <1>3, <1>4 DEF RpcIInv, AnswersStand

LEMMA RpcInvNext == RpcIInv /\ [RpcNext]_rpcVars => RpcIInv'
<1> SUFFICES ASSUME RpcIInv, [RpcNext]_rpcVars PROVE RpcIInv'
  OBVIOUS
<1>1. CASE \E line \in RpcLine : Serve(line)
  BY <1>1, ServeStep
<1>2. CASE ServeEnds
  <2>1. /\ rpcPc = "read" /\ rpcPc' = "over"
        /\ UNCHANGED <<linesRead, rpcAnswers, checkScope, checkResults, checkRan, checkOver>>
    BY <1>2 DEF ServeEnds, checkVars
  <2>2. OpenLines = {} /\ OpenLines' = {}
    BY <2>1 DEF OpenLines
  <2>3. HandStands(rpcPc', linesRead')
    BY <2>1 DEF RpcIInv, HandStands, Executors
  <2>4. ChecksStand(rpcPc', linesRead', checkScope', checkResults', checkRan', checkOver')
    BY <2>1 DEF ChecksStand
  <2> QED BY <2>1, <2>2, <2>3, <2>4 DEF RpcIInv
<1>3. ASSUME NEW yes \in BOOLEAN, TraceLookup(yes) PROVE RpcIInv'
  <2>1. PICK verdict \in ResultWord : verdict = IF yes THEN "pass" ELSE "blocked"
    BY DEF ResultWord
  <2>2. rpcPc = "lookup" /\ Answers("result", verdict)
    BY ONLY <1>3, <2>1, Zenon DEF TraceLookup
  <2> QED BY <2>2, ExecutorAnswers
<1>4. ASSUME NEW yes \in BOOLEAN, CallTool(yes) PROVE RpcIInv'
  <2>1. PICK kind \in {"error", "result"} : kind = IF yes THEN "result" ELSE "error"
    OBVIOUS
  <2>2. rpcPc = "call" /\ Answers(kind, "none")
    BY ONLY <1>4, <2>1, Zenon DEF CallTool
  <2> QED BY <2>2, ExecutorAnswers
<1>5. ASSUME NEW kind \in {"error", "result"}, NEW said \in {"pass", "blocked"}, HandleSelfOps(kind, said) PROVE RpcIInv'
  <2>1. PICK verdict \in ResultWord \cup {"invalid", "none"} : verdict = IF kind = "error" THEN "none" ELSE said
    BY DEF ResultWord
  <2>2. rpcPc = "ops" /\ Answers(kind, verdict)
    BY ONLY <1>5, <2>1, Zenon DEF HandleSelfOps
  <2> QED BY <2>2, ExecutorAnswers
<1>6. CASE SkipCheck \/ RunProbe \/ StartCommand \/ DeadlinePasses \/ CommandTimesOut \/ \E yes \in BOOLEAN : CommandReturns(yes)
  BY <1>6, CheckingStep
<1>7. CASE FinishChecks
  BY <1>7, FinishChecksStep
<1>8. CASE UNCHANGED rpcVars
  <2>1. OpenLines' = OpenLines
    BY <1>8 DEF rpcVars, OpenLines
  <2> QED BY <1>8, <2>1 DEF rpcVars, RpcIInv
<1> QED BY <1>1, <1>2, <1>3, <1>4, <1>5, <1>6, <1>7, <1>8 DEF RpcNext

LEMMA RpcInvHolds == RpcIInv => OneAnswerEach /\ VerdictIsEarned
<1> SUFFICES ASSUME RpcIInv PROVE OneAnswerEach /\ VerdictIsEarned
  OBVIOUS
<1>1. linesRead \in Seq(RpcLine) /\ AnswersStand(rpcAnswers, linesRead, OpenLines)
  BY DEF RpcIInv, HandStands
<1>2. DOMAIN linesRead = 1..Len(linesRead) /\ Len(linesRead) \in Nat
  BY <1>1
<1>3. Numbers(rpcAnswers) = {n \in DOMAIN linesRead : Answerable(linesRead[n])} \ OpenLines
  BY <1>1, <1>2 DEF AnswersStand
<1>4. ASSUME NEW n \in OpenLines PROVE linesRead[n].id
  <2>1. n = Len(linesRead) /\ rpcPc \notin {"read", "over"}
    BY DEF OpenLines
  <2>2. Len(linesRead) > 0 /\ Handle(linesRead[Len(linesRead)]) \in Executors
    BY <2>1 DEF RpcIInv, HandStands, Executors
  <2>3. linesRead[Len(linesRead)] \in RpcLine
    BY <1>1, <1>2, <2>2
  <2> QED BY <2>1, <2>2, <2>3, HandleWords
<1>5. OneAnswerEach
  BY <1>1, <1>3, <1>4 DEF OneAnswerEach, AnswersStand, Numbers, Ordered
<1>6. ASSUME NEW a \in CheckAnswers PROVE
        /\ DOMAIN a.ran = DOMAIN checksForScope(stringArg(linesRead[a.number].args, "scope"))
        /\ a.exit = 0 <=> \A i \in DOMAIN a.ran : a.ran[i] = "sound"
        /\ a.exit = 1 <=> \E i \in DOMAIN a.ran : a.ran[i] = "failed"
        /\ a.isError <=> a.exit # 0
        /\ \A i, j \in DOMAIN a.ran : i < j /\ a.ran[i] = "skipped" => a.ran[j] = "skipped"
  <2>1. EarnedAnswer(a, linesRead[a.number]) /\ a.kind = "result" /\ Handle(linesRead[a.number]) = "check"
    BY <1>1 DEF CheckAnswers, AnswersStand
  <2> QED BY ONLY <2>1, Zenon DEF EarnedAnswer
<1>7. VerdictIsEarned
  BY <1>6 DEF VerdictIsEarned
<1> QED BY <1>5, <1>7

\* The MCP server answers every request once and in order, a notification
\* never, and the verdict of a self check says what became of its checks,
\* whichever requests arrive and whenever the deadlines pass (Serve, Execute).
THEOREM McpAnswers == RpcSpec => [](OneAnswerEach /\ VerdictIsEarned)
<1>1. RpcInit => RpcIInv
  BY RpcInvInit
<1>2. RpcIInv /\ [RpcNext]_rpcVars => RpcIInv'
  BY RpcInvNext
<1>3. RpcIInv => OneAnswerEach /\ VerdictIsEarned
  BY RpcInvHolds
<1> QED BY <1>1, <1>2, <1>3, PTL DEF RpcSpec

\* Both halves of the self operations together: maintenance runs as planned,
\* and the server answers each request once with a verdict that was earned.
THEOREM OpsSound == OpsSpec /\ RpcSpec => []OpsAreSound
<1>1. OpsSpec => []ApplyIsPlanned
  BY OpsArePlanned
<1>2. RpcSpec => [](OneAnswerEach /\ VerdictIsEarned)
  BY McpAnswers
<1>3. ApplyIsPlanned /\ OneAnswerEach /\ VerdictIsEarned => OpsAreSound
  BY DEF OpsAreSound
<1> QED BY <1>1, <1>2, <1>3, PTL

-----------------------------------------------------------------------------
(***************************************************************************)
(* Trace export                                                            *)
(***************************************************************************)

ExporterRow ==
    [running : BOOLEAN, stopped : BOOLEAN, awaited : SUBSET Span, closed : BOOLEAN, panicked : BOOLEAN]

SenderRow ==
    [pc : {"rest", "starting", "wait", "drain", "send", "backoff", "over"}, all : BOOLEAN,
     batch : Seq(Span), attempt : Nat, canceled : BOOLEAN]

\* A loop that will empty the channel before it ends.
AtWork(row) == row.pc \in {"wait", "drain", "send", "backoff"}

\* A loop ends, and empties the channel, because of Close or its context; a
\* batch is in hand only while it is drained and sent.
SenderStands(row, stopped) ==
    /\ row.pc = "over" => row.all = TRUE
    /\ row.pc \in {"rest", "starting", "wait", "over"} => row.batch = << >>
    /\ row.all = TRUE => stopped = TRUE \/ row.canceled = TRUE

\* While nobody's context is canceled an exporter that runs has its loop, and
\* what a Close waits for has one too.
LoopsStand(ex, rows, queue) ==
    (\A l \in FlushLoop : rows[l].canceled = FALSE) =>
        /\ ex.running = TRUE /\ ex.stopped = FALSE => \E l \in FlushLoop : AtWork(rows[l]) \/ rows[l].pc = "starting"
        /\ ex.stopped = TRUE /\ ex.awaited \cap ToSet(queue) # {} =>
              ex.closed = FALSE /\ \E l \in FlushLoop : AtWork(rows[l])

ExporterStands(ex) == ex.closed = TRUE => ex.stopped = TRUE

\* Where an accepted span is.
SpanStands(o, queue, rows, given, ids) ==
    \/ o \in ToSet(queue) \/ o \in given \/ mapObservation(o).id \in ids
    \/ \E s \in FlushSender : o \in ToSet(rows[s].batch)

ExportIInv ==
    /\ channel \in Seq(Span) /\ exported \subseteq Span /\ turnedAway \subseteq Span
    /\ exporter \in ExporterRow
    /\ sender \in [FlushSender -> SenderRow]
    /\ ToSet(channel) \subseteq exported \ turnedAway
    /\ exporter.awaited \subseteq exported
    /\ \A s \in FlushSender : ToSet(sender[s].batch) \subseteq exported \ turnedAway
    /\ turnedAway \subseteq exported
    /\ \A s \in FlushSender : SenderStands(sender[s], exporter.stopped)
    /\ ExporterStands(exporter)
    /\ LoopsStand(exporter, sender, channel)
    /\ \A o \in exported \ turnedAway : SpanStands(o, channel, sender, givenUp, ReceivedIds)
    /\ TreeIsKept

\* What the elements of a sequence are after a step of the queue.
LEMMA SetOfSeq ==
  /\ ToSet(<< >>) = {}
  /\ \A q \in Seq(Span), o \in Span : ToSet(Append(q, o)) = ToSet(q) \cup {o}
  /\ \A q \in Seq(Span) : q # << >> => /\ Head(q) \in Span /\ Tail(q) \in Seq(Span)
                                       /\ ToSet(q) = ToSet(Tail(q)) \cup {Head(q)}
  /\ \A q \in Seq(Span) : ToSet(q) \subseteq Span
<1>1. ToSet(<< >>) = {}
  BY DEF ToSet
<1>2. ASSUME NEW q \in Seq(Span), NEW o \in Span PROVE ToSet(Append(q, o)) = ToSet(q) \cup {o}
  <2>1. DOMAIN Append(q, o) = 1..(Len(q) + 1) /\ DOMAIN q = 1..Len(q) /\ Len(q) \in Nat
    OBVIOUS
  <2>2. Append(q, o)[Len(q) + 1] = o /\ \A i \in 1..Len(q) : Append(q, o)[i] = q[i]
    OBVIOUS
  <2>3. 1..(Len(q) + 1) = 1..Len(q) \cup {Len(q) + 1}
    BY <2>1
  <2> QED BY <2>1, <2>2, <2>3 DEF ToSet
<1>3. ASSUME NEW q \in Seq(Span), q # << >>
      PROVE  Head(q) \in Span /\ Tail(q) \in Seq(Span) /\ ToSet(q) = ToSet(Tail(q)) \cup {Head(q)}
  <2>1. Head(q) \in Span /\ Tail(q) \in Seq(Span) /\ Head(q) = q[1] /\ Len(q) \in Nat \ {0}
    BY <1>3
  <2>2. DOMAIN Tail(q) = 1..(Len(q) - 1) /\ DOMAIN q = 1..Len(q)
    BY <1>3
  <2>3. \A i \in 1..(Len(q) - 1) : Tail(q)[i] = q[i + 1]
    BY <1>3
  <2>4. ASSUME NEW x \in ToSet(q) PROVE x \in ToSet(Tail(q)) \cup {Head(q)}
    <3>1. PICK i \in 1..Len(q) : x = q[i]
      BY <2>2 DEF ToSet
    <3>2. CASE i # 1
      <4>1. i - 1 \in 1..(Len(q) - 1) /\ (i - 1) + 1 = i
        BY <2>1, <3>2
      <4>2. x = Tail(q)[i - 1]
        BY <2>3, <3>1, <4>1
      <4> QED BY <2>2, <4>1, <4>2 DEF ToSet
    <3> QED BY <2>1, <3>1, <3>2
  <2>5. ToSet(Tail(q)) \subseteq ToSet(q)
    <3>1. \A i \in 1..(Len(q) - 1) : i + 1 \in 1..Len(q)
      BY <2>1
    <3> QED BY <2>2, <2>3, <3>1 DEF ToSet
  <2>6. Head(q) \in ToSet(q)
    BY <2>1, <2>2 DEF ToSet
  <2> QED BY <2>1, <2>4, <2>5, <2>6
<1>4. ASSUME NEW q \in Seq(Span) PROVE ToSet(q) \subseteq Span
  BY DEF ToSet
<1> QED BY <1>1, <1>2, <1>3, <1>4

\* What is sent hangs together.
LEMMA MapKeepsTree ==
  ASSUME NEW o \in Span
  PROVE  /\ mapObservation(o).parent = IF Observation[o].parent = NoSpan THEN << >>
                                       ELSE mapObservation(Observation[o].parent).id
         /\ mapObservation(o).input # << >> \/ mapObservation(o).output # << >> => exportConfig.prompts
<1>1. mapObservation(o).parent = Identifier(Parent(o))
  BY DEF mapObservation
<1>2. mapObservation(Observation[o].parent).id = Identifier(<<Observation[o].parent>>)
  BY DEF mapObservation
<1>3. Observation[o].parent = NoSpan => Identifier(Parent(o)) = << >>
  BY DEF Parent, Identifier, hashString
<1>4. Observation[o].parent # NoSpan => Parent(o) = <<Observation[o].parent>>
  BY DEF Parent
<1>5. mapObservation(o).input # << >> \/ mapObservation(o).output # << >> => exportConfig.prompts
  BY DEF mapObservation
<1> QED BY <1>1, <1>2, <1>3, <1>4, <1>5

LEMMA ExportStart == ExportInit => ExportIInv
<1> SUFFICES ASSUME ExportInit PROVE ExportIInv
  OBVIOUS
<1>1. RestingSender \in SenderRow /\ SenderStands(RestingSender, FALSE) /\ ToSet(RestingSender.batch) = {}
  BY SetOfSeq DEF RestingSender, SenderRow, SenderStands
<1>2. exporter \in ExporterRow /\ ExporterStands(exporter) /\ LoopsStand(exporter, sender, channel)
      /\ exporter.awaited = {} /\ exporter.stopped = FALSE
  BY DEF ExportInit, ExporterRow, ExporterStands, LoopsStand
<1>3. /\ channel \in Seq(Span) /\ exported = {} /\ turnedAway = {} /\ ToSet(channel) = {} /\ received = {}
      /\ sender \in [FlushSender -> SenderRow]
      /\ \A s \in FlushSender : SenderStands(sender[s], FALSE) /\ ToSet(sender[s].batch) = {}
  <2>1. channel = << >> /\ << >> \in Seq(Span) /\ exported = {} /\ turnedAway = {} /\ received = {}
    BY DEF ExportInit
  <2>2. ToSet(channel) = {}
    BY <2>1, SetOfSeq
  <2>3. sender = [s \in FlushSender |-> RestingSender]
    BY DEF ExportInit
  <2> QED BY <1>1, <2>1, <2>2, <2>3
<1> QED BY <1>2, <1>3 DEF ExportIInv, TreeIsKept

\* A step of one sender that keeps what it had somewhere.
SenderMoves(s, new) ==
    /\ sender' = [sender EXCEPT ![s] = new]
    /\ UNCHANGED <<exportConfig, exported, turnedAway, exporter>>
    /\ channel' \in Seq(Span) /\ ToSet(channel') \subseteq ToSet(channel)
    /\ givenUp \subseteq givenUp' /\ received \subseteq received'
    /\ received' \subseteq received \cup {mapObservation(o) : o \in ToSet(sender[s].batch)}
    /\ ToSet(new.batch) \subseteq ToSet(sender[s].batch) \cup ToSet(channel)
    /\ \A o \in ToSet(sender[s].batch) \cup ToSet(channel) :
          \/ o \in ToSet(channel') \/ o \in ToSet(new.batch) \/ o \in givenUp'
          \/ mapObservation(o) \in received'

\* The loop goes on, or ends when there is nothing left.
LoopGoesOn(old, new) ==
    /\ old.canceled = TRUE => new.canceled = TRUE
    /\ old.pc = "starting" => AtWork(new) \/ new.pc = "starting"
    /\ AtWork(old) => AtWork(new) \/ (new.all = TRUE /\ channel = << >>)

LEMMA SenderStep ==
  ASSUME ExportIInv, NEW s \in FlushSender, NEW new \in SenderRow, SenderMoves(s, new),
         SenderStands(new, exporter.stopped), s \in FlushLoop => LoopGoesOn(sender[s], new)
  PROVE  ExportIInv'
<1>1. /\ channel \in Seq(Span) /\ exporter \in ExporterRow /\ sender \in [FlushSender -> SenderRow]
      /\ \A r \in FlushSender : SenderStands(sender[r], exporter.stopped)
      /\ \A r \in FlushSender : ToSet(sender[r].batch) \subseteq exported \ turnedAway
      /\ ToSet(channel) \subseteq exported \ turnedAway /\ exported \subseteq Span
  BY DEF ExportIInv
<1>2. sender' \in [FlushSender -> SenderRow] /\ \A r \in FlushSender : sender'[r] = IF r = s THEN new ELSE sender[r]
  BY <1>1 DEF SenderMoves
<1>3. /\ exported' = exported /\ turnedAway' = turnedAway /\ exporter' = exporter /\ exportConfig' = exportConfig
      /\ channel' \in Seq(Span) /\ ToSet(channel') \subseteq ToSet(channel)
  BY DEF SenderMoves
<1>4. \A r \in FlushSender : /\ ToSet(sender'[r].batch) \subseteq exported \ turnedAway
                             /\ SenderStands(sender'[r], exporter.stopped)
  BY <1>1, <1>2 DEF SenderMoves
<1>5. LoopsStand(exporter, sender', channel')
  <2> SUFFICES ASSUME \A l \in FlushLoop : sender'[l].canceled = FALSE
               PROVE  /\ exporter.running = TRUE /\ exporter.stopped = FALSE =>
                            \E l \in FlushLoop : AtWork(sender'[l]) \/ sender'[l].pc = "starting"
                      /\ exporter.stopped = TRUE /\ exporter.awaited \cap ToSet(channel') # {} =>
                            exporter.closed = FALSE /\ \E l \in FlushLoop : AtWork(sender'[l])
    BY DEF LoopsStand
  <2>0. FlushLoop \subseteq FlushSender
    BY DEF FlushSender
  <2>1. \A l \in FlushLoop : sender[l].canceled = FALSE
    <3>1. \A l \in FlushLoop : sender[l].canceled \in BOOLEAN
      BY <1>1, <2>0 DEF SenderRow
    <3> QED BY <1>2, <2>0, <3>1 DEF LoopGoesOn
  <2>2. LoopsStand(exporter, sender, channel)
    BY DEF ExportIInv
  <2>3. ASSUME NEW l \in FlushLoop, AtWork(sender[l]) PROVE AtWork(sender'[l]) \/ (channel = << >> /\ exporter.stopped = TRUE)
    <3>1. CASE l = s
      BY <1>2, <2>0, <2>3, <3>1 DEF LoopGoesOn, SenderStands
    <3>2. CASE l # s
      BY <1>2, <2>0, <2>3, <3>2
    <3> QED BY <3>1, <3>2
  <2>4. ASSUME NEW l \in FlushLoop, sender[l].pc = "starting" PROVE AtWork(sender'[l]) \/ sender'[l].pc = "starting"
    BY <1>2, <2>0, <2>4 DEF LoopGoesOn
  <2>5. exporter.awaited \cap ToSet(channel') # {} => exporter.awaited \cap ToSet(channel) # {} /\ channel # << >>
    BY <1>3, SetOfSeq
  <2>6. ASSUME exporter.running = TRUE, exporter.stopped = FALSE
        PROVE  \E l \in FlushLoop : AtWork(sender'[l]) \/ sender'[l].pc = "starting"
    <3>1. PICK l \in FlushLoop : AtWork(sender[l]) \/ sender[l].pc = "starting"
      BY <2>1, <2>2, <2>6 DEF LoopsStand
    <3> QED BY <2>3, <2>4, <2>6, <3>1
  <2>7. ASSUME exporter.stopped = TRUE, exporter.awaited \cap ToSet(channel') # {}
        PROVE  exporter.closed = FALSE /\ \E l \in FlushLoop : AtWork(sender'[l])
    <3>1. exporter.closed = FALSE /\ \E l \in FlushLoop : AtWork(sender[l])
      BY <2>1, <2>2, <2>5, <2>7 DEF LoopsStand
    <3>2. PICK l \in FlushLoop : AtWork(sender[l])
      BY <3>1
    <3> QED BY <2>3, <2>5, <2>7, <3>1, <3>2
  <2> QED BY <2>6, <2>7
<1>6. ASSUME NEW o \in exported \ turnedAway PROVE SpanStands(o, channel, sender, givenUp, ReceivedIds)'
  <2>0. mapObservation(o)' = mapObservation(o)
    BY <1>3 DEF mapObservation, Identifier, Parent, hashString
  <2>1. SpanStands(o, channel, sender, givenUp, ReceivedIds)
    BY DEF ExportIInv
  <2>2. ReceivedIds \subseteq ReceivedIds' /\ (mapObservation(o) \in received' => mapObservation(o).id \in ReceivedIds')
    BY DEF ReceivedIds, SenderMoves
  <2>3. CASE o \in ToSet(channel) \cup ToSet(sender[s].batch)
    <3>1. \/ o \in ToSet(channel') \/ o \in ToSet(new.batch) \/ o \in givenUp'
          \/ mapObservation(o) \in received'
      BY <2>3 DEF SenderMoves
    <3> QED BY <1>2, <2>0, <2>2, <3>1 DEF SpanStands
  <2>4. CASE o \notin ToSet(channel) \cup ToSet(sender[s].batch)
    <3>1. o \in givenUp \/ mapObservation(o).id \in ReceivedIds \/ \E r \in FlushSender \ {s} : o \in ToSet(sender[r].batch)
      BY <2>1, <2>4 DEF SpanStands
    <3> QED BY <1>2, <2>0, <2>2, <3>1 DEF SpanStands, SenderMoves
  <2> QED BY <2>3, <2>4
<1>7. TreeIsKept'
  <2>1. \A o \in Span : mapObservation(o)' = mapObservation(o)
    BY <1>3 DEF mapObservation, Identifier, Parent, hashString
  <2>2. \A o \in Span : Observation[o].parent = NoSpan \/ Observation[o].parent \in Span
    BY ExportAssumption
  <2> SUFFICES ASSUME NEW obs \in received'
               PROVE  \E o \in exported \ turnedAway :
                         /\ obs.id = mapObservation(o).id
                         /\ obs.parent = IF Observation[o].parent = NoSpan THEN << >>
                                         ELSE mapObservation(Observation[o].parent).id
                         /\ obs.input # << >> \/ obs.output # << >> => exportConfig.prompts
    BY <1>1, <1>3, <2>1, <2>2 DEF TreeIsKept
  <2>3. CASE obs \in received
    BY <2>3 DEF ExportIInv, TreeIsKept
  <2>4. CASE obs \notin received
    <3>1. PICK o \in ToSet(sender[s].batch) : obs = mapObservation(o)
      BY <2>4 DEF SenderMoves
    <3>2. o \in exported \ turnedAway /\ o \in Span
      BY <1>1, <3>1
    <3> QED BY <3>1, <3>2, MapKeepsTree
  <2> QED BY <2>3, <2>4
<1> QED BY <1>2, <1>3, <1>4, <1>5, <1>6, <1>7 DEF ExportIInv

\* A drain begins with nothing in hand.
LEMMA DrainBegins ==
  ASSUME ExportIInv, NEW s \in FlushSender, NEW all \in BOOLEAN, Drains(s, all), sender[s].pc \in {"rest", "wait"},
         all = TRUE => exporter.stopped = TRUE \/ sender[s].canceled = TRUE,
         UNCHANGED <<exportConfig, channel, exported, turnedAway, exporter, received, givenUp>>
  PROVE  ExportIInv'
<1>1. PICK old \in SenderRow : old = sender[s]
  BY DEF ExportIInv
<1>2. /\ SenderStands(old, exporter.stopped) /\ channel \in Seq(Span) /\ sender \in [FlushSender -> SenderRow]
      /\ old.batch = << >> /\ << >> \in Seq(Span)
  BY <1>1 DEF ExportIInv, SenderStands
<1>3. PICK new : new = [old EXCEPT !.pc = "drain", !.all = all, !.batch = << >>]
  OBVIOUS
<1>4. new = [pc |-> "drain", all |-> all, batch |-> << >>, attempt |-> old.attempt, canceled |-> old.canceled]
  BY <1>3 DEF SenderRow
<1>5. new \in SenderRow
  BY <1>2, <1>4 DEF SenderRow
<1>6. sender' = [sender EXCEPT ![s] = new]
  BY <1>1, <1>3 DEF Drains
<1>7. SenderMoves(s, new)
  BY <1>1, <1>2, <1>4, <1>6 DEF SenderMoves
<1>8. SenderStands(new, exporter.stopped) /\ LoopGoesOn(sender[s], new)
  BY <1>1, <1>2, <1>4 DEF SenderStands, LoopGoesOn, AtWork
<1> QED BY <1>5, <1>7, <1>8, SenderStep

LEMMA WaitStep ==
  ASSUME ExportIInv, NEW l \in FlushLoop, LoopBegins(l) \/ Tick(l) \/ LoopStops(l)
  PROVE  ExportIInv'
<1>1. l \in FlushSender
  BY DEF FlushSender
<1>2. PICK old \in SenderRow : old = sender[l]
  BY <1>1 DEF ExportIInv
<1>3. /\ SenderStands(old, exporter.stopped) /\ channel \in Seq(Span) /\ sender \in [FlushSender -> SenderRow]
      /\ exporter.stopped \in BOOLEAN /\ old.canceled \in BOOLEAN /\ old.all \in BOOLEAN
  BY <1>1, <1>2 DEF ExportIInv, ExporterRow, SenderRow
<1>4. CASE LoopBegins(l)
  <2>1. PICK new : new = [old EXCEPT !.pc = "wait"]
    OBVIOUS
  <2>2. new \in SenderRow /\ new.pc = "wait" /\ new.all = old.all /\ new.batch = old.batch /\ new.canceled = old.canceled
    BY <2>1 DEF SenderRow
  <2>3. SenderMoves(l, new)
    BY <1>2, <1>3, <1>4, <2>1, <2>2 DEF LoopBegins, SenderMoves
  <2>4. SenderStands(new, exporter.stopped) /\ LoopGoesOn(sender[l], new)
    BY <1>2, <1>3, <1>4, <2>2 DEF LoopBegins, SenderStands, LoopGoesOn, AtWork
  <2> QED BY <1>1, <2>2, <2>3, <2>4, SenderStep
<1>5. ASSUME NEW all \in BOOLEAN, Drains(l, all), old.pc = "wait", all = TRUE => exporter.stopped = TRUE \/ old.canceled = TRUE,
             UNCHANGED <<exportConfig, channel, exported, turnedAway, exporter, received, givenUp>>
      PROVE  ExportIInv'
  BY <1>1, <1>2, <1>5, DrainBegins DEF AtWork
<1>6. CASE Tick(l)
  BY <1>2, <1>5, <1>6 DEF Tick
<1>7. CASE LoopStops(l)
  BY <1>2, <1>3, <1>5, <1>7 DEF LoopStops
<1> QED BY <1>4, <1>6, <1>7

LEMMA FlushStep ==
  ASSUME ExportIInv, NEW s \in FlushCaller, Flush(s)
  PROVE  ExportIInv'
<1>1. s \in FlushSender /\ s \notin FlushLoop
  BY ExportAssumption DEF FlushSender
<1> QED BY <1>1, DrainBegins DEF Flush

LEMMA CancelStep ==
  ASSUME ExportIInv, NEW s \in FlushSender, CancelSender(s)
  PROVE  ExportIInv'
<1>2. PICK old \in SenderRow : old = sender[s]
  BY DEF ExportIInv
<1>3. /\ SenderStands(old, exporter.stopped) /\ channel \in Seq(Span) /\ sender \in [FlushSender -> SenderRow]
  BY <1>2 DEF ExportIInv
<1>4. PICK new : new = [old EXCEPT !.canceled = TRUE]
  OBVIOUS
<1>5. new \in SenderRow /\ new.pc = old.pc /\ new.all = old.all /\ new.batch = old.batch /\ new.canceled = TRUE
  BY <1>4 DEF SenderRow
<1>6. SenderMoves(s, new)
  BY <1>2, <1>3, <1>4, <1>5 DEF CancelSender, SenderMoves
<1> QED BY <1>2, <1>3, <1>5, <1>6, SenderStep DEF SenderStands, LoopGoesOn, AtWork

LEMMA DrainStep ==
  ASSUME ExportIInv, NEW s \in FlushSender, DrainOne(s)
  PROVE  ExportIInv'
<1>2. PICK old \in SenderRow : old = sender[s]
  BY DEF ExportIInv
<1>3. /\ SenderStands(old, exporter.stopped) /\ channel \in Seq(Span) /\ sender \in [FlushSender -> SenderRow]
      /\ channel # << >> /\ old.batch \in Seq(Span) /\ old.pc = "drain"
  BY <1>2 DEF ExportIInv, DrainOne, Takes, SenderRow
<1>4. PICK batch : batch = Append(old.batch, Head(channel))
  OBVIOUS
<1>5. /\ batch \in Seq(Span) /\ ToSet(batch) = ToSet(old.batch) \cup {Head(channel)}
      /\ Tail(channel) \in Seq(Span) /\ ToSet(channel) = ToSet(Tail(channel)) \cup {Head(channel)}
  BY <1>3, <1>4, SetOfSeq
<1>6. PICK new : new = [old EXCEPT !.batch = batch]
  OBVIOUS
<1>7. new \in SenderRow /\ new.pc = old.pc /\ new.all = old.all /\ new.batch = batch /\ new.canceled = old.canceled
  BY <1>5, <1>6 DEF SenderRow
<1>8. sender' = [sender EXCEPT ![s] = new] /\ channel' = Tail(channel)
  BY <1>2, <1>3, <1>4, <1>6 DEF DrainOne
<1>9. SenderMoves(s, new)
  BY <1>2, <1>3, <1>5, <1>7, <1>8 DEF DrainOne, SenderMoves
<1> QED BY <1>2, <1>3, <1>7, <1>9, SenderStep DEF SenderStands, LoopGoesOn, AtWork

\* The row of a sender after its batch.
LEMMA AfterBatchRow ==
  ASSUME NEW s \in FlushSender, NEW old \in SenderRow, old = sender[s], old.pc \in {"drain", "send", "backoff"},
         SenderStands(old, exporter.stopped)
  PROVE  /\ AfterBatch(s) \in SenderRow /\ AfterBatch(s).batch = << >> /\ SenderStands(AfterBatch(s), exporter.stopped)
         /\ s \in FlushLoop => LoopGoesOn(old, AfterBatch(s))
<1>0. << >> \in Seq(Span)
  OBVIOUS
<1>1. CASE s \in FlushCaller
  <2>1. s \notin FlushLoop /\ AfterBatch(s) = RestingSender
    BY <1>1, ExportAssumption DEF AfterBatch
  <2> QED BY <1>0, <2>1 DEF RestingSender, SenderRow, SenderStands
<1>2. CASE s \notin FlushCaller
  <2>1. PICK pc \in {"drain", "wait"} : pc = IF old.all THEN "drain" ELSE "wait"
    OBVIOUS
  <2>2. AfterBatch(s) = [old EXCEPT !.pc = pc, !.batch = << >>]
    BY <1>2, <2>1 DEF AfterBatch
  <2>3. PICK new : new = AfterBatch(s)
    OBVIOUS
  <2>4. new = [pc |-> pc, all |-> old.all, batch |-> << >>, attempt |-> old.attempt, canceled |-> old.canceled]
    BY <2>2, <2>3 DEF SenderRow
  <2>5. new \in SenderRow
    BY <1>0, <2>1, <2>4 DEF SenderRow
  <2>6. SenderStands(new, exporter.stopped) /\ LoopGoesOn(old, new)
    BY <2>1, <2>4 DEF SenderStands, LoopGoesOn, AtWork
  <2> QED BY <2>3, <2>4, <2>5, <2>6
<1> QED BY <1>1, <1>2

LEMMA ReadyStep ==
  ASSUME ExportIInv, NEW s \in FlushSender, BatchReady(s)
  PROVE  ExportIInv'
<1>1. PICK old \in SenderRow : old = sender[s]
  BY DEF ExportIInv
<1>2. /\ SenderStands(old, exporter.stopped) /\ channel \in Seq(Span) /\ sender \in [FlushSender -> SenderRow]
      /\ old.pc = "drain" /\ old.batch \in Seq(Span) /\ old.all \in BOOLEAN
      /\ UNCHANGED <<exportConfig, exported, turnedAway, exporter, channel, received>>
  BY <1>1 DEF ExportIInv, BatchReady, SenderRow
<1>3. /\ AfterBatch(s) \in SenderRow /\ AfterBatch(s).batch = << >> /\ SenderStands(AfterBatch(s), exporter.stopped)
      /\ s \in FlushLoop => LoopGoesOn(old, AfterBatch(s))
  BY <1>1, <1>2, AfterBatchRow
<1>4. ToSet(<< >>) = {}
  BY SetOfSeq
<1>5. CASE old.batch = << >> /\ old.all = TRUE
  <2>1. channel = << >>
    <3>1. Len(old.batch) = 0 /\ BatchSize \in Nat \ {0}
      BY <1>5, ExportAssumption
    <3> QED BY <1>1, <3>1 DEF BatchReady, Takes
  <2>2. PICK new : new = [old EXCEPT !.pc = "over"]
    OBVIOUS
  <2>3. new \in SenderRow /\ new.pc = "over" /\ new.all = TRUE /\ new.batch = << >> /\ new.canceled = old.canceled
    BY <1>5, <2>2 DEF SenderRow
  <2>4. sender' = [sender EXCEPT ![s] = new] /\ givenUp' = givenUp
    BY <1>1, <1>5, <2>2 DEF BatchReady
  <2>5. SenderMoves(s, new)
    BY <1>1, <1>2, <1>5, <2>3, <2>4 DEF SenderMoves
  <2>6. SenderStands(new, exporter.stopped) /\ LoopGoesOn(sender[s], new)
    BY <1>1, <1>2, <1>5, <2>1, <2>3 DEF SenderStands, LoopGoesOn, AtWork
  <2> QED BY <2>3, <2>5, <2>6, SenderStep
<1>6. CASE old.batch = << >> /\ old.all = FALSE
  <2>1. sender' = [sender EXCEPT ![s] = AfterBatch(s)] /\ givenUp' = givenUp
    BY <1>1, <1>6 DEF BatchReady
  <2>2. SenderMoves(s, AfterBatch(s))
    BY <1>1, <1>2, <1>3, <1>6, <2>1 DEF SenderMoves
  <2> QED BY <1>1, <1>3, <2>2, SenderStep
<1>7. CASE old.batch # << >> /\ givenUp' = givenUp /\ sender' = [sender EXCEPT ![s] = [old EXCEPT !.pc = "send", !.attempt = 1]]
  <2>1. PICK new : new = [old EXCEPT !.pc = "send", !.attempt = 1]
    OBVIOUS
  <2>2. new \in SenderRow /\ new.pc = "send" /\ new.all = old.all /\ new.batch = old.batch /\ new.canceled = old.canceled
    BY <2>1 DEF SenderRow
  <2>3. SenderMoves(s, new)
    BY <1>1, <1>2, <1>7, <2>1, <2>2 DEF SenderMoves
  <2>4. SenderStands(new, exporter.stopped) /\ LoopGoesOn(sender[s], new)
    BY <1>1, <1>2, <2>2 DEF SenderStands, LoopGoesOn, AtWork
  <2> QED BY <2>2, <2>3, <2>4, SenderStep
<1>8. CASE sender' = [sender EXCEPT ![s] = AfterBatch(s)] /\ GivesUp(s)
  <2>1. SenderMoves(s, AfterBatch(s))
    BY <1>1, <1>2, <1>3, <1>4, <1>8 DEF SenderMoves, GivesUp
  <2> QED BY <1>1, <1>3, <2>1, SenderStep
<1>9. CASE old.batch # << >>
  BY <1>1, <1>7, <1>8, <1>9 DEF BatchReady
<1> QED BY <1>2, <1>5, <1>6, <1>9

LEMMA SendStep ==
  ASSUME ExportIInv, NEW s \in FlushSender, SendRequest(s) \/ SendBackoff(s)
  PROVE  ExportIInv'
<1>1. PICK old \in SenderRow : old = sender[s]
  BY DEF ExportIInv
<1>2. /\ SenderStands(old, exporter.stopped) /\ channel \in Seq(Span) /\ sender \in [FlushSender -> SenderRow]
      /\ old.pc \in {"send", "backoff"} /\ old.batch \in Seq(Span) /\ old.attempt \in Nat
      /\ UNCHANGED <<exportConfig, exported, turnedAway, exporter, channel>>
  BY <1>1 DEF ExportIInv, SendRequest, SendBackoff, SenderRow
<1>3. /\ AfterBatch(s) \in SenderRow /\ AfterBatch(s).batch = << >> /\ SenderStands(AfterBatch(s), exporter.stopped)
      /\ s \in FlushLoop => LoopGoesOn(old, AfterBatch(s))
  BY <1>1, <1>2, AfterBatchRow
<1>4. ToSet(<< >>) = {}
  BY SetOfSeq
<1>5. received \subseteq Delivered(s) /\ Delivered(s) \subseteq received \cup {mapObservation(o) : o \in ToSet(old.batch)}
  BY <1>1 DEF Delivered
<1>6. CASE received' = Delivered(s) /\ givenUp' = givenUp /\ sender' = [sender EXCEPT ![s] = AfterBatch(s)]
  <2>1. SenderMoves(s, AfterBatch(s))
    BY <1>1, <1>2, <1>3, <1>4, <1>6 DEF SenderMoves, Delivered
  <2> QED BY <1>1, <1>3, <2>1, SenderStep
<1>7. CASE received' \in {received, Delivered(s)} /\ GivesUp(s) /\ sender' = [sender EXCEPT ![s] = AfterBatch(s)]
  <2>1. SenderMoves(s, AfterBatch(s))
    BY <1>1, <1>2, <1>3, <1>4, <1>5, <1>7 DEF SenderMoves, GivesUp
  <2> QED BY <1>1, <1>3, <2>1, SenderStep
<1>8. ASSUME NEW new \in SenderRow, sender' = [sender EXCEPT ![s] = new], new.pc \in {"backoff", "send"},
             new.all = old.all, new.batch = old.batch, new.canceled = old.canceled,
             received' \in {received, Delivered(s)}, givenUp' = givenUp
      PROVE  ExportIInv'
  <2>1. SenderMoves(s, new)
    BY <1>1, <1>2, <1>5, <1>8 DEF SenderMoves
  <2>2. SenderStands(new, exporter.stopped) /\ LoopGoesOn(sender[s], new)
    BY <1>1, <1>2, <1>8 DEF SenderStands, LoopGoesOn, AtWork
  <2> QED BY <1>8, <2>1, <2>2, SenderStep
<1>9. CASE received' \in {received, Delivered(s)} /\ givenUp' = givenUp /\ sender' = [sender EXCEPT ![s].pc = "backoff"]
  <2>1. PICK new : new = [old EXCEPT !.pc = "backoff"]
    OBVIOUS
  <2>2. new \in SenderRow /\ new.pc = "backoff" /\ new.all = old.all /\ new.batch = old.batch /\ new.canceled = old.canceled
    BY <2>1 DEF SenderRow
  <2>3. sender' = [sender EXCEPT ![s] = new]
    BY <1>1, <1>2, <1>9, <2>1
  <2> QED BY <1>8, <1>9, <2>2, <2>3
<1>10. CASE received' = received /\ givenUp' = givenUp
            /\ sender' = [sender EXCEPT ![s] = [old EXCEPT !.pc = "send", !.attempt = old.attempt + 1]]
  <2>1. PICK new : new = [old EXCEPT !.pc = "send", !.attempt = old.attempt + 1]
    OBVIOUS
  <2>2. new \in SenderRow /\ new.pc = "send" /\ new.all = old.all /\ new.batch = old.batch /\ new.canceled = old.canceled
    <3>1. PICK n \in Nat : n = old.attempt + 1
      BY <1>2
    <3>2. new = [old EXCEPT !.pc = "send", !.attempt = n]
      BY <2>1, <3>1
    <3> QED BY <3>2 DEF SenderRow
  <2> QED BY <1>8, <1>10, <2>1, <2>2
<1>11. CASE SendRequest(s)
  BY <1>6, <1>7, <1>9, <1>11 DEF SendRequest
<1>12. CASE SendBackoff(s)
  <2>1. received' = received
    BY <1>12 DEF SendBackoff
  <2>2. CASE sender' = [sender EXCEPT ![s] = [@ EXCEPT !.pc = "send", !.attempt = sender[s].attempt + 1]] /\ givenUp' = givenUp
    <3>1. sender' = [sender EXCEPT ![s] = [old EXCEPT !.pc = "send", !.attempt = old.attempt + 1]]
      BY <1>1, <1>2, <2>2
    <3> QED BY <1>10, <2>1, <2>2, <3>1
  <2>3. CASE sender' = [sender EXCEPT ![s] = AfterBatch(s)] /\ GivesUp(s)
    BY <1>7, <2>1, <2>3
  <2> QED BY <1>12, <2>2, <2>3 DEF SendBackoff
<1> QED BY <1>11, <1>12

LEMMA AcceptStep ==
  ASSUME ExportIInv, NEW o \in Span, Export(o)
  PROVE  ExportIInv'
<1>1. /\ channel \in Seq(Span) /\ exporter' = exporter /\ sender' = sender /\ exported' = exported \cup {o}
      /\ exportConfig' = exportConfig /\ received' = received /\ givenUp' = givenUp /\ o \notin exported
      /\ exporter.awaited \subseteq exported
  BY DEF Export, ExportIInv
<1>2. \/ channel' = Append(channel, o) /\ turnedAway' = turnedAway
      \/ channel' = channel /\ turnedAway' = turnedAway \cup {o}
  BY DEF Export
<1>3. /\ channel' \in Seq(Span) /\ ToSet(channel) \subseteq ToSet(channel') /\ ToSet(channel') \subseteq ToSet(channel) \cup {o}
      /\ o \in turnedAway' \/ o \in ToSet(channel')
  <2>1. ToSet(Append(channel, o)) = ToSet(channel) \cup {o} /\ Append(channel, o) \in Seq(Span)
    BY <1>1, SetOfSeq
  <2> QED BY <1>1, <1>2, <2>1
<1>4. exported' \ turnedAway' \subseteq (exported \ turnedAway) \cup {o} /\ exported \ turnedAway \subseteq exported' \ turnedAway'
  BY <1>1, <1>2
<1>5. ToSet(channel') \subseteq exported' \ turnedAway' /\ turnedAway' \subseteq exported' /\ turnedAway' \subseteq Span
  BY <1>1, <1>2, <1>3, SetOfSeq DEF ExportIInv
<1>6. LoopsStand(exporter, sender, channel)'
  <2>1. LoopsStand(exporter, sender, channel)
    BY DEF ExportIInv
  <2>2. exporter.awaited \cap ToSet(channel') = exporter.awaited \cap ToSet(channel)
    BY <1>1, <1>3
  <2> QED BY <1>1, <2>1, <2>2 DEF LoopsStand, AtWork
<1>7. ASSUME NEW p \in (exported \ turnedAway)' PROVE SpanStands(p, channel, sender, givenUp, ReceivedIds)'
  <2>1. mapObservation(p)' = mapObservation(p) /\ ReceivedIds' = ReceivedIds
    BY <1>1 DEF mapObservation, Identifier, Parent, hashString, ReceivedIds
  <2>2. CASE p = o
    BY <1>3, <2>2, <1>7 DEF SpanStands
  <2>3. CASE p # o
    <3>1. SpanStands(p, channel, sender, givenUp, ReceivedIds)
      BY <1>4, <1>7, <2>3 DEF ExportIInv
    <3> QED BY <1>1, <1>3, <2>1, <3>1 DEF SpanStands
  <2> QED BY <2>2, <2>3
<1>8. TreeIsKept'
  <2>1. \A p \in Span : mapObservation(p)' = mapObservation(p)
    BY <1>1 DEF mapObservation, Identifier, Parent, hashString
  <2>2. \A p \in Span : Observation[p].parent = NoSpan \/ Observation[p].parent \in Span
    BY ExportAssumption
  <2>3. exported \subseteq Span /\ exported' \subseteq Span
    BY <1>1 DEF ExportIInv
  <2>4. TreeIsKept
    BY DEF ExportIInv
  <2> QED BY <1>1, <1>4, <2>1, <2>2, <2>3, <2>4 DEF TreeIsKept
<1>9. \A s \in FlushSender : ToSet(sender[s].batch) \subseteq exported' \ turnedAway'
  BY <1>4 DEF ExportIInv
<1> QED BY <1>1, <1>3, <1>5, <1>6, <1>7, <1>8, <1>9 DEF ExportIInv

\* A step of the exporter that leaves queue and spans alone.
LEMMA ExporterStep ==
  ASSUME ExportIInv, UNCHANGED <<exportConfig, channel, exported, turnedAway, received, givenUp>>,
         exporter' \in ExporterRow, exporter'.awaited \subseteq exported, ExporterStands(exporter'),
         sender' \in [FlushSender -> SenderRow],
         \A s \in FlushSender : SenderStands(sender'[s], exporter'.stopped) /\ sender'[s].batch = sender[s].batch,
         LoopsStand(exporter', sender', channel)
  PROVE  ExportIInv'
<1>1. \A o \in Span : mapObservation(o)' = mapObservation(o)
  BY DEF mapObservation, Identifier, Parent, hashString
<1>2. \A o \in Span : Observation[o].parent = NoSpan \/ Observation[o].parent \in Span
  BY ExportAssumption
<1>3. TreeIsKept'
  <2>1. TreeIsKept /\ exported \subseteq Span
    BY DEF ExportIInv
  <2> QED BY <1>1, <1>2, <2>1 DEF TreeIsKept
<1>4. ReceivedIds' = ReceivedIds
  BY DEF ReceivedIds
<1>5. ASSUME NEW o \in (exported \ turnedAway)' PROVE SpanStands(o, channel, sender, givenUp, ReceivedIds)'
  <2>1. SpanStands(o, channel, sender, givenUp, ReceivedIds) /\ o \in Span
    BY <1>5 DEF ExportIInv
  <2> QED BY <1>1, <1>4, <2>1 DEF SpanStands
<1> QED BY <1>3, <1>5 DEF ExportIInv

LEMMA OpenStep ==
  ASSUME ExportIInv, ~exporter.panicked, Close \/ CloseReturns \/ \E l \in FlushLoop : Start(l)
  PROVE  ExportIInv'
<1>1. PICK ex \in ExporterRow : ex = exporter
  BY DEF ExportIInv
<1>2. /\ channel \in Seq(Span) /\ sender \in [FlushSender -> SenderRow] /\ ExporterStands(ex)
      /\ LoopsStand(ex, sender, channel) /\ ex.awaited \subseteq exported /\ ToSet(channel) \subseteq exported
      /\ \A s \in FlushSender : SenderStands(sender[s], ex.stopped)
      /\ ToSet(channel) \subseteq Span
      /\ ex.running \in BOOLEAN /\ ex.stopped \in BOOLEAN /\ ex.closed \in BOOLEAN
  BY <1>1, SetOfSeq DEF ExportIInv, ExporterRow
<1>3. FlushLoop \subseteq FlushSender
  BY DEF FlushSender
<1>4. CASE \E l \in FlushLoop : Start(l)
  <2>1. PICK l \in FlushLoop : Start(l)
    BY <1>4
  <2>2. PICK next : next = [ex EXCEPT !.running = TRUE]
    OBVIOUS
  <2>3. /\ next \in ExporterRow /\ next.stopped = ex.stopped /\ next.awaited = ex.awaited /\ next.closed = ex.closed
        /\ exporter' = next
    BY <1>1, <2>1, <2>2 DEF ExporterRow, Start
  <2>4. PICK old \in SenderRow : old = sender[l]
    BY <1>2, <1>3
  <2>5. PICK new : new = [old EXCEPT !.pc = "starting"]
    OBVIOUS
  <2>6. /\ new \in SenderRow /\ new.pc = "starting" /\ new.all = old.all /\ new.batch = old.batch /\ new.canceled = old.canceled
        /\ old.pc = "rest"
    BY <2>1, <2>4, <2>5 DEF SenderRow, Start
  <2>7. sender' \in [FlushSender -> SenderRow] /\ \A s \in FlushSender : sender'[s] = IF s = l THEN new ELSE sender[s]
    BY <1>2, <1>3, <2>1, <2>4, <2>5, <2>6 DEF Start
  <2>8. \A s \in FlushSender : SenderStands(sender'[s], ex.stopped) /\ sender'[s].batch = sender[s].batch
    BY <1>2, <2>4, <2>6, <2>7 DEF SenderStands
  <2>9. LoopsStand(next, sender', channel)
    BY <1>2, <1>3, <2>3, <2>4, <2>6, <2>7 DEF LoopsStand, AtWork
  <2> QED BY <1>2, <2>1, <2>3, <2>7, <2>8, <2>9, ExporterStep DEF Start, ExporterStands
<1>5. CASE CloseReturns
  <2>1. PICK next : next = [ex EXCEPT !.closed = TRUE]
    OBVIOUS
  <2>2. /\ next \in ExporterRow /\ next.stopped = ex.stopped /\ next.awaited = ex.awaited /\ next.running = ex.running
        /\ exporter' = next /\ ex.stopped = TRUE
    BY <1>1, <1>2, <1>5, <2>1 DEF ExporterRow, CloseReturns
  <2>3. \A l \in FlushLoop : ~AtWork(sender[l])
    BY <1>5 DEF CloseReturns, AtWork
  <2>4. LoopsStand(next, sender, channel)
    BY <1>2, <2>2, <2>3 DEF LoopsStand
  <2>5. sender' = sender /\ UNCHANGED <<exportConfig, channel, exported, turnedAway, received, givenUp>>
    BY <1>5 DEF CloseReturns
  <2> QED BY <1>2, <2>2, <2>4, <2>5, ExporterStep DEF ExporterStands
<1>6. CASE Close /\ ex.stopped = TRUE
  <2>1. PICK next : next = [ex EXCEPT !.running = FALSE, !.panicked = TRUE]
    OBVIOUS
  <2>2. /\ next \in ExporterRow /\ next.stopped = ex.stopped /\ next.awaited = ex.awaited /\ next.closed = ex.closed
        /\ exporter' = next
    BY <1>1, <1>6, <2>1 DEF ExporterRow, Close
  <2>3. LoopsStand(next, sender, channel)
    BY <1>2, <1>6, <2>2 DEF LoopsStand
  <2>4. sender' = sender /\ UNCHANGED <<exportConfig, channel, exported, turnedAway, received, givenUp>>
    BY <1>6 DEF Close
  <2> QED BY <1>2, <2>2, <2>3, <2>4, ExporterStep DEF ExporterStands
<1>7. CASE Close /\ ex.stopped = FALSE
  <2>0. PICK awaited \in SUBSET Span : awaited = Awaited
    BY <1>2 DEF Awaited
  <2>1. PICK next : next = [ex EXCEPT !.running = FALSE, !.stopped = TRUE, !.awaited = awaited]
    OBVIOUS
  <2>2. next = [running |-> FALSE, stopped |-> TRUE, awaited |-> awaited, closed |-> ex.closed, panicked |-> ex.panicked]
    BY <2>1 DEF ExporterRow
  <2>3. next \in ExporterRow /\ ex.closed = FALSE /\ ex.running = TRUE
    BY <1>1, <1>2, <1>7, <2>2 DEF ExporterRow, ExporterStands, Close
  <2>4. exporter' = next
    BY <1>1, <1>7, <2>0, <2>1 DEF Close
  <2>5. awaited \subseteq exported
    BY <1>2, <2>0 DEF Awaited
  <2>6. LoopsStand(next, sender, channel)
    <3>1. awaited # {} => ~\E l \in FlushLoop : sender[l].pc = "starting"
      BY <2>0 DEF Awaited
    <3> QED BY <1>2, <1>7, <2>2, <2>3, <3>1 DEF LoopsStand
  <2>7. \A s \in FlushSender : SenderStands(sender[s], TRUE)
    BY <1>2 DEF SenderStands
  <2>8. sender' = sender /\ UNCHANGED <<exportConfig, channel, exported, turnedAway, received, givenUp>>
    BY <1>7 DEF Close
  <2> QED BY <1>2, <2>2, <2>3, <2>4, <2>5, <2>6, <2>7, <2>8, ExporterStep DEF ExporterStands
<1> QED BY <1>2, <1>4, <1>5, <1>6, <1>7

\* Whoever drains, sends, cancels, closes and starts again: until Close returns
\* every accepted observation is queued, in hand, stored or given up, what
\* Close waits for is drained, and what arrives hangs together, for any number
\* of spans, loops and callers (langfuseExporter).
THEOREM ExportsAccounted == ExportSpec => []ExportIsAccounted
<1>1. ExportIInv /\ [ExportNext]_exportVars => ExportIInv'
  <2> SUFFICES ASSUME ExportIInv, [ExportNext]_exportVars PROVE ExportIInv'
    OBVIOUS
  <2>1. CASE ExportNext
    BY <2>1, AcceptStep, OpenStep, WaitStep, FlushStep, CancelStep, DrainStep, ReadyStep, SendStep DEF ExportNext
  <2>2. CASE UNCHANGED exportVars
    <3>1. /\ sender' = sender /\ exporter' = exporter
          /\ UNCHANGED <<exportConfig, channel, exported, turnedAway, received, givenUp>>
      BY <2>2 DEF exportVars
    <3> QED BY <3>1, ExporterStep DEF ExportIInv
  <2> QED BY <2>1, <2>2
<1>2. ExportIInv => ExportIsAccounted
  <2> SUFFICES ASSUME ExportIInv PROVE ExportIsAccounted
    OBVIOUS
  <2>1. ClosedIsDrained
    <3> SUFFICES ASSUME exporter.closed, \A l \in FlushLoop : ~sender[l].canceled
                 PROVE  exporter.awaited \cap ToSet(channel) = {}
      BY DEF ClosedIsDrained
    <3>1. exporter.closed = TRUE /\ \A l \in FlushLoop : sender[l].canceled = FALSE
      <4>1. exporter.closed \in BOOLEAN /\ \A l \in FlushLoop : sender[l].canceled \in BOOLEAN
        BY DEF ExportIInv, ExporterRow, SenderRow, FlushSender
      <4> QED BY <4>1
    <3> QED BY <3>1 DEF ExportIInv, ExporterStands, LoopsStand
  <2>2. NothingVanishes
    BY DEF NothingVanishes, ExportIInv, SpanStands, InBatch
  <2> QED BY <2>1, <2>2 DEF ExportIsAccounted, ExportIInv
<1> QED BY <1>1, <1>2, ExportStart, PTL DEF ExportSpec
=============================================================================
