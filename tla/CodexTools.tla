------------------------------ MODULE CodexTools ------------------------------
(***************************************************************************)
(* The read-only tools of the analysis: concurrent calls against a budget  *)
(* of steps per session and of calls per tenant and second.                *)
(*                                                                         *)
(* Execute reads the clock first and takes the registry's lock twice, once *)
(* for the second's window and once for the step, so calls may reserve in  *)
(* an order different from that of their clocks.                           *)
(***************************************************************************)
EXTENDS Integers, FiniteSets

CONSTANTS
    ToolCall,         \* calls in flight
    Session,          \* sessions (or tenant and base, for a call without one)
    MaxSteps,         \* steps of a session
    MaxQPSPerTenant,  \* calls of the tenant in a second
    MaxSecond         \* bound of the model: the clock

ASSUME ToolsAssumption == MaxSteps \in Nat \ {0} /\ MaxQPSPerTenant \in Nat \ {0} /\ MaxSecond \in Nat

VARIABLES
    second,     \* the clock, in seconds
    qps,        \* the tenant's window
    steps,      \* steps reserved by each session
    toolCall,   \* calls in flight
    granted,    \* history: calls that passed the window, by the second they read, until the first reordering
    executedBy, \* history: calls that reached a tool, by session
    reordered   \* history: a call reserved with an older clock than the window's

toolVars == <<second, qps, steps, toolCall, granted, executedBy, reordered>>

NoCall == [step |-> "idle"]

ToolsInit ==
    /\ second = 0
    /\ qps = [second |-> 0, count |-> 0]
    /\ steps = [s \in Session |-> 0]
    /\ toolCall = [c \in ToolCall |-> NoCall]
    /\ granted = [n \in 0..MaxSecond |-> 0]
    /\ executedBy = [s \in Session |-> 0]
    /\ reordered = FALSE

Answered(c) == toolCall' = [toolCall EXCEPT ![c] = NoCall]

ClockTicks ==
    /\ second < MaxSecond
    /\ second' = second + 1
    /\ UNCHANGED <<qps, steps, toolCall, granted, executedBy, reordered>>

\* Execute reads the clock; a tool that is not in the read-only list is
\* refused and audited without a reservation.
BeginCall(c, s) ==
    /\ toolCall[c].step = "idle"
    /\ toolCall' = [toolCall EXCEPT ![c] = [step |-> "qps", session |-> s, started |-> second]]
    /\ UNCHANGED <<second, qps, steps, granted, executedBy, reordered>>

WindowFull(w) == w.count >= MaxQPSPerTenant

\* The window of the call's second: a new one whenever the seconds differ.
windowAt(n) == IF qps.second = n THEN qps ELSE [second |-> n, count |-> 0]

reserveTenantQPS(c) ==
    LET n == toolCall[c].started
        w == windowAt(n)
    IN  /\ toolCall[c].step = "qps"
        /\ reordered' = (reordered \/ n < qps.second)
        /\ IF WindowFull(w)
           THEN /\ qps' = w
                /\ Answered(c)
                /\ UNCHANGED granted
           ELSE /\ qps' = [w EXCEPT !.count = @ + 1]
                /\ granted' = IF reordered' THEN granted ELSE [granted EXCEPT ![n] = @ + 1]
                /\ toolCall' = [toolCall EXCEPT ![c].step = "step"]
        /\ UNCHANGED <<second, steps, executedBy>>

\* Mutant: the budget is compared before the step is counted.
OverBudgetLate(next) == next - 1 > MaxSteps

OverBudget(next) == next > MaxSteps

\* A refused step has used its place in the second's window.
reserveStep(c) ==
    LET s == toolCall[c].session
    IN  /\ toolCall[c].step = "step"
        /\ IF OverBudget(steps[s] + 1)
           THEN Answered(c) /\ UNCHANGED steps
           ELSE /\ steps' = [steps EXCEPT ![s] = @ + 1]
                /\ toolCall' = [toolCall EXCEPT ![c].step = "tool"]
        /\ UNCHANGED <<second, qps, granted, executedBy, reordered>>

\* The row limit or the timeout refuses the call, which keeps its step, or the
\* tool runs and returns rows or an error.
RunTool(c, refused) ==
    /\ toolCall[c].step = "tool"
    /\ executedBy' = IF refused THEN executedBy
                     ELSE [executedBy EXCEPT ![toolCall[c].session] = @ + 1]
    /\ Answered(c)
    /\ UNCHANGED <<second, qps, steps, granted, reordered>>

ToolsNext ==
    \/ ClockTicks
    \/ \E c \in ToolCall :
         \/ \E s \in Session : BeginCall(c, s)
         \/ reserveTenantQPS(c) \/ reserveStep(c)
         \/ \E refused \in BOOLEAN : RunTool(c, refused)

ToolsSpec == ToolsInit /\ [][ToolsNext]_toolVars

-----------------------------------------------------------------------------

\* Concurrent calls of a session never run more tools than its step budget.
StepBudget == \A s \in Session : executedBy[s] <= MaxSteps

\* A tenant gets at most its calls per second, as long as no call reserves
\* with an older clock than the window's: then the window starts again, and
\* the second that was full accepts calls once more.
CallsPerSecond == ~reordered => \A n \in 0..MaxSecond : granted[n] <= MaxQPSPerTenant

\* Concurrent calls that read the clock and take the lock in different orders: the
\* step budget always holds, the limit per second until a call with an older second
\* resets the window (Execute, reserveTenantQPS).
LimitsHold == StepBudget /\ CallsPerSecond
=============================================================================
