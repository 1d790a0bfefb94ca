-------------------------- MODULE ExecutionBudget --------------------------
(* Execution budgets (internal/execution/controller.go and                  *)
(* internal/http/execution_middleware.go): a request of a limited class     *)
(* takes a slot or is refused at once, works under a deadline, and gives    *)
(* the slot back when its handler returns.  The deadline only cancels the   *)
(* context: the handler decides when it returns, and a response it wrote    *)
(* before is replaced by 504.                                               *)
EXTENDS Integers, FiniteSets

CONSTANTS Request, Operation, Concurrency, Timeout

ASSUME BudgetAssumption == Concurrency \in [Operation -> Nat] /\ Timeout \in [Operation -> Nat]

VARIABLES
    slots,    \* [Operation -> the slots taken]
    request   \* [Request -> its class, state and deadline]

budgetVars == <<slots, request>>

NewRequest == [state |-> "new", op |-> "none", slot |-> FALSE, late |-> FALSE, status |-> 0]

BudgetInit ==
    /\ slots = [o \in Operation |-> 0]
    /\ request = [r \in Request |-> NewRequest]

\* No budget, no concurrency or no timeout: admitted without a slot.
Unlimited(op) == op = "none" \/ Concurrency[op] = 0 \/ Timeout[op] = 0

HasSlot(op) == slots[op] < Concurrency[op]

\* Start: `op` is the class of the route, none for reads.
Admit(r, op) ==
    /\ request[r].state = "new"
    /\ IF Unlimited(op)
       THEN /\ request' = [request EXCEPT ![r] = [NewRequest EXCEPT !.state = "running", !.op = op]]
            /\ UNCHANGED slots
       ELSE IF HasSlot(op)
       THEN /\ request' = [request EXCEPT ![r] = [NewRequest EXCEPT !.state = "running", !.op = op, !.slot = TRUE]]
            /\ slots' = [slots EXCEPT ![op] = @ + 1]
       ELSE /\ request' = [request EXCEPT ![r] = [NewRequest EXCEPT !.state = "done", !.op = op, !.status = 429]]
            /\ UNCHANGED slots

DeadlinePasses(r) ==
    /\ request[r].state = "running" /\ request[r].slot /\ ~request[r].late
    /\ request' = [request EXCEPT ![r].late = TRUE]
    /\ UNCHANGED slots

\* Mutant: the deadline path returns without the deferred release.
ReleasesInTime(r) == IF request[r].slot /\ ~request[r].late THEN 1 ELSE 0

\* defer release(): on every way out.
Releases(r) == IF request[r].slot THEN 1 ELSE 0

\* The handler returns with some status, or panics: the slot is given back.
Return(r, status) ==
    LET op == request[r].op
    IN  /\ request[r].state = "running"
        /\ request' = [request EXCEPT ![r] =
                         [@ EXCEPT !.state = "done", !.slot = FALSE,
                                   !.status = IF request[r].late THEN 504 ELSE status]]
        /\ slots' = IF Unlimited(op) THEN slots ELSE [slots EXCEPT ![op] = @ - Releases(r)]

\* The client sends another request.
Again(r) ==
    /\ request[r].state = "done"
    /\ request' = [request EXCEPT ![r] = NewRequest]
    /\ UNCHANGED slots

BudgetNext ==
    \E r \in Request :
      \/ \E op \in Operation \cup {"none"} : Admit(r, op)
      \/ DeadlinePasses(r) \/ Again(r)
      \/ \E status \in {200, 500} : Return(r, status)

BudgetSpec == BudgetInit /\ [][BudgetNext]_budgetVars

-----------------------------------------------------------------------------

\* The slots taken are those of the requests at work: none is lost when a
\* handler fails, panics or overruns its deadline, and no class ever has
\* more requests at work than its budget.
SlotsAreHeld ==
    \A o \in Operation :
      /\ slots[o] = Cardinality({r \in Request : request[r].slot /\ request[r].op = o})
      /\ slots[o] <= Concurrency[o]
=============================================================================
