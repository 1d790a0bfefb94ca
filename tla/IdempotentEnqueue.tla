-------------------------- MODULE IdempotentEnqueue --------------------------
(***************************************************************************)
(* Enqueue with an idempotency key, statement by statement: concurrent     *)
(* callers, callers that repeat a request whose answer they did not get,   *)
(* and the unique index on (tenant_id, idempotency_key).                   *)
(***************************************************************************)
EXTENDS Integers, FiniteSets

CONSTANTS
    Caller,    \* concurrent requests
    Key,       \* (tenant_id, idempotency_key) pairs
    MaxTasks,  \* bound of the model: task ids drawn
    MaxFaults  \* bound of the model: storage errors and lost processes

VARIABLES
    stored,   \* the committed tasks: a set of [id, key]
    call,     \* the Enqueue call of each caller
    answers,  \* history: what each finished call answered for its key
    drawn,    \* task ids drawn so far
    faults    \* storage errors so far

enqueueVars == <<stored, call, answers, drawn, faults>>

NoTask == 0

Idle(k) == [step |-> "idle", key |-> k, id |-> NoTask]

EnqueueInit == /\ stored = {}
               /\ call \in [Caller -> {Idle(k) : k \in Key}]
               /\ answers = {}
               /\ drawn = 0
               /\ faults = 0

-----------------------------------------------------------------------------

\* The committed task of a key, if any.
Existing(k) == {x \in stored : x.key = k}

\* An open transaction of another caller has inserted the key.
Pending(c) == \E d \in Caller \ {c} : call[d].step = "inserted" /\ call[d].key = call[c].key

Moved(c, step) == call' = [call EXCEPT ![c].step = step]

Answer(c, id) == /\ answers' = answers \cup {[key |-> call[c].key, id |-> id]}
                 /\ call' = [call EXCEPT ![c] = Idle(call[c].key)]

\* The service draws a fresh task id for every call.
Begin(c) ==
    /\ call[c].step = "idle"
    /\ drawn < MaxTasks
    /\ drawn' = drawn + 1
    /\ call' = [call EXCEPT ![c].step = "begun", ![c].id = drawn + 1]
    /\ UNCHANGED <<stored, answers, faults>>

\* The INSERT waits for an uncommitted row with the same key, then succeeds or
\* violates the unique index, which aborts the transaction.
Insert(c) ==
    /\ call[c].step = "begun"
    /\ ~Pending(c)
    /\ Moved(c, IF Existing(call[c].key) = {} THEN "inserted" ELSE "aborted")
    /\ UNCHANGED <<stored, answers, drawn, faults>>

\* After a unique violation the existing task is read with the same, aborted
\* transaction: PostgreSQL refuses the statement and Enqueue returns its error.
SelectExisting(c) ==
    /\ call[c].step = "aborted"
    /\ Answer(c, NoTask)
    /\ UNCHANGED <<stored, drawn, faults>>

\* The event is inserted and the transaction committed.
Commit(c) ==
    /\ call[c].step = "inserted"
    /\ stored' = stored \cup {[id |-> call[c].id, key |-> call[c].key]}
    /\ Moved(c, "committed")
    /\ UNCHANGED <<answers, drawn, faults>>

\* The committed row is read back outside the transaction.
ReadBack(c) ==
    /\ call[c].step = "committed"
    /\ Answer(c, call[c].id)
    /\ UNCHANGED <<stored, drawn, faults>>

\* A storage error, or the process ends: the caller gets an error and may ask
\* again; what was committed stays.
Fault(c) ==
    /\ call[c].step # "idle"
    /\ faults < MaxFaults
    /\ faults' = faults + 1
    /\ Answer(c, NoTask)
    /\ UNCHANGED <<stored, drawn>>

EnqueueNext == \E c \in Caller : \/ Begin(c) \/ Insert(c) \/ SelectExisting(c) \/ Commit(c)
                                 \/ ReadBack(c) \/ Fault(c)

EnqueueSpec == EnqueueInit /\ [][EnqueueNext]_enqueueVars

-----------------------------------------------------------------------------
(***************************************************************************)
(* Properties                                                              *)
(***************************************************************************)

\* "If a task with the same idempotency_key already exists for the tenant, the
\* existing task is returned without modification": without a fault no call
\* is answered with an error.
ExistingReturned == faults = 0 => \A a \in answers : a.id # NoTask
=============================================================================
