------------------------------ MODULE TaskQueue ------------------------------
(***************************************************************************)
(* The persistent task queue: one row per task in the table task_queue and *)
(* one action per committed transaction of the PostgreSQL repository.      *)
(*                                                                         *)
(* Time is abstracted to the two comparisons the statements make:          *)
(* row.expired is lease_expires_at <= NOW() and row.ready is               *)
(* run_after <= NOW().  A call that finds its lease gone returns           *)
(* ErrLeaseLost and changes nothing, so it is not an action.               *)
(*                                                                         *)
(* The callers are unconstrained: any worker may use any lease token it    *)
(* was ever given, however old, as often as it likes.  WorkerPool models   *)
(* the callers the code has.                                               *)
(***************************************************************************)
EXTENDS Integers, FiniteSets

CONSTANTS
    Task,          \* task identifiers
    Worker,        \* lease holders (worker ids; a restarted process has a new one)
    NoHolder,      \* lease_holder IS NULL
    Pool,          \* pool names
    Resource,      \* complete (locked_resource_type, locked_resource_id) keys
    NoResource,    \* a task that locks nothing
    PoolOf,        \* the pool column
    ResourceOf,    \* the resource key
    MaxAttempts,   \* max_attempts
    MaxGeneration  \* bound of the model: leases of one task

ASSUME TableAssumption == IsFiniteSet(Task)  \* the table has finitely many rows
ASSUME HolderAssumption == NoHolder \notin Worker
ASSUME ResourceAssumption == NoResource \notin Resource
ASSUME ColumnAssumption == /\ PoolOf \in [Task -> Pool]
                           /\ ResourceOf \in [Task -> Resource \cup {NoResource}]
ASSUME BoundAssumption == /\ MaxAttempts \in Nat \ {0}
                          /\ MaxGeneration \in Nat \ {0}

VARIABLES
    row,      \* the table task_queue
    issued,   \* every lease token ever returned by Lease
    failures  \* history: retryable failures accepted since the last manual retry

vars == <<row, issued, failures>>

-----------------------------------------------------------------------------
(***************************************************************************)
(* Statuses and rows                                                       *)
(***************************************************************************)

Active == {"leased", "running", "cancelling"}
Claimable == {"queued", "failed_retryable"}
Retriable == {"dead_letter", "failed_terminal", "cancelled"}
Status == Active \cup Claimable \cup Retriable \cup {"absent", "succeeded"}

TaskRow == [status : Status, holder : Worker \cup {NoHolder},
            generation : Nat, attempt : Nat, expired : BOOLEAN, ready : BOOLEAN]

NoRow == [status |-> "absent", holder |-> NoHolder, generation |-> 0,
          attempt |-> 0, expired |-> FALSE, ready |-> FALSE]

LeaseToken == [task : Task, holder : Worker, generation : Nat]

TokenOf(t) == [task |-> t, holder |-> row[t].holder, generation |-> row[t].generation]

\* The fencing predicate: lease_holder and lease_generation match the token.
OwnsLease(k) == TokenOf(k.task) = k

\* A row whose lease columns are cleared.
Unleased(r, s) == [r EXCEPT !.status = s, !.holder = NoHolder, !.expired = FALSE]

-----------------------------------------------------------------------------
(***************************************************************************)
(* The operations                                                          *)
(***************************************************************************)

Init == /\ row = [t \in Task |-> NoRow]
        /\ issued = {}
        /\ failures = [t \in Task |-> 0]

\* The status column is always written as queued; run_after is the caller's.
Enqueue(t) ==
    /\ row[t].status = "absent"
    /\ \E ready \in BOOLEAN :
         row' = [row EXCEPT ![t].status = "queued", ![t].ready = ready]
    /\ UNCHANGED <<issued, failures>>

\* NOW() passes lease_expires_at.
LeaseExpires(t) ==
    /\ row[t].status \in Active
    /\ ~row[t].expired
    /\ row' = [row EXCEPT ![t].expired = TRUE]
    /\ UNCHANGED <<issued, failures>>

\* NOW() passes run_after.
BecomesReady(t) ==
    /\ row[t].status \in Claimable
    /\ ~row[t].ready
    /\ row' = [row EXCEPT ![t].ready = TRUE]
    /\ UNCHANGED <<issued, failures>>

\* Mutant: a cancelling task keeps its lease for ever.
AbandonedButCancelling(r, p) ==
    {t \in Task : PoolOf[t] = p /\ r[t].status \in {"leased", "running"} /\ r[t].expired}

\* The first statement of Lease: abandoned leases of the pool return to queued.
Abandoned(r, p) == {t \in Task : PoolOf[t] = p /\ r[t].status \in Active /\ r[t].expired}

Reclaim(r, S) == [t \in Task |-> IF t \in S THEN Unleased(r[t], "queued") ELSE r[t]]

SameResource(t, u) == ResourceOf[t] # NoResource /\ ResourceOf[t] = ResourceOf[u]

\* Mutant: only tasks of the same pool are looked at.
ResourceFreeInPool(r, t) ==
    \A u \in Task : u # t /\ SameResource(t, u) /\ PoolOf[u] = PoolOf[t] => r[u].status \notin Active

\* Nothing else holds the task's resource, in any pool, expired or not.
ResourceFree(r, t) ==
    \A u \in Task : u # t /\ SameResource(t, u) => r[u].status \notin Active

Candidates(r, p) ==
    {t \in Task : /\ PoolOf[t] = p
                  /\ r[t].status \in Claimable
                  /\ r[t].ready
                  /\ ResourceFree(r, t)}

\* What one transaction may lease: at most n candidates, one per resource.
\* LeaseTransaction models how it chooses among them.
Batches(r, p, n) ==
    {B \in SUBSET Candidates(r, p) :
        /\ Cardinality(B) <= n
        /\ \A t, u \in B : t # u => ~SameResource(t, u)}

LeasedRow(r, w) ==
    [r EXCEPT !.status = "leased", !.holder = w, !.expired = FALSE,
              !.generation = @ + 1, !.attempt = @ + 1]

\* One committed Lease transaction.  It reclaims the leases that had expired
\* when it began.  When it leases nothing it returns before the commit and the
\* reclaim is rolled back with it.
Lease(w, p, n) ==
    \E S \in SUBSET Abandoned(row, p) :
      LET r == Reclaim(row, S)
      IN  \E B \in Batches(r, p, n) \ {{}} :
            /\ \A t \in B : r[t].generation < MaxGeneration
            /\ row' = [t \in Task |-> IF t \in B THEN LeasedRow(r[t], w) ELSE r[t]]
            /\ issued' = issued \cup
                 {[task |-> t, holder |-> w, generation |-> row[t].generation + 1] : t \in B}
            /\ UNCHANGED failures

\* Heartbeat does not look at the expiry: an expired lease nobody reclaimed
\* is renewed.
Heartbeat(k) ==
    /\ OwnsLease(k)
    /\ row[k.task].status \in {"leased", "running"}
    /\ row' = [row EXCEPT ![k.task].status = "running", ![k.task].expired = FALSE]
    /\ UNCHANGED <<issued, failures>>

Complete(k) ==
    /\ OwnsLease(k)
    /\ row[k.task].status = "running"
    /\ row' = [row EXCEPT ![k.task] = Unleased(@, "succeeded")]
    /\ UNCHANGED <<issued, failures>>

\* Mutant: one attempt too many.
FailedStatusOneMore(r, retryable) ==
    IF ~retryable THEN "failed_terminal"
    ELSE IF r.attempt <= MaxAttempts THEN "failed_retryable" ELSE "dead_letter"

FailedStatus(r, retryable) ==
    IF ~retryable THEN "failed_terminal"
    ELSE IF r.attempt < MaxAttempts THEN "failed_retryable" ELSE "dead_letter"

\* Mutant: the lease columns are not cleared.
FailedRowKeepsLease(r, retryable) ==
    LET s == FailedStatus(r, retryable)
    IN  [r EXCEPT !.status = s, !.ready = @ /\ s # "failed_retryable"]

\* A retryable failure waits out its backoff: run_after moves past NOW().
FailedRow(r, retryable) ==
    LET s == FailedStatus(r, retryable)
    IN  [Unleased(r, s) EXCEPT !.ready = @ /\ s # "failed_retryable"]

Fail(k, retryable) ==
    /\ OwnsLease(k)
    /\ row[k.task].status \in {"leased", "running"}
    /\ row' = [row EXCEPT ![k.task] = FailedRow(@, retryable)]
    /\ failures' = [failures EXCEPT ![k.task] = IF retryable THEN @ + 1 ELSE @]
    /\ UNCHANGED issued

CancelledRow(r) ==
    IF r.status \in Claimable THEN Unleased(r, "cancelled")
                              ELSE [r EXCEPT !.status = "cancelling"]

\* Any other status: Cancel returns without a change.
Cancel(t) ==
    /\ row[t].status \in Claimable \cup {"leased", "running"}
    /\ row' = [row EXCEPT ![t] = CancelledRow(@)]
    /\ UNCHANGED <<issued, failures>>

MarkCancelled(k) ==
    /\ OwnsLease(k)
    /\ row[k.task].status = "cancelling"
    /\ row' = [row EXCEPT ![k.task] = Unleased(@, "cancelled")]
    /\ UNCHANGED <<issued, failures>>

\* Mutant: manual recovery also resets lease_generation.
RetriedRowResetsGeneration(r) ==
    [Unleased(r, "queued") EXCEPT !.attempt = 0, !.ready = TRUE, !.generation = 0]

\* Manual recovery starts a new cycle of attempts and keeps the generation.
RetriedRow(r) == [Unleased(r, "queued") EXCEPT !.attempt = 0, !.ready = TRUE]

Retry(t) ==
    /\ row[t].status \in Retriable
    /\ row' = [row EXCEPT ![t] = RetriedRow(@)]
    /\ failures' = [failures EXCEPT ![t] = 0]
    /\ UNCHANGED issued

-----------------------------------------------------------------------------

TimePasses == \E t \in Task : LeaseExpires(t) \/ BecomesReady(t)

ClientStep == \E t \in Task : Enqueue(t) \/ Cancel(t) \/ Retry(t)

HolderStep == \E k \in issued : \/ Heartbeat(k)
                                \/ Complete(k)
                                \/ \E retryable \in BOOLEAN : Fail(k, retryable)
                                \/ MarkCancelled(k)

LeaseStep == \E w \in Worker, p \in Pool, n \in 1..Cardinality(Task) : Lease(w, p, n)

Next == TimePasses \/ ClientStep \/ HolderStep \/ LeaseStep

Spec == Init /\ [][Next]_vars

-----------------------------------------------------------------------------
(***************************************************************************)
(* Properties                                                              *)
(***************************************************************************)

\* Rows, tokens and the failure history keep their types.
TypeOK == /\ row \in [Task -> TaskRow]
          /\ issued \subseteq LeaseToken
          /\ failures \in [Task -> Nat]

\* Lease: "only one task for a given locked_resource_type/locked_resource_id
\* pair can be leased at a time", across pools, holders and expired leases.
ResourceExclusive ==
    \A t, u \in Task :
        t # u /\ SameResource(t, u) => ~(row[t].status \in Active /\ row[u].status \in Active)

\* Fencing: of all the tokens ever issued for a task, at most one can still
\* write, and only while the row is leased; its generation is the newest.
FencingUnique ==
    \A k \in issued :
        /\ OwnsLease(k) => row[k.task].status \in Active
        /\ OwnsLease(k) => \A j \in issued : j.task = k.task => j = k \/ j.generation < k.generation

\* No lease hands out a token that an earlier lease of the task could still
\* be holding: manual retries and reclaims never reuse a generation.
FreshToken ==
    [][\A k \in issued' \ issued :
         \A j \in issued : j.task = k.task => j.generation < k.generation]_vars

\* Fail: within one cycle of attempts at most MaxAttempts retryable failures
\* are accepted, the last of them into dead_letter; a dead letter had them all
\* or lost the others to abandoned leases.
RetryBudget ==
    \A t \in Task :
        /\ failures[t] <= MaxAttempts
        /\ row[t].status = "dead_letter" => row[t].attempt >= MaxAttempts
        /\ row[t].status = "failed_retryable" => row[t].attempt < MaxAttempts

\* A live lease is only given up by its holder or turned into a cancellation:
\* no worker is dispossessed before its lease expires.
LiveLeaseKept ==
    [][\A t \in Task :
         row[t].status \in Active /\ ~row[t].expired /\ row'[t].status \in Active
            => row'[t].holder = row[t].holder /\ row'[t].generation = row[t].generation]_vars

Fenced == INSTANCE LeaseFencing WITH
    FencedTask <- Task, FencedHolder <- Worker, Nobody <- NoHolder,
    holding <- [t \in Task |-> row[t].holder],
    generation <- [t \in Task |-> row[t].generation]

\* The table keeps the promise of a lease (LeaseToken): whoever becomes the
\* holder of a task does so under a generation nobody had before.
QueueFences == Fenced!FencingSpec
=============================================================================
