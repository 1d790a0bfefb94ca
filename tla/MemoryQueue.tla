----------------------------- MODULE MemoryQueue -----------------------------
(* The in-memory task queue (internal/taskqueue/repository_memory.go) of     *)
(* tests and local development.  Every operation holds one mutex, so it is   *)
(* one action.  Time is abstracted as in TaskQueue: expired is               *)
(* LeaseExpiresAt <= now, ready is RunAfter <= now.  Unlike the repository   *)
(* of PostgreSQL, Lease takes an abandoned task over directly, and an        *)
(* abandoned lease of another task does not keep its resource.               *)
EXTENDS Integers, Sequences, FiniteSets

CONSTANTS
    MemTask,         \* numbers: the order of priority, creation and id
    MemHolder,       \* lease holders
    MemPoolOf,       \* [MemTask -> pool]
    MemResourceOf,   \* [MemTask -> resource], 0 for none
    MemMaxAttempts,
    MemPage,         \* the limit of List
    MaxMemGeneration \* bound: leases of one task

ASSUME MemoryAssumption ==
    /\ MemTask \subseteq Nat \ {0} /\ IsFiniteSet(MemTask)
    /\ MemPage \in Nat \ {0}

VARIABLES
    mem,     \* [MemTask -> the task]
    tokens,  \* every token Lease returned
    walk     \* a client that follows the cursors of List

memVars == <<mem, tokens, walk>>

Free == "nobody"

MemActive == {"leased", "running", "cancelling"}
MemWaiting == {"queued", "failed_retryable"}
MemEnded == {"dead_letter", "failed_terminal", "cancelled"}

MemInit ==
    /\ mem = [t \in MemTask |-> [status |-> "absent", holder |-> Free, generation |-> 0, attempt |-> 0,
                                 expired |-> FALSE, ready |-> FALSE]]
    /\ tokens = {}
    /\ walk = [cursor |-> 0, began |-> {}, seen |-> << >>, pc |-> "idle"]

Ends(task, status) == [task EXCEPT !.status = status, !.holder = Free, !.expired = FALSE]

\* Enqueue of a task without an idempotency key, or with a new one.
MemEnqueue(t) ==
    /\ mem[t].status = "absent"
    /\ \E ready \in BOOLEAN : mem' = [mem EXCEPT ![t].status = "queued", ![t].ready = ready]
    /\ UNCHANGED <<tokens, walk>>

\* The clock passes LeaseExpiresAt or RunAfter.
MemTime(t) ==
    /\ \/ /\ mem[t].status \in MemActive /\ ~mem[t].expired
          /\ mem' = [mem EXCEPT ![t].expired = TRUE]
       \/ /\ mem[t].status \in MemWaiting /\ ~mem[t].ready
          /\ mem' = [mem EXCEPT ![t].ready = TRUE]
    /\ UNCHANGED <<tokens, walk>>

------------------------------------------------------------------------------
\* activeResources: resources of leases that have not expired.
ActiveResources == {MemResourceOf[t] : t \in {u \in MemTask : mem[u].status \in MemActive /\ ~mem[u].expired}} \ {0}

ReadyTasks(p) ==
    {t \in MemTask : /\ MemPoolOf[t] = p /\ mem[t].ready
                     /\ mem[t].status \in MemWaiting \/ (mem[t].status \in MemActive /\ mem[t].expired)}

\* Mutant: a resource may be leased twice in one batch.
BlockedByActive(p, t) == MemResourceOf[t] \in ActiveResources

\* A task is passed over when its resource is active or was just leased: the
\* first ready task of a resource gets it.
Blocked(p, t) ==
    \/ MemResourceOf[t] \in ActiveResources
    \/ MemResourceOf[t] # 0 /\ \E u \in ReadyTasks(p) : u < t /\ MemResourceOf[u] = MemResourceOf[t]

\* The batch: the first n of the tasks that are not passed over.
MemBatch(p, n) ==
    LET open == {t \in ReadyTasks(p) : ~Blocked(p, t)}
    IN  {t \in open : Cardinality({u \in open : u < t}) < n}

Taken(task, w) ==
    [task EXCEPT !.status = "leased", !.holder = w, !.expired = FALSE, !.attempt = @ + 1, !.generation = @ + 1]

MemLease(w, p, n) ==
    LET B == MemBatch(p, n)
    IN  /\ B # {} /\ \A t \in B : mem[t].generation < MaxMemGeneration
        /\ mem' = [t \in MemTask |-> IF t \in B THEN Taken(mem[t], w) ELSE mem[t]]
        /\ tokens' = tokens \cup {[task |-> t, holder |-> w, generation |-> mem'[t].generation] : t \in B}
        /\ UNCHANGED walk

------------------------------------------------------------------------------
\* ownsLease.
MemOwns(k) == mem[k.task].holder = k.holder /\ mem[k.task].generation = k.generation

\* An expired lease nobody took over is renewed.
MemHeartbeat(k) ==
    /\ MemOwns(k) /\ mem[k.task].status \in {"leased", "running"}
    /\ mem' = [mem EXCEPT ![k.task].status = "running", ![k.task].expired = FALSE]
    /\ UNCHANGED <<tokens, walk>>

MemComplete(k) ==
    /\ MemOwns(k) /\ mem[k.task].status = "running"
    /\ mem' = [mem EXCEPT ![k.task] = Ends(@, "succeeded")]
    /\ UNCHANGED <<tokens, walk>>

\* A retryable failure waits out retryBackoff.
MemFail(k, retryable) ==
    /\ MemOwns(k) /\ mem[k.task].status \in {"leased", "running"}
    /\ mem' = [mem EXCEPT ![k.task] =
           IF ~retryable THEN Ends(@, "failed_terminal")
           ELSE IF @.attempt >= MemMaxAttempts THEN Ends(@, "dead_letter")
           ELSE [Ends(@, "failed_retryable") EXCEPT !.ready = FALSE]]
    /\ UNCHANGED <<tokens, walk>>

MemCancel(t) ==
    /\ \/ mem[t].status \in MemWaiting /\ mem' = [mem EXCEPT ![t] = Ends(@, "cancelled")]
       \/ mem[t].status \in {"leased", "running"} /\ mem' = [mem EXCEPT ![t].status = "cancelling"]
    /\ UNCHANGED <<tokens, walk>>

MemMarkCancelled(k) ==
    /\ MemOwns(k) /\ mem[k.task].status = "cancelling"
    /\ mem' = [mem EXCEPT ![k.task] = Ends(@, "cancelled")]
    /\ UNCHANGED <<tokens, walk>>

MemRetry(t) ==
    /\ mem[t].status \in MemEnded
    /\ mem' = [mem EXCEPT ![t].status = "queued", ![t].attempt = 0, ![t].ready = TRUE]
    /\ UNCHANGED <<tokens, walk>>

------------------------------------------------------------------------------
Present == {t \in MemTask : mem[t].status # "absent"}

\* The tasks after the cursor, in the order of their ids.
AfterCursor(cursor) == {t \in Present : t > cursor}

\* List: a full page has a cursor, its last task.
MemList ==
    /\ walk.pc # "done"
    /\ LET page == {t \in AfterCursor(walk.cursor) : Cardinality({u \in AfterCursor(walk.cursor) : u < t}) < MemPage}
           last == CHOOSE t \in page : \A u \in page : u <= t
       IN  walk' = [began |-> IF walk.pc = "idle" THEN Present ELSE walk.began,
                    seen |-> Append(walk.seen, page),
                    cursor |-> IF Cardinality(page) = MemPage THEN last ELSE 0,
                    pc |-> IF Cardinality(page) = MemPage THEN "paging" ELSE "done"]
    /\ UNCHANGED <<mem, tokens>>

MemNext ==
    \/ \E t \in MemTask : MemEnqueue(t) \/ MemTime(t) \/ MemCancel(t) \/ MemRetry(t)
    \/ \E w \in MemHolder, t \in MemTask, n \in 1..Cardinality(MemTask) : MemLease(w, MemPoolOf[t], n)
    \/ \E k \in tokens : MemHeartbeat(k) \/ MemComplete(k) \/ MemFail(k, TRUE) \/ MemFail(k, FALSE) \/ MemMarkCancelled(k)
    \/ MemList

MemSpec == MemInit /\ [][MemNext]_memVars

------------------------------------------------------------------------------
Fencing == INSTANCE LeaseFencing WITH
    FencedTask <- MemTask, FencedHolder <- MemHolder, Nobody <- Free,
    holding <- [t \in MemTask |-> mem[t].holder],
    generation <- [t \in MemTask |-> mem[t].generation]

\* The in-memory queue keeps the promise of a lease: seen through holders and
\* generations every step is a turn of the abstract queue.
MemoryFences == Fencing!FencingSpec

\* A lease is never granted next to a live one of the same resource, neither
\* an earlier one nor one of the same batch.
GrantIsExclusive ==
    [][\A k \in tokens' \ tokens : \A u \in MemTask \ {k.task} :
         MemResourceOf[u] = MemResourceOf[k.task] /\ MemResourceOf[u] # 0 =>
            ~(mem'[u].status \in MemActive /\ ~mem'[u].expired)]_memVars

\* A client that follows the cursors of List gets every task that was there
\* when it began, and none twice, whatever happens to the tasks meanwhile.
WalkIsComplete ==
    /\ walk.pc = "done" => walk.began \subseteq UNION {walk.seen[i] : i \in DOMAIN walk.seen}
    /\ \A i, j \in DOMAIN walk.seen : i # j => walk.seen[i] \cap walk.seen[j] = {}

\* The in-memory queue implements the abstract lease, grants no resource
\* twice, and lists every task once while all this happens.
MemoryKeepsLeases == MemoryFences /\ GrantIsExclusive /\ []WalkIsComplete
==============================================================================
