--------------------------- MODULE LeaseTransaction ---------------------------
(***************************************************************************)
(* The Lease transaction statement by statement.  Every worker may have    *)
(* one such transaction open per pool; they interleave with each other and *)
(* with the single-row transactions of TaskQueue, whose committed view of  *)
(* Lease this module implements.                                           *)
(*                                                                         *)
(* Of PostgreSQL it assumes READ COMMITTED: a statement sees the rows      *)
(* committed when it starts and its own transaction's writes; a written or *)
(* FOR UPDATE row stays locked, and an advisory lock stays held, until the *)
(* transaction ends.                                                       *)
(***************************************************************************)
EXTENDS TaskQueue

CONSTANTS
    Order,   \* position in ORDER BY priority DESC, created_at, id
    Session, \* the schedulers: pairs of a worker and a pool
    Limit    \* the batch sizes they ask for

ASSUME OrderAssumption == /\ Order \in [Task -> Nat]
                          /\ \A t, u \in Task : Order[t] = Order[u] => t = u

ASSUME SessionAssumption == Session \subseteq Worker \X Pool /\ Limit \subseteq Nat \ {0}

VARIABLE tx  \* the open Lease transactions, by worker and pool

txVars == <<vars, tx>>

Closed == [step |-> "closed", limit |-> 0, reclaimed |-> {}, chosen |-> {},
           batch |-> {}, advisory |-> {}]

TxInit == Init /\ tx = [s \in Session |-> Closed]

-----------------------------------------------------------------------------
(***************************************************************************)
(* Row locks, and what a statement sees                                    *)
(***************************************************************************)

RowLocks(s) == tx[s].reclaimed \cup tx[s].chosen \cup tx[s].batch

LockedByOther(s, t) == \E q \in Session \ {s} : t \in RowLocks(q)

Unlocked(t) == \A q \in Session : t \notin RowLocks(q)

View(s) ==
    LET r == Reclaim(row, tx[s].reclaimed)
    IN  [t \in Task |-> IF t \in tx[s].batch THEN LeasedRow(r[t], s[1]) ELSE r[t]]

\* The next chosen task in lease order.
NextChosen(s) ==
    CHOOSE t \in tx[s].chosen : \A u \in tx[s].chosen : Order[t] <= Order[u]

-----------------------------------------------------------------------------
(***************************************************************************)
(* The statements                                                          *)
(***************************************************************************)

\* BEGIN and the reclaiming UPDATE.  It waits for locked rows.
ReclaimStatement(s, n) ==
    /\ tx[s].step = "closed"
    /\ \A t \in Abandoned(row, s[2]) : Unlocked(t)
    /\ tx' = [tx EXCEPT ![s] = [Closed EXCEPT !.step = "select", !.limit = n,
                                              !.reclaimed = Abandoned(row, s[2])]]
    /\ UNCHANGED vars

\* resource_rank = 1: the first candidate of each resource key.
Ranked(r, p) ==
    {t \in Candidates(r, p) :
        \A u \in Candidates(r, p) : u # t /\ SameResource(t, u) => Order[t] < Order[u]}

\* The first n of S in lease order.
Page(S, n) == {t \in S : Cardinality({u \in S : Order[u] < Order[t]}) < n}

\* The ranked SELECT ... LIMIT ... FOR UPDATE SKIP LOCKED.  Its snapshot and its row
\* locks are one step: a row that changes between them is read again by PostgreSQL
\* before it is locked, and by the UPDATE after.  Without candidates
\* Lease returns and the deferred rollback ends the transaction.
SelectStatement(s) ==
    /\ tx[s].step = "select"
    /\ LET page == Page({t \in Ranked(View(s), s[2]) : ~LockedByOther(s, t)}, tx[s].limit)
       IN  tx' = [tx EXCEPT ![s] =
                    IF page = {} THEN Closed
                    ELSE [@ EXCEPT !.step = "lock", !.chosen = page]]
    /\ UNCHANGED vars

\* pg_try_advisory_xact_lock fails: another transaction has the resource.
AdvisoryTaken(s, t) ==
    /\ ResourceOf[t] # NoResource
    /\ \E q \in Session \ {s} : ResourceOf[t] \in tx[q].advisory

\* The try-lock of the next chosen task; a task whose lock is taken is skipped.
LockStatement(s) ==
    /\ tx[s].step = "lock"
    /\ tx[s].chosen # {}
    /\ LET t == NextChosen(s)
       IN  tx' = IF AdvisoryTaken(s, t)
                 THEN [tx EXCEPT ![s].chosen = @ \ {t}]
                 ELSE [tx EXCEPT ![s].step = "update",
                                 ![s].advisory = @ \cup ({ResourceOf[t]} \ {NoResource})]
    /\ UNCHANGED vars

\* Mutant: the UPDATE relies on what the SELECT saw.
NoRecheck(s, t) == TRUE

\* The UPDATE's own WHERE clause, on what is committed by now.
StillLeasable(s, t) ==
    LET r == View(s)
    IN  /\ r[t].status \in Claimable
        /\ r[t].ready
        /\ ResourceFree(r, t)

UpdateStatement(s) ==
    /\ tx[s].step = "update"
    /\ LET t == NextChosen(s)
       IN  /\ row[t].generation < MaxGeneration
           /\ tx' = [tx EXCEPT ![s].step = "lock", ![s].chosen = @ \ {t},
                               ![s].batch = IF StillLeasable(s, t) THEN @ \cup {t} ELSE @]
    /\ UNCHANGED vars

\* COMMIT, or the rollback of a transaction that leased nothing.
CommitStatement(s) ==
    /\ tx[s].step = "lock"
    /\ tx[s].chosen = {}
    /\ IF tx[s].batch = {} THEN UNCHANGED <<row, issued>>
       ELSE /\ row' = View(s)
            /\ issued' = issued \cup
                 {[task |-> t, holder |-> s[1], generation |-> row[t].generation + 1] :
                     t \in tx[s].batch}
    /\ tx' = [tx EXCEPT ![s] = Closed]
    /\ UNCHANGED failures

\* A storage error or the end of the process at any point rolls back.
Rollback(s) ==
    /\ tx[s].step # "closed"
    /\ tx' = [tx EXCEPT ![s] = Closed]
    /\ UNCHANGED vars

-----------------------------------------------------------------------------

\* The other transactions write one row each and wait until it is unlocked.
SingleRow(t) ==
    /\ Unlocked(t)
    /\ \/ Enqueue(t) \/ Cancel(t) \/ Retry(t)
       \/ \E k \in {j \in issued : j.task = t} :
            \/ Heartbeat(k) \/ Complete(k) \/ MarkCancelled(k)
            \/ \E retryable \in BOOLEAN : Fail(k, retryable)
    /\ UNCHANGED tx

Clock == TimePasses /\ UNCHANGED tx

LeaseStatement(s) == \/ \E n \in Limit : ReclaimStatement(s, n)
                     \/ SelectStatement(s) \/ LockStatement(s) \/ UpdateStatement(s)
                     \/ CommitStatement(s) \/ Rollback(s)

TxNext == \/ \E s \in Session : LeaseStatement(s)
          \/ \E t \in Task : SingleRow(t)
          \/ Clock

TxSpec == TxInit /\ [][TxNext]_txVars

-----------------------------------------------------------------------------
(***************************************************************************)
(* Properties                                                              *)
(***************************************************************************)

\* The statements implement the atomic Lease of TaskQueue: seen through the
\* committed rows every step is a step of the queue.
ImplementsQueue == Spec
=============================================================================
