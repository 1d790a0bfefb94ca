--------------------------- MODULE TaskQueueProofs ---------------------------
(***************************************************************************)
(* Machine-checked proofs about the task queue and what runs on it, for    *)
(* every set of tasks, workers, pools and resources: the queue keeps its   *)
(* safety properties, the statements of concurrent Lease transactions      *)
(* implement the atomic Lease, and the worker processes, whatever faults   *)
(* they meet, are callers the queue's properties hold for.  The task of an *)
(* optimization run ends the way the run does.                             *)
(***************************************************************************)
EXTENDS LeaseTransaction, OptimizerRun, NumberLemmas, FiniteSetTheorems, TLAPS

-----------------------------------------------------------------------------
(***************************************************************************)
(* The queue                                                               *)
(***************************************************************************)

\* The lease columns agree with the status: a row is held exactly while it is
\* leased, running or cancelling, and only such a row has an expiry.
LeaseColumns ==
    \A t \in Task : /\ row[t].status \in Active <=> row[t].holder # NoHolder
                    /\ row[t].expired => row[t].status \in Active

\* No token is newer than its row, and a generation is issued once.
TokenHistory ==
    /\ \A k \in issued : k.generation <= row[k.task].generation
    /\ \A j, k \in issued : j.task = k.task /\ j.generation = k.generation => j = k

\* Why the retry budget holds: each accepted failure used up an attempt.
FailureAccounting ==
    \A t \in Task :
        /\ failures[t] <= row[t].attempt
        /\ row[t].status \in Active => failures[t] < row[t].attempt
        /\ row[t].status # "dead_letter" => failures[t] < MaxAttempts

\* The inductive invariant.
IInv == /\ TypeOK
        /\ LeaseColumns
        /\ ResourceExclusive
        /\ TokenHistory
        /\ RetryBudget
        /\ FailureAccounting

-----------------------------------------------------------------------------

\* Reclaim changes nothing but abandoned rows, which become queued.
LEMMA ReclaimType ==
    ASSUME TypeOK, NEW p \in Pool, NEW S \in SUBSET Abandoned(row, p)
    PROVE  /\ Reclaim(row, S) \in [Task -> TaskRow]
           /\ \A t \in Task :
                \/ /\ row[t].status \in Active /\ row[t].expired
                   /\ Reclaim(row, S)[t] = Unleased(row[t], "queued")
                \/ Reclaim(row, S)[t] = row[t]
BY DEF TypeOK, Reclaim, Abandoned, Unleased, TaskRow, Status, Claimable, Active, Retriable

\* What a lease writes to a row.
LEMMA LeasedRowFields ==
    ASSUME NEW r \in TaskRow, NEW w \in Worker
    PROVE  /\ LeasedRow(r, w) \in TaskRow
           /\ LeasedRow(r, w).status = "leased"
           /\ LeasedRow(r, w).holder = w
           /\ ~LeasedRow(r, w).expired
           /\ LeasedRow(r, w).generation = r.generation + 1
           /\ LeasedRow(r, w).attempt = r.attempt + 1
<1>1. r.generation + 1 \in Nat /\ r.attempt + 1 \in Nat /\ r.ready \in BOOLEAN
  BY DEF TaskRow
<1>2. "leased" \in Status
  BY DEF Status, Active
<1>3. LeasedRow(r, w) \in TaskRow
  BY <1>1, <1>2 DEF TaskRow, LeasedRow
<1> QED BY <1>3 DEF LeasedRow, TaskRow

\* Clearing the lease columns keeps the rest of the row.
LEMMA UnleasedFields ==
    ASSUME NEW r \in TaskRow, NEW s \in Status
    PROVE  /\ Unleased(r, s) \in TaskRow
           /\ Unleased(r, s).status = s
           /\ Unleased(r, s).holder = NoHolder
           /\ ~Unleased(r, s).expired
           /\ Unleased(r, s).generation = r.generation
           /\ Unleased(r, s).attempt = r.attempt
           /\ Unleased(r, s).ready = r.ready
BY DEF Unleased, TaskRow

LEMMA SameResourceSymmetric ==
    ASSUME NEW t, NEW u
    PROVE  SameResource(t, u) <=> SameResource(u, t)
BY DEF SameResource

-----------------------------------------------------------------------------

LEMMA InitIInv == Init => IInv
BY HolderAssumption, BoundAssumption
   DEF Init, IInv, TypeOK, LeaseColumns, ResourceExclusive, TokenHistory, RetryBudget,
       FailureAccounting, NoRow, TaskRow, Status, Active, Claimable, Retriable

\* A committed Lease transaction preserves the invariant.
LEMMA LeaseIInv ==
    ASSUME IInv, NEW w \in Worker, NEW p \in Pool, NEW n, Lease(w, p, n)
    PROVE  IInv'
<1>0. PICK S \in SUBSET Abandoned(row, p) : \E B \in Batches(Reclaim(row, S), p, n) :
        /\ row' = [t \in Task |-> IF t \in B THEN LeasedRow(Reclaim(row, S)[t], w)
                                             ELSE Reclaim(row, S)[t]]
        /\ issued' = issued \cup
             {[task |-> t, holder |-> w, generation |-> row[t].generation + 1] : t \in B}
        /\ failures' = failures
  BY DEF Lease
<1> DEFINE r == Reclaim(row, S)
<1>1. PICK B \in Batches(r, p, n) :
        /\ row' = [t \in Task |-> IF t \in B THEN LeasedRow(r[t], w) ELSE r[t]]
        /\ issued' = issued \cup
             {[task |-> t, holder |-> w, generation |-> row[t].generation + 1] : t \in B}
        /\ failures' = failures
  BY <1>0
<1>2. /\ r \in [Task -> TaskRow]
      /\ \A t \in Task :
           \/ /\ row[t].status \in Active /\ row[t].expired
              /\ r[t] = Unleased(row[t], "queued")
           \/ r[t] = row[t]
  BY ReclaimType DEF IInv
<1>3. /\ B \subseteq Candidates(r, p)
      /\ \A t, u \in B : t # u => ~SameResource(t, u)
  BY DEF Batches
<1>4. /\ B \subseteq Task
      /\ \A t \in B : r[t].status \in Claimable /\ ResourceFree(r, t)
  BY <1>3 DEF Candidates
<1> HIDE DEF r
<1>5. \A t \in Task : /\ r[t].generation = row[t].generation
                      /\ r[t].attempt = row[t].attempt
                      /\ r[t].holder = NoHolder \/ r[t].holder = row[t].holder
                      /\ r[t].status = row[t].status \/ r[t].status = "queued"
                      /\ r[t].status \in Active <=> r[t].holder # NoHolder
                      /\ r[t].expired => r[t].status \in Active
  BY <1>2 DEF IInv, TypeOK, LeaseColumns, Unleased, TaskRow, Active
<1>6. \A t \in Task : row'[t] = IF t \in B THEN LeasedRow(r[t], w) ELSE r[t]
  BY <1>1
<1>7. \A t \in B : /\ row'[t].status = "leased" /\ row'[t].holder = w
                   /\ ~row'[t].expired
                   /\ row'[t].generation = row[t].generation + 1
                   /\ row'[t].attempt = row[t].attempt + 1
                   /\ row'[t] \in TaskRow
  <2> SUFFICES ASSUME NEW t \in B
               PROVE  /\ row'[t].status = "leased" /\ row'[t].holder = w
                      /\ ~row'[t].expired
                      /\ row'[t].generation = row[t].generation + 1
                      /\ row'[t].attempt = row[t].attempt + 1
                      /\ row'[t] \in TaskRow
    OBVIOUS
  <2>1. r[t] \in TaskRow /\ r[t].generation = row[t].generation /\ r[t].attempt = row[t].attempt
    BY <1>2, <1>4, <1>5
  <2>2. row'[t] = LeasedRow(r[t], w)
    BY <1>4, <1>6
  <2>3. /\ LeasedRow(r[t], w) \in TaskRow
        /\ LeasedRow(r[t], w).status = "leased" /\ LeasedRow(r[t], w).holder = w
        /\ ~LeasedRow(r[t], w).expired
        /\ LeasedRow(r[t], w).generation = r[t].generation + 1
        /\ LeasedRow(r[t], w).attempt = r[t].attempt + 1
    BY <2>1, LeasedRowFields
  <2> QED BY <2>1, <2>2, <2>3
<1>8. TypeOK'
  <2>1. row' \in [Task -> TaskRow]
    BY <1>1, <1>2, <1>4, <1>7
  <2>2. issued' \subseteq LeaseToken
    BY <1>1, <1>4 DEF IInv, TypeOK, LeaseToken, TaskRow
  <2> QED BY <2>1, <2>2, <1>1 DEF IInv, TypeOK
<1>9. LeaseColumns'
  BY <1>5, <1>6, <1>7, HolderAssumption DEF LeaseColumns, Active
<1>10. ResourceExclusive'
  <2> SUFFICES ASSUME NEW t \in Task, NEW u \in Task, t # u, SameResource(t, u),
                      row'[t].status \in Active, row'[u].status \in Active
               PROVE  FALSE
    BY DEF ResourceExclusive
  <2>1. SameResource(u, t)
    BY SameResourceSymmetric
  <2>2. CASE t \in B /\ u \in B
    BY <2>2, <1>3
  <2>3. CASE t \in B /\ u \notin B
    BY <2>3, <1>4, <1>6 DEF ResourceFree
  <2>4. CASE t \notin B /\ u \in B
    BY <2>1, <2>4, <1>4, <1>6 DEF ResourceFree
  <2>5. CASE t \notin B /\ u \notin B
    BY <2>5, <1>5, <1>6 DEF IInv, ResourceExclusive, Active
  <2> QED BY <2>2, <2>3, <2>4, <2>5
<1>11. TokenHistory'
  <2>1. \A k \in issued' \ issued :
           /\ k.task \in B /\ k.holder = w
           /\ k.generation = row[k.task].generation + 1
           /\ k \in LeaseToken
    BY <1>1, <1>4 DEF IInv, TypeOK, LeaseToken, TaskRow
  <2>2. \A k \in issued : k \in LeaseToken /\ k.generation <= row[k.task].generation
    BY DEF IInv, TypeOK, TokenHistory
  <2>3. \A t \in Task : /\ row[t].generation \in Nat /\ row'[t].generation \in Nat
                        /\ row'[t].generation >= row[t].generation
    BY <1>5, <1>6, <1>7, <1>8 DEF IInv, TypeOK, TaskRow
  <2>4. \A k \in issued' : k.generation <= row'[k.task].generation
    <3> SUFFICES ASSUME NEW k \in issued'
                 PROVE  k.generation <= row'[k.task].generation
      OBVIOUS
    <3>1. CASE k \in issued
      BY <3>1, <2>2, <2>3 DEF LeaseToken
    <3>2. CASE k \notin issued
      BY <3>2, <2>1, <2>3, <1>7, <1>4
    <3> QED BY <3>1, <3>2
  <2>5. ASSUME NEW j \in issued', NEW k \in issued',
               j.task = k.task, j.generation = k.generation
        PROVE  j = k
    <3>1. CASE j \in issued /\ k \in issued
      BY <3>1, <2>5 DEF IInv, TokenHistory
    <3>2. CASE j \notin issued /\ k \notin issued
      BY <3>2, <2>5, <2>1 DEF LeaseToken
    <3>3. CASE ~(j \in issued <=> k \in issued)
      BY <3>3, <2>5, <2>1, <2>2, <2>3, <1>4 DEF LeaseToken
    <3> QED BY <3>1, <3>2, <3>3
  <2> QED BY <2>4, <2>5 DEF TokenHistory
<1>12. RetryBudget'
  BY <1>1, <1>5, <1>6, <1>7 DEF IInv, RetryBudget, Active
<1>13. FailureAccounting'
  <2> SUFFICES ASSUME NEW t \in Task
               PROVE  /\ failures[t] <= row'[t].attempt
                      /\ row'[t].status \in Active => failures[t] < row'[t].attempt
                      /\ row'[t].status # "dead_letter" => failures[t] < MaxAttempts
    BY <1>1 DEF FailureAccounting
  <2>1. /\ failures[t] \in Nat /\ row[t].attempt \in Nat
        /\ failures[t] <= row[t].attempt
        /\ row[t].status \in Active => failures[t] < row[t].attempt
        /\ row[t].status # "dead_letter" => failures[t] < MaxAttempts
    BY DEF IInv, TypeOK, TaskRow, FailureAccounting
  <2>2. CASE t \in B
    <3>1. row'[t].attempt = row[t].attempt + 1
      BY <2>2, <1>7
    <3>2. row[t].status # "dead_letter"
      BY <2>2, <1>4, <1>5, <1>2 DEF Claimable, Active
    <3> QED BY <3>1, <3>2, <2>1, BoundAssumption
  <2>3. CASE t \notin B
    BY <2>1, <2>3, <1>2, <1>5, <1>6 DEF Active, Unleased
  <2> QED BY <2>2, <2>3
<1> QED BY <1>8, <1>9, <1>10, <1>11, <1>12, <1>13 DEF IInv

-----------------------------------------------------------------------------
(***************************************************************************)
(* Every other transaction writes one row.                                 *)
(***************************************************************************)

\* What a row written in place of row[t], with f accepted failures, has to
\* satisfy for the invariant to survive.
RowFits(t, x, f) ==
    /\ x \in TaskRow
    /\ x.generation = row[t].generation
    /\ x.status \in Active => row[t].status \in Active
    /\ x.status \in Active <=> x.holder # NoHolder
    /\ x.expired => x.status \in Active
    /\ f \in Nat
    /\ f <= MaxAttempts
    /\ f <= x.attempt
    /\ x.status \in Active => f < x.attempt
    /\ x.status # "dead_letter" => f < MaxAttempts
    /\ x.status = "dead_letter" => x.attempt >= MaxAttempts
    /\ x.status = "failed_retryable" => x.attempt < MaxAttempts

LEMMA RowStep ==
    ASSUME IInv, NEW t \in Task, NEW x, NEW f, RowFits(t, x, f),
           row' = [row EXCEPT ![t] = x],
           failures' = [failures EXCEPT ![t] = f],
           UNCHANGED issued
    PROVE  IInv'
<1>1. /\ row \in [Task -> TaskRow] /\ failures \in [Task -> Nat] /\ issued \subseteq LeaseToken
      /\ x \in TaskRow /\ f \in Nat
  BY DEF IInv, TypeOK, RowFits
<1>2. row'[t] = x /\ failures'[t] = f
  BY <1>1
<1>3. \A u \in Task : u # t => row'[u] = row[u] /\ failures'[u] = failures[u]
  BY <1>1
<1>4. TypeOK'
  BY <1>1 DEF TypeOK
<1>5. LeaseColumns'
  BY <1>2, <1>3 DEF IInv, LeaseColumns, RowFits
<1>6. ResourceExclusive'
  BY <1>2, <1>3, SameResourceSymmetric DEF IInv, ResourceExclusive, RowFits
<1>7. TokenHistory'
  <2>1. \A u \in Task : row'[u].generation = row[u].generation
    BY <1>2, <1>3 DEF RowFits
  <2>2. \A k \in issued : k.task \in Task
    BY <1>1 DEF LeaseToken
  <2> QED BY <2>1, <2>2 DEF IInv, TokenHistory
<1>8. RetryBudget'
  BY <1>2, <1>3 DEF IInv, RetryBudget, RowFits
<1>9. FailureAccounting'
  BY <1>2, <1>3 DEF IInv, FailureAccounting, RowFits
<1> QED BY <1>4, <1>5, <1>6, <1>7, <1>8, <1>9 DEF IInv

\* The facts about one row and one token that the single-row steps start from.
LEMMA RowFacts ==
    ASSUME IInv, NEW t \in Task
    PROVE  /\ row[t] \in TaskRow
           /\ RowFits(t, row[t], failures[t])
BY DEF IInv, TypeOK, LeaseColumns, RetryBudget, FailureAccounting, RowFits

\* A holder's terminal write fits.
LEMMA TerminalFits ==
    ASSUME IInv, NEW t \in Task, row[t].status \in Active, NEW s \in {"succeeded", "cancelled"}
    PROVE  RowFits(t, Unleased(row[t], s), failures[t])
<1> DEFINE x == Unleased(row[t], s)
<1>1. s \in Status /\ s \notin Active /\ s \notin {"dead_letter", "failed_retryable"}
  BY DEF Status, Active, Retriable
<1>2. /\ x \in TaskRow /\ x.status = s /\ x.holder = NoHolder /\ ~x.expired
      /\ x.generation = row[t].generation /\ x.attempt = row[t].attempt
  BY <1>1, RowFacts, UnleasedFields
<1>3. /\ failures[t] \in Nat /\ failures[t] <= MaxAttempts
      /\ failures[t] <= row[t].attempt /\ failures[t] < MaxAttempts
  BY RowFacts DEF RowFits, Active
<1> HIDE DEF x
<1> QED BY <1>1, <1>2, <1>3 DEF RowFits, x

LEMMA NextIInv == IInv /\ [Next]_vars => IInv'
<1> SUFFICES ASSUME IInv, [Next]_vars PROVE IInv'
  OBVIOUS
<1>0. /\ row \in [Task -> TaskRow] /\ failures \in [Task -> Nat] /\ issued \subseteq LeaseToken
  BY DEF IInv, TypeOK
<1>1. ASSUME NEW t \in Task, NEW x, RowFits(t, x, failures[t]),
             row' = [row EXCEPT ![t] = x], UNCHANGED <<issued, failures>>
      PROVE  IInv'
  <2>1. failures' = [failures EXCEPT ![t] = failures[t]]
    BY <1>0, <1>1
  <2> QED BY <2>1, <1>1, RowStep
<1>2. ASSUME NEW k \in issued PROVE k.task \in Task
  BY <1>0, <1>2 DEF LeaseToken
<1>3. ASSUME NEW t \in Task, Enqueue(t) PROVE IInv'
  <2>1. PICK ready \in BOOLEAN : row' = [row EXCEPT ![t].status = "queued", ![t].ready = ready]
    BY <1>3 DEF Enqueue
  <2> DEFINE x == [row[t] EXCEPT !.status = "queued", !.ready = ready]
  <2>2. row' = [row EXCEPT ![t] = x]
    BY <2>1, <1>0 DEF TaskRow
  <2>3. RowFits(t, x, failures[t])
    BY <1>3, RowFacts DEF Enqueue, RowFits, TaskRow, Status, Active, Claimable
  <2> HIDE DEF x
  <2> QED BY <2>2, <2>3, <1>1, <1>3 DEF Enqueue
<1>4. ASSUME NEW t \in Task, LeaseExpires(t) PROVE IInv'
  <2> DEFINE x == [row[t] EXCEPT !.expired = TRUE]
  <2>1. row' = [row EXCEPT ![t] = x]
    BY <1>4 DEF LeaseExpires
  <2>2. RowFits(t, x, failures[t])
    BY <1>4, RowFacts DEF LeaseExpires, RowFits, TaskRow
  <2> HIDE DEF x
  <2> QED BY <2>1, <2>2, <1>1, <1>4 DEF LeaseExpires
<1>5. ASSUME NEW t \in Task, BecomesReady(t) PROVE IInv'
  <2> DEFINE x == [row[t] EXCEPT !.ready = TRUE]
  <2>1. row' = [row EXCEPT ![t] = x]
    BY <1>5 DEF BecomesReady
  <2>2. RowFits(t, x, failures[t])
    BY <1>5, RowFacts DEF BecomesReady, RowFits, TaskRow
  <2> HIDE DEF x
  <2> QED BY <2>1, <2>2, <1>1, <1>5 DEF BecomesReady
<1>6. ASSUME NEW t \in Task, Cancel(t) PROVE IInv'
  <2> DEFINE x == CancelledRow(row[t])
  <2>1. row' = [row EXCEPT ![t] = x]
    BY <1>6 DEF Cancel
  <2>2. RowFits(t, x, failures[t])
    BY <1>6, RowFacts
       DEF Cancel, CancelledRow, Unleased, RowFits, TaskRow, Status, Active, Claimable, Retriable
  <2> HIDE DEF x
  <2> QED BY <2>1, <2>2, <1>1, <1>6 DEF Cancel
<1>7. ASSUME NEW t \in Task, Retry(t) PROVE IInv'
  <2> DEFINE x == RetriedRow(row[t])
  <2>1. row' = [row EXCEPT ![t] = x]
    BY <1>7 DEF Retry
  <2>2. RowFits(t, x, 0)
    <3>1. /\ Unleased(row[t], "queued") \in TaskRow
          /\ Unleased(row[t], "queued").status = "queued"
          /\ Unleased(row[t], "queued").holder = NoHolder
          /\ ~Unleased(row[t], "queued").expired
          /\ Unleased(row[t], "queued").generation = row[t].generation
      BY RowFacts, UnleasedFields DEF Status, Claimable
    <3>2. /\ x \in TaskRow /\ x.status = "queued" /\ x.holder = NoHolder /\ ~x.expired
          /\ x.generation = row[t].generation /\ x.attempt = 0
      BY <3>1 DEF RetriedRow, TaskRow
    <3> HIDE DEF x
    <3> QED BY <3>2, BoundAssumption DEF RowFits, Active
  <2> HIDE DEF x
  <2> QED BY <2>1, <2>2, <1>7, RowStep DEF Retry
<1>8. ASSUME NEW k \in issued, Heartbeat(k) PROVE IInv'
  <2>1. PICK t \in Task : t = k.task
    BY <1>2
  <2> DEFINE x == [row[t] EXCEPT !.status = "running", !.expired = FALSE]
  <2>2. row' = [row EXCEPT ![t] = x]
    BY <1>8, <1>0, <2>1 DEF Heartbeat, TaskRow
  <2>3. RowFits(t, x, failures[t])
    <3>1. row[t] \in TaskRow /\ row[t].status \in {"leased", "running"}
      BY <1>8, <2>1, RowFacts DEF Heartbeat
    <3>2. /\ x \in TaskRow /\ x.status = "running" /\ x.holder = row[t].holder /\ ~x.expired
          /\ x.generation = row[t].generation /\ x.attempt = row[t].attempt
      BY <3>1 DEF TaskRow, Status, Active
    <3> HIDE DEF x
    <3> QED BY <3>1, <3>2, RowFacts DEF RowFits, Active
  <2> HIDE DEF x
  <2> QED BY <2>1, <2>2, <2>3, <1>1, <1>8 DEF Heartbeat
<1>9. ASSUME NEW k \in issued, Complete(k) PROVE IInv'
  <2>1. PICK t \in Task : t = k.task
    BY <1>2
  <2> DEFINE x == Unleased(row[t], "succeeded")
  <2>2. row' = [row EXCEPT ![t] = x]
    BY <1>9, <2>1 DEF Complete
  <2>3. RowFits(t, x, failures[t])
    BY <1>9, <2>1, TerminalFits DEF Complete, Active
  <2> HIDE DEF x
  <2> QED BY <2>1, <2>2, <2>3, <1>1, <1>9 DEF Complete
<1>10. ASSUME NEW k \in issued, NEW retryable \in BOOLEAN, Fail(k, retryable) PROVE IInv'
  <2>1. PICK t \in Task : t = k.task
    BY <1>2
  <2> DEFINE x == FailedRow(row[t], retryable)
             f == IF retryable THEN failures[t] + 1 ELSE failures[t]
  <2>2. row' = [row EXCEPT ![t] = x] /\ failures' = [failures EXCEPT ![t] = f]
    BY <1>10, <2>1 DEF Fail
  <2>3. RowFits(t, x, f)
    <3> DEFINE s == FailedStatus(row[t], retryable)
    <3>1. /\ s \in Status
          /\ s = "failed_retryable" => retryable /\ row[t].attempt < MaxAttempts
          /\ s = "dead_letter" => retryable /\ ~(row[t].attempt < MaxAttempts)
          /\ retryable => s \in {"failed_retryable", "dead_letter"}
          /\ s \notin Active
      BY DEF FailedStatus, Status, Active, Claimable, Retriable
    <3>2. /\ Unleased(row[t], s) \in TaskRow
          /\ Unleased(row[t], s).status = s
          /\ Unleased(row[t], s).holder = NoHolder
          /\ ~Unleased(row[t], s).expired
          /\ Unleased(row[t], s).generation = row[t].generation
          /\ Unleased(row[t], s).attempt = row[t].attempt
      BY <3>1, RowFacts, UnleasedFields
    <3>3. /\ x \in TaskRow /\ x.status = s /\ x.holder = NoHolder /\ ~x.expired
          /\ x.generation = row[t].generation /\ x.attempt = row[t].attempt
      <4> HIDE DEF s
      <4>1. x = [Unleased(row[t], s) EXCEPT !.ready = @ /\ s # "failed_retryable"]
        BY DEF FailedRow, s
      <4> QED BY <4>1, <3>2 DEF TaskRow
    <3>4. /\ failures[t] \in Nat /\ row[t].attempt \in Nat
          /\ failures[t] < row[t].attempt /\ failures[t] < MaxAttempts
      BY <1>10, <2>1, RowFacts DEF Fail, RowFits, TaskRow, Active
    <3> HIDE DEF x, s
    <3> QED BY <3>1, <3>3, <3>4, BoundAssumption DEF RowFits
  <2> HIDE DEF x, f
  <2> QED BY <2>1, <2>2, <2>3, <1>10, RowStep DEF Fail
<1>11. ASSUME NEW k \in issued, MarkCancelled(k) PROVE IInv'
  <2>1. PICK t \in Task : t = k.task
    BY <1>2
  <2> DEFINE x == Unleased(row[t], "cancelled")
  <2>2. row' = [row EXCEPT ![t] = x]
    BY <1>11, <2>1 DEF MarkCancelled
  <2>3. RowFits(t, x, failures[t])
    BY <1>11, <2>1, TerminalFits DEF MarkCancelled, Active
  <2> HIDE DEF x
  <2> QED BY <2>1, <2>2, <2>3, <1>1, <1>11 DEF MarkCancelled
<1>12. CASE UNCHANGED vars
  BY <1>12 DEF vars, IInv, TypeOK, LeaseColumns, ResourceExclusive, TokenHistory, OwnsLease,
               TokenOf, RetryBudget, FailureAccounting
<1> QED BY <1>3, <1>4, <1>5, <1>6, <1>7, <1>8, <1>9, <1>10, <1>11, <1>12, LeaseIInv
        DEF Next, TimePasses, ClientStep, HolderStep, LeaseStep

-----------------------------------------------------------------------------

\* The inductive invariant holds in every reachable state.
THEOREM Inductive == Spec => []IInv
BY InitIInv, NextIInv, PTL DEF Spec

\* Type correctness of the queue.
THEOREM TypeCorrect == Spec => []TypeOK
<1>1. IInv => TypeOK
  BY DEF IInv
<1> QED BY <1>1, Inductive, PTL

\* At most one task per resource is leased, running or cancelling, whatever
\* the workers do with old tokens and however leases expire.
THEOREM ResourceLock == Spec => []ResourceExclusive
<1>1. IInv => ResourceExclusive
  BY DEF IInv
<1> QED BY <1>1, Inductive, PTL

\* A lease token fences: only the newest token of a task can write.
THEOREM Fencing == Spec => []FencingUnique
<1>1. IInv => FencingUnique
  <2> SUFFICES ASSUME IInv, NEW k \in issued, OwnsLease(k)
               PROVE  /\ row[k.task].status \in Active
                      /\ \A j \in issued : j.task = k.task => j = k \/ j.generation < k.generation
    BY DEF FencingUnique
  <2>1. /\ k.task \in Task /\ k.holder \in Worker /\ k.generation \in Nat
        /\ \A j \in issued : j.generation \in Nat
    BY DEF IInv, TypeOK, LeaseToken
  <2>2. row[k.task].holder = k.holder /\ row[k.task].generation = k.generation
    BY DEF OwnsLease, TokenOf
  <2>3. row[k.task].status \in Active
    BY <2>1, <2>2, HolderAssumption DEF IInv, LeaseColumns
  <2>4. ASSUME NEW j \in issued, j.task = k.task
        PROVE  j = k \/ j.generation < k.generation
    BY <2>1, <2>2, <2>4 DEF IInv, TokenHistory
  <2> QED BY <2>3, <2>4
<1> QED BY <1>1, Inductive, PTL

\* The budget of retryable failures is never exceeded.
THEOREM Retries == Spec => []RetryBudget
<1>1. IInv => RetryBudget
  BY DEF IInv
<1> QED BY <1>1, Inductive, PTL

\* Generations are never reused, so no stale worker can hold a current token.
THEOREM Freshness == Spec => FreshToken
<1>1. IInv /\ [Next]_vars =>
        [\A k \in issued' \ issued :
            \A j \in issued : j.task = k.task => j.generation < k.generation]_vars
  <2> SUFFICES ASSUME IInv, Next, NEW k \in issued' \ issued, NEW j \in issued, j.task = k.task
               PROVE  j.generation < k.generation
    OBVIOUS
  <2>1. PICK w \in Worker, p \in Pool, n \in 1..Cardinality(Task) : Lease(w, p, n)
    BY DEF Next, TimePasses, ClientStep, HolderStep, LeaseStep, Enqueue, LeaseExpires,
           BecomesReady, Cancel, Retry, Heartbeat, Complete, Fail, MarkCancelled
  <2>2. PICK B \in SUBSET Task :
          issued' = issued \cup
            {[task |-> t, holder |-> w, generation |-> row[t].generation + 1] : t \in B}
    BY <2>1 DEF Lease, Batches, Candidates
  <2>3. k.generation = row[k.task].generation + 1
    BY <2>2
  <2>4. /\ j.task \in Task /\ j.generation \in Nat /\ row[j.task].generation \in Nat
        /\ j.generation <= row[j.task].generation
    BY DEF IInv, TypeOK, LeaseToken, TaskRow, TokenHistory
  <2> QED BY <2>3, <2>4
<1> QED BY <1>1, Inductive, PTL DEF Spec, FreshToken

-----------------------------------------------------------------------------

Kept(t) == row'[t].holder = row[t].holder /\ row'[t].generation = row[t].generation
Released(t) == row'[t].holder = NoHolder /\ row'[t].generation = row[t].generation
Taken(t) == /\ row'[t].holder \in Worker
            /\ row'[t].generation = row[t].generation + 1
            /\ row[t].status \in Active => row[t].expired

\* What one step may do to the lease of a task.
LEMMA StepOfOneTask ==
    ASSUME IInv, Next, NEW t \in Task
    PROVE  Kept(t) \/ Released(t) \/ Taken(t)
<1>0. row \in [Task -> TaskRow] /\ issued \subseteq LeaseToken /\ row[t] \in TaskRow
  BY DEF IInv, TypeOK
<1>1. ASSUME NEW u \in Task, NEW x, row' = [row EXCEPT ![u] = x],
             x.generation = row[u].generation, x.holder \in {row[u].holder, NoHolder}
      PROVE  Kept(t) \/ Released(t)
  BY <1>0, <1>1 DEF Kept, Released
<1>2. ASSUME NEW u \in Task, NEW s, row' = [row EXCEPT ![u] = Unleased(row[u], s)]
      PROVE  Kept(t) \/ Released(t)
  <2>1. Unleased(row[u], s).generation = row[u].generation /\ Unleased(row[u], s).holder = NoHolder
    BY <1>0 DEF Unleased, TaskRow
  <2> QED BY <1>1, <1>2, <2>1
<1>5. ASSUME NEW u \in Task, Enqueue(u) PROVE Kept(t) \/ Released(t)
  <2>1. PICK ready \in BOOLEAN : row' = [row EXCEPT ![u].status = "queued", ![u].ready = ready]
    BY <1>5 DEF Enqueue
  <2> QED BY <1>0, <2>1 DEF TaskRow, Kept
<1>6. ASSUME NEW u \in Task, LeaseExpires(u) \/ BecomesReady(u) PROVE Kept(t) \/ Released(t)
  BY <1>0, <1>6 DEF LeaseExpires, BecomesReady, TaskRow, Kept
<1>7. ASSUME NEW u \in Task, Cancel(u) PROVE Kept(t) \/ Released(t)
  <2>1. CASE row[u].status \in Claimable
    BY <1>2, <1>7, <2>1 DEF Cancel, CancelledRow
  <2>2. CASE row[u].status \notin Claimable
    <3> DEFINE x == [row[u] EXCEPT !.status = "cancelling"]
    <3>1. row' = [row EXCEPT ![u] = x]
      BY <1>7, <2>2 DEF Cancel, CancelledRow
    <3>2. x.generation = row[u].generation /\ x.holder = row[u].holder
      BY <1>0 DEF TaskRow
    <3> HIDE DEF x
    <3> QED BY <1>1, <3>1, <3>2
  <2> QED BY <2>1, <2>2
<1>8. ASSUME NEW u \in Task, Retry(u) PROVE Kept(t) \/ Released(t)
  <2>1. /\ RetriedRow(row[u]).generation = row[u].generation
        /\ RetriedRow(row[u]).holder = NoHolder
    BY <1>0 DEF RetriedRow, Unleased, TaskRow
  <2>2. row' = [row EXCEPT ![u] = RetriedRow(row[u])]
    BY <1>8 DEF Retry
  <2> QED BY <1>1, <2>1, <2>2
<1>9. ASSUME NEW k \in issued PROVE k.task \in Task
  BY <1>0 DEF LeaseToken
<1>10. ASSUME NEW k \in issued, Heartbeat(k) PROVE Kept(t) \/ Released(t)
  BY <1>0, <1>9, <1>10 DEF Heartbeat, TaskRow, Kept
<1>11. ASSUME NEW k \in issued, Complete(k) \/ MarkCancelled(k) PROVE Kept(t) \/ Released(t)
  BY <1>2, <1>9, <1>11 DEF Complete, MarkCancelled
<1>12. ASSUME NEW k \in issued, NEW retryable \in BOOLEAN, Fail(k, retryable) PROVE Kept(t) \/ Released(t)
  <2> DEFINE x == FailedRow(row[k.task], retryable)
  <2>1. x.generation = row[k.task].generation /\ x.holder = NoHolder
    BY <1>0, <1>9 DEF FailedRow, Unleased, TaskRow
  <2>2. row' = [row EXCEPT ![k.task] = x]
    BY <1>12 DEF Fail
  <2> HIDE DEF x
  <2> QED BY <1>1, <1>9, <2>1, <2>2
<1>3. ASSUME NEW w \in Worker, NEW p \in Pool, NEW n, Lease(w, p, n)
      PROVE  Kept(t) \/ Released(t) \/ Taken(t)
  <2>1. PICK S \in SUBSET Abandoned(row, p) : \E B \in Batches(Reclaim(row, S), p, n) :
          row' = [u \in Task |-> IF u \in B THEN LeasedRow(Reclaim(row, S)[u], w) ELSE Reclaim(row, S)[u]]
    BY <1>3 DEF Lease
  <2> DEFINE r == Reclaim(row, S)
  <2>2. PICK B \in Batches(r, p, n) : row' = [u \in Task |-> IF u \in B THEN LeasedRow(r[u], w) ELSE r[u]]
    BY <2>1
  <2>3. /\ r \in [Task -> TaskRow]
        /\ \/ row[t].status \in Active /\ row[t].expired /\ r[t] = Unleased(row[t], "queued")
           \/ r[t] = row[t]
    BY ReclaimType DEF IInv
  <2>4. r[t].generation = row[t].generation /\ r[t].holder \in {row[t].holder, NoHolder} /\ r[t] \in TaskRow
    <3> HIDE DEF r
    <3>1. row[t] \in TaskRow /\ r[t] \in TaskRow
      BY <1>0, <2>3
    <3>2. CASE r[t] = row[t]
      BY <3>1, <3>2
    <3>3. CASE r[t] = Unleased(row[t], "queued")
      BY <3>1, <3>3 DEF Unleased, TaskRow
    <3> QED BY <2>3, <3>2, <3>3
  <2> HIDE DEF r
  <2>5. CASE t \in B
    <3>1. r[t].status \in Claimable
      BY <2>5 DEF Batches, Candidates
    <3>2. row[t].status \in Active => row[t].expired
      BY <2>3, <3>1 DEF Claimable, Active
    <3>3. row'[t] = LeasedRow(r[t], w)
      BY <2>2, <2>5
    <3> QED BY <2>4, <3>2, <3>3, LeasedRowFields DEF Taken
  <2>6. CASE t \notin B
    BY <2>2, <2>4, <2>6 DEF Kept, Released
  <2> QED BY <2>5, <2>6
<1> QED BY <1>3, <1>5, <1>6, <1>7, <1>8, <1>10, <1>11, <1>12 DEF Next, TimePasses, ClientStep, HolderStep, LeaseStep

\* A worker keeps a lease that has not expired until it gives it up itself.
THEOREM LeaseKept == Spec => LiveLeaseKept
<1>1. IInv /\ IInv' /\ [Next]_vars =>
        [\A t \in Task :
            row[t].status \in Active /\ ~row[t].expired /\ row'[t].status \in Active
                => row'[t].holder = row[t].holder /\ row'[t].generation = row[t].generation]_vars
  <2> SUFFICES ASSUME IInv, IInv', Next, NEW t \in Task,
                      row[t].status \in Active, ~row[t].expired, row'[t].status \in Active
               PROVE  Kept(t)
    BY DEF Kept
  <2>1. ~Taken(t)
    BY DEF Taken
  <2>2. ~Released(t)
    BY DEF Released, IInv, LeaseColumns
  <2> QED BY <2>1, <2>2, StepOfOneTask
<1> QED BY <1>1, Inductive, PTL DEF Spec, LiveLeaseKept

\* The queue refines the abstract lease: the initial state maps to the initial
\* state, and every step to a turn or a stutter.
THEOREM RefinesFencing == Spec => QueueFences
<1>1. Init => Fenced!FencingInit
  BY DEF Init, NoRow, Fenced!FencingInit
<1>2. IInv /\ IInv' /\ [Next]_vars => [Fenced!FencingNext]_(Fenced!fencing)
  <2> SUFFICES ASSUME IInv, IInv', [Next]_vars PROVE [Fenced!FencingNext]_(Fenced!fencing)
    OBVIOUS
  <2>1. CASE UNCHANGED vars
    BY <2>1 DEF vars, Fenced!fencing
  <2>2. CASE Next
    <3> DEFINE holders == [t \in Task |-> row[t].holder]
               generations == [t \in Task |-> row[t].generation]
    <3>1. holders' \in [Task -> Worker \cup {NoHolder}] /\ generations' \in [Task -> Nat]
      BY DEF IInv, TypeOK, TaskRow
    <3>2. ASSUME NEW t \in Task
          PROVE  \/ holders'[t] \in {holders[t], NoHolder} /\ generations'[t] = generations[t]
                 \/ holders'[t] \in Worker /\ generations'[t] = generations[t] + 1
      BY <2>2, StepOfOneTask DEF Kept, Released, Taken
    <3>3. Fenced!FencingNext
      BY <3>1, <3>2 DEF Fenced!FencingNext, Fenced!Turn
    <3> QED BY <3>3
  <2> QED BY <2>1, <2>2
<1> QED BY <1>1, <1>2, Inductive, PTL DEF Spec, QueueFences, Fenced!FencingSpec

-----------------------------------------------------------------------------
(***************************************************************************)
(* The statements of the Lease transaction, interleaved with each other and *)
(* with every other transaction                                            *)
(***************************************************************************)

TxRow == [step : {"closed", "select", "lock", "update"}, limit : Nat, reclaimed : SUBSET Task,
          chosen : SUBSET Task, batch : SUBSET Task, advisory : SUBSET Resource]

Locks(x) == x.reclaimed \cup x.chosen \cup x.batch

FirstChosen(C) == CHOOSE t \in C : \A u \in C : Order[t] <= Order[u]

\* Someone holds the advisory lock of the task's resource, if it has one.
Guarded(x, t) == ResourceOf[t] = NoResource \/ ResourceOf[t] \in x.advisory

\* What an open transaction has done still stands on the committed rows.
TxStands(s, x, rows) ==
    /\ x.reclaimed \subseteq Abandoned(rows, s[2])
    /\ \A t \in x.chosen : PoolOf[t] = s[2]
    /\ x.batch \subseteq Candidates(Reclaim(rows, x.reclaimed), s[2])
    /\ \A t \in x.batch : rows[t].generation < MaxGeneration /\ Guarded(x, t)
    /\ \A t, u \in x.batch : t # u => ~SameResource(t, u)
    /\ x.step = "update" => x.chosen # {} /\ Guarded(x, FirstChosen(x.chosen))

\* The inductive invariant: locks exclude, and every transaction stands.
TxIInv ==
    /\ IInv
    /\ tx \in [Session -> TxRow]
    /\ \A s, q \in Session : s # q => /\ Locks(tx[s]) \cap Locks(tx[q]) = {}
                                      /\ tx[s].advisory \cap tx[q].advisory = {}
    /\ \A s \in Session : TxStands(s, tx[s], row)

-----------------------------------------------------------------------------

LEMMA FirstIsChosen ==
    ASSUME NEW C \in SUBSET Task, C # {}
    PROVE  FirstChosen(C) \in C
<1> DEFINE T == {n \in Nat : \E t \in C : n = Order[t]}
<1>1. T \in SUBSET Nat /\ T # {} /\ \A t \in C : Order[t] \in T
  BY OrderAssumption
<1>2. PICK n \in T : \A m \in T : n <= m
  BY <1>1, LeastOf
<1>3. PICK t \in C : n = Order[t]
  OBVIOUS
<1>4. \A u \in C : Order[t] <= Order[u]
  BY <1>1, <1>2, <1>3
<1> QED BY <1>3, <1>4 DEF FirstChosen

\* A closed transaction holds nothing.
LEMMA ClosedStands ==
    /\ Closed \in TxRow /\ Locks(Closed) = {} /\ Closed.advisory = {}
    /\ \A s, rows : TxStands(s, Closed, rows)
<1>1. Closed \in TxRow /\ Locks(Closed) = {} /\ Closed.advisory = {}
  BY DEF Closed, TxRow, Locks
<1>2. \A s, rows : TxStands(s, Closed, rows)
  BY DEF Closed, TxStands
<1> QED BY <1>1, <1>2

\* A transaction stands while its rows do, and while nothing becomes active
\* whose resource it has locked.
LEMMA StandsOn ==
    ASSUME NEW s \in Session, NEW x \in TxRow, NEW rows \in [Task -> TaskRow], NEW rows2 \in [Task -> TaskRow],
           TxStands(s, x, rows),
           \A t \in x.reclaimed \cup x.batch : rows2[t] = rows[t],
           \A u \in Task : rows2[u].status \in Active =>
              rows[u].status \in Active \/ ResourceOf[u] = NoResource \/ ResourceOf[u] \notin x.advisory
    PROVE  TxStands(s, x, rows2)
<1> DEFINE r == Reclaim(rows, x.reclaimed)
           r2 == Reclaim(rows2, x.reclaimed)
<1>0. x.reclaimed \subseteq Task /\ x.batch \subseteq Task
  BY DEF TxRow
<1>1. x.reclaimed \subseteq Abandoned(rows2, s[2])
  BY <1>0 DEF TxStands, Abandoned
<1>2. \A t \in x.reclaimed \cup x.batch : r2[t] = r[t]
  BY <1>0 DEF Reclaim
<1>3. \A t \in x.batch : /\ t \in Task /\ PoolOf[t] = s[2] /\ r[t].status \in Claimable /\ r[t].ready
                         /\ ResourceFree(r, t)
  BY <1>0 DEF TxStands, Candidates
<1>4. \A u \in Task : /\ u \in x.reclaimed => r2[u] = r[u]
                      /\ u \notin x.reclaimed => r2[u] = rows2[u] /\ r[u] = rows[u]
  BY <1>2 DEF Reclaim
<1> HIDE DEF r, r2
<1>5. ASSUME NEW t \in x.batch PROVE ResourceFree(r2, t)
  <2> SUFFICES ASSUME NEW u \in Task, u # t, SameResource(t, u), r2[u].status \in Active PROVE FALSE
    BY DEF ResourceFree
  <2>1. r[u].status \notin Active
    BY <1>3 DEF ResourceFree
  <2>2. u \notin x.reclaimed /\ rows2[u].status \in Active /\ rows[u].status \notin Active
    BY <1>4, <2>1
  <2>3. ResourceOf[u] # NoResource /\ ResourceOf[u] = ResourceOf[t]
    BY DEF SameResource
  <2>4. ResourceOf[t] \in x.advisory
    BY <2>3 DEF TxStands, Guarded
  <2> QED BY <2>2, <2>3, <2>4
<1>6. x.batch \subseteq Candidates(r2, s[2])
  BY <1>2, <1>3, <1>5 DEF Candidates
<1>7. \A t \in x.batch : rows2[t].generation < MaxGeneration /\ Guarded(x, t)
  BY DEF TxStands
<1> QED BY <1>1, <1>6, <1>7 DEF TxStands, r2

\* A statement that changes one transaction and no row.
LEMMA StatementKeeps ==
    ASSUME TxIInv, NEW s \in Session, NEW x \in TxRow, tx' = [tx EXCEPT ![s] = x], UNCHANGED vars,
           TxStands(s, x, row),
           \A q \in Session \ {s} : Locks(x) \cap Locks(tx[q]) = {} /\ x.advisory \cap tx[q].advisory = {}
    PROVE  TxIInv'
<1>1. /\ tx' \in [Session -> TxRow] /\ tx'[s] = x /\ \A q \in Session : q # s => tx'[q] = tx[q]
      /\ row' = row
  BY DEF TxIInv, vars
<1>2. IInv'
  BY NextIInv DEF TxIInv, vars
<1>3. \A q, v \in Session : q # v => /\ Locks(tx'[q]) \cap Locks(tx'[v]) = {}
                                      /\ tx'[q].advisory \cap tx'[v].advisory = {}
  BY <1>1 DEF TxIInv
<1>4. \A q \in Session : TxStands(q, tx'[q], row')
  BY <1>1 DEF TxIInv
<1> QED BY <1>1, <1>2, <1>3, <1>4 DEF TxIInv

LEMMA LocksFacts ==
    ASSUME TxIInv, NEW s \in Session
    PROVE  /\ tx[s] \in TxRow /\ RowLocks(s) = Locks(tx[s]) /\ TxStands(s, tx[s], row)
           /\ NextChosen(s) = FirstChosen(tx[s].chosen)
BY DEF TxIInv, RowLocks, Locks, NextChosen, FirstChosen

-----------------------------------------------------------------------------
(***************************************************************************)
(* The statements before the commit                                        *)
(***************************************************************************)

LEMMA CloseKeeps ==
    ASSUME TxIInv, NEW s \in Session, tx' = [tx EXCEPT ![s] = Closed], UNCHANGED vars
    PROVE  TxIInv'
BY ClosedStands, StatementKeeps

LEMMA ReclaimKeeps ==
    ASSUME TxIInv, NEW s \in Session, NEW n \in Limit, ReclaimStatement(s, n)
    PROVE  TxIInv'
<1> DEFINE gone == Abandoned(row, s[2])
           x == [Closed EXCEPT !.step = "select", !.limit = n, !.reclaimed = gone]
<1>1. tx' = [tx EXCEPT ![s] = x] /\ UNCHANGED vars /\ \A t \in gone : Unlocked(t)
  BY DEF ReclaimStatement
<1>2. gone \in SUBSET Task /\ n \in Nat
  BY SessionAssumption DEF Abandoned
<1>3. \A q \in Session : Locks(tx[q]) \cap gone = {}
  BY <1>1, LocksFacts DEF Unlocked
<1> HIDE DEF gone
<1>4. /\ x \in TxRow /\ x.reclaimed = gone /\ x.step = "select"
      /\ x.chosen = {} /\ x.batch = {} /\ x.advisory = {}
  BY <1>2 DEF TxRow, Closed
<1> HIDE DEF x
<1>5. TxStands(s, x, row) /\ Locks(x) = gone
  BY <1>4 DEF TxStands, Locks, gone
<1> QED BY <1>1, <1>3, <1>4, <1>5, StatementKeeps

LEMMA SelectKeeps ==
    ASSUME TxIInv, NEW s \in Session, SelectStatement(s)
    PROVE  TxIInv'
<1> DEFINE page == Page({t \in Ranked(View(s), s[2]) : ~LockedByOther(s, t)}, tx[s].limit)
           x == [[tx[s] EXCEPT !.step = "lock"] EXCEPT !.chosen = page]
<1>1. UNCHANGED vars /\ (tx' = [tx EXCEPT ![s] = Closed] \/ tx' = [tx EXCEPT ![s] = x])
  BY LocksFacts DEF SelectStatement, TxIInv
<1>2. \A t \in page : t \in Task /\ PoolOf[t] = s[2] /\ ~LockedByOther(s, t)
  BY DEF Page, Ranked, Candidates
<1> HIDE DEF page
<1>3. tx[s] \in TxRow /\ TxStands(s, tx[s], row)
  BY LocksFacts
<1>4. /\ x \in TxRow /\ x.reclaimed = tx[s].reclaimed /\ x.batch = tx[s].batch /\ x.advisory = tx[s].advisory
      /\ x.chosen = page /\ x.step = "lock"
  BY <1>2, <1>3 DEF TxRow
<1> HIDE DEF x
<1>5. TxStands(s, x, row)
  BY <1>2, <1>3, <1>4 DEF TxStands, Guarded
<1>6. ASSUME NEW q \in Session \ {s}
      PROVE  Locks(x) \cap Locks(tx[q]) = {} /\ x.advisory \cap tx[q].advisory = {}
  <2>1. page \cap Locks(tx[q]) = {}
    BY <1>2, LocksFacts DEF LockedByOther
  <2>2. Locks(tx[s]) \cap Locks(tx[q]) = {} /\ tx[s].advisory \cap tx[q].advisory = {}
    BY DEF TxIInv
  <2> QED BY <1>4, <2>1, <2>2 DEF Locks
<1> QED BY <1>1, <1>4, <1>5, <1>6, CloseKeeps, StatementKeeps

LEMMA LockKeeps ==
    ASSUME TxIInv, NEW s \in Session, LockStatement(s)
    PROVE  TxIInv'
<1> DEFINE t == FirstChosen(tx[s].chosen)
<1>0. tx[s] \in TxRow /\ TxStands(s, tx[s], row) /\ NextChosen(s) = t
  BY LocksFacts
<1>1. tx[s].step = "lock" /\ tx[s].chosen # {} /\ UNCHANGED vars /\ t \in tx[s].chosen /\ t \in Task
  BY <1>0, FirstIsChosen DEF LockStatement, TxRow
<1>o. \A q \in Session \ {s} : /\ Locks(tx[s]) \cap Locks(tx[q]) = {}
                              /\ tx[s].advisory \cap tx[q].advisory = {}
  BY DEF TxIInv
<1>2. CASE AdvisoryTaken(s, t)
  <2> DEFINE x == [tx[s] EXCEPT !.chosen = tx[s].chosen \ {t}]
  <2>1. tx' = [tx EXCEPT ![s] = x]
    BY <1>0, <1>2 DEF LockStatement
  <2>2. /\ x \in TxRow /\ x.reclaimed = tx[s].reclaimed /\ x.batch = tx[s].batch /\ x.advisory = tx[s].advisory
        /\ x.chosen \subseteq tx[s].chosen /\ x.step = "lock"
    BY <1>0, <1>1 DEF TxRow
  <2> HIDE DEF x
  <2>3. TxStands(s, x, row)
    BY <1>0, <2>2 DEF TxStands, Guarded
  <2>4. Locks(x) \subseteq Locks(tx[s])
    BY <2>2 DEF Locks
  <2> QED BY <1>1, <1>o, <2>1, <2>2, <2>3, <2>4, StatementKeeps
<1>3. CASE ~AdvisoryTaken(s, t)
  <2> DEFINE mine == {ResourceOf[t]} \ {NoResource}
             x == [[tx[s] EXCEPT !.step = "update"] EXCEPT !.advisory = tx[s].advisory \cup mine]
  <2>1. tx' = [tx EXCEPT ![s] = x]
    BY <1>0, <1>3 DEF LockStatement, TxIInv
  <2>2. mine \subseteq Resource
    BY <1>1, ColumnAssumption
  <2>3. /\ x \in TxRow /\ x.reclaimed = tx[s].reclaimed /\ x.batch = tx[s].batch /\ x.chosen = tx[s].chosen
        /\ x.advisory = tx[s].advisory \cup mine /\ x.step = "update"
    BY <1>0, <2>2 DEF TxRow
  <2>4. \A q \in Session \ {s} : mine \cap tx[q].advisory = {}
    BY <1>3 DEF AdvisoryTaken
  <2>5. Guarded(x, t)
    BY <2>3 DEF Guarded
  <2> HIDE DEF x, mine
  <2>6. TxStands(s, x, row)
    BY <1>0, <1>1, <2>3, <2>5 DEF TxStands, Guarded
  <2>7. Locks(x) = Locks(tx[s])
    BY <2>3 DEF Locks
  <2> QED BY <1>1, <1>o, <2>1, <2>3, <2>4, <2>6, <2>7, StatementKeeps
<1> QED BY <1>2, <1>3

LEMMA UpdateKeeps ==
    ASSUME TxIInv, NEW s \in Session, UpdateStatement(s)
    PROVE  TxIInv'
<1> DEFINE t == FirstChosen(tx[s].chosen)
           batch == IF StillLeasable(s, t) THEN tx[s].batch \cup {t} ELSE tx[s].batch
           x == [[[tx[s] EXCEPT !.step = "lock"] EXCEPT !.chosen = tx[s].chosen \ {t}] EXCEPT !.batch = batch]
           r == Reclaim(row, tx[s].reclaimed)
<1>0. tx[s] \in TxRow /\ TxStands(s, tx[s], row) /\ NextChosen(s) = t /\ row \in [Task -> TaskRow]
  BY LocksFacts DEF TxIInv, IInv, TypeOK
<1>1. tx[s].step = "update" /\ UNCHANGED vars /\ row[t].generation < MaxGeneration
  BY <1>0 DEF UpdateStatement
<1>2. t \in tx[s].chosen /\ t \in Task /\ Guarded(tx[s], t) /\ PoolOf[t] = s[2]
  BY <1>0, <1>1, FirstIsChosen DEF TxStands, TxRow
<1>3. tx' = [tx EXCEPT ![s] = x]
  BY <1>0 DEF UpdateStatement, TxIInv
<1>4. /\ tx[s].batch \subseteq Task /\ tx[s].chosen \subseteq Task /\ batch \subseteq tx[s].batch \cup {t}
      /\ t \in batch /\ t \notin tx[s].batch => StillLeasable(s, t)
  BY <1>0 DEF TxRow
<1> HIDE DEF t, batch
<1>5. /\ x \in TxRow /\ x.reclaimed = tx[s].reclaimed /\ x.advisory = tx[s].advisory /\ x.batch = batch
      /\ x.chosen = tx[s].chosen \ {t} /\ x.step = "lock"
  BY <1>0, <1>2, <1>4 DEF TxRow
<1> HIDE DEF x
<1>6. \A u \in Task : View(s)[u] = IF u \in tx[s].batch THEN LeasedRow(r[u], s[1]) ELSE r[u]
  BY DEF View
<1>7. tx[s].reclaimed \subseteq Abandoned(row, s[2])
  BY <1>0 DEF TxStands
<1>8. r \in [Task -> TaskRow]
  <2>1. s[2] \in Pool
    BY SessionAssumption
  <2> QED BY <1>7, <2>1, ReclaimType DEF TxIInv, IInv
<1>9. \A u \in tx[s].batch : View(s)[u].status = "leased"
  <2>1. s[1] \in Worker
    BY SessionAssumption
  <2> QED BY <1>4, <1>6, <1>8, <2>1, LeasedRowFields
<1> HIDE DEF r
<1>10. ASSUME StillLeasable(s, t), t \notin tx[s].batch
       PROVE  /\ t \in Candidates(r, s[2])
              /\ \A u \in tx[s].batch : ~SameResource(t, u) /\ ~SameResource(u, t)
  <2>1. r[t].status \in Claimable /\ r[t].ready /\ ResourceFree(View(s), t)
    BY <1>2, <1>6, <1>10 DEF StillLeasable
  <2>2. \A u \in tx[s].batch : ~SameResource(t, u)
    BY <1>4, <1>9, <1>10, <2>1 DEF ResourceFree, Active
  <2>3. ResourceFree(r, t)
    BY <1>6, <2>1, <2>2 DEF ResourceFree
  <2> QED BY <1>2, <2>1, <2>2, <2>3, SameResourceSymmetric DEF Candidates
<1>11. batch \subseteq Candidates(r, s[2])
  BY <1>0, <1>4, <1>10 DEF TxStands, r
<1>12. \A u \in batch : row[u].generation < MaxGeneration /\ Guarded(x, u)
  BY <1>0, <1>1, <1>2, <1>4, <1>5 DEF TxStands, Guarded
<1>13. \A u, v \in batch : u # v => ~SameResource(u, v)
  BY <1>0, <1>4, <1>10 DEF TxStands
<1>14. TxStands(s, x, row)
  <2>1. x.reclaimed \subseteq Abandoned(row, s[2]) /\ \A u \in x.chosen : PoolOf[u] = s[2]
    BY <1>0, <1>5 DEF TxStands
  <2> QED BY <1>5, <1>11, <1>12, <1>13, <2>1 DEF TxStands, r
<1>15. Locks(x) \subseteq Locks(tx[s])
  BY <1>2, <1>4, <1>5 DEF Locks
<1>16. \A q \in Session \ {s} : /\ Locks(tx[s]) \cap Locks(tx[q]) = {}
                                /\ tx[s].advisory \cap tx[q].advisory = {}
  BY DEF TxIInv
<1> QED BY <1>1, <1>3, <1>5, <1>14, <1>15, <1>16, StatementKeeps

-----------------------------------------------------------------------------
(***************************************************************************)
(* The steps that change rows                                              *)
(***************************************************************************)

\* The commit of a transaction that leased something is the atomic Lease.
LEMMA CommitIsLease ==
    ASSUME TxIInv, NEW s \in Session, CommitStatement(s), tx[s].batch # {}
    PROVE  Next
<1> DEFINE S == tx[s].reclaimed
           r == Reclaim(row, S)
           B == tx[s].batch
           n == Cardinality(B)
<1>0. TxStands(s, tx[s], row) /\ tx[s] \in TxRow /\ row \in [Task -> TaskRow]
  BY LocksFacts DEF TxIInv, IInv, TypeOK
<1>1. s[1] \in Worker /\ s[2] \in Pool
  BY SessionAssumption
<1>2. S \in SUBSET Abandoned(row, s[2]) /\ B \subseteq Candidates(r, s[2]) /\ B \subseteq Task
  BY <1>0 DEF TxStands, TxRow
<1>3. IsFiniteSet(B) /\ n \in 1..Cardinality(Task) /\ n \in Nat
  <2>1. IsFiniteSet(B) /\ Cardinality(B) \in Nat /\ Cardinality(B) <= Cardinality(Task) /\ Cardinality(Task) \in Nat
    BY <1>2, TableAssumption, FS_Subset, FS_CardinalityType
  <2>2. Cardinality(B) # 0
    BY <2>1, FS_EmptySet
  <2> QED BY <2>1, <2>2
<1>4. B \in Batches(r, s[2], n) \ {{}}
  BY <1>0, <1>2, <1>3 DEF Batches, TxStands
<1>5. /\ row' = [t \in Task |-> IF t \in B THEN LeasedRow(r[t], s[1]) ELSE r[t]]
      /\ issued' = issued \cup {[task |-> t, holder |-> s[1], generation |-> row[t].generation + 1] : t \in B}
      /\ UNCHANGED failures
  BY DEF CommitStatement, View
<1>6. ASSUME NEW t \in B PROVE r[t].generation < MaxGeneration
  <2>1. t \in Task /\ row[t].generation < MaxGeneration
    BY <1>0, <1>2 DEF TxStands
  <2>2. r[t] = row[t] \/ r[t] = Unleased(row[t], "queued")
    BY <2>1 DEF Reclaim
  <2>3. Unleased(row[t], "queued").generation = row[t].generation
    BY <1>0, <2>1 DEF Unleased, TaskRow
  <2> QED BY <2>1, <2>2, <2>3
<1> HIDE DEF S, B, n
<1>7. Lease(s[1], s[2], n)
  BY <1>2, <1>4, <1>5, <1>6 DEF Lease
<1> QED BY <1>1, <1>3, <1>7 DEF Next, LeaseStep

\* The other transactions stand when one commits: their rows are locked, and
\* so are the resources they lease for.
LEMMA CommitKeeps ==
    ASSUME TxIInv, NEW s \in Session, CommitStatement(s), tx[s].batch # {}
    PROVE  TxIInv'
<1>1. IInv'
  BY CommitIsLease, NextIInv DEF TxIInv
<1>0. /\ TxStands(s, tx[s], row) /\ tx[s] \in TxRow /\ row \in [Task -> TaskRow] /\ row' \in [Task -> TaskRow]
      /\ tx \in [Session -> TxRow]
  BY <1>1, LocksFacts DEF TxIInv, IInv, TypeOK
<1>2. /\ tx' \in [Session -> TxRow] /\ tx'[s] = Closed /\ \A q \in Session : q # s => tx'[q] = tx[q]
  BY <1>0, ClosedStands DEF CommitStatement
<1>3. \A t \in Task : row'[t] = IF t \in tx[s].batch THEN LeasedRow(Reclaim(row, tx[s].reclaimed)[t], s[1])
                                ELSE IF t \in tx[s].reclaimed THEN Unleased(row[t], "queued") ELSE row[t]
  BY DEF CommitStatement, View, Reclaim
<1>4. ASSUME NEW q \in Session, q # s PROVE TxStands(q, tx[q], row')
  <2>0. /\ TxStands(q, tx[q], row) /\ tx[q] \in TxRow
        /\ Locks(tx[q]) \cap Locks(tx[s]) = {} /\ tx[q].advisory \cap tx[s].advisory = {}
    BY <1>4, LocksFacts DEF TxIInv
  <2>1. \A t \in tx[q].reclaimed \cup tx[q].batch : t \in Task /\ t \notin tx[s].batch /\ t \notin tx[s].reclaimed
    BY <2>0 DEF Locks, TxRow
  <2>2. \A t \in tx[q].reclaimed \cup tx[q].batch : row'[t] = row[t]
    BY <1>3, <2>1
  <2>3. ASSUME NEW u \in Task, row'[u].status \in Active
        PROVE  row[u].status \in Active \/ ResourceOf[u] = NoResource \/ ResourceOf[u] \notin tx[q].advisory
    <3>1. CASE u \in tx[s].batch
      BY <1>0, <2>0, <3>1 DEF TxStands, Guarded
    <3>2. CASE u \notin tx[s].batch /\ u \in tx[s].reclaimed
      <4>1. row'[u].status = "queued"
        BY <1>0, <1>3, <3>2 DEF Unleased, TaskRow
      <4> QED BY <2>3, <4>1 DEF Active
    <3>3. CASE u \notin tx[s].batch /\ u \notin tx[s].reclaimed
      BY <1>3, <2>3, <3>3
    <3> QED BY <3>1, <3>2, <3>3
  <2> QED BY <1>0, <2>0, <2>2, <2>3, StandsOn
<1>5. \A q \in Session : TxStands(q, tx'[q], row')
  BY <1>2, <1>4, ClosedStands
<1>6. \A q, v \in Session : q # v => /\ Locks(tx'[q]) \cap Locks(tx'[v]) = {}
                                      /\ tx'[q].advisory \cap tx'[v].advisory = {}
  BY <1>2, ClosedStands DEF TxIInv
<1> QED BY <1>1, <1>2, <1>5, <1>6 DEF TxIInv

\* A step of the queue that leaves the rows of every open transaction alone
\* and activates nothing.
LEMMA RowStepKeeps ==
    ASSUME TxIInv, Next, UNCHANGED tx,
           \A q \in Session : \A t \in tx[q].reclaimed \cup tx[q].batch : row'[t] = row[t],
           \A u \in Task : row'[u].status \in Active => row[u].status \in Active
    PROVE  TxIInv'
<1>1. IInv'
  BY NextIInv DEF TxIInv
<1>2. row \in [Task -> TaskRow] /\ row' \in [Task -> TaskRow]
  BY <1>1 DEF TxIInv, IInv, TypeOK
<1>3. ASSUME NEW q \in Session PROVE TxStands(q, tx[q], row')
  BY <1>2, LocksFacts, StandsOn
<1> QED BY <1>1, <1>3 DEF TxIInv

LEMMA SingleRowKeeps ==
    ASSUME TxIInv, NEW t \in Task, SingleRow(t)
    PROVE  Next /\ TxIInv'
<1>0. /\ row \in [Task -> TaskRow] /\ row[t] \in TaskRow /\ issued \subseteq LeaseToken
      /\ tx' = tx /\ tx \in [Session -> TxRow]
  BY DEF TxIInv, IInv, TypeOK, SingleRow
<1>1. Next
  BY DEF SingleRow, Next, ClientStep, HolderStep
<1>2. \A u \in Task : u # t => row'[u] = row[u]
  BY <1>0 DEF SingleRow, Enqueue, Cancel, Retry, Heartbeat, Complete, MarkCancelled, Fail
<1>3. \A q \in Session : t \notin Locks(tx[q])
  BY LocksFacts DEF SingleRow, Unlocked
<1>4. \A q \in Session : \A u \in tx[q].reclaimed \cup tx[q].batch : row'[u] = row[u]
  BY <1>0, <1>2, <1>3 DEF Locks, TxRow
<1>5. row'[t].status \in Active => row[t].status \in Active
  <2>1. CASE Enqueue(t)
    <3>1. row'[t].status = "queued"
      BY <1>0, <2>1 DEF Enqueue, TaskRow
    <3> QED BY <3>1 DEF Active
  <2>2. CASE Cancel(t)
    <3>1. CASE row[t].status \in Claimable
      <4>1. row'[t] = Unleased(row[t], "cancelled")
        BY <1>0, <2>2, <3>1 DEF Cancel, CancelledRow
      <4>2. row'[t].status = "cancelled"
        BY <1>0, <4>1 DEF Unleased, TaskRow
      <4> QED BY <4>2 DEF Active
    <3>2. CASE row[t].status \notin Claimable
      BY <2>2, <3>2 DEF Cancel, Active
    <3> QED BY <3>1, <3>2
  <2>3. CASE Retry(t)
    <3>1. row'[t] = RetriedRow(row[t])
      BY <1>0, <2>3 DEF Retry
    <3>2. row'[t].status = "queued"
      BY <1>0, <3>1 DEF RetriedRow, Unleased, TaskRow
    <3> QED BY <3>2 DEF Active
  <2>4. ASSUME NEW k \in issued, k.task = t, Heartbeat(k) \/ Complete(k) \/ MarkCancelled(k)
        PROVE  row[t].status \in Active
    BY <2>4 DEF Heartbeat, Complete, MarkCancelled, Active
  <2>5. ASSUME NEW k \in issued, k.task = t, NEW retryable \in BOOLEAN, Fail(k, retryable)
        PROVE  row[t].status \in Active
    BY <2>5 DEF Fail, Active
  <2> QED BY <2>1, <2>2, <2>3, <2>4, <2>5 DEF SingleRow
<1> QED BY <1>0, <1>1, <1>2, <1>4, <1>5, RowStepKeeps

\* The clock changes nothing that a transaction has built on.
LEMMA ClockKeeps ==
    ASSUME TxIInv, Clock
    PROVE  Next /\ TxIInv'
<1>1. PICK t \in Task : LeaseExpires(t) \/ BecomesReady(t)
  BY DEF Clock, TimePasses
<1>0. /\ row \in [Task -> TaskRow] /\ row[t] \in TaskRow /\ tx' = tx /\ tx \in [Session -> TxRow]
  BY DEF TxIInv, IInv, TypeOK, Clock
<1>2. Next
  BY DEF Clock, Next
<1>3. /\ \A u \in Task : u # t => row'[u] = row[u]
      /\ row'[t].status = row[t].status
      /\ \/ row[t].status \in Active /\ ~row[t].expired
         \/ row[t].status \in Claimable /\ ~row[t].ready
  BY <1>0, <1>1 DEF LeaseExpires, BecomesReady, TaskRow
<1>4. ASSUME NEW q \in Session PROVE t \notin tx[q].reclaimed /\ t \notin tx[q].batch
  <2>0. TxStands(q, tx[q], row)
    BY LocksFacts
  <2>1. t \notin tx[q].reclaimed
    BY <1>3, <2>0 DEF TxStands, Abandoned, Active, Claimable
  <2>2. Reclaim(row, tx[q].reclaimed)[t] = row[t]
    BY <2>1 DEF Reclaim
  <2> QED BY <1>3, <2>0, <2>1, <2>2 DEF TxStands, Candidates, Active, Claimable
<1>5. \A q \in Session : \A u \in tx[q].reclaimed \cup tx[q].batch : row'[u] = row[u]
  BY <1>0, <1>3, <1>4 DEF TxRow
<1> QED BY <1>0, <1>2, <1>3, <1>5, RowStepKeeps

-----------------------------------------------------------------------------

\* Every statement of an open transaction is invisible, and its commit one step.
LEMMA TxStep == TxIInv /\ [TxNext]_txVars => TxIInv' /\ [Next]_vars
<1> SUFFICES ASSUME TxIInv, [TxNext]_txVars PROVE TxIInv' /\ [Next]_vars
  OBVIOUS
<1>1. ASSUME NEW s \in Session, LeaseStatement(s) PROVE TxIInv' /\ [Next]_vars
  <2>1. ASSUME NEW n \in Limit, ReclaimStatement(s, n) PROVE TxIInv' /\ UNCHANGED vars
    BY <2>1, ReclaimKeeps DEF ReclaimStatement
  <2>2. CASE SelectStatement(s)
    BY <2>2, SelectKeeps DEF SelectStatement
  <2>3. CASE LockStatement(s)
    BY <2>3, LockKeeps DEF LockStatement
  <2>4. CASE UpdateStatement(s)
    BY <2>4, UpdateKeeps DEF UpdateStatement
  <2>5. CASE CommitStatement(s) /\ tx[s].batch # {}
    BY <2>5, CommitKeeps, CommitIsLease
  <2>6. CASE CommitStatement(s) /\ tx[s].batch = {}
    <3>1. UNCHANGED vars /\ tx' = [tx EXCEPT ![s] = Closed]
      BY <2>6 DEF CommitStatement, vars
    <3> QED BY <3>1, CloseKeeps
  <2>7. CASE Rollback(s)
    BY <2>7, CloseKeeps DEF Rollback
  <2> QED BY <1>1, <2>1, <2>2, <2>3, <2>4, <2>5, <2>6, <2>7 DEF LeaseStatement
<1>2. ASSUME NEW t \in Task, SingleRow(t) PROVE TxIInv' /\ [Next]_vars
  BY <1>2, SingleRowKeeps
<1>3. CASE Clock
  BY <1>3, ClockKeeps
<1>4. CASE UNCHANGED txVars
  <2>1. UNCHANGED vars /\ tx' = tx /\ row' = row
    BY <1>4 DEF txVars, vars
  <2>2. IInv'
    BY <2>1, NextIInv DEF TxIInv
  <2> QED BY <2>1, <2>2 DEF TxIInv
<1> QED BY <1>1, <1>2, <1>3, <1>4 DEF TxNext

\* What the code does statement by statement, with row locks, advisory locks
\* and rechecks, is the atomic Lease the other proofs speak of.
THEOREM TransactionImplementsQueue == TxSpec => ImplementsQueue
<1>1. TxInit => Init /\ TxIInv
  <2> SUFFICES ASSUME TxInit PROVE TxIInv
    BY DEF TxInit
  <2>1. IInv
    BY InitIInv DEF TxInit
  <2>2. tx \in [Session -> TxRow] /\ \A s \in Session : tx[s] = Closed
    BY ClosedStands DEF TxInit
  <2> QED BY <2>1, <2>2, ClosedStands DEF TxIInv
<1> QED BY <1>1, TxStep, PTL DEF TxSpec, ImplementsQueue, Spec

-----------------------------------------------------------------------------
(***************************************************************************)
(* The worker processes, in every setting                                  *)
(***************************************************************************)

\* The phase of an execution tells what its handler has answered so far.
ExecIsSound(e) ==
    /\ e \in Execution
    /\ e.phase # "dropped"
    /\ e.phase = "completing" => e.outcome = "ok"
    /\ e.phase \in {"unhandled", "starting", "handling"} => e.outcome = "none"

BusyPhase == Phase \ {"unhandled", "dropped", "over"}

\* While leases are renewed in time, a handler with a live context works under
\* a lease that is its own and has not expired.
HandlerHolds(k) ==
    setting.expires # "anytime" /\ LiveHandler(k) => OwnsLease(k) /\ ~row[k.task].expired

\* The inductive invariant.
PoolIInv ==
    /\ IInv
    /\ setting \in SettingType
    /\ worker \in [Worker -> {"up", "stopping", "down"}]
    /\ IsFiniteSet(issued)
    /\ exec \in [issued -> Execution]
    /\ \A k \in issued : ExecIsSound(exec[k])
    /\ \A w \in Worker, p \in Pool : Cardinality(Busy(w, p)) <= Concurrency[p]
    /\ \A k \in issued : HandlerHolds(k)
    /\ SuccessIsEarned

-----------------------------------------------------------------------------
(***************************************************************************)
(* The worker processes are callers of the queue: a step of theirs is a    *)
(* step of the queue or leaves the table alone.                            *)
(***************************************************************************)

\* A lease of any size is a lease of as many tasks as it takes.
LEMMA LeaseIsQueueStep ==
    ASSUME NEW w \in Worker, NEW p \in Pool, NEW n \in Nat, Lease(w, p, n)
    PROVE  Next
<1>1. PICK S \in SUBSET Abandoned(row, p) : \E B \in Batches(Reclaim(row, S), p, n) \ {{}} :
          /\ \A t \in B : Reclaim(row, S)[t].generation < MaxGeneration
          /\ row' = [t \in Task |-> IF t \in B THEN LeasedRow(Reclaim(row, S)[t], w) ELSE Reclaim(row, S)[t]]
          /\ issued' = issued \cup
               {[task |-> t, holder |-> w, generation |-> row[t].generation + 1] : t \in B}
          /\ UNCHANGED failures
  BY DEF Lease
<1> DEFINE r == Reclaim(row, S)
<1>2. PICK B \in Batches(r, p, n) \ {{}} :
          /\ \A t \in B : r[t].generation < MaxGeneration
          /\ row' = [t \in Task |-> IF t \in B THEN LeasedRow(r[t], w) ELSE r[t]]
          /\ issued' = issued \cup
               {[task |-> t, holder |-> w, generation |-> row[t].generation + 1] : t \in B}
          /\ UNCHANGED failures
  BY <1>1
<1>3. B \in SUBSET Task /\ B # {} /\ \A t, u \in B : t # u => ~SameResource(t, u)
  BY <1>2 DEF Batches, Candidates
<1>4. /\ IsFiniteSet(B) /\ Cardinality(B) \in Nat /\ Cardinality(Task) \in Nat
      /\ Cardinality(B) <= Cardinality(Task) /\ Cardinality(B) # 0
  BY <1>3, TableAssumption, FS_Subset, FS_CardinalityType, FS_EmptySet
<1>5. Cardinality(B) \in 1..Cardinality(Task)
  BY <1>4
<1>6. B \in Batches(r, p, Cardinality(B)) \ {{}}
  <2>1. B \in SUBSET Candidates(r, p) /\ Cardinality(B) <= Cardinality(B)
    BY <1>2, <1>4 DEF Batches
  <2> QED BY <1>3, <2>1 DEF Batches
<1>7. Lease(w, p, Cardinality(B))
  BY <1>2, <1>6 DEF Lease
<1> QED BY <1>5, <1>7 DEF Next, LeaseStep

LEMMA SlotsAreNatural ==
    ASSUME PoolIInv, NEW w \in Worker, NEW p \in Pool
    PROVE  /\ IsFiniteSet(Busy(w, p)) /\ Cardinality(Busy(w, p)) \in Nat
           /\ Concurrency[p] \in Nat /\ AvailableSlots(w, p) \in Nat
<1>1. Busy(w, p) \subseteq issued
  BY DEF Busy, Executions, PoolIInv
<1>2. IsFiniteSet(Busy(w, p)) /\ Cardinality(Busy(w, p)) \in Nat
  BY <1>1, FS_Subset, FS_CardinalityType DEF PoolIInv
<1>3. Concurrency[p] \in Nat /\ Cardinality(Busy(w, p)) <= Concurrency[p]
  BY WorkerAssumption DEF PoolIInv
<1> QED BY <1>2, <1>3 DEF AvailableSlots

LEMMA PoolStepIsQueueStep == PoolIInv /\ [PoolNext]_allVars => [Next]_vars
<1> SUFFICES ASSUME PoolIInv, PoolNext, ~UNCHANGED vars
             PROVE  Next
  BY DEF allVars
<1>0. DOMAIN exec = issued
  BY DEF PoolIInv
<1>1. ASSUME NEW t \in Task, Client(t) \/ Expiry(t) \/ Backoff(t) PROVE Next
  BY <1>1 DEF Client, Expiry, Backoff, Next, ClientStep, TimePasses
<1>2. ASSUME NEW w \in Worker, NEW p \in Pool, LeaseAndDispatch(w, p) PROVE Next
  <2>1. Lease(w, p, AvailableSlots(w, p))
    BY <1>2 DEF LeaseAndDispatch
  <2> QED BY <2>1, SlotsAreNatural, LeaseIsQueueStep
<1>3. ASSUME NEW k \in issued, ExecutionStep(k) PROVE Next
  <2>0. k.task \in Task
    BY DEF PoolIInv, IInv, TypeOK, LeaseToken
  <2>1. CASE Heartbeat(k) \/ Complete(k) \/ MarkCancelled(k)
    BY <2>1 DEF Next, HolderStep
  <2>2. CASE Fail(k, FALSE) \/ Fail(k, exec[k].outcome = "retryable")
    BY <2>2 DEF Next, HolderStep
  <2>3. CASE Cancel(k.task)
    BY <2>0, <2>3 DEF Next, ClientStep
  <2>4. \/ Heartbeat(k) \/ Complete(k) \/ MarkCancelled(k) \/ Cancel(k.task)
        \/ Fail(k, FALSE) \/ Fail(k, exec[k].outcome = "retryable")
    BY <1>3 DEF ExecutionStep, Settle, FailUnhandled, Start, CompleteTask, FailTask, RequestCancel,
         CheckCancelled, Acknowledge, HeartbeatTick, MonitorTick, HandlerReturns, Refused, StorageError, ContextError
  <2> QED BY <2>1, <2>2, <2>3, <2>4
<1>4. ASSUME NEW w \in Worker, Crash(w) \/ Stop(w) \/ Stopped(w) PROVE Next
  BY <1>4 DEF Crash, Stop, Stopped
<1> QED BY <1>0, <1>1, <1>2, <1>3, <1>4 DEF PoolNext

-----------------------------------------------------------------------------
(***************************************************************************)
(* Executions                                                              *)
(***************************************************************************)

\* What one step may do to an execution that exists.
Advances(old, new) ==
    /\ ExecIsSound(new)
    /\ new.phase \in BusyPhase => old.phase \in BusyPhase
    /\ old.outcome = "ok" => new.outcome = "ok"
    /\ new.phase = "handling" /\ new.ctx = "live" =>
         old.phase = "starting" \/ (old.phase = "handling" /\ old.ctx = "live")

LEMMA EndedFields ==
    ASSUME NEW e \in Execution
    PROVE  /\ Ended(e) \in Execution /\ Ended(e).phase = "over" /\ Ended(e).outcome = e.outcome
<1>1. e.outcome \in Outcome /\ "over" \in Phase
  BY DEF Execution, Phase
<1> QED BY <1>1 DEF Ended, Fresh, Execution

LEMMA EndedAdvances ==
    ASSUME NEW e, ExecIsSound(e)
    PROVE  Advances(e, Ended(e))
BY EndedFields DEF Advances, ExecIsSound, BusyPhase

\* An execution moves to another phase.
LEMMA PhaseAdvances ==
    ASSUME NEW e, ExecIsSound(e), NEW phase \in {"handling", "checking", "confirming", "acknowledging"},
           e.phase \in BusyPhase, phase = "handling" => e.phase = "starting"
    PROVE  Advances(e, [e EXCEPT !.phase = phase])
<1> DEFINE new == [e EXCEPT !.phase = phase]
<1>1. phase \in Phase
  BY DEF Phase
<1>2. new \in Execution /\ new.phase = phase /\ new.outcome = e.outcome /\ new.ctx = e.ctx
  BY <1>1 DEF ExecIsSound, Execution
<1> HIDE DEF new
<1>3. phase = "handling" => e.outcome = "none"
  BY DEF ExecIsSound
<1>4. ExecIsSound(new)
  BY <1>2, <1>3 DEF ExecIsSound
<1> QED BY <1>2, <1>4 DEF Advances, new

LEMMA StaysAdvances ==
    ASSUME NEW e, ExecIsSound(e)
    PROVE  Advances(e, e)
BY DEF Advances

\* A step that leases nothing moves executions on, one or all of a process.
LEMMA ExecutionsAdvance ==
    ASSUME PoolIInv, [PoolNext]_allVars,
           ~\E w \in Worker, p \in Pool : LeaseAndDispatch(w, p)
    PROVE  /\ issued' = issued /\ exec' \in [issued -> Execution]
           /\ \A k \in issued : Advances(exec[k], exec'[k])
<1>0. exec \in [issued -> Execution] /\ DOMAIN exec = issued /\ \A k \in issued : ExecIsSound(exec[k])
  BY DEF PoolIInv
<1>1. ASSUME exec' = exec, issued' = issued
      PROVE  exec' \in [issued -> Execution] /\ \A k \in issued : Advances(exec[k], exec'[k])
  BY <1>0, <1>1, StaysAdvances
<1>2. ASSUME NEW k \in issued, NEW e, exec' = [exec EXCEPT ![k] = e], Advances(exec[k], e)
      PROVE  exec' \in [issued -> Execution] /\ \A j \in issued : Advances(exec[j], exec'[j])
  <2>1. e \in Execution
    BY <1>2 DEF Advances, ExecIsSound
  <2>2. exec' \in [issued -> Execution] /\ exec'[k] = e /\ \A j \in issued : j # k => exec'[j] = exec[j]
    BY <1>0, <1>2, <2>1
  <2> QED BY <1>0, <1>2, <2>2, StaysAdvances
<1>3. ASSUME NEW k \in issued, Finish(k)
      PROVE  exec' \in [issued -> Execution] /\ \A j \in issued : Advances(exec[j], exec'[j])
  <2>1. exec' = [exec EXCEPT ![k] = Ended(exec[k])]
    BY <1>3 DEF Finish
  <2> QED BY <1>0, <1>2, <2>1, EndedAdvances
<1>4. ASSUME NEW k \in issued, NEW phase \in {"handling", "checking", "confirming", "acknowledging"}, GoTo(k, phase),
             exec[k].phase \in {"starting", "checking", "requesting"},
             phase = "handling" => exec[k].phase = "starting"
      PROVE  exec' \in [issued -> Execution] /\ \A j \in issued : Advances(exec[j], exec'[j])
  <2>1. exec' = [exec EXCEPT ![k] = [exec[k] EXCEPT !.phase = phase]]
    BY <1>4 DEF GoTo
  <2>2. exec[k].phase \in BusyPhase
    BY <1>4 DEF BusyPhase, Phase
  <2>3. Advances(exec[k], [exec[k] EXCEPT !.phase = phase])
    BY <1>0, <1>4, <2>2, PhaseAdvances
  <2> QED BY <1>2, <2>1, <2>3
<1>5. ASSUME NEW k \in issued, NEW ctx \in {"live", "done"}, NEW monitor \in BOOLEAN, exec[k].phase = "handling",
             exec' = [exec EXCEPT ![k] = [[exec[k] EXCEPT !.ctx = ctx] EXCEPT !.monitor = monitor]],
             ctx = "live" => exec[k].ctx = "live"
      PROVE  exec' \in [issued -> Execution] /\ \A j \in issued : Advances(exec[j], exec'[j])
  <2> DEFINE e == [[exec[k] EXCEPT !.ctx = ctx] EXCEPT !.monitor = monitor]
  <2>1. e \in Execution /\ e.phase = exec[k].phase /\ e.outcome = exec[k].outcome /\ e.ctx = ctx
    BY <1>0 DEF Execution
  <2>2. exec' = [exec EXCEPT ![k] = e]
    BY <1>5
  <2> HIDE DEF e
  <2>3. Advances(exec[k], e)
    BY <1>0, <1>5, <2>1 DEF Advances, ExecIsSound
  <2> QED BY <1>2, <2>2, <2>3
<1>6. ASSUME NEW t \in Task, Client(t) \/ Expiry(t) \/ Backoff(t) PROVE exec' = exec /\ issued' = issued
  BY <1>6 DEF Client, Expiry, Backoff, Enqueue, Cancel, Retry, LeaseExpires, BecomesReady, poolVars
<1>7. ASSUME NEW k \in issued, ExecutionStep(k)
      PROVE  issued' = issued /\ exec' \in [issued -> Execution] /\ \A j \in issued : Advances(exec[j], exec'[j])
  <2>0. issued' = issued
    BY <1>7 DEF ExecutionStep, Settle, FailUnhandled, Start, CompleteTask, FailTask, RequestCancel,
         CheckCancelled, Acknowledge, HeartbeatTick, MonitorTick, HandlerReturns, Refused, StorageError, ContextError,
         Heartbeat, Complete, Fail, MarkCancelled, Cancel, vars
  <2>1. CASE FailUnhandled(k) \/ CompleteTask(k) \/ FailTask(k) \/ Acknowledge(k)
    BY <2>0, <2>1, <1>3 DEF FailUnhandled, CompleteTask, FailTask, Acknowledge
  <2>2. CASE Start(k)
    BY <2>0, <2>2, <1>4 DEF Start, At
  <2>3. CASE RequestCancel(k)
    BY <2>0, <2>3, <1>3, <1>4 DEF RequestCancel, At
  <2>4. CASE CheckCancelled(k)
    BY <2>0, <2>4, <1>3, <1>4 DEF CheckCancelled, At
  <2>5. CASE HeartbeatTick(k)
    <3>1. exec[k].phase = "handling" /\ exec[k].monitor \in BOOLEAN
      BY <1>0, <2>5 DEF HeartbeatTick, At, Execution
    <3>2. CASE exec' = exec
      BY <2>0, <3>2, <1>1
    <3>3. CASE exec' = [exec EXCEPT ![k].ctx = "done"]
      <4>1. exec' = [exec EXCEPT ![k] = [[exec[k] EXCEPT !.ctx = "done"] EXCEPT !.monitor = exec[k].monitor]]
        BY <1>0, <3>3 DEF Execution
      <4> QED BY <2>0, <3>1, <4>1, <1>5
    <3> QED BY <2>5, <3>2, <3>3 DEF HeartbeatTick
  <2>6. CASE MonitorTick(k)
    <3>1. exec[k].phase = "handling" /\ exec[k].ctx \in {"live", "done"}
      BY <1>0, <2>6 DEF MonitorTick, At, Execution
    <3>2. CASE exec' = [exec EXCEPT ![k].ctx = "done", ![k].monitor = FALSE]
      <4>1. exec' = [exec EXCEPT ![k] = [[exec[k] EXCEPT !.ctx = "done"] EXCEPT !.monitor = FALSE]]
        BY <1>0, <3>2
      <4> QED BY <2>0, <3>1, <4>1, <1>5
    <3>3. CASE exec' = [exec EXCEPT ![k].monitor = FALSE]
      <4>1. exec' = [exec EXCEPT ![k] = [[exec[k] EXCEPT !.ctx = exec[k].ctx] EXCEPT !.monitor = FALSE]]
        BY <1>0, <3>3 DEF Execution
      <4> QED BY <2>0, <3>1, <4>1, <1>5
    <3> QED BY <2>6, <3>2, <3>3 DEF MonitorTick
  <2>7. ASSUME NEW answer \in Answer, HandlerReturns(k, answer)
        PROVE  exec' \in [issued -> Execution] /\ \A j \in issued : Advances(exec[j], exec'[j])
    <3> DEFINE outcome == IF ContextDone(k) THEN "interrupted" ELSE answer
               phase == AfterHandler(ContextDone(k), answer)
               e == [[exec[k] EXCEPT !.outcome = outcome] EXCEPT !.phase = phase]
    <3>1. exec[k].phase = "handling" /\ exec' = [exec EXCEPT ![k] = e]
      BY <1>0, <2>7 DEF HandlerReturns, At
    <3>2. /\ phase \in {"checking", "completing", "requesting", "failing"} /\ outcome \in Outcome
          /\ phase = "completing" => outcome = "ok"
      BY DEF AfterHandler, Outcome, Answer
    <3>3. phase \in Phase /\ phase \in BusyPhase
      BY <3>2 DEF Phase, BusyPhase
    <3> HIDE DEF phase, outcome
    <3>4. e \in Execution /\ e.phase = phase /\ e.outcome = outcome
      BY <1>0, <3>2, <3>3 DEF Execution
    <3>5. exec[k].phase \in BusyPhase /\ exec[k].outcome = "none"
      BY <1>0, <3>1 DEF BusyPhase, Phase, ExecIsSound
    <3> HIDE DEF e
    <3>6. Advances(exec[k], e)
      BY <3>2, <3>4, <3>5 DEF Advances, ExecIsSound
    <3> QED BY <3>1, <3>6, <1>2
  <2> QED BY <1>7, <2>0, <2>1, <2>2, <2>3, <2>4, <2>5, <2>6, <2>7 DEF ExecutionStep, Settle
<1>8. ASSUME NEW w \in Worker, Crash(w)
      PROVE  issued' = issued /\ exec' \in [issued -> Execution] /\ \A j \in issued : Advances(exec[j], exec'[j])
  <2>1. issued' = issued /\ exec' = [k \in issued |-> IF k.holder = w THEN Ended(exec[k]) ELSE exec[k]]
    BY <1>0, <1>8 DEF Crash, vars
  <2>2. \A k \in issued : Ended(exec[k]) \in Execution
    BY <1>0, EndedFields
  <2>3. \A k \in issued : Advances(exec[k], Ended(exec[k])) /\ Advances(exec[k], exec[k])
    BY <1>0, EndedAdvances, StaysAdvances
  <2> QED BY <1>0, <2>1, <2>2, <2>3
<1>9. ASSUME NEW w \in Worker, Stop(w) \/ Stopped(w) PROVE exec' = exec /\ issued' = issued
  BY <1>9 DEF Stop, Stopped, vars
<1>10. CASE UNCHANGED allVars
  BY <1>1, <1>10 DEF allVars, vars, poolVars
<1> QED BY <1>0, <1>1, <1>6, <1>7, <1>8, <1>9, <1>10 DEF PoolNext

\* A lease hands out at most as many tokens as there are free slots, all of
\* them for the pool and the worker that asked.
LEMMA NewTokens ==
    ASSUME PoolIInv, NEW w \in Worker, NEW p \in Pool, NEW n \in Nat, Lease(w, p, n)
    PROVE  /\ issued \subseteq issued'
           /\ IsFiniteSet(issued' \ issued) /\ Cardinality(issued' \ issued) \in Nat
           /\ Cardinality(issued' \ issued) <= n
           /\ \A k \in issued' \ issued : k.holder = w /\ k.task \in Task /\ PoolOf[k.task] = p
<1>1. PICK S \in SUBSET Abandoned(row, p) : \E B \in Batches(Reclaim(row, S), p, n) :
          issued' = issued \cup {[task |-> t, holder |-> w, generation |-> row[t].generation + 1] : t \in B}
  BY DEF Lease
<1>2. PICK B \in SUBSET Task :
          /\ issued' = issued \cup {[task |-> t, holder |-> w, generation |-> row[t].generation + 1] : t \in B}
          /\ Cardinality(B) <= n /\ \A t \in B : PoolOf[t] = p
  BY <1>1 DEF Batches, Candidates
<1> DEFINE tokens == {[task |-> t, holder |-> w, generation |-> row[t].generation + 1] : t \in B}
           f == [t \in B |-> [task |-> t, holder |-> w, generation |-> row[t].generation + 1]]
<1>3. f \in Surjection(B, tokens)
  BY DEF Surjection
<1>4. IsFiniteSet(B) /\ Cardinality(B) \in Nat
  BY TableAssumption, FS_Subset, FS_CardinalityType
<1> HIDE DEF f
<1>5. IsFiniteSet(tokens) /\ Cardinality(tokens) <= Cardinality(B) /\ Cardinality(tokens) \in Nat
  BY <1>3, <1>4, FS_Surjection, FS_CardinalityType
<1>6. issued' \ issued \subseteq tokens
  BY <1>2
<1>7. \A k \in tokens : k.holder = w /\ k.task \in Task /\ PoolOf[k.task] = p
  BY <1>2
<1> HIDE DEF tokens
<1>8. /\ IsFiniteSet(issued' \ issued) /\ Cardinality(issued' \ issued) \in Nat
      /\ Cardinality(issued' \ issued) <= Cardinality(tokens)
  BY <1>5, <1>6, FS_Subset, FS_CardinalityType
<1> QED BY <1>2, <1>4, <1>5, <1>6, <1>7, <1>8

LEMMA FreshIsSound ==
    ASSUME NEW phase \in {"starting", "unhandled"}
    PROVE  ExecIsSound(Fresh(phase)) /\ Fresh(phase).phase = phase
BY DEF Fresh, ExecIsSound, Execution, Phase, Outcome

\* A lease fits: no task is leased without a slot to run in, and the slots of
\* the pool are not exceeded.
LEMMA LeasesFit ==
    ASSUME PoolIInv, NEW w \in Worker, NEW p \in Pool, LeaseAndDispatch(w, p)
    PROVE  /\ IsFiniteSet(issued') /\ issued \subseteq issued'
           /\ exec' \in [issued' -> Execution]
           /\ \A k \in issued' : ExecIsSound(exec'[k])
           /\ \A k \in issued : exec'[k] = exec[k]
           /\ \A k \in issued' \ issued : exec'[k].phase \in {"starting", "unhandled"}
           /\ \A v \in Worker, q \in Pool : Cardinality(Busy(v, q)') <= Concurrency[q]
<1> DEFINE new == issued' \ issued
           handled == {k \in new : k.task \in setting.handled}
           n == AvailableSlots(w, p)
<1>0. /\ Lease(w, p, n) /\ n \in Nat /\ n = Concurrency[p] - Cardinality(Busy(w, p))
      /\ Cardinality(Busy(w, p)) \in Nat /\ IsFiniteSet(Busy(w, p))
  BY SlotsAreNatural DEF LeaseAndDispatch, AvailableSlots
<1>1. PICK started \in SUBSET handled :
         /\ Cardinality(started) <= n
         /\ started = handled \/ Cardinality(started) = n
         /\ exec' = [k \in issued' |->
                       IF k \in started THEN Fresh("starting")
                       ELSE IF k \notin new THEN exec[k]
                       ELSE IF k.task \in setting.handled THEN Fresh("dropped")
                       ELSE Fresh("unhandled")]
  BY <1>0 DEF LeaseAndDispatch
<1>2. /\ issued \subseteq issued' /\ IsFiniteSet(new) /\ Cardinality(new) \in Nat /\ Cardinality(new) <= n
      /\ \A k \in new : k.holder = w /\ PoolOf[k.task] = p
  BY <1>0, NewTokens
<1>3. IsFiniteSet(handled) /\ Cardinality(handled) \in Nat /\ Cardinality(handled) <= Cardinality(new)
  BY <1>2, FS_Subset, FS_CardinalityType
<1>4. /\ IsFiniteSet(started) /\ Cardinality(started) \in Nat /\ Cardinality(started) <= Cardinality(handled)
      /\ Cardinality(handled) = Cardinality(started) => handled = started
  BY <1>3, FS_Subset, FS_CardinalityType
<1>5. started = handled
  BY <1>0, <1>1, <1>2, <1>3, <1>4
<1>6. /\ \A k \in issued : exec'[k] = exec[k]
      /\ \A k \in new : exec'[k] = Fresh(IF k \in started THEN "starting" ELSE "unhandled")
  BY <1>1, <1>2, <1>5
<1>7. \A k \in issued' : ExecIsSound(exec'[k])
  BY <1>6, FreshIsSound DEF PoolIInv
<1>8. exec' \in [issued' -> Execution]
  BY <1>1, <1>7 DEF ExecIsSound
<1>9. \A k \in new : exec'[k].phase = IF k \in started THEN "starting" ELSE "unhandled"
  BY <1>6, FreshIsSound
<1>10. IsFiniteSet(issued')
  <2>1. IsFiniteSet(issued \cup new)
    BY <1>2, FS_Union DEF PoolIInv
  <2>2. issued' = issued \cup new
    BY <1>2
  <2> QED BY <2>1, <2>2
<1>11. ASSUME NEW v \in Worker, NEW q \in Pool PROVE Cardinality(Busy(v, q)') <= Concurrency[q]
  <2>0. Concurrency[q] \in Nat /\ Cardinality(Busy(v, q)) <= Concurrency[q]
    BY WorkerAssumption DEF PoolIInv
  <2>d. DOMAIN exec = issued /\ DOMAIN exec' = issued'
    BY <1>8 DEF PoolIInv
  <2>b. /\ Busy(v, q) = {k \in issued : k.holder = v /\ PoolOf[k.task] = q
                                        /\ exec[k].phase \notin {"unhandled", "dropped", "over"}}
        /\ Busy(v, q)' = {k \in issued' : k.holder = v /\ PoolOf[k.task] = q
                                        /\ exec'[k].phase \notin {"unhandled", "dropped", "over"}}
    BY <2>d DEF Busy, Executions
  <2>1. CASE v = w /\ q = p
    <3>1. Busy(v, q)' \subseteq Busy(w, p) \cup started
      BY <2>1, <2>b, <1>2, <1>6, <1>9
    <3>2. /\ IsFiniteSet(Busy(w, p) \cup started)
          /\ Cardinality(Busy(w, p) \cup started)
               = Cardinality(Busy(w, p)) + Cardinality(started) - Cardinality(Busy(w, p) \cap started)
      BY <1>0, <1>4, FS_Union
    <3>3. Cardinality(Busy(w, p) \cap started) \in Nat
      BY <1>4, FS_Subset, FS_CardinalityType
    <3>4. /\ Cardinality(Busy(v, q)') <= Cardinality(Busy(w, p) \cup started)
          /\ Cardinality(Busy(v, q)') \in Nat /\ Cardinality(Busy(w, p) \cup started) \in Nat
      BY <3>1, <3>2, FS_Subset, FS_CardinalityType
    <3> QED BY <1>0, <1>1, <1>4, <2>0, <2>1, <3>2, <3>3, <3>4
  <2>2. CASE ~(v = w /\ q = p)
    <3>1. Busy(v, q)' = Busy(v, q)
      BY <2>2, <2>b, <1>2, <1>6
    <3> QED BY <2>0, <3>1
  <2> QED BY <2>1, <2>2
<1> QED BY <1>2, <1>6, <1>7, <1>8, <1>9, <1>10, <1>11

-----------------------------------------------------------------------------
(***************************************************************************)
(* Leases under handlers that run                                          *)
(***************************************************************************)

\* A token owns at most one lease, and nobody else's call touches it.
LEMMA OwnerFacts ==
    ASSUME IInv, NEW k \in issued, OwnsLease(k)
    PROVE  /\ k.task \in Task /\ row[k.task].holder = k.holder /\ row[k.task].generation = k.generation
           /\ row[k.task] \in TaskRow /\ row[k.task].status \in Active
           /\ k = [task |-> k.task, holder |-> k.holder, generation |-> k.generation]
           /\ \A j \in issued : OwnsLease(j) /\ j.task = k.task => j = k
<1>1. k \in LeaseToken /\ row \in [Task -> TaskRow]
  BY DEF IInv, TypeOK
<1>2. k.task \in Task /\ k.holder \in Worker /\ k.holder # NoHolder
  BY <1>1, HolderAssumption DEF LeaseToken
<1>3. row[k.task].holder = k.holder /\ row[k.task].generation = k.generation
  BY DEF OwnsLease, TokenOf
<1>4. row[k.task].status \in Active
  BY <1>2, <1>3 DEF IInv, LeaseColumns
<1>5. k = [task |-> k.task, holder |-> k.holder, generation |-> k.generation]
  BY <1>1 DEF LeaseToken
<1>6. \A j \in issued : OwnsLease(j) /\ j.task = k.task => j = k
  BY DEF OwnsLease, TokenOf
<1> QED BY <1>1, <1>2, <1>3, <1>4, <1>5, <1>6

Holds(k) == OwnsLease(k) /\ ~row[k.task].expired

\* The row of the task keeps its lease columns.
LEMMA SameLease ==
    ASSUME IInv, NEW k \in issued, Holds(k), row'[k.task].holder = row[k.task].holder,
           row'[k.task].generation = row[k.task].generation, ~row'[k.task].expired
    PROVE  Holds(k)'
BY OwnerFacts DEF Holds, OwnsLease, TokenOf

\* What other callers and the clock do leaves a live lease alone.
LEMMA LeaseSurvives ==
    ASSUME IInv, NEW k \in issued, Holds(k),
           \/ UNCHANGED row
           \/ \E t \in Task : Enqueue(t) \/ Cancel(t) \/ Retry(t) \/ BecomesReady(t)
           \/ \E t \in Task \ {k.task} : LeaseExpires(t)
           \/ \E w \in Worker, p \in Pool, n \in Nat : Lease(w, p, n)
           \/ \E j \in issued : Heartbeat(j)
           \/ \E j \in issued \ {k} : Complete(j) \/ MarkCancelled(j) \/ \E retryable \in BOOLEAN : Fail(j, retryable)
    PROVE  Holds(k)'
<1> DEFINE u == k.task
<1>0. /\ u \in Task /\ row \in [Task -> TaskRow] /\ row[u] \in TaskRow /\ row[u].status \in Active
      /\ OwnsLease(k) /\ ~row[u].expired /\ issued \subseteq LeaseToken
      /\ \A j \in issued : OwnsLease(j) /\ j.task = u => j = k
  BY OwnerFacts DEF Holds, IInv, TypeOK
<1> HIDE DEF u
<1>q. ASSUME row'[u].holder = row[u].holder, row'[u].generation = row[u].generation, ~row'[u].expired
      PROVE  Holds(k)'
  BY <1>q, SameLease DEF u
<1>r. ASSUME row'[u] = row[u] PROVE Holds(k)'
  BY <1>0, <1>r, <1>q
<1>o. ASSUME NEW t \in Task, t # u, NEW x, row' = [row EXCEPT ![t] = x] PROVE Holds(k)'
  BY <1>0, <1>o, <1>r
<1>1. CASE UNCHANGED row
  BY <1>1, <1>r
<1>2. ASSUME NEW t \in Task, Enqueue(t) PROVE Holds(k)'
  <2>1. t # u
    BY <1>0, <1>2 DEF Enqueue, Active
  <2>2. row'[u] = row[u]
    BY <1>0, <1>2, <2>1 DEF Enqueue
  <2> QED BY <2>2, <1>r
<1>3. ASSUME NEW t \in Task, Retry(t) PROVE Holds(k)'
  <2>1. t # u
    BY <1>0, <1>3 DEF Retry, Active, Retriable
  <2>2. row'[u] = row[u]
    BY <1>0, <1>3, <2>1 DEF Retry
  <2> QED BY <2>2, <1>r
<1>4. ASSUME NEW t \in Task, BecomesReady(t) PROVE Holds(k)'
  <2>1. t # u
    BY <1>0, <1>4 DEF BecomesReady, Active, Claimable
  <2>2. row'[u] = row[u]
    BY <1>0, <1>4, <2>1 DEF BecomesReady
  <2> QED BY <2>2, <1>r
<1>5. ASSUME NEW t \in Task, Cancel(t) PROVE Holds(k)'
  <2>1. row' = [row EXCEPT ![t] = CancelledRow(row[t])]
    BY <1>5 DEF Cancel
  <2>2. CASE t # u
    BY <2>1, <2>2, <1>o
  <2>3. CASE t = u
    <3>1. row'[u] = [row[u] EXCEPT !.status = "cancelling"]
      BY <1>0, <2>1, <2>3 DEF CancelledRow, Active, Claimable
    <3>2. row'[u].holder = row[u].holder /\ row'[u].generation = row[u].generation /\ row'[u].expired = row[u].expired
      BY <1>0, <3>1 DEF TaskRow
    <3> QED BY <1>0, <3>2, <1>q
  <2> QED BY <2>2, <2>3
<1>6. ASSUME NEW t \in Task \ {u}, LeaseExpires(t) PROVE Holds(k)'
  <2>1. row'[u] = row[u]
    BY <1>0, <1>6 DEF LeaseExpires
  <2> QED BY <2>1, <1>r
<1>7. ASSUME NEW w \in Worker, NEW p \in Pool, NEW n \in Nat, Lease(w, p, n) PROVE Holds(k)'
  <2>1. PICK S \in SUBSET Abandoned(row, p) : \E B \in Batches(Reclaim(row, S), p, n) :
          row' = [t \in Task |-> IF t \in B THEN LeasedRow(Reclaim(row, S)[t], w) ELSE Reclaim(row, S)[t]]
    BY <1>7 DEF Lease
  <2>2. Reclaim(row, S)[u] = row[u]
    BY <1>0, ReclaimType DEF IInv
  <2>3. \A B \in Batches(Reclaim(row, S), p, n) : u \notin B
    BY <1>0, <2>2 DEF Batches, Candidates, Active, Claimable
  <2>4. row'[u] = row[u]
    BY <1>0, <2>1, <2>2, <2>3
  <2> QED BY <2>4, <1>r
<1>8. ASSUME NEW j \in issued, Heartbeat(j) PROVE Holds(k)'
  <2>1. j.task \in Task
    BY <1>0 DEF LeaseToken
  <2>2. CASE j.task # u
    <3>1. row'[u] = row[u]
      BY <1>0, <1>8, <2>1, <2>2 DEF Heartbeat
    <3> QED BY <3>1, <1>r
  <2>3. CASE j.task = u
    <3>1. row'[u].holder = row[u].holder /\ row'[u].generation = row[u].generation /\ row'[u].expired = FALSE
      BY <1>0, <1>8, <2>3 DEF Heartbeat, TaskRow
    <3> QED BY <3>1, <1>q
  <2> QED BY <2>2, <2>3
<1>9. ASSUME NEW j \in issued \ {k}, Complete(j) \/ MarkCancelled(j) \/ \E retryable \in BOOLEAN : Fail(j, retryable)
      PROVE  Holds(k)'
  <2>1. j.task \in Task /\ j.task # u
    BY <1>0, <1>9 DEF LeaseToken, Complete, MarkCancelled, Fail
  <2>2. row'[u] = row[u]
    BY <1>0, <1>9, <2>1 DEF Complete, MarkCancelled, Fail
  <2> QED BY <2>2, <1>r
<1> QED BY <1>1, <1>2, <1>3, <1>4, <1>5, <1>6, <1>7, <1>8, <1>9 DEF u

\* The first heartbeat gives the handler its lease.
LEMMA HeartbeatHolds ==
    ASSUME IInv, NEW k \in issued, Heartbeat(k)
    PROVE  Holds(k)'
<1>1. k.task \in Task /\ row \in [Task -> TaskRow] /\ OwnsLease(k)
  BY DEF IInv, TypeOK, LeaseToken, Heartbeat
<1>2. /\ row'[k.task].holder = row[k.task].holder /\ row'[k.task].generation = row[k.task].generation
      /\ row'[k.task].expired = FALSE
  BY <1>1 DEF Heartbeat, TaskRow
<1> QED BY <1>1, <1>2 DEF Holds, OwnsLease, TokenOf

\* Processes never come back up, and nothing changes the setting.
LEMMA ProcessesEnd ==
    ASSUME PoolIInv, [PoolNext]_allVars
    PROVE  /\ setting' = setting /\ worker' \in [Worker -> {"up", "stopping", "down"}]
           /\ \A w \in Worker : worker'[w] = "up" => worker[w] = "up"
<1>0. worker \in [Worker -> {"up", "stopping", "down"}]
  BY DEF PoolIInv
<1>1. \/ worker' = worker
      \/ \E w \in Worker, s \in {"stopping", "down"} : worker' = [worker EXCEPT ![w] = s]
  BY DEF PoolNext, Client, Expiry, Backoff, LeaseAndDispatch, ExecutionStep, Settle, FailUnhandled, Start,
     CompleteTask, FailTask, RequestCancel, CheckCancelled, Acknowledge, HeartbeatTick, MonitorTick, HandlerReturns,
     At, Crash, Stop, Stopped, allVars, poolVars
<1>2. setting' = setting
  BY DEF PoolNext, Client, Expiry, Backoff, LeaseAndDispatch, ExecutionStep, Settle, FailUnhandled, Start,
     CompleteTask, FailTask, RequestCancel, CheckCancelled, Acknowledge, HeartbeatTick, MonitorTick, HandlerReturns,
     At, Crash, Stop, Stopped, allVars, poolVars
<1> QED BY <1>0, <1>1, <1>2

\* A handler with a live context was one before, or has just begun.
LEMMA HandlerWasLive ==
    ASSUME PoolIInv, [PoolNext]_allVars, NEW k \in issued, LiveHandler(k)',
           Advances(exec[k], exec'[k])
    PROVE  exec[k].phase = "starting" \/ LiveHandler(k)
<1>1. k.holder \in Worker
  BY DEF PoolIInv, IInv, TypeOK, LeaseToken
<1>2. exec'[k] \in Execution
  BY DEF Advances, ExecIsSound
<1>3. exec'[k].phase = "handling" /\ exec'[k].ctx = "live" /\ ~ParentDone(k)'
  BY <1>2 DEF LiveHandler, ContextDone, Execution
<1>4. ~ParentDone(k)
  BY <1>1, <1>3, ProcessesEnd DEF ParentDone
<1> QED BY <1>3, <1>4 DEF Advances, LiveHandler, ContextDone

\* Only the first heartbeat starts a handler.
LEMMA HandlerStarts ==
    ASSUME PoolIInv, NEW j \in issued, ExecutionStep(j), NEW k \in issued,
           exec[k].phase = "starting", exec'[k].phase = "handling"
    PROVE  k = j /\ Heartbeat(j)
<1>0. exec \in [issued -> Execution] /\ "starting" # "handling"
  BY DEF PoolIInv
<1>1. \A e : exec' = [exec EXCEPT ![j] = e] => j = k /\ exec'[k] = e
  BY <1>0
<1>2. exec' # exec
  OBVIOUS
<1>3. ASSUME Finish(j) PROVE FALSE
  <2>1. exec' = [exec EXCEPT ![j] = Ended(exec[j])] /\ Ended(exec[j]).phase = "over"
    BY <1>0, <1>3, EndedFields DEF Finish
  <2> QED BY <2>1, <1>1
<1>4. ASSUME NEW phase, GoTo(j, phase) PROVE k = j /\ phase = "handling"
  <2>1. exec' = [exec EXCEPT ![j] = [exec[j] EXCEPT !.phase = phase]]
    BY <1>4 DEF GoTo
  <2>2. j = k /\ exec'[k] = [exec[j] EXCEPT !.phase = phase]
    BY <1>1, <2>1
  <2>3. exec[j] \in Execution
    BY <1>0
  <2> QED BY <2>2, <2>3 DEF Execution
<1>5. CASE FailUnhandled(j) \/ CompleteTask(j) \/ FailTask(j) \/ Acknowledge(j)
  BY <1>5, <1>3 DEF FailUnhandled, CompleteTask, FailTask, Acknowledge
<1>6. CASE RequestCancel(j) \/ CheckCancelled(j)
  BY <1>6, <1>3, <1>4 DEF RequestCancel, CheckCancelled
<1>7. CASE Start(j)
  <2>1. CASE GoTo(j, "checking")
    BY <2>1, <1>4
  <2>2. CASE Heartbeat(j) /\ GoTo(j, "handling")
    BY <2>2, <1>4
  <2> QED BY <1>7, <2>1, <2>2 DEF Start
<1>8. CASE exec[j].phase = "handling"
  <2>1. j # k
    BY <1>8
  <2>2. exec'[k] = exec[k]
    <3>1. ~(FailUnhandled(j) \/ Start(j) \/ CompleteTask(j) \/ FailTask(j) \/ Acknowledge(j) \/ RequestCancel(j) \/ CheckCancelled(j))
      BY <1>8 DEF FailUnhandled, Start, CompleteTask, FailTask, Acknowledge, RequestCancel, CheckCancelled, At
    <3> QED BY <1>0, <2>1, <3>1 DEF ExecutionStep, Settle, HeartbeatTick, MonitorTick, HandlerReturns
  <2> QED BY <2>2
<1> QED BY <1>5, <1>6, <1>7, <1>8 DEF ExecutionStep, Settle, HeartbeatTick, MonitorTick, HandlerReturns, At

\* While leases are renewed in time, a running handler keeps its lease.
LEMMA HandlersHold ==
    ASSUME PoolIInv, [PoolNext]_allVars
    PROVE  \A k \in issued' : HandlerHolds(k)'
<1>0. /\ IInv /\ DOMAIN exec = issued /\ setting' = setting /\ exec \in [issued -> Execution]
      /\ \A k \in issued : ExecIsSound(exec[k]) /\ HandlerHolds(k)
  BY ProcessesEnd DEF PoolIInv
<1>1. ASSUME NEW w \in Worker, NEW p \in Pool, LeaseAndDispatch(w, p), NEW k \in issued',
             setting.expires # "anytime", LiveHandler(k)'
      PROVE  Holds(k)'
  <2>1. k \in issued
    <3>1. exec'[k].phase = "handling"
      BY <1>1 DEF LiveHandler
    <3> QED BY <1>1, <3>1, LeasesFit
  <2>2. exec'[k] = exec[k] /\ exec'[k].phase = "handling"
    BY <1>1, <2>1, LeasesFit DEF LiveHandler
  <2>3. Advances(exec[k], exec'[k])
    BY <1>0, <2>1, <2>2, StaysAdvances
  <2>4. Holds(k)
    BY <1>0, <1>1, <2>1, <2>2, <2>3, HandlerWasLive DEF HandlerHolds, Holds
  <2>5. Lease(w, p, AvailableSlots(w, p)) /\ AvailableSlots(w, p) \in Nat
    BY <1>1, SlotsAreNatural DEF LeaseAndDispatch
  <2> QED BY <1>0, <2>1, <2>4, <2>5, LeaseSurvives
<1>2. ASSUME ~\E w \in Worker, p \in Pool : LeaseAndDispatch(w, p), NEW k \in issued',
             setting.expires # "anytime", LiveHandler(k)'
      PROVE  Holds(k)'
  <2>0. issued' = issued /\ k \in issued /\ Advances(exec[k], exec'[k]) /\ exec'[k].phase = "handling"
    BY <1>2, ExecutionsAdvance DEF LiveHandler
  <2>1. exec[k].phase = "starting" \/ (LiveHandler(k) /\ Holds(k))
    BY <1>0, <1>2, <2>0, HandlerWasLive DEF HandlerHolds, Holds
  <2>2. ASSUME exec' = exec PROVE LiveHandler(k) /\ Holds(k)
    BY <2>0, <2>1, <2>2
  <2>3. ASSUME NEW t \in Task, Client(t) PROVE Holds(k)'
    <3>1. exec' = exec /\ (Enqueue(t) \/ Cancel(t) \/ Retry(t))
      BY <2>3 DEF Client
    <3> QED BY <1>0, <2>0, <2>2, <3>1, LeaseSurvives
  <2>4. ASSUME NEW t \in Task, Backoff(t) PROVE Holds(k)'
    <3>1. exec' = exec /\ BecomesReady(t)
      BY <2>4 DEF Backoff, poolVars
    <3> QED BY <1>0, <2>0, <2>2, <3>1, LeaseSurvives
  <2>5. ASSUME NEW t \in Task, Expiry(t) PROVE Holds(k)'
    <3>1. exec' = exec /\ LeaseExpires(t)
      BY <2>5 DEF Expiry, poolVars
    <3>2. LiveHandler(k) /\ Holds(k)
      BY <2>2, <3>1
    <3>3. t # k.task
      <4> SUFFICES ASSUME t = k.task PROVE FALSE
        OBVIOUS
      <4>1. k = TokenOf(t)
        BY <3>2 DEF Holds, OwnsLease
      <4>2. k \in Working(t) /\ Beating(t)
        BY <1>0, <2>0, <3>2, <4>1 DEF Working, Beating, LiveHandler
      <4>3. setting.expires \in {"anytime", "unrenewed", "abandoned"}
        BY DEF PoolIInv, SettingType
      <4> QED BY <1>2, <2>5, <4>2, <4>3 DEF Expiry
    <3> QED BY <1>0, <2>0, <3>1, <3>2, <3>3, LeaseSurvives
  <2>6. ASSUME NEW j \in issued, ExecutionStep(j) PROVE Holds(k)'
    <3>1. CASE exec[k].phase = "starting"
      BY <1>0, <2>0, <2>6, <3>1, HandlerStarts, HeartbeatHolds
    <3>2. CASE LiveHandler(k) /\ Holds(k)
      <4>1. exec[k].phase = "handling"
        BY <3>2 DEF LiveHandler
      <4>2. CASE row' = row \/ Heartbeat(j)
        BY <1>0, <2>0, <3>2, <4>2, LeaseSurvives
      <4>3. CASE Cancel(j.task)
        <5>1. j.task \in Task
          BY <1>0 DEF IInv, TypeOK, LeaseToken
        <5> QED BY <1>0, <2>0, <3>2, <4>3, <5>1, LeaseSurvives
      <4>4. CASE /\ exec[j].phase # "handling"
                 /\ Complete(j) \/ MarkCancelled(j) \/ \E retryable \in BOOLEAN : Fail(j, retryable)
        <5>1. j \in issued \ {k}
          BY <4>1, <4>4
        <5> QED BY <1>0, <2>0, <3>2, <4>4, <5>1, LeaseSurvives
      <4>5. CASE FailUnhandled(j)
        <5>1. row' = row \/ (exec[j].phase = "unhandled" /\ Fail(j, FALSE))
          BY <4>5 DEF FailUnhandled, At, Refused, ContextError, StorageError, vars
        <5> QED BY <4>2, <4>4, <5>1
      <4>6. CASE FailTask(j)
        <5>1. row' = row \/ (exec[j].phase = "failing" /\ Fail(j, exec[j].outcome = "retryable"))
          BY <4>6 DEF FailTask, At, Refused, ContextError, StorageError, vars
        <5> QED BY <4>2, <4>4, <5>1
      <4>7. CASE CompleteTask(j)
        <5>1. row' = row \/ (exec[j].phase = "completing" /\ Complete(j))
          BY <4>7 DEF CompleteTask, At, Refused, ContextError, StorageError, vars
        <5> QED BY <4>2, <4>4, <5>1
      <4>8. CASE Acknowledge(j)
        <5>1. row' = row \/ (exec[j].phase \in {"acknowledging", "confirming"} /\ MarkCancelled(j))
          BY <4>8 DEF Acknowledge, At, Refused, ContextError, StorageError, vars
        <5> QED BY <4>2, <4>4, <5>1
      <4>9. CASE RequestCancel(j)
        <5>1. row' = row \/ Cancel(j.task)
          BY <4>9 DEF RequestCancel, ContextError, StorageError, vars
        <5> QED BY <4>2, <4>3, <5>1
      <4>10. CASE Start(j) \/ HeartbeatTick(j) \/ MonitorTick(j) \/ CheckCancelled(j)
        <5>1. row' = row \/ Heartbeat(j)
          BY <4>10 DEF Start, HeartbeatTick, MonitorTick, CheckCancelled, Refused, ContextError, StorageError, vars
        <5> QED BY <4>2, <5>1
      <4>11. ASSUME NEW answer \in Answer, HandlerReturns(j, answer) PROVE Holds(k)'
        BY <4>2, <4>11 DEF HandlerReturns, vars
      <4> QED BY <2>6, <4>5, <4>6, <4>7, <4>8, <4>9, <4>10, <4>11 DEF ExecutionStep, Settle
    <3> QED BY <2>1, <3>1, <3>2
  <2>7. ASSUME NEW w \in Worker, Crash(w) PROVE Holds(k)'
    <3>1. row' = row /\ exec' = [j \in issued |-> IF j.holder = w THEN Ended(exec[j]) ELSE exec[j]]
      BY <1>0, <2>7 DEF Crash, vars
    <3>2. exec'[k] = exec[k]
      BY <1>0, <2>0, <3>1, EndedFields
    <3>3. Holds(k)
      BY <2>0, <2>1, <3>2
    <3> QED BY <1>0, <2>0, <3>1, <3>3, LeaseSurvives
  <2>8. ASSUME exec' = exec, row' = row PROVE Holds(k)'
    BY <1>0, <2>0, <2>2, <2>8, LeaseSurvives
  <2>9. ASSUME NEW w \in Worker, Stop(w) \/ Stopped(w) PROVE Holds(k)'
    BY <2>8, <2>9 DEF Stop, Stopped, vars
  <2>10. CASE UNCHANGED allVars
    BY <2>8, <2>10 DEF allVars, vars, poolVars
  <2> QED BY <1>0, <1>2, <2>3, <2>4, <2>5, <2>6, <2>7, <2>9, <2>10 DEF PoolNext
<1> QED BY <1>0, <1>1, <1>2 DEF HandlerHolds, Holds

-----------------------------------------------------------------------------
(***************************************************************************)
(* Success and cancellation                                                *)
(***************************************************************************)

\* The calls that neither complete a task nor confirm a cancellation.
OtherCall ==
    \/ UNCHANGED row
    \/ \E t \in Task : Enqueue(t) \/ Cancel(t) \/ Retry(t) \/ BecomesReady(t) \/ LeaseExpires(t)
    \/ \E w \in Worker, p \in Pool, n \in Nat : Lease(w, p, n)
    \/ \E j \in issued : Heartbeat(j) \/ \E retryable \in BOOLEAN : Fail(j, retryable)

\* Who makes the other two.
LEMMA PoolCalls ==
    ASSUME PoolIInv, [PoolNext]_allVars
    PROVE  \/ OtherCall
           \/ \E j \in issued : exec[j].phase = "completing" /\ Complete(j) /\ Finish(j)
           \/ \E j \in issued : exec[j].phase \in {"acknowledging", "confirming"} /\ MarkCancelled(j)
<1>0. DOMAIN exec = issued
  BY DEF PoolIInv
<1>1. CASE row' = row
  BY <1>1 DEF OtherCall
<1>2. ASSUME NEW t \in Task, Client(t) \/ Expiry(t) \/ Backoff(t) PROVE OtherCall
  BY <1>2 DEF Client, Expiry, Backoff, OtherCall
<1>3. ASSUME NEW w \in Worker, NEW p \in Pool, LeaseAndDispatch(w, p) PROVE OtherCall
  BY <1>3, SlotsAreNatural DEF LeaseAndDispatch, OtherCall
<1>4. ASSUME NEW j \in issued, ExecutionStep(j), row' # row
      PROVE  \/ OtherCall
             \/ exec[j].phase = "completing" /\ Complete(j) /\ Finish(j)
             \/ exec[j].phase \in {"acknowledging", "confirming"} /\ MarkCancelled(j)
  <2>0. j.task \in Task
    BY DEF PoolIInv, IInv, TypeOK, LeaseToken
  <2>1. CASE CompleteTask(j)
    BY <1>4, <2>1 DEF CompleteTask, At, Refused, ContextError, StorageError, vars
  <2>2. CASE Acknowledge(j)
    BY <1>4, <2>2 DEF Acknowledge, At, Refused, ContextError, StorageError, vars
  <2>3. CASE FailUnhandled(j)
    <3>1. Fail(j, FALSE)
      BY <1>4, <2>3 DEF FailUnhandled, Refused, ContextError, StorageError, vars
    <3> QED BY <3>1 DEF OtherCall
  <2>4. CASE FailTask(j)
    <3>1. Fail(j, exec[j].outcome = "retryable")
      BY <1>4, <2>4 DEF FailTask, Refused, ContextError, StorageError, vars
    <3> QED BY <3>1 DEF OtherCall
  <2>5. CASE RequestCancel(j)
    <3>1. Cancel(j.task)
      BY <1>4, <2>5 DEF RequestCancel, ContextError, StorageError, vars
    <3> QED BY <2>0, <3>1 DEF OtherCall
  <2>6. CASE Start(j) \/ HeartbeatTick(j) \/ MonitorTick(j) \/ CheckCancelled(j)
    <3>1. Heartbeat(j)
      BY <1>4, <2>6 DEF Start, HeartbeatTick, MonitorTick, CheckCancelled, Refused, ContextError, StorageError, vars
    <3> QED BY <3>1 DEF OtherCall
  <2> QED BY <1>4, <2>1, <2>2, <2>3, <2>4, <2>5, <2>6 DEF ExecutionStep, Settle, HandlerReturns, vars
<1>5. ASSUME NEW w \in Worker, Crash(w) \/ Stop(w) \/ Stopped(w) PROVE row' = row
  BY <1>5 DEF Crash, Stop, Stopped, vars
<1> QED BY <1>0, <1>1, <1>2, <1>3, <1>4, <1>5 DEF PoolNext, allVars, vars

LEMMA OtherCallsKeep ==
    ASSUME IInv, OtherCall, NEW t \in Task
    PROVE  /\ row'[t].status = "succeeded" => row'[t] = row[t]
           /\ ~(row[t].status = "cancelling" /\ row'[t].status = "cancelled")
<1> DEFINE Goal == /\ row'[t].status = "succeeded" => row'[t] = row[t]
                   /\ ~(row[t].status = "cancelling" /\ row'[t].status = "cancelled")
<1>0. row \in [Task -> TaskRow] /\ row[t] \in TaskRow /\ issued \subseteq LeaseToken
  BY DEF IInv, TypeOK
<1>a. ASSUME row'[t] = row[t] PROVE Goal
  BY <1>a
<1>b. ASSUME row'[t].status # "succeeded", row[t].status # "cancelling" PROVE Goal
  BY <1>b
<1>c. ASSUME row'[t].status \notin {"succeeded", "cancelled"} PROVE Goal
  BY <1>c
<1> HIDE DEF Goal
<1>1. ASSUME row' = row PROVE Goal
  BY <1>1, <1>a
<1>2. ASSUME NEW u \in Task, Enqueue(u) PROVE Goal
  <2>1. u # t => row'[t] = row[t]
    BY <1>0, <1>2 DEF Enqueue
  <2>2. u = t => row'[t].status = "queued"
    BY <1>0, <1>2 DEF Enqueue, TaskRow
  <2> QED BY <2>1, <2>2, <1>a, <1>c
<1>3. ASSUME NEW u \in Task, Cancel(u) PROVE Goal
  <2>1. u # t => row'[t] = row[t]
    BY <1>0, <1>3 DEF Cancel
  <2>2. CASE u = t
    <3>1. row[t].status # "cancelling" /\ row'[t] = CancelledRow(row[t])
      BY <1>0, <1>3, <2>2 DEF Cancel, Claimable
    <3>2. CancelledRow(row[t]).status # "succeeded"
      BY <1>0 DEF CancelledRow, Unleased, TaskRow
    <3> QED BY <3>1, <3>2, <1>b
  <2> QED BY <2>1, <2>2, <1>a
<1>4. ASSUME NEW u \in Task, Retry(u) PROVE Goal
  <2>1. u # t => row'[t] = row[t]
    BY <1>0, <1>4 DEF Retry
  <2>2. CASE u = t
    <3>1. row'[t] = RetriedRow(row[t])
      BY <1>0, <1>4, <2>2 DEF Retry
    <3>2. RetriedRow(row[t]).status = "queued"
      BY <1>0 DEF RetriedRow, Unleased, TaskRow
    <3> QED BY <3>1, <3>2, <1>c
  <2> QED BY <2>1, <2>2, <1>a
<1>5. ASSUME NEW u \in Task, BecomesReady(u) \/ LeaseExpires(u) PROVE Goal
  <2>1. u # t => row'[t] = row[t]
    BY <1>0, <1>5 DEF BecomesReady, LeaseExpires
  <2>2. CASE u = t
    <3>1. row'[t].status = row[t].status /\ row[t].status \notin {"succeeded", "cancelled"}
      BY <1>0, <1>5, <2>2 DEF BecomesReady, LeaseExpires, TaskRow, Active, Claimable
    <3> QED BY <3>1, <1>c
  <2> QED BY <2>1, <2>2, <1>a
<1>6. ASSUME NEW w \in Worker, NEW p \in Pool, NEW n \in Nat, Lease(w, p, n) PROVE Goal
  <2>1. PICK S \in SUBSET Abandoned(row, p) : \E B \in Batches(Reclaim(row, S), p, n) :
          row' = [u \in Task |-> IF u \in B THEN LeasedRow(Reclaim(row, S)[u], w) ELSE Reclaim(row, S)[u]]
    BY <1>6 DEF Lease
  <2>2. PICK B : row' = [u \in Task |-> IF u \in B THEN LeasedRow(Reclaim(row, S)[u], w) ELSE Reclaim(row, S)[u]]
    BY <2>1
  <2>3. /\ Reclaim(row, S)[t] \in TaskRow
        /\ Reclaim(row, S)[t] = row[t] \/ Reclaim(row, S)[t] = Unleased(row[t], "queued")
    BY ReclaimType DEF IInv
  <2>4. Unleased(row[t], "queued").status = "queued"
    BY <1>0 DEF Unleased, TaskRow
  <2>5. CASE t \in B
    BY <2>2, <2>3, <2>5, LeasedRowFields, <1>c
  <2>6. CASE t \notin B
    BY <2>2, <2>3, <2>4, <2>6, <1>a, <1>c
  <2> QED BY <2>5, <2>6
<1>7. ASSUME NEW j \in issued, Heartbeat(j) PROVE Goal
  <2>1. j.task # t => row'[t] = row[t]
    BY <1>0, <1>7 DEF Heartbeat
  <2>2. j.task = t => row'[t].status = "running"
    BY <1>0, <1>7 DEF Heartbeat, TaskRow
  <2> QED BY <2>1, <2>2, <1>a, <1>c
<1>8. ASSUME NEW j \in issued, NEW retryable \in BOOLEAN, Fail(j, retryable) PROVE Goal
  <2>1. j.task # t => row'[t] = row[t]
    BY <1>0, <1>8 DEF Fail
  <2>2. CASE j.task = t
    <3>1. row'[t] = FailedRow(row[t], retryable)
      BY <1>0, <1>8, <2>2 DEF Fail
    <3>2. FailedRow(row[t], retryable).status = FailedStatus(row[t], retryable)
      BY <1>0 DEF FailedRow, Unleased, TaskRow
    <3>3. FailedStatus(row[t], retryable) \notin {"succeeded", "cancelled"}
      BY DEF FailedStatus
    <3> QED BY <3>1, <3>2, <3>3, <1>c
  <2> QED BY <2>1, <2>2, <1>a
<1>9. Goal
  BY <1>1, <1>2, <1>3, <1>4, <1>5, <1>6, <1>7, <1>8 DEF OtherCall
<1> QED BY <1>9 DEF Goal

\* Success is the word of the newest handler, and stays it.
LEMMA SuccessStays ==
    ASSUME PoolIInv, [PoolNext]_allVars
    PROVE  SuccessIsEarned'
<1>0. /\ IInv /\ DOMAIN exec = issued /\ row \in [Task -> TaskRow] /\ issued \subseteq LeaseToken
      /\ exec \in [issued -> Execution] /\ \A k \in issued : ExecIsSound(exec[k])
  BY DEF PoolIInv, IInv, TypeOK
<1>1. /\ issued \subseteq issued' /\ DOMAIN exec' = issued'
      /\ \A k \in issued : exec[k].outcome = "ok" => exec'[k].outcome = "ok"
  <2>1. CASE \E w \in Worker, p \in Pool : LeaseAndDispatch(w, p)
    BY <2>1, LeasesFit
  <2>2. CASE ~\E w \in Worker, p \in Pool : LeaseAndDispatch(w, p)
    BY <2>2, ExecutionsAdvance DEF Advances
  <2> QED BY <2>1, <2>2
<1> SUFFICES ASSUME NEW t \in Task, row'[t].status = "succeeded"
             PROVE  \E k \in issued' : k.task = t /\ k.generation = row'[t].generation /\ exec'[k].outcome = "ok"
  BY <1>1 DEF SuccessIsEarned
<1>2. CASE row'[t] = row[t]
  BY <1>0, <1>1, <1>2 DEF PoolIInv, SuccessIsEarned
<1>3. CASE OtherCall
  BY <1>0, <1>2, <1>3, OtherCallsKeep
<1>4. ASSUME NEW j \in issued, exec[j].phase = "completing", Complete(j)
      PROVE  \E k \in issued' : k.task = t /\ k.generation = row'[t].generation /\ exec'[k].outcome = "ok"
  <2>1. CASE j.task # t
    <3>1. row'[t] = row[t]
      BY <1>0, <1>4, <2>1 DEF Complete
    <3> QED BY <3>1, <1>2
  <2>2. CASE j.task = t
    <3>1. row'[t] = Unleased(row[t], "succeeded") /\ OwnsLease(j)
      BY <1>0, <1>4, <2>2 DEF Complete
    <3>2. row'[t].generation = row[t].generation /\ row[t].generation = j.generation
      BY <1>0, <2>2, <3>1, OwnerFacts DEF Unleased, TaskRow
    <3>3. exec[j].outcome = "ok"
      BY <1>0, <1>4 DEF ExecIsSound
    <3> QED BY <1>1, <2>2, <3>2, <3>3
  <2> QED BY <2>1, <2>2
<1>5. ASSUME NEW j \in issued, MarkCancelled(j) PROVE row'[t] = row[t]
  <2>1. CASE j.task # t
    BY <1>0, <1>5, <2>1 DEF MarkCancelled
  <2>2. CASE j.task = t
    <3>1. row'[t] = Unleased(row[t], "cancelled")
      BY <1>0, <1>5, <2>2 DEF MarkCancelled
    <3>2. row'[t].status = "cancelled"
      BY <1>0, <3>1 DEF Unleased, TaskRow
    <3> QED BY <3>2
  <2> QED BY <2>1, <2>2
<1> QED BY <1>2, <1>3, <1>4, <1>5, PoolCalls

-----------------------------------------------------------------------------

LEMMA PoolStep == PoolIInv /\ [PoolNext]_allVars => PoolIInv'
<1> SUFFICES ASSUME PoolIInv, [PoolNext]_allVars PROVE PoolIInv'
  OBVIOUS
<1>1. IInv'
  BY PoolStepIsQueueStep, NextIInv DEF PoolIInv
<1>2. /\ setting' \in SettingType /\ worker' \in [Worker -> {"up", "stopping", "down"}]
      /\ (\A k \in issued : HandlerHolds(k))' /\ SuccessIsEarned'
  BY ProcessesEnd, HandlersHold, SuccessStays DEF PoolIInv
<1>3. CASE \E w \in Worker, p \in Pool : LeaseAndDispatch(w, p)
  BY <1>1, <1>2, <1>3, LeasesFit DEF PoolIInv
<1>4. CASE ~\E w \in Worker, p \in Pool : LeaseAndDispatch(w, p)
  <2>1. issued' = issued /\ exec' \in [issued -> Execution] /\ \A k \in issued : Advances(exec[k], exec'[k])
    BY <1>4, ExecutionsAdvance
  <2>2. ASSUME NEW w \in Worker, NEW p \in Pool PROVE Cardinality(Busy(w, p)') <= Concurrency[p]
    <3>1. Busy(w, p)' \subseteq Busy(w, p)
      <4>1. DOMAIN exec = issued /\ DOMAIN exec' = issued
        BY <2>1 DEF PoolIInv
      <4>2. \A k \in issued : exec'[k].phase \notin {"unhandled", "dropped", "over"}
                                => exec[k].phase \notin {"unhandled", "dropped", "over"}
        BY <2>1 DEF Advances, BusyPhase, ExecIsSound, Execution
      <4> QED BY <4>1, <4>2 DEF Busy, Executions
    <3>2. /\ IsFiniteSet(Busy(w, p)) /\ Cardinality(Busy(w, p)) \in Nat /\ Concurrency[p] \in Nat
          /\ Cardinality(Busy(w, p)) <= Concurrency[p]
      BY SlotsAreNatural DEF PoolIInv
    <3>3. Cardinality(Busy(w, p)') <= Cardinality(Busy(w, p)) /\ Cardinality(Busy(w, p)') \in Nat
      BY <3>1, <3>2, FS_Subset, FS_CardinalityType
    <3> QED BY <3>2, <3>3
  <2> QED BY <1>1, <1>2, <2>1, <2>2 DEF PoolIInv, Advances
<1> QED BY <1>3, <1>4

LEMMA PoolStart == PoolInit => PoolIInv
<1> SUFFICES ASSUME PoolInit PROVE PoolIInv
  OBVIOUS
<1>1. IInv /\ issued = {} /\ row = [t \in Task |-> NoRow]
  BY InitIInv DEF PoolInit, Init
<1>2. setting \in SettingType /\ worker \in [Worker -> {"up", "stopping", "down"}]
  BY WorkerAssumption DEF PoolInit
<1>3. exec \in [issued -> Execution] /\ DOMAIN exec = {}
  BY <1>1 DEF PoolInit
<1>4. IsFiniteSet(issued)
  BY <1>1, FS_EmptySet
<1>5. ASSUME NEW w \in Worker, NEW p \in Pool PROVE Cardinality(Busy(w, p)) <= Concurrency[p]
  <2>1. Busy(w, p) = {}
    BY <1>3 DEF Busy, Executions
  <2>2. Cardinality(Busy(w, p)) = 0 /\ Concurrency[p] \in Nat
    BY <2>1, FS_EmptySet, WorkerAssumption
  <2> QED BY <2>2
<1>6. SuccessIsEarned
  BY <1>1 DEF SuccessIsEarned, NoRow
<1> QED BY <1>1, <1>2, <1>3, <1>4, <1>5, <1>6 DEF PoolIInv

\* The inductive invariant of the worker processes holds in every state.
THEOREM PoolInductive == PoolSpec => []PoolIInv
BY PoolStart, PoolStep, PTL DEF PoolSpec

\* The worker processes keep to the queue's rules: every behaviour of the
\* pools, whatever crashes and storage errors, is one of the queue, and has
\* all that is proved of it.
THEOREM PoolImplementsQueue == PoolSpec => Spec
<1>1. PoolInit => Init
  BY DEF PoolInit
<1> QED BY <1>1, PoolStepIsQueueStep, PoolInductive, PTL DEF PoolSpec, Spec

\* No two handlers work on one task or resource while leases are renewed in
\* time, and no scheduler leases a task it has no slot for.
THEOREM ExecutionsAlwaysFit == PoolSpec => []ExecutionsFit
<1>1. PoolIInv => HandlersExclusive
  <2> SUFFICES ASSUME PoolIInv, setting.expires # "anytime", NEW j \in issued, NEW k \in issued, j # k,
                      j.task = k.task \/ SameResource(j.task, k.task), LiveHandler(j), LiveHandler(k)
               PROVE  FALSE
    BY DEF HandlersExclusive, PoolIInv
  <2>1. IInv /\ OwnsLease(j) /\ OwnsLease(k)
    BY DEF PoolIInv, HandlerHolds
  <2>2. /\ j.task \in Task /\ k.task \in Task /\ j.task # k.task
        /\ row[j.task].status \in Active /\ row[k.task].status \in Active
    BY <2>1, OwnerFacts
  <2> QED BY <2>1, <2>2 DEF IInv, ResourceExclusive
<1>2. PoolIInv => NoLeaseDropped
  BY DEF PoolIInv, NoLeaseDropped, ExecIsSound
<1> QED BY <1>1, <1>2, PoolInductive, PTL DEF ExecutionsFit

\* A task is succeeded only on the word of the handler of its newest lease.
THEOREM SuccessEarned == PoolSpec => []SuccessIsEarned
<1>1. PoolIInv => SuccessIsEarned
  BY DEF PoolIInv
<1> QED BY <1>1, PoolInductive, PTL

\* A cancellation is confirmed only after the handler of the lease has returned.
THEOREM HandlersStopFirst == PoolSpec => HandlerStopsFirst
<1>1. PoolIInv /\ [PoolNext]_allVars =>
       [\A t \in Task :
         row[t].status = "cancelling" /\ row'[t].status = "cancelled" =>
            \A k \in DOMAIN exec : k = TokenOf(t) => exec[k].phase # "handling"]_allVars
  <2> SUFFICES ASSUME PoolIInv, [PoolNext]_allVars, NEW t \in Task, row[t].status = "cancelling",
                      row'[t].status = "cancelled", NEW k \in issued, k = TokenOf(t)
               PROVE  exec[k].phase # "handling"
    BY DEF PoolIInv
  <2>0. IInv /\ row \in [Task -> TaskRow]
    BY DEF PoolIInv, IInv, TypeOK
  <2>1. ~OtherCall
    BY <2>0, OtherCallsKeep
  <2>2. ASSUME NEW j \in issued, Complete(j) PROVE FALSE
    <3>1. CASE j.task # t
      BY <2>0, <2>2, <3>1 DEF Complete
    <3>2. CASE j.task = t
      BY <2>0, <2>2, <3>2 DEF Complete
    <3> QED BY <3>1, <3>2
  <2>3. PICK j \in issued : exec[j].phase \in {"acknowledging", "confirming"} /\ MarkCancelled(j)
    BY <2>1, <2>2, PoolCalls
  <2>4. j.task = t
    BY <2>0, <2>3 DEF MarkCancelled
  <2>5. j = k
    BY <2>3, <2>4 DEF MarkCancelled, OwnsLease
  <2> QED BY <2>3, <2>5
<1> QED BY <1>1, PoolInductive, PTL DEF PoolSpec, HandlerStopsFirst

-----------------------------------------------------------------------------
(***************************************************************************)
(* Optimization runs.  What makes TaskTellsRun inductive is what the three *)
(* places an answer passes through know: the handler, the execution that   *)
(* took it over and the row.  Each of them speaks for the run only while   *)
(* its lease is the newest one of the run's task (Mine), and only such an  *)
(* execution can write the run; so the end of the run, once it is written, *)
(* stays what the answer says until the task takes it.                     *)
(***************************************************************************)

\* The execution whose word the run and its task take.
Mine(k) == run.task = k.task /\ OwnsLease(k)

EndedWell == {"completed", "budget_stopped"}

\* An answer that was given to the worker tells the end of the run.
AnswerStands(a, status) ==
    /\ a = "ok" => status \in EndedWell
    /\ a = "terminal" => status = "failed"

RunColumns == {"status", "cancelRequested", "task", "generation", "completed", "best", "holdout", "judgeCalls"}

LocalShape(l) ==
    /\ DOMAIN l = {"step", "run", "cand", "todo", "holding", "answer"}
    /\ DOMAIN l.run = RunColumns

Unloaded == {"claim", "load", "returned", "answered"}

\* What a handler that is at a step knows, while its task is the run's and the
\* lease is its own: the copy it works on is of its run, and what it is about
\* to answer is how the run ended.
HandlerStands(l, k, mine, status) ==
    /\ LocalShape(l)
    /\ l.step # "answered" => l.answer \in {"ok", "retryable"}
    /\ l.step = "answered" => l.answer \in Answer
    /\ l.step = "failing" => l.answer = "retryable"
    /\ l.step = "stop" => l.run.status \in {"canceled", "budget_stopped"}
    /\ mine => /\ l.step \notin Unloaded => l.run.task = k.task
               /\ l.step = "returned" /\ l.answer = "ok" => status \in EndedWell \cup {"canceled"}
               /\ l.step = "answered" => AnswerStands(l.answer, status)

ExecutionStands(e, mine, status) ==
    /\ e \in Execution
    /\ e.phase # "unhandled"
    /\ e.phase = "completing" => e.outcome = "ok"
    /\ e.phase = "failing" => e.outcome \in {"retryable", "terminal"}
    /\ mine /\ e.phase \in {"completing", "failing"} => AnswerStands(e.outcome, status)

TokensStand ==
    /\ row \in [Task -> TaskRow]
    /\ issued \subseteq Token
    /\ \A k \in issued : k.generation <= row[k.task].generation /\ row[k.task].status # "absent"

RunStands ==
    /\ DOMAIN run = RunColumns
    /\ run.task \in Task \cup {NoTask}
    /\ run.task = NoTask => run.status = "absent"
    /\ run.task # NoTask => row[run.task].status # "absent"

TellIInv ==
    /\ setting.handled = Task
    /\ TokensStand
    /\ RunStands
    /\ exec = [k \in issued |-> exec[k]]
    /\ \A k \in issued : ExecutionStands(exec[k], Mine(k), run.status)
    /\ local = [k \in Token |-> local[k]]
    /\ \A k \in Token \ issued : local[k] = Idle
    /\ \A k \in issued : HandlerStands(local[k], k, Mine(k), run.status)
    /\ TaskTellsRun

-----------------------------------------------------------------------------

\* A row that is written keeps its lease, loses it or gets a new generation.
RowGoes(r, s) ==
    /\ s \in TaskRow
    /\ r.status # "absent" => s.status # "absent"
    /\ \/ s.generation = r.generation /\ s.holder \in {r.holder, NoHolder}
       \/ s.generation = r.generation + 1

QueueGoes ==
    /\ row' = [t \in Task |-> row'[t]]
    /\ \A t \in Task : RowGoes(row[t], row'[t])
    /\ issued \subseteq issued'
    /\ \A k \in issued' \ issued :
          k \in Token /\ k.generation <= row'[k.task].generation /\ row'[k.task].status # "absent"

\* No task ends.
Quiet == \A t \in Task : row'[t].status \in {"succeeded", "failed_terminal"} => row'[t].status = row[t].status

LEMMA OwnsFields ==
    ASSUME NEW k \in Token
    PROVE  OwnsLease(k) <=> row[k.task].holder = k.holder /\ row[k.task].generation = k.generation
  BY DEF OwnsLease, TokenOf, Token

\* A lease that is lost stays lost.
LEMMA TokensGo ==
    ASSUME TokensStand, QueueGoes
    PROVE  /\ TokensStand'
           /\ \A k \in issued : OwnsLease(k)' => OwnsLease(k)
<1>1. /\ row' \in [Task -> TaskRow]
      /\ \A t \in Task : row[t].generation \in Nat /\ row'[t].generation \in Nat
                         /\ row'[t].generation >= row[t].generation
  BY DEF TokensStand, QueueGoes, RowGoes, TaskRow
<1>2. ASSUME NEW k \in issued
      PROVE  /\ k \in Token /\ k.task \in Task /\ k.holder \in Worker /\ k.generation \in Nat
             /\ k.generation <= row'[k.task].generation /\ row'[k.task].status # "absent"
             /\ OwnsLease(k)' => OwnsLease(k)
  <2>1. k \in Token /\ k.task \in Task /\ k.holder \in Worker /\ k.generation \in Nat
    BY DEF TokensStand, Token
  <2>2. k.generation <= row[k.task].generation /\ RowGoes(row[k.task], row'[k.task]) /\ row[k.task].status # "absent"
    BY <2>1 DEF TokensStand, QueueGoes
  <2>3. OwnsLease(k)' => row'[k.task].holder = k.holder /\ row'[k.task].generation = k.generation
    BY <2>1 DEF OwnsLease, TokenOf, Token
  <2>4. OwnsLease(k)' => row[k.task].holder = k.holder /\ row[k.task].generation = k.generation
    BY <1>1, <2>1, <2>2, <2>3, HolderAssumption DEF RowGoes
  <2> QED BY <1>1, <2>1, <2>2, <2>4, OwnsFields DEF RowGoes
<1>3. TokensStand'
  BY <1>1, <1>2 DEF TokensStand, QueueGoes
<1> QED BY <1>2, <1>3

LEMMA RowWritten ==
    ASSUME TokensStand, NEW t \in Task, NEW x, RowGoes(row[t], x), row' = [row EXCEPT ![t] = x],
           issued' = issued
    PROVE  /\ QueueGoes
           /\ (x.status \in {"succeeded", "failed_terminal"} => x.status = row[t].status) => Quiet
<1>1. \A u \in Task : row'[u] = IF u = t THEN x ELSE row[u]
  BY DEF TokensStand
<1>2. \A u \in Task : row[u] \in TaskRow
  BY DEF TokensStand
<1>3. \A u \in Task : RowGoes(row[u], row'[u])
  BY <1>1, <1>2 DEF RowGoes
<1>4. row' = [u \in Task |-> row'[u]]
  BY DEF TokensStand
<1> QED BY <1>1, <1>3, <1>4 DEF QueueGoes, Quiet

LEMMA NothingWritten ==
    ASSUME TokensStand, row' = row, issued' = issued
    PROVE  QueueGoes /\ Quiet
<1>1. \A u \in Task : row[u] \in TaskRow /\ RowGoes(row[u], row[u])
  BY DEF TokensStand, RowGoes
<1>2. row = [u \in Task |-> row[u]]
  BY DEF TokensStand
<1> QED BY <1>1, <1>2 DEF QueueGoes, Quiet

LEMMA ClientGoes ==
    ASSUME TokensStand, NEW t \in Task, Enqueue(t) \/ LeaseExpires(t) \/ BecomesReady(t) \/ Cancel(t) \/ Retry(t)
    PROVE  QueueGoes /\ Quiet /\ row'[t].status # "absent"
<1>0. row[t] \in TaskRow /\ issued' = issued /\ t \in DOMAIN row
  BY DEF TokensStand, Enqueue, LeaseExpires, BecomesReady, Cancel, Retry
<1>1. ASSUME NEW x, RowGoes(row[t], x), row' = [row EXCEPT ![t] = x], x.status # "absent",
             x.status \in {"succeeded", "failed_terminal"} => x.status = row[t].status
      PROVE  QueueGoes /\ Quiet /\ row'[t].status # "absent"
  BY <1>0, <1>1, RowWritten
<1>2. CASE Enqueue(t)
  <2>1. PICK ready \in BOOLEAN : row' = [row EXCEPT ![t].status = "queued", ![t].ready = ready]
    BY <1>2 DEF Enqueue
  <2> DEFINE x == [row[t] EXCEPT !.status = "queued", !.ready = ready]
  <2>2. row' = [row EXCEPT ![t] = x]
    BY <1>0, <2>1
  <2>3. x \in TaskRow /\ x.status = "queued" /\ x.generation = row[t].generation /\ x.holder = row[t].holder
    BY <1>0 DEF TaskRow, Status, Claimable
  <2> QED BY <1>1, <2>2, <2>3 DEF RowGoes
<1>3. CASE LeaseExpires(t)
  <2> DEFINE x == [row[t] EXCEPT !.expired = TRUE]
  <2>1. row' = [row EXCEPT ![t] = x] /\ row[t].status \in Active
    BY <1>3 DEF LeaseExpires
  <2>2. x \in TaskRow /\ x.status = row[t].status /\ x.generation = row[t].generation /\ x.holder = row[t].holder
    BY <1>0 DEF TaskRow
  <2> QED BY <1>1, <2>1, <2>2 DEF RowGoes, Active
<1>4. CASE BecomesReady(t)
  <2> DEFINE x == [row[t] EXCEPT !.ready = TRUE]
  <2>1. row' = [row EXCEPT ![t] = x] /\ row[t].status \in Claimable
    BY <1>4 DEF BecomesReady
  <2>2. x \in TaskRow /\ x.status = row[t].status /\ x.generation = row[t].generation /\ x.holder = row[t].holder
    BY <1>0 DEF TaskRow
  <2> QED BY <1>1, <2>1, <2>2 DEF RowGoes, Claimable
<1>5. ASSUME NEW s \in Status, s \notin {"absent", "succeeded", "failed_terminal"}, row' = [row EXCEPT ![t] = Unleased(row[t], s)]
      PROVE  QueueGoes /\ Quiet /\ row'[t].status # "absent"
  <2> DEFINE x == Unleased(row[t], s)
  <2>1. x \in TaskRow /\ x.status = s /\ x.generation = row[t].generation /\ x.holder = NoHolder
    BY <1>0, UnleasedFields
  <2>2. row' = [row EXCEPT ![t] = x]
    BY <1>5
  <2> HIDE DEF x
  <2> QED BY <1>1, <1>5, <2>1, <2>2 DEF RowGoes
<1>6. CASE Cancel(t)
  <2>1. CASE row[t].status \in Claimable
    <3>1. row' = [row EXCEPT ![t] = Unleased(row[t], "cancelled")] /\ "cancelled" \in Status
      BY <1>6, <2>1 DEF Cancel, CancelledRow, Status, Retriable
    <3> QED BY <1>5, <3>1
  <2>2. CASE row[t].status \notin Claimable
    <3> DEFINE x == [row[t] EXCEPT !.status = "cancelling"]
    <3>1. row' = [row EXCEPT ![t] = x]
      BY <1>6, <2>2 DEF Cancel, CancelledRow
    <3>2. x \in TaskRow /\ x.status = "cancelling" /\ x.generation = row[t].generation /\ x.holder = row[t].holder
      BY <1>0 DEF TaskRow, Status, Active
    <3> QED BY <1>1, <3>1, <3>2 DEF RowGoes
  <2> QED BY <2>1, <2>2
<1>7. CASE Retry(t)
  <2> DEFINE y == Unleased(row[t], "queued")
             x == [y EXCEPT !.attempt = 0, !.ready = TRUE]
  <2>1. row' = [row EXCEPT ![t] = x]
    BY <1>7 DEF Retry, RetriedRow
  <2>2. y \in TaskRow /\ y.status = "queued" /\ y.generation = row[t].generation /\ y.holder = NoHolder
    BY <1>0, UnleasedFields DEF Status, Claimable
  <2> HIDE DEF y
  <2>3. x \in TaskRow /\ x.status = "queued" /\ x.generation = row[t].generation /\ x.holder = NoHolder
    BY <2>2 DEF TaskRow
  <2> HIDE DEF x
  <2> QED BY <1>1, <2>1, <2>3 DEF RowGoes
<1> QED BY <1>2, <1>3, <1>4, <1>6, <1>7

LEMMA HolderGoes ==
    ASSUME TokensStand, NEW k \in issued, Heartbeat(k) \/ MarkCancelled(k) \/ Cancel(k.task)
                                          \/ Fail(k, TRUE)
    PROVE  QueueGoes /\ Quiet /\ issued' = issued
<1>0. k.task \in Task /\ row[k.task] \in TaskRow /\ issued' = issued /\ row[k.task].status # "absent"
  BY DEF TokensStand, Token, Heartbeat, MarkCancelled, Cancel, Fail
<1> DEFINE t == k.task
<1>1. CASE Heartbeat(k)
  <2> DEFINE x == [row[t] EXCEPT !.status = "running", !.expired = FALSE]
  <2>1. row' = [row EXCEPT ![t] = x]
    BY <1>1 DEF Heartbeat, TokensStand
  <2>2. x \in TaskRow /\ x.status = "running" /\ x.generation = row[t].generation /\ x.holder = row[t].holder
    BY <1>0 DEF TaskRow, Status, Active
  <2> HIDE DEF x
  <2>3. RowGoes(row[t], x)
    BY <2>2 DEF RowGoes
  <2> QED BY <1>0, <2>1, <2>2, <2>3, RowWritten
<1>2. CASE MarkCancelled(k)
  <2> DEFINE x == Unleased(row[t], "cancelled")
  <2>1. row' = [row EXCEPT ![t] = x]
    BY <1>2 DEF MarkCancelled
  <2>2. x \in TaskRow /\ x.status = "cancelled" /\ x.generation = row[t].generation /\ x.holder = NoHolder
    BY <1>0, UnleasedFields DEF Status, Retriable
  <2> HIDE DEF x
  <2>3. RowGoes(row[t], x)
    BY <2>2 DEF RowGoes
  <2> QED BY <1>0, <2>1, <2>2, <2>3, RowWritten
<1>3. CASE Cancel(k.task)
  BY <1>0, <1>3, ClientGoes
<1>4. CASE Fail(k, TRUE)
  <2> DEFINE s == FailedStatus(row[t], TRUE)
             y == Unleased(row[t], s)
             ready == y.ready /\ s # "failed_retryable"
             x == [y EXCEPT !.ready = ready]
  <2>1. row' = [row EXCEPT ![t] = x]
    BY <1>4 DEF Fail, FailedRow
  <2>2. s \in {"failed_retryable", "dead_letter"}
    BY DEF FailedStatus
  <2>3. s \in Status
    BY <2>2 DEF Status, Claimable, Retriable
  <2> HIDE DEF s
  <2>4. y \in TaskRow /\ y.status = s /\ y.generation = row[t].generation /\ y.holder = NoHolder
    BY <1>0, <2>3, UnleasedFields
  <2>5. ready \in BOOLEAN
    OBVIOUS
  <2> HIDE DEF y, ready
  <2>6. x \in TaskRow /\ x.status = s /\ x.generation = row[t].generation /\ x.holder = NoHolder
    BY <2>4, <2>5 DEF TaskRow
  <2> HIDE DEF x
  <2>7. RowGoes(row[t], x)
    BY <2>2, <2>6 DEF RowGoes
  <2> QED BY <1>0, <2>1, <2>2, <2>6, <2>7, RowWritten
<1> QED BY <1>1, <1>2, <1>3, <1>4

\* The two calls that end a task for good.
LEMMA EndingGoes ==
    ASSUME TokensStand, NEW k \in issued, NEW status, \/ Complete(k) /\ status = "succeeded"
                                                      \/ Fail(k, FALSE) /\ status = "failed_terminal"
    PROVE  /\ QueueGoes /\ issued' = issued /\ OwnsLease(k) /\ row'[k.task].status = status
           /\ \A t \in Task : t # k.task => row'[t] = row[t]
<1>0. k.task \in Task /\ row[k.task] \in TaskRow /\ issued' = issued /\ row[k.task].status # "absent" /\ OwnsLease(k)
  BY DEF TokensStand, Token, Complete, Fail
<1> DEFINE t == k.task
<1>1. ASSUME NEW x, row' = [row EXCEPT ![t] = x], x \in TaskRow, x.status = status, x.generation = row[t].generation,
             x.holder = NoHolder
      PROVE  /\ QueueGoes /\ row'[k.task].status = status
             /\ \A u \in Task : u # k.task => row'[u] = row[u]
  <2>1. RowGoes(row[t], x)
    BY <1>1 DEF RowGoes
  <2>2. QueueGoes
    BY <1>0, <1>1, <2>1, RowWritten
  <2> QED BY <1>0, <1>1, <2>2 DEF TokensStand
<1>2. CASE Complete(k) /\ status = "succeeded"
  <2> DEFINE x == Unleased(row[t], "succeeded")
  <2>1. row' = [row EXCEPT ![t] = x]
    BY <1>2 DEF Complete
  <2>2. x \in TaskRow /\ x.status = "succeeded" /\ x.generation = row[t].generation /\ x.holder = NoHolder
    BY <1>0, UnleasedFields DEF Status
  <2> HIDE DEF x
  <2> QED BY <1>0, <1>1, <1>2, <2>1, <2>2
<1>3. CASE Fail(k, FALSE) /\ status = "failed_terminal"
  <2> DEFINE y == Unleased(row[t], "failed_terminal")
             ready == y.ready /\ "failed_terminal" # "failed_retryable"
             x == [y EXCEPT !.ready = ready]
  <2>1. row' = [row EXCEPT ![t] = x]
    BY <1>3 DEF Fail, FailedRow, FailedStatus
  <2>4. y \in TaskRow /\ y.status = "failed_terminal" /\ y.generation = row[t].generation /\ y.holder = NoHolder
    BY <1>0, UnleasedFields DEF Status, Retriable
  <2>5. ready \in BOOLEAN
    OBVIOUS
  <2> HIDE DEF y, ready
  <2>6. x \in TaskRow /\ x.status = "failed_terminal" /\ x.generation = row[t].generation /\ x.holder = NoHolder
    BY <2>4, <2>5 DEF TaskRow
  <2> HIDE DEF x
  <2> QED BY <1>0, <1>1, <1>3, <2>1, <2>6
<1> QED BY <1>2, <1>3

LEMMA LeaseGoes ==
    ASSUME TokensStand, NEW w \in Worker, NEW p \in Pool, NEW n, Lease(w, p, n)
    PROVE  QueueGoes /\ Quiet
<1>0. PICK S \in SUBSET Abandoned(row, p) : \E B \in Batches(Reclaim(row, S), p, n) :
        /\ \A t \in B : Reclaim(row, S)[t].generation < MaxGeneration
        /\ row' = [t \in Task |-> IF t \in B THEN LeasedRow(Reclaim(row, S)[t], w)
                                             ELSE Reclaim(row, S)[t]]
        /\ issued' = issued \cup
             {[task |-> t, holder |-> w, generation |-> row[t].generation + 1] : t \in B}
  BY DEF Lease
<1> DEFINE r == Reclaim(row, S)
<1>1. PICK B \in Batches(r, p, n) :
        /\ \A t \in B : r[t].generation < MaxGeneration
        /\ row' = [t \in Task |-> IF t \in B THEN LeasedRow(r[t], w) ELSE r[t]]
        /\ issued' = issued \cup
             {[task |-> t, holder |-> w, generation |-> row[t].generation + 1] : t \in B}
  BY <1>0
<1>2. \A t \in Task : /\ row[t] \in TaskRow
                      /\ r[t] = Unleased(row[t], "queued") \/ r[t] = row[t]
  BY DEF TokensStand, Reclaim
<1>3. B \subseteq Task
  BY DEF Batches, Candidates
<1> HIDE DEF r
<1>4. ASSUME NEW t \in Task
      PROVE  /\ r[t] \in TaskRow /\ r[t].generation = row[t].generation /\ r[t].holder \in {row[t].holder, NoHolder}
             /\ r[t].status = row[t].status \/ r[t].status = "queued"
  <2>1. "queued" \in Status
    BY DEF Status, Claimable
  <2> QED BY <1>2, <2>1, UnleasedFields
<1>5. ASSUME NEW t \in B
      PROVE  /\ row'[t] \in TaskRow /\ row'[t].generation = row[t].generation + 1 /\ row'[t].status = "leased"
             /\ row[t].generation + 1 \in 1..MaxGeneration
  <2>1. row'[t] = LeasedRow(r[t], w) /\ r[t] \in TaskRow /\ r[t].generation = row[t].generation
    BY <1>1, <1>3, <1>4
  <2>2. row[t].generation \in Nat /\ row[t].generation < MaxGeneration /\ MaxGeneration \in Nat
    BY <1>1, <2>1, BoundAssumption DEF TaskRow
  <2> QED BY <2>1, <2>2, LeasedRowFields
<1>6. ASSUME NEW t \in Task PROVE RowGoes(row[t], row'[t])
  <2>1. CASE t \in B
    BY <1>5, <2>1 DEF RowGoes
  <2>2. CASE t \notin B
    <3>1. row'[t] = r[t]
      BY <1>1, <2>2
    <3> QED BY <1>4, <3>1 DEF RowGoes
  <2> QED BY <2>1, <2>2
<1>7. Quiet
  <2> SUFFICES ASSUME NEW t \in Task, row'[t].status \in {"succeeded", "failed_terminal"}
               PROVE  row'[t].status = row[t].status
    BY DEF Quiet
  <2>1. t \notin B
    BY <1>5
  <2> QED BY <1>1, <1>4, <2>1
<1>8. ASSUME NEW k \in issued' \ issued
      PROVE  k \in Token /\ k.generation <= row'[k.task].generation /\ row'[k.task].status # "absent"
  <2>1. PICK t \in B : k = [task |-> t, holder |-> w, generation |-> row[t].generation + 1]
    BY <1>1
  <2>2. row[t].generation + 1 \in 1..MaxGeneration /\ row'[t].generation = row[t].generation + 1 /\ row'[t].status = "leased"
    BY <1>5
  <2>3. k.task = t /\ k.generation = row[t].generation + 1 /\ k \in Token
    BY <1>3, <2>1, <2>2 DEF Token
  <2> QED BY <2>2, <2>3
<1>9. row' = [t \in Task |-> row'[t]] /\ issued \subseteq issued'
  BY <1>1
<1> QED BY <1>6, <1>7, <1>8, <1>9 DEF QueueGoes

-----------------------------------------------------------------------------

\* A lease that is not one's own any more asks for nothing.
LEMMA HandlerLess ==
    ASSUME NEW l, NEW k, NEW m \in BOOLEAN, NEW n \in BOOLEAN, NEW s, HandlerStands(l, k, m, s), n => m
    PROVE  HandlerStands(l, k, n, s)
  BY DEF HandlerStands

LEMMA ExecutionLess ==
    ASSUME NEW e, NEW m \in BOOLEAN, NEW n \in BOOLEAN, NEW s, ExecutionStands(e, m, s), n => m
    PROVE  ExecutionStands(e, n, s)
  BY DEF ExecutionStands

\* While the run is alive nobody has told its end.
LEMMA HandlerAny ==
    ASSUME NEW l, NEW k, NEW m \in BOOLEAN, NEW s, NEW z, HandlerStands(l, k, m, s), ~m \/ s \notin Terminal
    PROVE  HandlerStands(l, k, m, z)
  BY DEF HandlerStands, AnswerStands, EndedWell, Terminal

LEMMA ExecutionAny ==
    ASSUME NEW e, NEW m \in BOOLEAN, NEW s, NEW z, ExecutionStands(e, m, s), ~m \/ s \notin Terminal
    PROVE  ExecutionStands(e, m, z)
  BY DEF ExecutionStands, AnswerStands, EndedWell, Terminal

LEMMA MineBoolean == \A k : Mine(k) \in BOOLEAN /\ Mine(k)' \in BOOLEAN
  BY DEF Mine

LEMMA IdleStands == LocalShape(Idle) /\ \A k, s : \A m \in BOOLEAN : HandlerStands(Idle, k, m, s)
<1>1. Idle.step = "claim" /\ Idle.answer = "ok" /\ Idle.run = NoRun
  BY DEF Idle
<1>2. DOMAIN Idle = {"step", "run", "cand", "todo", "holding", "answer"}
  BY DEF Idle
<1>3. DOMAIN NoRun = RunColumns
  BY DEF NoRun, RunColumns
<1> QED BY <1>1, <1>2, <1>3 DEF HandlerStands, LocalShape, Unloaded

\* What is told is told still, if no task ends meanwhile.
LEMMA QuietTells ==
    ASSUME TellIInv, Quiet, run' = run
    PROVE  TaskTellsRun'
  BY DEF TellIInv, RunStands, Quiet, TaskTellsRun

\* The queue and one or all of the executions move; the run and the handlers'
\* state stay.
LEMMA QueueMoves ==
    ASSUME TellIInv, QueueGoes, run' = run, local' = local, setting' = setting, TaskTellsRun',
           exec' = [k \in issued' |-> exec'[k]],
           \A k \in issued : ExecutionStands(exec'[k], Mine(k), run.status),
           \A k \in issued' \ issued : exec'[k] \in {Fresh("starting"), Fresh("dropped")}
    PROVE  TellIInv'
<1>1. TokensStand' /\ \A k \in issued : OwnsLease(k)' => OwnsLease(k)
  BY TokensGo DEF TellIInv
<1>2. ASSUME NEW k \in issued PROVE Mine(k)' => Mine(k)
  BY <1>1 DEF Mine
<1>3. ASSUME NEW k \in issued
      PROVE  /\ ExecutionStands(exec'[k], Mine(k)', run'.status)
             /\ HandlerStands(local'[k], k, Mine(k)', run'.status)
  <2>1. PICK m \in BOOLEAN, n \in BOOLEAN : m = Mine(k) /\ n = Mine(k)'
    BY MineBoolean
  <2>2. PICK e, l, s : e = exec'[k] /\ l = local[k] /\ s = run.status
    OBVIOUS
  <2>3. ExecutionStands(e, m, s) /\ HandlerStands(l, k, m, s) /\ (n => m)
    BY <1>2, <2>1, <2>2 DEF TellIInv
  <2>4. ExecutionStands(e, n, s)
    BY <2>3, ExecutionLess
  <2>5. HandlerStands(l, k, n, s)
    BY <2>3, HandlerLess
  <2> QED BY <2>1, <2>2, <2>4, <2>5
<1>4. ASSUME NEW k \in issued', k \notin issued
      PROVE  /\ ExecutionStands(exec'[k], Mine(k)', run'.status)
             /\ HandlerStands(local'[k], k, Mine(k)', run'.status)
  <2>1. k \in Token /\ local[k] = Idle
    BY <1>4 DEF TellIInv, QueueGoes
  <2>2. exec'[k] \in Execution /\ exec'[k].phase \in {"starting", "dropped"}
    <3>1. PICK p \in {"starting", "dropped"} : exec'[k] = Fresh(p)
      BY <1>4
    <3>2. Fresh(p) \in Execution /\ Fresh(p).phase = p
      <4>1. p \in Phase /\ "none" \in Outcome
        BY DEF Phase, Outcome
      <4> QED BY <4>1 DEF Fresh, Execution
    <3> QED BY <3>1, <3>2
  <2> QED BY <2>1, <2>2, IdleStands, MineBoolean DEF ExecutionStands
<1>5. RunStands'
  BY DEF TellIInv, RunStands, QueueGoes, RowGoes
<1>6. \A k \in Token \ issued' : local'[k] = Idle
  BY DEF TellIInv, QueueGoes
<1>7. \A k \in issued' : /\ ExecutionStands(exec'[k], Mine(k)', run'.status)
                         /\ HandlerStands(local'[k], k, Mine(k)', run'.status)
  BY <1>3, <1>4
<1>8. setting'.handled = Task /\ local' = [k \in Token |-> local'[k]]
  BY DEF TellIInv
<1> QED BY <1>1, <1>5, <1>6, <1>7, <1>8 DEF TellIInv

\* An execution moves.
LEMMA ExecutionMoves ==
    ASSUME TellIInv, QueueGoes, issued' = issued, run' = run, local' = local, setting' = setting, TaskTellsRun',
           NEW k \in issued, NEW e, exec' = [exec EXCEPT ![k] = e], ExecutionStands(e, Mine(k), run.status)
    PROVE  TellIInv'
<1>1. \A j \in issued : exec'[j] = IF j = k THEN e ELSE exec[j]
  BY DEF TellIInv
<1>2. exec' = [j \in issued' |-> exec'[j]]
  BY DEF TellIInv
<1>3. \A j \in issued : ExecutionStands(exec'[j], Mine(j), run.status)
  BY <1>1 DEF TellIInv
<1> QED BY <1>2, <1>3, QueueMoves

\* The executions stay.
LEMMA ExecutionsStay ==
    ASSUME TellIInv, QueueGoes, Quiet, issued' = issued, exec' = exec, run' = run, local' = local, setting' = setting
    PROVE  TellIInv'
<1>1. \A j \in issued : ExecutionStands(exec'[j], Mine(j), run.status)
  BY DEF TellIInv
<1>2. exec' = [j \in issued' |-> exec'[j]]
  BY DEF TellIInv
<1> QED BY <1>1, <1>2, QuietTells, QueueMoves

\* A handler goes on; the run stays.
LEMMA HandlerReads ==
    ASSUME TellIInv, row' = row, issued' = issued, exec' = exec, setting' = setting, run' = run,
           NEW k \in issued, NEW l, local' = [local EXCEPT ![k] = l], HandlerStands(l, k, Mine(k), run.status)
    PROVE  TellIInv'
<1>0. k \in Token
  BY DEF TellIInv, TokensStand
<1>1. \A j \in Token : local'[j] = IF j = k THEN l ELSE local[j]
  BY DEF TellIInv
<1>2. \A j \in issued : j \in Token /\ (Mine(j)' <=> Mine(j))
  BY DEF TellIInv, TokensStand, Mine, OwnsLease, TokenOf
<1>3. ASSUME NEW j \in issued PROVE /\ HandlerStands(local'[j], j, Mine(j)', run'.status)
                                    /\ ExecutionStands(exec'[j], Mine(j)', run'.status)
  <2>1. PICK m \in BOOLEAN : m = Mine(j) /\ m = Mine(j)'
    BY <1>2, MineBoolean
  <2>2. HandlerStands(local'[j], j, m, run.status) /\ ExecutionStands(exec[j], m, run.status)
    BY <1>1, <1>2, <2>1 DEF TellIInv
  <2> QED BY <2>1, <2>2
<1>4. TokensStand' /\ RunStands' /\ TaskTellsRun'
  BY DEF TellIInv, TokensStand, RunStands, TaskTellsRun
<1>5. local' = [j \in Token |-> local'[j]] /\ \A j \in Token \ issued' : local'[j] = Idle
  BY <1>1 DEF TellIInv
<1> QED BY <1>3, <1>4, <1>5 DEF TellIInv

\* The owner of the run writes it: the others have lost the lease.
LEMMA HandlerWrites ==
    ASSUME TellIInv, row' = row, issued' = issued, exec' = exec, setting' = setting,
           NEW k \in issued, Mine(k), row[k.task].status \in Active, exec[k].phase = "handling",
           DOMAIN run' = RunColumns, run'.task = run.task,
           NEW l, local' = [local EXCEPT ![k] = l], HandlerStands(l, k, TRUE, run'.status)
    PROVE  TellIInv'
<1>0. k \in Token /\ k.task \in Task
  BY DEF TellIInv, TokensStand, Token
<1>1. \A j \in Token : local'[j] = IF j = k THEN l ELSE local[j]
  BY DEF TellIInv
<1>2. \A j \in issued : j \in Token /\ (Mine(j)' <=> Mine(j)) /\ (Mine(j) => j = k)
  BY DEF TellIInv, TokensStand, Mine, OwnsLease, TokenOf
<1>3. ASSUME NEW j \in issued, j # k PROVE /\ HandlerStands(local'[j], j, Mine(j)', run'.status)
                                           /\ ExecutionStands(exec'[j], Mine(j)', run'.status)
  <2>1. PICK m \in BOOLEAN : m = Mine(j) /\ m = Mine(j)'
    BY <1>2, MineBoolean
  <2>2. PICK h, e, s, z : h = local[j] /\ e = exec[j] /\ s = run.status /\ z = run'.status
    OBVIOUS
  <2>3. ~m /\ HandlerStands(h, j, m, s) /\ ExecutionStands(e, m, s)
    BY <1>2, <1>3, <2>1, <2>2 DEF TellIInv
  <2>4. HandlerStands(h, j, m, z) /\ ExecutionStands(e, m, z)
    BY <2>3, HandlerAny, ExecutionAny
  <2>5. local'[j] = h /\ exec'[j] = e
    BY <1>1, <1>2, <1>3, <2>2
  <2> QED BY <2>1, <2>2, <2>4, <2>5
<1>4. /\ HandlerStands(local'[k], k, Mine(k)', run'.status)
      /\ ExecutionStands(exec'[k], Mine(k)', run'.status)
  <2>1. Mine(k)' /\ Mine(k)' \in BOOLEAN /\ local'[k] = l
    BY <1>0, <1>1, <1>2, MineBoolean
  <2>2. HandlerStands(local'[k], k, Mine(k)', run'.status)
    BY <2>1 DEF HandlerStands
  <2>3. exec[k] \in Execution
    BY DEF TellIInv, ExecutionStands
  <2> QED BY <2>2, <2>3 DEF ExecutionStands
<1>5. TokensStand'
  BY DEF TellIInv, TokensStand
<1>6. RunStands'
  BY <1>0, OptimizerAssumption DEF TellIInv, RunStands, Mine
<1>7. TaskTellsRun'
  BY DEF TaskTellsRun, Mine, Active
<1>8. local' = [j \in Token |-> local'[j]] /\ \A j \in Token \ issued' : local'[j] = Idle
  BY <1>1 DEF TellIInv
<1>9. \A j \in issued : /\ HandlerStands(local'[j], j, Mine(j)', run'.status)
                        /\ ExecutionStands(exec'[j], Mine(j)', run'.status)
  BY <1>3, <1>4
<1> QED BY <1>5, <1>6, <1>7, <1>8, <1>9 DEF TellIInv

\* A new task gets the run: no token is of that task.
LEMMA TaskTakes ==
    ASSUME TellIInv, NEW t \in Task, Enqueue(t), exec' = exec, local' = local, setting' = setting,
           DOMAIN run' = RunColumns, run'.task = t, run'.status = "queued"
    PROVE  TellIInv'
<1>0. TokensStand /\ RunStands /\ row[t].status = "absent" /\ issued' = issued
  BY DEF TellIInv, Enqueue
<1>1. QueueGoes /\ row'[t].status # "absent" /\ Quiet
  BY <1>0, ClientGoes
<1>2. TokensStand'
  BY <1>0, <1>1, TokensGo
<1>3. ASSUME NEW k \in issued PROVE Mine(k)' = FALSE
  BY <1>0 DEF Mine, TokensStand
<1>4. ASSUME NEW j \in issued PROVE /\ HandlerStands(local'[j], j, Mine(j)', run'.status)
                                    /\ ExecutionStands(exec'[j], Mine(j)', run'.status)
  <2>0. PICK m \in BOOLEAN : m = Mine(j)
    BY MineBoolean
  <2>1. PICK s, z, h, e : s = run.status /\ z = run'.status /\ h = local[j] /\ e = exec[j]
    OBVIOUS
  <2>2. HandlerStands(h, j, m, s) /\ ExecutionStands(e, m, s)
    BY <2>0, <2>1 DEF TellIInv
  <2>3. HandlerStands(h, j, FALSE, s) /\ ExecutionStands(e, FALSE, s)
    BY <2>2, HandlerLess, ExecutionLess
  <2>4. HandlerStands(h, j, FALSE, z) /\ ExecutionStands(e, FALSE, z)
    BY <2>3, HandlerAny, ExecutionAny
  <2> QED BY <1>3, <2>1, <2>4
<1>5. RunStands'
  BY <1>1, OptimizerAssumption DEF RunStands
<1>6. row'[t].status = "queued"
  <2>1. PICK ready \in BOOLEAN : row' = [row EXCEPT ![t].status = "queued", ![t].ready = ready]
    BY DEF Enqueue
  <2> DEFINE x == [row[t] EXCEPT !.status = "queued", !.ready = ready]
  <2>2. row'[t] = x /\ row[t] \in TaskRow
    BY <1>0, <2>1 DEF TokensStand
  <2> QED BY <2>2 DEF TaskRow
<1>7. TaskTellsRun'
  BY <1>6 DEF TaskTellsRun
<1> QED BY <1>0, <1>2, <1>4, <1>5, <1>7 DEF TellIInv

\* What executeTask does before and after the handler.
LEMMA SettleTells ==
    ASSUME TellIInv, NEW k \in issued, Settle(k), UNCHANGED runVars
    PROVE  TellIInv'
<1>0. /\ TokensStand /\ exec[k] \in Execution /\ exec[k].phase # "unhandled"
      /\ exec = [j \in issued |-> exec[j]] /\ ExecutionStands(exec[k], Mine(k), run.status)
      /\ k.task \in Task
  BY DEF TellIInv, ExecutionStands, TokensStand, Token
<1>f. run' = run /\ local' = local
  BY DEF runVars
<1>1. ASSUME NEW p \in {"handling", "checking", "acknowledging", "confirming"}, GoTo(k, p),
             QueueGoes, Quiet, issued' = issued, setting' = setting
      PROVE  TellIInv'
  <2>1. PICK e : e = [exec[k] EXCEPT !.phase = p]
    OBVIOUS
  <2>2. exec' = [exec EXCEPT ![k] = e]
    BY <1>1, <2>1 DEF GoTo
  <2>3. e \in Execution /\ e.phase = p
    BY <1>0, <2>1 DEF Execution, Phase
  <2>4. ExecutionStands(e, Mine(k), run.status)
    BY <2>3 DEF ExecutionStands
  <2> QED BY <1>1, <1>f, <2>2, <2>4, ExecutionMoves, QuietTells
<1>2. ASSUME Finish(k), QueueGoes, TaskTellsRun', issued' = issued, setting' = setting
      PROVE  TellIInv'
  <2>1. PICK e : e = Ended(exec[k])
    OBVIOUS
  <2>2. exec' = [exec EXCEPT ![k] = e]
    BY <1>2, <2>1 DEF Finish
  <2>3. e \in Execution /\ e.phase = "over"
    BY <1>0, <2>1 DEF Execution, Phase, Ended, Fresh
  <2>4. ExecutionStands(e, Mine(k), run.status)
    BY <2>3 DEF ExecutionStands
  <2> QED BY <1>2, <1>f, <2>2, <2>4, ExecutionMoves
<1>3. ASSUME UNCHANGED vars
      PROVE  QueueGoes /\ Quiet /\ issued' = issued /\ TaskTellsRun'
  BY <1>0, <1>3, <1>f, NothingWritten, QuietTells DEF vars
<1>4. ASSUME Heartbeat(k) \/ MarkCancelled(k) \/ Cancel(k.task) \/ Fail(k, TRUE)
      PROVE  QueueGoes /\ Quiet /\ issued' = issued /\ TaskTellsRun'
  BY <1>0, <1>4, <1>f, HolderGoes, QuietTells
<1>5. ASSUME NEW status, \/ Complete(k) /\ status = "succeeded" /\ exec[k].phase = "completing"
                         \/ Fail(k, FALSE) /\ status = "failed_terminal" /\ exec[k].phase = "failing"
                            /\ exec[k].outcome # "retryable"
      PROVE  QueueGoes /\ issued' = issued /\ TaskTellsRun'
  <2>1. /\ QueueGoes /\ issued' = issued /\ OwnsLease(k) /\ row'[k.task].status = status
        /\ \A t \in Task : t # k.task => row'[t] = row[t]
    BY <1>0, <1>5, EndingGoes
  <2>2. Mine(k) => AnswerStands(exec[k].outcome, run.status) /\ (status = "succeeded" => exec[k].outcome = "ok")
                   /\ (status = "failed_terminal" => exec[k].outcome = "terminal") /\ status \in {"succeeded", "failed_terminal"}
    BY <1>0, <1>5 DEF ExecutionStands
  <2>3. TaskTellsRun'
    <3>1. CASE run.task = k.task
      BY <1>f, <2>1, <2>2, <3>1 DEF TaskTellsRun, Mine, AnswerStands, EndedWell
    <3>2. CASE run.task # k.task
      BY <1>f, <2>1, <3>2 DEF TaskTellsRun, TellIInv, RunStands
    <3> QED BY <3>1, <3>2
  <2> QED BY <2>1, <2>3
<1>6. CASE FailUnhandled(k)
  BY <1>0, <1>6 DEF FailUnhandled, At
<1>7. CASE Start(k)
  BY <1>1, <1>3, <1>4, <1>7 DEF Start, At, Refused, ContextError, StorageError
<1>8. CASE CompleteTask(k)
  BY <1>2, <1>3, <1>5, <1>8 DEF CompleteTask, At, Refused, ContextError, StorageError
<1>9. CASE FailTask(k)
  <2>1. setting' = setting /\ Finish(k) /\ exec[k].phase = "failing"
    BY <1>9 DEF FailTask, At
  <2>2. CASE UNCHANGED vars
    BY <1>2, <1>3, <2>1, <2>2
  <2>3. CASE Fail(k, exec[k].outcome = "retryable")
    <3>1. CASE exec[k].outcome = "retryable"
      <4>1. Fail(k, TRUE)
        BY <2>3, <3>1 DEF Fail, FailedRow, FailedStatus
      <4> QED BY <1>2, <1>4, <2>1, <4>1
    <3>2. CASE exec[k].outcome # "retryable"
      <4>1. Fail(k, FALSE)
        BY <2>3, <3>2 DEF Fail, FailedRow, FailedStatus
      <4> QED BY <1>2, <1>5, <2>1, <3>2, <4>1
    <3> QED BY <3>1, <3>2
  <2> QED BY <1>9, <2>2, <2>3 DEF FailTask, Refused, ContextError, StorageError
<1>10. CASE RequestCancel(k)
  BY <1>1, <1>2, <1>3, <1>4, <1>10 DEF RequestCancel, At, ContextError, StorageError
<1>11. CASE CheckCancelled(k)
  BY <1>1, <1>2, <1>3, <1>11 DEF CheckCancelled, At, StorageError
<1>12. CASE Acknowledge(k)
  BY <1>2, <1>3, <1>4, <1>12 DEF Acknowledge, At, Refused, ContextError, StorageError
<1> QED BY <1>6, <1>7, <1>8, <1>9, <1>10, <1>11, <1>12 DEF Settle

\* The heartbeat and the monitor of an execution.
LEMMA TickTells ==
    ASSUME TellIInv, NEW k \in issued, HeartbeatTick(k) \/ MonitorTick(k), UNCHANGED runVars
    PROVE  TellIInv'
<1>0. /\ TokensStand /\ exec[k] \in Execution /\ exec[k].phase = "handling"
      /\ exec = [j \in issued |-> exec[j]]
  BY DEF TellIInv, ExecutionStands, HeartbeatTick, MonitorTick, At
<1>f. run' = run /\ local' = local /\ setting' = setting
  BY DEF runVars, HeartbeatTick, MonitorTick, At
<1>1. ASSUME NEW e, exec' = [exec EXCEPT ![k] = e], e \in Execution, e.phase = "handling", UNCHANGED vars
      PROVE  TellIInv'
  <2>1. ExecutionStands(e, Mine(k), run.status)
    BY <1>1 DEF ExecutionStands
  <2>2. QueueGoes /\ Quiet /\ issued' = issued
    BY <1>0, <1>1, NothingWritten DEF vars
  <2> QED BY <1>1, <1>f, <2>1, <2>2, ExecutionMoves, QuietTells
<1>2. CASE HeartbeatTick(k)
  <2>1. CASE Heartbeat(k) /\ exec' = exec
    BY <1>0, <1>f, <2>1, HolderGoes, ExecutionsStay
  <2>2. CASE UNCHANGED vars /\ exec' = [exec EXCEPT ![k].ctx = "done"]
    <3>1. PICK e : e = [exec[k] EXCEPT !.ctx = "done"]
      OBVIOUS
    <3>2. exec' = [exec EXCEPT ![k] = e] /\ e \in Execution /\ e.phase = "handling"
      BY <1>0, <2>2, <3>1 DEF Execution
    <3> QED BY <1>1, <2>2, <3>2
  <2> QED BY <1>2, <2>1, <2>2 DEF HeartbeatTick, Refused, StorageError
<1>3. CASE MonitorTick(k)
  <2>1. CASE exec' = [exec EXCEPT ![k].ctx = "done", ![k].monitor = FALSE]
    <3>1. PICK e : e = [exec[k] EXCEPT !.ctx = "done", !.monitor = FALSE]
      OBVIOUS
    <3>2. exec' = [exec EXCEPT ![k] = e]
      BY <1>0, <2>1, <3>1
    <3>3. e \in Execution /\ e.phase = "handling"
      BY <1>0, <3>1 DEF Execution
    <3> QED BY <1>1, <1>3, <3>2, <3>3 DEF MonitorTick, StorageError
  <2>2. CASE exec' = [exec EXCEPT ![k].monitor = FALSE]
    <3>1. PICK e : e = [exec[k] EXCEPT !.monitor = FALSE]
      OBVIOUS
    <3>2. exec' = [exec EXCEPT ![k] = e]
      BY <1>0, <2>2, <3>1
    <3>3. e \in Execution /\ e.phase = "handling"
      BY <1>0, <3>1 DEF Execution
    <3> QED BY <1>1, <1>3, <3>2, <3>3 DEF MonitorTick, StorageError
  <2> QED BY <1>3, <2>1, <2>2 DEF MonitorTick
<1> QED BY <1>2, <1>3

LEMMA DispatchTells ==
    ASSUME TellIInv, NEW w \in Worker, NEW p \in Pool, LeaseAndDispatch(w, p), UNCHANGED runVars
    PROVE  TellIInv'
<1>0. TokensStand /\ setting.handled = Task
  BY DEF TellIInv
<1>1. PICK n : n = AvailableSlots(w, p)
  OBVIOUS
<1>2. Lease(w, p, n) /\ run' = run /\ local' = local /\ setting' = setting
  BY <1>1 DEF LeaseAndDispatch, runVars
<1>3. QueueGoes /\ Quiet
  BY <1>0, <1>2, LeaseGoes
<1>4. PICK started : exec' = [k \in issued' |->
                           IF k \in started THEN Fresh("starting")
                           ELSE IF k \notin issued' \ issued THEN exec[k]
                           ELSE IF k.task \in setting.handled THEN Fresh("dropped")
                           ELSE Fresh("unhandled")]
                     /\ started \subseteq issued' \ issued
  BY DEF LeaseAndDispatch
<1>5. issued \subseteq issued' /\ \A k \in issued' \ issued : k.task \in Task
  BY <1>3 DEF QueueGoes, Token
<1>6. \A k \in issued : exec'[k] = exec[k]
  BY <1>4, <1>5
<1>7. \A k \in issued' \ issued : exec'[k] \in {Fresh("starting"), Fresh("dropped")}
  BY <1>0, <1>4, <1>5
<1>8. exec' = [k \in issued' |-> exec'[k]]
  BY <1>4
<1>9. \A k \in issued : ExecutionStands(exec'[k], Mine(k), run.status)
  BY <1>6 DEF TellIInv
<1> QED BY <1>2, <1>3, <1>7, <1>8, <1>9, QuietTells, QueueMoves

\* The queue and the workers beside the handlers.
LEMMA QueueTells ==
    ASSUME TellIInv, Queue, UNCHANGED runVars
    PROVE  TellIInv'
<1>0. TokensStand /\ exec = [j \in issued |-> exec[j]] /\ run' = run /\ local' = local /\ DOMAIN exec = issued
  BY DEF TellIInv, runVars
<1>1. ASSUME NEW t \in Task, Expiry(t) \/ Backoff(t)
      PROVE  TellIInv'
  <2>1. LeaseExpires(t) \/ BecomesReady(t)
    BY <1>1 DEF Expiry, Backoff
  <2>2. exec' = exec /\ setting' = setting /\ issued' = issued
    BY <1>1, <2>1 DEF Expiry, Backoff, poolVars, LeaseExpires, BecomesReady
  <2> QED BY <1>0, <2>1, <2>2, ClientGoes, ExecutionsStay
<1>2. ASSUME NEW w \in Worker, Stop(w) \/ Stopped(w)
      PROVE  TellIInv'
  <2>1. row' = row /\ issued' = issued /\ exec' = exec /\ setting' = setting
    BY <1>2 DEF Stop, Stopped, vars
  <2> QED BY <1>0, <2>1, NothingWritten, ExecutionsStay
<1> QED BY <1>0, <1>1, <1>2, SettleTells, TickTells, DispatchTells DEF Queue

\* The handler of the execution takes a step of its own.
Works(k) == /\ exec[k].phase = "handling"
            /\ row' = row /\ issued' = issued /\ exec' = exec /\ setting' = setting

\* The steps that are made on a loaded run, but for the two that end it.
Midway == Step \ {"claim", "load", "failing", "stop", "returned", "answered"}

\* A copy of the run that was loaded, midway.
IsMidway(l, k, mine) ==
    /\ LocalShape(l)
    /\ l.step \in Midway
    /\ l.answer \in {"ok", "retryable"}
    /\ mine => l.run.task = k.task

LEMMA MidwayStands ==
    ASSUME NEW l, NEW k, NEW m \in BOOLEAN, NEW s, IsMidway(l, k, m)
    PROVE  HandlerStands(l, k, m, s)
  BY DEF IsMidway, HandlerStands, Midway, Step

LEMMA CallWorks ==
    ASSUME NEW k, NEW s, AtCall(k, s)
    PROVE  Works(k) /\ local[k].step = s
  BY DEF AtCall, Works, allVars, vars, poolVars

LEMMA HandlingWorks ==
    ASSUME NEW k, NEW s, Handling(k, s)
    PROVE  Works(k) /\ local[k].step = s
  BY CallWorks DEF Handling

LEMMA MidwayIs ==
    ASSUME TellIInv, NEW k \in issued, local[k].step \in Midway
    PROVE  IsMidway(local[k], k, Mine(k))
  BY DEF TellIInv, HandlerStands, IsMidway, Midway, Unloaded

LEMMA ShapeIs ==
    ASSUME TellIInv, NEW k \in issued
    PROVE  LocalShape(local[k])
  BY DEF TellIInv, HandlerStands

\* A call that fails: the handler returns, or fails the run first.
LEMMA FailedStands ==
    ASSUME NEW l, NEW k, NEW m \in BOOLEAN, NEW s, LocalShape(l), l.step \notin {"returned", "answered"},
           m /\ l.step \notin Unloaded => l.run.task = k.task
    PROVE  /\ HandlerStands(Failed(l), k, m, s)
           /\ DOMAIN Failed(l).run = RunColumns /\ Failed(l).run = l.run
           /\ Failed(l).step = OnError(l.step) /\ LocalShape(Failed(l)) /\ Failed(l).answer = "retryable"
<1>1. PICK x : x = Failed(l)
  OBVIOUS
<1>2. LocalShape(x) /\ x.run = l.run /\ x.answer = "retryable" /\ x.step = OnError(l.step)
  BY <1>1 DEF LocalShape, Failed
<1>3. x.step \in {"answered", "returned", "failing"} /\ (x.step = "failing" => l.step \notin Unloaded)
  BY <1>2 DEF OnError, Unfailing, Unloaded
<1>4. DOMAIN x.run = RunColumns
  BY <1>2 DEF LocalShape
<1>5. AnswerStands(x.answer, s) /\ x.answer \in Answer /\ x.answer \in {"ok", "retryable"} /\ x.answer # "ok"
  BY <1>2 DEF AnswerStands, Answer
<1>6. m /\ x.step \notin Unloaded => x.run.task = k.task
  BY <1>2, <1>3 DEF Unloaded
<1>7. HandlerStands(x, k, m, s)
  BY <1>2, <1>3, <1>5, <1>6 DEF HandlerStands
<1> QED BY <1>1, <1>2, <1>4, <1>7

LEMMA LostTells ==
    ASSUME TellIInv, NEW k \in issued, Works(k), local[k].step \notin {"returned", "answered"},
           NEW x, LocalShape(x), x.step = local[k].step, Mine(k) /\ x.step \notin Unloaded => x.run.task = k.task,
           Goto(k, Failed(x)), run' = run
    PROVE  TellIInv'
<1>1. PICK m \in BOOLEAN : m = Mine(k)
  BY MineBoolean
<1>2. PICK s, y : s = run.status /\ y = Failed(x)
  OBVIOUS
<1>3. HandlerStands(y, k, m, s)
  BY <1>1, <1>2, FailedStands
<1>4. local' = [local EXCEPT ![k] = y]
  BY <1>2 DEF Goto
<1> QED BY <1>1, <1>2, <1>3, <1>4, HandlerReads DEF Works

LEMMA RefusedTells ==
    ASSUME TellIInv, NEW k \in issued, Works(k), local[k].step \notin {"returned", "answered"},
           Goto(k, Failed(local[k])), run' = run
    PROVE  TellIInv'
<1>1. HandlerStands(local[k], k, Mine(k), run.status)
  BY DEF TellIInv
<1>2. LocalShape(local[k]) /\ (Mine(k) /\ local[k].step \notin Unloaded => local[k].run.task = k.task)
  BY <1>1 DEF HandlerStands
<1> QED BY <1>2, LostTells

LEMMA ReadTells ==
    ASSUME TellIInv, NEW k \in issued, Works(k), NEW x, Goto(k, x), run' = run, IsMidway(x, k, Mine(k))
    PROVE  TellIInv'
<1>1. PICK m \in BOOLEAN : m = Mine(k)
  BY MineBoolean
<1>2. PICK s : s = run.status
  OBVIOUS
<1>3. HandlerStands(x, k, m, s)
  BY <1>1, MidwayStands
<1> QED BY <1>1, <1>2, <1>3, HandlerReads DEF Works, Goto

LEMMA SaveRunTells ==
    ASSUME TellIInv, NEW k \in issued, Works(k), local[k].step \notin {"returned", "answered"},
           NEW x, SaveRun(k, x), DOMAIN x.run = RunColumns, Mine(k) => x.run.task = k.task,
           HandlerStands(x, k, Mine(k), x.run.status)
    PROVE  TellIInv'
<1>1. CASE OwnsRun(k) /\ run' = x.run /\ Goto(k, x)
  <2>1. Mine(k) /\ row[k.task].status \in Active /\ run'.task = run.task
    BY <1>1 DEF OwnsRun, Mine
  <2>2. HandlerStands(x, k, TRUE, run'.status)
    BY <1>1, <2>1, MineBoolean DEF HandlerStands
  <2> QED BY <1>1, <2>1, <2>2, HandlerWrites DEF Works, Goto
<1>2. CASE Lost(k)
  BY <1>2, RefusedTells DEF Lost
<1> QED BY <1>1, <1>2 DEF SaveRun

LEMMA SaveCandidateTells ==
    ASSUME TellIInv, NEW k \in issued, Works(k), local[k].step \notin {"returned", "answered"},
           NEW c, NEW x, SaveCandidate(k, c, x), HandlerStands(x, k, Mine(k), run.status)
    PROVE  TellIInv'
<1>1. CASE run' = run /\ Goto(k, x)
  BY <1>1, HandlerReads DEF Works, Goto
<1>2. CASE Lost(k)
  BY <1>2, RefusedTells DEF Lost
<1> QED BY <1>1, <1>2 DEF SaveCandidate

\* Calls between the loading of the run and its end.
LEMMA SaveMidwayTells ==
    ASSUME TellIInv, NEW k \in issued, Works(k), local[k].step \notin {"returned", "answered"},
           NEW c, NEW x, SaveRun(k, x) \/ SaveCandidate(k, c, x), IsMidway(x, k, Mine(k))
    PROVE  TellIInv'
<1>1. PICK m \in BOOLEAN : m = Mine(k)
  BY MineBoolean
<1>2. PICK s, z : s = run.status /\ z = x.run.status
  OBVIOUS
<1>3. HandlerStands(x, k, m, s) /\ HandlerStands(x, k, m, z)
  BY <1>1, MidwayStands
<1>4. DOMAIN x.run = RunColumns /\ (Mine(k) => x.run.task = k.task)
  BY DEF IsMidway, LocalShape
<1> QED BY <1>1, <1>2, <1>3, <1>4, SaveRunTells, SaveCandidateTells

LEMMA MidwayGoes ==
    ASSUME NEW l, NEW k, NEW m \in BOOLEAN, IsMidway(l, k, m), NEW x, DOMAIN x = DOMAIN l, x.step \in Midway,
           x.answer = l.answer, DOMAIN x.run = DOMAIN l.run, x.run.task = l.run.task
    PROVE  IsMidway(x, k, m)
  BY DEF IsMidway, LocalShape

LEMMA AfterSteps == \A l : AfterScoring(l) \in Midway /\ NextCandidate(l) \in Midway
  BY DEF AfterScoring, NextCandidate, AfterSelection, Midway, Step

LEMMA ReadsTell ==
    ASSUME TellIInv, NEW k \in issued,
           List(k) \/ Evaluate(k) \/ Merge(k) \/ Score(k) \/ Holdout(k) \/ Gate(k) \/ Pending(k)
    PROVE  TellIInv'
<1>0. Works(k) /\ local[k].step \in Midway
  <2>1. \E s \in Midway : Handling(k, s)
    BY DEF List, Evaluate, Merge, Score, Holdout, Gate, Pending, Midway, Step
  <2> QED BY <2>1, HandlingWorks
<1>1. PICK m \in BOOLEAN : m = Mine(k)
  BY MineBoolean
<1>2. PICK l : l = local[k]
  OBVIOUS
<1>3. IsMidway(l, k, m)
  BY <1>0, <1>1, <1>2, MidwayIs
<1>4. DOMAIN l = {"step", "run", "cand", "todo", "holding", "answer"} /\ DOMAIN l.run = RunColumns
  BY <1>3 DEF IsMidway, LocalShape
<1>5. ASSUME NEW x, Read(k, x), DOMAIN x = DOMAIN l, x.step \in Midway, x.answer = l.answer,
             DOMAIN x.run = DOMAIN l.run, x.run.task = l.run.task
      PROVE  TellIInv'
  <2>1. IsMidway(x, k, m)
    BY <1>3, <1>5, MidwayGoes
  <2> QED BY <1>0, <1>1, <1>5, <2>1, ReadTells DEF Read
<1>6. CASE List(k)
  <2>1. PICK todo : todo = {c \in Candidate : c \notin l.run.completed /\ cand[c].status \notin Finished}
    OBVIOUS
  <2>2. PICK y : y = [l EXCEPT !.cand = cand, !.todo = todo]
    OBVIOUS
  <2>3. PICK x : x = Advance(y)
    OBVIOUS
  <2>4. Read(k, x)
    BY <1>2, <1>6, <2>1, <2>2, <2>3 DEF List
  <2>5. DOMAIN y = DOMAIN l /\ y.answer = l.answer /\ y.run = l.run
    BY <1>4, <2>2
  <2>6. DOMAIN x = DOMAIN l /\ x.answer = l.answer /\ x.run = l.run /\ x.step = NextCandidate(y)
    BY <1>4, <2>3, <2>5 DEF Advance
  <2> QED BY <1>5, <2>4, <2>6, AfterSteps
<1>7. CASE Evaluate(k)
  <2>1. PICK c : c = Current(l)
    OBVIOUS
  <2>2. PICK x : Read(k, x) /\ \/ \E v : x = [l EXCEPT !.step = "evaluated", !.cand[c] = v]
                               \/ x = [l EXCEPT !.step = "candidateFailed", !.cand[c].status = "failed"]
    BY <1>2, <1>7, <2>1 DEF Evaluate
  <2>3. DOMAIN x = DOMAIN l /\ x.answer = l.answer /\ x.run = l.run /\ x.step \in {"evaluated", "candidateFailed"}
    BY <1>4, <2>2
  <2> QED BY <1>5, <2>2, <2>3 DEF Midway, Step
<1>8. CASE Merge(k)
  <2>1. PICK y : y = [l EXCEPT !.step = "save"]
    OBVIOUS
  <2>2. DOMAIN y = DOMAIN l /\ y.answer = l.answer /\ y.run = l.run /\ y.step = "save"
    BY <1>4, <2>1
  <2>3. CASE Read(k, y)
    BY <1>5, <2>2, <2>3 DEF Midway, Step
  <2>4. CASE Read(k, [y EXCEPT !.run.status = run.status, !.run.cancelRequested = run.cancelRequested])
    <3>1. PICK x : x = [y EXCEPT !.run.status = run.status, !.run.cancelRequested = run.cancelRequested]
      OBVIOUS
    <3>2. DOMAIN x = DOMAIN l /\ x.answer = l.answer /\ x.step = "save"
          /\ DOMAIN x.run = DOMAIN l.run /\ x.run.task = l.run.task
      BY <1>4, <2>2, <3>1 DEF RunColumns
    <3> QED BY <1>5, <2>4, <3>1, <3>2 DEF Midway, Step
  <2> QED BY <1>2, <1>8, <2>1, <2>3, <2>4 DEF Merge
<1>9. CASE Score(k)
  <2>1. PICK inputs : inputs = {c \in Candidate : cand[c].status \notin {"failed", "queued", "running"}}
    OBVIOUS
  <2>2. PICK y : y = [l EXCEPT !.cand = cand, !.todo = inputs]
    OBVIOUS
  <2>3. DOMAIN y = DOMAIN l /\ y.answer = l.answer /\ y.run = l.run
    BY <1>4, <2>2
  <2>4. PICK x : Read(k, x) /\ \/ x = [y EXCEPT !.step = "saveBest"]
                               \/ x = [y EXCEPT !.step = "scoring", !.run.best = BestOf(cand, inputs)]
    BY <1>2, <1>9, <2>1, <2>2 DEF Score
  <2>5. DOMAIN x = DOMAIN l /\ x.answer = l.answer /\ x.step \in {"saveBest", "scoring"}
        /\ DOMAIN x.run = DOMAIN l.run /\ x.run.task = l.run.task
    <3>1. CASE x = [y EXCEPT !.step = "saveBest"]
      BY <1>4, <2>3, <3>1
    <3>2. CASE x = [y EXCEPT !.step = "scoring", !.run.best = BestOf(cand, inputs)]
      <4>1. PICK b : b = BestOf(cand, inputs)
        OBVIOUS
      <4>2. x = [y EXCEPT !.step = "scoring", !.run.best = b]
        BY <3>2, <4>1
      <4>3. DOMAIN x = DOMAIN y /\ x.answer = y.answer /\ x.step = "scoring" /\ x.run = [y.run EXCEPT !.best = b]
        BY ONLY <1>4, <2>3, <4>2
      <4> QED BY <1>4, <2>3, <4>3 DEF RunColumns
    <3> QED BY <2>4, <3>1, <3>2
  <2> QED BY <1>5, <2>4, <2>5 DEF Midway, Step
<1>10. CASE Holdout(k)
  <2>1. PICK x : x = [l EXCEPT !.cand = cand, !.holding = TRUE, !.step = "acquire"]
    OBVIOUS
  <2>2. DOMAIN x = DOMAIN l /\ x.answer = l.answer /\ x.run = l.run /\ x.step = "acquire"
    BY <1>4, <2>1
  <2> QED BY <1>2, <1>5, <1>10, <2>1, <2>2 DEF Holdout, Midway, Step
<1>11. CASE Gate(k)
  <2>1. PICK x : Read(k, x) /\ \/ x = [l EXCEPT !.run.holdout = l.run.best, !.step = "heldOut"]
                               \/ x = [l EXCEPT !.step = "rejected"]
    BY <1>2, <1>11 DEF Gate
  <2>2. DOMAIN x = DOMAIN l /\ x.answer = l.answer /\ x.step \in {"heldOut", "rejected"}
        /\ DOMAIN x.run = DOMAIN l.run /\ x.run.task = l.run.task
    <3>1. CASE x = [l EXCEPT !.step = "rejected"]
      BY <1>4, <3>1
    <3>2. CASE x = [l EXCEPT !.run.holdout = l.run.best, !.step = "heldOut"]
      <4>1. DOMAIN x = DOMAIN l /\ x.answer = l.answer /\ x.step = "heldOut" /\ x.run = [l.run EXCEPT !.holdout = l.run.best]
        BY ONLY <1>4, <3>2
      <4> QED BY <1>4, <4>1 DEF RunColumns
    <3> QED BY <2>1, <3>1, <3>2
  <2> QED BY <1>5, <2>1, <2>2 DEF Midway, Step
<1>12. CASE Pending(k)
  <2>1. PICK pending : pending = {c \in Candidate : cand[c].pending}
    OBVIOUS
  <2>2. PICK s \in {"complete", "cleanup"} : Read(k, [l EXCEPT !.cand = cand, !.todo = pending, !.step = s])
    BY <1>2, <1>12, <2>1 DEF Pending
  <2>3. PICK x : x = [l EXCEPT !.cand = cand, !.todo = pending, !.step = s]
    OBVIOUS
  <2>4. DOMAIN x = DOMAIN l /\ x.answer = l.answer /\ x.run = l.run /\ x.step = s
    BY <1>4, <2>3
  <2> QED BY <1>5, <2>2, <2>3, <2>4 DEF Midway, Step
<1> QED BY <1>6, <1>7, <1>8, <1>9, <1>10, <1>11, <1>12

LEMMA WritesTell ==
    ASSUME TellIInv, NEW k \in issued,
           \/ Evaluated(k) \/ Judged(k) \/ Save(k) \/ Scoring(k) \/ SaveBest(k) \/ HeldOut(k)
           \/ Promote(k) \/ Clean(k) \/ SaveHoldout(k) \/ Cleanup(k)
    PROVE  TellIInv'
<1>0. Works(k) /\ local[k].step \in Midway
  <2>1. \E s \in Midway : Handling(k, s)
    BY DEF Evaluated, Judged, Save, Scoring, SaveBest, HeldOut, Promote, Clean, SaveHoldout, Cleanup, Midway, Step
  <2> QED BY <2>1, HandlingWorks
<1>1. PICK m \in BOOLEAN : m = Mine(k)
  BY MineBoolean
<1>2. PICK l : l = local[k]
  OBVIOUS
<1>3. IsMidway(l, k, m)
  BY <1>0, <1>1, <1>2, MidwayIs
<1>4. DOMAIN l = {"step", "run", "cand", "todo", "holding", "answer"} /\ DOMAIN l.run = RunColumns
  BY <1>3 DEF IsMidway, LocalShape
<1>5. ASSUME NEW x, NEW c, SaveRun(k, x) \/ SaveCandidate(k, c, x), DOMAIN x = DOMAIN l, x.step \in Midway,
             x.answer = l.answer, DOMAIN x.run = DOMAIN l.run, x.run.task = l.run.task
      PROVE  TellIInv'
  <2>1. IsMidway(x, k, m)
    BY <1>3, <1>5, MidwayGoes
  <2>2. local[k].step \notin {"returned", "answered"}
    BY <1>0 DEF Midway
  <2> QED BY <1>0, <1>1, <1>5, <2>1, <2>2, SaveMidwayTells
<1>6. ASSUME NEW x, NEW c, SaveRun(k, x) \/ SaveCandidate(k, c, x), NEW s \in Midway, x = [l EXCEPT !.step = s]
      PROVE  TellIInv'
  <2>1. DOMAIN x = DOMAIN l /\ x.step = s /\ x.answer = l.answer /\ x.run = l.run
    BY ONLY <1>4, <1>6
  <2> QED BY <1>5, <1>6, <2>1
<1>8. CASE Evaluated(k)
  <2>1. "judged" \in Midway
    BY DEF Midway, Step
  <2> QED BY <1>2, <1>6, <1>8, <2>1 DEF Evaluated
<1>9. CASE Judged(k)
  <2>1. PICK c : c = Current(l)
    OBVIOUS
  <2>5. PICK x : x = [l EXCEPT !.step = "merge", !.cand[c].status = "judged",
                               !.run.judgeCalls = @ + 1,
                               !.run.completed = IF l.holding THEN @ ELSE @ \cup {c}]
    OBVIOUS
  <2>6. SaveCandidate(k, c, x)
    BY <1>2, <1>9, <2>1, <2>5 DEF Judged
  <2>7. DOMAIN x = DOMAIN l /\ x.step = "merge" /\ x.answer = l.answer
        /\ DOMAIN x.run = DOMAIN l.run /\ x.run.task = l.run.task
    BY ONLY <1>4, <2>5 DEF RunColumns
  <2> QED BY <1>5, <2>6, <2>7 DEF Midway, Step
<1>10. CASE Save(k)
  <2>1. "gate" \in Midway /\ "recheck" \in Midway
    BY DEF Midway, Step
  <2>2. CASE SaveRun(k, [l EXCEPT !.step = "gate"])
    BY <1>6, <2>1, <2>2
  <2>3. CASE SaveRun(k, [l EXCEPT !.step = "recheck", !.todo = @ \ {Smallest(@)}])
    <3>1. PICK x : x = [l EXCEPT !.step = "recheck", !.todo = @ \ {Smallest(@)}]
      OBVIOUS
    <3>2. DOMAIN x = DOMAIN l /\ x.step = "recheck" /\ x.answer = l.answer /\ x.run = l.run
      BY ONLY <1>4, <3>1
    <3> QED BY <1>5, <2>1, <2>3, <3>1, <3>2
  <2> QED BY <1>2, <1>10, <2>2, <2>3 DEF Save
<1>11. CASE Scoring(k)
  <2>1. PICK c : c = BestOf(l.cand, l.todo)
    OBVIOUS
  <2>2. PICK v : v = IF c = l.run.best /\ ~HoldoutSplit THEN "promoted" ELSE "scored"
    OBVIOUS
  <2>3. PICK s : s = IF l.todo = {c} THEN "saveBest" ELSE "scoring"
    OBVIOUS
  <2>4. PICK x : x = [l EXCEPT !.cand[c].status = v, !.todo = @ \ {c}, !.step = s]
    OBVIOUS
  <2>5. SaveCandidate(k, c, x)
    BY <1>2, <1>11, <2>1, <2>2, <2>3, <2>4 DEF Scoring
  <2>6. DOMAIN x = DOMAIN l /\ x.step = s /\ x.answer = l.answer /\ x.run = l.run
    BY ONLY <1>4, <2>4
  <2>7. s \in Midway
    BY <2>3 DEF Midway, Step
  <2> QED BY <1>5, <2>5, <2>6, <2>7
<1>12. CASE SaveBest(k)
  BY <1>2, <1>6, <1>12, AfterSteps DEF SaveBest
<1>13. CASE HeldOut(k)
  <2>1. "promote" \in Midway
    BY DEF Midway, Step
  <2>2. PICK c, v, x : c = Current(l) /\ v = "holdout_evaluated" /\ x = [l EXCEPT !.cand[c].status = v, !.step = "promote"]
    OBVIOUS
  <2>3. SaveCandidate(k, c, x)
    BY <1>2, <1>13, <2>2 DEF HeldOut
  <2>4. DOMAIN x = DOMAIN l /\ x.step = "promote" /\ x.answer = l.answer /\ x.run = l.run
    BY ONLY <1>4, <2>2
  <2> QED BY <1>5, <2>1, <2>3, <2>4
<1>14. CASE Promote(k)
  <2>1. PICK c : c = Current(l)
    OBVIOUS
  <2>2. PICK s : s = IF l.cand[c].pending THEN "clean" ELSE "saveHoldout"
    OBVIOUS
  <2>3. s \in Midway
    BY <2>2 DEF Midway, Step
  <2>4. PICK v : v = "promoted"
    OBVIOUS
  <2>5. PICK x : x = [l EXCEPT !.cand[c].status = v, !.step = s]
    OBVIOUS
  <2>6. SaveCandidate(k, c, x)
    BY <1>2, <1>14, <2>1, <2>2, <2>4, <2>5 DEF Promote
  <2>7. DOMAIN x = DOMAIN l /\ x.step = s /\ x.answer = l.answer /\ x.run = l.run
    BY ONLY <1>4, <2>5
  <2> QED BY <1>5, <2>3, <2>6, <2>7
<1>15. ASSUME NEW c PROVE DOMAIN Cleaned(l, c) = DOMAIN l /\ Cleaned(l, c).answer = l.answer /\ Cleaned(l, c).run = l.run
  BY <1>4 DEF Cleaned
<1>16. CASE Clean(k)
  <2>1. PICK c : c = Current(l)
    OBVIOUS
  <2>2. PICK y : y = Cleaned(l, c)
    OBVIOUS
  <2>3. PICK x : x = [y EXCEPT !.step = "saveHoldout"]
    OBVIOUS
  <2>4. SaveCandidate(k, c, x)
    BY <1>2, <1>16, <2>1, <2>2, <2>3 DEF Clean
  <2>5. DOMAIN y = DOMAIN l /\ y.answer = l.answer /\ y.run = l.run
    BY <1>15, <2>2
  <2>6. DOMAIN x = DOMAIN l /\ x.step = "saveHoldout" /\ x.answer = l.answer /\ x.run = l.run
    BY ONLY <1>4, <2>3, <2>5
  <2> QED BY <1>5, <2>4, <2>6 DEF Midway, Step
<1>17. CASE SaveHoldout(k)
  <2>1. "pending" \in Midway
    BY DEF Midway, Step
  <2> QED BY <1>2, <1>6, <1>17, <2>1 DEF SaveHoldout
<1>18. CASE Cleanup(k)
  <2>1. PICK c : c = Smallest(l.todo)
    OBVIOUS
  <2>2. PICK y, s : y = Cleaned(l, c) /\ s = IF l.todo = {c} THEN "complete" ELSE "cleanup"
    OBVIOUS
  <2>3. PICK x : x = [y EXCEPT !.todo = @ \ {c}, !.step = s]
    OBVIOUS
  <2>4. SaveCandidate(k, c, x)
    BY <1>2, <1>18, <2>1, <2>2, <2>3 DEF Cleanup
  <2>5. DOMAIN y = DOMAIN l /\ y.answer = l.answer /\ y.run = l.run
    BY <1>15, <2>2
  <2>6. DOMAIN x = DOMAIN l /\ x.step = s /\ x.answer = l.answer /\ x.run = l.run
    BY ONLY <1>4, <2>3, <2>5
  <2>7. s \in Midway
    BY <2>2 DEF Midway, Step
  <2> QED BY <1>5, <2>4, <2>6, <2>7
<1> QED BY <1>8, <1>9, <1>10, <1>11, <1>12, <1>13, <1>14, <1>16, <1>17, <1>18

LEMMA AcquireTells ==
    ASSUME TellIInv, NEW k \in issued, Acquire(k)
    PROVE  TellIInv'
<1>0. Works(k) /\ local[k].step = "acquire" /\ run' = run
  BY HandlingWorks DEF Acquire
<1>1. local[k].step \in Midway /\ local[k].step \notin {"returned", "answered"}
  BY <1>0 DEF Midway, Step
<1>2. PICK l : l = local[k]
  OBVIOUS
<1>3. PICK m \in BOOLEAN : m = Mine(k)
  BY MineBoolean
<1>4. IsMidway(l, k, m)
  BY <1>1, <1>2, <1>3, MidwayIs
<1>5. PICK c : c = Current(l)
  OBVIOUS
<1>6. CASE Goto(k, [l EXCEPT !.cand[c].status = "running", !.step = "evaluate"])
  <2>1. PICK x : x = [l EXCEPT !.cand[c].status = "running", !.step = "evaluate"]
    OBVIOUS
  <2>2. DOMAIN l = {"step", "run", "cand", "todo", "holding", "answer"}
    BY <1>4 DEF IsMidway, LocalShape
  <2>3. DOMAIN x = DOMAIN l /\ x.step = "evaluate" /\ x.answer = l.answer /\ x.run = l.run
    BY ONLY <2>1, <2>2
  <2>4. IsMidway(x, k, m)
    <3>1. x.step \in Midway
      BY <2>3 DEF Midway, Step
    <3> QED BY <1>4, <2>3, <3>1, MidwayGoes
  <2> QED BY <1>0, <1>3, <1>6, <2>1, <2>4, ReadTells
<1>7. CASE Goto(k, Failed(local[k]))
  BY <1>0, <1>1, <1>7, RefusedTells
<1> QED BY <1>2, <1>5, <1>6, <1>7 DEF Acquire

\* claimRun: the copy that was loaded is written with its new status.
LEMMA ClaimRunTells ==
    ASSUME TellIInv, NEW k \in issued, NEW s, NEW status, NEW next, ClaimRun(k, s, status, next), s \in Midway,
           \/ next = "returned" /\ status = "canceled"
           \/ next \in Midway
    PROVE  TellIInv'
<1>0. Works(k) /\ local[k].step = s
  BY HandlingWorks DEF ClaimRun
<1>1. local[k].step \in Midway /\ local[k].step \notin {"returned", "answered"}
  BY <1>0 DEF Midway, Step
<1>2. PICK l : l = local[k]
  OBVIOUS
<1>3. IsMidway(l, k, Mine(k))
  BY <1>1, <1>2, MidwayIs
<1>4. CASE OwnsRun(k) /\ run' = [l.run EXCEPT !.status = status]
           /\ Goto(k, [l EXCEPT !.run.status = status, !.step = next])
  <2>1. PICK x : x = [l EXCEPT !.run.status = status, !.step = next]
    OBVIOUS
  <2>2. DOMAIN l = {"step", "run", "cand", "todo", "holding", "answer"} /\ DOMAIN l.run = RunColumns
    BY <1>3 DEF IsMidway, LocalShape
  <2>3. DOMAIN x = DOMAIN l /\ x.step = next /\ x.answer = l.answer /\ x.run = [l.run EXCEPT !.status = status]
    BY ONLY <2>1, <2>2
  <2>4. Mine(k) /\ row[k.task].status \in Active /\ l.run.task = k.task
    BY <1>3, <1>4 DEF OwnsRun, Mine, IsMidway
  <2>5. DOMAIN run' = RunColumns /\ run'.task = k.task /\ run'.status = status /\ run'.task = run.task /\ x.run = run'
    BY <1>4, <2>2, <2>3, <2>4 DEF RunColumns, Mine
  <2>6. LocalShape(x) /\ x.answer \in {"ok", "retryable"} /\ x.run.task = k.task
    BY <1>3, <2>2, <2>3, <2>5 DEF LocalShape, IsMidway
  <2>7. HandlerStands(x, k, TRUE, run'.status)
    <3>1. CASE next = "returned" /\ status = "canceled"
      BY <2>3, <2>5, <2>6, <3>1 DEF HandlerStands, Unloaded
    <3>2. CASE next \in Midway
      <4>1. IsMidway(x, k, TRUE)
        BY <2>3, <2>6, <3>2 DEF IsMidway
      <4>2. PICK z : z = run'.status
        OBVIOUS
      <4> QED BY <4>1, <4>2, MidwayStands
    <3> QED BY <3>1, <3>2
  <2> QED BY <1>0, <1>4, <2>1, <2>4, <2>5, <2>7, HandlerWrites DEF Works, Goto
<1>5. CASE run' = run /\ Goto(k, Failed(local[k]))
  BY <1>0, <1>1, <1>5, RefusedTells
<1> QED BY <1>2, <1>4, <1>5 DEF ClaimRun, SwapsRun

\* shouldStop works on the run it has just read.
LEMMA ShouldStopTells ==
    ASSUME TellIInv, NEW k \in issued, NEW s, ShouldStop(k, s), s \in {"check", "recheck"}
    PROVE  TellIInv'
<1>0. Works(k) /\ local[k].step = s
  BY HandlingWorks DEF ShouldStop
<1>1. local[k].step \in Midway
  BY <1>0 DEF Midway, Step
<1>2. PICK h, r : h = local[k] /\ r = run
  OBVIOUS
<1>3. PICK m \in BOOLEAN : m = Mine(k)
  BY MineBoolean
<1>4. IsMidway(h, k, m) /\ DOMAIN r = RunColumns /\ (m => r.task = k.task) /\ h.step = s
  BY <1>0, <1>1, <1>2, <1>3, MidwayIs DEF TellIInv, RunStands, Mine
<1>5. PICK l : l = [h EXCEPT !.run = r]
  OBVIOUS
<1>6. DOMAIN h = {"step", "run", "cand", "todo", "holding", "answer"}
  BY <1>4 DEF IsMidway, LocalShape
<1>7. DOMAIN l = DOMAIN h /\ l.run = r /\ l.step = s /\ l.answer = h.answer
  BY ONLY <1>4, <1>5, <1>6
<1>8. IsMidway(l, k, m)
  BY <1>0, <1>1, <1>4, <1>6, <1>7 DEF IsMidway, LocalShape
<1>9. ASSUME NEW status \in {"canceled", "budget_stopped"}, Read(k, [l EXCEPT !.run.status = status, !.step = "stop"])
      PROVE  TellIInv'
  <2>1. PICK x : x = [l EXCEPT !.run.status = status, !.step = "stop"]
    OBVIOUS
  <2>2. DOMAIN x = DOMAIN l /\ x.step = "stop" /\ x.answer = l.answer /\ x.run = [r EXCEPT !.status = status]
    BY ONLY <1>6, <1>7, <2>1
  <2>3. DOMAIN x.run = RunColumns /\ x.run.task = r.task /\ x.run.status = status
    BY <1>4, <2>2 DEF RunColumns
  <2>4. x.answer \in {"ok", "retryable"} /\ LocalShape(x)
    BY <1>6, <1>7, <1>8, <2>2, <2>3 DEF IsMidway, LocalShape
  <2>5. PICK z : z = run.status
    OBVIOUS
  <2>6. HandlerStands(x, k, m, z)
    BY <1>4, <2>2, <2>3, <2>4 DEF HandlerStands, Unloaded
  <2> QED BY <1>0, <1>3, <1>9, <2>1, <2>5, <2>6, HandlerReads DEF Works, Read, Goto
<1>10. CASE Read(k, GoOn(l))
  <2>1. PICK x : x = GoOn(l)
    OBVIOUS
  <2>2. DOMAIN x = DOMAIN l /\ x.answer = l.answer /\ x.run = l.run /\ x.step \in {"acquire", NextCandidate(l)}
    BY <1>6, <1>7, <2>1 DEF GoOn, Advance
  <2>3. x.step \in Midway
    BY <2>2, AfterSteps DEF Midway, Step
  <2>4. IsMidway(x, k, m)
    BY <1>8, <2>2, <2>3, MidwayGoes
  <2> QED BY <1>0, <1>3, <1>10, <2>1, <2>4, ReadTells DEF Read
<1>11. \/ Read(k, [l EXCEPT !.run.status = "canceled", !.step = "stop"])
       \/ Read(k, [l EXCEPT !.run.status = "budget_stopped", !.step = "stop"])
       \/ Read(k, GoOn(l))
  BY <1>2, <1>5 DEF ShouldStop
<1> QED BY <1>9, <1>10, <1>11

\* The calls that end Service.run.
LEMMA EndsTell ==
    ASSUME TellIInv, NEW k \in issued,
           Stopping(k) \/ Rejected(k) \/ CandidateFailed(k) \/ CleanupFails(k) \/ CompleteRun(k) \/ FailRun(k)
    PROVE  TellIInv'
<1>0. Works(k) /\ local[k].step \notin Unloaded
  <2>1. \E s : s \notin Unloaded /\ AtCall(k, s)
    BY DEF Stopping, Rejected, CandidateFailed, CleanupFails, CompleteRun, FailRun, Unloaded, Handling
  <2> QED BY <2>1, CallWorks
<1>1. local[k].step \notin {"returned", "answered"}
  BY <1>0 DEF Unloaded
<1>2. PICK l : l = local[k]
  OBVIOUS
<1>3. PICK m \in BOOLEAN : m = Mine(k)
  BY MineBoolean
<1>4. /\ LocalShape(l) /\ (m => l.run.task = k.task) /\ l.answer \in {"ok", "retryable"}
      /\ l.step = "failing" => l.answer = "retryable"
      /\ l.step = "stop" => l.run.status \in {"canceled", "budget_stopped"}
  BY <1>0, <1>1, <1>2, <1>3 DEF TellIInv, HandlerStands
<1>5. DOMAIN l = {"step", "run", "cand", "todo", "holding", "answer"} /\ DOMAIN l.run = RunColumns
  BY <1>4 DEF LocalShape
<1>6. \A s : /\ HandlerStands(Failed(l), k, m, s)
             /\ DOMAIN Failed(l).run = RunColumns /\ Failed(l).run = l.run
             /\ Failed(l).step = OnError(l.step) /\ LocalShape(Failed(l)) /\ Failed(l).answer = "retryable"
  BY <1>0, <1>1, <1>2, <1>4, FailedStands
<1>7. ASSUME NEW x, SaveRun(k, x), NEW s, DOMAIN x = DOMAIN l, x.step = "returned", x.answer = l.answer,
             DOMAIN x.run = RunColumns, x.run.task = l.run.task, x.run.status = s,
             x.answer = "ok" => s \in EndedWell \cup {"canceled"}
      PROVE  TellIInv'
  <2>1. HandlerStands(x, k, m, s)
    BY <1>4, <1>5, <1>7 DEF HandlerStands, Unloaded, LocalShape
  <2> QED BY <1>0, <1>1, <1>3, <1>4, <1>7, <2>1, SaveRunTells
<1>8. CASE Stopping(k)
  <2>1. PICK x : x = [l EXCEPT !.step = "returned"]
    OBVIOUS
  <2>2. SaveRun(k, x) /\ l.step = "stop"
    BY <1>2, <1>8, <2>1, HandlingWorks DEF Stopping
  <2>3. DOMAIN x = DOMAIN l /\ x.step = "returned" /\ x.answer = l.answer /\ x.run = l.run
    BY ONLY <1>5, <2>1
  <2>4. PICK s : s = x.run.status
    OBVIOUS
  <2>5. s \in EndedWell \cup {"canceled"}
    BY <1>4, <2>2, <2>3, <2>4 DEF EndedWell
  <2> QED BY <1>5, <1>7, <2>2, <2>3, <2>4, <2>5
<1>9. CASE Rejected(k)
  <2>1. PICK x, s : x = Failed(l) /\ s = x.run.status
    OBVIOUS
  <2>2. SaveRun(k, x) /\ HandlerStands(x, k, m, s) /\ DOMAIN x.run = RunColumns /\ (m => x.run.task = k.task)
    BY <1>2, <1>4, <1>6, <1>9, <2>1 DEF Rejected
  <2> QED BY <1>0, <1>1, <1>3, <2>1, <2>2, SaveRunTells
<1>10. CASE CandidateFailed(k)
  <2>1. PICK x, c, s : x = Failed(l) /\ c = Current(x) /\ s = run.status
    OBVIOUS
  <2>2. SaveCandidate(k, c, x) /\ HandlerStands(x, k, m, s)
    BY <1>2, <1>6, <1>10, <2>1 DEF CandidateFailed
  <2> QED BY <1>0, <1>1, <1>3, <2>1, <2>2, SaveCandidateTells
<1>11. CASE CleanupFails(k)
  <2>1. PICK c, y, s : /\ c = (IF l.step = "clean" THEN Current(l) ELSE Smallest(l.todo))
                       /\ y = Failed(l) /\ s = run.status
    OBVIOUS
  <2>2. PICK x : x = [y EXCEPT !.cand[c].pending = FALSE]
    OBVIOUS
  <2>3. SaveCandidate(k, c, x)
    BY <1>2, <1>11, <2>1, <2>2 DEF CleanupFails
  <2>4. HandlerStands(y, k, m, s) /\ LocalShape(y)
    BY <1>6, <2>1
  <2>5. DOMAIN y = {"step", "run", "cand", "todo", "holding", "answer"}
    BY <2>4 DEF LocalShape
  <2>6. DOMAIN x = DOMAIN y /\ x.step = y.step /\ x.answer = y.answer /\ x.run = y.run
    BY ONLY <2>2, <2>5
  <2>7. HandlerStands(x, k, m, s)
    BY <2>4, <2>6 DEF HandlerStands, LocalShape
  <2> QED BY <1>0, <1>1, <1>3, <2>1, <2>3, <2>7, SaveCandidateTells
<1>12. ASSUME NEW s \in {"completed", "failed"}, s = "completed" \/ l.answer = "retryable",
              SaveRun(k, [l EXCEPT !.run.status = s, !.step = "returned"])
       PROVE  TellIInv'
  <2>1. PICK x : x = [l EXCEPT !.run.status = s, !.step = "returned"]
    OBVIOUS
  <2>2. DOMAIN x = DOMAIN l /\ x.step = "returned" /\ x.answer = l.answer /\ x.run = [l.run EXCEPT !.status = s]
    BY ONLY <1>5, <2>1
  <2>3. DOMAIN x.run = RunColumns /\ x.run.task = l.run.task /\ x.run.status = s
    BY <1>5, <2>2 DEF RunColumns
  <2>4. x.answer = "ok" => s \in EndedWell \cup {"canceled"}
    BY <1>12, <2>2 DEF EndedWell
  <2> QED BY <1>7, <1>12, <2>1, <2>2, <2>3, <2>4
<1>13. CASE CompleteRun(k)
  BY <1>2, <1>12, <1>13 DEF CompleteRun
<1>14. CASE FailRun(k)
  <2>1. l.step = "failing"
    BY <1>2, <1>14, CallWorks DEF FailRun
  <2> QED BY <1>2, <1>4, <1>12, <1>14, <2>1 DEF FailRun
<1> QED BY <1>8, <1>9, <1>10, <1>11, <1>13, <1>14

LEMMA LoadTells ==
    ASSUME TellIInv, NEW k \in issued, Load(k)
    PROVE  TellIInv'
<1>0. Works(k) /\ local[k].step = "load"
  BY HandlingWorks DEF Load
<1>1. PICK h, r : h = local[k] /\ r = run
  OBVIOUS
<1>2. PICK m \in BOOLEAN : m = Mine(k)
  BY MineBoolean
<1>3. LocalShape(h) /\ h.answer \in {"ok", "retryable"} /\ DOMAIN r = RunColumns /\ (m => r.task = k.task) /\ h.step = "load"
  BY <1>0, <1>1, <1>2 DEF TellIInv, HandlerStands, RunStands, Mine
<1>4. PICK l : l = [h EXCEPT !.run = r]
  OBVIOUS
<1>5. DOMAIN h = {"step", "run", "cand", "todo", "holding", "answer"}
  BY <1>3 DEF LocalShape
<1>6. DOMAIN l = DOMAIN h /\ l.run = r /\ l.step = "load" /\ l.answer = h.answer
  BY ONLY <1>3, <1>4, <1>5
<1>7. ASSUME NEW s \in {"cancel", "begin"}, Read(k, [l EXCEPT !.step = s])
      PROVE  TellIInv'
  <2>1. PICK x : x = [l EXCEPT !.step = s]
    OBVIOUS
  <2>2. DOMAIN x = DOMAIN l /\ x.step = s /\ x.answer = l.answer /\ x.run = l.run
    BY ONLY <1>5, <1>6, <2>1
  <2>3. IsMidway(x, k, m)
    BY <1>3, <1>5, <1>6, <2>2 DEF IsMidway, LocalShape, Midway, Step
  <2> QED BY <1>0, <1>2, <1>7, <2>1, <2>3, ReadTells DEF Read
<1>8. CASE Read(k, Failed(l))
  <2>1. LocalShape(l) /\ l.step \in Unloaded
    BY <1>3, <1>5, <1>6 DEF LocalShape, Unloaded
  <2> QED BY <1>0, <1>6, <1>8, <2>1, LostTells DEF Read
<1>9. \/ Read(k, [l EXCEPT !.step = "cancel"]) \/ Read(k, [l EXCEPT !.step = "begin"])
      \/ Read(k, Failed(l))
  BY <1>1, <1>4 DEF Load
<1> QED BY <1>7, <1>8, <1>9

LEMMA IdleFields ==
    ASSUME NEW s, NEW a
    PROVE  LET x == [Idle EXCEPT !.step = s, !.answer = a]
           IN  LocalShape(x) /\ x.step = s /\ x.answer = a
  BY DEF Idle, LocalShape, NoRun, RunColumns

\* The handler ends with an answer.
LEMMA AnswerTells ==
    ASSUME TellIInv, NEW k \in issued, Works(k), run' = run, NEW a \in Answer,
           Goto(k, [Idle EXCEPT !.step = "answered", !.answer = a]), Mine(k) => AnswerStands(a, run.status)
    PROVE  TellIInv'
<1>1. PICK x : x = [Idle EXCEPT !.step = "answered", !.answer = a]
  OBVIOUS
<1>2. LocalShape(x) /\ x.step = "answered" /\ x.answer = a
  BY <1>1, IdleFields
<1>3. HandlerStands(x, k, Mine(k), run.status)
  BY <1>2 DEF HandlerStands, Unloaded
<1> QED BY <1>1, <1>3, HandlerReads DEF Works, Goto

LEMMA ClaimTells ==
    ASSUME TellIInv, NEW k \in issued, Claim(k)
    PROVE  TellIInv'
<1>0. Works(k)
  BY HandlingWorks DEF Claim
<1>1. CASE /\ run.task = k.task /\ OwnsLease(k) /\ row[k.task].status \in {"leased", "running"}
           /\ run' = TakenOver(k) /\ Goto(k, [Idle EXCEPT !.step = "load"])
  <2>1. PICK x : x = [Idle EXCEPT !.step = "load"]
    OBVIOUS
  <2>2. LocalShape(x) /\ x.step = "load" /\ x.answer = "ok"
    BY <2>1 DEF Idle, LocalShape, NoRun, RunColumns
  <2>3. PICK z : z = run'.status
    OBVIOUS
  <2>4. HandlerStands(x, k, TRUE, z)
    BY <2>2 DEF HandlerStands, Unloaded
  <2>5. DOMAIN run' = RunColumns /\ run'.task = run.task
    BY <1>1 DEF TakenOver, TellIInv, RunStands, RunColumns
  <2>6. Mine(k) /\ row[k.task].status \in Active
    BY <1>1 DEF Mine, Active
  <2> QED BY <1>0, <1>1, <2>1, <2>3, <2>4, <2>5, <2>6, HandlerWrites DEF Works, Goto
<1>2. CASE /\ run.status \in Terminal /\ run' = run
           /\ Goto(k, [Idle EXCEPT !.step = "answered", !.answer = AnswerTo(run.status)])
  <2>1. PICK a : a = AnswerTo(run.status)
    OBVIOUS
  <2>2. a \in Answer /\ AnswerStands(a, run.status)
    BY <1>2, <2>1 DEF AnswerTo, Answer, AnswerStands, Terminal, EndedWell
  <2> QED BY <1>0, <1>2, <2>1, <2>2, AnswerTells
<1>3. CASE run' = run /\ Goto(k, [Idle EXCEPT !.step = "answered", !.answer = "retryable"])
  <2>1. "retryable" \in Answer /\ AnswerStands("retryable", run.status)
    BY DEF Answer, AnswerStands
  <2> QED BY <1>0, <1>3, <2>1, AnswerTells
<1> QED BY <1>1, <1>2, <1>3 DEF Claim

LEMMA ReturnedTells ==
    ASSUME TellIInv, NEW k \in issued, Returned(k)
    PROVE  TellIInv'
<1>0. Works(k) /\ local[k].step = "returned" /\ run' = run
  BY HandlingWorks DEF Returned, Read
<1>1. PICK h, s : h = local[k].answer /\ s = run.status
  OBVIOUS
<1>2. h \in {"ok", "retryable"} /\ (Mine(k) /\ h = "ok" => s \in EndedWell \cup {"canceled"})
  BY <1>0, <1>1 DEF TellIInv, HandlerStands
<1>3. PICK a : a = CASE h = "ok" /\ s = "canceled" -> "cancelled"
                     [] h # "ok" /\ s = "failed" -> "terminal"
                     [] OTHER -> h
  OBVIOUS
<1>4. Goto(k, [Idle EXCEPT !.step = "answered", !.answer = a])
  BY <1>1, <1>3 DEF Returned, Read
<1>5. a \in Answer /\ (Mine(k) => AnswerStands(a, s))
  BY <1>2, <1>3 DEF Answer, AnswerStands, EndedWell
<1> QED BY <1>0, <1>1, <1>4, <1>5, AnswerTells

LEMMA InterruptedTells ==
    ASSUME TellIInv, NEW k \in issued, Interrupted(k)
    PROVE  TellIInv'
<1>0. Works(k) /\ Goto(k, [Idle EXCEPT !.step = "answered", !.answer = "retryable"])
  BY DEF Interrupted, Works, allVars, vars, poolVars
<1>1. CASE OwnsRun(k) /\ run' = [run EXCEPT !.status = "canceled"]
  <2>1. PICK x, z, a : x = [Idle EXCEPT !.step = "answered", !.answer = "retryable"] /\ z = run'.status /\ a = "retryable"
    OBVIOUS
  <2>2. LocalShape(x) /\ x.step = "answered" /\ x.answer = a
    BY <2>1, IdleFields
  <2>3. a \in Answer /\ AnswerStands(a, z)
    BY <2>1 DEF Answer, AnswerStands
  <2>4. HandlerStands(x, k, TRUE, z)
    BY <2>2, <2>3 DEF HandlerStands, Unloaded
  <2>5. DOMAIN run' = RunColumns /\ run'.task = run.task
    BY <1>1 DEF TellIInv, RunStands, RunColumns
  <2>6. Mine(k) /\ row[k.task].status \in Active
    BY <1>1 DEF Mine, OwnsRun
  <2> QED BY <1>0, <2>1, <2>4, <2>5, <2>6, HandlerWrites DEF Works, Goto
<1>2. CASE run' = run
  <2>1. "retryable" \in Answer /\ AnswerStands("retryable", run.status)
    BY DEF Answer, AnswerStands
  <2> QED BY <1>0, <1>2, <2>1, AnswerTells
<1> QED BY <1>1, <1>2 DEF Interrupted

LEMMA CallFailsTells ==
    ASSUME TellIInv, NEW k \in issued, CallFails(k) \/ ScoreFails(k)
    PROVE  TellIInv'
<1>1. Works(k) /\ local[k].step \notin {"returned", "answered"} /\ run' = run /\ Goto(k, Failed(local[k]))
  <2>1. CASE CallFails(k)
    BY <2>1 DEF CallFails, Works, allVars, vars, poolVars
  <2>2. CASE ScoreFails(k)
    BY <2>2, HandlingWorks DEF ScoreFails, Read
  <2> QED BY <2>1, <2>2
<1> QED BY <1>1, RefusedTells

\* Executions end or hand over the answer; their handlers are gone.
LEMMA HandlersLeave ==
    ASSUME TellIInv, row' = row, issued' = issued, run' = run, setting' = setting,
           exec' = [k \in issued |-> exec'[k]], local' = [k \in Token |-> local'[k]],
           \A k \in issued : ExecutionStands(exec'[k], Mine(k), run.status),
           \A k \in Token : local'[k] = local[k] \/ local'[k] = Idle
    PROVE  TellIInv'
<1>1. \A j \in issued : j \in Token /\ (Mine(j)' <=> Mine(j))
  BY DEF TellIInv, TokensStand, Mine, OwnsLease, TokenOf
<1>2. ASSUME NEW j \in issued PROVE /\ HandlerStands(local'[j], j, Mine(j)', run'.status)
                                    /\ ExecutionStands(exec'[j], Mine(j)', run'.status)
  <2>1. PICK m \in BOOLEAN : m = Mine(j) /\ m = Mine(j)'
    BY <1>1, MineBoolean
  <2>2. PICK s : s = run.status
    OBVIOUS
  <2>3. HandlerStands(local[j], j, m, s) /\ ExecutionStands(exec'[j], m, s)
    BY <2>1, <2>2 DEF TellIInv
  <2>4. HandlerStands(Idle, j, m, s)
    BY IdleStands
  <2>5. local'[j] = local[j] \/ local'[j] = Idle
    BY <1>1
  <2> QED BY <2>1, <2>2, <2>3, <2>4, <2>5
<1>3. TokensStand' /\ RunStands' /\ TaskTellsRun' /\ setting'.handled = Task
  BY DEF TellIInv, TokensStand, RunStands, TaskTellsRun
<1>4. \A j \in Token \ issued' : local'[j] = Idle
  BY DEF TellIInv
<1> QED BY <1>2, <1>3, <1>4 DEF TellIInv

LEMMA AnsweredTells ==
    ASSUME TellIInv, NEW k \in issued, Answered(k)
    PROVE  TellIInv'
<1>0. /\ row' = row /\ issued' = issued /\ run' = run /\ setting' = setting
      /\ local' = [local EXCEPT ![k] = Idle] /\ local[k].step = "answered" /\ exec[k].phase = "handling"
  BY DEF Answered, HandlerReturns, At, Goto, vars
<1>1. PICK a, s, d : a = local[k].answer /\ s = run.status /\ d = ContextDone(k)
  OBVIOUS
<1>2. a \in Answer /\ (Mine(k) => AnswerStands(a, s)) /\ exec[k] \in Execution
  BY <1>0, <1>1 DEF TellIInv, HandlerStands, ExecutionStands
<1>3. PICK o, p : o = (IF ContextDone(k) THEN "interrupted" ELSE a) /\ p = AfterHandler(ContextDone(k), a)
  OBVIOUS
<1>4. PICK e : e = [exec[k] EXCEPT !.outcome = o, !.phase = p]
  OBVIOUS
<1>5. exec' = [exec EXCEPT ![k] = e]
  BY <1>1, <1>3, <1>4 DEF Answered, HandlerReturns, TellIInv
<1>6. /\ o \in Outcome /\ p \in Phase /\ p # "unhandled"
      /\ p = "completing" => o = "ok"
      /\ p = "failing" => o \in {"retryable", "terminal"}
      /\ p \in {"completing", "failing"} => o = a
  BY <1>2, <1>3 DEF AfterHandler, Outcome, Answer, Phase
<1>7. e \in Execution /\ e.phase = p /\ e.outcome = o
  BY <1>2, <1>4, <1>6 DEF Execution
<1>8. ExecutionStands(e, Mine(k), run.status)
  BY <1>1, <1>2, <1>6, <1>7 DEF ExecutionStands
<1>9. exec = [j \in issued |-> exec[j]] /\ local = [j \in Token |-> local[j]]
  BY DEF TellIInv
<1>10. \A j \in issued : exec'[j] = IF j = k THEN e ELSE exec[j]
  BY <1>5, <1>9
<1>11. exec' = [j \in issued |-> exec'[j]] /\ local' = [j \in Token |-> local'[j]]
       /\ \A j \in Token : local'[j] = local[j] \/ local'[j] = Idle
  BY <1>0, <1>5, <1>9
<1>12. \A j \in issued : ExecutionStands(exec'[j], Mine(j), run.status)
  BY <1>8, <1>10 DEF TellIInv
<1> QED BY <1>0, <1>11, <1>12, HandlersLeave

LEMMA CrashTells ==
    ASSUME TellIInv, NEW w \in Worker, CrashHandlers(w)
    PROVE  TellIInv'
<1>0. /\ row' = row /\ issued' = issued /\ run' = run /\ setting' = setting
      /\ exec' = [k \in DOMAIN exec |-> IF k.holder = w THEN Ended(exec[k]) ELSE exec[k]]
      /\ local' = [k \in Token |-> IF k.holder = w THEN Idle ELSE local[k]]
      /\ DOMAIN exec = issued
  BY DEF CrashHandlers, Crash, vars, TellIInv
<1>1. ASSUME NEW k \in issued PROVE ExecutionStands(exec'[k], Mine(k), run.status)
  <2>1. ExecutionStands(exec[k], Mine(k), run.status) /\ exec[k] \in Execution
    BY DEF TellIInv, ExecutionStands
  <2>2. PICK e : e = Ended(exec[k])
    OBVIOUS
  <2>3. e \in Execution /\ e.phase = "over"
    BY <2>1, <2>2 DEF Execution, Phase, Ended, Fresh
  <2>4. ExecutionStands(e, Mine(k), run.status)
    BY <2>3 DEF ExecutionStands
  <2>5. exec'[k] = e \/ exec'[k] = exec[k]
    BY <1>0, <2>2
  <2> QED BY <2>1, <2>4, <2>5
<1>2. exec' = [k \in issued |-> exec'[k]] /\ local' = [k \in Token |-> local'[k]]
      /\ \A k \in Token : local'[k] = local[k] \/ local'[k] = Idle
  BY <1>0
<1> QED BY <1>0, <1>1, <1>2, HandlersLeave

\* A cancellation is written while the run is alive, so nobody has told its end.
LEMMA CancelTells ==
    ASSUME TellIInv, CancelRun
    PROVE  TellIInv'
<1>0. /\ TokensStand /\ RunStands /\ run.status \notin Terminal /\ run.status # "absent"
      /\ issued' = issued /\ exec' = exec /\ setting' = setting /\ local' = local
  BY DEF TellIInv, CancelRun, CancelWithTask, Terminal
<1>1. run.task \in Task /\ run.task # NoTask /\ row[run.task].status # "absent" /\ row[run.task] \in TaskRow
  BY <1>0, OptimizerAssumption DEF RunStands, TokensStand
<1>2. PICK t \in Task : t = run.task
  BY <1>1
<1>3. PICK x : /\ row' = [row EXCEPT ![t] = x]
               /\ \/ x = Unleased(row[t], "cancelled")
                  \/ x = [row[t] EXCEPT !.status = "cancelling"]
  BY <1>2 DEF CancelRun, CancelWithTask
<1>4. x \in TaskRow /\ x.status \in {"cancelled", "cancelling"} /\ x.generation = row[t].generation
      /\ x.holder \in {row[t].holder, NoHolder}
  <2>1. CASE x = Unleased(row[t], "cancelled")
    <3>1. "cancelled" \in Status
      BY DEF Status, Retriable
    <3> QED BY <1>1, <1>2, <2>1, <3>1, UnleasedFields
  <2>2. CASE x = [row[t] EXCEPT !.status = "cancelling"]
    BY <1>1, <1>2, <2>2 DEF TaskRow, Status, Active
  <2> QED BY <1>3, <2>1, <2>2
<1>5. RowGoes(row[t], x)
  BY <1>4 DEF RowGoes
<1>6. QueueGoes
  BY <1>0, <1>3, <1>5, RowWritten
<1>7. TokensStand' /\ \A k \in issued : OwnsLease(k)' => OwnsLease(k)
  BY <1>0, <1>6, TokensGo
<1>8. DOMAIN run' = RunColumns /\ run'.task = run.task
  BY <1>0 DEF CancelRun, CancelWithTask, RunStands, RunColumns
<1>9. row'[t] = x
  BY <1>0, <1>3 DEF TokensStand
<1>10. RunStands'
  BY <1>1, <1>2, <1>4, <1>8, <1>9 DEF RunStands
<1>11. TaskTellsRun'
  BY <1>2, <1>4, <1>8, <1>9 DEF TaskTellsRun
<1>12. ASSUME NEW k \in issued
       PROVE  /\ HandlerStands(local'[k], k, Mine(k)', run'.status)
              /\ ExecutionStands(exec'[k], Mine(k)', run'.status)
  <2>1. PICK m \in BOOLEAN, n \in BOOLEAN : m = Mine(k) /\ n = Mine(k)'
    BY MineBoolean
  <2>2. PICK h, e, s, z : h = local[k] /\ e = exec[k] /\ s = run.status /\ z = run'.status
    OBVIOUS
  <2>3. HandlerStands(h, k, m, s) /\ ExecutionStands(e, m, s) /\ (n => m) /\ s \notin Terminal
    BY <1>0, <1>7, <1>8, <2>1, <2>2 DEF TellIInv, Mine
  <2>4. HandlerStands(h, k, n, s) /\ ExecutionStands(e, n, s)
    BY <2>3, HandlerLess, ExecutionLess
  <2>5. HandlerStands(h, k, n, z) /\ ExecutionStands(e, n, z)
    BY <2>3, <2>4, HandlerAny, ExecutionAny
  <2> QED BY <1>0, <2>1, <2>2, <2>5
<1> QED BY <1>0, <1>7, <1>10, <1>11, <1>12 DEF TellIInv

\* The API beside the cancellation.
LEMMA ApiTells ==
    ASSUME TellIInv,
           \/ \E t \in Task : Submit(t) \/ TaskApi(t)
           \/ \E u \in User : ReadForResume(u) \/ \E t \in Task : Resume(u, t)
    PROVE  TellIInv'
<1>0. TokensStand /\ RunStands /\ DOMAIN run = RunColumns
  BY DEF TellIInv, RunStands
<1>1. ASSUME NEW t \in Task, Submit(t) PROVE TellIInv'
  <2>1. Enqueue(t) /\ exec' = exec /\ local' = local /\ setting' = setting
    BY <1>1 DEF Submit, poolVars
  <2>2. DOMAIN run' = RunColumns /\ run'.task = t /\ run'.status = "queued"
    BY <1>0, <1>1 DEF Submit, RunColumns
  <2> QED BY <2>1, <2>2, TaskTakes
<1>2. ASSUME NEW t \in Task, TaskApi(t) PROVE TellIInv'
  <2>1. Cancel(t) \/ Retry(t)
    BY <1>2 DEF TaskApi
  <2>2. exec' = exec /\ local' = local /\ setting' = setting /\ run' = run /\ issued' = issued
    BY <1>2, <2>1 DEF TaskApi, runVars, Cancel, Retry
  <2> QED BY <1>0, <2>1, <2>2, ClientGoes, ExecutionsStay
<1>3. ASSUME row' = row, issued' = issued, exec' = exec, local' = local, setting' = setting, run' = run
      PROVE  TellIInv'
  BY <1>0, <1>3, NothingWritten, ExecutionsStay
<1>4. ASSUME NEW u \in User, ReadForResume(u) PROVE TellIInv'
  BY <1>3, <1>4 DEF ReadForResume, vars
<1>5. ASSUME NEW u \in User, NEW t \in Task, Resume(u, t) PROVE TellIInv'
  <2>1. exec' = exec /\ local' = local /\ setting' = setting
    BY <1>5 DEF Resume, poolVars
  <2>2. CASE Enqueue(t) /\ run' = Resumed(reader[u], t)
    <3>1. DOMAIN run' = RunColumns /\ run'.task = t /\ run'.status = "queued"
      BY <1>0, <2>2 DEF Resumed, RunColumns
    <3> QED BY <2>1, <2>2, <3>1, TaskTakes
  <2>3. CASE UNCHANGED <<vars, run, cand>>
    BY <1>3, <2>1, <2>3 DEF vars
  <2> QED BY <1>5, <2>2, <2>3 DEF Resume
<1> QED BY <1>1, <1>2, <1>4, <1>5

LEMMA HandlerTells ==
    ASSUME TellIInv, NEW k \in issued, HandlerStep(k)
    PROVE  TellIInv'
<1>1. "cancel" \in Midway /\ "begin" \in Midway /\ "list" \in Midway
  BY DEF Midway, Step
<1>2. ASSUME ClaimRun(k, "cancel", "canceled", "returned") PROVE TellIInv'
  BY <1>1, <1>2, ClaimRunTells
<1>3. ASSUME ClaimRun(k, "begin", "running", "list") PROVE TellIInv'
  BY <1>1, <1>3, ClaimRunTells
<1>4. ASSUME Check(k) \/ Recheck(k) PROVE TellIInv'
  BY <1>4, ShouldStopTells DEF Check, Recheck
<1> QED BY <1>2, <1>3, <1>4, ClaimTells, LoadTells, ReadsTell, WritesTell, AcquireTells, EndsTell,
           CallFailsTells, ReturnedTells, InterruptedTells, AnsweredTells
        DEF HandlerStep, CandidateStep, HoldoutStep

LEMMA TellInit == RunInit => TellIInv
<1> SUFFICES ASSUME RunInit PROVE TellIInv
  OBVIOUS
<1>1. /\ row = [t \in Task |-> NoRow] /\ issued = {} /\ setting.handled = Task /\ exec = [k \in {} |-> Fresh("over")]
      /\ run = NoRun /\ local = [k \in Token |-> Idle]
  BY DEF RunInit, PoolInit, Init
<1>2. NoRow \in TaskRow
  BY DEF NoRow, TaskRow, Status
<1>3. TokensStand
  BY <1>1, <1>2 DEF TokensStand
<1>4. RunStands /\ TaskTellsRun
  BY <1>1 DEF RunStands, TaskTellsRun, NoRun, RunColumns
<1>5. exec = [k \in issued |-> exec[k]] /\ local = [k \in Token |-> local[k]]
  BY <1>1
<1> QED BY <1>1, <1>3, <1>4, <1>5 DEF TellIInv

LEMMA TellNext == TellIInv /\ [RunNext]_everything => TellIInv'
<1> SUFFICES ASSUME TellIInv, [RunNext]_everything PROVE TellIInv'
  OBVIOUS
<1>0. DOMAIN exec = issued
  BY DEF TellIInv
<1>1. CASE RunNext
  BY <1>0, <1>1, ApiTells, CancelTells, HandlerTells, CrashTells, QueueTells DEF RunNext
<1>2. CASE UNCHANGED everything
  <2>1. row' = row /\ issued' = issued /\ exec' = exec /\ local' = local /\ setting' = setting /\ run' = run
    BY <1>2 DEF everything, allVars, vars, poolVars, runVars
  <2>2. TokensStand
    BY DEF TellIInv
  <2> QED BY <2>1, <2>2, NothingWritten, ExecutionsStay
<1> QED BY <1>1, <1>2

\* A task ends the way its run does (HandleTask, Resume, Cancel): whatever the
\* processes, crashes, storage errors, expired leases, cancellations and resumptions, a
\* task of a run is succeeded only when the run completed or spent its budget,
\* and failed for good only when the run failed.
THEOREM TasksTellRuns == RunSpec => []TaskTellsRun
<1>1. TellIInv => TaskTellsRun
  BY DEF TellIInv
<1> QED BY <1>1, TellInit, TellNext, PTL DEF RunSpec
=============================================================================
