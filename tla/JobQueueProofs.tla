--------------------------- MODULE JobQueueProofs ---------------------------
(***************************************************************************)
(* Proofs about JobQueue, for every value of its constants.                *)
(*                                                                         *)
(* Every call changes rows in a handful of ways.  RowChange lists them,    *)
(* StepsChangeRows shows that each action of Next keeps to the list, and   *)
(* the invariants and action properties then follow row by row, and so     *)
(* does the refinement of WorkQueue.                                       *)
(***************************************************************************)
EXTENDS JobQueue, FiniteSetTheorems, TLAPS

-----------------------------------------------------------------------------
(* What a step can do to a row that it does not delete.                    *)

Started(j) ==
  /\ jobs[j].status \in Active
  /\ StateOf(jobs[j]) = "none"
  /\ \E t \in Topics, a \in Adapters :
       claim(t, a, j) /\ jobs'[j] = Leased(jobs[j], a)

Closes(j) ==
  /\ jobs[j].status \in Active
  /\ \E status \in Terminal :
       /\ jobs'[j] \in {Closed(jobs[j], status), Released(jobs[j], status)}
       /\ status = "failed" => ~HasAttemptsLeft(jobs[j])

GivenBack(j) ==
  /\ jobs[j].status = "running"
  /\ HasAttemptsLeft(jobs[j])
  /\ jobs'[j] = [jobs[j] EXCEPT !.status = "queued", !.lease = "none",
                                !.claimedBy = NoAdapter, !.due = FALSE]

LeaseMoved(j) ==
  /\ jobs[j].status = "running"
  /\ \E lease \in {"live", "expired"} :
       jobs'[j] = [jobs[j] EXCEPT !.lease = lease]

FallsDue(j) ==
  /\ jobs[j].status = "queued"
  /\ jobs'[j] = [jobs[j] EXCEPT !.due = TRUE]

RowChange(j) ==
  \/ jobs'[j] = jobs[j]
  \/ Started(j) \/ Closes(j) \/ GivenBack(j) \/ LeaseMoved(j) \/ FallsDue(j)

\* The rows that are left change as listed; clock and batch_state keep their
\* types.
RowsStep ==
  /\ UNCHANGED lastId
  /\ clock' \in Nat
  /\ batchState' \in [Rids -> {"none", "paused", "cancelled"}]
  /\ DOMAIN jobs' \subseteq Rows
  /\ jobs' = [j \in DOMAIN jobs' |-> jobs'[j]]
  /\ \A j \in DOMAIN jobs' : RowChange(j)

-----------------------------------------------------------------------------
(* What the statements that delete rows leave alone.                       *)

Running(table) == {j \in DOMAIN table : table[j].status = "running"}

\* Deleting no rows, or rows in two statements, is deleting rows once.
LEMMA DeleteNothing ==
  ASSUME NEW table, table = [j \in DOMAIN table |-> table[j]]
  PROVE  table = Delete(table, {})
BY DEF Delete

\* Two deletions are one of the rows of both.
LEMMA DeleteTwice ==
  ASSUME NEW table, NEW S, NEW T
  PROVE  Delete(Delete(table, S), T) = Delete(table, S \cup T)
BY DEF Delete

\* The drain and the clean-up of a batch delete no running job, and neither
\* does a cancellation, which does one or both.
LEMMA DrainSparesRunning ==
  ASSUME NEW table, NEW r
  PROVE  \E S \in SUBSET (DOMAIN table \ Running(table)) :
           drainByProcess(table, r) = Delete(table, S)
<1>. DEFINE S == {j \in DOMAIN table : table[j].status = "queued" /\ Refers(table[j], r)}
<1>1. S \in SUBSET (DOMAIN table \ Running(table))
  BY DEF Running
<1>. QED  BY <1>1 DEF drainByProcess

\* cleanupBatchTerminalRows deletes no running row.
LEMMA CleanupSparesRunning ==
  ASSUME NEW table, NEW r, NEW cutoff
  PROVE  \E S \in SUBSET (DOMAIN table \ Running(table)) :
           cleanupBatchTerminalRows(table, r, cutoff) = Delete(table, S)
<1>. DEFINE S == {j \in DOMAIN table :
                    /\ table[j].setProcess = r
                    /\ \/ table[j].status \in {"done", "cancelled"}
                       \/ table[j].status = "failed" /\ table[j].completedAt <= cutoff}
<1>1. S \in SUBSET (DOMAIN table \ Running(table))
  BY DEF Running
<1>. QED  BY <1>1 DEF cleanupBatchTerminalRows

\* cancelBatch deletes no running row: it drains and cleans up.
LEMMA CancelSparesRunning ==
  ASSUME NEW table, NEW r, NEW cutoff
  PROVE  \E S \in SUBSET (DOMAIN table \ Running(table)) :
           CancelledTable(table, r, cutoff) = Delete(table, S)
<1>. DEFINE drained == drainByProcess(table, r)
<1>1. PICK S \in SUBSET (DOMAIN table \ Running(table)) : drained = Delete(table, S)
  BY DrainSparesRunning
<1>2. PICK T \in SUBSET (DOMAIN drained \ Running(drained)) :
        cleanupBatchTerminalRows(drained, r, cutoff) = Delete(drained, T)
  BY CleanupSparesRunning
<1>3. S \cup T \in SUBSET (DOMAIN table \ Running(table))
  BY <1>1, <1>2 DEF Delete, Running
<1>4. Delete(drained, T) = Delete(table, S \cup T)
  BY <1>1, DeleteTwice
<1>. QED  BY <1>1, <1>2, <1>3, <1>4 DEF CancelledTable

-----------------------------------------------------------------------------
(* Each action keeps to the list.                                          *)

\* A claim starts one row at most and ends rows of cancelled batches.
LEMMA ClaimChangesRows ==
  ASSUME TypeOK, NEW t \in Topics, Claim(t)
  PROVE  RowsStep
<1>. USE DEF TypeOK, Tick, RowChange, RowsStep
<1>1. \A j \in Finalised(t) : jobs[j].status \in Active
  BY DEF Finalised, Passed, Candidates, Oldest, Due, Active
<1>2. CASE claimNothing(t)
  <2>1. jobs' = [j \in Rows |-> IF j \in Finalised(t)
                                THEN Released(jobs[j], "cancelled") ELSE jobs[j]]
    BY <1>2 DEF claimNothing, Update
  <2>2. \A j \in Finalised(t) : j \in Rows => Closes(j)
    BY <1>1, <2>1 DEF Closes, Terminal
  <2>. QED  BY <1>2, <2>1, <2>2 DEF claimNothing, Update
<1>3. ASSUME NEW a \in Adapters, NEW j \in Rows, claim(t, a, j)
      PROVE  RowsStep
  <2>1. jobs[j].status \in Active /\ StateOf(jobs[j]) = "none"
    BY <1>3 DEF claim, Offered, Takeable, Candidates, Oldest, Due, Active
  <2>2. Started(j)
    BY <1>3, <2>1 DEF claim, Started
  <2>. QED  BY <1>1, <1>3, <2>2 DEF claim, Closes, Terminal
<1>. QED  BY <1>2, <1>3 DEF Claim

\* complete and fail end their row or give it back; abort and clean-up
\* after it only delete.
LEMMA ReportChangesRows ==
  ASSUME TypeOK, NEW j \in Rows, Report(j) \/ \E a \in Adapters :
           heartbeat(j, a) \/ completeCut(j, a) \/ failForGoodCut(j, a)
  PROVE  RowsStep
<1>. USE DEF TypeOK, RowChange, RowsStep, OwnedBy
<1>1. PICK a \in Adapters : complete(j, a) \/ fail(j, a) \/ heartbeat(j, a)
                              \/ completeCut(j, a) \/ failForGoodCut(j, a)
  BY DEF Report
<1>2. CASE heartbeat(j, a)
  BY <1>2 DEF heartbeat, LeaseMoved
<1>3. CASE complete(j, a) \/ completeCut(j, a)
  <2>1. PICK S \in SUBSET Rows :
          jobs' = Delete([jobs EXCEPT ![j] = Closed(jobs[j], "done")], S)
    <3>. DEFINE done == [jobs EXCEPT ![j] = Closed(jobs[j], "done")]
    <3>0. DOMAIN done = Rows
      OBVIOUS
    <3>1. CASE jobs' = done
      BY <3>1, DeleteNothing
    <3>2. CASE jobs' = Delete(jobs, {j})
      BY <3>2 DEF Delete
    <3>3. CASE \E cutoff \in Cutoffs :
                 jobs' = cleanupBatchTerminalRows(done, jobs[j].setProcess, cutoff)
      BY <3>0, <3>3, CleanupSparesRunning
    <3>. QED  BY <1>3, <3>1, <3>2, <3>3 DEF complete, completeCut
  <2>2. j \in DOMAIN jobs' => Closes(j)
    BY <1>3, <2>1 DEF complete, completeCut, Delete, Closes, Active, Terminal
  <2>. QED  BY <1>3, <2>1, <2>2 DEF complete, completeCut, Delete
<1>4. CASE failCancelled(j, a)
  <2>1. jobs' = [jobs EXCEPT ![j] = Released(jobs[j], "cancelled")]
    BY <1>4 DEF failCancelled
  <2>2. Closes(j)
    BY <1>4, <2>1 DEF failCancelled, Closes, Active, Terminal
  <2>3. /\ DOMAIN jobs' = Rows
        /\ \A i \in Rows \ {j} : jobs'[i] = jobs[i]
        /\ jobs' = [i \in DOMAIN jobs' |-> jobs'[i]]
    BY <2>1
  <2>. QED  BY <1>4, <2>2, <2>3 DEF failCancelled
<1>5. CASE failRetry(j, a)
  BY <1>5 DEF failRetry, GivenBack
<1>6. CASE failForGood(j, a) \/ failForGoodCut(j, a)
  <2>1. PICK S \in SUBSET Rows : jobs' = Delete(FailedTable(j), S)
    <3>0. DOMAIN FailedTable(j) = Rows
      BY DEF FailedTable
    <3>1. CASE jobs' = FailedTable(j)
      BY <3>0, <3>1, DeleteNothing DEF FailedTable
    <3>2. CASE jobs' = drainByProcess(FailedTable(j), jobs[j].setProcess)
      BY <3>0, <3>2, DrainSparesRunning
    <3>3. CASE \E cutoff \in Cutoffs :
                 jobs' = CancelledTable(FailedTable(j), jobs[j].setProcess, cutoff)
      BY <3>0, <3>3, CancelSparesRunning
    <3>. QED  BY <1>6, <3>1, <3>2, <3>3 DEF failForGood, failForGoodCut
  <2>2. j \in DOMAIN jobs' => Closes(j)
    BY <1>6, <2>1 DEF failForGood, failForGoodCut, FailsForGood, FailedTable,
                      Delete, Closes, Active, Terminal
  <2>3. batchState' \in [Rids -> {"none", "paused", "cancelled"}]
    BY <1>6 DEF failForGood, failForGoodCut
  <2>. QED  BY <1>6, <2>1, <2>2, <2>3
            DEF failForGood, failForGoodCut, FailedTable, Delete
<1>. QED  BY <1>1, <1>2, <1>3, <1>4, <1>5, <1>6 DEF fail

\* Pausing, resuming and cancelling delete rows and change none; dismissing
\* ends active rows.
LEMMA ControlChangesRows ==
  ASSUME TypeOK, NEW r \in Rids,
         Control(r) \/ pauseBatchCut(r) \/ cancelBatchCut(r)
  PROVE  RowsStep
<1>. USE DEF TypeOK, RowChange, RowsStep
<1>1. CASE dismiss(r)
  <2>. DEFINE hit == {j \in Rows : Refers(jobs[j], r) /\ jobs[j].status \in Active}
  <2>1. /\ jobs' = [j \in Rows |-> IF j \in hit THEN Closed(jobs[j], "cancelled")
                                                ELSE jobs[j]]
        /\ clock' \in Nat
        /\ UNCHANGED <<lastId, batchState>>
    BY <1>1 DEF dismiss, CancelRows, Update, Tick
  <2>2. \A j \in hit : Closes(j)
    BY <2>1 DEF Closes, Terminal
  <2>. QED  BY <2>1, <2>2
<1>2. CASE ~dismiss(r)
  <2>1. PICK S \in SUBSET Rows : jobs' = Delete(jobs, S)
    <3>1. CASE jobs' = jobs
      BY <3>1, DeleteNothing
    <3>2. CASE jobs' = drainByProcess(jobs, r)
      BY <3>2, DrainSparesRunning
    <3>3. CASE \E cutoff \in Cutoffs : jobs' = CancelledTable(jobs, r, cutoff)
      BY <3>3, CancelSparesRunning
    <3>. QED  BY <1>2, <3>1, <3>2, <3>3
              DEF Control, pauseBatch, resumeBatch, cancelBatch,
                  pauseBatchCut, cancelBatchCut
  <2>2. /\ UNCHANGED <<lastId, clock>>
        /\ batchState' \in [Rids -> {"none", "paused", "cancelled"}]
    BY <1>2 DEF Control, pauseBatch, resumeBatch, cancelBatch,
                pauseBatchCut, cancelBatchCut
  <2>. QED  BY <2>1, <2>2 DEF Delete
<1>. QED  BY <1>1, <1>2

\* Flush, heartbeat, single cancels, the jobs panel, the sweeper and time.
LEMMA HousekeepingChangesRows ==
  ASSUME TypeOK,
         \/ activeJobs \/ Sweep \/ \E t \in Topics : flush(t)
         \/ \E j \in Rows : cancelJob(j) \/ LeaseExpires(j) \/ BackoffElapses(j)
  PROVE  RowsStep
<1>. USE DEF TypeOK, RowChange, RowsStep
<1>1. CASE activeJobs
  <2>1. PICK S \in SUBSET Rows :
          /\ \A j \in S : jobs[j].status \in Active
          /\ jobs' = [j \in Rows |-> IF j \in S THEN Released(jobs[j], "cancelled")
                                                ELSE jobs[j]]
    BY <1>1 DEF activeJobs, Update, Oldest
  <2>2. \A j \in S : Closes(j)
    BY <2>1 DEF Closes, Terminal
  <2>3. clock' \in Nat /\ UNCHANGED <<lastId, batchState>>
    BY <1>1 DEF activeJobs, Tick, Update
  <2>. QED  BY <2>1, <2>2, <2>3
<1>2. CASE Sweep
  <2>1. PICK c1, c2 \in 0..clock, F \in SUBSET Rids : sweepOnce(c1, c2, F)
    BY <1>2 DEF Sweep
  <2>2. PICK S \in SUBSET Rows : jobs' = Delete(jobs, S)
    BY <2>1 DEF sweepOnce
  <2>. QED  BY <2>1, <2>2 DEF sweepOnce, Delete
<1>3. CASE \E t \in Topics : flush(t)
  BY <1>3 DEF flush, Delete
<1>4. ASSUME NEW j \in Rows, cancelJob(j)
      PROVE  RowsStep
  <2>1. /\ jobs[j].status \in Active
        /\ jobs' = [i \in Rows |-> IF i = j THEN Closed(jobs[i], "cancelled")
                                           ELSE jobs[i]]
        /\ clock' \in Nat
        /\ UNCHANGED <<lastId, batchState>>
    BY <1>4 DEF cancelJob, CancelRows, Update, Tick
  <2>2. Closes(j)
    BY <2>1 DEF Closes, Terminal
  <2>. QED  BY <2>1, <2>2
<1>5. ASSUME NEW j \in Rows, LeaseExpires(j) \/ BackoffElapses(j)
      PROVE  RowsStep
  BY <1>5 DEF LeaseExpires, BackoffElapses, LeaseMoved, FallsDue
<1>. QED  BY <1>1, <1>2, <1>3, <1>4, <1>5

\* Every step other than publish() keeps to the list of row changes.
LEMMA StepsChangeRows ==
  ASSUME TypeOK, Next
  PROVE  Publish \/ RowsStep
<1>1. \/ Publish
      \/ \E t \in Topics : Claim(t)
      \/ \E j \in Rows : Report(j) \/ \E a \in Adapters :
           heartbeat(j, a) \/ completeCut(j, a) \/ failForGoodCut(j, a)
      \/ \E r \in Rids : Control(r) \/ pauseBatchCut(r) \/ cancelBatchCut(r)
      \/ activeJobs \/ Sweep \/ \E t \in Topics : flush(t)
      \/ \E j \in Rows : cancelJob(j) \/ LeaseExpires(j) \/ BackoffElapses(j)
  BY DEF Next, RunNext, Crash
<1>. QED  BY <1>1, ClaimChangesRows, ReportChangesRows, ControlChangesRows,
             HousekeepingChangesRows

-----------------------------------------------------------------------------
(* The invariants.                                                         *)

\* What RowsConsistent and RetryBudget say of one row.
RowOK(row) ==
  /\ row.status = "running" <=> row.lease # "none"
  /\ row.status = "running" => row.claimedBy # NoAdapter
  /\ row.status = "queued" => row.claimedBy = NoAdapter
  /\ row.status \in Terminal <=> row.completedAt > 0
  /\ row.status = "queued" => row.attempts < row.maxAttempts
  /\ row.status = "failed" => row.attempts >= row.maxAttempts

\* A listed change keeps the type of a row and the agreement of its columns.
LEMMA RowChangeKeepsRow ==
  ASSUME TypeOK, clock' \in Nat, NEW j \in Rows, RowChange(j)
  PROVE  /\ jobs'[j] \in Job
         /\ RowOK(jobs[j]) => RowOK(jobs'[j])
<1>. USE DEF TypeOK, Job, RowOK, Active, Terminal
<1>0. jobs[j] \in Job
  OBVIOUS
<1>1. CASE jobs'[j] = jobs[j]
  BY <1>1
<1>2. CASE Started(j)
  <2>1. PICK a \in Adapters : jobs'[j] = Leased(jobs[j], a)
    BY <1>2 DEF Started
  <2>2. jobs[j].status \in {"queued", "running"}
    BY <1>2 DEF Started
  <2>3. a # NoAdapter
    BY JobQueueConstants
  <2>4. jobs'[j] \in Job
    <3>1. jobs[j].attempts + 1 \in Nat
      BY <1>0
    <3>2. Leased(jobs[j], a) \in Job
      BY <1>0, <3>1 DEF Leased
    <3>. QED  BY <2>1, <3>2
  <2>5. /\ jobs'[j].status = "running" /\ jobs'[j].lease = "live"
        /\ jobs'[j].claimedBy = a
        /\ jobs'[j].completedAt = jobs[j].completedAt
    BY <1>0, <2>1 DEF Leased
  <2>. QED  BY <1>0, <2>2, <2>3, <2>4, <2>5
<1>3. CASE Closes(j)
  <2>1. PICK status \in {"done", "failed", "cancelled"} :
          /\ jobs'[j] \in {Closed(jobs[j], status), Released(jobs[j], status)}
          /\ status = "failed" => ~HasAttemptsLeft(jobs[j])
    BY <1>3 DEF Closes
  <2>2. clock + 1 \in Nat /\ clock + 1 > 0
    OBVIOUS
  <2>3. /\ Closed(jobs[j], status) \in Job
        /\ Released(jobs[j], status) \in Job
    BY <1>0, <2>2 DEF Closed, Released
  <2>4. /\ jobs'[j].status = status /\ jobs'[j].lease = "none"
        /\ jobs'[j].completedAt = clock + 1
        /\ jobs'[j].attempts = jobs[j].attempts
        /\ jobs'[j].maxAttempts = jobs[j].maxAttempts
    BY <1>0, <2>1 DEF Closed, Released
  <2>5. status = "failed" => jobs'[j].attempts >= jobs'[j].maxAttempts
    BY <1>0, <2>1, <2>4 DEF HasAttemptsLeft
  <2>. QED  BY <2>1, <2>2, <2>3, <2>4, <2>5
<1>4. CASE GivenBack(j)
  BY <1>0, <1>4 DEF GivenBack, HasAttemptsLeft
<1>5. CASE LeaseMoved(j)
  BY <1>0, <1>5 DEF LeaseMoved
<1>6. CASE FallsDue(j)
  BY <1>0, <1>6 DEF FallsDue
<1>. QED  BY <1>1, <1>2, <1>3, <1>4, <1>5, <1>6 DEF RowChange

\* publish() inserts a row behind all others, whatever its shape.
LEMMA PublishInserts ==
  ASSUME TypeOK, NEW t \in Topics, NEW limit \in Nat \ {0},
         NEW shape \in [kind: {"plain", "batch"}, process: Rids \cup {NoRid},
                        setProcess: Rids \cup {NoRid}],
         publish(t, shape, limit)
  PROVE  /\ TypeOK'
         /\ lastId' = lastId + 1
         /\ Rows' = Rows \cup {lastId + 1}
         /\ \A j \in Rows : j # lastId + 1 /\ jobs'[j] = jobs[j]
         /\ jobs'[lastId + 1].status = "queued"
         /\ RowOK(jobs'[lastId + 1])
<1>. DEFINE new == jobs'[lastId + 1]
<1>1. /\ lastId' = lastId + 1 /\ lastId < MaxJobs
      /\ UNCHANGED <<batchState, clock>>
      /\ DOMAIN jobs' = Rows \cup {lastId + 1}
      /\ jobs' = [j \in DOMAIN jobs' |-> jobs'[j]]
      /\ \A j \in Rows : j # lastId + 1 /\ jobs'[j] = jobs[j]
  BY DEF publish, TypeOK
<1>2. new \in Job /\ RowOK(new) /\ new.status = "queued"
  BY <1>1 DEF publish, Job, RowOK, Active, Terminal
<1>3. lastId' \in 0..MaxJobs /\ Rows' \subseteq 1..lastId'
  BY <1>1, JobQueueConstants DEF TypeOK, Rows
<1>4. jobs' \in [Rows' -> Job]
  BY <1>1, <1>2 DEF TypeOK, Rows
<1>. QED  BY <1>1, <1>2, <1>3, <1>4 DEF TypeOK, Rows

\* The row that publish() inserts is consistent and has attempts left.
LEMMA PublishKeepsInv ==
  ASSUME QueueInv, Publish
  PROVE  QueueInv'
<1>1. PICK t \in Topics, shape \in Shapes, limit \in AttemptLimits :
        publish(t, shape, limit)
  BY DEF Publish
<1>2. /\ TypeOK' /\ Rows' = Rows \cup {lastId + 1}
      /\ \A j \in Rows : jobs'[j] = jobs[j]
      /\ RowOK(jobs'[lastId + 1])
  BY <1>1, PublishInserts, JobQueueConstants DEF QueueInv
<1>3. \A j \in Rows : RowOK(jobs[j])
  BY DEF QueueInv, RowsConsistent, RetryBudget, RowOK
<1>4. \A j \in Rows' : RowOK(jobs'[j])
  BY <1>2, <1>3
<1>. QED  BY <1>2, <1>4 DEF QueueInv, RowsConsistent, RetryBudget, RowOK

\* The other steps keep the types of the tables.
LEMMA RowsStepKeepsTypes ==
  ASSUME TypeOK, RowsStep
  PROVE  TypeOK'
<1>1. \A j \in DOMAIN jobs' : jobs'[j] \in Job
  <2>1. ASSUME NEW j \in DOMAIN jobs' PROVE jobs'[j] \in Job
    <3>1. j \in Rows /\ RowChange(j) /\ clock' \in Nat
      BY DEF RowsStep
    <3>. QED  BY <3>1, RowChangeKeepsRow
  <2>. QED  BY <2>1
<1>. QED  BY <1>1 DEF RowsStep, TypeOK, Rows

\* No step leaves the invariant.
LEMMA InvInductive == QueueInv /\ [Next]_vars => QueueInv'
<1>1. ASSUME QueueInv, Next PROVE QueueInv'
  <2>1. CASE Publish
    BY <1>1, <2>1, PublishKeepsInv
  <2>2. CASE RowsStep
    <3>1. \A j \in DOMAIN jobs' : RowOK(jobs'[j])
      <4>1. ASSUME NEW j \in DOMAIN jobs'
            PROVE  RowOK(jobs'[j])
        <5>1. j \in Rows /\ RowChange(j) /\ clock' \in Nat /\ TypeOK
          BY <1>1, <2>2 DEF RowsStep, QueueInv
        <5>2. RowOK(jobs[j])
          BY <1>1, <5>1 DEF QueueInv, RowsConsistent, RetryBudget, RowOK
        <5>. QED  BY <5>1, <5>2, RowChangeKeepsRow
      <4>. QED  BY <4>1
    <3>2. TypeOK'
      BY <1>1, <2>2, RowsStepKeepsTypes DEF QueueInv
    <3>3. RowsConsistent' /\ RetryBudget'
      BY <3>1 DEF RowsConsistent, RetryBudget, RowOK, Rows
    <3>. QED  BY <3>2, <3>3 DEF QueueInv
  <2>. QED  BY <1>1, <2>1, <2>2, StepsChangeRows DEF QueueInv
<1>2. ASSUME QueueInv, UNCHANGED vars PROVE QueueInv'
  BY <1>2 DEF vars, QueueInv, TypeOK, RowsConsistent, RetryBudget, Rows, StateOf
<1>. QED  BY <1>1, <1>2

\* Every reachable state satisfies the invariant that the step lemmas need.
THEOREM QueueInvariant == Spec => []QueueInv
<1>1. Init => QueueInv
  BY JobQueueConstants DEF Init, QueueInv, TypeOK, RowsConsistent, RetryBudget, Rows
<1>. QED  BY <1>1, InvInductive, PTL DEF Spec

\* The tables keep their types: statuses, leases, holders and batch states
\* are always among those the queries of queue.ts compare with.
THEOREM TypeCorrect == Spec => []TypeOK
BY QueueInvariant, PTL DEF QueueInv

\* In every reachable state the columns of every row agree.
THEOREM RowsAlwaysConsistent == Spec => []RowsConsistent
BY QueueInvariant, PTL DEF QueueInv

\* A waiting job always has an attempt left, a failed one never has.
THEOREM RetryBudgetKept == Spec => []RetryBudget
BY QueueInvariant, PTL DEF QueueInv

-----------------------------------------------------------------------------
(* The action properties.                                                  *)

\* publish() inserts a row behind all others and changes none.
LEMMA PublishKeepsRows ==
  ASSUME TypeOK, Publish
  PROVE  /\ Rows' = Rows \cup {lastId + 1}
         /\ lastId + 1 \notin Rows
         /\ lastId' = lastId + 1 /\ lastId < MaxJobs
         /\ \A j \in Rows : jobs'[j] = jobs[j]
         /\ jobs'[lastId + 1].status = "queued"
         /\ jobs'[lastId + 1].lease = "none"
         /\ UNCHANGED batchState
BY DEF Publish, publish, TypeOK, Rows

\* Only Started changes the number of attempts.
LEMMA AttemptsMeanStart ==
  ASSUME TypeOK, NEW j \in Rows, RowChange(j)
  PROVE  Started(j) \/ jobs'[j].attempts = jobs[j].attempts
<1>1. jobs[j] \in Job
  BY DEF TypeOK
<1>. QED  BY <1>1 DEF RowChange, Closes, Closed, Released, GivenBack, LeaseMoved,
                      FallsDue, Job

\* No job of a paused or cancelled batch ever starts.
THEOREM StoppedJobsNeverStart == Spec => StoppedNeverStarts
<1>1. ASSUME QueueInv, Next, NEW j \in Rows \cap Rows', StateOf(jobs[j]) # "none"
      PROVE  jobs'[j].attempts = jobs[j].attempts
  <2>1. CASE Publish
    BY <1>1, <2>1, PublishKeepsRows DEF QueueInv
  <2>2. CASE RowsStep
    BY <1>1, <2>2, AttemptsMeanStart DEF RowsStep, Rows, Started, QueueInv
  <2>. QED  BY <1>1, <2>1, <2>2, StepsChangeRows DEF QueueInv
<1>. DEFINE A == \A j \in Rows \cap Rows' :
                   StateOf(jobs[j]) # "none" => jobs'[j].attempts = jobs[j].attempts
<1>2. QueueInv /\ [Next]_vars => [A]_vars
  BY <1>1
<1>. QED  BY <1>2, QueueInvariant, PTL DEF Spec, StoppedNeverStarts

\* Only a resume and the sweeper lift a stop.
LEMMA StopsLifted ==
  ASSUME TypeOK, Next, NEW r \in Rids, batchState[r] # "none", batchState'[r] = "none"
  PROVE  resumeBatch(r) \/ Sweep
<1>. USE DEF TypeOK
<1>1. SUFFICES ASSUME ~Sweep PROVE resumeBatch(r)
  OBVIOUS
<1>2. CASE Publish \/ \E t \in Topics : Claim(t) \/ flush(t)
  BY <1>2 DEF Publish, publish, Claim, claim, claimNothing, flush, CancelRows
<1>3. CASE \E j \in Rows, a \in Adapters :
             \/ complete(j, a) \/ completeCut(j, a) \/ heartbeat(j, a)
             \/ failCancelled(j, a) \/ failRetry(j, a)
  BY <1>3 DEF complete, completeCut, heartbeat, failCancelled, failRetry
<1>4. CASE \E j \in Rows, a \in Adapters : failForGood(j, a) \/ failForGoodCut(j, a)
  <2>1. UNCHANGED batchState
          \/ \E b : batchState' = [batchState EXCEPT ![b] = "cancelled"]
    BY <1>4 DEF failForGood, failForGoodCut
  <2>. QED  BY <2>1
<1>5. CASE \E q \in Rids : \/ pauseBatch(q) \/ pauseBatchCut(q)
                           \/ cancelBatch(q) \/ cancelBatchCut(q)
  BY <1>5 DEF pauseBatch, pauseBatchCut, cancelBatch, cancelBatchCut
<1>6. CASE \E q \in Rids : resumeBatch(q)
  BY <1>6 DEF resumeBatch
<1>7. CASE \/ activeJobs \/ \E q \in Rids : dismiss(q)
           \/ \E j \in Rows : cancelJob(j) \/ LeaseExpires(j) \/ BackoffElapses(j)
  BY <1>7 DEF activeJobs, dismiss, CancelRows, cancelJob, LeaseExpires, BackoffElapses
<1>. QED  BY <1>1, <1>2, <1>3, <1>4, <1>5, <1>6, <1>7
          DEF Next, RunNext, Crash, Report, fail, Control

\* The stop of a batch outlasts every job of it that the tables hold.
THEOREM StopsOutlastTheirJobs == Spec => StopsOutlastJobs
<1>1. ASSUME QueueInv, Next, NEW r \in Rids,
             batchState[r] # "none", batchState'[r] = "none"
      PROVE  resumeBatch(r) \/ \A j \in Rows' : jobs'[j].setProcess # r
  <2>1. CASE Sweep
    <3>1. PICK c1, c2 \in 0..clock, S \in SUBSET Rids : sweepOnce(c1, c2, S)
      BY <2>1 DEF Sweep
    <3>2. PICK swept \in SUBSET Rows :
            /\ jobs' = Delete(jobs, swept)
            /\ \A q \in S : Unreferenced(q, Rows \ swept)
            /\ batchState' = [q \in Rids |-> IF q \in S THEN "none" ELSE batchState[q]]
      BY <3>1 DEF sweepOnce
    <3>3. r \in S
      BY <1>1, <3>2
    <3>. QED  BY <3>2, <3>3 DEF Unreferenced, Delete, Rows
  <2>. QED  BY <1>1, <2>1, StopsLifted DEF QueueInv
<1>. DEFINE A == \A r \in Rids :
                   batchState[r] # "none" /\ batchState'[r] = "none"
                     => resumeBatch(r) \/ \A j \in Rows' : jobs'[j].setProcess # r
<1>2. QueueInv /\ [Next]_vars => [A]_vars
  BY <1>1
<1>. QED  BY <1>2, QueueInvariant, PTL DEF Spec, StopsOutlastJobs

\* Closes jobs never change and deleted ids never return.
THEOREM EndedJobsStayEnded == Spec => EndedStaysEnded
<1>. DEFINE A == \A j \in 1..lastId :
                   /\ j \notin Rows => j \notin Rows'
                   /\ j \in Rows \cap Rows' /\ jobs[j].status \in Terminal
                        => jobs'[j] = jobs[j]
<1>1. ASSUME QueueInv, Next PROVE A
  <2>1. CASE Publish
    <3>1. lastId + 1 \notin 1..lastId
      BY <1>1 DEF QueueInv, TypeOK
    <3>. QED  BY <1>1, <2>1, <3>1, PublishKeepsRows DEF QueueInv
  <2>2. CASE RowsStep
    <3>1. Rows' \subseteq Rows
      BY <2>2 DEF RowsStep, Rows
    <3>2. ASSUME NEW j \in Rows', jobs[j].status \in Terminal
          PROVE  jobs'[j] = jobs[j]
      BY <2>2, <3>2 DEF RowsStep, Rows, RowChange, Started, Closes, GivenBack,
                        LeaseMoved, FallsDue, Active, Terminal
    <3>. QED  BY <3>1, <3>2
  <2>. QED  BY <1>1, <2>1, <2>2, StepsChangeRows DEF QueueInv
<1>2. QueueInv /\ [Next]_vars => [A]_vars
  BY <1>1
<1>. QED  BY <1>2, QueueInvariant, PTL DEF Spec, EndedStaysEnded

\* Pausing and cancelling, also when the process dies half-way, never touch
\* a job that a consumer is working on.
THEOREM ControlSparesRunningJobs == Spec => ControlSparesRunning
<1>1. ASSUME TypeOK, NEW r \in Rids,
             \/ pauseBatch(r) \/ pauseBatchCut(r)
             \/ cancelBatch(r) \/ cancelBatchCut(r)
      PROVE  \A j \in Rows : jobs[j].status = "running"
                               => j \in Rows' /\ jobs'[j] = jobs[j]
  <2>1. PICK S \in SUBSET (Rows \ Running(jobs)) : jobs' = Delete(jobs, S)
    <3>1. CASE jobs' = jobs
      BY <1>1, <3>1, DeleteNothing DEF TypeOK
    <3>2. CASE jobs' = drainByProcess(jobs, r)
      BY <3>2, DrainSparesRunning DEF Rows
    <3>3. CASE \E cutoff \in Cutoffs : jobs' = CancelledTable(jobs, r, cutoff)
      BY <3>3, CancelSparesRunning DEF Rows
    <3>. QED  BY <1>1, <3>1, <3>2, <3>3
              DEF pauseBatch, cancelBatch, pauseBatchCut, cancelBatchCut
  <2>. QED  BY <2>1 DEF Delete, Rows, Running
<1>. DEFINE A == \A r \in Rids, j \in Rows :
                   jobs[j].status = "running"
                     /\ (\/ pauseBatch(r) \/ pauseBatchCut(r)
                         \/ cancelBatch(r) \/ cancelBatchCut(r))
                   => j \in Rows' /\ jobs'[j] = jobs[j]
<1>2. QueueInv /\ [Next]_vars => [A]_vars
  BY <1>1 DEF QueueInv
<1>. QED  BY <1>2, QueueInvariant, PTL DEF Spec, ControlSparesRunning

-----------------------------------------------------------------------------
(* The order of claims.                                                    *)

\* A window on the oldest rows has no gaps.
LEMMA OldestDownward ==
  ASSUME NEW S \in SUBSET Nat, IsFiniteSet(S), NEW n \in Nat,
         NEW j \in Oldest(S, n), NEW i \in S, i < j
  PROVE  i \in Oldest(S, n)
<1>. DEFINE below(x) == {k \in S : k < x}
<1>1. below(i) \subseteq below(j) /\ IsFiniteSet(below(j)) /\ j \in S
  <2>1. j \in S
    BY DEF Oldest
  <2>2. i \in Nat /\ j \in Nat
    BY <2>1
  <2>3. ASSUME NEW k \in S, k < i PROVE k < j
    <3>1. k \in Nat
      OBVIOUS
    <3>. QED  BY <2>2, <2>3, <3>1
  <2>4. below(j) \in SUBSET S
    OBVIOUS
  <2>5. IsFiniteSet(below(j))
    BY <2>4, FS_Subset
  <2>. QED  BY <2>1, <2>3, <2>5
<1>2. Cardinality(below(i)) <= Cardinality(below(j))
  BY <1>1, FS_Subset
<1>3. Cardinality(below(i)) \in Nat /\ Cardinality(below(j)) \in Nat
  BY <1>1, FS_Subset, FS_CardinalityType
<1>4. Cardinality(below(j)) < n
  BY DEF Oldest
<1>5. Cardinality(below(i)) < n
  BY <1>2, <1>3, <1>4
<1>. QED  BY <1>5 DEF Oldest

\* A claim takes the oldest startable job of a queue, and one of the plain
\* queue when the query of claim() shows any.
THEOREM ClaimsTakenInOrder == Spec => ClaimsInOrder
<1>1. ASSUME QueueInv, NEW t \in Topics, NEW a \in Adapters, NEW j \in Rows,
             claim(t, a, j), NEW i \in Rows, Startable(i), GoesBefore(i, j)
      PROVE  FALSE
  <2>1. jobs \in [Rows -> Job] /\ Rows \in SUBSET Nat /\ IsFiniteSet(Rows)
    <3>1. lastId \in Nat /\ Rows \subseteq 1..lastId /\ jobs \in [Rows -> Job]
      BY <1>1, JobQueueConstants DEF QueueInv, TypeOK
    <3>2. IsFiniteSet(1..lastId)
      BY <3>1, FS_Interval
    <3>3. IsFiniteSet(Rows)
      BY <3>1, <3>2, FS_Subset
    <3>4. \A k \in Rows : k \in Nat
      BY <3>1
    <3>. QED  BY <3>1, <3>3, <3>4
  <2>2. j \in Offered(t) /\ \A k \in Offered(t) : j <= k
    BY <1>1 DEF claim
  <2>3. PICK q \in {Plain(t), Batch(t)} :
          /\ Offered(t) = Takeable(q)
          /\ q = Batch(t) => Takeable(Plain(t)) = {}
    <3>1. Plain(t) # Batch(t)
      <4>1. <<t, "plain">>[2] # <<t, "batch">>[2]
        OBVIOUS
      <4>. QED  BY <4>1 DEF Plain, Batch
    <3>2. CASE Takeable(Plain(t)) # {}
      BY <3>1, <3>2 DEF Offered
    <3>3. CASE Takeable(Plain(t)) = {}
      BY <3>3 DEF Offered
    <3>. QED  BY <3>2, <3>3
  <2>4. jobs[j].queue = q /\ j \in Candidates(q)
    BY <2>2, <2>3 DEF Takeable, Candidates, Oldest, Due
  <2>5. CASE jobs[i].queue = jobs[j].queue /\ i < j
    <3>1. i \in Due(q)
      BY <1>1, <2>4, <2>5 DEF Startable
    <3>2. Due(q) \in SUBSET Nat /\ IsFiniteSet(Due(q))
      BY <2>1, FS_Subset DEF Due
    <3>3. i \in Candidates(q)
      BY <2>4, <2>5, <3>1, <3>2, OldestDownward, JobQueueConstants DEF Candidates
    <3>4. i \in Offered(t)
      BY <1>1, <2>3, <3>3 DEF Startable, Takeable
    <3>. QED  BY <2>1, <2>2, <2>5, <3>4
  <2>6. CASE /\ jobs[i].queue[1] = jobs[j].queue[1]
             /\ jobs[i].queue[2] = "plain" /\ jobs[j].queue[2] = "batch"
             /\ i \in Candidates(jobs[i].queue)
    <3>1. q = Batch(t)
      BY <2>3, <2>4, <2>6 DEF Plain, Batch
    <3>2. jobs[i].queue = Plain(t)
      BY <2>1, <2>4, <2>6, <3>1 DEF Job, Plain, Batch
    <3>. QED  BY <1>1, <2>3, <2>6, <3>1, <3>2 DEF Startable, Takeable
  <2>. QED  BY <1>1, <2>5, <2>6 DEF GoesBefore
<1>. DEFINE A == \A j \in Rows \cap Rows' :
                   jobs'[j].attempts > jobs[j].attempts
                     => ~\E i \in Rows : Startable(i) /\ GoesBefore(i, j)
<1>2. ASSUME QueueInv, Next, NEW j \in Rows \cap Rows',
             jobs'[j].attempts > jobs[j].attempts
      PROVE  ~\E i \in Rows : Startable(i) /\ GoesBefore(i, j)
  <2>1. jobs[j].attempts \in Nat
    BY <1>2 DEF QueueInv, TypeOK, Job
  <2>2. CASE Publish
    BY <1>2, <2>1, <2>2, PublishKeepsRows DEF QueueInv
  <2>3. CASE RowsStep
    <3>1. Started(j)
      BY <1>2, <2>1, <2>3, AttemptsMeanStart DEF RowsStep, Rows, QueueInv
    <3>. QED  BY <1>1, <1>2, <3>1 DEF Started
  <2>. QED  BY <1>2, <2>2, <2>3, StepsChangeRows DEF QueueInv
<1>3. QueueInv /\ [Next]_vars => [A]_vars
  BY <1>2
<1>. QED  BY <1>3, QueueInvariant, PTL DEF Spec, ClaimsInOrder

-----------------------------------------------------------------------------
(* What a consumer's calls leave alone.                                    *)

\* A lease that never runs out is live from the claim to the report.
LeasesLive ==
  \A j \in Rows : jobs[j].status = "running" =>
    jobs[j].lease = "live" /\ jobs[j].attempts >= 1

\* The rows outside S stay as they are; only waiting and ended ones may go.
Spares(S) ==
  /\ Rows' \subseteq Rows
  /\ \A k \in Rows \ S : /\ jobs[k].status = "running" => k \in Rows'
                         /\ k \in Rows' => jobs'[k] = jobs[k]

\* A call of a consumer, and the passing of time, keep the types of the tables.
LEMMA ConsumerCallsTyped ==
  ASSUME TypeOK,
         \/ UNCHANGED vars
         \/ \E t \in Topics : claimNothing(t)
         \/ \E t \in Topics, j \in Rows, a \in Adapters : claim(t, a, j)
         \/ \E j, a : a \in Adapters /\ (complete(j, a) \/ fail(j, a))
         \/ \E j \in Rows : LeaseExpires(j) \/ BackoffElapses(j)
  PROVE  TypeOK' /\ UNCHANGED lastId
<1>1. CASE UNCHANGED vars
  BY <1>1 DEF vars, TypeOK, Rows
<1>2. ASSUME ~UNCHANGED vars PROVE RowsStep
  <2>1. CASE \/ \E t \in Topics : claimNothing(t)
             \/ \E t \in Topics, j \in Rows, a \in Adapters : claim(t, a, j)
    BY <2>1, ClaimChangesRows DEF Claim
  <2>2. CASE \E j, a : a \in Adapters /\ (complete(j, a) \/ fail(j, a))
    <3>1. PICK j, a : a \in Adapters /\ (complete(j, a) \/ fail(j, a))
      BY <2>2
    <3>2. j \in Rows
      BY <3>1 DEF complete, fail, failCancelled, failRetry, failForGood,
                  FailsForGood, OwnedBy
    <3>3. RowsStep
      BY <3>1, <3>2, ReportChangesRows DEF Report
    <3>. QED  BY <3>3
  <2>3. CASE \E j \in Rows : LeaseExpires(j) \/ BackoffElapses(j)
    BY <2>3, HousekeepingChangesRows
  <2>. QED  BY <1>2, <2>1, <2>2, <2>3
<1>. QED  BY <1>1, <1>2, RowsStepKeepsTypes DEF RowsStep

\* While leases last a claim starts a waiting job and ends waiting ones.
LEMMA ClaimSpares ==
  ASSUME TypeOK, LeasesLive, NEW t, NEW a \in Adapters
  PROVE  /\ claimNothing(t) =>
              /\ Spares(Finalised(t))
              /\ \A k \in Finalised(t) :
                   k \in Rows /\ jobs[k].status = "queued" /\ jobs'[k].status = "cancelled"
         /\ \A i : claim(t, a, i) =>
              /\ Spares(Finalised(t) \cup {i})
              /\ \A k \in Finalised(t) \cup {i} : k \in Rows /\ jobs[k].status = "queued"
              /\ \A k \in Finalised(t) \ {i} : jobs'[k].status = "cancelled"
              /\ i \in Rows' /\ jobs'[i].status = "running" /\ jobs'[i].lease = "live"
              /\ jobs'[i].claimedBy = a /\ jobs'[i].attempts >= 1
<1>1. \A k \in Rows : jobs[k] \in Job
  BY DEF TypeOK
<1>2. \A q : \A k \in Due(q) : k \in Rows /\ jobs[k].status = "queued"
  BY DEF Due, LeasesLive
<1>3. \A k \in Finalised(t) : k \in Rows /\ jobs[k].status = "queued"
  BY <1>2 DEF Finalised, Passed, Candidates, Oldest
<1>4. \A k \in Rows : Released(jobs[k], "cancelled").status = "cancelled"
  BY <1>1 DEF Released, Closed, Job
<1>5. ASSUME claimNothing(t)
      PROVE  /\ Spares(Finalised(t))
             /\ \A k \in Finalised(t) : jobs'[k].status = "cancelled"
  <2>1. jobs' = [k \in Rows |-> IF k \in Finalised(t)
                                THEN Released(jobs[k], "cancelled") ELSE jobs[k]]
    BY <1>5 DEF claimNothing, Update
  <2>. QED  BY <1>3, <1>4, <2>1 DEF Spares, Rows
<1>6. ASSUME NEW i, claim(t, a, i)
      PROVE  /\ Spares(Finalised(t) \cup {i})
             /\ \A k \in Finalised(t) \cup {i} : k \in Rows /\ jobs[k].status = "queued"
             /\ \A k \in Finalised(t) \ {i} : jobs'[k].status = "cancelled"
             /\ i \in Rows' /\ jobs'[i].status = "running" /\ jobs'[i].lease = "live"
             /\ jobs'[i].claimedBy = a /\ jobs'[i].attempts >= 1
  <2>1. i \in Rows /\ jobs[i].status = "queued"
    BY <1>2, <1>6 DEF claim, Offered, Takeable, Candidates, Oldest
  <2>2. jobs' = [k \in Rows |-> IF k = i THEN Leased(jobs[k], a)
                                ELSE IF k \in Finalised(t)
                                THEN Released(jobs[k], "cancelled") ELSE jobs[k]]
    BY <1>6 DEF claim
  <2>3. /\ Leased(jobs[i], a).status = "running" /\ Leased(jobs[i], a).lease = "live"
        /\ Leased(jobs[i], a).claimedBy = a /\ Leased(jobs[i], a).attempts >= 1
    <3>1. jobs[i] \in Job /\ jobs[i].attempts \in Nat
      BY <1>1, <2>1 DEF Job
    <3>. QED  BY <3>1 DEF Leased, Job
  <2>. QED  BY <1>3, <1>4, <2>1, <2>2, <2>3 DEF Spares, Rows
<1>. QED  BY <1>3, <1>5, <1>6

\* complete() and fail() change their own row, and never start it.
LEMMA CompleteSpares ==
  ASSUME TypeOK, NEW a \in Adapters, NEW j, complete(j, a)
  PROVE  Spares({j}) /\ (j \in Rows' => jobs'[j].status = "done")
<1>. DEFINE done == [jobs EXCEPT ![j] = Closed(jobs[j], "done")]
<1>1. j \in Rows
  BY DEF complete, OwnedBy
<1>2. /\ DOMAIN done = Rows /\ \A k \in Rows \ {j} : done[k] = jobs[k]
      /\ done[j].status = "done"
  <2>1. Closed(jobs[j], "done").status = "done"
    BY <1>1 DEF Closed, TypeOK, Job
  <2>. QED  BY <1>1, <2>1 DEF TypeOK
<1>. HIDE DEF done
<1>3. PICK S \in SUBSET Rows :
          /\ jobs' = Delete(jobs, {j}) \/ jobs' = Delete(done, S)
          /\ \A k \in S \ {j} : jobs[k].status # "running"
  <2>1. CASE jobs' = Delete(jobs, {j})
    <3>. WITNESS {} \in SUBSET Rows
    <3>. QED  BY <2>1
  <2>2. CASE jobs' = done
    <3>1. done = [k \in DOMAIN done |-> done[k]]
      BY DEF done, TypeOK
    <3>. QED  BY <2>2, <3>1, DeleteNothing
  <2>3. ASSUME NEW cutoff, jobs' = cleanupBatchTerminalRows(done, jobs[j].setProcess, cutoff)
        PROVE  \E S \in SUBSET Rows :
                 jobs' = Delete(done, S) /\ \A k \in S \ {j} : jobs[k].status # "running"
    <3>1. PICK S \in SUBSET (DOMAIN done \ Running(done)) : jobs' = Delete(done, S)
      BY <2>3, CleanupSparesRunning
    <3>. QED  BY <1>2, <3>1 DEF Running
  <2>. QED  BY <2>1, <2>2, <2>3 DEF complete, done
<1>. QED  BY <1>1, <1>2, <1>3 DEF Spares, Delete, Rows

\* fail() gives its row back or ends it.
LEMMA FailSpares ==
  ASSUME TypeOK, NEW a \in Adapters, NEW j, fail(j, a)
  PROVE  /\ Spares({j}) /\ j \in Rows
         /\ j \in Rows' => jobs'[j].status \in {"queued", "failed", "cancelled"}
<1>1. j \in Rows /\ jobs[j] \in Job
  BY DEF fail, failCancelled, failRetry, failForGood, FailsForGood, OwnedBy, TypeOK
<1>2. CASE failCancelled(j, a)
  <2>1. jobs' = [jobs EXCEPT ![j] = Released(jobs[j], "cancelled")]
    BY <1>2 DEF failCancelled
  <2>2. Released(jobs[j], "cancelled").status = "cancelled"
    BY <1>1 DEF Released, Closed, Job
  <2>. QED  BY <1>1, <2>1, <2>2 DEF TypeOK, Spares, Rows
<1>3. CASE failRetry(j, a)
  <2>1. PICK row : row.status = "queued" /\ jobs' = [jobs EXCEPT ![j] = row]
    BY <1>1, <1>3 DEF failRetry, Job
  <2>. QED  BY <1>1, <2>1 DEF TypeOK, Spares, Rows
<1>4. CASE failForGood(j, a)
  <2>1. /\ DOMAIN FailedTable(j) = Rows
        /\ \A k \in Rows \ {j} : FailedTable(j)[k] = jobs[k]
        /\ FailedTable(j)[j].status = "failed"
        /\ FailedTable(j) = [k \in DOMAIN FailedTable(j) |-> FailedTable(j)[k]]
    <3>1. Released(jobs[j], "failed").status = "failed"
      BY <1>1 DEF Released, Closed, Job
    <3>. QED  BY <1>1, <3>1 DEF FailedTable, TypeOK
  <2>2. PICK S \in SUBSET Rows :
          /\ jobs' = Delete(FailedTable(j), S)
          /\ \A k \in S \ {j} : jobs[k].status # "running"
    <3>1. CASE jobs' = FailedTable(j)
      BY <2>1, <3>1, DeleteNothing
    <3>2. ASSUME NEW cutoff, jobs' = CancelledTable(FailedTable(j), jobs[j].setProcess, cutoff)
          PROVE  \E S \in SUBSET Rows :
                   /\ jobs' = Delete(FailedTable(j), S)
                   /\ \A k \in S \ {j} : jobs[k].status # "running"
      <4>1. PICK S \in SUBSET (DOMAIN FailedTable(j) \ Running(FailedTable(j))) :
              jobs' = Delete(FailedTable(j), S)
        BY <3>2, CancelSparesRunning
      <4>. QED  BY <2>1, <4>1 DEF Running
    <3>. QED  BY <1>4, <3>1, <3>2 DEF failForGood
  <2>. QED  BY <1>1, <2>1, <2>2 DEF Spares, Delete, Rows
<1>. QED  BY <1>2, <1>3, <1>4 DEF fail

-----------------------------------------------------------------------------
(* JobQueue implements WorkQueue: under the mapping of JobQueue!Abstract,  *)
(* initial states map to initial states, and each step to an arrival, to   *)
(* one job handed out, or to steps of jobs that are handed to nobody.      *)

\* The mapped variables at one job.
aHolder(j) == IF Stage(j) = "held" THEN jobs[j].claimedBy ELSE NoAdapter
aLapsed    == {j \in Rows : jobs[j].lease = "expired"}
aStopped   == {j \in Rows : StateOf(jobs[j]) # "none"}

\* Abstract!JobStep(j) and Abstract!HandOut(j) without the functions around.
QuietStep(j) ==
  /\ \/ Stage(j) = "unborn" /\ Stage(j)' = "waiting"
     \/ Stage(j) = "held" /\ Stage(j)' = "held" /\ aHolder(j)' = aHolder(j)
     \/ Stage(j) = "held" /\ Stage(j)' = "waiting"
     \/ Stage(j) \in {"waiting", "held"} /\ Stage(j)' = "closed"
     \/ Stage(j) \in {"waiting", "held", "closed"} /\ Stage(j)' = "gone"
     \/ Stage(j)' = Stage(j) /\ Stage(j) # "held"
  /\ Stage(j)' # "held" => aHolder(j)' = NoAdapter /\ j \notin aLapsed'

HandedOut(j) ==
  /\ Stage(j) = "waiting" \/ (Stage(j) = "held" /\ j \in aLapsed)
  /\ j \notin aStopped
  /\ Stage(j)' = "held"
  /\ aHolder(j)' \in Adapters
  /\ j \notin aLapsed'

-----------------------------------------------------------------------------

\* Rows are numbered up to lastId, within the bound of the model.
LEMMA RowsAreJobs ==
  ASSUME TypeOK
  PROVE  /\ \A j \in Rows : j \in 1..MaxJobs /\ j \in Nat /\ j <= lastId
         /\ lastId \in Nat
BY JobQueueConstants DEF TypeOK

\* A held job has the stage that its row shows, in either state of a step.
LEMMA StageOfRow ==
  ASSUME TypeOK, NEW j \in Rows
  PROVE  /\ jobs[j].status = "queued" => Stage(j) = "waiting"
         /\ jobs[j].status = "running" => Stage(j) = "held"
         /\ jobs[j].status \in Terminal => Stage(j) = "closed"
         /\ jobs[j].status \in {"queued", "running"} \cup Terminal
<1>1. ~(j > lastId)
  BY RowsAreJobs
<1>2. jobs[j].status \in {"queued", "running"} \cup Terminal
  BY DEF TypeOK, Job, Active
<1>. QED  BY <1>1, <1>2 DEF Stage, Terminal

\* Only a held job is lapsed.
LEMMA NotHeldNotLapsed ==
  ASSUME QueueInv, NEW j, Stage(j) # "held"
  PROVE  aHolder(j) = NoAdapter /\ j \notin aLapsed
<1>1. ASSUME j \in Rows, jobs[j].lease = "expired" PROVE FALSE
  BY <1>1, StageOfRow DEF QueueInv, RowsConsistent
<1>. QED  BY <1>1 DEF aHolder, aLapsed

\* A row change that is no start maps to a step of its abstract job.
LEMMA RowChangeMaps ==
  ASSUME QueueInv, QueueInv', UNCHANGED lastId, NEW j \in Rows, j \in Rows',
         RowChange(j), ~Started(j)
  PROVE  QuietStep(j)
<1>1. /\ jobs[j].status = "queued" => Stage(j) = "waiting"
      /\ jobs[j].status = "running" => Stage(j) = "held"
      /\ jobs[j].status \in Terminal => Stage(j) = "closed"
      /\ jobs[j].status \in {"queued", "running"} \cup Terminal
  BY StageOfRow DEF QueueInv
<1>2. /\ jobs'[j].status = "queued" => Stage(j)' = "waiting"
      /\ jobs'[j].status = "running" => Stage(j)' = "held"
      /\ jobs'[j].status \in Terminal => Stage(j)' = "closed"
  <2>1. j \in Rows' /\ ~(j > lastId')
    BY RowsAreJobs DEF QueueInv
  <2>. QED  BY <2>1 DEF Stage, Terminal
<1>3. jobs[j] \in Job
  BY DEF QueueInv, TypeOK
<1>4. Stage(j)' # "held" => aHolder(j)' = NoAdapter /\ j \notin aLapsed'
  <2>1. Stage(j)' # "held" => jobs'[j].status # "running"
    BY <1>2
  <2>2. jobs'[j].lease = "expired" => jobs'[j].status = "running"
    BY DEF QueueInv, RowsConsistent
  <2>. QED  BY <2>1, <2>2 DEF aHolder, aLapsed
<1>5. CASE jobs'[j] = jobs[j]
  BY <1>1, <1>2, <1>4, <1>5 DEF QuietStep, aHolder, Terminal
<1>6. CASE Closes(j)
  <2>1. jobs'[j].status \in Terminal
    BY <1>3, <1>6 DEF Closes, Closed, Released, Job
  <2>2. jobs[j].status \in {"queued", "running"}
    BY <1>6 DEF Closes, Active
  <2>. QED  BY <1>1, <1>2, <1>4, <2>1, <2>2 DEF QuietStep
<1>7. CASE GivenBack(j)
  <2>1. jobs'[j].status = "queued"
    BY <1>3, <1>7 DEF GivenBack, Job
  <2>. QED  BY <1>1, <1>2, <1>4, <1>7, <2>1 DEF QuietStep, GivenBack
<1>8. CASE LeaseMoved(j)
  <2>1. jobs'[j].status = "running" /\ jobs'[j].claimedBy = jobs[j].claimedBy
    BY <1>3, <1>8 DEF LeaseMoved, Job
  <2>. QED  BY <1>1, <1>2, <1>4, <1>8, <2>1 DEF QuietStep, LeaseMoved, aHolder
<1>9. CASE FallsDue(j)
  <2>1. jobs'[j].status = "queued"
    BY <1>3, <1>9 DEF FallsDue, Job
  <2>. QED  BY <1>1, <1>2, <1>4, <1>9, <2>1 DEF QuietStep, FallsDue
<1>. QED  BY <1>5, <1>6, <1>7, <1>8, <1>9 DEF RowChange

\* A row that the step deletes, and an id without a row.
LEMMA NoRowMaps ==
  ASSUME QueueInv, QueueInv', UNCHANGED lastId, NEW j \in 1..MaxJobs,
         j \notin Rows'
  PROVE  QuietStep(j)
<1>1. CASE j > lastId
  <2>1. Stage(j) = "unborn" /\ Stage(j)' = "unborn"
    BY <1>1 DEF Stage
  <2>. QED  BY <2>1 DEF QuietStep, aHolder, aLapsed, Rows
<1>2. CASE ~(j > lastId)
  <2>1. Stage(j)' = "gone"
    BY <1>2 DEF Stage, Rows
  <2>2. CASE j \notin Rows
    <3>1. Stage(j) = "gone"
      BY <1>2, <2>2 DEF Stage
    <3>. QED  BY <2>1, <3>1 DEF QuietStep, aHolder, aLapsed, Rows
  <2>3. CASE j \in Rows
    <3>1. Stage(j) \in {"waiting", "held", "closed"}
      BY <2>3, StageOfRow DEF QueueInv
    <3>. QED  BY <2>1, <3>1 DEF QuietStep, aHolder, aLapsed, Rows
  <2>. QED  BY <2>2, <2>3
<1>. QED  BY <1>1, <1>2

\* A start maps to the abstract hand-out.
LEMMA StartMaps ==
  ASSUME QueueInv, QueueInv', UNCHANGED lastId, NEW j \in Rows, j \in Rows',
         Started(j)
  PROVE  HandedOut(j)
<1>1. PICK t \in Topics, a \in Adapters :
        claim(t, a, j) /\ jobs'[j] = Leased(jobs[j], a)
  BY DEF Started
<1>2. jobs[j] \in Job
  BY DEF QueueInv, TypeOK
<1>3. /\ jobs'[j].status = "running" /\ jobs'[j].lease = "live"
      /\ jobs'[j].claimedBy = a
  BY <1>1, <1>2 DEF Leased, Job
<1>4. Stage(j)' = "held"
  <2>1. ~(j > lastId')
    BY RowsAreJobs DEF QueueInv
  <2>. QED  BY <1>3, <2>1 DEF Stage
<1>5. \/ jobs[j].status = "queued"
      \/ jobs[j].status = "running" /\ jobs[j].lease = "expired"
  BY <1>1 DEF claim, Offered, Takeable, Candidates, Oldest, Due
<1>6. Stage(j) = "waiting" \/ (Stage(j) = "held" /\ j \in aLapsed)
  BY <1>5, StageOfRow DEF QueueInv, aLapsed
<1>. QED  BY <1>3, <1>4, <1>6 DEF HandedOut, aStopped, aHolder, aLapsed, Started

\* Two jobs are not handed out in one step.
LEMMA OneStart ==
  ASSUME TypeOK, NEW i \in Rows, NEW j \in Rows, i # j, Started(i), Started(j)
  PROVE  FALSE
<1>1. PICK t \in Topics, a \in Adapters :
        claim(t, a, i) /\ jobs'[i] = Leased(jobs[i], a)
  BY DEF Started
<1>2. jobs'[j] = jobs[j] \/ jobs'[j] = Released(jobs[j], "cancelled")
  BY <1>1 DEF claim
<1>3. PICK b \in Adapters : jobs'[j] = Leased(jobs[j], b)
  BY DEF Started
<1>4. jobs[j] \in Job
  BY DEF TypeOK
<1>5. /\ jobs[j].attempts \in Nat
      /\ Leased(jobs[j], b).attempts = jobs[j].attempts + 1
      /\ Released(jobs[j], "cancelled").attempts = jobs[j].attempts
  BY <1>4 DEF Leased, Released, Closed, Job
<1>. QED  BY <1>2, <1>3, <1>5

\* publish() maps to the birth of one abstract job.
LEMMA PublishMaps ==
  ASSUME QueueInv, QueueInv', Publish, NEW j \in 1..MaxJobs
  PROVE  QuietStep(j)
<1>1. /\ Rows' = Rows \cup {lastId + 1} /\ lastId' = lastId + 1
      /\ \A k \in Rows : jobs'[k] = jobs[k]
      /\ jobs'[lastId + 1].status = "queued"
      /\ jobs'[lastId + 1].lease = "none"
  BY PublishKeepsRows DEF QueueInv
<1>2. lastId \in Nat /\ \A k \in Rows : k <= lastId
  BY RowsAreJobs DEF QueueInv
<1>3. CASE j = lastId + 1
  <2>1. Stage(j) = "unborn" /\ Stage(j)' = "waiting"
    BY <1>1, <1>2, <1>3 DEF Stage
  <2>. QED  BY <1>1, <1>3, <2>1 DEF QuietStep, aHolder, aLapsed
<1>4. CASE j > lastId + 1
  <2>1. Stage(j) = "unborn" /\ Stage(j)' = "unborn" /\ j \notin Rows'
    BY <1>1, <1>2, <1>4 DEF Stage
  <2>. QED  BY <2>1 DEF QuietStep, aHolder, aLapsed
<1>5. CASE j \in Rows
  <2>1. jobs'[j] = jobs[j] /\ j \in Rows' /\ j <= lastId
    BY <1>1, <1>2, <1>5
  <2>2. Stage(j)' = Stage(j)
    BY <1>1, <1>2, <2>1, <1>5 DEF Stage
  <2>3. aHolder(j)' = aHolder(j)
    BY <2>1, <2>2 DEF aHolder
  <2>4. Stage(j) # "held" => aHolder(j) = NoAdapter /\ j \notin aLapsed
    BY NotHeldNotLapsed
  <2>5. j \in aLapsed' => j \in aLapsed
    BY <1>5, <2>1 DEF aLapsed
  <2>. QED  BY <2>2, <2>3, <2>4, <2>5 DEF QuietStep
<1>6. CASE j \notin Rows /\ ~(j > lastId)
  <2>1. j \notin Rows'
    BY <1>1, <1>2, <1>6
  <2>2. Stage(j) = "gone" /\ Stage(j)' = "gone"
    BY <1>1, <1>2, <1>6, <2>1 DEF Stage
  <2>. QED  BY <2>1, <2>2 DEF QuietStep, aHolder, aLapsed
<1>. QED  BY <1>2, <1>3, <1>4, <1>5, <1>6

\* Every step hands out at most one job, and to one adapter.
LEMMA StepMaps ==
  ASSUME QueueInv, QueueInv', Next
  PROVE  \/ \A j \in 1..MaxJobs : QuietStep(j)
         \/ \E j \in 1..MaxJobs :
              HandedOut(j) /\ \A k \in 1..MaxJobs \ {j} : QuietStep(k)
<1>1. CASE Publish
  BY <1>1, PublishMaps
<1>2. CASE RowsStep
  <2>1. \A j \in 1..MaxJobs : j \notin Rows' => QuietStep(j)
    BY <1>2, NoRowMaps DEF RowsStep
  <2>2. \A j \in Rows' : j \in Rows /\ RowChange(j) /\ UNCHANGED lastId
    BY <1>2 DEF RowsStep, Rows
  <2>3. \A j \in Rows' : ~Started(j) => QuietStep(j)
    BY <2>2, RowChangeMaps
  <2>4. CASE \A j \in Rows' : ~Started(j)
    BY <2>1, <2>3, <2>4
  <2>5. ASSUME NEW j \in Rows', Started(j)
        PROVE  /\ j \in 1..MaxJobs /\ HandedOut(j)
               /\ \A k \in 1..MaxJobs \ {j} : QuietStep(k)
    <3>1. j \in 1..MaxJobs /\ HandedOut(j)
      BY <2>2, <2>5, StartMaps, RowsAreJobs DEF QueueInv
    <3>2. \A k \in Rows' \ {j} : ~Started(k)
      BY <2>2, <2>5, OneStart DEF QueueInv
    <3>. QED  BY <2>1, <2>3, <3>1, <3>2
  <2>. QED  BY <2>4, <2>5
<1>. QED  BY <1>1, <1>2, StepsChangeRows DEF QueueInv

-----------------------------------------------------------------------------

\* A step of a job that is no start is a step of the abstract job.
LEMMA QuietIsAbstract ==
  ASSUME NEW j \in 1..MaxJobs, QuietStep(j)
  PROVE  Abstract!JobStep(j)
BY DEF QuietStep, aHolder, aLapsed, Abstract!JobStep, Abstract!Arrive,
       Abstract!Keep, Abstract!GiveBack, Abstract!Close, Abstract!Remove,
       Abstract!Rest

\* A start is the abstract hand-out.
LEMMA HandedOutIsAbstract ==
  ASSUME NEW j \in 1..MaxJobs, HandedOut(j)
  PROVE  Abstract!HandOut(j)
BY DEF HandedOut, aHolder, aLapsed, aStopped, Abstract!HandOut

\* The tables, whatever the sequence of calls and crashes, give consumers
\* what the abstract work queue promises: one holder at a time, a new one
\* only after the lease ran out, none while the batch is stopped, and no job
\* twice once it ended.
THEOREM QueueImplementsWorkQueue == Spec => ImplementsWorkQueue
<1>1. Init => Abstract!Init
  <2>1. ASSUME Init PROVE \A j \in 1..MaxJobs : j > 0
    OBVIOUS
  <2>. QED  BY <2>1 DEF Init, Abstract!Init, Stage, Rows
<1>2. QueueInv /\ QueueInv' /\ Next => Abstract!Next
  BY StepMaps, QuietIsAbstract, HandedOutIsAbstract DEF Abstract!Next
<1>3. UNCHANGED vars => UNCHANGED Abstract!vars
  BY DEF vars, Abstract!vars, Stage, Rows, StateOf, Recorded
<1>4. QueueInv /\ QueueInv' /\ [Next]_vars => [Abstract!Next]_(Abstract!vars)
  BY <1>2, <1>3
<1>. QED  BY <1>1, <1>4, QueueInvariant, PTL
          DEF Spec, ImplementsWorkQueue, Abstract!Spec

=============================================================================
