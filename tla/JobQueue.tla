------------------------------ MODULE JobQueue ------------------------------
(***************************************************************************)
(* The job queue of the backend: the SQLite tables queue_jobs and          *)
(* batch_state, and the methods of class JobQueue that change them.        *)
(*                                                                         *)
(* Every method is synchronous, so no other handler runs inside one; a     *)
(* step of this module is one whole method call.  Only claim() uses a      *)
(* transaction: the other methods that issue several statements can be cut *)
(* by the death of the process, which the "Cut" actions model.             *)
(*                                                                         *)
(* Time is abstract.  A lease is live or expired, a queued row is due or   *)
(* still backing off, and completed_at is the value of a counter of        *)
(* completions, so "older than" is an order and no durations appear.       *)
(* created_at is the row's id: rows are inserted in the order of their     *)
(* AUTOINCREMENT ids.                                                      *)
(***************************************************************************)
EXTENDS Integers, FiniteSets

CONSTANTS
  Rids,             \* process nodes, the keys of batch_state
  NoRid,            \* a NULL process_rid or set_process_rid
  Adapters,         \* adapter ids of consumers
  NoAdapter,        \* a NULL claimed_by
  Topics,           \* services; each has a plain queue and a batch twin
  Shapes,           \* which jobs callers publish: queue, process, set process
  AttemptLimits,    \* values of max_attempts (3, or 2 by queue_options)
  ClaimWindow,      \* LIMIT of the query of claim() (50)
  PanelLimit,       \* LIMIT of the query of activeJobs() (200)
  AbortPercent,     \* batchAbortPercent (50)
  AbortConsecutive, \* batchAbortConsecutive (5)
  KeepFailed,       \* keepFailedMinutes > 0: failed rows outlive their batch
  MaxJobs,          \* bound of the model: rows ever inserted
  MaxClaims         \* bound of the model: a lease runs out only below it

ASSUME JobQueueConstants ==
  /\ NoRid \notin Rids
  /\ NoAdapter \notin Adapters
  /\ Shapes \subseteq [kind: {"plain", "batch"}, process: Rids \cup {NoRid},
                        setProcess: Rids \cup {NoRid}]
  /\ AttemptLimits \subseteq Nat \ {0}
  /\ ClaimWindow \in Nat \ {0}
  /\ PanelLimit \in Nat \ {0}
  /\ AbortPercent \in 1..100
  /\ AbortConsecutive \in Nat \ {0}
  /\ KeepFailed \in BOOLEAN
  /\ MaxJobs \in Nat
  /\ MaxClaims \in Nat

VARIABLES
  jobs,        \* the table queue_jobs: a function from the ids of its rows
  lastId,      \* the AUTOINCREMENT counter
  batchState,  \* the table batch_state, "none" where it has no row
  clock        \* counts the calls that completed rows

vars == <<jobs, lastId, batchState, clock>>

Active   == {"queued", "running"}
Terminal == {"done", "failed", "cancelled"}

Job ==
  [ status: Active \cup Terminal,
    queue: Topics \X {"plain", "batch"},
    process: Rids \cup {NoRid},
    setProcess: Rids \cup {NoRid},
    attempts: Nat,
    maxAttempts: Nat,
    claimedBy: Adapters \cup {NoAdapter},
    lease: {"none", "live", "expired"},
    due: BOOLEAN,
    completedAt: Nat ]

Rows == DOMAIN jobs

TypeOK ==
  /\ lastId \in 0..MaxJobs
  /\ Rows \subseteq 1..lastId
  /\ jobs \in [Rows -> Job]
  /\ batchState \in [Rids -> {"none", "paused", "cancelled"}]
  /\ clock \in Nat

Init ==
  /\ jobs = [j \in {} |-> {}]
  /\ lastId = 0
  /\ batchState = [r \in Rids |-> "none"]
  /\ clock = 0

-----------------------------------------------------------------------------
(* Rows and tables.                                                        *)

Delete(table, S) == [j \in DOMAIN table \ S |-> table[j]]

Update(S, Change(_)) ==
  [j \in Rows |-> IF j \in S THEN Change(jobs[j]) ELSE jobs[j]]

\* The n rows of S with the smallest created_at.
Oldest(S, n) == {j \in S : Cardinality({k \in S : k < j}) < n}

\* A row after the statement that ends it and keeps claimed_by ...
Closed(row, status) ==
  [row EXCEPT !.status = status, !.lease = "none", !.completedAt = clock + 1]

\* ... or that clears claimed_by as well.
Released(row, status) == [Closed(row, status) EXCEPT !.claimedBy = NoAdapter]

Refers(row, r) == row.process = r \/ row.setProcess = r

\* Mutant of HasAttemptsLeft: one retry too many.
OneMoreAttempt(row) == row.attempts <= row.maxAttempts

HasAttemptsLeft(row) == row.attempts < row.maxAttempts

ActiveIn(table, r) ==
  {j \in DOMAIN table : table[j].setProcess = r /\ table[j].status \in Active}

hasActiveJobsFor(r) ==
  \E j \in Rows : Refers(jobs[j], r) /\ jobs[j].status \in Active

Recorded(r) == IF r \in Rids THEN batchState[r] ELSE "none"

\* batchState(process_rid, set_process_rid): the process goes first.
StateOf(row) ==
  IF Recorded(row.process) # "none" THEN Recorded(row.process)
                                    ELSE Recorded(row.setProcess)

\* Mutant of drainByProcess: running jobs are deleted too.
DrainActive(table, r) ==
  Delete(table, {j \in DOMAIN table :
                   table[j].status \in Active /\ Refers(table[j], r)})

drainByProcess(table, r) ==
  Delete(table, {j \in DOMAIN table :
                   table[j].status = "queued" /\ Refers(table[j], r)})

\* What age of failed rows the clean-up may find past the retention time.
Cutoffs == IF KeepFailed THEN 0..clock ELSE {clock + 1}

cleanupBatchTerminalRows(table, r, cutoff) ==
  Delete(table, {j \in DOMAIN table :
    /\ table[j].setProcess = r
    /\ \/ table[j].status \in {"done", "cancelled"}
       \/ table[j].status = "failed" /\ table[j].completedAt <= cutoff})

\* cancelBatch() after its first statement, which sets the batch state.
CancelledTable(table, r, cutoff) ==
  LET drained == drainByProcess(table, r)
  IN  IF ActiveIn(drained, r) = {}
      THEN cleanupBatchTerminalRows(drained, r, cutoff)
      ELSE drained

-----------------------------------------------------------------------------
(* Publishing.                                                             *)

publish(t, shape, limit) ==
  /\ lastId < MaxJobs
  /\ lastId' = lastId + 1
  /\ jobs' = [j \in Rows \cup {lastId'} |->
                IF j \in Rows THEN jobs[j]
                ELSE [ status |-> "queued", queue |-> <<t, shape.kind>>,
                       process |-> shape.process,
                       setProcess |-> shape.setProcess, attempts |-> 0,
                       maxAttempts |-> limit, claimedBy |-> NoAdapter,
                       lease |-> "none", due |-> TRUE, completedAt |-> 0 ]]
  /\ UNCHANGED <<batchState, clock>>

-----------------------------------------------------------------------------
(* The consumer side.                                                      *)

\* Mutant of Due: a running job is offered before its lease runs out.
DueUnexpired(q) ==
  {j \in Rows : /\ jobs[j].queue = q
                /\ \/ jobs[j].status = "queued" /\ jobs[j].due
                   \/ jobs[j].status = "running"}

\* The rows the query of claim() can return for a queue.
Due(q) ==
  {j \in Rows :
     /\ jobs[j].queue = q
     /\ \/ jobs[j].status = "queued" /\ jobs[j].due
        \/ jobs[j].status = "running" /\ jobs[j].lease = "expired"}

Candidates(q) == Oldest(Due(q), ClaimWindow)

\* Mutant of Takeable: only cancelled batches are skipped.
TakeablePaused(q) == {j \in Candidates(q) : StateOf(jobs[j]) # "cancelled"}

Takeable(q) == {j \in Candidates(q) : StateOf(jobs[j]) = "none"}

\* Mutant of Passed: cancelled jobs are skipped like paused ones.
PassedNone(q) == {}

\* Candidates of cancelled batches the loop meets before the job it takes.
Passed(q) ==
  {j \in Candidates(q) : /\ StateOf(jobs[j]) = "cancelled"
                         /\ \A k \in Takeable(q) : j < k}

Plain(t) == <<t, "plain">>
Batch(t) == <<t, "batch">>

\* Mutant of Offered: the batch twin first.
OfferedBatchFirst(t) == IF Takeable(Batch(t)) # {} THEN Takeable(Batch(t))
                                                   ELSE Takeable(Plain(t))

\* The plain queue is searched first, its twin when nothing was taken there.
Offered(t) == IF Takeable(Plain(t)) # {} THEN Takeable(Plain(t))
                                         ELSE Takeable(Batch(t))

Finalised(t) ==
  Passed(Plain(t)) \cup IF Takeable(Plain(t)) # {} THEN {} ELSE Passed(Batch(t))

Leased(row, a) ==
  [row EXCEPT !.status = "running", !.claimedBy = a, !.lease = "live",
              !.attempts = @ + 1]

Tick(S) == clock' = IF S = {} THEN clock ELSE clock + 1

claim(t, a, j) ==
  /\ j \in Offered(t)
  /\ \A k \in Offered(t) : j <= k
  /\ jobs' = [i \in Rows |-> IF i = j THEN Leased(jobs[i], a)
                             ELSE IF i \in Finalised(t)
                             THEN Released(jobs[i], "cancelled")
                             ELSE jobs[i]]
  /\ Tick(Finalised(t))
  /\ UNCHANGED <<lastId, batchState>>

\* A claim that returns no job still finalises what it passed.
claimNothing(t) ==
  /\ Offered(t) = {}
  /\ Finalised(t) # {}
  /\ jobs' = Update(Finalised(t), LAMBDA row : Released(row, "cancelled"))
  /\ Tick(Finalised(t))
  /\ UNCHANGED <<lastId, batchState>>

\* The WHERE clause of heartbeat, complete and fail.
OwnedBy(j, a) ==
  j \in Rows /\ jobs[j].status = "running" /\ jobs[j].claimedBy = a

heartbeat(j, a) ==
  /\ OwnedBy(j, a)
  /\ jobs' = [jobs EXCEPT ![j].lease = "live"]
  /\ UNCHANGED <<lastId, batchState, clock>>

complete(j, a) ==
  LET b    == jobs[j].setProcess
      done == [jobs EXCEPT ![j] = Closed(jobs[j], "done")]
  IN  /\ OwnedBy(j, a)
      /\ \/ /\ b = NoRid
            /\ jobs' = Delete(jobs, {j})
         \/ /\ b # NoRid
            /\ ActiveIn(done, b) # {}
            /\ jobs' = done
         \/ /\ b # NoRid
            /\ ActiveIn(done, b) = {}
            /\ \E cutoff \in Cutoffs :
                 jobs' = cleanupBatchTerminalRows(done, b, cutoff)
      /\ clock' = clock + 1
      /\ UNCHANGED <<lastId, batchState>>

\* The two conditions of checkBatchAutoAbort.
FailureThreshold(table, b) ==
  LET ended(S) == {j \in DOMAIN table :
                     table[j].setProcess = b /\ table[j].status \in S}
  IN  Cardinality(ended({"failed"})) * 100
        >= AbortPercent * Cardinality(ended(Terminal))

ConsecutiveFailures(table, b) ==
  LET ended  == {j \in DOMAIN table : /\ table[j].setProcess = b
                                      /\ table[j].status \in {"done", "failed"}}
      recent == {j \in ended :
                   Cardinality({k \in ended : table[k].completedAt
                                                > table[j].completedAt})
                     < AbortConsecutive}
  IN  /\ Cardinality(ended) >= AbortConsecutive
      /\ \A j \in recent : table[j].status = "failed"

checkBatchAutoAbort(table, b) ==
  FailureThreshold(table, b) \/ ConsecutiveFailures(table, b)

\* fail() when the batch of the job was cancelled: no retry.
failCancelled(j, a) ==
  /\ OwnedBy(j, a)
  /\ StateOf(jobs[j]) = "cancelled"
  /\ jobs' = [jobs EXCEPT ![j] = Released(@, "cancelled")]
  /\ clock' = clock + 1
  /\ UNCHANGED <<lastId, batchState>>

\* fail() with attempts left: back to the queue, after a backoff.
failRetry(j, a) ==
  /\ OwnedBy(j, a)
  /\ StateOf(jobs[j]) # "cancelled"
  /\ HasAttemptsLeft(jobs[j])
  /\ jobs' = [jobs EXCEPT ![j] = [@ EXCEPT !.status = "queued",
                                           !.lease = "none",
                                           !.claimedBy = NoAdapter,
                                           !.due = FALSE]]
  /\ UNCHANGED <<lastId, batchState, clock>>

FailsForGood(j, a) ==
  /\ OwnedBy(j, a)
  /\ StateOf(jobs[j]) # "cancelled"
  /\ ~HasAttemptsLeft(jobs[j])

FailedTable(j) == [jobs EXCEPT ![j] = Released(@, "failed")]

\* fail() with no attempt left, and the batch may be aborted with it.
failForGood(j, a) ==
  LET b == jobs[j].setProcess
  IN  /\ FailsForGood(j, a)
      /\ \/ /\ b = NoRid \/ ~checkBatchAutoAbort(FailedTable(j), b)
            /\ jobs' = FailedTable(j)
            /\ UNCHANGED batchState
         \/ /\ b # NoRid
            /\ checkBatchAutoAbort(FailedTable(j), b)
            /\ batchState' = [batchState EXCEPT ![b] = "cancelled"]
            /\ \E cutoff \in Cutoffs :
                 jobs' = CancelledTable(FailedTable(j), b, cutoff)
      /\ clock' = clock + 1
      /\ UNCHANGED lastId

fail(j, a) == failCancelled(j, a) \/ failRetry(j, a) \/ failForGood(j, a)

-----------------------------------------------------------------------------
(* Batch control, the jobs panel and the sweeper.                          *)

pauseBatch(r) ==
  /\ batchState' = [batchState EXCEPT ![r] = "paused"]
  /\ jobs' = drainByProcess(jobs, r)
  /\ UNCHANGED <<lastId, clock>>

resumeBatch(r) ==
  /\ batchState[r] # "none"
  /\ batchState' = [batchState EXCEPT ![r] = "none"]
  /\ UNCHANGED <<jobs, lastId, clock>>

cancelBatch(r) ==
  /\ batchState' = [batchState EXCEPT ![r] = "cancelled"]
  /\ \E cutoff \in Cutoffs : jobs' = CancelledTable(jobs, r, cutoff)
  /\ UNCHANGED <<lastId, clock>>

\* Mutant of CancelRows: the UPDATE without its status condition.
CancelRowsAny(S) ==
  /\ S # {}
  /\ jobs' = Update(S, LAMBDA row : Closed(row, "cancelled"))
  /\ Tick(S)
  /\ UNCHANGED <<lastId, batchState>>

\* cancelJob and dismiss: the UPDATE is restricted to active rows.
CancelRows(S) ==
  LET hit == {j \in S : jobs[j].status \in Active}
  IN  /\ hit # {}
      /\ jobs' = Update(hit, LAMBDA row : Closed(row, "cancelled"))
      /\ Tick(hit)
      /\ UNCHANGED <<lastId, batchState>>

cancelJob(j) == j \in Rows /\ CancelRows({j})

dismiss(r) == CancelRows({j \in Rows : Refers(jobs[j], r)})

flush(t) ==
  LET hit == {j \in Rows : jobs[j].queue \in {Plain(t), Batch(t)}}
  IN  /\ hit # {}
      /\ jobs' = Delete(jobs, hit)
      /\ UNCHANGED <<lastId, batchState, clock>>

\* Listing the active jobs finalises those of cancelled batches.
activeJobs ==
  LET listed == Oldest({j \in Rows : jobs[j].status \in Active}, PanelLimit)
      hit    == {j \in listed : StateOf(jobs[j]) = "cancelled"}
  IN  /\ hit # {}
      /\ jobs' = Update(hit, LAMBDA row : Released(row, "cancelled"))
      /\ Tick(hit)
      /\ UNCHANGED <<lastId, batchState>>

\* Mutant of Unreferenced: batch states are swept by age alone.
AlwaysUnreferenced(r, kept) == TRUE

\* SELECT DISTINCT set_process_rid: no other column is looked at.
Unreferenced(r, kept) == \A j \in kept : jobs[j].setProcess # r

\* Rows past their retention time, and batch states a week old that no row
\* names as its set process.
sweepOnce(cutoff, cutoffFailed, forgotten) ==
  LET swept == {j \in Rows :
                  \/ /\ jobs[j].status \in {"done", "cancelled"}
                     /\ jobs[j].completedAt <= cutoff
                  \/ /\ jobs[j].status = "failed"
                     /\ KeepFailed
                     /\ jobs[j].completedAt <= cutoffFailed}
  IN  /\ swept # {} \/ forgotten # {}
      /\ \A r \in forgotten :
           /\ batchState[r] # "none"
           /\ Unreferenced(r, Rows \ swept)
      /\ jobs' = Delete(jobs, swept)
      /\ batchState' = [r \in Rids |-> IF r \in forgotten THEN "none"
                                                          ELSE batchState[r]]
      /\ UNCHANGED <<lastId, clock>>

-----------------------------------------------------------------------------
(* The process dies between two statements of a method.                    *)

\* pauseBatch: the state is set, nothing drained.
pauseBatchCut(r) ==
  /\ batchState' = [batchState EXCEPT ![r] = "paused"]
  /\ UNCHANGED <<jobs, lastId, clock>>

\* cancelBatch: before the drain, or before the clean-up.
cancelBatchCut(r) ==
  /\ batchState' = [batchState EXCEPT ![r] = "cancelled"]
  /\ jobs' \in {jobs, drainByProcess(jobs, r)}
  /\ UNCHANGED <<lastId, clock>>

\* complete: the row is done and stays.
completeCut(j, a) ==
  /\ OwnedBy(j, a)
  /\ jobs' = [jobs EXCEPT ![j] = Closed(@, "done")]
  /\ clock' = clock + 1
  /\ UNCHANGED <<lastId, batchState>>

\* fail: the row is failed, and the abort of its batch not begun, or not
\* carried further than the first or the second statement of cancelBatch.
failForGoodCut(j, a) ==
  LET b == jobs[j].setProcess
  IN  /\ FailsForGood(j, a)
      /\ \/ jobs' = FailedTable(j) /\ UNCHANGED batchState
         \/ /\ b # NoRid
            /\ checkBatchAutoAbort(FailedTable(j), b)
            /\ batchState' = [batchState EXCEPT ![b] = "cancelled"]
            /\ jobs' \in {FailedTable(j), drainByProcess(FailedTable(j), b)}
      /\ clock' = clock + 1
      /\ UNCHANGED lastId

-----------------------------------------------------------------------------
(* Time passes.                                                            *)

LeaseExpires(j) ==
  /\ j \in Rows
  /\ jobs[j].status = "running" /\ jobs[j].lease = "live"
  /\ jobs[j].attempts < MaxClaims
  /\ jobs' = [jobs EXCEPT ![j].lease = "expired"]
  /\ UNCHANGED <<lastId, batchState, clock>>

BackoffElapses(j) ==
  /\ j \in Rows
  /\ jobs[j].status = "queued" /\ ~jobs[j].due
  /\ jobs' = [jobs EXCEPT ![j].due = TRUE]
  /\ UNCHANGED <<lastId, batchState, clock>>

-----------------------------------------------------------------------------

Publish ==
  \E t \in Topics, shape \in Shapes, limit \in AttemptLimits :
    publish(t, shape, limit)

Claim(t) == claimNothing(t) \/ \E a \in Adapters, j \in Rows : claim(t, a, j)

Report(j) == \E a \in Adapters : complete(j, a) \/ fail(j, a)

Control(r) == pauseBatch(r) \/ resumeBatch(r) \/ cancelBatch(r) \/ dismiss(r)

Sweep == \E c1, c2 \in 0..clock, S \in SUBSET Rids : sweepOnce(c1, c2, S)

Crash ==
  \/ \E r \in Rids : pauseBatchCut(r) \/ cancelBatchCut(r)
  \/ \E j \in Rows, a \in Adapters : completeCut(j, a) \/ failForGoodCut(j, a)

\* The steps of a backend that keeps running.
RunNext ==
  \/ Publish
  \/ \E t \in Topics : Claim(t) \/ flush(t)
  \/ \E j \in Rows : Report(j) \/ cancelJob(j)
  \/ \E j \in Rows, a \in Adapters : heartbeat(j, a)
  \/ \E r \in Rids : Control(r)
  \/ activeJobs
  \/ Sweep
  \/ \E j \in Rows : LeaseExpires(j) \/ BackoffElapses(j)

Next == RunNext \/ Crash

Spec == Init /\ [][Next]_vars

\* Consumers poll their topic for ever; one that holds a job reports on it,
\* or its lease runs out and another one does; a backoff ends.  Users, the
\* sweeper and crashes owe nothing.
Fairness ==
  /\ \A t \in Topics : WF_vars(Claim(t))
  /\ \A j \in 1..MaxJobs : WF_vars(j \in Rows /\ Report(j))
  /\ \A j \in 1..MaxJobs : WF_vars(BackoffElapses(j))

FairSpec == Spec /\ Fairness

\* Without crashes.
RunSpec == Init /\ [][RunNext]_vars

-----------------------------------------------------------------------------
(* Properties.                                                             *)

\* The columns of a row agree: only a running job has a lease and it has a
\* holder; a waiting job has neither; completed_at marks the ended ones.
\* (Six statements of queue.ts write these columns, each by itself.)
RowsConsistent ==
  \A j \in Rows :
    LET row == jobs[j]
    IN  /\ row.status = "running" <=> row.lease # "none"
        /\ row.status = "running" => row.claimedBy # NoAdapter
        /\ row.status = "queued" => row.claimedBy = NoAdapter
        /\ row.status \in Terminal <=> row.completedAt > 0

\* A job that waits has attempts left and a job that failed had none: the
\* retry decision of fail() is right however claims, lapsed leases and
\* reports interleaved before it.
RetryBudget ==
  \A j \in Rows :
    /\ jobs[j].status = "queued" => jobs[j].attempts < jobs[j].maxAttempts
    /\ jobs[j].status = "failed" => jobs[j].attempts >= jobs[j].maxAttempts

\* No job starts while its batch is paused or cancelled, also when the job
\* came back to the queue or was published after the stop, and also when the
\* process died before the queued jobs of the batch were deleted.
StoppedNeverStarts ==
  [][\A j \in Rows \cap Rows' :
       StateOf(jobs[j]) # "none" => jobs'[j].attempts = jobs[j].attempts]_vars

\* The stop of a batch is only lifted by a resume as long as the tables hold a
\* job of the batch: neither the sweeper, a retry, another batch nor a stop
\* that was cut short loses it.
StopsOutlastJobs ==
  [][\A r \in Rids :
       batchState[r] # "none" /\ batchState'[r] = "none"
         => resumeBatch(r) \/ \A j \in Rows' : jobs'[j].setProcess # r]_vars

\* An ended job never becomes anything else and a deleted id never returns,
\* so a late complete, fail, cancel or dismiss finds nothing to change.
EndedStaysEnded ==
  [][\A j \in 1..lastId :
       /\ j \notin Rows => j \notin Rows'
       /\ j \in Rows \cap Rows' /\ jobs[j].status \in Terminal
            => jobs'[j] = jobs[j]]_vars

\* Pausing or cancelling a batch, cut short or not, leaves the jobs that are
\* being processed with their consumers ("Deletes queued (not running)
\* jobs"): the consumer's complete still finds the row.
ControlSparesRunning ==
  [][\A r \in Rids, j \in Rows :
       jobs[j].status = "running"
         /\ (\/ pauseBatch(r) \/ pauseBatchCut(r)
             \/ cancelBatch(r) \/ cancelBatchCut(r))
       => j \in Rows' /\ jobs'[j] = jobs[j]]_vars

\* A due job of a batch that is not stopped.
Startable(j) == j \in Due(jobs[j].queue) /\ StateOf(jobs[j]) = "none"

\* The order of one topic: the older job of a queue, and the plain queue
\* before its twin as far as the query of claim() looks.
GoesBefore(i, j) ==
  \/ jobs[i].queue = jobs[j].queue /\ i < j
  \/ /\ jobs[i].queue[1] = jobs[j].queue[1]
     /\ jobs[i].queue[2] = "plain" /\ jobs[j].queue[2] = "batch"
     /\ i \in Candidates(jobs[i].queue)

\* "Consumers claim from both, plain queue first", the oldest due job first:
\* a claim never prefers a job to a startable one that goes before it.
ClaimsInOrder ==
  [][\A j \in Rows \cap Rows' :
       jobs'[j].attempts > jobs[j].attempts
         => ~\E i \in Rows : Startable(i) /\ GoesBefore(i, j)]_vars

\* Every job ends, is deleted or has its batch paused, as long as consumers
\* poll and report: no lapse, retry, cancellation or crash strands it.
EventuallySettled ==
  \A j \in 1..MaxJobs :
    (j \in Rows /\ jobs[j].status \in Active)
      ~> (j \notin Rows \/ jobs[j].status \in Terminal
                        \/ StateOf(jobs[j]) = "paused")

\* The queue implements the abstract work queue.
Stage(j) ==
  IF j > lastId THEN "unborn"
  ELSE IF j \notin Rows THEN "gone"
  ELSE CASE jobs[j].status = "queued"  -> "waiting"
         [] jobs[j].status = "running" -> "held"
         [] OTHER                      -> "closed"

Abstract ==
  INSTANCE WorkQueue WITH
    Jobs    <- 1..MaxJobs,
    Workers <- Adapters,
    Nobody  <- NoAdapter,
    stage   <- [j \in 1..MaxJobs |-> Stage(j)],
    holder  <- [j \in 1..MaxJobs |-> IF Stage(j) = "held"
                                     THEN jobs[j].claimedBy ELSE NoAdapter],
    lapsed  <- {j \in Rows : jobs[j].lease = "expired"},
    stopped <- {j \in Rows : StateOf(jobs[j]) # "none"}

\* What consumers and users may rely on: one holder per job, changed only
\* after its lease ran out; no start in a stopped batch; ended is ended.
ImplementsWorkQueue == Abstract!Spec

\* The tables hold together: their types, the columns of each row, and the
\* attempts of each job (queue.ts:71-113, 236-285, 365-370).
QueueInv == TypeOK /\ RowsConsistent /\ RetryBudget
=============================================================================
