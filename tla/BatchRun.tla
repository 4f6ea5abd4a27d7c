------------------------------ MODULE BatchRun ------------------------------
(***************************************************************************)
(* One set-to-set batch from its first dispatch to its end: the job queue, *)
(* the SetProcess node with its status and counters, the background        *)
(* dispatchers, the pause, resume and cancel requests, the claim route     *)
(* with its token check, and the results the consumers post.               *)
(*                                                                         *)
(* Handlers are async.  A step is the code between two awaits, so the      *)
(* requests, dispatchers and callbacks of a batch interleave here as they  *)
(* do in the event loop.  batches.update is one step: it reads the node    *)
(* only to see that it exists.                                             *)
(*                                                                         *)
(* Consumers are not in this repository.  An adapter works on one job at a *)
(* time: it posts the result of the job, or an error, waits for the        *)
(* answer, and completes the job or fails it.                              *)
(***************************************************************************)
EXTENDS JobQueue, Sequences

CONSTANTS
  batch,        \* the SetProcess node of the run
  topic,        \* the service it runs on
  Total,        \* total_files: the inputs are 1..Total, as the set lists them
  Missing,      \* inputs whose metadata is gone when their turn comes
  Budget,       \* may the service group of the run be out of tokens?
  Requests,     \* bound of the model: the requests users send, each once
  Asked,        \* which kinds of requests they send
  First,        \* the dispatcher started by queueSet
  MaxFailures,  \* bound of the model: attempts that fail
  MaxCrashes    \* bound of the model: restarts of the backend

Inputs == 1..Total

\* A resume request starts a dispatcher of its own.
Dispatchers == Requests \cup {First}

ASSUME BatchConstants ==
  /\ batch \in Rids /\ topic \in Topics
  /\ Total \in Nat \ {0}
  /\ Missing \subseteq Inputs
  /\ Budget \in BOOLEAN
  /\ Asked \subseteq {"pause", "resume", "cancel"}
  /\ First \notin Requests
  /\ MaxFailures \in Nat /\ MaxCrashes \in Nat

VARIABLES
  node,      \* status and counters of the SetProcess node
  edges,     \* inputs with a DERIVED_FROM edge that names the batch
  payload,   \* the input in the payload of each job ever published
  dispatch,  \* the dispatchers: what is left of their file list
  request,   \* where each request is, and the files a resume listed
  work,      \* per adapter, its job and how far its current call is
  spent,     \* the counters of the bounds
  cut,       \* history: a restart cut a dispatch or a request short
  disturbed  \* history: a cancel was asked for, a job failed for good,
             \* or the tokens ran out

bvars == <<node, edges, payload, dispatch, request, work, spent, cut, disturbed>>

Stopped == {"paused", "cancelling", "cancelled", "done"}

NoJob == [job |-> 0, at |-> "idle"]
Ended == [todo |-> {}, checked |-> FALSE]

\* The steps of a request between its first await and its answer.
Pending == {"pauseQueue", "cancelQueue", "cancelLast", "resumeQueue",
            "resumeMark", "resumeSelect", "resumeStart", "resumeLast"}

\* The steps of an adapter at which the backend is busy with its call.
InBackend == {"budget", "pausing", "creating", "created", "counting",
              "finishing", "erring", "aborting"}

BatchTypeOK ==
  /\ TypeOK
  /\ node \in [status: Stopped \cup {"running", "resuming"},
               processed: Nat, failed: Nat]
  /\ edges \subseteq Inputs
  /\ payload \in Seq(Inputs) /\ Len(payload) = lastId
  /\ dispatch \in [Dispatchers -> [todo: SUBSET Inputs, checked: BOOLEAN]]
  /\ request \in [Requests -> [at: Pending \cup {"new", "over"},
                               files: SUBSET Inputs]]
  /\ work \in [Adapters -> [job: 0..lastId,
                  at: {"idle", "claimed", "answered", "erred"} \cup InBackend]]
  /\ spent \in [failures: 0..MaxFailures, crashes: 0..MaxCrashes]
  /\ cut \in BOOLEAN
  /\ disturbed \in BOOLEAN

\* queueSet has created the node, initialised it and answered; its dispatch
\* runs in the background.
BatchInit ==
  /\ Init
  /\ node = [status |-> "running", processed |-> 0, failed |-> 0]
  /\ edges = {}
  /\ payload = <<>>
  /\ dispatch = [d \in Dispatchers |->
                   IF d = First THEN [todo |-> Inputs, checked |-> FALSE]
                                ELSE Ended]
  /\ request = [r \in Requests |-> [at |-> "new", files |-> {}]]
  /\ work = [a \in Adapters |-> NoJob]
  /\ spent = [failures |-> 0, crashes |-> 0]
  /\ cut = FALSE
  /\ disturbed = FALSE

SetStatus(s) == node' = [node EXCEPT !.status = s]

-----------------------------------------------------------------------------
(* dispatchBatchFiles: for each file, check the status, then publish.      *)

Shape == [kind |-> "batch", process |-> batch, setProcess |-> batch]

NextFile(d) == CHOOSE f \in dispatch[d].todo : \A g \in dispatch[d].todo : f <= g

\* Mutant of dispatchCheck: a vanished file ends the loop.
dispatchCheckBreaks(d) ==
  /\ dispatch[d].todo # {} /\ ~dispatch[d].checked
  /\ dispatch' = [dispatch EXCEPT ![d] =
       IF NextFile(d) \in Missing \/ node.status \in Stopped THEN Ended
       ELSE [todo |-> @.todo, checked |-> TRUE]]
  /\ UNCHANGED <<vars, node, edges, payload, request, work, spent, cut, disturbed>>

dispatchCheck(d) ==
  /\ dispatch[d].todo # {} /\ ~dispatch[d].checked
  /\ dispatch' = [dispatch EXCEPT ![d] =
       IF NextFile(d) \in Missing
       THEN [todo |-> @.todo \ {NextFile(d)}, checked |-> FALSE]
       ELSE IF node.status \in Stopped THEN Ended
       ELSE [todo |-> @.todo, checked |-> TRUE]]
  /\ UNCHANGED <<vars, node, edges, payload, request, work, spent, cut, disturbed>>

dispatchPublish(d) ==
  /\ dispatch[d].checked
  /\ \E limit \in AttemptLimits : publish(topic, Shape, limit)
  /\ payload' = Append(payload, NextFile(d))
  /\ dispatch' = [dispatch EXCEPT ![d] =
                    [todo |-> @.todo \ {NextFile(d)}, checked |-> FALSE]]
  /\ UNCHANGED <<node, edges, request, work, spent, cut, disturbed>>

dispatchBatchFiles(d) == dispatchCheck(d) \/ dispatchPublish(d)

-----------------------------------------------------------------------------
(* The pause, resume and cancel routes.                                    *)

Ask(r, kind) == kind \in Asked /\ request[r].at = "new"

Goto(r, at) == request' = [request EXCEPT ![r] = [at |-> at, files |-> {}]]

AtStep(r, at, next) == request[r].at = at /\ Goto(r, next)

\* Mutant of pauseNode: the queue is never told.
pauseNodeOnly(r) ==
  /\ Ask(r, "pause") /\ Goto(r, "over")
  /\ SetStatus("paused")
  /\ UNCHANGED <<vars, edges, payload, dispatch, work, spent, cut, disturbed>>

\* pause: the node first, then the queue.
pauseNode(r) ==
  /\ Ask(r, "pause") /\ Goto(r, "pauseQueue")
  /\ SetStatus("paused")
  /\ UNCHANGED <<vars, edges, payload, dispatch, work, spent, cut, disturbed>>

pauseQueue(r) ==
  /\ AtStep(r, "pauseQueue", "over")
  /\ pauseBatch(batch)
  /\ UNCHANGED <<node, edges, payload, dispatch, work, spent, cut, disturbed>>

\* cancel: the node, the queue, the node again.
cancelNode(r) ==
  /\ Ask(r, "cancel") /\ Goto(r, "cancelQueue")
  /\ SetStatus("cancelling")
  /\ disturbed' = TRUE
  /\ UNCHANGED <<vars, edges, payload, dispatch, work, spent, cut>>

cancelQueue(r) ==
  /\ AtStep(r, "cancelQueue", "cancelLast")
  /\ cancelBatch(batch)
  /\ UNCHANGED <<node, edges, payload, dispatch, work, spent, cut, disturbed>>

cancelLast(r) ==
  /\ AtStep(r, "cancelLast", "over")
  /\ SetStatus("cancelled")
  /\ UNCHANGED <<vars, edges, payload, dispatch, work, spent, cut, disturbed>>

\* resume: refused unless the batch is paused and has tokens; then ...
resumeCheck(r) ==
  /\ Ask(r, "resume")
  /\ node.status = "paused" /\ Goto(r, "resumeQueue")
  /\ UNCHANGED <<vars, node, edges, payload, dispatch, work, spent, cut, disturbed>>

\* ... the queue hands out jobs again (the DELETE may find no row) ...
resumeQueue(r) ==
  /\ AtStep(r, "resumeQueue", "resumeMark")
  /\ \/ resumeBatch(batch)
     \/ batchState[batch] = "none" /\ UNCHANGED vars
  /\ UNCHANGED <<node, edges, payload, dispatch, work, spent, cut, disturbed>>

resumeMark(r) ==
  /\ AtStep(r, "resumeMark", "resumeSelect")
  /\ SetStatus("resuming")
  /\ UNCHANGED <<vars, edges, payload, dispatch, work, spent, cut, disturbed>>

\* Mutant of Undone: the files behind those already counted.
UndoneByCount == {f \in Inputs : f > node.processed}

\* processedInputs: an input counts as done when an edge names the batch.
Undone == Inputs \ edges

\* ... the files without an output are listed (unless the tokens ran out in
\* the meantime, which ends the request with an error) ...
resumeSelect(r) ==
  /\ request[r].at = "resumeSelect"
  /\ \/ /\ request' = [request EXCEPT ![r] = [at |-> "resumeStart", files |-> Undone]]
        /\ UNCHANGED disturbed
     \/ Budget /\ Goto(r, "over") /\ disturbed' = TRUE
  /\ UNCHANGED <<vars, node, edges, payload, dispatch, work, spent, cut>>

\* ... and dispatched in the background unless the status changed ...
resumeStart(r) ==
  /\ request[r].at = "resumeStart"
  /\ \/ /\ node.status \in {"resuming", "running"}
        /\ Goto(r, "resumeLast")
        /\ dispatch' = [dispatch EXCEPT ![r].todo = request[r].files]
     \/ /\ node.status \notin {"resuming", "running"}
        /\ Goto(r, "over")
        /\ UNCHANGED dispatch
  /\ UNCHANGED <<vars, node, edges, payload, work, spent, cut, disturbed>>

\* ... while the request marks the batch running.
resumeLast(r) ==
  /\ AtStep(r, "resumeLast", "over")
  /\ SetStatus("running")
  /\ UNCHANGED <<vars, edges, payload, dispatch, work, spent, cut, disturbed>>

PauseRequest(r)  == pauseNode(r) \/ pauseQueue(r)
CancelRequest(r) == cancelNode(r) \/ cancelQueue(r) \/ cancelLast(r)
ResumeRequest(r) == \/ resumeCheck(r) \/ resumeQueue(r) \/ resumeMark(r)
                    \/ resumeSelect(r) \/ resumeStart(r) \/ resumeLast(r)

-----------------------------------------------------------------------------
(* The claim route: a job is claimed, then the tokens are checked.         *)

Move(a, at) == work' = [work EXCEPT ![a].at = at]

Step(a, at, next) == work[a].at = at /\ Move(a, next)

Finish(a) == work' = [work EXCEPT ![a] = NoJob]

claimRoute(a) ==
  /\ work[a].at = "idle"
  /\ \/ \E j \in Rows :
          /\ claim(topic, a, j)
          /\ work' = [work EXCEPT ![a] =
                        [job |-> j, at |-> IF Budget THEN "budget" ELSE "claimed"]]
     \/ claimNothing(topic) /\ UNCHANGED work
  /\ UNCHANGED <<node, edges, payload, dispatch, request, spent, cut, disturbed>>

withinBudget(a) ==
  /\ Step(a, "budget", "claimed")
  /\ UNCHANGED <<vars, node, edges, payload, dispatch, request, spent, cut, disturbed>>

\* Out of tokens: cancelJob on the claimed row and, in the same turn, the
\* pauseBatch of stopOverBudget ...
overBudget(a) ==
  LET j      == work[a].job
      marked == IF j \in Rows /\ jobs[j].status \in Active
                THEN Update({j}, LAMBDA row : Closed(row, "cancelled")) ELSE jobs
  IN  /\ Step(a, "budget", "pausing")
      /\ batchState' = [batchState EXCEPT ![batch] = "paused"]
      /\ jobs' = drainByProcess(marked, batch)
      /\ clock' = clock + 1
      /\ disturbed' = TRUE
      /\ UNCHANGED lastId
      /\ UNCHANGED <<node, edges, payload, dispatch, request, spent, cut>>

\* ... then the node.
stopOverBudget(a) ==
  /\ work[a].at = "pausing" /\ Finish(a)
  /\ SetStatus("paused")
  /\ UNCHANGED <<vars, edges, payload, dispatch, request, spent, cut, disturbed>>

ClaimRequest(a) ==
  claimRoute(a) \/ withinBudget(a) \/ overBudget(a) \/ stopOverBudget(a)

-----------------------------------------------------------------------------
(* The callbacks of results.ts, and the report on the job.                 *)

Input(a) == payload[work[a].job]

\* handleOutput and notifyOutput look at the status of the batch: the rest
\* of the callback is skipped when it is stopped.
Answer(next) == IF node.status \in Stopped THEN "answered" ELSE next

resultCheck(a) ==
  /\ Step(a, "claimed", Answer("creating"))
  /\ UNCHANGED <<vars, node, edges, payload, dispatch, request, spent, cut, disturbed>>

createProcessFile(a) ==
  /\ Step(a, "creating", "created")
  /\ edges' = edges \cup {Input(a)}
  /\ UNCHANGED <<vars, node, payload, dispatch, request, spent, cut, disturbed>>

notifyOutput(a) ==
  /\ Step(a, "created", Answer("counting"))
  /\ UNCHANGED <<vars, node, edges, payload, dispatch, request, spent, cut, disturbed>>

\* Mutants of AllProcessed: done with one input left; never done.
OneLeft(n) == n + 1 >= Total
OnePast(n) == n > Total

AllProcessed(n) == n >= Total

\* The counter is incremented by the database, ...
incrementProcessed(a) ==
  /\ node' = [node EXCEPT !.processed = @ + 1]
  /\ Step(a, "counting",
          IF AllProcessed(node'.processed) THEN "finishing" ELSE "answered")
  /\ UNCHANGED <<vars, edges, payload, dispatch, request, spent, cut, disturbed>>

\* ... and the status is written by another statement.
finishBatch(a) ==
  /\ Step(a, "finishing", "answered")
  /\ SetStatus("done")
  /\ UNCHANGED <<vars, edges, payload, dispatch, request, spent, cut, disturbed>>

Fails == /\ spent.failures < MaxFailures
         /\ spent' = [spent EXCEPT !.failures = @ + 1]

\* The consumer posts an error: the failure is counted, ...
incrementFailed(a) ==
  /\ Fails
  /\ Step(a, "claimed", "erring")
  /\ node' = [node EXCEPT !.failed = @ + 1]
  /\ UNCHANGED <<vars, edges, payload, dispatch, request, cut, disturbed>>

\* ... and the error node becomes an output of the input.
createErrorNode(a) ==
  /\ Step(a, "erring", "erred")
  /\ edges' = edges \cup {Input(a)}
  /\ UNCHANGED <<vars, node, payload, dispatch, request, spent, cut, disturbed>>

\* Most adapters complete the job, also when they posted an error.
completeJob(a) ==
  /\ work[a].at \in {"answered", "erred"} /\ Finish(a)
  /\ \/ complete(work[a].job, a)
     \/ ~OwnedBy(work[a].job, a) /\ UNCHANGED vars
  /\ UNCHANGED <<node, edges, payload, dispatch, request, spent, cut, disturbed>>

\* The others fail it, with or without an error posted before.  A failure
\* that aborts the batch cancels the node in a step of its own.
failJob(a) ==
  LET j == work[a].job
  IN  /\ \/ work[a].at = "erred" /\ UNCHANGED spent
         \/ work[a].at = "claimed" /\ Fails
      /\ \/ /\ fail(j, a)
            /\ work' = [work EXCEPT ![a] =
                  IF batchState' # batchState THEN [@ EXCEPT !.at = "aborting"]
                                              ELSE NoJob]
            /\ disturbed' = (disturbed \/ FailsForGood(j, a))
         \/ ~OwnedBy(j, a) /\ Finish(a) /\ UNCHANGED <<vars, disturbed>>
      /\ UNCHANGED <<node, edges, payload, dispatch, request, cut>>

markAborted(a) ==
  /\ work[a].at = "aborting" /\ Finish(a)
  /\ SetStatus("cancelled")
  /\ UNCHANGED <<vars, edges, payload, dispatch, request, spent, cut, disturbed>>

Result(a) == \/ resultCheck(a) \/ createProcessFile(a) \/ notifyOutput(a)
             \/ incrementProcessed(a) \/ finishBatch(a)
             \/ incrementFailed(a) \/ createErrorNode(a)
             \/ completeJob(a) \/ failJob(a) \/ markAborted(a)

-----------------------------------------------------------------------------
(* Time, and restarts.                                                     *)

Passes ==
  /\ \E j \in Rows : LeaseExpires(j) \/ BackoffElapses(j)
  /\ UNCHANGED bvars

\* Only the tables and the graph outlive the backend.  A call it was busy
\* with fails at the consumer, which leaves the job to its lease.
restart ==
  /\ spent.crashes < MaxCrashes
  /\ spent' = [spent EXCEPT !.crashes = @ + 1]
  /\ dispatch' = [d \in Dispatchers |-> Ended]
  /\ request' = [r \in Requests |->
                   IF request[r].at \in Pending THEN [at |-> "over", files |-> {}]
                                                ELSE request[r]]
  /\ work' = [a \in Adapters |->
                IF work[a].at \in InBackend THEN NoJob ELSE work[a]]
  /\ cut' = (cut \/ dispatch' # dispatch \/ request' # request)
  /\ UNCHANGED <<vars, node, edges, payload, disturbed>>

-----------------------------------------------------------------------------

BatchNext ==
  \/ \E d \in Dispatchers : dispatchBatchFiles(d)
  \/ \E r \in Requests : PauseRequest(r) \/ ResumeRequest(r) \/ CancelRequest(r)
  \/ \E a \in Adapters : ClaimRequest(a) \/ Result(a)
  \/ Passes
  \/ restart

BatchSpec == BatchInit /\ [][BatchNext]_<<vars, bvars>>

\* A background dispatch and the calls of a consumer go on by themselves.
BatchFairness ==
  /\ \A d \in Dispatchers : WF_<<vars, bvars>>(dispatchBatchFiles(d))
  /\ \A a \in Adapters : WF_<<vars, bvars>>(ClaimRequest(a) \/ Result(a))

FairBatchSpec == BatchSpec /\ BatchFairness

-----------------------------------------------------------------------------
(* Properties.                                                             *)

\* No dispatch or request is under way, and none was cut short.
Settled ==
  /\ ~cut
  /\ \A d \in Dispatchers : dispatch[d] = Ended
  /\ \A r \in Requests : request[r].at \notin Pending

Waiting(f) == \E j \in Rows : payload[j] = f /\ jobs[j].status \in Active

\* Pausing and resuming at any moment forgets no input: while the batch runs
\* and its dispatch is over, an input has an output (or an error node), has a
\* job, or had vanished when its turn came.  Not promised once a cancel, an
\* abort or a token stop may have crossed a resume, nor once as many results
\* as inputs were counted.
NoInputForgotten ==
  /\ Settled
  /\ node.status = "running" /\ batchState[batch] = "none"
  /\ ~disturbed /\ ~AllProcessed(node.processed)
  => \A f \in Inputs : f \in edges \cup Missing \/ Waiting(f)

\* A batch that shows as paused gets no job from the queue, once no request
\* is under way (a token stop aside, which may cross a resume): the two places
\* are written by separate steps.
PausedMeansStopped ==
  Settled /\ ~disturbed /\ node.status = "paused" => batchState[batch] # "none"

\* Undisturbed, a batch that shows as done has an output of every input that
\* was there.
DoneMeansAllProcessed ==
  node.status = "done" => Inputs \ Missing \subseteq edges

\* Undisturbed, a batch ends.
EventuallyDone == <>[](node.status = "done")

-----------------------------------------------------------------------------
(* What the documentation says and the code does not do.                   *)

\* The batch holds together: its types, its inputs, its stops.
BatchIsSafe == BatchTypeOK /\ NoInputForgotten /\ PausedMeansStopped
=============================================================================
