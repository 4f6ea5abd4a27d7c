--------------------------- MODULE BatchRunProofs ---------------------------
(***************************************************************************)
(* Proofs about BatchRun, for every value of its constants: any number of  *)
(* inputs, consumers, requests, failures and restarts.                     *)
(***************************************************************************)
EXTENDS BatchRun, JobQueueProofs, WellFoundedInduction, TLAPS

Statuses     == Stopped \cup {"running", "resuming"}
RequestSteps == Pending \cup {"new", "over"}

NodeType    == [status: Statuses, processed: Nat, failed: Nat]
RequestType == [Requests -> [at: RequestSteps, files: SUBSET Inputs]]

\* What a step of an adapter reads of work; which job it is does not matter.
WorkFormed == work = [a \in Adapters |-> [job |-> work[a].job, at |-> work[a].at]]

Formed ==
  /\ batchState \in [Rids -> {"none", "paused", "cancelled"}]
  /\ node \in NodeType
  /\ request \in RequestType
  /\ WorkFormed
  /\ cut \in BOOLEAN /\ disturbed \in BOOLEAN

\* A token stop is on record before it reaches the node.
StopRecorded == \A a \in Adapters : work[a].at = "pausing" => disturbed

\* Some request is about to bring node and queue together again.
Underway == \E r \in Requests : request[r].at \in {"pauseQueue", "resumeMark"}

\* A batch that shows as paused is stopped in the queue, or a request is
\* under way between its two writes.
PausedHeld ==
  ~cut /\ ~disturbed /\ node.status = "paused"
    => batchState[batch] # "none" \/ Underway

PauseInv == Formed /\ StopRecorded /\ PausedHeld

-----------------------------------------------------------------------------
(* What the assignments of the handlers do.                                *)

\* Writing the status of the node.
LEMMA StatusWritten ==
  ASSUME node \in NodeType, NEW s \in Statuses, SetStatus(s)
  PROVE  node' \in NodeType /\ node'.status = s
BY DEF NodeType, SetStatus

\* A request goes to its next step, the others stay where they are.
LEMMA RequestMoved ==
  ASSUME request \in RequestType, NEW r \in Requests, NEW s \in RequestSteps,
         Goto(r, s)
  PROVE  /\ request' \in RequestType
         /\ request'[r].at = s
         /\ \A q \in Requests \ {r} : request'[q] = request[q]
<1>1. [at |-> s, files |-> {}] \in [at: RequestSteps, files: SUBSET Inputs]
  OBVIOUS
<1>. QED  BY <1>1 DEF RequestType, Goto

\* An adapter goes to its next step, the others stay where they are.
LEMMA WorkMoved ==
  ASSUME WorkFormed, NEW a \in Adapters, NEW s, Move(a, s)
  PROVE  /\ WorkFormed'
         /\ work'[a].at = s
         /\ \A c \in Adapters \ {a} : work'[c] = work[c]
<1>. DEFINE x == [job |-> work[a].job, at |-> s]
<1>1. work[a] = [job |-> work[a].job, at |-> work[a].at]
  BY DEF WorkFormed
<1>2. [work[a] EXCEPT !.at = s] = x
  BY <1>1
<1>3. work' = [work EXCEPT ![a] = x]
  BY <1>2 DEF Move
<1>4. work' = [c \in Adapters |-> IF c = a THEN x ELSE work[c]]
  BY <1>3 DEF WorkFormed
<1>5. \A c \in Adapters : work'[c] = [job |-> work'[c].job, at |-> work'[c].at]
  BY <1>4 DEF WorkFormed
<1>. QED  BY <1>4, <1>5 DEF WorkFormed

\* An adapter takes a job or gives it up.
LEMMA WorkReplaced ==
  ASSUME WorkFormed, NEW a \in Adapters, NEW j, NEW s,
         work' = [work EXCEPT ![a] = [job |-> j, at |-> s]]
  PROVE  /\ WorkFormed'
         /\ work'[a].at = s
         /\ \A c \in Adapters \ {a} : work'[c] = work[c]
<1>. DEFINE x == [job |-> j, at |-> s]
<1>4. work' = [c \in Adapters |-> IF c = a THEN x ELSE work[c]]
  BY DEF WorkFormed
<1>5. \A c \in Adapters : work'[c] = [job |-> work'[c].job, at |-> work'[c].at]
  BY <1>4 DEF WorkFormed
<1>. QED  BY <1>4, <1>5 DEF WorkFormed

\* An adapter that has nothing more to do is idle.
LEMMA WorkFinished ==
  ASSUME WorkFormed, NEW a \in Adapters, Finish(a)
  PROVE  /\ WorkFormed'
         /\ work'[a].at = "idle"
         /\ \A c \in Adapters \ {a} : work'[c] = work[c]
<1>1. work' = [work EXCEPT ![a] = [job |-> 0, at |-> "idle"]]
  BY DEF Finish, NoJob
<1>. QED  BY <1>1, WorkReplaced

-----------------------------------------------------------------------------
(* The variables keep their types.                                         *)

WorkSteps == {"idle", "claimed", "answered", "erred"} \cup InBackend

\* A file is published only while there is one; a busy adapter has a job.
DispatchOK ==
  /\ dispatch \in [Dispatchers -> [todo: SUBSET Inputs, checked: BOOLEAN]]
  /\ \A d \in Dispatchers : dispatch[d].checked => dispatch[d].todo # {}

\* A resume that has not come to its dispatch has nothing to publish.
Begun == {"resumeLast", "over"}
Fresh == \A r \in Requests : request[r].at \notin Begun => dispatch[r].todo = {}

WorkOK ==
  /\ work \in [Adapters -> [job: 0..lastId, at: WorkSteps]]
  /\ \A a \in Adapters : work[a].at # "idle" => work[a].job > 0

PayloadOK == payload \in Seq(Inputs) /\ Len(payload) = lastId

RestOK ==
  /\ node \in NodeType
  /\ edges \subseteq Inputs
  /\ request \in RequestType
  /\ spent \in [failures: 0..MaxFailures, crashes: 0..MaxCrashes]
  /\ cut \in BOOLEAN /\ disturbed \in BOOLEAN

TypesInv == TypeOK /\ DispatchOK /\ Fresh /\ WorkOK /\ PayloadOK /\ RestOK

\* A set of numbers that is not empty has a least one.
LEMMA LeastExists ==
  ASSUME NEW S \in SUBSET Nat, S # {}
  PROVE  \E m \in S : \A n \in S : m <= n
<1>. DEFINE R == OpToRel(<, Nat)
<1>1. PICK m \in S : \A n \in S : ~(<<n, m>> \in R)
  <2>1. IsWellFoundedOn(R, Nat)
    BY NatLessThanWellFounded, Zenon
  <2>. QED  BY <2>1, WFMin, Zenon
<1>2. ASSUME NEW n \in S PROVE m <= n
  <2>1. n \in Nat /\ m \in Nat
    OBVIOUS
  <2>2. ~(n < m)
    BY <1>1, <2>1 DEF OpToRel
  <2>. QED  BY <2>1, <2>2
<1>. QED  BY <1>2

\* The loop of a dispatcher takes a file of its list.
LEMMA NextFileListed ==
  ASSUME DispatchOK, NEW d \in Dispatchers, dispatch[d].todo # {}
  PROVE  NextFile(d) \in dispatch[d].todo /\ NextFile(d) \in Inputs
<1>1. dispatch[d].todo \in SUBSET Inputs
  BY DEF DispatchOK
<1>2. dispatch[d].todo \in SUBSET Nat
  BY <1>1, BatchConstants DEF Inputs
<1>3. \E f \in dispatch[d].todo : \A g \in dispatch[d].todo : f <= g
  BY <1>2, LeastExists
<1>4. NextFile(d) \in dispatch[d].todo
  BY <1>3 DEF NextFile
<1>. QED  BY <1>1, <1>4

\* The input of the job an adapter works on is one of the list.
LEMMA InputListed ==
  ASSUME TypesInv, NEW a \in Adapters, work[a].at # "idle"
  PROVE  work[a].job \in 1..lastId /\ Input(a) \in Inputs
<1>1. work[a].job \in 1..lastId
  BY JobQueueConstants DEF TypesInv, WorkOK, TypeOK
<1>. QED  BY <1>1 DEF TypesInv, PayloadOK, Input

\* An adapter goes to another step of its job ...
LEMMA MoveKeepsWork ==
  ASSUME WorkOK, NEW a \in Adapters, work[a].at # "idle",
         NEW s \in WorkSteps, Move(a, s), UNCHANGED lastId
  PROVE  WorkOK'
BY DEF WorkOK, Move

\* ... takes one from the table ...
LEMMA TakeKeepsWork ==
  ASSUME WorkOK, TypeOK, NEW a \in Adapters, NEW j \in Rows, NEW s \in WorkSteps,
         work' = [work EXCEPT ![a] = [job |-> j, at |-> s]], UNCHANGED lastId
  PROVE  WorkOK'
<1>1. j \in 0..lastId /\ j > 0
  BY JobQueueConstants DEF TypeOK
<1>. QED  BY <1>1 DEF WorkOK

\* ... or gives it up.
LEMMA FinishKeepsWork ==
  ASSUME WorkOK, TypeOK, NEW a \in Adapters, Finish(a), UNCHANGED lastId
  PROVE  WorkOK'
<1>1. 0 \in 0..lastId
  BY JobQueueConstants DEF TypeOK
<1>. QED  BY <1>1 DEF WorkOK, Finish, NoJob, WorkSteps

\* A call of the queue other than publish() keeps the types of its tables.
LEMMA QueueCallsTyped ==
  ASSUME TypeOK,
         \/ UNCHANGED vars
         \/ pauseBatch(batch) \/ resumeBatch(batch) \/ cancelBatch(batch)
         \/ claimNothing(topic)
         \/ \E j \in Rows, a \in Adapters : claim(topic, a, j)
         \/ \E j, a : a \in Adapters /\ (complete(j, a) \/ fail(j, a))
         \/ \E j \in Rows : LeaseExpires(j) \/ BackoffElapses(j)
  PROVE  TypeOK' /\ UNCHANGED lastId
<1>1. CASE pauseBatch(batch) \/ resumeBatch(batch) \/ cancelBatch(batch)
  <2>1. RowsStep
    BY <1>1, ControlChangesRows, BatchConstants DEF Control
  <2>. QED  BY <2>1, RowsStepKeepsTypes DEF RowsStep
<1>2. CASE claimNothing(topic) \/ \E j \in Rows, a \in Adapters : claim(topic, a, j)
  BY <1>2, ConsumerCallsTyped, BatchConstants
<1>3. CASE \/ UNCHANGED vars
           \/ \E j, a : a \in Adapters /\ (complete(j, a) \/ fail(j, a))
           \/ \E j \in Rows : LeaseExpires(j) \/ BackoffElapses(j)
  BY <1>3, ConsumerCallsTyped
<1>. QED  BY <1>1, <1>2, <1>3

\* A dispatcher: a file leaves its list, with a job or without one.
LEMMA DispatchTyped ==
  ASSUME TypesInv, NEW d \in Dispatchers, dispatchBatchFiles(d)
  PROVE  TypesInv'
<1>. USE DEF TypesInv
<1>0. dispatch \in [Dispatchers -> [todo: SUBSET Inputs, checked: BOOLEAN]]
  BY DEF DispatchOK
<1>1. CASE dispatchCheck(d)
  <2>1. UNCHANGED <<vars, node, edges, payload, request, work, spent, cut, disturbed>>
    BY <1>1 DEF dispatchCheck
  <2>2. PICK x \in [todo: SUBSET Inputs, checked: BOOLEAN] :
          dispatch' = [dispatch EXCEPT ![d] = x] /\ (x.checked => x.todo # {})
    <3>1. /\ Ended \in [todo: SUBSET Inputs, checked: BOOLEAN]
          /\ ~Ended.checked
      BY DEF Ended
    <3>2. /\ [todo |-> dispatch[d].todo, checked |-> TRUE]
               \in [todo: SUBSET Inputs, checked: BOOLEAN]
          /\ dispatch[d].todo # {}
      BY <1>0, <1>1 DEF dispatchCheck
    <3>3. [todo |-> dispatch[d].todo \ {NextFile(d)}, checked |-> FALSE]
             \in [todo: SUBSET Inputs, checked: BOOLEAN]
      BY <1>0
    <3>4. CASE NextFile(d) \in Missing
      BY <1>1, <3>3, <3>4 DEF dispatchCheck
    <3>5. CASE NextFile(d) \notin Missing /\ node.status \in Stopped
      BY <1>1, <3>1, <3>5 DEF dispatchCheck
    <3>6. CASE NextFile(d) \notin Missing /\ node.status \notin Stopped
      BY <1>1, <3>2, <3>6 DEF dispatchCheck
    <3>. QED  BY <3>4, <3>5, <3>6
  <2>3. DispatchOK'
    BY <2>2 DEF DispatchOK
  <2>4. TypeOK' /\ lastId' = lastId
    BY <2>1, QueueCallsTyped DEF vars
  <2>5. Fresh'
    BY <1>0, <1>1, <2>1, <2>2 DEF Fresh, dispatchCheck
  <2>. QED  BY <2>1, <2>3, <2>4, <2>5 DEF WorkOK, PayloadOK, RestOK
<1>2. CASE dispatchPublish(d)
  <2>1. PICK limit \in AttemptLimits : publish(topic, Shape, limit)
    BY <1>2 DEF dispatchPublish
  <2>2. TypeOK' /\ lastId' = lastId + 1
    <3>1. Shape \in [kind: {"plain", "batch"}, process: Rids \cup {NoRid},
                     setProcess: Rids \cup {NoRid}]
      BY BatchConstants DEF Shape
    <3>2. topic \in Topics /\ limit \in Nat \ {0}
      BY BatchConstants, JobQueueConstants
    <3>. QED  BY <2>1, <3>1, <3>2, PublishInserts
  <2>3. NextFile(d) \in Inputs
    BY <1>2, NextFileListed DEF dispatchPublish, DispatchOK
  <2>4. DispatchOK'
    <3>1. [todo |-> dispatch[d].todo \ {NextFile(d)}, checked |-> FALSE]
             \in [todo: SUBSET Inputs, checked: BOOLEAN]
      BY <1>0
    <3>. QED  BY <1>2, <3>1 DEF dispatchPublish, DispatchOK
  <2>5. PayloadOK'
    BY <1>2, <2>2, <2>3 DEF dispatchPublish, PayloadOK
  <2>6. WorkOK'
    <3>1. lastId \in Nat
      BY JobQueueConstants DEF TypeOK
    <3>. QED  BY <1>2, <2>2, <3>1 DEF dispatchPublish, WorkOK
  <2>7. Fresh'
    BY <1>0, <1>2 DEF Fresh, dispatchPublish, DispatchOK
  <2>. QED  BY <1>2, <2>2, <2>4, <2>5, <2>6, <2>7 DEF dispatchPublish, RestOK
<1>. QED  BY <1>1, <1>2 DEF dispatchBatchFiles

\* A request: the queue, the node or neither, and its own step.
LEMMA RequestTyped ==
  ASSUME TypesInv, NEW r \in Requests,
         PauseRequest(r) \/ ResumeRequest(r) \/ CancelRequest(r)
  PROVE  TypesInv'
<1>. USE DEF TypesInv
<1>. DEFINE Typed == [at: RequestSteps, files: SUBSET Inputs]
<1>1. PICK x \in Typed : request' = [request EXCEPT ![r] = x]
  <2>1. CASE \E s \in RequestSteps : Goto(r, s)
    BY <2>1 DEF Goto
  <2>2. CASE request' = [request EXCEPT ![r] = [at |-> "resumeStart", files |-> Undone]]
    <3>1. [at |-> "resumeStart", files |-> Undone] \in Typed
      BY DEF RequestSteps, Pending, Undone
    <3>. QED  BY <2>2, <3>1
  <2>3. \/ \E s \in {"pauseQueue", "over", "resumeQueue", "resumeMark", "resumeSelect",
                     "resumeLast", "cancelQueue", "cancelLast"} : Goto(r, s)
        \/ request' = [request EXCEPT ![r] = [at |-> "resumeStart", files |-> Undone]]
    BY DEF PauseRequest, pauseNode, pauseQueue, ResumeRequest, resumeCheck,
           resumeQueue, resumeMark, resumeSelect, resumeStart, resumeLast,
           CancelRequest, cancelNode, cancelQueue, cancelLast, AtStep
  <2>. QED  BY <2>1, <2>2, <2>3 DEF RequestSteps, Pending
<1>2. request' \in RequestType
  BY <1>1 DEF RestOK, RequestType
<1>3. node' \in NodeType
  <2>1. node' = node \/ \E s \in {"paused", "resuming", "running", "cancelling",
                                  "cancelled"} : SetStatus(s)
    BY DEF PauseRequest, pauseNode, pauseQueue, ResumeRequest, resumeCheck,
           resumeQueue, resumeMark, resumeSelect, resumeStart, resumeLast,
           CancelRequest, cancelNode, cancelQueue, cancelLast
  <2>. QED  BY <2>1, StatusWritten DEF RestOK, Statuses, Stopped
<1>4. TypeOK' /\ UNCHANGED lastId
  <2>1. \/ UNCHANGED vars
        \/ pauseBatch(batch) \/ resumeBatch(batch) \/ cancelBatch(batch)
    BY DEF PauseRequest, pauseNode, pauseQueue, ResumeRequest, resumeCheck,
           resumeQueue, resumeMark, resumeSelect, resumeStart, resumeLast,
           CancelRequest, cancelNode, cancelQueue, cancelLast
  <2>. QED  BY <2>1, QueueCallsTyped
<1>5. UNCHANGED <<edges, payload, work, spent, cut>>
  BY DEF PauseRequest, pauseNode, pauseQueue, ResumeRequest, resumeCheck,
         resumeQueue, resumeMark, resumeSelect, resumeStart, resumeLast,
         CancelRequest, cancelNode, cancelQueue, cancelLast
<1>6. disturbed' \in BOOLEAN
  <2>1. disturbed' = disturbed \/ disturbed' = TRUE
    BY DEF PauseRequest, pauseNode, pauseQueue, ResumeRequest, resumeCheck,
           resumeQueue, resumeMark, resumeSelect, resumeStart, resumeLast,
           CancelRequest, cancelNode, cancelQueue, cancelLast
  <2>. QED  BY <2>1, Zenon DEF RestOK
<1>7. DispatchOK' /\ Fresh'
  <2>1. CASE UNCHANGED dispatch
    <3>1. request'[r].at \notin Begun => request[r].at \notin Begun
      BY DEF PauseRequest, pauseNode, pauseQueue, ResumeRequest, resumeCheck,
             resumeQueue, resumeMark, resumeSelect, resumeStart, resumeLast,
             CancelRequest, cancelNode, cancelQueue, cancelLast, Ask, AtStep, Begun,
             RestOK, RequestType, Goto
    <3>2. \A q \in Requests \ {r} : request'[q] = request[q]
      BY <1>1 DEF RestOK, RequestType
    <3>. QED  BY <2>1, <3>1, <3>2 DEF DispatchOK, Fresh
  <2>2. CASE ~UNCHANGED dispatch
    <3>1. /\ request[r].at = "resumeStart" /\ Goto(r, "resumeLast")
          /\ dispatch' = [dispatch EXCEPT ![r].todo = request[r].files]
      BY <2>2 DEF PauseRequest, pauseNode, pauseQueue, ResumeRequest, resumeCheck,
                  resumeQueue, resumeMark, resumeSelect, resumeStart, resumeLast,
                  CancelRequest, cancelNode, cancelQueue, cancelLast
    <3>2. r \in Dispatchers /\ ~dispatch[r].checked
      BY <3>1 DEF Fresh, Begun, DispatchOK, Dispatchers
    <3>3. request[r].files \in SUBSET Inputs
      BY DEF RestOK, RequestType
    <3>4. DispatchOK'
      BY <3>1, <3>2, <3>3 DEF DispatchOK
    <3>5. /\ \A q \in Requests \ {r} : request'[q] = request[q]
          /\ request'[r].at = "resumeLast"
      BY <3>1, RequestMoved DEF RestOK, RequestSteps, Pending
    <3>6. \A q \in Requests \ {r} : dispatch'[q] = dispatch[q]
      BY <3>1 DEF DispatchOK, Dispatchers
    <3>. QED  BY <3>4, <3>5, <3>6 DEF Fresh, Begun
  <2>. QED  BY <2>1, <2>2
<1>. QED  BY <1>2, <1>3, <1>4, <1>5, <1>6, <1>7 DEF WorkOK, PayloadOK, RestOK

\* An adapter: its call, the queue, the node, the edges or none of them.
LEMMA AdapterTyped ==
  ASSUME TypesInv, NEW a \in Adapters, ClaimRequest(a) \/ Result(a)
  PROVE  TypesInv'
<1>. USE DEF TypesInv
<1>1. CASE claimRoute(a)
  <2>1. TypeOK' /\ UNCHANGED lastId
    BY <1>1, QueueCallsTyped DEF claimRoute
  <2>2. WorkOK'
    <3>1. CASE UNCHANGED work
      BY <2>1, <3>1 DEF WorkOK
    <3>2. CASE \E j \in Rows : work' = [work EXCEPT ![a] =
                   [job |-> j, at |-> IF Budget THEN "budget" ELSE "claimed"]]
      <4>1. PICK s \in {"budget", "claimed"}, j \in Rows :
              work' = [work EXCEPT ![a] = [job |-> j, at |-> s]]
        BY <3>2
      <4>. QED  BY <2>1, <4>1, TakeKeepsWork DEF WorkSteps, InBackend
    <3>. QED  BY <1>1, <3>1, <3>2 DEF claimRoute
  <2>. QED  BY <1>1, <2>1, <2>2
            DEF claimRoute, DispatchOK, Fresh, PayloadOK, RestOK
<1>2. CASE overBudget(a)
  <2>. DEFINE j      == work[a].job
              marked == IF j \in Rows /\ jobs[j].status \in Active
                        THEN Update({j}, LAMBDA row : Closed(row, "cancelled"))
                        ELSE jobs
  <2>1. /\ work[a].at = "budget" /\ Move(a, "pausing")
        /\ batchState' = [batchState EXCEPT ![batch] = "paused"]
        /\ jobs' = drainByProcess(marked, batch)
        /\ clock' = clock + 1
        /\ disturbed' = TRUE
        /\ UNCHANGED <<lastId, node, edges, payload, dispatch, request, spent, cut>>
    BY <1>2 DEF overBudget, Step
  <2>2. marked \in [Rows -> Job]
    <3>1. ASSUME NEW i \in Rows PROVE Closed(jobs[i], "cancelled") \in Job
      <4>1. jobs[i] \in Job /\ clock + 1 \in Nat
        BY DEF TypeOK
      <4>. QED  BY <4>1 DEF Closed, Job, Terminal
    <3>2. CASE marked = jobs
      BY <3>2 DEF TypeOK
    <3>3. CASE marked = Update({j}, LAMBDA row : Closed(row, "cancelled"))
      <4>1. marked = [i \in Rows |-> IF i \in {j} THEN Closed(jobs[i], "cancelled")
                                                  ELSE jobs[i]]
        BY <3>3 DEF Update
      <4>. QED  BY <3>1, <4>1 DEF TypeOK
    <3>. QED  BY <3>2, <3>3
  <2>3. Rows' \subseteq Rows /\ jobs' \in [Rows' -> Job]
    <3>. HIDE DEF marked
    <3>0. DOMAIN marked = Rows
      BY <2>2
    <3>1. PICK S \in SUBSET Rows : jobs' = Delete(marked, S)
      <4>1. PICK S \in SUBSET (DOMAIN marked \ Running(marked)) :
              drainByProcess(marked, batch) = Delete(marked, S)
        BY DrainSparesRunning
      <4>2. S \in SUBSET Rows
        BY <3>0, <4>1
      <4>3. jobs' = drainByProcess(marked, batch)
        BY <2>1
      <4>. QED  BY <4>1, <4>2, <4>3
    <3>. QED  BY <2>2, <3>1 DEF Delete, Rows
  <2>. HIDE DEF marked
  <2>4. TypeOK'
    <3>1. batchState' \in [Rids -> {"none", "paused", "cancelled"}]
      BY <2>1, BatchConstants DEF TypeOK
    <3>2. lastId' \in 0..MaxJobs /\ clock' \in Nat /\ Rows' \subseteq 1..lastId'
      BY <2>1, <2>3 DEF TypeOK
    <3>. QED  BY <2>3, <3>1, <3>2 DEF TypeOK
  <2>5. WorkOK'
    BY <2>1, MoveKeepsWork DEF WorkSteps, InBackend
  <2>. QED  BY <2>1, <2>4, <2>5 DEF DispatchOK, Fresh, PayloadOK, RestOK
<1>3. CASE \/ withinBudget(a) \/ stopOverBudget(a) \/ resultCheck(a)
           \/ createProcessFile(a) \/ notifyOutput(a) \/ incrementProcessed(a)
           \/ finishBatch(a) \/ incrementFailed(a) \/ createErrorNode(a)
           \/ completeJob(a) \/ failJob(a) \/ markAborted(a)
  <2>1. TypeOK' /\ UNCHANGED lastId
    <3>1. \/ UNCHANGED vars
          \/ \E i, c : c \in Adapters /\ (complete(i, c) \/ fail(i, c))
      BY <1>3 DEF withinBudget, stopOverBudget, resultCheck, createProcessFile,
           notifyOutput, incrementProcessed, finishBatch, incrementFailed,
           createErrorNode, completeJob, failJob, markAborted
    <3>. QED  BY <3>1, QueueCallsTyped
  <2>2. work[a].at # "idle"
    BY <1>3 DEF withinBudget, stopOverBudget, resultCheck, createProcessFile,
         notifyOutput, incrementProcessed, finishBatch, incrementFailed,
         createErrorNode, completeJob, failJob, markAborted, Step
  <2>3. WorkOK'
    <3>1. Finish(a) \/ \E s \in WorkSteps : Move(a, s)
      <4>1. \A next \in WorkSteps : Answer(next) \in WorkSteps
        BY DEF Answer, WorkSteps
      <4>2. {"claimed", "answered", "creating", "created", "counting", "finishing",
             "erring", "erred", "aborting"} \subseteq WorkSteps
        BY DEF WorkSteps, InBackend
      <4>3. CASE \/ withinBudget(a) \/ resultCheck(a) \/ createProcessFile(a)
                 \/ notifyOutput(a) \/ finishBatch(a) \/ incrementFailed(a)
                 \/ createErrorNode(a)
        BY <4>1, <4>2, <4>3 DEF withinBudget, resultCheck, createProcessFile,
             notifyOutput, finishBatch, incrementFailed, createErrorNode, Step
      <4>4. CASE incrementProcessed(a)
        BY <4>2, <4>4 DEF incrementProcessed, Step
      <4>5. CASE stopOverBudget(a) \/ completeJob(a) \/ markAborted(a)
        BY <4>5 DEF stopOverBudget, completeJob, markAborted
      <4>6. CASE failJob(a)
        <5>1. Move(a, "aborting") \/ Finish(a)
          BY <4>6 DEF failJob, Move, Finish
        <5>. QED  BY <4>2, <5>1
      <4>. QED  BY <1>3, <4>3, <4>4, <4>5, <4>6
    <3>. QED  BY <2>1, <2>2, <3>1, MoveKeepsWork, FinishKeepsWork
  <2>4. UNCHANGED <<payload, dispatch, request, cut>>
    BY <1>3 DEF withinBudget, stopOverBudget, resultCheck, createProcessFile,
         notifyOutput, incrementProcessed, finishBatch, incrementFailed,
         createErrorNode, completeJob, failJob, markAborted
  <2>5. node' \in NodeType
    <3>1. CASE incrementProcessed(a) \/ incrementFailed(a)
      BY <3>1 DEF incrementProcessed, incrementFailed, NodeType, RestOK
    <3>2. CASE ~(incrementProcessed(a) \/ incrementFailed(a))
      <4>1. node' = node \/ \E s \in {"paused", "done", "cancelled"} : SetStatus(s)
        BY <1>3, <3>2 DEF withinBudget, stopOverBudget, resultCheck,
             createProcessFile, notifyOutput, finishBatch, createErrorNode,
             completeJob, failJob, markAborted
      <4>. QED  BY <4>1, StatusWritten DEF RestOK, Statuses, Stopped
    <3>. QED  BY <3>1, <3>2
  <2>6. edges' \subseteq Inputs
    <3>1. edges' = edges \/ edges' = edges \cup {Input(a)}
      BY <1>3 DEF withinBudget, stopOverBudget, resultCheck, createProcessFile,
           notifyOutput, incrementProcessed, finishBatch, incrementFailed,
           createErrorNode, completeJob, failJob, markAborted
    <3>. QED  BY <2>2, <3>1, InputListed DEF RestOK
  <2>7. spent' \in [failures: 0..MaxFailures, crashes: 0..MaxCrashes]
    <3>1. UNCHANGED spent \/ Fails
      BY <1>3 DEF withinBudget, stopOverBudget, resultCheck, createProcessFile,
           notifyOutput, incrementProcessed, finishBatch, incrementFailed,
           createErrorNode, completeJob, failJob, markAborted
    <3>. QED  BY <3>1, BatchConstants DEF Fails, RestOK
  <2>8. disturbed' \in BOOLEAN
    <3>1. CASE failJob(a)
      <4>1. \/ disturbed' = (disturbed \/ FailsForGood(work[a].job, a))
            \/ UNCHANGED disturbed
        BY <3>1, Zenon DEF failJob
      <4>2. disturbed \in BOOLEAN
        BY DEF RestOK
      <4>. QED  BY <4>1, <4>2, Zenon
    <3>2. CASE ~failJob(a)
      BY <1>3, <3>2 DEF withinBudget, stopOverBudget, resultCheck, createProcessFile,
           notifyOutput, incrementProcessed, finishBatch, incrementFailed,
           createErrorNode, completeJob, markAborted, RestOK
    <3>. QED  BY <3>1, <3>2
  <2>9. RestOK'
    BY <2>4, <2>5, <2>6, <2>7, <2>8 DEF RestOK
  <2>. QED  BY <2>1, <2>3, <2>4, <2>9 DEF DispatchOK, Fresh, PayloadOK
<1>. QED  BY <1>1, <1>2, <1>3 DEF ClaimRequest, Result

\* Time moves rows only; a restart ends dispatches, requests and calls.
LEMMA OthersTyped ==
  ASSUME TypesInv, Passes \/ restart
  PROVE  TypesInv'
<1>. USE DEF TypesInv
<1>1. CASE Passes
  <2>1. TypeOK' /\ UNCHANGED lastId /\ UNCHANGED bvars
    BY <1>1, QueueCallsTyped DEF Passes
  <2>. QED  BY <2>1 DEF bvars, DispatchOK, Fresh, WorkOK, PayloadOK, RestOK
<1>2. CASE restart
  <2>1. /\ TypeOK' /\ UNCHANGED lastId
        /\ UNCHANGED <<node, edges, payload, disturbed>>
    BY <1>2, QueueCallsTyped DEF restart
  <2>2. DispatchOK' /\ Fresh'
    <3>1. Ended \in [todo: SUBSET Inputs, checked: BOOLEAN]
          /\ ~Ended.checked /\ Ended.todo = {}
      BY DEF Ended
    <3>2. dispatch' = [d \in Dispatchers |-> Ended]
      BY <1>2 DEF restart
    <3>. QED  BY <3>1, <3>2 DEF DispatchOK, Fresh, Dispatchers
  <2>3. request' \in RequestType
    <3>1. \A r \in Requests :
            request'[r] \in [at: RequestSteps, files: SUBSET Inputs]
      <4>1. TAKE r \in Requests
      <4>2. CASE request[r].at \in Pending
        <5>1. request'[r] = [at |-> "over", files |-> {}]
          BY <1>2, <4>2 DEF restart
        <5>. QED  BY <5>1 DEF RequestSteps
      <4>3. CASE request[r].at \notin Pending
        <5>1. request'[r] = request[r]
          BY <1>2, <4>3 DEF restart
        <5>. QED  BY <5>1 DEF RestOK, RequestType
      <4>. QED  BY <4>2, <4>3
    <3>. QED  BY <1>2, <3>1 DEF restart, RequestType
  <2>4. WorkOK'
    <3>1. /\ NoJob \in [job: 0..lastId, at: WorkSteps] /\ NoJob.at = "idle"
      <4>1. 0 \in 0..lastId
        BY JobQueueConstants DEF TypeOK
      <4>. QED  BY <4>1 DEF NoJob, WorkSteps
    <3>2. work' = [c \in Adapters |-> IF work[c].at \in InBackend THEN NoJob ELSE work[c]]
      BY <1>2 DEF restart
    <3>. QED  BY <2>1, <3>1, <3>2 DEF WorkOK
  <2>5. spent' \in [failures: 0..MaxFailures, crashes: 0..MaxCrashes]
    BY <1>2, BatchConstants DEF restart, RestOK
  <2>6. cut' \in BOOLEAN
    BY <1>2 DEF restart
  <2>. QED  BY <2>1, <2>2, <2>3, <2>4, <2>5, <2>6 DEF PayloadOK, RestOK
<1>. QED  BY <1>1, <1>2

\* No step leaves the types, and the batch starts in them.
LEMMA TypesInductive ==
  TypesInv /\ [BatchNext]_<<vars, bvars>> => TypesInv'
<1>1. ASSUME TypesInv, UNCHANGED <<vars, bvars>> PROVE TypesInv'
  <2>1. TypeOK' /\ UNCHANGED lastId
    BY <1>1, QueueCallsTyped DEF TypesInv
  <2>. QED  BY <1>1, <2>1 DEF TypesInv, bvars, DispatchOK, Fresh, WorkOK, PayloadOK, RestOK
<1>. QED  BY <1>1, DispatchTyped, RequestTyped, AdapterTyped, OthersTyped DEF BatchNext

\* They hold when the background dispatch of queueSet begins.
LEMMA TypesInit == BatchInit => TypesInv
<1>. SUFFICES ASSUME BatchInit PROVE TypesInv
  OBVIOUS
<1>1. TypeOK /\ lastId = 0
  BY JobQueueConstants DEF BatchInit, Init, TypeOK, Rows
<1>2. DispatchOK /\ Fresh
  <2>1. /\ Ended \in [todo: SUBSET Inputs, checked: BOOLEAN]
        /\ Ended.todo = {} /\ ~Ended.checked
    BY DEF Ended
  <2>2. [todo |-> Inputs, checked |-> FALSE] \in [todo: SUBSET Inputs, checked: BOOLEAN]
    OBVIOUS
  <2>3. dispatch = [d \in Dispatchers |->
                     IF d = First THEN [todo |-> Inputs, checked |-> FALSE] ELSE Ended]
    BY DEF BatchInit
  <2>4. DispatchOK
    BY <2>1, <2>2, <2>3 DEF DispatchOK
  <2>. QED  BY <2>1, <2>3, <2>4, BatchConstants DEF Fresh, Dispatchers
<1>3. WorkOK
  <2>1. NoJob \in [job: 0..lastId, at: WorkSteps] /\ NoJob.at = "idle"
    BY <1>1 DEF NoJob, WorkSteps
  <2>. QED  BY <2>1 DEF BatchInit, WorkOK
<1>4. PayloadOK
  BY <1>1 DEF BatchInit, PayloadOK
<1>5. RestOK
  <2>1. [at |-> "new", files |-> {}] \in [at: RequestSteps, files: SUBSET Inputs]
    BY DEF RequestSteps
  <2>2. request \in RequestType
    BY <2>1 DEF BatchInit, RequestType
  <2>3. node \in NodeType
    BY DEF BatchInit, NodeType, Statuses
  <2>4. spent \in [failures: 0..MaxFailures, crashes: 0..MaxCrashes]
    BY BatchConstants DEF BatchInit
  <2>. QED  BY <2>2, <2>3, <2>4 DEF BatchInit, RestOK
<1>. QED  BY <1>1, <1>2, <1>3, <1>4, <1>5 DEF TypesInv

\* Every variable of a batch keeps its type, and the queue under it too.
THEOREM BatchTypesKept == BatchSpec => []BatchTypeOK
<1>1. TypesInv => BatchTypeOK
  BY DEF TypesInv, BatchTypeOK, DispatchOK, WorkOK, PayloadOK, RestOK,
         NodeType, Statuses, RequestType, RequestSteps, WorkSteps
<1>. QED  BY <1>1, TypesInit, TypesInductive, PTL DEF BatchSpec

-----------------------------------------------------------------------------
(* Every step keeps the invariant.                                         *)

\* A step keeps the invariant when it leaves batch_state and the requests
\* alone, does not make the node paused and begins no token stop.
LEMMA QuietKeepsInv ==
  ASSUME PauseInv, UNCHANGED <<batchState, request>>,
         node' \in NodeType,
         node'.status = "paused" => node.status = "paused",
         WorkFormed',
         \A a \in Adapters : work'[a].at = "pausing" => work[a].at = "pausing",
         cut' \in BOOLEAN, cut => cut',
         disturbed' \in BOOLEAN, disturbed => disturbed'
  PROVE  PauseInv'
<1>1. Formed'
  BY DEF PauseInv, Formed
<1>2. StopRecorded'
  BY DEF PauseInv, StopRecorded
<1>3. Underway' <=> Underway
  BY DEF Underway
<1>4. PausedHeld'
  BY <1>3 DEF PauseInv, PausedHeld
<1>. QED  BY <1>1, <1>2, <1>4 DEF PauseInv

\* A request keeps the invariant when it leaves the node not paused, or the
\* queue stopped, or itself between its two writes; or when it writes neither
\* and was not between them.
LEMMA RequestKeepsInv ==
  ASSUME PauseInv, NEW r \in Requests, UNCHANGED <<work, cut>>,
         disturbed' \in BOOLEAN, disturbed => disturbed',
         batchState' \in [Rids -> {"none", "paused", "cancelled"}],
         node' \in NodeType, request' \in RequestType,
         \A q \in Requests \ {r} : request'[q] = request[q],
         \/ node'.status # "paused"
         \/ batchState'[batch] # "none"
         \/ request'[r].at \in {"pauseQueue", "resumeMark"}
         \/ /\ UNCHANGED <<batchState, node>>
            /\ request[r].at \notin {"pauseQueue", "resumeMark"}
  PROVE  PauseInv'
<1>1. Formed'
  BY DEF PauseInv, Formed, WorkFormed
<1>2. StopRecorded'
  BY DEF PauseInv, StopRecorded
<1>3. PausedHeld'
  <2>1. CASE \/ node'.status # "paused"
             \/ batchState'[batch] # "none"
             \/ request'[r].at \in {"pauseQueue", "resumeMark"}
    BY <2>1 DEF PausedHeld, Underway
  <2>2. CASE /\ UNCHANGED <<batchState, node>>
             /\ request[r].at \notin {"pauseQueue", "resumeMark"}
    <3>1. Underway => Underway'
      BY <2>2 DEF Underway
    <3>. QED  BY <2>2, <3>1 DEF PauseInv, PausedHeld
  <2>. QED  BY <2>1, <2>2
<1>. QED  BY <1>1, <1>2, <1>3 DEF PauseInv

\* The dispatchers touch none of the variables of the invariant.
LEMMA DispatchKeepsInv ==
  ASSUME PauseInv, NEW d \in Dispatchers, dispatchBatchFiles(d)
  PROVE  PauseInv'
<1>1. UNCHANGED <<batchState, node, request, work, cut, disturbed>>
  BY DEF dispatchBatchFiles, dispatchCheck, dispatchPublish, publish, vars
<1>. QED  BY <1>1, QuietKeepsInv DEF PauseInv, Formed, WorkFormed

\* A pause request: its first step leaves it under way, its second stops the
\* queue.
LEMMA PauseKeepsInv ==
  ASSUME PauseInv, NEW r \in Requests, PauseRequest(r)
  PROVE  PauseInv'
<1>. USE DEF PauseInv, Formed
<1>1. CASE pauseNode(r)
  <2>1. /\ Goto(r, "pauseQueue") /\ SetStatus("paused")
        /\ UNCHANGED <<batchState, work, cut, disturbed>>
    BY <1>1 DEF pauseNode, vars
  <2>2. node' \in NodeType
    BY <2>1, StatusWritten DEF Statuses, Stopped
  <2>3. /\ request' \in RequestType /\ request'[r].at = "pauseQueue"
        /\ \A q \in Requests \ {r} : request'[q] = request[q]
    BY <2>1, RequestMoved DEF RequestSteps, Pending
  <2>. QED  BY <2>1, <2>2, <2>3, RequestKeepsInv
<1>2. CASE pauseQueue(r)
  <2>1. Goto(r, "over") /\ UNCHANGED <<node, work, cut, disturbed>>
    BY <1>2 DEF pauseQueue, AtStep
  <2>2. /\ batchState' \in [Rids -> {"none", "paused", "cancelled"}]
        /\ batchState'[batch] = "paused"
    BY <1>2, BatchConstants DEF pauseQueue, pauseBatch
  <2>3. /\ request' \in RequestType
        /\ \A q \in Requests \ {r} : request'[q] = request[q]
    BY <2>1, RequestMoved DEF RequestSteps
  <2>. QED  BY <2>1, <2>2, <2>3, RequestKeepsInv
<1>. QED  BY <1>1, <1>2 DEF PauseRequest

\* A cancel request leaves paused behind, or the queue stopped.
LEMMA CancelKeepsInv ==
  ASSUME PauseInv, NEW r \in Requests, CancelRequest(r)
  PROVE  PauseInv'
<1>. USE DEF PauseInv, Formed
<1>1. CASE cancelNode(r)
  <2>1. /\ Goto(r, "cancelQueue") /\ SetStatus("cancelling") /\ disturbed'
        /\ UNCHANGED <<batchState, work, cut>>
    BY <1>1 DEF cancelNode, vars
  <2>2. node' \in NodeType /\ node'.status # "paused"
    BY <2>1, StatusWritten DEF Statuses, Stopped
  <2>3. /\ request' \in RequestType
        /\ \A q \in Requests \ {r} : request'[q] = request[q]
    BY <2>1, RequestMoved DEF RequestSteps, Pending
  <2>4. disturbed' \in BOOLEAN
    BY <1>1 DEF cancelNode
  <2>. QED  BY <2>1, <2>2, <2>3, <2>4, RequestKeepsInv
<1>2. CASE cancelQueue(r)
  <2>1. Goto(r, "cancelLast") /\ UNCHANGED <<node, work, cut, disturbed>>
    BY <1>2 DEF cancelQueue, AtStep
  <2>2. /\ batchState' \in [Rids -> {"none", "paused", "cancelled"}]
        /\ batchState'[batch] = "cancelled"
    BY <1>2, BatchConstants DEF cancelQueue, cancelBatch
  <2>3. /\ request' \in RequestType
        /\ \A q \in Requests \ {r} : request'[q] = request[q]
    BY <2>1, RequestMoved DEF RequestSteps, Pending
  <2>. QED  BY <2>1, <2>2, <2>3, RequestKeepsInv
<1>3. CASE cancelLast(r)
  <2>1. /\ Goto(r, "over") /\ SetStatus("cancelled")
        /\ UNCHANGED <<batchState, work, cut, disturbed>>
    BY <1>3 DEF cancelLast, AtStep, vars
  <2>2. node' \in NodeType /\ node'.status # "paused"
    BY <2>1, StatusWritten DEF Statuses, Stopped
  <2>3. /\ request' \in RequestType
        /\ \A q \in Requests \ {r} : request'[q] = request[q]
    BY <2>1, RequestMoved DEF RequestSteps
  <2>. QED  BY <2>1, <2>2, <2>3, RequestKeepsInv
<1>. QED  BY <1>1, <1>2, <1>3 DEF CancelRequest

\* A resume request is under way between the queue and the node; its other
\* steps write another status, or nothing the invariant speaks of.
LEMMA ResumeKeepsInv ==
  ASSUME PauseInv, NEW r \in Requests, ResumeRequest(r)
  PROVE  PauseInv'
<1>. USE DEF PauseInv, Formed
<1>1. CASE resumeCheck(r) \/ resumeSelect(r) \/ resumeStart(r)
  <2>1. /\ request[r].at \notin {"pauseQueue", "resumeMark"}
        /\ UNCHANGED <<batchState, node, work, cut>>
        /\ \/ disturbed' = disturbed
           \/ disturbed' = TRUE
    BY <1>1 DEF resumeCheck, Ask, resumeSelect, resumeStart, vars
  <2>2. /\ request' \in RequestType
        /\ \A q \in Requests \ {r} : request'[q] = request[q]
    <3>1. CASE \E s \in {"resumeQueue", "resumeLast", "over"} : Goto(r, s)
      BY <3>1, RequestMoved DEF RequestSteps, Pending
    <3>2. CASE request' = [request EXCEPT ![r] = [at |-> "resumeStart", files |-> Undone]]
      <4>1. [at |-> "resumeStart", files |-> Undone]
              \in [at: RequestSteps, files: SUBSET Inputs]
        BY DEF RequestSteps, Pending, Undone
      <4>. QED  BY <3>2, <4>1 DEF RequestType
    <3>. QED  BY <1>1, <3>1, <3>2 DEF resumeCheck, resumeSelect, resumeStart
  <2>3. disturbed' \in BOOLEAN /\ (disturbed => disturbed')
    <3>1. disturbed \in BOOLEAN
      OBVIOUS
    <3>2. CASE disturbed' = disturbed
      BY <3>1, <3>2, Zenon
    <3>3. CASE disturbed' = TRUE
      BY <3>3, Zenon
    <3>. QED  BY <2>1, <3>2, <3>3
  <2>. QED  BY <2>1, <2>2, <2>3, RequestKeepsInv
<1>2. CASE resumeQueue(r)
  <2>1. Goto(r, "resumeMark") /\ UNCHANGED <<node, work, cut, disturbed>>
    BY <1>2 DEF resumeQueue, AtStep
  <2>2. batchState' \in [Rids -> {"none", "paused", "cancelled"}]
    BY <1>2, BatchConstants DEF resumeQueue, resumeBatch, vars
  <2>3. /\ request' \in RequestType /\ request'[r].at = "resumeMark"
        /\ \A q \in Requests \ {r} : request'[q] = request[q]
    BY <2>1, RequestMoved DEF RequestSteps, Pending
  <2>. QED  BY <2>1, <2>2, <2>3, RequestKeepsInv
<1>3. CASE resumeMark(r) \/ resumeLast(r)
  <2>1. PICK s \in {"resumeSelect", "over"}, status \in {"resuming", "running"} :
          /\ Goto(r, s) /\ SetStatus(status)
          /\ UNCHANGED <<batchState, work, cut, disturbed>>
    BY <1>3 DEF resumeMark, resumeLast, AtStep, vars
  <2>2. node' \in NodeType /\ node'.status # "paused"
    BY <2>1, StatusWritten DEF Statuses, Stopped
  <2>3. /\ request' \in RequestType
        /\ \A q \in Requests \ {r} : request'[q] = request[q]
    BY <2>1, RequestMoved DEF RequestSteps, Pending
  <2>. QED  BY <2>1, <2>2, <2>3, RequestKeepsInv
<1>. QED  BY <1>1, <1>2, <1>3 DEF ResumeRequest

\* The claim route: a token stop is on record with its first step.
LEMMA ClaimKeepsInv ==
  ASSUME PauseInv, NEW a \in Adapters, ClaimRequest(a)
  PROVE  PauseInv'
<1>. USE DEF PauseInv, Formed
<1>1. CASE claimRoute(a)
  <2>1. UNCHANGED <<batchState, node, request, cut, disturbed>>
    BY <1>1 DEF claimRoute, claim, claimNothing
  <2>2. /\ WorkFormed'
        /\ \A c \in Adapters : work'[c].at = "pausing" => work[c].at = "pausing"
    <3>1. CASE UNCHANGED work
      BY <3>1 DEF WorkFormed
    <3>2. CASE \E j \in Rows : work' = [work EXCEPT ![a] =
                   [job |-> j, at |-> IF Budget THEN "budget" ELSE "claimed"]]
      <4>1. PICK s \in {"budget", "claimed"}, j \in Rows :
              work' = [work EXCEPT ![a] = [job |-> j, at |-> s]]
        BY <3>2
      <4>2. /\ WorkFormed' /\ work'[a].at = s
            /\ \A c \in Adapters \ {a} : work'[c] = work[c]
        BY <4>1, WorkReplaced
      <4>. QED  BY <4>2
    <3>. QED  BY <1>1, <3>1, <3>2 DEF claimRoute
  <2>. QED  BY <2>1, <2>2, QuietKeepsInv
<1>2. CASE withinBudget(a)
  <2>1. /\ Move(a, "claimed")
        /\ UNCHANGED <<batchState, node, request, cut, disturbed>>
    BY <1>2 DEF withinBudget, Step, vars
  <2>2. /\ WorkFormed'
        /\ \A c \in Adapters : work'[c].at = "pausing" => work[c].at = "pausing"
    BY <2>1, WorkMoved
  <2>. QED  BY <2>1, <2>2, QuietKeepsInv
<1>3. CASE overBudget(a)
  <2>1. /\ Move(a, "pausing") /\ disturbed' = TRUE
        /\ batchState' = [batchState EXCEPT ![batch] = "paused"]
        /\ UNCHANGED <<node, request, cut>>
    BY <1>3 DEF overBudget, Step
  <2>2. WorkFormed' /\ Formed'
    BY <2>1, WorkMoved, BatchConstants
  <2>. QED  BY <2>1, <2>2 DEF StopRecorded, PausedHeld
<1>4. CASE stopOverBudget(a)
  <2>1. /\ Finish(a) /\ SetStatus("paused") /\ disturbed
        /\ UNCHANGED <<batchState, request, cut, disturbed>>
    BY <1>4 DEF stopOverBudget, vars, StopRecorded
  <2>2. WorkFormed'
    BY <2>1, WorkFinished
  <2>3. node' \in NodeType
    BY <2>1, StatusWritten DEF Statuses, Stopped
  <2>. QED  BY <2>1, <2>2, <2>3 DEF StopRecorded, PausedHeld
<1>. QED  BY <1>1, <1>2, <1>3, <1>4 DEF ClaimRequest

\* A consumer that reports: a failure may stop the queue as well; no report
\* shows the batch as paused or begins a token stop.
LEMMA ResultKeepsInv ==
  ASSUME PauseInv, NEW a \in Adapters, Result(a)
  PROVE  PauseInv'
<1>. USE DEF PauseInv, Formed
<1>1. CASE \/ resultCheck(a) \/ createProcessFile(a) \/ notifyOutput(a)
           \/ createErrorNode(a)
  <2>1. UNCHANGED <<batchState, node, request, cut, disturbed>>
    BY <1>1 DEF resultCheck, createProcessFile, notifyOutput, createErrorNode, vars
  <2>2. PICK s \in {"answered", "creating", "created", "counting", "erred"} :
          Move(a, s)
    BY <1>1, Answer("creating") \in {"answered", "creating"},
       Answer("counting") \in {"answered", "counting"}
    DEF resultCheck, createProcessFile, notifyOutput, createErrorNode, Step, Answer
  <2>3. /\ WorkFormed'
        /\ \A c \in Adapters : work'[c].at = "pausing" => work[c].at = "pausing"
    BY <2>2, WorkMoved
  <2>. QED  BY <2>1, <2>3, QuietKeepsInv
<1>2. CASE incrementProcessed(a) \/ incrementFailed(a)
  <2>1. /\ UNCHANGED <<batchState, request, cut, disturbed>>
        /\ Move(a, "finishing") \/ Move(a, "answered") \/ Move(a, "erring")
    BY <1>2, Zenon DEF incrementProcessed, incrementFailed, Step, vars
  <2>2. node' \in NodeType /\ node'.status = node.status
    BY <1>2 DEF incrementProcessed, incrementFailed, NodeType
  <2>3. /\ WorkFormed'
        /\ \A c \in Adapters : work'[c].at = "pausing" => work[c].at = "pausing"
    BY <2>1, WorkMoved
  <2>. QED  BY <2>1, <2>2, <2>3, QuietKeepsInv
<1>3. CASE finishBatch(a)
  <2>1. /\ Move(a, "answered") /\ SetStatus("done")
        /\ UNCHANGED <<batchState, request, cut, disturbed>>
    BY <1>3 DEF finishBatch, Step, vars
  <2>2. node' \in NodeType /\ node'.status # "paused"
    BY <2>1, StatusWritten DEF Statuses, Stopped
  <2>3. /\ WorkFormed'
        /\ \A c \in Adapters : work'[c].at = "pausing" => work[c].at = "pausing"
    BY <2>1, WorkMoved
  <2>. QED  BY <2>1, <2>2, <2>3, QuietKeepsInv
<1>4. CASE markAborted(a)
  <2>1. /\ Finish(a) /\ SetStatus("cancelled")
        /\ UNCHANGED <<batchState, request, cut, disturbed>>
    BY <1>4 DEF markAborted, vars
  <2>2. node' \in NodeType /\ node'.status # "paused"
    BY <2>1, StatusWritten DEF Statuses, Stopped
  <2>3. /\ WorkFormed'
        /\ \A c \in Adapters : work'[c].at = "pausing" => work[c].at = "pausing"
    BY <2>1, WorkFinished
  <2>. QED  BY <2>1, <2>2, <2>3, QuietKeepsInv
<1>5. CASE completeJob(a)
  <2>1. Finish(a) /\ UNCHANGED <<batchState, node, request, cut, disturbed>>
    BY <1>5 DEF completeJob, complete, vars
  <2>2. /\ WorkFormed'
        /\ \A c \in Adapters : work'[c].at = "pausing" => work[c].at = "pausing"
    BY <2>1, WorkFinished
  <2>. QED  BY <2>1, <2>2, QuietKeepsInv
<1>6. CASE failJob(a)
  <2>1. /\ UNCHANGED <<node, request, cut>>
        /\ disturbed' \in BOOLEAN
        /\ disturbed => disturbed'
    <3>1. UNCHANGED <<node, request, cut>>
      BY <1>6 DEF failJob
    <3>2. \/ disturbed' = (disturbed \/ FailsForGood(work[a].job, a))
          \/ UNCHANGED disturbed
      BY <1>6, Zenon DEF failJob
    <3>. QED  BY <3>1, <3>2, Zenon
  <2>2. Move(a, "aborting") \/ Finish(a)
    BY <1>6 DEF failJob, Move, Finish
  <2>3. /\ WorkFormed'
        /\ \A c \in Adapters : work'[c].at = "pausing" => work[c].at = "pausing"
    <3>1. CASE Move(a, "aborting")
      BY <3>1, WorkMoved
    <3>2. CASE Finish(a)
      BY <3>2, WorkFinished
    <3>. QED  BY <2>2, <3>1, <3>2
  <2>4. CASE UNCHANGED batchState
    BY <2>1, <2>3, <2>4, QuietKeepsInv
  <2>5. CASE ~UNCHANGED batchState
    <3>1. FailsForGood(work[a].job, a) /\ disturbed'
      BY <1>6, <2>5 DEF failJob, fail, failCancelled, failRetry, failForGood, vars
    <3>2. batchState' \in [Rids -> {"none", "paused", "cancelled"}]
      BY <1>6, <2>5 DEF failJob, fail, failCancelled, failRetry, failForGood, vars
    <3>. QED  BY <2>1, <2>3, <3>1, <3>2 DEF StopRecorded, PausedHeld
  <2>. QED  BY <2>4, <2>5
<1>. QED  BY <1>1, <1>2, <1>3, <1>4, <1>5, <1>6 DEF Result

\* A restart that interrupts something is on record as a cut, and an adapter
\* it disconnects is idle.
LEMMA RestartKeepsInv ==
  ASSUME PauseInv, restart
  PROVE  PauseInv'
<1>. USE DEF PauseInv, Formed
<1>1. UNCHANGED <<batchState, node, disturbed>>
  BY DEF restart, vars
<1>2. request' \in RequestType
  <2>1. \A r \in Requests :
          request'[r] \in [at: RequestSteps, files: SUBSET Inputs]
    <3>1. TAKE r \in Requests
    <3>2. CASE request[r].at \in Pending
      <4>1. request'[r] = [at |-> "over", files |-> {}]
        BY <3>2 DEF restart
      <4>. QED  BY <4>1 DEF RequestSteps
    <3>3. CASE request[r].at \notin Pending
      <4>1. request'[r] = request[r]
        BY <3>3 DEF restart
      <4>. QED  BY <4>1 DEF RequestType
    <3>. QED  BY <3>2, <3>3
  <2>. QED  BY <2>1 DEF restart, RequestType
<1>3. /\ WorkFormed'
      /\ \A c \in Adapters : work'[c].at = "pausing" => work[c].at = "pausing"
  <2>1. work' = [c \in Adapters |-> IF work[c].at \in InBackend THEN NoJob ELSE work[c]]
    BY DEF restart
  <2>2. \A c \in Adapters : work[c] = [job |-> work[c].job, at |-> work[c].at]
    BY DEF WorkFormed
  <2>. QED  BY <2>1, <2>2 DEF WorkFormed, NoJob
<1>4. cut' \in BOOLEAN /\ (cut' <=> cut \/ dispatch' # dispatch \/ request' # request)
  BY DEF restart
<1>5. CASE UNCHANGED request
  BY <1>1, <1>3, <1>4, <1>5, QuietKeepsInv
<1>6. CASE ~UNCHANGED request
  BY <1>1, <1>2, <1>3, <1>4, <1>6 DEF StopRecorded, PausedHeld
<1>. QED  BY <1>5, <1>6

\* Every step keeps it.
LEMMA PauseInvInductive ==
  PauseInv /\ [BatchNext]_<<vars, bvars>> => PauseInv'
<1>1. ASSUME PauseInv, BatchNext PROVE PauseInv'
  <2>1. CASE Passes
    <3>1. UNCHANGED <<batchState, node, request, work, cut, disturbed>>
      BY <2>1 DEF Passes, LeaseExpires, BackoffElapses, bvars
    <3>. QED  BY <1>1, <3>1, QuietKeepsInv DEF PauseInv, Formed, WorkFormed
  <2>. QED  BY <1>1, <2>1, DispatchKeepsInv, PauseKeepsInv, CancelKeepsInv,
               ResumeKeepsInv, ClaimKeepsInv, ResultKeepsInv, RestartKeepsInv
            DEF BatchNext
<1>2. ASSUME PauseInv, UNCHANGED <<vars, bvars>> PROVE PauseInv'
  <2>1. UNCHANGED <<batchState, node, request, work, cut, disturbed>>
    BY <1>2 DEF vars, bvars
  <2>. QED  BY <1>2, <2>1, QuietKeepsInv DEF PauseInv, Formed, WorkFormed
<1>. QED  BY <1>1, <1>2

\* It holds when the background dispatch of queueSet begins.
LEMMA PauseInvInit == BatchInit => PauseInv
<1>. SUFFICES ASSUME BatchInit PROVE PauseInv
  OBVIOUS
<1>1. node \in NodeType /\ node.status = "running"
  BY DEF BatchInit, NodeType, Statuses
<1>2. request \in RequestType
  <2>1. [at |-> "new", files |-> {}] \in [at: RequestSteps, files: SUBSET Inputs]
    BY DEF RequestSteps
  <2>. QED  BY <2>1 DEF BatchInit, RequestType
<1>3. WorkFormed /\ \A a \in Adapters : work[a].at # "pausing"
  BY DEF BatchInit, WorkFormed, NoJob
<1>4. Formed
  BY <1>1, <1>2, <1>3 DEF BatchInit, Init, Formed
<1>. QED  BY <1>1, <1>3, <1>4 DEF PauseInv, StopRecorded, PausedHeld

\* However pause, resume and result steps interleave: a batch that shows as
\* paused is one the queue hands out no job of, once no request is under way.
THEOREM PausedBatchesAreStopped == BatchSpec => []PausedMeansStopped
<1>1. PauseInv => PausedMeansStopped
  BY DEF PauseInv, PausedHeld, Underway, PausedMeansStopped, Settled, Pending
<1>. QED  BY <1>1, PauseInvInit, PauseInvInductive, PTL DEF BatchSpec

-----------------------------------------------------------------------------
(* No input is forgotten.                                                  *)

\* Cancels, aborts and token stops are on record before they show anywhere.
CancelRecorded ==
  ~disturbed =>
    /\ \A r \in Rids : batchState[r] # "cancelled"
    /\ node.status \notin {"cancelling", "cancelled"}
    /\ \A r \in Requests : request[r].at \notin {"cancelQueue", "cancelLast"}
    /\ \A a \in Adapters : work[a].at \notin {"pausing", "aborting"}

\* A batch is done, or about to be, once as many results as inputs counted.
DoneCounted ==
  node.status = "done" \/ (\E a \in Adapters : work[a].at = "finishing")
    => AllProcessed(node.processed)

\* Past the creation of its output, the input of an adapter has its edge.
EdgeMade ==
  \A a \in Adapters :
    work[a].at \in {"created", "counting", "finishing", "erred"} => Input(a) \in edges

\* The job will still give its input an output: it is active, and no adapter
\* is about to complete it after an answer that the stop of the batch cut off.
Promising(j) ==
  /\ jobs[j].status \in Active
  /\ \A a \in Adapters : OwnedBy(j, a) /\ work[a].job = j => work[a].at # "answered"

\* Where an input may be between its listing and its output.
Covered(f) ==
  \/ f \in edges \cup Missing
  \/ \E j \in Rows : payload[j] = f /\ Promising(j)
  \/ \E d \in Dispatchers : f \in dispatch[d].todo
  \/ \E r \in Requests : request[r].at = "resumeStart" /\ f \in request[r].files

\* A resume that has yet to list the inputs without an output will find the
\* ones that are nowhere else; a paused batch needs one.
Relisted ==
  \/ batchState[batch] # "none"
  \/ \E r \in Requests : request[r].at \in {"pauseQueue", "resumeMark", "resumeSelect"}

Excused == cut \/ disturbed \/ AllProcessed(node.processed) \/ Relisted

InputsCovered == Excused \/ \A f \in Inputs : Covered(f)

CoverInv ==
  /\ TypesInv /\ PauseInv
  /\ CancelRecorded /\ DoneCounted /\ EdgeMade
  /\ InputsCovered

\* Nothing stops a batch that no resume has to follow, unless it is done.
LEMMA StoppedExcused ==
  ASSUME CoverInv, node.status \in Stopped
  PROVE  Excused
<1>1. CASE node.status = "paused"
  BY <1>1 DEF CoverInv, PauseInv, PausedHeld, Underway, Excused, Relisted
<1>2. CASE node.status = "done"
  BY <1>2 DEF CoverInv, DoneCounted, Excused
<1>3. CASE node.status \in {"cancelling", "cancelled"}
  BY <1>3 DEF CoverInv, CancelRecorded, Excused
<1>. QED  BY <1>1, <1>2, <1>3 DEF Stopped

\* Without a cancel no row is finalised, dropped or cancelled by its batch.
LEMMA NoneCancelled ==
  ASSUME CoverInv, ~disturbed, NEW row
  PROVE  StateOf(row) # "cancelled"
BY DEF CoverInv, CancelRecorded, StateOf, Recorded

\* An excuse lasts: counters and histories grow.
LEMMA ExcuseLasts ==
  ASSUME CoverInv, TypesInv', cut => cut', disturbed => disturbed',
         node'.processed >= node.processed, Relisted => Relisted'
  PROVE  Excused => Excused'
<1>1. node.processed \in Nat /\ node'.processed \in Nat /\ Total \in Nat
  BY BatchConstants DEF CoverInv, TypesInv, RestOK, NodeType
<1>2. AllProcessed(node.processed) => AllProcessed(node'.processed)
  BY <1>1 DEF AllProcessed
<1>. QED  BY <1>2 DEF Excused

\* A step covers the inputs when the lists only grow and each job that has
\* promised an output has made its edge or still promises it.
LEMMA CoverLasts ==
  ASSUME CoverInv, Excused => Excused', edges \subseteq edges',
         UNCHANGED payload,
         \A d \in Dispatchers : dispatch[d].todo \subseteq dispatch'[d].todo,
         \A r \in Requests : request[r].at = "resumeStart" => request'[r] = request[r],
         \A j \in Rows : Promising(j) =>
           Excused' \/ payload[j] \in edges' \/ (j \in Rows' /\ Promising(j)')
  PROVE  InputsCovered'
<1>. SUFFICES ASSUME ~Excused', NEW f \in Inputs PROVE Covered(f)'
  BY DEF InputsCovered
<1>1. Covered(f)
  BY DEF CoverInv, InputsCovered
<1>2. CASE f \in edges \cup Missing
  BY <1>2 DEF Covered
<1>3. ASSUME NEW j \in Rows, payload[j] = f, Promising(j) PROVE Covered(f)'
  BY <1>3 DEF Covered
<1>4. ASSUME NEW d \in Dispatchers, f \in dispatch[d].todo PROVE Covered(f)'
  BY <1>4 DEF Covered
<1>5. ASSUME NEW r \in Requests, request[r].at = "resumeStart", f \in request[r].files
      PROVE  Covered(f)'
  BY <1>5 DEF Covered
<1>. QED  BY <1>1, <1>2, <1>3, <1>4, <1>5 DEF Covered

\* A step of an adapter beside the queue covers the inputs: only an answer
\* ends the promise of its job.
LEMMA MoveCovers ==
  ASSUME CoverInv, Excused => Excused', edges \subseteq edges',
         UNCHANGED <<vars, payload, dispatch, request>>,
         NEW a \in Adapters,
         \A c \in Adapters \ {a} : work'[c] = work[c],
         work'[a].at = "answered" =>
           work'[a].job = work[a].job /\ (Excused' \/ Input(a) \in edges')
  PROVE  InputsCovered'
<1>1. \A j \in Rows : Promising(j) =>
        Excused' \/ payload[j] \in edges' \/ (j \in Rows' /\ Promising(j)')
  <2>1. SUFFICES ASSUME NEW j \in Rows, Promising(j), ~Excused', payload[j] \notin edges'
                 PROVE  Promising(j)'
    BY DEF vars, Rows
  <2>2. UNCHANGED <<jobs, payload>>
    BY DEF vars
  <2>3. \A c \in Adapters : OwnedBy(j, c)' <=> OwnedBy(j, c)
    BY <2>2 DEF OwnedBy, Rows
  <2>4. ~(work'[a].job = j /\ work'[a].at = "answered")
    BY <2>1 DEF Input
  <2>. QED  BY <2>1, <2>2, <2>3, <2>4 DEF Promising
<1>. QED  BY <1>1, CoverLasts

\* The edges of the adapters last; the one that moves has made its own.
LEMMA EdgesLast ==
  ASSUME CoverInv, edges \subseteq edges', UNCHANGED payload,
         NEW a \in Adapters,
         \A c \in Adapters \ {a} : work'[c] = work[c],
         work'[a].at \in {"created", "counting", "finishing", "erred"}
           => work'[a].job = work[a].job /\ Input(a) \in edges'
  PROVE  EdgeMade'
BY DEF CoverInv, EdgeMade, Input

\* A dispatcher drops a file that has vanished, and its list when the batch
\* is stopped; any other file gets a job.
LEMMA DispatchCovers ==
  ASSUME CoverInv, TypesInv', NEW d \in Dispatchers, dispatchBatchFiles(d)
  PROVE  CancelRecorded' /\ DoneCounted' /\ EdgeMade' /\ InputsCovered'
<1>0. dispatch \in [Dispatchers -> [todo: SUBSET Inputs, checked: BOOLEAN]]
  BY DEF CoverInv, TypesInv, DispatchOK
<1>1. UNCHANGED <<batchState, node, edges, request, work, cut, disturbed>>
  BY DEF dispatchBatchFiles, dispatchCheck, dispatchPublish, publish, vars
<1>2. CancelRecorded' /\ DoneCounted'
  BY <1>1 DEF CoverInv, CancelRecorded, DoneCounted
<1>3. Excused => Excused'
  BY <1>1 DEF Excused, Relisted
<1>4. CASE dispatchCheck(d)
  <2>1. UNCHANGED <<jobs, payload>>
    BY <1>4 DEF dispatchCheck, vars
  <2>2. EdgeMade'
    BY <1>1, <2>1 DEF CoverInv, EdgeMade, Input
  <2>3. InputsCovered'
    <3>1. SUFFICES ASSUME ~Excused, NEW f \in Inputs PROVE Covered(f)'
      BY <1>3 DEF InputsCovered
    <3>2. Covered(f)
      BY <3>1 DEF CoverInv, InputsCovered
    <3>3. node.status \notin Stopped
      BY <3>1, StoppedExcused
    <3>4. \A c \in Dispatchers : f \in dispatch[c].todo => f \in Missing \/ f \in dispatch'[c].todo
      BY <1>0, <1>4, <3>3 DEF dispatchCheck
    <3>5. \A j \in Rows : Promising(j) <=> Promising(j)'
      BY <1>1, <2>1 DEF Promising, OwnedBy, Rows
    <3>. QED  BY <1>1, <2>1, <3>2, <3>4, <3>5 DEF Covered, Rows
  <2>. QED  BY <1>2, <2>2, <2>3
<1>5. CASE dispatchPublish(d)
  <2>1. PICK limit \in AttemptLimits : publish(topic, Shape, limit)
    BY <1>5 DEF dispatchPublish
  <2>. PICK new : new = lastId + 1
    OBVIOUS
  <2>2. /\ Rows' = Rows \cup {new} /\ new \notin Rows
        /\ \A j \in Rows : jobs'[j] = jobs[j]
        /\ jobs'[new].status = "queued"
    <3>1. Shape \in [kind: {"plain", "batch"}, process: Rids \cup {NoRid},
                     setProcess: Rids \cup {NoRid}]
      BY BatchConstants DEF Shape
    <3>2. topic \in Topics /\ limit \in Nat \ {0}
      BY BatchConstants, JobQueueConstants
    <3>. QED  BY <2>1, <3>1, <3>2, PublishInserts DEF CoverInv, TypesInv
  <2>3. /\ \A j \in 1..lastId : payload'[j] = payload[j]
        /\ payload'[new] = NextFile(d)
        /\ Rows \subseteq 1..lastId
    <3>1. NextFile(d) \in Inputs
      BY <1>5, NextFileListed DEF dispatchPublish, CoverInv, TypesInv, DispatchOK
    <3>2. payload \in Seq(Inputs) /\ Len(payload) = lastId
      BY DEF CoverInv, TypesInv, PayloadOK
    <3>3. payload' = Append(payload, NextFile(d))
      BY <1>5 DEF dispatchPublish
    <3>4. Rows \subseteq 1..lastId
      BY DEF CoverInv, TypesInv, TypeOK
    <3>. QED  BY <3>1, <3>2, <3>3, <3>4
  <2>4. EdgeMade'
    <3>1. ASSUME NEW a \in Adapters, work[a].at # "idle" PROVE Input(a)' = Input(a)
      <4>1. work[a].job \in 1..lastId
        BY <3>1, InputListed DEF CoverInv
      <4>. QED  BY <1>1, <2>3, <4>1 DEF Input
    <3>. QED  BY <1>1, <3>1 DEF CoverInv, EdgeMade
  <2>5. InputsCovered'
    <3>1. SUFFICES ASSUME ~Excused, NEW f \in Inputs PROVE Covered(f)'
      BY <1>3 DEF InputsCovered
    <3>2. Covered(f)
      BY <3>1 DEF CoverInv, InputsCovered
    <3>3. \A j \in Rows : payload[j] = f /\ Promising(j) => payload'[j] = f /\ Promising(j)'
      BY <1>1, <2>2, <2>3 DEF Promising, OwnedBy
    <3>4. Promising(new)'
      <4>1. new \in Rows' /\ jobs'[new].status = "queued"
        BY <2>2
      <4>. QED  BY <4>1 DEF Promising, OwnedBy, Active
    <3>5. \A c \in Dispatchers : f \in dispatch[c].todo =>
            f = NextFile(d) \/ f \in dispatch'[c].todo
      BY <1>0, <1>5 DEF dispatchPublish
    <3>6. CASE f = NextFile(d)
      BY <2>2, <2>3, <3>4, <3>6 DEF Covered
    <3>7. CASE f # NextFile(d)
      BY <1>1, <2>2, <3>2, <3>3, <3>5, <3>7 DEF Covered
    <3>. QED  BY <3>6, <3>7
  <2>. QED  BY <1>2, <2>4, <2>5
<1>. QED  BY <1>4, <1>5 DEF dispatchBatchFiles

\* What a request does beside its own step and the node: it leaves the edges,
\* the adapters and the histories, and only the queue's steps touch rows.
LEMMA RequestKeepsWork ==
  ASSUME CoverInv, NEW r \in Requests,
         PauseRequest(r) \/ ResumeRequest(r) \/ CancelRequest(r)
  PROVE  /\ UNCHANGED <<edges, payload, work, cut>>
         /\ disturbed => disturbed'
         /\ EdgeMade'
<1>1. UNCHANGED <<edges, payload, work, cut>>
  BY DEF PauseRequest, pauseNode, pauseQueue, ResumeRequest, resumeCheck,
         resumeQueue, resumeMark, resumeSelect, resumeStart, resumeLast,
         CancelRequest, cancelNode, cancelQueue, cancelLast
<1>2. disturbed' = disturbed \/ disturbed' = TRUE
  BY DEF PauseRequest, pauseNode, pauseQueue, ResumeRequest, resumeCheck,
         resumeQueue, resumeMark, resumeSelect, resumeStart, resumeLast,
         CancelRequest, cancelNode, cancelQueue, cancelLast
<1>3. disturbed => disturbed'
  BY <1>2, Zenon
<1>. QED  BY <1>1, <1>3 DEF CoverInv, EdgeMade, Input

\* The pause route: the queue is stopped in the end.
LEMMA PauseCovers ==
  ASSUME CoverInv, TypesInv', NEW r \in Requests, PauseRequest(r)
  PROVE  CancelRecorded' /\ DoneCounted' /\ EdgeMade' /\ InputsCovered'
<1>1. UNCHANGED <<edges, payload, work, dispatch, cut, disturbed>> /\ EdgeMade'
  BY RequestKeepsWork DEF PauseRequest, pauseNode, pauseQueue
<1>2. /\ request' \in RequestType
      /\ \A q \in Requests \ {r} : request'[q] = request[q]
      /\ request[r].at = "pauseQueue" => request'[r].at = "over"
      /\ request[r].at # "pauseQueue" => request'[r].at = "pauseQueue"
  <2>1. CASE pauseNode(r)
    <3>1. Goto(r, "pauseQueue") /\ request[r].at = "new"
      BY <2>1 DEF pauseNode, Ask
    <3>. QED  BY <3>1, RequestMoved DEF CoverInv, TypesInv, RestOK, RequestSteps, Pending
  <2>2. CASE pauseQueue(r)
    <3>1. Goto(r, "over") /\ request[r].at = "pauseQueue"
      BY <2>2 DEF pauseQueue, AtStep
    <3>. QED  BY <3>1, RequestMoved DEF CoverInv, TypesInv, RestOK, RequestSteps
  <2>. QED  BY <2>1, <2>2 DEF PauseRequest
<1>3. /\ node'.processed = node.processed
      /\ node'.status = node.status \/ node'.status = "paused"
  BY DEF PauseRequest, pauseNode, pauseQueue, SetStatus, CoverInv, TypesInv, RestOK, NodeType
<1>4. \A q \in Rids : batchState'[q] = batchState[q] \/ batchState'[q] = "paused"
  BY DEF PauseRequest, pauseNode, pauseQueue, pauseBatch, vars, CoverInv, TypesInv, TypeOK
<1>5. CancelRecorded' /\ DoneCounted'
  BY <1>1, <1>2, <1>3, <1>4 DEF CoverInv, CancelRecorded, DoneCounted
<1>6. Excused'
  <2>1. CASE pauseNode(r)
    <3>1. request'[r].at = "pauseQueue"
      BY <1>2, <2>1 DEF pauseNode, Ask
    <3>. QED  BY <3>1 DEF Excused, Relisted
  <2>2. CASE pauseQueue(r)
    <3>1. batchState'[batch] = "paused"
      BY <2>2, BatchConstants DEF pauseQueue, pauseBatch, CoverInv, TypesInv, TypeOK
    <3>. QED  BY <3>1 DEF Excused, Relisted
  <2>. QED  BY <2>1, <2>2 DEF PauseRequest
<1>. QED  BY <1>1, <1>5, <1>6 DEF InputsCovered

\* The cancel route: it is on record from its first step.
LEMMA CancelCovers ==
  ASSUME CoverInv, TypesInv', NEW r \in Requests, CancelRequest(r)
  PROVE  CancelRecorded' /\ DoneCounted' /\ EdgeMade' /\ InputsCovered'
<1>1. EdgeMade' /\ UNCHANGED <<work>>
  BY RequestKeepsWork
<1>2. disturbed'
  BY DEF CancelRequest, cancelNode, cancelQueue, cancelLast, AtStep,
         CoverInv, CancelRecorded
<1>3. /\ node'.processed = node.processed
      /\ node'.status = "done" => node.status = "done"
  BY DEF CancelRequest, cancelNode, cancelQueue, cancelLast, SetStatus,
         CoverInv, TypesInv, RestOK, NodeType
<1>4. DoneCounted'
  BY <1>1, <1>3 DEF CoverInv, DoneCounted
<1>. QED  BY <1>1, <1>2, <1>4 DEF CancelRecorded, InputsCovered, Excused

\* The resume route: it lists every input without an output after it has
\* opened the queue, and dispatches the list unless the batch was stopped.
LEMMA ResumeCovers ==
  ASSUME CoverInv, TypesInv', NEW r \in Requests, ResumeRequest(r)
  PROVE  CancelRecorded' /\ DoneCounted' /\ EdgeMade' /\ InputsCovered'
<1>1. /\ UNCHANGED <<edges, payload, work, cut>> /\ (disturbed => disturbed')
      /\ EdgeMade'
  BY RequestKeepsWork
<1>2. PICK s \in {"resumeQueue", "resumeMark", "resumeSelect", "resumeStart",
                  "resumeLast", "over"} :
        /\ request'[r].at = s
        /\ \A q \in Requests \ {r} : request'[q] = request[q]
  <2>1. CASE \E s \in {"resumeQueue", "resumeMark", "resumeSelect", "resumeLast", "over"} :
               Goto(r, s)
    <3>1. PICK s \in {"resumeQueue", "resumeMark", "resumeSelect", "resumeLast", "over"} :
            Goto(r, s)
      BY <2>1
    <3>2. s \in RequestSteps
      BY DEF RequestSteps, Pending
    <3>. QED  BY <3>1, <3>2, RequestMoved DEF CoverInv, TypesInv, RestOK
  <2>2. CASE request' = [request EXCEPT ![r] = [at |-> "resumeStart", files |-> Undone]]
    BY <2>2 DEF CoverInv, TypesInv, RestOK, RequestType
  <2>. QED  BY <2>1, <2>2 DEF ResumeRequest, resumeCheck, resumeQueue, resumeMark,
                 resumeSelect, resumeStart, resumeLast, AtStep
<1>3. /\ node'.processed = node.processed
      /\ node'.status \in {node.status, "resuming", "running"}
  BY DEF ResumeRequest, resumeCheck, resumeQueue, resumeMark, resumeSelect,
         resumeStart, resumeLast, SetStatus, CoverInv, TypesInv, RestOK, NodeType
<1>4. \A q \in Rids : batchState'[q] = batchState[q] \/ batchState'[q] = "none"
  BY DEF ResumeRequest, resumeCheck, resumeQueue, resumeMark, resumeSelect,
         resumeStart, resumeLast, resumeBatch, vars, CoverInv, TypesInv, TypeOK
<1>5. CancelRecorded' /\ DoneCounted'
  BY <1>1, <1>2, <1>3, <1>4 DEF CoverInv, CancelRecorded, DoneCounted
<1>6. node'.processed >= node.processed
  BY <1>3 DEF CoverInv, TypesInv, RestOK, NodeType
<1>7. UNCHANGED vars => \A j \in Rows : Promising(j) => j \in Rows' /\ Promising(j)'
  BY <1>1 DEF vars, Promising, OwnedBy, Rows
<1>8. CASE resumeCheck(r) \/ resumeLast(r)
  <2>1. /\ UNCHANGED <<vars, dispatch>>
        /\ request[r].at \in {"new", "resumeLast"}
    BY <1>8 DEF resumeCheck, resumeLast, AtStep, Ask
  <2>2. Relisted => Relisted'
    BY <1>2, <2>1 DEF Relisted, vars
  <2>3. Excused => Excused'
    BY <1>1, <1>6, <2>2, ExcuseLasts
  <2>4. \A q \in Requests : request[q].at = "resumeStart" => request'[q] = request[q]
    BY <1>2, <2>1
  <2>5. InputsCovered'
    BY <1>1, <1>7, <2>1, <2>3, <2>4, CoverLasts
  <2>. QED  BY <1>1, <1>5, <2>5
<1>9. CASE resumeQueue(r) \/ resumeMark(r)
  <2>1. request'[r].at \in {"resumeMark", "resumeSelect"}
    BY <1>9, RequestMoved DEF resumeQueue, resumeMark, AtStep, CoverInv, TypesInv,
         RestOK, RequestSteps, Pending
  <2>. QED  BY <1>1, <1>5, <2>1 DEF InputsCovered, Excused, Relisted
<1>10. CASE resumeSelect(r)
  <2>1. CASE request' = [request EXCEPT ![r] = [at |-> "resumeStart", files |-> Undone]]
    <3>1. request'[r] = [at |-> "resumeStart", files |-> Undone]
      BY <2>1 DEF CoverInv, TypesInv, RestOK, RequestType
    <3>2. ASSUME NEW f \in Inputs PROVE Covered(f)'
      <4>1. f \in edges' \/ f \in request'[r].files
        BY <1>1, <3>1 DEF Undone
      <4>. QED  BY <3>1, <4>1 DEF Covered
    <3>. QED  BY <1>1, <1>5, <3>2 DEF InputsCovered
  <2>2. CASE disturbed'
    BY <1>1, <1>5, <2>2 DEF InputsCovered, Excused
  <2>. QED  BY <1>10, <2>1, <2>2 DEF resumeSelect
<1>11. CASE resumeStart(r)
  <2>1. /\ UNCHANGED vars /\ request[r].at = "resumeStart"
        /\ node.status \in {"resuming", "running"} =>
             dispatch' = [dispatch EXCEPT ![r].todo = request[r].files]
        /\ node.status \notin {"resuming", "running"} => UNCHANGED dispatch
    BY <1>11 DEF resumeStart
  <2>2. Relisted => Relisted'
    BY <1>2, <2>1 DEF Relisted, vars
  <2>3. Excused => Excused'
    BY <1>1, <1>6, <2>2, ExcuseLasts
  <2>4. CASE node.status \in {"resuming", "running"}
    <3>1. SUFFICES ASSUME ~Excused, NEW f \in Inputs PROVE Covered(f)'
      BY <1>1, <1>5, <2>3 DEF InputsCovered
    <3>2. Covered(f)
      BY <3>1 DEF CoverInv, InputsCovered
    <3>3. r \in Dispatchers /\ dispatch[r].todo = {}
      BY <2>1 DEF CoverInv, TypesInv, Fresh, Begun, Dispatchers
    <3>4. /\ dispatch'[r].todo = request[r].files
          /\ \A d \in Dispatchers \ {r} : dispatch'[d] = dispatch[d]
      BY <2>1, <2>4, <3>3 DEF CoverInv, TypesInv, DispatchOK
    <3>5. \A j \in Rows : Promising(j) => j \in Rows' /\ Promising(j)'
      BY <1>7, <2>1
    <3>. QED  BY <1>1, <1>2, <3>2, <3>3, <3>4, <3>5 DEF Covered
  <2>5. CASE node.status \notin {"resuming", "running"}
    <3>1. node.status \in Stopped
      BY <2>5 DEF CoverInv, TypesInv, RestOK, NodeType, Statuses
    <3>2. Excused'
      BY <2>3, <3>1, StoppedExcused
    <3>. QED  BY <1>1, <1>5, <3>2 DEF InputsCovered
  <2>. QED  BY <2>4, <2>5
<1>. QED  BY <1>8, <1>9, <1>10, <1>11 DEF ResumeRequest

\* A step of a consumer beside the queue and the histories.
LEMMA MoveKeepsCover ==
  ASSUME CoverInv, TypesInv', NEW a \in Adapters,
         UNCHANGED <<vars, payload, dispatch, request, cut>>,
         disturbed => disturbed', edges \subseteq edges',
         node'.processed >= node.processed,
         node'.status = "cancelled" => node.status = "cancelled" \/ disturbed',
         node'.status = "cancelling" => node.status = "cancelling",
         node'.status = "done" => node.status = "done" \/ AllProcessed(node'.processed),
         \A c \in Adapters \ {a} : work'[c] = work[c],
         work'[a].at # "idle" => work'[a].job = work[a].job,
         work'[a].at \in {"pausing", "aborting"} => disturbed',
         work'[a].at = "finishing" => AllProcessed(node'.processed),
         work'[a].at \in {"created", "counting", "finishing", "erred"} => Input(a) \in edges',
         work'[a].at = "answered" => Excused \/ Input(a) \in edges'
  PROVE  CancelRecorded' /\ DoneCounted' /\ EdgeMade' /\ InputsCovered'
<1>1. Excused => Excused'
  <2>1. Relisted => Relisted'
    BY DEF Relisted, vars
  <2>. QED  BY <2>1, ExcuseLasts
<1>2. InputsCovered'
  BY <1>1, MoveCovers
<1>3. EdgeMade'
  BY EdgesLast
<1>4. CancelRecorded'
  BY DEF CoverInv, CancelRecorded, vars
<1>5. DoneCounted'
  <2>1. AllProcessed(node.processed) => AllProcessed(node'.processed)
    <3>1. node.processed \in Nat /\ node'.processed \in Nat /\ Total \in Nat
      BY BatchConstants DEF CoverInv, TypesInv, RestOK, NodeType
    <3>. QED  BY <3>1 DEF AllProcessed
  <2>. QED  BY <2>1 DEF CoverInv, DoneCounted
<1>. QED  BY <1>2, <1>3, <1>4, <1>5

\* An adapter that goes on keeps its job; one that is finished has none.
LEMMA MoveSteps ==
  ASSUME WorkOK, NEW a \in Adapters, NEW s, Move(a, s)
  PROVE  /\ work'[a].job = work[a].job /\ work'[a].at = s
         /\ \A c \in Adapters \ {a} : work'[c] = work[c]
BY DEF WorkOK, Move

\* An adapter that has finished is idle, and the others are where they were.
LEMMA FinishSteps ==
  ASSUME WorkOK, NEW a \in Adapters, Finish(a)
  PROVE  /\ work'[a].job = 0 /\ work'[a].at = "idle"
         /\ \A c \in Adapters \ {a} : work'[c] = work[c]
BY DEF WorkOK, Finish, NoJob

\* The callbacks: an answer without an output means the batch is stopped.
LEMMA CallbackCovers ==
  ASSUME CoverInv, TypesInv', NEW a \in Adapters,
         \/ withinBudget(a) \/ stopOverBudget(a) \/ resultCheck(a)
         \/ createProcessFile(a) \/ notifyOutput(a) \/ incrementProcessed(a)
         \/ finishBatch(a) \/ incrementFailed(a) \/ createErrorNode(a)
         \/ markAborted(a)
  PROVE  CancelRecorded' /\ DoneCounted' /\ EdgeMade' /\ InputsCovered'
<1>0. WorkOK /\ node \in NodeType
  BY DEF CoverInv, TypesInv, RestOK
<1>1. UNCHANGED <<vars, payload, dispatch, request, cut, disturbed>>
  BY DEF withinBudget, stopOverBudget, resultCheck, createProcessFile, notifyOutput,
         incrementProcessed, finishBatch, incrementFailed, createErrorNode, markAborted
<1>2. edges \subseteq edges'
  BY DEF withinBudget, stopOverBudget, resultCheck, createProcessFile, notifyOutput,
         incrementProcessed, finishBatch, incrementFailed, createErrorNode, markAborted
<1>3. CASE withinBudget(a) \/ incrementFailed(a)
  <2>1. \E s \in {"claimed", "erring"} : Move(a, s)
    BY <1>3 DEF withinBudget, incrementFailed, Step
  <2>2. node'.status = node.status /\ node'.processed = node.processed
    BY <1>0, <1>3 DEF withinBudget, incrementFailed, NodeType
  <2>3. node'.processed >= node.processed
    BY <1>0, <2>2 DEF NodeType
  <2>. QED  BY <1>0, <1>1, <1>2, <2>1, <2>2, <2>3, MoveSteps, MoveKeepsCover
            DEF CoverInv, CancelRecorded
<1>4. CASE stopOverBudget(a) \/ markAborted(a)
  <2>1. Finish(a) /\ disturbed
    BY <1>4 DEF stopOverBudget, markAborted, CoverInv, CancelRecorded
  <2>2. node'.status \in {"paused", "cancelled"} /\ node'.processed = node.processed
    BY <1>0, <1>4 DEF stopOverBudget, markAborted, SetStatus, NodeType
  <2>3. node'.processed >= node.processed
    BY <1>0, <2>2 DEF NodeType
  <2>. QED  BY <1>0, <1>1, <1>2, <2>1, <2>2, <2>3, FinishSteps, MoveKeepsCover
<1>5. CASE resultCheck(a)
  <2>1. Move(a, Answer("creating")) /\ UNCHANGED node
    BY <1>5 DEF resultCheck, Step
  <2>2. Answer("creating") = "creating" \/ (Answer("creating") = "answered" /\ Excused)
    BY StoppedExcused DEF Answer
  <2>3. node'.processed >= node.processed
    BY <1>0, <2>1 DEF NodeType
  <2>. QED  BY <1>0, <1>1, <1>2, <2>1, <2>2, <2>3, MoveSteps, MoveKeepsCover
<1>6. CASE createProcessFile(a) \/ createErrorNode(a)
  <2>1. /\ \E s \in {"created", "erred"} : Move(a, s)
        /\ Input(a) \in edges' /\ UNCHANGED node
    BY <1>6 DEF createProcessFile, createErrorNode, Step
  <2>2. node'.processed >= node.processed
    BY <1>0, <2>1 DEF NodeType
  <2>. QED  BY <1>0, <1>1, <1>2, <2>1, <2>2, MoveSteps, MoveKeepsCover
<1>7. CASE notifyOutput(a)
  <2>1. /\ work[a].at = "created" /\ UNCHANGED node
        /\ \E s \in {"answered", "counting"} : Move(a, s)
    BY <1>7 DEF notifyOutput, Step, Answer
  <2>2. Input(a) \in edges'
    BY <1>2, <2>1 DEF CoverInv, EdgeMade
  <2>3. node'.processed >= node.processed
    BY <1>0, <2>1 DEF NodeType
  <2>. QED  BY <1>0, <1>1, <1>2, <2>1, <2>2, <2>3, MoveSteps, MoveKeepsCover
<1>8. CASE incrementProcessed(a)
  <2>1. /\ node'.processed = node.processed + 1 /\ node'.status = node.status
        /\ work[a].at = "counting"
        /\ Move(a, IF AllProcessed(node'.processed) THEN "finishing" ELSE "answered")
    BY <1>0, <1>8 DEF incrementProcessed, Step, NodeType
  <2>2. node'.processed >= node.processed
    BY <1>0, <2>1 DEF NodeType
  <2>3. Input(a) \in edges'
    BY <1>2, <2>1 DEF CoverInv, EdgeMade
  <2>4. PICK s \in {"finishing", "answered"} :
          Move(a, s) /\ (s = "finishing" => AllProcessed(node'.processed))
    BY <2>1
  <2>. QED  BY <1>0, <1>1, <1>2, <2>1, <2>2, <2>3, <2>4, MoveSteps, MoveKeepsCover
<1>9. CASE finishBatch(a)
  <2>1. Move(a, "answered") /\ SetStatus("done") /\ work[a].at = "finishing"
    BY <1>9 DEF finishBatch, Step
  <2>2. node'.processed = node.processed /\ node'.status = "done"
    BY <1>0, <2>1 DEF SetStatus, NodeType
  <2>3. Input(a) \in edges' /\ AllProcessed(node'.processed)
    BY <1>2, <2>1, <2>2 DEF CoverInv, EdgeMade, DoneCounted
  <2>4. node'.processed >= node.processed
    BY <1>0, <2>2 DEF NodeType
  <2>. QED  BY <1>0, <1>1, <1>2, <2>1, <2>2, <2>3, <2>4, MoveSteps, MoveKeepsCover
<1>. QED  BY <1>3, <1>4, <1>5, <1>6, <1>7, <1>8, <1>9

\* complete() leaves the other active jobs alone, its clean-up included.
LEMMA CompleteSparesActive ==
  ASSUME TypeOK, NEW a \in Adapters, NEW j, complete(j, a),
         NEW k \in Rows, k # j, jobs[k].status \in Active
  PROVE  k \in Rows' /\ jobs'[k] = jobs[k]
<1>. DEFINE done == [jobs EXCEPT ![j] = Closed(jobs[j], "done")]
<1>1. j \in Rows
  BY DEF complete, OwnedBy
<1>2. k \in DOMAIN done /\ done[k] = jobs[k]
  BY <1>1 DEF TypeOK
<1>3. CASE jobs' = Delete(jobs, {j})
  BY <1>3 DEF Delete, Rows
<1>4. CASE jobs' = done
  BY <1>2, <1>4 DEF Rows
<1>5. ASSUME NEW cutoff, jobs' = cleanupBatchTerminalRows(done, jobs[j].setProcess, cutoff)
      PROVE  k \in Rows' /\ jobs'[k] = jobs[k]
  <2>. HIDE DEF done
  <2>1. done[k].status \notin {"done", "cancelled", "failed"}
    BY <1>2 DEF Active
  <2>. QED  BY <1>2, <1>5, <2>1 DEF cleanupBatchTerminalRows, Delete, Rows
<1>. QED  BY <1>3, <1>4, <1>5 DEF complete

\* The report on a job: one that is completed has its edge, or answered while
\* the batch was stopped; one that is given back still promises its output.
LEMMA ReportCovers ==
  ASSUME CoverInv, TypesInv', NEW a \in Adapters, completeJob(a) \/ failJob(a)
  PROVE  CancelRecorded' /\ DoneCounted' /\ EdgeMade' /\ InputsCovered'
<1>. DEFINE j == work[a].job
<1>0. WorkOK /\ TypeOK
  BY DEF CoverInv, TypesInv
<1>1. /\ UNCHANGED <<node, edges, payload, dispatch, request, cut>>
      /\ work[a].at \in {"answered", "erred", "claimed"}
  BY DEF completeJob, failJob
<1>2. disturbed => disturbed'
  <2>1. CASE completeJob(a)
    BY <2>1 DEF completeJob
  <2>2. CASE failJob(a)
    <3>1. \/ disturbed' = (disturbed \/ FailsForGood(work[a].job, a))
          \/ disturbed' = disturbed
      BY <2>2, Zenon DEF failJob
    <3>. QED  BY <3>1, Zenon
  <2>. QED  BY <2>1, <2>2
<1>3. Finish(a) \/ (Move(a, "aborting") /\ disturbed')
  <2>1. CASE completeJob(a)
    BY <2>1 DEF completeJob
  <2>2. CASE failJob(a) /\ ~Finish(a)
    <3>1. Move(a, "aborting") /\ fail(j, a) /\ batchState' # batchState
      BY <2>2 DEF failJob, Move, Finish
    <3>2. FailsForGood(j, a)
      BY <3>1 DEF fail, failCancelled, failRetry, failForGood
    <3>3. disturbed' = (disturbed \/ FailsForGood(j, a))
      BY <2>2, Zenon DEF failJob
    <3>4. disturbed'
      BY <3>2, <3>3, Zenon
    <3>. QED  BY <3>1, <3>4
  <2>. QED  BY <2>1, <2>2
<1>4. /\ work'[a].at \in {"idle", "aborting"}
      /\ work'[a].at = "aborting" => disturbed'
      /\ \A c \in Adapters \ {a} : work'[c] = work[c]
  BY <1>0, <1>3, MoveSteps, FinishSteps
<1>5. EdgeMade'
  BY <1>1, <1>4, EdgesLast
<1>6. DoneCounted'
  BY <1>1, <1>4 DEF CoverInv, DoneCounted
<1>7. ASSUME ~disturbed'
      PROVE  /\ UNCHANGED batchState
             /\ \A k \in Rows : Promising(k) =>
                  payload[k] \in edges' \/ (k \in Rows' /\ Promising(k)')
  <2>1. work'[a].at = "idle" /\ ~disturbed
    BY <1>2, <1>4, <1>7
  <2>2. CASE UNCHANGED vars
    <3>1. UNCHANGED <<jobs, batchState>>
      BY <2>2 DEF vars
    <3>. QED  BY <1>4, <2>1, <3>1 DEF Promising, OwnedBy, Rows
  <2>3. CASE completeJob(a) /\ complete(j, a)
    <3>1. work[a].at = "answered" \/ Input(a) \in edges
      BY <2>3 DEF completeJob, CoverInv, EdgeMade
    <3>2. OwnedBy(j, a) /\ UNCHANGED batchState
      BY <2>3 DEF complete
    <3>3. ASSUME NEW k \in Rows, Promising(k), payload[k] \notin edges'
          PROVE  k \in Rows' /\ Promising(k)'
      <4>1. k # j
        BY <1>1, <3>1, <3>2, <3>3 DEF Promising, Input
      <4>2. k \in Rows' /\ jobs'[k] = jobs[k]
        BY <1>0, <2>3, <3>3, <4>1, CompleteSparesActive DEF Promising
      <4>. QED  BY <1>4, <2>1, <3>3, <4>2 DEF Promising, OwnedBy
    <3>. QED  BY <3>2, <3>3
  <2>4. CASE failJob(a) /\ fail(j, a)
    <3>1. ~FailsForGood(j, a)
      <4>1. \/ disturbed' = (disturbed \/ FailsForGood(j, a))
            \/ ~OwnedBy(j, a)
        BY <2>4, Zenon DEF failJob
      <4>2. CASE disturbed' = (disturbed \/ FailsForGood(j, a))
        BY <1>7, <4>2, Zenon
      <4>3. CASE ~OwnedBy(j, a)
        BY <4>3 DEF FailsForGood
      <4>. QED  BY <4>1, <4>2, <4>3
    <3>2. failRetry(j, a)
      BY <2>1, <2>4, <3>1, NoneCancelled DEF fail, failCancelled, failForGood
    <3>3. /\ j \in Rows /\ Rows' = Rows /\ UNCHANGED batchState
          /\ \A k \in Rows \ {j} : jobs'[k] = jobs[k]
      BY <1>0, <3>2 DEF failRetry, OwnedBy, TypeOK, Rows
    <3>4. jobs'[j].status = "queued"
      BY <1>0, <3>2 DEF failRetry, OwnedBy, TypeOK, Job
    <3>5. ASSUME NEW k \in Rows, Promising(k) PROVE Promising(k)'
      <4>1. PICK i : i = j
        OBVIOUS
      <4>2. CASE k = i
        BY <3>4, <4>1, <4>2 DEF Promising, OwnedBy, Active
      <4>3. CASE k # i
        BY <1>4, <2>1, <3>3, <3>5, <4>1, <4>3 DEF Promising, OwnedBy
      <4>. QED  BY <4>2, <4>3
    <3>. QED  BY <3>3, <3>5
  <2>. QED  BY <2>2, <2>3, <2>4 DEF completeJob, failJob
<1>8. CancelRecorded'
  BY <1>1, <1>2, <1>4, <1>7 DEF CoverInv, CancelRecorded
<1>9. InputsCovered'
  <2>1. CASE disturbed'
    BY <2>1 DEF InputsCovered, Excused
  <2>2. CASE ~disturbed'
    <3>1. Excused => Excused'
      BY <1>1, <1>2, <1>7, <2>2 DEF Excused, Relisted
    <3>. QED  BY <1>1, <1>7, <2>2, <3>1, CoverLasts
  <2>. QED  BY <2>1, <2>2
<1>. QED  BY <1>5, <1>6, <1>8, <1>9

\* The claim route: a claim hands a job to an adapter that has yet to work on
\* it; a token stop is on record.
LEMMA ClaimCovers ==
  ASSUME CoverInv, TypesInv', NEW a \in Adapters, claimRoute(a) \/ overBudget(a)
  PROVE  CancelRecorded' /\ DoneCounted' /\ EdgeMade' /\ InputsCovered'
<1>0. WorkOK /\ TypeOK
  BY DEF CoverInv, TypesInv
<1>1. CASE claimRoute(a)
  <2>1. UNCHANGED <<batchState, node, edges, payload, dispatch, request, cut, disturbed>>
    BY <1>1 DEF claimRoute, claim, claimNothing
  <2>2. /\ \A c \in Adapters \ {a} : work'[c] = work[c]
        /\ work'[a] = work[a] \/ work'[a].at \in {"budget", "claimed"}
    BY <1>0, <1>1 DEF claimRoute, WorkOK
  <2>3. CancelRecorded' /\ DoneCounted'
    BY <2>1, <2>2 DEF CoverInv, CancelRecorded, DoneCounted
  <2>4. EdgeMade'
    BY <2>1, <2>2 DEF CoverInv, EdgeMade, Input
  <2>5. Excused => Excused'
    BY <2>1 DEF Excused, Relisted
  <2>6. ASSUME ~disturbed, NEW k \in Rows, Promising(k)
        PROVE  k \in Rows' /\ Promising(k)'
    <3>1. Finalised(topic) = {}
      BY <2>6, NoneCancelled DEF Finalised, Passed
    <3>2. PICK i \in Rows : claim(topic, a, i) /\ work'[a].at \in {"budget", "claimed"}
      BY <1>0, <1>1, <3>1 DEF claimRoute, claimNothing, WorkOK
    <3>3. /\ Rows' = Rows
          /\ \A h \in Rows \ {i} : jobs'[h] = jobs[h]
          /\ jobs'[i] = Leased(jobs[i], a)
      BY <3>1, <3>2 DEF claim, Rows
    <3>4. jobs'[i].status = "running" /\ jobs'[i].claimedBy = a
      BY <1>0, <3>3 DEF Leased, TypeOK, Job
    <3>5. CASE k = i
      BY <3>2, <3>3, <3>4, <3>5 DEF Promising, OwnedBy, Active
    <3>6. CASE k # i
      BY <2>2, <2>6, <3>2, <3>3, <3>6 DEF Promising, OwnedBy
    <3>. QED  BY <3>3, <3>5, <3>6
  <2>7. InputsCovered'
    <3>1. CASE disturbed
      BY <2>1, <3>1 DEF InputsCovered, Excused
    <3>2. CASE ~disturbed
      BY <2>1, <2>5, <2>6, <3>2, CoverLasts
    <3>. QED  BY <3>1, <3>2
  <2>. QED  BY <2>3, <2>4, <2>7
<1>2. CASE overBudget(a)
  <2>1. /\ disturbed' /\ Move(a, "pausing")
        /\ UNCHANGED <<node, edges, payload>>
    BY <1>2 DEF overBudget, Step
  <2>2. work'[a].at = "pausing" /\ \A c \in Adapters \ {a} : work'[c] = work[c]
    BY <1>0, <2>1, MoveSteps
  <2>3. EdgeMade'
    BY <2>1, <2>2, EdgesLast
  <2>4. DoneCounted'
    BY <2>1, <2>2 DEF CoverInv, DoneCounted
  <2>. QED  BY <2>1, <2>3, <2>4 DEF CancelRecorded, InputsCovered, Excused
<1>. QED  BY <1>1, <1>2

\* Time changes no status; a restart leaves the tables and the edges alone
\* and is on record when it interrupts a dispatch or a request.
LEMMA OthersCover ==
  ASSUME CoverInv, TypesInv', Passes \/ restart
  PROVE  CancelRecorded' /\ DoneCounted' /\ EdgeMade' /\ InputsCovered'
<1>0. TypeOK /\ WorkOK
  BY DEF CoverInv, TypesInv
<1>1. CASE Passes
  <2>1. /\ UNCHANGED <<batchState, node, edges, payload, dispatch, request, work, cut, disturbed>>
        /\ Rows' = Rows
    BY <1>1 DEF Passes, LeaseExpires, BackoffElapses, bvars, Rows
  <2>2. \A k \in Rows : /\ jobs'[k].status = jobs[k].status
                        /\ jobs'[k].claimedBy = jobs[k].claimedBy
    BY <1>0, <1>1 DEF Passes, LeaseExpires, BackoffElapses, TypeOK, Job
  <2>3. \A k \in Rows : Promising(k) => Promising(k)'
    BY <2>1, <2>2 DEF Promising, OwnedBy
  <2>4. Excused => Excused'
    BY <2>1 DEF Excused, Relisted
  <2>5. InputsCovered'
    BY <2>1, <2>3, <2>4, CoverLasts
  <2>. QED  BY <2>1, <2>5 DEF CoverInv, CancelRecorded, DoneCounted, EdgeMade, Input
<1>2. CASE restart
  <2>1. /\ UNCHANGED <<jobs, batchState, node, edges, payload, disturbed>>
        /\ cut' <=> cut \/ dispatch' # dispatch \/ request' # request
    BY <1>2 DEF restart, vars
  <2>2. \A c \in Adapters : work'[c] = work[c] \/ (work'[c].at = "idle" /\ work'[c].job = 0)
    BY <1>2 DEF restart, NoJob
  <2>3. \A r \in Requests : request'[r].at \in {request[r].at, "over"}
    BY <1>2 DEF restart
  <2>4. CancelRecorded' /\ DoneCounted' /\ EdgeMade'
    BY <2>1, <2>2, <2>3 DEF CoverInv, CancelRecorded, DoneCounted, EdgeMade, Input
  <2>5. CASE cut'
    BY <2>4, <2>5 DEF InputsCovered, Excused
  <2>6. CASE ~cut'
    <3>1. UNCHANGED <<dispatch, request>> /\ ~cut
      BY <2>1, <2>6
    <3>2. Excused => Excused'
      BY <2>1, <3>1 DEF Excused, Relisted
    <3>3. \A k \in Rows : Promising(k) => k \in Rows' /\ Promising(k)'
      BY <2>1, <2>2 DEF Promising, OwnedBy, Rows
    <3>4. InputsCovered'
      BY <2>1, <3>1, <3>2, <3>3, CoverLasts
    <3>. QED  BY <2>4, <3>4
  <2>. QED  BY <2>5, <2>6
<1>. QED  BY <1>1, <1>2

\* No step leaves the invariant.
LEMMA CoverInductive ==
  CoverInv /\ [BatchNext]_<<vars, bvars>> => CoverInv'
<1>1. ASSUME CoverInv, [BatchNext]_<<vars, bvars>> PROVE TypesInv' /\ PauseInv'
  BY <1>1, TypesInductive, PauseInvInductive DEF CoverInv
<1>2. ASSUME CoverInv, TypesInv', BatchNext
      PROVE  CancelRecorded' /\ DoneCounted' /\ EdgeMade' /\ InputsCovered'
  <2>1. CASE \E d \in Dispatchers : dispatchBatchFiles(d)
    BY <1>2, <2>1, DispatchCovers
  <2>2. CASE \E r \in Requests : PauseRequest(r) \/ ResumeRequest(r) \/ CancelRequest(r)
    BY <1>2, <2>2, PauseCovers, ResumeCovers, CancelCovers
  <2>3. CASE \E a \in Adapters : ClaimRequest(a) \/ Result(a)
    BY <1>2, <2>3, ClaimCovers, CallbackCovers, ReportCovers DEF ClaimRequest, Result
  <2>4. CASE Passes \/ restart
    BY <1>2, <2>4, OthersCover
  <2>. QED  BY <1>2, <2>1, <2>2, <2>3, <2>4 DEF BatchNext
<1>3. ASSUME CoverInv, UNCHANGED <<vars, bvars>>
      PROVE  CancelRecorded' /\ DoneCounted' /\ EdgeMade' /\ InputsCovered'
  <2>1. UNCHANGED <<jobs, batchState, node, edges, payload, dispatch, request, work,
                    cut, disturbed>>
    BY <1>3 DEF vars, bvars
  <2>2. CancelRecorded' /\ DoneCounted' /\ EdgeMade'
    BY <1>3, <2>1 DEF CoverInv, CancelRecorded, DoneCounted, EdgeMade, Input
  <2>3. \A k \in Rows : Promising(k) => k \in Rows' /\ Promising(k)'
    BY <2>1 DEF Promising, OwnedBy, Rows
  <2>4. Excused => Excused'
    BY <2>1 DEF Excused, Relisted
  <2>5. InputsCovered'
    BY <1>3, <2>1, <2>3, <2>4, CoverLasts
  <2>. QED  BY <2>2, <2>5
<1>. QED  BY <1>1, <1>2, <1>3 DEF CoverInv

\* It holds when queueSet has answered: every input is on the list of the
\* first dispatcher.
LEMMA CoverInit == BatchInit => CoverInv
<1>. SUFFICES ASSUME BatchInit PROVE CoverInv
  OBVIOUS
<1>1. TypesInv /\ PauseInv
  BY TypesInit, PauseInvInit
<1>2. node.status = "running" /\ \A a \in Adapters : work[a].at = "idle"
  BY DEF BatchInit, NoJob
<1>3. CancelRecorded
  BY <1>2 DEF BatchInit, Init, CancelRecorded
<1>4. DoneCounted /\ EdgeMade
  BY <1>2 DEF DoneCounted, EdgeMade
<1>5. First \in Dispatchers /\ dispatch[First].todo = Inputs
  BY DEF BatchInit, Dispatchers
<1>6. InputsCovered
  BY <1>5 DEF InputsCovered, Covered
<1>. QED  BY <1>1, <1>3, <1>4, <1>6 DEF CoverInv

\* However pauses, resumes, lapsed leases, retries and results interleave, a
\* running batch whose dispatch is over has forgotten no input.
THEOREM InputsNotForgotten == BatchSpec => []NoInputForgotten
<1>1. CoverInv => NoInputForgotten
  <2>1. SUFFICES ASSUME CoverInv, Settled, batchState[batch] = "none", ~disturbed,
                        ~AllProcessed(node.processed), NEW f \in Inputs
                 PROVE  f \in edges \cup Missing \/ Waiting(f)
    BY DEF NoInputForgotten
  <2>2. ~Excused
    BY <2>1 DEF Excused, Relisted, Settled, Pending
  <2>3. Covered(f)
    BY <2>1, <2>2 DEF CoverInv, InputsCovered
  <2>4. /\ \A d \in Dispatchers : dispatch[d].todo = {}
        /\ \A r \in Requests : request[r].at # "resumeStart"
    BY <2>1 DEF Settled, Ended, Pending
  <2>. QED  BY <2>3, <2>4 DEF Covered, Waiting, Promising
<1>. QED  BY <1>1, CoverInit, CoverInductive, PTL DEF BatchSpec

\* The batch holds together: its types, its inputs and its stops.
THEOREM BatchHoldsTogether == BatchSpec => []BatchIsSafe
BY BatchTypesKept, InputsNotForgotten, PausedBatchesAreStopped, PTL DEF BatchIsSafe

-----------------------------------------------------------------------------
(* A batch that is done has every output, unless inputs had two jobs or    *)
(* jobs two holders: unless a resume was asked for or a lease ran out.      *)

OpenSteps == {"budget", "claimed", "creating", "created", "counting", "erring", "erred"}
HeldSteps == OpenSteps \cup {"finishing", "answered"}

ResumeSteps ==
  {"resumeQueue", "resumeMark", "resumeSelect", "resumeStart", "resumeLast"}

\* While leases last the job of a busy adapter is its own.
HeldJobs ==
  \A a \in Adapters : work[a].at \in HeldSteps => OwnedBy(work[a].job, a)

\* Without a resume an input is published at most once.
OneJobEach ==
  /\ \A i, j \in 1..lastId : payload[i] = payload[j] => i = j
  /\ \A d \in Dispatchers, j \in 1..lastId : payload[j] \notin dispatch[d].todo
  /\ \A r \in Requests : request[r].at \notin ResumeSteps /\ dispatch[r].todo = {}

\* A job whose output has yet to be counted.
Open(j) ==
  /\ j \in Rows
  /\ \/ jobs[j].status = "queued"
     \/ \E a \in Adapters : work[a].job = j /\ work[a].at \in OpenSteps

CountedInputs == {f \in edges : \E j \in 1..lastId : payload[j] = f /\ ~Open(j)}

\* The counter never runs ahead of the outputs.
CountKept == node.processed <= Cardinality(CountedInputs)

DoneInv == CoverInv /\ LeasesLive /\ HeldJobs /\ OneJobEach /\ CountKept

\* Pausing and cancelling delete rows, none of them running.
LEMMA StopSpares ==
  ASSUME TypeOK, pauseBatch(batch) \/ cancelBatch(batch)
  PROVE  Spares({})
<1>1. PICK S \in SUBSET (Rows \ Running(jobs)) : jobs' = Delete(jobs, S)
  <2>1. CASE jobs' = drainByProcess(jobs, batch)
    BY <2>1, DrainSparesRunning DEF Rows
  <2>2. CASE \E cutoff \in Cutoffs : jobs' = CancelledTable(jobs, batch, cutoff)
    BY <2>2, CancelSparesRunning DEF Rows
  <2>. QED  BY <2>1, <2>2 DEF pauseBatch, cancelBatch
<1>. QED  BY <1>1 DEF Spares, Delete, Rows, Running

\* The jobs of adapters at work are running, each with one holder.
LEMMA HoldersDiffer ==
  ASSUME HeldJobs, NEW a \in Adapters, NEW c \in Adapters, a # c,
         work[a].at \in HeldSteps, work[c].at \in HeldSteps
  PROVE  work[a].job # work[c].job
BY DEF HeldJobs, OwnedBy

\* A step that spares the other rows and opens no job keeps leases and holders
\* and opens no job.
LEMMA SparesKeeps ==
  ASSUME TypeOK, LeasesLive, HeldJobs, NEW S, Spares(S),
         \A k \in S \cap Rows' :
           /\ jobs'[k].status = "running" => jobs'[k].lease = "live" /\ jobs'[k].attempts >= 1
           /\ jobs'[k].status = "queued" => Open(k),
         \A c \in Adapters : work'[c].at \in HeldSteps =>
           \/ /\ work'[c].job = work[c].job /\ work[c].at \in HeldSteps
              /\ work[c].job \notin S
           \/ OwnedBy(work[c].job, c)',
         \A c \in Adapters : work'[c].at \in OpenSteps => Open(work'[c].job)
  PROVE  /\ LeasesLive' /\ HeldJobs'
         /\ \A j : Open(j)' => Open(j)
<1>1. \A k \in Rows' : k \in Rows /\ (k \notin S => jobs'[k] = jobs[k])
  BY DEF Spares
<1>2. LeasesLive'
  BY <1>1 DEF LeasesLive
<1>3. HeldJobs'
  <2>1. SUFFICES ASSUME NEW c \in Adapters, work'[c].at \in HeldSteps,
                        work'[c].job = work[c].job, work[c].at \in HeldSteps,
                        work[c].job \notin S
                 PROVE  OwnedBy(work[c].job, c)'
    BY DEF HeldJobs
  <2>2. OwnedBy(work[c].job, c)
    BY <2>1 DEF HeldJobs
  <2>. QED  BY <2>1, <2>2 DEF OwnedBy, Spares
<1>4. ASSUME NEW j, Open(j)' PROVE Open(j)
  <2>1. j \in Rows' /\ j \in Rows
    BY <1>1, <1>4 DEF Open
  <2>2. CASE jobs'[j].status = "queued"
    BY <1>1, <2>1, <2>2 DEF Open
  <2>3. CASE \E c \in Adapters : work'[c].job = j /\ work'[c].at \in OpenSteps
    BY <2>3
  <2>. QED  BY <1>4, <2>2, <2>3 DEF Open
<1>. QED  BY <1>2, <1>3, <1>4

\* Counted inputs are finitely many, and stay counted.
LEMMA CountedLast ==
  ASSUME TypesInv, TypesInv', lastId' >= lastId,
         \A j \in 1..lastId : payload'[j] = payload[j],
         edges \subseteq edges', \A j \in 1..lastId : Open(j)' => Open(j)
  PROVE  /\ CountedInputs \subseteq CountedInputs'
         /\ IsFiniteSet(CountedInputs) /\ IsFiniteSet(CountedInputs')
         /\ Cardinality(CountedInputs) \in Nat
         /\ Cardinality(CountedInputs') \in Nat
         /\ Cardinality(CountedInputs) <= Cardinality(CountedInputs')
<1>1. 1..lastId \subseteq 1..lastId'
  BY JobQueueConstants DEF TypesInv, TypeOK
<1>2. CountedInputs \subseteq CountedInputs'
  BY <1>1 DEF CountedInputs
<1>3. IsFiniteSet(Inputs)
  BY BatchConstants, FS_Interval DEF Inputs
<1>4. CountedInputs \subseteq Inputs /\ CountedInputs' \subseteq Inputs
  BY DEF CountedInputs, TypesInv, RestOK
<1>. QED  BY <1>2, <1>3, <1>4, FS_Subset, FS_CardinalityType

\* So the count keeps, as long as the counter does not move.
LEMMA CountLasts ==
  ASSUME DoneInv, TypesInv', lastId' >= lastId,
         \A j \in 1..lastId : payload'[j] = payload[j],
         edges \subseteq edges', \A j \in 1..lastId : Open(j)' => Open(j),
         node'.processed = node.processed
  PROVE  CountKept'
<1>1. node.processed \in Nat /\ TypesInv
  BY DEF DoneInv, CoverInv, TypesInv, RestOK, NodeType
<1>. QED  BY <1>1, CountedLast DEF DoneInv, CountKept

\* A dispatcher publishes an input once: it is on no list afterwards.
LEMMA DispatchCounts ==
  ASSUME DoneInv, TypesInv', NEW d \in Dispatchers, dispatchBatchFiles(d)
  PROVE  LeasesLive' /\ HeldJobs' /\ OneJobEach' /\ CountKept'
<1>0. /\ dispatch \in [Dispatchers -> [todo: SUBSET Inputs, checked: BOOLEAN]]
      /\ TypeOK /\ WorkOK /\ lastId \in Nat /\ Rows \subseteq 1..lastId
  BY JobQueueConstants DEF DoneInv, CoverInv, TypesInv, DispatchOK, TypeOK
<1>1. UNCHANGED <<node, edges, request, work>>
  BY DEF dispatchBatchFiles, dispatchCheck, dispatchPublish
<1>2. CASE dispatchCheck(d)
  <2>1. UNCHANGED <<jobs, lastId, payload>>
    BY <1>2 DEF dispatchCheck, vars
  <2>2. \A c \in Dispatchers : dispatch'[c].todo \subseteq dispatch[c].todo
    BY <1>0, <1>2 DEF dispatchCheck, Ended
  <2>3. OneJobEach'
    BY <1>1, <2>1, <2>2 DEF DoneInv, OneJobEach, Dispatchers
  <2>4. LeasesLive' /\ HeldJobs'
    BY <1>1, <2>1 DEF DoneInv, LeasesLive, HeldJobs, OwnedBy, Rows
  <2>5. \A j : Open(j)' => Open(j)
    BY <1>1, <2>1 DEF Open, Rows
  <2>6. CountKept'
    BY <1>0, <1>1, <2>1, <2>5, CountLasts
  <2>. QED  BY <2>3, <2>4, <2>6
<1>3. CASE dispatchPublish(d)
  <2>1. PICK limit \in AttemptLimits : publish(topic, Shape, limit)
    BY <1>3 DEF dispatchPublish
  <2>. PICK new : new = lastId + 1
    OBVIOUS
  <2>2. /\ Rows' = Rows \cup {new} /\ lastId' = new
        /\ \A j \in Rows : jobs'[j] = jobs[j]
        /\ jobs'[new].status = "queued"
    <3>1. Shape \in [kind: {"plain", "batch"}, process: Rids \cup {NoRid},
                     setProcess: Rids \cup {NoRid}]
      BY BatchConstants DEF Shape
    <3>2. topic \in Topics /\ limit \in Nat \ {0}
      BY BatchConstants, JobQueueConstants
    <3>. QED  BY <1>0, <2>1, <3>1, <3>2, PublishInserts
  <2>. PICK file : file = NextFile(d)
    OBVIOUS
  <2>3. file \in dispatch[d].todo /\ file \in Inputs
    BY <1>3, NextFileListed DEF dispatchPublish, DoneInv, CoverInv, TypesInv, DispatchOK
  <2>4. /\ \A j \in 1..lastId : payload'[j] = payload[j]
        /\ payload'[new] = file
    <3>1. payload \in Seq(Inputs) /\ Len(payload) = lastId
      BY DEF DoneInv, CoverInv, TypesInv, PayloadOK
    <3>2. payload' = Append(payload, file)
      BY <1>3 DEF dispatchPublish
    <3>. QED  BY <2>3, <3>1, <3>2
  <2>5. /\ 1..new = 1..lastId \cup {new}
        /\ \A j \in 1..lastId : j # new
    BY <1>0
  <2>6. /\ dispatch'[d].todo = dispatch[d].todo \ {file}
        /\ \A c \in Dispatchers \ {d} : dispatch'[c] = dispatch[c]
    BY <1>0, <1>3 DEF dispatchPublish
  <2>7. d = First /\ \A c \in Dispatchers \ {d} : dispatch[c].todo = {}
    BY <2>3 DEF DoneInv, OneJobEach, Dispatchers
  <2>8. OneJobEach'
    <3>1. \A i, j \in 1..new : payload'[i] = payload'[j] => i = j
      BY <2>3, <2>4, <2>5 DEF DoneInv, OneJobEach
    <3>2. \A c \in Dispatchers, j \in 1..new : payload'[j] \notin dispatch'[c].todo
      <4>1. \A j \in 1..new : payload'[j] \notin dispatch'[d].todo
        BY <2>4, <2>5, <2>6 DEF DoneInv, OneJobEach
      <4>. QED  BY <2>6, <2>7, <4>1
    <3>3. \A r \in Requests : request'[r].at \notin ResumeSteps /\ dispatch'[r].todo = {}
      BY <1>1, <2>6, <2>7, BatchConstants DEF DoneInv, OneJobEach, Dispatchers
    <3>. QED  BY <2>2, <3>1, <3>2, <3>3 DEF OneJobEach
  <2>9. LeasesLive' /\ HeldJobs'
    BY <1>1, <2>2 DEF DoneInv, LeasesLive, HeldJobs, OwnedBy
  <2>10. ASSUME NEW j \in 1..lastId, Open(j)' PROVE Open(j)
    BY <1>1, <2>2, <2>5, <2>10 DEF Open
  <2>11. lastId' >= lastId
    BY <1>0, <2>2
  <2>12. CountKept'
    BY <1>1, <2>4, <2>10, <2>11, CountLasts
  <2>. QED  BY <2>8, <2>9, <2>12
<1>. QED  BY <1>2, <1>3 DEF dispatchBatchFiles

\* Requests other than a resume start no job and count nothing.
LEMMA RequestCounts ==
  ASSUME DoneInv, TypesInv', "resume" \notin Asked, NEW r \in Requests,
         PauseRequest(r) \/ ResumeRequest(r) \/ CancelRequest(r)
  PROVE  LeasesLive' /\ HeldJobs' /\ OneJobEach' /\ CountKept'
<1>0. TypeOK /\ lastId \in Nat /\ node \in NodeType /\ request \in RequestType
  BY JobQueueConstants DEF DoneInv, CoverInv, TypesInv, TypeOK, RestOK
<1>1. ~ResumeRequest(r)
  BY DEF ResumeRequest, resumeCheck, resumeQueue, resumeMark, resumeSelect, resumeStart,
         resumeLast, Ask, AtStep, DoneInv, OneJobEach, ResumeSteps
<1>2. UNCHANGED <<edges, payload, work, dispatch, lastId>>
  BY <1>1 DEF PauseRequest, pauseNode, pauseQueue, pauseBatch, CancelRequest, cancelNode,
              cancelQueue, cancelLast, cancelBatch, vars
<1>3. node'.processed = node.processed
  BY <1>0, <1>1 DEF PauseRequest, pauseNode, pauseQueue, CancelRequest, cancelNode,
                    cancelQueue, cancelLast, SetStatus, NodeType
<1>4. Spares({})
  <2>1. CASE pauseQueue(r) \/ cancelQueue(r)
    BY <1>0, <2>1, StopSpares DEF pauseQueue, cancelQueue
  <2>2. CASE UNCHANGED jobs
    BY <2>2 DEF Spares, Rows
  <2>. QED  BY <1>1, <2>1, <2>2 DEF PauseRequest, pauseNode, CancelRequest, cancelNode,
                                    cancelLast, vars
<1>5. \A q \in Requests : request'[q].at \notin ResumeSteps
  <2>1. \E s \in {"pauseQueue", "cancelQueue", "cancelLast", "over"} : Goto(r, s)
    BY <1>1 DEF PauseRequest, pauseNode, pauseQueue, CancelRequest, cancelNode,
                cancelQueue, cancelLast, AtStep
  <2>. QED  BY <1>0, <2>1, RequestMoved
            DEF DoneInv, OneJobEach, ResumeSteps, RequestSteps, Pending
<1>6. OneJobEach'
  BY <1>2, <1>5 DEF DoneInv, OneJobEach
<1>7. /\ LeasesLive' /\ HeldJobs'
      /\ \A j : Open(j)' => Open(j)
  <2>1. \A c \in Adapters : work[c].at \in OpenSteps => Open(work[c].job)
    BY DEF DoneInv, HeldJobs, HeldSteps, OwnedBy, Open
  <2>. QED  BY <1>0, <1>2, <1>4, <2>1, SparesKeeps DEF DoneInv
<1>8. CountKept'
  BY <1>0, <1>2, <1>3, <1>7, CountLasts
<1>. QED  BY <1>6, <1>7, <1>8

\* What the steps of an adapter leave alone.
LEMMA AdapterKeepsOne ==
  ASSUME DoneInv, UNCHANGED <<lastId, payload, dispatch, request>>
  PROVE  OneJobEach'
BY DEF DoneInv, OneJobEach

\* The job of an adapter before its answer is open.
LEMMA OpenAtWork ==
  ASSUME HeldJobs, NEW a \in Adapters, work[a].at \in HeldSteps
  PROVE  /\ OwnedBy(work[a].job, a) /\ work[a].job \in Rows
         /\ work[a].at \in OpenSteps => Open(work[a].job)
BY DEF HeldJobs, HeldSteps, OwnedBy, Open

\* A step of one adapter on its own job, counting nothing: the rows outside S,
\* which no other adapter holds, stay.
LEMMA OwnStepCounts ==
  ASSUME DoneInv, TypesInv', NEW a \in Adapters, NEW S, Spares(S),
         UNCHANGED <<lastId, payload>>, edges \subseteq edges',
         node'.processed = node.processed,
         \A c \in Adapters \ {a} : work'[c] = work[c],
         \A c \in Adapters \ {a} : work[c].at \in HeldSteps => work[c].job \notin S,
         \A k \in S \cap Rows' :
           /\ jobs'[k].status = "running" => jobs'[k].lease = "live" /\ jobs'[k].attempts >= 1
           /\ jobs'[k].status = "queued" => Open(k),
         work'[a].at \in HeldSteps =>
           \/ /\ work'[a].job = work[a].job /\ work[a].at \in HeldSteps
              /\ work[a].job \notin S
           \/ OwnedBy(work[a].job, a)',
         work'[a].at \in OpenSteps => Open(work'[a].job)
  PROVE  LeasesLive' /\ HeldJobs' /\ CountKept'
<1>1. \A c \in Adapters : work'[c].at \in HeldSteps =>
        \/ /\ work'[c].job = work[c].job /\ work[c].at \in HeldSteps
           /\ work[c].job \notin S
        \/ OwnedBy(work[c].job, c)'
  OBVIOUS
<1>2. \A c \in Adapters : work'[c].at \in OpenSteps => Open(work'[c].job)
  BY OpenAtWork DEF DoneInv, HeldSteps
<1>3. /\ LeasesLive' /\ HeldJobs'
      /\ \A j : Open(j)' => Open(j)
  BY <1>1, <1>2, SparesKeeps DEF DoneInv, CoverInv, TypesInv
<1>4. lastId' >= lastId
  BY JobQueueConstants DEF DoneInv, CoverInv, TypesInv, TypeOK
<1>5. CountKept'
  BY <1>3, <1>4, CountLasts
<1>. QED  BY <1>3, <1>5

\* A claim takes a waiting job; a token stop ends the job it claimed.
LEMMA ClaimCounts ==
  ASSUME DoneInv, TypesInv', NEW a \in Adapters, claimRoute(a) \/ overBudget(a)
  PROVE  LeasesLive' /\ HeldJobs' /\ CountKept'
<1>0. TypeOK /\ WorkOK /\ LeasesLive /\ HeldJobs
  BY DEF DoneInv, CoverInv, TypesInv
<1>1. UNCHANGED <<lastId, payload, edges, node>>
  BY DEF claimRoute, claim, claimNothing, overBudget
<1>2. CASE claimRoute(a) /\ claimNothing(topic) /\ UNCHANGED work
  <2>1. /\ Spares(Finalised(topic))
        /\ \A k \in Finalised(topic) :
             k \in Rows /\ jobs[k].status = "queued" /\ jobs'[k].status = "cancelled"
    BY <1>0, <1>2, ClaimSpares
  <2>2. \A c \in Adapters : work[c].at \in HeldSteps => work[c].job \notin Finalised(topic)
    BY <1>0, <2>1, OpenAtWork DEF OwnedBy
  <2>3. work[a].at = "idle"
    BY <1>2 DEF claimRoute
  <2>. QED  BY <1>1, <1>2, <2>1, <2>2, <2>3, OwnStepCounts DEF HeldSteps, OpenSteps
<1>3. ASSUME NEW i \in Rows, claim(topic, a, i),
             work' = [work EXCEPT ![a] =
                        [job |-> i, at |-> IF Budget THEN "budget" ELSE "claimed"]]
      PROVE  LeasesLive' /\ HeldJobs' /\ CountKept'
  <2>. DEFINE S == Finalised(topic) \cup {i}
  <2>1. /\ Spares(S)
        /\ \A k \in S : k \in Rows /\ jobs[k].status = "queued"
        /\ \A k \in Finalised(topic) \ {i} : jobs'[k].status = "cancelled"
        /\ i \in Rows' /\ jobs'[i].status = "running" /\ jobs'[i].lease = "live"
        /\ jobs'[i].claimedBy = a /\ jobs'[i].attempts >= 1
    BY <1>0, <1>3, ClaimSpares
  <2>2. \A c \in Adapters : work[c].at \in HeldSteps => work[c].job \notin S
    BY <1>0, <2>1, OpenAtWork DEF OwnedBy
  <2>3. /\ work'[a].job = i
        /\ \A c \in Adapters \ {a} : work'[c] = work[c]
    BY <1>0, <1>3 DEF WorkOK
  <2>4. OwnedBy(work[a].job, a)'
    BY <2>1, <2>3 DEF OwnedBy
  <2>5. Open(i)
    BY <2>1 DEF Open
  <2>6. \A k \in S : jobs'[k].status = "running" => k = i
    BY <2>1
  <2>7. \A k \in S : jobs'[k].status # "queued"
    BY <2>1
  <2>. HIDE DEF S
  <2>. QED  BY <1>1, <2>1, <2>2, <2>3, <2>4, <2>5, <2>6, <2>7, OwnStepCounts
<1>4. CASE overBudget(a)
  <2>. PICK j : j = work[a].job
    OBVIOUS
  <2>1. /\ work[a].at = "budget"
        /\ work'[a].at = "pausing"
        /\ \A c \in Adapters \ {a} : work'[c] = work[c]
    BY <1>0, <1>4, MoveSteps DEF overBudget, Step
  <2>2. OwnedBy(j, a)
    BY <1>0, <2>1, OpenAtWork DEF HeldSteps, OpenSteps
  <2>. DEFINE marked == [k \in Rows |-> IF k \in {j} THEN Closed(jobs[k], "cancelled")
                                                     ELSE jobs[k]]
  <2>3. jobs' = drainByProcess(marked, batch)
    BY <1>4, <2>2 DEF overBudget, Update, OwnedBy, Active
  <2>4. /\ DOMAIN marked = Rows /\ marked[j].status = "cancelled"
        /\ \A k \in Rows \ {j} : marked[k] = jobs[k]
    <3>1. j \in Rows /\ Closed(jobs[j], "cancelled").status = "cancelled"
      BY <1>0, <2>2 DEF Closed, OwnedBy, TypeOK, Job
    <3>. QED  BY <3>1
  <2>. HIDE DEF marked
  <2>5. PICK T \in SUBSET (DOMAIN marked \ Running(marked)) : jobs' = Delete(marked, T)
    BY <2>3, DrainSparesRunning
  <2>6. Spares({j}) /\ \A k \in {j} \cap Rows' : jobs'[k].status = "cancelled"
    BY <2>4, <2>5 DEF Spares, Delete, Rows, Running
  <2>7. \A c \in Adapters \ {a} : work[c].at \in HeldSteps => work[c].job \notin {j}
    BY <1>0, <2>1, HoldersDiffer DEF HeldSteps, OpenSteps
  <2>. QED  BY <1>1, <2>1, <2>6, <2>7, OwnStepCounts DEF HeldSteps, OpenSteps
<1>. QED  BY <1>2, <1>3, <1>4 DEF claimRoute

\* The callbacks: an output is counted when its job is no longer open.
LEMMA CallbackCounts ==
  ASSUME DoneInv, TypesInv', NEW a \in Adapters,
         \/ withinBudget(a) \/ stopOverBudget(a) \/ resultCheck(a)
         \/ createProcessFile(a) \/ notifyOutput(a) \/ incrementProcessed(a)
         \/ finishBatch(a) \/ incrementFailed(a) \/ createErrorNode(a)
         \/ markAborted(a)
  PROVE  LeasesLive' /\ HeldJobs' /\ CountKept'
<1>0. /\ TypeOK /\ WorkOK /\ LeasesLive /\ HeldJobs /\ node \in NodeType
      /\ TypesInv
  BY DEF DoneInv, CoverInv, TypesInv, RestOK
<1>1. UNCHANGED <<vars, payload>> /\ edges \subseteq edges'
  BY DEF withinBudget, stopOverBudget, resultCheck, createProcessFile, notifyOutput,
         incrementProcessed, finishBatch, incrementFailed, createErrorNode, markAborted
<1>2. Spares({}) /\ UNCHANGED lastId
  BY <1>1 DEF vars, Spares, Rows
<1>3. CASE stopOverBudget(a) \/ markAborted(a)
  <2>1. Finish(a) /\ node'.processed = node.processed
    BY <1>0, <1>3 DEF stopOverBudget, markAborted, SetStatus, NodeType
  <2>. QED  BY <1>0, <1>1, <1>2, <2>1, FinishSteps, OwnStepCounts DEF HeldSteps, OpenSteps
<1>4. CASE \/ withinBudget(a) \/ resultCheck(a) \/ createProcessFile(a) \/ notifyOutput(a)
           \/ incrementFailed(a) \/ createErrorNode(a)
  <2>1. work[a].at \in OpenSteps /\ \E s : Move(a, s)
    BY <1>4 DEF withinBudget, resultCheck, createProcessFile, notifyOutput,
                incrementFailed, createErrorNode, Step, OpenSteps
  <2>2. node'.processed = node.processed
    BY <1>0, <1>4 DEF withinBudget, resultCheck, createProcessFile, notifyOutput,
                      incrementFailed, createErrorNode, NodeType
  <2>3. Open(work[a].job)
    BY <1>0, <2>1, OpenAtWork DEF HeldSteps
  <2>. QED  BY <1>0, <1>1, <1>2, <2>1, <2>2, <2>3, MoveSteps, OwnStepCounts DEF HeldSteps
<1>5. CASE finishBatch(a)
  <2>1. /\ work[a].at = "finishing" /\ Move(a, "answered")
        /\ node'.processed = node.processed
    BY <1>0, <1>5 DEF finishBatch, Step, SetStatus, NodeType
  <2>. QED  BY <1>0, <1>1, <1>2, <2>1, MoveSteps, OwnStepCounts DEF HeldSteps, OpenSteps
<1>6. CASE incrementProcessed(a)
  <2>. PICK j : j = work[a].job
    OBVIOUS
  <2>1. /\ work[a].at = "counting"
        /\ \E s \in {"finishing", "answered"} : Move(a, s)
        /\ node'.processed = node.processed + 1
    BY <1>0, <1>6 DEF incrementProcessed, Step, NodeType
  <2>2. /\ work'[a].job = j /\ work'[a].at \in {"finishing", "answered"}
        /\ \A c \in Adapters \ {a} : work'[c] = work[c]
    BY <1>0, <2>1, MoveSteps
  <2>3. OwnedBy(j, a) /\ Open(j) /\ j \in 1..lastId /\ payload[j] \in edges
    <3>1. OwnedBy(j, a) /\ Open(j)
      BY <1>0, <2>1, OpenAtWork DEF HeldSteps, OpenSteps
    <3>2. j \in 1..lastId
      BY <1>0, <2>1, InputListed
    <3>3. payload[j] \in edges
      BY <2>1 DEF DoneInv, CoverInv, EdgeMade, Input
    <3>. QED  BY <3>1, <3>2, <3>3
  <2>4. /\ LeasesLive' /\ HeldJobs'
        /\ \A k : Open(k)' => Open(k)
    <3>1. \A c \in Adapters : work'[c].at \in HeldSteps =>
            /\ work'[c].job = work[c].job /\ work[c].at \in HeldSteps
            /\ work[c].job \notin {}
      BY <2>1, <2>2 DEF HeldSteps, OpenSteps
    <3>2. \A c \in Adapters : work'[c].at \in OpenSteps => Open(work'[c].job)
      BY <1>0, <2>2, OpenAtWork DEF HeldSteps, OpenSteps
    <3>. QED  BY <1>0, <1>2, <3>1, <3>2, SparesKeeps
  <2>5. ~Open(j)'
    <3>1. jobs'[j].status = "running"
      BY <1>1, <2>3 DEF vars, OwnedBy
    <3>2. \A c \in Adapters : ~(work'[c].job = j /\ work'[c].at \in OpenSteps)
      BY <1>0, <2>1, <2>2, HoldersDiffer DEF HeldSteps, OpenSteps
    <3>. QED  BY <3>1, <3>2 DEF Open
  <2>. PICK file : file = payload[j]
    OBVIOUS
  <2>6. file \notin CountedInputs
    BY <2>3 DEF CountedInputs, DoneInv, OneJobEach
  <2>7. file \in CountedInputs'
    BY <1>1, <1>2, <2>3, <2>5 DEF CountedInputs
  <2>8. lastId' >= lastId
    BY <1>0, <1>2, JobQueueConstants DEF TypeOK
  <2>9. /\ CountedInputs \subseteq CountedInputs' /\ IsFiniteSet(CountedInputs)
        /\ IsFiniteSet(CountedInputs') /\ Cardinality(CountedInputs) \in Nat
        /\ Cardinality(CountedInputs') \in Nat
    BY <1>0, <1>1, <2>4, <2>8, CountedLast
  <2>10. Cardinality(CountedInputs \cup {file}) = Cardinality(CountedInputs) + 1
    BY <2>6, <2>9, FS_AddElement
  <2>11. Cardinality(CountedInputs \cup {file}) <= Cardinality(CountedInputs')
    BY <2>7, <2>9, FS_Subset
  <2>12. node.processed \in Nat /\ node.processed <= Cardinality(CountedInputs)
    BY <1>0 DEF DoneInv, CountKept, NodeType
  <2>13. CountKept'
    BY <2>1, <2>9, <2>10, <2>11, <2>12 DEF CountKept
  <2>. QED  BY <2>4, <2>13
<1>. QED  BY <1>3, <1>4, <1>5, <1>6

\* The report closes the job or gives it back uncounted.
LEMMA ReportCounts ==
  ASSUME DoneInv, TypesInv', NEW a \in Adapters, completeJob(a) \/ failJob(a)
  PROVE  LeasesLive' /\ HeldJobs' /\ CountKept'
<1>. PICK j : j = work[a].job
  OBVIOUS
<1>0. TypeOK /\ WorkOK /\ HeldJobs
  BY DEF DoneInv, CoverInv, TypesInv
<1>1. UNCHANGED <<payload, edges, node>>
  BY DEF completeJob, failJob
<1>2. work[a].at \in HeldSteps
  BY DEF completeJob, failJob, HeldSteps, OpenSteps
<1>3. OwnedBy(j, a)
  BY <1>0, <1>2, OpenAtWork
<1>4. \A c \in Adapters \ {a} : work[c].at \in HeldSteps => work[c].job \notin {j}
  BY <1>0, <1>2, HoldersDiffer
<1>5. CASE completeJob(a)
  <2>1. complete(j, a) /\ Finish(a)
    BY <1>3, <1>5 DEF completeJob
  <2>2. Spares({j}) /\ (j \in Rows' => jobs'[j].status = "done")
    BY <1>0, <2>1, CompleteSpares
  <2>3. UNCHANGED lastId
    BY <2>1 DEF complete
  <2>. QED  BY <1>0, <1>1, <1>4, <2>1, <2>2, <2>3, FinishSteps, OwnStepCounts
            DEF HeldSteps, OpenSteps
<1>6. CASE failJob(a)
  <2>1. /\ fail(j, a) /\ work[a].at \in OpenSteps
        /\ Finish(a) \/ Move(a, "aborting")
    BY <1>0, <1>3, <1>6 DEF failJob, OpenSteps, Finish, Move, NoJob, WorkOK
  <2>2. /\ Spares({j})
        /\ j \in Rows' => jobs'[j].status \in {"queued", "failed", "cancelled"}
    BY <1>0, <2>1, FailSpares
  <2>3. UNCHANGED lastId
    BY <2>1 DEF fail, failCancelled, failRetry, failForGood
  <2>4. Open(j)
    BY <1>0, <1>2, <2>1, OpenAtWork
  <2>5. /\ work'[a].at \in {"idle", "aborting"}
        /\ \A c \in Adapters \ {a} : work'[c] = work[c]
    BY <1>0, <2>1, FinishSteps, MoveSteps
  <2>. QED  BY <1>1, <1>4, <2>2, <2>3, <2>4, <2>5, OwnStepCounts DEF HeldSteps, OpenSteps
<1>. QED  BY <1>5, <1>6

\* A backoff changes no status; a restart sends adapters away from jobs that
\* stay running.
LEMMA OthersCount ==
  ASSUME DoneInv, TypesInv', MaxClaims <= 1, Passes \/ restart
  PROVE  LeasesLive' /\ HeldJobs' /\ OneJobEach' /\ CountKept'
<1>0. /\ TypeOK /\ WorkOK /\ HeldJobs /\ LeasesLive
      /\ lastId \in Nat /\ node.processed \in Nat
  BY JobQueueConstants DEF DoneInv, CoverInv, TypesInv, TypeOK, RestOK, NodeType
<1>1. UNCHANGED <<lastId, payload, edges, node>>
  BY DEF Passes, LeaseExpires, BackoffElapses, restart, vars, bvars
<1>2. lastId' >= lastId
  BY <1>0, <1>1
<1>3. CASE Passes
  <2>1. ASSUME NEW j \in Rows PROVE ~LeaseExpires(j)
    <3>1. jobs[j].status = "running" => jobs[j].attempts >= 1 /\ jobs[j].attempts \in Nat
      BY <1>0 DEF LeasesLive, TypeOK, Job
    <3>. QED  BY <3>1, JobQueueConstants DEF LeaseExpires
  <2>2. PICK j \in Rows : BackoffElapses(j)
    BY <1>3, <2>1 DEF Passes
  <2>3. /\ Rows' = Rows /\ \A k \in Rows \ {j} : jobs'[k] = jobs[k]
        /\ jobs[j].status = "queued" /\ jobs'[j].status = "queued"
        /\ UNCHANGED <<work, dispatch, request>>
    <3>1. jobs[j] \in Job /\ jobs[j].status = "queued"
      BY <1>0, <2>2 DEF BackoffElapses, TypeOK
    <3>2. PICK row : jobs' = [jobs EXCEPT ![j] = row] /\ row = [jobs[j] EXCEPT !.due = TRUE]
      BY <2>2 DEF BackoffElapses
    <3>3. row.status = "queued"
      BY <3>1, <3>2 DEF Job
    <3>. QED  BY <1>0, <1>3, <3>1, <3>2, <3>3 DEF Passes, bvars, TypeOK, Rows
  <2>4. Spares({j}) /\ Open(j)
    BY <2>3 DEF Spares, Open
  <2>5. \A c \in Adapters : work[c].at \in HeldSteps => work[c].job # j
    BY <1>0, <2>3, OpenAtWork DEF OwnedBy
  <2>6. /\ LeasesLive' /\ HeldJobs'
        /\ \A k : Open(k)' => Open(k)
    <3>1. \A c \in Adapters : work'[c].at \in OpenSteps => Open(work'[c].job)
      BY <1>0, <2>3, OpenAtWork DEF HeldSteps
    <3>. QED  BY <1>0, <2>3, <2>4, <2>5, <3>1, SparesKeeps
  <2>7. OneJobEach'
    BY <1>1, <2>3, AdapterKeepsOne
  <2>8. CountKept'
    BY <1>1, <1>2, <2>6, CountLasts
  <2>. QED  BY <2>6, <2>7, <2>8
<1>4. CASE restart
  <2>1. /\ UNCHANGED jobs
        /\ \A c \in Adapters : work'[c] = work[c] \/ work'[c].at = "idle"
    BY <1>4 DEF restart, vars, NoJob
  <2>2. Spares({})
    BY <2>1 DEF Spares, Rows
  <2>3. /\ LeasesLive' /\ HeldJobs'
        /\ \A k : Open(k)' => Open(k)
    <3>1. \A c \in Adapters : work'[c].at \in OpenSteps => Open(work'[c].job)
      BY <1>0, <2>1, OpenAtWork DEF HeldSteps, OpenSteps
    <3>2. \A c \in Adapters : work'[c].at \in HeldSteps =>
            work'[c].job = work[c].job /\ work[c].at \in HeldSteps
      BY <2>1 DEF HeldSteps, OpenSteps
    <3>. QED  BY <1>0, <2>2, <3>1, <3>2, SparesKeeps
  <2>4. OneJobEach'
    <3>1. \A d \in Dispatchers : dispatch'[d].todo = {}
      BY <1>4 DEF restart, Ended
    <3>2. \A r \in Requests : request'[r].at \in {request[r].at, "over"}
      BY <1>4 DEF restart
    <3>. QED  BY <1>1, <3>1, <3>2 DEF DoneInv, OneJobEach, ResumeSteps, Dispatchers
  <2>5. CountKept'
    BY <1>1, <1>2, <2>3, CountLasts
  <2>. QED  BY <2>3, <2>4, <2>5
<1>. QED  BY <1>3, <1>4

\* No step leaves the invariant, as long as nobody resumes and leases last.
LEMMA DoneInductive ==
  ASSUME "resume" \notin Asked, MaxClaims <= 1
  PROVE  DoneInv /\ [BatchNext]_<<vars, bvars>> => DoneInv'
<1>1. ASSUME DoneInv, [BatchNext]_<<vars, bvars>> PROVE CoverInv' /\ TypesInv'
  BY <1>1, CoverInductive DEF DoneInv, CoverInv
<1>2. ASSUME DoneInv, TypesInv', BatchNext
      PROVE  LeasesLive' /\ HeldJobs' /\ OneJobEach' /\ CountKept'
  <2>1. CASE \E d \in Dispatchers : dispatchBatchFiles(d)
    BY <1>2, <2>1, DispatchCounts
  <2>2. CASE \E r \in Requests : PauseRequest(r) \/ ResumeRequest(r) \/ CancelRequest(r)
    BY <1>2, <2>2, RequestCounts
  <2>3. ASSUME NEW a \in Adapters, ClaimRequest(a) \/ Result(a)
        PROVE  LeasesLive' /\ HeldJobs' /\ OneJobEach' /\ CountKept'
    <3>1. LeasesLive' /\ HeldJobs' /\ CountKept'
      BY <1>2, <2>3, ClaimCounts, CallbackCounts, ReportCounts DEF ClaimRequest, Result
    <3>2. UNCHANGED <<lastId, payload, dispatch, request>>
      <4>1. CASE ClaimRequest(a)
        BY <4>1 DEF ClaimRequest, claimRoute, claim, claimNothing, withinBudget,
                    overBudget, stopOverBudget, vars
      <4>2. CASE completeJob(a) \/ failJob(a)
        BY <4>2 DEF completeJob, failJob, complete, fail, failCancelled, failRetry,
                    failForGood, vars
      <4>3. CASE Result(a) /\ ~completeJob(a) /\ ~failJob(a)
        BY <4>3 DEF Result, resultCheck, createProcessFile, notifyOutput,
                    incrementProcessed, finishBatch, incrementFailed, createErrorNode,
                    markAborted, vars
      <4>. QED  BY <2>3, <4>1, <4>2, <4>3
    <3>. QED  BY <1>2, <3>1, <3>2, AdapterKeepsOne
  <2>4. CASE Passes \/ restart
    BY <1>2, <2>4, OthersCount
  <2>. QED  BY <1>2, <2>1, <2>2, <2>3, <2>4 DEF BatchNext
<1>3. ASSUME DoneInv, UNCHANGED <<vars, bvars>>
      PROVE  LeasesLive' /\ HeldJobs' /\ OneJobEach' /\ CountKept'
  <2>1. UNCHANGED <<jobs, lastId, node, edges, payload, dispatch, request, work>>
    BY <1>3 DEF vars, bvars
  <2>2. CountedInputs' = CountedInputs
    BY <2>1 DEF CountedInputs, Open, Rows
  <2>. QED  BY <1>3, <2>1, <2>2
            DEF DoneInv, LeasesLive, HeldJobs, OneJobEach, CountKept, OwnedBy, Rows
<1>. QED  BY <1>1, <1>2, <1>3 DEF DoneInv

\* Nothing is published or counted at first.
LEMMA DoneInit == BatchInit => DoneInv
<1>. SUFFICES ASSUME BatchInit PROVE DoneInv
  OBVIOUS
<1>1. CoverInv
  BY CoverInit
<1>2. /\ Rows = {} /\ lastId = 0 /\ node.processed = 0
      /\ \A a \in Adapters : work[a].at = "idle"
      /\ \A r \in Requests : request[r].at = "new" /\ dispatch[r].todo = {}
  BY BatchConstants DEF BatchInit, Init, Rows, NoJob, Ended, Dispatchers
<1>3. CountedInputs = {} /\ Cardinality({}) = 0
  BY <1>2, FS_EmptySet DEF CountedInputs
<1>. QED  BY <1>1, <1>2, <1>3
          DEF DoneInv, LeasesLive, HeldJobs, OneJobEach, CountKept,
              HeldSteps, OpenSteps, ResumeSteps

\* Where nobody resumes the batch and no lease runs out, done means that every
\* input has its output: failures, retries, restarts, pauses, cancels and
\* token stops never let the counter overtake the edges.
THEOREM DoneIsComplete ==
  ASSUME "resume" \notin Asked, MaxClaims <= 1
  PROVE  BatchSpec => []DoneMeansAllProcessed
<1>1. DoneInv => DoneMeansAllProcessed
  <2>. SUFFICES ASSUME DoneInv, node.status = "done" PROVE Inputs \subseteq edges
    BY DEF DoneMeansAllProcessed
  <2>1. node.processed >= Total /\ node.processed \in Nat
    BY DEF DoneInv, CoverInv, DoneCounted, AllProcessed, TypesInv, RestOK, NodeType
  <2>2. IsFiniteSet(Inputs) /\ Cardinality(Inputs) = Total
    BY BatchConstants, FS_Interval DEF Inputs
  <2>3. CountedInputs \subseteq Inputs
    BY DEF CountedInputs, DoneInv, CoverInv, TypesInv, RestOK
  <2>4. IsFiniteSet(CountedInputs) /\ Cardinality(CountedInputs) \in Nat
    BY <2>2, <2>3, FS_Subset, FS_CardinalityType
  <2>5. Cardinality(CountedInputs) >= Total
    BY <2>1, <2>4, BatchConstants DEF DoneInv, CountKept
  <2>6. CountedInputs = Inputs
    <3>1. Cardinality(CountedInputs) <= Cardinality(Inputs)
      BY <2>2, <2>3, FS_Subset
    <3>2. Cardinality(CountedInputs) = Cardinality(Inputs)
      BY <2>2, <2>4, <2>5, <3>1, BatchConstants
    <3>. QED  BY <2>2, <2>3, <3>2, FS_Subset
  <2>. QED  BY <2>6 DEF CountedInputs
<1>. QED  BY <1>1, DoneInit, DoneInductive, PTL DEF BatchSpec

=============================================================================
