------------------------------ MODULE GroupRun ------------------------------
(***************************************************************************)
(* A many-to-one run: the groups of a set are published file by file, the  *)
(* service answers /done until the last file of a group and then with the  *)
(* one output of the group.  A whole-set run is one job for all files.     *)
(* Consumers work in parallel and a job may be delivered twice.            *)
(***************************************************************************)
EXTENDS Grouping

CONSTANTS
  RunDesks,      \* the sets to run on
  GroupWorkers,  \* consumers of the service
  Deliveries     \* how often a job may be delivered

ASSUME GroupRunConstants == RunDesks \subseteq Desks /\ Deliveries \in Nat \ {0}

VARIABLES
  plan,       \* per group its source, how many files it has and the whole run has
  position,   \* the group and the file of it to publish next
  checked,    \* has the dispatcher checked the status for that file?
  delivered,  \* per published job: how often it was delivered, to whom last, is it over
  groupWork,  \* per consumer: its job and how far its answer is
  run,        \* status and counter of the process node
  outputs,    \* how many output files each group has
  overlapped  \* history: groups of which two outputs were made at once

groupRunVars == <<grouping, plan, position, checked, delivered, groupWork, run, outputs, overlapped>>

NoJobYet == <<0, 0>>
AtRest == [job |-> NoJobYet, at |-> "idle"]

GroupRunInit ==
  /\ GroupingInit
  /\ plan = <<>> /\ position = <<1, 1>> /\ checked = FALSE
  /\ delivered = <<>> /\ groupWork = [c \in GroupWorkers |-> AtRest]
  /\ run = [status |-> "none", processed |-> 0]
  /\ outputs = <<>> /\ overlapped = {}

StartRun(groups) ==
  /\ plan = <<>> /\ plan' = groups
  /\ run' = [status |-> "running", processed |-> 0]
  /\ outputs' = [k \in DOMAIN groups |-> 0]
  /\ UNCHANGED <<grouping, position, checked, delivered, groupWork, overlapped>>

\* queueSet of a many-to-one task: one job per file; n is the total_files of
\* its message, of the batch total.
queueSet(desk) ==
  LET groups == manyToOneGroups(desk) IN
  StartRun([k \in DOMAIN groups |->
    [source |-> groups[k].source, n |-> Len(groups[k].files), of |-> Cardinality(desk.files)]])

\* queueSet of a whole-set task: one job with the files that have a path.
dispatchWholeSet == StartRun(<<[source |-> NoFile, n |-> 1, of |-> 1]>>)

GroupRunStopped == {"paused", "done"}

\* A job is a group and a file of it.
GroupOf(job) == plan[job[1]]
IsLastJob(job) == job[2] >= GroupOf(job).n
NextPosition == IF IsLastJob(position) THEN <<position[1] + 1, 1>> ELSE <<position[1], position[2] + 1>>

\* dispatchGroups: the status before every job, then the job.
dispatchGroups ==
  /\ position[1] \in DOMAIN plan
  /\ IF ~checked
     THEN /\ run.status \notin GroupRunStopped
          /\ checked' = TRUE
          /\ UNCHANGED <<position, delivered>>
     ELSE /\ position' = NextPosition /\ checked' = FALSE
          /\ delivered' = [j \in DOMAIN delivered \cup {position} |->
               IF j = position THEN [times |-> 0, to |-> AtRest, over |-> FALSE] ELSE delivered[j]]
  /\ UNCHANGED <<grouping, plan, groupWork, run, outputs, overlapped>>

-----------------------------------------------------------------------------
(* Consumers.                                                              *)

GroupGoto(c, at) == groupWork' = [groupWork EXCEPT ![c].at = at]
GroupAt(c, at) == groupWork[c].at = at
JobOf(c) == groupWork[c].job
GroupAtWork(c) == GroupOf(JobOf(c))

\* Also a job that a slow consumer still has.
Deliver(c) ==
  /\ GroupAt(c, "idle")
  /\ \E j \in DOMAIN delivered :
       /\ delivered[j].times < Deliveries /\ ~delivered[j].over
       /\ delivered' = [delivered EXCEPT ![j] = [times |-> delivered[j].times + 1, to |-> c, over |-> FALSE]]
       /\ groupWork' = [groupWork EXCEPT ![c] = [job |-> j, at |-> IF IsLastJob(j) THEN "files" ELSE "done"]]
  /\ UNCHANGED <<grouping, plan, position, checked, run, outputs, overlapped>>

\* The consumer completes its job, unless another one has it by now, ...
completeGroupJob(c) ==
  /\ GroupAt(c, "answered")
  /\ delivered' = IF delivered[JobOf(c)].to = c THEN [delivered EXCEPT ![JobOf(c)].over = TRUE] ELSE delivered
  /\ groupWork' = [groupWork EXCEPT ![c] = AtRest]
  /\ UNCHANGED <<grouping, plan, position, checked, run, outputs, overlapped>>

\* ... or is gone before it answers or before it completes.
LoseConsumer(c) ==
  /\ groupWork[c].at \in {"done", "files", "answered"}
  /\ groupWork' = [groupWork EXCEPT ![c] = AtRest]
  /\ UNCHANGED <<grouping, plan, position, checked, delivered, run, outputs, overlapped>>

-----------------------------------------------------------------------------
(* incrementProcessed: the counter, then the rest in a statement of its    *)
(* own.                                                                    *)

Count(c, next) ==
  /\ run' = [run EXCEPT !.processed = run.processed + 1] /\ GroupGoto(c, next)
  /\ UNCHANGED <<grouping, plan, position, checked, delivered, outputs, overlapped>>

MarkDone(c) ==
  /\ run' = [run EXCEPT !.status = "done"] /\ GroupGoto(c, "answered")
  /\ UNCHANGED <<grouping, plan, position, checked, delivered, outputs, overlapped>>

\* The status at the end depends on the total the message has: handleDone
\* takes total_files, notifyOutput batch_total_files.
TotalForDone(c) == GroupAtWork(c).n

handleDone(c) ==
  \/ GroupAt(c, "done")
       /\ Count(c, IF run.processed + 1 >= TotalForDone(c) THEN "finish" ELSE "answered")
  \/ GroupAt(c, "finish") /\ MarkDone(c)

\* handleOutput: stopped runs take no output, ...
outputCheck(c) ==
  /\ GroupAt(c, "files")
  /\ GroupGoto(c, IF run.status \in GroupRunStopped THEN "answered"
                  ELSE IF GroupAtWork(c).source = NoFile THEN "create" ELSE "guard")
  /\ UNCHANGED <<grouping, plan, position, checked, delivered, run, outputs, overlapped>>

\* Mutant: retries are not told from first answers.
OutputForNone(c) == FALSE

\* ... nor do groups that have theirs.
OutputFor(c) == outputs[JobOf(c)[1]] > 0

outputGuard(c) ==
  /\ GroupAt(c, "guard")
  /\ GroupGoto(c, IF OutputFor(c) THEN "answered" ELSE "create")
  /\ overlapped' = overlapped \cup
       {JobOf(d)[1] : d \in {x \in GroupWorkers \ {c} : GroupAt(x, "create") /\ JobOf(x) = JobOf(c)}}
  /\ UNCHANGED <<grouping, plan, position, checked, delivered, run, outputs>>

createOutput(c) ==
  /\ GroupAt(c, "create") /\ GroupGoto(c, "notify")
  /\ outputs' = [outputs EXCEPT ![JobOf(c)[1]] = outputs[JobOf(c)[1]] + 1]
  /\ UNCHANGED <<grouping, plan, position, checked, delivered, run, overlapped>>

notifyOutput(c) ==
  \/ /\ GroupAt(c, "notify")
     /\ GroupGoto(c, IF run.status \in GroupRunStopped THEN "answered" ELSE "count")
     /\ UNCHANGED <<grouping, plan, position, checked, delivered, run, outputs, overlapped>>
  \/ GroupAt(c, "count")
       /\ Count(c, IF run.processed + 1 >= GroupAtWork(c).of THEN "finish" ELSE "answered")

\* Whatever the run is doing.
pauseRun ==
  /\ run.status \notin {"none", "paused"} /\ run' = [run EXCEPT !.status = "paused"]
  /\ UNCHANGED <<grouping, plan, position, checked, delivered, groupWork, outputs, overlapped>>

GroupRunNext ==
  \/ \E desk \in RunDesks : queueSet(desk)
  \/ dispatchWholeSet \/ dispatchGroups \/ pauseRun
  \/ \E c \in GroupWorkers :
       \/ Deliver(c) \/ completeGroupJob(c) \/ LoseConsumer(c)
       \/ handleDone(c) \/ outputCheck(c) \/ outputGuard(c) \/ createOutput(c) \/ notifyOutput(c)

GroupRunSpec == GroupRunInit /\ [][GroupRunNext]_groupRunVars

-----------------------------------------------------------------------------
(* Properties.                                                             *)

Redelivered == \E j \in DOMAIN delivered : delivered[j].times > 1

\* A PDF of a many-to-one run gets one output however often the last job of
\* its group is answered, unless two of the answers are taken at the same time
\* (results.ts:261-263).
OneOutputPerGroup ==
  \A k \in DOMAIN outputs :
    (plan[k].source # NoFile /\ k \notin overlapped) => outputs[k] <= 1

\* A run of one group that says it is done has its output, the files of the
\* group being worked on in parallel and in any order, if no job came twice.
DoneHasOutput ==
  (run.status = "done" /\ DOMAIN outputs = {1} /\ ~Redelivered) => outputs[1] >= 1

\* "One more input processed; marks the batch done when all are"
\* (batch-state.ts:53): a run is done when every group has its output.
DoneWhenAllGroups ==
  run.status = "done" => \A k \in DOMAIN outputs : outputs[k] >= 1

\* A run gives one output for each group, and is not done without any.
GroupsGetOutputs == OneOutputPerGroup /\ DoneHasOutput
=============================================================================
