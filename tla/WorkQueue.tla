----------------------------- MODULE WorkQueue ------------------------------
(***************************************************************************)
(* What the job queue promises to the parties around it, without tables,   *)
(* statements or retries: a job waits, is held by one worker, and ends     *)
(* once.  It changes hands only when the holder's lease has lapsed, it is  *)
(* handed out only while its batch is not stopped, one job at a time, and  *)
(* nothing brings a closed or removed job back.                            *)
(***************************************************************************)
CONSTANTS Jobs, Workers, Nobody

VARIABLES
  stage,    \* where each job is
  holder,   \* the worker it was handed to, while it is held
  lapsed,   \* the jobs whose holder let the lease run out
  stopped   \* the jobs of paused and cancelled batches

vars == <<stage, holder, lapsed, stopped>>

Stages == {"unborn", "waiting", "held", "closed", "gone"}

TypeOK ==
  /\ stage \in [Jobs -> Stages]
  /\ holder \in [Jobs -> Workers \cup {Nobody}]
  /\ lapsed \subseteq Jobs
  /\ stopped \subseteq Jobs

Init ==
  /\ stage = [j \in Jobs |-> "unborn"]
  /\ holder = [j \in Jobs |-> Nobody]
  /\ lapsed = {}
  /\ stopped = {}

-----------------------------------------------------------------------------

HandOut(j) ==
  /\ stage[j] = "waiting" \/ (stage[j] = "held" /\ j \in lapsed)
  /\ j \notin stopped
  /\ stage'[j] = "held"
  /\ holder'[j] \in Workers
  /\ j \notin lapsed'

\* Steps a job can make that hand it to nobody: it is offered, its lease
\* lapses or is renewed, it is given back, ended or removed.
Arrive(j)   == stage[j] = "unborn" /\ stage'[j] = "waiting"
Keep(j)     == stage[j] = "held" /\ stage'[j] = "held" /\ holder'[j] = holder[j]
GiveBack(j) == stage[j] = "held" /\ stage'[j] = "waiting"
Close(j)    == stage[j] \in {"waiting", "held"} /\ stage'[j] = "closed"
Remove(j)   == stage[j] \in {"waiting", "held", "closed"} /\ stage'[j] = "gone"
Rest(j)     == stage'[j] = stage[j] /\ stage[j] # "held"

JobStep(j) ==
  /\ Arrive(j) \/ Keep(j) \/ GiveBack(j) \/ Close(j) \/ Remove(j) \/ Rest(j)
  /\ stage'[j] # "held" => holder'[j] = Nobody /\ j \notin lapsed'

Next ==
  \/ \A j \in Jobs : JobStep(j)
  \/ \E j \in Jobs :
       /\ HandOut(j)
       /\ \A k \in Jobs \ {j} : JobStep(k)

Spec == Init /\ [][Next]_vars

=============================================================================
