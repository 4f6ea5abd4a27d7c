----------------------------- MODULE SingleRuns -----------------------------
(***************************************************************************)
(* What a request makes before it publishes its job, and what a result of  *)
(* the job makes: nodes, edges and directories, one statement after the    *)
(* other.  Any statement may fail, and then the rest is not done.          *)
(***************************************************************************)
EXTENDS FiniteSetsExt, SequencesExt, Naturals

CONSTANTS
  Requests,
  Tasks,       \* Tasks[t]: what the descriptor says of a task, and whether it is a prompt
  AskedMax,    \* the max_output_tokens a user may send, 0: none
  Caps,        \* the per-job caps of the groups that may pay, 0: none
  MaxStops, MaxRegisters   \* bounds: statements that fail, registrations

ASSUME RunConstants ==
  /\ \A t \in DOMAIN Tasks : DOMAIN Tasks[t] =
       {"known", "external", "behaviour", "search", "alwaysBatch", "outputFile", "system"}
  /\ \A t \in DOMAIN Tasks : Tasks[t].system \in Nat
  /\ AskedMax \subseteq Nat /\ Caps \subseteq Nat /\ {MaxStops, MaxRegisters} \subseteq Nat

VARIABLES
  request,  \* per request: its kind, how far it is, the tokens its job may write
  todo,     \* per request: the statements left
  facts,    \* per request: what is done, as <<what, role>>
  system,   \* per task: max_output_tokens of its system_params, one for each time
            \* it was registered; requests on their way may hold an older one
  queued,   \* per request: the topic of its job and the tokens in its message
  stops     \* bound

runVars == <<request, todo, facts, system, queued, stops>>

Kinds == {"file", "whole", "set", "source", "newSource", "newSet", "upload"}
Roles == {"P", "S", "R", "F"}    \* process, output set, source, file
Unpublished == [topic |-> "", max |-> 0]
NewRequest == [kind |-> "none", task |-> "none", at |-> "new", max |-> 0, shared |-> 0, cap |-> 0]

RunsInit ==
  /\ request = [q \in Requests |-> NewRequest]
  /\ todo = [q \in Requests |-> <<>>]
  /\ facts = [q \in Requests |-> {}]
  /\ system = [t \in DOMAIN Tasks |-> <<Tasks[t].system>>]
  /\ queued = [q \in Requests |-> Unpublished]
  /\ stops = 0

-----------------------------------------------------------------------------
(* The tasks.                                                              *)

behaviourOf(t) == IF Tasks[t].behaviour = "" THEN "one-to-one" ELSE Tasks[t].behaviour
isSearchOutputTask(t) == Tasks[t].search
queueName(t) == IF Tasks[t].known /\ Tasks[t].alwaysBatch THEN "batch" ELSE "single"
isPromptTask(t) == Tasks[t].external /\ ~Tasks[t].known

\* What the user asked for; a task of one file with system_params takes those,
\* and they are the descriptor's own object, not a copy.
prepareTask(t, asked, singleFile) ==
  [shared |-> IF Tasks[t].known /\ singleFile /\ Tasks[t].system # 0 THEN Len(system[t]) ELSE 0,
   max |-> asked]

-----------------------------------------------------------------------------
(* What is made, in order.                                                 *)

Do(node, steps) == [i \in DOMAIN steps |-> <<steps[i], node>>]

createProcess == Do("P", <<"vertex", "path", "belongs">>)
createManyToOneProcess == Do("P", <<"vertex", "dir", "path", "belongs">>)
createOutputSet == Do("S", <<"vertex", "dir", "path", "derive", "tell", "manifest">>)
createProcessSet == Do("S", <<"vertex", "dir", "path", "belongs", "derive", "tell", "manifest">>)
createSetProcessWithOutput == Do("P", <<"vertex", "belongs">>) \o createOutputSet
createSet == Do("S", <<"vertex", "belongs", "dir", "path", "manifest">>)
createOriginalFile(inSet) ==
  Do("F", <<"vertex", "belongs", "path">>) \o IF inSet THEN Do("F", <<"set", "count">>) ELSE <<>>
createProcessFile(inSet) ==
  Do("F", <<"vertex", "path">>) \o (IF inSet THEN Do("F", <<"set">>) ELSE <<>>) \o Do("F", <<"derive", "tell">>)
createReferenceFile(inSet) == createProcessFile(inSet)
createErrorNode(inSet) == createProcessFile(inSet)
Announce == Do("P", <<"event", "publish">>)

queueFile(t) ==
  createProcess \o Do("P", <<"dir", "message">>)
    \o (IF behaviourOf(t) = "one-to-many" THEN createOutputSet ELSE <<>>)
    \o (IF isSearchOutputTask(t) THEN createProcessSet ELSE <<>>)
    \o Announce

dispatchWholeSet(t) ==
  IF Tasks[t].outputFile THEN createProcess \o Do("P", <<"dir", "message">>) \o Announce
  ELSE createManyToOneProcess \o createProcessSet \o Do("P", <<"batch", "event", "message", "publish">>)

\* The jobs of a set are published in the background, see BatchRun.
queueSet == createSetProcessWithOutput \o Do("P", <<"batch">>) \o Announce

queueSource ==
  Do("P", <<"vertex", "belongs", "dir", "path", "message">>) \o createOutputSet \o Announce
createSource == Do("R", <<"vertex", "belongs", "dir", "path", "publish">>)

Program(kind, t) ==
  CASE kind = "file" -> queueFile(t)
    [] kind = "whole" -> dispatchWholeSet(t)
    [] kind = "set" -> queueSet
    [] kind = "source" -> queueSource
    [] kind = "newSource" -> createSource
    [] kind = "newSet" -> createSet
    [] kind = "upload" -> createOriginalFile(t # "none")

-----------------------------------------------------------------------------
(* A request begins; the group that pays is read before anything is made.  *)

Accepted(kind, t) == kind \in {"file", "whole"} => Tasks[t].known \/ isPromptTask(t)

begin(q, kind, t, asked) ==
  /\ request[q].at = "new"
  /\ t = "none" => kind \notin {"file", "whole"}
  /\ IF ~Accepted(kind, t) THEN request' = [request EXCEPT ![q].at = "refused"] /\ UNCHANGED todo
     ELSE LET task == IF kind \in {"file", "whole"} THEN prepareTask(t, asked, kind = "file")
                      ELSE [shared |-> 0, max |-> 0] IN
          /\ request' = [request EXCEPT ![q] = [NewRequest EXCEPT !.kind = kind, !.task = t, !.max = task.max,
               !.shared = task.shared, !.at = IF kind \in {"file", "whole"} THEN "pays" ELSE "open"]]
          /\ todo' = [todo EXCEPT ![q] = Program(kind, t)]
  /\ UNCHANGED <<facts, system, queued, stops>>

MaxOf(q) == IF request[q].shared # 0 THEN system[request[q].task][request[q].shared] ELSE request[q].max

\* Mutant: the cap replaces what was asked for.
CapAlways(asked, cap) == IF cap = 0 THEN asked ELSE cap

Capped(asked, cap) == IF cap = 0 THEN asked ELSE IF asked > 0 THEN Min({asked, cap}) ELSE cap

\* The cap of the group is written to the task's params: for a task with
\* system_params that is the descriptor itself.
apply(q, cap) ==
  /\ request[q].at = "pays"
  /\ LET max == Capped(MaxOf(q), cap) IN
     /\ request' = [request EXCEPT ![q] = [request[q] EXCEPT !.at = "open", !.cap = cap, !.max = max]]
     /\ system' = IF request[q].shared = 0 THEN system
                  ELSE LET t == request[q].task IN
                       [system EXCEPT ![t] = [system[t] EXCEPT ![request[q].shared] = max]]
  /\ UNCHANGED <<todo, facts, queued, stops>>

TopicOf(q) ==
  CASE request[q].kind = "file" -> queueName(request[q].task)
    [] request[q].kind = "newSource" -> "single"
    [] OTHER -> "batch"

\* publish copies the message as it is now.  A failure to publish is logged.
statement(q) ==
  /\ request[q].at = "open" /\ todo[q] # <<>>
  /\ LET step == Head(todo[q]) IN
     /\ facts' = [facts EXCEPT ![q] = IF step[1] = "publish" THEN facts[q] ELSE facts[q] \cup {step}]
     /\ queued' = IF step[1] = "publish" THEN [queued EXCEPT ![q] = [topic |-> TopicOf(q), max |-> MaxOf(q)]] ELSE queued
  /\ todo' = [todo EXCEPT ![q] = Tail(todo[q])]
  /\ UNCHANGED <<request, system, stops>>

respond(q) ==
  /\ request[q].at = "open" /\ todo[q] = <<>>
  /\ request' = [request EXCEPT ![q].at = "answered"]
  /\ UNCHANGED <<todo, facts, system, queued, stops>>

\* A statement fails, or the server stops: the rest is not done.
statementFails(q) ==
  /\ request[q].at = "open" /\ todo[q] # <<>> /\ stops < MaxStops
  /\ stops' = stops + 1
  /\ IF Head(todo[q])[1] = "publish"
     THEN todo' = [todo EXCEPT ![q] = Tail(todo[q])] /\ UNCHANGED request
     ELSE todo' = [todo EXCEPT ![q] = <<>>] /\ request' = [request EXCEPT ![q].at = "failed"]
  /\ UNCHANGED <<facts, system, queued>>

\* A result of the job: an output, one that shares the bytes of another file,
\* or an error.  It may come while the request is still being answered.
result(q) ==
  /\ queued[q] # Unpublished /\ request[q].kind # "newSource"
  /\ request[q].at = "answered" /\ \A step \in facts[q] : step[2] # "F"
  /\ LET inSet == <<"vertex", "S">> \in facts[q] IN
     todo' \in {[todo EXCEPT ![q] = createProcessFile(inSet)], [todo EXCEPT ![q] = createReferenceFile(inSet)],
                [todo EXCEPT ![q] = createErrorNode(inSet)]}
  /\ request' = [request EXCEPT ![q].at = "open"]
  /\ UNCHANGED <<facts, system, queued, stops>>

\* The service registers anew: its descriptor is another object.
registerAnew(t) ==
  /\ Len(system[t]) <= MaxRegisters
  /\ system' = [system EXCEPT ![t] = Append(system[t], Tasks[t].system)]
  /\ UNCHANGED <<request, todo, facts, queued, stops>>

BeginsRun(q) ==
  \E kind \in Kinds, t \in DOMAIN Tasks \cup {"none"}, asked \in AskedMax : begin(q, kind, t, asked)
Proceeds(q) == (\E cap \in Caps : apply(q, cap)) \/ statement(q) \/ respond(q)
RequestSteps(q) == BeginsRun(q) \/ Proceeds(q) \/ statementFails(q) \/ result(q)
RegisterSteps == \E t \in DOMAIN Tasks : registerAnew(t)

RunsNext == (\E q \in Requests : RequestSteps(q)) \/ RegisterSteps

RunsSpec == RunsInit /\ [][RunsNext]_runVars

-----------------------------------------------------------------------------
(* Properties.                                                             *)

Has(q, node, steps) == ToSet(Do(node, steps)) \subseteq facts[q]

\* Whatever fails, a job that is in the queue finds what its message names:
\* the directory of its process, and its output set with a directory, linked to
\* the input by an edge that tells the process, so that the input takes no more
\* uploads; the browser knows of it (processing.ts:187-215, 387-421, 437-453).
JobsAreReady ==
  \A q \in Requests : queued[q] # Unpublished =>
    /\ request[q].kind \notin {"newSource", "set"} => Has(q, "P", <<"vertex", "belongs", "path", "dir", "message", "event">>)
    /\ <<"vertex", "S">> \in facts[q] => Has(q, "S", <<"dir", "path", "derive", "tell", "manifest">>)
    /\ request[q].kind = "newSource" => Has(q, "R", <<"belongs", "dir", "path">>)

\* An output of a set is not shown on the desk for a moment: by the time it
\* hangs on the desk's nodes it is a member (nodes.ts:326-327, 355-356, 382-383;
\* desk-graph.ts:36).
MembersStayOffDesk ==
  \A q \in Requests :
    <<"derive", "F">> \in facts[q] /\ <<"vertex", "S">> \in facts[q] => <<"set", "F">> \in facts[q]

\* A job may write no more tokens than the group that pays allows, though the
\* params of several jobs are one object (processing.ts:160, token-budget.ts:139-143).
CapIsKept ==
  \A q \in Requests : queued[q] # Unpublished /\ request[q].cap # 0 => queued[q].max \in 1 .. request[q].cap

RunsAreReady == JobsAreReady /\ MembersStayOffDesk /\ CapIsKept
=============================================================================
