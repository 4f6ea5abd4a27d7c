------------------------------ MODULE Matching ------------------------------
(***************************************************************************)
(* Which tasks of a service are offered for a file or for a set.  A set    *)
(* has the types and extensions of its files; a task is offered for it     *)
(* when one of them fits.                                                  *)
(***************************************************************************)
EXTENDS FiniteSets, Naturals

CONSTANTS
  NodeFiles,     \* the files: [type, extension]
  Offerers,      \* the services, by name
  Descriptor,    \* [id, category, behaviour, live, external, setDisabled, groups,
                 \* types, formats, models, tasks]
  PromptTypes,   \* the types of the user's prompts
  UserGroups,    \* the service groups a user may be in
  TaskFilters,   \* what a request may ask for; "" for nothing
  MaxSetFiles    \* bound: files of a set

\* A prompt is offered under its uuid, which is the name of no task.
ASSUME MatchingConstants == \A o \in Offerers : DOMAIN Descriptor[o].tasks \cap PromptTypes = {}

VARIABLES
  node,      \* what is asked for: [set, files, processable]
  asker,     \* [groups, filter]
  offered    \* per service the tasks offered; prompts by their type

matchingVars == <<node, asker, offered>>

\* The fields of a task are behaviour, groups, setDisabled, setOnly, types,
\* formats, filter; groups is {} when the task is for everyone.
ForGroups(groups, mine) == groups = {} \/ groups \cap mine # {}

Extensions(n) == {f.extension : f \in n.files}
NodeTypes(n) == {f.type : f \in n.files}

\* Without a filter in the request tasks of filters are left out.
filterTask(filter, task) == task.filter = filter

\* Models fit a set by their formats only.
pickModels(n, s) ==
  {m \in s.models : /\ m.formats \cap Extensions(n) # {}
                    /\ n.set \/ m.types \cap NodeTypes(n) # {}}

\* A set has prompts by the extensions of its files, a file by its type.
PromptExtensions(type) == IF type = "text" THEN {"txt"} ELSE {"jpg", "jpeg", "png"}

promptsToTasks(n, filter) ==
  {t \in PromptTypes :
     /\ filter = ""
     /\ IF n.set THEN t \in {"text", "image"} /\ Extensions(n) \cap PromptExtensions(t) # {}
        ELSE t \in NodeTypes(n)}

\* resolveBehaviour: the task's own, or the service's, or one-to-one.
resolveBehaviour(s, t) ==
  IF t.behaviour # "" THEN t.behaviour ELSE IF s.behaviour # "" THEN s.behaviour ELSE "one-to-one"

\* What a task works on; what it does not say is said by the service.
Supports(s, t, n) ==
  IF t.types # {} THEN t.types \cap NodeTypes(n) # {}
  ELSE IF t.formats # {} THEN t.formats \cap Extensions(n) # {}
  ELSE IF s.types # {} THEN s.types \cap NodeTypes(n) # {}
  ELSE s.formats \cap Extensions(n) # {}

\* Mutant: every type of a set has to be one of the task's.
FitsAll(s, t, n) == t.types = {} \/ NodeTypes(n) \subseteq t.types

Fits(s, t, n) == Supports(s, t, n)

\* Tasks over a whole set are not for single files.
ForSet(s, t) == t.setOnly \/ resolveBehaviour(s, t) \in {"many-to-one", "whole-set"}

fixedTasks(s, n, groups, filter) ==
  {name \in DOMAIN s.tasks :
     LET t == s.tasks[name] IN
     /\ ForGroups(t.groups, groups)
     /\ IF n.set THEN ~t.setDisabled ELSE ~ForSet(s, t)
     /\ Fits(s, t, n) /\ filterTask(filter, t)}

\* Prompts, and the service's own tasks, when a model takes such files.
pickTasks(s, n, groups, filter) ==
  IF ~ForGroups(s.groups, groups) \/ (s.external /\ pickModels(n, s) = {}) THEN {}
  ELSE fixedTasks(s, n, groups, filter) \cup (IF s.external THEN promptsToTasks(n, filter) ELSE {})

\* A PDF that has to be split first is offered the splitter.
servicesForNode(s, n, groups, filter) ==
  CASE s.category = "system" \/ ~s.live -> {}
    [] ~n.processable -> IF s.id = "splitter" THEN DOMAIN s.tasks \cap {"split"} ELSE {}
    [] n.set /\ s.setDisabled -> {}
    [] OTHER -> pickTasks(s, n, groups, filter)

NodeSets == {F \in SUBSET NodeFiles : F # {} /\ Cardinality(F) <= MaxSetFiles}

Nodes == [set : {TRUE}, files : NodeSets, processable : {TRUE}] \cup
         [set : {FALSE}, files : {{f} : f \in NodeFiles}, processable : BOOLEAN]

Offers(n, a) == [o \in Offerers |-> servicesForNode(Descriptor[o], n, a.groups, a.filter)]

MatchingInit ==
  /\ node = [set |-> FALSE, files |-> {}, processable |-> TRUE]
  /\ asker = [groups |-> {}, filter |-> ""] /\ offered = Offers(node, asker)

\* GET /api/services/files/{rid}
AskServices ==
  /\ node.files = {} /\ node' \in Nodes
  /\ asker' \in [groups : SUBSET UserGroups, filter : TaskFilters]
  /\ offered' = Offers(node', asker')

MatchingNext == AskServices

MatchingSpec == MatchingInit /\ [][MatchingNext]_matchingVars

-----------------------------------------------------------------------------
Single(f) == [set |-> FALSE, files |-> {f}, processable |-> TRUE]

\* The tasks of a service that take part: those not about sets, and prompts of
\* texts and images, on files whose extensions go with their type.
Alike(s, f, name) ==
  IF name \in DOMAIN s.tasks THEN ~s.tasks[name].setDisabled
  ELSE f.type \in {"text", "image"} /\ f.extension \in PromptExtensions(f.type)

\* What is offered for a file is offered for every set it is in, and the tasks
\* of a set that are not for whole sets are offered for one of its files: a
\* set does not hide a task, and no job of it is sent to a service that takes
\* none of the files.  A service with models is offered for a set by formats.
SetOffersWhatItsFilesGet ==
  node.set => \A o \in Offerers :
    LET s == Descriptor[o]
        ofFile(f) == servicesForNode(s, Single(f), asker.groups, asker.filter) IN
    /\ s.setDisabled \/ \A f \in node.files : {t \in ofFile(f) : Alike(s, f, t)} \subseteq offered[o]
    /\ s.external \/ \A t \in offered[o] :
         ForSet(s, s.tasks[t]) \/ \E f \in node.files : t \in ofFile(f)
=============================================================================
