-------------------------------- MODULE Desk --------------------------------
(***************************************************************************)
(* The desks of one user, and the page that shows a desk: it is read by    *)
(* several queries, while requests and callbacks make nodes one statement  *)
(* after the other and deletes hide nodes and take them away.              *)
(***************************************************************************)
EXTENDS FiniteSets, Sequences, Naturals

CONSTANTS
  DeskCalls,    \* requests that create desks
  Labels,       \* names of desks
  Lineage,      \* per node of one desk: its type, what it is derived from, the
                \* process that makes it, the set it is a member of
  Top, Nothing, \* derived from nothing, but belongs to the desk; no such node
  MaxProjects, MaxHidden   \* bounds: desks, deletes

Nodes == DOMAIN Lineage

ASSUME DeskConstants ==
  /\ \A n \in Nodes :
       /\ Lineage[n].type \in {"Set", "File", "SetProcess", "Process"}
       /\ Lineage[n].of \in (Nodes \cup {Top}) \ {n}
       /\ {Lineage[n].process, Lineage[n].set} \subseteq (Nodes \cup {Nothing}) \ {n}
       /\ \A m \in Nodes : Lineage[n].of = m => Lineage[m].type # "Process"
  /\ Top \notin Nodes /\ Nothing \notin Nodes
  /\ {MaxProjects, MaxHidden} \subseteq Nat

VARIABLES
  projects,  \* the desks, by the order of their vertices: name, owner, _deleting
  deskCall,  \* per request that creates one: how far it is, the name, the desk
  together,   \* history: names that two requests checked or gave at once
  stage,     \* per node: how many of its statements are done
  hidden,    \* the nodes with _deleting
  taken,     \* the nodes that a delete has taken away
  page       \* one reading of the desk, at any time

deskVars == <<projects, deskCall, together, stage, hidden, taken, page>>
projectVars == <<projects, deskCall, together>>
nodeVars == <<stage, hidden, taken>>

FreeDeskCall == [at |-> "idle", label |-> "none", desk |-> 0]
NoPage == [at |-> "idle", nodes |-> {}, edges |-> {}, locks |-> {}]

DeskInit ==
  /\ projects = <<>> /\ deskCall = [c \in DeskCalls |-> FreeDeskCall] /\ together = {}
  /\ stage = [n \in Nodes |-> 0] /\ hidden = {} /\ taken = {} /\ page = NoPage

-----------------------------------------------------------------------------
(* Desks.                                                                  *)

Owned == {i \in DOMAIN projects : projects[i].owned}
ListedDesks == {i \in Owned : ~projects[i].deleting}

\* Desks being deleted count.
countByLabel(label) == Cardinality({i \in Owned : projects[i].label = label})

Naming(label) == {c \in DeskCalls : deskCall[c].at \in {"vertex", "owner"} /\ deskCall[c].label = label}

create(c, label) ==
  /\ deskCall[c].at = "idle" /\ countByLabel(label) = 0
  /\ deskCall' = [deskCall EXCEPT ![c] = [at |-> "vertex", label |-> label, desk |-> 0]]
  /\ together' = together \cup (IF Naming(label) = {} THEN {} ELSE {label})
  /\ UNCHANGED <<projects, nodeVars, page>>

createVertex(c) ==
  /\ deskCall[c].at = "vertex" /\ Len(projects) < MaxProjects
  /\ projects' = Append(projects, [label |-> deskCall[c].label, owned |-> FALSE, deleting |-> FALSE])
  /\ deskCall' = [deskCall EXCEPT ![c] = [at |-> "owner", label |-> deskCall[c].label, desk |-> Len(projects')]]
  /\ UNCHANGED <<together, nodeVars, page>>

connectOwner(c) ==
  /\ deskCall[c].at = "owner"
  /\ projects' = [projects EXCEPT ![deskCall[c].desk].owned = TRUE]
  /\ deskCall' = [deskCall EXCEPT ![c] = FreeDeskCall]
  /\ UNCHANGED <<together, nodeVars, page>>

\* Any name is taken, whoever has it.
setAttribute(i, label) ==
  /\ i \in ListedDesks /\ label # projects[i].label
  /\ projects' = [projects EXCEPT ![i].label = label]
  /\ together' = together \cup {label}
  /\ UNCHANGED <<deskCall, nodeVars, page>>

\* DELETE /api/projects: the desk is marked, the cascade takes it in the end.
deleteDesk(i) ==
  /\ i \in ListedDesks
  /\ projects' = [projects EXCEPT ![i].deleting = TRUE]
  /\ UNCHANGED <<deskCall, together, nodeVars, page>>

deskGoes(i) ==
  /\ i \in Owned \ ListedDesks
  /\ projects' = [projects EXCEPT ![i].owned = FALSE]
  /\ UNCHANGED <<deskCall, together, nodeVars, page>>

-----------------------------------------------------------------------------
(* Nodes of the desk: an upload hangs on the desk before it is a member of *)
(* its set; an output is a member before it hangs on its source, and the   *)
(* edge tells its process last.                                            *)

Statements(n) ==
  IF Lineage[n].of = Top
  THEN IF Lineage[n].set = Nothing THEN <<"vertex", "edge">> ELSE <<"vertex", "edge", "member">>
  ELSE IF Lineage[n].set = Nothing THEN <<"vertex", "edge", "tell">> ELSE <<"vertex", "member", "edge", "tell">>

Has(n, what) == n \notin taken /\ \E i \in 1 .. stage[n] : Statements(n)[i] = what
Whole(n) == n \notin taken /\ stage[n] = Len(Statements(n))

nodeStatement(n) ==
  /\ n \notin taken /\ ~Whole(n)
  /\ \A m \in {Lineage[n].of, Lineage[n].process, Lineage[n].set} \ {Top, Nothing} : Whole(m)
  /\ stage' = [stage EXCEPT ![n] = stage[n] + 1]
  /\ UNCHANGED <<projectVars, hidden, taken, page>>

\* The way from the desk to a node: the node, its input, and so on up, which is
\* the least set with the node and the inputs of what it has.
GoesUp(nodes) == \A n \in nodes : Lineage[n].of \in nodes \cup {Top}
WayTo == [n \in Nodes |-> {m \in Nodes : \A nodes \in SUBSET Nodes : n \in nodes /\ GoesUp(nodes) => m \in nodes}]

\* What is reached from the desk, through nodes that are shown or not.
OnDesk == {n \in Nodes : \A m \in WayTo[n] : Has(m, "edge")}

\* A node that the user can read is marked; what is below it goes with it.
hide(n) ==
  /\ n \in OnDesk /\ n \notin hidden /\ Cardinality(hidden) < MaxHidden
  /\ hidden' = hidden \cup {n}
  /\ UNCHANGED <<projectVars, stage, taken, page>>

\* A cascade goes outwards from the node: to outputs, members, the outputs of a
\* process, and the processes that made what goes.
Level(nodes) ==
  nodes \cup {n \in Nodes : {Lineage[n].of, Lineage[n].process, Lineage[n].set} \cap nodes # {}}
    \cup ({Lineage[n].process : n \in nodes} \ {Nothing})

nodeGoes(n) ==
  /\ Has(n, "vertex") /\ n \in Level(hidden \cup taken)
  /\ taken' = taken \cup {n}
  /\ UNCHANGED <<projectVars, stage, hidden, page>>

-----------------------------------------------------------------------------
(* The page: nodes, then their edges, then what its sets have.             *)
DeskNodes ==
  {n \in OnDesk : Lineage[n].type # "Process" /\ ~Has(n, "member") /\ n \notin hidden}

forProject ==
  /\ page.at = "idle"
  /\ page' = [at |-> "edges", nodes |-> DeskNodes, edges |-> {}, locks |-> {}]
  /\ UNCHANGED <<projectVars, nodeVars>>

\* Edges of the nodes read; those of nodes that went meanwhile are missing.
edgesOf ==
  /\ page.at = "edges"
  /\ page' = [page EXCEPT !.at = "sets", !.edges =
       {[from |-> n, process |-> IF Has(n, "tell") THEN Lineage[n].process ELSE Nothing] :
          n \in {m \in page.nodes : Lineage[m].of # Top /\ Has(m, "edge")}}]
  /\ UNCHANGED <<projectVars, nodeVars>>

\* toVueFlow: an edge becomes two, through a node for its process.
toVueFlow ==
  [nodes |-> page.nodes \cup {e.process : e \in page.edges},
   edges |-> UNION {{<<Lineage[e.from].of, e.process>>, <<e.process, e.from>>} : e \in page.edges}]

Outputs(s) == {n \in Nodes : Lineage[n].of = s /\ Has(n, "edge")}

\* Mutant: any edge locks the set, also one that tells no process yet.
processedByAnyEdge(sets) == {s \in sets : Outputs(s) # {}}

\* Sets that are the input of a process; upload asks the same.
processedSetRids(sets) == {s \in sets : \E n \in Outputs(s) : Has(n, "tell")}

decorateSets ==
  /\ page.at = "sets"
  /\ page' = [page EXCEPT !.at = "done", !.locks = processedSetRids({n \in page.nodes : Lineage[n].type = "Set"})]
  /\ UNCHANGED <<projectVars, nodeVars>>

ProjectSteps ==
  \/ \E c \in DeskCalls : (\E label \in Labels : create(c, label)) \/ createVertex(c) \/ connectOwner(c)
  \/ \E i \in DOMAIN projects : (\E label \in Labels : setAttribute(i, label)) \/ deleteDesk(i) \/ deskGoes(i)
PageSteps ==
  (\E n \in Nodes : nodeStatement(n) \/ hide(n) \/ nodeGoes(n)) \/ forProject \/ edgesOf \/ decorateSets

DeskNext == ProjectSteps \/ PageSteps
DeskSpec == DeskInit /\ [][DeskNext]_deskVars

-----------------------------------------------------------------------------
(* Properties.                                                             *)

\* A user has one desk of a name, unless two requests made it at the same time
\* or a desk was renamed to it (projects.ts:48-49, 115-116).
OneDeskPerName ==
  \A label \in Labels \ together : Cardinality({i \in Owned : projects[i].label = label}) <= 1

\* What a page draws fits together though it was read in pieces: a derived node
\* hangs on its input, unless that is being deleted or inside a set; a member of
\* a set is not shown, but for an upload of this moment; a set is shown as
\* processed only when it takes no more uploads, and always when the output
\* that locks it is drawn with its process and still there
\* (desk-graph.ts:29-47, 106-127, 167-182, files.ts:97).
PageFitsTogether ==
  page.at = "done" =>
    /\ \A e \in toVueFlow.edges : e[1] \in toVueFlow.nodes \/ e[1] \in hidden \/ Lineage[e[1]].set # Nothing
    /\ \A n \in page.nodes : Lineage[n].set # Nothing => Lineage[n].of = Top
    /\ \A s \in page.locks : \E n \in Nodes : Lineage[n].of = s /\ stage[n] = Len(Statements(n))
    /\ \A e \in page.edges :
         LET s == Lineage[e.from].of IN
         (e.process # Nothing /\ s \in page.nodes /\ Lineage[s].type = "Set" /\ Has(e.from, "tell")) => s \in page.locks

\* Both.
DesksAreShownRight == OneDeskPerName /\ PageFitsTogether
=============================================================================
