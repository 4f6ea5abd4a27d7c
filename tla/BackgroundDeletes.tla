------------------------- MODULE BackgroundDeletes -------------------------
(***************************************************************************)
(* Deleting a node of a desk with everything derived from it: the request  *)
(* that hides the node, records it and answers, the cascade that runs in   *)
(* the background, a cascade that fails, and a restart that resumes those  *)
(* on record.                                                              *)
(*                                                                         *)
(* Handlers are async: a step is the code between two awaits.  A level of  *)
(* the cascade is read in one step although it takes several queries: the  *)
(* vertices of the model are all there from the start, so between two of   *)
(* the queries some could only go, and whoever deletes them has read what  *)
(* is below them.                                                          *)
(***************************************************************************)
EXTENDS Naturals, FiniteSets, Sequences

CONSTANTS
  Vertices,      \* vertices of one desk, and ...
  Desk,          \* ... its Project
  NoVertex,      \* an attribute that is not set
  Derived,       \* DERIVED_FROM edges: an output, its source, its process
  BelongsTo,     \* vertices with a BELONGS_TO edge to the desk
  SetOf,         \* the `set` of a file
  SetProcessOf,  \* the `set_process` of a process
  ChunkSize,     \* vertices that one statement deletes
  Requests,      \* bound of the model: DELETE requests, each sent once
  MaxFaults,     \* bound of the model: statements that fail
  MaxCrashes     \* bound of the model: restarts of the backend

ASSUME DeleteConstants ==
  /\ IsFiniteSet(Vertices) /\ Desk \in Vertices /\ NoVertex \notin Vertices
  /\ Derived \subseteq [output: Vertices, source: Vertices,
                        process: Vertices \cup {NoVertex}]
  /\ BelongsTo \subseteq Vertices
  /\ SetOf \in [Vertices -> Vertices \cup {NoVertex}]
  /\ SetProcessOf \in [Vertices -> Vertices \cup {NoVertex}]
  /\ ChunkSize \in Nat \ {0}
  /\ Requests \cap Vertices = {}
  /\ MaxFaults \in Nat /\ MaxCrashes \in Nat

\* The graph has grown in generations: an output is younger than its source,
\* a process of one age with its outputs, a member not older than its set, a
\* process not older than its set process, and the desk came first.
Generations(age) ==
  /\ \A v \in Vertices \ {Desk} : age[Desk] < age[v]
  /\ \A e \in Derived : /\ age[e.source] < age[e.output]
                        /\ e.process # NoVertex => age[e.process] = age[e.output]
  /\ \A v \in Vertices : /\ SetOf[v] # NoVertex => age[SetOf[v]] <= age[v]
                         /\ SetProcessOf[v] # NoVertex => age[SetProcessOf[v]] <= age[v]

ASSUME GraphHasGrown ==
  \E age \in [Vertices -> 0..Cardinality(Vertices)] : Generations(age)

VARIABLES
  alive,    \* the vertices of the graph
  marked,   \* those with the attribute _deleting
  pending,  \* the table pending_deletes
  running,  \* the map of running deletes, by target
  request,  \* where each request is
  cascade,  \* the cascades, each named after the request that started it or,
            \* when a restart did, after its target
  spent,    \* the counters of the bounds
  asked,    \* history: the targets of the cascades that were started
  lost      \* history: a restart came at a bad moment, or a statement failed
            \* unnoticed

dvars == <<alive, marked, pending, running, request, cascade, spent, asked, lost>>

Runs == Requests \cup Vertices

Over == [at |-> "over", target |-> NoVertex]

None == [at |-> "none", target |-> NoVertex, level |-> {}, visited |-> {},
         doomed |-> <<>>]

\* A cascade that begins with its target.
Begun(v) == [at |-> "reading", target |-> v, level |-> {v}, visited |-> {},
             doomed |-> <<>>]

DeletesTypeOK ==
  /\ alive \subseteq Vertices /\ marked \subseteq alive
  /\ pending \subseteq Vertices /\ running \subseteq Vertices
  /\ request \in [Requests -> [at: {"new", "marking", "marked", "over"},
                               target: Vertices \cup {NoVertex}]]
  /\ \A c \in Runs :
       /\ cascade[c].at \in {"none", "reading", "read", "deleting", "closing",
                             "unmarking"}
       /\ cascade[c].target \in Vertices \cup {NoVertex}
       /\ cascade[c].level \subseteq Vertices
       /\ cascade[c].visited \subseteq Vertices
       /\ cascade[c].doomed \in Seq(SUBSET Vertices)
  /\ spent \in [faults: 0..MaxFaults, crashes: 0..MaxCrashes]
  /\ asked \subseteq Vertices /\ lost \in BOOLEAN

DeletesInit ==
  /\ alive = Vertices
  /\ marked = {} /\ pending = {} /\ running = {}
  /\ request = [r \in Requests |-> [at |-> "new", target |-> NoVertex]]
  /\ cascade = [c \in Runs |-> None]
  /\ spent = [faults |-> 0, crashes |-> 0]
  /\ asked = {} /\ lost = FALSE

-----------------------------------------------------------------------------
(* The graph.                                                              *)

\* An edge goes with either of its ends.
EdgesOf(there) == {e \in Derived : e.output \in there /\ e.source \in there}

\* Where the outgoing edges of a set of vertices lead.
Above(S, there) ==
  {e.source : e \in {x \in EdgesOf(there) : x.output \in S}}
    \cup (IF S \cap BelongsTo # {} /\ Desk \in there THEN {Desk} ELSE {})

\* TRAVERSE out(), 40 levels in the code, more than any path has: the least
\* set with v that no edge leaves.
Reached(v, there) ==
  {w \in there : \A S \in SUBSET there :
                   v \in S /\ Above(S, there) \subseteq S => w \in S}

\* findOwned: the node is there and not hidden, and so is the desk it leads to.
canRead(v) ==
  /\ v \in alive \ marked
  /\ Desk \in Reached(v, alive) \ marked

\* Mutant of Enqueued: the edges are followed towards the sources.
TowardsSources(found, there) ==
  {e.source : e \in {x \in EdgesOf(there) : x.output \in found}}
    \cup {v \in there : SetOf[v] \in found}

\* What a level of the cascade enqueues: outputs of its vertices, the process
\* on any of their edges, what came from a process among them, the members of
\* a set, the processes of a set process, and everything on a desk.
Enqueued(found, there) ==
  LET edges == EdgesOf(there)
      touch == {e \in edges : e.output \in found \/ e.source \in found}
  IN  {e.output : e \in {x \in touch : x.source \in found}}
        \cup {e.process : e \in {x \in touch : x.process # NoVertex}}
        \cup {e.output : e \in {x \in edges : x.process \in found}}
        \cup {v \in there : SetOf[v] \in found \/ SetProcessOf[v] \in found}
        \cup (IF Desk \in found THEN there ELSE {})

-----------------------------------------------------------------------------
(* BackgroundDeletes.start: check, hide, record and run, answer.           *)

\* The node is readable, and not being deleted in this process.
startCheck(r, v) ==
  /\ request[r].at = "new"
  /\ canRead(v) /\ v \notin running
  /\ request' = [request EXCEPT ![r] = [at |-> "marking", target |-> v]]
  /\ UNCHANGED <<alive, marked, pending, running, cascade, spent, asked, lost>>

\* The UPDATE of a vertex that has gone meanwhile may fail and end the request.
setDeleting(r) ==
  LET v == request[r].target
  IN  /\ request[r].at = "marking"
      /\ \/ request' = [request EXCEPT ![r].at = "marked"]
         \/ v \notin alive /\ request' = [request EXCEPT ![r] = Over]
      /\ marked' = marked \cup ({v} \cap alive)
      /\ UNCHANGED <<alive, pending, running, cascade, spent, asked, lost>>

\* addPendingDelete and run, in one turn.
startRun(r) ==
  LET v == request[r].target
  IN  /\ request[r].at = "marked"
      /\ request' = [request EXCEPT ![r] = Over]
      /\ pending' = pending \cup {v}
      /\ cascade' = [cascade EXCEPT ![r] = Begun(v)]
      /\ running' = running \cup {v}
      /\ asked' = asked \cup {v}
      /\ UNCHANGED <<alive, marked, spent, lost>>

start(r) == (\E v \in Vertices : startCheck(r, v)) \/ setDeleting(r) \/ startRun(r)

-----------------------------------------------------------------------------
(* BackgroundDeletes.run: deleteNode, then the table and the map.          *)

Ends(c) ==
  /\ cascade' = [cascade EXCEPT ![c] = None]
  /\ running' = running \ {cascade[c].target}

Fault == /\ spent.faults < MaxFaults
         /\ spent' = [spent EXCEPT !.faults = @ + 1]

\* Breadth first, a level at a time, until nothing new is found.
readLevel(c) ==
  LET it    == cascade[c]
      found == it.level \cap alive
      seen  == it.visited \cup it.level
      next  == Enqueued(found, alive) \ seen
  IN  /\ it.at = "reading"
      /\ cascade' = [cascade EXCEPT ![c] =
           [it EXCEPT !.level = next, !.visited = seen,
                      !.doomed = IF found = {} THEN it.doomed
                                               ELSE Append(it.doomed, found),
                      !.at = IF next # {} THEN "reading" ELSE "read"]]
      /\ UNCHANGED <<alive, marked, pending, running, request, spent, asked, lost>>

Doomed(c) == UNION {cascade[c].doomed[i] : i \in DOMAIN cascade[c].doomed}

\* The chunks that may come next: in the order in which they were found.
Chunks(c) ==
  LET levels == cascade[c].doomed
      size   == IF Cardinality(Doomed(c)) < ChunkSize
                THEN Cardinality(Doomed(c)) ELSE ChunkSize
  IN  {S \in SUBSET Doomed(c) :
         /\ Cardinality(S) = size
         /\ \A i, k \in DOMAIN levels :
              i < k /\ S \cap levels[k] # {} => levels[i] \subseteq S}

Remaining(levels, S) == [i \in DOMAIN levels |-> levels[i] \ S]

\* Mutant of IsLast: only one chunk is deleted.
IsOnly(c, S) == TRUE

IsLast(c, S) == S = Doomed(c)

\* DELETE of one chunk.  A failing statement is repeated for each vertex by
\* itself, and failures of these are ignored.
deleteChunk(c) ==
  LET it == cascade[c]
  IN  /\ it.at \in {"read", "deleting"}
      /\ \E S \in Chunks(c) :
           /\ \/ /\ alive' = alive \ S
                 /\ UNCHANGED <<spent, lost>>
              \/ /\ Fault /\ lost' = TRUE
                 /\ \E v \in S : alive' = alive \ (S \ {v})
           /\ marked' = marked \cap alive'
           /\ cascade' = [cascade EXCEPT ![c] =
                [it EXCEPT !.doomed = Remaining(it.doomed, S),
                           !.at = IF IsLast(c, S) THEN "closing" ELSE "deleting"]]
      /\ UNCHANGED <<pending, running, request, asked>>

\* The directories are gone as well: off the record, and told to the user.
finish(c) ==
  /\ cascade[c].at = "closing"
  /\ Ends(c)
  /\ pending' = pending \ {cascade[c].target}
  /\ UNCHANGED <<alive, marked, request, spent, asked, lost>>

\* A query or the search index fails before anything is deleted: off the
\* record, ...
failDelete(c) ==
  /\ cascade[c].at \in {"reading", "read"}
  /\ Fault
  /\ pending' = pending \ {cascade[c].target}
  /\ cascade' = [cascade EXCEPT ![c].at = "unmarking"]
  /\ UNCHANGED <<alive, marked, running, request, asked, lost>>

\* ... then the node comes back, unless that fails too.
removeDeleting(c) ==
  /\ cascade[c].at = "unmarking"
  /\ Ends(c)
  /\ \/ marked' = marked \ {cascade[c].target} /\ UNCHANGED <<spent, lost>>
     \/ Fault /\ lost' = TRUE /\ UNCHANGED marked
  /\ UNCHANGED <<alive, pending, request, asked>>

run(c) == readLevel(c) \/ deleteChunk(c) \/ finish(c) \/ failDelete(c)
            \/ removeDeleting(c)

-----------------------------------------------------------------------------
(* A restart: memory is lost, the table is read (resumePending).           *)

\* Moments at which a restart leaves what nothing repairs: a node is hidden
\* and not on record, or its cascade has deleted a part.
BadMoment == \/ \E r \in Requests : request[r].at = "marked"
             \/ \E c \in Runs : cascade[c].at \in {"deleting", "unmarking"}

\* Mutant of Resumed: the table is not read.
ResumedNone == {}

Resumed == pending

restartDeletes ==
  /\ spent.crashes < MaxCrashes
  /\ spent' = [spent EXCEPT !.crashes = @ + 1]
  /\ request' = [r \in Requests |-> IF request[r].at = "new" THEN request[r]
                                                             ELSE Over]
  /\ cascade' = [c \in Runs |-> IF c \in Resumed THEN Begun(c) ELSE None]
  /\ running' = Resumed
  /\ lost' = (lost \/ BadMoment)
  /\ UNCHANGED <<alive, marked, pending, asked>>

DeletesNext ==
  \/ \E r \in Requests : start(r)
  \/ \E c \in Runs : run(c)
  \/ restartDeletes

DeletesSpec == DeletesInit /\ [][DeletesNext]_dvars

\* A cascade runs on by itself.
DeletesFairness == \A c \in Runs : WF_dvars(run(c))

FairDeletesSpec == DeletesSpec /\ DeletesFairness

-----------------------------------------------------------------------------
(* Properties.                                                             *)

\* No request is being answered and no cascade runs.
AtRest == /\ \A r \in Requests : request[r].at \in {"new", "over"}
          /\ \A c \in Runs : cascade[c].at = "none"

\* What a delete of each vertex takes along when nothing else happens.
Below ==
  [v \in Vertices |->
     {w \in Vertices : \A S \in SUBSET Vertices :
                         v \in S /\ Enqueued(S, Vertices) \subseteq S => w \in S}]

Upstream == [v \in Vertices |-> Reached(v, Vertices) \ {v}]

\* "Sources upstream are kept": whatever is gone, some delete was asked for
\* that it is not a source of, however far up.
SourcesKept ==
  \A v \in Vertices \ alive : \E t \in asked : v \notin Upstream[t]

\* Overlapping deletes leave nothing behind between them: once all is quiet
\* everything below a deleted node is gone, also when a restart came while a
\* cascade was still reading or had deleted all.  (A cascade that meets a gap
\* another one has made does not look below it.)
NothingLeftBelow ==
  AtRest /\ ~lost
    => \A t \in asked \ alive : Below[t] \cap alive = {}

\* A hidden node is about to be deleted or shown again: it never just stays
\* hidden, which would be for ever, since nobody can read it to delete it.
HiddenIsHandled ==
  ~lost => \A v \in marked :
             \/ v \in pending
             \/ \E r \in Requests : request[r].at = "marked" /\ request[r].target = v
             \/ \E c \in Runs : cascade[c].at # "none" /\ cascade[c].target = v

\* A delete takes all that hangs on its node, and what it hides it handles.
DeletesAreWhole == DeletesTypeOK /\ NothingLeftBelow /\ HiddenIsHandled

\* A recorded delete is carried to its end, over any number of restarts.
PendingResolved == \A v \in Vertices : v \in pending ~> v \notin pending

-----------------------------------------------------------------------------
(* What the documentation says and the code does not do.                   *)

\* "A restart resumes unfinished deletes": once all is quiet, nothing is left
\* of what a delete had begun to take away.
RestartsFinishDeletes ==
  AtRest => \A t \in asked \ alive : Below[t] \cap alive = {}
=============================================================================
