----------------------- MODULE BackgroundDeletesProofs -----------------------
(***************************************************************************)
(* Proofs about BackgroundDeletes, for every desk, every set of requests   *)
(* and every number of faults and restarts.                                *)
(*                                                                         *)
(* The argument looks at one edge at a time: what is below a vertex that   *)
(* has gone has gone itself, or is on the list of a cascade that deletes.  *)
(* The closures Below and Upstream are least closed sets, so a closed set  *)
(* is all it takes to bound them.                                          *)
(***************************************************************************)
EXTENDS BackgroundDeletes, FiniteSetTheorems, TLAPS

-----------------------------------------------------------------------------
(* Types.                                                                  *)

RequestType == [at: {"new", "marking", "marked", "over"},
                target: Vertices \cup {NoVertex}]

CascadeSteps == {"none", "reading", "read", "deleting", "closing", "unmarking"}

CascadeType ==
  [at: CascadeSteps, target: Vertices \cup {NoVertex},
   level: SUBSET Vertices, visited: SUBSET Vertices,
   doomed: Seq(SUBSET Vertices)]

GraphOK ==
  /\ alive \subseteq Vertices /\ marked \subseteq alive
  /\ pending \subseteq Vertices /\ running \subseteq Vertices
  /\ asked \subseteq Vertices
  /\ spent \in [faults: 0..MaxFaults, crashes: 0..MaxCrashes]
  /\ lost \in BOOLEAN

RequestOK ==
  /\ request \in [Requests -> RequestType]
  /\ \A r \in Requests :
       request[r].at \in {"marking", "marked"} => request[r].target \in Vertices

\* A request that has not started its cascade has none, and a cascade has a
\* target that was asked for.
CascadeOK ==
  /\ cascade \in [Runs -> CascadeType]
  /\ \A c \in Runs :
       cascade[c].at # "none" => cascade[c].target \in Vertices
  /\ \A r \in Requests : request[r].at # "over" => cascade[r].at = "none"

DTypes == GraphOK /\ RequestOK /\ CascadeOK

\* One cascade is replaced.
CascadeStep(c, new) ==
  /\ cascade' = [cascade EXCEPT ![c] = new]
  /\ new \in CascadeType
  /\ new.at # "none" => new.target \in Vertices

LEMMA CascadeMoved ==
  ASSUME cascade \in [Runs -> CascadeType], NEW c \in Runs, NEW new, CascadeStep(c, new)
  PROVE  /\ cascade' \in [Runs -> CascadeType]
         /\ cascade'[c] = new
         /\ \A b \in Runs \ {c} : cascade'[b] = cascade[b]
BY DEF CascadeStep

LEMMA BegunTyped ==
  ASSUME NEW v \in Vertices
  PROVE  /\ Begun(v) \in CascadeType /\ Begun(v).at = "reading" /\ Begun(v).target = v
         /\ Begun(v).level = {v} /\ Begun(v).visited = {} /\ Begun(v).doomed = <<>>
BY DEF Begun, CascadeType, CascadeSteps

LEMMA NoneTyped == None \in CascadeType /\ None.at = "none"
BY DEF None, CascadeType, CascadeSteps

\* Every rid the cascade enqueues is a vertex.
LEMMA EnqueuedTyped ==
  ASSUME NEW found, NEW there \in SUBSET Vertices
  PROVE  Enqueued(found, there) \in SUBSET Vertices
BY DeleteConstants DEF Enqueued, EdgesOf

\* The cascade after readLevel, and after a chunk.
AfterLevel(c) ==
  LET found == cascade[c].level \cap alive
      seen  == cascade[c].visited \cup cascade[c].level
      next  == Enqueued(found, alive) \ seen
  IN  [cascade[c] EXCEPT !.level = next, !.visited = seen,
         !.doomed = IF found = {} THEN cascade[c].doomed
                                  ELSE Append(cascade[c].doomed, found),
         !.at = IF next # {} THEN "reading" ELSE "read"]

AfterChunk(c, S) ==
  [cascade[c] EXCEPT !.doomed = Remaining(cascade[c].doomed, S),
                     !.at = IF IsLast(c, S) THEN "closing" ELSE "deleting"]

\* What readLevel writes.
LEMMA LevelRead ==
  ASSUME GraphOK, CascadeOK, NEW c \in Runs, readLevel(c)
  PROVE  /\ cascade[c].at = "reading" /\ cascade[c].target \in Vertices
         /\ CascadeStep(c, AfterLevel(c))
         /\ AfterLevel(c).target = cascade[c].target
         /\ AfterLevel(c).visited = cascade[c].visited \cup cascade[c].level
         /\ AfterLevel(c).level
              = Enqueued(cascade[c].level \cap alive, alive)
                  \ (cascade[c].visited \cup cascade[c].level)
         /\ AfterLevel(c).at \in {"reading", "read"}
         /\ AfterLevel(c).at = "read" => AfterLevel(c).level = {}
         /\ UNION {AfterLevel(c).doomed[i] : i \in DOMAIN AfterLevel(c).doomed}
              = Doomed(c) \cup (cascade[c].level \cap alive)
<1>. DEFINE found == cascade[c].level \cap alive
            seen  == cascade[c].visited \cup cascade[c].level
            next  == Enqueued(found, alive) \ seen
            old   == cascade[c].doomed
            levels == IF found = {} THEN old ELSE Append(old, found)
            step  == IF next # {} THEN "reading" ELSE "read"
<1>1. /\ cascade[c] \in CascadeType /\ cascade[c].at = "reading"
      /\ cascade[c].target \in Vertices
  BY DEF readLevel, CascadeOK
<1>2. found \in SUBSET Vertices /\ seen \in SUBSET Vertices /\ next \in SUBSET Vertices
  BY <1>1, EnqueuedTyped DEF CascadeType, GraphOK
<1>3. old \in Seq(SUBSET Vertices)
  BY <1>1 DEF CascadeType
<1>. HIDE DEF found, seen, next, old
<1>4. levels \in Seq(SUBSET Vertices)
  BY <1>2, <1>3
<1>5. UNION {levels[i] : i \in DOMAIN levels} = (UNION {old[i] : i \in DOMAIN old}) \cup found
  <2>1. CASE found = {}
    BY <2>1
  <2>2. CASE found # {}
    <3>1. /\ DOMAIN levels = DOMAIN old \cup {Len(old) + 1}
          /\ \A i \in DOMAIN old : levels[i] = old[i]
          /\ levels[Len(old) + 1] = found
      BY <1>2, <1>3, <2>2
    <3>. QED  BY <3>1
  <2>. QED  BY <2>1, <2>2
<1>. HIDE DEF levels
<1>6. step \in CascadeSteps /\ step \in {"reading", "read"} /\ (step = "read" => next = {})
  BY DEF CascadeSteps
<1>. HIDE DEF step
<1>7. AfterLevel(c) = [cascade[c] EXCEPT !.level = next, !.visited = seen,
                                         !.doomed = levels, !.at = step]
  BY DEF AfterLevel, found, seen, next, old, levels, step
<1>8. /\ AfterLevel(c) \in CascadeType
      /\ AfterLevel(c).target = cascade[c].target
      /\ AfterLevel(c).visited = seen /\ AfterLevel(c).level = next
      /\ AfterLevel(c).doomed = levels /\ AfterLevel(c).at = step
  BY <1>1, <1>2, <1>4, <1>6, <1>7 DEF CascadeType
<1>9. CascadeStep(c, AfterLevel(c))
  BY <1>1, <1>8 DEF CascadeStep, readLevel, AfterLevel
<1>. QED  BY <1>1, <1>5, <1>6, <1>8, <1>9 DEF found, seen, next, old, Doomed

\* A function on 1..n is a sequence.
LEMMA FunctionIsSeq ==
  ASSUME NEW T, NEW n \in Nat, NEW f \in [1..n -> T]
  PROVE  f \in Seq(T)
OBVIOUS

\* What deleteChunk writes.
LEMMA ChunkWritten ==
  ASSUME CascadeOK, NEW c \in Runs, cascade[c].at \in {"read", "deleting"}, NEW S,
         cascade' = [cascade EXCEPT ![c] = AfterChunk(c, S)]
  PROVE  /\ CascadeStep(c, AfterChunk(c, S))
         /\ AfterChunk(c, S).target = cascade[c].target
         /\ AfterChunk(c, S).at = (IF S = Doomed(c) THEN "closing" ELSE "deleting")
         /\ UNION {AfterChunk(c, S).doomed[i] : i \in DOMAIN AfterChunk(c, S).doomed}
              = Doomed(c) \ S
<1>. DEFINE old == cascade[c].doomed
            levels == Remaining(old, S)
            step == IF S = Doomed(c) THEN "closing" ELSE "deleting"
<1>1. cascade[c] \in CascadeType /\ cascade[c].target \in Vertices
  BY DEF CascadeOK
<1>2. old \in Seq(SUBSET Vertices)
  BY <1>1 DEF CascadeType
<1>3. levels \in Seq(SUBSET Vertices)
  <2>1. PICK n \in Nat : n = Len(old)
    BY <1>2
  <2>2. DOMAIN old = 1..n /\ \A i \in 1..n : old[i] \in SUBSET Vertices
    BY <1>2, <2>1
  <2>3. levels \in [1..n -> SUBSET Vertices]
    BY <2>2 DEF Remaining
  <2>. HIDE DEF levels
  <2>. QED  BY <2>1, <2>3, FunctionIsSeq
<1>4. UNION {levels[i] : i \in DOMAIN levels} = Doomed(c) \ S
  <2>1. DOMAIN levels = DOMAIN old /\ \A i \in DOMAIN old : levels[i] = old[i] \ S
    BY DEF Remaining
  <2>. HIDE DEF levels
  <2>. QED  BY <2>1 DEF Doomed
<1>5. step \in CascadeSteps
  BY DEF CascadeSteps
<1>. HIDE DEF levels, old, step
<1>6. AfterChunk(c, S) = [cascade[c] EXCEPT !.doomed = levels, !.at = step]
  BY DEF AfterChunk, levels, old, step, IsLast
<1>7. /\ AfterChunk(c, S) \in CascadeType
      /\ AfterChunk(c, S).target = cascade[c].target
      /\ AfterChunk(c, S).doomed = levels /\ AfterChunk(c, S).at = step
  BY <1>1, <1>3, <1>5, <1>6 DEF CascadeType
<1>. QED  BY <1>1, <1>4, <1>7 DEF CascadeStep, step

\* A fault is counted, and lost is a truth value.
LEMMA FaultTyped ==
  ASSUME spent \in [faults: 0..MaxFaults, crashes: 0..MaxCrashes]
  PROVE  /\ Fault => spent' \in [faults: 0..MaxFaults, crashes: 0..MaxCrashes]
         /\ lost' = TRUE => lost' \in BOOLEAN
<1>1. Fault => spent' \in [faults: 0..MaxFaults, crashes: 0..MaxCrashes]
  BY DeleteConstants DEF Fault
<1>2. lost' = TRUE => lost' \in BOOLEAN
  BY Zenon
<1>. QED  BY <1>1, <1>2

\* The steps of a request keep the types ...
LEMMA StartTyped ==
  ASSUME DTypes, NEW r \in Requests, start(r)
  PROVE  DTypes'
<1>. USE DEF DTypes
<1>1. ASSUME NEW v \in Vertices, startCheck(r, v) PROVE DTypes'
  <2>1. /\ request' = [request EXCEPT ![r] = [at |-> "marking", target |-> v]]
        /\ request[r].at = "new"
        /\ UNCHANGED <<alive, marked, pending, running, cascade, spent, asked, lost>>
    BY <1>1 DEF startCheck
  <2>2. [at |-> "marking", target |-> v] \in RequestType
    BY DEF RequestType
  <2>. QED  BY <2>1, <2>2 DEF GraphOK, RequestOK, CascadeOK
<1>2. CASE setDeleting(r)
  <2>1. PICK next \in RequestType :
          /\ request' = [request EXCEPT ![r] = next]
          /\ next.at \in {"marked", "over"}
          /\ next.at = "marked" => next.target \in Vertices
    <3>1. request[r] \in RequestType /\ request[r].target \in Vertices
      BY <1>2 DEF setDeleting, RequestOK
    <3>2. CASE request' = [request EXCEPT ![r].at = "marked"]
      <4>1. PICK next : next = [request[r] EXCEPT !.at = "marked"]
        OBVIOUS
      <4>2. /\ next \in RequestType /\ next.at = "marked"
            /\ next.target = request[r].target
        BY <3>1, <4>1 DEF RequestType
      <4>3. request' = [request EXCEPT ![r] = next]
        BY <3>2, <4>1
      <4>. QED  BY <3>1, <4>2, <4>3
    <3>3. CASE request' = [request EXCEPT ![r] = Over]
      <4>1. Over \in RequestType /\ Over.at = "over"
        BY DEF Over, RequestType
      <4>. QED  BY <3>3, <4>1
    <3>. QED  BY <1>2, <3>2, <3>3 DEF setDeleting
  <2>2. RequestOK'
    BY <2>1 DEF RequestOK
  <2>3. GraphOK'
    BY <1>2 DEF setDeleting, GraphOK
  <2>4. CascadeOK'
    BY <1>2, <2>1 DEF setDeleting, CascadeOK, RequestOK
  <2>. QED  BY <2>2, <2>3, <2>4
<1>3. CASE startRun(r)
  <2>. PICK v \in Vertices : v = request[r].target
    BY <1>3 DEF startRun, RequestOK
  <2>1. r \in Runs /\ CascadeStep(r, Begun(v)) /\ request' = [request EXCEPT ![r] = Over]
    BY <1>3, BegunTyped DEF startRun, Runs, CascadeStep
  <2>2. Over \in RequestType /\ Over.at = "over"
    BY DEF Over, RequestType
  <2>3. RequestOK'
    BY <2>1, <2>2 DEF RequestOK
  <2>4. GraphOK'
    BY <1>3 DEF startRun, GraphOK
  <2>5. /\ cascade' \in [Runs -> CascadeType]
        /\ cascade'[r] = Begun(v)
        /\ \A b \in Runs \ {r} : cascade'[b] = cascade[b]
    BY <2>1, CascadeMoved DEF CascadeOK
  <2>6. CascadeOK'
    <3>1. /\ request'[r].at = "over"
          /\ \A q \in Requests \ {r} : request'[q] = request[q]
      BY <2>1, <2>2 DEF RequestOK
    <3>2. \A c \in Runs : cascade'[c].at # "none" => cascade'[c].target \in Vertices
      BY <2>5, BegunTyped DEF CascadeOK
    <3>3. \A q \in Requests : request'[q].at # "over" => cascade'[q].at = "none"
      BY <2>5, <3>1 DEF CascadeOK, Runs
    <3>. QED  BY <2>5, <3>2, <3>3 DEF CascadeOK
  <2>. QED  BY <2>3, <2>4, <2>6
<1>. QED  BY <1>1, <1>2, <1>3 DEF start

\* What the steps of a cascade are: it is under way, and replaced.
LEMMA RunSteps ==
  ASSUME GraphOK, CascadeOK, NEW c \in Runs, run(c)
  PROVE  /\ cascade[c].at # "none" /\ cascade[c].target \in Vertices
         /\ \E new : CascadeStep(c, new)
         /\ UNCHANGED <<request, asked>>
<1>1. CASE readLevel(c)
  BY <1>1, LevelRead DEF readLevel
<1>2. CASE deleteChunk(c)
  <2>1. PICK S : cascade' = [cascade EXCEPT ![c] = AfterChunk(c, S)]
    BY <1>2 DEF deleteChunk, AfterChunk
  <2>. QED  BY <1>2, <2>1, ChunkWritten DEF deleteChunk, CascadeOK
<1>3. CASE finish(c) \/ removeDeleting(c)
  BY <1>3, NoneTyped DEF finish, removeDeleting, Ends, CascadeStep, CascadeOK
<1>4. CASE failDelete(c)
  <2>1. cascade[c] \in CascadeType /\ cascade[c].target \in Vertices
    BY <1>4 DEF failDelete, CascadeOK
  <2>2. PICK new : cascade' = [cascade EXCEPT ![c] = new]
                     /\ new = [cascade[c] EXCEPT !.at = "unmarking"]
    BY <1>4 DEF failDelete
  <2>3. new \in CascadeType /\ new.target \in Vertices
    BY <2>1, <2>2 DEF CascadeType, CascadeSteps
  <2>. QED  BY <1>4, <2>1, <2>2, <2>3 DEF failDelete, CascadeStep
<1>. QED  BY <1>1, <1>2, <1>3, <1>4 DEF run

\* ... and so do those of a cascade, and a restart.
LEMMA RunTyped ==
  ASSUME DTypes, NEW c \in Runs, run(c)
  PROVE  DTypes'
<1>. USE DEF DTypes
<1>1. PICK new : CascadeStep(c, new)
  BY RunSteps
<1>2. /\ cascade[c].at # "none" /\ UNCHANGED <<request, asked>>
      /\ cascade' \in [Runs -> CascadeType]
      /\ cascade'[c] = new
      /\ \A b \in Runs \ {c} : cascade'[b] = cascade[b]
  BY <1>1, RunSteps, CascadeMoved DEF CascadeOK
<1>3. CascadeOK'
  BY <1>1, <1>2 DEF CascadeOK, CascadeStep, Runs
<1>4. GraphOK'
  <2>1. CASE readLevel(c)
    BY <2>1 DEF readLevel, GraphOK
  <2>2. CASE deleteChunk(c)
    <3>1. /\ alive' \subseteq alive /\ marked' = marked \cap alive'
          /\ UNCHANGED <<pending, running, asked>>
      BY <2>2 DEF deleteChunk
    <3>2. UNCHANGED <<spent, lost>> \/ (Fault /\ lost' = TRUE)
      BY <2>2 DEF deleteChunk
    <3>. QED  BY <3>1, <3>2, FaultTyped DEF GraphOK
  <2>3. CASE finish(c) \/ failDelete(c)
    BY <2>3, FaultTyped DEF finish, failDelete, Ends, GraphOK
  <2>4. CASE removeDeleting(c)
    <3>1. /\ UNCHANGED <<alive, pending, asked>> /\ marked' \subseteq marked
          /\ running' \subseteq running
      BY <2>4 DEF removeDeleting, Ends
    <3>2. UNCHANGED <<spent, lost>> \/ (Fault /\ lost' = TRUE)
      BY <2>4 DEF removeDeleting
    <3>. QED  BY <3>1, <3>2, FaultTyped DEF GraphOK
  <2>. QED  BY <2>1, <2>2, <2>3, <2>4 DEF run
<1>5. RequestOK'
  BY <1>2 DEF RequestOK
<1>. QED  BY <1>3, <1>4, <1>5

LEMMA RestartTyped ==
  ASSUME DTypes, restartDeletes
  PROVE  DTypes'
<1>. USE DEF DTypes
<1>1. GraphOK'
  <2>1. spent' \in [faults: 0..MaxFaults, crashes: 0..MaxCrashes]
    BY DeleteConstants DEF restartDeletes, GraphOK
  <2>2. lost' \in BOOLEAN
    BY Zenon DEF restartDeletes
  <2>. QED  BY <2>1, <2>2 DEF restartDeletes, GraphOK, Resumed
<1>2. \A r \in Requests : request'[r] = (IF request[r].at = "new" THEN request[r] ELSE Over)
  BY DEF restartDeletes
<1>3. Over \in RequestType /\ Over.at = "over"
  BY DEF Over, RequestType
<1>4. RequestOK'
  BY <1>2, <1>3 DEF restartDeletes, RequestOK
<1>5. \A c \in Runs : cascade'[c] = (IF c \in pending THEN Begun(c) ELSE None)
  BY DEF restartDeletes, Resumed
<1>6. /\ \A c \in Runs : cascade'[c] \in CascadeType
      /\ \A c \in Runs : cascade'[c].at # "none" => c \in pending /\ cascade'[c].target = c
  BY <1>5, BegunTyped, NoneTyped DEF GraphOK
<1>7. cascade' \in [Runs -> CascadeType]
  BY <1>6 DEF restartDeletes
<1>8. \A r \in Requests : r \in Runs /\ cascade'[r].at = "none"
  BY <1>5, <1>6, DeleteConstants DEF Runs, GraphOK
<1>9. CascadeOK'
  BY <1>6, <1>7, <1>8 DEF CascadeOK, GraphOK
<1>. QED  BY <1>1, <1>4, <1>9

LEMMA DTypesInductive == DTypes /\ [DeletesNext]_dvars => DTypes'
<1>1. ASSUME DTypes, UNCHANGED dvars PROVE DTypes'
  BY <1>1 DEF dvars, DTypes, GraphOK, RequestOK, CascadeOK
<1>. QED  BY <1>1, StartTyped, RunTyped, RestartTyped DEF DeletesNext

LEMMA DTypesInit == DeletesInit => DTypes
<1>. SUFFICES ASSUME DeletesInit PROVE DTypes
  OBVIOUS
<1>1. \A c \in Runs : cascade[c] = None
  BY DEF DeletesInit
<1>2. cascade \in [Runs -> CascadeType]
  BY <1>1, NoneTyped DEF DeletesInit
<1>3. CascadeOK
  BY <1>1, <1>2, NoneTyped DEF CascadeOK, Runs
<1>4. RequestOK
  BY DEF DeletesInit, RequestOK, RequestType
<1>5. spent \in [faults: 0..MaxFaults, crashes: 0..MaxCrashes] /\ lost \in BOOLEAN
  <2>1. 0 \in 0..MaxFaults /\ 0 \in 0..MaxCrashes
    BY DeleteConstants
  <2>. QED  BY <2>1 DEF DeletesInit
<1>6. GraphOK
  BY <1>5 DEF DeletesInit, GraphOK
<1>. QED  BY <1>3, <1>4, <1>6 DEF DTypes

-----------------------------------------------------------------------------
(* Deletes are whole.                                                      *)

\* On the list of a cascade that deletes.
Taken(w) == \E b \in Runs : cascade[b].at = "deleting" /\ w \in Doomed(b)

Below1(g) == Enqueued({g}, Vertices)

\* What a cascade has visited and is still there is on its list.
VisitsListed ==
  \A c \in Runs : cascade[c].at \in {"reading", "read"} =>
    /\ cascade[c].visited \cap alive \subseteq Doomed(c)
    /\ cascade[c].target \in cascade[c].visited \cup cascade[c].level
    /\ cascade[c].at = "read" => cascade[c].level = {}

\* Below a gap everything is taken, ...
GapsTaken ==
  \A g \in Vertices \ alive : \A w \in alive \cap Below1(g) : Taken(w)

\* ... and below a listed vertex everything is listed, about to be, or taken.
ListsTaken ==
  \A c \in Runs : cascade[c].at \in {"reading", "read", "deleting"} =>
    \A g \in Doomed(c) : \A w \in alive \cap Below1(g) :
      \/ w \in Doomed(c)
      \/ cascade[c].at = "reading" /\ w \in cascade[c].level
      \/ Taken(w)

\* A cascade does not end before its target.
TargetsGo ==
  \A c \in Runs :
    /\ cascade[c].at = "deleting" /\ cascade[c].target \in alive
         => cascade[c].target \in Doomed(c)
    /\ cascade[c].at = "closing" => cascade[c].target \notin alive

\* A hidden vertex is on record, about to be, or about to be shown again.
HiddenRecorded ==
  \A v \in marked :
    \/ v \in pending
    \/ \E r \in Requests : request[r].at = "marked" /\ request[r].target = v
    \/ \E c \in Runs : cascade[c].at = "unmarking" /\ cascade[c].target = v

WholeInv ==
  /\ DTypes /\ VisitsListed
  /\ ~lost => GapsTaken /\ ListsTaken /\ TargetsGo /\ HiddenRecorded

\* No cascade takes anything older than its target.
AgesKept(age) ==
  /\ pending \subseteq asked
  /\ \A c \in Runs : cascade[c].at # "none" =>
       /\ cascade[c].target \in asked
       /\ \A w \in cascade[c].level \cup Doomed(c) : age[cascade[c].target] <= age[w]
  /\ \A v \in Vertices \ alive : \E t \in asked : age[t] <= age[v]

\* A level enqueues what its vertices enqueue one by one.
LEMMA EnqueuedByOne ==
  ASSUME NEW found, NEW there, NEW w \in Enqueued(found, there)
  PROVE  \E g \in found : w \in Enqueued({g}, there)
<1>1. CASE \E e \in EdgesOf(there) : e.source \in found /\ w = e.output
  BY <1>1 DEF Enqueued
<1>2. CASE \E e \in EdgesOf(there) :
             /\ e.output \in found \/ e.source \in found
             /\ e.process # NoVertex /\ w = e.process
  BY <1>2 DEF Enqueued
<1>3. CASE \E e \in EdgesOf(there) : e.process \in found /\ w = e.output
  BY <1>3 DEF Enqueued
<1>4. CASE w \in there /\ (SetOf[w] \in found \/ SetProcessOf[w] \in found)
  BY <1>4 DEF Enqueued
<1>5. CASE Desk \in found /\ w \in there
  BY <1>5 DEF Enqueued
<1>. QED  BY <1>1, <1>2, <1>3, <1>4, <1>5 DEF Enqueued

\* Among fewer vertices a vertex still enqueues all that is left below it,
\* unless the other end of an edge has gone, which had it below it as well.
LEMMA EnqueuedOrGap ==
  ASSUME NEW there \in SUBSET Vertices, NEW g \in there, NEW w \in there,
         w \in Below1(g)
  PROVE  \/ w \in Enqueued({g}, there)
         \/ \E x \in Vertices \ there : w \in Below1(x)
<1>1. \A e \in EdgesOf(Vertices) : e.output \in Vertices /\ e.source \in Vertices
  BY DEF EdgesOf
<1>2. CASE \E e \in EdgesOf(Vertices) : e.source = g /\ w = e.output
  BY <1>2 DEF Enqueued, EdgesOf
<1>3. ASSUME NEW e \in EdgesOf(Vertices), e.output = g \/ e.source = g,
             e.process # NoVertex, w = e.process
      PROVE  \/ w \in Enqueued({g}, there)
             \/ \E x \in Vertices \ there : w \in Below1(x)
  <2>1. CASE e.output \in there /\ e.source \in there
    BY <1>3, <2>1 DEF Enqueued, EdgesOf
  <2>2. CASE e.output \notin there
    BY <1>1, <1>3, <2>2 DEF Enqueued, Below1
  <2>3. CASE e.source \notin there
    BY <1>1, <1>3, <2>3 DEF Enqueued, Below1
  <2>. QED  BY <2>1, <2>2, <2>3
<1>4. ASSUME NEW e \in EdgesOf(Vertices), e.process = g, w = e.output
      PROVE  \/ w \in Enqueued({g}, there)
             \/ \E x \in Vertices \ there : w \in Below1(x)
  <2>1. CASE e.source \in there
    BY <1>4, <2>1 DEF Enqueued, EdgesOf
  <2>2. CASE e.source \notin there
    BY <1>1, <1>4, <2>2 DEF Enqueued, Below1
  <2>. QED  BY <2>1, <2>2
<1>5. CASE SetOf[w] = g \/ SetProcessOf[w] = g
  BY <1>5 DEF Enqueued
<1>6. CASE Desk = g
  BY <1>6 DEF Enqueued
<1>. QED  BY <1>2, <1>3, <1>4, <1>5, <1>6 DEF Below1, Enqueued

\* Two cascades do not share their lists.
LEMMA OthersKeep ==
  ASSUME DTypes, NEW c \in Runs, NEW new, CascadeStep(c, new)
  PROVE  /\ cascade'[c] = new
         /\ Doomed(c)' = UNION {new.doomed[i] : i \in DOMAIN new.doomed}
         /\ \A b \in Runs \ {c} : cascade'[b] = cascade[b] /\ Doomed(b)' = Doomed(b)
BY CascadeMoved DEF DTypes, CascadeOK, Doomed

\* While nothing goes and no cascade leaves its list, gaps stay taken and what
\* is below them too.
LEMMA TakenStays ==
  ASSUME NEW c \in Runs,
         \A b \in Runs \ {c} : cascade'[b] = cascade[b] /\ Doomed(b)' = Doomed(b),
         cascade[c].at # "deleting", NEW w, Taken(w)
  PROVE  Taken(w)'
BY DEF Taken

\* A level is read.
LEMMA LevelKeepsWhole ==
  ASSUME WholeInv, DTypes', NEW c \in Runs, readLevel(c)
  PROVE  WholeInv'
<1>. DEFINE new   == AfterLevel(c)
            found == cascade[c].level \cap alive
            seen  == cascade[c].visited \cup cascade[c].level
<1>1. /\ cascade[c].at = "reading" /\ cascade[c].target \in Vertices
      /\ CascadeStep(c, new) /\ new.target = cascade[c].target
      /\ new.visited = seen /\ new.level = Enqueued(found, alive) \ seen
      /\ new.at \in {"reading", "read"} /\ (new.at = "read" => new.level = {})
      /\ UNION {new.doomed[i] : i \in DOMAIN new.doomed} = Doomed(c) \cup found
  BY LevelRead DEF WholeInv, DTypes
<1>2. /\ cascade'[c] = new /\ Doomed(c)' = Doomed(c) \cup found
      /\ \A b \in Runs \ {c} : cascade'[b] = cascade[b] /\ Doomed(b)' = Doomed(b)
  BY <1>1, OthersKeep DEF WholeInv
<1>. HIDE DEF new
<1>3. UNCHANGED <<alive, marked, pending, running, request, lost>>
  BY DEF readLevel
<1>4. seen \cap alive \subseteq Doomed(c)'
  BY <1>1, <1>2 DEF WholeInv, VisitsListed
<1>5. VisitsListed'
  <2>1. new.target \in seen
    BY <1>1 DEF WholeInv, VisitsListed
  <2>2. /\ cascade'[c].visited \cap alive' \subseteq Doomed(c)'
        /\ cascade'[c].target \in cascade'[c].visited \cup cascade'[c].level
        /\ cascade'[c].at = "read" => cascade'[c].level = {}
    BY <1>1, <1>2, <1>3, <1>4, <2>1
  <2>. QED  BY <1>2, <1>3, <2>2 DEF WholeInv, VisitsListed
<1>6. ASSUME ~lost PROVE GapsTaken' /\ ListsTaken' /\ TargetsGo' /\ HiddenRecorded'
  <2>1. GapsTaken /\ ListsTaken /\ TargetsGo /\ HiddenRecorded
    BY <1>6 DEF WholeInv
  <2>2. \A w : Taken(w) => Taken(w)'
    BY <1>1, <1>2, TakenStays
  <2>3. GapsTaken'
    BY <1>3, <2>1, <2>2 DEF GapsTaken, Below1
  <2>4. ASSUME NEW g \in Doomed(c)', NEW w \in alive \cap Below1(g)
        PROVE  w \in Doomed(c)' \/ (new.at = "reading" /\ w \in new.level) \/ Taken(w)'
    <3>1. CASE g \in Doomed(c)
      <4>1. w \in Doomed(c) \/ w \in cascade[c].level \/ Taken(w)
        BY <1>1, <2>1, <2>4, <3>1 DEF ListsTaken
      <4>. QED  BY <1>2, <2>2, <4>1
    <3>2. CASE g \in found
      <4>1. \/ w \in Enqueued({g}, alive)
            \/ \E x \in Vertices \ alive : w \in Below1(x)
        BY <2>4, <3>2, EnqueuedOrGap DEF WholeInv, DTypes, GraphOK
      <4>2. CASE w \in Enqueued({g}, alive)
        <5>1. w \in Enqueued(found, alive)
          BY <3>2, <4>2 DEF Enqueued
        <5>. QED  BY <1>1, <1>4, <2>4, <5>1
      <4>3. CASE \E x \in Vertices \ alive : w \in Below1(x)
        BY <2>1, <2>2, <2>4, <4>3 DEF GapsTaken
      <4>. QED  BY <4>1, <4>2, <4>3
    <3>. QED  BY <1>2, <2>4, <3>1, <3>2
  <2>5. ListsTaken'
    BY <1>1, <1>2, <1>3, <2>1, <2>2, <2>4 DEF ListsTaken, Below1
  <2>6. TargetsGo'
    BY <1>1, <1>2, <1>3, <2>1 DEF TargetsGo
  <2>7. HiddenRecorded'
    BY <1>1, <1>2, <1>3, <2>1 DEF HiddenRecorded
  <2>. QED  BY <2>3, <2>5, <2>6, <2>7
<1>. QED  BY <1>3, <1>5, <1>6 DEF WholeInv

\* A chunk of the list goes.
LEMMA ChunkKeepsWhole ==
  ASSUME WholeInv, DTypes', NEW c \in Runs, deleteChunk(c)
  PROVE  WholeInv'
<1>1. PICK S \in Chunks(c) :
        /\ \/ alive' = alive \ S /\ UNCHANGED lost
           \/ lost' = TRUE /\ alive' \subseteq alive
        /\ cascade' = [cascade EXCEPT ![c] = AfterChunk(c, S)]
  BY DEF deleteChunk, AfterChunk
<1>. DEFINE new == AfterChunk(c, S)
<1>2. /\ cascade[c].at \in {"read", "deleting"}
      /\ marked' \subseteq alive' /\ marked' \subseteq marked
      /\ UNCHANGED <<pending, request>> /\ S \subseteq Doomed(c)
  BY <1>1 DEF deleteChunk, Chunks
<1>3. /\ CascadeStep(c, new) /\ new.target = cascade[c].target
      /\ new.at = (IF S = Doomed(c) THEN "closing" ELSE "deleting")
      /\ UNION {new.doomed[i] : i \in DOMAIN new.doomed} = Doomed(c) \ S
  BY <1>1, <1>2, ChunkWritten DEF WholeInv, DTypes
<1>4. /\ cascade'[c] = new /\ Doomed(c)' = Doomed(c) \ S
      /\ \A b \in Runs \ {c} : cascade'[b] = cascade[b] /\ Doomed(b)' = Doomed(b)
  BY <1>3, OthersKeep DEF WholeInv
<1>. HIDE DEF new
<1>5. alive' \subseteq alive
  BY <1>1
<1>6. VisitsListed'
  <2>1. cascade'[c].at \notin {"reading", "read"}
    BY <1>3, <1>4
  <2>. QED  BY <1>4, <1>5, <2>1 DEF WholeInv, VisitsListed
<1>7. ASSUME ~lost' PROVE GapsTaken' /\ ListsTaken' /\ TargetsGo' /\ HiddenRecorded'
  <2>1. /\ GapsTaken /\ ListsTaken /\ TargetsGo /\ HiddenRecorded
        /\ alive' = alive \ S
    BY <1>1, <1>7 DEF WholeInv
  <2>2. \A w \in alive' \cap Doomed(c) : Taken(w)'
    BY <1>3, <1>4, <2>1 DEF Taken
  <2>3. \A w \in alive' : Taken(w) => Taken(w)'
    BY <1>4, <2>2 DEF Taken
  <2>4. cascade[c].at = "read" => cascade[c].level = {}
    BY DEF WholeInv, VisitsListed
  <2>5. \A g \in Doomed(c) : \A w \in alive' \cap Below1(g) : Taken(w)'
    <3>1. SUFFICES ASSUME NEW g \in Doomed(c), NEW w \in alive' \cap Below1(g)
                   PROVE  Taken(w)'
      OBVIOUS
    <3>2. w \in Doomed(c) \/ Taken(w)
      BY <1>2, <1>5, <2>1, <2>4 DEF ListsTaken
    <3>. QED  BY <2>2, <2>3, <3>2
  <2>6. GapsTaken'
    BY <1>2, <1>5, <2>1, <2>3, <2>5 DEF GapsTaken, Below1
  <2>7. ListsTaken'
    <3>1. SUFFICES ASSUME NEW b \in Runs, cascade'[b].at \in {"reading", "read", "deleting"},
                          NEW g \in Doomed(b)', NEW w \in alive' \cap Below1(g)
                   PROVE  \/ w \in Doomed(b)'
                          \/ cascade'[b].at = "reading" /\ w \in cascade'[b].level
                          \/ Taken(w)'
      BY DEF ListsTaken, Below1
    <3>2. CASE b = c
      BY <1>4, <2>5, <3>1, <3>2
    <3>3. CASE b # c
      BY <1>4, <1>5, <2>1, <2>3, <3>1, <3>3 DEF ListsTaken
    <3>. QED  BY <3>2, <3>3
  <2>8. TargetsGo'
    <3>1. cascade[c].target \in alive => cascade[c].target \in Doomed(c)
      BY <1>2, <2>1, <2>4 DEF TargetsGo, WholeInv, VisitsListed
    <3>2. /\ cascade'[c].at = "deleting" /\ cascade'[c].target \in alive'
               => cascade'[c].target \in Doomed(c)'
          /\ cascade'[c].at = "closing" => cascade'[c].target \notin alive'
      BY <1>3, <1>4, <2>1, <3>1
    <3>. QED  BY <1>4, <1>5, <2>1, <3>2 DEF TargetsGo
  <2>9. HiddenRecorded'
    <3>1. \A b \in Runs : cascade[b].at = "unmarking" => cascade'[b] = cascade[b]
      BY <1>2, <1>4
    <3>. QED  BY <1>2, <2>1, <3>1 DEF HiddenRecorded
  <2>. QED  BY <2>6, <2>7, <2>8, <2>9
<1>. QED  BY <1>6, <1>7 DEF WholeInv

\* A cascade ends or fails.
LEMMA EndKeepsWhole ==
  ASSUME WholeInv, DTypes', NEW c \in Runs, finish(c) \/ failDelete(c) \/ removeDeleting(c)
  PROVE  WholeInv'
<1>1. PICK new : /\ CascadeStep(c, new)
                 /\ new.at \in {"none", "unmarking"}
                 /\ cascade[c].at \in {"closing", "reading", "read", "unmarking"}
                 /\ failDelete(c) => new.at = "unmarking" /\ new.target = cascade[c].target
  <2>1. CASE finish(c) \/ removeDeleting(c)
    BY <2>1, NoneTyped DEF finish, failDelete, removeDeleting, Ends, CascadeStep
  <2>2. CASE failDelete(c)
    <3>1. cascade[c] \in CascadeType /\ cascade[c].target \in Vertices
      BY <2>2 DEF failDelete, WholeInv, DTypes, CascadeOK
    <3>2. PICK new : cascade' = [cascade EXCEPT ![c] = new]
                       /\ new = [cascade[c] EXCEPT !.at = "unmarking"]
      BY <2>2 DEF failDelete
    <3>3. new \in CascadeType /\ new.at = "unmarking" /\ new.target = cascade[c].target
      BY <3>1, <3>2 DEF CascadeType, CascadeSteps
    <3>. QED  BY <2>2, <3>1, <3>2, <3>3 DEF failDelete, CascadeStep
  <2>. QED  BY <2>1, <2>2
<1>2. /\ cascade'[c] = new
      /\ \A b \in Runs \ {c} : cascade'[b] = cascade[b] /\ Doomed(b)' = Doomed(b)
  BY <1>1, OthersKeep DEF WholeInv
<1>3. UNCHANGED <<alive, request>> /\ (lost => lost')
  <2>1. UNCHANGED <<alive, request>>
    BY DEF finish, failDelete, removeDeleting
  <2>2. UNCHANGED lost \/ lost' = TRUE
    BY DEF finish, failDelete, removeDeleting
  <2>3. lost => lost'
    BY Zenon, <2>2
  <2>. QED  BY <2>1, <2>3
<1>4. VisitsListed'
  BY <1>1, <1>2, <1>3 DEF WholeInv, VisitsListed
<1>5. ASSUME ~lost' PROVE GapsTaken' /\ ListsTaken' /\ TargetsGo' /\ HiddenRecorded'
  <2>1. GapsTaken /\ ListsTaken /\ TargetsGo /\ HiddenRecorded /\ marked \subseteq alive
    BY <1>3, <1>5 DEF WholeInv, DTypes, GraphOK
  <2>2. \A w : Taken(w) => Taken(w)'
    BY <1>1, <1>2, TakenStays
  <2>3. GapsTaken'
    BY <1>3, <2>1, <2>2 DEF GapsTaken, Below1
  <2>4. ListsTaken'
    BY <1>1, <1>2, <1>3, <2>1, <2>2 DEF ListsTaken, Below1
  <2>5. TargetsGo'
    BY <1>1, <1>2, <1>3, <2>1 DEF TargetsGo
  <2>6. HiddenRecorded'
    <3>1. CASE finish(c)
      <4>1. /\ pending' = pending \ {cascade[c].target} /\ UNCHANGED marked
            /\ cascade[c].target \notin marked /\ cascade[c].at = "closing"
        BY <2>1, <3>1 DEF finish, TargetsGo
      <4>. QED  BY <1>2, <1>3, <2>1, <4>1 DEF HiddenRecorded
    <3>2. CASE failDelete(c)
      <4>1. /\ pending' = pending \ {cascade[c].target} /\ UNCHANGED marked
            /\ cascade[c].at # "unmarking"
        BY <3>2 DEF failDelete
      <4>. QED  BY <1>1, <1>2, <1>3, <2>1, <3>2, <4>1 DEF HiddenRecorded
    <3>3. CASE removeDeleting(c)
      <4>1. marked' = marked \ {cascade[c].target} /\ UNCHANGED pending
        BY <1>5, <3>3 DEF removeDeleting
      <4>. QED  BY <1>2, <1>3, <2>1, <4>1 DEF HiddenRecorded
    <3>. QED  BY <3>1, <3>2, <3>3
  <2>. QED  BY <2>3, <2>4, <2>5, <2>6
<1>. QED  BY <1>4, <1>5 DEF WholeInv

\* A request makes a step.
LEMMA StartKeepsWhole ==
  ASSUME WholeInv, DTypes', NEW r \in Requests, start(r)
  PROVE  WholeInv'
<1>1. CASE \E v \in Vertices : startCheck(r, v)
  <2>1. UNCHANGED <<alive, marked, pending, cascade, lost>>
    BY <1>1 DEF startCheck
  <2>2. \A q \in Requests : request[q].at = "marked" => request'[q] = request[q]
    BY <1>1 DEF startCheck, WholeInv, DTypes, RequestOK
  <2>3. HiddenRecorded => HiddenRecorded'
    <3>1. SUFFICES ASSUME HiddenRecorded, NEW v \in marked
                   PROVE  \/ v \in pending
                          \/ \E q \in Requests : request'[q].at = "marked" /\ request'[q].target = v
                          \/ \E c \in Runs : cascade[c].at = "unmarking" /\ cascade[c].target = v
      BY <2>1 DEF HiddenRecorded
    <3>. QED  BY <2>2, <3>1 DEF HiddenRecorded
  <2>4. /\ VisitsListed' /\ (GapsTaken => GapsTaken') /\ (ListsTaken => ListsTaken')
        /\ (TargetsGo => TargetsGo')
    BY <2>1 DEF WholeInv, VisitsListed, GapsTaken, ListsTaken, TargetsGo, Taken, Doomed, Below1
  <2>. QED  BY <2>1, <2>3, <2>4 DEF WholeInv
<1>2. CASE setDeleting(r)
  <2>1. UNCHANGED <<alive, pending, cascade, lost>>
    BY <1>2 DEF setDeleting
  <2>. PICK v : v = request[r].target
    OBVIOUS
  <2>2. /\ marked' = marked \cup ({v} \cap alive)
        /\ request[r].at = "marking"
        /\ v \in alive => request'[r].at = "marked" /\ request'[r].target = v
        /\ \A q \in Requests \ {r} : request'[q] = request[q]
    <3>1. /\ marked' = marked \cup ({v} \cap alive) /\ request[r].at = "marking"
          /\ \/ request' = [request EXCEPT ![r].at = "marked"]
             \/ v \notin alive /\ request' = [request EXCEPT ![r] = Over]
      BY <1>2 DEF setDeleting
    <3>2. request[r] \in RequestType /\ request \in [Requests -> RequestType]
      BY DEF WholeInv, DTypes, RequestOK
    <3>3. CASE request' = [request EXCEPT ![r].at = "marked"]
      <4>1. PICK next : next = [request[r] EXCEPT !.at = "marked"]
        OBVIOUS
      <4>2. next.at = "marked" /\ next.target = v
        BY <3>2, <4>1 DEF RequestType
      <4>3. request' = [request EXCEPT ![r] = next]
        BY <3>3, <4>1
      <4>. QED  BY <3>1, <3>2, <4>2, <4>3
    <3>4. CASE v \notin alive /\ request' = [request EXCEPT ![r] = Over]
      BY <3>1, <3>2, <3>4
    <3>. QED  BY <3>1, <3>3, <3>4
  <2>3. HiddenRecorded => HiddenRecorded'
    <3>1. SUFFICES ASSUME HiddenRecorded, NEW w \in marked'
                   PROVE  \/ w \in pending
                          \/ \E q \in Requests : request'[q].at = "marked" /\ request'[q].target = w
                          \/ \E c \in Runs : cascade[c].at = "unmarking" /\ cascade[c].target = w
      BY <2>1 DEF HiddenRecorded
    <3>2. CASE w \in alive /\ w = v
      BY <2>2, <3>2
    <3>3. CASE w \in marked
      BY <2>2, <3>1, <3>3 DEF HiddenRecorded
    <3>. QED  BY <2>2, <3>1, <3>2, <3>3
  <2>4. /\ VisitsListed' /\ (GapsTaken => GapsTaken') /\ (ListsTaken => ListsTaken')
        /\ (TargetsGo => TargetsGo')
    BY <2>1 DEF WholeInv, VisitsListed, GapsTaken, ListsTaken, TargetsGo, Taken, Doomed, Below1
  <2>. QED  BY <2>1, <2>3, <2>4 DEF WholeInv
<1>3. CASE startRun(r)
  <2>. PICK v \in Vertices : v = request[r].target
    BY <1>3 DEF startRun, WholeInv, DTypes, RequestOK
  <2>1. /\ UNCHANGED <<alive, marked, lost>> /\ pending' = pending \cup {v}
        /\ \A q \in Requests \ {r} : request'[q] = request[q]
        /\ request[r].target = v
    BY <1>3 DEF startRun, WholeInv, DTypes, RequestOK
  <2>2. r \in Runs /\ CascadeStep(r, Begun(v)) /\ cascade[r].at = "none"
    BY <1>3, BegunTyped DEF startRun, Runs, CascadeStep, WholeInv, DTypes, CascadeOK
  <2>3. /\ cascade'[r] = Begun(v) /\ Doomed(r)' = {}
        /\ \A b \in Runs \ {r} : cascade'[b] = cascade[b] /\ Doomed(b)' = Doomed(b)
    BY <2>2, OthersKeep, BegunTyped DEF WholeInv
  <2>4. VisitsListed'
    BY <2>1, <2>3, BegunTyped DEF WholeInv, VisitsListed
  <2>5. \A w : Taken(w) => Taken(w)'
    BY <2>2, <2>3, TakenStays
  <2>6. GapsTaken => GapsTaken'
    BY <2>1, <2>5 DEF GapsTaken, Below1
  <2>7. ListsTaken => ListsTaken'
    BY <2>1, <2>3, <2>5 DEF ListsTaken, Below1
  <2>8. TargetsGo => TargetsGo'
    BY <2>1, <2>3, BegunTyped DEF TargetsGo
  <2>9. HiddenRecorded => HiddenRecorded'
    <3>1. SUFFICES ASSUME HiddenRecorded, NEW w \in marked
                   PROVE  \/ w \in pending'
                          \/ \E q \in Requests : request'[q].at = "marked" /\ request'[q].target = w
                          \/ \E c \in Runs : cascade'[c].at = "unmarking" /\ cascade'[c].target = w
      BY <2>1 DEF HiddenRecorded
    <3>2. \A c \in Runs : cascade[c].at = "unmarking" => cascade'[c] = cascade[c]
      BY <2>2, <2>3
    <3>. QED  BY <2>1, <3>1, <3>2 DEF HiddenRecorded
  <2>. QED  BY <2>1, <2>4, <2>6, <2>7, <2>8, <2>9 DEF WholeInv
<1>. QED  BY <1>1, <1>2, <1>3 DEF start

\* A restart at a good moment interrupts nothing that was being taken away.
LEMMA RestartKeepsWhole ==
  ASSUME WholeInv, DTypes', restartDeletes
  PROVE  WholeInv'
<1>1. \A c \in Runs : cascade'[c] = (IF c \in pending THEN Begun(c) ELSE None)
  BY DEF restartDeletes, Resumed
<1>2. /\ pending \subseteq Vertices /\ marked \subseteq alive
      /\ UNCHANGED <<alive, marked, pending>>
  BY DEF restartDeletes, WholeInv, DTypes, GraphOK
<1>3. \A c \in Runs : /\ cascade'[c].at \in {"none", "reading"} /\ Doomed(c)' = {}
                      /\ cascade'[c].at = "reading" => /\ cascade'[c].target \in cascade'[c].level
                                                       /\ cascade'[c].visited = {}
  <2>1. SUFFICES ASSUME NEW c \in Runs
                 PROVE  /\ cascade'[c].at \in {"none", "reading"} /\ Doomed(c)' = {}
                        /\ cascade'[c].at = "reading" => /\ cascade'[c].target \in cascade'[c].level
                                                         /\ cascade'[c].visited = {}
    OBVIOUS
  <2>2. CASE c \in pending
    BY <1>1, <1>2, <2>2, BegunTyped DEF Doomed
  <2>3. CASE c \notin pending
    <3>1. cascade'[c] = None /\ None.at = "none" /\ None.doomed = <<>>
      BY <1>1, <2>3 DEF None
    <3>. QED  BY <3>1 DEF Doomed
  <2>. QED  BY <2>2, <2>3
<1>4. VisitsListed'
  BY <1>3 DEF VisitsListed
<1>5. ASSUME ~lost' PROVE GapsTaken' /\ ListsTaken' /\ TargetsGo' /\ HiddenRecorded'
  <2>1. ~lost /\ ~BadMoment
    BY Zenon, <1>5 DEF restartDeletes
  <2>2. GapsTaken /\ HiddenRecorded
    BY <2>1 DEF WholeInv
  <2>3. \A w : ~Taken(w)
    BY <2>1 DEF Taken, BadMoment
  <2>4. GapsTaken'
    BY <1>2, <2>2, <2>3 DEF GapsTaken, Below1
  <2>5. ListsTaken' /\ TargetsGo'
    BY <1>3 DEF ListsTaken, TargetsGo
  <2>6. \A v \in marked : v \in pending
    BY <2>1, <2>2 DEF HiddenRecorded, BadMoment
  <2>7. HiddenRecorded'
    BY <1>2, <2>6 DEF HiddenRecorded
  <2>. QED  BY <2>4, <2>5, <2>7
<1>. QED  BY <1>4, <1>5 DEF WholeInv

LEMMA WholeInductive == WholeInv /\ [DeletesNext]_dvars => WholeInv'
<1>. SUFFICES ASSUME WholeInv, [DeletesNext]_dvars PROVE WholeInv'
  OBVIOUS
<1>1. DTypes'
  BY DTypesInductive DEF WholeInv
<1>2. CASE UNCHANGED dvars
  BY <1>1, <1>2 DEF dvars, WholeInv, VisitsListed, GapsTaken, ListsTaken, TargetsGo,
                    HiddenRecorded, Taken, Doomed, Below1
<1>3. CASE \E r \in Requests : start(r)
  BY <1>1, <1>3, StartKeepsWhole
<1>4. ASSUME NEW c \in Runs, run(c) PROVE WholeInv'
  BY <1>1, <1>4, LevelKeepsWhole, ChunkKeepsWhole, EndKeepsWhole DEF run
<1>5. CASE restartDeletes
  BY <1>1, <1>5, RestartKeepsWhole
<1>. QED  BY <1>2, <1>3, <1>4, <1>5 DEF DeletesNext

LEMMA WholeInit == DeletesInit => WholeInv
<1>. SUFFICES ASSUME DeletesInit PROVE WholeInv
  OBVIOUS
<1>1. \A c \in Runs : cascade[c].at = "none"
  BY DEF DeletesInit, None
<1>2. alive = Vertices /\ marked = {}
  BY DEF DeletesInit
<1>3. VisitsListed /\ GapsTaken /\ ListsTaken /\ TargetsGo /\ HiddenRecorded
  BY <1>1, <1>2 DEF VisitsListed, GapsTaken, ListsTaken, TargetsGo, HiddenRecorded
<1>. QED  BY <1>3, DTypesInit DEF WholeInv

\* Once all is quiet, what has gone is closed: a vertex below it has gone too.
LEMMA QuietIsClosed ==
  ASSUME WholeInv, AtRest, ~lost
  PROVE  Enqueued(Vertices \ alive, Vertices) \subseteq Vertices \ alive
<1>1. SUFFICES ASSUME NEW w \in Enqueued(Vertices \ alive, Vertices), w \in alive
               PROVE  FALSE
  BY EnqueuedTyped
<1>2. PICK g \in Vertices \ alive : w \in Below1(g)
  BY EnqueuedByOne DEF Below1
<1>3. \E b \in Runs : cascade[b].at = "deleting"
  BY <1>1, <1>2 DEF WholeInv, GapsTaken, Taken
<1>. QED  BY <1>3 DEF AtRest

\* DeletesAreWhole: over any interleaving of deletes, failures and restarts,
\* overlapping cascades leave nothing behind between them and a hidden node is
\* on record or about to be shown again (background-deletes.ts, deleteNode).
THEOREM DeletesHoldTogether == DeletesSpec => []DeletesAreWhole
<1>1. WholeInv => DeletesAreWhole
  <2>. SUFFICES ASSUME WholeInv PROVE DeletesAreWhole
    OBVIOUS
  <2>1. DeletesTypeOK
    BY DEF WholeInv, DTypes, GraphOK, RequestOK, CascadeOK, RequestType, CascadeType,
           CascadeSteps, DeletesTypeOK
  <2>2. NothingLeftBelow
    <3>1. SUFFICES ASSUME AtRest, ~lost, NEW t \in asked \ alive PROVE Below[t] \cap alive = {}
      BY DEF NothingLeftBelow
    <3>2. Enqueued(Vertices \ alive, Vertices) \subseteq Vertices \ alive
      BY <3>1, QuietIsClosed
    <3>3. t \in Vertices \ alive
      BY DEF WholeInv, DTypes, GraphOK
    <3>4. \A w \in Below[t] : \A S \in SUBSET Vertices :
            t \in S /\ Enqueued(S, Vertices) \subseteq S => w \in S
      BY <3>3 DEF Below
    <3>. QED  BY <3>2, <3>3, <3>4
  <2>3. HiddenIsHandled
    BY DEF WholeInv, HiddenRecorded, HiddenIsHandled
  <2>. QED  BY <2>1, <2>2, <2>3 DEF DeletesAreWhole
<1>. QED  BY <1>1, WholeInductive, WholeInit, PTL DEF DeletesSpec

-----------------------------------------------------------------------------
(* Sources are kept.                                                       *)

Ages == [Vertices -> 0..Cardinality(Vertices)]

LEMMA AgesAreNumbers ==
  ASSUME NEW age \in Ages
  PROVE  \A v \in Vertices : age[v] \in Int
BY FS_CardinalityType, DeleteConstants DEF Ages

\* A cascade goes from older vertices to younger ones.
LEMMA EnqueuedIsYounger ==
  ASSUME NEW age \in Ages, Generations(age), NEW there \in SUBSET Vertices,
         NEW g \in Vertices, NEW w \in Enqueued({g}, there)
  PROVE  w \in Vertices /\ age[g] <= age[w]
<1>1. w \in Vertices /\ \A v \in Vertices : age[v] \in Int
  BY EnqueuedTyped, AgesAreNumbers
<1>2. /\ \A v \in Vertices \ {Desk} : age[Desk] < age[v]
      /\ \A e \in Derived : /\ age[e.source] < age[e.output]
                            /\ e.process # NoVertex => age[e.process] = age[e.output]
      /\ \A v \in Vertices : /\ SetOf[v] # NoVertex => age[SetOf[v]] <= age[v]
                             /\ SetProcessOf[v] # NoVertex => age[SetProcessOf[v]] <= age[v]
  BY DEF Generations
<1>3. NoVertex \notin Vertices
  BY DeleteConstants
<1>4. \A e \in EdgesOf(there) : e \in Derived /\ e.output \in Vertices /\ e.source \in Vertices
  BY DEF EdgesOf
<1>5. CASE \E e \in EdgesOf(there) : e.source = g /\ w = e.output
  BY <1>1, <1>2, <1>4, <1>5
<1>6. CASE \E e \in EdgesOf(there) :
             (e.output = g \/ e.source = g) /\ e.process # NoVertex /\ w = e.process
  BY <1>1, <1>2, <1>4, <1>6
<1>7. CASE \E e \in EdgesOf(there) : e.process = g /\ w = e.output
  BY <1>1, <1>2, <1>3, <1>4, <1>7
<1>8. CASE SetOf[w] = g \/ SetProcessOf[w] = g
  BY <1>1, <1>2, <1>3, <1>8
<1>9. CASE Desk = g
  BY <1>1, <1>2, <1>9
<1>. QED  BY <1>5, <1>6, <1>7, <1>8, <1>9 DEF Enqueued

\* Whatever is upstream of a vertex is older.
LEMMA UpstreamIsOlder ==
  ASSUME NEW age \in Ages, Generations(age), NEW t \in Vertices, NEW v \in Upstream[t]
  PROVE  age[v] < age[t]
<1>1. \A w \in Vertices : age[w] \in Int
  BY AgesAreNumbers
<1>. DEFINE Older == {t} \cup {w \in Vertices : age[w] < age[t]}
<1>2. Above(Older, Vertices) \subseteq Older
  <2>1. \A e \in EdgesOf(Vertices) : e.output \in Older => e.source \in Older
    <3>1. SUFFICES ASSUME NEW e \in EdgesOf(Vertices), e.output \in Older
                   PROVE  e.source \in Older
      OBVIOUS
    <3>2. e.source \in Vertices /\ e.output \in Vertices /\ age[e.source] < age[e.output]
      BY DEF EdgesOf, Generations
    <3>. QED  BY <1>1, <3>1, <3>2
  <2>2. Desk \in Older
    BY DeleteConstants DEF Generations
  <2>. HIDE DEF Older
  <2>. QED  BY <2>1, <2>2 DEF Above
<1>3. v \in Vertices \ {t}
         /\ \A S \in SUBSET Vertices : t \in S /\ Above(S, Vertices) \subseteq S => v \in S
  BY DEF Upstream, Reached
<1>. QED  BY <1>2, <1>3

\* What a step of a cascade has on its lists, and what it takes away.
LEMMA CascadeKeepsAges ==
  ASSUME NEW age \in Ages, Generations(age), AgesKept(age), DTypes, DTypes',
         NEW c \in Runs, NEW new, CascadeStep(c, new), pending' \subseteq pending,
         asked' = asked, cascade[c].at # "none",
         new.at # "none" =>
           /\ new.target = cascade[c].target
           /\ \A w \in new.level \cup UNION {new.doomed[i] : i \in DOMAIN new.doomed} :
                age[new.target] <= age[w],
         alive \ alive' \subseteq Doomed(c)
  PROVE  AgesKept(age)'
<1>1. /\ cascade'[c] = new
      /\ Doomed(c)' = UNION {new.doomed[i] : i \in DOMAIN new.doomed}
      /\ \A b \in Runs \ {c} : cascade'[b] = cascade[b] /\ Doomed(b)' = Doomed(b)
  BY OthersKeep
<1>2. \A b \in Runs : cascade'[b].at # "none" =>
        /\ cascade'[b].target \in asked'
        /\ \A w \in cascade'[b].level \cup Doomed(b)' : age[cascade'[b].target] <= age[w]
  <2>1. SUFFICES ASSUME NEW b \in Runs, cascade'[b].at # "none"
                 PROVE  /\ cascade'[b].target \in asked'
                        /\ \A w \in cascade'[b].level \cup Doomed(b)' :
                             age[cascade'[b].target] <= age[w]
    OBVIOUS
  <2>2. CASE b = c
    BY <1>1, <2>1, <2>2 DEF AgesKept
  <2>3. CASE b # c
    BY <1>1, <2>1, <2>3 DEF AgesKept
  <2>. QED  BY <2>2, <2>3
<1>3. \A v \in Vertices \ alive' : \E t \in asked : age[t] <= age[v]
  BY DEF AgesKept
<1>. QED  BY <1>2, <1>3 DEF AgesKept

LEMMA RunKeepsAges ==
  ASSUME NEW age \in Ages, Generations(age), AgesKept(age), DTypes, DTypes',
         NEW c \in Runs, run(c)
  PROVE  AgesKept(age)'
<1>1. /\ cascade[c].at # "none" /\ cascade[c].target \in Vertices /\ UNCHANGED <<request, asked>>
      /\ \A w \in cascade[c].level \cup Doomed(c) : age[cascade[c].target] <= age[w]
  BY RunSteps DEF AgesKept, DTypes
<1>2. \A v \in Vertices : age[v] \in Int
  BY AgesAreNumbers
<1>3. CASE readLevel(c)
  <2>. DEFINE new   == AfterLevel(c)
              found == cascade[c].level \cap alive
  <2>1. /\ CascadeStep(c, new) /\ new.target = cascade[c].target
        /\ new.level \subseteq Enqueued(found, alive)
        /\ UNION {new.doomed[i] : i \in DOMAIN new.doomed} = Doomed(c) \cup found
    BY <1>3, LevelRead DEF DTypes
  <2>. HIDE DEF new
  <2>2. \A w \in Enqueued(found, alive) : age[cascade[c].target] <= age[w]
    <3>1. SUFFICES ASSUME NEW w \in Enqueued(found, alive)
                   PROVE  age[cascade[c].target] <= age[w]
      OBVIOUS
    <3>2. PICK g \in found : w \in Enqueued({g}, alive)
      BY EnqueuedByOne
    <3>3. g \in Vertices /\ alive \in SUBSET Vertices
      BY DEF DTypes, GraphOK
    <3>4. w \in Vertices /\ age[g] <= age[w] /\ age[cascade[c].target] <= age[g]
      BY <1>1, <3>2, <3>3, EnqueuedIsYounger
    <3>. QED  BY <1>1, <1>2, <3>3, <3>4
  <2>3. \A w \in new.level \cup UNION {new.doomed[i] : i \in DOMAIN new.doomed} :
          age[new.target] <= age[w]
    BY <1>1, <2>1, <2>2
  <2>4. UNCHANGED <<alive, pending>>
    BY <1>3 DEF readLevel
  <2>. QED  BY <1>1, <2>1, <2>3, <2>4, CascadeKeepsAges
<1>4. CASE deleteChunk(c)
  <2>1. PICK S \in Chunks(c) :
          /\ alive \ alive' \subseteq S
          /\ cascade' = [cascade EXCEPT ![c] = AfterChunk(c, S)]
    BY <1>4 DEF deleteChunk, AfterChunk
  <2>. DEFINE new == AfterChunk(c, S)
  <2>2. /\ cascade[c].at \in {"read", "deleting"} /\ UNCHANGED pending /\ S \subseteq Doomed(c)
    BY <1>4, <2>1 DEF deleteChunk, Chunks
  <2>3. /\ CascadeStep(c, new) /\ new.target = cascade[c].target
        /\ UNION {new.doomed[i] : i \in DOMAIN new.doomed} = Doomed(c) \ S
    BY <2>1, <2>2, ChunkWritten DEF DTypes
  <2>4. new.level = cascade[c].level
    BY DEF AfterChunk, DTypes, CascadeOK, CascadeType
  <2>. HIDE DEF new
  <2>. QED  BY <1>1, <2>1, <2>2, <2>3, <2>4, CascadeKeepsAges
<1>5. CASE finish(c) \/ removeDeleting(c)
  <2>1. CascadeStep(c, None) /\ None.at = "none"
    BY <1>5, NoneTyped DEF finish, removeDeleting, Ends, CascadeStep
  <2>2. UNCHANGED alive /\ pending' \subseteq pending
    BY <1>5 DEF finish, removeDeleting
  <2>. QED  BY <1>1, <2>1, <2>2, CascadeKeepsAges
<1>6. CASE failDelete(c)
  <2>1. cascade[c] \in CascadeType
    BY DEF DTypes, CascadeOK
  <2>2. PICK new : cascade' = [cascade EXCEPT ![c] = new]
                     /\ new = [cascade[c] EXCEPT !.at = "unmarking"]
    BY <1>6 DEF failDelete
  <2>3. /\ new \in CascadeType /\ new.target = cascade[c].target
        /\ new.level = cascade[c].level /\ new.doomed = cascade[c].doomed
    BY <2>1, <2>2 DEF CascadeType, CascadeSteps
  <2>4. CascadeStep(c, new) /\ UNCHANGED alive /\ pending' \subseteq pending
    BY <1>1, <1>6, <2>2, <2>3 DEF failDelete, CascadeStep
  <2>5. \A w \in new.level \cup UNION {new.doomed[i] : i \in DOMAIN new.doomed} :
          age[new.target] <= age[w]
    BY <1>1, <2>3 DEF Doomed
  <2>. QED  BY <1>1, <2>3, <2>4, <2>5, CascadeKeepsAges
<1>. QED  BY <1>3, <1>4, <1>5, <1>6 DEF run

LEMMA AgesInductive ==
  ASSUME NEW age \in Ages, Generations(age), AgesKept(age), DTypes, DTypes',
         [DeletesNext]_dvars
  PROVE  AgesKept(age)'
<1>1. \A v \in Vertices : age[v] \in Int
  BY AgesAreNumbers
<1>2. CASE UNCHANGED <<alive, pending, cascade, asked>>
  BY <1>2 DEF AgesKept, Doomed
<1>3. ASSUME NEW r \in Requests, startRun(r) PROVE AgesKept(age)'
  <2>. PICK v \in Vertices : v = request[r].target
    BY <1>3 DEF startRun, DTypes, RequestOK
  <2>1. /\ UNCHANGED alive /\ pending' = pending \cup {v} /\ asked' = asked \cup {v}
        /\ r \in Runs /\ CascadeStep(r, Begun(v))
    BY <1>3, BegunTyped DEF startRun, Runs, CascadeStep
  <2>2. /\ cascade'[r] = Begun(v) /\ Doomed(r)' = {}
        /\ \A b \in Runs \ {r} : cascade'[b] = cascade[b] /\ Doomed(b)' = Doomed(b)
    BY <2>1, OthersKeep, BegunTyped
  <2>3. \A b \in Runs : cascade'[b].at # "none" =>
          /\ cascade'[b].target \in asked'
          /\ \A w \in cascade'[b].level \cup Doomed(b)' : age[cascade'[b].target] <= age[w]
    <3>1. SUFFICES ASSUME NEW b \in Runs, cascade'[b].at # "none"
                   PROVE  /\ cascade'[b].target \in asked'
                          /\ \A w \in cascade'[b].level \cup Doomed(b)' :
                               age[cascade'[b].target] <= age[w]
      OBVIOUS
    <3>2. CASE b = r
      BY <1>1, <2>1, <2>2, <3>2, BegunTyped
    <3>3. CASE b # r
      BY <2>1, <2>2, <3>1, <3>3 DEF AgesKept
    <3>. QED  BY <3>2, <3>3
  <2>. QED  BY <2>1, <2>3 DEF AgesKept
<1>4. CASE restartDeletes
  <2>1. /\ UNCHANGED <<alive, pending, asked>>
        /\ \A c \in Runs : cascade'[c] = (IF c \in pending THEN Begun(c) ELSE None)
    BY <1>4 DEF restartDeletes, Resumed
  <2>2. pending \subseteq asked /\ pending \subseteq Vertices
    BY DEF AgesKept, DTypes, GraphOK
  <2>3. \A c \in Runs : cascade'[c].at # "none" =>
          /\ cascade'[c].target \in asked
          /\ \A w \in cascade'[c].level \cup Doomed(c)' : age[cascade'[c].target] <= age[w]
    <3>1. SUFFICES ASSUME NEW c \in Runs, cascade'[c].at # "none"
                   PROVE  /\ cascade'[c].target \in asked
                          /\ \A w \in cascade'[c].level \cup Doomed(c)' :
                               age[cascade'[c].target] <= age[w]
      OBVIOUS
    <3>2. c \in pending /\ cascade'[c] = Begun(c)
      BY <2>1, <3>1, NoneTyped
    <3>3. Begun(c).target = c /\ Begun(c).level = {c} /\ Begun(c).doomed = <<>>
      BY <2>2, <3>2, BegunTyped
    <3>4. Doomed(c)' = {}
      BY <3>2, <3>3 DEF Doomed
    <3>. QED  BY <1>1, <2>2, <3>2, <3>3, <3>4
  <2>. QED  BY <2>1, <2>3 DEF AgesKept
<1>5. ASSUME NEW r \in Requests, start(r) PROVE AgesKept(age)'
  BY <1>2, <1>3, <1>5 DEF start, startCheck, setDeleting
<1>6. ASSUME NEW c \in Runs, run(c) PROVE AgesKept(age)'
  BY <1>6, RunKeepsAges
<1>. QED  BY <1>2, <1>4, <1>5, <1>6 DEF DeletesNext, dvars

\* SourcesKept: nothing goes that only lies upstream of what was deleted, over
\* any number of overlapping deletes and restarts (collectCascade, graph.ts).
THEOREM UpstreamSurvives == DeletesSpec => []SourcesKept
<1>. PICK age \in Ages : Generations(age)
  BY GraphHasGrown DEF Ages
<1>1. DeletesInit => DTypes /\ AgesKept(age)
  <2>1. DeletesInit => AgesKept(age)
    BY DEF DeletesInit, None, AgesKept
  <2>. QED  BY <2>1, DTypesInit
<1>2. DTypes /\ AgesKept(age) /\ [DeletesNext]_dvars => (DTypes /\ AgesKept(age))'
  BY DTypesInductive, AgesInductive
<1>3. DTypes /\ AgesKept(age) => SourcesKept
  <2>. SUFFICES ASSUME DTypes, AgesKept(age), NEW v \in Vertices \ alive
                PROVE  \E t \in asked : v \notin Upstream[t]
    BY DEF SourcesKept
  <2>1. PICK t \in asked : age[t] <= age[v]
    BY DEF AgesKept
  <2>2. t \in Vertices
    BY DEF DTypes, GraphOK
  <2>3. age[t] \in Int /\ age[v] \in Int
    BY <2>2, AgesAreNumbers
  <2>. QED  BY <2>1, <2>2, <2>3, UpstreamIsOlder
<1>. QED  BY <1>1, <1>2, <1>3, PTL DEF DeletesSpec

=============================================================================
