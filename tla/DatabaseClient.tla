--------------------------- MODULE DatabaseClient ---------------------------
(***************************************************************************)
(* The client of the database.  A statement is an HTTP request that is     *)
(* sent again when it met a conflict or when its answer did not come,      *)
(* though the database may have run it.  What rests on it: a vertex made   *)
(* and linked to its source, a counter, records read by their RIDs.        *)
(***************************************************************************)
EXTENDS FiniteSetsExt, SequencesExt, Naturals

CONSTANTS
  Posters,       \* results that are posted: each makes an output node
  WriteRetries,  \* DB_WRITE_RETRIES
  Records,       \* records that may be read
  RidLists,      \* sequences of RIDs asked for: repeats, gaps, what is no RID
  ReadChunk,     \* 500
  MaxLost, MaxBusy, MaxGone   \* bounds: answers lost, requests turned away, records deleted

ASSUME ClientConstants ==
  /\ {WriteRetries, ReadChunk} \subseteq Nat \ {0}
  /\ {MaxLost, MaxBusy, MaxGone} \subseteq Nat /\ IsFiniteSet(Posters)
  /\ \A rids \in RidLists : Len(rids) \in Nat /\ DOMAIN rids = 1 .. Len(rids)

VARIABLES
  vertices,   \* <<poster, number>>
  edges,      \* DERIVED_FROM edges [from, nr, process]: to the input of the poster
  counted,    \* processed_files of the batch the posters belong to
  poster,     \* per poster: its statement, the attempt, the vertex it was told
  lost, busy, \* bounds: answers that were lost, requests that were turned away
  present,    \* the records there are
  reading     \* one rowsByRids and the records deleted since it began

clientVars == <<vertices, edges, counted, poster, lost, busy, present, reading>>
statementVars == <<vertices, edges, counted, poster>>
readVars == <<present, reading>>

NoRead == [at |-> "idle", rids |-> <<>>, from |-> 1, k |-> 0, attempt |-> 1, rows |-> <<>>, start |-> {}]

ClientInit ==
  /\ vertices = {} /\ edges = {} /\ counted = 0 /\ lost = 0 /\ busy = 0
  /\ poster = [p \in Posters |-> [at |-> "create", attempt |-> 1, vertex |-> <<>>, todo |-> {}]]
  /\ present = Records /\ reading = NoRead

-----------------------------------------------------------------------------
(* What comes back: an answer; nothing, though it was done; nothing, and   *)
(* it was not done; a conflict or an overloaded server; an error for good. *)

Replies == {"answer", "doneNoAnswer", "unreachable", "conflict", "refused"}
Done(reply) == reply \in {"answer", "doneNoAnswer"}
isTransient(reply) == reply \in {"doneNoAnswer", "unreachable", "conflict"}

Counting(reply) ==
  /\ reply = "doneNoAnswer" => lost < MaxLost
  /\ reply \in {"unreachable", "conflict", "refused"} => busy < MaxBusy
  /\ lost' = IF reply = "doneNoAnswer" THEN lost + 1 ELSE lost
  /\ busy' = IF reply \in {"unreachable", "conflict", "refused"} THEN busy + 1 ELSE busy

\* A statement that is given up throws; its user goes to `error`.
run(user, reply, next, error) ==
  IF isTransient(reply) /\ user.attempt < WriteRetries THEN [user EXCEPT !.attempt = user.attempt + 1]
  ELSE [user EXCEPT !.at = IF reply = "answer" THEN next ELSE error, !.attempt = 1]

-----------------------------------------------------------------------------
(* createVertex, connectDerivedFrom and the counter of the batch.          *)

Of(p) == {v \in vertices : v[1] = p}

createVertex(p) ==
  /\ poster[p].at = "create"
  /\ \E reply \in Replies :
       LET v == <<p, Cardinality(Of(p)) + 1>> IN
       /\ Counting(reply)
       /\ vertices' = IF Done(reply) THEN vertices \cup {v} ELSE vertices
       /\ poster' = [poster EXCEPT ![p] = run([poster[p] EXCEPT !.vertex = v], reply, "connect", "failed")]
  /\ UNCHANGED <<edges, counted, readVars>>

\* Mutant: without IF NOT EXISTS.
EdgeEveryTime(v) == edges \cup {[from |-> v, nr |-> Cardinality(edges) + 1, process |-> FALSE]}

\* CREATE EDGE ... IF NOT EXISTS
EdgeMade(v) ==
  IF \E e \in edges : e.from = v THEN edges
  ELSE edges \cup {[from |-> v, nr |-> 1, process |-> FALSE]}

connect(p) ==
  /\ poster[p].at = "connect"
  /\ \E reply \in Replies :
       /\ Counting(reply)
       /\ edges' = IF Done(reply) THEN EdgeMade(poster[p].vertex) ELSE edges
       /\ poster' = [poster EXCEPT ![p] = run(poster[p], reply, "process", "failed")]
  /\ UNCHANGED <<vertices, counted, readVars>>

\* What the process is called is read; .catch(() => null).
readProcess(p) ==
  /\ poster[p].at = "process"
  /\ \E reply \in Replies :
       /\ Counting(reply)
       /\ poster' = [poster EXCEPT ![p] = run(poster[p], reply, "find", "find")]
  /\ UNCHANGED <<vertices, edges, counted, readVars>>

edgesOf(p) ==
  /\ poster[p].at = "find"
  /\ \E reply \in Replies :
       /\ Counting(reply)
       /\ poster' = [poster EXCEPT ![p] =
            [run(poster[p], reply, "tell", "failed") EXCEPT !.todo = {e \in edges : e.from = poster[p].vertex}]]
  /\ UNCHANGED <<vertices, edges, counted, readVars>>

\* One statement for each edge found.
tellEdge(p) ==
  /\ poster[p].at = "tell" /\ poster[p].todo # {}
  /\ \E e \in poster[p].todo, reply \in Replies :
       /\ Counting(reply)
       /\ edges' = IF Done(reply) THEN (edges \ {e}) \cup {[e EXCEPT !.process = TRUE]} ELSE edges
       /\ poster' = [poster EXCEPT ![p] =
            [run(poster[p], reply, "tell", "failed") EXCEPT !.todo = IF reply = "answer" THEN poster[p].todo \ {e} ELSE poster[p].todo]]
  /\ UNCHANGED <<vertices, counted, readVars>>

told(p) ==
  /\ poster[p].at = "tell" /\ poster[p].todo = {}
  /\ poster' = [poster EXCEPT ![p].at = "count"]
  /\ UNCHANGED <<vertices, edges, counted, lost, busy, readVars>>

\* UPDATE ... SET processed_files = processed_files + 1
incrementProcessed(p) ==
  /\ poster[p].at = "count"
  /\ \E reply \in Replies :
       /\ Counting(reply)
       /\ counted' = IF Done(reply) THEN counted + 1 ELSE counted
       /\ poster' = [poster EXCEPT ![p] = run(poster[p], reply, "done", "failed")]
  /\ UNCHANGED <<vertices, edges, readVars>>

StatementSteps ==
  \E p \in Posters : createVertex(p) \/ connect(p) \/ readProcess(p) \/ edgesOf(p) \/ tellEdge(p)
                       \/ told(p) \/ incrementProcessed(p)

-----------------------------------------------------------------------------
(* Records read by their RIDs, in chunks.  One that is missing fails the   *)
(* statement: the chunk is then read one by one.                           *)

\* What is no RID is left out, each RID is taken once.
Firsts(rids) == {i \in DOMAIN rids : rids[i] \in Records /\ \A j \in 1 .. i - 1 : rids[j] # rids[i]}
Clean(rids) ==
  [n \in 1 .. Cardinality(Firsts(rids)) |->
    rids[CHOOSE i \in Firsts(rids) : Cardinality({j \in Firsts(rids) : j < i}) = n - 1]]
Chunk == SubSeq(reading.rids, reading.from, Min({reading.from + ReadChunk - 1, Len(reading.rids)}))

readByRids(rids) ==
  /\ reading.at \in {"idle", "done", "failed"}
  /\ reading' = [NoRead EXCEPT !.at = IF Clean(rids) = <<>> THEN "done" ELSE "chunk",
                               !.rids = Clean(rids), !.start = present]
  /\ UNCHANGED <<statementVars, lost, busy, present>>

NextChunk(r) ==
  [r EXCEPT !.k = 0, !.from = r.from + ReadChunk,
            !.at = IF r.from + ReadChunk > Len(r.rids) THEN "done" ELSE "chunk"]

readChunk ==
  /\ reading.at = "chunk"
  /\ \E reply \in Replies :
       /\ Counting(reply)
       /\ reading' =
            IF reply # "answer" THEN run(reading, reply, "chunk", "failed")
            ELSE IF ToSet(Chunk) \subseteq present
            THEN NextChunk([reading EXCEPT !.rows = reading.rows \o Chunk, !.attempt = 1])
            ELSE [reading EXCEPT !.at = "single", !.k = 1, !.attempt = 1]
  /\ UNCHANGED <<statementVars, present>>

OneRead(r, rid) ==
  LET got == [r EXCEPT !.rows = IF rid \in present THEN Append(r.rows, rid) ELSE r.rows] IN
  IF r.k < Len(Chunk) THEN [got EXCEPT !.k = r.k + 1] ELSE NextChunk(got)

readSingle ==
  /\ reading.at = "single"
  /\ \E reply \in Replies :
       /\ Counting(reply)
       /\ reading' = IF reply # "answer" THEN run(reading, reply, "single", "failed")
                     ELSE OneRead([reading EXCEPT !.attempt = 1], Chunk[reading.k])
  /\ UNCHANGED <<statementVars, present>>

\* Somebody deletes a record meanwhile.
recordGoes(r) ==
  /\ r \in present /\ Cardinality(Records \ present) < MaxGone
  /\ present' = present \ {r}
  /\ UNCHANGED <<statementVars, lost, busy, reading>>

ReadSteps ==
  \/ \E rids \in RidLists : readByRids(rids)
  \/ readChunk \/ readSingle \/ \E r \in Records : recordGoes(r)

ClientNext == StatementSteps \/ ReadSteps
ClientSpec == ClientInit /\ [][ClientNext]_clientVars

-----------------------------------------------------------------------------
(* Properties.                                                             *)

\* However often its statements were sent, an output that was posted has one
\* edge to its input and the edge tells the process (graph-store.ts:113-148).
DerivedOnce ==
  \A p \in Posters :
    LET mine == {e \in edges : e.from = poster[p].vertex} IN
    /\ Cardinality(mine) <= 1
    /\ poster[p].at \in {"count", "done"} => mine # {} /\ \A e \in mine : e.process

\* The counter tells the outputs that were posted, and is ahead of them only
\* by statements whose answer was lost (client.ts:109-124).
CountedAtLeast ==
  LET done == Cardinality({p \in Posters : poster[p].at = "done"}) IN
  counted >= done /\ counted <= done + lost

\* A read that ends has each record that was there all the while once and
\* none that was gone before it began, whatever went meanwhile (client.ts:233-262).
ReadsWhatIsThere ==
  reading.at = "done" =>
    /\ IsInjective(reading.rows)
    /\ ToSet(reading.rids) \cap present \subseteq ToSet(reading.rows)
    /\ ToSet(reading.rows) \subseteq reading.start

\* The three of them.
ClientKeepsItsWord == DerivedOnce /\ CountedAtLeast /\ ReadsWhatIsThere
=============================================================================
