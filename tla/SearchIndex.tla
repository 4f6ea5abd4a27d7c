---------------------------- MODULE SearchIndex ----------------------------
(***************************************************************************)
(* The search documents of a desk in Solr: one per text file, with its     *)
(* tags, and one per run of a region service, with its labels.  They are   *)
(* written by jobs of the search service, by new runs and by "Reindex      *)
(* desk", dropped by deletions, and read by the filter of a set.  Nothing  *)
(* of this is a transaction, and errors of Solr are only logged.           *)
(***************************************************************************)
EXTENDS FiniteSets, Sequences, Integers

CONSTANTS
  TextFiles, TaggedFiles,        \* the files of the desk, all indexed once; those with tags
  RoiRuns, RoiFile, RoiLabels,   \* numbers: ner.json files, with their source and labels
  IndexWorkers,                  \* consumers of the search service
  WantedLabels,                  \* what a filter asks for
  ChunkFiles, PageRows,          \* how many files, how many documents one query takes
  NoText,
  MaxFaults, MaxReindexes        \* bounds

ASSUME IndexConstants ==
  /\ RoiRuns \subseteq Nat /\ IsFiniteSet(RoiRuns) /\ RoiRuns \cap TextFiles = {}
  /\ RoiFile \in [RoiRuns -> TextFiles]
  /\ \A r \in RoiRuns : IsFiniteSet(RoiLabels[r])
  /\ TaggedFiles \subseteq TextFiles /\ NoText \notin TextFiles
  /\ {ChunkFiles, PageRows} \subseteq Nat \ {0} /\ {MaxFaults, MaxReindexes} \subseteq Nat

VARIABLES
  texts,      \* the files that are there
  roiRun,     \* per run: "none", "row", "file", "known", "gone"
  textDoc,    \* function from files with a document to "plain" or "tagged"
  roiDocs,    \* the runs with a document
  indexJobs,  \* queue of the search service, of [kind, file]
  working,    \* per worker its job
  reindex,    \* "Reindex desk": how far it is, the runs read, the files left
  deleting,   \* a deletion: how far it is, its files and runs
  filter,     \* a filter: how far it is, the files, page, labels found, result
  tagTask,    \* does the search service take jobs for tags?
  missed,     \* history: runs whose labels could not be sent
  lateDocs,   \* history: files and runs with a document written too late, or not dropped
  jobsMet,    \* history: files whose index job and tag job may have changed places
  moved,      \* history: documents of runs went during the filter
  faults, reindexes

indexVars == <<texts, roiRun, textDoc, roiDocs, indexJobs, working, reindex, deleting, filter,
               tagTask, missed, lateDocs, jobsMet, moved, faults, reindexes>>
graphPart == <<texts, roiRun>>
docPart == <<textDoc, roiDocs>>
jobPart == <<indexJobs, working>>
seenPart == <<tagTask, missed, lateDocs, jobsMet, moved, faults, reindexes>>

NoIndexJob == [kind |-> "none", file |-> NoText]
NoReindex == [at |-> "idle", runs |-> {}, todo |-> {}, file |-> NoText]
NoDeletion == [at |-> "idle", files |-> {}, runs |-> {}]
NoFilter == [at |-> "idle", files |-> {}, left |-> {}, start |-> 0, found |-> {}, kept |-> {}, out |-> {}]

IndexInit ==
  /\ texts = TextFiles /\ roiRun = [r \in RoiRuns |-> "none"] /\ roiDocs = {}
  /\ textDoc = [f \in TextFiles |-> IF f \in TaggedFiles THEN "tagged" ELSE "plain"]
  /\ indexJobs = <<>> /\ working = [w \in IndexWorkers |-> NoIndexJob]
  /\ reindex = NoReindex /\ deleting = NoDeletion /\ filter = NoFilter
  /\ tagTask \in BOOLEAN /\ missed = {} /\ lateDocs = {} /\ jobsMet = {} /\ moved = FALSE
  /\ faults = 0 /\ reindexes = 0

LiveRuns == {r \in RoiRuns : roiRun[r] \in {"row", "file", "known"}}
\* Files and runs whose documents a deletion has dropped or is dropping.
Leaving == deleting.files \cup deleting.runs \cup (TextFiles \ texts) \cup {r \in RoiRuns : roiRun[r] = "gone"}
Fault == faults < MaxFaults /\ faults' = faults + 1

-----------------------------------------------------------------------------
(* Runs.                                                                   *)

\* handleFile: the node first, then the file, then its labels.
createRun(r) ==
  /\ roiRun[r] = "none" /\ RoiFile[r] \in texts /\ roiRun' = [roiRun EXCEPT ![r] = "row"]
  /\ UNCHANGED <<texts, docPart, jobPart, reindex, deleting, filter, seenPart>>

runFile(r) ==
  /\ roiRun[r] = "row" /\ roiRun' = [roiRun EXCEPT ![r] = "file"]
  /\ UNCHANGED <<texts, docPart, jobPart, reindex, deleting, filter, seenPart>>

Posted(rs) == {r \in rs : RoiLabels[r] # {}}

\* indexRun never throws.
indexRun(r) ==
  /\ roiRun[r] = "file" /\ roiRun' = [roiRun EXCEPT ![r] = "known"]
  /\ \/ /\ roiDocs' = roiDocs \cup Posted({r})
        /\ lateDocs' = lateDocs \cup (Posted({r}) \cap Leaving) /\ UNCHANGED <<missed, faults>>
     \/ Fault /\ missed' = missed \cup {r} /\ UNCHANGED <<roiDocs, lateDocs>>
  /\ UNCHANGED <<texts, textDoc, jobPart, reindex, deleting, filter, tagTask, jobsMet, moved, reindexes>>

-----------------------------------------------------------------------------
(* Deletions.  A failing drop is logged only.                              *)

\* deleteNode: a file with the runs that are there, or a run alone.
collect(files, runs) ==
  /\ deleting = NoDeletion
  /\ deleting' = [at |-> "runs", files |-> files, runs |-> runs]
  /\ UNCHANGED <<graphPart, docPart, jobPart, reindex, filter, seenPart>>

deleteFile(f) == f \in texts /\ collect({f}, {r \in LiveRuns : RoiFile[r] = f})
deleteRun(r) == r \in LiveRuns /\ collect({}, {r})

Reading == filter.at = "read"

dropDocs(runs, files, next) ==
  /\ deleting' = [deleting EXCEPT !.at = next]
  /\ \/ /\ roiDocs' = roiDocs \ runs
        /\ textDoc' = [f \in DOMAIN textDoc \ files |-> textDoc[f]]
        /\ moved' = (moved \/ (Reading /\ roiDocs' # roiDocs)) /\ UNCHANGED <<lateDocs, faults>>
     \/ Fault /\ lateDocs' = lateDocs \cup deleting.runs \cup deleting.files
        /\ UNCHANGED <<docPart, moved>>
  /\ UNCHANGED <<graphPart, jobPart, reindex, filter, tagTask, missed, jobsMet, reindexes>>

RunsDropped == deleting.runs

dropRoiRun == deleting.at = "runs" /\ dropDocs(RunsDropped, {}, "files")

dropFilesIndex ==
  /\ deleting.at = "files"
  /\ dropDocs({r \in RoiRuns : RoiFile[r] \in deleting.files}, deleting.files, "rows")

deleteRows ==
  /\ deleting.at = "rows" /\ texts' = texts \ deleting.files
  /\ roiRun' = [r \in RoiRuns |-> IF r \in deleting.runs THEN "gone" ELSE roiRun[r]]
  /\ deleting' = NoDeletion
  /\ UNCHANGED <<docPart, jobPart, reindex, filter, seenPart>>

-----------------------------------------------------------------------------
(* Reindex desk.                                                           *)

Publish(kind, f) == indexJobs' = Append(indexJobs, [kind |-> kind, file |-> f])

dropProjectIndex ==
  /\ reindex.at = "idle" /\ reindexes < MaxReindexes /\ reindexes' = reindexes + 1
  /\ textDoc' = <<>> /\ roiDocs' = {} /\ lateDocs' = {}
  /\ moved' = (moved \/ (Reading /\ roiDocs # {}))
  /\ reindex' = [NoReindex EXCEPT !.at = "runs"]
  /\ UNCHANGED <<graphPart, jobPart, deleting, filter, tagTask, missed, jobsMet, faults>>

\* Mutant: the runs are taken from the index.
RunsIndexed == roiDocs

\* Runs whose file is not there yet are left out.
RunsRead == {r \in RoiRuns : roiRun[r] \in {"file", "known"}}

readRuns ==
  /\ reindex.at = "runs" /\ reindex' = [reindex EXCEPT !.at = "roi", !.runs = RunsRead]
  /\ UNCHANGED <<graphPart, docPart, jobPart, deleting, filter, seenPart>>

\* A failure ends the whole reindexing: the desk stays without documents.
indexRoiRuns ==
  /\ reindex.at = "roi"
  /\ \/ /\ roiDocs' = roiDocs \cup Posted(reindex.runs) /\ missed' = missed \ reindex.runs
        /\ lateDocs' = lateDocs \cup (Posted(reindex.runs) \cap Leaving)
        /\ reindex' = [reindex EXCEPT !.at = "files", !.runs = {}, !.todo = texts]
        /\ UNCHANGED faults
     \/ Fault /\ missed' = missed \cup reindex.runs /\ reindex' = NoReindex
        /\ UNCHANGED <<roiDocs, lateDocs>>
  /\ UNCHANGED <<graphPart, textDoc, jobPart, deleting, filter, tagTask, jobsMet, moved, reindexes>>

\* Per file of the sets that were indexed before: a job, ...
reindexFile(f) ==
  /\ reindex.at = "files" /\ f \in reindex.todo
  /\ IF f \in texts THEN /\ Publish("index", f)
                         /\ reindex' = [reindex EXCEPT !.at = "tags", !.file = f, !.todo = reindex.todo \ {f}]
     ELSE UNCHANGED indexJobs /\ reindex' = [reindex EXCEPT !.todo = reindex.todo \ {f}]
  /\ UNCHANGED <<graphPart, docPart, working, deleting, filter, seenPart>>

TagJob(f) == f \in texts

\* ... and its tags: by a job, or at once into the documents there are.
syncTags ==
  /\ reindex.at = "tags"
  /\ IF tagTask
     THEN /\ IF TagJob(reindex.file) THEN Publish("tags", reindex.file) ELSE UNCHANGED indexJobs
          /\ reindex' = [reindex EXCEPT !.at = "files", !.file = NoText]
     ELSE /\ UNCHANGED indexJobs
          /\ reindex' = IF reindex.file \in DOMAIN textDoc THEN [reindex EXCEPT !.at = "repost"]
                        ELSE [reindex EXCEPT !.at = "files", !.file = NoText]
  /\ UNCHANGED <<graphPart, docPart, working, deleting, filter, seenPart>>

TagsOf(f) == IF f \in TaggedFiles THEN "tagged" ELSE "plain"
WithDoc(f, tags) == [g \in DOMAIN textDoc \cup {f} |-> IF g = f THEN tags ELSE textDoc[g]]

\* updateTagsForFile: the document that was read is sent again as a whole.
updateTagsForFile ==
  /\ reindex.at = "repost"
  /\ textDoc' = WithDoc(reindex.file, TagsOf(reindex.file))
  /\ lateDocs' = lateDocs \cup ({reindex.file} \cap Leaving)
  /\ reindex' = [reindex EXCEPT !.at = "files", !.file = NoText]
  /\ UNCHANGED <<graphPart, roiDocs, jobPart, deleting, filter, tagTask, missed, jobsMet, moved, faults, reindexes>>

reindexEnds ==
  /\ reindex.at = "files" /\ reindex.todo = {} /\ reindex' = NoReindex
  /\ UNCHANGED <<graphPart, docPart, jobPart, deleting, filter, seenPart>>

-----------------------------------------------------------------------------
(* The search service.                                                     *)

claimIndexJob(w) ==
  /\ working[w] = NoIndexJob /\ indexJobs # <<>>
  /\ working' = [working EXCEPT ![w] = Head(indexJobs)] /\ indexJobs' = Tail(indexJobs)
  /\ jobsMet' = jobsMet \cup ({Head(indexJobs).file} \cap {working[x].file : x \in IndexWorkers})
  /\ UNCHANGED <<graphPart, docPart, reindex, deleting, filter, tagTask, missed, lateDocs, moved, faults, reindexes>>

\* The document of a file is written without tags; tags go into one there is.
doIndexJob(w) ==
  /\ working[w] # NoIndexJob
  /\ LET f == working[w].file IN
     IF f \in texts /\ (working[w].kind = "index" \/ f \in DOMAIN textDoc)
     THEN /\ textDoc' = WithDoc(f, IF working[w].kind = "index" THEN "plain" ELSE TagsOf(f))
          /\ lateDocs' = lateDocs \cup ({f} \cap Leaving)
     ELSE UNCHANGED <<textDoc, lateDocs>>
  /\ working' = [working EXCEPT ![w] = NoIndexJob]
  /\ UNCHANGED <<graphPart, roiDocs, indexJobs, reindex, deleting, filter, tagTask, missed, jobsMet, moved, faults, reindexes>>

\* A job that fails is tried again, after the others.
retryIndexJob(w) ==
  /\ working[w] # NoIndexJob /\ Fault
  /\ indexJobs' = Append(indexJobs, working[w]) /\ jobsMet' = jobsMet \cup {working[w].file}
  /\ working' = [working EXCEPT ![w] = NoIndexJob]
  /\ UNCHANGED <<graphPart, docPart, reindex, deleting, filter, tagTask, missed, lateDocs, moved, reindexes>>

-----------------------------------------------------------------------------
(* The filter of a set by labels.                                          *)

LabelsOf(runs) == UNION {{RoiFile[r]} \X (RoiLabels[r] \cap WantedLabels) : r \in runs}

tagFilterSet ==
  /\ filter.at = "idle" /\ texts # {}
  /\ filter' = [NoFilter EXCEPT !.at = "read", !.files = texts, !.left = texts, !.kept = LabelsOf(roiDocs)]
  /\ moved' = FALSE
  /\ UNCHANGED <<graphPart, docPart, jobPart, reindex, deleting, tagTask, missed, lateDocs, jobsMet, faults, reindexes>>

\* One query: the documents with a wanted label of some of the files, by id.
FileChunk == CHOOSE c \in SUBSET filter.left :
  Cardinality(c) = ChunkFiles \/ (Cardinality(c) < ChunkFiles /\ c = filter.left)
Matching == {r \in roiDocs : RoiFile[r] \in FileChunk /\ RoiLabels[r] \cap WantedLabels # {}}
Page == {r \in Matching : LET before == Cardinality({q \in Matching : q < r}) IN
                           before >= filter.start /\ before < filter.start + PageRows}

\* Mutant: a page with as many documents as were asked for is the last.
LastPageFull == Cardinality(Page) <= PageRows

LastPage == Page = {} \/ filter.start + Cardinality(Page) >= Cardinality(Matching)

\* roiSources: files in chunks, their documents in pages.
roiSources ==
  /\ Reading /\ filter.left # {}
  /\ filter' = [filter EXCEPT !.found = filter.found \cup LabelsOf(Page),
                  !.left = IF LastPage THEN filter.left \ FileChunk ELSE filter.left,
                  !.start = IF LastPage THEN 0 ELSE filter.start + PageRows]
  /\ UNCHANGED <<graphPart, docPart, jobPart, reindex, deleting, seenPart>>

\* What the request asks for: any of the labels, all, none.
Matched(mode, labels, files) ==
  {f \in files : LET has == {l \in WantedLabels : <<f, l>> \in labels} IN
     CASE mode = "or" -> has # {} [] mode = "and" -> has = WantedLabels [] mode = "exclude" -> has = {}}

\* The set is made only now, with references to the files that are still there.
createFiltered ==
  /\ Reading /\ filter.left = {}
  /\ \E mode \in {"or", "and", "exclude"} :
       filter' = [filter EXCEPT !.at = mode, !.out = Matched(mode, filter.found, filter.files) \cap texts]
  /\ UNCHANGED <<graphPart, docPart, jobPart, reindex, deleting, seenPart>>

\* The server stops.  Jobs that were claimed come back by their leases.
CrashIndexing ==
  /\ Fault /\ (reindex # NoReindex \/ deleting # NoDeletion \/ \E r \in RoiRuns : roiRun[r] = "file")
  /\ roiRun' = [r \in RoiRuns |-> IF roiRun[r] = "file" THEN "known" ELSE roiRun[r]]
  /\ missed' = missed \cup {r \in RoiRuns : roiRun[r] = "file" \/ {r, RoiFile[r]} \cap Leaving # {}} \cup
                 (IF reindex.at \in {"runs", "roi"} THEN LiveRuns ELSE {})
  /\ jobsMet' = jobsMet \cup ({reindex.file} \ {NoText})
  /\ lateDocs' = lateDocs \cup deleting.files \cup deleting.runs
  /\ reindex' = NoReindex /\ deleting' = NoDeletion /\ filter' = NoFilter
  /\ UNCHANGED <<texts, docPart, jobPart, tagTask, moved, reindexes>>

RunSteps == \E r \in RoiRuns : createRun(r) \/ runFile(r) \/ indexRun(r)
DeleteSteps ==
  (\E f \in TextFiles : deleteFile(f)) \/ (\E r \in RoiRuns : deleteRun(r))
    \/ dropRoiRun \/ dropFilesIndex \/ deleteRows
RebuildSteps == dropProjectIndex \/ readRuns \/ indexRoiRuns
RequeueSteps ==
  (\E f \in TextFiles : reindexFile(f)) \/ syncTags \/ updateTagsForFile \/ reindexEnds
WorkSteps == \E w \in IndexWorkers : claimIndexJob(w) \/ doIndexJob(w) \/ retryIndexJob(w)
FilterSteps == tagFilterSet \/ roiSources \/ createFiltered

IndexNext ==
  RunSteps \/ DeleteSteps \/ RebuildSteps \/ RequeueSteps \/ WorkSteps \/ FilterSteps \/ CrashIndexing

IndexSpec == IndexInit /\ [][IndexNext]_indexVars

-----------------------------------------------------------------------------
(* Properties.                                                             *)

\* A run with labels can be found by them, also one that came while the desk
\* was reindexed: only a run whose labels could not be sent is missing, and a
\* later "Reindex desk" restores it (ner.ts:49, 60-77, processing.ts:544-546).
EveryRunIndexed ==
  reindex.at \notin {"runs", "roi"} =>
    \A r \in Posted({q \in RoiRuns : roiRun[q] = "known"}) \ missed :
      {r, RoiFile[r]} \cap Leaving = {} => r \in roiDocs

\* What is deleted is not found any more, unless its document was written
\* while or after it was deleted, or Solr did not drop it.
NothingGoneIsFound ==
  deleting = NoDeletion => (DOMAIN textDoc \cup roiDocs) \cap Leaving \subseteq lateDocs

\* After "Reindex desk" and its jobs the documents have their tags again, if the
\* search service takes them as jobs and index and tags kept their order
\* (processing.ts:589-591).
TagsComeBack ==
  (tagTask /\ reindex.at \notin {"tags", "repost"} /\ indexJobs = <<>>
     /\ \A w \in IndexWorkers : working[w] = NoIndexJob) =>
    \A f \in (DOMAIN textDoc \cap texts \cap TaggedFiles) \ jobsMet : textDoc[f] = "tagged"

\* A filter finds every file whose labels were in the index from its start,
\* and one that excludes labels leaves it out, whatever runs come in between;
\* documents that go meanwhile may hide others (solr.ts:301, 322).
FilterMissesNone ==
  (filter.at \in {"or", "and", "exclude"} /\ ~moved) =>
    LET had == Matched(filter.at, filter.kept, filter.files) IN
    IF filter.at = "exclude" THEN filter.out \subseteq had ELSE had \cap texts \subseteq filter.out

\* The index has a document for all that is there, and for nothing else.
IndexIsComplete == EveryRunIndexed /\ NothingGoneIsFound /\ TagsComeBack

\* Both: text is found by search and by filters.
TextIsFound == IndexIsComplete /\ FilterMissesNone
=============================================================================
