----------------------------- MODULE PdfImport -----------------------------
(***************************************************************************)
(* The import of an uploaded PDF: a job that splits it into pages is       *)
(* published, the splitter posts the pages one by one, the last one        *)
(* removes the original.  The job goes through the queue of JobQueue.      *)
(*                                                                         *)
(* Handlers are async: a step is the code between two awaits, but what     *)
(* happens before the job is published is one step, for nobody reads it.   *)
(*                                                                         *)
(* The splitter is not in this repository.  Its adapter reads the PDF      *)
(* once, posts the pages in order, goes on when a post fails, and          *)
(* completes the job; when the PDF cannot be read it posts an error and    *)
(* completes or fails the job.                                             *)
(***************************************************************************)
EXTENDS JobQueue

CONSTANTS
  process,         \* the Process node of the import
  topic,           \* md-pypdf_fs
  Total,           \* pages of the PDF
  DeleteOriginal,  \* the delete_original of the upload
  MaxFaults,       \* bound of the model: splits and posts that fail
  MaxCrashes,      \* bound of the model: restarts of the backend
  MaxLapses        \* bound of the model: leases that lapse

ASSUME ImportConstants ==
  /\ process \in Rids /\ topic \in Topics
  /\ Total \in Nat \ {0}
  /\ DeleteOriginal \in BOOLEAN
  /\ {MaxFaults, MaxCrashes, MaxLapses} \subseteq Nat

Pages == 1..Total

VARIABLES
  pdf,     \* the File node of the upload, and whether its bytes are there
  import,  \* the Process node: status, processed_files, delete_original
  pages,   \* how many File nodes each page has
  upload,  \* where afterFileCreated is
  work,    \* per adapter, its job, its page and how far its call is
  spent    \* the counters of the bounds

ivars == <<pdf, import, pages, upload, work, spent>>

Stopped == {"paused", "cancelling", "cancelled", "done"}

NothingSpent == [faults |-> 0, crashes |-> 0, lapses |-> 0]

NoWork == [job |-> 0, at |-> "idle", page |-> 1]

\* Steps at which the backend is busy with a page.
InResult == {"creating", "created", "counting", "finishing", "removing",
             "flagging", "ending"}

ImportTypeOK ==
  /\ TypeOK
  /\ pdf \in [onDisk: BOOLEAN, status: {"none", "importing", "split", "import_failed"},
              fileRemoved: BOOLEAN, processable: BOOLEAN]
  /\ import \in [status: {"none", "running", "done", "failed"}, processed: Nat,
                 deleteOriginal: {"unset", "true", "false"}]
  /\ pages \in [Pages -> Nat]
  /\ upload \in {"new", "published", "over"}
  /\ work \in [Adapters -> [job: 0..lastId, page: Pages,
                 at: InResult \cup {"idle", "claimed", "posting", "answered",
                                    "failing", "failed", "erred"}]]
  /\ spent \in [faults: 0..MaxFaults, crashes: 0..MaxCrashes, lapses: 0..MaxLapses]

ImportInit ==
  /\ Init
  /\ pdf = [onDisk |-> TRUE, status |-> "none", fileRemoved |-> FALSE,
            processable |-> TRUE]
  /\ import = [status |-> "none", processed |-> 0, deleteOriginal |-> "unset"]
  /\ pages = [p \in Pages |-> 0]
  /\ upload = "new"
  /\ work = [a \in Adapters |-> NoWork]
  /\ spent = NothingSpent

-----------------------------------------------------------------------------
(* afterFileCreated.                                                       *)

Shape == [kind |-> "plain", process |-> process, setProcess |-> NoRid]

\* Without a live splitter the PDF is only marked.
markUnprocessable ==
  /\ upload = "new" /\ upload' = "over"
  /\ pdf' = [pdf EXCEPT !.processable = FALSE]
  /\ UNCHANGED <<vars, import, pages, work, spent>>

\* The Process node and its output set, then the job; ...
publishSplit ==
  /\ upload = "new" /\ upload' = "published"
  /\ import' = [import EXCEPT !.status = "running",
                  !.deleteOriginal = IF DeleteOriginal THEN "true" ELSE @]
  /\ \E limit \in AttemptLimits : publish(topic, Shape, limit)
  /\ UNCHANGED <<pdf, pages, work, spent>>

\* ... the PDF shows as importing when the job is already out.
markImporting ==
  /\ upload = "published" /\ upload' = "over"
  /\ pdf' = [pdf EXCEPT !.status = "importing"]
  /\ UNCHANGED <<vars, import, pages, work, spent>>

afterFileCreated == markUnprocessable \/ publishSplit \/ markImporting

-----------------------------------------------------------------------------
(* The splitter, and what the backend does with a page.                    *)

Step(a, at, next) == work[a].at = at /\ work' = [work EXCEPT ![a].at = next]

Fault == /\ spent.faults < MaxFaults
         /\ spent' = [spent EXCEPT !.faults = @ + 1]

claimSplit(a) ==
  /\ work[a].at = "idle"
  /\ \E j \in Rows : /\ claim(topic, a, j)
                     /\ work' = [work EXCEPT ![a] =
                                   [job |-> j, at |-> "claimed", page |-> 1]]
  /\ UNCHANGED <<pdf, import, pages, upload, spent>>

\* The PDF is read, or the split fails.
readPdf(a) ==
  /\ \/ pdf.onDisk /\ Step(a, "claimed", "posting") /\ UNCHANGED spent
     \/ pdf.onDisk /\ Step(a, "claimed", "failing") /\ Fault
     \/ ~pdf.onDisk /\ Step(a, "claimed", "failing") /\ UNCHANGED spent
  /\ UNCHANGED <<vars, pdf, import, pages, upload>>

\* handleOutput and notifyOutput drop a page when the import is stopped,
\* which for an import means done.
Answer(next) == IF import.status \in Stopped THEN "answered" ELSE next

handleOutput(a) ==
  /\ Step(a, "posting", Answer("creating"))
  /\ UNCHANGED <<vars, pdf, import, pages, upload, spent>>

createPage(a) ==
  /\ Step(a, "creating", "created")
  /\ pages' = [pages EXCEPT ![work[a].page] = @ + 1]
  /\ UNCHANGED <<vars, pdf, import, upload, spent>>

\* The handler throws, and the adapter takes note and goes on.
failOutput(a) ==
  /\ Step(a, "creating", "answered")
  /\ Fault
  /\ UNCHANGED <<vars, pdf, import, pages, upload>>

notifyPage(a) ==
  /\ Step(a, "created", Answer("counting"))
  /\ UNCHANGED <<vars, pdf, import, pages, upload, spent>>

\* Mutants of AllSplit: one page early; never.
OneEarly(n) == n + 1 >= Total
NeverSplit(n) == n > Total

AllSplit(n) == n >= Total

\* The counter, then the status, ...
countPage(a) ==
  /\ import' = [import EXCEPT !.processed = @ + 1]
  /\ Step(a, "counting", IF AllSplit(import'.processed) THEN "finishing" ELSE "answered")
  /\ UNCHANGED <<vars, pdf, pages, upload, spent>>

markDone(a) ==
  /\ Step(a, "finishing", "removing")
  /\ import' = [import EXCEPT !.status = "done"]
  /\ UNCHANGED <<vars, pdf, pages, upload, spent>>

\* ... then complete: the original goes, the flag, the status of the PDF.
removeOriginal(a) ==
  /\ IF import.deleteOriginal # "false"
     THEN /\ Step(a, "removing", "flagging")
          /\ pdf' = [pdf EXCEPT !.onDisk = FALSE]
     ELSE Step(a, "removing", "ending") /\ UNCHANGED pdf
  /\ UNCHANGED <<vars, import, pages, upload, spent>>

markRemoved(a) ==
  /\ Step(a, "flagging", "ending")
  /\ pdf' = [pdf EXCEPT !.fileRemoved = TRUE]
  /\ UNCHANGED <<vars, import, pages, upload, spent>>

markSplit(a) ==
  /\ Step(a, "ending", "answered")
  /\ pdf' = [pdf EXCEPT !.status = "split"]
  /\ UNCHANGED <<vars, import, pages, upload, spent>>

completeImport(a) == removeOriginal(a) \/ markRemoved(a) \/ markSplit(a)

nextPage(a) ==
  /\ work[a].at = "answered" /\ work[a].page < Total
  /\ work' = [work EXCEPT ![a].at = "posting", ![a].page = @ + 1]
  /\ UNCHANGED <<vars, pdf, import, pages, upload, spent>>

\* failImport: the PDF, then the Process node.
failPdf(a) ==
  /\ Step(a, "failing", "failed")
  /\ pdf' = [pdf EXCEPT !.status = "import_failed"]
  /\ UNCHANGED <<vars, import, pages, upload, spent>>

failProcess(a) ==
  /\ Step(a, "failed", "erred")
  /\ import' = [import EXCEPT !.status = "failed"]
  /\ UNCHANGED <<vars, pdf, pages, upload, spent>>

reportSplit(a) ==
  LET w == work[a]
  IN  /\ \/ w.at = "answered" /\ w.page = Total /\ complete(w.job, a)
         \/ w.at = "erred" /\ (complete(w.job, a) \/ fail(w.job, a))
         \/ /\ w.at = "erred" \/ (w.at = "answered" /\ w.page = Total)
            /\ ~OwnedBy(w.job, a) /\ UNCHANGED vars
      /\ work' = [work EXCEPT ![a] = NoWork]
      /\ UNCHANGED <<pdf, import, pages, upload, spent>>

split(a) == \/ claimSplit(a) \/ readPdf(a) \/ handleOutput(a) \/ createPage(a)
            \/ failOutput(a) \/ notifyPage(a) \/ countPage(a) \/ markDone(a)
            \/ completeImport(a) \/ nextPage(a) \/ failPdf(a) \/ failProcess(a)
            \/ reportSplit(a)

-----------------------------------------------------------------------------

ImportPasses ==
  /\ \E j \in Rows :
       \/ /\ spent.lapses < MaxLapses
          /\ LeaseExpires(j)
          /\ spent' = [spent EXCEPT !.lapses = @ + 1]
       \/ BackoffElapses(j) /\ UNCHANGED spent
  /\ UNCHANGED <<pdf, import, pages, upload, work>>

\* An upload that was cut short does not go on; a call the backend was busy
\* with fails at the adapter.
restartImport ==
  /\ spent.crashes < MaxCrashes
  /\ spent' = [spent EXCEPT !.crashes = @ + 1]
  /\ upload' = "over"
  /\ work' = [a \in Adapters |->
                CASE work[a].at \in InResult            -> [work[a] EXCEPT !.at = "answered"]
                  [] work[a].at \in {"failing", "failed"} -> [work[a] EXCEPT !.at = "erred"]
                  [] OTHER                              -> work[a]]
  /\ UNCHANGED <<vars, pdf, import, pages>>

ImportNext ==
  \/ afterFileCreated
  \/ \E a \in Adapters : split(a)
  \/ ImportPasses
  \/ restartImport

\* The upload and the calls of an adapter go on by themselves, time passes.
ImportFairness ==
  /\ WF_<<vars, ivars>>(afterFileCreated)
  /\ WF_<<vars, ivars>>(ImportPasses)
  /\ \A a \in Adapters : WF_<<vars, ivars>>(split(a))

ImportSpec == ImportInit /\ [][ImportNext]_<<vars, ivars>>

FairImportSpec == ImportSpec /\ ImportFairness

-----------------------------------------------------------------------------
(* Properties.                                                             *)

\* While no lease of the job lapsed, the original is there until each of its
\* pages has a node, whatever posts fail, a failed split is tried again, or
\* the backend restarts.
OriginalOutlivesSplit ==
  spent.lapses = 0 /\ ~pdf.onDisk => \A p \in Pages : pages[p] > 0

\* An import without faults, lapses and restarts ends with the original removed and
\* the job out of the queue.
ImportEnds ==
  [](spent = NothingSpent /\ pdf.processable)
    => <>[](pdf.fileRemoved /\ ~pdf.onDisk /\ Rows = {})

-----------------------------------------------------------------------------
(* What the documentation says and the code does not do.                   *)

\* The upload keeps its types, and its original until the pages were told.
ImportIsSafe == ImportTypeOK /\ OriginalOutlivesSplit
=============================================================================
