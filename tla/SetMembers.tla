----------------------------- MODULE SetMembers -----------------------------
(***************************************************************************)
(* One set: the files in it, the count on its node and the set.json on the *)
(* disk, which follow the files with a delay.  Uploads, outputs and errors *)
(* of a batch, deletions, a batch over the set and a listing by pages come *)
(* at the same time.                                                       *)
(***************************************************************************)
EXTENDS FiniteSets, Integers

CONSTANTS
  SetFiles,    \* numbers: the files that may come into the set, by their labels
  FileType,    \* per file its type; errors of jobs have "error.json"
  Handlers,    \* uploads and callbacks under way
  Syncs,       \* writes of set.json under way
  NoSetFile, NoType,
  MaxParts,    \* bound: files of one upload
  PageSize

ASSUME SetConstants ==
  /\ SetFiles \subseteq Nat /\ NoSetFile \notin SetFiles /\ NoType \notin {FileType[f] : f \in SetFiles}
  /\ {MaxParts, PageSize} \subseteq Nat \ {0}

VARIABLES
  members,   \* files with this set as theirs
  count,     \* the count on the node
  timer,     \* is a write of set.json scheduled?
  sync,      \* per write: how far it is, the files it lists
  manifest,  \* the files set.json lists
  handler,   \* per handler: what it does, its file, type wanted, parts left, count read
  listed,    \* the files a batch over the set has listed
  locked,    \* has that batch its output set, derived from this one?
  pages,     \* a walk by pages: files to skip, files seen, the number of files at first
             \* and now; did that number change before the page was read?
  came, gone,                   \* history: files that ever came; files deleted
  uploaded,                     \* history: files that came by uploads
  late,                         \* history: an upload met the start of the batch
  stay,                         \* history: files there since the listing began
  twoUploads, twoCounts, twoSyncs,  \* history: two at once
  cut        \* history: what a crash left and nothing has written since

setVars == <<members, count, timer, sync, manifest, handler, listed, locked, pages, came, gone,
             uploaded, late, stay, twoUploads, twoCounts, twoSyncs, cut>>
setHistory == <<uploaded, late, stay, twoUploads, twoCounts, twoSyncs, cut>>

FreeHandler == [at |-> "idle", file |-> NoSetFile, type |-> NoType, parts |-> 0, read |-> 0]
FreeSync == [at |-> "idle", items |-> {}]
NoPages == [at |-> "idle", skip |-> 0, seen |-> {}, first |-> 0, total |-> 0, met |-> FALSE]

SetInit ==
  /\ members = {} /\ count = 0 /\ timer = FALSE /\ manifest = {}
  /\ sync = [y \in Syncs |-> FreeSync] /\ handler = [h \in Handlers |-> FreeHandler]
  /\ listed = {} /\ locked = FALSE /\ pages = NoPages
  /\ came = {} /\ gone = {} /\ uploaded = {} /\ late = FALSE /\ stay = {}
  /\ twoUploads = FALSE /\ twoCounts = FALSE /\ twoSyncs = FALSE /\ cut = {}

HandlerAt(h, at) == handler[h].at = at
Uploading == {h \in Handlers : handler[h].parts > 0}
Types == {FileType[f] : f \in members}

-----------------------------------------------------------------------------
(* Files come.                                                             *)

\* Mutant: what has been processed may still be added to.
OpenToAll == TRUE

\* A set that is the input of a batch takes no more uploads.
OpenToUploads == ~locked

\* upload: the lock and the one type the set has, then the parts.
upload(h) ==
  /\ HandlerAt(h, "idle") /\ OpenToUploads /\ Cardinality(Types) <= 1
  /\ \E n \in 1 .. MaxParts :
       handler' = [handler EXCEPT ![h] = [FreeHandler EXCEPT !.at = "part", !.parts = n,
         !.type = IF Types = {} THEN NoType ELSE CHOOSE t \in Types : TRUE]]
  /\ twoUploads' = (twoUploads \/ Uploading # {}) /\ late' = (late \/ (listed # {} /\ ~locked))
  /\ UNCHANGED <<members, count, timer, sync, manifest, listed, locked, pages, came, gone,
                 uploaded, stay, twoCounts, twoSyncs, cut>>

Comes(f) == f \notin came /\ members' = members \cup {f} /\ came' = came \cup {f}

TypeSet(h, f) == FileType[f]

\* uploadOne: the file is created with its set; a file of another type is refused.
uploadOne(h) ==
  /\ HandlerAt(h, "part")
  /\ \E f \in SetFiles \ came :
       /\ FileType[f] # "error.json" /\ handler[h].type \in {NoType, FileType[f]}
       /\ Comes(f) /\ uploaded' = uploaded \cup {f}
       /\ handler' = [handler EXCEPT ![h].at = "count", ![h].file = f, ![h].type = TypeSet(h, f)]
  /\ UNCHANGED <<count, timer, sync, manifest, listed, locked, pages, gone, late, stay,
                 twoUploads, twoCounts, twoSyncs, cut>>

partRefused(h) ==
  /\ HandlerAt(h, "part")
  /\ \E f \in SetFiles : handler[h].type \notin {NoType, FileType[f]}
  /\ handler' = [handler EXCEPT ![h] =
       IF handler[h].parts = 1 THEN FreeHandler
       ELSE [handler[h] EXCEPT !.parts = handler[h].parts - 1]]
  /\ UNCHANGED <<members, count, timer, sync, manifest, listed, locked, pages, came, gone, setHistory>>

\* createProcessFile: the file, then the write of set.json, then the count.
createProcessFile(h, f) ==
  /\ HandlerAt(h, "idle") /\ FileType[f] # "error.json" /\ Comes(f)
  /\ handler' = [handler EXCEPT ![h] = [FreeHandler EXCEPT !.at = "schedule", !.file = f]]
  /\ UNCHANGED <<count, timer, sync, manifest, listed, locked, pages, gone, setHistory>>

scheduleSetManifest(h) ==
  /\ HandlerAt(h, "schedule") /\ timer' = TRUE
  /\ handler' = [handler EXCEPT ![h] =
       IF FileType[handler[h].file] = "error.json" THEN FreeHandler
       ELSE [handler[h] EXCEPT !.at = "count"]]
  /\ UNCHANGED <<members, count, sync, manifest, listed, locked, pages, came, gone, setHistory>>

\* createErrorNode: a member that nothing counts.
createErrorNode(h, f) ==
  /\ HandlerAt(h, "idle") /\ FileType[f] = "error.json" /\ Comes(f)
  /\ handler' = [handler EXCEPT ![h] = [FreeHandler EXCEPT !.at = "schedule", !.file = f]]
  /\ UNCHANGED <<count, timer, sync, manifest, listed, locked, pages, gone, setHistory>>

\* Mutant: the members are counted before the file is one of them.
CountedBefore(h) == Cardinality(members \ {handler[h].file})

\* updateFileCount: counted by one query, ...
Counted(h) == Cardinality(members)

countMembers(h) ==
  /\ HandlerAt(h, "count")
  /\ handler' = [handler EXCEPT ![h].at = "store", ![h].read = Counted(h)]
  /\ twoCounts' = (twoCounts \/ \E g \in Handlers : HandlerAt(g, "store"))
  /\ UNCHANGED <<members, count, timer, sync, manifest, listed, locked, pages, came, gone,
                 uploaded, late, stay, twoUploads, twoSyncs, cut>>

\* ... stored by another, and set.json scheduled.
updateFileCount(h) ==
  /\ HandlerAt(h, "store") /\ count' = handler[h].read /\ timer' = TRUE
  /\ cut' = cut \ {"count"}
  /\ handler' = [handler EXCEPT ![h] =
       IF handler[h].parts <= 1 THEN FreeHandler
       ELSE [FreeHandler EXCEPT !.at = "part", !.type = handler[h].type, !.parts = handler[h].parts - 1]]
  /\ UNCHANGED <<members, sync, manifest, listed, locked, pages, came, gone,
                 uploaded, late, stay, twoUploads, twoCounts, twoSyncs>>

-----------------------------------------------------------------------------
(* set.json.                                                               *)

\* The timer, the end of a batch or the shutdown starts a write, ...
flushSetManifest(y) ==
  /\ sync[y] = FreeSync /\ timer' = FALSE
  /\ sync' = [sync EXCEPT ![y].at = "read"]
  /\ twoSyncs' = (twoSyncs \/ \E z \in Syncs : sync[z] # FreeSync)
  /\ UNCHANGED <<members, count, manifest, handler, listed, locked, pages, came, gone,
                 uploaded, late, stay, twoUploads, twoCounts, cut>>

syncRead(y) ==
  /\ sync[y].at = "read" /\ sync' = [sync EXCEPT ![y] = [at |-> "write", items |-> members]]
  /\ UNCHANGED <<members, count, timer, manifest, handler, listed, locked, pages, came, gone, setHistory>>

\* What was scheduled during the write stays.
TimerAfter == timer

syncSetManifest(y) ==
  /\ sync[y].at = "write" /\ manifest' = sync[y].items /\ timer' = TimerAfter
  /\ sync' = [sync EXCEPT ![y] = FreeSync] /\ cut' = cut \ {"manifest"}
  /\ UNCHANGED <<members, count, handler, listed, locked, pages, came, gone,
                 uploaded, late, stay, twoUploads, twoCounts, twoSyncs>>

-----------------------------------------------------------------------------
\* A file of the set is deleted; its count and set.json do not hear of it.
DeleteMember(f) ==
  /\ f \in members /\ members' = members \ {f} /\ gone' = gone \cup {f}
  /\ UNCHANGED <<count, timer, sync, manifest, handler, listed, locked, pages, came, setHistory>>

\* queueSet: the files are listed, ...
StartBatch ==
  /\ listed = {} /\ members # {} /\ listed' = members
  /\ late' = (Uploading # {})
  /\ UNCHANGED <<members, count, timer, sync, manifest, handler, locked, pages, came, gone,
                 uploaded, stay, twoUploads, twoCounts, twoSyncs, cut>>

\* ... and the output set is derived from the set, which locks it.
LockSet ==
  /\ listed # {} /\ ~locked /\ locked' = TRUE
  /\ UNCHANGED <<members, count, timer, sync, manifest, handler, listed, pages, came, gone, setHistory>>

-----------------------------------------------------------------------------
(* requeueSetThumbnails: page by page.                                     *)

StartPages ==
  /\ pages.at = "idle" /\ members # {} /\ stay' = members
  /\ pages' = [NoPages EXCEPT !.at = "count"]
  /\ UNCHANGED <<members, count, timer, sync, manifest, handler, listed, locked, came, gone,
                 uploaded, late, twoUploads, twoCounts, twoSyncs, cut>>

\* setFiles: the number of files by one query, ...
countFiles ==
  /\ pages.at = "count"
  /\ pages' = [pages EXCEPT !.at = "page", !.total = Cardinality(members),
                 !.first = IF pages.first = 0 THEN Cardinality(members) ELSE pages.first]
  /\ UNCHANGED <<members, count, timer, sync, manifest, handler, listed, locked, came, gone, setHistory>>

\* ... a page of them by another, in the order of their labels.
setFiles == {f \in members :
  LET place == Cardinality({g \in members : g < f}) IN
  place >= pages.skip /\ place < pages.skip + PageSize}

PagesOver(next) == next >= pages.total

requeueSetThumbnails ==
  /\ pages.at = "page"
  /\ LET next == pages.skip + Cardinality(setFiles) IN
     pages' = [pages EXCEPT !.seen = pages.seen \cup setFiles, !.skip = next,
                 !.at = IF setFiles = {} \/ PagesOver(next) THEN "over" ELSE "count",
                 !.met = pages.met \/ Cardinality(members) # pages.total]
  /\ UNCHANGED <<members, count, timer, sync, manifest, handler, listed, locked, came, gone, setHistory>>

\* The server stops; a shutdown writes what is scheduled, a crash does not.
CrashSets ==
  /\ cut = {} /\ cut' = {"manifest", "count"} /\ timer' = FALSE
  /\ sync' = [y \in Syncs |-> FreeSync] /\ handler' = [h \in Handlers |-> FreeHandler]
  /\ listed' = (IF locked THEN listed ELSE {}) /\ pages' = NoPages
  /\ UNCHANGED <<members, count, manifest, locked, came, gone,
                 uploaded, late, stay, twoUploads, twoCounts, twoSyncs>>

SetFilesNext ==
  \/ \E h \in Handlers :
       \/ upload(h) \/ uploadOne(h) \/ partRefused(h)
       \/ \E f \in SetFiles : createProcessFile(h, f) \/ createErrorNode(h, f)
       \/ scheduleSetManifest(h) \/ countMembers(h) \/ updateFileCount(h)
  \/ \E f \in SetFiles : DeleteMember(f)

SetSyncNext ==
  (\E y \in Syncs : flushSetManifest(y) \/ syncRead(y) \/ syncSetManifest(y)) \/ CrashSets

SetBatchNext == StartBatch \/ LockSet

SetPagesNext == StartPages \/ countFiles \/ requeueSetThumbnails

SetNext == SetFilesNext \/ SetSyncNext \/ SetBatchNext \/ SetPagesNext

SetSpec == SetInit /\ [][SetNext]_setVars

-----------------------------------------------------------------------------
(* Properties.                                                             *)

\* With no write scheduled or under way set.json lists every file of the set,
\* and besides only files deleted since: also files that came while it was
\* being written (nodes.ts:117-122).  A crash breaks
\* it until the next write, two writes at once may for good.
ManifestCatchesUp ==
  (~timer /\ ~twoSyncs /\ "manifest" \notin cut /\ (\A y \in Syncs : sync[y] = FreeSync)
     /\ \A h \in Handlers : handler[h].at \in {"idle", "part"}) =>
    members \subseteq manifest /\ manifest \ members \subseteq gone

\* Between additions the count is that of the files, some errors left out and
\* files deleted since included, if no two handlers counted at once.
CountCatchesUp ==
  (~twoCounts /\ "count" \notin cut /\ \A h \in Handlers : handler[h].at \in {"idle", "part"}) =>
    /\ count >= Cardinality({f \in members : FileType[f] # "error.json"})
    /\ count <= Cardinality(members \cup gone)

\* Uploads bring files of one type into a set, whatever outputs come between
\* them (files.ts:101-113), unless two uploads run at once.
UploadsHaveOneType ==
  ~twoUploads => \A f, g \in uploaded \cap members : FileType[f] = FileType[g]

\* The uploaded files of a set under a batch are those the batch has listed,
\* but for uploads that run while it starts (files.ts:97).
BatchHasItsFiles ==
  (locked /\ ~late) => uploaded \cap members \subseteq listed

\* A file that stays in the set is reached by the walk over its pages, files
\* that come in between included, unless one is deleted in between or comes
\* just between the count and the listing of one page (files.ts:259-260, 296).
PagesReachAll ==
  (pages.at = "over" /\ ~pages.met /\ gone = {}) => stay \subseteq pages.seen

\* Count, manifest and page walk of a set catch up with its members.
ViewsFollowMembers == ManifestCatchesUp /\ CountCatchesUp /\ PagesReachAll

\* A set keeps to one type of upload, and a batch to the files it was given.
UploadsAreOrderly == UploadsHaveOneType /\ BatchHasItsFiles
=============================================================================
