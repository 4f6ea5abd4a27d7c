------------------------------ MODULE MCFiles ------------------------------
(***************************************************************************)
(* TLC instances of what happens to files: the groups of a many-to-one run *)
(* and their outputs, edits and rotation, the members of a set, archives,  *)
(* the search index, the page of a desk.  They share nothing that changes, *)
(* so each behaviour is about one of them.                                 *)
(***************************************************************************)
EXTENDS GroupRun, FileVersions, SetMembers, ZipJobs, SearchIndex, Desk, TLC

VARIABLE part

\* Grouping: every set of three files, of every type and derivation; page
\* numbers against the order of the labels for the set of all files.
Plain == [f \in FileIds |-> 0]
MCGroupable(files, numbers, wishes, searches) ==
  [files: files, type: [FileIds -> {"pdf", "image", "zip"}], page: numbers,
   parent: {p \in [FileIds -> FileIds \cup {NoFile}] : \A f \in FileIds : p[f] < f},
   wish: wishes, search: searches]
MCDesks ==
  UNION {MCGroupable((SUBSET FileIds) \ {{}}, {Plain}, {"off", "on"}, {FALSE}),
         MCGroupable((SUBSET FileIds) \ {{}}, {Plain}, {"default"}, BOOLEAN),
         MCGroupable({FileIds}, {[f \in FileIds |-> 4 - f]}, {"default"}, {FALSE})}

\* Runs: two PDFs; a PDF with two pages; two images of no PDF.
MCDesk(pdfs, files, paged) ==
  [files |-> files, type |-> [f \in FileIds |-> IF f \in pdfs THEN "pdf" ELSE "image"], page |-> Plain,
   parent |-> [f \in FileIds |-> IF f \in paged THEN 1 ELSE NoFile], wish |-> "default", search |-> FALSE]
MCRunDesks == {MCDesk({1, 2}, {1, 2}, {}), MCDesk({1}, {1, 2, 3}, {2, 3}), MCDesk({}, {1, 2}, {})}

\* Sets: an error, a text, an image.
MCFileType == [f \in SetFiles |-> IF f = 1 THEN "error.json" ELSE IF f = 4 THEN "image" ELSE "text"]

\* Regions: two runs of one service on one file.
MCRoiFile == [r \in RoiRuns |-> 11]
MCRoiLabels == [r \in RoiRuns |-> IF r = 2 THEN {"a", "b"} ELSE {"a"}]

\* A desk: a set with a file, a run over it with its output set, and a file
\* made from the file of the set alone.  Outputs inside sets: see SingleRuns.
MCNode(type, of, process, set) == [type |-> type, of |-> of, process |-> process, set |-> set]
MCLineage ==
  "set" :> MCNode("Set", Top, Nothing, Nothing) @@ "member" :> MCNode("File", Top, Nothing, "set")
    @@ "run" :> MCNode("SetProcess", Top, Nothing, Nothing) @@ "outset" :> MCNode("Set", "set", "run", Nothing)
    @@ "ocr" :> MCNode("Process", Top, Nothing, Nothing) @@ "single" :> MCNode("File", "member", "ocr", Nothing)

Symmetry == Permutations(Editors) \cup Permutations(Handlers)

Init ==
  /\ GroupRunInit /\ VersionInit /\ SetInit /\ ZipInit /\ IndexInit /\ DeskInit
  /\ part \in {"grouping", "runs", "versions", "manifest", "batch", "pages", "zip",
               "requeue", "rebuild", "filter", "desks", "page"}
  /\ part # "zip" => zipFiles
  /\ part # "requeue" => tagTask

\* A failed request is no matter of thumbnails any more, and when a revert met
\* another change as well the properties say nothing.  Thumbnails are asked for
\* before the first edit; those of edits and of the rotation come on their own.
VersionsPart ==
  /\ VersionNext
  /\ hurt => UNCHANGED thumbWork /\ ~request
  /\ request => rotation # "sent" /\ edits = 0
  /\ ~(hurt' /\ met')

OutputSteps ==
  \/ \E h \in Handlers, f \in SetFiles : createProcessFile(h, f) \/ createErrorNode(h, f)
  \/ \E h \in Handlers : scheduleSetManifest(h) \/ countMembers(h) \/ updateFileCount(h)
  \/ \E f \in SetFiles : DeleteMember(f)

\* Outputs and errors.  Two counts or two writes of set.json at once are left
\* out: the properties except them for good.
ManifestPart ==
  /\ OutputSteps \/ SetSyncNext
  /\ ~twoSyncs' /\ ~twoCounts' /\ Cardinality(came') <= 2
BatchPart == (SetFilesNext \/ SetBatchNext) /\ Cardinality(came') <= 2
\* The walk over the pages, while outputs come and files go.
PagesPart == (OutputSteps \/ SetPagesNext) /\ ~twoCounts' /\ Cardinality(gone') <= 1

Next ==
  /\ UNCHANGED part
  /\ \/ part = "grouping" /\ GroupingNext
          /\ UNCHANGED <<plan, position, checked, delivered, groupWork, run, outputs, overlapped>>
          /\ UNCHANGED <<versionVars, setVars, zipVars, indexVars, deskVars>>
     \/ part = "runs" /\ GroupRunNext /\ UNCHANGED <<versionVars, setVars, zipVars, indexVars, deskVars>>
     \/ part = "versions" /\ VersionsPart /\ UNCHANGED <<groupRunVars, setVars, zipVars, indexVars, deskVars>>
     \/ /\ part \in {"manifest", "batch", "pages"}
        /\ \/ part = "manifest" /\ ManifestPart
           \/ part = "batch" /\ BatchPart
           \/ part = "pages" /\ PagesPart
        /\ UNCHANGED <<groupRunVars, versionVars, zipVars, indexVars, deskVars>>
     \/ part = "zip" /\ ZipNext /\ UNCHANGED <<groupRunVars, versionVars, setVars, indexVars, deskVars>>
     \/ /\ part \in {"requeue", "rebuild", "filter"}
        /\ \/ part = "requeue" /\ (RebuildSteps \/ RequeueSteps \/ WorkSteps \/ DeleteSteps \/ CrashIndexing)
           \/ part = "rebuild" /\ (RunSteps \/ RebuildSteps \/ DeleteSteps \/ CrashIndexing)
           \/ part = "filter" /\ (RunSteps \/ DeleteSteps \/ FilterSteps) /\ UNCHANGED faults
        /\ UNCHANGED <<groupRunVars, versionVars, setVars, zipVars, deskVars>>
     \/ /\ \/ part = "desks" /\ ProjectSteps
           \/ part = "page" /\ PageSteps
        /\ UNCHANGED <<groupRunVars, versionVars, setVars, zipVars, indexVars>>

FilesSpec ==
  Init /\ [][Next]_<<part, groupRunVars, versionVars, setVars, zipVars, indexVars, deskVars>>
=============================================================================
