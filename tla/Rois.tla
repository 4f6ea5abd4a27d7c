-------------------------------- MODULE Rois --------------------------------
(***************************************************************************)
(* The regions drawn on an image, kept as a roi.json node and a file next  *)
(* to the image: saved, updated, read and removed by requests that may     *)
(* overlap, and that a stop of the server may cut short.                   *)
(***************************************************************************)
EXTENDS FiniteSets, Naturals

CONSTANTS
  RoiCalls,     \* requests
  MaxRois,      \* bound: nodes
  MaxRoiStops   \* bound: stops of the server

ASSUME RoiConstants ==
  {MaxRois, MaxRoiStops} \subseteq Nat /\ {"none", "torn"} \cap RoiCalls = {}

VARIABLES
  roi,       \* the nodes, numbered: [there, linked, path]
  text,      \* per node: what is in its file: none, "torn", or the call that wrote it
  call,      \* per request: what it does and what it found
  roiStops,
  saved,     \* history: whose regions a reader should get: "none", a call, or "any"
  overlap    \* history: changes that met, or one that a stop cut short

roiVars == <<roi, text, call, roiStops, saved, overlap>>

Rois == 1 .. MaxRois
Nowhere == [there |-> FALSE, linked |-> FALSE, path |-> FALSE]
NewCall == [op |-> "none", at |-> "new", roi |-> 0, want |-> "none", got |-> "none", alone |-> TRUE]

RoisInit ==
  /\ roi = [r \in Rois |-> Nowhere] /\ text = [r \in Rois |-> "none"]
  /\ call = [c \in RoiCalls |-> NewCall]
  /\ roiStops = 0 /\ saved = "none" /\ overlap = FALSE

Changing == {c \in RoiCalls : call[c].op # "read" /\ call[c].at \notin {"new", "done", "failed"}}

\* History: a change that begins while another is under way, or while a read is.
Begins(c, op, at, r) ==
  /\ overlap' = (overlap \/ (op # "read" /\ Changing # {}))
  /\ call' = [d \in RoiCalls |->
       IF d = c THEN [NewCall EXCEPT !.op = op, !.at = at, !.roi = r, !.want = saved, !.alone = (Changing = {})]
       ELSE [call[d] EXCEPT !.alone = @ /\ op = "read"]]

Goes(c, at) == call' = [call EXCEPT ![c].at = at]

-----------------------------------------------------------------------------
(* save: the node that is there is written again, else one is made.        *)

roiOf == {r \in Rois : roi[r].there /\ roi[r].linked}

save(c) ==
  /\ call[c].at = "new"
  /\ \/ \E r \in roiOf : Begins(c, "save", IF roi[r].path THEN "write" ELSE "failed", r)
     \/ roiOf = {} /\ Begins(c, "create", "create", 0)
  /\ UNCHANGED <<roi, text, roiStops, saved>>

\* Mutant: the node is told its path before the file is written.
PathFirst == [connect |-> "path", path |-> "write", writing |-> "end"]

SaveOrder == [connect |-> "write", writing |-> "path", path |-> "end"]

createRoi(c) ==
  /\ call[c].at = "create"
  /\ LET free == {r \in Rois : ~roi[r].there /\ text[r] = "none" /\ \A d \in RoiCalls : call[d].roi # r} IN
     \E r \in free :
       /\ \A f \in free : r <= f
       /\ roi' = [roi EXCEPT ![r].there = TRUE]
       /\ call' = [call EXCEPT ![c].at = "connect", ![c].roi = r]
  /\ UNCHANGED <<text, roiStops, saved, overlap>>

connectImage(c) ==
  /\ call[c].at = "connect"
  /\ roi' = [roi EXCEPT ![call[c].roi].linked = @ \/ roi[call[c].roi].there]
  /\ Goes(c, SaveOrder.connect)
  /\ UNCHANGED <<text, roiStops, saved, overlap>>

\* writeFile empties the file, then writes it.
writeBegins(c) ==
  /\ call[c].at = "write"
  /\ text' = [text EXCEPT ![call[c].roi] = "torn"]
  /\ Goes(c, "writing")
  /\ UNCHANGED <<roi, roiStops, saved, overlap>>

writeEnds(c) ==
  /\ call[c].at = "writing"
  /\ text' = [text EXCEPT ![call[c].roi] = c]
  /\ Goes(c, IF call[c].op = "create" THEN SaveOrder.writing ELSE "end")
  /\ UNCHANGED <<roi, roiStops, saved, overlap>>

setPath(c) ==
  /\ call[c].at = "path"
  /\ roi' = [roi EXCEPT ![call[c].roi].path = roi[call[c].roi].there]
  /\ Goes(c, SaveOrder.path)
  /\ UNCHANGED <<text, roiStops, saved, overlap>>

\* The request is answered.
ends(c) ==
  /\ call[c].at = "end"
  /\ saved' = IF call[c].op = "remove" THEN "none" ELSE c
  /\ Goes(c, "done")
  /\ UNCHANGED <<roi, text, roiStops, overlap>>

\* update: by the RID of the node.
updateRoi(c) ==
  /\ call[c].at = "new"
  /\ \E r \in Rois : roi[r].there /\ Begins(c, "update", IF roi[r].path THEN "write" ELSE "failed", r)
  /\ UNCHANGED <<roi, text, roiStops, saved>>

-----------------------------------------------------------------------------
(* remove: what hangs on the node is read, the node goes, then its file.   *)
(* read: the node, then the file.                                          *)

removeRoi(c) ==
  /\ call[c].at = "new"
  /\ \E r \in roiOf : Begins(c, "remove", IF roi[r].path THEN "nodeAndFile" ELSE "node", r)
  /\ UNCHANGED <<roi, text, roiStops, saved>>

deleteNode(c) ==
  /\ call[c].at \in {"node", "nodeAndFile"}
  /\ roi' = [roi EXCEPT ![call[c].roi] = Nowhere]
  /\ Goes(c, IF call[c].at = "nodeAndFile" THEN "file" ELSE "end")
  /\ UNCHANGED <<text, roiStops, saved, overlap>>

deleteFile(c) ==
  /\ call[c].at = "file"
  /\ text' = [text EXCEPT ![call[c].roi] = "none"]
  /\ Goes(c, "end")
  /\ UNCHANGED <<roi, roiStops, saved, overlap>>

read(c) ==
  /\ call[c].at = "new"
  /\ \/ \E r \in roiOf : Begins(c, "read", IF roi[r].path THEN "open" ELSE "failed", r)
     \/ roiOf = {} /\ Begins(c, "read", "done", 0)
  /\ UNCHANGED <<roi, text, roiStops, saved>>

readFile(c) ==
  /\ call[c].at = "open"
  /\ call' = [call EXCEPT ![c].at = "done", ![c].got = text[call[c].roi]]
  /\ UNCHANGED <<roi, text, roiStops, saved, overlap>>

\* The server stops; the user may try again.
Stops ==
  /\ roiStops < MaxRoiStops /\ roiStops' = roiStops + 1
  /\ call' = [c \in RoiCalls |-> IF call[c].at \in {"done", "failed"} THEN call[c] ELSE NewCall]
  /\ overlap' = (overlap \/ Changing # {})
  /\ UNCHANGED <<roi, text, saved>>

RoisNext ==
  \/ \E c \in RoiCalls :
       \/ save(c) \/ createRoi(c) \/ connectImage(c) \/ writeBegins(c) \/ writeEnds(c) \/ setPath(c)
       \/ updateRoi(c) \/ removeRoi(c) \/ deleteNode(c) \/ deleteFile(c) \/ ends(c) \/ read(c) \/ readFile(c)
  \/ Stops

RoisSpec == RoisInit /\ [][RoisNext]_roiVars

-----------------------------------------------------------------------------
(* Properties.                                                             *)

\* A node that tells where its file is has a file, whatever requests overlap
\* and wherever a stop cuts one short (rois.ts:61-66, graph.ts:201-211).
PathMeansFile == \A r \in Rois : roi[r].path /\ roi[r].there => text[r] # "none"

\* Regions that were saved are what a reader gets, unless changes overlapped or
\* a stop cut one short (rois.ts:42-83).
SavedIsRead ==
  \A c \in RoiCalls :
    call[c].op = "read" /\ call[c].at = "done" /\ call[c].alone /\ ~overlap => call[c].got = call[c].want

\* Both.
RegionsAreKept == PathMeansFile /\ SavedIsRead
=============================================================================
