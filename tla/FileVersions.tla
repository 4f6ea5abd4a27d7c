---------------------------- MODULE FileVersions ----------------------------
(***************************************************************************)
(* The bytes of an image: edits and reverts by requests, the result of the *)
(* EXIF rotation after its upload, the backup each keeps, and the          *)
(* thumbnails that are made anew after every change.  Requests run at the  *)
(* same time and may fail or be cut short at any step.                     *)
(***************************************************************************)
EXTENDS Naturals

CONSTANTS
  Editors,       \* requests under way; the bytes an edit writes are named by it
  Thumbnailers,  \* consumers of the thumbnail jobs
  NoBytes, TornBytes,
  MaxEdits       \* bound: requests ever started

ASSUME VersionConstants ==
  /\ NoBytes # TornBytes /\ {NoBytes, TornBytes} \cap {"orig", "rotated"} = {}
  /\ {NoBytes, TornBytes, "orig", "rotated"} \cap Editors = {} /\ MaxEdits \in Nat

VARIABLES
  disk,       \* bytes of the file, of its .original, of original.<ext>, of the thumbnails
  edited,     \* the mark on the node
  described,  \* the bytes its metadata were taken from
  editor,     \* per request: what it does, how far it is, bytes it has read
  rotation,   \* the rotation job: none, sent, taken, placing, over
  thumbJobs,  \* thumbnail jobs in the queue
  thumbWork,  \* per consumer: bytes it made thumbnails of, names left to post
  edits,      \* requests started
  met,        \* history: a revert met another change, or a copy was cut short
  overlap,    \* history: two changes were under way at once, the rotation from the upload on
  hurt        \* history: a request failed or was cut short

versionVars == <<disk, edited, described, editor, rotation, thumbJobs, thumbWork, edits, met, overlap, hurt>>

IdleEditor == [op |-> "none", at |-> "idle", read |-> NoBytes]
Files == {"file", "backup", "kept", "preview.jpg", "thumbnail.jpg"}

\* uploadOne and forUpload: a rotated image is sent to be rotated, and its
\* thumbnails are made after that.
VersionInit ==
  /\ disk = [n \in Files |-> IF n = "file" THEN "orig" ELSE NoBytes]
  /\ edited = FALSE /\ described = "orig"
  /\ editor = [c \in Editors |-> IdleEditor] /\ rotation = "sent"
  /\ thumbJobs = 0 /\ thumbWork = [t \in Thumbnailers |-> [of |-> NoBytes, left |-> {}]]
  /\ edits = 0 /\ met = FALSE /\ overlap = FALSE /\ hurt = FALSE

Put(n, bytes) == disk' = [disk EXCEPT ![n] = bytes]
Exists(n) == disk[n] # NoBytes

Changing == {c \in Editors : editor[c] # IdleEditor}
Rotating == rotation = "placing"
EditorAt(c, at) == editor[c].at = at
EditorGoto(c, at) == editor' = [editor EXCEPT ![c].at = at]
EditorEnds(c) == editor' = [editor EXCEPT ![c] = IdleEditor]
OnDiskOnly == UNCHANGED <<edited, described, rotation, thumbJobs, thumbWork, edits, met, overlap>>

-----------------------------------------------------------------------------
(* A request reads the node and looks for the backup.                      *)

StartChange(c, op, at) ==
  /\ editor[c] = IdleEditor /\ edits < MaxEdits
  /\ edits' = edits + 1
  /\ editor' = [editor EXCEPT ![c] = [op |-> op, at |-> at, read |-> NoBytes]]
  /\ overlap' = (overlap \/ Changing # {} \/ rotation # "over")
  /\ met' = (met \/ (Rotating /\ op = "revert")
                 \/ \E d \in Changing : "revert" \in {op, editor[d].op})
  /\ UNCHANGED <<disk, edited, described, rotation, thumbJobs, thumbWork, hurt>>

createVersion(c) ==
  Exists("file") /\ StartChange(c, "edit", IF Exists("backup") THEN "stage" ELSE "copy")

revert(c) == Exists("file") /\ Exists("backup") /\ StartChange(c, "revert", "rm")

-----------------------------------------------------------------------------
(* createVersion.                                                          *)

\* Mutant: the copy is made all the same.
MayCopyOver == TRUE

\* COPYFILE_EXCL: the copy fails when the backup is there by now.
MayCopy == ~Exists("backup")

\* The file is copied while other requests run; its name may get new bytes
\* meanwhile, the copy goes on with the old ones.
copyFile(c) ==
  /\ EditorAt(c, "copy")
  /\ IF MayCopy /\ Exists("file")
     THEN /\ Put("backup", TornBytes)
          /\ editor' = [editor EXCEPT ![c].at = "copying", ![c].read = disk["file"]]
          /\ UNCHANGED hurt
     ELSE EditorEnds(c) /\ hurt' = TRUE /\ UNCHANGED disk
  /\ OnDiskOnly

copied(c) ==
  /\ EditorAt(c, "copying") /\ EditorGoto(c, "stage")
  /\ disk' = IF Exists("backup") THEN [disk EXCEPT !["backup"] = editor[c].read] ELSE disk
  /\ UNCHANGED hurt /\ OnDiskOnly

\* The edited bytes are written beside the file and renamed over it; if that
\* fails and the file is gone it is restored.
renameStaging(c) ==
  /\ EditorAt(c, "stage") /\ EditorGoto(c, "mark")
  /\ Put("file", c) /\ UNCHANGED hurt /\ OnDiskOnly

stagingFails(c) ==
  /\ EditorAt(c, "stage") /\ EditorEnds(c) /\ hurt' = TRUE
  /\ disk' = IF ~Exists("file") /\ Exists("backup")
             THEN [disk EXCEPT !["file"] = disk["backup"]] ELSE disk
  /\ OnDiskOnly

(* revert.                                                                 *)

rmFile(c) ==
  EditorAt(c, "rm") /\ EditorGoto(c, "move") /\ Put("file", NoBytes) /\ UNCHANGED hurt /\ OnDiskOnly

moveBackup(c) ==
  /\ EditorAt(c, "move")
  /\ IF Exists("backup")
     THEN /\ disk' = [disk EXCEPT !["file"] = disk["backup"], !["backup"] = NoBytes]
          /\ EditorGoto(c, "mark") /\ UNCHANGED hurt
     ELSE EditorEnds(c) /\ hurt' = TRUE /\ UNCHANGED disk
  /\ OnDiskOnly

-----------------------------------------------------------------------------
(* Both end with the mark, the metadata and the thumbnails.                *)

Marked(c) == editor[c].op = "edit"

\* Mutant: the metadata of the old bytes stay.
markOnly(c) ==
  /\ EditorAt(c, "mark") /\ EditorGoto(c, "refresh") /\ edited' = Marked(c)
  /\ UNCHANGED <<disk, described, rotation, thumbJobs, thumbWork, edits, met, overlap, hurt>>

mark(c) ==
  /\ EditorAt(c, "mark") /\ EditorGoto(c, "stat") /\ edited' = Marked(c)
  /\ UNCHANGED <<disk, described, rotation, thumbJobs, thumbWork, edits, met, overlap, hurt>>

refreshMetadata(c) ==
  \/ /\ EditorAt(c, "stat")
     /\ IF Exists("file")
        THEN editor' = [editor EXCEPT ![c].at = "describe", ![c].read = disk["file"]] /\ UNCHANGED hurt
        ELSE EditorEnds(c) /\ hurt' = TRUE
     /\ UNCHANGED disk /\ OnDiskOnly
  \/ /\ EditorAt(c, "describe") /\ EditorGoto(c, "refresh") /\ described' = editor[c].read
     /\ UNCHANGED <<disk, edited, rotation, thumbJobs, thumbWork, edits, met, overlap, hurt>>

refresh(c) ==
  /\ EditorAt(c, "refresh") /\ EditorEnds(c) /\ thumbJobs' = thumbJobs + 1
  /\ UNCHANGED <<disk, edited, described, rotation, thumbWork, edits, met, overlap, hurt>>

RequestFails(c) ==
  /\ editor[c].at \in {"mark", "describe", "refresh"} /\ EditorEnds(c) /\ hurt' = TRUE
  /\ UNCHANGED disk /\ OnDiskOnly

-----------------------------------------------------------------------------
(* handleRotation: the file becomes original.<ext>, the result the file.   *)

rotateRename ==
  /\ rotation = "sent" /\ Exists("file") /\ rotation' = "placing"
  /\ disk' = [disk EXCEPT !["kept"] = disk["file"], !["file"] = NoBytes]
  /\ overlap' = (overlap \/ Changing # {})
  /\ met' = (met \/ \E c \in Changing : editor[c].op = "revert")
  /\ UNCHANGED <<edited, described, editor, thumbJobs, thumbWork, edits, hurt>>

handleRotation ==
  /\ Rotating /\ rotation' = "over"
  /\ Put("file", "rotated") /\ described' = "rotated" /\ thumbJobs' = thumbJobs + 1
  /\ UNCHANGED <<edited, editor, thumbWork, edits, met, overlap, hurt>>

-----------------------------------------------------------------------------
(* Thumbnails.                                                             *)

\* POST /api/files/{rid}/thumbnail.
request ==
  /\ thumbJobs = 0 /\ thumbJobs' = 1
  /\ UNCHANGED <<disk, edited, described, editor, rotation, thumbWork, edits, met, overlap, hurt>>

\* A consumer reads the file; a job that finds none fails.
ReadForThumb(t) ==
  /\ thumbWork[t].left = {} /\ thumbJobs > 0 /\ thumbJobs' = thumbJobs - 1
  /\ thumbWork' = IF Exists("file")
                  THEN [thumbWork EXCEPT ![t] = [of |-> disk["file"], left |-> {"preview.jpg", "thumbnail.jpg"}]]
                  ELSE thumbWork
  /\ UNCHANGED <<disk, edited, described, editor, rotation, edits, met, overlap, hurt>>

handleThumbnail(t) ==
  /\ \E n \in thumbWork[t].left :
       Put(n, thumbWork[t].of) /\ thumbWork' = [thumbWork EXCEPT ![t].left = @ \ {n}]
  /\ UNCHANGED <<edited, described, editor, rotation, thumbJobs, edits, met, overlap, hurt>>

\* A thumbnail that is not there falls back to the preview.
resolve(n) == IF n = "thumbnail.jpg" /\ ~Exists(n) THEN disk["preview.jpg"] ELSE disk[n]

-----------------------------------------------------------------------------
StopServer ==
  /\ Changing # {} /\ hurt' = TRUE
  /\ editor' = [c \in Editors |-> IdleEditor]
  /\ met' = (met \/ \E c \in Changing : EditorAt(c, "copying"))
  /\ UNCHANGED <<disk, edited, described, rotation, thumbJobs, thumbWork, edits, overlap>>

VersionNext ==
  \/ \E c \in Editors :
       \/ createVersion(c) \/ revert(c)
       \/ copyFile(c) \/ copied(c) \/ renameStaging(c) \/ stagingFails(c)
       \/ rmFile(c) \/ moveBackup(c)
       \/ mark(c) \/ refreshMetadata(c) \/ refresh(c) \/ RequestFails(c)
  \/ rotateRename \/ handleRotation \/ request
  \/ \E t \in Thumbnailers : ReadForThumb(t) \/ handleThumbnail(t)
  \/ StopServer

VersionSpec == VersionInit /\ [][VersionNext]_versionVars

-----------------------------------------------------------------------------
(* Properties.                                                             *)

\* The bytes that were uploaded are somewhere, in the file, its backup,
\* original.<ext> or a copy under way: for edits that run at once, fail or are cut short, before
\* and after the rotation (files.ts:196-197, results.ts:155).  It takes a revert
\* that meets another change, or a stop in the middle of the copy, to lose them.
OriginalRecoverable ==
  ~met => \/ "orig" \in {disk["file"], disk["backup"], disk["kept"]}
          \/ \E c \in Editors : EditorAt(c, "copying") /\ editor[c].read = "orig"

\* When all requests and thumbnail jobs are over the thumbnails are of the file
\* as it is, whichever of its changes met each other (thumbnails.ts:61).
ThumbnailsCatchUp ==
  (Changing = {} /\ rotation = "over" /\ thumbJobs = 0 /\ ~hurt /\ Exists("file")
     /\ \A t \in Thumbnailers : thumbWork[t].left = {}) =>
  \A n \in {"preview.jpg", "thumbnail.jpg"} : resolve(n) = disk["file"]

\* Between requests the mark and the metadata tell of the bytes of the file,
\* when the changes came one after another and none failed.
NodeTellsOfBytes ==
  (Changing = {} /\ ~Rotating /\ ~overlap /\ ~hurt) =>
    /\ edited <=> disk["file"] \in Editors
    /\ described = disk["file"]

\* The thumbnail and the node tell of the bytes that are there.
ViewsFollowBytes == ThumbnailsCatchUp /\ NodeTellsOfBytes
=============================================================================
