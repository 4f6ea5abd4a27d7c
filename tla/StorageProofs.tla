--------------------------- MODULE StorageProofs ---------------------------
(***************************************************************************)
(* Proofs about what is kept: ZipJobs, FileVersions, SetMembers,           *)
(* DatabaseClient and SearchIndex, for any users, files, requests, workers *)
(* and consumers.  Each has its own specification and its own inductive    *)
(* invariant; they share the lemmas about numbers in their order.          *)
(***************************************************************************)
EXTENDS ZipJobs, FileVersions, SetMembers, DatabaseClient, SearchIndex,
        FiniteSetTheorems, SequenceTheorems, WellFoundedInduction, TLAPS

-----------------------------------------------------------------------------
(* Numbers in their order.                                                 *)

\* How many of S stand before f.
Place(S, f) == Cardinality({g \in S : g < f})

LEMMA SizesGrow ==
  ASSUME NEW S, NEW T, IsFiniteSet(T), S \subseteq T
  PROVE  /\ IsFiniteSet(S) /\ Cardinality(S) \in Nat /\ Cardinality(T) \in Nat
         /\ Cardinality(S) <= Cardinality(T)
BY FS_Subset, FS_CardinalityType

\* The places in a set are numbers below its size, in the order of its members.
LEMMA PlaceFacts ==
  ASSUME NEW S, S \subseteq Nat, IsFiniteSet(S)
  PROVE  /\ \A f \in S : Place(S, f) \in Nat /\ Place(S, f) < Cardinality(S)
         /\ \A f, g \in S : f < g => Place(S, f) < Place(S, g)
<1>1. ASSUME NEW f, NEW T, T \subseteq S, f \in T, f \in S, {g \in S : g < f} \subseteq T
      PROVE  Place(S, f) \in Nat /\ Place(S, f) < Cardinality(T)
  <2>1. f \in Nat
    BY <1>1
  <2>2. IsFiniteSet(T)
    BY <1>1, SizesGrow
  <2>3. ~(f < f)
    BY <2>1
  <2>4. {g \in S : g < f} \subseteq T \ {f}
    BY <1>1, <2>3
  <2>5. IsFiniteSet(T \ {f}) /\ Cardinality(T \ {f}) = Cardinality(T) - 1
    BY <1>1, <2>2, FS_RemoveElement
  <2>. QED  BY <2>2, <2>4, <2>5, SizesGrow, FS_CardinalityType DEF Place
<1>2. \A f \in S : Place(S, f) \in Nat /\ Place(S, f) < Cardinality(S)
  BY <1>1
<1>3. ASSUME NEW f \in S, NEW e \in S, f < e
      PROVE  Place(S, f) < Place(S, e)
  <2>1. \A g \in S : g < f => g < e
    <3>. TAKE g \in S
    <3>. g \in Nat /\ f \in Nat /\ e \in Nat
      OBVIOUS
    <3>. QED  BY <1>3
  <2>2. f \in {g \in S : g < e}
    BY <1>3
  <2>3. Place(S, f) < Cardinality({g \in S : g < e})
    BY <1>1, <2>1, <2>2
  <2>. QED  BY <2>3 DEF Place
<1>. QED  BY <1>2, <1>3

\* No more members than places lie in a stretch of the order.
LEMMA PlaceWindow ==
  ASSUME NEW S, S \subseteq Nat, IsFiniteSet(S), NEW a \in Nat, NEW n \in Nat, NEW T, T \subseteq S,
         \A f \in T : Place(S, f) >= a /\ Place(S, f) < a + n
  PROVE  Cardinality(T) <= n
<1>0. \A f \in S : Place(S, f) \in Nat
  BY PlaceFacts
<1>1. PICK r : r = [f \in T |-> Place(S, f)]
  OBVIOUS
<1>2. r \in [T -> a .. (a + n - 1)]
  <2>1. \A f \in T : Place(S, f) \in a .. (a + n - 1)
    BY <1>0
  <2>. QED  BY <1>1, <2>1
<1>3. \A f, g \in T : r[f] = r[g] => f = g
  <2>. TAKE f, g \in T
  <2>1. f \in Nat /\ g \in Nat /\ f \in S /\ g \in S
    OBVIOUS
  <2>2. Place(S, f) \in Nat /\ Place(S, g) \in Nat
    BY <2>1, PlaceFacts
  <2>3. f < g => Place(S, f) < Place(S, g)
    BY <2>1, PlaceFacts
  <2>4. g < f => Place(S, g) < Place(S, f)
    BY <2>1, PlaceFacts
  <2>. QED  BY <1>1, <2>1, <2>2, <2>3, <2>4
<1>4. r \in Injection(T, a .. (a + n - 1))
  BY <1>2, <1>3 DEF Injection, IsInjective
<1>5. IsFiniteSet(a .. (a + n - 1)) /\ Cardinality(a .. (a + n - 1)) = n
  BY FS_Interval
<1>. QED  BY <1>4, <1>5, FS_Injection

\* A place with members at or behind it is taken.
LEMMA PlaceTaken ==
  ASSUME NEW S, S \subseteq Nat, IsFiniteSet(S), NEW a \in Nat, NEW f \in S, Place(S, f) >= a
  PROVE  \E g \in S : Place(S, g) = a
<1>1. PICK T : T = {g \in S : Place(S, g) >= a}
  OBVIOUS
<1>2. T \subseteq Nat /\ T # {}
  BY <1>1
<1>3. \E g \in T : \A e \in T : ~(<<e, g>> \in OpToRel(<, Nat))
  BY <1>2, NatLessThanWellFounded, WFMin, Zenon
<1>4. PICK g \in T : \A e \in T : ~(e < g)
  BY <1>2, <1>3 DEF OpToRel
<1>5. \A e \in S : e < g => Place(S, e) \in Nat /\ Place(S, e) >= 0 /\ Place(S, e) < 0 + a
  <2>. TAKE e \in S
  <2>. HAVE e < g
  <2>1. e \notin T
    BY <1>4
  <2>2. Place(S, e) \in Nat
    BY PlaceFacts
  <2>. QED  BY <1>1, <2>1, <2>2
<1>6. Cardinality({e \in S : e < g}) <= a
  BY <1>5, PlaceWindow
<1>7. g \in S /\ Place(S, g) \in Nat /\ Place(S, g) >= a
  BY <1>1, PlaceFacts
<1>. QED  BY <1>6, <1>7 DEF Place

-----------------------------------------------------------------------------
(* Archives of sets.                                                       *)

ZipTypeOK ==
  /\ record \in [ZipIds -> [user: ZipUsers \cup {NoUser}, old: BOOLEAN]]
  /\ archive \in [ZipIds -> {"none", "part", "whole"}]
  /\ packer \in [Packers -> ZipIds \cup {NoZip}]

ZipInv == ZipTypeOK /\ ArchivesHaveRecords

LEMMA ZipQuiet ==
  ASSUME ZipInv, UNCHANGED <<record, archive, packer, wrote>>
  PROVE  ZipInv'
BY DEF ZipInv, ZipTypeOK, ArchivesHaveRecords, Recorded

\* A record that is made, or grows old, is one.
LEMMA RecordKeeps ==
  ASSUME ZipInv, NEW i \in ZipIds,
         (\E u \in ZipUsers : createZip(i, u)) \/ ZipTtlPasses(i)
  PROVE  ZipInv'
<1>1. /\ record' \in [ZipIds -> [user: ZipUsers \cup {NoUser}, old: BOOLEAN]]
      /\ record'[i] # NoRecord /\ \A j \in ZipIds \ {i} : record'[j] = record[j]
      /\ UNCHANGED <<archive, packer, wrote>>
  <2>1. CASE \E u \in ZipUsers : createZip(i, u)
    BY <2>1, ZipConstants DEF createZip, NoRecord, ZipInv, ZipTypeOK
  <2>2. CASE ZipTtlPasses(i)
    <3>1. [record[i] EXCEPT !.old = TRUE] \in [user: ZipUsers \cup {NoUser}, old: {TRUE}]
      BY DEF ZipInv, ZipTypeOK
    <3>. QED  BY <2>2, <3>1 DEF ZipTtlPasses, NoRecord, ZipInv, ZipTypeOK
  <2>. QED  BY <2>1, <2>2
<1>. QED  BY <1>1 DEF ZipInv, ZipTypeOK, ArchivesHaveRecords, Recorded

\* The service writes an archive, with a record or without.
LEMMA PackKeeps ==
  ASSUME ZipInv, NEW p \in Packers, packZip(p) \/ zipPacked(p)
  PROVE  ZipInv'
<1>. DEFINE i == packer[p]
<1>1. i \in ZipIds
  BY DEF packZip, zipPacked, ZipInv, ZipTypeOK
<1>2. PICK state \in {"part", "whole"} :
        /\ archive' = [archive EXCEPT ![i] = state]
        /\ wrote' = IF Recorded(i) THEN wrote ELSE wrote \cup {i}
        /\ record' = record
  BY DEF packZip, zipPacked, Packed
<1>3. packer' \in [Packers -> ZipIds \cup {NoZip}]
  BY DEF packZip, zipPacked, ZipInv, ZipTypeOK
<1>. QED  BY <1>1, <1>2, <1>3 DEF ZipInv, ZipTypeOK, ArchivesHaveRecords, Recorded

\* Record and archive go together.
LEMMA CleanupKeeps ==
  ASSUME ZipInv, NEW i \in ZipIds, cleanupZip(i), UNCHANGED <<packer, wrote>>
  PROVE  ZipInv'
<1>1. NoRecord \in [user: ZipUsers \cup {NoUser}, old: BOOLEAN]
  BY DEF NoRecord
<1>. QED  BY <1>1 DEF cleanupZip, BothGone, ZipInv, ZipTypeOK, ArchivesHaveRecords, Recorded

\* No archive is left behind without its record, however often its job is
\* delivered, unless the service writes it after its record went.
THEOREM ArchivesAlwaysHaveRecords == ZipSpec => []ArchivesHaveRecords
<1>1. ZipInit => ZipInv
  BY DEF ZipInit, ZipInv, ZipTypeOK, ArchivesHaveRecords, NoRecord
<1>2. ZipInv /\ [ZipNext]_zipVars => ZipInv'
  <2>. SUFFICES ASSUME ZipInv, [ZipNext]_zipVars  PROVE ZipInv'
    OBVIOUS
  <2>1. ASSUME NEW i \in ZipIds, publishZip(i) \/ zipLapses(i)  PROVE ZipInv'
    BY <2>1, ZipQuiet DEF publishZip, zipLapses
  <2>2. ASSUME NEW i \in ZipIds, finishDownload(i)  PROVE ZipInv'
    BY <2>2, ZipQuiet, CleanupKeeps DEF finishDownload
  <2>3. ASSUME NEW i \in ZipIds, ZipTtlPasses(i)  PROVE ZipInv'
    BY <2>3, RecordKeeps
  <2>4. ASSUME NEW i \in ZipIds, NEW u \in ZipUsers, createZip(i, u)  PROVE ZipInv'
    BY <2>4, RecordKeeps
  <2>5. ASSUME NEW i \in ZipIds, NEW u \in ZipUsers, zipStatus(i, u)  PROVE ZipInv'
    BY <2>5, CleanupKeeps DEF zipStatus
  <2>6. ASSUME NEW i \in ZipIds, NEW u \in ZipUsers, startDownload(i, u)  PROVE ZipInv'
    BY <2>6, ZipQuiet DEF startDownload
  <2>7. ASSUME NEW p \in Packers, packZip(p) \/ zipPacked(p)  PROVE ZipInv'
    BY <2>7, PackKeeps
  <2>8. ASSUME NEW p \in Packers, zipAttemptLost(p)  PROVE ZipInv'
    BY <2>8 DEF zipAttemptLost, ZipInv, ZipTypeOK, ArchivesHaveRecords, Recorded
  <2>9. ASSUME NEW p \in Packers, NEW i \in ZipIds, claimZip(p, i)  PROVE ZipInv'
    BY <2>9 DEF claimZip, ZipInv, ZipTypeOK, ArchivesHaveRecords, Recorded
  <2>10. CASE UNCHANGED zipVars
    BY <2>10, ZipQuiet DEF zipVars
  <2>. QED  BY <2>1, <2>2, <2>3, <2>4, <2>5, <2>6, <2>7, <2>8, <2>9, <2>10 DEF ZipNext
<1>. QED  BY <1>1, <1>2, PTL DEF ZipSpec, ZipInv

-----------------------------------------------------------------------------
(* Versions of an image.                                                   *)

EditSteps == {"idle", "copy", "copying", "stage", "rm", "move", "mark", "stat", "describe", "refresh"}

\* Steps that end with a thumbnail job, unless the request fails.
AfterChange == {"move", "mark", "stat", "describe", "refresh"}

Bytes == Editors \cup {NoBytes, TornBytes, "orig", "rotated"}
Thumbs == {"preview.jpg", "thumbnail.jpg"}
EditorType == [op: {"none", "edit", "revert"}, at: EditSteps, read: Bytes]
ThumbType == [of: Bytes, left: SUBSET Thumbs]

EditorSound(w) ==
  /\ w.at = "idle" <=> w = IdleEditor
  /\ w.at \in {"copy", "copying", "stage"} => w.op = "edit"
  /\ w.at \in {"rm", "move"} => w.op = "revert"
  /\ w.at = "idle" <=> w.op = "none"
  /\ w.at = "copying" => w.read # NoBytes

VersionTyped ==
  /\ disk \in [Files -> Bytes] /\ edited \in BOOLEAN /\ described \in Bytes
  /\ editor \in [Editors -> EditorType] /\ \A c \in Editors : EditorSound(editor[c])
  /\ rotation \in {"sent", "placing", "over"} /\ thumbJobs \in Nat
  /\ rotation = "sent" => disk["kept"] = NoBytes
  /\ thumbWork \in [Thumbnailers -> ThumbType]
  /\ met \in BOOLEAN /\ overlap \in BOOLEAN /\ hurt \in BOOLEAN

\* The backup has the bytes that were uploaded, or a copy that will bring them.
Backed ==
  /\ Exists("backup")
  /\ \A c \in Editors : EditorAt(c, "copying") => editor[c].read = "orig"
  /\ disk["backup"] = "orig" \/ \E c \in Editors : EditorAt(c, "copying")

Unchanged == ~Exists("backup") /\ disk["file"] = "orig" /\ ~Rotating

\* While no revert met another change: the backup is there once anything needs
\* it, written by one copy at most, and the first bytes are in it or in the file
\* unless the rotation has put them away.
OriginalSafe ==
  /\ \A c \in Editors : editor[c].op = "revert" =>
       ~Rotating /\ \A d \in Editors \ {c} : EditorAt(d, "idle")
  /\ \A c \in Editors : editor[c].at \in {"stage", "copying", "rm", "move"} => Exists("backup")
  /\ \A c, d \in Editors : EditorAt(c, "copying") /\ EditorAt(d, "copying") => c = d
  /\ disk["kept"] = "orig" \/ Backed \/ Unchanged

Shown(t) ==
  \A n \in Thumbs : IF n \in thumbWork[t].left THEN thumbWork[t].of = disk["file"]
                    ELSE disk[n] = disk["file"]

\* While no request failed: a file that is away comes back, and with no job and
\* no change to come the thumbnails are or will be of the file.
ThumbsFollow ==
  /\ ~Exists("file") => Rotating \/ \E c \in Editors : EditorAt(c, "move")
  /\ (\E t : Thumbnailers = {t}) /\ thumbJobs = 0 /\ rotation = "over" /\ (\A c \in Editors : editor[c].at \notin AfterChange) =>
       \A t \in Thumbnailers : Shown(t)

Fits == edited <=> disk["file"] \in Editors

\* How far the one change has come.
TellsHalf(c) ==
  /\ editor[c].at \in {"copy", "copying", "stage", "rm"} => Fits /\ described = disk["file"]
  /\ EditorAt(c, "copying") => editor[c].read \notin Editors
  /\ EditorAt(c, "mark") => (editor[c].op = "edit" <=> disk["file"] \in Editors)
  /\ editor[c].at \in {"stat", "describe", "refresh"} => Fits
  /\ EditorAt(c, "describe") => editor[c].read = disk["file"]
  /\ EditorAt(c, "refresh") => described = disk["file"]

\* While changes came one by one and none failed: the backup is not of an edit.
NodeFollows ==
  /\ ~met
  /\ rotation # "over" => \A c \in Editors : EditorAt(c, "idle")
  /\ \A c, d \in Editors : EditorAt(c, "idle") \/ EditorAt(d, "idle") \/ c = d
  /\ rotation = "sent" => disk["file"] = "orig"
  /\ Rotating => disk["file"] = NoBytes
  /\ disk["backup"] \notin Editors
  /\ ~Exists("backup") => disk["file"] \notin Editors
  /\ (\A c \in Editors : EditorAt(c, "idle")) => Fits /\ (~Rotating => described = disk["file"])
  /\ \A c \in Editors : TellsHalf(c)

VersionInv ==
  /\ VersionTyped
  /\ ~met => OriginalSafe
  /\ ~hurt => ThumbsFollow
  /\ ~overlap /\ ~hurt => NodeFollows

-----------------------------------------------------------------------------

LEMMA IdleIsSound == IdleEditor \in EditorType /\ EditorSound(IdleEditor) /\ IdleEditor.at = "idle"
BY DEF IdleEditor, EditorType, EditorSound, EditSteps, Bytes

\* A request goes on, with what it has read or with other bytes.
LEMMA EditorWritten ==
  ASSUME VersionTyped, NEW c \in Editors, NEW w \in EditorType, EditorSound(w),
         editor' = [editor EXCEPT ![c] = w]
  PROVE  /\ editor' \in [Editors -> EditorType] /\ \A d \in Editors : EditorSound(editor'[d])
         /\ editor'[c] = w /\ \A d \in Editors \ {c} : editor'[d] = editor[d]
<1>1. editor' \in [Editors -> EditorType] /\ editor'[c] = w /\ \A d \in Editors \ {c} : editor'[d] = editor[d]
  BY DEF VersionTyped
<1>2. \A d \in Editors : EditorSound(editor[d])
  BY DEF VersionTyped
<1>. HIDE DEF EditorSound
<1>. QED  BY <1>1, <1>2

LEMMA EditorGoes ==
  ASSUME VersionTyped, NEW c \in Editors, NEW at \in EditSteps, EditorGoto(c, at),
         editor[c].at # "idle", at \in AfterChange \cup {"stage"},
         at = "stage" => editor[c].op = "edit", at = "move" => editor[c].op = "revert"
  PROVE  /\ editor' \in [Editors -> EditorType] /\ \A d \in Editors : EditorSound(editor'[d])
         /\ editor'[c].at = at /\ editor'[c].op = editor[c].op /\ editor'[c].read = editor[c].read
         /\ \A d \in Editors \ {c} : editor'[d] = editor[d]
<1>1. PICK w : w = [editor[c] EXCEPT !.at = at]
  OBVIOUS
<1>2. editor[c] \in EditorType /\ EditorSound(editor[c])
  BY DEF VersionTyped
<1>3. w \in EditorType /\ w.at = at /\ w.op = editor[c].op /\ w.read = editor[c].read
  BY <1>1, <1>2 DEF EditorType
<1>4. EditorSound(w)
  BY <1>2, <1>3 DEF EditorSound, AfterChange, IdleEditor
<1>5. editor' = [editor EXCEPT ![c] = w]
  BY <1>1 DEF EditorGoto
<1>. QED  BY <1>3, <1>4, <1>5, EditorWritten

\* Bytes are written under a name.
LEMMA DiskWritten ==
  ASSUME VersionTyped, NEW n \in Files, NEW b \in Bytes, disk' = [disk EXCEPT ![n] = b]
  PROVE  /\ disk' \in [Files -> Bytes] /\ disk'[n] = b
         /\ \A m \in Files \ {n} : disk'[m] = disk[m]
BY DEF VersionTyped

\* A request fails: its copy, if it has begun one, went on.
LEMMA FailKeeps ==
  ASSUME VersionInv, NEW c \in Editors, editor[c].at # "copying", EditorEnds(c), hurt' = TRUE, OnDiskOnly,
         disk' = disk \/ (Exists("backup") /\ disk' = [disk EXCEPT !["file"] = disk["backup"]])
  PROVE  VersionInv'
<1>. USE DEF OnDiskOnly
<1>1. /\ editor' \in [Editors -> EditorType] /\ \A d \in Editors : EditorSound(editor'[d])
      /\ editor'[c] = IdleEditor /\ \A d \in Editors \ {c} : editor'[d] = editor[d]
  BY IdleIsSound, EditorWritten DEF EditorEnds, VersionInv
<1>2. disk' \in [Files -> Bytes] /\ \A n \in Files \ {"file"} : disk'[n] = disk[n]
  BY DEF VersionInv, VersionTyped, Files
<1>3. Exists("backup") \/ disk' = disk
  OBVIOUS
<1>4. VersionTyped'
  BY <1>1, <1>2 DEF VersionInv, VersionTyped, Files
<1>5. ASSUME ~met'
      PROVE  OriginalSafe'
  <2>1. OriginalSafe
    BY <1>5 DEF VersionInv
  <2>2. disk'["backup"] = disk["backup"] /\ disk'["kept"] = disk["kept"] /\ rotation' = rotation
    BY <1>2 DEF Files
  <2>3. IdleEditor.at = "idle" /\ IdleEditor.op = "none"
    BY DEF IdleEditor
  <2>4. \A d \in Editors : EditorAt(d, "copying")' => EditorAt(d, "copying") /\ editor'[d] = editor[d]
    BY <1>1, <2>3 DEF EditorAt
  <2>5. \A d \in Editors : EditorAt(d, "copying") => EditorAt(d, "copying")' /\ editor'[d] = editor[d]
    BY <1>1 DEF EditorAt
  <2>6. Backed => Backed'
    BY <2>2, <2>4, <2>5 DEF Backed, Exists
  <2>7. Unchanged => Unchanged'
    BY <1>3, <2>2 DEF Unchanged, Exists, Rotating
  <2>8. \A d \in Editors : editor'[d].op = "revert" =>
          ~Rotating' /\ \A e \in Editors \ {d} : EditorAt(e, "idle")'
    BY <1>1, <2>1, <2>2, <2>3 DEF OriginalSafe, EditorAt, Rotating
  <2>9. \A d \in Editors : editor'[d].at \in {"stage", "copying", "rm", "move"} => Exists("backup")'
    BY <1>1, <2>1, <2>2, <2>3 DEF OriginalSafe, Exists
  <2>10. \A d, e \in Editors : EditorAt(d, "copying")' /\ EditorAt(e, "copying")' => d = e
    BY <2>1, <2>4 DEF OriginalSafe
  <2>. QED  BY <2>1, <2>2, <2>6, <2>7, <2>8, <2>9, <2>10 DEF OriginalSafe
<1>. QED  BY <1>4, <1>5 DEF VersionInv

\* A request starts.
LEMMA StartKeeps ==
  ASSUME VersionInv, NEW c \in Editors, NEW op, NEW at, StartChange(c, op, at), Exists("file"),
         \/ op = "edit" /\ at = IF Exists("backup") THEN "stage" ELSE "copy"
         \/ op = "revert" /\ at = "rm" /\ Exists("backup")
  PROVE  VersionInv'
<1>1. /\ editor[c] = IdleEditor /\ editor[c].at = "idle" /\ editor[c].op = "none"
      /\ UNCHANGED <<disk, edited, described, rotation, thumbJobs, thumbWork, hurt>>
  BY DEF StartChange, IdleEditor
<1>2. PICK w : w = [op |-> op, at |-> at, read |-> NoBytes]
  OBVIOUS
<1>3. /\ w \in EditorType /\ EditorSound(w) /\ w.op = op /\ w.at = at
      /\ at \in {"stage", "copy", "rm"} /\ op \in {"edit", "revert"}
  BY <1>2 DEF EditorType, EditorSound, EditSteps, Bytes, IdleEditor
<1>4. /\ editor' \in [Editors -> EditorType] /\ \A d \in Editors : EditorSound(editor'[d])
      /\ editor'[c] = w /\ \A d \in Editors \ {c} : editor'[d] = editor[d]
  <2>1. editor' = [editor EXCEPT ![c] = w]
    BY <1>2 DEF StartChange
  <2>. QED  BY <1>3, <2>1, EditorWritten DEF VersionInv
<1>5. met' \in BOOLEAN /\ overlap' \in BOOLEAN
  BY Zenon DEF StartChange
<1>6. VersionTyped'
  BY <1>1, <1>4, <1>5 DEF VersionInv, VersionTyped, Files
<1>7. \A d \in Editors : d \in Changing <=> ~EditorAt(d, "idle")
  BY DEF Changing, EditorAt, VersionInv, VersionTyped, EditorSound
<1>8. ASSUME ~met'
      PROVE  OriginalSafe'
  <2>1. ~met /\ ~(Rotating /\ op = "revert") /\ \A d \in Changing : "revert" \notin {op, editor[d].op}
    BY <1>8, Zenon DEF StartChange
  <2>2. OriginalSafe
    BY <2>1 DEF VersionInv
  <2>3. \A d \in Editors : /\ EditorAt(d, "copying")' <=> EditorAt(d, "copying")
                           /\ EditorAt(d, "copying") => editor'[d] = editor[d]
    BY <1>1, <1>3, <1>4 DEF EditorAt
  <2>4. (Backed => Backed') /\ (Unchanged => Unchanged')
    BY <1>1, <2>3 DEF Backed, Unchanged, Exists, Rotating
  <2>5. ASSUME NEW d \in Editors, editor'[d].op = "revert"
        PROVE  ~Rotating' /\ \A e \in Editors \ {d} : EditorAt(e, "idle")'
    <3>1. CASE d = c
      BY <1>1, <1>3, <1>4, <1>7, <2>1, <2>5, <3>1 DEF EditorAt, Rotating
    <3>2. CASE d # c
      <4>1. editor[d].op = "revert" /\ ~EditorAt(d, "idle")
        BY <1>4, <2>5, <3>2 DEF VersionInv, VersionTyped, EditorSound, EditorAt
      <4>. QED  BY <1>7, <2>1, <4>1
    <3>. QED  BY <3>1, <3>2
  <2>6. \A d \in Editors : editor'[d].at \in {"stage", "copying", "rm", "move"} => Exists("backup")'
    BY <1>1, <1>3, <1>4, <2>2 DEF OriginalSafe, Exists
  <2>7. \A d, e \in Editors : EditorAt(d, "copying")' /\ EditorAt(e, "copying")' => d = e
    BY <2>2, <2>3 DEF OriginalSafe
  <2>. QED  BY <1>1, <2>2, <2>4, <2>5, <2>6, <2>7 DEF OriginalSafe
<1>9. ASSUME ~hurt'
      PROVE  ThumbsFollow'
  <2>1. ThumbsFollow
    BY <1>1, <1>9 DEF VersionInv
  <2>2. \A t \in Thumbnailers : Shown(t)' <=> Shown(t)
    BY <1>1 DEF Shown
  <2>3. \A d \in Editors : (EditorAt(d, "move") <=> EditorAt(d, "move")')
                        /\ (editor[d].at \in AfterChange <=> editor'[d].at \in AfterChange)
    BY <1>1, <1>3, <1>4 DEF EditorAt, AfterChange
  <2>. QED  BY <1>1, <2>1, <2>2, <2>3 DEF ThumbsFollow, Exists, Rotating
<1>10. ASSUME ~overlap', ~hurt'
       PROVE  NodeFollows'
  <2>1. ~overlap /\ Changing = {} /\ rotation = "over"
    BY <1>10, Zenon DEF StartChange
  <2>2. NodeFollows /\ \A d \in Editors : EditorAt(d, "idle")
    BY <1>1, <1>7, <1>10, <2>1 DEF VersionInv
  <2>3. \A d \in Editors \ {c} : EditorAt(d, "idle")'
    BY <1>4, <2>2 DEF EditorAt
  <2>4. Fits /\ Fits' /\ described = disk["file"]
    BY <1>1, <2>1, <2>2 DEF NodeFollows, Rotating, Fits
  <2>5. \A d \in Editors : TellsHalf(d)'
    BY <1>1, <1>3, <1>4, <2>3, <2>4 DEF TellsHalf, EditorAt
  <2>6. ~EditorAt(c, "idle")'
    BY <1>3, <1>4 DEF EditorAt
  <2>7. ~met /\ ~Rotating
    BY <2>1, <2>2 DEF NodeFollows, Rotating
  <2>8. ~met'
    BY <2>1, <2>7, Zenon DEF StartChange
  <2>. QED  BY <1>1, <2>1, <2>2, <2>3, <2>4, <2>5, <2>6, <2>8 DEF NodeFollows, Rotating, Exists
<1>. QED  BY <1>6, <1>8, <1>9, <1>10 DEF VersionInv

\* The copy begins: it is the only one, and it is of the bytes that were uploaded.
LEMMA CopyKeeps ==
  ASSUME VersionInv, NEW c \in Editors, copyFile(c)
  PROVE  VersionInv'
<1>1. CASE ~(MayCopy /\ Exists("file"))
  <2>1. EditorEnds(c) /\ hurt' = TRUE /\ disk' = disk /\ OnDiskOnly /\ editor[c].at # "copying"
    BY <1>1 DEF copyFile, EditorAt
  <2>. QED  BY <2>1, FailKeeps
<1>2. CASE MayCopy /\ Exists("file")
  <2>1. /\ editor[c].at = "copy" /\ ~Exists("backup") /\ Exists("file")
        /\ disk' = [disk EXCEPT !["backup"] = TornBytes]
        /\ editor' = [editor EXCEPT ![c].at = "copying", ![c].read = disk["file"]]
        /\ UNCHANGED <<edited, described, rotation, thumbJobs, thumbWork, edits, met, overlap, hurt>>
    BY <1>2 DEF copyFile, MayCopy, EditorAt, Put, OnDiskOnly
  <2>2. PICK w : w = [editor[c] EXCEPT !.at = "copying", !.read = disk["file"]]
    OBVIOUS
  <2>3. /\ w \in EditorType /\ EditorSound(w) /\ w.op = "edit" /\ w.at = "copying"
        /\ w.read = disk["file"] /\ editor[c].op = "edit"
    <3>1. editor[c] \in EditorType /\ EditorSound(editor[c]) /\ disk["file"] \in Bytes
      BY DEF VersionInv, VersionTyped, Files
    <3>2. /\ w \in EditorType /\ w.op = editor[c].op /\ w.at = "copying" /\ w.read = disk["file"]
      BY <2>2, <3>1 DEF EditorType, EditSteps
    <3>. QED  BY <2>1, <3>1, <3>2 DEF EditorSound, IdleEditor, Exists
  <2>4. /\ editor' \in [Editors -> EditorType] /\ \A d \in Editors : EditorSound(editor'[d])
        /\ editor'[c] = w /\ \A d \in Editors \ {c} : editor'[d] = editor[d]
    <3>1. editor' = [editor EXCEPT ![c] = w]
      BY <2>1, <2>2
    <3>. QED  BY <2>3, <3>1, EditorWritten DEF VersionInv
  <2>5. /\ disk' \in [Files -> Bytes] /\ disk'["backup"] = TornBytes
        /\ \A n \in Files \ {"backup"} : disk'[n] = disk[n]
    BY <2>1, DiskWritten DEF VersionInv, Files, Bytes
  <2>6. Exists("backup")'
    BY <2>5, VersionConstants DEF Exists
  <2>7. VersionTyped'
    BY <2>1, <2>4, <2>5 DEF VersionInv, VersionTyped, Files
  <2>8. ASSUME ~met'
        PROVE  OriginalSafe'
    <3>1. OriginalSafe
      BY <2>1, <2>8 DEF VersionInv
    <3>2. \A d \in Editors : editor[d].at # "copying"
      BY <2>1, <3>1 DEF OriginalSafe
    <3>3. \A d \in Editors : EditorAt(d, "copying")' <=> d = c
      BY <2>3, <2>4, <3>2 DEF EditorAt
    <3>4. disk["kept"] = "orig" \/ w.read = "orig"
      BY <2>1, <2>3, <3>1 DEF OriginalSafe, Backed, Unchanged
    <3>5. disk'["kept"] = "orig" \/ Backed'
      BY <2>4, <2>5, <2>6, <3>3, <3>4 DEF Backed, Files
    <3>6. ASSUME NEW d \in Editors, editor'[d].op = "revert"
          PROVE  ~Rotating' /\ \A e \in Editors \ {d} : EditorAt(e, "idle")'
      <4>1. d # c /\ editor[d].op = "revert"
        BY <2>3, <2>4, <3>6
      <4>2. EditorAt(c, "idle")
        BY <3>1, <4>1 DEF OriginalSafe
      <4>. QED  BY <2>1, <4>2 DEF EditorAt
    <3>. QED  BY <2>6, <3>3, <3>5, <3>6 DEF OriginalSafe
  <2>9. ASSUME ~hurt'
        PROVE  ThumbsFollow'
    <3>1. ThumbsFollow
      BY <2>1, <2>9 DEF VersionInv
    <3>2. \A t \in Thumbnailers : Shown(t)' <=> Shown(t)
      BY <2>1, <2>5 DEF Shown, Files, Thumbs
    <3>3. \A d \in Editors : (EditorAt(d, "move") <=> EditorAt(d, "move")')
                          /\ (editor[d].at \in AfterChange <=> editor'[d].at \in AfterChange)
      BY <2>1, <2>3, <2>4 DEF EditorAt, AfterChange
    <3>. QED  BY <2>1, <2>5, <3>1, <3>2, <3>3 DEF ThumbsFollow, Exists, Rotating, Files
  <2>10. ASSUME ~overlap', ~hurt'
         PROVE  NodeFollows'
    <3>1. NodeFollows
      BY <2>1, <2>10 DEF VersionInv
    <3>2. \A d \in Editors \ {c} : EditorAt(d, "idle") /\ EditorAt(d, "idle")'
      BY <2>1, <2>4, <3>1 DEF NodeFollows, EditorAt
    <3>3. Fits /\ described = disk["file"] /\ disk["file"] \notin Editors /\ rotation = "over"
      BY <2>1, <3>1 DEF NodeFollows, TellsHalf, EditorAt, VersionInv, VersionTyped
    <3>4. Fits' /\ described' = disk'["file"] /\ disk'["backup"] \notin Editors
      BY <2>1, <2>5, <3>3, VersionConstants DEF Fits, Files
    <3>5. \A d \in Editors : TellsHalf(d)'
      BY <2>3, <2>4, <3>2, <3>3, <3>4 DEF TellsHalf, EditorAt
    <3>6. ~EditorAt(c, "idle")'
      BY <2>3, <2>4 DEF EditorAt
    <3>7. ~met'
      BY <2>1, <3>1 DEF NodeFollows
    <3>. QED  BY <2>1, <2>6, <3>2, <3>3, <3>4, <3>5, <3>6, <3>7 DEF NodeFollows, Rotating
  <2>. QED  BY <2>7, <2>8, <2>9, <2>10 DEF VersionInv
<1>. QED  BY <1>1, <1>2

\* ... and ends.
LEMMA CopiedKeeps ==
  ASSUME VersionInv, NEW c \in Editors, copied(c)
  PROVE  VersionInv'
<1>1. /\ editor[c].at = "copying" /\ EditorGoto(c, "stage")
      /\ disk' = IF Exists("backup") THEN [disk EXCEPT !["backup"] = editor[c].read] ELSE disk
      /\ UNCHANGED <<edited, described, rotation, thumbJobs, thumbWork, edits, met, overlap, hurt>>
  BY DEF copied, EditorAt, OnDiskOnly
<1>2. editor[c].op = "edit" /\ editor[c].read # NoBytes /\ editor[c].read \in Bytes
  BY <1>1 DEF VersionInv, VersionTyped, EditorSound, EditorType
<1>3. /\ editor' \in [Editors -> EditorType] /\ \A d \in Editors : EditorSound(editor'[d])
      /\ editor'[c].at = "stage" /\ editor'[c].op = "edit"
      /\ \A d \in Editors \ {c} : editor'[d] = editor[d]
  BY <1>1, <1>2, EditorGoes DEF VersionInv, EditSteps
<1>4. /\ disk' \in [Files -> Bytes] /\ \A n \in Files \ {"backup"} : disk'[n] = disk[n]
      /\ disk'["backup"] = IF Exists("backup") THEN editor[c].read ELSE disk["backup"]
  BY <1>1, <1>2, DiskWritten DEF VersionInv, VersionTyped, Files
<1>5. Exists("backup")' <=> Exists("backup")
  BY <1>2, <1>4 DEF Exists
<1>6. VersionTyped'
  BY <1>1, <1>3, <1>4 DEF VersionInv, VersionTyped, Files
<1>7. ASSUME ~met'
      PROVE  OriginalSafe'
  <2>1. OriginalSafe
    BY <1>1, <1>7 DEF VersionInv
  <2>2. Exists("backup")
    BY <1>1, <2>1 DEF OriginalSafe
  <2>3. \A d \in Editors : ~EditorAt(d, "copying")'
    BY <1>1, <1>3, <2>1 DEF OriginalSafe, EditorAt
  <2>4. disk["kept"] = "orig" \/ editor[c].read = "orig"
    BY <1>1, <2>1, <2>2 DEF OriginalSafe, Backed, Unchanged, EditorAt
  <2>5. disk'["kept"] = "orig" \/ Backed'
    BY <1>4, <1>5, <2>2, <2>3, <2>4 DEF Backed, Files
  <2>6. ASSUME NEW d \in Editors, editor'[d].op = "revert"
        PROVE  ~Rotating' /\ \A e \in Editors \ {d} : EditorAt(e, "idle")'
    <3>1. d # c /\ editor[d].op = "revert"
      BY <1>3, <2>6
    <3>2. EditorAt(c, "idle")
      BY <2>1, <3>1 DEF OriginalSafe
    <3>. QED  BY <1>1, <3>2 DEF EditorAt
  <2>. QED  BY <1>5, <2>2, <2>3, <2>5, <2>6 DEF OriginalSafe
<1>8. ASSUME ~hurt'
      PROVE  ThumbsFollow'
  <2>1. ThumbsFollow
    BY <1>1, <1>8 DEF VersionInv
  <2>2. \A t \in Thumbnailers : Shown(t)' <=> Shown(t)
    BY <1>1, <1>4 DEF Shown, Files, Thumbs
  <2>3. \A d \in Editors : (EditorAt(d, "move") <=> EditorAt(d, "move")')
                        /\ (editor[d].at \in AfterChange <=> editor'[d].at \in AfterChange)
    BY <1>1, <1>3 DEF EditorAt, AfterChange
  <2>. QED  BY <1>1, <1>4, <2>1, <2>2, <2>3 DEF ThumbsFollow, Exists, Rotating, Files
<1>9. ASSUME ~overlap', ~hurt'
      PROVE  NodeFollows'
  <2>1. NodeFollows
    BY <1>1, <1>9 DEF VersionInv
  <2>2. \A d \in Editors \ {c} : EditorAt(d, "idle") /\ EditorAt(d, "idle")'
    BY <1>1, <1>3, <2>1 DEF NodeFollows, EditorAt
  <2>3. /\ Fits /\ described = disk["file"] /\ rotation = "over"
        /\ editor[c].read \notin Editors
    BY <1>1, <2>1 DEF NodeFollows, TellsHalf, EditorAt, VersionInv, VersionTyped
  <2>4. Fits' /\ described' = disk'["file"] /\ disk'["backup"] \notin Editors
    BY <1>1, <1>4, <2>1, <2>3 DEF Fits, Files, NodeFollows
  <2>5. \A d \in Editors : TellsHalf(d)'
    BY <1>3, <2>2, <2>4 DEF TellsHalf, EditorAt
  <2>6. ~EditorAt(c, "idle")'
    BY <1>3 DEF EditorAt
  <2>. QED  BY <1>1, <1>4, <1>5, <2>1, <2>2, <2>3, <2>4, <2>5, <2>6 DEF NodeFollows, Rotating, Files
<1>. QED  BY <1>6, <1>7, <1>8, <1>9 DEF VersionInv

\* The edited bytes take the place of the file, which has its backup by now.
LEMMA RenameKeeps ==
  ASSUME VersionInv, NEW c \in Editors, renameStaging(c)
  PROVE  VersionInv'
<1>1. /\ editor[c].at = "stage" /\ EditorGoto(c, "mark")
      /\ disk' = [disk EXCEPT !["file"] = c]
      /\ UNCHANGED <<edited, described, rotation, thumbJobs, thumbWork, edits, met, overlap, hurt>>
  BY DEF renameStaging, EditorAt, OnDiskOnly, Put
<1>2. editor[c].op = "edit"
  BY <1>1 DEF VersionInv, VersionTyped, EditorSound
<1>3. /\ editor' \in [Editors -> EditorType] /\ \A d \in Editors : EditorSound(editor'[d])
      /\ editor'[c].at = "mark" /\ editor'[c].op = "edit"
      /\ \A d \in Editors \ {c} : editor'[d] = editor[d]
  BY <1>1, <1>2, EditorGoes DEF VersionInv, EditSteps, AfterChange
<1>4. /\ disk' \in [Files -> Bytes] /\ \A n \in Files \ {"file"} : disk'[n] = disk[n]
      /\ disk'["file"] = c
  BY <1>1, DiskWritten DEF VersionInv, Files, Bytes
<1>5. (Exists("backup")' <=> Exists("backup")) /\ Exists("file")'
  BY <1>4, VersionConstants DEF Exists, Files
<1>6. VersionTyped'
  BY <1>1, <1>3, <1>4 DEF VersionInv, VersionTyped, Files
<1>7. ASSUME ~met'
      PROVE  OriginalSafe'
  <2>1. OriginalSafe
    BY <1>1, <1>7 DEF VersionInv
  <2>2. Exists("backup")
    BY <1>1, <2>1 DEF OriginalSafe
  <2>3. \A d \in Editors : /\ EditorAt(d, "copying")' <=> EditorAt(d, "copying")
                           /\ EditorAt(d, "copying") => editor'[d] = editor[d]
    BY <1>1, <1>3 DEF EditorAt
  <2>4. disk["kept"] = "orig" \/ Backed
    BY <2>1, <2>2 DEF OriginalSafe, Unchanged
  <2>5. disk'["kept"] = "orig" \/ Backed'
    BY <1>4, <1>5, <2>2, <2>3, <2>4 DEF Backed, Files
  <2>6. ASSUME NEW d \in Editors, editor'[d].op = "revert"
        PROVE  ~Rotating' /\ \A e \in Editors \ {d} : EditorAt(e, "idle")'
    <3>1. d # c /\ editor[d].op = "revert"
      BY <1>3, <2>6
    <3>2. EditorAt(c, "idle")
      BY <2>1, <3>1 DEF OriginalSafe
    <3>. QED  BY <1>1, <3>2 DEF EditorAt
  <2>7. \A d, e \in Editors : EditorAt(d, "copying")' /\ EditorAt(e, "copying")' => d = e
    BY <2>1, <2>3 DEF OriginalSafe
  <2>. QED  BY <1>5, <2>2, <2>5, <2>6, <2>7 DEF OriginalSafe
<1>8. ThumbsFollow'
  BY <1>3, <1>5 DEF ThumbsFollow, AfterChange
<1>9. ASSUME ~overlap', ~hurt'
      PROVE  NodeFollows'
  <2>1. NodeFollows
    BY <1>1, <1>9 DEF VersionInv
  <2>2. \A d \in Editors \ {c} : EditorAt(d, "idle") /\ EditorAt(d, "idle")'
    BY <1>1, <1>3, <2>1 DEF NodeFollows, EditorAt
  <2>3. rotation = "over"
    BY <1>1, <2>1 DEF NodeFollows, EditorAt, VersionInv, VersionTyped
  <2>4. Exists("backup")
    BY <1>1, <2>1 DEF NodeFollows, VersionInv, OriginalSafe
  <2>5. \A d \in Editors : TellsHalf(d)'
    BY <1>3, <1>4, <2>2 DEF TellsHalf, EditorAt
  <2>6. ~EditorAt(c, "idle")'
    BY <1>3 DEF EditorAt
  <2>. QED  BY <1>1, <1>4, <1>5, <2>1, <2>2, <2>3, <2>4, <2>5, <2>6 DEF NodeFollows, Rotating, Files
<1>. QED  BY <1>6, <1>7, <1>8, <1>9 DEF VersionInv

\* A revert takes the file away; the backup stays, for no other change is under way.
LEMMA RmKeeps ==
  ASSUME VersionInv, NEW c \in Editors, rmFile(c)
  PROVE  VersionInv'
<1>1. /\ editor[c].at = "rm" /\ EditorGoto(c, "move")
      /\ disk' = [disk EXCEPT !["file"] = NoBytes]
      /\ UNCHANGED <<edited, described, rotation, thumbJobs, thumbWork, edits, met, overlap, hurt>>
  BY DEF rmFile, EditorAt, OnDiskOnly, Put
<1>2. editor[c].op = "revert"
  BY <1>1 DEF VersionInv, VersionTyped, EditorSound
<1>3. /\ editor' \in [Editors -> EditorType] /\ \A d \in Editors : EditorSound(editor'[d])
      /\ editor'[c].at = "move" /\ editor'[c].op = "revert"
      /\ \A d \in Editors \ {c} : editor'[d] = editor[d]
  BY <1>1, <1>2, EditorGoes DEF VersionInv, EditSteps, AfterChange
<1>4. /\ disk' \in [Files -> Bytes] /\ \A n \in Files \ {"file"} : disk'[n] = disk[n]
      /\ disk'["file"] = NoBytes
  BY <1>1, DiskWritten DEF VersionInv, Files, Bytes
<1>5. Exists("backup")' <=> Exists("backup")
  BY <1>4 DEF Exists, Files
<1>6. VersionTyped'
  BY <1>1, <1>3, <1>4 DEF VersionInv, VersionTyped, Files
<1>7. ASSUME ~met'
      PROVE  OriginalSafe'
  <2>1. OriginalSafe
    BY <1>1, <1>7 DEF VersionInv
  <2>2. Exists("backup")
    BY <1>1, <2>1 DEF OriginalSafe
  <2>3. ~Rotating' /\ \A d \in Editors \ {c} : EditorAt(d, "idle")'
    BY <1>1, <1>2, <1>3, <2>1 DEF OriginalSafe, EditorAt, Rotating
  <2>4. \A d \in Editors : ~EditorAt(d, "copying") /\ ~EditorAt(d, "copying")'
    BY <1>1, <1>2, <1>3, <2>1 DEF OriginalSafe, EditorAt
  <2>5. disk["kept"] = "orig" \/ disk["backup"] = "orig"
    BY <2>1, <2>2, <2>4 DEF OriginalSafe, Unchanged, Backed
  <2>6. disk'["kept"] = "orig" \/ Backed'
    BY <1>4, <1>5, <2>2, <2>4, <2>5 DEF Backed, Files
  <2>7. \A d \in Editors : editor'[d].op = "revert" => d = c
    BY <1>6, <2>3 DEF VersionTyped, EditorSound, EditorAt
  <2>. QED  BY <1>5, <2>2, <2>3, <2>4, <2>6, <2>7 DEF OriginalSafe
<1>8. ThumbsFollow'
  BY <1>3 DEF ThumbsFollow, AfterChange, EditorAt
<1>9. ASSUME ~overlap', ~hurt'
      PROVE  NodeFollows'
  <2>1. NodeFollows
    BY <1>1, <1>9 DEF VersionInv
  <2>2. \A d \in Editors \ {c} : EditorAt(d, "idle") /\ EditorAt(d, "idle")'
    BY <1>1, <1>3, <2>1 DEF NodeFollows, EditorAt
  <2>3. rotation = "over"
    BY <1>1, <2>1 DEF NodeFollows, EditorAt, VersionInv, VersionTyped
  <2>5. \A d \in Editors : TellsHalf(d)'
    BY <1>3, <1>4, <2>2 DEF TellsHalf, EditorAt
  <2>6. ~EditorAt(c, "idle")'
    BY <1>3 DEF EditorAt
  <2>7. disk'["file"] \notin Editors /\ disk'["backup"] \notin Editors
    BY <1>4, <2>1, VersionConstants DEF NodeFollows, Files
  <2>. QED  BY <1>1, <1>4, <1>5, <2>1, <2>2, <2>3, <2>5, <2>6, <2>7 DEF NodeFollows, Rotating, Files
<1>. QED  BY <1>6, <1>7, <1>8, <1>9 DEF VersionInv

\* ... and puts the backup in its place.
LEMMA MoveKeeps ==
  ASSUME VersionInv, NEW c \in Editors, moveBackup(c)
  PROVE  VersionInv'
<1>1. CASE ~Exists("backup")
  <2>1. EditorEnds(c) /\ hurt' = TRUE /\ disk' = disk /\ OnDiskOnly /\ editor[c].at # "copying"
    BY <1>1 DEF moveBackup, EditorAt
  <2>. QED  BY <2>1, FailKeeps
<1>2. CASE Exists("backup")
  <2>1. /\ editor[c].at = "move" /\ EditorGoto(c, "mark")
        /\ disk' = [disk EXCEPT !["file"] = disk["backup"], !["backup"] = NoBytes]
        /\ UNCHANGED <<edited, described, rotation, thumbJobs, thumbWork, edits, met, overlap, hurt>>
    BY <1>2 DEF moveBackup, EditorAt, OnDiskOnly
  <2>2. editor[c].op = "revert"
    BY <2>1 DEF VersionInv, VersionTyped, EditorSound
  <2>3. /\ editor' \in [Editors -> EditorType] /\ \A d \in Editors : EditorSound(editor'[d])
        /\ editor'[c].at = "mark" /\ editor'[c].op = "revert"
        /\ \A d \in Editors \ {c} : editor'[d] = editor[d]
    BY <2>1, <2>2, EditorGoes DEF VersionInv, EditSteps, AfterChange
  <2>4. /\ disk' \in [Files -> Bytes] /\ \A n \in Files \ {"file", "backup"} : disk'[n] = disk[n]
        /\ disk'["file"] = disk["backup"] /\ disk'["backup"] = NoBytes
    <3>1. disk \in [Files -> Bytes] /\ NoBytes \in Bytes /\ {"file", "backup"} \subseteq Files
      BY DEF VersionInv, VersionTyped, Bytes, Files
    <3>. QED  BY <2>1, <3>1
  <2>5. ~Exists("backup")' /\ Exists("file")'
    BY <1>2, <2>4 DEF Exists
  <2>6. VersionTyped'
    BY <2>1, <2>3, <2>4 DEF VersionInv, VersionTyped, Files
  <2>7. ASSUME ~met'
        PROVE  OriginalSafe'
    <3>1. OriginalSafe
      BY <2>1, <2>7 DEF VersionInv
    <3>2. ~Rotating' /\ \A d \in Editors \ {c} : EditorAt(d, "idle")'
      BY <2>1, <2>2, <2>3, <3>1 DEF OriginalSafe, EditorAt, Rotating
    <3>3. \A d \in Editors : ~EditorAt(d, "copying") /\ ~EditorAt(d, "copying")'
      BY <2>1, <2>2, <2>3, <3>1 DEF OriginalSafe, EditorAt
    <3>4. disk["kept"] = "orig" \/ disk["backup"] = "orig"
      BY <1>2, <3>1, <3>3 DEF OriginalSafe, Unchanged, Backed
    <3>5. disk'["kept"] = "orig" \/ Unchanged'
      BY <2>4, <2>5, <3>2, <3>4 DEF Unchanged, Files
    <3>6. \A d \in Editors : editor'[d].op = "revert" => d = c
      BY <2>6, <3>2 DEF VersionTyped, EditorSound, EditorAt
    <3>7. \A d \in Editors : editor'[d].at \notin {"stage", "copying", "rm", "move"}
      BY <2>3, <3>2 DEF EditorAt
    <3>. QED  BY <3>2, <3>3, <3>5, <3>6, <3>7 DEF OriginalSafe
  <2>8. ThumbsFollow'
    BY <2>3, <2>5 DEF ThumbsFollow, AfterChange
  <2>9. ASSUME ~overlap', ~hurt'
        PROVE  NodeFollows'
    <3>1. NodeFollows
      BY <2>1, <2>9 DEF VersionInv
    <3>2. \A d \in Editors \ {c} : EditorAt(d, "idle") /\ EditorAt(d, "idle")'
      BY <2>1, <2>3, <3>1 DEF NodeFollows, EditorAt
    <3>3. rotation = "over"
      BY <2>1, <3>1 DEF NodeFollows, EditorAt, VersionInv, VersionTyped
    <3>4. disk'["file"] \notin Editors /\ disk'["backup"] \notin Editors
      BY <2>4, <3>1, VersionConstants DEF NodeFollows
    <3>5. \A d \in Editors : TellsHalf(d)'
      BY <2>3, <3>2, <3>4 DEF TellsHalf, EditorAt
    <3>6. ~EditorAt(c, "idle")'
      BY <2>3 DEF EditorAt
    <3>. QED  BY <2>1, <3>1, <3>2, <3>3, <3>4, <3>5, <3>6 DEF NodeFollows, Rotating
  <2>. QED  BY <2>6, <2>7, <2>8, <2>9 DEF VersionInv
<1>. QED  BY <1>1, <1>2

\* The steps after a change leave the bytes as they are.
LEMMA LaterKeeps ==
  ASSUME VersionInv, NEW c \in Editors, editor[c].at \in AfterChange \ {"move"},
         editor' \in [Editors -> EditorType], \A d \in Editors : EditorSound(editor'[d]),
         editor'[c].at \in {"stat", "describe", "refresh"}, editor'[c].op = editor[c].op,
         \A d \in Editors \ {c} : editor'[d] = editor[d],
         edited' \in BOOLEAN, described' \in Bytes,
         UNCHANGED <<disk, rotation, thumbJobs, thumbWork, met, overlap, hurt>>,
         TellsHalf(c) => TellsHalf(c)'
  PROVE  VersionInv'
<1>1. VersionTyped'
  BY DEF VersionInv, VersionTyped, Files
<1>2. \A d \in Editors : /\ EditorAt(d, "copying")' <=> EditorAt(d, "copying")
                         /\ EditorAt(d, "copying") => editor'[d] = editor[d]
                         /\ EditorAt(d, "idle")' <=> EditorAt(d, "idle")
                         /\ EditorAt(d, "move")' <=> EditorAt(d, "move")
                         /\ editor'[d].at \in AfterChange <=> editor[d].at \in AfterChange
                         /\ editor'[d].op = editor[d].op
                         /\ editor'[d].at \in {"stage", "copying", "rm", "move"} => editor'[d] = editor[d]
  BY DEF EditorAt, AfterChange
<1>3. ASSUME ~met'
      PROVE  OriginalSafe'
  <2>1. OriginalSafe
    BY <1>3 DEF VersionInv
  <2>2. (Backed => Backed') /\ (Unchanged => Unchanged')
    BY <1>2 DEF Backed, Unchanged, Exists, Rotating
  <2>. QED  BY <1>2, <2>1, <2>2 DEF OriginalSafe, Exists, Rotating
<1>4. ASSUME ~hurt'
      PROVE  ThumbsFollow'
  <2>1. ThumbsFollow
    BY <1>4 DEF VersionInv
  <2>2. \A t \in Thumbnailers : Shown(t)' <=> Shown(t)
    BY DEF Shown
  <2>. QED  BY <1>2, <2>1, <2>2 DEF ThumbsFollow, Exists, Rotating
<1>5. ASSUME ~overlap', ~hurt'
      PROVE  NodeFollows'
  <2>1. NodeFollows
    BY <1>5 DEF VersionInv
  <2>2. \A d \in Editors \ {c} : EditorAt(d, "idle") /\ EditorAt(d, "idle")'
    BY <1>2, <2>1 DEF NodeFollows, EditorAt, AfterChange
  <2>3. \A d \in Editors : TellsHalf(d)'
    BY <2>1, <2>2 DEF NodeFollows, TellsHalf, EditorAt
  <2>4. ~EditorAt(c, "idle")'
    BY DEF EditorAt
  <2>5. rotation = "over"
    BY <2>1 DEF NodeFollows, EditorAt, VersionInv, VersionTyped, AfterChange
  <2>. QED  BY <1>2, <2>1, <2>2, <2>3, <2>4, <2>5 DEF NodeFollows, Exists, Rotating
<1>. QED  BY <1>1, <1>3, <1>4, <1>5 DEF VersionInv

LEMMA MarkKeeps ==
  ASSUME VersionInv, NEW c \in Editors, mark(c)
  PROVE  VersionInv'
<1>1. /\ editor[c].at = "mark" /\ EditorGoto(c, "stat")
      /\ edited' = (editor[c].op = "edit")
      /\ UNCHANGED <<disk, described, rotation, thumbJobs, thumbWork, edits, met, overlap, hurt>>
  BY DEF mark, EditorAt, Marked
<1>2. /\ editor' \in [Editors -> EditorType] /\ \A d \in Editors : EditorSound(editor'[d])
      /\ editor'[c].at = "stat" /\ editor'[c].op = editor[c].op
      /\ \A d \in Editors \ {c} : editor'[d] = editor[d]
  BY <1>1, EditorGoes DEF VersionInv, EditSteps, AfterChange
<1>3. TellsHalf(c) => TellsHalf(c)'
  <2>1. edited' <=> editor[c].op = "edit"
    BY <1>1
  <2>. QED  BY <1>1, <1>2, <2>1 DEF TellsHalf, EditorAt, Fits
<1>4. edited' \in BOOLEAN /\ described' \in Bytes
  BY <1>1 DEF VersionInv, VersionTyped
<1>. QED  BY <1>1, <1>2, <1>3, <1>4, LaterKeeps DEF AfterChange

LEMMA RefreshMetadataKeeps ==
  ASSUME VersionInv, NEW c \in Editors, refreshMetadata(c)
  PROVE  VersionInv'
<1>1. CASE EditorAt(c, "stat") /\ Exists("file")
  <2>1. /\ editor[c].at = "stat" /\ editor' = [editor EXCEPT ![c].at = "describe", ![c].read = disk["file"]]
        /\ UNCHANGED <<disk, edited, described, rotation, thumbJobs, thumbWork, edits, met, overlap, hurt>>
    BY <1>1 DEF refreshMetadata, EditorAt, OnDiskOnly
  <2>2. PICK w : w = [editor[c] EXCEPT !.at = "describe", !.read = disk["file"]]
    OBVIOUS
  <2>3. /\ w \in EditorType /\ EditorSound(w) /\ w.op = editor[c].op /\ w.at = "describe"
        /\ w.read = disk["file"]
    <3>1. editor[c] \in EditorType /\ EditorSound(editor[c]) /\ disk["file"] \in Bytes
      BY DEF VersionInv, VersionTyped, Files
    <3>2. w \in EditorType /\ w.op = editor[c].op /\ w.at = "describe" /\ w.read = disk["file"]
      BY <2>2, <3>1 DEF EditorType, EditSteps
    <3>. QED  BY <2>1, <3>1, <3>2 DEF EditorSound, IdleEditor
  <2>4. /\ editor' \in [Editors -> EditorType] /\ \A d \in Editors : EditorSound(editor'[d])
        /\ editor'[c] = w /\ \A d \in Editors \ {c} : editor'[d] = editor[d]
    <3>1. editor' = [editor EXCEPT ![c] = w]
      BY <2>1, <2>2
    <3>. QED  BY <2>3, <3>1, EditorWritten DEF VersionInv
  <2>5. TellsHalf(c) => TellsHalf(c)'
    BY <2>1, <2>3, <2>4 DEF TellsHalf, EditorAt, Fits
  <2>6. edited' \in BOOLEAN /\ described' \in Bytes
    BY <2>1 DEF VersionInv, VersionTyped
  <2>. QED  BY <2>1, <2>3, <2>4, <2>5, <2>6, LaterKeeps DEF AfterChange
<1>2. CASE EditorAt(c, "stat") /\ ~Exists("file")
  <2>1. EditorEnds(c) /\ hurt' = TRUE /\ disk' = disk /\ OnDiskOnly /\ editor[c].at # "copying"
    BY <1>2 DEF refreshMetadata, EditorAt
  <2>. QED  BY <2>1, FailKeeps
<1>3. CASE EditorAt(c, "describe")
  <2>1. /\ editor[c].at = "describe" /\ EditorGoto(c, "refresh") /\ described' = editor[c].read
        /\ UNCHANGED <<disk, edited, rotation, thumbJobs, thumbWork, edits, met, overlap, hurt>>
    BY <1>3 DEF refreshMetadata, EditorAt
  <2>2. /\ editor' \in [Editors -> EditorType] /\ \A d \in Editors : EditorSound(editor'[d])
        /\ editor'[c].at = "refresh" /\ editor'[c].op = editor[c].op
        /\ \A d \in Editors \ {c} : editor'[d] = editor[d]
    BY <2>1, EditorGoes DEF VersionInv, EditSteps, AfterChange
  <2>3. TellsHalf(c) => TellsHalf(c)'
    BY <2>1, <2>2 DEF TellsHalf, EditorAt, Fits
  <2>4. edited' \in BOOLEAN /\ described' \in Bytes
    BY <2>1 DEF VersionInv, VersionTyped, EditorType
  <2>. QED  BY <2>1, <2>2, <2>3, <2>4, LaterKeeps DEF AfterChange
<1>. QED  BY <1>1, <1>2, <1>3 DEF refreshMetadata

\* The change is over: it leaves a job for the thumbnails, and tells of the bytes.
LEMMA RefreshKeeps ==
  ASSUME VersionInv, NEW c \in Editors, refresh(c)
  PROVE  VersionInv'
<1>1. /\ editor[c].at = "refresh" /\ EditorEnds(c) /\ thumbJobs' = thumbJobs + 1
      /\ UNCHANGED <<disk, edited, described, rotation, thumbWork, edits, met, overlap, hurt>>
  BY DEF refresh, EditorAt
<1>2. /\ editor' \in [Editors -> EditorType] /\ \A d \in Editors : EditorSound(editor'[d])
      /\ editor'[c] = IdleEditor /\ \A d \in Editors \ {c} : editor'[d] = editor[d]
  BY <1>1, IdleIsSound, EditorWritten DEF EditorEnds, VersionInv
<1>3. IdleEditor.at = "idle" /\ IdleEditor.op = "none"
  BY DEF IdleEditor
<1>4. VersionTyped'
  BY <1>1, <1>2 DEF VersionInv, VersionTyped, Files
<1>5. thumbJobs' # 0
  BY <1>1 DEF VersionInv, VersionTyped
<1>6. \A d \in Editors : /\ EditorAt(d, "copying")' <=> EditorAt(d, "copying")
                         /\ EditorAt(d, "copying") => editor'[d] = editor[d]
                         /\ EditorAt(d, "move")' <=> EditorAt(d, "move")
                         /\ EditorAt(d, "idle") => EditorAt(d, "idle")'
                         /\ editor'[d].op = "revert" => editor[d].op = "revert"
                         /\ editor'[d].at \in {"stage", "copying", "rm", "move"} => editor'[d] = editor[d]
  BY <1>1, <1>2, <1>3 DEF EditorAt
<1>7. ASSUME ~met'
      PROVE  OriginalSafe'
  <2>1. OriginalSafe
    BY <1>1, <1>7 DEF VersionInv
  <2>2. (Backed => Backed') /\ (Unchanged => Unchanged')
    BY <1>1, <1>6 DEF Backed, Unchanged, Exists, Rotating
  <2>. QED  BY <1>1, <1>6, <2>1, <2>2 DEF OriginalSafe, Exists, Rotating
<1>8. ASSUME ~hurt'
      PROVE  ThumbsFollow'
  <2>1. ThumbsFollow
    BY <1>1, <1>8 DEF VersionInv
  <2>. QED  BY <1>1, <1>5, <1>6, <2>1 DEF ThumbsFollow, Exists, Rotating
<1>9. ASSUME ~overlap', ~hurt'
      PROVE  NodeFollows'
  <2>1. NodeFollows
    BY <1>1, <1>9 DEF VersionInv
  <2>2. \A d \in Editors : EditorAt(d, "idle")'
    BY <1>1, <1>2, <1>3, <2>1 DEF NodeFollows, EditorAt
  <2>3. Fits' /\ described' = disk'["file"]
    BY <1>1, <2>1 DEF NodeFollows, TellsHalf, EditorAt, Fits
  <2>4. \A d \in Editors : TellsHalf(d)'
    BY <2>2 DEF TellsHalf, EditorAt
  <2>. QED  BY <1>1, <2>1, <2>2, <2>3, <2>4 DEF NodeFollows, Exists, Rotating
<1>. QED  BY <1>4, <1>7, <1>8, <1>9 DEF VersionInv

\* The image goes out to be rotated: its first bytes are kept, if it has them still.
LEMMA RotateKeeps ==
  ASSUME VersionInv, rotateRename
  PROVE  VersionInv'
<1>1. /\ rotation = "sent" /\ Exists("file") /\ rotation' = "placing"
      /\ disk' = [disk EXCEPT !["kept"] = disk["file"], !["file"] = NoBytes]
      /\ UNCHANGED <<edited, described, editor, thumbJobs, thumbWork, edits, hurt>>
  BY DEF rotateRename
<1>2. /\ disk' \in [Files -> Bytes] /\ \A n \in Files \ {"file", "kept"} : disk'[n] = disk[n]
      /\ disk'["kept"] = disk["file"] /\ disk'["file"] = NoBytes
  <2>1. disk \in [Files -> Bytes] /\ NoBytes \in Bytes /\ {"file", "kept"} \subseteq Files
    BY DEF VersionInv, VersionTyped, Bytes, Files
  <2>. QED  BY <1>1, <2>1
<1>3. met' \in BOOLEAN /\ overlap' \in BOOLEAN
  BY Zenon DEF rotateRename
<1>4. VersionTyped'
  BY <1>1, <1>2, <1>3 DEF VersionInv, VersionTyped
<1>5. \A d \in Editors : d \in Changing <=> ~EditorAt(d, "idle")
  BY DEF Changing, EditorAt, VersionInv, VersionTyped, EditorSound
<1>6. ASSUME ~met'
      PROVE  OriginalSafe'
  <2>1. ~met /\ \A c \in Changing : editor[c].op # "revert"
    BY <1>6, Zenon DEF rotateRename
  <2>2. OriginalSafe
    BY <2>1 DEF VersionInv
  <2>3. \A c \in Editors : editor[c].op # "revert"
    BY <1>5, <2>1 DEF VersionInv, VersionTyped, EditorSound, EditorAt
  <2>4. Backed \/ disk["file"] = "orig"
    BY <1>1, <2>2, VersionConstants DEF OriginalSafe, Unchanged, VersionInv, VersionTyped
  <2>5. Exists("backup")' <=> Exists("backup")
    BY <1>2 DEF Exists, Files
  <2>6. Backed => Backed'
    BY <1>1, <1>2 DEF Backed, Exists, Files, EditorAt
  <2>. QED  BY <1>1, <1>2, <2>2, <2>3, <2>4, <2>5, <2>6 DEF OriginalSafe, EditorAt
<1>7. ThumbsFollow'
  BY <1>1 DEF ThumbsFollow, Rotating
<1>8. ASSUME ~overlap', ~hurt'
      PROVE  NodeFollows'
  <2>1. ~overlap /\ Changing = {}
    BY <1>8, Zenon DEF rotateRename
  <2>2. NodeFollows /\ \A d \in Editors : EditorAt(d, "idle") /\ EditorAt(d, "idle")'
    BY <1>1, <1>5, <1>8, <2>1 DEF VersionInv, EditorAt
  <2>3. ~met'
    BY <2>1, <2>2 DEF NodeFollows, rotateRename
  <2>4. Fits' /\ disk'["backup"] \notin Editors /\ disk'["file"] \notin Editors
    BY <1>1, <1>2, <2>2, VersionConstants DEF NodeFollows, Fits, Files
  <2>5. \A d \in Editors : TellsHalf(d)'
    BY <2>2 DEF TellsHalf, EditorAt
  <2>. QED  BY <1>1, <1>2, <2>2, <2>3, <2>4, <2>5 DEF NodeFollows, Rotating
<1>. QED  BY <1>4, <1>6, <1>7, <1>8 DEF VersionInv

\* The rotated image takes the place of the file.
LEMMA HandleRotationKeeps ==
  ASSUME VersionInv, handleRotation
  PROVE  VersionInv'
<1>1. /\ rotation = "placing" /\ rotation' = "over" /\ Rotating /\ ~Rotating'
      /\ disk' = [disk EXCEPT !["file"] = "rotated"]
      /\ described' = "rotated" /\ thumbJobs' = thumbJobs + 1
      /\ UNCHANGED <<edited, editor, thumbWork, edits, met, overlap, hurt>>
  BY DEF handleRotation, Put, Rotating
<1>2. /\ disk' \in [Files -> Bytes] /\ \A n \in Files \ {"file"} : disk'[n] = disk[n]
      /\ disk'["file"] = "rotated"
  BY <1>1, DiskWritten DEF VersionInv, Files, Bytes
<1>3. thumbJobs' \in Nat /\ thumbJobs' # 0
  BY <1>1 DEF VersionInv, VersionTyped
<1>4. VersionTyped'
  BY <1>1, <1>2, <1>3 DEF VersionInv, VersionTyped, Bytes
<1>5. (Exists("backup")' <=> Exists("backup")) /\ Exists("file")'
  BY <1>2, VersionConstants DEF Exists, Files
<1>6. ASSUME ~met'
      PROVE  OriginalSafe'
  <2>1. OriginalSafe
    BY <1>1, <1>6 DEF VersionInv
  <2>2. disk["kept"] = "orig" \/ Backed
    BY <1>1, <2>1 DEF OriginalSafe, Unchanged
  <2>3. Backed => Backed'
    BY <1>1, <1>2 DEF Backed, Exists, Files, EditorAt
  <2>. QED  BY <1>1, <1>2, <1>5, <2>1, <2>2, <2>3 DEF OriginalSafe, EditorAt, Files
<1>7. ThumbsFollow'
  BY <1>3, <1>5 DEF ThumbsFollow
<1>8. ASSUME ~overlap', ~hurt'
      PROVE  NodeFollows'
  <2>1. NodeFollows
    BY <1>1, <1>8 DEF VersionInv
  <2>2. \A d \in Editors : EditorAt(d, "idle") /\ EditorAt(d, "idle")'
    BY <1>1, <2>1 DEF NodeFollows, EditorAt
  <2>3. Fits' /\ disk'["file"] \notin Editors /\ disk'["backup"] \notin Editors
    BY <1>1, <1>2, <2>1, <2>2, VersionConstants DEF NodeFollows, Fits, Files
  <2>4. \A d \in Editors : TellsHalf(d)'
    BY <2>2 DEF TellsHalf, EditorAt
  <2>. QED  BY <1>1, <1>2, <2>1, <2>2, <2>3, <2>4 DEF NodeFollows
<1>. QED  BY <1>4, <1>6, <1>7, <1>8 DEF VersionInv

\* Thumbnails are asked for, read and posted: the bytes of the image stay.
LEMMA ThumbStep ==
  ASSUME VersionInv, UNCHANGED <<edited, described, editor, rotation, met, overlap, hurt>>,
         disk' \in [Files -> Bytes], \A n \in {"file", "backup", "kept"} : disk'[n] = disk[n],
         thumbJobs' \in Nat, thumbWork' \in [Thumbnailers -> ThumbType],
         ~hurt /\ ThumbsFollow /\ thumbJobs' = 0 /\ rotation = "over" /\ (\E t : Thumbnailers = {t})
           /\ (\A c \in Editors : editor[c].at \notin AfterChange) =>
           \A t \in Thumbnailers : Shown(t)'
  PROVE  VersionInv'
<1>1. VersionTyped'
  BY DEF VersionInv, VersionTyped
<1>2. /\ Exists("backup")' <=> Exists("backup")
      /\ Exists("file")' <=> Exists("file")
      /\ Rotating' <=> Rotating
      /\ \A c \in Editors, at \in EditSteps : EditorAt(c, at)' <=> EditorAt(c, at)
  BY DEF Exists, Rotating, EditorAt
<1>3. OriginalSafe => OriginalSafe'
  <2>1. (Backed => Backed') /\ (Unchanged => Unchanged')
    BY <1>2 DEF Backed, Unchanged, Exists, EditorAt
  <2>. QED  BY <1>2, <2>1 DEF OriginalSafe, EditorAt
<1>4. ~hurt /\ ThumbsFollow => ThumbsFollow'
  BY <1>2 DEF ThumbsFollow, EditSteps
<1>5. NodeFollows => NodeFollows'
  <2>1. (Fits' <=> Fits) /\ \A c \in Editors : TellsHalf(c) => TellsHalf(c)'
    BY DEF Fits, TellsHalf, EditorAt
  <2>. QED  BY <1>2, <2>1 DEF NodeFollows, EditSteps
<1>. QED  BY <1>1, <1>3, <1>4, <1>5 DEF VersionInv

LEMMA RequestKeeps ==
  ASSUME VersionInv, request
  PROVE  VersionInv'
<1>1. /\ thumbJobs' = 1
      /\ UNCHANGED <<disk, edited, described, editor, rotation, thumbWork, edits, met, overlap, hurt>>
  BY DEF request
<1>2. disk' \in [Files -> Bytes] /\ thumbWork' \in [Thumbnailers -> ThumbType]
  BY <1>1 DEF VersionInv, VersionTyped
<1>. QED  BY <1>1, <1>2, ThumbStep

\* With one consumer what is read now is what will be shown.
LEMMA ReadForThumbKeeps ==
  ASSUME VersionInv, NEW t \in Thumbnailers, ReadForThumb(t)
  PROVE  VersionInv'
<1>1. /\ thumbJobs > 0 /\ thumbJobs' = thumbJobs - 1
      /\ UNCHANGED <<disk, edited, described, editor, rotation, edits, met, overlap, hurt>>
  BY DEF ReadForThumb
<1>2. PICK w : w = [of |-> disk["file"], left |-> Thumbs]
  OBVIOUS
<1>3. /\ w \in ThumbType /\ w.of = disk["file"] /\ w.left = Thumbs
      /\ thumbWork' = IF Exists("file") THEN [thumbWork EXCEPT ![t] = w] ELSE thumbWork
  BY <1>2 DEF VersionInv, VersionTyped, ThumbType, Files, Thumbs, ReadForThumb
<1>4. /\ disk' \in [Files -> Bytes] /\ thumbWork' \in [Thumbnailers -> ThumbType]
      /\ thumbJobs' \in Nat
  BY <1>1, <1>3 DEF VersionInv, VersionTyped
<1>5. ASSUME ~hurt, ThumbsFollow, rotation = "over", NEW u, Thumbnailers = {u},
             \A c \in Editors : editor[c].at \notin AfterChange
      PROVE  \A v \in Thumbnailers : Shown(v)'
  <2>1. Exists("file")
    BY <1>5 DEF ThumbsFollow, Rotating, EditorAt, AfterChange
  <2>2. thumbWork'[t] = w
    BY <1>3, <2>1 DEF VersionInv, VersionTyped
  <2>. QED  BY <1>1, <1>3, <1>5, <2>2 DEF Shown
<1>. QED  BY <1>1, <1>4, <1>5, ThumbStep

LEMMA HandleThumbnailKeeps ==
  ASSUME VersionInv, NEW t \in Thumbnailers, handleThumbnail(t)
  PROVE  VersionInv'
<1>1. PICK n \in thumbWork[t].left :
        /\ disk' = [disk EXCEPT ![n] = thumbWork[t].of]
        /\ thumbWork' = [thumbWork EXCEPT ![t].left = @ \ {n}]
        /\ UNCHANGED <<edited, described, editor, rotation, thumbJobs, edits, met, overlap, hurt>>
  BY DEF handleThumbnail, Put
<1>2. thumbWork[t] \in ThumbType /\ n \in Thumbs
  BY <1>1 DEF VersionInv, VersionTyped, ThumbType
<1>3. PICK w : w = [thumbWork[t] EXCEPT !.left = thumbWork[t].left \ {n}]
  OBVIOUS
<1>4. w \in ThumbType /\ w.of = thumbWork[t].of /\ w.left = thumbWork[t].left \ {n}
  BY <1>2, <1>3 DEF ThumbType
<1>5. thumbWork' = [thumbWork EXCEPT ![t] = w]
  BY <1>1, <1>3
<1>6. thumbWork' \in [Thumbnailers -> ThumbType] /\ thumbWork'[t] = w
  BY <1>4, <1>5 DEF VersionInv, VersionTyped
<1>7. /\ disk' \in [Files -> Bytes] /\ disk'[n] = thumbWork[t].of
      /\ \A m \in Files \ {n} : disk'[m] = disk[m]
  BY <1>1, <1>2, DiskWritten DEF VersionInv, Files, Thumbs, ThumbType
<1>8. \A m \in {"file", "backup", "kept"} : disk'[m] = disk[m]
  BY <1>2, <1>7 DEF Files, Thumbs
<1>9. ASSUME ThumbsFollow, thumbJobs' = 0, rotation = "over", NEW u, Thumbnailers = {u},
             \A c \in Editors : editor[c].at \notin AfterChange
      PROVE  \A v \in Thumbnailers : Shown(v)'
  <2>1. Shown(t)
    BY <1>1, <1>9 DEF ThumbsFollow
  <2>2. ASSUME NEW m \in Thumbs
        PROVE  IF m \in w.left THEN w.of = disk'["file"] ELSE disk'[m] = disk'["file"]
    <3>1. CASE m = n
      BY <1>1, <1>2, <1>4, <1>7, <1>8, <2>1, <3>1 DEF Shown
    <3>2. CASE m # n
      BY <1>2, <1>4, <1>7, <1>8, <2>1, <3>2 DEF Shown, Files, Thumbs
    <3>. QED  BY <3>1, <3>2
  <2>3. Shown(t)'
    BY <1>6, <2>2 DEF Shown
  <2>. QED  BY <1>9, <2>3
<1>10. thumbJobs' \in Nat
  BY <1>1 DEF VersionInv, VersionTyped
<1>. HIDE DEF handleThumbnail
<1>. QED  BY <1>1, <1>6, <1>7, <1>8, <1>9, <1>10, ThumbStep

\* The server stops; a copy that was under way stays torn.
LEMMA StopServerKeeps ==
  ASSUME VersionInv, StopServer
  PROVE  VersionInv'
<1>1. /\ hurt' = TRUE /\ editor' = [c \in Editors |-> IdleEditor]
      /\ UNCHANGED <<disk, edited, described, rotation, thumbJobs, thumbWork, edits, overlap>>
      /\ met' = (met \/ \E c \in Changing : EditorAt(c, "copying"))
  BY DEF StopServer
<1>2. met' \in BOOLEAN
  BY <1>1, Zenon
<1>3. VersionTyped'
  BY <1>1, <1>2, IdleIsSound DEF VersionInv, VersionTyped
<1>4. ASSUME ~met'
      PROVE  OriginalSafe'
  <2>1. ~met /\ \A c \in Changing : ~EditorAt(c, "copying")
    BY <1>1, <1>4, Zenon
  <2>2. \A c \in Editors : ~EditorAt(c, "copying")
    BY <2>1 DEF Changing, EditorAt, VersionInv, VersionTyped, EditorSound
  <2>3. OriginalSafe
    BY <2>1 DEF VersionInv
  <2>4. \A c \in Editors : editor'[c].at = "idle" /\ editor'[c].op = "none"
    BY <1>1 DEF IdleEditor
  <2>5. (Backed => Backed') /\ (Unchanged => Unchanged')
    BY <1>1, <2>2, <2>4 DEF Backed, Unchanged, Exists, Rotating, EditorAt
  <2>. QED  BY <1>1, <2>3, <2>4, <2>5 DEF OriginalSafe, EditorAt
<1>. QED  BY <1>1, <1>3, <1>4 DEF VersionInv

LEMMA VersionBegins ==
  ASSUME VersionInit
  PROVE  VersionInv
<1>1. \A c \in Editors : editor[c] = IdleEditor /\ editor[c].at = "idle" /\ editor[c].op = "none"
  BY DEF VersionInit, IdleEditor
<1>2. VersionTyped
  <2>1. /\ disk \in [Files -> Bytes] /\ disk["kept"] = NoBytes
    BY DEF VersionInit, Files, Bytes
  <2>2. thumbWork \in [Thumbnailers -> ThumbType]
    BY DEF VersionInit, ThumbType, Bytes
  <2>3. editor \in [Editors -> EditorType]
    BY IdleIsSound DEF VersionInit
  <2>. QED  BY <1>1, <2>1, <2>2, <2>3, IdleIsSound DEF VersionInit, VersionTyped, Bytes
<1>3. /\ disk["file"] = "orig" /\ disk["backup"] = NoBytes /\ rotation = "sent"
  BY DEF VersionInit, Files
<1>4. OriginalSafe
  BY <1>1, <1>3 DEF OriginalSafe, EditorAt, Unchanged, Exists, Rotating
<1>5. ThumbsFollow
  BY <1>3, VersionConstants DEF ThumbsFollow, Exists
<1>6. NodeFollows
  <2>1. Fits /\ described = disk["file"]
    BY <1>3, VersionConstants DEF VersionInit, Fits
  <2>2. \A c \in Editors : TellsHalf(c)
    BY <1>1 DEF TellsHalf, EditorAt
  <2>. QED  BY <1>1, <1>3, <2>1, <2>2, VersionConstants DEF VersionInit, NodeFollows, EditorAt, Rotating
<1>. QED  BY <1>2, <1>4, <1>5, <1>6 DEF VersionInv

LEMMA VersionStep ==
  ASSUME VersionInv, [VersionNext]_versionVars
  PROVE  VersionInv'
<1>1. ASSUME NEW c \in Editors, createVersion(c)
      PROVE  VersionInv'
  BY <1>1, StartKeeps DEF createVersion
<1>2. ASSUME NEW c \in Editors, revert(c)
      PROVE  VersionInv'
  BY <1>2, StartKeeps DEF revert
<1>3. ASSUME NEW c \in Editors, stagingFails(c)
      PROVE  VersionInv'
  BY <1>3, FailKeeps DEF stagingFails, EditorAt
<1>4. ASSUME NEW c \in Editors, RequestFails(c)
      PROVE  VersionInv'
  BY <1>4, FailKeeps DEF RequestFails
<1>5. CASE UNCHANGED versionVars
  <2>1. /\ UNCHANGED <<edited, described, editor, rotation, met, overlap, hurt>>
        /\ disk' = disk /\ thumbJobs' = thumbJobs /\ thumbWork' = thumbWork
    BY <1>5 DEF versionVars
  <2>2. /\ disk' \in [Files -> Bytes] /\ thumbWork' \in [Thumbnailers -> ThumbType]
        /\ thumbJobs' \in Nat
    BY <2>1 DEF VersionInv, VersionTyped
  <2>3. \A t \in Thumbnailers : Shown(t) => Shown(t)'
    BY <2>1 DEF Shown
  <2>. QED  BY <2>1, <2>2, <2>3, ThumbStep DEF ThumbsFollow
<1>. QED
  BY <1>1, <1>2, <1>3, <1>4, <1>5, CopyKeeps, CopiedKeeps, RenameKeeps, RmKeeps, MoveKeeps,
     MarkKeeps, RefreshMetadataKeeps, RefreshKeeps, RotateKeeps, HandleRotationKeeps,
     RequestKeeps, ReadForThumbKeeps, HandleThumbnailKeeps, StopServerKeeps DEF VersionNext

LEMMA VersionsHold == VersionSpec => []VersionInv
<1>1. VersionInit => VersionInv
  BY VersionBegins
<1>2. VersionInv /\ [VersionNext]_versionVars => VersionInv'
  BY VersionStep
<1>. QED  BY <1>1, <1>2, PTL DEF VersionSpec

\* The bytes that were uploaded can be found again, whatever edits run at once,
\* fail or are cut short, before and after the rotation (files.ts:196-197,
\* results.ts:155), unless a revert meets another change.
THEOREM OriginalsAreKept == VersionSpec => []OriginalRecoverable
<1>1. VersionInv => OriginalRecoverable
  BY DEF VersionInv, OriginalSafe, Backed, Unchanged, OriginalRecoverable
<1>. QED  BY <1>1, VersionsHold, PTL

\* With one consumer of thumbnail jobs what is shown of an image and told of it
\* follows its bytes (thumbnails.ts:61).
THEOREM ViewsCatchUp ==
  ASSUME NEW t, Thumbnailers = {t}
  PROVE  VersionSpec => []ViewsFollowBytes
<1>1. VersionInv => ViewsFollowBytes
  <2>. SUFFICES ASSUME VersionInv  PROVE ThumbnailsCatchUp /\ NodeTellsOfBytes
    BY DEF ViewsFollowBytes
  <2>1. Changing = {} => \A c \in Editors : editor[c].at = "idle"
    BY DEF Changing, VersionInv, VersionTyped, EditorSound
  <2>2. ThumbnailsCatchUp
    BY <2>1 DEF ThumbnailsCatchUp, VersionInv, ThumbsFollow, Shown, Thumbs, AfterChange, resolve, Exists
  <2>3. NodeTellsOfBytes
    BY <2>1 DEF NodeTellsOfBytes, VersionInv, NodeFollows, Fits, EditorAt
  <2>. QED  BY <2>2, <2>3
<1>. QED  BY <1>1, VersionsHold, PTL

-----------------------------------------------------------------------------
(* The members of a set.                                                   *)

SetTypes == {FileType[f] : f \in SetFiles} \cup {NoType}
HandlerSteps == {"idle", "part", "count", "store", "schedule"}
HandlerType == [at: HandlerSteps, file: SetFiles \cup {NoSetFile}, type: SetTypes, parts: Nat, read: Nat]
SyncType == [at: {"idle", "read", "write"}, items: SUBSET SetFiles]
PagesType == [at: {"idle", "count", "page", "over"}, skip: Nat, seen: SUBSET SetFiles,
              first: Nat, total: Nat, met: BOOLEAN]

HandlerSound(w) ==
  /\ w.at = "part" => w.parts > 0
  /\ w.at \in {"idle", "schedule"} => w.parts = 0
  /\ w.at = "schedule" => w.file \in SetFiles

SetTyped ==
  /\ members \subseteq SetFiles /\ gone \subseteq SetFiles
  /\ IsFiniteSet(members) /\ IsFiniteSet(gone)
  /\ members \subseteq came /\ uploaded \subseteq came
  /\ count \in Nat /\ timer \in BOOLEAN /\ manifest \subseteq SetFiles
  /\ sync \in [Syncs -> SyncType] /\ \A y \in Syncs : sync[y].at = "idle" <=> sync[y] = FreeSync
  /\ handler \in [Handlers -> HandlerType] /\ \A h \in Handlers : HandlerSound(handler[h])
  /\ pages \in PagesType

\* A handler that will have set.json scheduled.
Pending(h) == handler[h].at \in {"schedule", "count", "store"}
Promised == timer \/ \E h \in Handlers : Pending(h)

\* set.json, and a write of it that has read the members, lack a file only while
\* another write is promised.
ManifestInv ==
  /\ manifest \subseteq members \cup gone /\ \A y \in Syncs : sync[y].items \subseteq members \cup gone
  /\ ~twoSyncs =>
       /\ \A y, z \in Syncs : sync[y].at # "idle" /\ sync[z].at # "idle" => y = z
       /\ \A y \in Syncs : sync[y].at = "write" => Promised \/ members \subseteq sync[y].items
       /\ "manifest" \notin cut /\ (\A y \in Syncs : sync[y].at = "idle") =>
            Promised \/ members \subseteq manifest

Counts == {f \in members : FileType[f] # "error.json"}

\* A handler that will count the members.
Owed == \E h \in Handlers : \/ handler[h].at = "count"
                            \/ handler[h].at = "schedule" /\ FileType[handler[h].file] # "error.json"

\* The count, and one that is read and not stored yet, are too low only while
\* another is owed.
CountInv ==
  /\ count <= Cardinality(members \cup gone)
  /\ \A h \in Handlers : handler[h].at = "store" => handler[h].read <= Cardinality(members \cup gone)
  /\ ~twoCounts =>
       /\ \A g, h \in Handlers : handler[g].at = "store" /\ handler[h].at = "store" => g = h
       /\ \A h \in Handlers : handler[h].at = "store" =>
            Owed \/ handler[h].read >= Cardinality(Counts)
       /\ "count" \notin cut /\ (\A h \in Handlers : handler[h].at # "store") =>
            Owed \/ count >= Cardinality(Counts)

\* One upload at a time has the type of all that was uploaded.
UploadInv ==
  ~twoUploads =>
    /\ \A g, h \in Handlers : handler[g].parts > 0 /\ handler[h].parts > 0 => g = h
    /\ \A h \in Handlers, f \in uploaded \cap members :
         handler[h].parts > 0 => FileType[f] = handler[h].type
    /\ \A f, g \in uploaded \cap members : FileType[f] = FileType[g]

\* An upload that met the start of the batch aside, none is under way after it.
BatchInv ==
  /\ listed # {} /\ ~late =>
       /\ \A h \in Handlers : handler[h].parts = 0
       /\ uploaded \cap members \subseteq listed
  /\ locked => listed # {}

\* While files only come, what lies before the next page has been seen.
PagesInv ==
  gone = {} /\ pages.at # "idle" =>
    /\ stay \subseteq members
    /\ \A f \in stay : Place(members, f) < pages.skip => f \in pages.seen
    /\ pages.at = "over" /\ ~pages.met => stay \subseteq pages.seen

SetInv == SetTyped /\ ManifestInv /\ CountInv /\ UploadInv /\ BatchInv /\ PagesInv

-----------------------------------------------------------------------------

LEMMA HandlerWritten ==
  ASSUME SetTyped, NEW h \in Handlers, NEW w \in HandlerType, HandlerSound(w),
         handler' = [handler EXCEPT ![h] = w]
  PROVE  /\ handler' \in [Handlers -> HandlerType] /\ \A g \in Handlers : HandlerSound(handler'[g])
         /\ handler'[h] = w /\ \A g \in Handlers \ {h} : handler'[g] = handler[g]
<1>1. handler' \in [Handlers -> HandlerType] /\ handler'[h] = w /\ \A g \in Handlers \ {h} : handler'[g] = handler[g]
  BY DEF SetTyped
<1>2. \A g \in Handlers : HandlerSound(handler[g])
  BY DEF SetTyped
<1>. HIDE DEF HandlerSound
<1>. QED  BY <1>1, <1>2

LEMMA FreeIsSound ==
  /\ FreeHandler \in HandlerType /\ HandlerSound(FreeHandler)
  /\ FreeHandler.at = "idle" /\ FreeHandler.parts = 0
BY DEF FreeHandler, HandlerType, HandlerSound, HandlerSteps, SetTypes

\* A step that leaves set.json alone: a new member needs a promise.
LEMMA ManifestStep ==
  ASSUME ManifestInv, UNCHANGED <<sync, manifest, twoSyncs>>,
         "manifest" \in cut <=> "manifest" \in cut',
         members \cup gone \subseteq members' \cup gone',
         Promised \/ ~(members' \subseteq members) => Promised'
  PROVE  ManifestInv'
BY DEF ManifestInv

\* A step that counts nothing: a new file that counts needs a count to come.
LEMMA CountStep ==
  ASSUME SetTyped, SetTyped', CountInv, UNCHANGED <<count, twoCounts>>,
         "count" \in cut <=> "count" \in cut',
         members \cup gone \subseteq members' \cup gone',
         \A h \in Handlers : handler'[h].at = "store" <=> handler[h].at = "store",
         \A h \in Handlers : handler[h].at = "store" => handler'[h].read = handler[h].read,
         Owed \/ ~(members' \subseteq members \cup {f \in SetFiles : FileType[f] = "error.json"}) => Owed'
  PROVE  CountInv'
<1>1. IsFiniteSet(members' \cup gone')
  BY FS_Union DEF SetTyped
<1>2. /\ Cardinality(members \cup gone) \in Nat /\ Cardinality(members' \cup gone') \in Nat
      /\ Cardinality(members \cup gone) <= Cardinality(members' \cup gone')
  BY <1>1, SizesGrow
<1>3. count \in Nat /\ \A h \in Handlers : handler[h].read \in Nat
  BY DEF SetTyped, HandlerType
<1>4. Owed' \/ Counts' \subseteq Counts
  BY DEF Counts, SetTyped
<1>5. IsFiniteSet(Counts) /\ IsFiniteSet(Counts')
  BY SizesGrow DEF Counts, SetTyped
<1>6. /\ Cardinality(Counts) \in Nat /\ Cardinality(Counts') \in Nat
      /\ Owed' \/ Cardinality(Counts') <= Cardinality(Counts)
  BY <1>4, <1>5, SizesGrow
<1>7. ASSUME ~twoCounts
      PROVE  /\ \A h \in Handlers : handler'[h].at = "store" =>
                  Owed' \/ handler'[h].read >= Cardinality(Counts')
             /\ "count" \notin cut' /\ (\A h \in Handlers : handler'[h].at # "store") =>
                  Owed' \/ count >= Cardinality(Counts')
  <2>1. ASSUME NEW h \in Handlers, handler'[h].at = "store"
        PROVE  Owed' \/ handler'[h].read >= Cardinality(Counts')
    <3>1. handler'[h].read = handler[h].read /\ handler[h].read \in Nat
      BY <1>3, <2>1
    <3>2. Owed \/ handler[h].read >= Cardinality(Counts)
      BY <1>7, <2>1 DEF CountInv
    <3>. QED  BY <1>6, <3>1, <3>2
  <2>2. ASSUME "count" \notin cut', \A h \in Handlers : handler'[h].at # "store"
        PROVE  Owed' \/ count >= Cardinality(Counts')
    <3>1. Owed \/ count >= Cardinality(Counts)
      BY <1>7, <2>2 DEF CountInv
    <3>. QED  BY <1>3, <1>6, <3>1
  <2>. QED  BY <2>1, <2>2
<1>8. /\ count <= Cardinality(members' \cup gone')
      /\ \A h \in Handlers : handler'[h].at = "store" => handler'[h].read <= Cardinality(members' \cup gone')
  <2>1. count <= Cardinality(members \cup gone)
    BY DEF CountInv
  <2>2. ASSUME NEW h \in Handlers, handler'[h].at = "store"
        PROVE  handler'[h].read <= Cardinality(members' \cup gone')
    <3>1. handler[h].read <= Cardinality(members \cup gone) /\ handler'[h].read = handler[h].read
      BY <2>2 DEF CountInv
    <3>. QED  BY <1>2, <1>3, <3>1
  <2>. QED  BY <1>2, <1>3, <2>1, <2>2
<1>. QED  BY <1>7, <1>8 DEF CountInv

\* A step that is no part of an upload.
LEMMA UploadStep ==
  ASSUME SetTyped', UploadInv, BatchInv, UNCHANGED <<uploaded, twoUploads, listed, locked, late>>,
         uploaded \cap members' \subseteq members,
         \A h \in Handlers : handler'[h].parts > 0 =>
           handler[h].parts > 0 /\ handler'[h].type = handler[h].type
  PROVE  UploadInv' /\ BatchInv'
<1>1. UploadInv'
  BY DEF UploadInv
<1>2. \A h \in Handlers : handler'[h].parts \in Nat
  BY DEF SetTyped, HandlerType
<1>3. BatchInv'
  BY <1>2 DEF BatchInv
<1>. QED  BY <1>1, <1>3

\* A step that is none of the walk over the pages.
LEMMA PagesStep ==
  ASSUME SetTyped, SetTyped', PagesInv, UNCHANGED <<pages, stay>>, gone \subseteq gone',
         gone' = {} => members \subseteq members'
  PROVE  PagesInv'
<1>. SUFFICES ASSUME gone' = {}, pages.at # "idle"
              PROVE  /\ stay \subseteq members'
                     /\ \A f \in stay : Place(members', f) < pages.skip => f \in pages.seen
                     /\ pages.at = "over" /\ ~pages.met => stay \subseteq pages.seen
  BY DEF PagesInv
<1>1. /\ stay \subseteq members
      /\ \A f \in stay : Place(members, f) < pages.skip => f \in pages.seen
      /\ pages.at = "over" /\ ~pages.met => stay \subseteq pages.seen
  BY DEF PagesInv
<1>2. ASSUME NEW f \in stay
      PROVE  Place(members, f) \in Nat /\ Place(members', f) \in Nat /\ Place(members, f) <= Place(members', f)
  <2>1. {g \in members : g < f} \subseteq {g \in members' : g < f}
    OBVIOUS
  <2>2. IsFiniteSet({g \in members' : g < f})
    BY SizesGrow DEF SetTyped
  <2>. QED  BY <2>1, <2>2, SizesGrow DEF Place
<1>3. pages.skip \in Nat
  BY DEF SetTyped, PagesType
<1>. QED  BY <1>1, <1>2, <1>3

-----------------------------------------------------------------------------

\* An upload begins: it has the type of the members, if they have one.
LEMMA UploadKeeps ==
  ASSUME SetInv, NEW h \in Handlers, upload(h)
  PROVE  SetInv'
<1>1. PICK n \in 1 .. MaxParts :
        handler' = [handler EXCEPT ![h] = [FreeHandler EXCEPT !.at = "part", !.parts = n,
          !.type = IF Types = {} THEN NoType ELSE CHOOSE t \in Types : TRUE]]
  BY DEF upload
<1>2. /\ ~locked /\ Cardinality(Types) <= 1
      /\ twoUploads' = (twoUploads \/ Uploading # {}) /\ late' = (late \/ (listed # {} /\ ~locked))
      /\ UNCHANGED <<members, count, timer, sync, manifest, listed, locked, pages, came, gone,
                     uploaded, stay, twoCounts, twoSyncs, cut>>
  BY DEF upload, OpenToUploads
<1>3. PICK t \in SetTypes : t = IF Types = {} THEN NoType ELSE CHOOSE x \in Types : TRUE
  <2>1. Types \subseteq SetTypes /\ NoType \in SetTypes
    BY DEF SetTypes, Types, SetInv, SetTyped
  <2>2. Types # {} => (CHOOSE x \in Types : TRUE) \in Types
    OBVIOUS
  <2>. QED  BY <2>1, <2>2
<1>4. PICK w : w = [FreeHandler EXCEPT !.at = "part", !.parts = n, !.type = t]
  OBVIOUS
<1>5. w \in HandlerType /\ HandlerSound(w) /\ w.at = "part" /\ w.type = t
  <2>1. n \in Nat /\ n > 0
    BY SetConstants
  <2>2. w = [at |-> "part", file |-> NoSetFile, type |-> t, parts |-> n, read |-> 0]
    BY <1>4 DEF FreeHandler
  <2>. QED  BY <2>1, <2>2 DEF HandlerType, HandlerSound, HandlerSteps
<1>6. /\ handler' \in [Handlers -> HandlerType] /\ \A g \in Handlers : HandlerSound(handler'[g])
      /\ handler'[h] = w /\ \A g \in Handlers \ {h} : handler'[g] = handler[g]
  <2>1. handler' = [handler EXCEPT ![h] = w]
    BY <1>1, <1>3, <1>4
  <2>. QED  BY <1>5, <2>1, HandlerWritten DEF SetInv
<1>7. handler[h].at = "idle"
  BY DEF upload, HandlerAt
<1>8. SetTyped'
  BY <1>2, <1>6 DEF SetInv, SetTyped
<1>9. ManifestInv'
  <2>1. Promised => Promised'
    BY <1>2, <1>5, <1>6, <1>7 DEF Promised, Pending
  <2>. QED  BY <1>2, <2>1, ManifestStep DEF SetInv
<1>10. CountInv'
  <2>1. Owed => Owed'
    BY <1>5, <1>6, <1>7 DEF Owed
  <2>2. \A g \in Handlers : /\ handler'[g].at = "store" <=> handler[g].at = "store"
                            /\ handler[g].at = "store" => handler'[g].read = handler[g].read
    BY <1>5, <1>6, <1>7
  <2>. QED  BY <1>2, <1>8, <2>1, <2>2, CountStep DEF SetInv
<1>11. UploadInv'
  <2>. SUFFICES ASSUME ~twoUploads'  PROVE UploadInv'
    BY DEF UploadInv
  <2>1. ~twoUploads /\ Uploading = {}
    BY <1>2
  <2>2. \A g \in Handlers : ~(handler[g].parts > 0)
    BY <2>1 DEF Uploading
  <2>3. IsFiniteSet(Types)
    <3>1. [f \in members |-> FileType[f]] \in Surjection(members, Types)
      BY DEF Surjection, Types
    <3>. QED  BY <3>1, FS_Surjection DEF SetInv, SetTyped
  <2>4. \A f, g \in members : FileType[f] = FileType[g]
    <3>1. Cardinality(Types) = 0 \/ Cardinality(Types) = 1
      BY <1>2, <2>3, FS_CardinalityType
    <3>2. Types = {} \/ \E x : Types = {x}
      BY <2>3, <3>1, FS_EmptySet, FS_Singleton
    <3>. QED  BY <3>2 DEF Types
  <2>5. \A f \in members : FileType[f] = t
    BY <1>3, <2>4 DEF Types
  <2>. QED  BY <1>2, <1>5, <1>6, <2>2, <2>4, <2>5 DEF UploadInv
<1>12. BatchInv'
  BY <1>2 DEF SetInv, BatchInv
<1>13. PagesInv'
  BY <1>2, <1>8, PagesStep DEF SetInv
<1>. QED  BY <1>8, <1>9, <1>10, <1>11, <1>12, <1>13 DEF SetInv

\* A file of the upload comes, of its type.
LEMMA UploadOneKeeps ==
  ASSUME SetInv, NEW h \in Handlers, uploadOne(h)
  PROVE  SetInv'
<1>1. PICK f \in SetFiles \ came :
        /\ FileType[f] # "error.json" /\ handler[h].type \in {NoType, FileType[f]}
        /\ Comes(f) /\ uploaded' = uploaded \cup {f}
        /\ handler' = [handler EXCEPT ![h].at = "count", ![h].file = f, ![h].type = TypeSet(h, f)]
  BY DEF uploadOne
<1>2. /\ handler[h].at = "part" /\ members' = members \cup {f} /\ came' = came \cup {f}
      /\ UNCHANGED <<count, timer, sync, manifest, listed, locked, pages, gone, late, stay,
                     twoUploads, twoCounts, twoSyncs, cut>>
  BY <1>1 DEF uploadOne, HandlerAt, Comes
<1>3. handler[h] \in HandlerType /\ handler[h].parts > 0
  BY <1>2 DEF SetInv, SetTyped, HandlerSound
<1>4. PICK w : w = [handler[h] EXCEPT !.at = "count", !.file = f, !.type = FileType[f]]
  OBVIOUS
<1>5. /\ w \in HandlerType /\ HandlerSound(w) /\ w.at = "count" /\ w.type = FileType[f]
      /\ w.parts = handler[h].parts
  BY <1>3, <1>4 DEF HandlerType, HandlerSound, HandlerSteps, SetTypes
<1>6. /\ handler' \in [Handlers -> HandlerType] /\ \A g \in Handlers : HandlerSound(handler'[g])
      /\ handler'[h] = w /\ \A g \in Handlers \ {h} : handler'[g] = handler[g]
  <2>1. handler' = [handler EXCEPT ![h] = w]
    BY <1>1, <1>4 DEF TypeSet
  <2>. QED  BY <1>5, <2>1, HandlerWritten DEF SetInv
<1>7. SetTyped'
  BY <1>1, <1>2, <1>6, FS_AddElement DEF SetInv, SetTyped
<1>8. ManifestInv'
  <2>1. Promised'
    BY <1>5, <1>6 DEF Promised, Pending
  <2>. QED  BY <1>2, <2>1, ManifestStep DEF SetInv
<1>9. CountInv'
  <2>1. Owed'
    BY <1>5, <1>6 DEF Owed
  <2>2. \A g \in Handlers : /\ handler'[g].at = "store" <=> handler[g].at = "store"
                            /\ handler[g].at = "store" => handler'[g].read = handler[g].read
    BY <1>2, <1>5, <1>6
  <2>. QED  BY <1>2, <1>7, <2>1, <2>2, CountStep DEF SetInv
<1>10. UploadInv'
  <2>. SUFFICES ASSUME ~twoUploads  PROVE UploadInv'
    BY <1>2 DEF UploadInv
  <2>1. \A g \in Handlers \ {h} : ~(handler[g].parts > 0)
    BY <1>3 DEF SetInv, UploadInv
  <2>2. \A g \in uploaded \cap members : FileType[g] = FileType[f]
    <3>. TAKE g \in uploaded \cap members
    <3>1. FileType[g] = handler[h].type /\ g \in SetFiles
      BY <1>3 DEF SetInv, UploadInv, SetTyped
    <3>2. FileType[g] # NoType
      BY <3>1, SetConstants
    <3>. QED  BY <1>1, <3>1, <3>2
  <2>3. \A g \in uploaded' \cap members' : FileType[g] = FileType[f]
    BY <1>1, <1>2, <2>2 DEF SetInv, SetTyped
  <2>. QED  BY <1>5, <1>6, <2>1, <2>3 DEF UploadInv
<1>11. BatchInv'
  BY <1>2, <1>3 DEF SetInv, BatchInv
<1>12. PagesInv'
  BY <1>2, <1>7, PagesStep DEF SetInv
<1>. QED  BY <1>7, <1>8, <1>9, <1>10, <1>11, <1>12 DEF SetInv

\* Nothing of a refused part is left but that it is over.
LEMMA PartRefusedKeeps ==
  ASSUME SetInv, NEW h \in Handlers, partRefused(h)
  PROVE  SetInv'
<1>1. /\ handler[h].at = "part"
      /\ UNCHANGED <<members, count, timer, sync, manifest, listed, locked, pages, came, gone,
                     uploaded, late, stay, twoUploads, twoCounts, twoSyncs, cut>>
  BY DEF partRefused, HandlerAt, setHistory
<1>2. handler[h] \in HandlerType /\ handler[h].parts > 0
  BY <1>1 DEF SetInv, SetTyped, HandlerSound
<1>3. PICK rest : rest = [handler[h] EXCEPT !.parts = handler[h].parts - 1]
  OBVIOUS
<1>4. /\ rest \in HandlerType /\ rest.at = "part" /\ rest.type = handler[h].type
      /\ rest.parts = handler[h].parts - 1
  BY <1>1, <1>2, <1>3 DEF HandlerType
<1>5. PICK w : w = IF handler[h].parts = 1 THEN FreeHandler ELSE rest
  OBVIOUS
<1>6. /\ w \in HandlerType /\ HandlerSound(w) /\ w.at \in {"idle", "part"}
      /\ w.parts > 0 => w.type = handler[h].type
  <2>1. handler[h].parts \in Nat
    BY <1>2 DEF HandlerType
  <2>. QED  BY <1>2, <1>4, <1>5, <2>1, FreeIsSound DEF HandlerSound
<1>7. /\ handler' \in [Handlers -> HandlerType] /\ \A g \in Handlers : HandlerSound(handler'[g])
      /\ handler'[h] = w /\ \A g \in Handlers \ {h} : handler'[g] = handler[g]
  <2>1. handler' = [handler EXCEPT ![h] =
                      IF handler[h].parts = 1 THEN FreeHandler
                      ELSE [handler[h] EXCEPT !.parts = handler[h].parts - 1]]
    BY DEF partRefused
  <2>2. handler' = [handler EXCEPT ![h] = w]
    BY <1>3, <1>5, <2>1
  <2>. QED  BY <1>6, <2>2, HandlerWritten DEF SetInv
<1>8. SetTyped'
  BY <1>1, <1>7 DEF SetInv, SetTyped
<1>9. ManifestInv'
  <2>1. Promised => Promised'
    BY <1>1, <1>7 DEF Promised, Pending
  <2>. QED  BY <1>1, <2>1, ManifestStep DEF SetInv
<1>10. CountInv'
  <2>1. Owed => Owed'
    BY <1>1, <1>7 DEF Owed
  <2>2. \A g \in Handlers : /\ handler'[g].at = "store" <=> handler[g].at = "store"
                            /\ handler[g].at = "store" => handler'[g].read = handler[g].read
    BY <1>1, <1>6, <1>7
  <2>. QED  BY <1>1, <1>8, <2>1, <2>2, CountStep DEF SetInv
<1>11. UploadInv' /\ BatchInv'
  <2>1. \A g \in Handlers : handler'[g].parts > 0 =>
          handler[g].parts > 0 /\ handler'[g].type = handler[g].type
    BY <1>2, <1>6, <1>7
  <2>. QED  BY <1>1, <1>8, <2>1, UploadStep DEF SetInv
<1>12. PagesInv'
  BY <1>1, <1>8, PagesStep DEF SetInv
<1>. QED  BY <1>8, <1>9, <1>10, <1>11, <1>12 DEF SetInv

\* An output or an error comes: its handler has set.json scheduled, and an output
\* counted.
LEMMA OutputKeeps ==
  ASSUME SetInv, NEW h \in Handlers, NEW f \in SetFiles, createProcessFile(h, f) \/ createErrorNode(h, f)
  PROVE  SetInv'
<1>1. /\ handler[h].at = "idle" /\ f \notin came /\ members' = members \cup {f} /\ came' = came \cup {f}
      /\ handler' = [handler EXCEPT ![h] = [FreeHandler EXCEPT !.at = "schedule", !.file = f]]
      /\ UNCHANGED <<count, timer, sync, manifest, listed, locked, pages, gone,
                     uploaded, late, stay, twoUploads, twoCounts, twoSyncs, cut>>
  BY DEF createProcessFile, createErrorNode, HandlerAt, setHistory, Comes
<1>2. PICK w : w = [FreeHandler EXCEPT !.at = "schedule", !.file = f]
  OBVIOUS
<1>3. w \in HandlerType /\ HandlerSound(w) /\ w.at = "schedule" /\ w.parts = 0 /\ w.file = f
  BY <1>2 DEF FreeHandler, HandlerType, HandlerSound, HandlerSteps, SetTypes
<1>4. /\ handler' \in [Handlers -> HandlerType] /\ \A g \in Handlers : HandlerSound(handler'[g])
      /\ handler'[h] = w /\ \A g \in Handlers \ {h} : handler'[g] = handler[g]
  BY <1>1, <1>2, <1>3, HandlerWritten DEF SetInv
<1>5. SetTyped'
  BY <1>1, <1>4, FS_AddElement DEF SetInv, SetTyped
<1>6. ManifestInv'
  <2>1. Promised'
    BY <1>3, <1>4 DEF Promised, Pending
  <2>. QED  BY <1>1, <2>1, ManifestStep DEF SetInv
<1>7. CountInv'
  <2>1. Owed => Owed'
    BY <1>1, <1>4 DEF Owed
  <2>2. FileType[f] # "error.json" => Owed'
    BY <1>3, <1>4 DEF Owed
  <2>3. \A g \in Handlers : /\ handler'[g].at = "store" <=> handler[g].at = "store"
                            /\ handler[g].at = "store" => handler'[g].read = handler[g].read
    BY <1>1, <1>3, <1>4
  <2>. QED  BY <1>1, <1>5, <2>1, <2>2, <2>3, CountStep DEF SetInv
<1>8. UploadInv' /\ BatchInv'
  <2>1. \A g \in Handlers : handler'[g].parts > 0 =>
          handler[g].parts > 0 /\ handler'[g].type = handler[g].type
    BY <1>3, <1>4
  <2>2. uploaded \cap members' \subseteq members
    BY <1>1 DEF SetInv, SetTyped
  <2>. QED  BY <1>1, <1>5, <2>1, <2>2, UploadStep DEF SetInv
<1>9. PagesInv'
  BY <1>1, <1>5, PagesStep DEF SetInv
<1>. QED  BY <1>5, <1>6, <1>7, <1>8, <1>9 DEF SetInv

\* set.json is scheduled, and the file counted unless it is an error.
LEMMA ScheduleKeeps ==
  ASSUME SetInv, NEW h \in Handlers, scheduleSetManifest(h)
  PROVE  SetInv'
<1>1. /\ handler[h].at = "schedule" /\ timer' = TRUE
      /\ UNCHANGED <<members, count, sync, manifest, listed, locked, pages, came, gone,
                     uploaded, late, stay, twoUploads, twoCounts, twoSyncs, cut>>
  BY DEF scheduleSetManifest, HandlerAt, setHistory
<1>2. handler[h] \in HandlerType /\ handler[h].parts = 0
  BY <1>1 DEF SetInv, SetTyped, HandlerSound
<1>3. PICK rest : rest = [handler[h] EXCEPT !.at = "count"]
  OBVIOUS
<1>4. rest \in HandlerType /\ rest.at = "count" /\ rest.parts = 0
  BY <1>2, <1>3 DEF HandlerType, HandlerSteps
<1>5. PICK w : w = IF FileType[handler[h].file] = "error.json" THEN FreeHandler ELSE rest
  OBVIOUS
<1>6. /\ w \in HandlerType /\ HandlerSound(w) /\ w.parts = 0 /\ w.at \in {"idle", "count"}
      /\ FileType[handler[h].file] # "error.json" => w.at = "count"
  BY <1>4, <1>5, FreeIsSound DEF HandlerSound
<1>7. /\ handler' \in [Handlers -> HandlerType] /\ \A g \in Handlers : HandlerSound(handler'[g])
      /\ handler'[h] = w /\ \A g \in Handlers \ {h} : handler'[g] = handler[g]
  <2>1. handler' = [handler EXCEPT ![h] = IF FileType[handler[h].file] = "error.json" THEN FreeHandler
                                          ELSE [handler[h] EXCEPT !.at = "count"]]
    BY DEF scheduleSetManifest
  <2>2. handler' = [handler EXCEPT ![h] = w]
    BY <1>3, <1>5, <2>1
  <2>. QED  BY <1>6, <2>2, HandlerWritten DEF SetInv
<1>8. SetTyped'
  BY <1>1, <1>7 DEF SetInv, SetTyped
<1>9. ManifestInv'
  <2>1. Promised'
    BY <1>1 DEF Promised
  <2>. QED  BY <1>1, <2>1, ManifestStep DEF SetInv
<1>10. CountInv'
  <2>1. Owed => Owed'
    BY <1>1, <1>6, <1>7 DEF Owed
  <2>2. \A g \in Handlers : /\ handler'[g].at = "store" <=> handler[g].at = "store"
                            /\ handler[g].at = "store" => handler'[g].read = handler[g].read
    BY <1>1, <1>6, <1>7
  <2>. QED  BY <1>1, <1>8, <2>1, <2>2, CountStep DEF SetInv
<1>11. UploadInv' /\ BatchInv'
  <2>1. \A g \in Handlers : handler'[g].parts > 0 =>
          handler[g].parts > 0 /\ handler'[g].type = handler[g].type
    BY <1>6, <1>7
  <2>. QED  BY <1>1, <1>8, <2>1, UploadStep DEF SetInv
<1>12. PagesInv'
  BY <1>1, <1>8, PagesStep DEF SetInv
<1>. QED  BY <1>8, <1>9, <1>10, <1>11, <1>12 DEF SetInv

\* Sizes of what the count is held against.
LEMMA CountBounds ==
  ASSUME SetTyped
  PROVE  /\ Cardinality(Counts) \in Nat /\ Cardinality(members) \in Nat
         /\ Cardinality(members \cup gone) \in Nat
         /\ Cardinality(Counts) <= Cardinality(members)
         /\ Cardinality(members) <= Cardinality(members \cup gone)
<1>1. IsFiniteSet(members \cup gone)
  BY FS_Union DEF SetTyped
<1>2. Counts \subseteq members
  BY DEF Counts
<1>. QED  BY <1>1, <1>2, SizesGrow DEF SetTyped

\* The members are counted.
LEMMA CountMembersKeeps ==
  ASSUME SetInv, NEW h \in Handlers, countMembers(h)
  PROVE  SetInv'
<1>1. /\ handler[h].at = "count"
      /\ twoCounts' = (twoCounts \/ \E g \in Handlers : HandlerAt(g, "store"))
      /\ handler' = [handler EXCEPT ![h].at = "store", ![h].read = Cardinality(members)]
      /\ UNCHANGED <<members, count, timer, sync, manifest, listed, locked, pages, came, gone,
                     uploaded, late, stay, twoUploads, twoSyncs, cut>>
  BY DEF countMembers, HandlerAt, Counted
<1>2. handler[h] \in HandlerType
  BY DEF SetInv, SetTyped
<1>3. PICK w : w = [handler[h] EXCEPT !.at = "store", !.read = Cardinality(members)]
  OBVIOUS
<1>4. /\ w \in HandlerType /\ HandlerSound(w) /\ w.at = "store" /\ w.read = Cardinality(members)
      /\ w.parts = handler[h].parts /\ w.type = handler[h].type
  <2>1. Cardinality(members) \in Nat
    BY CountBounds DEF SetInv
  <2>. QED  BY <1>2, <1>3, <2>1 DEF HandlerType, HandlerSteps, HandlerSound
<1>5. /\ handler' \in [Handlers -> HandlerType] /\ \A g \in Handlers : HandlerSound(handler'[g])
      /\ handler'[h] = w /\ \A g \in Handlers \ {h} : handler'[g] = handler[g]
  <2>1. handler' = [handler EXCEPT ![h] = w]
    BY <1>1, <1>3
  <2>. QED  BY <1>4, <2>1, HandlerWritten DEF SetInv
<1>6. SetTyped'
  BY <1>1, <1>5 DEF SetInv, SetTyped
<1>7. ManifestInv'
  <2>1. Promised'
    BY <1>4, <1>5 DEF Promised, Pending
  <2>. QED  BY <1>1, <2>1, ManifestStep DEF SetInv
<1>8. CountInv'
  <2>1. /\ count <= Cardinality(members \cup gone)
        /\ \A g \in Handlers : handler'[g].at = "store" => handler'[g].read <= Cardinality(members \cup gone)
    BY <1>4, <1>5, CountBounds DEF SetInv, CountInv
  <2>2. ASSUME ~twoCounts'
        PROVE  /\ \A g, i \in Handlers : handler'[g].at = "store" /\ handler'[i].at = "store" => g = i
               /\ \A g \in Handlers : handler'[g].at = "store" => handler'[g].read >= Cardinality(Counts)
    <3>1. \A g \in Handlers : handler[g].at # "store"
      BY <1>1, <2>2 DEF HandlerAt
    <3>. QED  BY <1>4, <1>5, <3>1, CountBounds DEF SetInv
  <2>3. Counts' = Counts
    BY <1>1 DEF Counts
  <2>. QED  BY <1>1, <1>4, <1>5, <2>1, <2>2, <2>3 DEF CountInv
<1>9. UploadInv' /\ BatchInv'
  <2>1. \A g \in Handlers : handler'[g].parts > 0 =>
          handler[g].parts > 0 /\ handler'[g].type = handler[g].type
    BY <1>4, <1>5
  <2>. QED  BY <1>1, <1>6, <2>1, UploadStep DEF SetInv
<1>10. PagesInv'
  BY <1>1, <1>6, PagesStep DEF SetInv
<1>. QED  BY <1>6, <1>7, <1>8, <1>9, <1>10 DEF SetInv

\* What was counted is stored, and set.json scheduled.
LEMMA UpdateCountKeeps ==
  ASSUME SetInv, NEW h \in Handlers, updateFileCount(h)
  PROVE  SetInv'
<1>1. /\ handler[h].at = "store" /\ count' = handler[h].read /\ timer' = TRUE
      /\ cut' = cut \ {"count"}
      /\ UNCHANGED <<members, sync, manifest, listed, locked, pages, came, gone,
                     uploaded, late, stay, twoUploads, twoCounts, twoSyncs>>
  BY DEF updateFileCount, HandlerAt
<1>2. handler[h] \in HandlerType
  BY DEF SetInv, SetTyped
<1>3. /\ handler[h].type \in SetTypes /\ handler[h].parts \in Nat /\ handler[h].read \in Nat
  BY <1>2 DEF HandlerType
<1>4. PICK rest : rest = [FreeHandler EXCEPT !.at = "part", !.type = handler[h].type,
                                             !.parts = handler[h].parts - 1]
  OBVIOUS
<1>5. handler[h].parts > 1 =>
        /\ rest \in HandlerType /\ HandlerSound(rest) /\ rest.at = "part"
        /\ rest.type = handler[h].type /\ rest.parts = handler[h].parts - 1
  <2>1. rest = [at |-> "part", file |-> NoSetFile, type |-> handler[h].type,
                parts |-> handler[h].parts - 1, read |-> 0]
    BY <1>4 DEF FreeHandler
  <2>. QED  BY <1>3, <2>1 DEF HandlerType, HandlerSound, HandlerSteps
<1>6. PICK w : w = IF handler[h].parts <= 1 THEN FreeHandler ELSE rest
  OBVIOUS
<1>7. /\ w \in HandlerType /\ HandlerSound(w) /\ w.at \in {"idle", "part"}
      /\ w.parts > 0 => handler[h].parts > 0 /\ w.type = handler[h].type
  BY <1>3, <1>5, <1>6, FreeIsSound
<1>8. /\ handler' \in [Handlers -> HandlerType] /\ \A g \in Handlers : HandlerSound(handler'[g])
      /\ handler'[h] = w /\ \A g \in Handlers \ {h} : handler'[g] = handler[g]
  <2>1. handler' = [handler EXCEPT ![h] = IF handler[h].parts <= 1 THEN FreeHandler
          ELSE [FreeHandler EXCEPT !.at = "part", !.type = handler[h].type, !.parts = handler[h].parts - 1]]
    BY DEF updateFileCount
  <2>2. handler' = [handler EXCEPT ![h] = w]
    BY <1>4, <1>6, <2>1
  <2>. QED  BY <1>7, <2>2, HandlerWritten DEF SetInv
<1>9. SetTyped'
  BY <1>1, <1>3, <1>8 DEF SetInv, SetTyped
<1>10. ManifestInv'
  <2>1. Promised'
    BY <1>1 DEF Promised
  <2>. QED  BY <1>1, <2>1, ManifestStep DEF SetInv
<1>11. CountInv'
  <2>1. /\ count' <= Cardinality(members \cup gone)
        /\ \A g \in Handlers : handler'[g].at = "store" => handler'[g].read <= Cardinality(members \cup gone)
    BY <1>1, <1>7, <1>8 DEF SetInv, CountInv
  <2>2. Owed => Owed'
    BY <1>1, <1>8 DEF Owed
  <2>3. ASSUME ~twoCounts
        PROVE  /\ \A g \in Handlers : handler'[g].at # "store"
               /\ Owed' \/ count' >= Cardinality(Counts)
    BY <1>1, <1>7, <1>8, <2>2, <2>3 DEF SetInv, CountInv
  <2>4. Counts' = Counts
    BY <1>1 DEF Counts
  <2>. QED  BY <1>1, <2>1, <2>3, <2>4 DEF CountInv
<1>12. UploadInv' /\ BatchInv'
  <2>1. \A g \in Handlers : handler'[g].parts > 0 =>
          handler[g].parts > 0 /\ handler'[g].type = handler[g].type
    BY <1>7, <1>8
  <2>. QED  BY <1>1, <1>9, <2>1, UploadStep DEF SetInv
<1>13. PagesInv'
  BY <1>1, <1>9, PagesStep DEF SetInv
<1>. QED  BY <1>9, <1>10, <1>11, <1>12, <1>13 DEF SetInv

\* A step of a write of set.json concerns nothing else.
LEMMA WriteStep ==
  ASSUME SetInv, SetTyped', ManifestInv', "count" \in cut <=> "count" \in cut',
         UNCHANGED <<members, count, handler, listed, locked, pages, came, gone,
                     uploaded, late, stay, twoUploads, twoCounts>>
  PROVE  SetInv'
<1>1. CountInv'
  <2>1. Owed => Owed'
    BY DEF Owed
  <2>. QED  BY <2>1, CountStep DEF SetInv
<1>2. UploadInv' /\ BatchInv'
  BY DEF SetInv, UploadInv, BatchInv
<1>3. PagesInv'
  BY PagesStep DEF SetInv
<1>. QED  BY <1>1, <1>2, <1>3 DEF SetInv

\* A write of set.json begins.
LEMMA FlushKeeps ==
  ASSUME SetInv, NEW y \in Syncs, flushSetManifest(y)
  PROVE  SetInv'
<1>1. /\ sync[y] = FreeSync /\ timer' = FALSE /\ sync' = [sync EXCEPT ![y].at = "read"]
      /\ twoSyncs' = (twoSyncs \/ \E z \in Syncs : sync[z] # FreeSync)
      /\ UNCHANGED <<members, count, manifest, handler, listed, locked, pages, came, gone,
                     uploaded, late, stay, twoUploads, twoCounts, cut>>
  BY DEF flushSetManifest
<1>2. PICK w : w = [sync[y] EXCEPT !.at = "read"]
  OBVIOUS
<1>3. w \in SyncType /\ w.at = "read" /\ w.items = {} /\ w # FreeSync
  BY <1>1, <1>2 DEF SyncType, FreeSync
<1>4. sync' = [sync EXCEPT ![y] = w]
  BY <1>1, <1>2
<1>5. /\ sync' \in [Syncs -> SyncType] /\ sync'[y] = w
      /\ \A z \in Syncs \ {y} : sync'[z] = sync[z]
  BY <1>3, <1>4 DEF SetInv, SetTyped
<1>6. \A z \in Syncs : sync'[z].at = "idle" <=> sync'[z] = FreeSync
  BY <1>3, <1>5 DEF SetInv, SetTyped
<1>7. SetTyped'
  BY <1>1, <1>5, <1>6 DEF SetInv, SetTyped
<1>8. ManifestInv'
  <2>1. manifest \subseteq members \cup gone /\ \A z \in Syncs : sync'[z].items \subseteq members \cup gone
    BY <1>3, <1>5 DEF SetInv, ManifestInv
  <2>2. ~twoSyncs' => \A z \in Syncs \ {y} : sync'[z].at = "idle"
    BY <1>1, <1>5, <1>6
  <2>. QED  BY <1>1, <1>3, <1>5, <2>1, <2>2 DEF ManifestInv
<1>. QED  BY <1>1, <1>7, <1>8, WriteStep

\* A write reads the members.
LEMMA SyncReadKeeps ==
  ASSUME SetInv, NEW y \in Syncs, syncRead(y)
  PROVE  SetInv'
<1>1. /\ sync[y].at = "read" /\ sync' = [sync EXCEPT ![y] = [at |-> "write", items |-> members]]
      /\ UNCHANGED <<members, count, timer, manifest, handler, listed, locked, pages, came, gone,
                     uploaded, late, stay, twoUploads, twoCounts, twoSyncs, cut>>
  BY DEF syncRead, setHistory
<1>2. PICK w : w = [at |-> "write", items |-> members]
  OBVIOUS
<1>3. w \in SyncType /\ w.at = "write" /\ w.items = members /\ w # FreeSync
  BY <1>2 DEF SyncType, FreeSync, SetInv, SetTyped
<1>4. sync' = [sync EXCEPT ![y] = w]
  BY <1>1, <1>2
<1>5. /\ sync' \in [Syncs -> SyncType] /\ sync'[y] = w
      /\ \A z \in Syncs \ {y} : sync'[z] = sync[z]
  BY <1>3, <1>4 DEF SetInv, SetTyped
<1>6. \A z \in Syncs : sync'[z].at = "idle" <=> sync'[z] = FreeSync
  BY <1>3, <1>5 DEF SetInv, SetTyped
<1>7. SetTyped'
  BY <1>1, <1>5, <1>6 DEF SetInv, SetTyped
<1>8. ManifestInv'
  <2>1. manifest \subseteq members \cup gone /\ \A z \in Syncs : sync'[z].items \subseteq members \cup gone
    BY <1>3, <1>5 DEF SetInv, ManifestInv
  <2>2. ~twoSyncs => \A z \in Syncs \ {y} : sync'[z].at = "idle"
    BY <1>1, <1>5 DEF SetInv, ManifestInv
  <2>. QED  BY <1>1, <1>3, <1>5, <2>1, <2>2 DEF ManifestInv
<1>. QED  BY <1>1, <1>7, <1>8, WriteStep

\* set.json has what was read; what came since has another write promised.
LEMMA SyncWriteKeeps ==
  ASSUME SetInv, NEW y \in Syncs, syncSetManifest(y)
  PROVE  SetInv'
<1>1. /\ sync[y].at = "write" /\ manifest' = sync[y].items /\ timer' = timer
      /\ sync' = [sync EXCEPT ![y] = FreeSync] /\ cut' = cut \ {"manifest"}
      /\ UNCHANGED <<members, count, handler, listed, locked, pages, came, gone,
                     uploaded, late, stay, twoUploads, twoCounts, twoSyncs>>
  BY DEF syncSetManifest, TimerAfter
<1>2. FreeSync \in SyncType /\ FreeSync.at = "idle" /\ FreeSync.items = {}
  BY DEF SyncType, FreeSync
<1>3. /\ sync' \in [Syncs -> SyncType] /\ sync'[y] = FreeSync
      /\ \A z \in Syncs \ {y} : sync'[z] = sync[z]
  BY <1>1, <1>2 DEF SetInv, SetTyped
<1>4. \A z \in Syncs : sync'[z].at = "idle" <=> sync'[z] = FreeSync
  BY <1>2, <1>3 DEF SetInv, SetTyped
<1>5. sync[y].items \subseteq SetFiles
  BY DEF SetInv, SetTyped, SyncType
<1>6. SetTyped'
  BY <1>1, <1>3, <1>4, <1>5 DEF SetInv, SetTyped
<1>7. ManifestInv'
  <2>1. manifest' \subseteq members \cup gone /\ \A z \in Syncs : sync'[z].items \subseteq members \cup gone
    BY <1>1, <1>2, <1>3 DEF SetInv, ManifestInv
  <2>2. ~twoSyncs => /\ \A z \in Syncs \ {y} : sync'[z].at = "idle"
                     /\ Promised \/ members \subseteq manifest'
    BY <1>1, <1>3 DEF SetInv, ManifestInv
  <2>3. Promised' <=> Promised
    BY <1>1 DEF Promised, Pending
  <2>. QED  BY <1>1, <1>2, <1>3, <2>1, <2>2, <2>3 DEF ManifestInv
<1>. QED  BY <1>1, <1>6, <1>7, WriteStep

\* A member is deleted: its count and set.json may list it still.
LEMMA DeleteMemberKeeps ==
  ASSUME SetInv, NEW f \in SetFiles, DeleteMember(f)
  PROVE  SetInv'
<1>1. /\ f \in members /\ members' = members \ {f} /\ gone' = gone \cup {f}
      /\ UNCHANGED <<count, timer, sync, manifest, handler, listed, locked, pages, came,
                     uploaded, late, stay, twoUploads, twoCounts, twoSyncs, cut>>
  BY DEF DeleteMember, setHistory
<1>2. SetTyped'
  BY <1>1, FS_RemoveElement, FS_AddElement DEF SetInv, SetTyped
<1>3. ManifestInv'
  <2>1. Promised => Promised'
    BY <1>1 DEF Promised, Pending
  <2>. QED  BY <1>1, <2>1, ManifestStep DEF SetInv
<1>4. CountInv'
  <2>1. Owed => Owed'
    BY <1>1 DEF Owed
  <2>. QED  BY <1>1, <1>2, <2>1, CountStep DEF SetInv
<1>5. UploadInv' /\ BatchInv'
  BY <1>1, <1>2, UploadStep DEF SetInv
<1>6. PagesInv'
  BY <1>1, <1>2, PagesStep DEF SetInv
<1>. QED  BY <1>2, <1>3, <1>4, <1>5, <1>6 DEF SetInv

\* A batch lists the files and locks the set.
LEMMA BatchKeeps ==
  ASSUME SetInv, StartBatch \/ LockSet
  PROVE  SetInv'
<1>1. UNCHANGED <<members, count, timer, sync, manifest, handler, pages, came, gone,
                  uploaded, stay, twoUploads, twoCounts, twoSyncs, cut>>
  BY DEF StartBatch, LockSet, setHistory
<1>2. SetTyped'
  BY <1>1 DEF SetInv, SetTyped
<1>3. ManifestInv' /\ CountInv'
  <2>1. (Promised => Promised') /\ (Owed => Owed')
    BY <1>1 DEF Promised, Pending, Owed
  <2>. QED  BY <1>1, <1>2, <2>1, ManifestStep, CountStep DEF SetInv
<1>4. UploadInv'
  BY <1>1 DEF SetInv, UploadInv
<1>5. BatchInv'
  <2>1. CASE StartBatch
    <3>1. /\ members # {} /\ listed' = members /\ late' = (Uploading # {}) /\ locked' = locked
          /\ ~locked \/ listed = {}
      BY <2>1 DEF StartBatch
    <3>2. ~late' => \A h \in Handlers : ~(handler[h].parts > 0)
      BY <3>1 DEF Uploading
    <3>3. \A h \in Handlers : handler[h].parts \in Nat
      BY DEF SetInv, SetTyped, HandlerType
    <3>. QED  BY <1>1, <3>1, <3>2, <3>3 DEF BatchInv
  <2>2. CASE LockSet
    <3>1. listed # {} /\ UNCHANGED <<listed, late>>
      BY <2>2 DEF LockSet, setHistory
    <3>. QED  BY <1>1, <3>1 DEF SetInv, BatchInv
  <2>. QED  BY <2>1, <2>2
<1>6. PagesInv'
  BY <1>1, <1>2, PagesStep DEF SetInv
<1>. QED  BY <1>2, <1>3, <1>4, <1>5, <1>6 DEF SetInv

\* A step of the walk over the pages concerns nothing else.
LEMMA WalkStep ==
  ASSUME SetInv, pages' \in PagesType, PagesInv',
         UNCHANGED <<members, count, timer, sync, manifest, handler, listed, locked, came, gone,
                     uploaded, late, twoUploads, twoCounts, twoSyncs, cut>>
  PROVE  SetInv'
<1>1. SetTyped'
  BY DEF SetInv, SetTyped
<1>2. ManifestInv' /\ CountInv'
  <2>1. (Promised => Promised') /\ (Owed => Owed')
    BY DEF Promised, Pending, Owed
  <2>. QED  BY <1>1, <2>1, ManifestStep, CountStep DEF SetInv
<1>3. UploadInv' /\ BatchInv'
  BY DEF SetInv, UploadInv, BatchInv
<1>. QED  BY <1>1, <1>2, <1>3 DEF SetInv

\* The walk begins: nothing has been seen, and nothing skipped.
LEMMA StartPagesKeeps ==
  ASSUME SetInv, StartPages
  PROVE  SetInv'
<1>1. /\ stay' = members /\ pages' = [NoPages EXCEPT !.at = "count"]
      /\ UNCHANGED <<members, count, timer, sync, manifest, handler, listed, locked, came, gone,
                     uploaded, late, twoUploads, twoCounts, twoSyncs, cut>>
  BY DEF StartPages
<1>2. /\ pages' \in PagesType /\ pages'.at = "count" /\ pages'.skip = 0
  BY <1>1 DEF NoPages, PagesType
<1>3. \A f \in members : Place(members, f) \in Nat
  BY PlaceFacts, SetConstants DEF SetInv, SetTyped
<1>4. \A f \in members : Place(members', f) = Place(members, f)
  BY <1>1 DEF Place
<1>5. PagesInv'
  BY <1>1, <1>2, <1>3, <1>4 DEF PagesInv
<1>. QED  BY <1>1, <1>2, <1>5, WalkStep

\* The members are counted for the next page.
LEMMA CountFilesKeeps ==
  ASSUME SetInv, countFiles
  PROVE  SetInv'
<1>1. /\ pages.at = "count"
      /\ pages' = [pages EXCEPT !.at = "page", !.total = Cardinality(members),
                     !.first = IF pages.first = 0 THEN Cardinality(members) ELSE pages.first]
      /\ UNCHANGED <<members, count, timer, sync, manifest, handler, listed, locked, came, gone,
                     uploaded, late, stay, twoUploads, twoCounts, twoSyncs, cut>>
  BY DEF countFiles, setHistory
<1>2. pages \in PagesType /\ Cardinality(members) \in Nat
  BY CountBounds DEF SetInv, SetTyped
<1>3. PICK n \in Nat : n = IF pages.first = 0 THEN Cardinality(members) ELSE pages.first
  BY <1>2 DEF PagesType
<1>4. pages' = [pages EXCEPT !.at = "page", !.total = Cardinality(members), !.first = n]
  BY <1>1, <1>3
<1>5. /\ pages' \in PagesType /\ pages'.at = "page" /\ pages'.skip = pages.skip
      /\ pages'.seen = pages.seen
  BY <1>2, <1>4 DEF PagesType
<1>6. \A f : Place(members', f) = Place(members, f)
  BY <1>1 DEF Place
<1>7. PagesInv'
  BY <1>1, <1>5, <1>6 DEF SetInv, PagesInv
<1>. QED  BY <1>1, <1>5, <1>7, WalkStep

\* A page is listed: what stands before the next one has been seen, and at the
\* last page, if nothing came since the count, that is all.
LEMMA NextPageKeeps ==
  ASSUME SetInv, requeueSetThumbnails
  PROVE  SetInv'
<1>. PICK page : page = setFiles
  OBVIOUS
<1>. PICK next : next = pages.skip + Cardinality(page)
  OBVIOUS
<1>1. /\ pages.at = "page"
      /\ pages' = [pages EXCEPT !.seen = pages.seen \cup page, !.skip = next,
                     !.at = IF page = {} \/ next >= pages.total THEN "over" ELSE "count",
                     !.met = pages.met \/ Cardinality(members) # pages.total]
      /\ UNCHANGED <<members, count, timer, sync, manifest, handler, listed, locked, came, gone,
                     uploaded, late, stay, twoUploads, twoCounts, twoSyncs, cut>>
  BY DEF requeueSetThumbnails, setHistory, PagesOver
<1>2. SetTyped /\ pages \in PagesType /\ pages.skip \in Nat /\ pages.total \in Nat /\ PageSize \in Nat \ {0}
  BY SetConstants DEF SetInv, SetTyped, PagesType
<1>. members \subseteq Nat /\ IsFiniteSet(members)
  BY SetConstants DEF SetInv, SetTyped
<1>3. page = {f \in members : Place(members, f) >= pages.skip /\ Place(members, f) < pages.skip + PageSize}
  BY DEF setFiles, Place
<1>4. Cardinality(page) \in Nat /\ Cardinality(page) <= PageSize
  <2>1. page \subseteq members /\ \A f \in page : Place(members, f) >= pages.skip /\ Place(members, f) < pages.skip + PageSize
    BY <1>3
  <2>2. Cardinality(page) <= PageSize
    BY <1>2, <2>1, PlaceWindow
  <2>. QED  BY <2>1, <2>2, SizesGrow
<1>5. next \in Nat /\ page \subseteq SetFiles
  <2>1. page \subseteq members
    BY <1>3
  <2>. QED  BY <1>2, <1>4, <2>1 DEF SetTyped
<1>6. PICK to \in {"over", "count"} : to = IF page = {} \/ next >= pages.total THEN "over" ELSE "count"
  OBVIOUS
<1>7. PICK m \in BOOLEAN : m <=> (pages.met \/ Cardinality(members) # pages.total)
  OBVIOUS
<1>8. pages' = [pages EXCEPT !.seen = pages.seen \cup page, !.skip = next, !.at = to, !.met = m]
  BY <1>1, <1>2, <1>6, <1>7 DEF PagesType
<1>9. /\ pages' \in PagesType /\ pages'.at = to /\ pages'.skip = next
      /\ pages'.seen = pages.seen \cup page /\ pages'.met = m
  <2>1. pages.seen \cup page \subseteq SetFiles
    BY <1>2, <1>5 DEF PagesType
  <2>. QED  BY <1>2, <1>5, <1>8, <2>1 DEF PagesType
<1>10. PagesInv'
  <2>. SUFFICES ASSUME gone = {}
                PROVE  PagesInv'
    BY <1>1 DEF PagesInv
  <2>1. stay \subseteq members /\ \A f \in stay : Place(members, f) < pages.skip => f \in pages.seen
    BY <1>1 DEF SetInv, PagesInv
  <2>2. ASSUME NEW f \in stay, Place(members, f) < next
        PROVE  f \in pages'.seen
    <3>1. f \in members /\ Place(members, f) \in Nat
      BY <2>1, PlaceFacts
    <3>2. CASE Place(members, f) < pages.skip
      BY <1>9, <2>1, <3>2
    <3>3. CASE Place(members, f) >= pages.skip
      <4>1. Place(members, f) < pages.skip + PageSize
        BY <1>2, <1>4, <2>2, <3>1
      <4>. QED  BY <1>3, <1>9, <3>1, <3>3, <4>1
    <3>. QED  BY <1>2, <3>1, <3>2, <3>3
  <2>3. ASSUME to = "over", ~m, NEW f \in stay
        PROVE  Place(members, f) < next
    <3>1. Cardinality(members) = pages.total
      BY <1>7, <2>3
    <3>2. f \in members /\ Place(members, f) \in Nat /\ Place(members, f) < Cardinality(members)
      BY <2>1, <2>3, PlaceFacts
    <3>3. CASE next >= pages.total
      BY <1>2, <1>5, <3>1, <3>2, <3>3
    <3>4. CASE page = {}
      <4>1. \A g \in members : Place(members, g) # pages.skip
        BY <1>2, <1>3, <3>4
      <4>2. ~(Place(members, f) >= pages.skip)
        BY <1>2, <4>1, <3>2, PlaceTaken
      <4>3. next >= pages.skip
        BY <1>2, <1>4
      <4>. QED  BY <1>2, <1>5, <3>2, <4>2, <4>3
    <3>. QED  BY <1>6, <2>3, <3>3, <3>4
  <2>4. \A f : Place(members', f) = Place(members, f)
    BY <1>1 DEF Place
  <2>. QED  BY <1>1, <1>9, <2>1, <2>2, <2>3, <2>4 DEF PagesInv
<1>. QED  BY <1>1, <1>9, <1>10, WalkStep

\* The server stops: nothing is under way, and set.json and the count may be old.
LEMMA CrashSetsKeeps ==
  ASSUME SetInv, CrashSets
  PROVE  SetInv'
<1>1. /\ cut' = {"manifest", "count"} /\ timer' = FALSE
      /\ sync' = [y \in Syncs |-> FreeSync] /\ handler' = [h \in Handlers |-> FreeHandler]
      /\ listed' = (IF locked THEN listed ELSE {}) /\ pages' = NoPages
      /\ UNCHANGED <<members, count, manifest, locked, came, gone,
                     uploaded, late, stay, twoUploads, twoCounts, twoSyncs>>
  BY DEF CrashSets
<1>2. /\ FreeSync \in SyncType /\ FreeSync.at = "idle" /\ FreeSync.items = {}
      /\ pages' \in PagesType /\ pages'.at = "idle"
  BY <1>1 DEF SyncType, FreeSync, NoPages, PagesType
<1>3. /\ sync' \in [Syncs -> SyncType] /\ \A y \in Syncs : sync'[y] = FreeSync
      /\ handler' \in [Handlers -> HandlerType] /\ \A h \in Handlers : handler'[h] = FreeHandler
  BY <1>1, <1>2, FreeIsSound
<1>4. SetTyped'
  BY <1>1, <1>2, <1>3, FreeIsSound DEF SetInv, SetTyped
<1>5. ManifestInv'
  BY <1>1, <1>2, <1>3 DEF SetInv, ManifestInv
<1>6. CountInv'
  BY <1>1, <1>3, FreeIsSound DEF SetInv, CountInv
<1>7. UploadInv'
  BY <1>1, <1>3, FreeIsSound DEF SetInv, UploadInv
<1>8. BatchInv'
  BY <1>1, <1>3, FreeIsSound DEF SetInv, BatchInv
<1>9. PagesInv'
  BY <1>2 DEF PagesInv
<1>. QED  BY <1>4, <1>5, <1>6, <1>7, <1>8, <1>9 DEF SetInv

LEMMA SetBegins == SetInit => SetInv
<1>. SUFFICES ASSUME SetInit PROVE SetInv
  OBVIOUS
<1>1. /\ FreeSync \in SyncType /\ FreeSync.at = "idle" /\ FreeSync.items = {}
      /\ NoPages \in PagesType /\ NoPages.at = "idle"
  BY DEF SyncType, FreeSync, NoPages, PagesType
<1>2. /\ sync \in [Syncs -> SyncType] /\ \A y \in Syncs : sync[y] = FreeSync
      /\ handler \in [Handlers -> HandlerType] /\ \A h \in Handlers : handler[h] = FreeHandler
  BY <1>1, FreeIsSound DEF SetInit
<1>3. SetTyped
  BY <1>1, <1>2, FreeIsSound, FS_EmptySet DEF SetInit, SetTyped
<1>4. ManifestInv
  BY <1>1, <1>2 DEF SetInit, ManifestInv
<1>5. CountInv
  <2>1. Cardinality(members \cup gone) = 0 /\ Cardinality(Counts) = 0
    BY FS_EmptySet DEF SetInit, Counts
  <2>. QED  BY <1>2, <2>1, FreeIsSound DEF SetInit, CountInv
<1>6. UploadInv /\ BatchInv /\ PagesInv
  BY <1>1, <1>2, FreeIsSound DEF SetInit, UploadInv, BatchInv, PagesInv
<1>. QED  BY <1>3, <1>4, <1>5, <1>6 DEF SetInv

\* Every step of a set keeps what the properties rest on.
LEMMA SetStep == SetInv /\ [SetNext]_setVars => SetInv'
<1>. SUFFICES ASSUME SetInv, [SetNext]_setVars PROVE SetInv'
  OBVIOUS
<1>1. ASSUME NEW h \in Handlers,
             \/ upload(h) \/ uploadOne(h) \/ partRefused(h)
             \/ \E f \in SetFiles : createProcessFile(h, f) \/ createErrorNode(h, f)
             \/ scheduleSetManifest(h) \/ countMembers(h) \/ updateFileCount(h)
      PROVE  SetInv'
  BY <1>1, UploadKeeps, UploadOneKeeps, PartRefusedKeeps, OutputKeeps, ScheduleKeeps,
     CountMembersKeeps, UpdateCountKeeps
<1>2. ASSUME NEW f \in SetFiles, DeleteMember(f) PROVE SetInv'
  BY <1>2, DeleteMemberKeeps
<1>3. ASSUME NEW y \in Syncs, flushSetManifest(y) \/ syncRead(y) \/ syncSetManifest(y) PROVE SetInv'
  BY <1>3, FlushKeeps, SyncReadKeeps, SyncWriteKeeps
<1>4. CASE CrashSets
  BY <1>4, CrashSetsKeeps
<1>5. CASE SetBatchNext
  BY <1>5, BatchKeeps DEF SetBatchNext
<1>6. CASE SetPagesNext
  BY <1>6, StartPagesKeeps, CountFilesKeeps, NextPageKeeps DEF SetPagesNext
<1>7. CASE UNCHANGED setVars
  <2>1. UNCHANGED <<members, count, timer, sync, manifest, handler, listed, locked, pages, came, gone,
                    uploaded, late, stay, twoUploads, twoCounts, twoSyncs, cut>>
    BY <1>7 DEF setVars
  <2>2. (Promised => Promised') /\ pages' \in PagesType
    BY <2>1 DEF Promised, Pending, SetInv, SetTyped
  <2>3. PagesInv'
    BY <2>1 DEF SetInv, PagesInv, Place
  <2>. QED  BY <2>1, <2>2, <2>3, WalkStep
<1>. QED  BY <1>1, <1>2, <1>3, <1>4, <1>5, <1>6, <1>7 DEF SetNext, SetFilesNext, SetSyncNext

\* Count, manifest and page walk of a set follow its files, however uploads,
\* outputs, deletions, batches, writes and crashes interleave (nodes.ts:97-122,
\* files.ts:259-296).
THEOREM ViewsFollow == SetSpec => []ViewsFollowMembers
<1>1. SetInv => ViewsFollowMembers
  <2>. SUFFICES ASSUME SetInv PROVE ViewsFollowMembers
    OBVIOUS
  <2>1. ManifestCatchesUp
    BY DEF SetInv, SetTyped, ManifestInv, ManifestCatchesUp, Promised, Pending
  <2>2. CountCatchesUp
    BY DEF SetInv, CountInv, CountCatchesUp, Owed, Counts
  <2>3. PagesReachAll
    BY DEF SetInv, PagesInv, PagesReachAll
  <2>. QED  BY <2>1, <2>2, <2>3 DEF ViewsFollowMembers
<1>. QED  BY <1>1, SetBegins, SetStep, PTL DEF SetSpec

\* One type per set of uploads, and a batch keeps the files it has listed
\* (files.ts:97-113).
THEOREM UploadsKeepOrder == SetSpec => []UploadsAreOrderly
<1>1. SetInv => UploadsAreOrderly
  BY DEF SetInv, UploadInv, BatchInv, UploadsAreOrderly, UploadsHaveOneType, BatchHasItsFiles
<1>. QED  BY <1>1, SetBegins, SetStep, PTL DEF SetSpec

-----------------------------------------------------------------------------
(* Statements that are sent again.                                         *)

PosterSteps == {"create", "connect", "process", "find", "tell", "count", "done", "failed"}
VertexPairs == Posters \X Nat
EdgeType == [from: VertexPairs, nr: Nat, process: BOOLEAN]
VertexType == {<<>>} \cup (Posters \X Nat)
PosterType == [at: PosterSteps, attempt: Nat, vertex: VertexType, todo: SUBSET EdgeType]

\* The edges of one vertex, of es.
EdgesAt(v, es) == {e \in es : e.from = v}
Processed(e) == [from |-> e.from, nr |-> e.nr, process |-> TRUE]

\* How far poster p, as u, is with its edge: it has one, and all it will not tell
\* the process of know it.
PosterOK(p, u, es) ==
  /\ u.vertex = <<>> \/ (\E n \in Nat : u.vertex = <<p, n>>)
  /\ u.at # "create" => u.vertex # <<>>
  /\ u.at \in {"process", "find", "tell", "count", "done"} => EdgesAt(u.vertex, es) # {}
  /\ u.at = "tell" =>
       /\ u.todo \subseteq EdgesAt(u.vertex, EdgeType)
       /\ \A e \in u.todo : e \in es \/ Processed(e) \in es
       /\ \A e \in EdgesAt(u.vertex, es) : e.process \/ e \in u.todo
  /\ u.at \in {"count", "done"} => \A e \in EdgesAt(u.vertex, es) : e.process

EdgesOK(es) ==
  /\ es \subseteq EdgeType
  /\ \A e \in es : \E p \in Posters : poster[p].at # "create" /\ poster[p].vertex = e.from
  /\ \A e, f \in es : e.from = f.from => e = f

StatementInv ==
  /\ vertices \subseteq Posters \X Nat /\ IsFiniteSet(vertices)
  /\ poster \in [Posters -> PosterType] /\ \A p \in Posters : PosterOK(p, poster[p], edges)
  /\ EdgesOK(edges)

PostDone == {p \in Posters : poster[p].at = "done"}

CounterInv ==
  /\ counted \in Nat /\ lost \in Nat
  /\ counted >= Cardinality(PostDone) /\ counted <= Cardinality(PostDone) + lost

-----------------------------------------------------------------------------

\* What an answer, or none, makes of a poster.
LEMMA RunIs ==
  ASSUME NEW u \in PosterType, NEW reply, NEW next \in PosterSteps, NEW error \in PosterSteps
  PROVE  /\ run(u, reply, next, error) \in PosterType
         /\ run(u, reply, next, error).vertex = u.vertex /\ run(u, reply, next, error).todo = u.todo
         /\ reply = "answer" => run(u, reply, next, error).at = next
         /\ reply # "answer" => run(u, reply, next, error).at \in {u.at, error}
<1>1. CASE isTransient(reply) /\ u.attempt < WriteRetries
  <2>1. run(u, reply, next, error) = [u EXCEPT !.attempt = u.attempt + 1] /\ reply # "answer"
    BY <1>1 DEF run, isTransient
  <2>. QED  BY <2>1 DEF PosterType
<1>2. CASE ~(isTransient(reply) /\ u.attempt < WriteRetries)
  <2>1. PICK a \in PosterSteps : a = IF reply = "answer" THEN next ELSE error
    OBVIOUS
  <2>2. run(u, reply, next, error) = [u EXCEPT !.at = a, !.attempt = 1]
    BY <1>2, <2>1 DEF run
  <2>3. PICK w : w = [u EXCEPT !.at = a, !.attempt = 1]
    OBVIOUS
  <2>4. w \in PosterType /\ w.vertex = u.vertex /\ w.todo = u.todo /\ w.at = a
    BY <2>3 DEF PosterType
  <2>5. run(u, reply, next, error) = w
    BY <2>2, <2>3
  <2>. QED  BY <2>1, <2>4, <2>5
<1>. QED  BY <1>1, <1>2

\* A poster whose edges are left alone.
LEMMA OthersKeep ==
  ASSUME NEW p, NEW u, NEW es, NEW fs, PosterOK(p, u, es), es \subseteq EdgeType, fs \subseteq EdgeType,
         \A e \in EdgeType : e.from = u.vertex => (e \in es <=> e \in fs)
  PROVE  PosterOK(p, u, fs)
<1>1. EdgesAt(u.vertex, es) = EdgesAt(u.vertex, fs)
  BY DEF EdgesAt
<1>2. \A e \in EdgesAt(u.vertex, EdgeType) : Processed(e) \in EdgeType /\ Processed(e).from = u.vertex
  BY DEF EdgesAt, EdgeType, Processed
<1>3. \A e \in EdgesAt(u.vertex, EdgeType) : e \in EdgeType /\ e.from = u.vertex
  BY DEF EdgesAt
<1>. QED  BY <1>1, <1>2, <1>3 DEF PosterOK

\* A step of one poster, which touches edges of its own vertex only.
LEMMA StatementStep ==
  ASSUME StatementInv, NEW p \in Posters, NEW w \in PosterType, poster' = [poster EXCEPT ![p] = w],
         vertices' \subseteq Posters \X Nat, IsFiniteSet(vertices'), edges' \subseteq EdgeType,
         PosterOK(p, w, edges'),
         \A e, f \in edges' : e.from = f.from => e = f,
         \A e \in EdgeType : (e \in edges <=> e \in edges') \/ e.from = w.vertex,
         w.at = "create" => poster[p].at = "create",
         w.at = "create" => edges' = edges,
         poster[p].at # "create" => w.vertex = poster[p].vertex
  PROVE  StatementInv'
<1>1. /\ poster' \in [Posters -> PosterType] /\ poster'[p] = w
      /\ \A q \in Posters \ {p} : poster'[q] = poster[q]
  BY DEF StatementInv
<1>2. ASSUME NEW q \in Posters \ {p}
      PROVE  PosterOK(q, poster'[q], edges')
  <2>1. PosterOK(q, poster[q], edges) /\ edges \subseteq EdgeType
    BY DEF StatementInv, EdgesOK
  <2>2. ASSUME NEW e \in EdgeType, e.from = poster[q].vertex
        PROVE  e.from # w.vertex
    <3>1. poster[q].vertex = <<>> \/ \E n \in Nat : poster[q].vertex = <<q, n>>
      BY <2>1 DEF PosterOK
    <3>2. w.vertex = <<>> \/ \E n \in Nat : w.vertex = <<p, n>>
      BY DEF PosterOK
    <3>3. e.from \in Posters \X Nat
      BY DEF EdgeType, VertexPairs
    <3>. QED  BY <2>2, <3>1, <3>2, <3>3
  <2>3. \A e \in EdgeType : e.from = poster[q].vertex => (e \in edges <=> e \in edges')
    BY <2>2
  <2>. QED  BY <1>1, <2>1, <2>3, OthersKeep
<1>3. ASSUME NEW e \in edges'
      PROVE  \E q \in Posters : poster'[q].at # "create" /\ poster'[q].vertex = e.from
  <2>0. e \in EdgeType
    OBVIOUS
  <2>1. CASE e \in edges
    <3>1. PICK q \in Posters : poster[q].at # "create" /\ poster[q].vertex = e.from
      BY <2>1 DEF StatementInv, EdgesOK
    <3>2. CASE q = p
      BY <1>1, <3>1, <3>2
    <3>3. CASE q # p
      BY <1>1, <3>1, <3>3
    <3>. QED  BY <3>2, <3>3
  <2>2. CASE e \notin edges
    BY <1>1, <2>0, <2>2
  <2>. QED  BY <2>1, <2>2
<1>. QED  BY <1>1, <1>2, <1>3 DEF StatementInv, EdgesOK

\* The replies are counted, and the outputs that are posted with them.
LEMMA CounterStep ==
  ASSUME CounterInv, NEW p \in Posters, NEW w, poster \in [Posters -> PosterType],
         poster' = [poster EXCEPT ![p] = w], poster[p].at # "done", w.at # "done",
         counted' = counted, lost' \in {lost, lost + 1}
  PROVE  CounterInv'
<1>1. poster'[p] = w /\ \A q \in Posters \ {p} : poster'[q] = poster[q]
  OBVIOUS
<1>2. PostDone' = PostDone
  BY <1>1 DEF PostDone
<1>3. Cardinality(PostDone) \in Nat
  BY FS_Subset, FS_CardinalityType, ClientConstants DEF PostDone
<1>. QED  BY <1>2, <1>3 DEF CounterInv

LEMMA LostGrows ==
  ASSUME NEW reply, Counting(reply)
  PROVE  lost' = IF reply = "doneNoAnswer" THEN lost + 1 ELSE lost
BY DEF Counting

\* A vertex is made: no edge is at it yet.
LEMMA CreateKeeps ==
  ASSUME StatementInv, CounterInv, NEW p \in Posters, createVertex(p)
  PROVE  StatementInv' /\ CounterInv'
<1>1. PICK reply \in Replies :
        LET v == <<p, Cardinality(Of(p)) + 1>> IN
        /\ Counting(reply)
        /\ vertices' = IF Done(reply) THEN vertices \cup {v} ELSE vertices
        /\ poster' = [poster EXCEPT ![p] = run([poster[p] EXCEPT !.vertex = v], reply, "connect", "failed")]
  BY DEF createVertex
<1>2. poster[p].at = "create" /\ UNCHANGED <<edges, counted>>
  BY DEF createVertex
<1>3. PICK n \in Nat : n = Cardinality(Of(p)) + 1
  <2>1. IsFiniteSet(Of(p))
    BY FS_Subset DEF StatementInv, Of
  <2>. QED  BY <2>1, FS_CardinalityType
<1>4. PICK v : v = <<p, n>>
  OBVIOUS
<1>5. v \in Posters \X Nat /\ v \in VertexType /\ v # <<>>
  BY <1>4 DEF VertexType
<1>6. poster[p] \in PosterType
  BY DEF StatementInv
<1>7. PICK u : u = [poster[p] EXCEPT !.vertex = v]
  OBVIOUS
<1>8. u \in PosterType /\ u.vertex = v /\ u.at = "create"
  BY <1>2, <1>5, <1>6, <1>7 DEF PosterType
<1>9. PICK w : w = run(u, reply, "connect", "failed")
  OBVIOUS
<1>10. w \in PosterType /\ w.vertex = v /\ w.at \in {"create", "connect", "failed"}
  BY <1>8, <1>9, RunIs DEF PosterSteps
<1>11. poster' = [poster EXCEPT ![p] = w]
  BY <1>1, <1>3, <1>4, <1>7, <1>9
<1>12. vertices' \subseteq Posters \X Nat /\ IsFiniteSet(vertices')
  BY <1>1, <1>3, <1>4, <1>5, FS_AddElement DEF StatementInv
<1>13. PosterOK(p, w, edges')
  BY <1>4, <1>5, <1>10 DEF PosterOK
<1>14. StatementInv'
  BY <1>2, <1>10, <1>11, <1>12, <1>13, StatementStep DEF StatementInv, EdgesOK
<1>15. CounterInv'
  <2>1. lost' \in {lost, lost + 1}
    BY <1>1, LostGrows
  <2>. QED  BY <1>2, <1>10, <1>11, <2>1, CounterStep DEF StatementInv
<1>. QED  BY <1>14, <1>15

\* The edge is made, once.
LEMMA ConnectKeeps ==
  ASSUME StatementInv, CounterInv, NEW p \in Posters, connect(p)
  PROVE  StatementInv' /\ CounterInv'
<1>1. PICK reply \in Replies :
        /\ Counting(reply)
        /\ edges' = IF Done(reply) THEN EdgeMade(poster[p].vertex) ELSE edges
        /\ poster' = [poster EXCEPT ![p] = run(poster[p], reply, "process", "failed")]
  BY DEF connect
<1>2. poster[p].at = "connect" /\ UNCHANGED <<vertices, counted>> /\ poster[p] \in PosterType
  BY DEF connect, StatementInv
<1>3. PICK v : v = poster[p].vertex
  OBVIOUS
<1>4. PICK n \in Nat : v = <<p, n>>
  BY <1>2, <1>3 DEF StatementInv, PosterOK
<1>5. PICK new : new = [from |-> v, nr |-> 1, process |-> FALSE]
  OBVIOUS
<1>6. new \in EdgeType /\ new.from = v
  BY <1>4, <1>5 DEF EdgeType, VertexPairs
<1>7. \/ edges' = edges
      \/ edges' = edges \cup {new} /\ \A e \in edges : e.from # v
  BY <1>1, <1>3, <1>5 DEF EdgeMade
<1>8. reply = "answer" => \E e \in edges' : e.from = v
  BY <1>1, <1>3, <1>5, <1>6 DEF EdgeMade, Done
<1>9. PICK w : w = run(poster[p], reply, "process", "failed")
  OBVIOUS
<1>10. /\ w \in PosterType /\ w.vertex = v /\ w.at \in {"connect", "process", "failed"}
       /\ w.at = "process" => reply = "answer"
  BY <1>2, <1>3, <1>9, RunIs DEF PosterSteps
<1>11. edges' \subseteq EdgeType /\ \A e, f \in edges' : e.from = f.from => e = f
  BY <1>6, <1>7 DEF StatementInv, EdgesOK
<1>12. PosterOK(p, w, edges')
  <2>1. v # <<>>
    BY <1>4
  <2>2. w.at = "process" => EdgesAt(v, edges') # {}
    BY <1>8, <1>10 DEF EdgesAt
  <2>. QED  BY <1>4, <1>10, <2>1, <2>2 DEF PosterOK
<1>13. \A e \in EdgeType : (e \in edges <=> e \in edges') \/ e.from = w.vertex
  BY <1>6, <1>7, <1>10
<1>14. StatementInv'
  <2>1. poster' = [poster EXCEPT ![p] = w]
    BY <1>1, <1>9
  <2>. QED  BY <1>2, <1>3, <1>10, <1>11, <1>12, <1>13, <2>1, StatementStep DEF StatementInv
<1>15. CounterInv'
  <2>1. lost' \in {lost, lost + 1}
    BY <1>1, LostGrows
  <2>2. poster' = [poster EXCEPT ![p] = w]
    BY <1>1, <1>9
  <2>. QED  BY <1>2, <1>10, <2>1, <2>2, CounterStep DEF StatementInv
<1>. QED  BY <1>14, <1>15

\* The process and the edges are read, ...
LEMMA ReadsKeep ==
  ASSUME StatementInv, CounterInv, NEW p \in Posters, readProcess(p) \/ edgesOf(p)
  PROVE  StatementInv' /\ CounterInv'
<1>. PICK v : v = poster[p].vertex
  OBVIOUS
<1>1. UNCHANGED <<vertices, edges, counted>> /\ poster[p] \in PosterType
  BY DEF readProcess, edgesOf, StatementInv
<1>2. /\ v = <<>> \/ \E n \in Nat : v = <<p, n>>
      /\ poster[p].at \in {"process", "find"} => v # <<>> /\ EdgesAt(v, edges) # {}
  BY DEF StatementInv, PosterOK
<1>3. \E w \in PosterType :
        /\ poster' = [poster EXCEPT ![p] = w] /\ poster[p].at \in {"process", "find"}
        /\ w.vertex = v /\ w.at \in {"process", "find", "tell", "failed"} /\ PosterOK(p, w, edges)
        /\ lost' \in {lost, lost + 1}
  <2>1. CASE readProcess(p)
    <3>1. PICK reply \in Replies :
            Counting(reply) /\ poster' = [poster EXCEPT ![p] = run(poster[p], reply, "find", "find")]
      BY <2>1 DEF readProcess
    <3>2. poster[p].at = "process"
      BY <2>1 DEF readProcess
    <3>3. PICK w : w = run(poster[p], reply, "find", "find")
      OBVIOUS
    <3>4. w \in PosterType /\ w.vertex = v /\ w.at \in {"process", "find"}
      BY <1>1, <3>2, <3>3, RunIs DEF PosterSteps
    <3>5. PosterOK(p, w, edges)
      BY <1>2, <3>2, <3>4 DEF PosterOK
    <3>6. lost' \in {lost, lost + 1}
      BY <3>1, LostGrows
    <3>. QED  BY <3>1, <3>2, <3>3, <3>4, <3>5, <3>6
  <2>2. CASE edgesOf(p)
    <3>1. PICK reply \in Replies :
            /\ Counting(reply)
            /\ poster' = [poster EXCEPT ![p] =
                 [run(poster[p], reply, "tell", "failed") EXCEPT !.todo = {e \in edges : e.from = poster[p].vertex}]]
      BY <2>2 DEF edgesOf
    <3>2. poster[p].at = "find"
      BY <2>2 DEF edgesOf
    <3>3. PICK u : u = run(poster[p], reply, "tell", "failed")
      OBVIOUS
    <3>4. u \in PosterType /\ u.vertex = v /\ u.at \in {"find", "tell", "failed"}
      BY <1>1, <3>2, <3>3, RunIs DEF PosterSteps
    <3>5. PICK t : t = {e \in edges : e.from = v}
      OBVIOUS
    <3>6. t \subseteq EdgeType /\ t = EdgesAt(v, edges) /\ t \subseteq EdgesAt(v, EdgeType)
      BY <3>5 DEF EdgesAt, StatementInv, EdgesOK
    <3>7. PICK w : w = [u EXCEPT !.todo = t]
      OBVIOUS
    <3>8. w \in PosterType /\ w.vertex = v /\ w.at \in {"find", "tell", "failed"} /\ w.todo = t
      BY <3>4, <3>6, <3>7 DEF PosterType
    <3>9. poster' = [poster EXCEPT ![p] = w]
      BY <3>1, <3>3, <3>5, <3>7
    <3>10. PosterOK(p, w, edges)
      <4>1. \A e \in t : e \in edges
        BY <3>5
      <4>. QED  BY <1>2, <3>2, <3>6, <3>8, <4>1 DEF PosterOK
    <3>11. lost' \in {lost, lost + 1}
      BY <3>1, LostGrows
    <3>. QED  BY <3>2, <3>8, <3>9, <3>10, <3>11
  <2>. QED  BY <2>1, <2>2
<1>4. PICK w \in PosterType :
        /\ poster' = [poster EXCEPT ![p] = w] /\ poster[p].at \in {"process", "find"}
        /\ w.vertex = v /\ w.at \in {"process", "find", "tell", "failed"} /\ PosterOK(p, w, edges)
        /\ lost' \in {lost, lost + 1}
  BY <1>3
<1>5. StatementInv'
  BY <1>1, <1>4, StatementStep DEF StatementInv, EdgesOK
<1>6. CounterInv'
  BY <1>1, <1>4, CounterStep DEF StatementInv
<1>. QED  BY <1>5, <1>6

\* An edge that knows its process.
LEMMA MarkedIs ==
  ASSUME NEW e \in EdgeType
  PROVE  Processed(e) = [e EXCEPT !.process = TRUE]
<1>1. PICK m : m = [e EXCEPT !.process = TRUE]
  OBVIOUS
<1>2. DOMAIN e = {"from", "nr", "process"}
  BY DEF EdgeType
<1>3. m = [f \in {"from", "nr", "process"} |-> IF f = "process" THEN TRUE ELSE e[f]]
  BY <1>1, <1>2
<1>4. m = [from |-> e.from, nr |-> e.nr, process |-> TRUE]
  BY <1>3
<1>. QED  BY <1>1, <1>4 DEF Processed

\* The edge is told its process.
LEMMA TellKeeps ==
  ASSUME StatementInv, CounterInv, NEW p \in Posters, tellEdge(p)
  PROVE  StatementInv' /\ CounterInv'
<1>1. PICK e \in poster[p].todo, reply \in Replies :
        /\ Counting(reply)
        /\ edges' = IF Done(reply) THEN (edges \ {e}) \cup {[e EXCEPT !.process = TRUE]} ELSE edges
        /\ poster' = [poster EXCEPT ![p] =
             [run(poster[p], reply, "tell", "failed") EXCEPT
                !.todo = IF reply = "answer" THEN poster[p].todo \ {e} ELSE poster[p].todo]]
  BY DEF tellEdge
<1>2. poster[p].at = "tell" /\ UNCHANGED <<vertices, counted>> /\ poster[p] \in PosterType
  BY DEF tellEdge, StatementInv
<1>. PICK v : v = poster[p].vertex
  OBVIOUS
<1>3. /\ \E n \in Nat : v = <<p, n>>
      /\ v # <<>> /\ EdgesAt(v, edges) # {}
      /\ poster[p].todo \subseteq EdgesAt(v, EdgeType)
      /\ \A f \in poster[p].todo : f \in edges \/ Processed(f) \in edges
      /\ \A f \in EdgesAt(v, edges) : f.process \/ f \in poster[p].todo
  BY <1>2 DEF StatementInv, PosterOK
<1>4. e \in EdgeType /\ e.from = v
  BY <1>3 DEF EdgesAt
<1>5. PICK marked : marked = Processed(e)
  OBVIOUS
<1>6. marked = [e EXCEPT !.process = TRUE] /\ marked \in EdgeType /\ marked.from = v /\ marked.process
  <2>1. PICK x, n : e.from = x /\ x \in VertexPairs /\ e.nr = n /\ n \in Nat
    BY <1>4 DEF EdgeType
  <2>2. marked = [from |-> x, nr |-> n, process |-> TRUE]
    BY <1>5, <2>1 DEF Processed
  <2>3. marked \in EdgeType /\ marked.from = v /\ marked.process
    BY <1>4, <2>1, <2>2 DEF EdgeType
  <2>4. marked = [e EXCEPT !.process = TRUE]
    BY <1>4, <1>5, MarkedIs
  <2>. QED  BY <2>3, <2>4
<1>7. e \in edges \/ marked \in edges
  BY <1>3, <1>5
<1>8. edges \subseteq EdgeType /\ \A f, g \in edges : f.from = g.from => f = g
  BY DEF StatementInv, EdgesOK
<1>9. edges' = (edges \ {e}) \cup {marked} \/ (reply # "answer" /\ edges' = edges)
  BY <1>1, <1>6 DEF Done
<1>10. /\ edges' \subseteq EdgeType /\ \A f, g \in edges' : f.from = g.from => f = g
       /\ \A f \in edges' : f.from = v => f = marked \/ (reply # "answer" /\ edges' = edges)
  BY <1>4, <1>6, <1>7, <1>8, <1>9
<1>11. \A f \in EdgeType : (f \in edges <=> f \in edges') \/ f.from = v
  BY <1>4, <1>6, <1>9
<1>12. PICK u : u = run(poster[p], reply, "tell", "failed")
  OBVIOUS
<1>13. u \in PosterType /\ u.vertex = v /\ u.at \in {"tell", "failed"}
  BY <1>2, <1>12, RunIs DEF PosterSteps
<1>14. PICK t : t = IF reply = "answer" THEN poster[p].todo \ {e} ELSE poster[p].todo
  OBVIOUS
<1>15. t \subseteq poster[p].todo /\ t \subseteq EdgeType /\ t \subseteq EdgesAt(v, EdgeType)
       /\ (reply # "answer" => t = poster[p].todo)
  BY <1>3, <1>14 DEF EdgesAt
<1>16. PICK w : w = [u EXCEPT !.todo = t]
  OBVIOUS
<1>17. w \in PosterType /\ w.vertex = v /\ w.at \in {"tell", "failed"} /\ w.todo = t
  BY <1>13, <1>15, <1>16 DEF PosterType
<1>18. poster' = [poster EXCEPT ![p] = w]
  BY <1>1, <1>12, <1>14, <1>16
<1>19. EdgesAt(v, edges') # {}
  BY <1>3, <1>6, <1>9 DEF EdgesAt
<1>20. \A f \in t : f \in edges' \/ Processed(f) \in edges'
  <2>. TAKE f \in t
  <2>1. f \in edges \/ Processed(f) \in edges
    BY <1>3, <1>15
  <2>2. f \in EdgeType /\ f.from = v /\ Processed(f) \in EdgeType /\ Processed(f).from = v
    BY <1>15 DEF EdgesAt, EdgeType, Processed
  <2>3. CASE edges' = edges
    BY <2>1, <2>3
  <2>4. CASE edges' = (edges \ {e}) \cup {marked}
    <3>1. CASE f \in edges
      <4>1. f = e \/ f \in edges'
        BY <2>4, <3>1
      <4>. QED  BY <1>5, <2>4, <4>1
    <3>2. CASE Processed(f) \in edges
      <4>1. Processed(f) # e => Processed(f) \in edges'
        BY <2>4, <3>2
      <4>2. Processed(f) = e => Processed(e) = e
        BY DEF Processed
      <4>. QED  BY <1>5, <2>4, <4>1, <4>2
    <3>. QED  BY <2>1, <3>1, <3>2
  <2>. QED  BY <1>9, <2>3, <2>4
<1>21. \A f \in EdgesAt(v, edges') : f.process \/ f \in t
  <2>. TAKE f \in EdgesAt(v, edges')
  <2>1. f \in edges' /\ f.from = v
    BY DEF EdgesAt
  <2>2. CASE f = marked
    BY <1>6, <2>2
  <2>3. CASE reply # "answer" /\ edges' = edges
    <3>1. f \in EdgesAt(v, edges)
      BY <2>1, <2>3 DEF EdgesAt
    <3>. QED  BY <1>3, <1>15, <2>3, <3>1
  <2>. QED  BY <1>10, <2>1, <2>2, <2>3
<1>22. PosterOK(p, w, edges')
  BY <1>3, <1>15, <1>17, <1>19, <1>20, <1>21 DEF PosterOK
<1>23. StatementInv'
  BY <1>2, <1>10, <1>11, <1>17, <1>18, <1>22, StatementStep DEF StatementInv
<1>24. CounterInv'
  <2>1. lost' \in {lost, lost + 1}
    BY <1>1, LostGrows
  <2>. QED  BY <1>2, <1>17, <1>18, <2>1, CounterStep DEF StatementInv
<1>. QED  BY <1>23, <1>24

\* Nothing is left to tell.
LEMMA ToldKeeps ==
  ASSUME StatementInv, CounterInv, NEW p \in Posters, told(p)
  PROVE  StatementInv' /\ CounterInv'
<1>1. /\ poster[p].at = "tell" /\ poster[p].todo = {} /\ poster[p] \in PosterType
      /\ poster' = [poster EXCEPT ![p].at = "count"]
      /\ UNCHANGED <<vertices, edges, counted, lost>>
  BY DEF told, StatementInv
<1>2. PICK w : w = [poster[p] EXCEPT !.at = "count"]
  OBVIOUS
<1>3. w \in PosterType /\ w.at = "count" /\ w.vertex = poster[p].vertex
  BY <1>1, <1>2 DEF PosterType, PosterSteps
<1>4. poster' = [poster EXCEPT ![p] = w]
  BY <1>1, <1>2
<1>5. PosterOK(p, w, edges)
  <2>1. PosterOK(p, poster[p], edges)
    BY DEF StatementInv
  <2>. QED  BY <1>1, <1>3, <2>1 DEF PosterOK
<1>6. StatementInv'
  BY <1>1, <1>3, <1>4, <1>5, StatementStep DEF StatementInv, EdgesOK
<1>7. CounterInv'
  BY <1>1, <1>3, <1>4, CounterStep DEF StatementInv, CounterInv
<1>. QED  BY <1>6, <1>7

\* An output is counted; once more for each answer that is lost.
LEMMA IncrementKeeps ==
  ASSUME StatementInv, CounterInv, NEW p \in Posters, incrementProcessed(p)
  PROVE  StatementInv' /\ CounterInv'
<1>1. PICK reply \in Replies :
        /\ Counting(reply)
        /\ counted' = IF Done(reply) THEN counted + 1 ELSE counted
        /\ poster' = [poster EXCEPT ![p] = run(poster[p], reply, "done", "failed")]
  BY DEF incrementProcessed
<1>2. poster[p].at = "count" /\ UNCHANGED <<vertices, edges>> /\ poster[p] \in PosterType
  BY DEF incrementProcessed, StatementInv
<1>3. PICK w : w = run(poster[p], reply, "done", "failed")
  OBVIOUS
<1>4. /\ w \in PosterType /\ w.vertex = poster[p].vertex /\ w.at \in {"count", "done", "failed"}
      /\ w.at = "done" <=> reply = "answer"
  BY <1>2, <1>3, RunIs DEF PosterSteps
<1>5. poster' = [poster EXCEPT ![p] = w]
  BY <1>1, <1>3
<1>6. PosterOK(p, w, edges)
  <2>1. PosterOK(p, poster[p], edges)
    BY DEF StatementInv
  <2>. QED  BY <1>2, <1>4, <2>1 DEF PosterOK
<1>7. StatementInv'
  BY <1>2, <1>4, <1>5, <1>6, StatementStep DEF StatementInv, EdgesOK
<1>8. /\ poster'[p] = w /\ \A q \in Posters \ {p} : poster'[q] = poster[q]
  BY <1>5 DEF StatementInv
<1>9. IsFiniteSet(PostDone) /\ Cardinality(PostDone) \in Nat
  BY FS_Subset, FS_CardinalityType, ClientConstants DEF PostDone
<1>10. CASE reply = "answer"
  <2>1. PostDone' = PostDone \cup {p} /\ p \notin PostDone
    BY <1>2, <1>4, <1>8, <1>10 DEF PostDone
  <2>2. Cardinality(PostDone') = Cardinality(PostDone) + 1
    BY <1>9, <2>1, FS_AddElement
  <2>3. counted' = counted + 1 /\ lost' = lost
    BY <1>1, <1>10, LostGrows DEF Done
  <2>. QED  BY <1>7, <1>9, <2>2, <2>3 DEF CounterInv
<1>11. CASE reply # "answer"
  <2>1. PostDone' = PostDone
    BY <1>2, <1>4, <1>8, <1>11 DEF PostDone
  <2>2. \/ counted' = counted /\ lost' \in {lost, lost + 1}
        \/ counted' = counted + 1 /\ lost' = lost + 1
    BY <1>1, <1>11, LostGrows DEF Done, Replies
  <2>. QED  BY <1>7, <1>9, <2>1, <2>2 DEF CounterInv
<1>. QED  BY <1>10, <1>11

-----------------------------------------------------------------------------
(* Records read by their RIDs.                                             *)

ReaderType == [at: {"idle", "chunk", "single", "done", "failed"}, rids: Seq(Records), from: Nat, k: Nat,
               attempt: Nat, rows: Seq(Records), start: SUBSET Records]

LeastOf(a, b) == IF a <= b THEN a ELSE b
ChunkEnd(r) == LeastOf(r.from + ReadChunk - 1, Len(r.rids))

\* How many of the RIDs have been dealt with.
Upto(r) == IF r.at = "chunk" THEN r.from - 1
           ELSE IF r.at = "single" THEN r.from + r.k - 2 ELSE Len(r.rids)

\* The first n RIDs have been read: what is there still has its row, once.
RowsOK(r, n, there) ==
  /\ IsInjective(r.rows)
  /\ \A i \in DOMAIN r.rows : r.rows[i] \in r.start /\ \E j \in 1 .. n : r.rids[j] = r.rows[i]
  /\ \A j \in 1 .. n : r.rids[j] \in there => \E i \in DOMAIN r.rows : r.rows[i] = r.rids[j]

ReaderOK(r, there) ==
  r.at \in {"chunk", "single", "done"} =>
    /\ IsInjective(r.rids) /\ there \subseteq r.start
    /\ r.at \in {"chunk", "single"} => r.from \in 1 .. Len(r.rids)
    /\ r.at = "single" => r.k \in 1 .. ChunkEnd(r) - r.from + 1
    /\ RowsOK(r, Upto(r), there)

ReadInv == present \subseteq Records /\ reading \in ReaderType /\ ReaderOK(reading, present)

LEMMA ChunkIs ==
  ASSUME NEW r \in ReaderType, r.from \in 1 .. Len(r.rids), reading = r
  PROVE  /\ ChunkEnd(r) \in Nat /\ ChunkEnd(r) >= r.from /\ ChunkEnd(r) <= Len(r.rids)
         /\ ChunkEnd(r) = Len(r.rids) <=> r.from + ReadChunk > Len(r.rids)
         /\ r.from + ReadChunk <= Len(r.rids) => ChunkEnd(r) = r.from + ReadChunk - 1
         /\ Chunk \in Seq(Records) /\ Len(Chunk) = ChunkEnd(r) - r.from + 1
         /\ \A i \in 1 .. Len(Chunk) : Chunk[i] = r.rids[r.from + i - 1]
<1>1. /\ r.from \in Nat /\ r.from >= 1 /\ r.rids \in Seq(Records) /\ Len(r.rids) \in Nat
      /\ r.from <= Len(r.rids) /\ ReadChunk \in Nat /\ ReadChunk >= 1
  BY ClientConstants DEF ReaderType
<1>2. PICK a \in Nat : a = r.from + ReadChunk - 1
  BY <1>1
<1>3. PICK l \in Nat : l = Len(r.rids)
  BY <1>1
<1>4. PICK m : m = LeastOf(a, l)
  OBVIOUS
<1>5. m \in {a, l} /\ m <= a /\ m <= l /\ m \in Nat
  BY <1>4 DEF LeastOf
<1>6. Min({a, l}) = m
  <2>1. \A x \in {a, l} : (\A y \in {a, l} : x <= y) <=> x = m
    BY <1>5
  <2>. QED  BY <1>5, <2>1 DEF Min
<1>7. Chunk = SubSeq(r.rids, r.from, m)
  BY <1>2, <1>3, <1>6 DEF Chunk
<1>8. ChunkEnd(r) = m /\ m >= r.from
  BY <1>1, <1>2, <1>3, <1>4, <1>5 DEF ChunkEnd
<1>9. \A i \in r.from .. m : r.rids[i] \in Records
  BY <1>1, <1>3, <1>5
<1>10. /\ Chunk \in Seq(Records) /\ Len(Chunk) = m - r.from + 1
       /\ \A i \in 1 .. m - r.from + 1 : Chunk[i] = r.rids[r.from + i - 1]
  BY <1>1, <1>5, <1>7, <1>8, <1>9, SubSeqProperties
<1>. QED  BY <1>1, <1>2, <1>3, <1>5, <1>8, <1>10

\* The RIDs that are asked for, each once.
LEMMA CleanIs ==
  ASSUME NEW rids \in RidLists
  PROVE  Clean(rids) \in Seq(Records) /\ IsInjective(Clean(rids))
<1>. PICK F : F = Firsts(rids)
  OBVIOUS
<1>1. DOMAIN rids = 1 .. Len(rids) /\ Len(rids) \in Nat
  BY ClientConstants
<1>2. /\ F \subseteq 1 .. Len(rids) /\ F \subseteq Nat
      /\ \A i \in F : rids[i] \in Records /\ \A j \in 1 .. i - 1 : rids[j] # rids[i]
  BY <1>1 DEF Firsts
<1>3. IsFiniteSet(F) /\ Cardinality(F) \in Nat
  <2>1. IsFiniteSet(1 .. Len(rids))
    BY <1>1, FS_Interval
  <2>. QED  BY <1>2, <2>1, SizesGrow
<1>4. PICK size \in Nat : size = Cardinality(F)
  BY <1>3
<1>5. ASSUME NEW n \in 1 .. size
      PROVE  \E i \in F : Place(F, i) = n - 1
  <2>1. n - 1 \in Nat /\ n - 1 < size
    BY <1>4
  <2>2. CASE \E f \in F : Place(F, f) >= n - 1
    BY <1>2, <1>3, <2>1, <2>2, PlaceTaken
  <2>3. CASE ~\E f \in F : Place(F, f) >= n - 1
    <3>1. \A f \in F : Place(F, f) \in Nat
      BY <1>2, <1>3, PlaceFacts
    <3>2. \A f \in F : Place(F, f) >= 0 /\ Place(F, f) < 0 + (n - 1)
      BY <2>1, <2>3, <3>1
    <3>3. Cardinality(F) <= n - 1
      BY <1>2, <1>3, <2>1, <3>2, PlaceWindow
    <3>. QED  BY <1>4, <2>1, <3>3
  <2>. QED  BY <2>2, <2>3
<1>6. PICK c : c = [n \in 1 .. size |-> CHOOSE i \in F : Place(F, i) = n - 1]
  OBVIOUS
<1>7. \A n \in 1 .. size : c[n] \in F /\ Place(F, c[n]) = n - 1
  BY <1>5, <1>6
<1>8. Clean(rids) = [n \in 1 .. size |-> rids[c[n]]]
  BY <1>4, <1>6 DEF Clean, Place
<1>9. PICK s : s = [n \in 1 .. size |-> rids[c[n]]]
  OBVIOUS
<1>10. s \in Seq(Records)
  <2>1. s \in [1 .. size -> Records]
    BY <1>2, <1>7, <1>9
  <2>. QED  BY <2>1
<1>11. ASSUME NEW n \in 1 .. size, NEW m \in 1 .. size, s[n] = s[m]
       PROVE  n = m
  <2>1. rids[c[n]] = rids[c[m]]
    BY <1>9, <1>11
  <2>2. PICK x \in F, y \in F : x = c[n] /\ y = c[m]
    BY <1>7
  <2>3. x \in Nat /\ y \in Nat /\ x >= 1 /\ y >= 1
    BY <1>2
  <2>4. ~(x < y) /\ ~(y < x)
    BY <1>2, <2>1, <2>2, <2>3
  <2>5. c[n] = c[m]
    BY <2>2, <2>3, <2>4
  <2>6. n - 1 = m - 1
    BY <1>7, <2>5
  <2>. QED  BY <2>6
<1>12. IsInjective(s)
  BY <1>9, <1>11 DEF IsInjective
<1>. QED  BY <1>8, <1>9, <1>10, <1>12

\* Rows are added for a stretch of the RIDs: one for each that is there.
LEMMA RowsGrow ==
  ASSUME NEW r \in ReaderType, NEW w \in ReaderType, NEW n \in Nat, NEW m \in Nat, NEW there, NEW new,
         there \subseteq r.start, IsInjective(r.rids), n <= m, m <= Len(r.rids), RowsOK(r, n, there),
         new \in Seq(Records), IsInjective(new),
         \A i \in 1 .. Len(new) : new[i] \in there /\ \E j \in n + 1 .. m : r.rids[j] = new[i],
         \A j \in n + 1 .. m : r.rids[j] \in there => \E i \in 1 .. Len(new) : new[i] = r.rids[j],
         w.rids = r.rids, w.start = r.start, w.rows = r.rows \o new
  PROVE  RowsOK(w, m, there)
<1>1. PICK old : old = r.rows
  OBVIOUS
<1>2. PICK all : all = w.rows
  OBVIOUS
<1>3. old \in Seq(Records) /\ r.rids \in Seq(Records)
  BY <1>1 DEF ReaderType
<1>4. PICK a \in Nat, b \in Nat : a = Len(old) /\ b = Len(new)
  BY <1>3, LenProperties
<1>5. /\ all = old \o new /\ Len(all) = a + b /\ all \in Seq(Records)
      /\ \A i \in 1 .. a + b : all[i] = IF i <= a THEN old[i] ELSE new[i - a]
  BY <1>1, <1>2, <1>3, <1>4, ConcatProperties
<1>6. DOMAIN old = 1 .. a /\ DOMAIN new = 1 .. b /\ DOMAIN all = 1 .. a + b
  BY <1>3, <1>4, <1>5, LenProperties
<1>7. /\ \A i, k \in 1 .. a : old[i] = old[k] => i = k
      /\ \A i, k \in 1 .. b : new[i] = new[k] => i = k
  BY <1>1, <1>6 DEF RowsOK, IsInjective
<1>8. /\ \A i \in 1 .. a : old[i] \in r.start /\ \E j \in 1 .. n : r.rids[j] = old[i]
      /\ \A j \in 1 .. n : r.rids[j] \in there => \E i \in 1 .. a : old[i] = r.rids[j]
  BY <1>1, <1>6 DEF RowsOK
<1>9. PICK l \in Nat : l = Len(r.rids) /\ DOMAIN r.rids = 1 .. l
  BY <1>3, LenProperties
<1>10. \A i, k \in 1 .. l : r.rids[i] = r.rids[k] => i = k
  BY <1>9 DEF IsInjective
<1>11. ASSUME NEW i \in 1 .. a, NEW k \in 1 .. b
       PROVE  old[i] # new[k]
  <2>1. PICK x \in 1 .. n : r.rids[x] = old[i]
    BY <1>8
  <2>2. PICK y \in n + 1 .. m : r.rids[y] = new[k]
    BY <1>4
  <2>3. x \in 1 .. l /\ y \in 1 .. l /\ x # y
    BY <1>9
  <2>. QED  BY <1>10, <2>1, <2>2, <2>3
<1>12. ASSUME NEW i \in 1 .. a + b, NEW k \in 1 .. a + b, all[i] = all[k]
       PROVE  i = k
  <2>1. CASE i <= a /\ k <= a
    <3>1. i \in 1 .. a /\ k \in 1 .. a /\ old[i] = old[k]
      BY <1>5, <1>12, <2>1
    <3>. QED  BY <1>7, <3>1
  <2>2. CASE i > a /\ k > a
    <3>1. i - a \in 1 .. b /\ k - a \in 1 .. b /\ new[i - a] = new[k - a]
      BY <1>5, <1>12, <2>2
    <3>2. i - a = k - a
      BY <1>7, <3>1
    <3>. QED  BY <3>2
  <2>3. CASE i <= a /\ k > a
    <3>1. i \in 1 .. a /\ k - a \in 1 .. b /\ old[i] = new[k - a]
      BY <1>5, <1>12, <2>3
    <3>. QED  BY <1>11, <3>1
  <2>4. CASE i > a /\ k <= a
    <3>1. i - a \in 1 .. b /\ k \in 1 .. a /\ old[k] = new[i - a]
      BY <1>5, <1>12, <2>4
    <3>. QED  BY <1>11, <3>1
  <2>. QED  BY <2>1, <2>2, <2>3, <2>4
<1>13. IsInjective(all)
  BY <1>6, <1>12 DEF IsInjective
<1>14. ASSUME NEW i \in 1 .. a + b
       PROVE  all[i] \in r.start /\ \E j \in 1 .. m : r.rids[j] = all[i]
  <2>1. CASE i <= a
    <3>1. i \in 1 .. a /\ all[i] = old[i]
      BY <1>5, <2>1
    <3>2. PICK j \in 1 .. n : r.rids[j] = old[i]
      BY <1>8, <3>1
    <3>3. j \in 1 .. m
      OBVIOUS
    <3>. QED  BY <1>8, <3>1, <3>2, <3>3
  <2>2. CASE i > a
    <3>1. i - a \in 1 .. b /\ all[i] = new[i - a]
      BY <1>5, <2>2
    <3>2. new[i - a] \in there
      BY <1>4, <3>1
    <3>3. PICK j \in n + 1 .. m : r.rids[j] = new[i - a]
      BY <1>4, <3>1
    <3>4. j \in 1 .. m
      OBVIOUS
    <3>. QED  BY <3>1, <3>2, <3>3, <3>4
  <2>. QED  BY <2>1, <2>2
<1>15. ASSUME NEW j \in 1 .. m, r.rids[j] \in there
       PROVE  \E i \in 1 .. a + b : all[i] = r.rids[j]
  <2>1. CASE j <= n
    <3>1. PICK i \in 1 .. a : old[i] = r.rids[j]
      BY <1>8, <1>15, <2>1
    <3>2. i \in 1 .. a + b /\ all[i] = old[i]
      BY <1>5
    <3>. QED  BY <3>1, <3>2
  <2>2. CASE j > n
    <3>1. PICK i \in 1 .. b : new[i] = r.rids[j]
      BY <1>4, <1>15, <2>2
    <3>2. i + a \in 1 .. a + b /\ i + a > a /\ (i + a) - a = i
      OBVIOUS
    <3>3. all[i + a] = new[i]
      BY <1>5, <3>2
    <3>. QED  BY <3>1, <3>2, <3>3
  <2>. QED  BY <2>1, <2>2
<1>16. \A i \in DOMAIN all : all[i] \in w.start /\ \E j \in 1 .. m : w.rids[j] = all[i]
  BY <1>6, <1>14
<1>17. \A j \in 1 .. m : w.rids[j] \in there => \E i \in DOMAIN all : all[i] = w.rids[j]
  BY <1>6, <1>15
<1>. QED  BY <1>2, <1>13, <1>16, <1>17 DEF RowsOK

\* What an answer, or none, makes of a read.
LEMMA ReaderRunIs ==
  ASSUME NEW r \in ReaderType, NEW reply, reply # "answer", r.at \in {"chunk", "single"}
  PROVE  \E a \in Nat : \/ run(r, reply, r.at, "failed") = [r EXCEPT !.attempt = a]
                        \/ run(r, reply, r.at, "failed") = [r EXCEPT !.at = "failed", !.attempt = a]
<1>1. r.attempt + 1 \in Nat /\ 1 \in Nat
  BY DEF ReaderType
<1>. QED  BY <1>1 DEF run

LEMMA UnansweredKeeps ==
  ASSUME ReadInv, NEW reply, reply # "answer", reading.at \in {"chunk", "single"}, UNCHANGED present,
         reading' = run(reading, reply, reading.at, "failed")
  PROVE  ReadInv'
<1>. PICK r : r = reading
  OBVIOUS
<1>1. r \in ReaderType /\ ReaderOK(r, present) /\ present \subseteq Records
  BY DEF ReadInv
<1>2. PICK a \in Nat : \/ reading' = [r EXCEPT !.attempt = a]
                       \/ reading' = [r EXCEPT !.at = "failed", !.attempt = a]
  <2>1. r.at \in {"chunk", "single"} /\ reading' = run(r, reply, r.at, "failed")
    OBVIOUS
  <2>2. \E a \in Nat : \/ run(r, reply, r.at, "failed") = [r EXCEPT !.attempt = a]
                       \/ run(r, reply, r.at, "failed") = [r EXCEPT !.at = "failed", !.attempt = a]
    BY <1>1, <2>1, ReaderRunIs
  <2>. QED  BY <2>1, <2>2
<1>3. CASE reading' = [r EXCEPT !.attempt = a]
  <2>1. PICK w : w = [r EXCEPT !.attempt = a]
    OBVIOUS
  <2>2. /\ w \in ReaderType /\ w.at = r.at /\ w.rids = r.rids /\ w.from = r.from /\ w.k = r.k
        /\ w.rows = r.rows /\ w.start = r.start
    BY <1>1, <2>1 DEF ReaderType
  <2>3. ReaderOK(w, present)
    BY <1>1, <2>2 DEF ReaderOK, RowsOK, Upto, ChunkEnd
  <2>. QED  BY <1>1, <1>3, <2>1, <2>2, <2>3 DEF ReadInv
<1>4. CASE reading' = [r EXCEPT !.at = "failed", !.attempt = a]
  <2>1. PICK w : w = [r EXCEPT !.at = "failed", !.attempt = a]
    OBVIOUS
  <2>2. w \in ReaderType /\ w.at = "failed"
    BY <1>1, <2>1 DEF ReaderType
  <2>3. ReaderOK(w, present)
    BY <2>2 DEF ReaderOK
  <2>. QED  BY <1>1, <1>4, <2>1, <2>2, <2>3 DEF ReadInv
<1>. QED  BY <1>2, <1>3, <1>4

\* A read begins: none of its RIDs has been dealt with.
LEMMA BeginReadKeeps ==
  ASSUME ReadInv, NEW rids \in RidLists, readByRids(rids)
  PROVE  ReadInv'
<1>. PICK c : c = Clean(rids)
  OBVIOUS
<1>1. c \in Seq(Records) /\ IsInjective(c) /\ present \subseteq Records
  BY CleanIs DEF ReadInv
<1>2. PICK a : a = IF c = <<>> THEN "done" ELSE "chunk"
  OBVIOUS
<1>3. PICK w : w = [NoRead EXCEPT !.at = a, !.rids = c, !.start = present]
  OBVIOUS
<1>4. reading' = w /\ present' = present
  BY <1>2, <1>3 DEF readByRids
<1>5. a \in {"idle", "chunk", "single", "done", "failed"} /\ <<>> \in Seq(Records) /\ Len(c) \in Nat
  BY <1>1, <1>2, LenProperties, EmptySeq
<1>6. /\ w \in ReaderType /\ w.at = a /\ w.rids = c /\ w.from = 1 /\ w.rows = <<>> /\ w.start = present
      /\ a \in {"done", "chunk"}
  <2>1. NoRead \in ReaderType /\ NoRead.from = 1 /\ NoRead.rows = <<>>
    BY <1>5 DEF NoRead, ReaderType
  <2>. QED  BY <1>1, <1>2, <1>3, <1>5, <2>1 DEF ReaderType
<1>7. Upto(w) = 0 /\ (a = "chunk" => 1 \in 1 .. Len(c))
  <2>1. CASE c = <<>>
    BY <1>2, <1>6, <2>1 DEF Upto
  <2>2. CASE c # <<>>
    <3>1. Len(c) >= 1
      BY <1>1, <2>2, EmptySeq
    <3>2. a = "chunk"
      BY <1>2, <2>2
    <3>. QED  BY <1>5, <1>6, <3>1, <3>2 DEF Upto
  <2>. QED  BY <2>1, <2>2
<1>8. RowsOK(w, 0, present)
  <2>1. DOMAIN <<>> = {}
    OBVIOUS
  <2>2. IsInjective(<<>>)
    BY <2>1 DEF IsInjective
  <2>. QED  BY <1>6, <2>1, <2>2 DEF RowsOK
<1>9. ReaderOK(w, present)
  BY <1>1, <1>6, <1>7, <1>8 DEF ReaderOK
<1>. QED  BY <1>1, <1>4, <1>6, <1>9 DEF ReadInv

\* A chunk has been dealt with.
LEMMA NextChunkKeeps ==
  ASSUME NEW r \in ReaderType, reading \in ReaderType, reading.rids = r.rids, reading.from = r.from,
         r.from \in 1 .. Len(r.rids), IsInjective(r.rids), NEW there, there \subseteq r.start,
         r.at \in {"chunk", "single"}, RowsOK(r, ChunkEnd(r), there)
  PROVE  NextChunk(r) \in ReaderType /\ ReaderOK(NextChunk(r), there)
<1>1. PICK f \in Nat, l \in Nat : f = r.from + ReadChunk /\ l = Len(r.rids)
  BY ClientConstants, LenProperties DEF ReaderType
<1>2. PICK a \in {"done", "chunk"} : a = IF f > l THEN "done" ELSE "chunk"
  OBVIOUS
<1>3. PICK w : w = [r EXCEPT !.k = 0, !.from = f, !.at = a]
  OBVIOUS
<1>4. NextChunk(r) = w
  BY <1>1, <1>2, <1>3 DEF NextChunk
<1>5. /\ w \in ReaderType /\ w.at = a /\ w.rids = r.rids /\ w.from = f
      /\ w.rows = r.rows /\ w.start = r.start
  BY <1>3 DEF ReaderType
<1>6. /\ ChunkEnd(r) = l <=> f > l
      /\ f <= l => ChunkEnd(r) = f - 1
  <2>1. ChunkEnd(reading) = ChunkEnd(r)
    BY DEF ChunkEnd
  <2>2. reading.from \in 1 .. Len(reading.rids)
    OBVIOUS
  <2>3. /\ ChunkEnd(reading) = Len(reading.rids) <=> reading.from + ReadChunk > Len(reading.rids)
        /\ reading.from + ReadChunk <= Len(reading.rids) => ChunkEnd(reading) = reading.from + ReadChunk - 1
    BY <2>2, ChunkIs
  <2>4. r.from \in Nat /\ ReadChunk \in Nat
    BY ClientConstants DEF ReaderType
  <2>5. r.from + ReadChunk - 1 = f - 1
    BY <1>1, <2>4
  <2>6. ChunkEnd(r) = l <=> f > l
    BY <1>1, <2>1, <2>3
  <2>7. f <= l => ChunkEnd(r) = f - 1
    BY <1>1, <2>1, <2>3, <2>5
  <2>. QED  BY <2>6, <2>7
<1>7. Upto(w) = ChunkEnd(r)
  BY <1>1, <1>2, <1>5, <1>6 DEF Upto
<1>8. a = "chunk" => w.from \in 1 .. l
  <2>1. f >= 1
    BY <1>1, ClientConstants
  <2>. QED  BY <1>2, <1>5, <2>1
<1>9. RowsOK(w, ChunkEnd(r), there)
  BY <1>5 DEF RowsOK
<1>10. ReaderOK(w, there)
  BY <1>1, <1>5, <1>7, <1>8, <1>9 DEF ReaderOK
<1>. QED  BY <1>4, <1>5, <1>10

\* A chunk is read whole, or one by one from now on.
LEMMA ReadChunkKeeps ==
  ASSUME ReadInv, readChunk
  PROVE  ReadInv'
<1>. PICK r : r = reading
  OBVIOUS
<1>1. /\ r \in ReaderType /\ r.at = "chunk" /\ present \subseteq Records /\ present' = present
      /\ IsInjective(r.rids) /\ present \subseteq r.start /\ r.from \in 1 .. Len(r.rids)
      /\ RowsOK(r, r.from - 1, present)
  BY DEF ReadInv, ReaderOK, Upto, readChunk
<1>2. PICK reply \in Replies :
        reading' =
          IF reply # "answer" THEN run(reading, reply, "chunk", "failed")
          ELSE IF ToSet(Chunk) \subseteq present
          THEN NextChunk([reading EXCEPT !.rows = reading.rows \o Chunk, !.attempt = 1])
          ELSE [reading EXCEPT !.at = "single", !.k = 1, !.attempt = 1]
  BY DEF readChunk
<1>3. CASE reply # "answer"
  BY <1>1, <1>2, <1>3, UnansweredKeeps
<1>4. PICK m \in Nat, f \in Nat : m = ChunkEnd(r) /\ f = r.from
  BY <1>1, ChunkIs
<1>5. /\ m >= f /\ m <= Len(r.rids) /\ f >= 1 /\ Chunk \in Seq(Records) /\ Len(Chunk) = m - f + 1
      /\ \A i \in 1 .. m - f + 1 : Chunk[i] = r.rids[f + i - 1]
  BY <1>1, <1>4, ChunkIs
<1>6. r.rids \in Seq(Records) /\ r.rows \in Seq(Records) /\ DOMAIN Chunk = 1 .. m - f + 1
  BY <1>1, <1>5, LenProperties DEF ReaderType
<1>7. CASE reply = "answer" /\ ToSet(Chunk) \subseteq present
  <2>1. PICK rows \in Seq(Records) : rows = r.rows \o Chunk
    BY <1>5, <1>6, ConcatProperties
  <2>2. PICK w : w = [r EXCEPT !.rows = rows, !.attempt = 1]
    OBVIOUS
  <2>3. /\ w \in ReaderType /\ w.at = "chunk" /\ w.rids = r.rids /\ w.from = r.from
        /\ w.rows = r.rows \o Chunk /\ w.start = r.start
    BY <1>1, <2>1, <2>2 DEF ReaderType
  <2>4. reading' = NextChunk(w)
    BY <1>2, <1>7, <2>1, <2>2
  <2>5. \A i \in 1 .. Len(Chunk) : Chunk[i] \in present /\ \E j \in f - 1 + 1 .. m : r.rids[j] = Chunk[i]
    <3>. TAKE i \in 1 .. Len(Chunk)
    <3>1. Chunk[i] \in present
      BY <1>5, <1>6, <1>7 DEF ToSet
    <3>2. f + i - 1 \in f - 1 + 1 .. m /\ Chunk[i] = r.rids[f + i - 1]
      BY <1>5
    <3>. QED  BY <3>1, <3>2
  <2>6. \A j \in f - 1 + 1 .. m : \E i \in 1 .. Len(Chunk) : Chunk[i] = r.rids[j]
    <3>. TAKE j \in f - 1 + 1 .. m
    <3>1. j - f + 1 \in 1 .. Len(Chunk) /\ f + (j - f + 1) - 1 = j
      BY <1>5
    <3>2. Chunk[j - f + 1] = r.rids[j]
      BY <1>5, <3>1
    <3>. QED  BY <3>1, <3>2
  <2>7. IsInjective(Chunk)
    <3>1. DOMAIN r.rids = 1 .. Len(r.rids) /\ Len(r.rids) \in Nat
      BY <1>6, LenProperties
    <3>2. ASSUME NEW i \in 1 .. m - f + 1, NEW k \in 1 .. m - f + 1, Chunk[i] = Chunk[k]
          PROVE  i = k
      <4>1. f + i - 1 \in 1 .. Len(r.rids) /\ f + k - 1 \in 1 .. Len(r.rids)
        BY <1>5, <3>1
      <4>2. r.rids[f + i - 1] = r.rids[f + k - 1]
        BY <1>5, <3>2
      <4>3. f + i - 1 = f + k - 1
        BY <1>1, <3>1, <4>1, <4>2 DEF IsInjective
      <4>. QED  BY <4>3
    <3>. QED  BY <1>6, <3>2 DEF IsInjective
  <2>8. f - 1 \in Nat /\ f - 1 <= m
    BY <1>5
  <2>9. RowsOK(w, m, present)
    <3>1. RowsOK(r, f - 1, present)
      BY <1>1, <1>4
    <3>. QED  BY <1>1, <1>5, <2>3, <2>5, <2>6, <2>7, <2>8, <3>1, RowsGrow
  <2>10. ChunkEnd(w) = m
    BY <1>4, <2>3 DEF ChunkEnd
  <2>11. NextChunk(w) \in ReaderType /\ ReaderOK(NextChunk(w), present)
    BY <1>1, <2>3, <2>9, <2>10, NextChunkKeeps
  <2>. QED  BY <1>1, <2>4, <2>11 DEF ReadInv
<1>8. CASE reply = "answer" /\ ~(ToSet(Chunk) \subseteq present)
  <2>1. PICK w : w = [r EXCEPT !.at = "single", !.k = 1, !.attempt = 1]
    OBVIOUS
  <2>2. /\ w \in ReaderType /\ w.at = "single" /\ w.rids = r.rids /\ w.from = r.from /\ w.k = 1
        /\ w.rows = r.rows /\ w.start = r.start
    BY <1>1, <2>1 DEF ReaderType
  <2>3. Upto(w) = f - 1
    BY <1>4, <2>2 DEF Upto
  <2>4. RowsOK(w, f - 1, present)
    BY <1>1, <1>4, <2>2 DEF RowsOK
  <2>5. ChunkEnd(w) = m
    BY <1>4, <2>2 DEF ChunkEnd
  <2>6. ReaderOK(w, present)
    BY <1>1, <1>4, <1>5, <2>2, <2>3, <2>4, <2>5 DEF ReaderOK
  <2>. QED  BY <1>1, <1>2, <1>8, <2>1, <2>2, <2>6 DEF ReadInv
<1>. QED  BY <1>3, <1>7, <1>8

\* One of a chunk is read.
LEMMA ReadSingleKeeps ==
  ASSUME ReadInv, readSingle
  PROVE  ReadInv'
<1>. PICK r : r = reading
  OBVIOUS
<1>1. /\ r \in ReaderType /\ r.at = "single" /\ present \subseteq Records /\ present' = present
      /\ IsInjective(r.rids) /\ present \subseteq r.start /\ r.from \in 1 .. Len(r.rids)
      /\ r.k \in 1 .. ChunkEnd(r) - r.from + 1 /\ RowsOK(r, r.from + r.k - 2, present)
  BY DEF ReadInv, ReaderOK, Upto, readSingle
<1>2. PICK reply \in Replies :
        reading' = IF reply # "answer" THEN run(reading, reply, "single", "failed")
                   ELSE OneRead([reading EXCEPT !.attempt = 1], Chunk[reading.k])
  BY DEF readSingle
<1>3. CASE reply # "answer"
  BY <1>1, <1>2, <1>3, UnansweredKeeps
<1>4. PICK m \in Nat, f \in Nat, k \in Nat : m = ChunkEnd(r) /\ f = r.from /\ k = r.k
  BY <1>1, ChunkIs DEF ReaderType
<1>5. /\ m >= f /\ m <= Len(r.rids) /\ f >= 1 /\ Chunk \in Seq(Records) /\ Len(Chunk) = m - f + 1
      /\ \A i \in 1 .. m - f + 1 : Chunk[i] = r.rids[f + i - 1]
  BY <1>1, <1>4, ChunkIs
<1>6. k \in 1 .. m - f + 1
  BY <1>1, <1>4
<1>7. PICK rid \in Records : rid = Chunk[k]
  BY <1>5, <1>6, ElementOfSeq
<1>8. rid = r.rids[f + k - 1]
  BY <1>5, <1>6, <1>7
<1>9. PICK new : new = IF rid \in present THEN <<rid>> ELSE <<>>
  OBVIOUS
<1>10. /\ new \in Seq(Records) /\ IsInjective(new)
       /\ \A i \in 1 .. Len(new) : new[i] \in present /\ new[i] = rid
       /\ rid \in present => \E i \in 1 .. Len(new) : new[i] = rid
  <2>1. CASE rid \in present
    <3>1. new = <<rid>> /\ Len(new) = 1 /\ new[1] = rid /\ DOMAIN new = {1} /\ new \in Seq(Records)
      BY <1>9, <2>1
    <3>2. 1 .. 1 = {1}
      OBVIOUS
    <3>. QED  BY <2>1, <3>1, <3>2 DEF IsInjective
  <2>2. CASE rid \notin present
    <3>1. new = <<>> /\ Len(new) = 0 /\ DOMAIN new = {} /\ new \in Seq(Records)
      BY <1>9, <2>2, EmptySeq
    <3>. QED  BY <2>2, <3>1 DEF IsInjective
  <2>. QED  BY <2>1, <2>2
<1>11. r.rows \in Seq(Records)
  BY <1>1 DEF ReaderType
<1>12. PICK rows \in Seq(Records) : rows = r.rows \o new
  BY <1>10, <1>11, ConcatProperties
<1>13. (IF rid \in present THEN Append(r.rows, rid) ELSE r.rows) = rows
  BY <1>9, <1>11, <1>12, AppendIsConcat, ConcatEmptySeq
<1>14. PICK u : u = [r EXCEPT !.attempt = 1]
  OBVIOUS
<1>15. /\ u \in ReaderType /\ u.at = "single" /\ u.rids = r.rids /\ u.from = r.from /\ u.k = k
       /\ u.rows = r.rows /\ u.start = r.start
  BY <1>1, <1>4, <1>14 DEF ReaderType
<1>16. PICK got : got = [u EXCEPT !.rows = rows]
  OBVIOUS
<1>17. /\ got \in ReaderType /\ got.at = "single" /\ got.rids = r.rids /\ got.from = f /\ got.k = k
       /\ got.rows = r.rows \o new /\ got.start = r.start
  BY <1>4, <1>12, <1>15, <1>16 DEF ReaderType
<1>18. OneRead(u, rid) = IF k < m - f + 1 THEN [got EXCEPT !.k = k + 1] ELSE NextChunk(got)
  BY <1>5, <1>13, <1>15, <1>16 DEF OneRead
<1>19. RowsOK(got, f + k - 1, present)
  <2>1. PICK n \in Nat, l \in Nat : n = f + k - 2 /\ l = f + k - 1 /\ l = n + 1
    BY <1>5, <1>6
  <2>2. n <= l /\ l <= Len(r.rids) /\ n + 1 .. l = {l}
    BY <1>5, <1>6, <2>1, LenProperties, <1>1 DEF ReaderType
  <2>3. RowsOK(r, n, present)
    BY <1>1, <1>4, <2>1
  <2>4. \A i \in 1 .. Len(new) : new[i] \in present /\ \E j \in n + 1 .. l : r.rids[j] = new[i]
    BY <1>8, <1>10, <2>1, <2>2
  <2>5. \A j \in n + 1 .. l : r.rids[j] \in present => \E i \in 1 .. Len(new) : new[i] = r.rids[j]
    BY <1>8, <1>10, <2>1, <2>2
  <2>6. RowsOK(got, l, present)
    BY <1>1, <1>10, <1>17, <2>2, <2>3, <2>4, <2>5, RowsGrow
  <2>. QED  BY <2>1, <2>6
<1>20. ChunkEnd(got) = m
  BY <1>4, <1>17 DEF ChunkEnd
<1>21. CASE reply = "answer" /\ k < m - f + 1
  <2>1. PICK n \in Nat : n = k + 1
    OBVIOUS
  <2>2. PICK w : w = [got EXCEPT !.k = n]
    OBVIOUS
  <2>3. got \in ReaderType
    BY <1>17
  <2>4. /\ w \in ReaderType /\ w.at = got.at /\ w.rids = got.rids /\ w.from = got.from /\ w.k = n
        /\ w.rows = got.rows /\ w.start = got.start
    BY <2>2, <2>3 DEF ReaderType
  <2>5. reading' = w
    BY <1>2, <1>4, <1>7, <1>14, <1>18, <1>21, <2>1, <2>2
  <2>6. Upto(w) = f + k - 1
    BY <1>17, <2>1, <2>4 DEF Upto
  <2>7. RowsOK(w, f + k - 1, present)
    BY <1>19, <2>4 DEF RowsOK
  <2>8. ChunkEnd(w) - w.from + 1 = m - f + 1
    BY <1>17, <1>20, <2>4 DEF ChunkEnd
  <2>9. w.k \in 1 .. ChunkEnd(w) - w.from + 1
    BY <1>4, <1>6, <1>21, <2>1, <2>4, <2>8
  <2>10. w.at = "single" /\ w.rids = r.rids /\ w.from = r.from /\ w.start = r.start
    BY <1>4, <1>17, <2>4
  <2>11. ReaderOK(w, present)
    BY <1>1, <2>6, <2>7, <2>9, <2>10 DEF ReaderOK
  <2>. QED  BY <1>1, <2>4, <2>5, <2>11 DEF ReadInv
<1>22. CASE reply = "answer" /\ ~(k < m - f + 1)
  <2>1. reading' = NextChunk(got)
    BY <1>2, <1>4, <1>7, <1>14, <1>18, <1>22
  <2>2. f + k - 1 = m
    BY <1>5, <1>6, <1>22
  <2>3. RowsOK(got, ChunkEnd(got), present)
    BY <1>19, <1>20, <2>2
  <2>4. NextChunk(got) \in ReaderType /\ ReaderOK(NextChunk(got), present)
    BY <1>1, <1>4, <1>17, <2>3, NextChunkKeeps
  <2>. QED  BY <1>1, <2>1, <2>4 DEF ReadInv
<1>. QED  BY <1>3, <1>21, <1>22

\* What goes is no longer asked of the rows.
LEMMA RecordGoesKeeps ==
  ASSUME ReadInv, NEW x, recordGoes(x)
  PROVE  ReadInv'
<1>. PICK r : r = reading
  OBVIOUS
<1>1. r \in ReaderType /\ ReaderOK(r, present) /\ present \subseteq Records
  BY DEF ReadInv
<1>2. reading' = r /\ present' \subseteq present
  BY DEF recordGoes
<1>3. ReaderOK(r, present')
  BY <1>1, <1>2 DEF ReaderOK, RowsOK
<1>. QED  BY <1>1, <1>2, <1>3 DEF ReadInv

-----------------------------------------------------------------------------
(* The client keeps its word.                                              *)

ClientInv == StatementInv /\ CounterInv /\ ReadInv

LEMMA ClientBegins == ClientInit => ClientInv
<1>. SUFFICES ASSUME ClientInit PROVE ClientInv
  OBVIOUS
<1>1. PICK u : u = [at |-> "create", attempt |-> 1, vertex |-> <<>>, todo |-> {}]
  OBVIOUS
<1>2. u \in PosterType /\ u.at = "create" /\ u.vertex = <<>>
  BY <1>1 DEF PosterType, PosterSteps, VertexType
<1>3. poster = [p \in Posters |-> u] /\ vertices = {} /\ edges = {} /\ counted = 0 /\ lost = 0
  BY <1>1 DEF ClientInit
<1>4. \A p \in Posters : poster[p] = u
  BY <1>3
<1>5. StatementInv
  <2>1. IsFiniteSet({})
    BY FS_EmptySet
  <2>2. poster \in [Posters -> PosterType]
    BY <1>2, <1>3
  <2>. QED  BY <1>2, <1>3, <1>4, <2>1, <2>2 DEF StatementInv, PosterOK, EdgesOK
<1>6. CounterInv
  <2>1. PostDone = {}
    BY <1>2, <1>4 DEF PostDone
  <2>2. Cardinality({}) = 0
    BY FS_EmptySet
  <2>. QED  BY <1>3, <2>1, <2>2 DEF CounterInv
<1>7. ReadInv
  <2>1. NoRead \in ReaderType /\ NoRead.at = "idle"
    <3>1. <<>> \in Seq(Records)
      BY EmptySeq
    <3>. QED  BY <3>1 DEF NoRead, ReaderType
  <2>. QED  BY <2>1 DEF ReadInv, ReaderOK, ClientInit
<1>. QED  BY <1>5, <1>6, <1>7 DEF ClientInv

LEMMA ClientStep == ClientInv /\ [ClientNext]_clientVars => ClientInv'
<1>. SUFFICES ASSUME ClientInv, [ClientNext]_clientVars PROVE ClientInv'
  OBVIOUS
<1>. USE DEF ClientInv
<1>1. ASSUME NEW p \in Posters,
             createVertex(p) \/ connect(p) \/ readProcess(p) \/ edgesOf(p) \/ tellEdge(p)
               \/ told(p) \/ incrementProcessed(p)
      PROVE  ClientInv'
  <2>1. StatementInv' /\ CounterInv'
    BY <1>1, CreateKeeps, ConnectKeeps, ReadsKeep, TellKeeps, ToldKeeps, IncrementKeeps
  <2>2. UNCHANGED <<present, reading>>
    BY <1>1 DEF createVertex, connect, readProcess, edgesOf, tellEdge, told, incrementProcessed, readVars
  <2>3. ReadInv'
    BY <2>2 DEF ReadInv, ReaderOK, RowsOK, Upto, ChunkEnd
  <2>. QED  BY <2>1, <2>3
<1>2. ASSUME ReadSteps
      PROVE  ClientInv'
  <2>1. ReadInv'
    BY <1>2, BeginReadKeeps, ReadChunkKeeps, ReadSingleKeeps, RecordGoesKeeps DEF ReadSteps
  <2>2. UNCHANGED <<vertices, edges, counted, poster>> /\ lost' \in {lost, lost + 1}
    BY <1>2 DEF ReadSteps, readByRids, readChunk, readSingle, recordGoes, statementVars, Counting
  <2>3. StatementInv'
    BY <2>2 DEF StatementInv, PosterOK, EdgesOK
  <2>4. PostDone' = PostDone
    BY <2>2 DEF PostDone
  <2>5. Cardinality(PostDone) \in Nat
    BY FS_Subset, FS_CardinalityType, ClientConstants DEF PostDone
  <2>6. CounterInv'
    BY <2>2, <2>4, <2>5 DEF CounterInv
  <2>. QED  BY <2>1, <2>3, <2>6
<1>3. CASE UNCHANGED clientVars
  <2>1. UNCHANGED <<vertices, edges, counted, poster, lost, present, reading>>
    BY <1>3 DEF clientVars
  <2>. QED  BY <2>1 DEF StatementInv, PosterOK, EdgesOK, CounterInv, PostDone, ReadInv, ReaderOK, RowsOK, Upto, ChunkEnd
<1>. QED  BY <1>1, <1>2, <1>3 DEF ClientNext, StatementSteps

\* What the invariant says of the edges, the counter and the rows.
LEMMA ClientInvSays == ClientInv => ClientKeepsItsWord
<1>. SUFFICES ASSUME ClientInv PROVE ClientKeepsItsWord
  OBVIOUS
<1>1. DerivedOnce
  <2>. SUFFICES ASSUME NEW p \in Posters
                PROVE  LET mine == {e \in edges : e.from = poster[p].vertex} IN
                       /\ Cardinality(mine) <= 1
                       /\ poster[p].at \in {"count", "done"} => mine # {} /\ \A e \in mine : e.process
    BY DEF DerivedOnce
  <2>1. PICK mine : mine = EdgesAt(poster[p].vertex, edges)
    OBVIOUS
  <2>2. \A e, f \in mine : e = f
    BY <2>1 DEF EdgesAt, ClientInv, StatementInv, EdgesOK
  <2>3. Cardinality(mine) <= 1
    <3>1. CASE mine = {}
      BY <3>1, FS_EmptySet
    <3>2. CASE mine # {}
      <4>1. PICK e : mine = {e}
        BY <2>2, <3>2
      <4>. QED  BY <4>1, FS_Singleton
    <3>. QED  BY <3>1, <3>2
  <2>4. poster[p].at \in {"count", "done"} => mine # {} /\ \A e \in mine : e.process
    BY <2>1 DEF ClientInv, StatementInv, PosterOK
  <2>. QED  BY <2>1, <2>3, <2>4 DEF EdgesAt
<1>2. CountedAtLeast
  BY DEF CountedAtLeast, ClientInv, CounterInv, PostDone
<1>3. ReadsWhatIsThere
  <2>. SUFFICES ASSUME reading.at = "done"
                PROVE  /\ IsInjective(reading.rows)
                       /\ ToSet(reading.rids) \cap present \subseteq ToSet(reading.rows)
                       /\ ToSet(reading.rows) \subseteq reading.start
    BY DEF ReadsWhatIsThere
  <2>1. RowsOK(reading, Len(reading.rids), present)
    BY DEF ClientInv, ReadInv, ReaderOK, Upto
  <2>2. DOMAIN reading.rids = 1 .. Len(reading.rids)
    BY LenProperties DEF ClientInv, ReadInv, ReaderType
  <2>. QED  BY <2>1, <2>2 DEF RowsOK, ToSet
<1>. QED  BY <1>1, <1>2, <1>3 DEF ClientKeepsItsWord

\* However its statements are sent again, the client links each output once, counts
\* it, and reads the records that are there (client.ts:109-262).
THEOREM ClientIsTrue == ClientSpec => []ClientKeepsItsWord
<1>1. ClientInit => ClientInv
  BY ClientBegins
<1>2. ClientInv /\ [ClientNext]_clientVars => ClientInv'
  BY ClientStep
<1>3. ClientInv => ClientKeepsItsWord
  BY ClientInvSays
<1>. QED  BY <1>1, <1>2, <1>3, PTL DEF ClientSpec

-----------------------------------------------------------------------------
(* The search index.  Four parts, each about a few of the variables.       *)

IndexJob == [kind : {"index", "tags"}, file : TextFiles]

Reindexing == [at : {"idle", "runs", "roi", "files", "tags", "repost"}, runs : SUBSET RoiRuns,
               todo : SUBSET TextFiles, file : TextFiles \cup {NoText}]
Deletion == [at : {"idle", "runs", "files", "rows"}, files : SUBSET TextFiles, runs : SUBSET RoiRuns]

IndexTypeOK ==
  /\ texts \subseteq TextFiles /\ roiDocs \subseteq RoiRuns /\ DOMAIN textDoc \subseteq TextFiles
  /\ roiRun \in [RoiRuns -> {"none", "row", "file", "known", "gone"}]
  /\ indexJobs \in Seq(IndexJob) /\ working \in [IndexWorkers -> IndexJob \cup {NoIndexJob}]
  /\ reindex \in Reindexing
  /\ deleting \in Deletion
  /\ reindex.at \in {"tags", "repost"} => reindex.file \in TextFiles
  /\ tagTask \in BOOLEAN

\* Runs that have their labels in the index, or will get them from a reindexing.
RunsFound ==
  reindex.at # "runs" =>
    \A r \in RoiRuns :
      (roiRun[r] = "known" /\ RoiLabels[r] # {} /\ r \notin missed /\ {r, RoiFile[r]} \cap Leaving = {}) =>
        r \in roiDocs \/ (reindex.at = "roi" /\ r \in reindex.runs)

\* What is gone, or was dropped by the deletion under way, has no document.
Departed == (TextFiles \ texts) \cup {r \in RoiRuns : roiRun[r] = "gone"}
DepartedDropped ==
  /\ (DOMAIN textDoc \cup roiDocs) \cap Departed \subseteq lateDocs
  /\ deleting.at \in {"files", "rows"} => roiDocs \cap deleting.runs \subseteq lateDocs
  /\ deleting.at = "rows" => DOMAIN textDoc \cap deleting.files \subseteq lateDocs

\* An index job is followed by a tag job, and a document without its tags too.
WriteText(f) == [kind |-> "index", file |-> f]
WriteTags(f) == [kind |-> "tags", file |-> f]
TagsNext(f) == reindex.at = "tags" /\ reindex.file = f
TagsSent(f) == \E j \in DOMAIN indexJobs : indexJobs[j] = WriteTags(f)
TagsFollow(f) ==
  /\ \A i \in DOMAIN indexJobs : indexJobs[i] = WriteText(f) =>
       TagsNext(f) \/ \E j \in DOMAIN indexJobs : j > i /\ indexJobs[j] = WriteTags(f)
  /\ \A w \in IndexWorkers : working[w] = WriteText(f) => TagsNext(f) \/ TagsSent(f)
  /\ (f \in DOMAIN textDoc /\ textDoc[f] # "tagged") =>
       TagsNext(f) \/ TagsSent(f) \/ \E w \in IndexWorkers : working[w] = WriteTags(f)
TagsComing == tagTask => \A f \in (texts \cap TaggedFiles) \ jobsMet : TagsFollow(f)

FilterType ==
  [at : {"idle", "read", "or", "and", "exclude"}, files : SUBSET TextFiles, left : SUBSET TextFiles,
   start : Nat, found : SUBSET (TextFiles \X WantedLabels), kept : SUBSET (TextFiles \X WantedLabels),
   out : SUBSET TextFiles]

\* What a filter has not found yet it will read.
Unread(p) == \E r \in Matching : p \in LabelsOf({r}) /\ Place(Matching, r) >= filter.start
FilterReads ==
  /\ filter \in FilterType
  /\ moved \in BOOLEAN
  /\ (Reading /\ ~moved) =>
       /\ filter.kept \subseteq LabelsOf(roiDocs)
       /\ \A p \in filter.kept :
            /\ p[1] \in filter.files \ filter.left => p \in filter.found
            /\ p[1] \in filter.left \cap FileChunk => p \in filter.found \/ Unread(p)
  /\ FilterMissesNone

IndexInv == IndexTypeOK /\ RunsFound /\ DepartedDropped /\ TagsComing /\ FilterReads

LEMMA IndexStarts ==
  ASSUME IndexInit
  PROVE  IndexInv
<1>1. IndexTypeOK
  BY IndexConstants DEF IndexTypeOK, IndexInit, Reindexing, Deletion, IndexJob, NoReindex, NoDeletion, NoIndexJob
<1>2. RunsFound /\ DepartedDropped
  BY DEF IndexInit, RunsFound, DepartedDropped, Departed, NoDeletion, NoReindex
<1>3. TagsComing
  <2>1. \A w \in IndexWorkers, f \in TextFiles : working[w] # WriteText(f)
    BY DEF IndexInit, NoIndexJob, WriteText
  <2>2. \A f \in TaggedFiles : textDoc[f] = "tagged"
    BY IndexConstants DEF IndexInit
  <2>3. DOMAIN indexJobs = {}
    BY DEF IndexInit
  <2>. QED  BY <2>1, <2>2, <2>3, IndexConstants DEF TagsComing, TagsFollow
<1>4. FilterReads
  BY DEF IndexInit, FilterReads, FilterType, NoFilter, Reading, FilterMissesNone
<1>. QED  BY <1>1, <1>2, <1>3, <1>4 DEF IndexInv

-----------------------------------------------------------------------------
(* Types.                                                                  *)

\* What a reindexing is made into.
LEMMA ReindexingTyped ==
  ASSUME IndexTypeOK, NEW at \in {"idle", "runs", "roi", "files"},
         NEW runs \in SUBSET RoiRuns, NEW todo \in SUBSET TextFiles
  PROVE  /\ [reindex EXCEPT !.at = at, !.runs = runs] \in Reindexing
         /\ [reindex EXCEPT !.at = at, !.runs = runs].at = at
         /\ [reindex EXCEPT !.at = at, !.runs = runs, !.todo = todo] \in Reindexing
         /\ [reindex EXCEPT !.at = at, !.runs = runs, !.todo = todo].at = at
BY DEF IndexTypeOK, Reindexing

LEMMA RunStepsTyped ==
  ASSUME IndexTypeOK, RunSteps \/ DeleteSteps \/ CrashIndexing
  PROVE  IndexTypeOK'
<1>. USE DEF IndexTypeOK, graphPart, docPart, jobPart, seenPart, Fault
<1>1. ASSUME NEW r \in RoiRuns, createRun(r) \/ runFile(r) \/ indexRun(r)
      PROVE  IndexTypeOK'
  BY <1>1 DEF createRun, runFile, indexRun, Posted
<1>2. ASSUME NEW files \in SUBSET TextFiles, NEW runs \in SUBSET RoiRuns, collect(files, runs)
      PROVE  IndexTypeOK'
  <2>1. deleting' \in Deletion
    BY <1>2 DEF collect, Deletion
  <2>. QED  BY <1>2, <2>1 DEF collect
<1>3. CASE \E f \in TextFiles : deleteFile(f)
  <2>1. \A f \in TextFiles : {f} \in SUBSET TextFiles /\ {r \in LiveRuns : RoiFile[r] = f} \in SUBSET RoiRuns
    BY DEF LiveRuns
  <2>. QED  BY <1>2, <1>3, <2>1 DEF deleteFile
<1>4. CASE \E r \in RoiRuns : deleteRun(r)
  <2>1. \A r \in RoiRuns : {r} \in SUBSET RoiRuns /\ {} \in SUBSET TextFiles
    OBVIOUS
  <2>. QED  BY <1>2, <1>4, <2>1 DEF deleteRun
<1>5. CASE dropRoiRun \/ dropFilesIndex
  <2>1. PICK runs, files, next : dropDocs(runs, files, next) /\ next \in {"files", "rows"}
    BY <1>5 DEF dropRoiRun, dropFilesIndex
  <2>2. roiDocs' \subseteq roiDocs /\ DOMAIN textDoc' \subseteq DOMAIN textDoc
    BY <2>1 DEF dropDocs
  <2>3. deleting' \in Deletion
    BY <2>1 DEF dropDocs, Deletion
  <2>. QED  BY <2>1, <2>2, <2>3 DEF dropDocs
<1>6. CASE deleteRows
  <2>1. deleting' \in Deletion
    BY <1>6 DEF deleteRows, NoDeletion, Deletion
  <2>. QED  BY <1>6, <2>1 DEF deleteRows
<1>7. CASE CrashIndexing
  <2>1. reindex' \in Reindexing /\ (reindex'.at \in {"tags", "repost"} => reindex'.file \in TextFiles)
    BY <1>7 DEF CrashIndexing, NoReindex, Reindexing
  <2>2. deleting' \in Deletion
    BY <1>7 DEF CrashIndexing, NoDeletion, Deletion
  <2>3. roiRun' \in [RoiRuns -> {"none", "row", "file", "known", "gone"}]
    BY <1>7 DEF CrashIndexing
  <2>. QED  BY <1>7, <2>1, <2>2, <2>3 DEF CrashIndexing
<1>. QED  BY <1>1, <1>3, <1>4, <1>5, <1>6, <1>7 DEF RunSteps, DeleteSteps

LEMMA WithDocTyped ==
  ASSUME NEW f \in TextFiles, NEW tags, DOMAIN textDoc \subseteq TextFiles
  PROVE  DOMAIN WithDoc(f, tags) \subseteq TextFiles /\ DOMAIN WithDoc(f, tags) = DOMAIN textDoc \cup {f}
BY DEF WithDoc

LEMMA PublishTyped ==
  ASSUME IndexTypeOK, NEW f \in TextFiles, NEW kind \in {"index", "tags"}, Publish(kind, f)
  PROVE  indexJobs' \in Seq(IndexJob)
<1>1. [kind |-> kind, file |-> f] \in IndexJob
  BY DEF IndexJob
<1>. QED  BY <1>1 DEF Publish, IndexTypeOK

LEMMA OtherStepsTyped ==
  ASSUME IndexTypeOK, RebuildSteps \/ RequeueSteps \/ WorkSteps \/ FilterSteps
  PROVE  IndexTypeOK'
<1>. USE DEF graphPart, docPart, jobPart, seenPart, Fault
<1>1. CASE dropProjectIndex
  <2>1. reindex' \in Reindexing /\ (reindex'.at \in {"tags", "repost"} => reindex'.file \in TextFiles)
    BY <1>1 DEF dropProjectIndex, IndexTypeOK, Reindexing, NoReindex
  <2>. QED  BY <1>1, <2>1 DEF dropProjectIndex, Posted, IndexTypeOK
<1>2. CASE readRuns
  <2>1. reindex' \in Reindexing /\ (reindex'.at \in {"tags", "repost"} => reindex'.file \in TextFiles)
    <3>1. RunsRead \in SUBSET RoiRuns
      BY DEF RunsRead
    <3>2. "roi" \in {"idle", "runs", "roi", "files"} /\ texts \in SUBSET TextFiles
      BY DEF IndexTypeOK
    <3>3. [reindex EXCEPT !.at = "roi", !.runs = RunsRead] \in Reindexing
          /\ [reindex EXCEPT !.at = "roi", !.runs = RunsRead].at = "roi"
      BY <3>1, <3>2, ReindexingTyped, Zenon
    <3>. QED  BY <1>2, <3>3 DEF readRuns
  <2>. QED  BY <1>2, <2>1 DEF readRuns, Posted, IndexTypeOK
<1>3. CASE indexRoiRuns
  <2>1. reindex' \in Reindexing /\ (reindex'.at \in {"tags", "repost"} => reindex'.file \in TextFiles)
    <3>1. reindex' = NoReindex \/ reindex' = [reindex EXCEPT !.at = "files", !.runs = {}, !.todo = texts]
      BY <1>3, Zenon DEF indexRoiRuns
    <3>2. reindex \in Reindexing /\ texts \in SUBSET TextFiles
      BY DEF IndexTypeOK
    <3>3. [reindex EXCEPT !.at = "files", !.runs = {}, !.todo = texts] \in Reindexing
          /\ [reindex EXCEPT !.at = "files", !.runs = {}, !.todo = texts].at = "files"
      BY <3>2 DEF Reindexing
    <3>4. NoReindex \in Reindexing /\ NoReindex.at = "idle"
      BY DEF NoReindex, Reindexing
    <3>. QED  BY <3>1, <3>3, <3>4
  <2>2. roiDocs' \subseteq RoiRuns
    <3>1. reindex.runs \subseteq RoiRuns
      BY DEF IndexTypeOK, Reindexing
    <3>2. roiDocs' \subseteq roiDocs \cup Posted(reindex.runs)
      BY <1>3 DEF indexRoiRuns
    <3>. QED  BY <3>1, <3>2 DEF Posted, IndexTypeOK
  <2>3. UNCHANGED <<texts, textDoc, roiRun, indexJobs, working, deleting, tagTask>>
    BY <1>3 DEF indexRoiRuns
  <2>. QED  BY <2>1, <2>2, <2>3 DEF IndexTypeOK
<1>4. ASSUME NEW f \in TextFiles, reindexFile(f)
      PROVE  IndexTypeOK'
  <2>1. indexJobs' \in Seq(IndexJob)
    BY <1>4, PublishTyped DEF reindexFile, IndexTypeOK
  <2>2. reindex' \in Reindexing /\ (reindex'.at \in {"tags", "repost"} => reindex'.file \in TextFiles)
    <3>1. \/ reindex' = [reindex EXCEPT !.at = "tags", !.file = f, !.todo = reindex.todo \ {f}]
          \/ reindex.at = "files" /\ reindex' = [reindex EXCEPT !.todo = reindex.todo \ {f}]
      BY <1>4 DEF reindexFile
    <3>2. reindex \in Reindexing /\ reindex.todo \ {f} \in SUBSET TextFiles
      BY DEF IndexTypeOK, Reindexing
    <3>3. CASE reindex' = [reindex EXCEPT !.at = "tags", !.file = f, !.todo = reindex.todo \ {f}]
      BY <3>2, <3>3 DEF Reindexing
    <3>4. CASE reindex.at = "files" /\ reindex' = [reindex EXCEPT !.todo = reindex.todo \ {f}]
      BY <3>2, <3>4 DEF Reindexing
    <3>. QED  BY <3>1, <3>3, <3>4
  <2>. QED  BY <1>4, <2>1, <2>2 DEF reindexFile, IndexTypeOK
<1>5. CASE syncTags
  <2>1. indexJobs' \in Seq(IndexJob)
    BY <1>5, PublishTyped DEF syncTags, IndexTypeOK, TagJob
  <2>2. reindex' \in Reindexing /\ (reindex'.at \in {"tags", "repost"} => reindex'.file \in TextFiles)
    <3>1. \/ reindex.at = "tags" /\ reindex' = [reindex EXCEPT !.at = "repost"]
          \/ reindex' = [reindex EXCEPT !.at = "files", !.file = NoText]
      BY <1>5 DEF syncTags
    <3>. QED  BY <3>1 DEF IndexTypeOK, Reindexing
  <2>. QED  BY <1>5, <2>1, <2>2 DEF syncTags, IndexTypeOK
<1>6. CASE updateTagsForFile
  <2>1. reindex' \in Reindexing /\ (reindex'.at \in {"tags", "repost"} => reindex'.file \in TextFiles)
    BY <1>6 DEF updateTagsForFile, IndexTypeOK, Reindexing
  <2>2. DOMAIN textDoc' \subseteq TextFiles
    BY <1>6, WithDocTyped DEF updateTagsForFile, IndexTypeOK
  <2>. QED  BY <1>6, <2>1, <2>2 DEF updateTagsForFile, IndexTypeOK
<1>7. CASE reindexEnds
  <2>1. reindex' \in Reindexing /\ (reindex'.at \in {"tags", "repost"} => reindex'.file \in TextFiles)
    BY <1>7 DEF reindexEnds, IndexTypeOK, Reindexing, NoReindex
  <2>. QED  BY <1>7, <2>1 DEF reindexEnds, Posted, IndexTypeOK
<1>8. ASSUME NEW w \in IndexWorkers, claimIndexJob(w)
      PROVE  IndexTypeOK'
  <2>1. Head(indexJobs) \in IndexJob /\ Tail(indexJobs) \in Seq(IndexJob)
    BY <1>8 DEF claimIndexJob, IndexTypeOK
  <2>. QED  BY <1>8, <2>1 DEF claimIndexJob, IndexTypeOK
<1>9. ASSUME NEW w \in IndexWorkers, doIndexJob(w)
      PROVE  IndexTypeOK'
  <2>1. DOMAIN textDoc' \subseteq TextFiles
    <3>1. working[w].file \in TextFiles
      BY <1>9 DEF doIndexJob, IndexTypeOK, IndexJob
    <3>. QED  BY <1>9, <3>1, WithDocTyped DEF doIndexJob, IndexTypeOK
  <2>. QED  BY <1>9, <2>1 DEF doIndexJob, IndexTypeOK
<1>10. ASSUME NEW w \in IndexWorkers, retryIndexJob(w)
       PROVE  IndexTypeOK'
  <2>1. working[w] \in IndexJob
    BY <1>10 DEF retryIndexJob, IndexTypeOK
  <2>2. Append(indexJobs, working[w]) \in Seq(IndexJob)
    BY <2>1 DEF IndexTypeOK
  <2>. QED  BY <1>10, <2>2 DEF retryIndexJob, IndexTypeOK
<1>11. CASE FilterSteps
  BY <1>11 DEF FilterSteps, tagFilterSet, roiSources, createFiltered, IndexTypeOK
<1>. QED  BY <1>1, <1>2, <1>3, <1>4, <1>5, <1>6, <1>7, <1>8, <1>9, <1>10, <1>11
          DEF RebuildSteps, RequeueSteps, WorkSteps

-----------------------------------------------------------------------------
(* Runs and what departs.                                                  *)

\* What leaves stays away, unless a deletion stops half way.
LEMMA LeavingGrows ==
  ASSUME IndexTypeOK, IndexNext, ~CrashIndexing
  PROVE  Leaving \subseteq Leaving' /\ Departed \subseteq Departed'
<1>. USE DEF Leaving, Departed, graphPart
<1>1. CASE UNCHANGED <<texts, roiRun, deleting>>
  BY <1>1
<1>2. CASE RunSteps
  <2>1. PICK r \in RoiRuns : createRun(r) \/ runFile(r) \/ indexRun(r)
    BY <1>2 DEF RunSteps
  <2>2. UNCHANGED <<texts, deleting>> /\ roiRun[r] # "gone" /\ \A q \in RoiRuns \ {r} : roiRun'[q] = roiRun[q]
    BY <2>1 DEF createRun, runFile, indexRun, IndexTypeOK
  <2>. QED  BY <2>2
<1>3. CASE deleteRows
  BY <1>3, IndexConstants DEF deleteRows, NoDeletion, IndexTypeOK, Deletion
<1>4. ASSUME NEW files, NEW runs, collect(files, runs)
      PROVE  Leaving \subseteq Leaving' /\ Departed \subseteq Departed'
  BY <1>4 DEF collect, NoDeletion
<1>5. CASE DeleteSteps
  <2>1. CASE dropRoiRun \/ dropFilesIndex
    <3>1. PICK runs, files, next : dropDocs(runs, files, next)
      BY <2>1 DEF dropRoiRun, dropFilesIndex
    <3>2. deleting'.files = deleting.files /\ deleting'.runs = deleting.runs /\ UNCHANGED <<texts, roiRun>>
      BY <3>1 DEF dropDocs, IndexTypeOK, Deletion
    <3>. QED  BY <3>2
  <2>. QED  BY <1>3, <1>4, <1>5, <2>1 DEF DeleteSteps, deleteFile, deleteRun
<1>6. CASE RebuildSteps \/ RequeueSteps \/ WorkSteps \/ FilterSteps
  BY <1>1, <1>6
     DEF RebuildSteps, RequeueSteps, WorkSteps, FilterSteps, dropProjectIndex, readRuns, indexRoiRuns, reindexFile,
         syncTags, updateTagsForFile, reindexEnds, claimIndexJob, doIndexJob, retryIndexJob, tagFilterSet, roiSources,
         createFiltered
<1>. QED  BY <1>2, <1>5, <1>6 DEF IndexNext

\* Only these steps matter to the documents of runs.
RunsQuiet ==
  /\ roiDocs \subseteq roiDocs' /\ missed \subseteq missed' /\ reindex'.at = reindex.at /\ reindex'.runs = reindex.runs
  /\ \A r \in RoiRuns : roiRun'[r] = "known" => roiRun[r] = "known"
  /\ Leaving \subseteq Leaving'

LEMMA RunsFoundQuiet ==
  ASSUME RunsFound, RunsQuiet
  PROVE  RunsFound'
BY DEF RunsFound, RunsQuiet

LEMMA RunsStayFound ==
  ASSUME IndexTypeOK, RunsFound, IndexNext
  PROVE  RunsFound'
<1>. USE DEF graphPart, docPart, jobPart, seenPart, Fault
<1>0. ~CrashIndexing => Leaving \subseteq Leaving'
  BY LeavingGrows
<1>1. ASSUME NEW r \in RoiRuns, createRun(r) \/ runFile(r) \/ indexRun(r), ~CrashIndexing
      PROVE  RunsFound'
  <2>1. CASE createRun(r) \/ runFile(r)
    BY <1>0, <1>1, <2>1, RunsFoundQuiet DEF createRun, runFile, RunsQuiet, IndexTypeOK
  <2>2. CASE indexRun(r)
    <3>1. /\ UNCHANGED reindex /\ roiDocs \subseteq roiDocs' /\ missed \subseteq missed'
          /\ RoiLabels[r] # {} => r \in roiDocs' \cup missed'
          /\ \A q \in RoiRuns \ {r} : roiRun'[q] = roiRun[q]
      BY <2>2 DEF indexRun, Posted, IndexTypeOK
    <3>. QED  BY <1>0, <1>1, <3>1 DEF RunsFound
  <2>. QED  BY <1>1, <2>1, <2>2
<1>2. ASSUME DeleteSteps, ~CrashIndexing
      PROVE  RunsFound'
  <2>1. CASE deleteRows \/ (\E f \in TextFiles : deleteFile(f)) \/ (\E r \in RoiRuns : deleteRun(r))
    <3>1. /\ UNCHANGED <<roiDocs, missed, reindex>>
          /\ \A r \in RoiRuns : roiRun'[r] = "known" => roiRun[r] = "known"
      BY <2>1 DEF deleteRows, deleteFile, deleteRun, collect
    <3>. QED  BY <1>0, <1>2, <3>1, RunsFoundQuiet DEF RunsQuiet
  <2>2. CASE dropRoiRun \/ dropFilesIndex
    <3>1. PICK runs, files, next : dropDocs(runs, files, next) /\ \A r \in runs : {r, RoiFile[r]} \cap Leaving # {}
      BY <2>2 DEF dropRoiRun, dropFilesIndex, RunsDropped, Leaving
    <3>2. UNCHANGED <<roiRun, missed, reindex>> /\ roiDocs \ runs \subseteq roiDocs'
      BY <3>1 DEF dropDocs
    <3>. QED  BY <1>0, <1>2, <3>1, <3>2 DEF RunsFound
  <2>. QED  BY <1>2, <2>1, <2>2 DEF DeleteSteps
<1>3. ASSUME RebuildSteps, ~CrashIndexing
      PROVE  RunsFound'
  <2>1. CASE dropProjectIndex
    <3>1. reindex'.at = "runs"
      BY <2>1 DEF dropProjectIndex, NoReindex
    <3>. QED  BY <3>1 DEF RunsFound
  <2>2. CASE readRuns
    <3>1. reindex'.at = "roi" /\ reindex'.runs = RunsRead /\ UNCHANGED <<roiRun>>
      BY <2>2 DEF readRuns, IndexTypeOK, Reindexing
    <3>. QED  BY <3>1 DEF RunsFound, RunsRead
  <2>3. CASE indexRoiRuns
    <3>0. reindex.at = "roi" /\ UNCHANGED roiRun
      BY <2>3 DEF indexRoiRuns
    <3>1. CASE roiDocs' = roiDocs \cup Posted(reindex.runs) /\ missed' = missed \ reindex.runs
      BY <1>0, <1>3, <3>0, <3>1 DEF RunsFound, Posted
    <3>2. CASE missed' = missed \cup reindex.runs /\ UNCHANGED roiDocs
      BY <1>0, <1>3, <3>0, <3>2 DEF RunsFound
    <3>. QED  BY <2>3, <3>1, <3>2 DEF indexRoiRuns
  <2>. QED  BY <1>3, <2>1, <2>2, <2>3 DEF RebuildSteps
<1>4. ASSUME RequeueSteps, ~CrashIndexing
      PROVE  RunsFound'
  <2>1. /\ UNCHANGED <<roiRun, roiDocs, missed>>
        /\ reindex.at \notin {"runs", "roi"} /\ reindex'.at \notin {"runs", "roi"}
    <3>0. reindex \in Reindexing
      BY DEF IndexTypeOK
    <3>1. ASSUME NEW f \in TextFiles, reindexFile(f)
          PROVE  /\ UNCHANGED <<roiRun, roiDocs, missed>>
                 /\ reindex.at \notin {"runs", "roi"} /\ reindex'.at \notin {"runs", "roi"}
      BY <3>0, <3>1 DEF reindexFile, Reindexing
    <3>2. CASE syncTags
      BY <3>0, <3>2 DEF syncTags, Reindexing
    <3>3. CASE updateTagsForFile
      BY <3>0, <3>3 DEF updateTagsForFile, Reindexing
    <3>4. CASE reindexEnds
      BY <3>4 DEF reindexEnds, NoReindex
    <3>. QED  BY <1>4, <3>1, <3>2, <3>3, <3>4 DEF RequeueSteps
  <2>. QED  BY <1>0, <1>4, <2>1 DEF RunsFound
<1>5. ASSUME WorkSteps \/ FilterSteps, ~CrashIndexing
      PROVE  RunsFound'
  <2>1. UNCHANGED <<roiRun, roiDocs, missed, reindex>>
    BY <1>5 DEF WorkSteps, FilterSteps, claimIndexJob, doIndexJob, retryIndexJob, tagFilterSet, roiSources, createFiltered
  <2>. QED  BY <1>0, <1>5, <2>1 DEF RunsFound
<1>6. CASE CrashIndexing
  <2>1. /\ reindex'.at = "idle" /\ UNCHANGED <<texts, roiDocs>> /\ missed \subseteq missed'
        /\ \A r \in RoiRuns : roiRun[r] = "file" => r \in missed'
        /\ \A r \in RoiRuns : {r, RoiFile[r]} \cap Leaving # {} => r \in missed'
        /\ reindex.at \in {"runs", "roi"} => LiveRuns \subseteq missed'
        /\ \A r \in RoiRuns : roiRun'[r] = "known" => roiRun[r] \in {"file", "known"}
    BY <1>6 DEF CrashIndexing, NoReindex
  <2>. QED  BY <2>1 DEF RunsFound, LiveRuns
<1>. QED  BY <1>1, <1>2, <1>3, <1>4, <1>5, <1>6 DEF IndexNext, RunSteps

\* Documents are written to what departs only late, and dropped before it goes.
LEMMA DepartedStayDropped ==
  ASSUME IndexTypeOK, DepartedDropped, IndexNext
  PROVE  DepartedDropped'
<1>. USE DEF graphPart, docPart, jobPart, seenPart, Fault
<1>1. ASSUME UNCHANGED <<texts, deleting>>,
             \A r \in RoiRuns : roiRun'[r] = "gone" => roiRun[r] = "gone",
             lateDocs \subseteq lateDocs',
             (DOMAIN textDoc' \ DOMAIN textDoc) \cap Leaving \subseteq lateDocs',
             (roiDocs' \ roiDocs) \cap Leaving \subseteq lateDocs'
      PROVE  DepartedDropped'
  BY <1>1 DEF DepartedDropped, Departed, Leaving
<1>2. CASE RunSteps
  <2>1. PICK r \in RoiRuns : createRun(r) \/ runFile(r) \/ indexRun(r)
    BY <1>2 DEF RunSteps
  <2>2. /\ UNCHANGED <<texts, deleting, textDoc>> /\ lateDocs \subseteq lateDocs'
        /\ (roiDocs' \ roiDocs) \cap Leaving \subseteq lateDocs'
    BY <2>1 DEF createRun, runFile, indexRun
  <2>3. \A q \in RoiRuns : roiRun'[q] = "gone" => roiRun[q] = "gone"
    BY <2>1 DEF createRun, runFile, indexRun, IndexTypeOK
  <2>. QED  BY <1>1, <2>2, <2>3
<1>3. CASE DeleteSteps
  <2>1. CASE (\E f \in TextFiles : deleteFile(f)) \/ (\E r \in RoiRuns : deleteRun(r))
    <3>1. deleting'.at = "runs" /\ UNCHANGED <<texts, roiRun, textDoc, roiDocs, lateDocs>>
      BY <2>1 DEF deleteFile, deleteRun, collect
    <3>. QED  BY <3>1 DEF DepartedDropped, Departed
  <2>2. ASSUME NEW runs, NEW files, NEW next \in {"files", "rows"}, dropDocs(runs, files, next),
               deleting.at = "runs" => runs = deleting.runs /\ next = "files",
               deleting.at # "runs" => deleting.at = "files" /\ files = deleting.files
        PROVE  DepartedDropped'
    <3>1. /\ deleting'.files = deleting.files /\ deleting'.runs = deleting.runs /\ deleting'.at = next
          /\ UNCHANGED <<texts, roiRun>>
      BY <2>2 DEF dropDocs, IndexTypeOK, Deletion
    <3>2. CASE /\ roiDocs' = roiDocs \ runs /\ DOMAIN textDoc' = DOMAIN textDoc \ files /\ UNCHANGED lateDocs
      BY <2>2, <3>1, <3>2 DEF DepartedDropped, Departed
    <3>3. CASE lateDocs' = lateDocs \cup deleting.runs \cup deleting.files /\ UNCHANGED docPart
      BY <3>1, <3>3 DEF DepartedDropped, Departed
    <3>. QED  BY <2>2, <3>2, <3>3 DEF dropDocs
  <2>3. CASE dropRoiRun
    BY <2>2, <2>3 DEF dropRoiRun, RunsDropped
  <2>4. CASE dropFilesIndex
    BY <2>2, <2>4 DEF dropFilesIndex
  <2>5. CASE deleteRows
    <3>1. /\ deleting.at = "rows" /\ deleting'.at = "idle" /\ UNCHANGED <<textDoc, roiDocs, lateDocs>>
          /\ Departed' \subseteq Departed \cup deleting.files \cup deleting.runs
      BY <2>5 DEF deleteRows, NoDeletion, Departed
    <3>2. DOMAIN textDoc \cap deleting.runs = {} /\ roiDocs \cap deleting.files = {}
      BY IndexConstants DEF IndexTypeOK, Deletion
    <3>. QED  BY <3>1, <3>2 DEF DepartedDropped
  <2>. QED  BY <1>3, <2>1, <2>3, <2>4, <2>5 DEF DeleteSteps
<1>4. CASE dropProjectIndex
  <2>1. DOMAIN textDoc' = {} /\ roiDocs' = {}
    BY <1>4 DEF dropProjectIndex
  <2>. QED  BY <2>1 DEF DepartedDropped
<1>5. CASE readRuns \/ indexRoiRuns
  <2>1. /\ UNCHANGED <<texts, roiRun, deleting, textDoc>> /\ lateDocs \subseteq lateDocs'
        /\ (roiDocs' \ roiDocs) \cap Leaving \subseteq lateDocs'
    BY <1>5 DEF readRuns, indexRoiRuns
  <2>. QED  BY <1>1, <2>1
<1>6. CASE RequeueSteps \/ WorkSteps
  <2>1. UNCHANGED <<texts, roiRun, deleting, roiDocs>> /\ lateDocs \subseteq lateDocs'
    BY <1>6 DEF RequeueSteps, WorkSteps, reindexFile, syncTags, updateTagsForFile, reindexEnds, claimIndexJob,
                doIndexJob, retryIndexJob
  <2>2. \/ UNCHANGED textDoc
        \/ \E f, tags : textDoc' = WithDoc(f, tags) /\ lateDocs' = lateDocs \cup ({f} \cap Leaving)
    <3>1. CASE updateTagsForFile
      BY <3>1 DEF updateTagsForFile
    <3>2. ASSUME NEW w \in IndexWorkers, doIndexJob(w)
          PROVE  \/ UNCHANGED textDoc
                 \/ \E f, tags : textDoc' = WithDoc(f, tags) /\ lateDocs' = lateDocs \cup ({f} \cap Leaving)
      BY <3>2, Zenon DEF doIndexJob
    <3>. QED  BY <1>6, <3>1, <3>2 DEF RequeueSteps, WorkSteps, reindexFile, syncTags, reindexEnds, claimIndexJob,
                                    retryIndexJob
  <2>3. (DOMAIN textDoc' \ DOMAIN textDoc) \cap Leaving \subseteq lateDocs'
    BY <2>2 DEF WithDoc
  <2>. QED  BY <1>1, <2>1, <2>3
<1>7. CASE FilterSteps
  <2>1. UNCHANGED <<texts, roiRun, deleting, textDoc, roiDocs, lateDocs>>
    BY <1>7 DEF FilterSteps, tagFilterSet, roiSources, createFiltered
  <2>. QED  BY <1>1, <2>1
<1>8. CASE CrashIndexing
  <2>1. /\ deleting'.at = "idle" /\ UNCHANGED <<texts, textDoc, roiDocs>> /\ lateDocs \subseteq lateDocs'
        /\ \A r \in RoiRuns : roiRun'[r] = "gone" => roiRun[r] = "gone"
    BY <1>8 DEF CrashIndexing, NoDeletion
  <2>. QED  BY <2>1 DEF DepartedDropped, Departed
<1>. QED  BY <1>2, <1>3, <1>4, <1>5, <1>6, <1>7, <1>8 DEF IndexNext, RebuildSteps

-----------------------------------------------------------------------------
(* Tags follow the text of their file through the queue.                   *)

\* What is sent goes to the end, what is there keeps its place.
LEMMA SentLast ==
  ASSUME IndexTypeOK, NEW e, NEW f, indexJobs' = Append(indexJobs, e)
  PROVE  /\ \A i \in DOMAIN indexJobs : i \in DOMAIN indexJobs' /\ indexJobs'[i] = indexJobs[i]
         /\ \A i \in DOMAIN indexJobs' \ DOMAIN indexJobs : i = Len(indexJobs) + 1 /\ indexJobs'[i] = e
         /\ Len(indexJobs) + 1 \in DOMAIN indexJobs' /\ indexJobs'[Len(indexJobs) + 1] = e
         /\ \A i \in DOMAIN indexJobs : i < Len(indexJobs) + 1
BY DEF IndexTypeOK

\* The first is taken, the others move up.
LEMMA FirstTaken ==
  ASSUME IndexTypeOK, indexJobs # <<>>, indexJobs' = Tail(indexJobs)
  PROVE  /\ 1 \in DOMAIN indexJobs /\ Head(indexJobs) = indexJobs[1]
         /\ \A i \in DOMAIN indexJobs' : i \in Nat /\ i + 1 \in DOMAIN indexJobs /\ indexJobs'[i] = indexJobs[i + 1]
         /\ \A i \in DOMAIN indexJobs : i = 1 \/ (i - 1 \in DOMAIN indexJobs' /\ indexJobs'[i - 1] = indexJobs[i])
         /\ DOMAIN indexJobs \subseteq Nat
BY DEF IndexTypeOK

LEMMA TagsFollowQuiet ==
  ASSUME NEW f, TagsFollow(f), UNCHANGED <<indexJobs, working>>,
         TagsNext(f) => TagsNext(f)',
         (f \in DOMAIN textDoc' /\ textDoc'[f] # "tagged") => (f \in DOMAIN textDoc /\ textDoc[f] # "tagged")
  PROVE  TagsFollow(f)'
BY DEF TagsFollow, TagsSent

\* A job for the tags of f is sent, or one that says nothing of f.
LEMMA TagsFollowSent ==
  ASSUME IndexTypeOK, NEW f, TagsFollow(f), UNCHANGED <<working, textDoc>>,
         NEW e, indexJobs' = Append(indexJobs, e),
         e = WriteTags(f) \/ (e # WriteText(f) /\ (TagsNext(f) => TagsNext(f)'))
  PROVE  TagsFollow(f)'
<1>1. TagsSent(f) => TagsSent(f)'
  BY SentLast DEF TagsSent
<1>2. e = WriteTags(f) => TagsSent(f)'
  BY SentLast DEF TagsSent
<1>3. ASSUME NEW i \in DOMAIN indexJobs', indexJobs'[i] = WriteText(f)
      PROVE  TagsNext(f)' \/ \E j \in DOMAIN indexJobs' : j > i /\ indexJobs'[j] = WriteTags(f)
  <2>1. WriteText(f) # WriteTags(f)
    BY DEF WriteText, WriteTags
  <2>2. i \in DOMAIN indexJobs /\ indexJobs[i] = WriteText(f)
    BY <1>3, <2>1, SentLast
  <2>3. CASE e = WriteTags(f)
    BY <2>2, <2>3, SentLast
  <2>4. CASE TagsNext(f) => TagsNext(f)'
    BY <2>2, <2>4, SentLast DEF TagsFollow
  <2>. QED  BY <2>3, <2>4
<1>. QED  BY <1>1, <1>2, <1>3 DEF TagsFollow

\* One worker at a time has a job for f: a second one is noted.
LEMMA TagsFollowClaimed ==
  ASSUME IndexTypeOK, NEW w \in IndexWorkers, claimIndexJob(w), NEW f, TagsFollow(f), f \notin jobsMet'
  PROVE  TagsFollow(f)'
<1>1. /\ indexJobs # <<>> /\ indexJobs' = Tail(indexJobs) /\ working' = [working EXCEPT ![w] = Head(indexJobs)]
      /\ UNCHANGED <<textDoc, reindex>> /\ working[w] = NoIndexJob
      /\ Head(indexJobs).file = f => \A x \in IndexWorkers : working[x].file # f
  BY DEF claimIndexJob, docPart
<1>2. working'[w] = indexJobs[1] /\ \A x \in IndexWorkers \ {w} : working'[x] = working[x]
  BY <1>1, FirstTaken DEF IndexTypeOK
<1>3. NoIndexJob # WriteText(f) /\ NoIndexJob # WriteTags(f) /\ WriteText(f).file = f /\ WriteTags(f).file = f
  BY DEF NoIndexJob, WriteText, WriteTags
<1>4. ASSUME NEW i \in DOMAIN indexJobs', indexJobs'[i] = WriteText(f), ~TagsNext(f)
      PROVE  \E j \in DOMAIN indexJobs' : j > i /\ indexJobs'[j] = WriteTags(f)
  <2>1. PICK j \in DOMAIN indexJobs : j > i + 1 /\ indexJobs[j] = WriteTags(f)
    BY <1>1, <1>4, FirstTaken DEF TagsFollow
  <2>2. i \in Nat /\ j \in Nat /\ j # 1 /\ j - 1 > i
    BY <1>1, <2>1, FirstTaken
  <2>. QED  BY <1>1, <2>1, <2>2, FirstTaken
<1>5. ASSUME NEW x \in IndexWorkers, working'[x] = WriteText(f), ~TagsNext(f)
      PROVE  TagsSent(f)'
  <2>1. CASE x = w
    <3>1. PICK j \in DOMAIN indexJobs : j > 1 /\ indexJobs[j] = WriteTags(f)
      BY <1>1, <1>2, <1>5, <2>1, FirstTaken DEF TagsFollow
    <3>2. j # 1
      BY <1>1, <3>1, FirstTaken
    <3>. QED  BY <1>1, <3>1, <3>2, FirstTaken DEF TagsSent
  <2>2. CASE x # w
    <3>1. working[x].file = f
      BY <1>2, <1>3, <1>5, <2>2
    <3>2. indexJobs[1] # WriteTags(f)
      BY <1>1, <1>3, <3>1, FirstTaken
    <3>3. PICK j \in DOMAIN indexJobs : indexJobs[j] = WriteTags(f)
      BY <1>2, <1>5, <2>2 DEF TagsFollow, TagsSent
    <3>. QED  BY <1>1, <3>2, <3>3, FirstTaken DEF TagsSent
  <2>. QED  BY <2>1, <2>2
<1>6. TagsSent(f) => TagsSent(f)' \/ working'[w] = WriteTags(f)
  BY <1>1, <1>2, FirstTaken DEF TagsSent
<1>7. \A x \in IndexWorkers : working[x] = WriteTags(f) => working'[x] = WriteTags(f)
  BY <1>1, <1>2, <1>3
<1>8. TagsNext(f)' <=> TagsNext(f)
  BY <1>1 DEF TagsNext
<1>. QED  BY <1>1, <1>4, <1>5, <1>6, <1>7, <1>8 DEF TagsFollow

\* A job that writes the text leaves its tags to come; one for tags writes them.
LEMMA TagsFollowDone ==
  ASSUME IndexTypeOK, NEW w \in IndexWorkers, doIndexJob(w), NEW f \in texts \cap TaggedFiles, TagsFollow(f)
  PROVE  TagsFollow(f)'
<1>1. /\ UNCHANGED <<indexJobs, reindex>> /\ working' = [working EXCEPT ![w] = NoIndexJob]
      /\ working[w] \in IndexJob
  BY DEF doIndexJob, IndexTypeOK
<1>2. NoIndexJob # WriteText(f) /\ NoIndexJob # WriteTags(f)
  BY DEF NoIndexJob, WriteText, WriteTags
<1>3. \A x \in IndexWorkers : working'[x] = WriteText(f) => working[x] = WriteText(f)
  BY <1>1, <1>2 DEF IndexTypeOK
<1>4. (TagsSent(f)' <=> TagsSent(f)) /\ (TagsNext(f)' <=> TagsNext(f))
  BY <1>1 DEF TagsSent, TagsNext
<1>5. CASE working[w] = WriteText(f)
  BY <1>1, <1>3, <1>4, <1>5 DEF TagsFollow
<1>6. CASE working[w] = WriteTags(f)
  <2>1. /\ working[w].file = f /\ working[w].kind = "tags"
    BY <1>6 DEF WriteTags
  <2>2. f \in DOMAIN textDoc' => textDoc'[f] = "tagged"
    BY <2>1 DEF doIndexJob, WithDoc, TagsOf
  <2>. QED  BY <1>1, <1>3, <1>4, <2>2 DEF TagsFollow
<1>7. CASE working[w] # WriteText(f) /\ working[w] # WriteTags(f)
  <2>1. working[w].file # f
    BY <1>1, <1>7 DEF IndexJob, WriteText, WriteTags
  <2>2. (f \in DOMAIN textDoc' <=> f \in DOMAIN textDoc) /\ (f \in DOMAIN textDoc => textDoc'[f] = textDoc[f])
    <3>1. \A g, tags : g # f => (f \in DOMAIN WithDoc(g, tags) <=> f \in DOMAIN textDoc)
                                  /\ (f \in DOMAIN textDoc => WithDoc(g, tags)[f] = textDoc[f])
      BY DEF WithDoc
    <3>2. UNCHANGED textDoc \/ \E g, tags : g # f /\ textDoc' = WithDoc(g, tags)
      BY <2>1, Zenon DEF doIndexJob
    <3>. QED  BY <3>1, <3>2
  <2>3. \A x \in IndexWorkers : working[x] = WriteTags(f) => working'[x] = WriteTags(f)
    BY <1>1, <1>7 DEF IndexTypeOK
  <2>. QED  BY <1>1, <1>3, <1>4, <2>2, <2>3 DEF TagsFollow
<1>. QED  BY <1>5, <1>6, <1>7

LEMMA TagsComeStill ==
  ASSUME IndexTypeOK, TagsComing, IndexNext
  PROVE  TagsComing'
<1>. USE DEF graphPart, docPart, jobPart, seenPart, Fault
<1>0. SUFFICES ASSUME tagTask, NEW f \in (texts' \cap TaggedFiles) \ jobsMet'
               PROVE  TagsFollow(f)'
  <2>1. UNCHANGED tagTask
    BY DEF IndexNext, RunSteps, DeleteSteps, RebuildSteps, RequeueSteps, WorkSteps, FilterSteps, createRun, runFile,
           indexRun, deleteFile, deleteRun, collect, dropRoiRun, dropFilesIndex, dropDocs, deleteRows,
           dropProjectIndex, readRuns, indexRoiRuns, reindexFile, syncTags, updateTagsForFile, reindexEnds,
           claimIndexJob, doIndexJob, retryIndexJob, tagFilterSet, roiSources, createFiltered, CrashIndexing
  <2>. QED  BY <2>1 DEF TagsComing
<1>1. texts' \subseteq texts /\ jobsMet \subseteq jobsMet'
  BY DEF IndexNext, RunSteps, DeleteSteps, RebuildSteps, RequeueSteps, WorkSteps, FilterSteps, createRun, runFile,
         indexRun, deleteFile, deleteRun, collect, dropRoiRun, dropFilesIndex, dropDocs, deleteRows,
         dropProjectIndex, readRuns, indexRoiRuns, reindexFile, syncTags, updateTagsForFile, reindexEnds,
         claimIndexJob, doIndexJob, retryIndexJob, tagFilterSet, roiSources, createFiltered, CrashIndexing
<1>2. f \in texts /\ f \in TaggedFiles /\ f \notin jobsMet /\ TagsFollow(f)
  BY <1>1, <1>0 DEF TagsComing
<1>3. CASE RunSteps \/ DeleteSteps \/ FilterSteps
  <2>1. UNCHANGED <<indexJobs, working, reindex>>
    BY <1>3 DEF RunSteps, DeleteSteps, FilterSteps, createRun, runFile, indexRun, deleteFile, deleteRun, collect,
                dropRoiRun, dropFilesIndex, dropDocs, deleteRows, tagFilterSet, roiSources, createFiltered
  <2>2. UNCHANGED textDoc \/ \E files : textDoc' = [g \in DOMAIN textDoc \ files |-> textDoc[g]]
    <3>1. ASSUME NEW runs, NEW files, NEW next, dropDocs(runs, files, next)
          PROVE  UNCHANGED textDoc \/ textDoc' = [g \in DOMAIN textDoc \ files |-> textDoc[g]]
      BY <3>1, Zenon DEF dropDocs
    <3>2. dropRoiRun \/ dropFilesIndex => \E files :
             UNCHANGED textDoc \/ textDoc' = [g \in DOMAIN textDoc \ files |-> textDoc[g]]
      BY <3>1, Zenon DEF dropRoiRun, dropFilesIndex
    <3>. QED  BY <1>3, <3>2
              DEF RunSteps, DeleteSteps, FilterSteps, createRun, runFile, indexRun, deleteFile, deleteRun, collect,
                  deleteRows, tagFilterSet, roiSources, createFiltered
  <2>3. (f \in DOMAIN textDoc' /\ textDoc'[f] # "tagged") => (f \in DOMAIN textDoc /\ textDoc[f] # "tagged")
    BY <2>2
  <2>. QED  BY <1>2, <2>1, <2>3, TagsFollowQuiet DEF TagsNext
<1>4. CASE RebuildSteps
  <2>1. UNCHANGED <<indexJobs, working>> /\ (UNCHANGED textDoc \/ DOMAIN textDoc' = {}) /\ reindex.at # "tags"
    BY <1>4 DEF RebuildSteps, dropProjectIndex, readRuns, indexRoiRuns
  <2>. QED  BY <1>2, <2>1, TagsFollowQuiet DEF TagsNext
<1>5. ASSUME NEW g \in TextFiles, reindexFile(g)
      PROVE  TagsFollow(f)'
  <2>1. UNCHANGED <<working, textDoc>> /\ reindex.at = "files"
    BY <1>5 DEF reindexFile
  <2>2. CASE g \in texts /\ g = f
    <3>1. reindex'.at = "tags" /\ reindex'.file = f
      <4>1. reindex' = [reindex EXCEPT !.at = "tags", !.file = f, !.todo = reindex.todo \ {f}]
        BY <1>5, <2>2 DEF reindexFile
      <4>2. reindex \in Reindexing
        BY DEF IndexTypeOK
      <4>. QED  BY <4>1, <4>2 DEF Reindexing
    <3>. QED  BY <3>1 DEF TagsFollow, TagsNext
  <2>3. CASE g \in texts /\ g # f
    <3>1. indexJobs' = Append(indexJobs, WriteText(g)) /\ WriteText(g) # WriteText(f) /\ ~TagsNext(f)
      BY <1>5, <2>1, <2>3 DEF reindexFile, Publish, WriteText, TagsNext
    <3>. QED  BY <1>2, <2>1, <3>1, TagsFollowSent
  <2>4. CASE g \notin texts
    <3>1. UNCHANGED indexJobs
      BY <1>5, <2>4 DEF reindexFile
    <3>. QED  BY <1>2, <2>1, <3>1, TagsFollowQuiet DEF TagsNext
  <2>. QED  BY <2>2, <2>3, <2>4
<1>6. CASE syncTags
  <2>1. UNCHANGED <<working, textDoc>> /\ reindex.at = "tags"
    BY <1>6 DEF syncTags
  <2>2. CASE reindex.file \in texts
    <3>1. indexJobs' = Append(indexJobs, WriteTags(reindex.file))
      BY <1>0, <1>6, <2>2 DEF syncTags, TagJob, Publish, WriteTags
    <3>2. WriteTags(reindex.file) # WriteText(f) /\ (TagsNext(f) => WriteTags(reindex.file) = WriteTags(f))
      BY DEF WriteTags, WriteText, TagsNext
    <3>. QED  BY <1>2, <2>1, <3>1, <3>2, TagsFollowSent
  <2>3. CASE reindex.file \notin texts
    <3>1. UNCHANGED indexJobs /\ ~TagsNext(f)
      BY <1>0, <1>2, <1>6, <2>3 DEF syncTags, TagJob, TagsNext
    <3>. QED  BY <1>2, <2>1, <3>1, TagsFollowQuiet
  <2>. QED  BY <2>2, <2>3
<1>7. CASE updateTagsForFile
  <2>1. UNCHANGED <<indexJobs, working>> /\ ~TagsNext(f)
    BY <1>7 DEF updateTagsForFile, TagsNext
  <2>2. (f \in DOMAIN textDoc' /\ textDoc'[f] # "tagged") => (f \in DOMAIN textDoc /\ textDoc[f] # "tagged")
    BY <1>2, <1>7 DEF updateTagsForFile, WithDoc, TagsOf
  <2>. QED  BY <1>2, <2>1, <2>2, TagsFollowQuiet
<1>8. CASE reindexEnds
  <2>1. UNCHANGED <<indexJobs, working, textDoc>> /\ ~TagsNext(f)
    BY <1>8 DEF reindexEnds, TagsNext
  <2>. QED  BY <1>2, <2>1, TagsFollowQuiet
<1>9. CASE WorkSteps
  <2>1. ASSUME NEW w \in IndexWorkers, retryIndexJob(w)
        PROVE  TagsFollow(f)'
    <3>1. PICK e : e = working[w]
      OBVIOUS
    <3>2. /\ e # NoIndexJob /\ indexJobs' = Append(indexJobs, e) /\ UNCHANGED <<textDoc, reindex>>
          /\ working' = [working EXCEPT ![w] = NoIndexJob] /\ e.file # f /\ e \in IndexJob
      BY <1>0, <2>1, <3>1 DEF retryIndexJob, IndexTypeOK
    <3>3. e # WriteText(f) /\ e # WriteTags(f) /\ NoIndexJob # WriteText(f)
      BY <3>2 DEF WriteText, WriteTags, NoIndexJob
    <3>4. (TagsSent(f) => TagsSent(f)') /\ (TagsNext(f)' <=> TagsNext(f))
      BY <3>2, SentLast DEF TagsSent, TagsNext
    <3>5. \A x \in IndexWorkers :
             /\ working'[x] = WriteText(f) => working[x] = WriteText(f)
             /\ working[x] = WriteTags(f) => working'[x] = WriteTags(f)
      BY <3>1, <3>2, <3>3 DEF IndexTypeOK
    <3>6. ASSUME NEW i \in DOMAIN indexJobs', indexJobs'[i] = WriteText(f)
          PROVE  TagsNext(f)' \/ \E j \in DOMAIN indexJobs' : j > i /\ indexJobs'[j] = WriteTags(f)
      <4>1. i \in DOMAIN indexJobs /\ indexJobs[i] = WriteText(f)
        BY <3>2, <3>3, <3>6, SentLast
      <4>2. CASE TagsNext(f)
        BY <3>4, <4>2
      <4>3. CASE ~TagsNext(f)
        <5>1. PICK j \in DOMAIN indexJobs : j > i /\ indexJobs[j] = WriteTags(f)
          BY <1>2, <4>1, <4>3 DEF TagsFollow
        <5>. QED  BY <3>2, <5>1, SentLast
      <4>. QED  BY <4>2, <4>3
    <3>. QED  BY <1>2, <3>2, <3>4, <3>5, <3>6 DEF TagsFollow
  <2>. QED  BY <1>0, <1>2, <1>9, <2>1, TagsFollowClaimed, TagsFollowDone DEF WorkSteps
<1>10. CASE CrashIndexing
  <2>1. UNCHANGED <<indexJobs, working, textDoc>> /\ jobsMet' = jobsMet \cup ({reindex.file} \ {NoText})
    BY <1>10 DEF CrashIndexing
  <2>2. ~TagsNext(f)
    BY <1>0, <2>1, IndexConstants DEF TagsNext
  <2>. QED  BY <1>2, <2>1, <2>2, TagsFollowQuiet
<1>. QED  BY <1>3, <1>4, <1>5, <1>6, <1>7, <1>8, <1>9, <1>10 DEF IndexNext, RequeueSteps

-----------------------------------------------------------------------------
(* Filters: the pages of a chunk while documents come in between.          *)

LEMMA LabelsTyped ==
  ASSUME NEW runs \in SUBSET RoiRuns
  PROVE  LabelsOf(runs) \subseteq TextFiles \X WantedLabels
BY IndexConstants DEF LabelsOf

LEMMA MatchingFinite ==
  ASSUME IndexTypeOK
  PROVE  Matching \subseteq Nat /\ IsFiniteSet(Matching) /\ Matching \subseteq roiDocs
<1>1. Matching \subseteq roiDocs /\ roiDocs \subseteq RoiRuns
  BY DEF Matching, IndexTypeOK
<1>. QED  BY <1>1, IndexConstants, SizesGrow

\* A new document moves others back, never forward.
LEMMA UnreadStays ==
  ASSUME IndexTypeOK, IndexTypeOK', roiDocs \subseteq roiDocs', UNCHANGED filter, NEW p, Unread(p), filter.start \in Nat
  PROVE  Unread(p)'
<1>1. PICK r \in Matching : p \in LabelsOf({r}) /\ Place(Matching, r) >= filter.start
  BY DEF Unread
<1>2. FileChunk' = FileChunk
  BY DEF FileChunk
<1>3. Matching \subseteq Matching' /\ Matching' \subseteq Nat /\ IsFiniteSet(Matching')
  <2>1. Matching \subseteq Matching'
    BY <1>2 DEF Matching
  <2>2. Matching' \subseteq roiDocs' /\ roiDocs' \subseteq RoiRuns
    BY DEF Matching, IndexTypeOK
  <2>. QED  BY <2>1, <2>2, IndexConstants, SizesGrow
<1>4. Place(Matching, r) <= Place(Matching', r) /\ Place(Matching, r) \in Nat /\ Place(Matching', r) \in Nat
  <2>1. {q \in Matching : q < r} \subseteq {q \in Matching' : q < r}
        /\ {q \in Matching' : q < r} \subseteq Matching'
    BY <1>3
  <2>2. IsFiniteSet({q \in Matching' : q < r})
    BY <1>3, <2>1, SizesGrow
  <2>. QED  BY <2>1, <2>2, SizesGrow DEF Place
<1>5. Place(Matching', r) >= filter.start
  BY <1>1, <1>4
<1>. QED  BY <1>1, <1>3, <1>5 DEF Unread, LabelsOf

\* What a filter of the desk as it is has to read, at the first document of a chunk.
LEMMA UnreadAtFirst ==
  ASSUME IndexTypeOK', NEW p \in LabelsOf(roiDocs'), p[1] \in FileChunk', filter'.start = 0
  PROVE  Unread(p)'
<1>1. PICK r \in roiDocs' : p \in LabelsOf({r})
  BY DEF LabelsOf
<1>2. r \in Matching'
  BY <1>1 DEF LabelsOf, Matching
<1>3. Matching' \subseteq Nat /\ IsFiniteSet(Matching')
  <2>1. Matching' \subseteq RoiRuns
    BY DEF Matching, IndexTypeOK
  <2>. QED  BY <2>1, IndexConstants, SizesGrow
<1>4. Place(Matching', r) \in Nat
  BY <1>2, <1>3, PlaceFacts
<1>5. Place(Matching', r) >= filter'.start
  BY <1>4
<1>. QED  BY <1>1, <1>2, <1>5 DEF Unread, LabelsOf

\* A page finds what is on it and leaves what comes behind it.
LEMMA PageReads ==
  ASSUME IndexTypeOK, filter \in FilterType, NEW p, Unread(p)
  PROVE  \/ p \in LabelsOf(Page)
         \/ ~LastPage /\ \E r \in Matching : p \in LabelsOf({r}) /\ Place(Matching, r) >= filter.start + PageRows
<1>0. filter.start \in Nat /\ PageRows \in Nat \ {0}
  BY IndexConstants DEF FilterType
<1>1. PICK r \in Matching : p \in LabelsOf({r}) /\ Place(Matching, r) >= filter.start
  BY DEF Unread
<1>2. Page = {q \in Matching : Place(Matching, q) >= filter.start /\ Place(Matching, q) < filter.start + PageRows}
  BY DEF Page, Place
<1>3. \A q \in Matching : Place(Matching, q) \in Nat /\ Place(Matching, q) < Cardinality(Matching)
  BY MatchingFinite, PlaceFacts
<1>4. CASE Place(Matching, r) < filter.start + PageRows
  <2>1. r \in Page
    BY <1>1, <1>2, <1>4
  <2>. QED  BY <1>1, <2>1 DEF LabelsOf
<1>5. CASE Place(Matching, r) >= filter.start + PageRows
  <2>1. Page # {}
    <3>1. \E q \in Matching : Place(Matching, q) = filter.start
      BY <1>0, <1>1, MatchingFinite, PlaceTaken
    <3>. QED  BY <1>0, <1>2, <3>1
  <2>2. Cardinality(Page) <= PageRows /\ Cardinality(Page) \in Nat
    <3>1. Page \subseteq Matching /\ \A q \in Page : Place(Matching, q) >= filter.start
                                                     /\ Place(Matching, q) < filter.start + PageRows
      BY <1>2
    <3>2. Cardinality(Page) <= PageRows
      BY <1>0, <3>1, MatchingFinite, PlaceWindow
    <3>. QED  BY <3>1, <3>2, MatchingFinite, SizesGrow
  <2>3. Cardinality(Matching) \in Nat
    BY MatchingFinite, FS_CardinalityType
  <2>4. ~(filter.start + Cardinality(Page) >= Cardinality(Matching))
    BY <1>0, <1>3, <1>5, <2>2, <2>3
  <2>. QED  BY <1>1, <1>5, <2>1, <2>4 DEF LastPage
<1>6. Place(Matching, r) \in Nat
  BY <1>3
<1>7. Place(Matching, r) < filter.start + PageRows \/ Place(Matching, r) >= filter.start + PageRows
  BY <1>0, <1>6
<1>. QED  BY <1>4, <1>5, <1>7

LEMMA FilterReadsQuiet ==
  ASSUME IndexTypeOK, IndexTypeOK', FilterReads, UNCHANGED filter, texts' \subseteq texts,
         moved' \in BOOLEAN, moved => moved', (Reading /\ ~moved') => roiDocs \subseteq roiDocs'
  PROVE  FilterReads'
<1>1. filter' \in FilterType /\ moved' \in BOOLEAN /\ filter.start \in Nat
  BY DEF FilterReads, FilterType
<1>2. ASSUME Reading, ~moved'
      PROVE  /\ filter.kept \subseteq LabelsOf(roiDocs')
             /\ \A p \in filter.kept :
                  /\ p[1] \in filter.files \ filter.left => p \in filter.found
                  /\ p[1] \in filter.left \cap FileChunk => p \in filter.found \/ Unread(p)'
  <2>1. roiDocs \subseteq roiDocs'
    BY <1>2
  <2>2. LabelsOf(roiDocs) \subseteq LabelsOf(roiDocs')
    BY <2>1 DEF LabelsOf
  <2>3. filter.kept \subseteq LabelsOf(roiDocs)
        /\ \A p \in filter.kept :
              /\ p[1] \in filter.files \ filter.left => p \in filter.found
              /\ p[1] \in filter.left \cap FileChunk => p \in filter.found \/ Unread(p)
    BY <1>2 DEF FilterReads
  <2>. QED  BY <1>1, <2>1, <2>2, <2>3, UnreadStays
<1>3. FileChunk' = FileChunk
  BY DEF FileChunk
<1>4. FilterMissesNone'
  BY DEF FilterReads, FilterMissesNone, Matched
<1>. QED  BY <1>1, <1>2, <1>3, <1>4 DEF FilterReads, Reading

LEMMA FilterBegins ==
  ASSUME IndexTypeOK, IndexTypeOK', tagFilterSet
  PROVE  FilterReads'
<1>1. /\ filter' = [NoFilter EXCEPT !.at = "read", !.files = texts, !.left = texts, !.kept = LabelsOf(roiDocs)]
      /\ moved' = FALSE /\ UNCHANGED <<texts, roiDocs>>
  BY DEF tagFilterSet, graphPart, docPart
<1>2. LabelsOf(roiDocs) \subseteq TextFiles \X WantedLabels /\ texts \subseteq TextFiles
  BY LabelsTyped DEF IndexTypeOK
<1>3. /\ filter'.at = "read" /\ filter'.files = texts /\ filter'.left = texts /\ filter'.kept = LabelsOf(roiDocs)
      /\ filter'.start = 0 /\ filter' \in FilterType
  BY <1>1, <1>2 DEF NoFilter, FilterType
<1>4. ASSUME NEW p \in LabelsOf(roiDocs), p[1] \in FileChunk'
      PROVE  Unread(p)'
  <2>1. p \in LabelsOf(roiDocs')
    BY <1>1
  <2>. QED  BY <1>3, <1>4, <2>1, UnreadAtFirst
<1>5. LabelsOf(roiDocs)' = LabelsOf(roiDocs)
  BY <1>1 DEF LabelsOf
<1>. QED  BY <1>1, <1>3, <1>4, <1>5 DEF FilterReads, Reading, FilterMissesNone

LEMMA FilterGoesOn ==
  ASSUME IndexTypeOK, IndexTypeOK', FilterReads, roiSources
  PROVE  FilterReads'
<1>1. /\ filter' = [filter EXCEPT !.found = filter.found \cup LabelsOf(Page),
                      !.left = IF LastPage THEN filter.left \ FileChunk ELSE filter.left,
                      !.start = IF LastPage THEN 0 ELSE filter.start + PageRows]
      /\ UNCHANGED <<moved, roiDocs, texts>> /\ Reading
  BY DEF roiSources, graphPart, docPart, seenPart
<1>2. filter \in FilterType /\ PageRows \in Nat
  BY IndexConstants DEF FilterReads
<1>3. LabelsOf(Page) \subseteq TextFiles \X WantedLabels
  <2>1. Page \in SUBSET RoiRuns
    BY DEF Page, Matching, IndexTypeOK
  <2>. QED  BY <2>1, LabelsTyped
<1>4. /\ filter'.at = "read" /\ filter'.files = filter.files /\ filter'.kept = filter.kept
      /\ filter'.found = filter.found \cup LabelsOf(Page)
      /\ LastPage => filter'.left = filter.left \ FileChunk /\ filter'.start = 0
      /\ ~LastPage => filter'.left = filter.left /\ filter'.start = filter.start + PageRows
  BY <1>1, <1>2 DEF FilterType, Reading
<1>5. filter' \in FilterType
  <2>1. filter.found \cup LabelsOf(Page) \in SUBSET (TextFiles \X WantedLabels)
    BY <1>2, <1>3 DEF FilterType
  <2>2. PICK left, start : /\ left = (IF LastPage THEN filter.left \ FileChunk ELSE filter.left)
                           /\ start = (IF LastPage THEN 0 ELSE filter.start + PageRows)
    OBVIOUS
  <2>3. left \in SUBSET TextFiles /\ start \in Nat
    BY <1>2, <2>2 DEF FilterType
  <2>. QED  BY <1>1, <1>2, <2>1, <2>2, <2>3 DEF FilterType
<1>6. ASSUME ~moved, NEW p \in filter.kept
      PROVE  /\ p[1] \in filter'.files \ filter'.left => p \in filter'.found
             /\ p[1] \in filter'.left \cap FileChunk' => p \in filter'.found \/ Unread(p)'
  <2>1. /\ p \in LabelsOf(roiDocs)
        /\ p[1] \in filter.files \ filter.left => p \in filter.found
        /\ p[1] \in filter.left \cap FileChunk => p \in filter.found \/ Unread(p)
    BY <1>1, <1>6 DEF FilterReads
  <2>2. CASE LastPage
    <3>1. p[1] \in filter.left \cap FileChunk => p \in filter'.found
      BY <1>2, <1>4, <2>1, <2>2, PageReads
    <3>2. p[1] \in FileChunk' => Unread(p)'
      <4>1. p \in LabelsOf(roiDocs')
        BY <1>1, <2>1
      <4>. QED  BY <1>4, <2>2, <4>1, UnreadAtFirst
    <3>. QED  BY <1>4, <2>1, <2>2, <3>1, <3>2
  <2>3. CASE ~LastPage
    <3>1. FileChunk' = FileChunk
      BY <1>4, <2>3 DEF FileChunk
    <3>2. Matching' = Matching
      BY <1>1, <3>1 DEF Matching
    <3>3. ASSUME p[1] \in filter.left \cap FileChunk, p \notin filter'.found
          PROVE  Unread(p)'
      <4>1. \E r \in Matching : p \in LabelsOf({r}) /\ Place(Matching, r) >= filter.start + PageRows
        BY <1>2, <1>4, <2>1, <3>3, PageReads
      <4>. QED  BY <1>4, <2>3, <3>2, <4>1 DEF Unread, LabelsOf
    <3>. QED  BY <1>4, <2>1, <2>3, <3>1, <3>3
  <2>. QED  BY <2>2, <2>3
<1>7. LabelsOf(roiDocs)' = LabelsOf(roiDocs) /\ (~moved => filter.kept \subseteq LabelsOf(roiDocs))
  BY <1>1 DEF LabelsOf, FilterReads
<1>8. FilterMissesNone'
  BY <1>4 DEF FilterMissesNone
<1>. QED  BY <1>1, <1>4, <1>5, <1>6, <1>7, <1>8 DEF FilterReads

\* Everything is read by now: what the set gets is decided by what was kept.
LEMMA FilterEnds ==
  ASSUME IndexTypeOK, FilterReads, createFiltered
  PROVE  FilterReads'
<1>1. PICK mode \in {"or", "and", "exclude"} :
        filter' = [filter EXCEPT !.at = mode, !.out = Matched(mode, filter.found, filter.files) \cap texts]
  BY DEF createFiltered
<1>2. Reading /\ filter.left = {} /\ UNCHANGED <<moved, texts>>
  BY DEF createFiltered, graphPart, seenPart
<1>3. filter \in FilterType /\ moved \in BOOLEAN /\ texts \subseteq TextFiles
  BY DEF FilterReads, IndexTypeOK
<1>4. Matched(mode, filter.found, filter.files) \cap texts \in SUBSET TextFiles
  BY <1>3
<1>5. /\ filter' \in FilterType /\ filter'.at = mode /\ filter'.files = filter.files /\ filter'.kept = filter.kept
      /\ filter'.out = Matched(mode, filter.found, filter.files) \cap texts
  BY <1>1, <1>3, <1>4 DEF FilterType
<1>6. ASSUME ~moved
      PROVE  \A f \in filter.files, l \in WantedLabels : <<f, l>> \in filter.kept => <<f, l>> \in filter.found
  <2>1. \A p \in filter.kept : p[1] \in filter.files \ {} => p \in filter.found
    BY <1>2, <1>6 DEF FilterReads
  <2>. QED  BY <2>1
<1>7. FilterMissesNone'
  <2>1. SUFFICES ASSUME ~moved
                 PROVE  LET had == Matched(mode, filter.kept, filter.files) IN
                        IF mode = "exclude" THEN filter'.out \subseteq had ELSE had \cap texts \subseteq filter'.out
    BY <1>2, <1>5 DEF FilterMissesNone
  <2>2. ASSUME NEW f \in filter.files
        PROVE  {l \in WantedLabels : <<f, l>> \in filter.kept} \subseteq {l \in WantedLabels : <<f, l>> \in filter.found}
    BY <1>6, <2>1
  <2>3. CASE mode = "or"
    BY <1>5, <2>2, <2>3 DEF Matched
  <2>4. CASE mode = "and"
    BY <1>5, <2>2, <2>4 DEF Matched
  <2>5. CASE mode = "exclude"
    BY <1>5, <2>2, <2>5 DEF Matched
  <2>. QED  BY <1>1, <2>3, <2>4, <2>5
<1>. QED  BY <1>2, <1>3, <1>5, <1>7 DEF FilterReads, Reading

LEMMA FilterReadsOn ==
  ASSUME IndexTypeOK, IndexTypeOK', FilterReads, IndexNext
  PROVE  FilterReads'
<1>. USE DEF graphPart, docPart, jobPart, seenPart, Fault
<1>0. moved \in BOOLEAN
  BY DEF FilterReads
<1>1. CASE RunSteps \/ readRuns \/ indexRoiRuns \/ RequeueSteps \/ WorkSteps
  <2>1. UNCHANGED <<filter, texts, moved>> /\ roiDocs \subseteq roiDocs'
    BY <1>1 DEF RunSteps, RequeueSteps, WorkSteps, createRun, runFile, indexRun, readRuns, indexRoiRuns, reindexFile,
                syncTags, updateTagsForFile, reindexEnds, claimIndexJob, doIndexJob, retryIndexJob
  <2>. QED  BY <1>0, <2>1, FilterReadsQuiet
<1>2. CASE DeleteSteps
  <2>1. ASSUME NEW runs, NEW files, NEW next, dropDocs(runs, files, next)
        PROVE  UNCHANGED <<filter, texts>> /\ (moved => moved') /\ ((Reading /\ ~moved') => UNCHANGED roiDocs)
               /\ moved' \in BOOLEAN
    BY <1>0, <2>1 DEF dropDocs
  <2>2. UNCHANGED filter /\ texts' \subseteq texts /\ (moved => moved') /\ ((Reading /\ ~moved') => UNCHANGED roiDocs)
        /\ moved' \in BOOLEAN
    BY <1>0, <1>2, <2>1 DEF DeleteSteps, deleteFile, deleteRun, collect, dropRoiRun, dropFilesIndex, deleteRows
  <2>. QED  BY <2>2, FilterReadsQuiet
<1>3. CASE dropProjectIndex
  <2>1. /\ UNCHANGED <<filter, texts>> /\ moved' = (moved \/ (Reading /\ roiDocs # {})) /\ roiDocs' = {}
    BY <1>3 DEF dropProjectIndex
  <2>. QED  BY <1>0, <2>1, FilterReadsQuiet
<1>4. CASE CrashIndexing
  <2>1. filter' = NoFilter /\ UNCHANGED moved
    BY <1>4 DEF CrashIndexing
  <2>. QED  BY <1>0, <2>1 DEF FilterReads, FilterType, NoFilter, Reading, FilterMissesNone
<1>. QED  BY <1>1, <1>2, <1>3, <1>4, FilterBegins, FilterGoesOn, FilterEnds DEF IndexNext, RebuildSteps, FilterSteps

-----------------------------------------------------------------------------
\* Any step keeps the invariant.
LEMMA IndexStays ==
  ASSUME IndexInv, [IndexNext]_indexVars
  PROVE  IndexInv'
<1>1. CASE IndexNext
  <2>1. IndexTypeOK'
    BY <1>1, RunStepsTyped, OtherStepsTyped DEF IndexInv, IndexNext
  <2>. QED  BY <1>1, <2>1, RunsStayFound, DepartedStayDropped, TagsComeStill, FilterReadsOn DEF IndexInv
<1>2. CASE UNCHANGED indexVars
  <2>1. IndexTypeOK'
    BY <1>2 DEF indexVars, IndexInv, IndexTypeOK
  <2>2. RunsFound' /\ DepartedDropped'
    BY <1>2 DEF indexVars, IndexInv, RunsFound, DepartedDropped, Departed, Leaving
  <2>3. TagsComing'
    BY <1>2 DEF indexVars, IndexInv, TagsComing, TagsFollow, TagsSent, TagsNext
  <2>4. FilterReads'
    <3>1. UNCHANGED <<filter, texts, moved, roiDocs>> /\ moved \in BOOLEAN /\ FilterReads /\ IndexTypeOK
      BY <1>2 DEF indexVars, IndexInv, FilterReads
    <3>. QED  BY <2>1, <3>1, FilterReadsQuiet
  <2>. QED  BY <2>1, <2>2, <2>3, <2>4 DEF IndexInv
<1>. QED  BY <1>1, <1>2

\* The invariant says what search and filters show.
LEMMA IndexInvShows ==
  ASSUME IndexInv
  PROVE  TextIsFound
<1>1. EveryRunIndexed
  BY DEF IndexInv, RunsFound, EveryRunIndexed, Posted
<1>2. NothingGoneIsFound
  BY DEF IndexInv, DepartedDropped, Departed, NothingGoneIsFound, Leaving, NoDeletion
<1>3. TagsComeBack
  <2>1. SUFFICES ASSUME tagTask, reindex.at \notin {"tags", "repost"}, indexJobs = <<>>,
                        \A w \in IndexWorkers : working[w] = NoIndexJob,
                        NEW f \in (DOMAIN textDoc \cap texts \cap TaggedFiles) \ jobsMet
                 PROVE  textDoc[f] = "tagged"
    BY DEF TagsComeBack
  <2>2. TagsFollow(f) /\ DOMAIN indexJobs = {} /\ NoIndexJob # WriteTags(f)
    BY <2>1 DEF IndexInv, TagsComing, NoIndexJob, WriteTags
  <2>. QED  BY <2>1, <2>2 DEF TagsFollow, TagsNext, TagsSent
<1>. QED  BY <1>1, <1>2, <1>3 DEF IndexInv, FilterReads, TextIsFound, IndexIsComplete

\* Text is found for any files, runs, workers and any number of faults and
\* reindexings: the index has a document of all that is there and of nothing
\* else, tags come back, and a filter misses no file (ner.ts:49, 60-77,
\* processing.ts:544-591, solr.ts:301-324).
THEOREM SearchFinds == IndexSpec => []TextIsFound
<1>1. IndexInit => IndexInv
  BY IndexStarts
<1>2. IndexInv /\ [IndexNext]_indexVars => IndexInv'
  BY IndexStays
<1>3. IndexInv => TextIsFound
  BY IndexInvShows
<1>. QED  BY <1>1, <1>2, <1>3, PTL DEF IndexSpec
=============================================================================
