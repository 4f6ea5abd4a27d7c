------------------------------ MODULE ZipJobs ------------------------------
(***************************************************************************)
(* Archives of a set.  A request leaves a record in the tmp directory and  *)
(* a job; the zip service writes the archive beside the record; the page   *)
(* of the user polls the record and downloads the archive, which removes   *)
(* both.  Nothing else knows of the two files.                             *)
(***************************************************************************)
EXTENDS Naturals

CONSTANTS
  ZipUsers, ZipIds,
  Packers,        \* consumers of the zip service
  NoZip, NoUser,
  MaxZipTries     \* bound: how often a job is claimed

ASSUME ZipConstants == NoUser \notin ZipUsers /\ NoZip \notin ZipIds /\ MaxZipTries \in Nat

VARIABLES
  zipFiles,  \* has the set files with a path?
  record,    \* per id: whose record is there, is it older than the TTL?
  archive,   \* per id: "none", "part" or "whole"
  zipJob,    \* per id: where its job is, how often it was claimed
  packer,    \* per consumer the id it packs
  sending,   \* per id: is its archive being downloaded?
  wrote      \* history: ids written to when their record was gone

zipVars == <<zipFiles, record, archive, zipJob, packer, sending, wrote>>

NoRecord == [user |-> NoUser, old |-> FALSE]

ZipInit ==
  /\ zipFiles \in BOOLEAN /\ record = [i \in ZipIds |-> NoRecord]
  /\ archive = [i \in ZipIds |-> "none"] /\ zipJob = [i \in ZipIds |-> [at |-> "none", tries |-> 0]]
  /\ packer = [p \in Packers |-> NoZip] /\ sending = [i \in ZipIds |-> FALSE] /\ wrote = {}

Recorded(i) == record[i] # NoRecord

\* create: refused for a set without files that have paths and without a zip
\* service; an id is new.  The record comes before the job.
createZip(i, u) ==
  /\ zipFiles /\ zipJob[i].at = "none" /\ ~Recorded(i) /\ \E p \in Packers : TRUE
  /\ record' = [record EXCEPT ![i] = [user |-> u, old |-> FALSE]]
  /\ zipJob' = [zipJob EXCEPT ![i].at = "publish"]
  /\ UNCHANGED <<zipFiles, archive, packer, sending, wrote>>

publishZip(i) ==
  /\ zipJob[i].at = "publish" /\ zipJob' = [zipJob EXCEPT ![i].at = "queued"]
  /\ UNCHANGED <<zipFiles, record, archive, packer, sending, wrote>>

-----------------------------------------------------------------------------
(* The zip service: the archive grows under its own name.                  *)

claimZip(p, i) ==
  /\ packer[p] = NoZip /\ zipJob[i].at = "queued" /\ zipJob[i].tries < MaxZipTries
  /\ packer' = [packer EXCEPT ![p] = i]
  /\ zipJob' = [zipJob EXCEPT ![i] = [at |-> "running", tries |-> @.tries + 1]]
  /\ UNCHANGED <<zipFiles, record, archive, sending, wrote>>

Packed(p, i, state) ==
  /\ archive' = [archive EXCEPT ![i] = state]
  /\ wrote' = IF Recorded(i) THEN wrote ELSE wrote \cup {i}
  /\ UNCHANGED <<zipFiles, record, sending>>

packZip(p) ==
  /\ packer[p] # NoZip /\ archive[packer[p]] # "part"
  /\ Packed(p, packer[p], "part") /\ UNCHANGED <<zipJob, packer>>

zipPacked(p) ==
  /\ packer[p] # NoZip /\ archive[packer[p]] = "part" /\ Packed(p, packer[p], "whole")
  /\ zipJob' = [zipJob EXCEPT ![packer[p]].at = "done"] /\ packer' = [packer EXCEPT ![p] = NoZip]

\* The lease lapses; the consumer may go on for all that.
zipLapses(i) ==
  /\ zipJob[i].at = "running" /\ zipJob' = [zipJob EXCEPT ![i].at = "queued"]
  /\ UNCHANGED <<zipFiles, record, archive, packer, sending, wrote>>

zipAttemptLost(p) ==
  /\ packer[p] # NoZip /\ packer' = [packer EXCEPT ![p] = NoZip]
  /\ UNCHANGED <<zipFiles, record, archive, zipJob, sending, wrote>>

-----------------------------------------------------------------------------
(* The page of the user.                                                   *)

loadZip(i, u) == Recorded(i) /\ record[i].user = u

\* Mutant: only the record is removed.
RecordOnly(i) == archive

\* cleanup: both files, whichever are there.
BothGone(i) == [archive EXCEPT ![i] = "none"]

cleanupZip(i) == record' = [record EXCEPT ![i] = NoRecord] /\ archive' = BothGone(i)

\* status: an archive that is there counts as ready; else the age decides.
zipStatus(i, u) ==
  /\ loadZip(i, u) /\ archive[i] = "none" /\ record[i].old /\ cleanupZip(i)
  /\ UNCHANGED <<zipFiles, zipJob, packer, sending, wrote>>

startDownload(i, u) ==
  /\ loadZip(i, u) /\ archive[i] # "none" /\ ~sending[i]
  /\ sending' = [sending EXCEPT ![i] = TRUE]
  /\ UNCHANGED <<zipFiles, record, archive, zipJob, packer, wrote>>

\* The browser may go away before the end: then nothing is removed.
finishDownload(i) ==
  /\ sending[i] /\ sending' = [sending EXCEPT ![i] = FALSE]
  /\ cleanupZip(i) \/ UNCHANGED <<record, archive>>
  /\ UNCHANGED <<zipFiles, zipJob, packer, wrote>>

ZipTtlPasses(i) ==
  /\ Recorded(i) /\ ~record[i].old /\ record' = [record EXCEPT ![i].old = TRUE]
  /\ UNCHANGED <<zipFiles, archive, zipJob, packer, sending, wrote>>

ZipNext ==
  \/ \E i \in ZipIds : publishZip(i) \/ finishDownload(i) \/ ZipTtlPasses(i) \/ zipLapses(i)
  \/ \E i \in ZipIds, u \in ZipUsers : createZip(i, u) \/ zipStatus(i, u) \/ startDownload(i, u)
  \/ \E p \in Packers : packZip(p) \/ zipPacked(p) \/ zipAttemptLost(p) \/ \E i \in ZipIds : claimZip(p, i)

ZipSpec == ZipInit /\ [][ZipNext]_zipVars

-----------------------------------------------------------------------------
\* An archive that no record leads to, and that nobody will ever remove, is
\* there only if the zip service wrote it after the timeout or the download
\* had removed the record (zip-jobs.ts:86-89, 97).
ArchivesHaveRecords ==
  \A i \in ZipIds : archive[i] # "none" => Recorded(i) \/ i \in wrote
=============================================================================
