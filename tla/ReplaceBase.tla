---------------------------- MODULE ReplaceBase ----------------------------
(* ReplaceBaseApplyGuard: the sync engine copies the files of the local        *)
(* database aside and writes a marker before it replaces their contents by a   *)
(* snapshot of the remote; an error or a crash puts the copies back.  A file   *)
(* has contents and a directory entry.  fsync of a file covers its contents    *)
(* only; entries reach the disk in the order they changed, at the latest with  *)
(* sync_parent_dir.                                                            *)
(*                                                                             *)
(* The guard covers the database, its WAL and its logical log.  It copies the  *)
(* revert WAL and the metadata too, but those are brought up to date when the  *)
(* marker is gone: the revert WAL first, synced, then the metadata, not synced. *)
EXTENDS Integers, Sequences

CONSTANTS
  MainFiles,     \* how many files the apply rewrites: the database, its WAL, its log
  FirstFiles,    \* the files that exist before the first apply
  MaxApplies, MaxPowerCuts

ASSUME ReplaceAssumption ==
  /\ MainFiles \in Nat \ {0} /\ FirstFiles \subseteq 1..(MainFiles + 2)
  /\ MaxApplies \in Nat /\ MaxPowerCuts \in Nat

(* The files, in the order of file_specs *)
Main   == 1..MainFiles
Revert == MainFiles + 1
Meta   == MainFiles + 2
Real   == 1..Meta

(* Contents: a generation of the database (0, 1, ...), for the revert WAL and   *)
(* the metadata the one they belong to, for the marker the number of the apply, *)
(* or                                                                           *)
Absent == -1      \* there is no such file
Blank  == -2      \* nothing in it
Torn   == -3      \* part of what was written

VARIABLES
  file,        \* contents of every file, as the process sees them
  synced,      \* ... as the last fsync left them
  entry,       \* names whose directory entry is on the disk
  journal,     \* changes of entries that are not: <<name, it exists, contents before>>
  manifest,    \* the files that the marker of an apply says were present
  stage,       \* where the sync engine is
  next,        \* the file that the loop of the stage visits next
  base,        \* history: the generation of the last durable apply or commit
  lost,        \* history: a marker stayed while the files or backups it is for went on
  applies, cuts

diskVars == <<file, synced, entry, journal>>
rbVars == <<diskVars, manifest, stage, next, base, lost, applies, cuts>>

Of(f)     == <<"real", f>>
Backup(f) == <<"backup", f>>
Marker    == <<"marker", 0>>
Names     == {Marker} \cup {Of(f) : f \in Real} \cup {Backup(f) : f \in Real}

ReplaceInit ==
  /\ file = [n \in Names |-> IF n \in {Of(f) : f \in FirstFiles} THEN 0 ELSE Absent]
  /\ synced = file
  /\ entry = {Of(f) : f \in FirstFiles} /\ journal = <<>>
  /\ manifest = [a \in 1..MaxApplies |-> {}] /\ stage = "open" /\ next = 1
  /\ base = 0 /\ lost = FALSE /\ applies = 0 /\ cuts = 0

-----------------------------------------------------------------------------
(* Files *)

(* full_write, with the fsync of sync_path_if_present when durable *)
WriteFile(n, v, durable) ==
  /\ file' = [file EXCEPT ![n] = v]
  /\ synced' = [synced EXCEPT ![n] = IF durable THEN v ELSE IF file[n] = Absent THEN Blank ELSE @]
  /\ journal' = IF file[n] = Absent THEN Append(journal, <<n, TRUE, Absent>>) ELSE journal
  /\ UNCHANGED entry

(* remove_file_if_present *)
RemoveFile(n) ==
  /\ file' = [file EXCEPT ![n] = Absent]
  /\ journal' = IF file[n] = Absent THEN journal ELSE Append(journal, <<n, FALSE, synced[n]>>)
  /\ UNCHANGED <<synced, entry>>

(* full_read: an empty file reads as none *)
FileReads(n) == file[n] \notin {Absent, Blank}

(* copy_sync_engine_file: without a source the target is removed *)
CopyFile(from, to) ==
  IF FileReads(from) THEN WriteFile(to, file[from], TRUE) ELSE RemoveFile(to)

(* The entries once the first k changes are on the disk *)
EntriesAfter(k) ==
  LET last(n) == {i \in 1..k : journal[i][1] = n}
      final(n) == CHOOSE i \in last(n) : \A j \in last(n) : j <= i
  IN {n \in Names : IF last(n) = {} THEN n \in entry ELSE journal[final(n)][2]}

(* sync_parent_dir *)
SyncParentDir ==
  /\ entry' = EntriesAfter(Len(journal)) /\ journal' = <<>>
  /\ UNCHANGED <<file, synced>>

(* Mutant: the directory is left to the file system. *)
NoSyncParentDir == UNCHANGED diskVars

-----------------------------------------------------------------------------
(* ReplaceBaseApplyGuard::create *)

Stage(from, to) == stage = from /\ stage' = to

StartApply ==
  /\ Stage("open", "backup") /\ applies < MaxApplies
  /\ applies' = applies + 1
  /\ next' = 1
  /\ UNCHANGED <<diskVars, manifest, base, lost, cuts>>

BackupFile ==
  /\ stage = "backup" /\ next \in Real
  /\ CopyFile(Of(next), Backup(next))
  /\ manifest' = [manifest EXCEPT ![applies] = IF FileReads(Of(next)) THEN @ \cup {next} ELSE @]
  /\ next' = next + 1
  /\ UNCHANGED <<stage, base, lost, applies, cuts>>

(* Over a marker that an earlier create has left the contents may reach the    *)
(* disk before the entries of the backups.                                     *)
WriteMarker ==
  /\ Stage("backup", "marked") /\ next \notin Real
  /\ WriteFile(Marker, applies, FALSE)
  /\ lost' = (lost \/ (Marker \in entry /\ \E f \in manifest[applies] : Backup(f) \notin entry))
  /\ UNCHANGED <<manifest, next, base, applies, cuts>>

SyncMarker ==
  /\ Stage("marked", "barrier")
  /\ WriteFile(Marker, applies, TRUE)
  /\ UNCHANGED <<manifest, next, base, lost, applies, cuts>>

(* Mutant: no barrier between the marker and the apply. *)
NoBarrier == Stage("barrier", "apply") /\ NoSyncParentDir

Barrier == Stage("barrier", "apply") /\ SyncParentDir

CreateDone == Barrier /\ UNCHANGED <<manifest, next, base, lost, applies, cuts>>

(* An error in create: what it has written stays, the marker included. *)
CreateFails ==
  /\ stage \in {"backup", "marked", "barrier"} /\ stage' = "open"
  /\ UNCHANGED <<diskVars, manifest, next, base, lost, applies, cuts>>

(* The application commits between two applies; how a commit becomes durable is *)
(* the business of the WAL.                                                     *)
LocalCommit ==
  LET written == {Of(f) : f \in Main} IN
  /\ stage = "open" /\ applies < MaxApplies
  /\ applies' = applies + 1
  /\ base' = base + applies'
  /\ file' = [n \in Names |-> IF n \in written THEN base' ELSE file[n]]
  /\ synced' = [n \in Names |-> IF n \in written THEN base' ELSE synced[n]]
  /\ entry' = entry \cup written
  /\ journal' = SelectSeq(journal, LAMBDA c : c[1] \notin written)
  /\ lost' = (lost \/ file[Marker] # Absent \/ Marker \in entry)
  /\ UNCHANGED <<manifest, stage, next, cuts>>

-----------------------------------------------------------------------------
(* The rest of apply_changes_internal, until the match on its result: pages of *)
(* the new base through the WAL, the log reset and synced, then the local      *)
(* changes again, each commit of which syncs the WAL.                          *)
NewGeneration == base + applies

RewriteFile(f) ==
  /\ stage = "apply" /\ f \in Main /\ file[Of(f)] # NewGeneration
  /\ WriteFile(Of(f), NewGeneration, FALSE)
  /\ UNCHANGED <<manifest, stage, next, base, lost, applies, cuts>>

SyncFile(f) ==
  /\ stage = "apply" /\ f \in Main /\ file[Of(f)] # synced[Of(f)]
  /\ WriteFile(Of(f), file[Of(f)], TRUE)
  /\ UNCHANGED <<manifest, stage, next, base, lost, applies, cuts>>

ApplyOk ==
  /\ Stage("apply", "complete")
  /\ \A f \in Main : file[Of(f)] = NewGeneration /\ synced[Of(f)] = NewGeneration
  /\ UNCHANGED <<diskVars, manifest, next, base, lost, applies, cuts>>

ApplyFails ==
  /\ Stage("apply", "restore")
  /\ next' = 1
  /\ UNCHANGED <<diskVars, manifest, base, lost, applies, cuts>>

-----------------------------------------------------------------------------
(* restore, after an error or for open_db, and cleanup, after a restore or a   *)
(* success                                                                     *)

WasPresent(f) == f \in manifest[file[Marker]]

RestoreFile ==
  /\ stage = "restore" /\ next \in Real
  /\ IF WasPresent(next) THEN CopyFile(Backup(next), Of(next)) ELSE RemoveFile(Of(next))
  /\ stage' = IF WasPresent(next) /\ ~FileReads(Backup(next)) THEN "missing" ELSE stage
  /\ next' = next + 1
  /\ UNCHANGED <<manifest, base, lost, applies, cuts>>

Restored ==
  /\ Stage("restore", "restored") /\ next \notin Real
  /\ UNCHANGED <<diskVars, manifest, next, base, lost, applies, cuts>>

(* Mutant: the backups go first. *)
RemoveBackupsFirst ==
  /\ stage \in {"complete", "restored"}
  /\ \E f \in Real : RemoveFile(Backup(f))
  /\ UNCHANGED <<stage, next, base>>

RemoveMarkerFirst ==
  /\ stage \in {"complete", "restored"}
  /\ stage' = IF stage = "complete" THEN "unmarked" ELSE "unmarked again"
  /\ RemoveFile(Marker)
  /\ UNCHANGED <<next, base>>

CleanupMarker == RemoveMarkerFirst /\ UNCHANGED <<manifest, lost, applies, cuts>>

CleanupSync ==
  /\ stage \in {"unmarked", "unmarked again"}
  /\ stage' = IF stage = "unmarked" THEN "cleanup" ELSE "cleanup again"
  /\ SyncParentDir
  /\ next' = 1
  /\ base' = IF stage = "unmarked" THEN NewGeneration ELSE base
  /\ UNCHANGED <<manifest, lost, applies, cuts>>

RemoveBackup ==
  /\ stage \in {"cleanup", "cleanup again"} /\ next \in Real
  /\ RemoveFile(Backup(next))
  /\ next' = next + 1
  /\ UNCHANGED <<manifest, stage, base, lost, applies, cuts>>

(* The main file is synced once more; after a restore that is the end. *)
CleanupDone ==
  /\ stage \in {"cleanup", "cleanup again"} /\ next \notin Real
  /\ stage' = IF stage = "cleanup" THEN "reset" ELSE "open"
  /\ UNCHANGED <<diskVars, manifest, next, base, lost, applies, cuts>>

(* An I/O error in restore, or in the cleanup after it: the marker, if it is   *)
(* still there, stays for the next open.                                       *)
RestoreFails ==
  /\ stage \in {"restore", "restored", "unmarked again", "cleanup again"} /\ stage' = "broken"
  /\ UNCHANGED <<diskVars, manifest, next, base, lost, applies, cuts>>

(* An I/O error in the cleanup after a success: the apply fails, and nothing is *)
(* restored.  A marker that is still on the disk will have it undone later.     *)
CleanupFails ==
  /\ stage \in {"complete", "unmarked", "cleanup"} /\ stage' = "open"
  /\ lost' = (lost \/ Marker \in entry)
  /\ UNCHANGED <<diskVars, manifest, next, base, applies, cuts>>

-----------------------------------------------------------------------------
(* The end of apply_changes_from_remote, which the guard no longer covers *)

(* reset_wal_file, of the revert WAL *)
TruncateRevert ==
  /\ Stage("reset", "truncated")
  /\ WriteFile(Of(Revert), Blank, FALSE)
  /\ UNCHANGED <<manifest, next, base, lost, applies, cuts>>

SyncRevert ==
  /\ Stage("truncated", "update")
  /\ WriteFile(Of(Revert), Blank, TRUE)
  /\ UNCHANGED <<manifest, next, base, lost, applies, cuts>>

(* update_meta does not sync *)
UpdateMeta ==
  /\ Stage("update", "open")
  /\ WriteFile(Of(Meta), base, FALSE)
  /\ UNCHANGED <<manifest, next, base, lost, applies, cuts>>

(* An error: the new base stays, with the revert WAL and metadata of the old. *)
FinishFails ==
  /\ stage \in {"reset", "truncated", "update"} /\ stage' = "open"
  /\ UNCHANGED <<diskVars, manifest, next, base, lost, applies, cuts>>

-----------------------------------------------------------------------------
(* A crash, and recover_pending in open_db *)

(* What the contents of a file may be after a power cut, of one that was not   *)
(* synced since it was written: as before, all or part of it.  The marker is   *)
(* too small to be torn, and a truncation is done or not.                      *)
Survives(n) ==
  {synced[n], file[n]} \cup IF n = Marker \/ file[n] = Blank THEN {} ELSE {Torn}

(* Every file, if the first k changes of entries are on the disk: a file whose *)
(* removal is not among them is as it was before.                              *)
AfterCut(k, unsynced) ==
  LET undone(n) == {i \in (k + 1)..Len(journal) : journal[i][1] = n /\ ~journal[i][2]}
      first(n) == CHOOSE i \in undone(n) : \A j \in undone(n) : i <= j
  IN [n \in Names |-> CASE n \notin EntriesAfter(k) -> Absent
                        [] undone(n) # {} -> journal[first(n)][3]
                        [] n \in DOMAIN unsynced -> unsynced[n]
                        [] OTHER -> synced[n]]

PowerCut ==
  LET written == {n \in Names : file[n] \notin {synced[n], Absent}} IN
  /\ cuts < MaxPowerCuts /\ cuts' = cuts + 1 /\ stage' = "crashed"
  /\ \E k \in 0..Len(journal), u \in [written -> UNION {Survives(n) : n \in written}] :
       /\ \A n \in written : u[n] \in Survives(n)
       /\ entry' = EntriesAfter(k) /\ file' = AfterCut(k, u)
  /\ synced' = file' /\ journal' = <<>>
  /\ UNCHANGED <<manifest, next, base, lost, applies>>

RecoverPending ==
  /\ stage \in {"crashed", "broken", "missing"}
  /\ stage' = IF FileReads(Marker) THEN "restore" ELSE "open"
  /\ next' = 1
  /\ UNCHANGED <<diskVars, manifest, base, lost, applies, cuts>>

ReplaceRests == stage = "open" /\ applies = MaxApplies /\ UNCHANGED rbVars

ReplaceNext ==
  \/ StartApply \/ BackupFile \/ WriteMarker \/ SyncMarker \/ CreateDone \/ CreateFails
  \/ LocalCommit
  \/ \E f \in Main : RewriteFile(f) \/ SyncFile(f)
  \/ ApplyOk \/ ApplyFails
  \/ RestoreFile \/ Restored \/ RestoreFails
  \/ CleanupMarker \/ CleanupSync \/ RemoveBackup \/ CleanupDone \/ CleanupFails
  \/ TruncateRevert \/ SyncRevert \/ UpdateMeta \/ FinishFails
  \/ PowerCut \/ RecoverPending \/ ReplaceRests

ReplaceSpec == ReplaceInit /\ [][ReplaceNext]_rbVars

-----------------------------------------------------------------------------
(* Properties *)

Whole(g) ==
  \A f \in Main : file[Of(f)] = IF g = 0 /\ f \notin FirstFiles THEN Absent ELSE g

(* The apply is all or nothing for the database, its WAL and its log: whenever *)
(* the database is open and no apply is under way they are of one generation,  *)
(* and of none before the last durable apply or commit, whatever failed or     *)
(* crashed in between.  The revert WAL and the metadata may then belong to an  *)
(* older base, but metadata never goes with revert frames older than itself:   *)
(* that "would corrupt the next rollback" (reset_wal_file).  The exception is  *)
(* a marker that stayed on the disk, after an error or a crash in create or an *)
(* error in cleanup, while the files or the backups it is for went on.         *)
AppliedAllOrNothing ==
  stage = "open" /\ ~lost =>
    /\ \E g \in base..(MaxApplies * (MaxApplies + 1)) : Whole(g)
    /\ file[Of(Revert)] \in {Absent, Blank} \/ file[Of(Meta)] <= file[Of(Revert)]

(* cleanup removes the marker durably before any backup, since "a marker       *)
(* pointing at missing backups ... bricks the database": restore always finds  *)
(* the backups its manifest names, but for the same exception.                 *)
RestoreFindsBackups == stage = "missing" => lost
=============================================================================
