---------------------------- MODULE ReaderSlots ----------------------------
(* The table of reader slots in the .tshm file that processes share            *)
(* (core/storage/shared_wal_coordination.rs), on a system with locks of open   *)
(* file descriptions (SharedWalOwnershipMode::LinuxOfd).  A read transaction   *)
(* pins its frame in a slot, connections of one process that read the same     *)
(* snapshot share a slot, and checkpoints and registrations reclaim the slots  *)
(* that dead processes left behind.  The lock on the byte of a slot tells      *)
(* whether its process lives: the system drops it when the process dies.       *)
(*                                                                             *)
(* Every access to shared memory is a step.  Within a process two mutexes      *)
(* matter, local_lock_state and process_local_ownership: which connection      *)
(* holds them follows from where it is.                                        *)
EXTENDS Naturals, FiniteSets

CONSTANTS
  Procs,       \* processes
  RConn,       \* connections
  Home(_),     \* the process of a connection
  SlotCount,   \* reader_slot_count
  RFrames,     \* bound: the frames that readers pin, 0 for the database file
  UNUSED_READER_FRAME,
  UNOWNED_LOCK,
  MaxDeaths    \* bound: processes that die

ASSUME ReaderSlotsAssumption ==
  /\ SlotCount \in Nat \ {0} /\ MaxDeaths \in Nat
  /\ UNUSED_READER_FRAME \notin RFrames /\ UNOWNED_LOCK \notin Procs
  /\ \A c \in RConn : Home(c) \in Procs

ASSUME RConnFinite == IsFiniteSet(RConn)

VARIABLES
  \* shared memory
  reader_bitmap,  \* the slots whose bit says that they are free
  reader_frames,
  reader_owners,
  byte,           \* the process that holds the lock on the byte of a slot
  \* a process
  reader_locks,   \* the slots it holds
  shared_snapshot_readers, \* for a frame, the slot and how many read with it
  life_no,        \* which process it is that runs under this name
  \* a connection
  rat,            \* where it is
  idx,            \* slot_index of its loop or of its release
  want_frame,     \* max_frame
  attempt,        \* of register_reader; in a checkpoint, NoAttempt
  reader,         \* the slot it reads with
  deaths

slotVars   == <<reader_bitmap, reader_frames, reader_owners, byte>>
procVars   == <<reader_locks, shared_snapshot_readers>>
connVars   == <<rat, idx, want_frame, attempt, reader>>
readerVars == <<slotVars, procVars, life_no, connVars, deaths>>

RSlots    == 1..SlotCount
NoReader  == 0
DB_FILE_READER_FRAME == 0
NoAttempt == 2
NotShared == [slot |-> NoReader, ref_count |-> 0]

(* SharedOwnerRecord *)
Owner(p) == <<p, life_no[p]>>

ReadersInit ==
  /\ reader_bitmap = RSlots
  /\ reader_frames = [s \in RSlots |-> UNUSED_READER_FRAME]
  /\ reader_owners = [s \in RSlots |-> UNOWNED_LOCK]
  /\ byte = [s \in RSlots |-> UNOWNED_LOCK]
  /\ reader_locks = [p \in Procs |-> {}]
  /\ shared_snapshot_readers = [p \in Procs |-> [f \in RFrames |-> NotShared]]
  /\ life_no = [p \in Procs |-> 0] /\ deaths = 0
  /\ rat = [c \in RConn |-> "idle"] /\ idx = [c \in RConn |-> 1]
  /\ want_frame = [c \in RConn |-> UNUSED_READER_FRAME]
  /\ attempt = [c \in RConn |-> 0] /\ reader = [c \in RConn |-> NoReader]

Siblings(c) == {d \in RConn \ {c} : Home(d) = Home(c)}
InScan      == {"scan", "lock", "giveback", "own", "pin"}
InWipe      == {"wipeframe", "wipeowner", "wipebit", "letgo"}
InRelease   == {"unpin", "disown", "free"}
HoldsLocal  == InScan \cup {"seize"} \cup InWipe \cup InRelease
LocalLockFree(c) == \A d \in Siblings(c) : rat[d] \notin HoldsLocal
RegistryFree(c)  == \A d \in Siblings(c) : rat[d] \notin InScan

Move(c, from, to) == rat[c] = from /\ rat' = [rat EXCEPT ![c] = to]
(* A connection that ended its work at a slot goes on to the next *)
Advance(c) == idx' = [idx EXCEPT ![c] = @ + 1]

-----------------------------------------------------------------------------
(* register_reader_for_snapshot *)

Shared(c) == shared_snapshot_readers[Home(c)][want_frame[c]]
(* retain_shared_snapshot_reader *)
Retain(c, f) ==
  /\ shared_snapshot_readers' = [shared_snapshot_readers EXCEPT ![Home(c)][f].ref_count = @ + 1]
  /\ reader' = [reader EXCEPT ![c] = shared_snapshot_readers[Home(c)][f].slot]

BeginRead(c, f) ==
  /\ rat[c] = "idle" /\ RegistryFree(c)
  /\ want_frame' = [want_frame EXCEPT ![c] = f]
  /\ IF shared_snapshot_readers[Home(c)][f] = NotShared
     THEN /\ rat' = [rat EXCEPT ![c] = "register"] /\ attempt' = [attempt EXCEPT ![c] = 0]
          /\ UNCHANGED <<reader, shared_snapshot_readers>>
     ELSE Retain(c, f) /\ rat' = [rat EXCEPT ![c] = "reading"] /\ UNCHANGED attempt
  /\ UNCHANGED <<slotVars, reader_locks, life_no, idx, deaths>>

(* register_reader takes both mutexes for a pass over the slots *)
StartScan(c) ==
  /\ Move(c, "register", "scan") /\ LocalLockFree(c) /\ RegistryFree(c)
  /\ idx' = [idx EXCEPT ![c] = 1]
  /\ UNCHANGED <<slotVars, procVars, life_no, want_frame, attempt, reader, deaths>>

ClaimBit(c) ==
  /\ rat[c] = "scan" /\ idx[c] \in reader_bitmap \ reader_locks[Home(c)]
  /\ reader_bitmap' = reader_bitmap \ {idx[c]}
  /\ rat' = [rat EXCEPT ![c] = "lock"]
  /\ UNCHANGED <<reader_frames, reader_owners, byte, procVars, life_no, idx, want_frame,
                 attempt, reader, deaths>>

SkipSlot(c) ==
  /\ rat[c] = "scan" /\ idx[c] \in RSlots /\ idx[c] \notin reader_bitmap \ reader_locks[Home(c)]
  /\ Advance(c)
  /\ UNCHANGED <<slotVars, procVars, life_no, rat, want_frame, attempt, reader, deaths>>

(* After the first pass it reclaims, after the second it returns None *)
EndScan(c) ==
  /\ rat[c] = "scan" /\ idx[c] \notin RSlots
  /\ rat' = [rat EXCEPT ![c] = IF attempt[c] = 0 THEN "reclaim" ELSE "idle"]
  /\ idx' = [idx EXCEPT ![c] = 1]
  /\ want_frame' = [want_frame EXCEPT ![c] = IF attempt[c] = 0 THEN @ ELSE UNUSED_READER_FRAME]
  /\ attempt' = [attempt EXCEPT ![c] = 1 - @]
  /\ UNCHANGED <<slotVars, procVars, life_no, reader, deaths>>

(* A lock belongs to the open file description: its own process does not block it *)
ByteFree(c) == byte[idx[c]] \in {UNOWNED_LOCK, Home(c)}

LockByte(c) ==
  /\ rat[c] = "lock"
  /\ IF ByteFree(c)
     THEN /\ byte' = [byte EXCEPT ![idx[c]] = Home(c)]
          /\ reader_locks' = [reader_locks EXCEPT ![Home(c)] = @ \cup {idx[c]}]
          /\ rat' = [rat EXCEPT ![c] = "own"]
     ELSE rat' = [rat EXCEPT ![c] = "giveback"] /\ UNCHANGED <<byte, reader_locks>>
  /\ UNCHANGED <<reader_bitmap, reader_frames, reader_owners, shared_snapshot_readers,
                 life_no, idx, want_frame, attempt, reader, deaths>>

GiveBack(c) ==
  /\ Move(c, "giveback", "scan")
  /\ reader_bitmap' = reader_bitmap \cup {idx[c]} /\ Advance(c)
  /\ UNCHANGED <<reader_frames, reader_owners, byte, procVars, life_no, want_frame,
                 attempt, reader, deaths>>

StoreOwner(c) ==
  /\ Move(c, "own", "pin")
  /\ reader_owners' = [reader_owners EXCEPT ![idx[c]] = Owner(Home(c))]
  /\ UNCHANGED <<reader_bitmap, reader_frames, byte, procVars, life_no, idx, want_frame,
                 attempt, reader, deaths>>

StoreFrame(c) ==
  /\ Move(c, "pin", "publish")
  /\ reader_frames' = [reader_frames EXCEPT ![idx[c]] = want_frame[c]]
  /\ UNCHANGED <<reader_bitmap, reader_owners, byte, procVars, life_no, idx, want_frame,
                 attempt, reader, deaths>>

PublishNew(c) ==
  /\ shared_snapshot_readers' = [shared_snapshot_readers EXCEPT
       ![Home(c)][want_frame[c]] = [slot |-> idx[c], ref_count |-> 1]]
  /\ reader' = [reader EXCEPT ![c] = idx[c]]
  /\ rat' = [rat EXCEPT ![c] = "reading"]

(* Mutant: publishes without a second look at the registry. *)
PublishBlindly(c) == PublishNew(c)

(* A sibling may have published the same snapshot meanwhile: its slot is used, *)
(* and the new one is released.                                                *)
PublishOrRetain(c) ==
  IF Shared(c) = NotShared THEN PublishNew(c)
  ELSE Retain(c, want_frame[c]) /\ rat' = [rat EXCEPT ![c] = "release"]

PublishSnapshot(c) ==
  /\ rat[c] = "publish" /\ RegistryFree(c)
  /\ PublishOrRetain(c)
  /\ UNCHANGED <<slotVars, reader_locks, life_no, idx, want_frame, attempt, deaths>>

-----------------------------------------------------------------------------
(* unregister_reader_for_snapshot, unregister_reader *)

(* The read transaction ends, or the snapshot changed while it registered *)
EndRead(c) ==
  /\ rat[c] = "reading" /\ RegistryFree(c)
  /\ LET last == Shared(c).ref_count = 1 IN
     /\ shared_snapshot_readers' = [shared_snapshot_readers EXCEPT ![Home(c)][want_frame[c]] =
          IF last THEN NotShared ELSE [@ EXCEPT !.ref_count = Shared(c).ref_count - 1]]
     /\ rat' = [rat EXCEPT ![c] = IF last THEN "release" ELSE "idle"]
     /\ idx' = [idx EXCEPT ![c] = IF last THEN reader[c] ELSE 1]
  /\ reader' = [reader EXCEPT ![c] = NoReader]
  /\ want_frame' = [want_frame EXCEPT ![c] = UNUSED_READER_FRAME]
  /\ UNCHANGED <<slotVars, reader_locks, life_no, attempt, deaths>>

(* "reader registry count underflow", "reader slot released by non-owner" *)
OwnsSlot(c) == idx[c] \in reader_locks[Home(c)] /\ reader_owners[idx[c]] = Owner(Home(c))

UnlockByte(c) ==
  /\ Move(c, "release", "unpin") /\ LocalLockFree(c) /\ OwnsSlot(c)
  /\ byte' = [byte EXCEPT ![idx[c]] = UNOWNED_LOCK]
  /\ reader_locks' = [reader_locks EXCEPT ![Home(c)] = @ \ {idx[c]}]
  /\ UNCHANGED <<reader_bitmap, reader_frames, reader_owners, shared_snapshot_readers,
                 life_no, idx, want_frame, attempt, reader, deaths>>

NonOwner(c) ==
  /\ Move(c, "release", "panic") /\ LocalLockFree(c) /\ ~OwnsSlot(c)
  /\ UNCHANGED <<slotVars, procVars, life_no, idx, want_frame, attempt, reader, deaths>>

Unpin(c) ==
  /\ Move(c, "unpin", "disown")
  /\ reader_frames' = [reader_frames EXCEPT ![idx[c]] = UNUSED_READER_FRAME]
  /\ UNCHANGED <<reader_bitmap, reader_owners, byte, procVars, life_no, idx, want_frame,
                 attempt, reader, deaths>>

Disown(c) ==
  /\ Move(c, "disown", "free")
  /\ reader_owners' = [reader_owners EXCEPT ![idx[c]] = UNOWNED_LOCK]
  /\ UNCHANGED <<reader_bitmap, reader_frames, byte, procVars, life_no, idx, want_frame,
                 attempt, reader, deaths>>

FreeBit(c) ==
  /\ Move(c, "free", IF reader[c] = NoReader THEN "idle" ELSE "reading")
  /\ reader_bitmap' = reader_bitmap \cup {idx[c]}
  /\ idx' = [idx EXCEPT ![c] = 1]
  /\ UNCHANGED <<reader_frames, reader_owners, byte, procVars, life_no, want_frame,
                 attempt, reader, deaths>>

-----------------------------------------------------------------------------
(* reclaim_stale_reader_slots, live_reader_frames *)

(* In register_reader: a slot whose bit is clear is tried *)
LookAtBit(c) ==
  /\ rat[c] = "reclaim" /\ idx[c] \in RSlots
  /\ IF idx[c] \in reader_bitmap
     THEN Advance(c) /\ UNCHANGED rat
     ELSE rat' = [rat EXCEPT ![c] = "try"] /\ UNCHANGED idx
  /\ UNCHANGED <<slotVars, procVars, life_no, want_frame, attempt, reader, deaths>>

EndReclaim(c) ==
  /\ Move(c, "reclaim", "register") /\ idx[c] \notin RSlots
  /\ UNCHANGED <<slotVars, procVars, life_no, idx, want_frame, attempt, reader, deaths>>

TryReclaim(c) ==
  /\ rat[c] = "try" /\ LocalLockFree(c)
  /\ IF idx[c] \in reader_locks[Home(c)]
     THEN Advance(c) /\ rat' = [rat EXCEPT ![c] = "reclaim"]
     ELSE rat' = [rat EXCEPT ![c] = "seize"] /\ UNCHANGED idx
  /\ UNCHANGED <<slotVars, procVars, life_no, want_frame, attempt, reader, deaths>>

(* In a checkpoint: a slot that pins a frame and is not of this process is tried *)
StartLook(c) ==
  /\ Move(c, "idle", "look") /\ attempt' = [attempt EXCEPT ![c] = NoAttempt]
  /\ UNCHANGED <<slotVars, procVars, life_no, idx, want_frame, reader, deaths>>

LookAtFrame(c) ==
  /\ rat[c] = "look" /\ idx[c] \in RSlots /\ LocalLockFree(c)
  /\ IF reader_frames[idx[c]] = UNUSED_READER_FRAME \/ idx[c] \in reader_locks[Home(c)]
     THEN Advance(c) /\ UNCHANGED rat
     ELSE rat' = [rat EXCEPT ![c] = "seize"] /\ UNCHANGED idx
  /\ UNCHANGED <<slotVars, procVars, life_no, want_frame, attempt, reader, deaths>>

(* min_active_reader_frame looks at every slot, has_active_db_file_reader up to  *)
(* the first that pins the database file                                        *)
EndLook(c) ==
  /\ Move(c, "look", "idle")
  /\ idx[c] \in RSlots => idx[c] > 1 /\ reader_frames[idx[c] - 1] = DB_FILE_READER_FRAME
  /\ idx' = [idx EXCEPT ![c] = 1] /\ attempt' = [attempt EXCEPT ![c] = 0]
  /\ UNCHANGED <<slotVars, procVars, life_no, want_frame, reader, deaths>>

Resumed(c) == IF attempt[c] = NoAttempt THEN "look" ELSE "reclaim"

(* Mutant: the lock only tells that the slot is dead, and is not kept. *)
Probed(c) == byte' = byte

Seized(c) == byte' = [byte EXCEPT ![idx[c]] = Home(c)]

Seize(c) ==
  /\ rat[c] = "seize"
  /\ IF ByteFree(c)
     THEN Seized(c) /\ rat' = [rat EXCEPT ![c] = "wipeframe"] /\ UNCHANGED idx
     ELSE rat' = [rat EXCEPT ![c] = Resumed(c)] /\ Advance(c) /\ UNCHANGED byte
  /\ UNCHANGED <<reader_bitmap, reader_frames, reader_owners, procVars, life_no, want_frame,
                 attempt, reader, deaths>>

WipeFrame(c) ==
  /\ Move(c, "wipeframe", "wipeowner")
  /\ reader_frames' = [reader_frames EXCEPT ![idx[c]] = UNUSED_READER_FRAME]
  /\ UNCHANGED <<reader_bitmap, reader_owners, byte, procVars, life_no, idx, want_frame,
                 attempt, reader, deaths>>

WipeOwner(c) ==
  /\ Move(c, "wipeowner", "wipebit")
  /\ reader_owners' = [reader_owners EXCEPT ![idx[c]] = UNOWNED_LOCK]
  /\ UNCHANGED <<reader_bitmap, reader_frames, byte, procVars, life_no, idx, want_frame,
                 attempt, reader, deaths>>

WipeBit(c) ==
  /\ Move(c, "wipebit", "letgo")
  /\ reader_bitmap' = reader_bitmap \cup {idx[c]}
  /\ UNCHANGED <<reader_frames, reader_owners, byte, procVars, life_no, idx, want_frame,
                 attempt, reader, deaths>>

LetGo(c) ==
  /\ Move(c, "letgo", Resumed(c))
  /\ byte' = [byte EXCEPT ![idx[c]] = UNOWNED_LOCK] /\ Advance(c)
  /\ UNCHANGED <<reader_bitmap, reader_frames, reader_owners, procVars, life_no, want_frame,
                 attempt, reader, deaths>>

-----------------------------------------------------------------------------
(* A process dies, and the system drops its locks.  The next one that runs     *)
(* under its name begins with nothing.                                         *)
Die(p) ==
  /\ deaths < MaxDeaths /\ deaths' = deaths + 1
  /\ byte' = [s \in RSlots |-> IF byte[s] = p THEN UNOWNED_LOCK ELSE byte[s]]
  /\ reader_locks' = [reader_locks EXCEPT ![p] = {}]
  /\ shared_snapshot_readers' = [shared_snapshot_readers EXCEPT ![p] = [f \in RFrames |-> NotShared]]
  /\ life_no' = [life_no EXCEPT ![p] = @ + 1]
  /\ LET Fresh(was, new) == [c \in RConn |-> IF Home(c) = p THEN new ELSE was[c]] IN
     /\ rat' = Fresh(rat, "idle") /\ idx' = Fresh(idx, 1)
     /\ want_frame' = Fresh(want_frame, UNUSED_READER_FRAME)
     /\ attempt' = Fresh(attempt, 0) /\ reader' = Fresh(reader, NoReader)
  /\ UNCHANGED <<reader_bitmap, reader_frames, reader_owners>>

RegisterStep(c) ==
  \/ \E f \in RFrames : BeginRead(c, f)
  \/ StartScan(c) \/ ClaimBit(c) \/ SkipSlot(c) \/ EndScan(c) \/ LockByte(c)
  \/ GiveBack(c) \/ StoreOwner(c) \/ StoreFrame(c) \/ PublishSnapshot(c)

ReleaseStep(c) ==
  EndRead(c) \/ UnlockByte(c) \/ NonOwner(c) \/ Unpin(c) \/ Disown(c) \/ FreeBit(c)

ReclaimStep(c) ==
  \/ LookAtBit(c) \/ EndReclaim(c) \/ TryReclaim(c)
  \/ StartLook(c) \/ LookAtFrame(c) \/ EndLook(c)
  \/ Seize(c) \/ WipeFrame(c) \/ WipeOwner(c) \/ WipeBit(c) \/ LetGo(c)

ReadersNext ==
  \/ \E c \in RConn : RegisterStep(c) \/ ReleaseStep(c) \/ ReclaimStep(c)
  \/ \E p \in Procs : Die(p)

ReadersSpec == ReadersInit /\ [][ReadersNext]_readerVars

-----------------------------------------------------------------------------
(* Properties *)

(* A connection that reads has its slot for as long as it reads: the process    *)
(* holds the lock on the byte, and the registration that siblings share counts  *)
(* every reader once, so none of them releases the slot under another.          *)
ReadersKeepTheirSlot ==
  /\ \A c \in RConn : reader[c] # NoReader =>
       Shared(c).slot = reader[c] /\ reader[c] \in reader_locks[Home(c)] /\ byte[reader[c]] = Home(c)
  /\ \A p \in Procs, f \in RFrames :
       shared_snapshot_readers[p][f].ref_count =
         Cardinality({c \in RConn : Home(c) = p /\ want_frame[c] = f /\ reader[c] # NoReader})

(* The slot pins a frame for this process, which is past StoreFrame *)
Pins(p, s) ==
  /\ s \in reader_locks[p]
  /\ \A c \in RConn : Home(c) = p /\ idx[c] = s => rat[c] \notin {"own", "pin"}

(* Whatever reclaims slots, nothing takes the pin of a process that lives from  *)
(* a slot, except the end of a release: unregister_reader clears the frame      *)
(* after it has unlocked the byte, when the slot may be another's already.      *)
OnlyReleaseErasesPins ==
  [][\A p \in Procs, s \in RSlots :
       Pins(p, s) /\ Pins(p, s)' /\ reader_frames'[s] # reader_frames[s] =>
         \E c \in RConn : Home(c) # p /\ idx[c] = s /\ rat[c] = "unpin"]_readerVars
=============================================================================
