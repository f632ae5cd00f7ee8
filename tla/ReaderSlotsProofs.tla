------------------------- MODULE ReaderSlotsProofs -------------------------
(* Proofs about ReaderSlots, for any processes, connections, slots and deaths. *)
EXTENDS ReaderSlots, FiniteSetTheorems, TLAPS

Frame == RFrames \cup {UNUSED_READER_FRAME}

Places == HoldsLocal \cup {"idle", "register", "publish", "reading", "release", "panic",
                         "reclaim", "try", "look"}

SlotTypes ==
  /\ reader_bitmap \subseteq RSlots
  /\ byte \in [RSlots -> Procs \cup {UNOWNED_LOCK}]
  /\ reader_frames \in [RSlots -> Frame]
  /\ reader_locks \in [Procs -> SUBSET RSlots]
  /\ rat \in [RConn -> Places] /\ idx = [c \in RConn |-> idx[c]]
  /\ want_frame \in [RConn -> Frame]

(* local_lock_state has one holder in a process. *)
OneHolder ==
  \A c, d \in RConn :
    c # d /\ Home(c) = Home(d) /\ rat[c] \in HoldsLocal => rat[d] \notin HoldsLocal

(* What a process believes to hold it has locked. *)
LocksHoldBytes == \A p \in Procs : \A s \in reader_locks[p] : byte[s] = p

(* Where a connection is tells whether its process holds the slot it is at. *)
AtSlot(c) ==
  /\ rat[c] \in {"own", "pin"} => idx[c] \in reader_locks[Home(c)]
  /\ rat[c] \in {"lock", "seize"} \cup InWipe \cup InRelease =>
       idx[c] \in RSlots /\ idx[c] \notin reader_locks[Home(c)]
  /\ rat[c] \in InWipe => byte[idx[c]] = Home(c)
  /\ rat[c] \in {"try", "giveback"} => idx[c] \in RSlots

SlotRules == OneHolder /\ LocksHoldBytes /\ \A c \in RConn : AtSlot(c)
SlotInv == SlotTypes /\ SlotRules

(* No slot is held when the table is new. *)
LEMMA InitSlotInv == ReadersInit => SlotInv
BY ReaderSlotsAssumption
   DEF ReadersInit, SlotInv, SlotTypes, SlotRules, OneHolder,
       LocksHoldBytes, AtSlot, RSlots, Frame, InScan, InWipe, InRelease, HoldsLocal, Places

(* Every step keeps the types: a connection that stores a frame is in "pin". *)
LEMMA TypesKept ==
  ASSUME SlotInv, [ReadersNext]_readerVars
  PROVE  SlotTypes'
<1> SlotTypes
  BY DEF SlotInv
<1> USE ReaderSlotsAssumption DEF SlotTypes, Places, HoldsLocal, InScan, InWipe, InRelease, Frame,
      Move, slotVars, procVars, connVars, readerVars
<1>1. ASSUME NEW c \in RConn, RegisterStep(c) PROVE SlotTypes'
  <2>1. ASSUME NEW f \in RFrames, BeginRead(c, f) PROVE SlotTypes'
    BY <2>1 DEF BeginRead, Retain
  <2>2. CASE StartScan(c)
    BY Zenon, <2>2 DEF StartScan
  <2>3. CASE ClaimBit(c)
    BY <2>3 DEF ClaimBit
  <2>4. CASE SkipSlot(c)
    BY <2>4 DEF SkipSlot, Advance
  <2>5. CASE EndScan(c)
    BY Zenon, <2>5 DEF EndScan
  <2>6. CASE LockByte(c)
    <3>0. idx[c] \in RSlots /\ Home(c) \in Procs
      BY <2>6 DEF LockByte, SlotInv, SlotRules, AtSlot
    <3>1. byte' \in [RSlots -> Procs \cup {UNOWNED_LOCK}]
      BY <2>6, <3>0 DEF LockByte
    <3>2. reader_locks' \in [Procs -> SUBSET RSlots]
      <4>1. reader_locks[Home(c)] \cup {idx[c]} \in SUBSET RSlots
        BY <3>0
      <4>2. \/ reader_locks' = [reader_locks EXCEPT ![Home(c)] = @ \cup {idx[c]}]
            \/ reader_locks' = reader_locks
        BY <2>6 DEF LockByte
      <4>3. [reader_locks EXCEPT ![Home(c)] = @ \cup {idx[c]}] \in [Procs -> SUBSET RSlots]
        BY <4>1
      <4> QED
        BY <4>2, <4>3
    <3>3. rat' \in [RConn -> Places]
      BY <2>6 DEF LockByte
    <3> QED
      BY <2>6, <3>1, <3>2, <3>3 DEF LockByte
  <2>7. CASE GiveBack(c)
    <3>1. idx[c] \in RSlots
      BY <2>7 DEF GiveBack, SlotInv, SlotRules, AtSlot
    <3> QED
      BY Zenon, <2>7, <3>1 DEF GiveBack, Advance
  <2>8. CASE StoreOwner(c)
    BY <2>8 DEF StoreOwner
  <2>9. CASE StoreFrame(c)
    BY Zenon, <2>9 DEF StoreFrame
  <2>10. CASE PublishSnapshot(c)
    BY <2>10 DEF PublishSnapshot, PublishOrRetain, PublishNew
  <2> QED
    BY <1>1, <2>1, <2>2, <2>3, <2>4, <2>5, <2>6, <2>7, <2>8, <2>9, <2>10 DEF RegisterStep
<1>2. ASSUME NEW c \in RConn, ReleaseStep(c) PROVE SlotTypes'
  <2>1. CASE EndRead(c)
    BY Zenon, <2>1 DEF EndRead
  <2>2. CASE UnlockByte(c)
    BY Zenon, <2>2 DEF UnlockByte
  <2>3. CASE NonOwner(c)
    BY <2>3 DEF NonOwner
  <2>4. CASE Unpin(c)
    BY Zenon, <2>4 DEF Unpin
  <2>5. CASE Disown(c)
    BY <2>5 DEF Disown
  <2>6. CASE FreeBit(c)
    <3>1. idx[c] \in RSlots
      BY <2>6 DEF FreeBit, SlotInv, SlotRules, AtSlot
    <3> QED
      BY Zenon, <2>6, <3>1 DEF FreeBit
  <2> QED
    BY <1>2, <2>1, <2>2, <2>3, <2>4, <2>5, <2>6 DEF ReleaseStep
<1>3. ASSUME NEW c \in RConn, ReclaimStep(c) PROVE SlotTypes'
  <2>1. CASE LookAtBit(c)
    BY <2>1 DEF LookAtBit, Advance
  <2>2. CASE EndReclaim(c)
    BY <2>2 DEF EndReclaim
  <2>3. CASE TryReclaim(c)
    BY <2>3 DEF TryReclaim, Advance
  <2>4. CASE StartLook(c)
    BY <2>4 DEF StartLook
  <2>5. CASE LookAtFrame(c)
    BY <2>5 DEF LookAtFrame, Advance
  <2>6. CASE EndLook(c)
    BY Zenon, <2>6 DEF EndLook
  <2>7. CASE Seize(c)
    BY <2>7 DEF Seize, Seized, Resumed, Advance
  <2>8. CASE WipeFrame(c)
    BY Zenon, <2>8 DEF WipeFrame
  <2>9. CASE WipeOwner(c)
    BY <2>9 DEF WipeOwner
  <2>10. CASE WipeBit(c)
    <3>1. idx[c] \in RSlots
      BY <2>10 DEF WipeBit, SlotInv, SlotRules, AtSlot
    <3> QED
      BY <2>10, <3>1 DEF WipeBit
  <2>11. CASE LetGo(c)
    BY Zenon, <2>11 DEF LetGo, Resumed, Advance
  <2> QED
    BY <1>3, <2>1, <2>2, <2>3, <2>4, <2>5, <2>6, <2>7, <2>8, <2>9, <2>10, <2>11 DEF ReclaimStep
<1>4. ASSUME NEW p \in Procs, Die(p) PROVE SlotTypes'
  BY <1>4 DEF Die
<1>5. CASE UNCHANGED readerVars
  BY <1>5
<1> QED
  BY <1>1, <1>2, <1>3, <1>4, <1>5 DEF ReadersNext

(* A step of one connection that locks and unlocks nothing *)
LEMMA QuietStep ==
  ASSUME SlotInv, NEW c \in RConn, UNCHANGED <<byte, reader_locks>>,
         \A d \in RConn \ {c} : rat'[d] = rat[d] /\ idx'[d] = idx[d],
         rat'[c] \in HoldsLocal => rat[c] \in HoldsLocal \/ LocalLockFree(c),
         AtSlot(c)'
  PROVE  SlotRules'
<1>1. OneHolder'
  BY DEF SlotInv, SlotRules, OneHolder, LocalLockFree, Siblings
<1>2. LocksHoldBytes'
  BY DEF SlotInv, SlotRules, LocksHoldBytes
<1>3. ASSUME NEW d \in RConn PROVE AtSlot(d)'
  BY DEF SlotInv, SlotRules, AtSlot
<1> QED
  BY <1>1, <1>2, <1>3 DEF SlotRules

(* A step of one connection, at a slot that no other process has locked *)
LEMMA LockingStep ==
  ASSUME SlotInv, NEW c \in RConn, NEW s \in RSlots,
         byte[s] \in {UNOWNED_LOCK, Home(c)},
         \A t \in RSlots \ {s} : byte'[t] = byte[t],
         \A p \in Procs \ {Home(c)} : reader_locks'[p] = reader_locks[p],
         reader_locks'[Home(c)] \subseteq reader_locks[Home(c)] \cup {s},
         s \in reader_locks'[Home(c)] => byte'[s] = Home(c),
         \A d \in RConn \ {c} : rat'[d] = rat[d] /\ idx'[d] = idx[d],
         rat[c] \in HoldsLocal \/ LocalLockFree(c),
         AtSlot(c)'
  PROVE  SlotRules'
<1> USE ReaderSlotsAssumption
<1>1. SlotTypes /\ OneHolder /\ LocksHoldBytes /\ \A d \in RConn : AtSlot(d)
  BY DEF SlotInv, SlotRules
<1>2. \A d \in RConn \ {c} : Home(d) = Home(c) => rat[d] \notin HoldsLocal
  BY <1>1 DEF OneHolder, LocalLockFree, Siblings
<1>3. \A p \in Procs \ {Home(c)} : s \notin reader_locks[p]
  BY <1>1 DEF LocksHoldBytes
<1>4. OneHolder'
  BY <1>1, <1>2 DEF OneHolder
<1>5. LocksHoldBytes'
  BY <1>1, <1>3 DEF LocksHoldBytes, SlotTypes
<1>6. ASSUME NEW d \in RConn PROVE AtSlot(d)'
  <2>1. CASE d = c
    BY <2>1
  <2>2. CASE d # c /\ Home(d) = Home(c)
    <3>1. rat'[d] \notin HoldsLocal /\ rat'[d] = rat[d] /\ idx'[d] = idx[d]
      BY <2>2, <1>2
    <3> QED
      BY <3>1, <1>1 DEF AtSlot, HoldsLocal, InScan, InWipe, InRelease
  <2>3. CASE Home(d) # Home(c)
    <3>1. rat'[d] = rat[d] /\ idx'[d] = idx[d] /\ reader_locks'[Home(d)] = reader_locks[Home(d)]
      BY <2>3
    <3>2. rat[d] \in InWipe => idx[d] \in RSlots /\ byte[idx[d]] = Home(d)
      BY <1>1 DEF AtSlot
    <3>3. rat[d] \in InWipe => byte'[idx[d]] = Home(d)
      BY <2>3, <3>2
    <3> QED
      BY <3>1, <3>3, <1>1 DEF AtSlot
  <2> QED
    BY <2>1, <2>2, <2>3
<1> QED
  BY <1>4, <1>5, <1>6 DEF SlotRules

(* Every step keeps the rules. *)
LEMMA RulesKept ==
  ASSUME SlotInv, [ReadersNext]_readerVars
  PROVE  SlotRules'
<1> SlotTypes /\ SlotRules
  BY DEF SlotInv
<1> USE ReaderSlotsAssumption DEF SlotTypes, Places, HoldsLocal, InScan, InWipe, InRelease,
      Move, slotVars, procVars, connVars, readerVars
<1>1. ASSUME NEW c \in RConn, RegisterStep(c) PROVE SlotRules'
  <2>1. ASSUME NEW f \in RFrames, BeginRead(c, f) PROVE SlotRules'
    <3>1. AtSlot(c)'
      BY <2>1 DEF BeginRead, AtSlot
    <3> QED
      BY <2>1, <3>1, QuietStep DEF BeginRead, Retain
  <2>2. CASE StartScan(c)
    <3>1. AtSlot(c)'
      BY <2>2 DEF StartScan, SlotRules, AtSlot
    <3> QED
      BY <2>2, <3>1, QuietStep DEF StartScan
  <2>3. CASE ClaimBit(c)
    <3>1. AtSlot(c)'
      BY <2>3 DEF ClaimBit, SlotRules, AtSlot
    <3> QED
      BY <2>3, <3>1, QuietStep DEF ClaimBit
  <2>4. CASE SkipSlot(c)
    <3>1. AtSlot(c)'
      BY <2>4 DEF SkipSlot, Advance, SlotRules, AtSlot
    <3> QED
      BY <2>4, <3>1, QuietStep DEF SkipSlot, Advance
  <2>5. CASE EndScan(c)
    <3>1. AtSlot(c)'
      BY <2>5 DEF EndScan, SlotRules, AtSlot
    <3> QED
      BY <2>5, <3>1, QuietStep DEF EndScan
  <2>6. CASE LockByte(c)
    <3>1. idx[c] \in RSlots /\ idx[c] \notin reader_locks[Home(c)] /\ Home(c) \in Procs
      BY <2>6 DEF LockByte, SlotRules, AtSlot
    <3>2. CASE ByteFree(c)
      <4>1. /\ byte' = [byte EXCEPT ![idx[c]] = Home(c)]
            /\ reader_locks' = [reader_locks EXCEPT ![Home(c)] = @ \cup {idx[c]}]
            /\ rat' = [rat EXCEPT ![c] = "own"] /\ idx' = idx
        BY <2>6, <3>2 DEF LockByte
      <4>2. /\ byte'[idx[c]] = Home(c) /\ rat'[c] = "own"
            /\ reader_locks'[Home(c)] = reader_locks[Home(c)] \cup {idx[c]}
        BY <3>1, <4>1
      <4>3. AtSlot(c)'
        BY <4>1, <4>2 DEF AtSlot
      <4> QED
        BY <2>6, <3>1, <3>2, <4>1, <4>2, <4>3, LockingStep DEF LockByte, ByteFree
    <3>3. CASE ~ByteFree(c)
      <4>1. AtSlot(c)'
        BY <2>6, <3>1, <3>3 DEF LockByte, AtSlot
      <4> QED
        BY <2>6, <3>3, <4>1, QuietStep DEF LockByte
    <3> QED
      BY <3>2, <3>3
  <2>7. CASE GiveBack(c)
    <3>1. AtSlot(c)'
      BY <2>7 DEF GiveBack, Advance, SlotRules, AtSlot
    <3> QED
      BY <2>7, <3>1, QuietStep DEF GiveBack, Advance
  <2>8. CASE StoreOwner(c)
    <3>1. AtSlot(c)'
      BY <2>8 DEF StoreOwner, SlotRules, AtSlot
    <3> QED
      BY <2>8, <3>1, QuietStep DEF StoreOwner
  <2>9. CASE StoreFrame(c)
    <3>1. AtSlot(c)'
      BY <2>9 DEF StoreFrame, SlotRules, AtSlot
    <3> QED
      BY <2>9, <3>1, QuietStep DEF StoreFrame
  <2>10. CASE PublishSnapshot(c)
    <3>1. /\ rat'[c] \in {"reading", "release"} /\ idx' = idx
          /\ byte' = byte /\ reader_locks' = reader_locks
      BY <2>10 DEF PublishSnapshot, PublishOrRetain, PublishNew
    <3>2. AtSlot(c)'
      BY <3>1 DEF AtSlot
    <3> QED
      BY <2>10, <3>2, QuietStep DEF PublishSnapshot, PublishOrRetain, PublishNew
  <2> QED
    BY <1>1, <2>1, <2>2, <2>3, <2>4, <2>5, <2>6, <2>7, <2>8, <2>9, <2>10 DEF RegisterStep
<1>2. ASSUME NEW c \in RConn, ReleaseStep(c) PROVE SlotRules'
  <2>1. CASE EndRead(c)
    <3>1. AtSlot(c)'
      BY <2>1 DEF EndRead, SlotRules, AtSlot
    <3> QED
      BY <2>1, <3>1, QuietStep DEF EndRead
  <2>2. CASE UnlockByte(c)
    <3>1. idx[c] \in RSlots /\ byte[idx[c]] = Home(c) /\ Home(c) \in Procs
      BY <2>2 DEF UnlockByte, OwnsSlot, SlotRules, LocksHoldBytes
    <3>2. AtSlot(c)'
      BY <2>2, <3>1 DEF UnlockByte, AtSlot
    <3> QED
      BY <2>2, <3>1, <3>2, LockingStep DEF UnlockByte
  <2>3. CASE NonOwner(c)
    <3>1. AtSlot(c)'
      BY <2>3 DEF NonOwner, SlotRules, AtSlot
    <3> QED
      BY <2>3, <3>1, QuietStep DEF NonOwner
  <2>4. CASE Unpin(c)
    <3>1. AtSlot(c)'
      BY <2>4 DEF Unpin, SlotRules, AtSlot
    <3> QED
      BY <2>4, <3>1, QuietStep DEF Unpin
  <2>5. CASE Disown(c)
    <3>1. AtSlot(c)'
      BY <2>5 DEF Disown, SlotRules, AtSlot
    <3> QED
      BY <2>5, <3>1, QuietStep DEF Disown
  <2>6. CASE FreeBit(c)
    <3>1. AtSlot(c)'
      BY <2>6 DEF FreeBit, SlotRules, AtSlot
    <3> QED
      BY <2>6, <3>1, QuietStep DEF FreeBit
  <2> QED
    BY <1>2, <2>1, <2>2, <2>3, <2>4, <2>5, <2>6 DEF ReleaseStep
<1>3. ASSUME NEW c \in RConn, ReclaimStep(c) PROVE SlotRules'
  <2>1. CASE LookAtBit(c)
    <3>1. AtSlot(c)'
      BY <2>1 DEF LookAtBit, Advance, SlotRules, AtSlot
    <3> QED
      BY <2>1, <3>1, QuietStep DEF LookAtBit, Advance
  <2>2. CASE EndReclaim(c)
    <3>1. AtSlot(c)'
      BY <2>2 DEF EndReclaim, SlotRules, AtSlot
    <3> QED
      BY <2>2, <3>1, QuietStep DEF EndReclaim
  <2>3. CASE TryReclaim(c)
    <3>1. AtSlot(c)'
      BY <2>3 DEF TryReclaim, Advance, SlotRules, AtSlot
    <3> QED
      BY <2>3, <3>1, QuietStep DEF TryReclaim, Advance
  <2>4. CASE StartLook(c)
    <3>1. AtSlot(c)'
      BY <2>4 DEF StartLook, SlotRules, AtSlot
    <3> QED
      BY <2>4, <3>1, QuietStep DEF StartLook
  <2>5. CASE LookAtFrame(c)
    <3>1. AtSlot(c)'
      BY <2>5 DEF LookAtFrame, Advance, SlotRules, AtSlot
    <3> QED
      BY <2>5, <3>1, QuietStep DEF LookAtFrame, Advance
  <2>6. CASE EndLook(c)
    <3>1. AtSlot(c)'
      BY <2>6 DEF EndLook, SlotRules, AtSlot
    <3> QED
      BY <2>6, <3>1, QuietStep DEF EndLook
  <2>7. CASE Seize(c)
    <3>1. idx[c] \in RSlots /\ idx[c] \notin reader_locks[Home(c)] /\ Home(c) \in Procs
      BY <2>7 DEF Seize, SlotRules, AtSlot
    <3>2. CASE ByteFree(c)
      <4>1. AtSlot(c)'
        BY Zenon, <2>7, <3>1, <3>2 DEF Seize, Seized, AtSlot
      <4> QED
        BY Zenon, <2>7, <3>1, <3>2, <4>1, LockingStep DEF Seize, Seized, ByteFree
    <3>3. CASE ~ByteFree(c)
      <4>1. AtSlot(c)'
        BY <2>7, <3>1, <3>3 DEF Seize, Resumed, Advance, AtSlot
      <4> QED
        BY Zenon, <2>7, <3>3, <4>1, QuietStep DEF Seize, Resumed, Advance
    <3> QED
      BY <3>2, <3>3
  <2>8. CASE WipeFrame(c)
    <3>1. AtSlot(c)'
      BY <2>8 DEF WipeFrame, SlotRules, AtSlot
    <3> QED
      BY <2>8, <3>1, QuietStep DEF WipeFrame
  <2>9. CASE WipeOwner(c)
    <3>1. AtSlot(c)'
      BY <2>9 DEF WipeOwner, SlotRules, AtSlot
    <3> QED
      BY <2>9, <3>1, QuietStep DEF WipeOwner
  <2>10. CASE WipeBit(c)
    <3>1. AtSlot(c)'
      BY <2>10 DEF WipeBit, SlotRules, AtSlot
    <3> QED
      BY <2>10, <3>1, QuietStep DEF WipeBit
  <2>11. CASE LetGo(c)
    <3>1. /\ idx[c] \in RSlots /\ byte[idx[c]] = Home(c) /\ Home(c) \in Procs
          /\ idx[c] \notin reader_locks[Home(c)]
      BY <2>11 DEF LetGo, SlotRules, AtSlot
    <3>2. AtSlot(c)'
      BY <2>11 DEF LetGo, Resumed, Advance, AtSlot
    <3> QED
      BY <2>11, <3>1, <3>2, LockingStep DEF LetGo, Advance, Resumed
  <2> QED
    BY <1>3, <2>1, <2>2, <2>3, <2>4, <2>5, <2>6, <2>7, <2>8, <2>9, <2>10, <2>11 DEF ReclaimStep
<1>4. ASSUME NEW p \in Procs, Die(p) PROVE SlotRules'
  <2>1. OneHolder'
    BY <1>4 DEF Die, SlotRules, OneHolder
  <2>2. LocksHoldBytes'
    BY <1>4 DEF Die, SlotRules, LocksHoldBytes
  <2>3. ASSUME NEW d \in RConn PROVE AtSlot(d)'
    BY <1>4 DEF Die, SlotRules, AtSlot
  <2> QED
    BY <2>1, <2>2, <2>3 DEF SlotRules
<1>5. CASE UNCHANGED readerVars
  BY <1>5 DEF SlotRules, OneHolder, LocksHoldBytes, AtSlot
<1> QED
  BY <1>1, <1>2, <1>3, <1>4, <1>5 DEF ReadersNext

(* The rules hold in every reachable state. *)
LEMMA SlotInvAlways == ReadersSpec => []SlotInv
<1>1. SlotInv /\ [ReadersNext]_readerVars => SlotInv'
  BY TypesKept, RulesKept DEF SlotInv
<1> QED
  BY <1>1, InitSlotInv, PTL DEF ReadersSpec

(* The pin of a living process stays in its slot whatever other processes       *)
(* register, reclaim, release or leave behind when they die, except when a      *)
(* release of the slot by another process is overtaken: live_reader_frames and  *)
(* reclaim_stale_reader_slots clear a slot only under the lock of its byte.     *)
THEOREM PinsAreSafe == ReadersSpec => OnlyReleaseErasesPins
<1> DEFINE Kept ==
      \A p \in Procs, s \in RSlots :
        Pins(p, s) /\ Pins(p, s)' /\ reader_frames'[s] # reader_frames[s] =>
          \E c \in RConn : Home(c) # p /\ idx[c] = s /\ rat[c] = "unpin"
<1>1. SlotInv /\ [ReadersNext]_readerVars => [Kept]_readerVars
  <2> SUFFICES ASSUME SlotInv, ReadersNext, NEW p \in Procs, NEW s \in RSlots,
                      Pins(p, s), Pins(p, s)', reader_frames'[s] # reader_frames[s]
               PROVE  \E c \in RConn : Home(c) # p /\ idx[c] = s /\ rat[c] = "unpin"
    OBVIOUS
  <2>1. SlotTypes /\ LocksHoldBytes /\ \A c \in RConn : AtSlot(c)
    BY DEF SlotInv, SlotRules
  <2>2. s \in reader_locks[p] /\ byte[s] = p
    BY <2>1 DEF Pins, LocksHoldBytes
  <2>3. PICK c \in RConn : StoreFrame(c) \/ Unpin(c) \/ WipeFrame(c)
    <3>1. ASSUME NEW c \in RConn, RegisterStep(c) PROVE StoreFrame(c)
      BY <3>1 DEF RegisterStep, BeginRead, StartScan, ClaimBit, SkipSlot, EndScan, LockByte,
                  GiveBack, StoreOwner, PublishSnapshot, slotVars
    <3>2. ASSUME NEW c \in RConn, ReleaseStep(c) PROVE Unpin(c)
      BY <3>2 DEF ReleaseStep, EndRead, UnlockByte, NonOwner, Disown, FreeBit, slotVars
    <3>3. ASSUME NEW c \in RConn, ReclaimStep(c) PROVE WipeFrame(c)
      BY <3>3 DEF ReclaimStep, LookAtBit, EndReclaim, TryReclaim, StartLook, LookAtFrame,
                  EndLook, Seize, WipeOwner, WipeBit, LetGo, slotVars
    <3>4. ASSUME NEW q \in Procs, Die(q) PROVE FALSE
      BY <3>4 DEF Die
    <3> QED
      BY <3>1, <3>2, <3>3, <3>4 DEF ReadersNext
  <2>4. idx[c] = s
    BY <2>1, <2>3 DEF StoreFrame, Unpin, WipeFrame, SlotTypes
  <2>5. CASE StoreFrame(c)
    <3>1. rat[c] = "pin" /\ s \in reader_locks[Home(c)]
      BY <2>1, <2>4, <2>5 DEF StoreFrame, Move, AtSlot
    <3>2. Home(c) = p
      BY <2>1, <2>2, <3>1, ReaderSlotsAssumption DEF LocksHoldBytes
    <3> QED
      BY <2>4, <3>1, <3>2 DEF Pins
  <2>6. CASE Unpin(c)
    <3>1. rat[c] = "unpin" /\ s \notin reader_locks[Home(c)]
      BY <2>1, <2>4, <2>6 DEF Unpin, Move, AtSlot, InRelease
    <3> QED
      BY <2>2, <2>4, <3>1
  <2>7. CASE WipeFrame(c)
    <3>1. byte[s] = Home(c) /\ s \notin reader_locks[Home(c)]
      BY <2>1, <2>4, <2>7 DEF WipeFrame, Move, AtSlot, InWipe
    <3> QED
      BY <2>2, <3>1
  <2> QED
    BY <2>3, <2>5, <2>6, <2>7
<1> QED
  BY <1>1, SlotInvAlways, PTL DEF ReadersSpec, OnlyReleaseErasesPins

-----------------------------------------------------------------------------
(* The registrations that siblings share *)

Registered(p, f) == shared_snapshot_readers[p][f]
Readers(p, f) == {c \in RConn : Home(c) = p /\ want_frame[c] = f /\ reader[c] # NoReader}

Holding  == {"own", "pin", "publish", "release"}
Wanting  == InScan \cup {"register", "reclaim", "try", "publish"}
Scanning == {"seize"} \cup InWipe
MayRead  == {"reading", "release", "panic"} \cup InRelease

ReadTypes ==
  /\ reader \in [RConn -> RSlots \cup {NoReader}]
  /\ shared_snapshot_readers \in
       [Procs -> [RFrames -> [slot : RSlots \cup {NoReader}, ref_count : Nat]]]
  /\ attempt = [c \in RConn |-> attempt[c]]

(* Where a connection is tells whether it reads, and that it wants a frame. *)
ReadRule(c) ==
  /\ rat[c] = "reading" => reader[c] # NoReader
  /\ reader[c] # NoReader => rat[c] \in MayRead
  /\ rat[c] \in Wanting => want_frame[c] \in RFrames
  /\ rat[c] \in Scanning /\ attempt[c] # NoAttempt => want_frame[c] \in RFrames
  /\ rat[c] = "look" => attempt[c] = NoAttempt

(* It reads with the slot that is registered for its frame. *)
SlotRule(c) ==
  reader[c] # NoReader =>
    want_frame[c] \in RFrames /\ Registered(Home(c), want_frame[c]).slot = reader[c]

(* A registered slot is held, and its readers are counted. *)
HeldRule(p, f) ==
  /\ Registered(p, f).slot = NoReader <=> Registered(p, f).ref_count = 0
  /\ Registered(p, f).slot # NoReader => Registered(p, f).slot \in reader_locks[p]
CountRule(p, f) == Registered(p, f).ref_count = Cardinality(Readers(p, f))

(* The slots of registrations, and those that connections set up or release,  *)
(* are all different.                                                         *)
OwnSlot(c) == rat[c] \in Holding => idx[c] \in reader_locks[Home(c)]
RegPair(p, f, g) ==
  f # g /\ Registered(p, f).slot # NoReader => Registered(p, f).slot # Registered(p, g).slot
OwnReg(c, f) == rat[c] \in Holding => Registered(Home(c), f).slot # idx[c]
OwnPair(c, d) ==
  c # d /\ Home(c) = Home(d) /\ rat[c] \in Holding /\ rat[d] \in Holding => idx[c] # idx[d]

ReadRules ==
  /\ \A c \in RConn : ReadRule(c) /\ SlotRule(c) /\ OwnSlot(c)
  /\ \A p \in Procs, f \in RFrames : HeldRule(p, f) /\ CountRule(p, f)
  /\ \A p \in Procs, f, g \in RFrames : RegPair(p, f, g)
  /\ \A c \in RConn, f \in RFrames : OwnReg(c, f)
  /\ \A c, d \in RConn : OwnPair(c, d)
ReadInv == SlotInv /\ ReadTypes /\ ReadRules

(* The steps of a connection, point by point *)
OthersRead(c) ==
  \A d \in RConn \ {c} :
    /\ rat'[d] = rat[d] /\ idx'[d] = idx[d] /\ attempt'[d] = attempt[d]
    /\ want_frame'[d] = want_frame[d] /\ reader'[d] = reader[d]
LocksKept == \A p \in Procs : reader_locks'[p] = reader_locks[p]
RegsKept == \A p \in Procs, f \in RFrames : Registered(p, f)' = Registered(p, f)
Registers(c, f, r) ==
  \A p \in Procs, g \in RFrames :
    Registered(p, g)' = IF p = Home(c) /\ g = f THEN r ELSE Registered(p, g)

(* It works at slots, and holds one more at most while it sets it up. *)
Turns(c) ==
  /\ reader'[c] = reader[c] /\ (reader[c] # NoReader => want_frame'[c] = want_frame[c])
  /\ rat'[c] \in Holding => rat[c] \in Holding /\ idx'[c] = idx[c]
  /\ LocksKept /\ RegsKept
Gains(c) ==
  /\ rat[c] = "lock" /\ rat'[c] = "own"
  /\ reader'[c] = reader[c] /\ want_frame'[c] = want_frame[c]
  /\ idx'[c] = idx[c] /\ idx[c] \notin reader_locks[Home(c)]
  /\ \A p \in Procs : reader_locks'[p] =
       IF p = Home(c) THEN reader_locks[p] \cup {idx[c]} ELSE reader_locks[p]
  /\ RegsKept
Loses(c) ==
  /\ rat[c] = "release" /\ rat'[c] = "unpin"
  /\ reader'[c] = reader[c] /\ want_frame'[c] = want_frame[c] /\ idx'[c] = idx[c]
  /\ \A p \in Procs : reader_locks'[p] =
       IF p = Home(c) THEN reader_locks[p] \ {idx[c]} ELSE reader_locks[p]
  /\ RegsKept
(* It publishes its slot, reads with a published one, or stops reading. *)
Publishes(c) ==
  /\ rat[c] = "publish" /\ rat'[c] = "reading" /\ Registered(Home(c), want_frame[c]) = NotShared
  /\ reader'[c] = idx[c] /\ want_frame'[c] = want_frame[c] /\ idx'[c] = idx[c]
  /\ Registers(c, want_frame[c], [slot |-> idx[c], ref_count |-> 1]) /\ LocksKept
Retains(c, f) ==
  /\ f \in RFrames /\ Registered(Home(c), f) # NotShared
  /\ \/ rat[c] = "idle" /\ rat'[c] = "reading"
     \/ rat[c] = "publish" /\ rat'[c] = "release" /\ idx'[c] = idx[c]
  /\ reader'[c] = Registered(Home(c), f).slot /\ want_frame'[c] = f
  /\ Registers(c, f, [slot |-> Registered(Home(c), f).slot,
                      ref_count |-> Registered(Home(c), f).ref_count + 1])
  /\ LocksKept
EndsLast(c) ==
  /\ rat[c] = "reading" /\ Registered(Home(c), want_frame[c]).ref_count = 1
  /\ rat'[c] = "release" /\ idx'[c] = reader[c] /\ reader'[c] = NoReader
  /\ Registers(c, want_frame[c], NotShared) /\ LocksKept
EndsOne(c) ==
  /\ rat[c] = "reading" /\ Registered(Home(c), want_frame[c]).ref_count # 1
  /\ rat'[c] = "idle" /\ reader'[c] = NoReader
  /\ Registers(c, want_frame[c],
               [slot |-> Registered(Home(c), want_frame[c]).slot,
                ref_count |-> Registered(Home(c), want_frame[c]).ref_count - 1])
  /\ LocksKept

ReadStep(c) ==
  /\ OthersRead(c) /\ ReadRule(c)'
  /\ \/ Turns(c) \/ Gains(c) \/ Loses(c) \/ Publishes(c)
     \/ (\E f \in RFrames : Retains(c, f)) \/ EndsLast(c) \/ EndsOne(c)

(* When the count is one, the reader that is counted is alone. *)
LEMMA OnlyReader ==
  ASSUME ReadInv, NEW c \in RConn, reader[c] # NoReader,
         Registered(Home(c), want_frame[c]).ref_count = 1,
         NEW d \in RConn, d # c, reader[d] # NoReader, Home(d) = Home(c)
  PROVE  want_frame[d] # want_frame[c]
<1>1. SlotRule(c) /\ Home(c) \in Procs
  BY Zenon, ReaderSlotsAssumption DEF ReadInv, ReadRules
<1>2. CountRule(Home(c), want_frame[c])
  BY Zenon, <1>1 DEF ReadInv, ReadRules, SlotRule
<1> DEFINE S == Readers(Home(c), want_frame[c])
<1>3. IsFiniteSet(S) /\ c \in S /\ Cardinality(S) = 1
  <2>1. S \subseteq RConn /\ IsFiniteSet(RConn)
    BY Zenon, RConnFinite DEF Readers
  <2>2. IsFiniteSet(S)
    BY Zenon, <2>1, FS_Subset
  <2> QED
    BY Zenon, <1>2, <2>2 DEF CountRule, Readers
<1>4. Cardinality(S \ {c}) = 0 /\ IsFiniteSet(S \ {c})
  <2>1. Cardinality(S \ {c}) = Cardinality(S) - 1 /\ IsFiniteSet(S \ {c})
    BY Zenon, <1>3, FS_RemoveElement
  <2> QED
    BY <1>3, <2>1
<1>5. S \ {c} = {}
  BY Zenon, <1>4, FS_EmptySet
<1> QED
  BY Zenon, <1>5 DEF Readers

(* What the rules say of one connection and of one registration *)
LEMMA ReadFacts ==
  ASSUME ReadInv, NEW c \in RConn, NEW f \in RFrames
  PROVE  /\ Home(c) \in Procs /\ reader_locks[Home(c)] \subseteq RSlots /\ NoReader \notin RSlots
         /\ reader[c] \in RSlots \cup {NoReader}
         /\ Registered(Home(c), f).slot \in RSlots \cup {NoReader}
         /\ Registered(Home(c), f).ref_count \in Nat
<1>1. Home(c) \in Procs /\ SlotTypes /\ ReadTypes
  BY Zenon, ReaderSlotsAssumption DEF ReadInv, SlotInv
<1>2. NoReader \notin RSlots
  BY ReaderSlotsAssumption DEF RSlots, NoReader
<1>3. reader_locks[Home(c)] \subseteq RSlots
  BY <1>1 DEF SlotTypes
<1>4. shared_snapshot_readers[Home(c)][f] \in [slot : RSlots \cup {NoReader}, ref_count : Nat]
  BY Zenon, <1>1 DEF ReadTypes
<1> QED
  BY <1>1, <1>2, <1>3, <1>4 DEF ReadTypes, Registered

(* A reader reads on with the registration of its frame. *)
LEMMA SlotRuleKept ==
  ASSUME ReadInv, NEW c \in RConn, ReadStep(c), NEW d \in RConn
  PROVE  SlotRule(d)'
<1>0. /\ OthersRead(c) /\ SlotRule(d) /\ SlotRule(c) /\ ReadRule(c) /\ OwnSlot(c)
      /\ Home(c) \in Procs /\ Home(d) \in Procs
  BY Zenon, ReaderSlotsAssumption DEF ReadStep, ReadInv, ReadRules
<1>1. CASE Turns(c) \/ Gains(c) \/ Loses(c)
  <2>1. /\ reader'[d] = reader[d] /\ (reader[d] # NoReader => want_frame'[d] = want_frame[d])
        /\ RegsKept
    BY Zenon, <1>0, <1>1 DEF Turns, Gains, Loses, OthersRead
  <2> QED
    BY Zenon, <1>0, <2>1 DEF SlotRule, RegsKept
<1>2. CASE Publishes(c)
  <2>1. want_frame[c] \in RFrames
    BY Zenon, <1>0, <1>2 DEF Publishes, ReadRule, Wanting
  <2>2. CASE d = c
    <3>1. Registered(Home(c), want_frame[c])' = [slot |-> idx[c], ref_count |-> 1]
      BY Zenon, <1>0, <1>2, <2>1 DEF Publishes, Registers
    <3> QED
      BY <1>2, <2>1, <2>2, <3>1 DEF Publishes, SlotRule, Registered
  <2>3. CASE d # c
    <3>1. reader'[d] = reader[d] /\ want_frame'[d] = want_frame[d]
      BY Zenon, <1>0, <2>3 DEF OthersRead
    <3>2. reader[d] # NoReader => ~(Home(d) = Home(c) /\ want_frame[d] = want_frame[c])
      BY <1>0, <1>2 DEF Publishes, SlotRule, NotShared
    <3> QED
      BY Zenon, <1>0, <1>2, <3>1, <3>2 DEF SlotRule, Publishes, Registers
  <2> QED
    BY Zenon, <2>2, <2>3
<1>3. ASSUME NEW f \in RFrames, Retains(c, f) PROVE SlotRule(d)'
  <2>1. \A p \in Procs, g \in RFrames : Registered(p, g)'.slot = Registered(p, g).slot
    BY <1>3 DEF Retains, Registers
  <2>2. CASE d = c
    BY Zenon, <1>0, <1>3, <2>1, <2>2 DEF Retains, SlotRule
  <2>3. CASE d # c
    BY Zenon, <1>0, <2>1, <2>3 DEF SlotRule, OthersRead
  <2> QED
    BY Zenon, <2>2, <2>3
<1>4. CASE EndsLast(c)
  <2>1. CASE d = c
    BY Zenon, <1>4, <2>1 DEF EndsLast, SlotRule
  <2>2. CASE d # c
    <3>1. reader'[d] = reader[d] /\ want_frame'[d] = want_frame[d]
      BY Zenon, <1>0, <2>2 DEF OthersRead
    <3>2. reader[d] # NoReader => ~(Home(d) = Home(c) /\ want_frame[d] = want_frame[c])
      BY <1>0, <1>4, <2>2, OnlyReader DEF EndsLast, ReadRule
    <3> QED
      BY Zenon, <1>0, <1>4, <3>1, <3>2 DEF SlotRule, EndsLast, Registers
  <2> QED
    BY Zenon, <2>1, <2>2
<1>5. CASE EndsOne(c)
  <2>1. \A p \in Procs, g \in RFrames : Registered(p, g)'.slot = Registered(p, g).slot
    BY <1>5 DEF EndsOne, Registers
  <2> QED
    BY Zenon, <1>0, <1>5, <2>1 DEF SlotRule, OthersRead, EndsOne
<1> QED
  BY Zenon, <1>1, <1>2, <1>3, <1>4, <1>5 DEF ReadStep

(* A registered slot stays held, and has readers. *)
LEMMA HeldRuleKept ==
  ASSUME ReadInv, NEW c \in RConn, ReadStep(c), NEW p \in Procs, NEW f \in RFrames
  PROVE  HeldRule(p, f)'
<1>0. /\ HeldRule(p, f) /\ ReadRule(c) /\ SlotRule(c) /\ OwnSlot(c)
      /\ p = Home(c) => OwnReg(c, f)
  BY Zenon DEF ReadInv, ReadRules
<1>1. CASE Turns(c)
  BY Zenon, <1>0, <1>1 DEF Turns, RegsKept, LocksKept, HeldRule
<1>2. CASE Gains(c)
  BY Zenon, <1>0, <1>2 DEF Gains, RegsKept, HeldRule
<1>3. CASE Loses(c)
  <2>1. p = Home(c) => Registered(p, f).slot # idx[c]
    BY Zenon, <1>0, <1>3 DEF Loses, OwnReg, Holding
  <2> QED
    BY Zenon, <1>0, <1>3, <2>1 DEF Loses, RegsKept, HeldRule
<1>4. CASE Publishes(c)
  <2>1. idx[c] \in reader_locks[Home(c)] /\ idx[c] # NoReader
    BY Zenon, <1>0, <1>4, ReadFacts DEF Publishes, OwnSlot, Holding
  <2>2. CASE p = Home(c) /\ f = want_frame[c]
    <3>1. /\ Registered(p, f)' = [slot |-> idx[c], ref_count |-> 1]
          /\ reader_locks'[p] = reader_locks[p]
      BY Zenon, <1>4, <2>2 DEF Publishes, Registers, LocksKept
    <3>2. Registered(p, f)'.slot = idx[c] /\ Registered(p, f)'.ref_count # 0
      BY <3>1
    <3> QED
      BY Zenon, <2>1, <2>2, <3>1, <3>2 DEF HeldRule
  <2>3. CASE ~(p = Home(c) /\ f = want_frame[c])
    BY Zenon, <1>0, <1>4, <2>3 DEF Publishes, Registers, LocksKept, HeldRule
  <2> QED
    BY Zenon, <2>2, <2>3
<1>5. ASSUME NEW g \in RFrames, Retains(c, g) PROVE HeldRule(p, f)'
  <2>1. CASE p = Home(c) /\ f = g
    <3>1. /\ Registered(p, f)'.slot = Registered(p, f).slot
          /\ Registered(p, f)'.ref_count = Registered(p, f).ref_count + 1
      BY <1>5, <2>1 DEF Retains, Registers
    <3>2. Registered(p, f).slot # NoReader
      <4>1. Registered(p, f) \in [slot : RSlots \cup {NoReader}, ref_count : Nat]
        BY Zenon DEF ReadInv, ReadTypes, Registered
      <4> QED
        BY <1>0, <1>5, <2>1, <4>1 DEF Retains, HeldRule, NotShared
    <3>3. Registered(p, f)'.ref_count # 0
      BY <2>1, <3>1, ReadFacts
    <3> QED
      BY Zenon, <1>0, <1>5, <3>1, <3>2, <3>3 DEF HeldRule, Retains, LocksKept
  <2>2. CASE ~(p = Home(c) /\ f = g)
    BY Zenon, <1>0, <1>5, <2>2 DEF Retains, Registers, LocksKept, HeldRule
  <2> QED
    BY Zenon, <2>1, <2>2
<1>6. CASE EndsLast(c)
  <2>1. CASE p = Home(c) /\ f = want_frame[c]
    <3>1. Registered(p, f)' = NotShared
      BY Zenon, <1>6, <2>1 DEF EndsLast, Registers
    <3> QED
      BY <3>1 DEF HeldRule, NotShared
  <2>2. CASE ~(p = Home(c) /\ f = want_frame[c])
    BY Zenon, <1>0, <1>6, <2>2 DEF EndsLast, Registers, LocksKept, HeldRule
  <2> QED
    BY Zenon, <2>1, <2>2
<1>7. CASE EndsOne(c)
  <2>1. CASE p = Home(c) /\ f = want_frame[c]
    <3>1. /\ Registered(p, f)'.slot = Registered(p, f).slot
          /\ Registered(p, f)'.ref_count = Registered(p, f).ref_count - 1
      BY <1>7, <2>1 DEF EndsOne, Registers
    <3>2. Registered(p, f).slot # NoReader
      BY Zenon, <1>0, <1>7, <2>1 DEF EndsOne, ReadRule, SlotRule
    <3>3. Registered(p, f)'.ref_count # 0
      BY <1>7, <2>1, <3>1, ReadFacts DEF EndsOne
    <3> QED
      BY Zenon, <1>0, <1>7, <3>1, <3>2, <3>3 DEF HeldRule, EndsOne, LocksKept
  <2>2. CASE ~(p = Home(c) /\ f = want_frame[c])
    BY Zenon, <1>0, <1>7, <2>2 DEF EndsOne, Registers, LocksKept, HeldRule
  <2> QED
    BY Zenon, <2>1, <2>2
<1> QED
  BY Zenon, <1>1, <1>2, <1>3, <1>4, <1>5, <1>6, <1>7 DEF ReadStep

(* The count of a registration is that of its readers. *)
LEMMA CountRuleKept ==
  ASSUME ReadInv, NEW c \in RConn, ReadStep(c), NEW p \in Procs, NEW f \in RFrames
  PROVE  CountRule(p, f)'
<1>0. /\ OthersRead(c) /\ CountRule(p, f) /\ ReadRule(c)
      /\ Registered(p, f).ref_count \in Nat
  <2>1. Registered(p, f) \in [slot : RSlots \cup {NoReader}, ref_count : Nat]
    BY Zenon DEF ReadInv, ReadTypes, Registered
  <2> QED
    BY <2>1 DEF ReadStep, ReadInv, ReadRules
<1>1. IsFiniteSet(Readers(p, f)) /\ Cardinality(Readers(p, f)) = Registered(p, f).ref_count
  <2>1. Readers(p, f) \subseteq RConn /\ IsFiniteSet(RConn)
    BY Zenon, RConnFinite DEF Readers
  <2> QED
    BY Zenon, <1>0, <2>1, FS_Subset DEF CountRule
<1>2. CASE /\ Readers(p, f)' = Readers(p, f)
           /\ Registered(p, f)'.ref_count = Registered(p, f).ref_count
  BY Zenon, <1>0, <1>2 DEF CountRule
<1>3. CASE /\ c \notin Readers(p, f) /\ Readers(p, f)' = Readers(p, f) \cup {c}
           /\ Registered(p, f)'.ref_count = Registered(p, f).ref_count + 1
  <2>1. Cardinality(Readers(p, f) \cup {c}) = Cardinality(Readers(p, f)) + 1
    BY Zenon, <1>1, <1>3, FS_AddElement
  <2> QED
    BY Zenon, <1>1, <1>3, <2>1 DEF CountRule
<1>4. CASE /\ c \in Readers(p, f) /\ Readers(p, f)' = Readers(p, f) \ {c}
           /\ Registered(p, f)'.ref_count = Registered(p, f).ref_count - 1
  <2>1. Cardinality(Readers(p, f) \ {c}) = Cardinality(Readers(p, f)) - 1
    BY Zenon, <1>1, <1>4, FS_RemoveElement
  <2> QED
    BY Zenon, <1>1, <1>4, <2>1 DEF CountRule
<1>5. CASE Turns(c) \/ Gains(c) \/ Loses(c)
  <2>1. \A d \in RConn :
          reader'[d] = reader[d] /\ (reader[d] # NoReader => want_frame'[d] = want_frame[d])
    BY Zenon, <1>0, <1>5 DEF Turns, Gains, Loses, OthersRead
  <2>2. Readers(p, f)' = Readers(p, f)
    BY Zenon, <2>1 DEF Readers
  <2> QED
    BY Zenon, <1>2, <1>5, <2>2 DEF Turns, Gains, Loses, RegsKept
<1>6. CASE Publishes(c)
  <2>1. reader[c] = NoReader /\ reader'[c] # NoReader /\ want_frame'[c] = want_frame[c]
    <3>1. idx[c] \in reader_locks[Home(c)] /\ idx[c] # NoReader
      BY Zenon, <1>6, ReadFacts DEF Publishes, ReadInv, ReadRules, OwnSlot, Holding
    <3> QED
      BY Zenon, <1>0, <1>6, <3>1 DEF Publishes, ReadRule, MayRead, InRelease
  <2>2. CASE p = Home(c) /\ f = want_frame[c]
    <3>1. Registered(p, f).ref_count = 0 /\ Registered(p, f)'.ref_count = 1
      BY <1>6, <2>2 DEF Publishes, Registers, NotShared
    <3>2. c \notin Readers(p, f) /\ Readers(p, f)' = Readers(p, f) \cup {c}
      BY Zenon, <1>0, <2>1, <2>2 DEF Readers, OthersRead
    <3> QED
      BY <1>3, <3>1, <3>2
  <2>3. CASE ~(p = Home(c) /\ f = want_frame[c])
    <3>1. Readers(p, f)' = Readers(p, f)
      BY Zenon, <1>0, <2>1, <2>3 DEF Readers, OthersRead
    <3> QED
      BY Zenon, <1>2, <1>6, <2>3, <3>1 DEF Publishes, Registers
  <2> QED
    BY Zenon, <2>2, <2>3
<1>7. ASSUME NEW g \in RFrames, Retains(c, g) PROVE CountRule(p, f)'
  <2>1. reader[c] = NoReader /\ reader'[c] # NoReader /\ want_frame'[c] = g
    <3>1. Registered(Home(c), g).slot # NoReader
      <4>1. /\ Registered(Home(c), g) \in [slot : RSlots \cup {NoReader}, ref_count : Nat]
            /\ HeldRule(Home(c), g)
        BY Zenon, ReaderSlotsAssumption DEF ReadInv, ReadTypes, ReadRules, Registered
      <4> QED
        BY <1>7, <4>1 DEF Retains, HeldRule, NotShared
    <3> QED
      BY Zenon, <1>0, <1>7, <3>1 DEF Retains, ReadRule, MayRead, InRelease
  <2>2. CASE p = Home(c) /\ f = g
    <3>1. Registered(p, f)'.ref_count = Registered(p, f).ref_count + 1
      BY <1>7, <2>2 DEF Retains, Registers
    <3>2. c \notin Readers(p, f) /\ Readers(p, f)' = Readers(p, f) \cup {c}
      BY Zenon, <1>0, <2>1, <2>2 DEF Readers, OthersRead
    <3> QED
      BY Zenon, <1>3, <3>1, <3>2
  <2>3. CASE ~(p = Home(c) /\ f = g)
    <3>1. Readers(p, f)' = Readers(p, f)
      BY Zenon, <1>0, <2>1, <2>3 DEF Readers, OthersRead
    <3> QED
      BY Zenon, <1>2, <1>7, <2>3, <3>1 DEF Retains, Registers
  <2> QED
    BY Zenon, <2>2, <2>3
<1>8. CASE EndsLast(c) \/ EndsOne(c)
  <2>1. reader[c] # NoReader /\ reader'[c] = NoReader
    BY Zenon, <1>0, <1>8 DEF EndsLast, EndsOne, ReadRule
  <2>2. CASE p = Home(c) /\ f = want_frame[c]
    <3>1. Registered(p, f)'.ref_count = Registered(p, f).ref_count - 1
      BY <1>0, <1>8, <2>2 DEF EndsLast, EndsOne, Registers, NotShared
    <3>2. c \in Readers(p, f) /\ Readers(p, f)' = Readers(p, f) \ {c}
      BY Zenon, <1>0, <2>1, <2>2 DEF Readers, OthersRead
    <3> QED
      BY Zenon, <1>4, <3>1, <3>2
  <2>3. CASE ~(p = Home(c) /\ f = want_frame[c])
    <3>1. Readers(p, f)' = Readers(p, f)
      BY Zenon, <1>0, <2>1, <2>3 DEF Readers, OthersRead
    <3> QED
      BY Zenon, <1>2, <1>8, <2>3, <3>1 DEF EndsLast, EndsOne, Registers
  <2> QED
    BY Zenon, <2>2, <2>3
<1> QED
  BY Zenon, <1>5, <1>6, <1>7, <1>8 DEF ReadStep

(* Who reads has a slot that is held and registered. *)
LEMMA HeldByReader ==
  ASSUME ReadInv, NEW c \in RConn, reader[c] # NoReader
  PROVE  /\ Home(c) \in Procs /\ want_frame[c] \in RFrames
         /\ Registered(Home(c), want_frame[c]).slot = reader[c]
         /\ reader[c] \in reader_locks[Home(c)]
<1>1. Home(c) \in Procs /\ SlotRule(c)
  BY Zenon, ReaderSlotsAssumption DEF ReadInv, ReadRules
<1>2. HeldRule(Home(c), want_frame[c])
  BY Zenon, <1>1 DEF ReadInv, ReadRules, SlotRule
<1> QED
  BY Zenon, <1>1, <1>2 DEF SlotRule, HeldRule

(* A connection that sets a slot up, or releases one, has it locked. *)
LEMMA OwnSlotKept ==
  ASSUME ReadInv, NEW c \in RConn, ReadStep(c), NEW d \in RConn
  PROVE  OwnSlot(d)'
<1>0. /\ OthersRead(c) /\ OwnSlot(c) /\ OwnSlot(d) /\ OwnPair(c, d) /\ ReadRule(c)
      /\ Home(c) \in Procs /\ Home(d) \in Procs
  BY Zenon, ReaderSlotsAssumption DEF ReadStep, ReadInv, ReadRules
<1>1. CASE d = c
  <2>1. CASE Turns(c)
    BY Zenon, <1>0, <1>1, <2>1 DEF Turns, LocksKept, OwnSlot
  <2>2. CASE Gains(c)
    BY Zenon, <1>0, <1>1, <2>2 DEF Gains, OwnSlot
  <2>3. CASE Loses(c) \/ Publishes(c) \/ EndsOne(c)
    <3>1. rat'[c] \notin Holding
      BY Zenon, <2>3 DEF Loses, Publishes, EndsOne, Holding
    <3> QED
      BY Zenon, <1>1, <3>1 DEF OwnSlot
  <2>4. ASSUME NEW f \in RFrames, Retains(c, f) PROVE OwnSlot(d)'
    <3>1. LocksKept /\ (rat'[c] \in Holding => rat[c] \in Holding /\ idx'[c] = idx[c])
      BY Zenon, <2>4 DEF Retains, Holding
    <3> QED
      BY Zenon, <1>0, <1>1, <3>1 DEF OwnSlot, LocksKept
  <2>5. CASE EndsLast(c)
    <3>1. reader[c] \in reader_locks[Home(c)]
      BY Zenon, <1>0, <2>5, HeldByReader DEF EndsLast, ReadRule
    <3> QED
      BY Zenon, <1>0, <1>1, <2>5, <3>1 DEF EndsLast, LocksKept, OwnSlot
  <2> QED
    BY Zenon, <2>1, <2>2, <2>3, <2>4, <2>5 DEF ReadStep
<1>2. CASE d # c
  <2>1. rat'[d] = rat[d] /\ idx'[d] = idx[d]
    BY Zenon, <1>0, <1>2 DEF OthersRead
  <2>2. CASE LocksKept
    BY Zenon, <1>0, <2>1, <2>2 DEF LocksKept, OwnSlot
  <2>3. CASE Gains(c)
    BY Zenon, <1>0, <2>1, <2>3 DEF Gains, OwnSlot
  <2>4. CASE Loses(c)
    <3>1. Home(d) = Home(c) /\ rat[d] \in Holding => idx[d] # idx[c]
      BY Zenon, <1>0, <1>2, <2>4 DEF Loses, OwnPair, Holding
    <3> QED
      BY Zenon, <1>0, <2>1, <2>4, <3>1 DEF Loses, OwnSlot
  <2> QED
    BY Zenon, <2>2, <2>3, <2>4 DEF ReadStep, Turns, Publishes, Retains, EndsLast, EndsOne
<1> QED
  BY Zenon, <1>1, <1>2

(* No two registrations have one slot. *)
LEMMA RegPairKept ==
  ASSUME ReadInv, NEW c \in RConn, ReadStep(c),
         NEW p \in Procs, NEW f \in RFrames, NEW g \in RFrames
  PROVE  RegPair(p, f, g)'
<1>0. /\ RegPair(p, f, g) /\ OwnReg(c, f) /\ OwnReg(c, g) /\ Home(c) \in Procs
  BY Zenon, ReaderSlotsAssumption DEF ReadInv, ReadRules
<1>1. CASE \A q \in Procs, h \in RFrames : Registered(q, h)'.slot = Registered(q, h).slot
  BY Zenon, <1>0, <1>1 DEF RegPair
<1>2. CASE Turns(c) \/ Gains(c) \/ Loses(c)
  BY Zenon, <1>1, <1>2 DEF Turns, Gains, Loses, RegsKept
<1>3. CASE (\E h \in RFrames : Retains(c, h)) \/ EndsOne(c)
  BY <1>1, <1>3 DEF Retains, EndsOne, Registers
<1>4. CASE Publishes(c)
  <2>1. \A h \in RFrames : Registered(p, h)'.slot =
          IF p = Home(c) /\ h = want_frame[c] THEN idx[c] ELSE Registered(p, h).slot
    BY <1>4 DEF Publishes, Registers
  <2>2. Registered(Home(c), f).slot # idx[c] /\ Registered(Home(c), g).slot # idx[c]
    BY Zenon, <1>0, <1>4 DEF Publishes, OwnReg, Holding
  <2> QED
    BY Zenon, <1>0, <2>1, <2>2 DEF RegPair
<1>5. CASE EndsLast(c)
  <2>1. \A h \in RFrames : Registered(p, h)'.slot =
          IF p = Home(c) /\ h = want_frame[c] THEN NoReader ELSE Registered(p, h).slot
    BY <1>5 DEF EndsLast, Registers, NotShared
  <2> QED
    BY Zenon, <1>0, <2>1 DEF RegPair
<1> QED
  BY Zenon, <1>2, <1>3, <1>4, <1>5 DEF ReadStep

(* No registration has a slot that is set up or released. *)
LEMMA OwnRegKept ==
  ASSUME ReadInv, NEW c \in RConn, ReadStep(c), NEW d \in RConn, NEW f \in RFrames
  PROVE  OwnReg(d, f)'
<1>0. /\ OthersRead(c) /\ OwnReg(c, f) /\ OwnReg(d, f) /\ OwnPair(c, d) /\ OwnSlot(d)
      /\ ReadRule(c) /\ Home(c) \in Procs /\ Home(d) \in Procs /\ HeldRule(Home(c), f)
  BY Zenon, ReaderSlotsAssumption DEF ReadStep, ReadInv, ReadRules
<1>1. CASE d = c
  <2>1. CASE Turns(c)
    BY Zenon, <1>0, <1>1, <2>1 DEF Turns, RegsKept, OwnReg
  <2>2. CASE Gains(c)
    <3>1. idx[c] \in RSlots /\ NoReader \notin RSlots
      BY Zenon, <2>2, ReadFacts DEF Gains, ReadInv, SlotInv, SlotRules, AtSlot
    <3>2. Registered(Home(c), f).slot # idx[c]
      BY Zenon, <1>0, <2>2, <3>1 DEF Gains, HeldRule
    <3> QED
      BY Zenon, <1>0, <1>1, <2>2, <3>2 DEF Gains, RegsKept, OwnReg
  <2>3. CASE Loses(c) \/ Publishes(c) \/ EndsOne(c)
    <3>1. rat'[c] \notin Holding
      BY Zenon, <2>3 DEF Loses, Publishes, EndsOne, Holding
    <3> QED
      BY Zenon, <1>1, <3>1 DEF OwnReg
  <2>4. ASSUME NEW g \in RFrames, Retains(c, g) PROVE OwnReg(d, f)'
    <3>1. rat'[c] \in Holding => rat[c] \in Holding /\ idx'[c] = idx[c]
      BY Zenon, <2>4 DEF Retains, Holding
    <3>2. Registered(Home(c), f)'.slot = Registered(Home(c), f).slot
      BY <1>0, <2>4 DEF Retains, Registers
    <3> QED
      BY Zenon, <1>0, <1>1, <3>1, <3>2 DEF OwnReg
  <2>5. CASE EndsLast(c)
    <3>1. /\ reader[c] # NoReader /\ want_frame[c] \in RFrames
          /\ Registered(Home(c), want_frame[c]).slot = reader[c]
      BY Zenon, <1>0, <2>5, HeldByReader DEF EndsLast, ReadRule
    <3>2. f # want_frame[c] => Registered(Home(c), f).slot # reader[c]
      BY Zenon, <1>0, <3>1 DEF ReadInv, ReadRules, RegPair
    <3>3. Registered(Home(c), f)'.slot =
            IF f = want_frame[c] THEN NoReader ELSE Registered(Home(c), f).slot
      BY <1>0, <2>5 DEF EndsLast, Registers, NotShared
    <3> QED
      BY Zenon, <1>1, <2>5, <3>1, <3>2, <3>3 DEF EndsLast, OwnReg
  <2> QED
    BY Zenon, <2>1, <2>2, <2>3, <2>4, <2>5 DEF ReadStep
<1>2. CASE d # c
  <2>1. rat'[d] = rat[d] /\ idx'[d] = idx[d]
    BY Zenon, <1>0, <1>2 DEF OthersRead
  <2>2. CASE Registered(Home(d), f)'.slot = Registered(Home(d), f).slot
    BY Zenon, <1>0, <2>1, <2>2 DEF OwnReg
  <2>3. CASE Turns(c) \/ Gains(c) \/ Loses(c)
    BY Zenon, <1>0, <2>2, <2>3 DEF Turns, Gains, Loses, RegsKept
  <2>4. CASE (\E h \in RFrames : Retains(c, h)) \/ EndsOne(c)
    BY <1>0, <2>2, <2>4 DEF Retains, EndsOne, Registers
  <2>5. CASE Publishes(c)
    <3>1. Registered(Home(d), f)'.slot =
            IF Home(d) = Home(c) /\ f = want_frame[c] THEN idx[c] ELSE Registered(Home(d), f).slot
      BY <1>0, <2>5 DEF Publishes, Registers
    <3>2. Home(d) = Home(c) /\ rat[d] \in Holding => idx[c] # idx[d]
      BY Zenon, <1>0, <1>2, <2>5 DEF Publishes, OwnPair, Holding
    <3> QED
      BY Zenon, <1>0, <2>1, <3>1, <3>2 DEF OwnReg
  <2>6. CASE EndsLast(c)
    <3>1. Registered(Home(d), f)'.slot =
            IF Home(d) = Home(c) /\ f = want_frame[c] THEN NoReader ELSE Registered(Home(d), f).slot
      BY <1>0, <2>6 DEF EndsLast, Registers, NotShared
    <3>2. rat[d] \in Holding => idx[d] # NoReader
      BY Zenon, <1>0, ReadFacts DEF OwnSlot
    <3> QED
      BY Zenon, <1>0, <2>1, <3>1, <3>2 DEF OwnReg
  <2> QED
    BY Zenon, <2>3, <2>4, <2>5, <2>6 DEF ReadStep
<1> QED
  BY Zenon, <1>1, <1>2

(* No two connections of a process set up or release one slot. *)
LEMMA OwnPairKept ==
  ASSUME ReadInv, NEW c \in RConn, ReadStep(c), NEW d \in RConn, NEW e \in RConn
  PROVE  OwnPair(d, e)'
<1>0. OthersRead(c) /\ OwnPair(d, e) /\ ReadRule(c) /\ Home(c) \in Procs
  BY Zenon, ReaderSlotsAssumption DEF ReadStep, ReadInv, ReadRules
<1>1. ASSUME NEW x \in RConn, x # c, Home(x) = Home(c), rat'[c] \in Holding, rat[x] \in Holding
      PROVE  idx'[c] # idx[x]
  <2>0. OwnPair(c, x) /\ OwnSlot(x)
    BY Zenon DEF ReadInv, ReadRules
  <2>1. CASE Turns(c)
    BY Zenon, <1>1, <2>0, <2>1 DEF Turns, OwnPair
  <2>2. CASE Gains(c)
    BY Zenon, <1>1, <2>0, <2>2 DEF Gains, OwnSlot
  <2>3. CASE Loses(c) \/ Publishes(c) \/ EndsOne(c)
    BY Zenon, <1>1, <2>3 DEF Loses, Publishes, EndsOne, Holding
  <2>4. ASSUME NEW g \in RFrames, Retains(c, g) PROVE idx'[c] # idx[x]
    <3>1. rat[c] \in Holding /\ idx'[c] = idx[c]
      BY Zenon, <1>1, <2>4 DEF Retains, Holding
    <3> QED
      BY Zenon, <1>1, <2>0, <3>1 DEF OwnPair
  <2>5. CASE EndsLast(c)
    <3>1. want_frame[c] \in RFrames /\ Registered(Home(c), want_frame[c]).slot = reader[c]
      BY Zenon, <1>0, <2>5, HeldByReader DEF EndsLast, ReadRule
    <3>2. OwnReg(x, want_frame[c])
      BY Zenon, <3>1 DEF ReadInv, ReadRules
    <3> QED
      BY Zenon, <1>1, <2>5, <3>1, <3>2 DEF EndsLast, OwnReg
  <2> QED
    BY Zenon, <2>1, <2>2, <2>3, <2>4, <2>5 DEF ReadStep
<1>2. CASE d # c /\ e # c
  BY Zenon, <1>0, <1>2 DEF OthersRead, OwnPair
<1>3. CASE d = c /\ e # c
  <2>1. rat'[e] = rat[e] /\ idx'[e] = idx[e]
    BY Zenon, <1>0, <1>3 DEF OthersRead
  <2> QED
    BY Zenon, <1>1, <1>3, <2>1 DEF OwnPair
<1>4. CASE d # c /\ e = c
  <2>1. rat'[d] = rat[d] /\ idx'[d] = idx[d]
    BY Zenon, <1>0, <1>4 DEF OthersRead
  <2> QED
    BY Zenon, <1>1, <1>4, <2>1 DEF OwnPair
<1>5. CASE d = e
  BY Zenon, <1>5 DEF OwnPair
<1> QED
  BY Zenon, <1>2, <1>3, <1>4, <1>5

(* A step of a connection keeps all the rules. *)
LEMMA ReadRulesKept ==
  ASSUME ReadInv, NEW c \in RConn, ReadStep(c)
  PROVE  ReadRules'
<1>1. ASSUME NEW d \in RConn PROVE ReadRule(d)'
  <2>1. CASE d = c
    BY Zenon, <2>1 DEF ReadStep
  <2>2. CASE d # c
    <3>1. ReadRule(d) /\ OthersRead(c)
      BY Zenon DEF ReadInv, ReadRules, ReadStep
    <3>2. /\ rat'[d] = rat[d] /\ attempt'[d] = attempt[d]
          /\ want_frame'[d] = want_frame[d] /\ reader'[d] = reader[d]
      BY Zenon, <2>2, <3>1 DEF OthersRead
    <3> QED
      BY Zenon, <3>1, <3>2 DEF ReadRule
  <2> QED
    BY Zenon, <2>1, <2>2
<1> QED
  BY Zenon, <1>1, SlotRuleKept, OwnSlotKept, HeldRuleKept, CountRuleKept, RegPairKept, OwnRegKept,
     OwnPairKept DEF ReadRules

(* A step of one connection that neither locks, nor registers, nor reads *)
LEMMA TurningStep ==
  ASSUME NEW c \in RConn, reader' = reader, reader_locks' = reader_locks,
         shared_snapshot_readers' = shared_snapshot_readers,
         \A d \in RConn \ {c} :
           /\ rat'[d] = rat[d] /\ idx'[d] = idx[d] /\ attempt'[d] = attempt[d]
           /\ want_frame'[d] = want_frame[d],
         reader[c] # NoReader => want_frame'[c] = want_frame[c],
         rat'[c] \in Holding => rat[c] \in Holding /\ idx'[c] = idx[c],
         ReadRule(c)'
  PROVE  ReadStep(c)
<1>1. OthersRead(c) /\ LocksKept /\ RegsKept
  BY Zenon DEF OthersRead, LocksKept, RegsKept, Registered
<1> QED
  BY Zenon, <1>1 DEF ReadStep, Turns

(* The update of one field of a connection *)
LEMMA ConnUpdate ==
  ASSUME NEW f, f = [d \in RConn |-> f[d]], NEW c \in RConn, NEW v
  PROVE  /\ [f EXCEPT ![c] = v][c] = v
         /\ \A d \in RConn \ {c} : [f EXCEPT ![c] = v][d] = f[d]
  OBVIOUS

LEMMA ConnFunction ==
  ASSUME NEW f, f = [d \in RConn |-> f[d]], NEW c \in RConn, NEW v
  PROVE  [f EXCEPT ![c] = v] = [d \in RConn |-> [f EXCEPT ![c] = v][d]]
  OBVIOUS

(* The update of the locks of a process *)
LEMMA LocksUpdate ==
  ASSUME SlotTypes, NEW q \in Procs, NEW v, reader_locks' = [reader_locks EXCEPT ![q] = v]
  PROVE  \A p \in Procs : reader_locks'[p] = IF p = q THEN v ELSE reader_locks[p]
  BY DEF SlotTypes

(* A registration that is shared has a slot. *)
LEMMA SharedSlot ==
  ASSUME ReadInv, NEW p \in Procs, NEW f \in RFrames, shared_snapshot_readers[p][f] # NotShared
  PROVE  shared_snapshot_readers[p][f].slot # NoReader
<1>1. /\ shared_snapshot_readers[p][f] \in [slot : RSlots \cup {NoReader}, ref_count : Nat]
      /\ HeldRule(p, f)
  BY Zenon DEF ReadInv, ReadTypes, ReadRules
<1> QED
  BY <1>1 DEF HeldRule, Registered, NotShared

(* One more reader of a frame is counted at its registration. *)
RetainsAt(c, f) ==
  Registers(c, f, [slot |-> Registered(Home(c), f).slot,
                   ref_count |-> Registered(Home(c), f).ref_count + 1])
LEMMA RetainedAt ==
  ASSUME ReadInv, NEW c \in RConn, NEW f \in RFrames, Retain(c, f)
  PROVE  RetainsAt(c, f)
<1>1. /\ Home(c) \in Procs
      /\ shared_snapshot_readers \in
           [Procs -> [RFrames -> [slot : RSlots \cup {NoReader}, ref_count : Nat]]]
  BY Zenon, ReaderSlotsAssumption DEF ReadInv, ReadTypes
<1> DEFINE r == shared_snapshot_readers[Home(c)][f]
<1>3. [r EXCEPT !.ref_count = r.ref_count + 1] = [slot |-> r.slot, ref_count |-> r.ref_count + 1]
  <2>1. r \in [slot : RSlots \cup {NoReader}, ref_count : Nat]
    BY Zenon, <1>1
  <2> HIDE DEF r
  <2> QED
    BY <2>1
<1>2. shared_snapshot_readers' = [shared_snapshot_readers EXCEPT ![Home(c)] =
        [shared_snapshot_readers[Home(c)] EXCEPT ![f] =
           [slot |-> r.slot, ref_count |-> r.ref_count + 1]]]
  BY Zenon, <1>3 DEF Retain
<1> QED
  BY <1>1, <1>2 DEF RetainsAt, Registers, Registered

(* Every step of a registration is one of these. *)
LEMMA RegisterReads ==
  ASSUME ReadInv, NEW c \in RConn, RegisterStep(c)
  PROVE  ReadStep(c)
<1>0. /\ rat = [d \in RConn |-> rat[d]] /\ idx = [d \in RConn |-> idx[d]]
      /\ attempt = [d \in RConn |-> attempt[d]] /\ want_frame = [d \in RConn |-> want_frame[d]]
      /\ reader = [d \in RConn |-> reader[d]] /\ ReadRule(c) /\ AtSlot(c)
  BY DEF ReadInv, ReadTypes, ReadRules, SlotInv, SlotTypes, SlotRules
<1> USE DEF Move, Advance, Resumed, Holding, slotVars, procVars
<1>1. CASE StartScan(c)
  <2>1. /\ rat[c] = "register" /\ rat'[c] = "scan"
        /\ want_frame' = want_frame /\ reader' = reader /\ attempt' = attempt
    BY Zenon, <1>0, <1>1, ConnUpdate DEF StartScan
  <2>2. ReadRule(c)'
    BY Zenon, <1>0, <1>1, <2>1
       DEF StartScan, ReadRule, Wanting, Scanning, MayRead, InScan, InWipe, InRelease
  <2> QED
    BY Zenon, <1>0, <1>1, <2>1, <2>2, ConnUpdate, TurningStep DEF StartScan
<1>2. CASE ClaimBit(c)
  <2>1. /\ rat[c] = "scan" /\ rat'[c] = "lock"
        /\ want_frame' = want_frame /\ reader' = reader /\ attempt' = attempt
    BY Zenon, <1>0, <1>2, ConnUpdate DEF ClaimBit
  <2>2. ReadRule(c)'
    BY Zenon, <1>0, <1>2, <2>1
       DEF ClaimBit, ReadRule, Wanting, Scanning, MayRead, InScan, InWipe, InRelease
  <2> QED
    BY Zenon, <1>0, <1>2, <2>1, <2>2, ConnUpdate, TurningStep DEF ClaimBit
<1>3. CASE SkipSlot(c)
  <2>1. /\ rat[c] = "scan" /\ rat'[c] = "scan"
        /\ want_frame' = want_frame /\ reader' = reader /\ attempt' = attempt
    BY Zenon, <1>0, <1>3, ConnUpdate DEF SkipSlot
  <2>2. ReadRule(c)'
    BY Zenon, <1>0, <1>3, <2>1
       DEF SkipSlot, ReadRule, Wanting, Scanning, MayRead, InScan, InWipe, InRelease
  <2> QED
    BY Zenon, <1>0, <1>3, <2>1, <2>2, ConnUpdate, TurningStep DEF SkipSlot
<1>4. CASE GiveBack(c)
  <2>1. /\ rat[c] = "giveback" /\ rat'[c] = "scan"
        /\ want_frame' = want_frame /\ reader' = reader /\ attempt' = attempt
    BY Zenon, <1>0, <1>4, ConnUpdate DEF GiveBack
  <2>2. ReadRule(c)'
    BY Zenon, <1>0, <1>4, <2>1
       DEF GiveBack, ReadRule, Wanting, Scanning, MayRead, InScan, InWipe, InRelease
  <2> QED
    BY Zenon, <1>0, <1>4, <2>1, <2>2, ConnUpdate, TurningStep DEF GiveBack
<1>5. CASE StoreOwner(c)
  <2>1. /\ rat[c] = "own" /\ rat'[c] = "pin"
        /\ want_frame' = want_frame /\ reader' = reader /\ attempt' = attempt
    BY Zenon, <1>0, <1>5, ConnUpdate DEF StoreOwner
  <2>2. ReadRule(c)'
    BY Zenon, <1>0, <1>5, <2>1
       DEF StoreOwner, ReadRule, Wanting, Scanning, MayRead, InScan, InWipe, InRelease
  <2> QED
    BY Zenon, <1>0, <1>5, <2>1, <2>2, ConnUpdate, TurningStep DEF StoreOwner
<1>6. CASE StoreFrame(c)
  <2>1. /\ rat[c] = "pin" /\ rat'[c] = "publish"
        /\ want_frame' = want_frame /\ reader' = reader /\ attempt' = attempt
    BY Zenon, <1>0, <1>6, ConnUpdate DEF StoreFrame
  <2>2. ReadRule(c)'
    BY Zenon, <1>0, <1>6, <2>1
       DEF StoreFrame, ReadRule, Wanting, Scanning, MayRead, InScan, InWipe, InRelease
  <2> QED
    BY Zenon, <1>0, <1>6, <2>1, <2>2, ConnUpdate, TurningStep DEF StoreFrame
<1>7. ASSUME NEW f \in RFrames, BeginRead(c, f) PROVE ReadStep(c)
  <2>0. reader[c] = NoReader /\ rat[c] = "idle" /\ Home(c) \in Procs
    BY Zenon, <1>0, <1>7, ReaderSlotsAssumption DEF BeginRead, ReadRule, MayRead, InRelease
  <2>1. CASE shared_snapshot_readers[Home(c)][f] = NotShared
    <3>1. rat'[c] = "register" /\ want_frame'[c] = f /\ reader' = reader
      BY Zenon, <1>0, <1>7, <2>1, ConnUpdate DEF BeginRead
    <3>2. ReadRule(c)'
      BY Zenon, <2>0, <3>1 DEF ReadRule, Wanting, Scanning, MayRead, InScan, InWipe, InRelease
    <3> QED
      BY Zenon, <1>0, <1>7, <2>0, <2>1, <3>1, <3>2, ConnUpdate, TurningStep DEF BeginRead
  <2>2. CASE shared_snapshot_readers[Home(c)][f] # NotShared
    <3>1. rat'[c] = "reading" /\ want_frame'[c] = f /\ reader'[c] = Registered(Home(c), f).slot
      BY Zenon, <1>0, <1>7, <2>2, ConnUpdate DEF BeginRead, Retain, Registered
    <3>2. OthersRead(c) /\ LocksKept
      BY Zenon, <1>0, <1>7, <2>2, ConnUpdate DEF BeginRead, Retain, OthersRead, LocksKept
    <3>3. RetainsAt(c, f)
      BY Zenon, <1>7, <2>2, RetainedAt DEF BeginRead
    <3>4. reader'[c] # NoReader
      BY Zenon, <2>0, <2>2, <3>1, SharedSlot DEF Registered
    <3>5. ReadRule(c)'
      BY Zenon, <3>1, <3>4 DEF ReadRule, Wanting, Scanning, MayRead, InScan, InWipe, InRelease
    <3> QED
      BY Zenon, <2>0, <2>2, <3>1, <3>2, <3>3, <3>5 DEF ReadStep, Retains, RetainsAt, Registered
  <2> QED
    BY Zenon, <2>1, <2>2
<1>8. CASE EndScan(c)
  <2>0. reader[c] = NoReader /\ rat[c] = "scan"
    BY Zenon, <1>0, <1>8 DEF EndScan, ReadRule, MayRead, InRelease
  <2>1. /\ reader' = reader
        /\ \/ rat'[c] = "reclaim" /\ want_frame'[c] = want_frame[c]
           \/ rat'[c] = "idle"
    BY Zenon, <1>0, <1>8, ConnUpdate DEF EndScan
  <2>2. ReadRule(c)'
    BY Zenon, <1>0, <2>0, <2>1 DEF ReadRule, Wanting, Scanning, MayRead, InScan, InWipe, InRelease
  <2>3. \A d \in RConn \ {c} :
          /\ rat'[d] = rat[d] /\ idx'[d] = idx[d] /\ attempt'[d] = attempt[d]
          /\ want_frame'[d] = want_frame[d]
    BY Zenon, <1>0, <1>8, ConnUpdate DEF EndScan
  <2> QED
    BY Zenon, <1>8, <2>0, <2>1, <2>2, <2>3, TurningStep DEF EndScan
<1>9. CASE LockByte(c)
  <2>0. /\ rat[c] = "lock" /\ reader[c] = NoReader /\ want_frame[c] \in RFrames
        /\ idx[c] \notin reader_locks[Home(c)] /\ Home(c) \in Procs
    BY Zenon, <1>0, <1>9, ReaderSlotsAssumption
       DEF LockByte, ReadRule, MayRead, InRelease, Wanting, InScan, AtSlot
  <2>1. CASE ByteFree(c)
    <3>1. /\ rat'[c] = "own" /\ want_frame' = want_frame /\ reader' = reader
          /\ idx' = idx /\ attempt' = attempt
      BY Zenon, <1>0, <1>9, <2>1, ConnUpdate DEF LockByte
    <3>2. ReadRule(c)'
      BY Zenon, <2>0, <3>1 DEF ReadRule, Wanting, Scanning, MayRead, InScan, InWipe, InRelease
    <3>3. OthersRead(c) /\ RegsKept
      BY Zenon, <1>0, <1>9, <2>1, <3>1, ConnUpdate DEF LockByte, OthersRead, RegsKept, Registered
    <3>4. \A p \in Procs : reader_locks'[p] =
            IF p = Home(c) THEN reader_locks[p] \cup {idx[c]} ELSE reader_locks[p]
      <4>1. /\ SlotTypes
            /\ reader_locks' = [reader_locks EXCEPT
                 ![Home(c)] = reader_locks[Home(c)] \cup {idx[c]}]
        BY Zenon, <1>9, <2>1 DEF LockByte, ReadInv, SlotInv
      <4>2. \A p \in Procs : reader_locks'[p] =
              IF p = Home(c) THEN reader_locks[Home(c)] \cup {idx[c]} ELSE reader_locks[p]
        BY Zenon, <2>0, <4>1, LocksUpdate
      <4> QED
        BY Zenon, <4>2
    <3> QED
      BY Zenon, <2>0, <3>1, <3>2, <3>3, <3>4 DEF ReadStep, Gains
  <2>2. CASE ~ByteFree(c)
    <3>1. /\ rat'[c] = "giveback" /\ want_frame' = want_frame /\ reader' = reader
          /\ attempt' = attempt
      BY Zenon, <1>0, <1>9, <2>2, ConnUpdate DEF LockByte
    <3>2. ReadRule(c)'
      BY Zenon, <2>0, <3>1 DEF ReadRule, Wanting, Scanning, MayRead, InScan, InWipe, InRelease
    <3> QED
      BY Zenon, <1>0, <1>9, <2>0, <2>2, <3>1, <3>2, ConnUpdate, TurningStep DEF LockByte
  <2> QED
    BY Zenon, <2>1, <2>2
<1>10. CASE PublishSnapshot(c)
  <2>0. /\ rat[c] = "publish" /\ reader[c] = NoReader /\ want_frame[c] \in RFrames
        /\ Home(c) \in Procs /\ idx[c] \in reader_locks[Home(c)]
    BY Zenon, <1>0, <1>10, ReaderSlotsAssumption
       DEF PublishSnapshot, ReadRule, MayRead, InRelease, Wanting, ReadInv, ReadRules, OwnSlot
  <2>1. CASE Shared(c) = NotShared
    <3>1. /\ rat'[c] = "reading" /\ reader'[c] = idx[c] /\ want_frame' = want_frame
          /\ idx' = idx /\ attempt' = attempt
      BY Zenon, <1>0, <1>10, <2>1, ConnUpdate DEF PublishSnapshot, PublishOrRetain, PublishNew
    <3>2. OthersRead(c) /\ LocksKept
      BY Zenon, <1>0, <1>10, <2>1, <3>1, ConnUpdate
         DEF PublishSnapshot, PublishOrRetain, PublishNew, OthersRead, LocksKept
    <3>3. Registers(c, want_frame[c], [slot |-> idx[c], ref_count |-> 1])
      BY <1>10, <2>0, <2>1
         DEF PublishSnapshot, PublishOrRetain, PublishNew, Registers, Registered, ReadInv, ReadTypes
    <3>4. reader'[c] # NoReader
      BY Zenon, <2>0, <3>1, ReadFacts
    <3>5. ReadRule(c)'
      BY Zenon, <3>1, <3>4 DEF ReadRule, Wanting, Scanning, MayRead, InScan, InWipe, InRelease
    <3> QED
      BY Zenon, <2>0, <2>1, <3>1, <3>2, <3>3, <3>5 DEF ReadStep, Publishes, Registered, Shared
  <2>2. CASE Shared(c) # NotShared
    <3>1. /\ rat'[c] = "release" /\ reader'[c] = Registered(Home(c), want_frame[c]).slot
          /\ want_frame' = want_frame /\ idx' = idx /\ attempt' = attempt
      BY Zenon, <1>0, <1>10, <2>2, ConnUpdate
         DEF PublishSnapshot, PublishOrRetain, Retain, Registered
    <3>2. OthersRead(c) /\ LocksKept
      BY Zenon, <1>0, <1>10, <2>2, <3>1, ConnUpdate
         DEF PublishSnapshot, PublishOrRetain, Retain, OthersRead, LocksKept
    <3>3. RetainsAt(c, want_frame[c])
      BY Zenon, <1>10, <2>0, <2>2, RetainedAt DEF PublishSnapshot, PublishOrRetain
    <3>4. reader'[c] # NoReader
      BY Zenon, <2>0, <2>2, <3>1, SharedSlot DEF Registered, Shared
    <3>5. ReadRule(c)'
      BY Zenon, <3>1, <3>4 DEF ReadRule, Wanting, Scanning, MayRead, InScan, InWipe, InRelease
    <3>6. Registered(Home(c), want_frame[c]) # NotShared
      BY Zenon, <2>2 DEF Registered, Shared
    <3> QED
      BY Zenon, <2>0, <3>1, <3>2, <3>3, <3>5, <3>6 DEF ReadStep, Retains, RetainsAt
  <2> QED
    BY Zenon, <2>1, <2>2
<1> QED
  BY Zenon, <1>1, <1>2, <1>3, <1>4, <1>5, <1>6, <1>7, <1>8, <1>9, <1>10 DEF RegisterStep

(* Every step of a release is one of these. *)
LEMMA ReleaseReads ==
  ASSUME ReadInv, NEW c \in RConn, ReleaseStep(c)
  PROVE  ReadStep(c)
<1>0. /\ rat = [d \in RConn |-> rat[d]] /\ idx = [d \in RConn |-> idx[d]]
      /\ attempt = [d \in RConn |-> attempt[d]] /\ want_frame = [d \in RConn |-> want_frame[d]]
      /\ reader = [d \in RConn |-> reader[d]] /\ ReadRule(c) /\ AtSlot(c)
  BY DEF ReadInv, ReadTypes, ReadRules, SlotInv, SlotTypes, SlotRules
<1> USE DEF Move, Advance, Resumed, Holding, slotVars, procVars
<1>1. CASE NonOwner(c)
  <2>1. /\ rat[c] = "release" /\ rat'[c] = "panic"
        /\ want_frame' = want_frame /\ reader' = reader /\ attempt' = attempt
    BY Zenon, <1>0, <1>1, ConnUpdate DEF NonOwner
  <2>2. ReadRule(c)'
    BY Zenon, <1>0, <1>1, <2>1
       DEF NonOwner, ReadRule, Wanting, Scanning, MayRead, InScan, InWipe, InRelease
  <2> QED
    BY Zenon, <1>0, <1>1, <2>1, <2>2, ConnUpdate, TurningStep DEF NonOwner
<1>2. CASE Unpin(c)
  <2>1. /\ rat[c] = "unpin" /\ rat'[c] = "disown"
        /\ want_frame' = want_frame /\ reader' = reader /\ attempt' = attempt
    BY Zenon, <1>0, <1>2, ConnUpdate DEF Unpin
  <2>2. ReadRule(c)'
    BY Zenon, <1>0, <1>2, <2>1
       DEF Unpin, ReadRule, Wanting, Scanning, MayRead, InScan, InWipe, InRelease
  <2> QED
    BY Zenon, <1>0, <1>2, <2>1, <2>2, ConnUpdate, TurningStep DEF Unpin
<1>3. CASE Disown(c)
  <2>1. /\ rat[c] = "disown" /\ rat'[c] = "free"
        /\ want_frame' = want_frame /\ reader' = reader /\ attempt' = attempt
    BY Zenon, <1>0, <1>3, ConnUpdate DEF Disown
  <2>2. ReadRule(c)'
    BY Zenon, <1>0, <1>3, <2>1
       DEF Disown, ReadRule, Wanting, Scanning, MayRead, InScan, InWipe, InRelease
  <2> QED
    BY Zenon, <1>0, <1>3, <2>1, <2>2, ConnUpdate, TurningStep DEF Disown
<1>4. CASE FreeBit(c)
  <2>1. /\ rat[c] = "free" /\ rat'[c] = IF reader[c] = NoReader THEN "idle" ELSE "reading"
        /\ want_frame' = want_frame /\ reader' = reader /\ attempt' = attempt
    BY Zenon, <1>0, <1>4, ConnUpdate DEF FreeBit
  <2>2. ReadRule(c)'
    BY Zenon, <1>0, <1>4, <2>1
       DEF FreeBit, ReadRule, Wanting, Scanning, MayRead, InScan, InWipe, InRelease
  <2> QED
    BY Zenon, <1>0, <1>4, <2>1, <2>2, ConnUpdate, TurningStep DEF FreeBit
<1>5. CASE EndRead(c)
  <2>0. /\ rat[c] = "reading" /\ reader[c] # NoReader /\ want_frame[c] \in RFrames
        /\ Home(c) \in Procs
    BY Zenon, <1>0, <1>5, HeldByReader DEF EndRead, ReadRule
  <2>1. /\ reader'[c] = NoReader /\ attempt' = attempt
        /\ IF Shared(c).ref_count = 1 THEN rat'[c] = "release" /\ idx'[c] = reader[c]
                                      ELSE rat'[c] = "idle"
    BY Zenon, <1>0, <1>5, ConnUpdate DEF EndRead
  <2>2. OthersRead(c) /\ LocksKept
    BY Zenon, <1>0, <1>5, ConnUpdate DEF EndRead, OthersRead, LocksKept
  <2>3. ReadRule(c)'
    BY Zenon, <2>1 DEF ReadRule, Wanting, Scanning, MayRead, InScan, InWipe, InRelease
  <2>4. Registers(c, want_frame[c],
          IF Shared(c).ref_count = 1 THEN NotShared
          ELSE [Shared(c) EXCEPT !.ref_count = Shared(c).ref_count - 1])
    BY <1>5, <2>0 DEF EndRead, Registers, Registered, Shared, ReadInv, ReadTypes
  <2> DEFINE r == Registered(Home(c), want_frame[c])
  <2>7. Shared(c) = r
    BY Zenon DEF Shared, Registered
  <2> HIDE DEF r
  <2>5. CASE r.ref_count = 1
    <3>1. Registers(c, want_frame[c], NotShared)
      BY Zenon, <2>4, <2>5, <2>7
    <3> QED
      BY Zenon, <2>0, <2>1, <2>2, <2>3, <2>5, <2>7, <3>1 DEF ReadStep, EndsLast, r
  <2>6. CASE r.ref_count # 1
    <3>1. [r EXCEPT !.ref_count = r.ref_count - 1]
            = [slot |-> r.slot, ref_count |-> r.ref_count - 1]
      <4>1. r \in [slot : RSlots \cup {NoReader}, ref_count : Nat]
        BY Zenon, <2>0 DEF ReadInv, ReadTypes, Registered, r
      <4> QED
        BY <4>1
    <3>2. Registers(c, want_frame[c], [slot |-> r.slot, ref_count |-> r.ref_count - 1])
      BY Zenon, <2>4, <2>6, <2>7, <3>1
    <3> QED
      BY Zenon, <2>0, <2>1, <2>2, <2>3, <2>6, <2>7, <3>2 DEF ReadStep, EndsOne, r
  <2> QED
    BY Zenon, <2>5, <2>6
<1>6. CASE UnlockByte(c)
  <2>1. /\ rat[c] = "release" /\ rat'[c] = "unpin" /\ want_frame' = want_frame /\ reader' = reader
        /\ idx' = idx /\ attempt' = attempt /\ Home(c) \in Procs
    BY Zenon, <1>0, <1>6, ConnUpdate, ReaderSlotsAssumption DEF UnlockByte
  <2>2. ReadRule(c)'
    BY Zenon, <1>0, <2>1 DEF ReadRule, Wanting, Scanning, MayRead, InScan, InWipe, InRelease
  <2>3. OthersRead(c) /\ RegsKept
    BY Zenon, <1>0, <1>6, <2>1, ConnUpdate DEF UnlockByte, OthersRead, RegsKept, Registered
  <2>4. \A p \in Procs : reader_locks'[p] =
          IF p = Home(c) THEN reader_locks[p] \ {idx[c]} ELSE reader_locks[p]
    <3>1. /\ SlotTypes
          /\ reader_locks' = [reader_locks EXCEPT ![Home(c)] = reader_locks[Home(c)] \ {idx[c]}]
      BY Zenon, <1>6 DEF UnlockByte, ReadInv, SlotInv
    <3>2. \A p \in Procs : reader_locks'[p] =
            IF p = Home(c) THEN reader_locks[Home(c)] \ {idx[c]} ELSE reader_locks[p]
      BY Zenon, <2>1, <3>1, LocksUpdate
    <3> QED
      BY Zenon, <3>2
  <2> QED
    BY Zenon, <2>1, <2>2, <2>3, <2>4 DEF ReadStep, Loses
<1> QED
  BY Zenon, <1>1, <1>2, <1>3, <1>4, <1>5, <1>6 DEF ReleaseStep

(* Every step of a reclaim is one of these. *)
LEMMA ReclaimReads ==
  ASSUME ReadInv, NEW c \in RConn, ReclaimStep(c)
  PROVE  ReadStep(c)
<1>0. /\ rat = [d \in RConn |-> rat[d]] /\ idx = [d \in RConn |-> idx[d]]
      /\ attempt = [d \in RConn |-> attempt[d]] /\ want_frame = [d \in RConn |-> want_frame[d]]
      /\ reader = [d \in RConn |-> reader[d]] /\ ReadRule(c) /\ AtSlot(c)
  BY DEF ReadInv, ReadTypes, ReadRules, SlotInv, SlotTypes, SlotRules
<1> USE DEF Move, Advance, Resumed, Holding, slotVars, procVars
<1>1. CASE LookAtBit(c)
  <2>1. /\ rat[c] = "reclaim" /\ rat'[c] \in {"reclaim", "try"}
        /\ want_frame' = want_frame /\ reader' = reader /\ attempt' = attempt
    BY Zenon, <1>0, <1>1, ConnUpdate DEF LookAtBit
  <2>2. ReadRule(c)'
    BY Zenon, <1>0, <1>1, <2>1
       DEF LookAtBit, ReadRule, Wanting, Scanning, MayRead, InScan, InWipe, InRelease
  <2> QED
    BY Zenon, <1>0, <1>1, <2>1, <2>2, ConnUpdate, TurningStep DEF LookAtBit
<1>2. CASE EndReclaim(c)
  <2>1. /\ rat[c] = "reclaim" /\ rat'[c] = "register"
        /\ want_frame' = want_frame /\ reader' = reader /\ attempt' = attempt
    BY Zenon, <1>0, <1>2, ConnUpdate DEF EndReclaim
  <2>2. ReadRule(c)'
    BY Zenon, <1>0, <1>2, <2>1
       DEF EndReclaim, ReadRule, Wanting, Scanning, MayRead, InScan, InWipe, InRelease
  <2> QED
    BY Zenon, <1>0, <1>2, <2>1, <2>2, ConnUpdate, TurningStep DEF EndReclaim
<1>3. CASE TryReclaim(c)
  <2>1. /\ rat[c] = "try" /\ rat'[c] \in {"reclaim", "seize"}
        /\ want_frame' = want_frame /\ reader' = reader /\ attempt' = attempt
    BY Zenon, <1>0, <1>3, ConnUpdate DEF TryReclaim
  <2>2. ReadRule(c)'
    BY Zenon, <1>0, <1>3, <2>1
       DEF TryReclaim, ReadRule, Wanting, Scanning, MayRead, InScan, InWipe, InRelease
  <2> QED
    BY Zenon, <1>0, <1>3, <2>1, <2>2, ConnUpdate, TurningStep DEF TryReclaim
<1>4. CASE StartLook(c)
  <2>1. /\ rat[c] = "idle" /\ rat'[c] = "look"
        /\ want_frame' = want_frame /\ reader' = reader /\ attempt'[c] = NoAttempt
    BY Zenon, <1>0, <1>4, ConnUpdate DEF StartLook
  <2>2. ReadRule(c)'
    BY Zenon, <1>0, <1>4, <2>1
       DEF StartLook, ReadRule, Wanting, Scanning, MayRead, InScan, InWipe, InRelease
  <2> QED
    BY Zenon, <1>0, <1>4, <2>1, <2>2, ConnUpdate, TurningStep DEF StartLook
<1>5. CASE LookAtFrame(c)
  <2>1. /\ rat[c] = "look" /\ rat'[c] \in {"look", "seize"}
        /\ want_frame' = want_frame /\ reader' = reader /\ attempt' = attempt
    BY Zenon, <1>0, <1>5, ConnUpdate DEF LookAtFrame
  <2>2. ReadRule(c)'
    BY Zenon, <1>0, <1>5, <2>1
       DEF LookAtFrame, ReadRule, Wanting, Scanning, MayRead, InScan, InWipe, InRelease
  <2> QED
    BY Zenon, <1>0, <1>5, <2>1, <2>2, ConnUpdate, TurningStep DEF LookAtFrame
<1>6. CASE EndLook(c)
  <2>1. /\ rat[c] = "look" /\ rat'[c] = "idle"
        /\ want_frame' = want_frame /\ reader' = reader
    BY Zenon, <1>0, <1>6, ConnUpdate DEF EndLook
  <2>2. ReadRule(c)'
    BY Zenon, <1>0, <1>6, <2>1
       DEF EndLook, ReadRule, Wanting, Scanning, MayRead, InScan, InWipe, InRelease
  <2> QED
    BY Zenon, <1>0, <1>6, <2>1, <2>2, ConnUpdate, TurningStep DEF EndLook
<1>7. CASE Seize(c)
  <2>1. /\ rat[c] = "seize" /\ rat'[c] \in {"wipeframe", Resumed(c)}
        /\ want_frame' = want_frame /\ reader' = reader /\ attempt' = attempt
    BY Zenon, <1>0, <1>7, ConnUpdate DEF Seize
  <2>2. ReadRule(c)'
    BY Zenon, <1>0, <1>7, <2>1
       DEF Seize, ReadRule, Wanting, Scanning, MayRead, InScan, InWipe, InRelease
  <2> QED
    BY Zenon, <1>0, <1>7, <2>1, <2>2, ConnUpdate, TurningStep DEF Seize
<1>8. CASE WipeFrame(c)
  <2>1. /\ rat[c] = "wipeframe" /\ rat'[c] = "wipeowner"
        /\ want_frame' = want_frame /\ reader' = reader /\ attempt' = attempt
    BY Zenon, <1>0, <1>8, ConnUpdate DEF WipeFrame
  <2>2. ReadRule(c)'
    BY Zenon, <1>0, <1>8, <2>1
       DEF WipeFrame, ReadRule, Wanting, Scanning, MayRead, InScan, InWipe, InRelease
  <2> QED
    BY Zenon, <1>0, <1>8, <2>1, <2>2, ConnUpdate, TurningStep DEF WipeFrame
<1>9. CASE WipeOwner(c)
  <2>1. /\ rat[c] = "wipeowner" /\ rat'[c] = "wipebit"
        /\ want_frame' = want_frame /\ reader' = reader /\ attempt' = attempt
    BY Zenon, <1>0, <1>9, ConnUpdate DEF WipeOwner
  <2>2. ReadRule(c)'
    BY Zenon, <1>0, <1>9, <2>1
       DEF WipeOwner, ReadRule, Wanting, Scanning, MayRead, InScan, InWipe, InRelease
  <2> QED
    BY Zenon, <1>0, <1>9, <2>1, <2>2, ConnUpdate, TurningStep DEF WipeOwner
<1>10. CASE WipeBit(c)
  <2>1. /\ rat[c] = "wipebit" /\ rat'[c] = "letgo"
        /\ want_frame' = want_frame /\ reader' = reader /\ attempt' = attempt
    BY Zenon, <1>0, <1>10, ConnUpdate DEF WipeBit
  <2>2. ReadRule(c)'
    BY Zenon, <1>0, <1>10, <2>1
       DEF WipeBit, ReadRule, Wanting, Scanning, MayRead, InScan, InWipe, InRelease
  <2> QED
    BY Zenon, <1>0, <1>10, <2>1, <2>2, ConnUpdate, TurningStep DEF WipeBit
<1>11. CASE LetGo(c)
  <2>1. /\ rat[c] = "letgo" /\ rat'[c] = Resumed(c)
        /\ want_frame' = want_frame /\ reader' = reader /\ attempt' = attempt
    BY Zenon, <1>0, <1>11, ConnUpdate DEF LetGo
  <2>2. ReadRule(c)'
    BY Zenon, <1>0, <1>11, <2>1
       DEF LetGo, ReadRule, Wanting, Scanning, MayRead, InScan, InWipe, InRelease
  <2> QED
    BY Zenon, <1>0, <1>11, <2>1, <2>2, ConnUpdate, TurningStep DEF LetGo
<1> QED
  BY Zenon, <1>1, <1>2, <1>3, <1>4, <1>5, <1>6, <1>7, <1>8, <1>9, <1>10, <1>11 DEF ReclaimStep

(* The types of what is shared are kept. *)
LEMMA ReadTypesKept ==
  ASSUME ReadInv, [ReadersNext]_readerVars
  PROVE  ReadTypes'
<1>0. ReadTypes
  BY Zenon DEF ReadInv
<1> DEFINE R == [slot : RSlots \cup {NoReader}, ref_count : Nat]
<1>1. CASE UNCHANGED <<reader, shared_snapshot_readers, attempt>>
  BY Zenon, <1>0, <1>1 DEF ReadTypes
<1>2. ASSUME UNCHANGED <<reader, shared_snapshot_readers>>, NEW c \in RConn, NEW v,
             attempt' = [attempt EXCEPT ![c] = v]
      PROVE  ReadTypes'
  <2>1. attempt' = [d \in RConn |-> attempt'[d]]
    BY Zenon, <1>0, <1>2, ConnFunction DEF ReadTypes
  <2> QED
    BY Zenon, <1>0, <1>2, <2>1 DEF ReadTypes
<1>3. ASSUME NEW c \in RConn, NEW f \in RFrames, NEW r \in R, NEW s \in RSlots \cup {NoReader},
             UNCHANGED attempt, reader' = [reader EXCEPT ![c] = s],
             shared_snapshot_readers' = [shared_snapshot_readers EXCEPT ![Home(c)][f] = r]
      PROVE  ReadTypes'
  <2>1. reader' \in [RConn -> RSlots \cup {NoReader}]
    BY <1>0, <1>3 DEF ReadTypes
  <2>2. shared_snapshot_readers' \in [Procs -> [RFrames -> R]]
    <3> HIDE DEF R
    <3>1. shared_snapshot_readers \in [Procs -> [RFrames -> R]] /\ Home(c) \in Procs
      BY Zenon, <1>0, ReaderSlotsAssumption DEF ReadTypes, R
    <3>2. [shared_snapshot_readers[Home(c)] EXCEPT ![f] = r] \in [RFrames -> R]
      BY <1>3, <3>1
    <3> QED
      BY <1>3, <3>1, <3>2
  <2> QED
    BY Zenon, <1>0, <1>3, <2>1, <2>2 DEF ReadTypes
<1>4. ASSUME NEW c \in RConn, NEW f \in RFrames, Retain(c, f), UNCHANGED attempt PROVE ReadTypes'
  <2>1. Home(c) \in Procs /\ shared_snapshot_readers[Home(c)][f] \in R
    BY Zenon, <1>0, ReaderSlotsAssumption DEF ReadTypes
  <2> DEFINE r == shared_snapshot_readers[Home(c)][f]
  <2>2. r.slot \in RSlots \cup {NoReader} /\ [r EXCEPT !.ref_count = r.ref_count + 1] \in R
    <3>1. r \in R
      BY Zenon, <2>1
    <3> HIDE DEF r
    <3> QED
      BY <3>1
  <2>3. /\ reader' = [reader EXCEPT ![c] = r.slot]
        /\ shared_snapshot_readers' = [shared_snapshot_readers EXCEPT ![Home(c)][f] =
             [r EXCEPT !.ref_count = r.ref_count + 1]]
    BY Zenon, <1>4 DEF Retain
  <2> QED
    BY Zenon, <1>3, <1>4, <2>2, <2>3
<1>5. ASSUME NEW c \in RConn, RegisterStep(c) PROVE ReadTypes'
  <2>0. ReadRule(c) /\ OwnSlot(c) /\ Home(c) \in Procs /\ SlotTypes
    BY Zenon, ReaderSlotsAssumption DEF ReadInv, ReadRules, SlotInv
  <2>1. ASSUME NEW f \in RFrames, BeginRead(c, f) PROVE ReadTypes'
    BY Zenon, <1>2, <1>4, <2>1 DEF BeginRead
  <2>2. CASE EndScan(c)
    BY Zenon, <1>2, <2>2 DEF EndScan, procVars
  <2>3. CASE PublishSnapshot(c)
    <3>1. want_frame[c] \in RFrames /\ idx[c] \in RSlots
      BY <2>0, <2>3 DEF PublishSnapshot, ReadRule, OwnSlot, Wanting, Holding, SlotTypes
    <3>2. CASE Shared(c) = NotShared
      <4> DEFINE r == [slot |-> idx[c], ref_count |-> 1]
      <4>1. r \in R
        BY <3>1
      <4>2. /\ UNCHANGED attempt /\ reader' = [reader EXCEPT ![c] = idx[c]]
            /\ shared_snapshot_readers' =
                 [shared_snapshot_readers EXCEPT ![Home(c)][want_frame[c]] = r]
        BY Zenon, <2>3, <3>2 DEF PublishSnapshot, PublishOrRetain, PublishNew
      <4> HIDE DEF r, R
      <4>3. idx[c] \in RSlots \cup {NoReader}
        BY Zenon, <3>1
      <4> QED
        BY Zenon, <1>3, <3>1, <4>1, <4>2, <4>3
    <3>3. CASE Shared(c) # NotShared
      BY Zenon, <1>4, <2>3, <3>1, <3>3 DEF PublishSnapshot, PublishOrRetain
    <3> QED
      BY Zenon, <3>2, <3>3
  <2> QED
    BY Zenon, <1>1, <1>5, <2>1, <2>2, <2>3
       DEF RegisterStep, StartScan, ClaimBit, SkipSlot, LockByte, GiveBack, StoreOwner, StoreFrame,
           procVars
<1>6. ASSUME NEW c \in RConn, ReleaseStep(c) PROVE ReadTypes'
  <2>1. CASE EndRead(c)
    <3>1. want_frame[c] \in RFrames /\ Home(c) \in Procs
      BY Zenon, <2>1, HeldByReader DEF EndRead, ReadInv, ReadRules, ReadRule
    <3> DEFINE r == shared_snapshot_readers[Home(c)][want_frame[c]]
    <3>2. (IF r.ref_count = 1 THEN NotShared ELSE [r EXCEPT !.ref_count = r.ref_count - 1]) \in R
      <4>1. r \in R /\ r.ref_count # 0
        <5>1. r \in R
          BY Zenon, <1>0, <3>1 DEF ReadTypes
        <5>2. reader[c] # NoReader
          BY Zenon, <2>1 DEF EndRead, ReadInv, ReadRules, ReadRule
        <5>3. r.slot = reader[c] /\ HeldRule(Home(c), want_frame[c])
          BY Zenon, <3>1, <5>2, HeldByReader DEF ReadInv, ReadRules, Registered
        <5> QED
          BY Zenon, <5>1, <5>2, <5>3 DEF HeldRule, Registered
      <4> HIDE DEF r
      <4>2. r.ref_count - 1 \in Nat
        BY <4>1
      <4> QED
        BY <4>1, <4>2 DEF NotShared
    <3> HIDE DEF R
    <3>3. NoReader \in RSlots \cup {NoReader}
      BY Zenon
    <3> QED
      BY Zenon, <1>3, <2>1, <3>1, <3>2, <3>3 DEF EndRead, Shared
  <2> QED
    BY Zenon, <1>1, <1>6, <2>1
       DEF ReleaseStep, UnlockByte, NonOwner, Unpin, Disown, FreeBit, procVars
<1>7. ASSUME NEW c \in RConn, ReclaimStep(c) PROVE ReadTypes'
  BY Zenon, <1>1, <1>2, <1>7
     DEF ReclaimStep, LookAtBit, EndReclaim, TryReclaim, StartLook, LookAtFrame, EndLook, Seize,
         WipeFrame, WipeOwner, WipeBit, LetGo, procVars
<1>8. ASSUME NEW p \in Procs, Die(p) PROVE ReadTypes'
  BY <1>0, <1>8 DEF Die, ReadTypes, NotShared
<1> QED
  BY Zenon, <1>1, <1>5, <1>6, <1>7, <1>8 DEF ReadersNext, readerVars, connVars, procVars

(* A process that dies leaves no reader of its own, and takes none from others. *)
LEMMA DeathKept ==
  ASSUME ReadInv, NEW p \in Procs, Die(p)
  PROVE  ReadRules'
<1>1. ASSUME NEW c \in RConn, Home(c) = p
      PROVE  /\ rat'[c] = "idle" /\ reader'[c] = NoReader
  BY Zenon, <1>1 DEF Die
<1>2. ASSUME NEW c \in RConn, Home(c) # p
      PROVE  /\ rat'[c] = rat[c] /\ idx'[c] = idx[c] /\ attempt'[c] = attempt[c]
             /\ want_frame'[c] = want_frame[c] /\ reader'[c] = reader[c]
  BY Zenon, <1>2 DEF Die
<1>3. \A q \in Procs : q # p => reader_locks'[q] = reader_locks[q]
  BY DEF Die, ReadInv, SlotInv, SlotTypes
<1>4. \A q \in Procs, f \in RFrames :
        Registered(q, f)' = IF q = p THEN NotShared ELSE Registered(q, f)
  BY DEF Die, ReadInv, ReadTypes, Registered
<1>5. "idle" \notin Holding /\ \A c \in RConn : Home(c) \in Procs
  BY Zenon, ReaderSlotsAssumption DEF Holding
<1>6. NotShared.slot = NoReader /\ NotShared.ref_count = 0
  BY DEF NotShared
<1>7. ASSUME NEW c \in RConn PROVE ReadRule(c)' /\ SlotRule(c)' /\ OwnSlot(c)'
  <2>0. ReadRule(c) /\ SlotRule(c) /\ OwnSlot(c)
    BY Zenon DEF ReadInv, ReadRules
  <2>1. CASE Home(c) = p
    <3>1. ReadRule(c)'
      BY Zenon, <1>1, <2>1 DEF ReadRule, Wanting, Scanning, MayRead, InScan, InWipe, InRelease
    <3> QED
      BY Zenon, <1>1, <1>5, <2>1, <3>1 DEF SlotRule, OwnSlot
  <2>2. CASE Home(c) # p
    <3>1. ReadRule(c)'
      BY Zenon, <1>2, <2>0, <2>2 DEF ReadRule
    <3>2. SlotRule(c)'
      BY Zenon, <1>2, <1>4, <1>5, <2>0, <2>2 DEF SlotRule
    <3> QED
      BY Zenon, <1>2, <1>3, <1>5, <2>0, <2>2, <3>1, <3>2 DEF OwnSlot
  <2> QED
    BY Zenon, <2>1, <2>2
<1>8. ASSUME NEW q \in Procs, NEW f \in RFrames PROVE HeldRule(q, f)' /\ CountRule(q, f)'
  <2>0. HeldRule(q, f) /\ CountRule(q, f)
    BY Zenon DEF ReadInv, ReadRules
  <2>1. CASE q = p
    <3>1. Readers(q, f)' = {}
      BY Zenon, <1>1, <2>1 DEF Readers
    <3> QED
      BY Zenon, <1>4, <1>6, <2>1, <3>1, FS_EmptySet DEF HeldRule, CountRule
  <2>2. CASE q # p
    <3>1. Readers(q, f)' = Readers(q, f)
      BY Zenon, <1>2, <2>2 DEF Readers
    <3> QED
      BY Zenon, <1>3, <1>4, <2>0, <2>2, <3>1 DEF HeldRule, CountRule
  <2> QED
    BY Zenon, <2>1, <2>2
<1>9. ASSUME NEW q \in Procs, NEW f \in RFrames, NEW g \in RFrames PROVE RegPair(q, f, g)'
  <2>1. RegPair(q, f, g)
    BY Zenon DEF ReadInv, ReadRules
  <2>2. CASE q = p
    BY Zenon, <1>4, <1>6, <2>2 DEF RegPair
  <2>3. CASE q # p
    <3>1. Registered(q, f)' = Registered(q, f) /\ Registered(q, g)' = Registered(q, g)
      BY Zenon, <1>4, <2>3
    <3> QED
      BY Zenon, <2>1, <3>1 DEF RegPair
  <2> QED
    BY Zenon, <2>2, <2>3
<1>10. ASSUME NEW c \in RConn, NEW f \in RFrames PROVE OwnReg(c, f)'
  BY Zenon, <1>1, <1>2, <1>4, <1>5 DEF OwnReg, ReadInv, ReadRules
<1>11. ASSUME NEW c \in RConn, NEW d \in RConn PROVE OwnPair(c, d)'
  BY Zenon, <1>1, <1>2, <1>5 DEF OwnPair, ReadInv, ReadRules
<1> QED
  BY Zenon, <1>7, <1>8, <1>9, <1>10, <1>11 DEF ReadRules

(* Nothing is registered when the table is new. *)
LEMMA InitReadInv == ReadersInit => ReadInv
<1> SUFFICES ASSUME ReadersInit PROVE ReadInv
  OBVIOUS
<1>1. SlotInv
  BY Zenon, InitSlotInv
<1>2. ReadTypes
  BY DEF ReadersInit, ReadTypes, NotShared
<1>3. /\ \A c \in RConn : rat[c] = "idle" /\ reader[c] = NoReader
      /\ \A p \in Procs, f \in RFrames : Registered(p, f) = NotShared
  BY Zenon DEF ReadersInit, Registered
<1>4. NotShared.slot = NoReader /\ NotShared.ref_count = 0
  BY DEF NotShared
<1>5. \A p \in Procs, f \in RFrames : Readers(p, f) = {}
  BY Zenon, <1>3 DEF Readers
<1>6. ReadRules
  BY Zenon, <1>3, <1>4, <1>5, FS_EmptySet
     DEF ReadRules, ReadRule, SlotRule, OwnSlot, HeldRule, CountRule, RegPair, OwnReg, OwnPair,
         Holding, Wanting, Scanning, MayRead, InScan, InWipe, InRelease
<1> QED
  BY Zenon, <1>1, <1>2, <1>6 DEF ReadInv

(* The rules hold in every reachable state. *)
LEMMA ReadInvAlways == ReadersSpec => []ReadInv
<1>1. ReadInv /\ [ReadersNext]_readerVars => ReadInv'
  <2> SUFFICES ASSUME ReadInv, [ReadersNext]_readerVars PROVE ReadInv'
    OBVIOUS
  <2>1. SlotInv' /\ ReadTypes'
    BY Zenon, TypesKept, RulesKept, ReadTypesKept DEF SlotInv, ReadInv
  <2>2. ASSUME UNCHANGED readerVars PROVE ReadRules'
    <3>1. /\ rat' = rat /\ idx' = idx /\ want_frame' = want_frame /\ attempt' = attempt
          /\ reader' = reader /\ reader_locks' = reader_locks
          /\ shared_snapshot_readers' = shared_snapshot_readers
      BY Zenon, <2>2 DEF readerVars, connVars, procVars
    <3>2. \A p \in Procs, f \in RFrames :
            Registered(p, f)' = Registered(p, f) /\ Readers(p, f)' = Readers(p, f)
      BY Zenon, <3>1 DEF Registered, Readers
    <3>3. \A c \in RConn : ReadRule(c)' /\ SlotRule(c)' /\ OwnSlot(c)'
      BY Zenon, <3>1 DEF ReadInv, ReadRules, ReadRule, SlotRule, OwnSlot, Registered
    <3>4. \A p \in Procs, f \in RFrames : HeldRule(p, f)' /\ CountRule(p, f)'
      BY Zenon, <3>1, <3>2 DEF ReadInv, ReadRules, HeldRule, CountRule
    <3>5. ASSUME NEW p \in Procs, NEW f \in RFrames, NEW g \in RFrames PROVE RegPair(p, f, g)'
      <4>1. RegPair(p, f, g)
        BY Zenon DEF ReadInv, ReadRules
      <4> QED
        BY Zenon, <3>2, <4>1 DEF RegPair
    <3>6. \A c \in RConn, f \in RFrames : OwnReg(c, f)'
      BY Zenon, <3>1 DEF ReadInv, ReadRules, OwnReg, Registered
    <3>7. \A c, d \in RConn : OwnPair(c, d)'
      BY Zenon, <3>1 DEF ReadInv, ReadRules, OwnPair
    <3> QED
      BY Zenon, <3>3, <3>4, <3>5, <3>6, <3>7 DEF ReadRules
  <2>3. ASSUME ReadersNext PROVE ReadRules'
    BY Zenon, <2>3, RegisterReads, ReleaseReads, ReclaimReads, ReadRulesKept, DeathKept
       DEF ReadersNext
  <2> QED
    BY Zenon, <2>1, <2>2, <2>3 DEF ReadInv
<1> QED
  BY <1>1, InitReadInv, PTL DEF ReadersSpec

(* A connection that reads has its slot for as long as it reads: its process    *)
(* holds the lock on the byte, and the registration in shared_snapshot_readers  *)
(* counts every reader once, so that unregister_reader_for_snapshot gives a     *)
(* slot up only with the last of them, whoever registers, publishes, releases,  *)
(* reclaims or dies in between.                                                 *)
THEOREM ReadersKeep == ReadersSpec => []ReadersKeepTheirSlot
<1>1. ReadInv => ReadersKeepTheirSlot
  <2> SUFFICES ASSUME ReadInv PROVE ReadersKeepTheirSlot
    OBVIOUS
  <2>1. ASSUME NEW c \in RConn, reader[c] # NoReader
        PROVE  /\ Shared(c).slot = reader[c] /\ reader[c] \in reader_locks[Home(c)]
               /\ byte[reader[c]] = Home(c)
    <3>1. /\ Home(c) \in Procs /\ Registered(Home(c), want_frame[c]).slot = reader[c]
          /\ reader[c] \in reader_locks[Home(c)]
      BY Zenon, <2>1, HeldByReader
    <3>2. byte[reader[c]] = Home(c)
      BY Zenon, <3>1 DEF ReadInv, SlotInv, SlotRules, LocksHoldBytes
    <3> QED
      BY Zenon, <3>1, <3>2 DEF Shared, Registered
  <2>2. \A p \in Procs, f \in RFrames : CountRule(p, f)
    BY Zenon DEF ReadInv, ReadRules
  <2> QED
    BY Zenon, <2>1, <2>2 DEF ReadersKeepTheirSlot, CountRule, Registered, Readers
<1> QED
  BY <1>1, ReadInvAlways, PTL
=============================================================================
