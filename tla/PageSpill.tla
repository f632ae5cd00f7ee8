------------------------------ MODULE PageSpill ------------------------------
(***************************************************************************)
(* The page cache of one connection (core/storage/page_cache.rs) and the   *)
(* pager (core/storage/pager.rs) where it spills dirty pages to the WAL,   *)
(* commits and rolls back.                                                 *)
(*                                                                         *)
(* A connection has one write statement at a time and any number of read   *)
(* statements beside it.  They share the cache and the transaction, and    *)
(* interleave wherever one of them yields for I/O: a reader that finds the *)
(* cache full spills the pages of the writer, and waits for that write     *)
(* while the writer goes on.                                               *)
(*                                                                         *)
(* The contents of a page are the number of the write that made them.  A   *)
(* read is atomic (pending_reads gives every statement the same page), and *)
(* savepoints, checkpoints and databases without a WAL are left out.       *)
(***************************************************************************)
EXTENDS Naturals, FiniteSets, SequencesExt

CONSTANTS
  Pages,       \* page numbers; page 1 is DatabaseHeader::PAGE_ID
  Writer,      \* the write statement
  Readers,     \* the read statements
  NoPage,
  capacity,
  REF_MAX,     \* 3 in the code
  MaxHeld,     \* bound on the pages a statement holds
  MaxFrames,   \* bound on the WAL
  MaxWrites    \* bound on the changes to pages

ASSUME SpillAssumption ==
  /\ IsFiniteSet(Pages) /\ Pages \subseteq Nat \ {0} /\ NoPage \notin Pages
  /\ Writer \notin Readers
  /\ {capacity, REF_MAX, MaxHeld, MaxFrames, MaxWrites} \subseteq Nat \ {0}

VARIABLES
  (* PageCache *)
  ring,              \* the queue from the clock hand on: the hand is at its head
  ref_bit,
  evictable_count,
  page,              \* the flags, the tag and the contents of each cached page
  (* the pager *)
  dirty_pages,
  spill,             \* spill_state, with the write it waits for
  commit_info,
  (* the statements *)
  held,              \* the pages a statement has a reference to
  wants,             \* the page a suspended statement is reading
  (* the WAL *)
  wal_file,          \* frame number -> contents
  frame_cache,       \* page -> its frames
  high_water,
  local_max,         \* max_frame of the connection
  shared_max,        \* max_frame of the last commit
  strays,            \* writes in flight that a rollback forgot
  (* what the application did *)
  writes,            \* the number of changes so far
  newest,            \* the last contents the writer gave a page
  committed,         \* the contents after the last commit
  overtaken,         \* the pages changed while their spill was in flight
  strayed            \* a transaction was rolled back with a spill in flight

cacheVars  == <<ring, ref_bit, evictable_count, page>>
walVars    == <<wal_file, frame_cache, high_water, local_max, shared_max, strays>>
ghostVars  == <<writes, newest, committed, overtaken, strayed>>
spillVars  == <<cacheVars, dirty_pages, spill, commit_info, held, wants, walVars, ghostVars>>

Stmt == Readers \cup {Writer}

NoWrite  == [first |-> 1, frames |-> <<>>, waiters |-> {}]
Idle     == [state |-> "Idle", write |-> NoWrite]
NoCommit == [state |-> "none", cached |-> {}, read |-> <<>>, write |-> NoWrite]
Unloaded == [dirty |-> FALSE, spilled |-> FALSE, tag |-> "unset", data |-> 0]

spill_threshold == IF (capacity * 90) \div 100 = 0 THEN 1 ELSE (capacity * 90) \div 100

SpillInit ==
  /\ ring = <<>> /\ ref_bit = [p \in Pages |-> 0] /\ evictable_count = 0
  /\ page = [p \in Pages |-> Unloaded]
  /\ dirty_pages = {} /\ spill = Idle /\ commit_info = NoCommit
  /\ held = [s \in Stmt |-> {}] /\ wants = [s \in Stmt |-> NoPage]
  /\ wal_file = [f \in 1..MaxFrames |-> 0]
  /\ frame_cache = [p \in Pages |-> {}] /\ high_water = 0
  /\ local_max = 0 /\ shared_max = 0 /\ strays = {}
  /\ writes = 0
  /\ newest = [p \in Pages |-> 0] /\ committed = [p \in Pages |-> 0]
  /\ overtaken = {} /\ strayed = FALSE

SatSub(a, b) == IF a > b THEN a - b ELSE 0

-----------------------------------------------------------------------------
(* The WAL *)

Slots(w) == w.first..(w.first + Len(w.frames) - 1)
PagesOf(w) == {w.frames[i].page : i \in 1..Len(w.frames)}

(* find_frame and the read of what it found, up to frame max *)
ReadFrame(p, max) ==
  LET found == {f \in frame_cache[p] : f <= max}
  IN IF found = {} THEN 0 ELSE wal_file[CHOOSE f \in found : \A g \in found : g <= f]

Contents(p) == IF p \in ToSet(ring) THEN page[p].data ELSE ReadFrame(p, local_max)

(* The write of w reaches the file. *)
Landed(w) ==
  wal_file' = [f \in 1..MaxFrames |->
                IF f \in Slots(w) THEN w.frames[f - w.first + 1].data ELSE wal_file[f]]

(* cache_frame for every frame of w: slots that are used again lose their old pages. *)
CacheFrames(w) ==
  /\ frame_cache' = [p \in Pages |->
       {f \in frame_cache[p] : w.first <= high_water => f < w.first}
         \cup {f \in Slots(w) : w.frames[f - w.first + 1].page = p}]
  /\ high_water' = w.first + Len(w.frames) - 1

(* Frames for pages ps with contents data, behind the last frame of the connection *)
FramesFor(ps, data, waiting) ==
  LET order == SetToSortSeq(ps, <)
  IN [first |-> local_max + 1, waiters |-> waiting,
      frames |-> [i \in 1..Len(order) |-> [page |-> order[i], data |-> data[order[i]]]]]

InFlight ==
  strays \cup (IF spill.state = "WritingToWal" THEN {spill.write} ELSE {})
         \cup (IF commit_info.state = "writes" THEN {commit_info.write} ELSE {})

Waiting(s) == \E w \in InFlight : s \in w.waiters

-----------------------------------------------------------------------------
(* The cache *)

(* The pages a statement or the commit has a reference to, and those the spill has pinned *)
Referenced == UNION {held[s] : s \in Stmt}
                \cup (IF commit_info.state = "writes" THEN commit_info.cached ELSE {})
InUse == Referenced \cup PagesOf(spill.write)

CountedAsEvictable(pg) == {p \in Pages \ {1} : ~pg[p].dirty \/ pg[p].spilled}

Evictable == CountedAsEvictable(page) \ InUse

Spillable == {p \in ToSet(ring) \ ({1} \cup InUse) : page[p].dirty /\ ~page[p].spilled}

(* Mutant: the sweep ends before a page with all its bits set comes to zero. *)
OneRoundShort(q) == Len(q) * REF_MAX

MaxExaminations(q) == Len(q) * (REF_MAX + 1)

(* The loop of evict_one over queue q: free are the evictable pages. *)
RECURSIVE Sweep(_, _, _, _)
Sweep(q, bits, free, left) ==
  LET p == Head(q)
  IN IF left = 0 THEN [full |-> TRUE, ring |-> q, bits |-> bits]
     ELSE IF p \in free /\ bits[p] = 0 THEN [full |-> FALSE, ring |-> Tail(q), bits |-> bits]
     ELSE Sweep(Append(Tail(q), p),
                IF p \in free THEN [bits EXCEPT ![p] = @ - 1] ELSE bits, free, left - 1)

EvictOne(q, bits, free) == Sweep(q, bits, free, MaxExaminations(q))

(* make_room_for(1): what was evicted before the cache turned out full stays out. *)
RECURSIVE MakeRoom(_, _, _)
MakeRoom(q, bits, free) ==
  IF Len(q) < capacity THEN [full |-> FALSE, ring |-> q, bits |-> bits]
  ELSE LET e == EvictOne(q, bits, free)
       IN IF e.full THEN e ELSE MakeRoom(e.ring, e.bits, free)

(* evictable_count after the evictions that made room *)
Counted(count, before, room) == SatSub(count, Len(before) - Len(room.ring))

(* _insert of a page that was just read, behind the clock hand *)
Insert(p, room, count, pg) ==
  /\ ring' = IF room.ring = <<>> THEN <<p>> ELSE <<Head(room.ring), p>> \o Tail(room.ring)
  /\ ref_bit' = [room.bits EXCEPT ![p] = 0]
  /\ page' = [pg EXCEPT ![p] = [Unloaded EXCEPT !.data = ReadFrame(p, local_max)]]
  /\ evictable_count' = count + (IF p = 1 THEN 0 ELSE 1)

NeedsSpill(room) ==
  LET len == Len(room.ring)
      needed == SatSub(len, spill_threshold)
  IN /\ len >= spill_threshold
     /\ Counted(evictable_count, ring, room) + SatSub(capacity, len) < needed
     /\ Cardinality(Evictable \cap ToSet(room.ring)) < needed

-----------------------------------------------------------------------------
(* Reading a page: read_page and cache_insert *)

Reads(s, p) ==
  /\ ~Waiting(s) /\ wants[s] \in {NoPage, p}
  /\ p \notin held[s] /\ Cardinality(held[s]) < MaxHeld
  /\ commit_info.state # "panic" /\ (s = Writer => commit_info.state = "none")

Got(s, p) ==
  /\ held' = [held EXCEPT ![s] = @ \cup {p}]
  /\ wants' = [wants EXCEPT ![s] = NoPage]

BumpRef(bit) == IF bit < REF_MAX THEN bit + 1 ELSE REF_MAX

Hit(s, p) ==
  /\ Reads(s, p) /\ p \in ToSet(ring)
  /\ ref_bit' = [ref_bit EXCEPT ![p] = BumpRef(@)]
  /\ Got(s, p)
  /\ UNCHANGED <<ring, evictable_count, page, dirty_pages, spill, commit_info, walVars, ghostVars>>

Misses(s, p) == Reads(s, p) /\ p \notin ToSet(ring)

Room == MakeRoom(ring, ref_bit, Evictable)

MissWithRoom(s, p) ==
  /\ Misses(s, p) /\ ~Room.full
  /\ Insert(p, Room, Counted(evictable_count, ring, Room), page)
  /\ Got(s, p)
  /\ UNCHANGED <<dirty_pages, spill, commit_info, walVars, ghostVars>>

(* The cache is full and nothing is to be spilled: the page goes in over capacity. *)
MissOverCapacity(s, p) ==
  /\ Misses(s, p) /\ Room.full
  /\ spill.state = "Idle" /\ (~NeedsSpill(Room) \/ Spillable = {})
  /\ Insert(p, Room, Counted(evictable_count, ring, Room), page)
  /\ Got(s, p)
  /\ UNCHANGED <<dirty_pages, spill, commit_info, walVars, ghostVars>>

(* check_spill: PagesToSpill, and spill_append_frames_to_wal *)
MissStartsSpill(s, p) ==
  /\ Misses(s, p) /\ Room.full
  /\ spill.state = "Idle" /\ NeedsSpill(Room) /\ Spillable # {}
  /\ local_max + Cardinality(Spillable) <= MaxFrames
  /\ spill' = [state |-> "WritingToWal",
               write |-> FramesFor(Spillable, [q \in Pages |-> page[q].data], {s})]
  /\ local_max' = local_max + Cardinality(Spillable)
  /\ page' = [q \in Pages |-> IF q \in Spillable THEN [page[q] EXCEPT !.tag = "pending"] ELSE page[q]]
  /\ ring' = Room.ring /\ ref_bit' = Room.bits
  /\ evictable_count' = Counted(evictable_count, ring, Room)
  /\ wants' = [wants EXCEPT ![s] = p]
  /\ UNCHANGED <<dirty_pages, commit_info, held, wal_file, frame_cache, high_water,
                 shared_max, strays, ghostVars>>

(* Another statement's spill is in flight: this one waits for it as well. *)
MissWaits(s, p) ==
  /\ Misses(s, p) /\ Room.full
  /\ spill.state = "WritingToWal"
  /\ spill' = [spill EXCEPT !.write.waiters = @ \cup {s}]
  /\ ring' = Room.ring /\ ref_bit' = Room.bits
  /\ evictable_count' = Counted(evictable_count, ring, Room)
  /\ wants' = [wants EXCEPT ![s] = p]
  /\ UNCHANGED <<page, dirty_pages, commit_info, held, walVars, ghostVars>>

(* The pages of the finished spill that still have a tag are marked. *)
Marked == {p \in PagesOf(spill.write) : page[p].tag = "set"}
MarkedPage == [p \in Pages |-> IF p \in Marked THEN [page[p] EXCEPT !.spilled = TRUE] ELSE page[p]]

(* The spill has ended: its pages are marked and let go, and the page goes in. *)
MissEndsSpill(s, p) ==
  /\ Misses(s, p) /\ Room.full
  /\ spill.state = "Written"
  /\ LET room == MakeRoom(Room.ring, Room.bits, CountedAsEvictable(MarkedPage) \ Referenced)
         marked == Counted(evictable_count, ring, Room) + Cardinality(Marked)
     IN Insert(p, room, Counted(marked, Room.ring, room), MarkedPage)
  /\ spill' = Idle
  /\ Got(s, p)
  /\ UNCHANGED <<dirty_pages, commit_info, walVars, ghostVars>>

Access(s, p) ==
  \/ Hit(s, p)
  \/ MissWithRoom(s, p)
  \/ MissOverCapacity(s, p)
  \/ MissStartsSpill(s, p)
  \/ MissWaits(s, p)
  \/ MissEndsSpill(s, p)

Release(s, p) ==
  /\ p \in held[s] /\ ~Waiting(s) /\ wants[s] = NoPage /\ commit_info.state # "panic"
  /\ held' = [held EXCEPT ![s] = @ \ {p}]
  /\ UNCHANGED <<cacheVars, dirty_pages, spill, commit_info, wants, walVars, ghostVars>>

-----------------------------------------------------------------------------
(* Changing a page *)

(* Mutant: a spilled page that is changed is not counted out. *)
NotifiesIfClean(p) == ~page[p].dirty

(* The condition of add_dirty for notify_page_dirty *)
Notifies(p) == ~page[p].dirty \/ page[p].spilled

(* Mutant: a page that was spilled stays marked. *)
SetDirtyOnly(p, data) == [page[p] EXCEPT !.dirty = TRUE, !.tag = "unset", !.data = data]

(* set_dirty, and the new contents *)
SetDirty(p, data) == [dirty |-> TRUE, spilled |-> FALSE, tag |-> "unset", data |-> data]

(* add_dirty, and the change that follows it *)
Modify(p) ==
  /\ p \in held[Writer] /\ ~Waiting(Writer) /\ wants[Writer] = NoPage
  /\ commit_info.state = "none" /\ writes < MaxWrites
  /\ dirty_pages' = dirty_pages \cup {p}
  /\ evictable_count' = IF Notifies(p) /\ p # 1 THEN SatSub(evictable_count, 1) ELSE evictable_count
  /\ page' = [page EXCEPT ![p] = SetDirty(p, writes + 1)]
  /\ writes' = writes + 1
  /\ newest' = [newest EXCEPT ![p] = writes + 1]
  /\ overtaken' = IF spill.state = "WritingToWal" /\ p \in PagesOf(spill.write)
                  THEN overtaken \cup {p} ELSE overtaken \ {p}
  /\ UNCHANGED <<ring, ref_bit, spill, commit_info, held, wants, walVars, committed, strayed>>

-----------------------------------------------------------------------------
(* The spill write *)

(* on_complete of append_frames_vectored: the frames become readable, and    *)
(* every page gets its tag, changed or not.                                  *)
SpillWritten ==
  /\ spill.state = "WritingToWal"
  /\ spill' = [state |-> "Written", write |-> [spill.write EXCEPT !.waiters = {}]]
  /\ Landed(spill.write) /\ CacheFrames(spill.write)
  /\ page' = [p \in Pages |-> IF p \in PagesOf(spill.write)
                              THEN [page[p] EXCEPT !.tag = "set"] ELSE page[p]]
  /\ UNCHANGED <<ring, ref_bit, evictable_count, dirty_pages, commit_info, held, wants,
                 local_max, shared_max, strays, ghostVars>>

(* The same for a write whose transaction is gone: its pages are, too. *)
StrayWritten(w) ==
  /\ strays' = strays \ {w}
  /\ Landed(w) /\ CacheFrames(w)
  /\ UNCHANGED <<cacheVars, dirty_pages, spill, commit_info, held, wants, local_max,
                 shared_max, ghostVars>>

-----------------------------------------------------------------------------
(* Commit *)

(* wait_for_spill_completions: what is in flight is waited for, what is written is marked. *)
SpillEnded ==
  /\ spill.state # "WritingToWal"
  /\ spill' = Idle
  /\ evictable_count' = evictable_count + Cardinality(Marked)

(* PrepareFrames *)
Prepare(cached, read) ==
  LET w == FramesFor(dirty_pages,
                     [p \in dirty_pages |-> IF p \in cached THEN page[p].data ELSE read[p]], {})
  IN /\ local_max + Len(w.frames) <= MaxFrames
     /\ commit_info' = [state |-> "writes", cached |-> cached, read |-> <<>>, write |-> w]
     /\ page' = [p \in Pages |-> IF p \in cached THEN [MarkedPage[p] EXCEPT !.tag = "pending"]
                                 ELSE MarkedPage[p]]

(* ScanAndIssueReads; without pages to read, PrepareFrames follows at once. *)
CommitScan ==
  /\ commit_info.state = "none" /\ dirty_pages # {}
  /\ held[Writer] = {} /\ wants[Writer] = NoPage
  /\ SpillEnded
  /\ LET cached == dirty_pages \cap ToSet(ring)
         evicted == dirty_pages \ cached
     IN IF evicted = {} THEN Prepare(cached, <<>>)
        ELSE /\ commit_info' = [state |-> "reads", cached |-> cached, write |-> NoWrite,
                                read |-> [p \in evicted |-> ReadFrame(p, local_max)]]
             /\ page' = MarkedPage
  /\ UNCHANGED <<ring, ref_bit, dirty_pages, held, wants, walVars, ghostVars>>

(* WaitBatchedReads is over.  A page that was cached at the scan has to be cached still. *)
CommitPrepare ==
  /\ commit_info.state = "reads"
  /\ SpillEnded
  /\ IF commit_info.cached \subseteq ToSet(ring)
     THEN Prepare(commit_info.cached, commit_info.read)
     ELSE commit_info' = [NoCommit EXCEPT !.state = "panic"] /\ page' = MarkedPage
  /\ UNCHANGED <<ring, ref_bit, dirty_pages, held, wants, walVars, ghostVars>>

(* WaitWrites, WaitSync and WalCommitDone *)
CommitDone ==
  /\ commit_info.state = "writes"
  /\ LET w == commit_info.write
     IN /\ Landed(w) /\ CacheFrames(w)
        /\ local_max' = w.first + Len(w.frames) - 1
        /\ shared_max' = local_max'
        /\ committed' = [p \in Pages |->
             LET i == {j \in 1..Len(w.frames) : w.frames[j].page = p}
             IN IF i = {} THEN committed[p] ELSE w.frames[CHOOSE j \in i : TRUE].data]
  /\ page' = [p \in Pages |-> IF p \in commit_info.cached
                              THEN [page[p] EXCEPT !.dirty = FALSE, !.tag = "set"] ELSE page[p]]
  /\ dirty_pages' = {} /\ commit_info' = NoCommit
  /\ UNCHANGED <<ring, ref_bit, evictable_count, spill, held, wants, strays,
                 writes, newest, overtaken, strayed>>

-----------------------------------------------------------------------------
(* Rollback *)

(* wal.rollback(None) goes back to the last commit. *)
RestoredFrame == shared_max

(* rollback: the cache, the state machines and the log; what is still being *)
(* written is left to itself.                                               *)
RolledBackWith(inFlight) ==
  /\ dirty_pages # {} /\ commit_info.state # "panic"
  /\ ring' = <<>> /\ ref_bit' = [p \in Pages |-> 0] /\ evictable_count' = 0
  /\ page' = [p \in Pages |-> Unloaded]
  /\ dirty_pages' = {} /\ spill' = Idle /\ commit_info' = NoCommit
  /\ held' = [s \in Stmt |-> {}] /\ wants' = [wants EXCEPT ![Writer] = NoPage]
  /\ strays' = strays \cup inFlight
  /\ local_max' = RestoredFrame
  /\ frame_cache' = [p \in Pages |-> {f \in frame_cache[p] : f <= RestoredFrame}]
  /\ high_water' = IF high_water > RestoredFrame THEN RestoredFrame ELSE high_water
  /\ newest' = committed /\ overtaken' = {}
  /\ strayed' = (strayed \/ inFlight # {})
  /\ UNCHANGED <<wal_file, shared_max, writes, committed>>

(* The writer is at the end of a statement, or has waited for its own I/O. *)
Rollback ==
  /\ ~Waiting(Writer)
  /\ RolledBackWith(IF spill.state = "WritingToWal" THEN {spill.write} ELSE {})

(* The spill write fails, and abort of the statement that waits for it rolls  *)
(* the transaction back, as for every statement without a savepoint of its own. *)
SpillFails == spill.state = "WritingToWal" /\ RolledBackWith({})

Panicked == commit_info.state = "panic" /\ UNCHANGED spillVars

SpillNext ==
  \/ \E s \in Stmt, p \in Pages : Access(s, p) \/ Release(s, p)
  \/ \E p \in Pages : Modify(p)
  \/ SpillWritten
  \/ \E w \in strays : StrayWritten(w)
  \/ CommitScan
  \/ CommitPrepare
  \/ CommitDone
  \/ Rollback
  \/ SpillFails
  \/ Panicked

SpillSpec == SpillInit /\ [][SpillNext]_spillVars

-----------------------------------------------------------------------------
(* Properties *)

(* Whatever was spilled, evicted, read again, committed or rolled back in     *)
(* between, a page reads as the transaction last wrote it (cache_insert,      *)
(* evict_one, read_page), unless it was changed while its spill was in flight *)
(* or a rollback left a write behind.                                         *)
NewestIsKept == strayed \/ \A p \in Pages \ overtaken : Contents(p) = newest[p]

(* evict_one gives up only if no page is evictable: its bound of examinations *)
(* is enough to bring every reference counter to zero.                        *)
FullMeansNoneEvictable ==
  ring # <<>> => (EvictOne(ring, ref_bit, Evictable).full <=> Evictable \cap ToSet(ring) = {})

(* needs_spill trusts evictable_count, so it may never be larger than the     *)
(* number of cached pages that are clean or spilled.                          *)
CountIsLowerBound == evictable_count <= Cardinality(CountedAsEvictable(page) \cap ToSet(ring))

(* "Mark spilled pages so they can be evicted while dirty.  Only do so if     *)
(* page wasn't modified since write started": the frame of a page that is     *)
(* marked as spilled holds its contents.                                      *)
SpilledIsCurrent ==
  strayed \/ \A p \in ToSet(ring) :
    page[p].dirty /\ page[p].spilled => ReadFrame(p, local_max) = page[p].data

=============================================================================
