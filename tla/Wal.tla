-------------------------------- MODULE Wal --------------------------------
(***************************************************************************)
(* The write-ahead log of one process (core/storage/wal.rs, with the       *)
(* commit and checkpoint of core/storage/pager.rs and the recovery of      *)
(* core/storage/sqlite3_ondisk.rs).  Connections take snapshots protected  *)
(* by read marks, one of them at a time appends frames and commits, a      *)
(* checkpoint copies frames to the database file and may restart or        *)
(* truncate the log, and the machine may lose whatever was not synced.     *)
(*                                                                         *)
(* A page holds the number of the transaction that wrote it last.          *)
(***************************************************************************)
EXTENDS Integers, FiniteSets, Sequences, SequencesExt

CONSTANTS Conn,      \* connections
          None,      \* not a connection
          Pages,     \* bound: pages of the database
          Marks,     \* read marks 1..Marks (4 in the code)
          MaxFrame,  \* bound: frames the log file has room for
          MaxWrites, \* bound: write transactions
          MaxCkpts,  \* bound: checkpoints
          MaxCrashes,\* bound: crashes
          Modes,     \* checkpoint modes that clients ask for
          Checkpointers, \* bound: connections that run checkpoints
          Updates,   \* bound: which connections write which sets of pages
          Hot,       \* bound: which connections keep which pages in their caches
          TailFaults \* may the tail of a RESTART or TRUNCATE checkpoint fail?

ASSUME NoneNotConn == None \notin Conn
ASSUME BoundsAreNat ==
  /\ Pages \in Nat /\ Marks \in Nat \ {0} /\ MaxFrame \in Nat
  /\ MaxWrites \in Nat /\ MaxCkpts \in Nat /\ MaxCrashes \in Nat
ASSUME ModesAreModes == Modes \subseteq {"Passive", "Full", "Restart", "Truncate"}
ASSUME CheckpointersAreConns == Checkpointers \subseteq Conn
ASSUME UpdatesArePages == Updates \subseteq Conn \X (SUBSET (1..Pages) \ {{}})
ASSUME HotArePages == Hot \subseteq Conn \X (1..Pages)
ASSUME TailFaultsIsBool == TailFaults \in BOOLEAN

VARIABLES
  \* WalFileShared
  hdr,         \* [max, nb, seq, cnt, ck]: max_frame, nbackfills, generation,
               \* transaction_count, last_checksum
  initialized, \* the header of this generation is on disk
  index,       \* frame_cache: the page of every frame that is indexed
  epoch,       \* checkpoint epoch
  mark,        \* the values of read_locks[1..]
  write_lock, ckpt_lock,   \* holders; read_locks[0] goes with ckpt_lock
  \* WalFile and Pager of a connection
  pc,
  snap,        \* its snapshot, fields as in hdr
  load,        \* the snapshot it is about to take
  want,        \* the read mark it is about to lock
  slot,        \* max_frame_read_lock_index
  dirty,       \* dirty_pages
  tag,         \* the epoch of its prepared frames
  cache,       \* page_cache
  mode,        \* of the checkpoint it runs
  ck,          \* OngoingCheckpoint of the holder of ckpt_lock
  \* the files: what the process reads, and what a crash may leave instead
  wal,         \* location 0 is the header, location i frame i
  uncut,       \* what wal was before each truncation that is not synced
  db,
  \* history
  committed,   \* the states of the database after each published commit
  acked,       \* how many of them a client knows to be durable
  tried,       \* states whose commit frame was written, not published
  txn, ckpts, crashes

sharedVars == <<hdr, initialized, index, epoch>>
lockVars   == <<mark, write_lock, ckpt_lock>>
readVars   == <<snap, load, want, slot>>
pageVars   == <<dirty, tag, cache>>
ckVars     == <<mode, ck, ckpts>>
fileVars   == <<wal, uncut, db>>
histVars   == <<committed, acked, tried, txn>>
walVars    == <<sharedVars, lockVars, pc, readVars, pageVars, ckVars, fileVars,
                histVars, crashes>>

Page  == 1..Pages
Slot  == 1..Marks
NoSlot  == -1
NotUsed == MaxFrame + 1                  \* READMARK_NOT_USED
NoMark  == [i |-> NoSlot, val |-> 0]
NoPage  == [val |-> -1, frame |-> 0, epoch |-> 0]
NoPages == [p \in Page |-> NoPage]
NoFrame == [gen |-> -1, page |-> 0, val |-> 0, commit |-> FALSE, prev |-> 0]
NoWork  == [i |-> 0, max |-> 0, min |-> 0, todo |-> {}]

Fresh(v) == [cur |-> v, old |-> {}]
Put(f, i, v) == [f EXCEPT ![i] = [cur |-> v, old |-> @.old \cup {@.cur}]]
PutAll(f, g) == [i \in DOMAIN f |-> IF i \in DOMAIN g THEN Put(f, i, g[i])[i] ELSE f[i]]
Synced(f) == [i \in DOMAIN f |-> Fresh(f[i].cur)]
(* The length of a file changes at once, or not at all *)
Truncate(header) ==
  /\ wal' = [i \in 0..MaxFrame |-> IF i = 0 THEN Put(wal, 0, header)[0] ELSE Fresh(NoFrame)]
  /\ uncut' = uncut \cup {wal}

SyncWalFile == wal' = Synced(wal) /\ uncut' = {}
OnDisk(f, i) == f[i].old \cup {f[i].cur}

InitialMarks == [i \in Slot |-> IF i = 1 THEN 0 ELSE NotUsed]
InitialHdr   == [max |-> 0, nb |-> 0, seq |-> 0, cnt |-> 0, ck |-> 0]

WalInit ==
  /\ hdr = InitialHdr /\ initialized = FALSE /\ index = <<>> /\ epoch = 0
  /\ mark = InitialMarks /\ write_lock = None /\ ckpt_lock = None
  /\ pc = [c \in Conn |-> "idle"]
  /\ snap = [c \in Conn |-> InitialHdr] /\ load = [c \in Conn |-> InitialHdr]
  /\ want = [c \in Conn |-> NoMark] /\ slot = [c \in Conn |-> NoSlot]
  /\ dirty = [c \in Conn |-> {}] /\ tag = [c \in Conn |-> 0]
  /\ cache = [c \in Conn |-> NoPages]
  /\ mode = [c \in Conn |-> "Passive"] /\ ck = NoWork
  /\ wal = [i \in 0..MaxFrame |-> Fresh(NoFrame)] /\ uncut = {}
  /\ db = [p \in Page |-> Fresh(0)]
  /\ committed = <<[p \in Page |-> 0]>> /\ acked = 1 /\ tried = {}
  /\ txn = 0 /\ ckpts = 0 /\ crashes = 0

Goto(c, from, to) == pc[c] = from /\ pc' = [pc EXCEPT ![c] = to]
Readers(i) == {c \in Conn : slot[c] = i}
Writing(c) == pc[c] \in {"write", "header", "sync", "synced"}

(* try_begin_read_tx holds the shared state for reading while it selects a   *)
(* slot; publish_commit, publish_backfill and a restart write to it.         *)
SharedFree == \A c \in Conn : pc[c] # "lock"

-----------------------------------------------------------------------------
(* Read transactions *)

LoadSnapshot(c) ==
  /\ Goto(c, "idle", "slot")
  /\ load' = [load EXCEPT ![c] = hdr]
  /\ UNCHANGED <<sharedVars, lockVars, snap, want, slot, pageVars, ckVars, fileVars,
                 histVars, crashes>>

(* Mutant: a connection keeps its page cache whatever has happened since. *)
KeptPages(c) == cache[c]

(* db_changed_against, clear_page_cache *)
CachedPages(c) == IF snap[c] = load[c] THEN cache[c] ELSE NoPages

(* The guard is taken: install_connection_state *)
BeginRead(c, i) ==
  /\ slot' = [slot EXCEPT ![c] = i]
  /\ snap' = [snap EXCEPT ![c] = load[c]]
  /\ cache' = [cache EXCEPT ![c] = CachedPages(c)]
  /\ want' = [want EXCEPT ![c] = NoMark] /\ load' = [load EXCEPT ![c] = InitialHdr]
  /\ UNCHANGED <<dirty, tag>>

Retry(c) ==
  /\ want' = [want EXCEPT ![c] = NoMark] /\ load' = [load EXCEPT ![c] = InitialHdr]
  /\ UNCHANGED <<snap, slot, pageVars>>

Current(c) == hdr = load[c]

ReadFromDbFile(c) == load[c].max = load[c].nb /\ ckpt_lock = None

(* Everything is backfilled and no checkpoint runs: read mark 0 *)
TakeMarkZero(c) ==
  /\ pc[c] = "slot" /\ ReadFromDbFile(c)
  /\ IF Current(c)
     THEN Goto(c, "slot", "read") /\ BeginRead(c, 0)
     ELSE Goto(c, "slot", "idle") /\ Retry(c)
  /\ UNCHANGED <<sharedVars, lockVars, ckVars, fileVars, histVars, crashes>>

Best(c) ==
  LET usable == {i \in Slot : mark[i] <= load[c].max}
  IN IF usable = {} THEN NoMark
     ELSE LET i == CHOOSE j \in usable : \A k \in usable :
                     mark[k] < mark[j] \/ (mark[k] = mark[j] /\ j <= k)
          IN [i |-> i, val |-> mark[i]]

(* ... or the largest mark that is not beyond the snapshot, after raising a  *)
(* free one to the snapshot if none is there yet                             *)
ClaimMark(c) ==
  /\ Goto(c, "slot", "lock") /\ ~ReadFromDbFile(c)
  /\ LET free == {i \in Slot : Readers(i) = {}}
         low  == Best(c).i = NoSlot \/ Best(c).val < load[c].max
         i    == CHOOSE j \in free : \A k \in free : j <= k
     IN IF low /\ free # {}
        THEN /\ mark' = [mark EXCEPT ![i] = load[c].max]
             /\ want' = [want EXCEPT ![c] = [i |-> i, val |-> load[c].max]]
        ELSE want' = [want EXCEPT ![c] = Best(c)] /\ UNCHANGED mark
  /\ UNCHANGED <<sharedVars, write_lock, ckpt_lock, snap, load, slot, pageVars, ckVars,
                 fileVars, histVars, crashes>>

LockMark(c) ==
  /\ IF want[c].i # NoSlot /\ mark[want[c].i] = want[c].val /\ Current(c)
     THEN Goto(c, "lock", "read") /\ BeginRead(c, want[c].i)
     ELSE Goto(c, "lock", "idle") /\ Retry(c)
  /\ UNCHANGED <<sharedVars, lockVars, ckVars, fileVars, histVars, crashes>>

(* find_frame: the latest frame of p in [min_frame, max_frame], 0 if none *)
find_frame(p, lo, hi) ==
  LET at == {i \in lo..hi : i <= Len(index) /\ index[i] = p}
  IN IF at = {} THEN 0 ELSE CHOOSE i \in at : \A j \in at : j <= i

FrameOf(c, p) ==
  IF snap[c].max <= snap[c].nb THEN 0 ELSE find_frame(p, snap[c].nb + 1, snap[c].max)

(* What is in frame i for a reader of page p; a page that is not p is garbage *)
Content(i, p) == IF wal[i].cur.page = p THEN wal[i].cur.val ELSE -1

(* read_page: from the cache, the log or the database file *)
ReadPage(c, p) ==
  IF cache[c][p] # NoPage THEN cache[c][p]
  ELSE LET f == FrameOf(c, p)
       IN IF f = 0 THEN [val |-> db[p].cur, frame |-> 0, epoch |-> 0]
          ELSE [val |-> Content(f, p), frame |-> f, epoch |-> epoch]

Read(c, p) ==
  /\ pc[c] \in {"read", "write"} /\ cache[c][p] = NoPage /\ <<c, p>> \in Hot
  /\ cache' = [cache EXCEPT ![c][p] = ReadPage(c, p)]
  /\ UNCHANGED <<sharedVars, lockVars, pc, readVars, dirty, tag, ckVars, fileVars,
                 histVars, crashes>>

(* end_write_tx and end_read_tx *)
EndTx(c) ==
  /\ pc[c] \in {"read", "done"} /\ pc' = [pc EXCEPT ![c] = "idle"]
  /\ slot' = [slot EXCEPT ![c] = NoSlot]
  /\ write_lock' = IF write_lock = c THEN None ELSE write_lock
  /\ UNCHANGED <<sharedVars, mark, ckpt_lock, snap, load, want, pageVars, ckVars,
                 fileVars, histVars, crashes>>

-----------------------------------------------------------------------------
(* Write transactions *)

(* Mutant: the restart keeps the frame index. *)
KeepIndex == index

Restarted == [hdr EXCEPT !.max = 0, !.nb = 0, !.seq = @ + 1, !.ck = 0]
EmptyIndex == <<>>

(* Mutant: the log is restarted under its readers. *)
MarksIgnored == TRUE

MarksFree == \A i \in Slot : Readers(i) = {}

(* begin_restart, restart_wal_header *)
RestartLog ==
  /\ SharedFree /\ MarksFree
  /\ hdr' = Restarted /\ index' = EmptyIndex
  /\ initialized' = FALSE /\ mark' = InitialMarks /\ epoch' = epoch + 1

(* begin_restart meets a reader: the marks before it have been given up *)
RestartBusy ==
  LET held == {i \in Slot : Readers(i) # {}}
  IN /\ held # {}
     /\ mark' = [i \in Slot |-> IF \A j \in held : i < j THEN NotUsed ELSE mark[i]]
     /\ UNCHANGED sharedVars

(* try_restart_log_before_write *)
MayRestart(c) == slot[c] = 0 /\ hdr.nb > 0 /\ hdr.max = hdr.nb /\ Readers(0) = {c}

UpToDate(c) == snap[c] = hdr

(* begin_write_tx, and the statements of the transaction, which dirty the    *)
(* pages S.  A stale snapshot gives BusySnapshot and changes nothing.        *)
BeginWrite(c, S) ==
  /\ Goto(c, "read", "write")
  /\ write_lock = None /\ UpToDate(c) /\ txn < MaxWrites
  /\ write_lock' = c /\ txn' = txn + 1
  /\ \/ MayRestart(c) /\ RestartLog /\ snap' = [snap EXCEPT ![c] = hdr']
     \/ MayRestart(c) /\ RestartBusy /\ UNCHANGED snap
     \/ UNCHANGED <<sharedVars, mark, snap>>
  /\ dirty' = [dirty EXCEPT ![c] = S]
  /\ cache' = [cache EXCEPT ![c] = [p \in Page |->
                 IF p \in S THEN [NoPage EXCEPT !.val = txn'] ELSE @[p]]]
  /\ UNCHANGED <<ckpt_lock, load, want, slot, tag, ckVars, fileVars, committed, acked,
                 tried, crashes>>

(* prepare_wal_start: the header is written, older frames are cut off *)
PrepareWal(c) ==
  /\ Goto(c, "write", "header")
  /\ ~initialized
  /\ Truncate([NoFrame EXCEPT !.gen = hdr.seq])
  /\ snap' = [snap EXCEPT ![c].max = 0]
  /\ UNCHANGED <<sharedVars, lockVars, load, want, slot, pageVars, ckVars, db, histVars,
                 crashes>>

(* prepare_wal_finish *)
PrepareWalSync(c) ==
  /\ Goto(c, "header", "write")
  /\ SyncWalFile /\ initialized' = TRUE
  /\ UNCHANGED <<hdr, index, epoch, lockVars, readVars, pageVars, ckVars, db, histVars,
                 crashes>>

(* A frame with what the connection has in page p *)
Frame(c, p, commit, prev) ==
  [gen |-> hdr.seq, page |-> p, val |-> ReadPage(c, p).val, commit |-> commit,
   prev |-> prev]

(* append_frames_vectored, for one page; it stays dirty, and may be evicted *)
Spill(c, p) ==
  LET f == snap[c].max + 1
  IN /\ pc[c] = "write" /\ initialized
     /\ p \in dirty[c] /\ cache[c][p] # NoPage /\ cache[c][p].frame = 0
     /\ f <= MaxFrame
     /\ wal' = Put(wal, f, Frame(c, p, FALSE, IF f = 1 THEN 0 ELSE snap[c].ck))
     /\ index' = Append(SubSeq(index, 1, f - 1), p)
     /\ snap' = [snap EXCEPT ![c].max = f, ![c].ck = txn]
     /\ \/ cache' = [cache EXCEPT ![c][p].frame = f, ![c][p].epoch = epoch]
        \/ cache' = [cache EXCEPT ![c][p] = NoPage]
     /\ UNCHANGED <<hdr, initialized, epoch, lockVars, pc, load, want, slot, dirty, tag,
                    ckVars, uncut, db, histVars, crashes>>

(* The dirty pages in the order of their frames *)
FrameList(c) == SetToSortSeq(dirty[c], <)

NewState(c) == [p \in Page |->
  IF p \in dirty[c] THEN txn ELSE committed[Len(committed)][p]]

(* ScanAndIssueReads to WaitWrites: pages that were spilled are written again, *)
(* and the last frame has the commit mark                                      *)
WriteFrames(c) ==
  LET n    == Cardinality(dirty[c])
      base == snap[c].max
      at(i) == Frame(c, FrameList(c)[i - base], i = base + n,
                     IF i = 1 THEN 0 ELSE IF i = base + 1 THEN snap[c].ck ELSE txn)
  IN /\ Goto(c, "write", "sync")
     /\ initialized /\ base + n <= MaxFrame
     /\ wal' = PutAll(wal, [i \in base + 1 .. base + n |-> at(i)])
     /\ snap' = [snap EXCEPT ![c].nb = IF base = hdr.max THEN hdr.nb ELSE @]
     /\ tag' = [tag EXCEPT ![c] = epoch]
     /\ tried' = tried \cup {[db |-> NewState(c), n |-> Len(committed)]}
     /\ UNCHANGED <<sharedVars, lockVars, load, want, slot, dirty, cache, ckVars, uncut,
                    db, committed, acked, txn, crashes>>

(* CommitState::WaitSync under synchronous=FULL *)
SyncFrames(c) ==
  /\ Goto(c, "sync", "synced")
  /\ SyncWalFile
  /\ UNCHANGED <<sharedVars, lockVars, readVars, pageVars, ckVars, db, histVars, crashes>>

(* CommitState::WalCommitDone: commit_prepared_frames, finalize_committed_pages *)
(* and finish_append_frames_commit; without the sync under synchronous=NORMAL   *)
Publish(c) ==
  LET n == Cardinality(dirty[c])
      base == snap[c].max
      pos(p) == base + CHOOSE k \in 1..n : FrameList(c)[k] = p
      new == [snap[c] EXCEPT !.max = base + n, !.cnt = @ + 1, !.ck = txn]
  IN /\ pc[c] \in {"sync", "synced"} /\ SharedFree
     /\ pc' = [pc EXCEPT ![c] = "done"]
     /\ index' = SubSeq(index, 1, base) \o FrameList(c)
     /\ hdr' = [hdr EXCEPT !.max = new.max, !.cnt = new.cnt, !.ck = new.ck]
     /\ snap' = [snap EXCEPT ![c] = new]
     /\ cache' = [cache EXCEPT ![c] = [p \in Page |->
          IF <<c, p>> \notin Hot THEN NoPage
          ELSE IF p \in dirty[c] /\ @[p] # NoPage
          THEN [@[p] EXCEPT !.frame = pos(p), !.epoch = tag[c]] ELSE @[p]]]
     /\ dirty' = [dirty EXCEPT ![c] = {}] /\ tag' = [tag EXCEPT ![c] = 0]
     /\ committed' = Append(committed, NewState(c))
     /\ tried' = tried \ {[db |-> NewState(c), n |-> Len(committed)]}
     /\ acked' = IF pc[c] = "synced" THEN Len(committed') ELSE acked
     /\ UNCHANGED <<initialized, epoch, lockVars, load, want, slot, ckVars, fileVars, txn,
                    crashes>>

(* ROLLBACK, a failed step of the commit, or a statement that was dropped:   *)
(* Pager::rollback, WalFile::rollback, end_write_tx and end_read_tx          *)
Abort(c) ==
  /\ Writing(c) /\ pc' = [pc EXCEPT ![c] = "idle"]
  /\ index' = SubSeq(index, 1, hdr.max)
  /\ snap' = [snap EXCEPT ![c].max = hdr.max, ![c].ck = hdr.ck]
  /\ cache' = [cache EXCEPT ![c] = NoPages] /\ dirty' = [dirty EXCEPT ![c] = {}]
  /\ tag' = [tag EXCEPT ![c] = 0]
  /\ write_lock' = None /\ slot' = [slot EXCEPT ![c] = NoSlot]
  /\ UNCHANGED <<hdr, initialized, epoch, mark, ckpt_lock, load, want, ckVars, fileVars,
                 histVars, crashes>>

-----------------------------------------------------------------------------
(* Checkpoints *)

Restarts(m) == m \in {"Restart", "Truncate"}

(* CheckpointState::Start, with a snapshot that the guard does not protect yet *)
CkStart(c, m) ==
  /\ Goto(c, "idle", "ckguard") /\ c \in Checkpointers /\ ckpts < MaxCkpts
  /\ hdr.max > hdr.nb \/ Restarts(m)
  /\ mode' = [mode EXCEPT ![c] = m] /\ ckpts' = ckpts + 1
  /\ UNCHANGED <<sharedVars, lockVars, readVars, pageVars, ck, fileVars, histVars, crashes>>

CanGuard(c) ==
  ckpt_lock = None /\ Readers(0) = {} /\ (mode[c] = "Passive" \/ write_lock = None)

(* acquire_checkpoint_guard *)
CkGuard(c) ==
  /\ \/ /\ CanGuard(c) /\ Goto(c, "ckguard", "ckmark")
        /\ ckpt_lock' = c
        /\ write_lock' = IF mode[c] = "Passive" THEN write_lock ELSE c
        /\ ck' = [NoWork EXCEPT !.i = 1, !.max = hdr.max] /\ UNCHANGED mode
     \/ /\ ~CanGuard(c) /\ Goto(c, "ckguard", "idle")
        /\ mode' = [mode EXCEPT ![c] = "Passive"] /\ UNCHANGED <<ckpt_lock, write_lock, ck>>
  /\ UNCHANGED <<sharedVars, mark, readVars, pageVars, ckpts, fileVars, histVars,
                 crashes>>

HeldBack(i) == mark[i]

(* determine_max_safe_checkpoint_frame, one read mark *)
CkMark(c) ==
  /\ pc[c] = "ckmark" /\ ck.i \in Slot
  /\ LET i == ck.i
         low == mark[i] < ck.max
     IN /\ ck' = [ck EXCEPT !.i = i + 1,
                            !.max = IF low /\ Readers(i) # {} THEN HeldBack(i) ELSE @]
        /\ mark' = IF low /\ Readers(i) = {}
                   THEN [mark EXCEPT ![i] = IF i = 1 THEN ck.max ELSE NotUsed]
                   ELSE mark
  /\ UNCHANGED <<sharedVars, write_lock, ckpt_lock, pc, readVars, pageVars, mode, ckpts,
                 fileVars, histVars, crashes>>

(* Mutant: frames are copied before they are durable in the log. *)
SkipSync == UNCHANGED <<wal, uncut>>

(* CheckpointState::SyncWal *)
SyncWal == SyncWalFile

(* The frames to copy are fixed, and made durable in the log *)
CkPlan(c) ==
  LET min  == hdr.nb + 1
      todo == {<<p, find_frame(p, min, ck.max)>> : p \in Page} \ {<<p, 0>> : p \in Page}
  IN /\ Goto(c, "ckmark", "ckcopy") /\ ck.i \notin Slot
     /\ ck' = [ck EXCEPT !.i = 0, !.min = min, !.todo = todo]
     /\ IF todo = {} THEN UNCHANGED <<wal, uncut>> ELSE SyncWal
     /\ UNCHANGED <<sharedVars, lockVars, readVars, pageVars, mode, ckpts, db, histVars,
                    crashes>>

(* Mutant: a cached page is used if its frame number matches. *)
SameFrame(c, p, f) == cache[c][p].frame = f

(* is_valid_for_checkpoint *)
ValidForCheckpoint(c, p, f) == cache[c][p].frame = f /\ cache[c][p].epoch = epoch

(* CheckpointState::Processing, one page *)
CkCopy(c, p, f) ==
  /\ pc[c] = "ckcopy" /\ <<p, f>> \in ck.todo
  /\ db' = Put(db, p, IF ValidForCheckpoint(c, p, f) THEN cache[c][p].val
                      ELSE Content(f, p))
  /\ ck' = [ck EXCEPT !.todo = @ \ {<<p, f>>}]
  /\ UNCHANGED <<sharedVars, lockVars, pc, readVars, pageVars, mode, ckpts, wal, uncut,
                 histVars, crashes>>

(* CheckpointState::DetermineResult and Finalize.  Every mode but Passive     *)
(* needs all frames, and Restart and Truncate start the log over before the   *)
(* database file is synced.                                                   *)
CkResult(c) ==
  /\ pc[c] = "ckcopy" /\ ck.todo = {}
  /\ mode[c] # "Passive" => ck.max = hdr.max
  /\ pc' = [pc EXCEPT ![c] = IF ck.max >= ck.min \/ mode[c] = "Truncate" THEN "cksync"
                             ELSE "ckend"]
  /\ IF Restarts(mode[c])
     THEN RestartLog /\ snap' = [snap EXCEPT ![c].max = 0, ![c].nb = 0, ![c].ck = 0,
                                             ![c].seq = hdr.seq + 1]
     ELSE epoch' = epoch + 1 /\ UNCHANGED <<hdr, initialized, index, mark, snap>>
  /\ UNCHANGED <<write_lock, ckpt_lock, load, want, slot, pageVars, ckVars, fileVars,
                 histVars, crashes>>

ReleaseGuard(c) ==
  /\ ckpt_lock' = None
  /\ write_lock' = IF mode[c] = "Passive" THEN write_lock ELSE None
  /\ ck' = NoWork /\ mode' = [mode EXCEPT ![c] = "Passive"]
  /\ UNCHANGED <<readVars, dirty, tag, ckpts, fileVars, histVars, crashes>>

CkRestartBusy(c) ==
  /\ Goto(c, "ckcopy", "idle") /\ ck.todo = {}
  /\ Restarts(mode[c]) /\ ck.max = hdr.max /\ RestartBusy
  /\ ReleaseGuard(c) /\ UNCHANGED cache

(* Not every frame was safe to copy, I/O fails, or the statement is dropped:   *)
(* cleanup_after_checkpoint_failure                                            *)
CkFail(c) ==
  /\ pc[c] \in {"ckmark", "ckcopy", "cksync", "ckpublish", "cktrunc", "ckwalsync"}
  /\ pc[c] = "cksync" /\ Restarts(mode[c]) => TailFaults
  /\ pc' = [pc EXCEPT ![c] = "idle"]
  /\ ReleaseGuard(c) /\ UNCHANGED <<sharedVars, mark, cache>>

DbSynced == db' = Synced(db)

(* CheckpointPhase::SyncDbFile *)
CkSync(c) ==
  /\ pc[c] = "cksync"
  /\ pc' = [pc EXCEPT ![c] = CASE mode[c] = "Truncate" -> "cktrunc"
                               [] mode[c] = "Restart" -> "ckend"
                               [] OTHER -> "ckpublish"]
  /\ DbSynced
  /\ UNCHANGED <<sharedVars, lockVars, readVars, pageVars, ckVars, wal, uncut, histVars,
                 crashes>>

(* CheckpointPhase::PublishBackfill *)
CkPublish(c) ==
  /\ Goto(c, "ckpublish", "ckend") /\ SharedFree
  /\ hdr' = [hdr EXCEPT !.nb = ck.max]
  /\ UNCHANGED <<initialized, index, epoch, lockVars, readVars, pageVars, ckVars, fileVars,
                 histVars, crashes>>

(* CheckpointPhase::TruncateWalFile: truncate_log, then its sync *)
CkTruncate(c) ==
  /\ Goto(c, "cktrunc", "ckwalsync")
  /\ initialized' = FALSE
  /\ Truncate(NoFrame)
  /\ UNCHANGED <<hdr, index, epoch, lockVars, readVars, pageVars, ckVars, db, histVars,
                 crashes>>

CkWalSync(c) ==
  /\ Goto(c, "ckwalsync", "ckend")
  /\ SyncWalFile
  /\ UNCHANGED <<sharedVars, lockVars, readVars, pageVars, ckVars, db, histVars, crashes>>

(* CheckpointPhase::Finalize; an automatic checkpoint keeps the page cache *)
CkEnd(c) ==
  /\ Goto(c, "ckend", "idle")
  /\ ReleaseGuard(c) /\ UNCHANGED <<sharedVars, mark>>
  /\ \/ cache' = [cache EXCEPT ![c] = NoPages]
     \/ mode[c] = "Passive" /\ UNCHANGED cache

-----------------------------------------------------------------------------
(* Crashes: any of the unsynced writes of a location may be what is on disk. *)

(* process_frames: the frame after the frames s of a log with header h *)
Follows(h, s, f) ==
  /\ h.gen >= 0 /\ f.gen = h.gen /\ f.page > 0
  /\ f.prev = IF s = <<>> THEN 0 ELSE s[Len(s)].val

(* The frames that the scan may find in a log file w with the header h; it   *)
(* ends at the first frame that does not follow.                             *)
Scans(h, w) ==
  LET scan[n \in 0..MaxFrame] ==
        IF n = 0 THEN {<<>>}
        ELSE UNION {IF Len(s) < n - 1 THEN {s}
                    ELSE {IF Follows(h, s, f) THEN Append(s, f) ELSE s : f \in OnDisk(w, n)} :
                    s \in scan[n - 1]}
  IN scan[MaxFrame]

(* flush_pending_frames: up to the last commit frame *)
Recovered(s) ==
  LET commits == {i \in 1..Len(s) : s[i].commit}
  IN IF commits = {} THEN <<>>
     ELSE SubSeq(s, 1, CHOOSE i \in commits : \A j \in commits : j <= i)

PageAfter(r, p, d) ==
  LET at == {i \in 1..Len(r) : r[i].page = p}
  IN IF at = {} THEN d ELSE r[CHOOSE i \in at : \A j \in at : j <= i].val

Crash ==
  /\ crashes < MaxCrashes /\ crashes' = crashes + 1
  /\ \E h \in OnDisk(wal, 0), w \in {wal} \cup uncut : \E s \in Scans(h, w) :
     \E d \in {f \in [Page -> 0..MaxWrites] : \A p \in Page : f[p] \in OnDisk(db, p)} :
       LET r == Recovered(s)
       IN /\ hdr' = [max |-> Len(r), nb |-> 0, cnt |-> 0,
                     seq |-> IF h.gen >= 0 THEN h.gen ELSE hdr.seq + 1,
                     ck |-> IF r = <<>> THEN 0 ELSE r[Len(r)].val]
          /\ initialized' = (h.gen >= 0)
          /\ index' = [i \in 1..Len(r) |-> r[i].page]
          /\ wal' = [i \in 0..MaxFrame |-> Fresh(IF i = 0 THEN h
                                                 ELSE IF i <= Len(s) THEN s[i]
                                                 ELSE NoFrame)]
          /\ uncut' = {} /\ db' = [p \in Page |-> Fresh(d[p])]
          /\ committed' = <<[p \in Page |-> PageAfter(r, p, d[p])]>>
  /\ acked' = 1 /\ tried' = {} /\ epoch' = 0
  /\ mark' = InitialMarks /\ write_lock' = None /\ ckpt_lock' = None
  /\ pc' = [c \in Conn |-> "idle"]
  /\ snap' = [c \in Conn |-> InitialHdr] /\ load' = [c \in Conn |-> InitialHdr]
  /\ want' = [c \in Conn |-> NoMark] /\ slot' = [c \in Conn |-> NoSlot]
  /\ dirty' = [c \in Conn |-> {}] /\ tag' = [c \in Conn |-> 0]
  /\ cache' = [c \in Conn |-> NoPages]
  /\ mode' = [c \in Conn |-> "Passive"] /\ ck' = NoWork /\ UNCHANGED <<ckpts, txn>>

-----------------------------------------------------------------------------
CkStep(c) ==
  \/ CkGuard(c) \/ CkMark(c) \/ CkPlan(c)
  \/ \E p \in Page, f \in 1..MaxFrame : CkCopy(c, p, f)
  \/ CkResult(c) \/ CkRestartBusy(c) \/ CkSync(c) \/ CkPublish(c) \/ CkTruncate(c)
  \/ CkWalSync(c) \/ CkEnd(c)

WalNext ==
  \/ \E c \in Conn :
       \/ LoadSnapshot(c) \/ TakeMarkZero(c) \/ ClaimMark(c) \/ LockMark(c)
       \/ \E p \in Page : Read(c, p)
       \/ EndTx(c)
       \/ \E S \in SUBSET Page : <<c, S>> \in Updates /\ BeginWrite(c, S)
       \/ PrepareWal(c) \/ PrepareWalSync(c)
       \/ \E p \in Page : Spill(c, p)
       \/ WriteFrames(c) \/ SyncFrames(c) \/ Publish(c) \/ Abort(c)
       \/ \E m \in Modes : CkStart(c, m)
       \/ CkStep(c) \/ CkFail(c)
  \/ Crash

WalSpec == WalInit /\ [][WalNext]_walVars

-----------------------------------------------------------------------------
(* Properties *)

InTx(c) == slot[c] # NoSlot

(* A read transaction reads every page as of its snapshot until it ends,     *)
(* whether it finds it in its page cache, in the log or in the database file, *)
(* and whatever commits, rollbacks, checkpoints and restarts of the log      *)
(* happen meanwhile; and it reads its own writes, spilled or not.            *)
SnapshotReads ==
  \A c \in Conn : InTx(c) => \A p \in Page :
    ReadPage(c, p).val = IF p \in dirty[c] THEN txn ELSE committed[snap[c].cnt + 1][p]

(* Every frame that find_frame may return holds the page it is indexed for,  *)
(* and belongs to the current generation of the log.                         *)
IndexMatchesFile ==
  \A i \in 1..Len(index) : wal[i].cur.page = index[i] /\ wal[i].cur.gen = hdr.seq

(* A crash at any moment recovers a database that some prefix of the commits *)
(* produced, possibly with a later transaction whose commit frame was written,   *)
(* and with every commit acknowledged under synchronous=FULL: no torn and no *)
(* lost transactions, whichever unsynced writes reach the disk.              *)
CrashSafe ==
  LET good == {committed[i] : i \in acked..Len(committed)}
              \cup {t.db : t \in {u \in tried : u.n >= acked}}
      disks == {d \in [Page -> 0..MaxWrites] : \A p \in Page : d[p] \in OnDisk(db, p)}
  IN \A h \in OnDisk(wal, 0), w \in {wal} \cup uncut : \A s \in Scans(h, w) :
       LET r == Recovered(s)
       IN \A d \in disks : [p \in Page |-> PageAfter(r, p, d[p])] \in good

=============================================================================
