--------------------------- MODULE MvccCheckpoint ---------------------------
(* The way of committed rows from the version chains to the B-tree: the     *)
(* checkpoint state machine, the logical log it cuts, the garbage collector *)
(* that then empties the chains, and the recovery that puts the chains back *)
(* after a crash.  A store is created in one of two modes: a blocking store *)
(* stops every transaction for a checkpoint, a passive one checkpoints      *)
(* beside them.                                                             *)
(*                                                                          *)
(* A statement is one step here and a writer waits until the last change of *)
(* a row has committed: the statements and their conflicts are MvccStore,   *)
(* the log writer is GroupCommit, the WAL under the pager is Wal.           *)
EXTENDS Integers, Sequences, FiniteSets, SequencesExt, FiniteSetsExt

CONSTANTS
  Tx,              \* transactions; each runs once
  Key,             \* rows, in the order in which the checkpoint visits them
  Resident,        \* the rows that are in the B-tree at the start
  MaxCkpts,        \* bound on the checkpoints
  MaxLoad,         \* bound on the transactions, I/O errors and crashes together
  DroppedCommits   \* may a commit of a blocking store be dropped half way, too?

ASSUME CheckpointConstants ==
  /\ Key = 1..Cardinality(Key) /\ Resident \subseteq Key
  /\ {MaxCkpts, MaxLoad} \subseteq Nat
  /\ DroppedCommits \in BOOLEAN

VARIABLES
  passive,          \* experimental_mvcc_passive_checkpoint
  pc,               \* how far each transaction is
  begin_ts, end_ts, \* its timestamps
  pin,              \* the B-tree image its pager snapshot shows, or Unpinned
  effect,           \* what it has done to each row
  chain,            \* the versions of each row
  clock,            \* the next timestamp
  last_committed_tx_ts,
  dirty,            \* checkpoint_dirty_table_keys: the stamp of a row, or 0
  full_scan,        \* is checkpoint_full_scan_generation set?
  durable_txid_max, \* the boundary of the last checkpoint
  img,              \* the B-trees the pager has committed, the first one initial
  wal_base,         \* the image up to which the WAL file has been emptied
  nbackfills,       \* the image the database file has been brought to
  backfill_floor,   \* ... as the garbage collector knows it
  log,              \* the frames of the logical log up to its offset
  tail,             \* the frame an abandoned append has left at the offset, or none
  log_header,       \* does the log file hold a header?
  max_appended,     \* max_appended_commit_ts
  ck,               \* the checkpoint under way
  open,             \* has the last start of the database succeeded?
  ckpts, faults     \* counted for the bounds

txVars   == <<pc, begin_ts, end_ts, pin, effect>>
memVars  == <<chain, clock, last_committed_tx_ts, dirty, full_scan, durable_txid_max>>
fileVars == <<img, wal_base, nbackfills, backfill_floor>>
logVars  == <<log, tail, log_header, max_appended>>
bounds   == <<ckpts, faults>>
vars == <<passive, txVars, memVars, fileVars, logVars, ck, open, bounds>>

Nil     == <<"nil", 0>>
TxID(t) == <<"id", t>>
Ts(n)   == <<"ts", n>>

U64Max   == 1000000   \* u64::MAX, and the position WalPos::STAGED
Unpinned == -1
Absent   == "absent"  \* no row; the row that t wrote is t
Base     == "base"    \* the row that was in the B-tree at the start

Load == Cardinality({t \in Tx : pc[t] # "unborn"}) + faults

Idle == [at |-> "idle", snap |-> 0, old |-> 0, new |-> 0, full |-> FALSE, next |-> 1,
         writes |-> [k \in Key |-> "none"], rows |-> [k \in Key |-> Absent],
         cands |-> [k \in Key |-> 0], lwm |-> 0]

CheckpointInit ==
  /\ passive \in BOOLEAN
  /\ pc = [t \in Tx |-> "unborn"]
  /\ begin_ts = [t \in Tx |-> 0] /\ end_ts = [t \in Tx |-> 0]
  /\ pin = [t \in Tx |-> Unpinned]
  /\ effect = [t \in Tx |-> [k \in Key |-> "none"]]
  /\ chain = [k \in Key |-> <<>>]
  /\ clock = 1 /\ last_committed_tx_ts = 0
  /\ dirty = [k \in Key |-> 0] /\ full_scan = TRUE
  /\ durable_txid_max = 0
  /\ img = <<[rows |-> [k \in Key |-> IF k \in Resident THEN Base ELSE Absent], meta |-> 0]>>
  /\ wal_base = 0 /\ nbackfills = 0 /\ backfill_floor = 0
  /\ log = <<>> /\ tail = <<>> /\ log_header = FALSE /\ max_appended = 0
  /\ ck = Idle /\ open = TRUE
  /\ ckpts = 0 /\ faults = 0

-----------------------------------------------------------------------------
(* Transactions and what they see *)

IsPreparing(t) == pc[t] \in {"prepared", "marked", "logged"}
IsCommitted(t) == pc[t] \in {"committed", "rewritten", "finished"}
(* The transactions the low-water mark and the reader mark look at *)
Running == {t \in Tx : pc[t] = "active" \/ IsPreparing(t)}
(* The transactions that hold the blocking checkpoint lock shared *)
Guarded == {t \in Tx : pc[t] \in {"pinned", "active", "committed", "rewritten"}
                       \/ IsPreparing(t)}

EndedBefore(T, t) == (IsPreparing(T) \/ IsCommitted(T)) /\ end_ts[T] < begin_ts[t]

is_begin_visible(t, v) ==
  \/ v.begin[1] = "ts" /\ v.begin[2] < begin_ts[t]
  \/ v.begin = TxID(t) /\ v.end = Nil
  \/ \E T \in Tx : v.begin = TxID(T) /\ EndedBefore(T, t)

EndsBefore(t, v) ==
  \/ v.end[1] = "ts" /\ v.end[2] < begin_ts[t]
  \/ v.end = TxID(t)
  \/ \E T \in Tx : v.end = TxID(T) /\ EndedBefore(T, t)

is_visible_to(t, v) == is_begin_visible(t, v) /\ ~EndsBefore(t, v)

is_btree_invalidating_version(t, v) == is_visible_to(t, v) \/ EndsBefore(t, v)

Visible(t, k) == {i \in DOMAIN chain[k] : is_visible_to(t, chain[k][i])}

(* The image of the B-tree after n pager commits *)
Image(n) == img[n + 1]
WalPos   == Len(img) - 1

(* The row of the B-tree that t finds once its chain shows nothing *)
BTreeRow(t, k) ==
  IF \E i \in DOMAIN chain[k] : is_btree_invalidating_version(t, chain[k][i])
  THEN Absent ELSE Image(pin[t]).rows[k]

(* What a cursor of t returns for row k *)
Read(t, k) == IF Visible(t, k) # {} THEN chain[k][Max(Visible(t, k))].row
              ELSE BTreeRow(t, k)

(* committed_ts: the commit timestamp of a marker, 0 for none *)
committed_ts(x) ==
  CASE x[1] = "ts" -> x[2]
    [] x[1] = "id" -> IF IsCommitted(x[2]) THEN end_ts[x[2]] ELSE 0
    [] OTHER -> 0

-----------------------------------------------------------------------------
(* The life of a transaction *)

(* begin_fresh_mvcc_tx: the checkpoint lock (blocking stores), then the     *)
(* pager's read mark ...                                                    *)
Pin(t) ==
  /\ open /\ pc[t] = "unborn" /\ Load < MaxLoad
  /\ passive \/ ck.at = "idle"
  /\ pin' = [pin EXCEPT ![t] = WalPos]
  /\ pc' = [pc EXCEPT ![t] = "pinned"]
  /\ UNCHANGED <<passive, begin_ts, end_ts, effect, memVars, fileVars, logVars, ck, open, bounds>>

(* ... then the timestamp and the entry in txs, together under the clock    *)
Begin(t) ==
  /\ pc[t] = "pinned"
  /\ pc' = [pc EXCEPT ![t] = "active"]
  /\ begin_ts' = [begin_ts EXCEPT ![t] = clock]
  /\ clock' = clock + 1
  /\ UNCHANGED <<passive, end_ts, pin, effect, chain, last_committed_tx_ts, dirty, full_scan,
                 durable_txid_max, fileVars, logVars, ck, open, bounds>>

(* resolve_begin_timestamp, for the order of a chain *)
BeginOf(v) ==
  CASE v.begin[1] = "nil" -> 0
    [] v.begin[1] = "ts"  -> v.begin[2]
    [] v.begin[1] = "id"  -> begin_ts[v.begin[2]]

(* insert_version_raw: after the last version that does not begin later *)
insert_version_raw(c, v) ==
  InsertAt(c, Max({0} \cup {i \in DOMAIN c : BeginOf(c[i]) <= BeginOf(v)}) + 1, v)

Version(row, begin, end, resident) ==
  [row |-> row, begin |-> begin, end |-> end, res |-> resident, mat |-> 0]

(* Mutant: the version keeps the stamp of its insertion. *)
set_end_keeps_stamp(v, end) == [v EXCEPT !.end = end]

(* set_end: the B-tree no longer reflects the version *)
set_end(v, end) == [v EXCEPT !.end = end, !.mat = 0]

(* t may change row k: it sees the last change of it *)
CanWrite(t, k) ==
  /\ pc[t] = "active" /\ effect[t][k] = "none"
  /\ \A i \in DOMAIN chain[k] : \A x \in {chain[k][i].begin, chain[k][i].end} :
       x # Nil => committed_ts(x) \in 1..(begin_ts[t] - 1)

(* cursor.insert: a new version over the one it ends, or over the B-tree row *)
Put(t, k) ==
  /\ CanWrite(t, k)
  /\ LET c == IF Visible(t, k) = {} THEN chain[k]
              ELSE [chain[k] EXCEPT ![Max(Visible(t, k))] = set_end(@, TxID(t))]
         resident == Visible(t, k) = {} /\ BTreeRow(t, k) # Absent
     IN chain' = [chain EXCEPT ![k] = insert_version_raw(c, Version(t, TxID(t), Nil, resident))]
  /\ effect' = [effect EXCEPT ![t][k] = "put"]
  /\ UNCHANGED <<passive, pc, begin_ts, end_ts, pin, clock, last_committed_tx_ts, dirty,
                 full_scan, durable_txid_max, fileVars, logVars, ck, open, bounds>>

(* cursor.delete: ends the version, or hides the B-tree row with a tombstone *)
Del(t, k) ==
  /\ CanWrite(t, k) /\ Read(t, k) # Absent
  /\ chain' = [chain EXCEPT ![k] =
       IF Visible(t, k) = {} THEN insert_version_raw(@, Version(Absent, Nil, TxID(t), TRUE))
       ELSE [@ EXCEPT ![Max(Visible(t, k))] = set_end(@, TxID(t))]]
  /\ effect' = [effect EXCEPT ![t][k] = "del"]
  /\ UNCHANGED <<passive, pc, begin_ts, end_ts, pin, clock, last_committed_tx_ts, dirty,
                 full_scan, durable_txid_max, fileVars, logVars, ck, open, bounds>>

Written(t) == {k \in Key : effect[t][k] # "none"}

(* remove_tx, and the end of the pager snapshot; what the transaction did   *)
(* and its commit timestamp stay known if its rows or its log frame do.     *)
Leave(t, how) ==
  /\ pc' = [pc EXCEPT ![t] = how]
  /\ begin_ts' = [begin_ts EXCEPT ![t] = 0]
  /\ end_ts' = IF how = "aborted" THEN [end_ts EXCEPT ![t] = 0] ELSE end_ts
  /\ effect' = IF how = "aborted" THEN [effect EXCEPT ![t] = [k \in Key |-> "none"]]
               ELSE effect
  /\ pin' = [pin EXCEPT ![t] = Unpinned]

(* A transaction that wrote nothing ends. *)
EndRead(t) ==
  /\ pc[t] = "active" /\ Written(t) = {}
  /\ Leave(t, "aborted")
  /\ UNCHANGED <<passive, memVars, fileVars, logVars, ck, open, bounds>>

(* CommitState::Initial *)
Prepare(t) ==
  /\ pc[t] = "active" /\ Written(t) # {}
  /\ pc' = [pc EXCEPT ![t] = "prepared"]
  /\ end_ts' = [end_ts EXCEPT ![t] = clock]
  /\ clock' = clock + 1
  /\ UNCHANGED <<passive, begin_ts, pin, effect, chain, last_committed_tx_ts, dirty, full_scan,
                 durable_txid_max, fileVars, logVars, ck, open, bounds>>

(* step_mark_dirty_keys *)
MarkDirtyKeys(t) ==
  /\ pc[t] = "prepared"
  /\ pc' = [pc EXCEPT ![t] = "marked"]
  /\ dirty' = [k \in Key |-> IF k \in Written(t) THEN Max({dirty[k], end_ts[t]}) ELSE dirty[k]]
  /\ UNCHANGED <<passive, begin_ts, end_ts, pin, effect, chain, clock, last_committed_tx_ts,
                 full_scan, durable_txid_max, fileVars, logVars, ck, open, bounds>>

(* The operations on row k in the log record of t: the version it ended,    *)
(* then the one it created                                                  *)
LogOps(t, k) ==
  LET mine == SelectSeq(chain[k], LAMBDA v : TxID(t) \in {v.begin, v.end})
  IN [i \in DOMAIN mine |->
        [op |-> IF mine[i].begin = TxID(t) THEN "upsert" ELSE "delete",
         ts |-> end_ts[t], row |-> mine[i].row, res |-> mine[i].res]]

Frame(t) == [ts |-> end_ts[t], ops |-> [k \in Key |-> LogOps(t, k)]]

(* frame_and_pwrite_tx and the sync after it: over what an abandoned append *)
(* has left there                                                           *)
AppendLog(t) ==
  /\ pc[t] = "marked"
  /\ pc' = [pc EXCEPT ![t] = "logged"]
  /\ log' = Append(log, Frame(t))
  /\ tail' = <<>>
  /\ max_appended' = Max({max_appended, end_ts[t]})
  /\ log_header' = TRUE
  /\ UNCHANGED <<passive, begin_ts, end_ts, pin, effect, memVars, fileVars, ck, open, bounds>>

(* rollback_version_chain *)
rollback_version_chain(t, c) ==
  LET kept == SelectSeq(c, LAMBDA v : v.begin # TxID(t))
  IN [i \in DOMAIN kept |-> IF kept[i].end = TxID(t) THEN set_end(kept[i], Nil) ELSE kept[i]]

version_keeps_checkpoint_dirty_key(v) == v.res \/ v.begin # Nil \/ v.end # Nil

(* rollback_tx_inner *)
RollbackTx(t) ==
  LET c == [k \in Key |-> rollback_version_chain(t, chain[k])] IN
  /\ chain' = c
  /\ dirty' = [k \in Key |->
       IF /\ IsPreparing(t) /\ k \in Written(t) /\ dirty[k] = end_ts[t]
          /\ \A i \in DOMAIN c[k] : ~version_keeps_checkpoint_dirty_key(c[k][i])
       THEN 0 ELSE dirty[k]]

(* The transaction is rolled back, or its commit gives up before the log. *)
Rollback(t) ==
  /\ pc[t] \in {"active", "prepared", "marked"} /\ Written(t) # {}
  /\ RollbackTx(t)
  /\ Leave(t, "aborted")
  /\ UNCHANGED <<passive, clock, last_committed_tx_ts, full_scan,
                 durable_txid_max, fileVars, logVars, ck, open, bounds>>

(* The write fails, or its statement is dropped before the frame is marked  *)
(* written: the transaction is rolled back, discard_pending_write forgets   *)
(* the checksum, and the maximum of the appended timestamps stays raised.   *)
(* The file holds at the offset what it held, or nothing that can be read,  *)
(* or the whole frame (and the header, in the first write of a log).        *)
AppendFails(t) ==
  /\ pc[t] = "marked" /\ Load < MaxLoad
  /\ RollbackTx(t)
  /\ \/ Leave(t, "aborted") /\ tail' \in {tail, <<>>} /\ UNCHANGED log_header
     \/ Leave(t, "leftover") /\ tail' = <<Frame(t)>> /\ log_header' = TRUE
  /\ max_appended' = Max({max_appended, end_ts[t]})
  /\ faults' = faults + 1
  /\ UNCHANGED <<passive, clock, last_committed_tx_ts, full_scan,
                 durable_txid_max, fileVars, log, ck, open, ckpts>>

(* CommitState::CommitEnd *)
CommitEnd(t) ==
  /\ pc[t] = "logged"
  /\ pc' = [pc EXCEPT ![t] = "committed"]
  /\ UNCHANGED <<passive, begin_ts, end_ts, pin, effect, memVars, fileVars, logVars, ck, open, bounds>>

(* rewrite_txid_to_timestamp: set_begin takes the stamp off the version too *)
Rewritten(t, v) ==
  CASE v.end = TxID(t)   -> set_end(v, Ts(end_ts[t]))
    [] v.begin = TxID(t) -> [v EXCEPT !.begin = Ts(end_ts[t]), !.mat = 0]
    [] OTHER -> v

RewrittenChains(t) ==
  [k \in Key |-> [i \in DOMAIN chain[k] |-> Rewritten(t, chain[k][i])]]

(* step_rewrite_live_versions *)
RewriteLiveVersions(t) ==
  /\ pc[t] = "committed"
  /\ pc' = [pc EXCEPT ![t] = "rewritten"]
  /\ chain' = RewrittenChains(t)
  /\ UNCHANGED <<passive, begin_ts, end_ts, pin, effect, clock, last_committed_tx_ts, dirty,
                 full_scan, durable_txid_max, fileVars, logVars, ck, open, bounds>>

(* CommitState::FinalizeCommit: only here the high-water mark is raised. *)
FinalizeCommit(t) ==
  /\ pc[t] = "rewritten"
  /\ last_committed_tx_ts' = Max({last_committed_tx_ts, end_ts[t]})
  /\ Leave(t, "finished")
  /\ UNCHANGED <<passive, chain, clock, dirty, full_scan,
                 durable_txid_max, fileVars, logVars, ck, open, bounds>>

(* cleanup_dropped_commit, of a commit that has reached the log: the rows   *)
(* are finished, the high-water mark stays                                  *)
CleanupDroppedCommit(t) ==
  /\ passive \/ DroppedCommits
  /\ pc[t] \in {"logged", "committed", "rewritten"}
  /\ chain' = RewrittenChains(t)
  /\ Leave(t, "finished")
  /\ UNCHANGED <<passive, clock, last_committed_tx_ts, dirty,
                 full_scan, durable_txid_max, fileVars, logVars, ck, open, bounds>>

-----------------------------------------------------------------------------
(* The garbage collector *)

compute_lwm == Min({begin_ts[t] : t \in Running} \cup {U64Max})
compute_min_reader_mark == Min({pin[t] : t \in Running} \cup {U64Max})

(* ... with the readers whose transaction is not in txs yet *)
gc_floor_reader_mark ==
  Min({compute_min_reader_mark, backfill_floor}
        \cup {pin[t] : t \in {T \in Tx : pin[T] # Unpinned}})

(* gc_version_chain *)
gc_version_chain(c, lwm, ckpt_max, mark) ==
  LET garbage(v) == v.begin = Nil /\ v.end = Nil
      current(v) == v.begin[1] = "ts" /\ v.end = Nil
      reached(v) == v.mat # 0 /\ mark >= v.mat
      in_btree(v) == v.res \/ (v.begin[1] = "ts" /\ v.begin[2] <= ckpt_max)
      has_current == \E i \in DOMAIN c : current(c[i])
      superseded(v) ==
        /\ v.end[1] = "ts" /\ v.end[2] <= lwm
        /\ IF passive THEN reached(v)
           ELSE v.end[2] <= ckpt_max \/ (~in_btree(v) /\ has_current)
      kept == SelectSeq(c, LAMBDA v : ~garbage(v) /\ ~superseded(v))
      last_in_btree ==
        /\ Len(kept) = 1 /\ current(kept[1])
        /\ lwm = U64Max /\ reached(kept[1])
        /\ passive \/ kept[1].begin[2] <= ckpt_max
  IN IF last_in_btree THEN <<>> ELSE kept

(* gc_chain_now: a low-water mark that saw no transaction is taken again. *)
gc_chain_now(c, lwm, ckpt_max, mark) ==
  gc_version_chain(c, IF lwm = U64Max THEN compute_lwm ELSE lwm, ckpt_max, mark)

(* gc_incremental, at the end of some commit *)
GcIncremental ==
  /\ open
  /\ passive \/ ck.at = "idle"
  /\ LET mark == Min({compute_min_reader_mark, backfill_floor})
     IN chain' = [k \in Key |-> gc_chain_now(chain[k], compute_lwm, durable_txid_max, mark)]
  /\ chain' # chain
  /\ UNCHANGED <<passive, txVars, clock, last_committed_tx_ts, dirty, full_scan,
                 durable_txid_max, fileVars, logVars, ck, open, bounds>>

-----------------------------------------------------------------------------
(* The checkpoint *)

CkVars == <<passive, txVars, logVars, open, faults>>

(* Mutant: the high-water mark alone, which a later commit may have raised  *)
(* past one that is still under way.                                        *)
last_committed_snapshot_ts == last_committed_tx_ts

(* checkpoint_snapshot_ts: below every commit that is still under way *)
checkpoint_snapshot_ts ==
  Min({last_committed_tx_ts} \cup {end_ts[t] - 1 : t \in {T \in Tx : IsPreparing(T)}})

(* PrepareCheckpoint: a blocking store takes the lock (AcquireLock), a      *)
(* passive one the checkpoint_in_progress flag; then the bounds are sampled. *)
CkStart ==
  /\ open /\ ck.at = "idle" /\ ckpts < MaxCkpts
  /\ passive \/ Guarded = {}
  /\ ck' = [Idle EXCEPT !.at = "collect", !.snap = checkpoint_snapshot_ts,
              !.old = durable_txid_max, !.new = durable_txid_max, !.full = full_scan]
  /\ ckpts' = ckpts + 1
  /\ UNCHANGED <<CkVars, memVars, fileVars>>

(* maybe_get_checkpointable_versions: what one more version makes of the    *)
(* verdict on the older ones                                                *)
Judge(acc, v) ==
  LET b == committed_ts(v.begin)
      e == IF committed_ts(v.end) > ck.snap THEN 0 ELSE committed_ts(v.end)
      was == acc.exists \/ v.res \/ b \in 1..ck.old
      exists == was /\ e \notin 1..ck.old
  IN IF b > ck.snap \/ (b = 0 /\ e = 0) THEN acc
     ELSE [exists |-> exists,
           write |-> IF e = 0 /\ b > ck.old THEN "put"
                     ELSE IF e # 0 /\ exists THEN "del" ELSE acc.write,
           row |-> IF e = 0 /\ b > ck.old THEN v.row ELSE acc.row]

maybe_get_checkpointable_versions(k) ==
  FoldLeft(Judge, [exists |-> FALSE, write |-> "none", row |-> Absent], chain[k])

deleted_since_last_checkpoint(k) ==
  \E i \in DOMAIN chain[k] : committed_ts(chain[k][i].end) \in (ck.old + 1)..ck.snap

(* collect_table_row_versions, and record_prune_candidate beside it; a row  *)
(* that is visited is dirty, or the whole store is scanned                  *)
CkCollect ==
  /\ ck.at = "collect" /\ ck.next \in Key
  /\ LET k == ck.next
         found == maybe_get_checkpointable_versions(k)
         write == IF ~ck.full /\ dirty[k] = 0 THEN "none"
                  ELSE IF found.write = "none" /\ deleted_since_last_checkpoint(k)
                       THEN "unwritten" ELSE found.write
     IN ck' = [ck EXCEPT !.next = @ + 1, !.writes[k] = write, !.rows[k] = found.row,
                         !.cands[k] = IF dirty[k] <= ck.snap THEN dirty[k] ELSE 0]
  /\ UNCHANGED <<CkVars, memVars, fileVars, ckpts>>

(* The rows of the B-tree once the write set is applied to it *)
WrittenRows ==
  [k \in Key |-> CASE ck.writes[k] = "put" -> ck.rows[k]
                   [] ck.writes[k] = "del" -> Absent
                   [] OTHER -> Last(img).rows[k]]

(* The end of the collection: the new boundary; with something to write,    *)
(* the write phases and the pager's commit, which has the boundary in the   *)
(* metadata row                                                             *)
CkCommitPager ==
  /\ ck.at = "collect" /\ ck.next \notin Key
  /\ LET new == Max({ck.old, ck.snap})
         nothing == new = ck.old /\ \A k \in Key : ck.writes[k] \notin {"put", "del"}
     IN /\ img' = IF nothing THEN img ELSE Append(img, [rows |-> WrittenRows, meta |-> new])
        /\ ck' = [ck EXCEPT !.new = new, !.next = 1, !.at = IF nothing THEN "wal" ELSE "publish"]
  /\ UNCHANGED <<CkVars, memVars, wal_base, nbackfills, backfill_floor, ckpts>>

(* apply_checkpoint_publish_window *)
CkPublish ==
  /\ ck.at = "publish"
  /\ durable_txid_max' = ck.new
  /\ ck' = [ck EXCEPT !.at = "wal"]
  /\ UNCHANGED <<CkVars, chain, clock, last_committed_tx_ts, dirty, full_scan, fileVars, ckpts>>

(* CheckpointWal and SyncDbFile: the WAL is copied as far as its readers    *)
(* let it, which for a passive checkpoint may be nowhere                    *)
CkBackfill ==
  /\ ck.at = "wal"
  /\ nbackfills' \in nbackfills..Min({WalPos} \cup {pin[t] : t \in Guarded})
  /\ passive \/ nbackfills' = WalPos
  /\ ck' = [ck EXCEPT !.at = "cut"]
  /\ UNCHANGED <<CkVars, memVars, img, wal_base, backfill_floor, ckpts>>

(* Mutant: a passive store clears the whole log as well. *)
CutBoundaryWhole == U64Max

(* The boundary a checkpoint gives LogicalLog::truncate: a blocking store   *)
(* clears the whole log (clears_whole_logical_log).                         *)
CutBoundary == IF passive THEN ck.new ELSE U64Max

(* TruncateLogicalLog and FsyncLogicalLog: all of the log, or nothing *)
CkTruncateLog ==
  /\ ck.at = "cut"
  /\ IF max_appended > CutBoundary THEN UNCHANGED logVars
     ELSE log' = <<>> /\ tail' = <<>> /\ log_header' = FALSE /\ max_appended' = 0
  /\ ck' = [ck EXCEPT !.at = "truncate"]
  /\ UNCHANGED <<passive, txVars, memVars, fileVars, open, bounds>>

(* TruncateWal: the WAL file last; then the floors of the collector *)
CkTruncateWal ==
  /\ ck.at = "truncate"
  /\ wal_base' = IF passive THEN wal_base ELSE WalPos
  /\ durable_txid_max' = ck.new
  /\ backfill_floor' = nbackfills
  /\ ck' = [ck EXCEPT !.at = "gc", !.lwm = compute_lwm]
  /\ UNCHANGED <<CkVars, chain, clock, last_committed_tx_ts, dirty, full_scan, img,
                 nbackfills, ckpts>>

(* stamp_chain_materialized: the versions whose last event the checkpoint   *)
(* has written                                                              *)
stamp_chain_materialized(c) ==
  LET terminal(v) == committed_ts(IF v.end # Nil THEN v.end ELSE v.begin)
  IN [i \in DOMAIN c |-> IF terminal(c[i]) \in 1..ck.snap
                         THEN [c[i] EXCEPT !.mat = WalPos] ELSE c[i]]

(* gc_checkpointed_table_versions, one row of the write set *)
CkGc ==
  /\ ck.at = "gc" /\ ck.next \in Key
  /\ LET k == ck.next IN
     chain' = IF ck.writes[k] = "none" THEN chain
              ELSE [chain EXCEPT ![k] = gc_chain_now(stamp_chain_materialized(@), ck.lwm,
                                                     ck.new, gc_floor_reader_mark)]
  /\ ck' = [ck EXCEPT !.next = @ + 1]
  /\ UNCHANGED <<CkVars, clock, last_committed_tx_ts, dirty, full_scan, durable_txid_max,
                 fileVars, ckpts>>

(* prune_dirty_keys and clear_checkpoint_full_scan: a row that was marked   *)
(* again since it was visited stays dirty.                                  *)
CkPrune ==
  /\ dirty' = [k \in Key |-> IF ck.cands[k] = dirty[k] THEN 0 ELSE dirty[k]]
  /\ full_scan' = (full_scan /\ ~ck.full)

(* Finalize: the whole store is collected, and the locks are released. *)
CkFinalize ==
  /\ ck.at = "gc" /\ ck.next \notin Key
  /\ CkPrune
  /\ LET mark == IF passive THEN gc_floor_reader_mark
                 ELSE Min({compute_min_reader_mark, backfill_floor})
     IN chain' = [k \in Key |-> gc_chain_now(chain[k], compute_lwm, durable_txid_max, mark)]
  /\ ck' = Idle
  /\ UNCHANGED <<CkVars, clock, last_committed_tx_ts, durable_txid_max, fileVars, ckpts>>

(* An error at any step that can fail: cleanup_after_external_io_error rolls *)
(* the pager back and releases the locks; what was published stays.          *)
CkFail ==
  /\ ck.at \in {"collect", "wal", "cut", "truncate"}
  /\ Load < MaxLoad
  /\ faults' = faults + 1
  /\ ck' = Idle
  /\ UNCHANGED <<passive, txVars, memVars, fileVars, logVars, open, ckpts>>

-----------------------------------------------------------------------------
(* Crash and recovery *)

(* recover_process_frame, one operation on the chain of its row *)
Replay(c, o) ==
  LET ends == {i \in DOMAIN c : /\ c[i].end = Nil
                                /\ c[i].begin[1] = "ts" /\ c[i].begin[2] < o.ts}
  IN CASE o.op = "upsert" -> insert_version_raw(c, Version(o.row, Ts(o.ts), Nil, o.res))
       [] o.op = "delete" /\ ends # {} -> [c EXCEPT ![Max(ends)] = set_end(@, Ts(o.ts))]
       [] OTHER -> insert_version_raw(c, Version(Absent, Nil, Ts(o.ts), TRUE))

(* maybe_recover_logical_log reads frames as long as their checksums chain, *)
(* and the one an abandoned append has left does                            *)
ReadableLog == log \o tail

(* It replays those above the boundary in the metadata row of the B-tree. *)
ReplayedFrames == SelectSeq(ReadableLog, LAMBDA f : f.ts > Last(img).meta)

RecoveredChain(k) ==
  FoldLeft(Replay, <<>>, FlattenSeq([i \in DOMAIN ReplayedFrames |-> ReplayedFrames[i].ops[k]]))

(* max_commit_ts_seen: of the boundary and the frames, replayed or not *)
MaxSeen == Max({Last(img).meta} \cup {ReadableLog[i].ts : i \in DOMAIN ReadableLog})

Logged == {t \in Tx : pc[t] \in {"logged", "committed", "rewritten", "finished"}}

(* The transaction, rolled back, whose frame a restart would replay *)
Leftover == {t \in Tx : /\ pc[t] = "leftover" /\ end_ts[t] > Last(img).meta
                        /\ \E i \in DOMAIN tail : tail[i].ts = end_ts[t]}

(* maybe_complete_interrupted_checkpoint_nonblock refuses to open: the WAL  *)
(* has committed frames and the log has no header.                          *)
RefusesToOpen == ~passive /\ WalPos > wal_base /\ ~log_header

(* A crash loses the memory; the commits that reached the log are found     *)
(* there or in the B-tree by the restart that follows, which also takes     *)
(* what an abandoned append has left for a commit.                          *)
Crash ==
  /\ open /\ Load < MaxLoad
  /\ faults' = faults + 1
  /\ open' = ~RefusesToOpen
  /\ pc' = [t \in Tx |-> CASE pc[t] = "unborn" -> "unborn"
                           [] t \in Logged \cup Leftover -> "finished"
                           [] OTHER -> "aborted"]
  /\ effect' = [t \in Tx |-> IF pc'[t] = "aborted" THEN [k \in Key |-> "none"] ELSE effect[t]]
  /\ begin_ts' = [t \in Tx |-> 0]
  /\ end_ts' = [t \in Tx |-> IF pc'[t] = "finished" THEN end_ts[t] ELSE 0]
  /\ pin' = [t \in Tx |-> Unpinned]
  /\ chain' = [k \in Key |-> RecoveredChain(k)]
  /\ clock' = MaxSeen + 1
  /\ last_committed_tx_ts' = IF ReadableLog = <<>> THEN 0 ELSE MaxSeen
  /\ dirty' = [k \in Key |-> 0] /\ full_scan' = TRUE
  /\ durable_txid_max' = Last(img).meta
  /\ wal_base' = WalPos /\ nbackfills' = WalPos /\ backfill_floor' = 0
  /\ log_header' = (log_header \/ WalPos > wal_base)
  /\ log' = ReadableLog /\ tail' = <<>> /\ max_appended' = 0
  /\ ck' = Idle
  /\ UNCHANGED <<passive, img, ckpts>>

CheckpointNext ==
  \/ \E t \in Tx :
       \/ Pin(t) \/ Begin(t) \/ EndRead(t)
       \/ \E k \in Key : Put(t, k) \/ Del(t, k)
       \/ Prepare(t) \/ MarkDirtyKeys(t) \/ AppendLog(t) \/ AppendFails(t) \/ Rollback(t)
       \/ CommitEnd(t) \/ RewriteLiveVersions(t) \/ FinalizeCommit(t)
       \/ CleanupDroppedCommit(t)
  \/ CkStart \/ CkCollect \/ CkCommitPager \/ CkPublish \/ CkBackfill
  \/ CkTruncateLog \/ CkTruncateWal \/ CkGc \/ CkFinalize \/ CkFail
  \/ GcIncremental \/ Crash

CheckpointSpec == CheckpointInit /\ [][CheckpointNext]_vars

-----------------------------------------------------------------------------
(* Properties *)

(* The row that the transactions of S leave, by their commit timestamps *)
HistoryRow(S, k) ==
  LET writers == {t \in S : effect[t][k] # "none"}
      newest == CHOOSE t \in writers : \A u \in writers : end_ts[u] <= end_ts[t]
  IN IF writers = {} THEN Image(0).rows[k]
     ELSE IF effect[newest][k] = "put" THEN newest ELSE Absent

(* Every running transaction reads its own change of a row or else the last *)
(* one committed before it began, whatever checkpoints have written to the  *)
(* B-tree, whatever the collector has dropped from the chains, and also     *)
(* after a recovery.                                                        *)
ReadsAcrossCheckpoint ==
  \A t \in Tx, k \in Key :
    pc[t] = "active" =>
      Read(t, k) = CASE effect[t][k] = "put" -> t
                     [] effect[t][k] = "del" -> Absent
                     [] OTHER -> HistoryRow({T \in Tx : EndedBefore(T, t)}, k)

(* The row a first reader finds over the chain c and the B-tree row *)
FreshRow(c, row) ==
  LET live == {i \in DOMAIN c : c[i].begin # Nil /\ c[i].end = Nil}
  IN IF live # {} THEN c[Max(live)].row
     ELSE IF c # <<>> THEN Absent ELSE row

(* At every moment a restart that opens the database finds the commits that *)
(* reached the log, all of each: the checkpoint cuts the log only after the *)
(* B-tree has its rows, and the boundary it leaves skips no other frame.    *)
(* It finds nothing else but, wholly, the one transaction whose append was  *)
(* abandoned after its frame got to the file: that one was rolled back, and *)
(* comes back unless another append or a cut of the log is first.           *)
RestartFindsCommits ==
  open /\ ~RefusesToOpen =>
    \A k \in Key :
      FreshRow(RecoveredChain(k), Last(img).rows[k]) = HistoryRow(Logged \cup Leftover, k)

(* A B-tree the checkpoint commits is the history up to the boundary in its *)
(* metadata row: nothing newer has slipped in, nothing older is missing.    *)
BTreeIsSnapshot ==
  open => \A k \in Key :
    Last(img).rows[k] = HistoryRow({t \in Logged : end_ts[t] <= Last(img).meta}, k)

(* The comment on clears_whole_logical_log: "every frame in the log was     *)
(* written to the B-tree by this checkpoint" when the log is cut.           *)
CutFramesAreWritten ==
  ck.at = "cut" /\ max_appended <= CutBoundary =>
    \A i \in DOMAIN log : log[i].ts <= Last(img).meta
=============================================================================
