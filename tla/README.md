# Turso: a TLA+ verification project

Turso is an in-process, SQLite-compatible database in Rust. This directory
models the parts whose correctness depends on interleavings, crashes, retries
and resource limits, checks them with TLC on small instances and proves the
core with TLAPS. Paths below are relative to `src/`; `PROJECT.json` gives, for
every definition, the lines it models.

## 1. The system

A statement is parsed (`sqlite/parser`), compiled (`core/translate`) to bytecode
and run by the virtual machine (`core/vdbe`), which yields whenever I/O is
pending, so any handler below is a state machine that can be suspended, resumed
or dropped between two steps. Rows live in B-trees (`core/storage/btree.rs`)
over pages cached by the pager (`core/storage/pager.rs`, `page_cache.rs`), and
changes go to a write-ahead log (`core/storage/wal.rs`, shared between processes
through `shared_wal_coordination.rs`). In MVCC mode (`core/mvcc`) rows are also
kept as chains of versions in memory; commits append to a logical log
(`core/mvcc/persistent_storage/logical_log.rs`), and a checkpoint moves the
committed versions into the B-tree. The sync engine (`sync/engine`) exchanges
changes with a remote.

### Inventory

| part | state | operations | what is hard about it | properties |
|------|-------|------------|-----------------------|------------|
| MVCC transactions (`core/mvcc/database/mod.rs`) | `txs`, `finalized_tx_states`; per transaction state, timestamps, `commit_dep_set`, `commit_dep_counter`, `abort_now` | begin, write, commit state machine, rollback, drop of a half-driven commit | speculation on Preparing transactions, cascading aborts, reports to dependents | MvccTx: recoverability, exact counters, cascade, termination |
| row versions (`mod.rs`, `cursor.rs`) | `rows`: chains of versions with `begin` and `end` | seek, insert, update, delete, validation, rewriting ids into timestamps, undo, log record | visibility against a transaction that changes state under the reader, first committer wins | MvccStore: snapshot reads, first committer wins, chains match the log |
| savepoints (`mod.rs`) | stack of created and deleted versions | begin, release, rollback, rollback to | nesting, rows that leave the write set | MvccSavepoint: rollback restores the view |
| group commit (`group_commit.rs`, `mod.rs`, `logical_log.rs`) | tickets, queue, watermarks, retries, abandoned commits, commit lock, staged log write | enqueue, lead, write, sync, hand back, abandon, wake | a leader that fails, a waiter that is dropped, mixed synchronous modes | GroupCommit: logged once, watermark, FULL is synced, every commit ends |
| WAL (`wal.rs`, `pager.rs`, `sqlite3_ondisk.rs`) | header, frame index, read marks, locks, page caches, files | read, write, spill, commit, rollback, checkpoint, restart, truncate, recovery | stale snapshots and caches, frame numbers that are used again, power loss | Wal: snapshot reads, crash safety, index and file agree |
| exclusive transactions (`mod.rs`) | `exclusive_tx`, `last_committed_tx_ts`, `global_header` | acquire, upgrade, release, the tests in `CommitState::Initial`, publication of the header | two loads and a compare-and-swap against a committer, schema changes | ExclusiveTx: an exclusive transaction has seen every commit, no commit across a schema change |
| MVCC checkpoint (`checkpoint_state_machine.rs`), garbage collection, recovery (`mod.rs`) | `durable_txid_max`, dirty keys, chains, logical log, B-tree, WAL | collect, write, commit, publish, cut, truncate; collect chains; recover | a crash between any two steps, commits and readers beside a passive checkpoint | MvccCheckpoint: the B-tree is a snapshot, reads do not notice, a restart finds every commit |
| rowid allocator (`mod.rs`, `cursor.rs`, `vdbe/execute.rs`) | `initialized`, `max_rowid`, lock | seed, allocate, bump | bumps without the lock, the largest rowid, negative rowids | RowidAllocator: rowids increase and are fresh |
| page cache and spilling (`page_cache.rs`, `pager.rs`, `wal.rs`) | SIEVE queue, count of evictable pages, dirty pages, spill state, frames | read, insert, evict, spill, commit, roll back | statements of one connection that interleave at every I/O | PageSpill: every page reads as last written |
| sync engine (`sync/engine/src`) | database files, backups, marker; tape, metadata | replace base; push, pull, apply | a crash between two files, a lost answer | ReplaceBase: all or nothing; the scan of a push is in SequenceWatermark, the rest is not modelled |
| sequences (`vdbe/execute.rs`, `translate/sequence.rs`, `mod.rs`) and the scan of a push (`sync/engine/src/database_tape.rs`) | backing table, `sequence_allocations`, `sequence_watermarks`, `last_change_id` | nextval with its inner transaction, retry, registration, watermark; scan in batches | ids commit in another order than rows | SequenceWatermark: ids are unique, the push loop passes no change |
| multi-process WAL (`shared_wal_coordination.rs`) | reader slots, owners, shared frame index, backfill proof | register, share, release, reclaim; publish | a process that dies at any step, late stores to a slot that has changed hands | ReaderSlots: readers keep their slot, pins are lost only to a late release; the rest is not modelled |
| buffer pool (`buffer_pool.rs`) | bitmaps | allocate, free | full arenas | not modelled |
| B-tree, formats, virtual machine, compiler, functions, bindings | data | sequential algorithms and conversions | data, not interleavings | not modelled |

## 2. Modules

`Wal` stands for itself; the MVCC modules share one vocabulary (a transaction,
its state, `begin_ts`, `end_ts`), each keeping the detail its question needs.

| module | models | uses |
|--------|--------|------|
| `TxOutcome` | the promise of commit dependencies: "T1 is allowed to commit only if T2 commits", outcomes are decided once | |
| `MvccTx` | begin, speculation and registration, the commit state machine, rollback, removal | implements `TxOutcome` |
| `MvccTxProofs` | theorems about `MvccTx` | extends `MvccTx` |
| `MvccStore` | version chains under concurrent statements, commits and rollbacks; composes the transaction states with the chains and the log record | |
| `MvccSavepoint` | savepoints on top of the store | extends `MvccStore` |
| `GroupCommit` | `CommitState::BeginCommitLogicalLog` to `FinalizeCommit`, `group_commit.rs` and the staged append of the logical log | |
| `GroupLeadProofs` | theorems about who leads and whom the leader finishes | extends `GroupCommit` |
| `GroupCommitProofs` | theorems about records, watermarks and the disk | extends `GroupLeadProofs` |
| `Wal` | the WAL of one process, the pager's commit and checkpoint, the files and a power loss | |
| `MvccCheckpoint` | checkpoint state machine, dirty keys, garbage collection, cut of the logical log, crash and recovery, beside transactions | |
| `ExclusiveTx` | exclusive transactions, the schema tests of a commit, the global header | |
| `ExclusiveTxProofs` | theorems about `ExclusiveTx` | extends `ExclusiveTx` |
| `RowidAllocator` | automatic and explicit rowids of one table | |
| `RowidAllocatorProofs` | theorems about `RowidAllocator` | extends `RowidAllocator` |
| `ReplaceBase` | `ReplaceBaseApplyGuard`, the files, power cuts and recovery | |
| `PageSpill` | page cache, spilling, commit and rollback of one connection with several statements | |
| `SequenceWatermark` | ids drawn from an AUTOINCREMENT sequence and the push loop that reads the rows they number | |
| `SequenceWatermarkProofs` | theorems about `SequenceWatermark` | extends `SequenceWatermark` |
| `ReaderSlots` | the reader slots that processes share, registration, release, reclaiming and the death of a process | |
| `ReaderSlotsProofs` | theorems about `ReaderSlots` | extends `ReaderSlots` |
| `MCComponents` | one instance of `RowidAllocator`, `ExclusiveTx`, `ReplaceBase`, `PageSpill`, `SequenceWatermark` and `ReaderSlots`, a behaviour being one of them | extends them |

### MvccTx

`pc[t]` is where the commit or the rollback of `t` stands; the other variables
are the fields of `Transaction` and of the store. The statements of `t` appear
by their effect on dependencies: `Write` fills the write set, `Observe` is a
visibility test that meets a version of a Preparing transaction and decides to
speculate, and `Register` is the later `register_commit_dependency`, with all
that may happen in between. A read of the version chain holds its lock, so
`Rewrite` and `Undo` wait for it (`ChainsFree`). Notifications are sent one at a
time (`TakeDependents`, `Decrement`). `Rollback` covers ROLLBACK, a failed
commit and a dropped one; it is not possible after `log_appended`. `Abandon` is
a statement dropped while another transaction leads with its record in hand:
the leader then finishes the commit (`AfterRewrite`), and removes the transaction
without telling its dependents. Where it has some, the assertion in `remove_tx`
fails, and the transaction stays at the place "panic" (section 4).

### MvccStore and MvccSavepoint

A chain is a sequence of versions whose `begin` and `end` are nil, a
transaction id or a timestamp; `BTree(k)` is the row below the chain. A cursor
takes one step per version (`Seek`, `Shadow`), so commits and rollbacks fall in
the middle of a scan, except while the code holds the write lock of the chain.
`insert` is the two critical sections of the code: reading back the row and
superseding it. Commit dependencies are abstracted to `relied`: a commit waits
until those it relied on have committed, and aborts when one has aborted.
`LoggedEffect` is what the log record says of a row, from which the properties
replay the history. In `MvccSavepoint` a statement opens a savepoint, `Record`
adds what every step creates or deletes to the newest one, and releases and
rollbacks work on the stack.

### GroupCommit

A commit queues its record and its ticket, then leads or waits. The leader
takes the queue as its batch and appends record by record in the stages of the
code (check of the owner, `log_tx`, `note_write_issued`, the completion of the
write, `log_appended`), syncs if somebody needs it, publishes the watermarks and
wakes the waiters. `Fragile` are the commits that may fail or be dropped at any
of their yield points: `Drop...` hands back what the leader holds, and
`CleanupDroppedCommit` finishes, abandons or rolls back the commit. `Observed`
are the commits another transaction depends on.

### Wal

`hdr` is the snapshot that readers load (max_frame, nbackfills, checkpoint_seq,
transaction count, checksum); a checksum is the number of the transaction that
wrote the frame. A reader loads the snapshot, takes mark 0, or claims a mark and
locks it, each a step. A file location holds its current content and the older
ones that a power loss may leave (`cur`, `old`); a sync forgets the older ones,
and a truncation that was not synced keeps the uncut images (`uncut`). `Crash`
picks an outcome, scans the log as `process_frames` does and starts afresh.
`CrashSafe` quantifies over the same outcomes in every state, so it is checked
at every possible crash point also where no `Crash` step is taken. A checkpoint
examines the marks one by one, syncs the log, copies page by page (from the page
cache when `is_valid_for_checkpoint` allows), syncs the database file, publishes
nbackfills and, in TRUNCATE mode, truncates and syncs the log.

### MvccCheckpoint

A store is blocking or passive (`passive`), as chosen when it is opened. A
statement is one step; `Prepare`, `MarkDirtyKeys`, `AppendLog`, `CommitEnd`,
`RewriteLiveVersions` and `FinalizeCommit` are the phases of a commit that a
checkpoint tells apart. `ck` is the state of the checkpoint state machine; it
visits row by row, and garbage-collects row by row. `img` is the sequence of
B-tree images that pager commits made, with the `durable_txid_max` of the
metadata row; `wal_base` and `nbackfills` say which of them are in the database
file, and `pin` which of them a transaction reads. `gc_chain_now` is the rule
set of `gc_version_chain`. `AppendFails` abandons an append whose frame is
written: the offset does not advance, and the frame stays behind it (`tail`)
until the next append overwrites it; recovery, which reads the file, sees
`log \o tail` (`ReadableLog`). `Crash` loses the memory, completes an interrupted
checkpoint and replays the frames above the boundary. What a restart would find
is a function of the files, so `RestartFindsCommits` asks the question in every
state and not only where a `Crash` step is taken.

### ExclusiveTx

`xat[t]` is where a transaction is in `begin_exclusive_tx`, in its commit or in
`cleanup_dropped_commit`. `acquire_exclusive_tx` is the sequence of its loads:
one step per entry of `txs` it examines, one for `last_committed_tx_ts`, the
compare-and-swap, and all of them again. The tests of a commit run under the
lock of the clock, as in the code, so that a timestamp and the decision are one
step. `late`, `dropped`, `fresh` and `regressed` record the windows of section 4.

### RowidAllocator

One step per atomic access: the lock, the seek to the last row, the seed, the
load and the compare-and-swap of `max_rowid`, and the bump of an explicit rowid
or of a row that a rollback restores, which takes no lock. Other transactions
may have deleted rows that the seeding one does not see, or the other way
around (`deleted`, `blind`).

### ReplaceBase

A file has contents and a directory entry; `file` is what the process sees,
`synced` and `entry` what a power cut leaves, with a prefix of `journal`.
The files are those that the apply rewrites (`MainFiles` of them: the database,
its WAL, its log), the revert WAL and the metadata. `create` copies file by file,
then writes the marker; the apply rewrites and syncs its files in any order;
`cleanup` removes the marker and then the copies; an error restores at once, a
crash at the next open. Every loop is one step per file (`next`), and every stage
can fail (`CreateFails`, `ApplyFails`, `RestoreFails`, `CleanupFails`). Only when
the marker is gone does the code reset the revert WAL (`TruncateRevert`,
`SyncRevert`) and write the metadata, which it does not sync (`UpdateMeta`); a
failure or crash there restores nothing (`FinishFails`). `LocalCommit` is the
application's own commit between applies.

### PageSpill

`ring` is the SIEVE queue from the hand on. A page has its flags, the state of
its WAL tag and contents. The statements of the connection share the cache:
`MissStartsSpill` suspends one of them on a write of the pages of another.
`Sweep` is the loop of `evict_one`, bounded as in the code. A commit scans the
dirty pages, reads those that were evicted, and writes all of them; a rollback
empties the cache and forgets the write of a spill in flight, which may land
later (`strays`).

### SequenceWatermark

`step[t]` is where the transaction `t` is in `nextval`. A concurrent transaction
reads the backing table and inserts its next value in an inner transaction
(`ComputeNext`), registers the value as its allocation (`RegisterOuter`), commits
the inner transaction or retries, and publishes the watermark and, again, the
allocation (`TrackWatermark`, `TrackAllocation`). Of a commit three steps are
kept: the test of `exclusive_tx` (`CheckExclusive`), the end timestamp with the
validation (`CommitInner`, or `CommitConflict`), and the entry in
`last_committed_tx_ts` (`PublishInner`); `last_value` and `published` are the last
ids that the second and the third have reached. An exclusive transaction takes
its snapshot first (`StartExclusive`, `seen`) and is granted or refused later
(`AcquireExclusive`, `RefuseExclusive`); the grant compares the snapshot with what
is published, so a commit between its test and its publication goes unnoticed.
It draws ids from its snapshot and what it wrote itself (`own`), in its own name,
and registers last. `EndStatement` leaves a row with the id, or none;
`FailStatement` is an error or a drop at any of the steps. The push loop reads the
lowest allocation and the watermark under their two locks, then scans the
committed rows below the bound batch by batch, each batch in a new snapshot, with
every step of the others in between. `sent` is what it has sent; `undone` records
that an exclusive transaction has taken back ids it had tracked.

### ReaderSlots

A slot is a bit that says it is free, a frame, an owner and a byte to lock; each
access to one of them is a step. `rat[c]` is where the connection `c` is in
`register_reader_for_snapshot`, `unregister_reader`, `reclaim_stale_reader_slots`
or `live_reader_frames`, and `idx[c]` the slot it is at. It also tells who has
the mutexes of the process: `local_lock_state` from the start of a pass over the
slots, a release or an attempt to reclaim until it ends (`HoldsLocal`),
`process_local_ownership` during a pass and for single steps. `byte` is the lock
of the open file description: a second lock by its own process succeeds, and
the death of the process drops it. `Die` leaves the slots as they are, at any
step, and a new process takes the name with another owner record. A reader that
finds no slot after one round of reclaiming gives up (`EndScan`). An assertion
that fails is the place "panic".

## 3. Runs

| run | instance | shows |
|-----|----------|-------|
| tx | 3 transactions that begin one after the other, the first two write first | dependencies are counted exactly, aborts cascade, no commit on top of an abort, outcomes as in `TxOutcome`; every commit and rollback ends, but for one that depends on an abandoned commit |
| store | a row of the B-tree; 3 transactions of one statement, or 2 of two statements with a savepoint stack of depth 2 | snapshot reads, first committer wins, chains and log agree, no dangling id, a rollback to a savepoint restores the view |
| group | 3 commits that queue in order, one FULL and observed, all may fail or be dropped | the log, the watermarks and the lock; every commit ends |
| group_race (violation) | 2 commits | a rolled back record is appended |
| wal_safety | 2 connections, 3 frames, 2 writes, PASSIVE, FULL or RESTART checkpoint, 1 crash | snapshots, durability and atomicity, also after a recovery |
| wal_reuse | 2 connections, 2 frames, 2 checkpoints, PASSIVE and TRUNCATE | reuse of frame numbers in a new generation |
| wal_tail (violation) | TRUNCATE with faults between restart and database sync | an acknowledged commit can be lost |
| ckpt_safety | 2 writers and a reader on one row, or 2 transactions and an error or crash on two rows, one of which changes the second; 2 checkpoints, both kinds of store | the B-tree is the history up to its boundary, readers do not notice, a restart finds the logged commits and nothing else but, until it is overwritten, the frame of an abandoned append |
| ckpt_cut (violation) | 2 transactions, commits of a blocking store may be dropped | a frame is cut that was not written |
| components | 2 connections and rowids up to 2; 2 transactions; 2 files that the apply rewrites beside revert WAL and metadata, 3 applies, 2 power cuts; a cache of 2 pages with a writer and a reader, 3 changes, 4 frames; 2 transactions that draw up to 3 ids; 2 reader slots with a connection in each of 2 processes or 2 in one, 1 death | rowids, exclusive transactions, replace-base, page cache, sequences and push, reader slots |
| spill_race (violation) | the same cache | a page is marked as spilled with older contents in the log |
| push_race (violation) | an exclusive transaction that may roll back and 2 concurrent ones, 2 ids | a change is passed by the push loop |

Bounds. Three transactions give the chain of dependencies in which the middle
one both depends and is depended on, and a third writer on the chain that two
others fight for. One key is enough for the chain properties, since a chain is
the unit of locking and of validation. Three frames hold a commit of two pages
after one of one page, or a spilled page and the commit that writes it again.
Two read marks are one that is raised and one that is claimed (wal_reuse has
one, so that readers must share it or retry). In `Wal`, `Updates` says who
writes which pages (a write of one page and one of two), `Hot` which cached
pages survive a transaction (one in wal_reuse and wal_tail, so that a stale
cache can matter; none in wal_safety, which spends its states on the crash),
`Checkpointers` who runs checkpoints. In ckpt_safety two checkpoints let the
second one meet what the first left behind, and two rows let one change between
the visits of both; `MaxLoad` bounds transactions, errors and crashes together.
The last of them is left to behaviours in which a recovery has brought back the
frame of an abandoned append (`revived`).
`Parts` says which components the runs of `MCComponents` explore: components all
of them, spill_race the page cache, push_race the sequence.
In components, rowids end at 2 so that the counter reaches its end, with -1 and
1 in the B-tree; three applies are a failed one, a repeated one and one after a
restore. The page cache is seen with the header page, which is never evicted,
and one other page, and with two pages that one spill writes together; its
writer changes the lower page first, which changes nothing but the numbering.
After a rollback with a spill in flight the cache is followed until that write
has landed (`UntilStrayLands`). Two transactions and three ids let ids and rows
commit in either order, with a retry and an id that a failure left unused;
transactions begin in a fixed order, which changes nothing but their names.
Two slots are enough for one to be free while the other changes hands and for
both to be taken, so that a registration reclaims; processes meet with a frame
each, siblings with the same frame or with two. One death leaves a slot behind in
every state a slot can be in.
Symmetry is used for transactions, in safety runs only; timestamps and not ids
order them.

In tx a transaction begins after the one before it has left its last statement:
a dependency on a running transaction is impossible, so chains of dependencies
and their aborts remain. What the restriction leaves out is covered by the
proofs of section 5, which hold for any set of transactions without it.

Fairness. `tx` assumes weak fairness of the steps that drive a commit
or a rollback once it has begun: the code runs them in a loop that only yields
for I/O, and the client that called COMMIT keeps stepping its statement.
Statements and the decision to commit are not fair. `group` assumes weak
fairness of each commit's steps: a parked waiter is stepped again when it is
woken, and a commit that was dropped is cleaned up. Its property `CommitsEnd`
leaves out one case, the ticket that the race of `group_race` leaves in `retry`
after its commit is gone: nobody takes it out again.

Passing WAL runs set `TailFaults` to FALSE: the checkpoint does not fail between
the restart of the log in memory and the sync of the database file. With it,
`wal_tail` shows the loss. Likewise ckpt_safety has `DroppedCommits` FALSE (a
passive store drops commits all the same), and ckpt_cut TRUE. The checkpoint
runs do not look for deadlock: transactions, checkpoints and faults are used up.

## 4. Where the code disagrees with its own words

Shown by a run of its own:

1. `RolledBackNotAppended` (`core/mvcc/database/mod.rs:3525`): a waiter dropped
   between the leader's check and `note_write_issued` is rolled back, and its
   record is appended all the same.
2. `CrashSafe` with tail faults (`core/storage/wal.rs:5246`): RESTART and
   TRUNCATE checkpoints restart the log in memory before the database file is
   synced; a failure in between lets the next writer overwrite frames that the
   database file does not durably hold.
3. `CutFramesAreWritten` (`core/mvcc/database/mod.rs:7254`): a commit dropped
   after its record reached the log is finished without raising
   `last_committed_tx_ts`; the next blocking checkpoint does not write its rows
   and clears its frame.
4. `SpilledIsCurrent` (`core/storage/pager.rs:4310`): a page that the writer
   changes while a reader's spill of it is in flight is marked as spilled, and
   may be evicted, although the log has its older contents.
5. `PushMissesNothing` with exclusive transactions that roll back
   (`core/vdbe/execute.rs:15484`): the ids they drew are free again, as the
   comment on `op_sequence_begin_inner_tx` accepts, but the watermark in memory
   stays above them. A push that reads it has a bound above ids that are still to
   be drawn; of two transactions that draw them, it sends the one that commits
   first and passes the other. Until an exclusive transaction takes ids back the
   loop passes nothing (`PushMissesNothingBefore`).

Met as exceptions that a passing property names, so that the run shows them to
be the only ones:

- `SupersedesUnlessRolledBack`: the assertion of `cursor.insert`
  (`core/mvcc/cursor.rs:1963`) that an update can supersede the version it has
  just read fails when a transaction on which the read speculated aborts between
  the two critical sections.
- `OnlyAdoptedLeaveDependents`: a leader that finishes an abandoned commit
  removes the transaction without telling its dependents, which `remove_tx`
  (`mod.rs:6804`) asserts cannot be. `CommitsTerminate` of `MvccTx` names the
  consequence: a dependent of such a commit waits for a report that nobody sends.
  `MvccTx` stops the abandoned transaction at the failed assertion; `GroupCommit`
  lets the leader go on as if the assertion held.
- `RestartFindsCommits`: an append that is abandoned after its write leaves a
  whole frame behind the offset of the log. Its transaction is rolled back; a crash
  before the next append brings it back.
- `IdsAreUnique`: an exclusive transaction that was granted over a commit under
  way draws an id that is already committed (`Superseded`). Its own commit
  conflicts on the backing table, so no two transactions commit one id.
- `ExclusiveMissesOnlyLate`: contrary to the comment on `acquire_exclusive_tx`
  (`mod.rs:7718`), a transaction can become exclusive without having seen a
  commit: one that got its end timestamp after its entry of `txs` was examined
  for the last time and finished before the exclusive one tested again, or that was
  already logged and whose publication is still to come, which for one that
  `cleanup_dropped_commit` finished is never (`late`).
- `HeaderMatchesSnapshot`: `FinalizeCommit` writes the global header when
  `last_committed_tx_ts` allows, so an older commit can put its header back over
  a newer one (`regressed`; `EndCommitLogicalLog` can do the same), contrary to
  the comment at `mod.rs:4497`;
  `begin_exclusive_tx` for a fresh transaction lacks the test for an unpublished
  schema cookie that `begin_tx` has (`fresh`). Here and in
  `NoCommitAcrossSchemaChange`, a schema change that `cleanup_dropped_commit`
  finished does not count: that path publishes neither its header nor its
  timestamp, contrary to the comment at `mod.rs:4490`.
- `AppliedAllOrNothing`: an error or crash in `ReplaceBaseApplyGuard::create` after
  the marker was written, or an error in `cleanup` before its removal is on the
  disk, leaves the marker in place; what the application commits afterwards, or
  the apply that had succeeded, is undone by the restore of the next open
  (`lost`). And the guard does not cover the end of the apply: after an error or
  crash there the new base stands beside the revert WAL or the metadata of an
  older one. The property states what remains: metadata never goes with revert
  frames older than itself.
- `NewestIsKept`: a rollback while a
  reader's spill is in flight leaves a write that lands on slots of the log
  which the next transaction has been given (`strayed`).
- `OnlyReleaseErasesPins`: on Linux `unregister_reader` unlocks the byte
  (`shared_wal_coordination.rs:2170`) before it clears frame, owner and bit. In
  between, a checkpoint or a registration of another process may find the slot
  unlocked and free it, and a reader of that process may take it; the late
  stores then take its pin, although `register_reader` stores the frame "so
  checkpoints can see where this reader is pinned" (line 1984).

Three more are states of a model. `NonOwner` reaches "panic", the assertion
"reader slot released by non-owner" of `unregister_reader`, when the reader whose
slot was cleared by such a late release ends its transaction; the comment there
knows only a slot that was reclaimed under its reader. `CommitPrepare` reaches
"panic", the `expect`
"page evicted between scan and prepare" of `pager.rs`, when a reader evicts a
spilled page while the commit reads others back. `RefusesToOpen` is the error
that `docs/internals/mvcc/RECOVERY_SEMANTICS.md` describes for a WAL with frames beside a
log without a header. The comment in `page_cache.rs` calls `evictable_count` a
conservative upper bound; `CountIsLowerBound` shows that it is a lower bound,
which costs a slow count and nothing else.

Read in the code and not the subject of a run: `set_sequence_watermark` is a
plain insert, so of two transactions the one that publishes last may lower the
watermark, and committed rows above it wait for the next `nextval`, although
`sequence_watermark` is documented as "the minimum of the current sequence
boundary and any lower value already allocated by an active transaction". And
before the first id of a sequence that the same process created there is no
watermark, and the push loop scans without a bound; `SequenceWatermark` begins
with a sequence that was loaded when the database was opened.

## 5. Proofs

`MvccTxProofs` proves, for every finite set of transactions (assumption
`TxFinite`) and a `None` that is not one of them (`NoneNotTx`), every safety
property of tx, and that `MvccTx` implements `TxOutcome`. It also proves four
facts that no run checks: registration always finds its transaction, and never
Active (`RegisterFindsTx`); a committed writer can be looked up, and
only an abandoned commit fails the assertion on unreported dependents
(`OutcomeResolvable`); dependencies point to lower end
timestamps (`DependOnOlder`); no end timestamp is assigned below a running
snapshot (`SnapshotsAreStable`).

The properties are not inductive: that a commit is recoverable depends on every
reliance being registered, reported or turned into `abort_now`, which depends on
where the other transaction stands. `TxIInv` adds

- `PcAgrees`: state, membership in `txs` and `log_appended` follow from `pc`;
- `ClockAhead`: the clock is ahead of all timestamps;
- `ObservedInFlight`: a transaction somebody is about to register on cannot have
  passed the point where it needs the lock of the chain;
- `DepSetsAgree`: dependency sets hold reliances on older transactions only;
- `ReliedAccounted`: the case analysis of a reliance.

There is one lemma per conjunct (`TypeStep`, `PcStep`, ..., `CounterStep`), each
with one case per action. The counter is the only arithmetic over sets: it uses
that `Pending` is finite and what adding or removing one element does to a
cardinality. `Inductive` combines them, and each theorem takes what it needs.

`RowidAllocatorProofs` proves, for any set of connections and any rows, that
the rowids handed out increase and that each is above every row the allocator
has to know of. From `RowidAssumption` only: rows are integers up to `MaxRowid`.
Freshness is not inductive, since it depends on what the connection that seeds
the counter has seen. `RowidInv` adds `LockRules` (who seeds or increments holds
the lock, and `initialized` tells which) and `CounterCovers` (between the seek
and the end of seeding, a row is covered by the seed in hand or by the counter).
`BumpedInv` treats the bumps, which change the counter without the lock.

`SequenceWatermarkProofs` proves, for any set of transactions and any number of
ids, `IdsAreUnique` and `PushMissesNothingBefore`. It assumes a sentinel that is
no transaction (`SequenceAssumption`). `IdInv` says which ids are at most the last
committed one (all but those of the exclusive transaction) and that two
transactions share an id only when one of them is superseded. `PushInv` adds

- `SnapshotRules`: a row is inserted after the commit of its id was published, so
  an exclusive transaction has seen the ids of all that commits beside it, even
  when it was granted over an inner commit under way;
- `AllocationRules`: an id is registered before it is committed, and in any case
  before its row;
- `MarkRules`: no watermark and no bound is above the next id, or above the next id
  of an exclusive transaction that has announced its own (`Reached`);
- `PushRules`: what the push loop has read stays below all that can still commit,
  or such an exclusive transaction stands in between (`Beyond`).

The last is where the two locks matter: between the two reads nobody registers,
so an id that is drawn later is at or above the watermark read second.

`GroupLeadProofs` and `GroupCommitProofs` prove every safety property of group,
for any finite set of transactions, any modes and failures (`GroupConstants`).
They are three layers. `LeadInv` says that one transaction at a time has the
commit lock, that the batch and the staged write are its own, and who may be out
of `txs`; from it follow `StagedWriteIsOwn` and `OnlyAdoptedLeaveDependents`. `ClaimRules` says that a record is in one place: in
the queue or a leader's hand, above `written_through` and not logged, or in the
log once, or to be queued again; this needs that queue and hand are sorted by
ticket, and gives `CommittedIsLoggedOnce` and `WatermarkCoversLogged`. `SyncRules`
says what `durable_through` covers on disk, and gives `FullIsSynced`.

`ExclusiveTxProofs` proves the three properties of `ExclusiveTx` for any
transactions (`ExclusiveAssumption`: `NoTx` is none). `XInv` is a conjunction of
rules about one or two transactions: where a transaction is (`PlaceRule`), the
order of the timestamps (`ClockRule`, `ClockPair`), who holds `exclusive_tx`
(`HolderRule`, `HolderPair`), what an exclusive transaction has yet to find out
(`LatePair`), and when a schema change and its header are published (`SchemaRule`,
`OrderPair`, `HeaderRule`, `HeaderPair`, `AcrossPair`). Every action is first shown
to be a step of a form `StepOf` that says what it does to one transaction and that
it leaves the others alone, so each rule is kept once per form.

`ReaderSlotsProofs` proves `OnlyReleaseErasesPins` for any processes, connections,
slots and deaths, from `ReaderSlotsAssumption` (every connection has a process;
the two sentinels are neither a frame nor a process). The inductive invariant
`SlotInv` says that `local_lock_state` has one holder (`OneHolder`), that a process
has locked the byte of every slot it believes to hold (`LocksHoldBytes`), and what
a connection knows of the slot it is at (`AtSlot`): while it reclaims, its process
has the byte and no reader in the slot; while it releases, no longer. All three
are needed, since a lock on a byte does not exclude the same process: there the
mutex has to. `QuietStep` and `LockingStep` say once what steps that leave the
locks alone, and steps that lock or unlock one byte, preserve. For finitely many
connections (`RConnFinite`) it also proves `ReadersKeepTheirSlot`: `ReadInv` adds
how many readers share a slot, and which of them its count stands for.

Only model-checked: liveness (`CommitsTerminate`, `CommitsEnd`), and the properties
of `MvccStore`, `MvccSavepoint`, `Wal`, `MvccCheckpoint`, `ReplaceBase` and
`PageSpill`. Liveness under fairness and `ENABLED` are out of the prover's reach,
and so is what the recursive sweep of `PageSpill` computes.

## 6. Not modelled

- Index rows, uniqueness, range scans and the dual cursor over chain and B-tree.
- `synchronous=OFF` in `Wal`, the VACUUM lock, raw frames, truncation of the
  database file, the upper bounds of checkpoint modes, savepoints of the pager.
  The exclusive locks that a claim or a checkpoint takes on a mark for a moment
  only make others retry.
- In `MvccSavepoint`: the copy of the header (`header`, `header_dirty`) that a
  savepoint keeps and `rollback_savepoint_changes` puts back (`mod.rs:7555`).
- In `MvccCheckpoint`: schema rows and root pages, connections that ask for a
  checkpoint mode other than that of the store, index chains.
- In `RowidAllocator`: explicit rowids up to 0 before the counter is seeded, and
  rows that the seeding transaction itself had deleted, are not among the rows a
  new rowid has to be above.
- In `ReplaceBase`: directory changes reach the disk in order, a marker is
  written whole, a copy is one step; use of the database after a failed restore is
  left out.
- In `PageSpill`: savepoints and their journal, checkpoints, databases without a
  WAL, the preparation of the WAL header before the first spill. An error of a
  spill rolls the transaction back; a statement with a savepoint of its own
  would roll back to that only.
- Of several processes (`ShmWalCoordination`), all but the reader slots: the
  snapshot and frame index in shared memory, the backfill proof, the bytes of the
  writer and of the checkpoint, the repair at an exclusive open, the release on
  drop of a mapping, the mode with locks of processes (fcntl) and errors of the
  lock calls. `tlaplus/multiprocess` in the repository is a separate specification
  of snapshots, frame index and checkpoints across processes; it leaves out
  deaths, reclaiming and full tables, which `ReaderSlots` has.
- In `ReaderSlots`: what the checkpoint does with the frames it finds, and the
  snapshot that `publish_shared_reader` compares after registering (a read may end
  at any time, which covers the reader that starts over).
- Push and pull of the sync engine beyond the scan of changes: what they
  guarantee depends on the server, which is not part of the repository.
- In `SequenceWatermark`: ids that statements name, setval, CYCLE and descending
  sequences, the compaction of the backing table, the reload of the watermark
  after a schema change, the retry budget of the inner transaction (running out
  of it is a failed statement).
- The buffer pool.
- Sequential code over data, which is most of the repository: B-tree balancing,
  encodings, checksums, encryption, the parser, the compiler, the instructions
  of the virtual machine, functions, bindings and tools. Their correctness is a
  question about data; instances small enough for TLC would not exercise it.

## 7. Plan

1. `Wal`'s reader protocol composed with `ReaderSlots`; the fcntl mode and the
   repair at an exclusive open.
2. The buffer pool; named ids and compaction in `SequenceWatermark`.
3. Proofs: the chains of `MvccStore`; `RestoreFindsBackups` of `ReplaceBase`.
4. Index rows in `MvccStore`.
