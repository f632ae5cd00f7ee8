----------------------------- MODULE GroupCommit -----------------------------
(***************************************************************************)
(* Group commit: core/mvcc/database/group_commit.rs and the states of the  *)
(* commit state machine (mod.rs) that append to the logical log.           *)
(*                                                                         *)
(* A committing transaction queues its log record under a ticket.  Whoever *)
(* gets the commit lock leads: it takes the queue, appends the records one *)
(* by one, syncs once and moves durable_through; the others sleep until    *)
(* their ticket is durable.  A statement that drives a commit, leading or  *)
(* waiting, can fail or be dropped wherever it yields; its cleanup hands   *)
(* back what it claimed.                                                   *)
(*                                                                         *)
(* Every transaction here is a writer that has passed validation and is    *)
(* Preparing (MvccTx has the rest of its life).                            *)
(***************************************************************************)
EXTENDS Naturals, Sequences, FiniteSets

CONSTANTS
  Tx,
  None,
  Full,       \* the transactions whose connection runs with synchronous=FULL
  Fragile,    \* the transactions whose statement may fail or be dropped
  Observed    \* the transactions some reader depends on

ASSUME GroupConstants ==
  /\ IsFiniteSet(Tx) /\ None \notin Tx
  /\ Full \subseteq Tx /\ Fragile \subseteq Tx /\ Observed \subseteq Tx

VARIABLES
  (* GroupState *)
  next_ticket, durable_through, written_through, full_sync_written_through,
  pending, retry, issued, abandoned, parked,
  (* the commit lock, and who holds it (pager_commit_lock_held) *)
  locked, lock_held,
  (* the transactions *)
  txs, state, log_appended, dep_set,
  (* the commit state machines *)
  pc, ticket, batch, appending,
  (* the logical log *)
  file,         \* the frames below the offset, each the transaction it is of
  tail,         \* the frame written at the offset, if any
  crc_pending,  \* pending_running_crc is set
  synced        \* the number of frames an fsync has covered

queueVars == <<next_ticket, pending>>
markVars  == <<durable_through, written_through, full_sync_written_through>>
waitVars  == <<retry, issued, abandoned>>
lockVars  == <<locked, lock_held, parked>>
txVars    == <<txs, state, log_appended, dep_set>>
machVars  == <<ticket, batch, appending>>
logVars   == <<file, tail, crc_pending, synced>>
groupVars == <<pc, queueVars, markVars, waitVars, lockVars, txVars, machVars, logVars>>

NoBatch == [writing |-> [ticket |-> 0, tx |-> None], rest |-> <<>>, advanced |-> 0]

GroupInit ==
  /\ next_ticket = 0 /\ durable_through = 0 /\ written_through = 0
  /\ full_sync_written_through = 0
  /\ pending = <<>> /\ retry = {} /\ issued = None /\ abandoned = {} /\ parked = {}
  /\ locked = FALSE /\ lock_held = [t \in Tx |-> FALSE]
  /\ txs = Tx
  /\ state = [t \in Tx |-> "Preparing"]
  /\ log_appended = [t \in Tx |-> FALSE]
  /\ dep_set = Observed
  /\ pc = [t \in Tx |-> "begin"]
  /\ ticket = [t \in Tx |-> 0]
  /\ batch = [t \in Tx |-> NoBatch]
  /\ appending = [t \in Tx |-> FALSE]
  /\ file = <<>> /\ tail = None /\ crc_pending = FALSE /\ synced = 0

Goto(t, from, to) == pc[t] = from /\ pc' = [pc EXCEPT ![t] = to]

Owner(t) == batch[t].writing.tx

-----------------------------------------------------------------------------
(* Queueing and waiting *)

(* CommitState::BeginCommitLogicalLog: enqueue *)
Enqueue(t) ==
  /\ Goto(t, "begin", "await")
  /\ next_ticket' = next_ticket + 1
  /\ ticket' = [ticket EXCEPT ![t] = next_ticket + 1]
  /\ pending' = Append(pending, [ticket |-> next_ticket + 1, tx |-> t])
  /\ UNCHANGED <<markVars, waitVars, lockVars, txVars, batch, appending, logVars>>

(* step_await_group_commit, its two checks before the lock *)
Await(t) ==
  /\ pc[t] = "await"
  /\ pc' = [pc EXCEPT ![t] = IF durable_through >= ticket[t] THEN "endlog"
                             ELSE IF ticket[t] \in retry THEN "begin" ELSE "lock"]
  /\ retry' = IF durable_through >= ticket[t] THEN retry ELSE retry \ {ticket[t]}
  /\ UNCHANGED <<queueVars, markVars, issued, abandoned, lockVars, txVars, machVars, logVars>>

LockBusy(t) ==
  /\ Goto(t, "lock", "park") /\ locked
  /\ UNCHANGED <<queueVars, markVars, waitVars, lockVars, txVars, machVars, logVars>>

(* The lock was free, but a leader that failed wants this record again. *)
RetryUnderLock(t) ==
  /\ Goto(t, "lock", "begin") /\ ~locked /\ ticket[t] \in retry
  /\ retry' = retry \ {ticket[t]}
  /\ parked' = {}
  /\ UNCHANGED <<queueVars, markVars, issued, abandoned, locked, lock_held, txVars, machVars, logVars>>

(* Mutant: the leader only notes that it leads. *)
HoldNothing(t) == UNCHANGED locked /\ lock_held' = [lock_held EXCEPT ![t] = TRUE]

HoldLock(t) == locked' = TRUE /\ lock_held' = [lock_held EXCEPT ![t] = TRUE]

(* take_work: GroupWork::Lead *)
Lead(t) ==
  /\ Goto(t, "lock", "upgrade") /\ ~locked
  /\ retry = {} /\ pending # <<>>
  /\ HoldLock(t)
  /\ batch' = [batch EXCEPT ![t] = [writing |-> Head(pending), rest |-> Tail(pending), advanced |-> 0]]
  /\ pending' = <<>>
  /\ UNCHANGED <<next_ticket, markVars, waitVars, parked, txVars, ticket, appending, logVars>>

NothingToLead(t) == ~locked /\ ticket[t] \notin retry /\ (retry # {} \/ pending = <<>>)

(* take_work: GroupWork::SyncPrefix *)
LeadSync(t) ==
  /\ Goto(t, "lock", "prefix") /\ NothingToLead(t)
  /\ written_through > durable_through
  /\ HoldLock(t)
  /\ UNCHANGED <<queueVars, markVars, waitVars, parked, txVars, machVars, logVars>>

(* take_work: GroupWork::None; the lock is released, which wakes everyone. *)
NoWork(t) ==
  /\ Goto(t, "lock", "park") /\ NothingToLead(t)
  /\ written_through <= durable_through
  /\ parked' = {}
  /\ UNCHANGED <<queueVars, markVars, waitVars, locked, lock_held, txVars, machVars, logVars>>

(* Mutant: park does not look at the commit lock again. *)
CanProgressIfLocked(t) == durable_through >= ticket[t] \/ ticket[t] \in retry

(* The condition of park under the lock on the group state *)
CanProgress(t) == durable_through >= ticket[t] \/ ticket[t] \in retry \/ ~locked

Park(t) ==
  /\ Goto(t, "park", IF CanProgress(t) THEN "await" ELSE "asleep")
  /\ parked' = IF CanProgress(t) THEN parked ELSE parked \cup {ticket[t]}
  /\ UNCHANGED <<queueVars, markVars, waitVars, locked, lock_held, txVars, machVars, logVars>>

Woken(t) ==
  /\ Goto(t, "asleep", "await") /\ ticket[t] \notin parked
  /\ UNCHANGED <<queueVars, markVars, waitVars, lockVars, txVars, machVars, logVars>>

-----------------------------------------------------------------------------
(* Leading *)

(* advance_group_or_sync *)
Advance(t) ==
  IF batch[t].rest = <<>>
  THEN pc' = [pc EXCEPT ![t] = "sync"] /\ UNCHANGED batch
  ELSE /\ pc' = [pc EXCEPT ![t] = "upgrade"]
       /\ batch' = [batch EXCEPT ![t] = [writing |-> Head(@.rest), rest |-> Tail(@.rest),
                                         advanced |-> @.advanced]]

(* UpgradeLogicalLogHeader and WriteLogicalLog both skip a record whose      *)
(* transaction has been rolled back.                                         *)
Skip(t) ==
  /\ pc[t] \in {"upgrade", "write"} /\ Owner(t) \notin txs
  /\ Advance(t)
  /\ UNCHANGED <<queueVars, markVars, waitVars, lockVars, txVars, ticket, appending, logVars>>

UpgradeLogicalLogHeader(t) ==
  /\ Goto(t, "upgrade", "write") /\ Owner(t) \in txs
  /\ UNCHANGED <<queueVars, markVars, waitVars, lockVars, txVars, machVars, logVars>>

WriteLogicalLog(t) ==
  /\ Goto(t, "write", "logtx") /\ Owner(t) \in txs
  /\ UNCHANGED <<queueVars, markVars, waitVars, lockVars, txVars, machVars, logVars>>

(* log_tx: the frame goes to the offset, which stays where it is *)
LogTx(t) ==
  /\ Goto(t, "logtx", "issue")
  /\ tail' = Owner(t) /\ crc_pending' = TRUE
  /\ UNCHANGED <<queueVars, markVars, waitVars, lockVars, txVars, machVars, file, synced>>

(* log_tx returns an error; the state machine is already in FinishLogicalLogWrite *)
LogTxFails(t) ==
  /\ Goto(t, "logtx", "finish") /\ t \in Fragile
  /\ UNCHANGED <<queueVars, markVars, waitVars, lockVars, txVars, machVars, logVars>>

(* note_write_issued; pending_log_append_bytes is set *)
NoteWriteIssued(t) ==
  /\ Goto(t, "issue", "finish")
  /\ issued' = Owner(t)
  /\ appending' = [appending EXCEPT ![t] = TRUE]
  /\ UNCHANGED <<queueVars, markVars, retry, abandoned, lockVars, txVars, ticket, batch, logVars>>

Max(a, b) == IF a < b THEN b ELSE a
Min(a, b) == IF a < b THEN a ELSE b

(* note_written *)
Noted(n) == IF \E hole \in retry : hole <= n THEN written_through ELSE Max(written_through, n)

(* note_full_sync_written, for a record of a FULL transaction *)
FullMark(t) ==
  IF Owner(t) \in Full THEN Max(full_sync_written_through, batch[t].writing.ticket)
  ELSE full_sync_written_through

(* FinishLogicalLogWrite and mark_log_record_written: the offset advances ... *)
MarkLogRecordWritten(t) ==
  /\ Goto(t, "finish", "appended") /\ appending[t]
  /\ appending' = [appending EXCEPT ![t] = FALSE]
  /\ file' = Append(file, tail) /\ tail' = None /\ crc_pending' = FALSE
  /\ written_through' = Noted(batch[t].writing.ticket)
  /\ full_sync_written_through' = FullMark(t)
  /\ batch' = [batch EXCEPT ![t].advanced = batch[t].writing.ticket]
  /\ UNCHANGED <<queueVars, durable_through, waitVars, lockVars, txVars, ticket, synced>>

(* ... the owner is told that its record is in the log ... *)
SetLogAppended(t) ==
  /\ Goto(t, "appended", "clear")
  /\ log_appended' = [log_appended EXCEPT ![Owner(t)] = @ \/ Owner(t) \in txs]
  /\ UNCHANGED <<queueVars, markVars, waitVars, lockVars, txs, state, dep_set, machVars, logVars>>

ClearIssued(t) ==
  /\ Goto(t, "clear", "orphan")
  /\ issued' = None
  /\ UNCHANGED <<queueVars, markVars, retry, abandoned, lockVars, txVars, machVars, logVars>>

(* ... and an owner that was dropped meanwhile is finished by the leader. *)
TakeAbandoned(t) ==
  /\ pc[t] = "orphan"
  /\ IF Owner(t) # t /\ Owner(t) \in abandoned
     THEN /\ abandoned' = abandoned \ {Owner(t)}
          /\ pc' = [pc EXCEPT ![t] = "adopt"]
          /\ UNCHANGED batch
     ELSE Advance(t) /\ UNCHANGED abandoned
  /\ UNCHANGED <<queueVars, markVars, retry, issued, lockVars, txVars, ticket, appending, logVars>>

(* finish_abandoned_group_waiter: Committed, rewritten, removed from txs.  The *)
(* assertion of remove_tx on the dependents of the owner is in MvccTx; here   *)
(* the leader goes on as if it held.                                          *)
FinishAbandoned(t) ==
  /\ pc[t] = "adopt"
  /\ state' = [state EXCEPT ![Owner(t)] = "Committed"]
  /\ txs' = txs \ {Owner(t)}
  /\ Advance(t)
  /\ UNCHANGED <<queueVars, markVars, waitVars, lockVars, log_appended, dep_set, ticket, appending, logVars>>

(* Mutant: every leader goes by its own mode. *)
OwnModeOnly(t) == t \in Full

(* log_sync_required *)
SyncRequired(t) == t \in Full \/ full_sync_written_through > durable_through

SyncLog(t, from, to) ==
  /\ Goto(t, from, to)
  /\ synced' = IF SyncRequired(t) THEN Len(file) ELSE synced
  /\ UNCHANGED <<queueVars, markVars, waitVars, lockVars, txVars, machVars, file, tail, crc_pending>>

SyncLogicalLog(t) == SyncLog(t, "sync", "endlog")
SyncGroupPrefix(t) == SyncLog(t, "prefix", "prefixed")

(* The fsync of either state fails: nothing is left but to drop the machine. *)
SyncFails(t) ==
  /\ t \in Fragile /\ pc[t] \in {"sync", "prefix"}
  /\ pc' = [pc EXCEPT ![t] = "failed"]
  /\ UNCHANGED <<queueVars, markVars, waitVars, lockVars, txVars, machVars, logVars>>

(* mark_durable(written_through) with dense_prefix_cap *)
Durable ==
  LET holes == {h \in retry : h <= written_through}
      cap == IF holes = {} THEN written_through
             ELSE (CHOOSE h \in holes : \A g \in holes : h <= g) - 1
  IN Max(durable_through, cap)

(* pager_commit_lock_held is swapped to false, and the lock released if it was set. *)
Unlocked(t) ==
  /\ locked' = (locked /\ ~lock_held[t])
  /\ lock_held' = [lock_held EXCEPT ![t] = FALSE]

(* unlock_commit_lock_if_held: releasing the lock wakes every sleeper. *)
UnlockIfHeld(t) == Unlocked(t) /\ parked' = IF lock_held[t] THEN {} ELSE parked

GroupPrefixSynced(t) ==
  /\ Goto(t, "prefixed", "await")
  /\ durable_through' = Durable
  /\ UnlockIfHeld(t)
  /\ UNCHANGED <<queueVars, written_through, full_sync_written_through, waitVars, txVars, machVars, logVars>>

-----------------------------------------------------------------------------
(* Ending *)

(* EndCommitLogicalLog: a leader publishes durable_through and wakes ... *)
EndCommitLogicalLog(t) ==
  /\ Goto(t, "endlog", "commit")
  /\ durable_through' = IF batch[t] # NoBatch THEN Durable ELSE durable_through
  /\ parked' = IF batch[t] # NoBatch THEN {n \in parked : n > durable_through'} ELSE parked
  /\ batch' = [batch EXCEPT ![t] = NoBatch]
  /\ UNCHANGED <<queueVars, written_through, full_sync_written_through, waitVars,
                 locked, lock_held, txVars, ticket, appending, logVars>>

CommitEnd(t) ==
  /\ Goto(t, "commit", "finalize")
  /\ state' = [state EXCEPT ![t] = "Committed"]
  /\ UNCHANGED <<queueVars, markVars, waitVars, lockVars, txs, log_appended, dep_set, machVars, logVars>>

(* notify_committed_dependents, unlock and remove_tx of a Committed t *)
Finish(t, from, to) ==
  /\ Goto(t, from, to)
  /\ dep_set' = dep_set \ {t}
  /\ UnlockIfHeld(t)
  /\ txs' = txs \ {t}
  /\ UNCHANGED <<queueVars, markVars, waitVars, state, log_appended, machVars, logVars>>

FinalizeCommit(t) == Finish(t, "finalize", "acked")

-----------------------------------------------------------------------------
(* The statement that drives the commit fails or is dropped.                *)

(* Mutant: a rollback does not abort its dependents. *)
RolledBackQuietly(o) ==
  /\ state' = [state EXCEPT ![o] = "Aborted"]
  /\ txs' = txs \ {o}
  /\ UNCHANGED dep_set

(* rollback_tx_inner of transaction o *)
RolledBack(o) ==
  /\ state' = [state EXCEPT ![o] = "Aborted"]
  /\ dep_set' = dep_set \ {o}
  /\ txs' = txs \ {o}

(* Where a commit yields or returns an error; "finish" without a write in    *)
(* flight and "failed" are the errors.                                       *)
YieldPoints == {"begin", "await", "asleep", "upgrade", "finish", "failed", "endlog",
                "prefixed", "commit", "finalize"}

(* The queue without its first entry for ticket n *)
Without(queue, n) ==
  LET at == {i \in 1..Len(queue) : queue[i].ticket = n}
      index == CHOOSE i \in at : \A j \in at : i <= j
  IN IF at = {} THEN queue
     ELSE SubSeq(queue, 1, index - 1) \o SubSeq(queue, index + 1, Len(queue))

(* release_group_claim of a waiter: drop_pending *)
DropWaiting(t) ==
  /\ pc[t] \in {"await", "asleep"}
  /\ retry' = retry \ {ticket[t]}
  /\ parked' = parked \ {ticket[t]}
  /\ pending' = Without(pending, ticket[t])
  /\ UNCHANGED <<next_ticket, markVars, issued, abandoned, locked, lock_held, txVars, machVars, logVars>>

(* Mutant: the records behind the failed one are lost. *)
LostRest(t) == <<>>

(* What a leader that has not marked its record gives back to the queue *)
HandedBack(t) ==
  IF pc[t] = "upgrade" THEN <<batch[t].writing>> \o batch[t].rest ELSE batch[t].rest

(* release_group_claim of a leader: what it has written is noted, what it    *)
(* has not goes back; discard_pending_log_write leaves the frame behind the  *)
(* offset where it is.                                                       *)
DropLeading(t) ==
  /\ batch[t] # NoBatch
  /\ LET o == Owner(t)
         inFlight == pc[t] = "finish"
         another == inFlight /\ o # t
         orphan == another /\ o \in abandoned
         again == IF another /\ ~orphan THEN {batch[t].writing.ticket} ELSE {}
         noted == IF batch[t].advanced = 0 THEN written_through ELSE Noted(batch[t].advanced)
         below(n) == IF again # {} THEN Min(n, batch[t].writing.ticket - 1) ELSE n
     IN /\ pending' = HandedBack(t) \o pending
        /\ issued' = IF inFlight THEN None ELSE issued
        /\ abandoned' = IF orphan THEN abandoned \ {o} ELSE abandoned
        /\ retry' = retry \cup again
        /\ written_through' = below(noted)
        /\ durable_through' = below(durable_through)
        /\ parked' = parked \ again
        /\ IF orphan /\ o \in txs THEN RolledBack(o) ELSE UNCHANGED <<state, dep_set, txs>>
  /\ batch' = [batch EXCEPT ![t] = NoBatch]
  /\ crc_pending' = (crc_pending /\ ~appending[t])
  /\ appending' = [appending EXCEPT ![t] = FALSE]
  /\ UNCHANGED <<next_ticket, full_sync_written_through, locked, lock_held, log_appended,
                 ticket, file, tail, synced>>

DropIdle(t) ==
  /\ batch[t] = NoBatch /\ pc[t] \notin {"await", "asleep"}
  /\ UNCHANGED <<queueVars, markVars, waitVars, lockVars, txVars, machVars, logVars>>

(* cleanup_unfinished_commit, its first half *)
Drop(t) ==
  /\ t \in Fragile /\ pc[t] \in YieldPoints
  /\ DropWaiting(t) \/ DropLeading(t) \/ DropIdle(t)
  /\ pc' = [pc EXCEPT ![t] = "cleanup"]

(* Mutant: a write that was issued counts as done. *)
LoggedOrIssued(t) == log_appended[t] \/ state[t] = "Committed" \/ issued = t

(* cleanup_dropped_commit: a record in the log decides for commit. *)
LoggedWhenDropped(t) == log_appended[t] \/ state[t] = "Committed"

CleanupDroppedCommit(t) ==
  /\ pc[t] = "cleanup"
  /\ IF LoggedWhenDropped(t)
     THEN /\ state' = [state EXCEPT ![t] = "Committed"]
          /\ pc' = [pc EXCEPT ![t] = "complete"]
     ELSE pc' = [pc EXCEPT ![t] = "giveup"] /\ UNCHANGED state
  /\ UNCHANGED <<queueVars, markVars, waitVars, lockVars, txs, log_appended, dep_set, machVars, logVars>>

CompleteDropped(t) == Finish(t, "complete", "dropped")

(* abandon_if_issued: the leader has the record in hand and will decide ... *)
Abandon(t) ==
  /\ Goto(t, "giveup", "left") /\ issued = t
  /\ abandoned' = abandoned \cup {t}
  /\ UNCHANGED <<queueVars, markVars, retry, issued, lockVars, txVars, machVars, logVars>>

(* ... or nobody has, and the transaction is rolled back. *)
RollbackDropped(t) ==
  /\ Goto(t, "giveup", "dropped") /\ issued # t
  /\ RolledBack(t)
  /\ UnlockIfHeld(t)
  /\ UNCHANGED <<queueVars, markVars, waitVars, log_appended, machVars, logVars>>

(* The assertion that ends cleanup_unfinished_commit *)
Leave(t) ==
  /\ Goto(t, "left", IF t \notin txs \/ t \in abandoned THEN "dropped" ELSE "panic")
  /\ UNCHANGED <<queueVars, markVars, waitVars, lockVars, txVars, machVars, logVars>>

-----------------------------------------------------------------------------
Step(t) ==
  \/ Enqueue(t)
  \/ Await(t)
  \/ LockBusy(t)
  \/ RetryUnderLock(t)
  \/ Lead(t)
  \/ LeadSync(t)
  \/ NoWork(t)
  \/ Park(t)
  \/ Woken(t)
  \/ Skip(t)
  \/ UpgradeLogicalLogHeader(t)
  \/ WriteLogicalLog(t)
  \/ LogTx(t)
  \/ NoteWriteIssued(t)
  \/ MarkLogRecordWritten(t)
  \/ SetLogAppended(t)
  \/ ClearIssued(t)
  \/ TakeAbandoned(t)
  \/ FinishAbandoned(t)
  \/ SyncLogicalLog(t)
  \/ SyncGroupPrefix(t)
  \/ GroupPrefixSynced(t)
  \/ EndCommitLogicalLog(t)
  \/ CommitEnd(t)
  \/ FinalizeCommit(t)
  \/ CleanupDroppedCommit(t)
  \/ CompleteDropped(t)
  \/ Abandon(t)
  \/ RollbackDropped(t)
  \/ Leave(t)

(* An error ends the statement: its cleanup follows at once. *)
DropFailed(t) == (pc[t] = "failed" \/ (pc[t] = "finish" /\ ~appending[t])) /\ Drop(t)

Ended == {"acked", "dropped", "panic"}

AllEnded == (\A t \in Tx : pc[t] \in Ended) /\ UNCHANGED groupVars

GroupNext ==
  \/ \E t \in Tx : Step(t) \/ LogTxFails(t) \/ SyncFails(t) \/ Drop(t)
  \/ AllEnded

GroupSpec == GroupInit /\ [][GroupNext]_groupVars

(* A statement is stepped until it ends or is dropped, and a cleanup runs to  *)
(* its end; nobody has to fail.                                               *)
GroupFairSpec == GroupSpec /\ \A t \in Tx : WF_groupVars(Step(t) \/ DropFailed(t))

-----------------------------------------------------------------------------
(* Properties *)

Logged(t) == \E i \in 1..Len(file) : file[i] = t
Waiting   == {"await", "lock", "park", "asleep"}

(* A transaction is published as Committed only when its own record is in the *)
(* log, whoever appended it and whoever was dropped on the way, and no record *)
(* is appended twice, although leaders fail and waiters queue their records   *)
(* again (two frames of one transaction would be replayed).                   *)
CommittedIsLoggedOnce ==
  /\ \A t \in Tx : state[t] = "Committed" => Logged(t)
  /\ \A i, j \in 1..Len(file) : file[i] = file[j] => i = j

(* A waiter whose ticket is at or below written_through, and so may be        *)
(* released by the next sync, has its record in the log: the watermark never  *)
(* covers the hole that a failed leader left (dense_prefix_cap).              *)
WatermarkCoversLogged ==
  \A t \in Tx : pc[t] \in Waiting /\ written_through >= ticket[t] => Logged(t)

(* A commit with synchronous=FULL that returns to its client is on disk, also *)
(* when the leader of its group runs with another mode.                       *)
FullIsSynced ==
  \A t \in Full : pc[t] = "acked" => \E i \in 1..synced : file[i] = t

(* The write that a leader completes is the one it staged: the expect in      *)
(* advance_offset_after_success ("called without pending deferred write")     *)
(* never fails, and the frame below the new offset is that of its owner.      *)
StagedWriteIsOwn ==
  \A t \in Tx : pc[t] = "finish" /\ appending[t] => crc_pending /\ tail = Owner(t)

(* Every commit ends: no leader's failure, no lost wake-up and no retry leaves *)
(* a waiter asleep or the queue stuck, unless the race of                      *)
(* RolledBackNotAppended leaves a ticket to retry whose commit is gone.        *)
CommitsEnd ==
  \A t \in Tx : <>(pc[t] \in Ended \/ \E u \in Tx : pc[u] \in Ended /\ ticket[u] \in retry)

(* "Waiters that dropped after log_tx. The leader finishes or rolls them back. *)
(* They must not roll back themselves" (GroupState.abandoned): no record of a  *)
(* transaction that was rolled back is appended to the log.                    *)
RolledBackNotAppended == \A t \in Tx : state[t] = "Aborted" => ~Logged(t)

(* The invariant of remove_tx, "commit_dep_set must be drained before removing *)
(* the transaction", for every way out but one: only a commit that its         *)
(* statement abandoned and a leader finished leaves dependents unnotified.     *)
OnlyAdoptedLeaveDependents ==
  \A t \in dep_set \ txs : pc[t] \in {"left", "dropped", "panic"} /\ state[t] = "Committed"

=============================================================================
