------------------------- MODULE SequenceWatermark -------------------------
(* Ids that transactions draw from an AUTOINCREMENT sequence of an MVCC store, *)
(* and the sync push loop that sends the changes they number.  A concurrent    *)
(* transaction draws an id in an inner transaction of its own, so ids commit   *)
(* before, and in another order than, the rows that carry them.  The push loop *)
(* only scans below a watermark: the next id of the sequence, or the lowest id *)
(* of a transaction in flight.                                                 *)
(*                                                                             *)
(* Of a commit three steps are kept: the test of exclusive_tx, the end         *)
(* timestamp with the validation, and the entry in last_committed_tx_ts.       *)
EXTENDS Naturals

CONSTANTS
  STx,             \* transactions that draw ids
  NO_EXCLUSIVE_TX,
  MaxValue         \* max_value of the sequence

ASSUME SequenceAssumption == MaxValue \in Nat /\ NO_EXCLUSIVE_TX \notin STx

None == 0   \* no id: the first is 1

VARIABLES
  last_value,   \* the last row of the backing table that is committed
  published,    \* ... whose commit is in last_committed_tx_ts
  seen,         \* ... that is in the snapshot of an exclusive transaction
  own,          \* ... that it has itself written
  life,         \* the state of a transaction
  exclusive_holder,
  step,         \* where it is in nextval
  value,        \* target_register
  rows,         \* the ids of its rows
  sequence_allocations,
  sequence_watermarks,
  push,         \* where push_logical_changes is
  bound,        \* the lowest allocation, then max_change_id_exclusive
  cursor,       \* last_change_id
  sent,         \* history: the ids of the changes sent
  undone        \* history: an exclusive transaction took back ids it had tracked

valueVars   == <<last_value, published, seen, own>>
trackVars   == <<sequence_allocations, sequence_watermarks>>
nextvalVars == <<valueVars, life, exclusive_holder, step, value, rows, trackVars, undone>>
pushVars    == <<push, bound, cursor, sent>>
seqVars     == <<nextvalVars, pushVars>>

(* The sequence was loaded when the database was opened, and no id is drawn. *)
SequenceInit ==
  /\ last_value = 0 /\ published = 0 /\ sequence_watermarks = 1
  /\ seen = [t \in STx |-> 0] /\ own = [t \in STx |-> 0]
  /\ life = [t \in STx |-> "unborn"] /\ exclusive_holder = NO_EXCLUSIVE_TX
  /\ step = [t \in STx |-> "idle"] /\ value = [t \in STx |-> None]
  /\ rows = [t \in STx |-> {}]
  /\ sequence_allocations = [t \in STx |-> None]
  /\ push = "idle" /\ bound = None /\ cursor = 0 /\ sent = {} /\ undone = FALSE

Running(t) == life[t] \in {"concurrent", "exclusive"}

-----------------------------------------------------------------------------
(* nextval *)

Later(a, b) == IF a < b THEN b ELSE a

BeginConcurrent(t) ==
  /\ life[t] = "unborn" /\ life' = [life EXCEPT ![t] = "concurrent"]
  /\ UNCHANGED <<valueVars, exclusive_holder, step, value, rows, trackVars, undone>>

(* The transaction gets its begin timestamp, and so its snapshot. *)
StartExclusive(t) ==
  /\ life[t] = "unborn" /\ life' = [life EXCEPT ![t] = "acquiring"]
  /\ seen' = [seen EXCEPT ![t] = last_value]
  /\ UNCHANGED <<last_value, published, own, exclusive_holder, step, value, rows, trackVars, undone>>

(* acquire_exclusive_tx, as of its last look at last_committed_tx_ts: a commit *)
(* that has passed its test of exclusive_tx, or is not in last_committed_tx_ts  *)
(* yet, goes unnoticed (ExclusiveTx has the steps).                            *)
AcquireExclusive(t) ==
  /\ life[t] = "acquiring" /\ life' = [life EXCEPT ![t] = "exclusive"]
  /\ exclusive_holder = NO_EXCLUSIVE_TX /\ exclusive_holder' = t
  /\ published <= seen[t]
  /\ UNCHANGED <<valueVars, step, value, rows, trackVars, undone>>

(* Busy: for a commit since, another one, or pager_commit_lock *)
RefuseExclusive(t) ==
  /\ life[t] = "acquiring" /\ life' = [life EXCEPT ![t] = "aborted"]
  /\ seen' = [seen EXCEPT ![t] = 0]
  /\ UNCHANGED <<last_value, published, own, exclusive_holder, step, value, rows, trackVars, undone>>

(* op_sequence_compute_next, for an ascending sequence without CYCLE.  A new    *)
(* inner transaction sees what is committed; an exclusive one its snapshot and  *)
(* what it wrote.                                                               *)
NextValue(t) == (IF life[t] = "exclusive" THEN Later(seen[t], own[t]) ELSE last_value) + 1

(* Up to the insert into the backing table.  The exclusive transaction does it  *)
(* itself (SEQ_PATH_SKIPPED); it registers and commits no inner transaction.    *)
(* Beyond max_value the statement fails.                                        *)
ComputeNext(t) ==
  /\ Running(t) /\ step[t] \in {"idle", "retry"} /\ NextValue(t) <= MaxValue
  /\ value' = [value EXCEPT ![t] = NextValue(t)]
  /\ step' = [step EXCEPT ![t] = IF life[t] = "exclusive" THEN "track" ELSE "register"]
  /\ UNCHANGED <<valueVars, life, exclusive_holder, rows, trackVars, undone>>

Registered(t) ==
  IF sequence_allocations[t] # None /\ sequence_allocations[t] < value[t]
  THEN sequence_allocations[t] ELSE value[t]

(* register_sequence_allocation; the push loop holds the lock while "locked" *)
Register(t, from, to) ==
  /\ step[t] = from /\ step' = [step EXCEPT ![t] = to]
  /\ push # "locked"
  /\ sequence_allocations' = [sequence_allocations EXCEPT ![t] = Registered(t)]
  /\ UNCHANGED <<valueVars, life, exclusive_holder, value, rows, sequence_watermarks, undone>>

(* Mutant: the allocation is only registered once the id is committed. *)
RegisterLate(t) ==
  /\ step[t] = "register" /\ step' = [step EXCEPT ![t] = "commit"]
  /\ UNCHANGED <<valueVars, life, exclusive_holder, value, rows, trackVars, undone>>

(* op_sequence_register_allocation *)
RegisterOuter(t) == Register(t, "register", "commit")

(* CommitState::Initial of an inner commit, or of the transaction's own, that   *)
(* finds no other transaction exclusive                                         *)
CheckExclusive(t) ==
  /\ Running(t) /\ exclusive_holder \in {NO_EXCLUSIVE_TX, t}
  /\ \/ step[t] = "commit" /\ step' = [step EXCEPT ![t] = "tested"]
     \/ step[t] = "idle" /\ step' = [step EXCEPT ![t] = "ending"]
  /\ UNCHANGED <<valueVars, life, exclusive_holder, value, rows, trackVars, undone>>

(* Mutant: the conflict is not noticed. *)
Unconflicted(t) == TRUE

(* check_version_conflicts: nobody has committed a key that t has inserted, an  *)
(* inner transaction one, an exclusive transaction all from its snapshot on.    *)
KeyIsFree(t) ==
  IF life[t] = "exclusive" THEN own[t] = 0 \/ last_value = seen[t] ELSE last_value < value[t]

(* op_sequence_commit_inner_tx: the end timestamp and the validation *)
CommitInner(t) ==
  /\ step[t] = "tested" /\ KeyIsFree(t)
  /\ last_value' = value[t] /\ step' = [step EXCEPT ![t] = "publish"]
  /\ UNCHANGED <<published, seen, own, life, exclusive_holder, value, rows, trackVars, undone>>

(* ... with a WriteWriteConflict, of the key or with an exclusive transaction:  *)
(* back to retry_top_label                                                      *)
CommitConflict(t) ==
  /\ \/ step[t] = "commit" /\ exclusive_holder # NO_EXCLUSIVE_TX
     \/ step[t] = "tested" /\ ~KeyIsFree(t)
  /\ step' = [step EXCEPT ![t] = "retry"]
  /\ UNCHANGED <<valueVars, life, exclusive_holder, value, rows, trackVars, undone>>

(* CommitState::FinalizeCommit *)
PublishInner(t) ==
  /\ step[t] = "publish" /\ step' = [step EXCEPT ![t] = "track"]
  /\ published' = Later(published, value[t])
  /\ UNCHANGED <<last_value, seen, own, life, exclusive_holder, value, rows, trackVars, undone>>

(* op_sequence_track_allocation: the watermark, then the allocation *)
TrackWatermark(t) ==
  /\ step[t] = "track" /\ step' = [step EXCEPT ![t] = "tracked"]
  /\ sequence_watermarks' = value[t] + 1
  /\ UNCHANGED <<valueVars, life, exclusive_holder, value, rows, sequence_allocations, undone>>

TrackAllocation(t) == Register(t, "tracked", "insert")

(* The statement ends: with a row that carries the id, or without one. *)
EndStatement(t, kept) ==
  /\ step[t] = "insert" /\ step' = [step EXCEPT ![t] = "idle"]
  /\ rows' = [rows EXCEPT ![t] = IF kept THEN @ \cup {value[t]} ELSE @]
  /\ own' = [own EXCEPT ![t] = IF life[t] = "exclusive" THEN value[t] ELSE @]
  /\ value' = [value EXCEPT ![t] = None]
  /\ UNCHANGED <<last_value, published, seen, life, exclusive_holder, trackVars, undone>>

(* It fails or is dropped: cleanup_orphaned_seq_inner_tx.  What an exclusive  *)
(* transaction wrote for it is undone; an id that was committed stays used.   *)
FailStatement(t) ==
  /\ step[t] \notin {"idle", "ending"} /\ step' = [step EXCEPT ![t] = "idle"]
  /\ value' = [value EXCEPT ![t] = None]
  /\ undone' = (undone \/ (life[t] = "exclusive" /\ step[t] \in {"tracked", "insert"}))
  /\ UNCHANGED <<valueVars, life, exclusive_holder, rows, trackVars>>

(* remove_tx drops the allocations; sequence_watermark skips them before that. *)
End(t, outcome) ==
  /\ Running(t) /\ step' = [step EXCEPT ![t] = "idle"]
  /\ life' = [life EXCEPT ![t] = outcome]
  /\ exclusive_holder' = IF exclusive_holder = t THEN NO_EXCLUSIVE_TX ELSE exclusive_holder
  /\ sequence_allocations' = [sequence_allocations EXCEPT ![t] = None]
  /\ seen' = [seen EXCEPT ![t] = 0] /\ own' = [own EXCEPT ![t] = 0]
  /\ UNCHANGED <<value, sequence_watermarks>>

(* The commit publishes the rows and, of an exclusive transaction, its ids. *)
CommitOuter(t) ==
  /\ step[t] = "ending" /\ (life[t] = "exclusive" => KeyIsFree(t)) /\ End(t, "committed")
  /\ last_value' = Later(last_value, own[t]) /\ published' = Later(published, own[t])
  /\ UNCHANGED <<rows, undone>>

(* ROLLBACK, or a conflict of the commit *)
RollbackOuter(t) ==
  /\ step[t] \in {"idle", "ending"} /\ End(t, "aborted")
  /\ rows' = [rows EXCEPT ![t] = {}]
  /\ undone' = (undone \/ own[t] # 0)
  /\ UNCHANGED <<last_value, published>>

-----------------------------------------------------------------------------
(* push_logical_changes *)

Allocated == {sequence_allocations[t] : t \in {u \in STx : Running(u)}} \ {None}

Lowest(m) ==
  IF Allocated = {} THEN m = None ELSE m \in Allocated /\ \A n \in Allocated : m <= n

(* sequence_watermark: the lowest allocation, under the lock of all of them *)
ReadAllocations ==
  /\ push = "idle" /\ push' = "locked"
  /\ \E m \in Allocated \cup {None} : Lowest(m) /\ bound' = m
  /\ UNCHANGED <<nextvalVars, cursor, sent>>

(* ... and the smaller one of it and the sequence's own *)
ReadWatermark ==
  /\ push = "locked" /\ push' = "scan"
  /\ bound' = IF bound = None \/ sequence_watermarks < bound
              THEN sequence_watermarks ELSE bound
  /\ UNCHANGED <<nextvalVars, cursor, sent>>

Committed == UNION {rows[t] : t \in {u \in STx : life[u] = "committed"}}

(* DatabaseChangesIteratorMode::query *)
Changes == {r \in Committed : r > cursor /\ r < bound}

(* refill and send_push_batch: the changes up to the LIMIT, in a new snapshot *)
PushBatch ==
  /\ push = "scan"
  /\ \E m \in Changes :
       /\ cursor' = m
       /\ sent' = sent \cup {r \in Changes : r <= m}
  /\ UNCHANGED <<nextvalVars, push, bound>>

(* Nothing left to send, or an error *)
PushEnd ==
  /\ push = "scan" /\ push' = "idle" /\ bound' = None
  /\ UNCHANGED <<nextvalVars, cursor, sent>>

-----------------------------------------------------------------------------
NextvalStep(t) ==
  \/ BeginConcurrent(t)
  \/ StartExclusive(t)
  \/ AcquireExclusive(t)
  \/ RefuseExclusive(t)
  \/ ComputeNext(t)
  \/ RegisterOuter(t)
  \/ CheckExclusive(t)
  \/ CommitInner(t)
  \/ CommitConflict(t)
  \/ PublishInner(t)
  \/ TrackWatermark(t)
  \/ TrackAllocation(t)
  \/ \E kept \in BOOLEAN : EndStatement(t, kept)
  \/ FailStatement(t)
  \/ CommitOuter(t)
  \/ RollbackOuter(t)

SequenceNext ==
  \/ \E t \in STx : NextvalStep(t) /\ UNCHANGED pushVars
  \/ ReadAllocations
  \/ ReadWatermark
  \/ PushBatch
  \/ PushEnd

SequenceSpec == SequenceInit /\ [][SequenceNext]_seqVars

-----------------------------------------------------------------------------
(* Properties *)

(* The push loop never passes a change: every committed row whose id is not  *)
(* above last_change_id has been sent, whatever order ids and rows commit in  *)
(* (SequenceRegisterAllocation before SequenceCommitInnerTx,                  *)
(* sequence_watermark, the bound of iterate_changes).                         *)
PushMissesNothing == \A r \in Committed : r <= cursor => r \in sent

(* It does not, until an exclusive transaction takes back ids that            *)
(* op_sequence_track_allocation has put below the watermark.                  *)
PushMissesNothingBefore == undone \/ PushMissesNothing

(* An id was committed that is not in the snapshot of this exclusive one. *)
Superseded(t) == life[t] = "exclusive" /\ seen[t] < last_value

(* Two transactions hold rows with the same id only while one of them is an   *)
(* exclusive transaction granted over a commit under way, so no two commit    *)
(* the same id: one that a conflict, a failed statement or an exclusive       *)
(* transaction takes back is drawn again only once nobody has it              *)
(* (op_sequence_commit_inner_tx, check_version_conflicts).                    *)
IdsAreUnique ==
  \A t, u \in STx :
    t # u /\ rows[t] \cap rows[u] # {} => Superseded(t) \/ Superseded(u)
=============================================================================
