------------------------------ MODULE MvccStore ------------------------------
(***************************************************************************)
(* The version chains of core/mvcc/database/mod.rs and the cursor that     *)
(* reads and writes them (core/mvcc/cursor.rs).                            *)
(*                                                                         *)
(* A key has a row in the B-tree, or none, and a chain of versions on top. *)
(* A statement positions a cursor on a key (exists: the chain, then, if    *)
(* nothing there is visible, the B-tree row unless a version shadows it)   *)
(* and may then insert, update or delete the row.  A scan of a chain holds *)
(* its lock and loads the state of the transactions it meets one version   *)
(* at a time, while those go on.                                           *)
(*                                                                         *)
(* Commit dependencies are taken at their promise (TxOutcome, implemented  *)
(* by MvccTx): relied holds the transactions whose commit a transaction    *)
(* assumed, and it commits only after they have.                           *)
(***************************************************************************)
EXTENDS Naturals, Sequences, FiniteSets

CONSTANTS
  Tx,         \* transaction ids
  Key,        \* row ids
  Resident,   \* the keys with a row in the B-tree
  MaxStmts    \* bound: statements of a transaction

ASSUME StoreConstants == Resident \subseteq Key /\ MaxStmts \in Nat

VARIABLES
  clock,
  state, begin_ts, end_ts,
  phase,      \* what the transaction is doing
  relied,     \* whose commit it assumed
  chain,      \* chain[k]: the versions of k, oldest first
  write_set,
  todo,       \* keys of the write set the current loop has still to visit
  op,         \* the statement in progress, and the position of its cursor
  stmts,      \* statements executed
  log,        \* log[t]: the effect of t on each key as its log record tells it
  seen        \* history: what the cursor found on keys t had not written

txVars    == <<clock, state, begin_ts, end_ts, phase>>
storeVars == <<txVars, relied, chain, write_set, todo, op, stmts, log, seen>>

(* Option<TxTimestampOrID>, the type of begin and end *)
Nil     == <<"nil", 0>>
TxID(t) == <<"id", t>>
Ts(n)   == <<"ts", n>>

NoRow     == <<"no row">>
BTreeRow  == <<"btree">>
Untouched == <<"untouched">>

Idle == [kind |-> "idle"]

BTree(k) == IF k \in Resident THEN BTreeRow ELSE NoRow

StoreInit ==
  /\ clock = 1
  /\ state = [t \in Tx |-> "Unborn"]
  /\ begin_ts = [t \in Tx |-> 0]
  /\ end_ts = [t \in Tx |-> 0]
  /\ phase = [t \in Tx |-> "unborn"]
  /\ relied = [t \in Tx |-> {}]
  /\ chain = [k \in Key |-> <<>>]
  /\ write_set = [t \in Tx |-> {}]
  /\ todo = [t \in Tx |-> {}]
  /\ op = [t \in Tx |-> Idle]
  /\ stmts = [t \in Tx |-> 0]
  /\ log = [t \in Tx |-> [k \in Key |-> Untouched]]
  /\ seen = [t \in Tx |-> {}]

-----------------------------------------------------------------------------
(* Visibility *)

(* T is, or is assumed to be, committed before t began. *)
EndedBefore(T, t) ==
  state[T] \in {"Preparing", "Committed"} /\ end_ts[T] < begin_ts[t]

is_begin_visible(t, v) ==
  \/ \E n \in 0..clock : v.begin = Ts(n) /\ n < begin_ts[t]
  \/ v.begin = TxID(t) /\ state[t] = "Active" /\ v.end = Nil
  \/ \E T \in Tx : v.begin = TxID(T) /\ EndedBefore(T, t)

is_end_visible(t, v) ==
  \/ v.end = Nil
  \/ \E n \in 0..clock : v.end = Ts(n) /\ begin_ts[t] < n
  \/ \E T \in Tx \ {t} : v.end = TxID(T) /\ ~EndedBefore(T, t)

is_visible_to(t, v) == is_begin_visible(t, v) /\ is_end_visible(t, v)

is_btree_invalidating_version(t, v) ==
  \/ is_visible_to(t, v)
  \/ \E n \in 0..clock : v.end = Ts(n) /\ n < begin_ts[t]
  \/ v.end = TxID(t)
  \/ \E T \in Tx : v.end = TxID(T) /\ EndedBefore(T, t)

(* Mutant: a version with a speculative end registers nothing. *)
RegistersOnBegin(t, v) ==
  {T \in Tx : state[T] = "Preparing" /\ EndedBefore(T, t) /\ v.begin = TxID(T)}

(* The transactions a visibility test of v registers t on *)
RegistersOn(t, v) ==
  {T \in Tx : /\ state[T] = "Preparing"
              /\ EndedBefore(T, t)
              /\ \/ v.begin = TxID(T)
                 \/ is_begin_visible(t, v) /\ v.end = TxID(T)}

(* ... and the shadowing test, which also looks at the end of tombstones *)
ShadowRegistersOn(t, v) ==
  RegistersOn(t, v) \cup
    {T \in Tx : state[T] = "Preparing" /\ EndedBefore(T, t) /\ v.end = TxID(T)}

is_write_write_conflict(t, v) ==
  \/ \E T \in Tx \ {t} : v.end = TxID(T) /\ state[T] # "Aborted"
  \/ \E n \in 0..clock : v.end = Ts(n) /\ n > begin_ts[t]

-----------------------------------------------------------------------------
(* The statements of a transaction *)

(* begin_tx *)
Begin(t) ==
  /\ phase[t] = "unborn"
  /\ phase' = [phase EXCEPT ![t] = "run"]
  /\ state' = [state EXCEPT ![t] = "Active"]
  /\ begin_ts' = [begin_ts EXCEPT ![t] = clock]
  /\ clock' = clock + 1
  /\ UNCHANGED <<end_ts, relied, chain, write_set, todo, op, stmts, log, seen>>

(* The scans that hold the lock of a chain, shared or exclusive *)
Shared    == {"seek", "shadow", "readback"}
Exclusive == {"delete", "supersede"}

ReadLockFree(k)  == \A r \in Tx : op[r].kind \in Exclusive => op[r].key # k
WriteLockFree(k) ==
  \A r \in Tx : op[r].kind \in Shared \cup Exclusive => op[r].key # k

(* The cursor of t, in the phase of its statement named by kind; a scan is  *)
(* about to look at version number at of the chain.                         *)
Cursor(kind, k, at, where) ==
  [kind |-> kind, key |-> k, at |-> at, where |-> where]

MoveCursor(t, c) == op' = [op EXCEPT ![t] = c]

Rely(t, S) == relied' = [relied EXCEPT ![t] = @ \cup S]

(* A statement starts with a seek: read_lock on the chain of k. *)
StartSeek(t, k) ==
  /\ phase[t] = "run" /\ op[t].kind = "idle"
  /\ stmts[t] < MaxStmts
  /\ ReadLockFree(k)
  /\ stmts' = [stmts EXCEPT ![t] = @ + 1]
  /\ MoveCursor(t, Cursor("seek", k, Len(chain[k]), "unknown"))
  /\ UNCHANGED <<txVars, relied, chain, write_set, todo, log, seen>>

(* What the cursor of t finds on k becomes part of its snapshot, unless t   *)
(* has written k itself.                                                    *)
Saw(t, k, row) ==
  seen' = IF k \in write_set[t] THEN seen
          ELSE [seen EXCEPT ![t] = @ \cup {<<k, row>>}]

(* find_visible_version, one version: found, or on to the next older one    *)
Seek(t) ==
  /\ op[t].kind = "seek"
  /\ LET k == op[t].key
         i == op[t].at
     IN IF i = 0
        THEN /\ MoveCursor(t, Cursor("missed", k, 0, "unknown"))
             /\ UNCHANGED <<relied, seen>>
        ELSE LET v == chain[k][i] IN
             /\ Rely(t, RegistersOn(t, v))
             /\ IF is_visible_to(t, v)
                THEN /\ MoveCursor(t, Cursor("at", k, 0, "mvcc"))
                     /\ Saw(t, k, v.id)
                ELSE /\ MoveCursor(t, [op[t] EXCEPT !.at = i - 1])
                     /\ UNCHANGED seen
  /\ UNCHANGED <<txVars, chain, write_set, todo, stmts, log>>

(* The chain has nothing for t: query_btree_version_is_valid locks it again *)
StartShadow(t) ==
  /\ op[t].kind = "missed"
  /\ ReadLockFree(op[t].key)
  /\ MoveCursor(t, Cursor("shadow", op[t].key, Len(chain[op[t].key]), "unknown"))
  /\ UNCHANGED <<txVars, relied, chain, write_set, todo, stmts, log, seen>>

(* chain_leaves_btree_row_valid, one version *)
Shadow(t) ==
  /\ op[t].kind = "shadow"
  /\ LET k == op[t].key
         i == op[t].at
         absent == /\ MoveCursor(t, Cursor("at", k, 0, "absent"))
                   /\ Saw(t, k, NoRow)
     IN IF i = 0
        THEN /\ UNCHANGED relied
             /\ IF BTree(k) = NoRow THEN absent
                ELSE /\ MoveCursor(t, Cursor("at", k, 0, "btree"))
                     /\ Saw(t, k, BTree(k))
        ELSE LET v == chain[k][i] IN
             /\ Rely(t, ShadowRegistersOn(t, v))
             /\ IF is_btree_invalidating_version(t, v) THEN absent
                ELSE /\ MoveCursor(t, [op[t] EXCEPT !.at = i - 1])
                     /\ UNCHANGED seen
  /\ UNCHANGED <<txVars, chain, write_set, todo, stmts, log>>

(* The statement was a SELECT. *)
EndStatement(t) ==
  /\ op[t].kind = "at"
  /\ MoveCursor(t, Idle)
  /\ UNCHANGED <<txVars, relied, chain, write_set, todo, stmts, log, seen>>

-----------------------------------------------------------------------------
(* Writing *)

(* resolve_begin_timestamp *)
BeginOf(v) ==
  CASE v.begin[1] = "nil" -> 0
    [] v.begin[1] = "ts"  -> v.begin[2]
    [] v.begin[1] = "id"  -> begin_ts[v.begin[2]]

(* Mutant: versions whose end is committed are not compared with the new one. *)
insert_version_skipping(c, v) ==
  LET earlier == {i \in 1..Len(c) : c[i].end[1] # "ts" /\ BeginOf(c[i]) <= BeginOf(v)}
      p == IF earlier = {} THEN 0
           ELSE CHOOSE i \in earlier : \A j \in earlier : j <= i
  IN SubSeq(c, 1, p) \o <<v>> \o SubSeq(c, p + 1, Len(c))

(* insert_version_raw: after the last version that does not begin later *)
insert_version_raw(c, v) ==
  LET earlier == {i \in 1..Len(c) : BeginOf(c[i]) <= BeginOf(v)}
      p == IF earlier = {} THEN 0
           ELSE CHOOSE i \in earlier : \A j \in earlier : j <= i
  IN SubSeq(c, 1, p) \o <<v>> \o SubSeq(c, p + 1, Len(c))

(* A statement creates at most one version, so its number tells it from the *)
(* other versions and stands for the row it carries.                        *)
Version(t, begin, end, resident) ==
  [id |-> <<t, stmts[t]>>, begin |-> begin, end |-> end, btree_resident |-> resident]

(* cursor.insert begins with read_from_table_or_index. *)
StartInsert(t) ==
  /\ op[t].kind = "at"
  /\ ReadLockFree(op[t].key)
  /\ MoveCursor(t, [op[t] EXCEPT !.kind = "readback", !.at = Len(chain[op[t].key])])
  /\ UNCHANGED <<txVars, relied, chain, write_set, todo, stmts, log, seen>>

Readback(t) ==
  /\ op[t].kind = "readback"
  /\ LET i == op[t].at IN
     IF i = 0
     THEN MoveCursor(t, [op[t] EXCEPT !.kind = "put"]) /\ UNCHANGED relied
     ELSE LET v == chain[op[t].key][i] IN
          /\ Rely(t, RegistersOn(t, v))
          /\ MoveCursor(t, IF is_visible_to(t, v)
                           THEN [op[t] EXCEPT !.kind = "update"]
                           ELSE [op[t] EXCEPT !.at = i - 1])
  /\ UNCHANGED <<txVars, chain, write_set, todo, stmts, log, seen>>

(* insert_to_table_or_index, or insert_btree_resident_to_table_or_index    *)
(* when the cursor stood on the row of the B-tree                          *)
Put(t) ==
  /\ op[t].kind = "put"
  /\ LET k == op[t].key
         v == Version(t, TxID(t), Nil, op[t].where = "btree")
     IN /\ WriteLockFree(k)
        /\ chain' = [chain EXCEPT ![k] = insert_version_raw(@, v)]
        /\ write_set' = [write_set EXCEPT ![t] = @ \cup {k}]
  /\ MoveCursor(t, Idle)
  /\ UNCHANGED <<txVars, relied, todo, stmts, log, seen>>

(* Mutant: the loop begins in the middle of the chain. *)
StartDeleteBelow(t) ==
  /\ \/ op[t].kind = "update"
     \/ op[t].kind = "at" /\ op[t].where # "absent"
  /\ WriteLockFree(op[t].key)
  /\ MoveCursor(t, [op[t] EXCEPT
       !.kind = IF op[t].kind = "update" THEN "supersede" ELSE "delete",
       !.at = Len(chain[op[t].key]) \div 2])
  /\ UNCHANGED <<txVars, relied, chain, write_set, todo, stmts, log, seen>>

(* update_to_table_or_index and cursor.delete take the chain's write lock. *)
StartDelete(t) ==
  /\ \/ op[t].kind = "update"
     \/ op[t].kind = "at" /\ op[t].where # "absent"
  /\ WriteLockFree(op[t].key)
  /\ MoveCursor(t, [op[t] EXCEPT
       !.kind = IF op[t].kind = "update" THEN "supersede" ELSE "delete",
       !.at = Len(chain[op[t].key])])
  /\ UNCHANGED <<txVars, relied, chain, write_set, todo, stmts, log, seen>>

(* delete_from_table_or_index has met a version that t may end ... *)
EndVersion(t, k, i) ==
  /\ chain' = [chain EXCEPT ![k][i].end = TxID(t)]
  /\ write_set' = [write_set EXCEPT ![t] = @ \cup {k}]
  /\ MoveCursor(t, IF op[t].kind = "delete" THEN Idle
                   ELSE Cursor("put", k, 0, "mvcc"))

(* ... or none: a tombstone hides the row of the B-tree; an update that read *)
(* a version and cannot end it fails an assertion.                          *)
NothingToEnd(t, k) ==
  IF op[t].kind = "delete" /\ op[t].where = "btree"
  THEN /\ chain' = [chain EXCEPT ![k] =
            insert_version_raw(@, Version(t, Nil, TxID(t), TRUE))]
       /\ write_set' = [write_set EXCEPT ![t] = @ \cup {k}]
       /\ MoveCursor(t, Idle)
  ELSE /\ MoveCursor(t, IF op[t].kind = "delete" THEN Idle
                        ELSE [op[t] EXCEPT !.kind = "panic"])
       /\ UNCHANGED <<chain, write_set>>

(* One version of the loop of delete_from_table_or_index *)
Delete(t) ==
  /\ op[t].kind \in Exclusive
  /\ LET k == op[t].key
         i == op[t].at
         v == chain[k][i]
     IN IF i = 0 THEN NothingToEnd(t, k) /\ UNCHANGED relied
        ELSE /\ Rely(t, RegistersOn(t, v))
             /\ IF /\ is_visible_to(t, v) \/ v.begin = Nil
                   /\ is_write_write_conflict(t, v)
                THEN /\ MoveCursor(t, [op[t] EXCEPT !.kind = "failed"])
                     /\ UNCHANGED <<chain, write_set>>
                ELSE IF is_visible_to(t, v) THEN EndVersion(t, k, i)
                ELSE /\ MoveCursor(t, [op[t] EXCEPT !.at = i - 1])
                     /\ UNCHANGED <<chain, write_set>>
  /\ UNCHANGED <<txVars, todo, stmts, log, seen>>

-----------------------------------------------------------------------------
(* Commit *)

(* CommitState::Initial *)
Prepare(t) ==
  /\ phase[t] = "run" /\ op[t].kind = "idle"
  /\ state' = [state EXCEPT ![t] = "Preparing"]
  /\ end_ts' = [end_ts EXCEPT ![t] = clock]
  /\ clock' = clock + 1
  /\ phase' = [phase EXCEPT ![t] = "validate"]
  /\ todo' = [todo EXCEPT ![t] = write_set[t]]
  /\ UNCHANGED <<begin_ts, relied, chain, write_set, op, stmts, log, seen>>

(* Mutant: of two Preparing transactions neither gives way. *)
WinsOnceCommitted(T, t) == state[T] = "Committed"

(* A transaction that check_version_conflicts of t must give way to: it is  *)
(* Committed, or Preparing with a lower end timestamp.                      *)
Wins(T, t) ==
  \/ state[T] = "Committed"
  \/ state[T] = "Preparing" /\ end_ts[T] < end_ts[t]

(* check_version_conflicts, one version *)
VersionConflicts(t, v) ==
  LET endedBy(T) == T # t /\ v.end = TxID(T)
      ended == \/ v.end[1] = "ts"
               \/ v.end = TxID(t)
               \/ \E T \in Tx : endedBy(T) /\ state[T] = "Committed"
  IN \/ \E n \in 0..clock : v.end = Ts(n) /\ n > begin_ts[t]
     \/ v.begin = Nil /\ \E T \in Tx : endedBy(T) /\ Wins(T, t)
     \/ /\ v.begin # Nil
        /\ \E T \in Tx : endedBy(T) /\ state[T] = "Committed" /\ end_ts[T] > begin_ts[t]
     \/ /\ v.begin # Nil /\ ~ended
        /\ \/ v.begin[1] = "ts"
           \/ \E T \in Tx \ {t} : v.begin = TxID(T) /\ (Wins(T, t) \/ state[T] = "Gone")

check_version_conflicts(t, k) ==
  \E i \in 1..Len(chain[k]) : VersionConflicts(t, chain[k][i])

(* check_rowid_for_conflicts on one key of the write set.  A conflict with  *)
(* another transaction can only go away while the chain is locked (it       *)
(* aborts), so the scan may be taken as one step.                           *)
Validate(t, k) ==
  /\ phase[t] = "validate" /\ k \in todo[t]
  /\ ReadLockFree(k)
  /\ IF check_version_conflicts(t, k)
     THEN op' = [op EXCEPT ![t] = [kind |-> "failed"]] /\ UNCHANGED todo
     ELSE todo' = [todo EXCEPT ![t] = @ \ {k}] /\ UNCHANGED op
  /\ UNCHANGED <<txVars, relied, chain, write_set, stmts, log, seen>>

(* Mutant: an end set by another transaction is logged as our delete. *)
LoggedWithForeignEnd(t, k) ==
  LET c == chain[k]
      logged == {i \in 1..Len(c) : c[i].begin = TxID(t) \/ c[i].end = TxID(t)}
      last == CHOOSE i \in logged : \A j \in logged : j <= i
  IN IF logged = {} THEN Untouched
     ELSE IF c[last].end # Nil THEN NoRow ELSE c[last].id

(* our_committed_image and serialize_row_version: what the versions of k    *)
(* that t began or ended add to the log record; the last operation counts   *)
LoggedEffect(t, k) ==
  LET c == chain[k]
      ours(v) == v.begin = TxID(t)
      ends(v) == v.end = TxID(t)
      tombstone == \E i \in 1..Len(c) : ~ours(c[i]) /\ ends(c[i]) /\ c[i].btree_resident
      logged == {i \in 1..Len(c) :
                   /\ ours(c[i]) \/ ends(c[i])
                   /\ ours(c[i]) /\ ends(c[i]) => c[i].btree_resident /\ ~tombstone}
      last == CHOOSE i \in logged : \A j \in logged : j <= i
  IN IF logged = {} THEN Untouched
     ELSE IF ends(c[last]) THEN NoRow ELSE c[last].id

(* WaitForDependencies let t through; its record is built and appended, and *)
(* the transaction is Committed.                                            *)
Commit(t) ==
  /\ phase[t] = "validate" /\ todo[t] = {} /\ op[t].kind = "idle"
  /\ \A T \in relied[t] : state[T] = "Committed"
  /\ log' = [log EXCEPT ![t] = [k \in Key |-> LoggedEffect(t, k)]]
  /\ state' = [state EXCEPT ![t] = "Committed"]
  /\ phase' = [phase EXCEPT ![t] = "rewrite"]
  /\ todo' = [todo EXCEPT ![t] = write_set[t]]
  /\ UNCHANGED <<clock, begin_ts, end_ts, relied, chain, write_set, op, stmts, seen>>

(* Mutant: the end field keeps the transaction id. *)
RewrittenBegin(t, v) ==
  [v EXCEPT !.begin = IF @ = TxID(t) THEN Ts(end_ts[t]) ELSE @]

(* rewrite_txid_to_timestamp *)
Rewritten(t, v) ==
  [v EXCEPT !.begin = IF @ = TxID(t) THEN Ts(end_ts[t]) ELSE @,
            !.end   = IF @ = TxID(t) THEN Ts(end_ts[t]) ELSE @]

(* step_rewrite_live_versions, one chain *)
Rewrite(t, k) ==
  /\ phase[t] = "rewrite" /\ k \in todo[t]
  /\ WriteLockFree(k)
  /\ chain' = [chain EXCEPT ![k] = [i \in 1..Len(@) |-> Rewritten(t, @[i])]]
  /\ todo' = [todo EXCEPT ![t] = @ \ {k}]
  /\ UNCHANGED <<txVars, relied, write_set, op, stmts, log, seen>>

(* rollback_tx_inner: after an error, a ROLLBACK, or a dropped commit *)
Rollback(t) ==
  /\ phase[t] \in {"run", "validate"}
  /\ op[t].kind \in {"idle", "at", "failed", "panic"}
  /\ state' = [state EXCEPT ![t] = "Aborted"]
  /\ phase' = [phase EXCEPT ![t] = "undo"]
  /\ todo' = [todo EXCEPT ![t] = write_set[t]]
  /\ op' = [op EXCEPT ![t] = Idle]
  /\ UNCHANGED <<clock, begin_ts, end_ts, relied, chain, write_set, stmts, log, seen>>

(* rollback_version_chain *)
RolledBack(t, c) ==
  LET kept == SelectSeq(c, LAMBDA v : v.begin # TxID(t))
  IN [i \in 1..Len(kept) |->
        [kept[i] EXCEPT !.end = IF @ = TxID(t) THEN Nil ELSE @]]

(* The rollback loop, one chain *)
Undo(t, k) ==
  /\ phase[t] = "undo" /\ k \in todo[t]
  /\ WriteLockFree(k)
  /\ chain' = [chain EXCEPT ![k] = RolledBack(t, @)]
  /\ todo' = [todo EXCEPT ![t] = @ \ {k}]
  /\ UNCHANGED <<txVars, relied, write_set, op, stmts, log, seen>>

(* finish_committed_tx, or the end of rollback_tx_inner: the transaction    *)
(* leaves txs; only committed ones can still be looked up.                  *)
Finish(t) ==
  /\ phase[t] \in {"rewrite", "undo"} /\ todo[t] = {}
  /\ phase' = [phase EXCEPT ![t] = "done"]
  /\ state' = [state EXCEPT ![t] = IF @ = "Aborted" THEN "Gone" ELSE @]
  /\ UNCHANGED <<clock, begin_ts, end_ts, relied, chain, write_set, todo, op, stmts, log, seen>>

-----------------------------------------------------------------------------
AllDone == (\A t \in Tx : phase[t] = "done") /\ UNCHANGED storeVars

StoreNext ==
  \/ \E t \in Tx :
       \/ Begin(t)
       \/ \E k \in Key : StartSeek(t, k)
       \/ Seek(t)
       \/ StartShadow(t)
       \/ Shadow(t)
       \/ EndStatement(t)
       \/ StartInsert(t)
       \/ Readback(t)
       \/ Put(t)
       \/ StartDelete(t)
       \/ Delete(t)
       \/ Prepare(t)
       \/ \E k \in Key : Validate(t, k)
       \/ Commit(t)
       \/ \E k \in Key : Rewrite(t, k)
       \/ Rollback(t)
       \/ \E k \in Key : Undo(t, k)
       \/ Finish(t)
  \/ AllDone

StoreSpec == StoreInit /\ [][StoreNext]_storeVars

-----------------------------------------------------------------------------
(* Properties *)

(* The row of k after the commits before time ts, replayed from the log *)
StateAt(ts, k) ==
  LET before == {T \in Tx : /\ state[T] = "Committed"
                            /\ log[T][k] # Untouched
                            /\ end_ts[T] < ts}
  IN IF before = {} THEN BTree(k)
     ELSE log[CHOOSE T \in before : \A U \in before : end_ts[U] <= end_ts[T]][k]

(* Snapshot isolation, reads: all that a committed transaction found on keys *)
(* it had not written is the state that the log describes at its begin       *)
(* timestamp, however the scans interleaved with commits and rollbacks.      *)
SnapshotReads ==
  \A t \in Tx : state[t] = "Committed" =>
    \A s \in seen[t] : s[2] = StateAt(begin_ts[t], s[1])

(* Snapshot isolation, writes: of two concurrent transactions that logged a  *)
(* change of the same key at most one commits (first committer wins).        *)
FirstCommitterWins ==
  \A t, T \in Tx : \A k \in Key :
    /\ t # T
    /\ state[t] = "Committed" /\ state[T] = "Committed"
    /\ log[t][k] # Untouched /\ log[T][k] # Untouched
    => end_ts[t] < begin_ts[T] \/ end_ts[T] < begin_ts[t]

(* What a transaction that begins now would find on k *)
Committed(v) == \/ v[1] = "ts"
                \/ \E T \in Tx : v = TxID(T) /\ state[T] = "Committed"
Live(k)     == {i \in 1..Len(chain[k]) : Committed(chain[k][i].begin) /\ ~Committed(chain[k][i].end)}
Shadowed(k) == \E i \in 1..Len(chain[k]) : Committed(chain[k][i].begin) \/ Committed(chain[k][i].end)
Current(k)  == IF Live(k) # {} THEN chain[k][CHOOSE i \in Live(k) : TRUE].id
               ELSE IF Shadowed(k) THEN NoRow ELSE BTree(k)

(* The chains and the log agree at any time: replaying the log gives the row *)
(* that the chain (and the B-tree below it) holds, and no chain holds two    *)
(* current versions.                                                         *)
ChainsMatchLog ==
  \A k \in Key : Cardinality(Live(k)) <= 1 /\ Current(k) = StateAt(clock, k)

(* A version never refers to a transaction that left txs: the rewrite of a   *)
(* commit and the undo of a rollback reach every version, also those another *)
(* transaction touched in between (resolve_begin_timestamp panics otherwise) *)
NoDanglingTxId ==
  \A k \in Key : \A i \in 1..Len(chain[k]) : \A T \in Tx :
    TxID(T) \in {chain[k][i].begin, chain[k][i].end} => phase[T] # "done"

(* insert_version_raw keeps the committed versions of a chain in the order   *)
(* of their commits although it sorts uncommitted ones by begin timestamp.   *)
ChainsSorted ==
  \A k \in Key : \A i, j \in 1..Len(chain[k]) :
    i < j /\ chain[k][i].begin[1] = "ts" /\ chain[k][j].begin[1] = "ts"
      => chain[k][i].begin[2] <= chain[k][j].begin[2]

(* The assertion of cursor.insert, "read found a visible version but update  *)
(* could not supersede it", can fail in one way only: a transaction whose    *)
(* commit the reader has assumed rolled back between the read and the update.*)
SupersedesUnlessRolledBack ==
  \A t \in Tx : op[t].kind = "panic" =>
    \E T \in relied[t] : state[T] \notin {"Preparing", "Committed"}

=============================================================================
