---------------------------- MODULE ExclusiveTx ----------------------------
(* Exclusive transactions and schema changes of the MVCC store.  A             *)
(* transaction that is not CONCURRENT takes exclusive_tx by loads and one      *)
(* compare-and-swap while others commit; a commit tests exclusive_tx and the   *)
(* schema inside the closure that the clock runs under its lock.  Rows and     *)
(* their validation are left to MvccStore, the log to GroupCommit.             *)
EXTENDS Integers, FiniteSets

CONSTANTS
  XTx,          \* transactions
  NoTx          \* NO_EXCLUSIVE_TX; a lock that is free

ASSUME ExclusiveAssumption == NoTx \notin XTx

VARIABLES
  xclock, clock_lock,            \* MvccClock and the holder of its lock
  exclusive_tx, commit_lock,     \* pager_commit_lock, by its holder
  last_committed_tx_ts, last_committed_schema_change_ts,
  global_cookie, last_global_header_ts,
  xstate, begin_ts, end_ts,      \* Transaction.state and its timestamps
  cookie,                        \* ... its header's schema cookie
  wrote, ddl,                    \* write_set is not empty; header_dirty
  xat,                           \* where it is in begin, commit or clean-up
  todo,                          \* what has_preparing_tx_other_than has yet to look at
  fresh,                         \* it began as an exclusive transaction
  late,                          \* history: commits under way when it became exclusive
  dropped,                       \* history: commits finished by cleanup_dropped_commit
  regressed                      \* history: an older commit put its header back

lockVars   == <<clock_lock, exclusive_tx, commit_lock>>
markVars   == <<last_committed_tx_ts, last_committed_schema_change_ts>>
headerVars == <<global_cookie, last_global_header_ts>>
timeVars   == <<xclock, begin_ts, end_ts>>
workVars   == <<cookie, wrote, ddl, fresh>>
histVars   == <<late, dropped, regressed>>
xVars == <<lockVars, markVars, headerVars, timeVars, workVars, histVars, xstate, xat, todo>>

ExclusiveInit ==
  /\ xclock = 1 /\ clock_lock = NoTx
  /\ exclusive_tx = NoTx /\ commit_lock = NoTx
  /\ last_committed_tx_ts = 0 /\ last_committed_schema_change_ts = 0
  /\ global_cookie = 0 /\ last_global_header_ts = 0
  /\ xstate = [t \in XTx |-> "Unborn"]
  /\ begin_ts = [t \in XTx |-> 0] /\ end_ts = [t \in XTx |-> 0]
  /\ cookie = [t \in XTx |-> 0]
  /\ wrote = [t \in XTx |-> FALSE] /\ ddl = [t \in XTx |-> FALSE]
  /\ fresh = [t \in XTx |-> FALSE]
  /\ xat = [t \in XTx |-> "unborn"]
  /\ todo = [t \in XTx |-> {}]
  /\ late = [t \in XTx |-> {}] /\ dropped = {} /\ regressed = FALSE

Go(t, from, to) == xat[t] = from /\ xat' = [xat EXCEPT ![t] = to]
AtLeast(a, b) == IF a < b THEN b ELSE a

(* release_exclusive_tx if is_exclusive_tx; unlock_commit_lock_if_held *)
ReleaseExclusive(t) == exclusive_tx' = IF exclusive_tx = t THEN NoTx ELSE exclusive_tx
UnlockCommit(t) == commit_lock' = IF commit_lock = t THEN NoTx ELSE commit_lock

-----------------------------------------------------------------------------
(* Beginning *)

(* Mutant: any transaction may begin while a schema change commits. *)
NoUnpublishedCookie == FALSE

(* exclusive_tx_has_unpublished_schema_cookie *)
UnpublishedCookie ==
  \E E \in XTx : /\ exclusive_tx = E /\ xstate[E] = "Preparing"
                 /\ ddl[E] /\ cookie[E] # global_cookie

(* The closure under the clock's lock: timestamp, header and entry in txs *)
Publish(t, place) ==
  /\ Go(t, "unborn", place) /\ clock_lock = NoTx
  /\ xclock' = xclock + 1
  /\ begin_ts' = [begin_ts EXCEPT ![t] = xclock]
  /\ cookie' = [cookie EXCEPT ![t] = global_cookie]
  /\ xstate' = [xstate EXCEPT ![t] = "Active"]
  /\ UNCHANGED <<lockVars, markVars, headerVars, end_ts, wrote, ddl, histVars>>

BeginTx(t) == Publish(t, "run") /\ ~UnpublishedCookie /\ UNCHANGED <<todo, fresh>>

(* begin_exclusive_tx, for a new transaction ... *)
BeginExclusiveTx(t) ==
  /\ Publish(t, "look")
  /\ todo' = [todo EXCEPT ![t] = XTx \ {t}]
  /\ fresh' = [fresh EXCEPT ![t] = TRUE]

(* ... or for one that has only read or written concurrently so far *)
Upgrade(t) ==
  /\ Go(t, "run", "look") /\ exclusive_tx # t
  /\ todo' = [todo EXCEPT ![t] = XTx \ {t}]
  /\ UNCHANGED <<lockVars, markVars, headerVars, timeVars, workVars, histVars, xstate>>

(* Busy: a fresh transaction is removed, another one stays as it was. *)
Busy(t) ==
  /\ xat' = [xat EXCEPT ![t] = IF fresh[t] THEN "done" ELSE "run"]
  /\ xstate' = [xstate EXCEPT ![t] = IF fresh[t] THEN "Gone" ELSE @]
  /\ todo' = [todo EXCEPT ![t] = {}]
  /\ ReleaseExclusive(t)

(* has_preparing_tx_other_than, one entry of txs; before and after the swap *)
LookAtState(t) ==
  /\ xat[t] \in {"look", "relook"}
  /\ \E u \in todo[t] :
       IF xstate[u] = "Preparing" THEN Busy(t)
       ELSE /\ todo' = [todo EXCEPT ![t] = @ \ {u}]
            /\ UNCHANGED <<exclusive_tx, xstate, xat>>
  /\ UNCHANGED <<clock_lock, commit_lock, markVars, headerVars, timeVars, workVars, histVars>>

(* Mutant: last_committed_tx_ts is only looked at before the swap. *)
CommittedSinceOnce(t) == xat[t] = "look" /\ begin_ts[t] < last_committed_tx_ts

(* Another transaction committed after this one began. *)
CommittedSince(t) == begin_ts[t] < last_committed_tx_ts

(* Commits that neither Preparing nor last_committed_tx_ts shows *)
Unpublished(t) ==
  {u \in XTx \ {t} : /\ xstate[u] = "Committed" /\ wrote[u]
                     /\ last_committed_tx_ts < end_ts[u]}

LookAtTimestamp(t) ==
  /\ xat[t] \in {"look", "relook"} /\ todo[t] = {}
  /\ IF CommittedSince(t) THEN Busy(t) /\ UNCHANGED late
     ELSE /\ xat' = [xat EXCEPT ![t] = IF @ = "look" THEN "swap" ELSE "lock"]
          /\ late' = [late EXCEPT ![t] = @ \cup IF xat[t] = "look" THEN {} ELSE Unpublished(t)]
          /\ UNCHANGED <<exclusive_tx, xstate, todo>>
  /\ UNCHANGED <<clock_lock, commit_lock, markVars, headerVars, timeVars, workVars, dropped, regressed>>

(* The compare-and-swap of acquire_exclusive_tx *)
SwapExclusive(t) ==
  /\ xat[t] = "swap"
  /\ IF exclusive_tx # NoTx THEN Busy(t) /\ UNCHANGED late
     ELSE /\ exclusive_tx' = t
          /\ xat' = [xat EXCEPT ![t] = "relook"]
          /\ todo' = [todo EXCEPT ![t] = XTx \ {t}]
          /\ late' = [late EXCEPT ![t] = {u \in XTx : xat[u] = "tested"}]
          /\ UNCHANGED xstate
  /\ UNCHANGED <<clock_lock, commit_lock, markVars, headerVars, timeVars, workVars, dropped, regressed>>

(* The commit lock is tried once; an upgrade reads the header again. *)
TakeCommitLock(t) ==
  /\ xat[t] = "lock"
  /\ IF commit_lock # NoTx THEN Busy(t) /\ UNCHANGED <<commit_lock, cookie>>
     ELSE /\ commit_lock' = t
          /\ xat' = [xat EXCEPT ![t] = "run"]
          /\ cookie' = [cookie EXCEPT ![t] = IF fresh[t] THEN @ ELSE global_cookie]
          /\ UNCHANGED <<exclusive_tx, xstate, todo>>
  /\ UNCHANGED <<clock_lock, markVars, headerVars, timeVars, wrote, ddl, fresh, histVars>>

-----------------------------------------------------------------------------
(* Statements *)

Write(t) ==
  /\ xat[t] = "run" /\ ~wrote[t]
  /\ wrote' = [wrote EXCEPT ![t] = TRUE]
  /\ UNCHANGED <<lockVars, markVars, headerVars, timeVars, cookie, ddl, fresh, histVars, xstate, xat, todo>>

(* with_header_mut: a schema change raises the cookie of the header *)
ChangeSchema(t) ==
  /\ xat[t] = "run" /\ exclusive_tx = t /\ ~ddl[t]
  /\ wrote' = [wrote EXCEPT ![t] = TRUE] /\ ddl' = [ddl EXCEPT ![t] = TRUE]
  /\ cookie' = [cookie EXCEPT ![t] = @ + 1]
  /\ UNCHANGED <<lockVars, markVars, headerVars, timeVars, fresh, histVars, xstate, xat, todo>>

-----------------------------------------------------------------------------
(* CommitState::Initial, inside get_commit_timestamp *)

StartCommit(t) ==
  /\ Go(t, "run", "closure") /\ clock_lock = NoTx
  /\ clock_lock' = t
  /\ end_ts' = [end_ts EXCEPT ![t] = xclock] /\ xclock' = xclock + 1
  /\ UNCHANGED <<exclusive_tx, commit_lock, markVars, headerVars, begin_ts, workVars, histVars, xstate, todo>>

TestExclusive(t) ==
  /\ Go(t, "closure", IF exclusive_tx \in {NoTx, t} THEN "tested" ELSE "conflict")
  /\ UNCHANGED <<lockVars, markVars, headerVars, timeVars, workVars, histVars, xstate, todo>>

(* Mutant: only exclusive_tx is tested, not the schema. *)
NoSchemaConflict(t) == FALSE

SchemaConflict(t) ==
  \/ last_committed_schema_change_ts > begin_ts[t]
  \/ cookie[t] # global_cookie /\ ~ddl[t]

(* Preparing is stored unless there is a conflict; readers go on anyway. *)
StorePreparing(t) ==
  /\ xat[t] \in {"tested", "conflict"}
  /\ LET ok == xat[t] = "tested" /\ ~SchemaConflict(t)
     IN IF ok \/ ~wrote[t]
        THEN /\ xstate' = [xstate EXCEPT ![t] = "Preparing"]
             /\ xat' = [xat EXCEPT ![t] = IF wrote[t] THEN "prepared" ELSE "readonly"]
        ELSE xat' = [xat EXCEPT ![t] = "abort"] /\ UNCHANGED xstate
  /\ clock_lock' = NoTx
  /\ UNCHANGED <<exclusive_tx, commit_lock, markVars, headerVars, timeVars, workVars, histVars, todo>>

CommitReadOnly(t) ==
  /\ Go(t, "readonly", "done")
  /\ xstate' = [xstate EXCEPT ![t] = "Committed"]
  /\ ReleaseExclusive(t) /\ UnlockCommit(t)
  /\ UNCHANGED <<clock_lock, markVars, headerVars, timeVars, workVars, histVars, todo>>

(* rollback_tx_inner: by the client, after a conflict, or before the record of *)
(* a commit is in the log                                                      *)
RollbackTx(t) ==
  /\ xat[t] \in {"run", "abort", "prepared"}
  /\ xat' = [xat EXCEPT ![t] = "done"]
  /\ xstate' = [xstate EXCEPT ![t] = "Aborted"]
  /\ ReleaseExclusive(t) /\ UnlockCommit(t)
  /\ UNCHANGED <<clock_lock, markVars, headerVars, timeVars, workVars, histVars, todo>>

-----------------------------------------------------------------------------
(* The record is appended under the commit lock, by the transaction itself or  *)
(* by the leader of its group, which an exclusive transaction never is.        *)
AppendToLog(t) ==
  /\ Go(t, "prepared", "appended")
  /\ \/ commit_lock \in {NoTx, t} /\ commit_lock' = t
     \/ /\ \E u \in XTx \ {t, exclusive_tx} : commit_lock = u /\ xat[u] = "appended"
        /\ UNCHANGED commit_lock
  /\ UNCHANGED <<clock_lock, exclusive_tx, markVars, headerVars, timeVars, workVars, histVars, xstate, todo>>

(* EndCommitLogicalLog publishes the header. *)
EndCommitLogicalLog(t) ==
  /\ Go(t, "appended", "ended")
  /\ last_global_header_ts' = AtLeast(last_global_header_ts, end_ts[t])
  /\ global_cookie' = IF last_global_header_ts <= end_ts[t] THEN cookie[t] ELSE global_cookie
  /\ regressed' = (regressed \/ global_cookie' < global_cookie)
  /\ UNCHANGED <<lockVars, markVars, timeVars, workVars, late, dropped, xstate, todo>>

CommitEnd(t) ==
  /\ Go(t, "ended", "committed")
  /\ xstate' = [xstate EXCEPT ![t] = "Committed"]
  /\ UNCHANGED <<lockVars, markVars, headerVars, timeVars, workVars, histVars, todo>>

(* FinalizeCommit, step by step *)
FinalizeUnlock(t) ==
  /\ Go(t, "committed", "unlocked")
  /\ UnlockCommit(t)
  /\ UNCHANGED <<clock_lock, exclusive_tx, markVars, headerVars, timeVars, workVars, histVars, xstate, todo>>

FinalizeTs(t) ==
  /\ Go(t, "unlocked", "published")
  /\ last_committed_tx_ts' = AtLeast(last_committed_tx_ts, end_ts[t])
  /\ global_cookie' = IF last_committed_tx_ts <= end_ts[t] THEN cookie[t] ELSE global_cookie
  /\ regressed' = (regressed \/ global_cookie' < global_cookie)
  /\ UNCHANGED <<lockVars, last_committed_schema_change_ts, last_global_header_ts, timeVars, workVars, late, dropped, xstate, todo>>

FinalizeSchema(t) ==
  /\ Go(t, "published", "releasing")
  /\ last_committed_schema_change_ts' =
       AtLeast(last_committed_schema_change_ts, IF ddl[t] THEN end_ts[t] ELSE 0)
  /\ UNCHANGED <<lockVars, last_committed_tx_ts, headerVars, timeVars, workVars, histVars, xstate, todo>>

FinalizeRelease(t) ==
  /\ Go(t, "releasing", "done")
  /\ ReleaseExclusive(t)
  /\ UNCHANGED <<clock_lock, commit_lock, markVars, headerVars, timeVars, workVars, histVars, xstate, todo>>

(* cleanup_dropped_commit once the record is in the log *)
CleanupDropped(t) ==
  /\ xat[t] \in {"appended", "ended", "committed", "unlocked", "published", "releasing"}
  /\ xat' = [xat EXCEPT ![t] = "done"]
  /\ xstate' = [xstate EXCEPT ![t] = "Committed"]
  /\ UnlockCommit(t) /\ ReleaseExclusive(t)
  /\ dropped' = dropped \cup {t}
  /\ UNCHANGED <<clock_lock, markVars, headerVars, timeVars, workVars, late, regressed, todo>>

-----------------------------------------------------------------------------
ExclusiveDone == (\A t \in XTx : xat[t] = "done") /\ UNCHANGED xVars

ExclusiveNext ==
  \/ \E t \in XTx :
       \/ BeginTx(t) \/ BeginExclusiveTx(t) \/ Upgrade(t)
       \/ LookAtState(t) \/ LookAtTimestamp(t) \/ SwapExclusive(t) \/ TakeCommitLock(t)
       \/ Write(t) \/ ChangeSchema(t)
       \/ StartCommit(t) \/ TestExclusive(t) \/ StorePreparing(t)
       \/ CommitReadOnly(t) \/ RollbackTx(t)
       \/ AppendToLog(t) \/ EndCommitLogicalLog(t) \/ CommitEnd(t)
       \/ FinalizeUnlock(t) \/ FinalizeTs(t) \/ FinalizeSchema(t) \/ FinalizeRelease(t)
       \/ CleanupDropped(t)
  \/ ExclusiveDone

ExclusiveSpec == ExclusiveInit /\ [][ExclusiveNext]_xVars

-----------------------------------------------------------------------------
(* Properties *)

(* Past acquire_exclusive_tx *)
Granted(t) == exclusive_tx = t /\ xat[t] \notin {"relook", "lock"}

(* The commits after t began, which its snapshot does not hold *)
Missed(t) ==
  {u \in XTx \ {t} : /\ xstate[u] \in {"Preparing", "Committed"} /\ wrote[u]
                     /\ begin_ts[t] < end_ts[u]}

(* The one writer: the snapshot of an exclusive transaction misses no commit,  *)
(* except of those that had passed the test of CommitState::Initial when it    *)
(* swapped exclusive_tx, or were Committed and not yet in last_committed_tx_ts *)
(* when it looked again.                                                       *)
ExclusiveMissesOnlyLate == \A t \in XTx : Granted(t) => Missed(t) \subseteq late[t]

(* Schema changes in the log before ts that have been, or will be, published.  *)
(* cleanup_dropped_commit finishes one without last_committed_schema_change_ts *)
(* and possibly without the header: nothing below is said of those.            *)
SchemaChanges(ts) ==
  {E \in XTx \ dropped : ddl[E] /\ xstate[E] \in {"Preparing", "Committed"} /\ end_ts[E] < ts}

(* A transaction that begin_tx started runs with a schema no older than its    *)
(* snapshot: no schema change that its rows reflect, of those that are         *)
(* published in the end, is missing from its header, as long as the header     *)
(* never went back.  A fresh exclusive transaction copies the header without   *)
(* the test of exclusive_tx_has_unpublished_schema_cookie and is left out.     *)
HeaderMatchesSnapshot ==
  \A t \in XTx : xat[t] = "run" /\ ~fresh[t] /\ ~regressed =>
    \A E \in SchemaChanges(begin_ts[t]) \ {t} : cookie[E] <= cookie[t]

(* No transaction commits rows across a schema change that is published in the *)
(* end: if the change came after it began, it also came after it committed     *)
(* (the schema tests of CommitState::Initial).                                 *)
NoCommitAcrossSchemaChange ==
  \A t \in XTx : wrote[t] /\ xstate[t] \in {"Preparing", "Committed"} =>
    \A E \in SchemaChanges(end_ts[t]) \ {t} : end_ts[E] < begin_ts[t]
=============================================================================
