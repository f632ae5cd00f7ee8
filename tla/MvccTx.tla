------------------------------- MODULE MvccTx -------------------------------
(***************************************************************************)
(* The life of an MVCC transaction and the commit-dependency protocol of   *)
(* core/mvcc/database/mod.rs (Hekaton, sections 2.5-2.7 and 3.3).          *)
(*                                                                         *)
(* A transaction that meets a row version of another transaction that is   *)
(* Preparing with a lower end timestamp decides as if that transaction     *)
(* will commit, and registers a commit dependency on it.  The dependency   *)
(* is a counter in the dependent and a set in the transaction depended on; *)
(* committing and rolling back report the outcome to the dependents.       *)
(*                                                                         *)
(* Row versions are left out here (MvccStore adds them): a transaction     *)
(* that wrote can be observed by any other one while it is Preparing.      *)
(* Exclusive transactions and schema changes are in ExclusiveTx, and the   *)
(* ordering of log appends in GroupCommit.                                 *)
(***************************************************************************)
EXTENDS Naturals, FiniteSets

CONSTANTS
  Tx,       \* transaction ids; an id is never reused (get_tx_id)
  None      \* no transaction

ASSUME TxFinite == IsFiniteSet(Tx)
ASSUME NoneNotTx == None \notin Tx

VARIABLES
  clock,              \* the MvccClock: the next timestamp to hand out
  txs,                \* the ids in the txs map
  finalized,          \* the ids in finalized_tx_states (all Committed)
  abandoned,          \* the ids that were ever in GroupState.abandoned
  state,              \* Transaction.state, its timestamp in end_ts
  begin_ts,
  end_ts,
  wrote,              \* the write set is not empty
  log_appended,
  commit_dep_set,     \* commit_dep_set[t]: the transactions depending on t
  commit_dep_counter, \* unresolved dependencies of t
  abort_now,
  pc,                 \* where the commit or the rollback of t stands
  observed,           \* a dependency decided on and not yet registered
  notify,             \* dependents taken from the set, not yet decremented
  relied              \* history: whose commit t's visibility decisions assumed

mapVars  == <<txs, finalized, abandoned>>
lifeVars == <<begin_ts, end_ts, wrote, log_appended>>
depVars  == <<commit_dep_set, commit_dep_counter, abort_now, notify>>
obsVars  == <<observed, relied>>
txVars   == <<clock, state, pc, mapVars, lifeVars, depVars, obsVars>>

TxState == {"Unborn", "Active", "Preparing", "Committed", "Aborted",
            "Terminated"}

(***************************************************************************)
(* "run" is the time statements execute; the others are states of the      *)
(* commit state machine or steps of rollback_tx_inner.  "wait", "count"    *)
(* and "recheck" precede the three loads of WaitForDependencies, "log"     *)
(* stands for BuildLogRecord .. MarkLogRecordWritten and "end" for the     *)
(* states between the appended record and CommitEnd.  "panic" is the       *)
(* assertion of remove_tx that fails: nothing happens to t after it.       *)
(***************************************************************************)
Step == {"unborn", "run", "validate", "wait", "count", "recheck",
         "log", "end", "rewrite", "drain", "notify", "remove",
         "tell", "terminate", "gone", "panic"}

TxInit ==
  /\ clock = 1
  /\ txs = {}
  /\ finalized = {}
  /\ abandoned = {}
  /\ state = [t \in Tx |-> "Unborn"]
  /\ begin_ts = [t \in Tx |-> 0]
  /\ end_ts = [t \in Tx |-> 0]
  /\ wrote = [t \in Tx |-> FALSE]
  /\ log_appended = [t \in Tx |-> FALSE]
  /\ commit_dep_set = [t \in Tx |-> {}]
  /\ commit_dep_counter = [t \in Tx |-> 0]
  /\ abort_now = [t \in Tx |-> FALSE]
  /\ pc = [t \in Tx |-> "unborn"]
  /\ observed = [t \in Tx |-> None]
  /\ notify = [t \in Tx |-> {}]
  /\ relied = [t \in Tx |-> {}]

(* The commit state machine or the rollback of t moves from one step to the next. *)
Goto(t, from, to) == pc[t] = from /\ pc' = [pc EXCEPT ![t] = to]

(* MvccClock::get_timestamp: the caller gets clock, the next one more. *)
NextClock == clock + 1

-----------------------------------------------------------------------------
(* Statements *)

(* begin_tx: the timestamp is drawn and the entry inserted under the clock. *)
Begin(t) ==
  /\ Goto(t, "unborn", "run")
  /\ clock' = NextClock
  /\ begin_ts' = [begin_ts EXCEPT ![t] = clock]
  /\ state' = [state EXCEPT ![t] = "Active"]
  /\ txs' = txs \cup {t}
  /\ UNCHANGED <<finalized, abandoned, end_ts, wrote, log_appended, depVars, obsVars>>

(* A statement of t may take a step: t is Active and is not inside a        *)
(* visibility test.                                                         *)
CanRun(t) == pc[t] = "run" /\ observed[t] = None

(* insert_to_write_set *)
Write(t) ==
  /\ CanRun(t)
  /\ wrote' = [wrote EXCEPT ![t] = TRUE]
  /\ UNCHANGED <<clock, state, pc, mapVars, begin_ts, end_ts, log_appended,
                 depVars, obsVars>>

(* rollback_savepoint_changes that leaves nothing in the write set *)
RollbackSavepoint(t) ==
  /\ CanRun(t)
  /\ wrote[t]
  /\ wrote' = [wrote EXCEPT ![t] = FALSE]
  /\ UNCHANGED <<clock, state, pc, mapVars, begin_ts, end_ts, log_appended,
                 depVars, obsVars>>

(* The Preparing arms of is_begin_visible, is_end_visible and                 *)
(* is_btree_invalidating_version that assume the commit of T                  *)
Speculates(t, T) == state[T] = "Preparing" /\ end_ts[T] < begin_ts[t]

(* A visibility test of t loads the state of T, finds Preparing with a lower *)
(* end timestamp, and decides as if T commits.  The chain lock that t holds  *)
(* stays held until the dependency is registered.                            *)
Observe(t, T) ==
  /\ CanRun(t)
  /\ T # t
  /\ T \in txs
  /\ wrote[T]
  /\ Speculates(t, T)
  /\ observed' = [observed EXCEPT ![t] = T]
  /\ relied' = [relied EXCEPT ![t] = @ \cup {T}]
  /\ UNCHANGED <<clock, state, pc, mapVars, lifeVars, depVars>>

(* Mutant: a second read of T counts again although the set keeps one entry. *)
EveryInsertion(t, T) == TRUE

(* HashSet::insert returns true: t is new in the dependency set of T. *)
FirstInsertion(t, T) == t \notin commit_dep_set[T]

(* Mutant: an aborted T is taken for a committed one. *)
NeverDead(T) == FALSE

(* The arm of register_commit_dependency that cascades the abort *)
FoundDead(T) == T \in txs /\ state[T] \in {"Aborted", "Terminated"}

(* register_commit_dependency: loads the state again under the lock on the  *)
(* dependency set, and adds, ignores or aborts.                             *)
Register(t, T) ==
  /\ observed[t] = T
  /\ LET preparing == T \in txs /\ state[T] = "Preparing"
         first == preparing /\ FirstInsertion(t, T)
     IN /\ commit_dep_set' =
             [commit_dep_set EXCEPT ![T] = IF preparing THEN @ \cup {t} ELSE @]
        /\ commit_dep_counter' =
             [commit_dep_counter EXCEPT ![t] = IF first THEN @ + 1 ELSE @]
        /\ abort_now' = [abort_now EXCEPT ![t] = @ \/ FoundDead(T)]
  /\ observed' = [observed EXCEPT ![t] = None]
  /\ UNCHANGED <<clock, state, pc, mapVars, lifeVars, notify, relied>>

-----------------------------------------------------------------------------
(* The commit state machine *)

(* CommitState::Initial: the end timestamp is drawn and Preparing published *)
(* in one critical section of the clock.                                    *)
Prepare(t) ==
  /\ CanRun(t)
  /\ Goto(t, "run", IF wrote[t] THEN "validate" ELSE "wait")
  /\ clock' = NextClock
  /\ end_ts' = [end_ts EXCEPT ![t] = clock]
  /\ state' = [state EXCEPT ![t] = "Preparing"]
  /\ UNCHANGED <<mapVars, begin_ts, wrote, log_appended, depVars, obsVars>>

(* CommitState::Commit, no conflict found *)
Validate(t) ==
  /\ Goto(t, "validate", "wait")
  /\ UNCHANGED <<clock, state, mapVars, lifeVars, depVars, obsVars>>

(* CommitState::WaitForDependencies: abort_now is loaded first ... *)
CheckAbortNow(t) ==
  /\ Goto(t, "wait", "count")
  /\ ~abort_now[t]
  /\ UNCHANGED <<clock, state, mapVars, lifeVars, depVars, obsVars>>

(* ... then the counter; while it is not zero the commit yields ... *)
WaitForDependencies(t) ==
  /\ Goto(t, "count", IF commit_dep_counter[t] = 0 THEN "recheck" ELSE "wait")
  /\ UNCHANGED <<clock, state, mapVars, lifeVars, depVars, obsVars>>

(* Mutant: a zero counter is enough. *)
NoRecheck(t) == TRUE

(* The load of abort_now after the counter was seen zero *)
StillWanted(t) == ~abort_now[t]

(* ... then abort_now again; a writer goes on to its log record. *)
DependenciesResolved(t) ==
  /\ Goto(t, "recheck", "log")
  /\ StillWanted(t)
  /\ wrote[t]
  /\ UNCHANGED <<clock, state, mapVars, lifeVars, depVars, obsVars>>

(* The read-only exits of Initial and WaitForDependencies *)
CommitReadOnly(t) ==
  /\ Goto(t, "recheck", "remove")
  /\ StillWanted(t)
  /\ ~wrote[t]
  /\ state' = [state EXCEPT ![t] = "Committed"]
  /\ UNCHANGED <<clock, mapVars, lifeVars, depVars, obsVars>>

(* mark_log_record_written *)
AppendLog(t) ==
  /\ Goto(t, "log", "end")
  /\ log_appended' = [log_appended EXCEPT ![t] = TRUE]
  /\ UNCHANGED <<clock, state, mapVars, begin_ts, end_ts, wrote, depVars,
                 obsVars>>

(* The statement that drives the commit is dropped while the leader of its   *)
(* group, another transaction, has the record in hand (abandon_if_issued).   *)
(* The leader goes on: it appends the record and finishes the commit, or it  *)
(* fails and rolls t back.                                                   *)
Abandon(t) ==
  /\ pc[t] = "log" /\ wrote[t]
  /\ \E leader \in Tx \ {t} : pc[leader] \in {"log", "end"}
  /\ abandoned' = abandoned \cup {t}
  /\ UNCHANGED <<clock, state, pc, txs, finalized, lifeVars, depVars, obsVars>>

(* step_mark_dirty_keys with an empty log record: straight through CommitEnd *)
SkipLog(t) ==
  /\ Goto(t, "log", "rewrite")
  /\ t \notin abandoned
  /\ state' = [state EXCEPT ![t] = "Committed"]
  /\ UNCHANGED <<clock, mapVars, lifeVars, depVars, obsVars>>

(* CommitState::CommitEnd; cleanup_dropped_commit does the same when the    *)
(* statement that drives the commit is dropped after the append, and        *)
(* finish_abandoned_group_waiter for an abandoned commit.                   *)
CommitEnd(t) ==
  /\ Goto(t, "end", "rewrite")
  /\ state' = [state EXCEPT ![t] = "Committed"]
  /\ UNCHANGED <<clock, mapVars, lifeVars, depVars, obsVars>>

(* No chain that holds a version of t is locked by a visibility test. *)
ChainsFree(t) == \A r \in Tx : observed[r] # t

(* FinalizeCommit and cleanup_dropped_commit go on to the dependents, and     *)
(* finish_abandoned_group_waiter straight to remove_tx.                       *)
AfterRewrite(t) == IF t \in abandoned THEN "notify" ELSE "drain"

(* The last chain of step_rewrite_live_versions *)
Rewrite(t) ==
  /\ Goto(t, "rewrite", AfterRewrite(t))
  /\ ChainsFree(t)
  /\ UNCHANGED <<clock, state, mapVars, lifeVars, depVars, obsVars>>

(* Mutant: the dependents are dropped with the set. *)
Forgotten(t) == {}

(* std::mem::take of the dependency set *)
Taken(t) == commit_dep_set[t]

(* notify_committed_dependents takes the set ... *)
TakeDependents(t) ==
  /\ Goto(t, "drain", "notify")
  /\ notify' = [notify EXCEPT ![t] = Taken(t)]
  /\ commit_dep_set' = [commit_dep_set EXCEPT ![t] = {}]
  /\ UNCHANGED <<clock, state, mapVars, lifeVars, commit_dep_counter,
                 abort_now, obsVars>>

(* Mutant: the counter is decremented twice. *)
FetchSubTwice(n) == n - 2

FetchSub(n) == n - 1

(* ... and decrements the dependents still in txs, one after the other; the *)
(* same loop ends the report of a rollback.                                 *)
Decrement(t, d) ==
  /\ d \in notify[t] /\ pc[t] # "panic"
  /\ notify' = [notify EXCEPT ![t] = @ \ {d}]
  /\ commit_dep_counter' =
       [commit_dep_counter EXCEPT ![d] = IF d \in txs THEN FetchSub(@) ELSE @]
  /\ UNCHANGED <<clock, state, pc, mapVars, lifeVars, commit_dep_set,
                 abort_now, obsVars>>

(* remove_tx of a committed writer caches the outcome ... *)
InsertFinalized(t) ==
  /\ Goto(t, "notify", "remove")
  /\ notify[t] = {}
  /\ finalized' = finalized \cup {t}
  /\ UNCHANGED <<clock, state, txs, abandoned, lifeVars, depVars, obsVars>>

(* The assertion of remove_tx that everybody has been told *)
Drained(t) == commit_dep_set[t] = {}

(* ... and takes the dependency set; the assertion that it is empty comes     *)
(* before the transaction leaves the map, and its failure loses the set.      *)
RemoveTx(t) ==
  /\ Goto(t, "remove", IF Drained(t) THEN "gone" ELSE "panic")
  /\ notify' = [notify EXCEPT ![t] = commit_dep_set[t]]
  /\ commit_dep_set' = [commit_dep_set EXCEPT ![t] = {}]
  /\ txs' = IF Drained(t) THEN txs \ {t} ELSE txs
  /\ UNCHANGED <<clock, state, finalized, abandoned, lifeVars, commit_dep_counter,
                 abort_now, obsVars>>

-----------------------------------------------------------------------------
(* rollback_tx_inner: a ROLLBACK of the client, an error of the commit, or a *)
(* commit abandoned before its record is in the log (cleanup_dropped_commit) *)

(* Mutant: every Preparing transaction is rolled back when dropped. *)
CanRollbackPreparing(t) == CanRun(t) \/ state[t] = "Preparing"

CanRollback(t) ==
  CanRun(t) \/ pc[t] \in {"validate", "wait", "count", "recheck", "log"}

(* Under the lock on the dependency set: take it, set abort_now in every    *)
(* dependent still in txs, publish Aborted.                                 *)
Rollback(t) ==
  /\ CanRollback(t)
  /\ pc' = [pc EXCEPT ![t] = "tell"]
  /\ notify' = [notify EXCEPT ![t] = Taken(t)]
  /\ commit_dep_set' = [commit_dep_set EXCEPT ![t] = {}]
  /\ abort_now' = [d \in Tx |-> abort_now[d] \/ d \in commit_dep_set[t] \cap txs]
  /\ state' = [state EXCEPT ![t] = "Aborted"]
  /\ UNCHANGED <<clock, mapVars, lifeVars, commit_dep_counter, obsVars>>

(* The dependents are told; the last chain of the rollback loop *)
Undo(t) ==
  /\ Goto(t, "tell", "terminate")
  /\ notify[t] = {}
  /\ ChainsFree(t)
  /\ UNCHANGED <<clock, state, mapVars, lifeVars, depVars, obsVars>>

Terminate(t) ==
  /\ Goto(t, "terminate", "remove")
  /\ state' = [state EXCEPT ![t] = "Terminated"]
  /\ UNCHANGED <<clock, mapVars, lifeVars, depVars, obsVars>>

-----------------------------------------------------------------------------
(* What code that runs without waiting for its client does on behalf of t:  *)
(* the commit state machine after Initial, the loops of a rollback, and the *)
(* registration that ends a visibility test.                                *)
Progress(t) ==
  \/ \E T \in Tx : Register(t, T)
  \/ Validate(t)
  \/ CheckAbortNow(t)
  \/ WaitForDependencies(t)
  \/ DependenciesResolved(t)
  \/ CommitReadOnly(t)
  \/ AppendLog(t)
  \/ SkipLog(t)
  \/ CommitEnd(t)
  \/ Rewrite(t)
  \/ TakeDependents(t)
  \/ \E d \in Tx : Decrement(t, d)
  \/ InsertFinalized(t)
  \/ RemoveTx(t)
  \/ Undo(t)
  \/ Terminate(t)

(* The waiting commit that finds abort_now set returns an error, and the     *)
(* statement that drives it rolls the transaction back.                      *)
AbortNowSeen(t) ==
  /\ pc[t] \in {"wait", "recheck"}
  /\ abort_now[t]
  /\ Rollback(t)

Ended == {"gone", "panic"}

(* Every transaction has ended: there are no more clients. *)
AllGone == (\A t \in Tx : pc[t] \in Ended) /\ UNCHANGED txVars

TxNext ==
  \/ \E t \in Tx :
       \/ Begin(t)
       \/ Write(t)
       \/ RollbackSavepoint(t)
       \/ \E T \in Tx : Observe(t, T)
       \/ Prepare(t)
       \/ Rollback(t)
       \/ Abandon(t)
       \/ Progress(t)
  \/ AllGone

TxSpec == TxInit /\ [][TxNext]_txVars

(***************************************************************************)
(* Fairness: a statement that drives a commit is stepped until it is done, *)
(* or dropped, and then the cleanup runs to its end on the thread that     *)
(* drops it; an abandoned commit is driven by the leader of its group.     *)
(* Clients owe nothing: a transaction may stay Active forever.             *)
(***************************************************************************)
TxFairSpec ==
  TxSpec /\ \A t \in Tx : WF_txVars(Progress(t) \/ AbortNowSeen(t))

-----------------------------------------------------------------------------
(* Properties *)

(* Every variable has its type; the counter, a u64 in the code, never goes   *)
(* below zero.                                                               *)
TxTypeOK ==
  /\ clock \in Nat
  /\ txs \subseteq Tx
  /\ finalized \subseteq Tx
  /\ abandoned \subseteq Tx
  /\ state \in [Tx -> TxState]
  /\ begin_ts \in [Tx -> Nat]
  /\ end_ts \in [Tx -> Nat]
  /\ wrote \in [Tx -> BOOLEAN]
  /\ log_appended \in [Tx -> BOOLEAN]
  /\ commit_dep_set \in [Tx -> SUBSET Tx]
  /\ commit_dep_counter \in [Tx -> Nat]
  /\ abort_now \in [Tx -> BOOLEAN]
  /\ pc \in [Tx -> Step]
  /\ observed \in [Tx -> Tx \cup {None}]
  /\ notify \in [Tx -> SUBSET Tx]
  /\ relied \in [Tx -> SUBSET Tx]

(* The transactions whose report t still waits for, those that will never     *)
(* send it included (notify of a transaction at "panic")                      *)
Pending(t) == {T \in Tx : t \in commit_dep_set[T] \cup notify[T]}

(* commit_dep_counter of a live transaction is the number of transactions    *)
(* that have not reported to it: no report is counted twice or sent twice,   *)
(* so the fetch_sub of notify_committed_dependents and of rollback_tx_inner  *)
(* never wraps the counter, and WaitForDependencies waits for nobody but     *)
(* these.                                                                    *)
DepCounterExact ==
  \A t \in txs : commit_dep_counter[t] = Cardinality(Pending(t))

(* A transaction whose record is in the log, or that is Committed, has only  *)
(* relied on transactions that are Committed: the wait for the counter and   *)
(* the check of abort_now after it leave no way around a cascading abort.    *)
CommitsAreRecoverable ==
  \A t \in Tx : log_appended[t] \/ state[t] = "Committed" =>
                  \A T \in relied[t] : state[T] = "Committed"

(* Once T is Aborted, every live transaction that relied on it has abort_now *)
(* set, unless it is still about to register (and will set it then).         *)
AbortsCascade ==
  \A t \in txs : \A T \in relied[t] :
    state[T] \in {"Aborted", "Terminated"} /\ observed[t] # T => abort_now[t]

(* The comment at the end of rollback_tx_inner: while a visibility test has   *)
(* still to register on T, T stays in txs, and it is not Active (the          *)
(* assertion "a txn found dependent on active txn").                          *)
RegisterFindsTx ==
  \A t \in Tx : observed[t] # None =>
    /\ observed[t] \in txs
    /\ state[observed[t]] # "Active"

(* The two assertions of remove_tx.  A committed writer can be looked up in   *)
(* txs or in finalized_tx_states at any time, and a transaction leaves txs    *)
(* with all its dependents told.  The latter assertion fails for commits that *)
(* their statement abandoned and a leader finished, and for no other          *)
(* (finish_abandoned_group_waiter tells nobody).                              *)
OutcomeResolvable ==
  \A t \in Tx :
    /\ state[t] = "Committed" /\ wrote[t] => t \in txs \cup finalized
    /\ t \notin txs => commit_dep_set[t] = {} /\ notify[t] = {}
    /\ pc[t] = "panic" => t \in abandoned

(* "An older transaction never waits on a younger transaction": a dependency  *)
(* always points to a lower end timestamp than the begin timestamp, and so    *)
(* than the end timestamp, of the dependent.                                  *)
DependOnOlder ==
  \A T \in Tx : \A t \in commit_dep_set[T] :
    /\ end_ts[T] < begin_ts[t]
    /\ state[t] = "Preparing" => end_ts[T] < end_ts[t]

(* The outcome of t is decided when it is marked Aborted, or when its record  *)
(* is in the log (or it commits without one).                                 *)
OutcomeOf(t) ==
  IF state[t] \in {"Aborted", "Terminated"} THEN "aborted"
  ELSE IF log_appended[t] \/ state[t] = "Committed" THEN "committed" ELSE "open"

Outcome == INSTANCE TxOutcome WITH outcome <- [t \in Tx |-> OutcomeOf(t)]

(* The counters, flags and reports implement the promise of commit            *)
(* dependencies: a transaction commits only after every transaction it relied *)
(* on, and every outcome is decided once.                                     *)
ImplementsOutcome == Outcome!Spec

(* The clock comment of CommitState::Initial: a transaction never enters      *)
(* Preparing with an end timestamp that lies before the begin of a            *)
(* transaction already running, so no snapshot changes under its reader.      *)
SnapshotsAreStable ==
  [][\A T, t \in Tx :
       state[T] = "Active" /\ state'[T] = "Preparing" /\ t \in txs
         => end_ts'[T] > begin_ts[t]]_txVars

(* t waits for a report that a failed assertion of remove_tx has lost, or for *)
(* a transaction that does: t is in every set closed under such waits.        *)
Stranded(t) ==
  \A S \in SUBSET Tx :
    (\A d \in Tx : (\E T \in Pending(d) : pc[T] = "panic" \/ T \in S) => d \in S)
      => t \in S

(* "Deadlock impossible" (WaitForDependencies): every transaction that entered *)
(* Preparing ends, and so does every rollback, unless it waits, itself or      *)
(* through others, for an abandoned commit that a leader finished without      *)
(* telling its dependents: it then waits until its client gives up.            *)
CommitsTerminate ==
  \A t \in Tx : state[t] \in {"Preparing", "Committed", "Aborted"}
                  ~> (pc[t] \in Ended \/ Stranded(t))

-----------------------------------------------------------------------------
(* The inductive invariant behind the safety properties (MvccTxProofs) *)

PreparingStep == {"validate", "wait", "count", "recheck", "log", "end"}
CommittedStep == {"rewrite", "drain", "notify"}
AbortedStep   == {"tell", "terminate"}

(* The published state, the place in the maps and the flags of a transaction  *)
(* follow from where its commit or rollback stands.                           *)
PcAgrees ==
  \A t \in Tx :
    /\ pc[t] = "unborn" => state[t] = "Unborn" /\ relied[t] = {}
                           /\ commit_dep_counter[t] = 0
    /\ pc[t] = "run" <=> state[t] = "Active"
    /\ pc[t] \in PreparingStep <=> state[t] = "Preparing"
    /\ pc[t] \in CommittedStep => state[t] = "Committed"
    /\ pc[t] \in AbortedStep => state[t] = "Aborted"
    /\ pc[t] \in {"remove", "gone", "panic"} => state[t] \in {"Committed", "Terminated"}
    /\ pc[t] = "panic" => t \in abandoned
    /\ t \in txs <=> pc[t] \notin {"unborn", "gone"}
    /\ log_appended[t] => state[t] = "Committed" \/ pc[t] = "end"
    /\ pc[t] = "end" => log_appended[t]
    /\ state[t] = "Committed" /\ wrote[t] /\ pc[t] \in {"remove", "gone", "panic"}
         => t \in finalized

(* The clock is ahead of every timestamp, and a transaction ends after it     *)
(* begins (the assertion in the closure of get_commit_timestamp).             *)
ClockAhead ==
  \A t \in Tx :
    /\ begin_ts[t] < clock
    /\ end_ts[t] < clock
    /\ state[t] = "Preparing" => begin_ts[t] < end_ts[t]

(* While a visibility test has to register on T, T is between Preparing and   *)
(* the point where the lock on the chain is needed to go on.                  *)
ObservedInFlight ==
  \A t \in Tx : observed[t] # None =>
    /\ pc[t] = "run"
    /\ observed[t] # t
    /\ observed[t] \in relied[t]
    /\ wrote[observed[t]]
    /\ pc[observed[t]] \in PreparingStep \cup {"rewrite", "tell"}
    /\ end_ts[observed[t]] < begin_ts[t]

(* Dependency sets hold reliances on older transactions, and only between     *)
(* Preparing and the report, which an abandoned commit leaves out.            *)
DepSetsAgree ==
  \A T \in Tx :
    /\ commit_dep_set[T] # {} =>
         /\ wrote[T]
         /\ \/ pc[T] \in PreparingStep \cup {"rewrite", "drain"}
            \/ pc[T] \in {"notify", "remove"} /\ T \in abandoned
    /\ notify[T] # {} => pc[T] \in {"notify", "tell", "panic"} /\ commit_dep_set[T] = {}
    /\ \A t \in commit_dep_set[T] \cup notify[T] :
         /\ T \in relied[t]
         /\ end_ts[T] < begin_ts[t]

(* A reliance is registered, honoured or turned into abort_now. *)
ReliedAccounted ==
  \A t \in Tx : \A T \in relied[t] :
    /\ state[T] \notin {"Unborn", "Active"}
    /\ t \in txs /\ observed[t] # T =>
         \/ state[T] = "Committed"
         \/ state[T] = "Preparing" /\ t \in commit_dep_set[T]
         \/ state[T] \in {"Aborted", "Terminated"} /\ abort_now[t]
    /\ pc[t] = "recheck" => state[T] = "Committed" \/ abort_now[t]
    /\ pc[t] \in {"log", "end"} \/ state[t] = "Committed" => state[T] = "Committed"

TxIInv ==
  /\ TxTypeOK
  /\ PcAgrees
  /\ ClockAhead
  /\ ObservedInFlight
  /\ DepSetsAgree
  /\ ReliedAccounted
  /\ DepCounterExact

=============================================================================
