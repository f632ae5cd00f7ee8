------------------------- MODULE ExclusiveTxProofs -------------------------
(* Proofs about ExclusiveTx, for any set of transactions.                     *)
(*                                                                           *)
(* The inductive invariant XInv is a conjunction of rules about one or two   *)
(* transactions.  Every action is first shown to be a step of the form       *)
(* StepOf, which says point by point what it does to one transaction and     *)
(* that it leaves the others alone; the rules are then kept by each form.    *)
EXTENDS ExclusiveTx, TLAPS

Acquiring   == {"look", "swap"}
Asking      == {"relook", "lock"}
InClosure   == {"closure", "tested", "conflict"}
Finalizing  == {"committed", "unlocked", "published", "releasing"}
ActiveAt    == Acquiring \cup Asking \cup InClosure \cup {"run", "abort"}
PreparingAt == {"prepared", "readonly", "appended", "ended"}
XPlaces     == ActiveAt \cup PreparingAt \cup Finalizing \cup {"unborn", "done"}
XStates     == {"Unborn", "Active", "Preparing", "Committed", "Aborted", "Gone"}
Holders     == XTx \cup {NoTx}

TimeTypes ==
  /\ xclock \in Nat /\ xclock > 0 /\ last_committed_tx_ts \in Nat
  /\ last_committed_schema_change_ts \in Nat /\ last_global_header_ts \in Nat
  /\ begin_ts \in [XTx -> Nat] /\ end_ts \in [XTx -> Nat]
HeaderTypes == global_cookie \in Nat /\ cookie \in [XTx -> Nat] /\ regressed \in BOOLEAN
FlagTypes ==
  wrote \in [XTx -> BOOLEAN] /\ ddl \in [XTx -> BOOLEAN] /\ fresh \in [XTx -> BOOLEAN]
PlaceTypes == xat \in [XTx -> XPlaces] /\ xstate \in [XTx -> XStates]
HolderTypes == clock_lock \in Holders /\ exclusive_tx \in Holders /\ commit_lock \in Holders
SetTypes ==
  /\ todo \in [XTx -> SUBSET XTx] /\ late \in [XTx -> SUBSET XTx]
  /\ dropped \in SUBSET XTx
XTypes ==
  TimeTypes /\ HeaderTypes /\ FlagTypes /\ PlaceTypes /\ HolderTypes /\ SetTypes

(* It has a place in the log, or will have one. *)
Logged(t) == xstate[t] \in {"Preparing", "Committed"}

(* Where a transaction is tells its state. *)
PlaceRule(t) ==
  /\ xat[t] = "unborn" => xstate[t] = "Unborn"
  /\ xat[t] \in ActiveAt => xstate[t] = "Active"
  /\ xat[t] \in PreparingAt => xstate[t] = "Preparing"
  /\ xat[t] \in Finalizing => xstate[t] = "Committed"
  /\ xat[t] = "done" => xstate[t] \in {"Committed", "Aborted", "Gone"}
  /\ xat[t] = "readonly" => ~wrote[t]
  /\ ddl[t] => wrote[t]

(* Timestamps are distinct, and a transaction in the closure has the latest. *)
ClockRule(t) ==
  /\ begin_ts[t] < xclock /\ end_ts[t] < xclock
  /\ clock_lock = t <=> xat[t] \in InClosure
  /\ Logged(t) \/ xat[t] \in InClosure => end_ts[t] > 0
ClockPair(t, u) ==
  /\ end_ts[t] > 0 => end_ts[t] # begin_ts[u]
  /\ xat[t] \in InClosure => begin_ts[u] < end_ts[t] /\ (u # t => end_ts[u] < end_ts[t])

(* exclusive_tx is held from the swap to the end, by whoever changes the schema *)
(* in any case; while somebody has passed the test, no other holder commits.    *)
HolderRule(t) ==
  /\ exclusive_tx = t => xat[t] \notin Acquiring \cup {"unborn", "done", "conflict"}
  /\ xat[t] \in Asking => exclusive_tx = t
  /\ ddl[t] => xat[t] = "done" \/ (exclusive_tx = t /\ xat[t] \notin Asking)
HolderPair(t, E) ==
  xat[t] = "tested" /\ exclusive_tx = E /\ E # t => xat[E] \in Asking \cup {"run"}

Misses(t, u) == Logged(u) /\ wrote[u] /\ begin_ts[t] < end_ts[u]

(* What an exclusive transaction that is looking again has yet to find out *)
LatePair(t, u) ==
  exclusive_tx = t /\ u # t =>
    /\ xat[u] = "tested" => u \in late[t]
    /\ Misses(t, u) /\ u \notin late[t] =>
         xat[t] = "relook" /\ (u \in todo[t] \/ xstate[u] = "Committed")

Changes(E) == E \notin dropped /\ ddl[E] /\ Logged(E)

(* A schema change is published before exclusive_tx is released. *)
SchemaRule(E) ==
  Changes(E) =>
    /\ exclusive_tx = E \/ end_ts[E] <= last_committed_schema_change_ts
    /\ xat[E] = "releasing" => end_ts[E] <= last_committed_schema_change_ts

(* No header is published over that of the exclusive transaction. *)
WillPublish == {"prepared", "appended"}
OrderPair(E, u) ==
  exclusive_tx = E /\ xat[E] \in WillPublish \cup {"closure", "tested"} =>
    /\ last_global_header_ts < end_ts[E]
    /\ u # E /\ xat[u] \in WillPublish => end_ts[u] < end_ts[E]

(* The global header has every schema change that reached the log, and a      *)
(* transaction of begin_tx every one before it, until an older header returns. *)
InHeader(E) ==
  /\ E \notin dropped /\ ddl[E]
  /\ xat[E] \in Finalizing \cup {"ended"} \/ (xat[E] = "done" /\ xstate[E] = "Committed")
HeaderRule(E) == ~regressed /\ InHeader(E) => cookie[E] <= global_cookie
HeaderPair(t, E) ==
  ~regressed /\ xat[t] # "unborn" /\ ~fresh[t] /\ E # t /\ Changes(E) /\ end_ts[E] < begin_ts[t] =>
    cookie[E] <= cookie[t]

AcrossPair(t, E) ==
  wrote[t] /\ Logged(t) /\ E # t /\ Changes(E) /\ end_ts[E] < end_ts[t] => end_ts[E] < begin_ts[t]

-----------------------------------------------------------------------------
(* The steps, point by point: what a step of t leaves alone, and what it does *)
(* to t and to the shared marks.  commit_lock matters to none of the rules.   *)

OthersStay(t) == \A u \in XTx \ {t} : xat'[u] = xat[u] /\ xstate'[u] = xstate[u]
OthersTimes(t) ==
  \A u \in XTx \ {t} : begin_ts'[u] = begin_ts[u] /\ end_ts'[u] = end_ts[u]
OthersWork(t) ==
  \A u \in XTx \ {t} :
    /\ cookie'[u] = cookie[u] /\ (wrote'[u] <=> wrote[u])
    /\ (ddl'[u] <=> ddl[u]) /\ (fresh'[u] <=> fresh[u])
OthersSets(t) == \A u \in XTx \ {t} : todo'[u] = todo[u] /\ late'[u] = late[u]
Others(t) == OthersStay(t) /\ OthersTimes(t) /\ OthersWork(t) /\ OthersSets(t)

KeepsTimes(t) ==
  xclock' = xclock /\ begin_ts'[t] = begin_ts[t] /\ end_ts'[t] = end_ts[t]
KeepsWork(t) ==
  /\ cookie'[t] = cookie[t] /\ (wrote'[t] <=> wrote[t])
  /\ (ddl'[t] <=> ddl[t]) /\ (fresh'[t] <=> fresh[t])
KeepsMarks ==
  /\ last_committed_tx_ts' = last_committed_tx_ts
  /\ last_committed_schema_change_ts' = last_committed_schema_change_ts
KeepsHeader ==
  /\ global_cookie' = global_cookie /\ last_global_header_ts' = last_global_header_ts
  /\ (regressed' <=> regressed)
KeepsLate(t) == late'[t] = late[t] /\ dropped' = dropped
Releases(t) == exclusive_tx' = IF exclusive_tx = t THEN NoTx ELSE exclusive_tx
Moves(t, from, to) == xat[t] = from /\ xat'[t] = to /\ xstate'[t] = xstate[t]

Begins(t) ==
  /\ xat[t] = "unborn" /\ xat'[t] \in {"run", "look"} /\ xstate'[t] = "Active"
  /\ clock_lock = NoTx /\ clock_lock' = clock_lock /\ exclusive_tx' = exclusive_tx
  /\ xclock' = xclock + 1 /\ begin_ts'[t] = xclock /\ end_ts'[t] = end_ts[t]
  /\ cookie'[t] = global_cookie /\ (wrote'[t] <=> wrote[t]) /\ (ddl'[t] <=> ddl[t])
  /\ fresh'[t] \/ ~UnpublishedCookie
  /\ KeepsMarks /\ KeepsHeader /\ KeepsLate(t)

Asks(t) ==
  /\ \/ Moves(t, "run", "look") /\ exclusive_tx # t
     \/ Moves(t, "look", "look") \/ Moves(t, "look", "swap")
     \/ /\ Moves(t, "relook", "relook")
        /\ \E u \in todo[t] : xstate[u] # "Preparing" /\ todo'[t] = todo[t] \ {u}
  /\ clock_lock' = clock_lock /\ exclusive_tx' = exclusive_tx
  /\ KeepsTimes(t) /\ KeepsWork(t) /\ KeepsMarks /\ KeepsHeader /\ KeepsLate(t)

Passes(t) ==
  /\ Moves(t, "relook", "lock") /\ todo[t] = {} /\ ~CommittedSince(t)
  /\ late'[t] = late[t] \cup Unpublished(t) /\ dropped' = dropped
  /\ clock_lock' = clock_lock /\ exclusive_tx' = exclusive_tx
  /\ KeepsTimes(t) /\ KeepsWork(t) /\ KeepsMarks /\ KeepsHeader

Locks(t) ==
  /\ Moves(t, "lock", "run")
  /\ cookie'[t] = (IF fresh[t] THEN cookie[t] ELSE global_cookie)
  /\ (wrote'[t] <=> wrote[t]) /\ (ddl'[t] <=> ddl[t]) /\ (fresh'[t] <=> fresh[t])
  /\ clock_lock' = clock_lock /\ exclusive_tx' = exclusive_tx
  /\ KeepsTimes(t) /\ KeepsMarks /\ KeepsHeader /\ KeepsLate(t)

GivesUp(t) ==
  /\ xat[t] \in Acquiring \cup Asking
  /\ \/ xat'[t] = "done" /\ xstate'[t] = "Gone" /\ fresh[t]
     \/ xat'[t] = "run" /\ xstate'[t] = xstate[t] /\ ~fresh[t]
  /\ clock_lock' = clock_lock /\ Releases(t)
  /\ KeepsTimes(t) /\ KeepsWork(t) /\ KeepsMarks /\ KeepsHeader /\ KeepsLate(t)

Swaps(t) ==
  /\ Moves(t, "swap", "relook") /\ todo'[t] = XTx \ {t}
  /\ late'[t] = {u \in XTx : xat[u] = "tested"} /\ dropped' = dropped
  /\ exclusive_tx = NoTx /\ exclusive_tx' = t /\ clock_lock' = clock_lock
  /\ KeepsTimes(t) /\ KeepsWork(t) /\ KeepsMarks /\ KeepsHeader

Works(t) ==
  /\ Moves(t, "run", "run") /\ wrote'[t] /\ (fresh'[t] <=> fresh[t])
  /\ \/ (ddl'[t] <=> ddl[t]) /\ cookie'[t] = cookie[t]
     \/ exclusive_tx = t /\ ddl'[t] /\ cookie'[t] = cookie[t] + 1
  /\ clock_lock' = clock_lock /\ exclusive_tx' = exclusive_tx
  /\ KeepsTimes(t) /\ KeepsMarks /\ KeepsHeader /\ KeepsLate(t)

Starts(t) ==
  /\ Moves(t, "run", "closure") /\ clock_lock = NoTx /\ clock_lock' = t
  /\ xclock' = xclock + 1 /\ end_ts'[t] = xclock /\ begin_ts'[t] = begin_ts[t]
  /\ exclusive_tx' = exclusive_tx
  /\ KeepsWork(t) /\ KeepsMarks /\ KeepsHeader /\ KeepsLate(t)

Tests(t) ==
  /\ \/ exclusive_tx \in {NoTx, t} /\ Moves(t, "closure", "tested")
     \/ exclusive_tx \notin {NoTx, t} /\ Moves(t, "closure", "conflict")
  /\ clock_lock' = clock_lock /\ exclusive_tx' = exclusive_tx
  /\ KeepsTimes(t) /\ KeepsWork(t) /\ KeepsMarks /\ KeepsHeader /\ KeepsLate(t)

Stores(t) ==
  /\ xat[t] \in {"tested", "conflict"}
  /\ \/ /\ wrote[t] /\ xat[t] = "tested" /\ ~SchemaConflict(t)
        /\ xat'[t] = "prepared" /\ xstate'[t] = "Preparing"
     \/ ~wrote[t] /\ xat'[t] = "readonly" /\ xstate'[t] = "Preparing"
     \/ xat'[t] = "abort" /\ xstate'[t] = xstate[t]
  /\ clock_lock' = NoTx /\ exclusive_tx' = exclusive_tx
  /\ KeepsTimes(t) /\ KeepsWork(t) /\ KeepsMarks /\ KeepsHeader /\ KeepsLate(t)

Advances(t) ==
  /\ \/ Moves(t, "prepared", "appended")
     \/ xat[t] = "ended" /\ xat'[t] = "committed" /\ xstate'[t] = "Committed"
     \/ Moves(t, "committed", "unlocked")
  /\ clock_lock' = clock_lock /\ exclusive_tx' = exclusive_tx
  /\ KeepsTimes(t) /\ KeepsWork(t) /\ KeepsMarks /\ KeepsHeader /\ KeepsLate(t)

(* The header after a commit publishes its own, which is older if its test fails *)
Publishes(t, newest) ==
  /\ global_cookie' = IF newest THEN cookie[t] ELSE global_cookie
  /\ regressed' <=> (regressed \/ global_cookie' < global_cookie)
  /\ clock_lock' = clock_lock /\ exclusive_tx' = exclusive_tx
  /\ KeepsTimes(t) /\ KeepsWork(t) /\ KeepsLate(t)

PublishesHeader(t) ==
  /\ Moves(t, "appended", "ended")
  /\ Publishes(t, last_global_header_ts <= end_ts[t])
  /\ last_global_header_ts' = AtLeast(last_global_header_ts, end_ts[t])
  /\ KeepsMarks

PublishesTs(t) ==
  /\ Moves(t, "unlocked", "published")
  /\ Publishes(t, last_committed_tx_ts <= end_ts[t])
  /\ last_global_header_ts' = last_global_header_ts
  /\ last_committed_schema_change_ts' = last_committed_schema_change_ts

PublishesSchema(t) ==
  /\ Moves(t, "published", "releasing")
  /\ last_committed_schema_change_ts' =
       AtLeast(last_committed_schema_change_ts, IF ddl[t] THEN end_ts[t] ELSE 0)
  /\ clock_lock' = clock_lock /\ exclusive_tx' = exclusive_tx
  /\ KeepsTimes(t) /\ KeepsWork(t) /\ KeepsHeader /\ KeepsLate(t)

Ends(t) ==
  /\ xat'[t] = "done"
  /\ \/ xat[t] = "readonly" /\ xstate'[t] = "Committed" /\ dropped' = dropped
     \/ xat[t] \in {"run", "abort", "prepared"} /\ xstate'[t] = "Aborted" /\ dropped' = dropped
     \/ xat[t] = "releasing" /\ xstate'[t] = xstate[t] /\ dropped' = dropped
     \/ /\ xat[t] \in Finalizing \cup {"appended", "ended"} /\ xstate'[t] = "Committed"
        /\ dropped' = dropped \cup {t}
  /\ late'[t] = late[t]
  /\ clock_lock' = clock_lock /\ Releases(t)
  /\ KeepsTimes(t) /\ KeepsWork(t) /\ KeepsMarks /\ KeepsHeader

StepOf(t) ==
  /\ Others(t)
  /\ \/ Begins(t) \/ Asks(t) \/ Passes(t) \/ Locks(t) \/ GivesUp(t) \/ Swaps(t) \/ Works(t)
     \/ Starts(t) \/ Tests(t) \/ Stores(t) \/ Advances(t)
     \/ PublishesHeader(t) \/ PublishesTs(t) \/ PublishesSchema(t) \/ Ends(t)
-----------------------------------------------------------------------------
(* Every action is a step of this form *)

(* The Busy of begin_exclusive_tx gives up and touches nobody else. *)
LEMMA BusyGivesUp ==
  ASSUME XTypes, NEW t \in XTx, xat[t] \in Acquiring \cup Asking, Busy(t),
         UNCHANGED <<clock_lock, markVars, headerVars, timeVars, workVars, histVars>>
  PROVE  StepOf(t)
<1> USE DEF XTypes, lockVars, markVars, headerVars, timeVars, workVars, histVars
<1>1. /\ xat' = [xat EXCEPT ![t] = IF fresh[t] THEN "done" ELSE "run"]
      /\ xstate' = [xstate EXCEPT ![t] = IF fresh[t] THEN "Gone" ELSE xstate[t]]
      /\ todo' = [todo EXCEPT ![t] = {}]
  BY Zenon DEF Busy
<1>2. Others(t)
  BY Zenon, <1>1 DEF Others, OthersStay, OthersTimes, OthersWork, OthersSets, PlaceTypes, SetTypes
<1>3. \/ xat'[t] = "done" /\ xstate'[t] = "Gone" /\ fresh[t]
      \/ xat'[t] = "run" /\ xstate'[t] = xstate[t] /\ ~fresh[t]
  BY Zenon, <1>1 DEF PlaceTypes
<1>4. GivesUp(t)
  BY Zenon, <1>3 DEF GivesUp, Busy, ReleaseExclusive, Releases,
     KeepsTimes, KeepsWork, KeepsMarks, KeepsHeader, KeepsLate
<1> QED
  BY Zenon, <1>2, <1>4 DEF StepOf

(* Looking at one entry of txs either asks on or gives up. *)
LEMMA LookAtStateStep ==
  ASSUME XTypes, NEW t \in XTx, LookAtState(t)
  PROVE  StepOf(t)
<1>1. PICK u \in todo[t] : IF xstate[u] = "Preparing" THEN Busy(t)
          ELSE todo' = [todo EXCEPT ![t] = @ \ {u}] /\ UNCHANGED <<exclusive_tx, xstate, xat>>
  BY Zenon DEF LookAtState
<1>2. CASE xstate[u] = "Preparing"
  BY Zenon, <1>1, <1>2, BusyGivesUp DEF LookAtState, StepOf, lockVars, markVars, headerVars,
     timeVars, workVars, histVars, Acquiring, Asking
<1>3. CASE xstate[u] # "Preparing"
  <2>1. /\ xat' = xat /\ xstate' = xstate /\ exclusive_tx' = exclusive_tx
        /\ todo' = [todo EXCEPT ![t] = todo[t] \ {u}]
    BY Zenon, <1>1, <1>3
  <2>2. Others(t)
    BY Zenon, <2>1 DEF LookAtState, Others, OthersStay, OthersTimes, OthersWork, OthersSets,
       lockVars, markVars, headerVars, timeVars, workVars, histVars, XTypes, SetTypes
  <2>3. todo'[t] = todo[t] \ {u}
    BY Zenon, <2>1 DEF XTypes, SetTypes
  <2>4. Asks(t)
    BY Zenon, <2>1, <2>3, <1>1, <1>3 DEF LookAtState, Asks, Moves, lockVars, markVars,
       headerVars, timeVars, workVars, histVars, KeepsTimes, KeepsWork, KeepsMarks,
       KeepsHeader, KeepsLate
  <2> QED
    BY Zenon, <2>2, <2>4 DEF StepOf
<1> QED
  BY Zenon, <1>2, <1>3

(* Looking at last_committed_tx_ts asks on, passes or gives up. *)
LEMMA LookAtTimestampStep ==
  ASSUME XTypes, NEW t \in XTx, LookAtTimestamp(t)
  PROVE  StepOf(t)
<1>1. CASE CommittedSince(t)
  BY Zenon, <1>1, BusyGivesUp DEF LookAtTimestamp, StepOf, lockVars, markVars, headerVars,
     timeVars, workVars, histVars, Acquiring, Asking
<1>2. CASE ~CommittedSince(t)
  <2>1. /\ xat' = [xat EXCEPT ![t] = IF xat[t] = "look" THEN "swap" ELSE "lock"]
        /\ xstate' = xstate /\ todo' = todo
        /\ late' = [late EXCEPT ![t] = late[t] \cup IF xat[t] = "look" THEN {} ELSE Unpublished(t)]
    BY Zenon, <1>2 DEF LookAtTimestamp
  <2>2. Others(t)
    BY Zenon, <2>1 DEF LookAtTimestamp, Others, OthersStay, OthersTimes, OthersWork, OthersSets,
       lockVars, markVars, headerVars, timeVars, workVars, histVars, XTypes, SetTypes,
       PlaceTypes
  <2>3. late'[t] = late[t] \cup IF xat[t] = "look" THEN {} ELSE Unpublished(t)
    BY Zenon, <2>1 DEF XTypes, SetTypes
  <2>4. xat'[t] = IF xat[t] = "look" THEN "swap" ELSE "lock"
    BY Zenon, <2>1 DEF XTypes, PlaceTypes
  <2>5. CASE xat[t] = "look"
    <3>1. late'[t] = late[t]
      BY Zenon, <2>3, <2>5
    <3>2. Asks(t)
      BY Zenon, <1>2, <2>1, <2>4, <2>5, <3>1 DEF LookAtTimestamp, Asks, Moves, lockVars,
         markVars, headerVars, timeVars, workVars, histVars, KeepsTimes, KeepsWork,
         KeepsMarks, KeepsHeader, KeepsLate
    <3> QED
      BY Zenon, <2>2, <3>2 DEF StepOf
  <2>6. CASE xat[t] = "relook"
    <3>1. late'[t] = late[t] \cup Unpublished(t)
      BY Zenon, <2>3, <2>6
    <3>2. Passes(t)
      BY Zenon, <1>2, <2>1, <2>4, <2>6, <3>1 DEF LookAtTimestamp, Passes, Moves, lockVars,
         markVars, headerVars, timeVars, workVars, histVars, KeepsTimes, KeepsWork,
         KeepsMarks, KeepsHeader, KeepsLate
    <3> QED
      BY Zenon, <2>2, <3>2 DEF StepOf
  <2> QED
    BY Zenon, <2>5, <2>6 DEF LookAtTimestamp
<1> QED
  BY Zenon, <1>1, <1>2

(* The compare-and-swap swaps or gives up. *)
LEMMA SwapExclusiveStep ==
  ASSUME XTypes, NEW t \in XTx, SwapExclusive(t)
  PROVE  StepOf(t)
<1>1. CASE exclusive_tx # NoTx
  BY Zenon, <1>1, BusyGivesUp DEF SwapExclusive, StepOf, lockVars, markVars, headerVars,
     timeVars, workVars, histVars, Acquiring, Asking
<1>2. CASE exclusive_tx = NoTx
  <2>1. Others(t)
    BY Zenon, <1>2 DEF SwapExclusive, Others, OthersStay, OthersTimes, OthersWork, OthersSets,
       lockVars, markVars, headerVars, timeVars, workVars, histVars, XTypes, SetTypes,
       PlaceTypes
  <2>2. Swaps(t)
    BY Zenon, <1>2 DEF SwapExclusive, Swaps, Moves, lockVars, markVars, headerVars, timeVars,
       workVars, histVars, KeepsTimes, KeepsWork, KeepsMarks, KeepsHeader, KeepsLate,
       XTypes, SetTypes, PlaceTypes
  <2> QED
    BY Zenon, <2>1, <2>2 DEF StepOf
<1> QED
  BY Zenon, <1>1, <1>2

(* The commit lock is taken, or the transaction gives up. *)
LEMMA TakeCommitLockStep ==
  ASSUME XTypes, NEW t \in XTx, TakeCommitLock(t)
  PROVE  StepOf(t)
<1>1. CASE commit_lock # NoTx
  BY Zenon, <1>1, BusyGivesUp DEF TakeCommitLock, StepOf, lockVars, markVars, headerVars,
     timeVars, workVars, histVars, Acquiring, Asking
<1>2. CASE commit_lock = NoTx
  <2>1. Others(t)
    BY Zenon, <1>2 DEF TakeCommitLock, Others, OthersStay, OthersTimes, OthersWork, OthersSets,
       lockVars, markVars, headerVars, timeVars, workVars, histVars, XTypes, HeaderTypes,
       PlaceTypes
  <2>2. Locks(t)
    BY Zenon, <1>2 DEF TakeCommitLock, Locks, Moves, lockVars, markVars, headerVars, timeVars,
       workVars, histVars, KeepsTimes, KeepsWork, KeepsMarks, KeepsHeader, KeepsLate,
       XTypes, HeaderTypes, PlaceTypes
  <2> QED
    BY Zenon, <2>1, <2>2 DEF StepOf
<1> QED
  BY Zenon, <1>1, <1>2

(* The other actions leave other transactions alone and do one thing to theirs. *)
LEMMA PlainStep ==
  ASSUME XTypes, NEW t \in XTx,
         BeginTx(t) \/ BeginExclusiveTx(t) \/ Upgrade(t) \/ Write(t) \/ ChangeSchema(t) \/
         StartCommit(t) \/ TestExclusive(t) \/ StorePreparing(t) \/ CommitReadOnly(t) \/
         RollbackTx(t) \/
         AppendToLog(t) \/ EndCommitLogicalLog(t) \/ CommitEnd(t) \/
         FinalizeUnlock(t) \/ FinalizeTs(t) \/
         FinalizeSchema(t) \/ FinalizeRelease(t) \/ CleanupDropped(t)
  PROVE  StepOf(t)
<1> USE DEF XTypes, TimeTypes, HeaderTypes, FlagTypes, PlaceTypes, SetTypes, StepOf,
  lockVars, markVars, headerVars, timeVars, workVars, histVars
<1>1. CASE BeginTx(t)
  <2>1. Others(t)
    BY Zenon, <1>1 DEF BeginTx, Publish, Go, Others, OthersStay, OthersTimes, OthersWork,
       OthersSets
  <2>2. Begins(t)
    BY Zenon, <1>1 DEF BeginTx, Publish, Go, Begins, KeepsTimes, KeepsWork, KeepsMarks,
       KeepsHeader, KeepsLate, Releases, Moves
  <2> QED
    BY Zenon, <2>1, <2>2
<1>2. CASE BeginExclusiveTx(t)
  <2>1. Others(t)
    BY Zenon, <1>2 DEF BeginExclusiveTx, Publish, Go, Others, OthersStay, OthersTimes,
       OthersWork, OthersSets
  <2>2. Begins(t)
    BY Zenon, <1>2 DEF BeginExclusiveTx, Publish, Go, Begins, KeepsTimes, KeepsWork, KeepsMarks,
       KeepsHeader, KeepsLate, Releases, Moves
  <2> QED
    BY Zenon, <2>1, <2>2
<1>3. CASE Upgrade(t)
  <2>1. Others(t)
    BY Zenon, <1>3 DEF Upgrade, Go, Others, OthersStay, OthersTimes, OthersWork, OthersSets
  <2>2. Asks(t)
    BY Zenon, <1>3 DEF Upgrade, Go, Asks, KeepsTimes, KeepsWork, KeepsMarks, KeepsHeader,
       KeepsLate, Releases, Moves
  <2> QED
    BY Zenon, <2>1, <2>2
<1>4. CASE Write(t)
  <2>1. Others(t)
    BY Zenon, <1>4 DEF Write, Others, OthersStay, OthersTimes, OthersWork, OthersSets
  <2>2. Works(t)
    BY Zenon, <1>4 DEF Write, Works, KeepsTimes, KeepsWork, KeepsMarks, KeepsHeader, KeepsLate,
       Releases, Moves
  <2> QED
    BY Zenon, <2>1, <2>2
<1>5. CASE ChangeSchema(t)
  <2>1. Others(t)
    BY Zenon, <1>5 DEF ChangeSchema, Others, OthersStay, OthersTimes, OthersWork, OthersSets
  <2>2. Works(t)
    BY Zenon, <1>5 DEF ChangeSchema, Works, KeepsTimes, KeepsWork, KeepsMarks, KeepsHeader,
       KeepsLate, Releases, Moves
  <2> QED
    BY Zenon, <2>1, <2>2
<1>6. CASE StartCommit(t)
  <2>1. Others(t)
    BY Zenon, <1>6 DEF StartCommit, Go, Others, OthersStay, OthersTimes, OthersWork, OthersSets
  <2>2. Starts(t)
    BY Zenon, <1>6 DEF StartCommit, Go, Starts, KeepsTimes, KeepsWork, KeepsMarks, KeepsHeader,
       KeepsLate, Releases, Moves
  <2> QED
    BY Zenon, <2>1, <2>2
<1>7. CASE TestExclusive(t)
  <2>1. Others(t)
    BY Zenon, <1>7 DEF TestExclusive, Go, Others, OthersStay, OthersTimes, OthersWork, OthersSets
  <2>2. Tests(t)
    BY Zenon, <1>7 DEF TestExclusive, Go, Tests, KeepsTimes, KeepsWork, KeepsMarks, KeepsHeader,
       KeepsLate, Releases, Moves
  <2> QED
    BY Zenon, <2>1, <2>2
<1>8. CASE StorePreparing(t)
  <2>1. Others(t)
    BY Zenon, <1>8 DEF StorePreparing, Others, OthersStay, OthersTimes, OthersWork, OthersSets
  <2>2. Stores(t)
    BY Zenon, <1>8 DEF StorePreparing, Stores, KeepsTimes, KeepsWork, KeepsMarks, KeepsHeader,
       KeepsLate, Releases, Moves
  <2> QED
    BY Zenon, <2>1, <2>2
<1>9. CASE CommitReadOnly(t)
  <2>1. Others(t)
    BY Zenon, <1>9 DEF CommitReadOnly, Go, ReleaseExclusive, UnlockCommit, Others, OthersStay,
       OthersTimes, OthersWork, OthersSets
  <2>2. Ends(t)
    BY Zenon, <1>9 DEF CommitReadOnly, Go, ReleaseExclusive, UnlockCommit, Ends, Finalizing,
       KeepsTimes, KeepsWork, KeepsMarks, KeepsHeader, KeepsLate, Releases, Moves
  <2> QED
    BY Zenon, <2>1, <2>2
<1>10. CASE RollbackTx(t)
  <2>1. Others(t)
    BY Zenon, <1>10 DEF RollbackTx, ReleaseExclusive, UnlockCommit, Others, OthersStay,
       OthersTimes, OthersWork, OthersSets
  <2>2. Ends(t)
    BY Zenon, <1>10 DEF RollbackTx, ReleaseExclusive, UnlockCommit, Ends, Finalizing, KeepsTimes,
       KeepsWork, KeepsMarks, KeepsHeader, KeepsLate, Releases, Moves
  <2> QED
    BY Zenon, <2>1, <2>2
<1>11. CASE AppendToLog(t)
  <2>1. Others(t)
    BY Zenon, <1>11 DEF AppendToLog, Go, Others, OthersStay, OthersTimes, OthersWork, OthersSets
  <2>2. Advances(t)
    BY Zenon, <1>11 DEF AppendToLog, Go, Advances, KeepsTimes, KeepsWork, KeepsMarks,
       KeepsHeader, KeepsLate, Releases, Moves
  <2> QED
    BY Zenon, <2>1, <2>2
<1>12. CASE EndCommitLogicalLog(t)
  <2>1. Others(t)
    BY Zenon, <1>12 DEF EndCommitLogicalLog, Go, AtLeast, Others, OthersStay, OthersTimes,
       OthersWork, OthersSets
  <2>2. PublishesHeader(t)
    BY Zenon, <1>12 DEF EndCommitLogicalLog, Go, AtLeast, PublishesHeader, Publishes, KeepsTimes,
       KeepsWork, KeepsMarks, KeepsHeader, KeepsLate, Releases, Moves
  <2> QED
    BY Zenon, <2>1, <2>2
<1>13. CASE CommitEnd(t)
  <2>1. Others(t)
    BY Zenon, <1>13 DEF CommitEnd, Go, Others, OthersStay, OthersTimes, OthersWork, OthersSets
  <2>2. Advances(t)
    BY Zenon, <1>13 DEF CommitEnd, Go, Advances, KeepsTimes, KeepsWork, KeepsMarks, KeepsHeader,
       KeepsLate, Releases, Moves
  <2> QED
    BY Zenon, <2>1, <2>2
<1>14. CASE FinalizeUnlock(t)
  <2>1. Others(t)
    BY Zenon, <1>14 DEF FinalizeUnlock, Go, UnlockCommit, Others, OthersStay, OthersTimes,
       OthersWork, OthersSets
  <2>2. Advances(t)
    BY Zenon, <1>14 DEF FinalizeUnlock, Go, UnlockCommit, Advances, KeepsTimes, KeepsWork,
       KeepsMarks, KeepsHeader, KeepsLate, Releases, Moves
  <2> QED
    BY Zenon, <2>1, <2>2
<1>15. CASE FinalizeTs(t)
  <2>1. Others(t)
    BY Zenon, <1>15 DEF FinalizeTs, Go, AtLeast, Others, OthersStay, OthersTimes, OthersWork,
       OthersSets
  <2>2. PublishesTs(t)
    BY Zenon, <1>15 DEF FinalizeTs, Go, AtLeast, PublishesTs, Publishes, KeepsTimes, KeepsWork,
       KeepsMarks, KeepsHeader, KeepsLate, Releases, Moves
  <2> QED
    BY Zenon, <2>1, <2>2
<1>16. CASE FinalizeSchema(t)
  <2>1. Others(t)
    BY Zenon, <1>16 DEF FinalizeSchema, Go, AtLeast, Others, OthersStay, OthersTimes, OthersWork,
       OthersSets
  <2>2. PublishesSchema(t)
    BY Zenon, <1>16 DEF FinalizeSchema, Go, AtLeast, PublishesSchema, KeepsTimes, KeepsWork,
       KeepsMarks, KeepsHeader, KeepsLate, Releases, Moves
  <2> QED
    BY Zenon, <2>1, <2>2
<1>17. CASE FinalizeRelease(t)
  <2>1. Others(t)
    BY Zenon, <1>17 DEF FinalizeRelease, Go, ReleaseExclusive, Others, OthersStay, OthersTimes,
       OthersWork, OthersSets
  <2>2. Ends(t)
    BY Zenon, <1>17 DEF FinalizeRelease, Go, ReleaseExclusive, Ends, Finalizing, KeepsTimes,
       KeepsWork, KeepsMarks, KeepsHeader, KeepsLate, Releases, Moves
  <2> QED
    BY Zenon, <2>1, <2>2
<1>18. CASE CleanupDropped(t)
  <2>1. Others(t)
    BY Zenon, <1>18 DEF CleanupDropped, UnlockCommit, ReleaseExclusive, Others, OthersStay,
       OthersTimes, OthersWork, OthersSets
  <2>2. Ends(t)
    BY Zenon, <1>18 DEF CleanupDropped, UnlockCommit, ReleaseExclusive, Ends, Finalizing,
       KeepsTimes, KeepsWork, KeepsMarks, KeepsHeader, KeepsLate, Releases, Moves
  <2> QED
    BY Zenon, <2>1, <2>2
<1> QED
  BY Zenon, <1>1, <1>2, <1>3, <1>4, <1>5, <1>6, <1>7, <1>8, <1>9, <1>10, <1>11, <1>12, <1>13,
     <1>14, <1>15, <1>16, <1>17, <1>18

(* Every step of the specification is one of some transaction, point by point. *)
LEMMA PointByPoint ==
  ASSUME XTypes, ExclusiveNext
  PROVE  (\E t \in XTx : StepOf(t)) \/ UNCHANGED xVars
BY LookAtStateStep, LookAtTimestampStep, SwapExclusiveStep, TakeCommitLockStep, PlainStep
   DEF ExclusiveNext, ExclusiveDone

-----------------------------------------------------------------------------
(* Types *)

(* Every step keeps the types. *)
LEMMA XTypesKept ==
  ASSUME XTypes, [ExclusiveNext]_xVars
  PROVE  XTypes'
<1> USE DEF XTypes, HolderTypes, Holders, XStates, XPlaces, ActiveAt, PreparingAt, Finalizing,
  Acquiring, Asking, InClosure, lockVars, markVars, headerVars, timeVars, workVars, histVars
<1>0. CASE UNCHANGED xVars
  BY Zenon, <1>0 DEF TimeTypes, HeaderTypes, FlagTypes, PlaceTypes, SetTypes, xVars
<1>1. ASSUME NEW t \in XTx, BeginTx(t) PROVE XTypes'
  <2>1. TimeTypes'
    BY <1>1 DEF BeginTx, Publish, Go, TimeTypes
  <2>2. HeaderTypes'
    BY Zenon, <1>1 DEF BeginTx, Publish, Go, HeaderTypes
  <2>3. FlagTypes' /\ PlaceTypes' /\ HolderTypes' /\ SetTypes'
    BY Zenon, <1>1 DEF BeginTx, Publish, Go, FlagTypes, PlaceTypes, SetTypes
  <2> QED
    BY Zenon, <2>1, <2>2, <2>3
<1>2. ASSUME NEW t \in XTx, BeginExclusiveTx(t) PROVE XTypes'
  <2>1. TimeTypes'
    BY <1>2 DEF BeginExclusiveTx, Publish, Go, TimeTypes
  <2>2. HeaderTypes'
    BY Zenon, <1>2 DEF BeginExclusiveTx, Publish, Go, HeaderTypes
  <2>3. FlagTypes' /\ PlaceTypes' /\ HolderTypes' /\ SetTypes'
    BY Zenon, <1>2 DEF BeginExclusiveTx, Publish, Go, FlagTypes, PlaceTypes, SetTypes
  <2> QED
    BY Zenon, <2>1, <2>2, <2>3
<1>3. ASSUME NEW t \in XTx, Upgrade(t) PROVE XTypes'
  BY Zenon, <1>3 DEF Upgrade, Go, TimeTypes, HeaderTypes, FlagTypes, PlaceTypes, SetTypes
<1>4. ASSUME NEW t \in XTx, Write(t) PROVE XTypes'
  BY Zenon, <1>4 DEF Write, TimeTypes, HeaderTypes, FlagTypes, PlaceTypes, SetTypes
<1>5. ASSUME NEW t \in XTx, ChangeSchema(t) PROVE XTypes'
  <2>1. TimeTypes'
    BY Zenon, <1>5 DEF ChangeSchema, TimeTypes
  <2>2. HeaderTypes'
    BY <1>5 DEF ChangeSchema, HeaderTypes
  <2>3. FlagTypes' /\ PlaceTypes' /\ HolderTypes' /\ SetTypes'
    BY Zenon, <1>5 DEF ChangeSchema, FlagTypes, PlaceTypes, SetTypes
  <2> QED
    BY Zenon, <2>1, <2>2, <2>3
<1>6. ASSUME NEW t \in XTx, StartCommit(t) PROVE XTypes'
  <2>1. TimeTypes'
    BY <1>6 DEF StartCommit, Go, TimeTypes
  <2>2. HeaderTypes'
    BY Zenon, <1>6 DEF StartCommit, Go, HeaderTypes
  <2>3. FlagTypes' /\ PlaceTypes' /\ HolderTypes' /\ SetTypes'
    BY Zenon, <1>6 DEF StartCommit, Go, FlagTypes, PlaceTypes, SetTypes
  <2> QED
    BY Zenon, <2>1, <2>2, <2>3
<1>7. ASSUME NEW t \in XTx, TestExclusive(t) PROVE XTypes'
  BY Zenon, <1>7 DEF TestExclusive, Go, TimeTypes, HeaderTypes, FlagTypes, PlaceTypes, SetTypes
<1>8. ASSUME NEW t \in XTx, StorePreparing(t) PROVE XTypes'
  BY ZenonT(40), <1>8 DEF StorePreparing, TimeTypes, HeaderTypes, FlagTypes, PlaceTypes, SetTypes
<1>9. ASSUME NEW t \in XTx, CommitReadOnly(t) PROVE XTypes'
  BY Zenon, <1>9 DEF CommitReadOnly, Go, ReleaseExclusive, UnlockCommit, TimeTypes, HeaderTypes,
     FlagTypes, PlaceTypes, SetTypes
<1>10. ASSUME NEW t \in XTx, RollbackTx(t) PROVE XTypes'
  BY Zenon, <1>10 DEF RollbackTx, ReleaseExclusive, UnlockCommit, TimeTypes, HeaderTypes,
     FlagTypes, PlaceTypes, SetTypes
<1>11. ASSUME NEW t \in XTx, AppendToLog(t) PROVE XTypes'
  BY Zenon, <1>11 DEF AppendToLog, Go, TimeTypes, HeaderTypes, FlagTypes, PlaceTypes, SetTypes
<1>12. ASSUME NEW t \in XTx, EndCommitLogicalLog(t) PROVE XTypes'
  BY Zenon, <1>12 DEF EndCommitLogicalLog, Go, AtLeast, TimeTypes, HeaderTypes, FlagTypes,
     PlaceTypes, SetTypes
<1>13. ASSUME NEW t \in XTx, CommitEnd(t) PROVE XTypes'
  BY Zenon, <1>13 DEF CommitEnd, Go, TimeTypes, HeaderTypes, FlagTypes, PlaceTypes, SetTypes
<1>14. ASSUME NEW t \in XTx, FinalizeUnlock(t) PROVE XTypes'
  BY Zenon, <1>14 DEF FinalizeUnlock, Go, UnlockCommit, TimeTypes, HeaderTypes, FlagTypes,
     PlaceTypes, SetTypes
<1>15. ASSUME NEW t \in XTx, FinalizeTs(t) PROVE XTypes'
  BY Zenon, <1>15 DEF FinalizeTs, Go, AtLeast, TimeTypes, HeaderTypes, FlagTypes, PlaceTypes,
     SetTypes
<1>16. ASSUME NEW t \in XTx, FinalizeSchema(t) PROVE XTypes'
  BY Zenon, <1>16 DEF FinalizeSchema, Go, AtLeast, TimeTypes, HeaderTypes, FlagTypes, PlaceTypes,
     SetTypes
<1>17. ASSUME NEW t \in XTx, FinalizeRelease(t) PROVE XTypes'
  BY Zenon, <1>17 DEF FinalizeRelease, Go, ReleaseExclusive, TimeTypes, HeaderTypes, FlagTypes,
     PlaceTypes, SetTypes
<1>18. ASSUME NEW t \in XTx, CleanupDropped(t) PROVE XTypes'
  BY Zenon, <1>18 DEF CleanupDropped, UnlockCommit, ReleaseExclusive, TimeTypes, HeaderTypes,
     FlagTypes, PlaceTypes, SetTypes
<1>19. ASSUME NEW t \in XTx, Busy(t) PROVE PlaceTypes' /\ todo' \in [XTx -> SUBSET XTx]
                                           /\ exclusive_tx' \in Holders
  <2>1. xstate' = [xstate EXCEPT ![t] = IF fresh[t] THEN "Gone" ELSE xstate[t]]
    BY Zenon, <1>19 DEF Busy
  <2> QED
    BY Zenon, <1>19, <2>1 DEF Busy, ReleaseExclusive, PlaceTypes, SetTypes
<1>20. ASSUME NEW t \in XTx, LookAtState(t) PROVE XTypes'
  <2>1. PICK u \in todo[t] : \/ Busy(t)
                             \/ /\ todo' = [todo EXCEPT ![t] = todo[t] \ {u}]
                                /\ UNCHANGED <<exclusive_tx, xstate, xat>>
    BY Zenon, <1>20 DEF LookAtState
  <2>2. PlaceTypes' /\ todo' \in [XTx -> SUBSET XTx] /\ exclusive_tx' \in Holders
    <3>1. todo[t] \ {u} \in SUBSET XTx
      BY Zenon DEF SetTypes
    <3>2. CASE todo' = [todo EXCEPT ![t] = todo[t] \ {u}] /\ UNCHANGED <<exclusive_tx, xstate, xat>>
      BY Zenon, <3>1, <3>2 DEF PlaceTypes, SetTypes
    <3> QED
      BY Zenon, <1>19, <2>1, <3>2
  <2> QED
    BY Zenon, <1>20, <2>2 DEF LookAtState, TimeTypes, HeaderTypes, FlagTypes, SetTypes
<1>21. ASSUME NEW t \in XTx, LookAtTimestamp(t) PROVE XTypes'
  <2>1. CASE Busy(t) /\ UNCHANGED late
    BY Zenon, <1>19, <1>21, <2>1 DEF LookAtTimestamp, TimeTypes, HeaderTypes, FlagTypes, SetTypes
  <2>2. CASE ~(Busy(t) /\ UNCHANGED late)
    <3>1. /\ xat' = [xat EXCEPT ![t] = IF xat[t] = "look" THEN "swap" ELSE "lock"]
          /\ late' = [late EXCEPT ![t] =
                       late[t] \cup IF xat[t] = "look" THEN {} ELSE Unpublished(t)]
          /\ UNCHANGED <<exclusive_tx, xstate, todo>>
      BY Zenon, <1>21, <2>2 DEF LookAtTimestamp
    <3>2. late[t] \cup (IF xat[t] = "look" THEN {} ELSE Unpublished(t)) \in SUBSET XTx
      BY Zenon DEF Unpublished, SetTypes
    <3>3. PlaceTypes'
      BY Zenon, <3>1 DEF PlaceTypes
    <3> QED
      BY Zenon, <1>21, <3>1, <3>2, <3>3
      DEF LookAtTimestamp, TimeTypes, HeaderTypes, FlagTypes, SetTypes
  <2> QED
    BY Zenon, <2>1, <2>2
<1>22. ASSUME NEW t \in XTx, SwapExclusive(t) PROVE XTypes'
  <2>1. CASE Busy(t) /\ UNCHANGED late
    BY Zenon, <1>19, <1>22, <2>1 DEF SwapExclusive, TimeTypes, HeaderTypes, FlagTypes, SetTypes
  <2>2. CASE ~(Busy(t) /\ UNCHANGED late)
    <3>1. /\ exclusive_tx' = t /\ xat' = [xat EXCEPT ![t] = "relook"] /\ xstate' = xstate
          /\ todo' = [todo EXCEPT ![t] = XTx \ {t}]
          /\ late' = [late EXCEPT ![t] = {u \in XTx : xat[u] = "tested"}]
      BY Zenon, <1>22, <2>2 DEF SwapExclusive
    <3>2. PlaceTypes' /\ todo' \in [XTx -> SUBSET XTx] /\ late' \in [XTx -> SUBSET XTx]
      BY Zenon, <3>1 DEF PlaceTypes, SetTypes
    <3> QED
      BY Zenon, <1>22, <3>1, <3>2 DEF SwapExclusive, TimeTypes, HeaderTypes, FlagTypes, SetTypes
  <2> QED
    BY Zenon, <2>1, <2>2
<1>23. ASSUME NEW t \in XTx, TakeCommitLock(t) PROVE XTypes'
  <2>1. CASE Busy(t) /\ UNCHANGED <<commit_lock, cookie>>
    BY Zenon, <1>19, <1>23, <2>1 DEF TakeCommitLock, TimeTypes, HeaderTypes, FlagTypes, SetTypes
  <2>2. CASE ~(Busy(t) /\ UNCHANGED <<commit_lock, cookie>>)
    <3>1. /\ commit_lock' = t /\ xat' = [xat EXCEPT ![t] = "run"]
          /\ cookie' = [cookie EXCEPT ![t] = IF fresh[t] THEN cookie[t] ELSE global_cookie]
          /\ UNCHANGED <<exclusive_tx, xstate, todo>>
      BY Zenon, <1>23, <2>2 DEF TakeCommitLock
    <3>2. PlaceTypes'
      BY Zenon, <3>1 DEF PlaceTypes
    <3>3. HeaderTypes'
      BY Zenon, <1>23, <3>1 DEF TakeCommitLock, HeaderTypes
    <3> QED
      BY Zenon, <1>23, <3>1, <3>2, <3>3 DEF TakeCommitLock, TimeTypes, FlagTypes, SetTypes
  <2> QED
    BY Zenon, <2>1, <2>2
<1> HIDE DEF XTypes
<1> QED
  BY ZenonT(40), <1>0, <1>1, <1>2, <1>3, <1>4, <1>5, <1>6, <1>7, <1>8, <1>9,
     <1>10, <1>11, <1>12, <1>13, <1>14, <1>15, <1>16, <1>17, <1>18, <1>20, <1>21, <1>22, <1>23
  DEF ExclusiveNext, ExclusiveDone

-----------------------------------------------------------------------------
(* The rules are kept *)

XInv ==
  /\ XTypes /\ last_global_header_ts < xclock
  /\ \A t \in XTx :
       PlaceRule(t) /\ ClockRule(t) /\ HolderRule(t) /\ SchemaRule(t) /\ HeaderRule(t)
  /\ \A t, u \in XTx :
       /\ ClockPair(t, u) /\ HolderPair(t, u) /\ LatePair(t, u)
       /\ OrderPair(t, u) /\ HeaderPair(t, u) /\ AcrossPair(t, u)

(* PublishesSchema moves the mark up, past the change of t itself. *)
LEMMA SchemaPublished ==
  ASSUME XInv, NEW t \in XTx, Others(t), PublishesSchema(t), NEW u \in XTx
  PROVE  SchemaRule(u)'
<1>0. XTypes /\ SchemaRule(u)
  BY Zenon DEF XInv
<1> USE <1>0 DEF XTypes, TimeTypes, SchemaRule, Changes, Logged, PublishesSchema,
  KeepsTimes, KeepsWork, KeepsLate
<1>1. /\ last_committed_schema_change_ts' >= last_committed_schema_change_ts
      /\ last_committed_schema_change_ts' \in Nat
  BY DEF AtLeast
<1>2. CASE u # t
  BY <1>1, <1>2 DEF Others, OthersStay, OthersTimes, OthersWork
<1>3. CASE u = t
  <2>1. ddl[t] => last_committed_schema_change_ts' >= end_ts[t]
    BY DEF AtLeast
  <2> QED
    BY Zenon, <1>1, <2>1, <1>3 DEF Moves
<1> QED
  BY Zenon, <1>2, <1>3

(* A published header is the newest one yet, or regressed says that it is not. *)
LEMMA HeaderPublished ==
  ASSUME XInv, NEW t \in XTx, Others(t), PublishesHeader(t) \/ PublishesTs(t), NEW u \in XTx
  PROVE  HeaderRule(u)'
<1>0. XTypes /\ HolderRule(u) /\ OrderPair(u, u) /\ HeaderRule(u)
  BY Zenon DEF XInv
<1> USE <1>0 DEF XTypes, HeaderTypes, HeaderRule, InHeader
<1>1. ~regressed' => ~regressed /\ global_cookie' >= global_cookie /\ global_cookie' \in Nat
  BY DEF PublishesHeader, PublishesTs, Publishes
<1>2. CASE u # t
  BY <1>1, <1>2 DEF PublishesHeader, PublishesTs, Publishes, KeepsLate,
     Others, OthersStay, OthersWork
<1>3. CASE u = t /\ PublishesTs(t)
  BY <1>1, <1>3 DEF PublishesTs, Publishes, KeepsLate, KeepsWork, Moves, Finalizing
<1>4. CASE u = t /\ PublishesHeader(t)
  <2>1. ddl[t] => last_global_header_ts < end_ts[t]
    BY Zenon, <1>4 DEF PublishesHeader, Moves, HolderRule, OrderPair, WillPublish
  <2>2. ddl[t] => global_cookie' = cookie[t]
    BY <1>4, <2>1 DEF PublishesHeader, Publishes, TimeTypes
  <2> QED
    BY <1>4, <2>2 DEF PublishesHeader, Publishes, KeepsWork
<1> QED
  BY Zenon, <1>2, <1>3, <1>4

(* A schema change in the log is in the header, or still with the exclusive    *)
(* transaction that makes it.                                                  *)
LEMMA ChangeIsInHeader ==
  ASSUME XInv, NEW v \in XTx, Changes(v)
  PROVE  (exclusive_tx = v /\ xstate[v] = "Preparing") \/ InHeader(v)
<1>0. XTypes /\ PlaceRule(v) /\ HolderRule(v)
  BY Zenon DEF XInv
<1>1. xat[v] \in PreparingAt \cup Finalizing \cup {"done"}
  BY Zenon, <1>0 DEF Changes, Logged, PlaceRule, XTypes, PlaceTypes, XPlaces
<1>2. CASE xat[v] \in PreparingAt
  BY Zenon, <1>0, <1>2 DEF Changes, HolderRule, PlaceRule, PreparingAt
<1>3. CASE xat[v] \in Finalizing \cup {"done"}
  BY Zenon, <1>0, <1>3 DEF Changes, Logged, InHeader, PlaceRule
<1> QED
  BY Zenon, <1>1, <1>2, <1>3

(* begin_tx waits for an unpublished cookie, so it starts with every change. *)
LEMMA BeginsWithHeader ==
  ASSUME XInv, NEW t \in XTx, Others(t), Begins(t), NEW v \in XTx, v # t
  PROVE  HeaderPair(t, v)'
<1> SUFFICES ASSUME ~regressed', ~fresh'[t], Changes(v)'
             PROVE  cookie'[v] <= cookie'[t]
  BY Zenon DEF HeaderPair
<1>0. XTypes /\ HeaderRule(v)
  BY Zenon DEF XInv
<1>1. /\ cookie'[v] = cookie[v] /\ cookie'[t] = global_cookie
      /\ Changes(v) /\ ~regressed /\ ~UnpublishedCookie
  BY Zenon DEF Begins, Others, OthersStay, OthersWork, Changes, Logged, KeepsHeader, KeepsLate
<1>2. CASE exclusive_tx = v /\ xstate[v] = "Preparing"
  BY <1>0, <1>1, <1>2 DEF UnpublishedCookie, Changes, XTypes, HeaderTypes
<1>3. CASE InHeader(v)
  BY Zenon, <1>0, <1>1, <1>3 DEF HeaderRule
<1> QED
  BY Zenon, <1>1, <1>2, <1>3, ChangeIsInHeader

(* An upgrade reads the header again when nobody else can be changing it. *)
LEMMA LocksWithHeader ==
  ASSUME XInv, NEW t \in XTx, Others(t), Locks(t), NEW v \in XTx, v # t
  PROVE  HeaderPair(t, v)'
<1> SUFFICES ASSUME ~regressed', ~fresh'[t], Changes(v)'
             PROVE  cookie'[v] <= cookie'[t]
  BY Zenon DEF HeaderPair
<1>0. HolderRule(t) /\ HeaderRule(v)
  BY Zenon DEF XInv
<1>1. /\ cookie'[v] = cookie[v] /\ cookie'[t] = global_cookie
      /\ Changes(v) /\ ~regressed
  BY Zenon DEF Locks, Others, OthersStay, OthersWork, Changes, Logged, KeepsHeader, KeepsLate
<1>2. exclusive_tx = t
  BY Zenon, <1>0 DEF Locks, Moves, HolderRule, Asking
<1> QED
  BY Zenon, <1>0, <1>1, <1>2, ChangeIsInHeader DEF HeaderRule

(* A schema change of its own only raises a transaction's cookie. *)
LEMMA WorksWithHeader ==
  ASSUME XInv, NEW t \in XTx, Others(t), Works(t), NEW v \in XTx, v # t
  PROVE  HeaderPair(t, v)'
<1> SUFFICES ASSUME ~regressed', ~fresh'[t], Changes(v)', end_ts'[v] < begin_ts'[t]
             PROVE  cookie'[v] <= cookie'[t]
  BY Zenon DEF HeaderPair
<1>0. XTypes /\ HeaderPair(t, v)
  BY Zenon DEF XInv
<1>1. /\ cookie'[v] = cookie[v] /\ cookie'[t] \in {cookie[t], cookie[t] + 1}
      /\ Changes(v) /\ end_ts[v] < begin_ts[t]
      /\ ~regressed /\ ~fresh[t] /\ xat[t] # "unborn"
  BY Zenon DEF Works, Moves, KeepsTimes, KeepsHeader, KeepsLate,
     Others, OthersStay, OthersTimes, OthersWork, Changes, Logged
<1> QED
  BY <1>0, <1>1 DEF HeaderPair, XTypes, HeaderTypes

(* A transaction that becomes Preparing has the latest timestamp of all. *)
LEMMA StoresLatest ==
  ASSUME XInv, NEW t \in XTx, Others(t), Stores(t), NEW u \in XTx, u # t
  PROVE  AcrossPair(u, t)' /\ HeaderPair(u, t)'
<1>0. XTypes /\ ClockPair(t, u)
  BY Zenon DEF XInv
<1>1. begin_ts'[u] < end_ts'[t] /\ end_ts'[u] < end_ts'[t]
  BY Zenon, <1>0 DEF Stores, ClockPair, InClosure, KeepsTimes, Others, OthersTimes
<1>2. begin_ts'[u] \in Nat /\ end_ts'[u] \in Nat /\ end_ts'[t] \in Nat
  BY Zenon, <1>0 DEF Stores, KeepsTimes, Others, OthersTimes, XTypes, TimeTypes
<1> QED
  BY <1>1, <1>2 DEF AcrossPair, HeaderPair

(* A writer that passes both tests began after every schema change before it:  *)
(* one that is not yet in the mark would still hold exclusive_tx.              *)
LEMMA StoresAfterChange ==
  ASSUME XInv, NEW t \in XTx, Others(t), Stores(t), NEW v \in XTx, v # t
  PROVE  AcrossPair(t, v)'
<1>0. /\ XTypes /\ PlaceRule(v) /\ ClockRule(v) /\ ClockPair(v, t)
      /\ HolderPair(t, v) /\ SchemaRule(v) /\ AcrossPair(t, v)
  BY Zenon DEF XInv
<1> SUFFICES ASSUME wrote'[t], Logged(t)', Changes(v)', end_ts'[v] < end_ts'[t]
             PROVE  end_ts'[v] < begin_ts'[t]
  BY Zenon DEF AcrossPair
<1>1. /\ end_ts'[v] = end_ts[v] /\ begin_ts'[t] = begin_ts[t] /\ end_ts'[t] = end_ts[t]
      /\ Changes(v) /\ wrote[t]
  BY Zenon DEF Stores, KeepsTimes, KeepsWork, KeepsLate, Others, OthersTimes, OthersWork,
     OthersStay, Changes, Logged
<1>2. CASE Logged(t)
  BY Zenon, <1>0, <1>1, <1>2 DEF AcrossPair
<1>3. CASE ~Logged(t)
  <2>1. xat[t] = "tested" /\ ~SchemaConflict(t)
    BY Zenon, <1>1, <1>3 DEF Stores, Logged
  <2>2. exclusive_tx # v
    BY Zenon, <1>0, <1>1, <2>1 DEF HolderPair, PlaceRule, Changes, Logged, ActiveAt, Asking
  <2>3. /\ end_ts[v] <= last_committed_schema_change_ts
        /\ last_committed_schema_change_ts <= begin_ts[t]
    BY <1>0, <1>1, <2>1, <2>2 DEF SchemaRule, SchemaConflict, XTypes, TimeTypes
  <2>4. end_ts[v] # begin_ts[t]
    BY Zenon, <1>0, <1>1 DEF Changes, ClockRule, ClockPair
  <2> QED
    BY <1>0, <1>1, <2>3, <2>4 DEF XTypes, TimeTypes
<1> QED
  BY Zenon, <1>2, <1>3

(* A commit that the second look does not find is in neither of the two places *)
(* where it looks: it is Committed and not yet in last_committed_tx_ts.        *)
LEMMA PassesLate ==
  ASSUME XInv, NEW t \in XTx, Others(t), Passes(t), NEW v \in XTx, v # t
  PROVE  LatePair(t, v)'
<1>0. XTypes /\ LatePair(t, v)
  BY Zenon DEF XInv
<1>1. Misses(t, v)' => Misses(t, v)
  BY Zenon, <1>0 DEF Passes, Misses, Logged, KeepsTimes, KeepsWork, Others, OthersStay,
     OthersTimes, OthersWork
<1>2. Misses(t, v) /\ exclusive_tx = t => v \in late[t] \/ xstate[v] = "Committed"
  BY Zenon, <1>0 DEF Passes, Moves, LatePair
<1>3. Misses(t, v) /\ xstate[v] = "Committed" => v \in Unpublished(t)
  <2>1. ~CommittedSince(t)
    BY Zenon DEF Passes
  <2>2. Misses(t, v) => last_committed_tx_ts < end_ts[v]
    BY <1>0, <2>1 DEF Misses, CommittedSince, XTypes, TimeTypes
  <2> QED
    BY Zenon, <2>2 DEF Misses, Unpublished
<1>4. late'[t] = late[t] \cup Unpublished(t) /\ exclusive_tx' = exclusive_tx /\ xat'[v] = xat[v]
  BY Zenon DEF Passes, Others, OthersStay
<1> QED
  BY Zenon, <1>0, <1>1, <1>2, <1>3, <1>4 DEF LatePair

(* What a step of t leaves as it is *)
LEMMA OthersKept ==
  ASSUME NEW t \in XTx, StepOf(t), NEW u \in XTx, u # t
  PROVE  /\ xat'[u] = xat[u] /\ xstate'[u] = xstate[u]
         /\ begin_ts'[u] = begin_ts[u] /\ end_ts'[u] = end_ts[u] /\ cookie'[u] = cookie[u]
         /\ (wrote'[u] <=> wrote[u]) /\ (ddl'[u] <=> ddl[u]) /\ (fresh'[u] <=> fresh[u])
         /\ todo'[u] = todo[u] /\ late'[u] = late[u]
BY Zenon DEF StepOf, Others, OthersStay, OthersTimes, OthersWork, OthersSets

(* Nobody returns to the log once dropped, nor does a header that was lost, and *)
(* only t can take exclusive_tx.                                                *)
LEMMA SharedKept ==
  ASSUME NEW t \in XTx, StepOf(t)
  PROVE  /\ dropped \subseteq dropped' /\ (regressed => regressed')
         /\ \A u \in XTx : u # t /\ exclusive_tx' = u => exclusive_tx = u
<1>1. dropped \subseteq dropped'
  BY Zenon DEF StepOf, Begins, Asks, Passes, Locks, GivesUp, Swaps, Works, Starts, Tests, Stores,
     Advances, PublishesHeader, PublishesTs, PublishesSchema, Publishes, Ends, KeepsLate
<1>2. regressed => regressed'
  BY Zenon DEF StepOf, Begins, Asks, Passes, Locks, GivesUp, Swaps, Works, Starts, Tests, Stores,
     Advances, PublishesHeader, PublishesTs, PublishesSchema, Publishes, Ends, KeepsHeader
<1>3. ASSUME NEW u \in XTx, u # t, exclusive_tx' = u PROVE exclusive_tx = u
  BY Zenon, <1>3, ExclusiveAssumption DEF StepOf, Begins, Asks, Passes, Locks, GivesUp, Swaps, Works, Starts, Tests, Stores,
     Advances, PublishesHeader, PublishesTs, PublishesSchema, Publishes, Ends, Releases
<1> QED
  BY Zenon, <1>1, <1>2, <1>3

(* A transaction stays where its state says. *)
LEMMA PlaceRuleKept ==
  ASSUME XInv, NEW t \in XTx, StepOf(t), NEW u \in XTx
  PROVE  PlaceRule(u)'
<1>0. /\ XTypes /\ Others(t)
      /\ PlaceRule(u)
  BY Zenon DEF StepOf, XInv
<1> USE <1>0, ExclusiveAssumption DEF XTypes, PlaceRule, Others, OthersStay, OthersWork,
  Moves, KeepsWork, ActiveAt, PreparingAt, Finalizing, Acquiring, Asking, InClosure
<1>1. CASE Begins(t)
  BY Zenon, <1>1 DEF Begins
<1>2. CASE Asks(t) \/ Passes(t) \/ Locks(t)
  BY ZenonT(40), <1>2 DEF Asks, Passes, Locks
<1>3. CASE GivesUp(t) \/ Swaps(t) \/ Works(t)
  BY SMT, ZenonT(40), <1>3 DEF GivesUp, Swaps, Works
<1>4. CASE Starts(t)
  BY ZenonT(40), <1>4 DEF Starts
<1>5. CASE Tests(t) \/ Stores(t)
  BY SMT, ZenonT(40), <1>5 DEF Tests, Stores
<1>6. CASE Advances(t) \/ PublishesHeader(t)
  <2>1. CASE u = t
    BY Zenon, <1>6, <2>1 DEF Advances, PublishesHeader, Publishes
  <2>2. CASE u # t
    BY Zenon, <1>6, <2>2 DEF Advances, PublishesHeader, Publishes
  <2> QED
    BY Zenon, <2>1, <2>2
<1>7. CASE PublishesTs(t) \/ PublishesSchema(t)
  BY ZenonT(40), <1>7 DEF PublishesTs, Publishes, PublishesSchema
<1>8. CASE Ends(t)
  BY SMT, ZenonT(40), <1>8 DEF Ends
<1> QED
  BY Zenon, <1>0, <1>1, <1>2, <1>3, <1>4, <1>5, <1>6, <1>7, <1>8 DEF StepOf

(* The clock stays ahead of every timestamp, its lock with who is in the closure. *)
LEMMA ClockRuleKept ==
  ASSUME XInv, NEW t \in XTx, StepOf(t), NEW u \in XTx
  PROVE  ClockRule(u)'
<1>0. /\ XTypes /\ Others(t)
      /\ PlaceRule(u) /\ ClockRule(u) /\ ClockRule(t)
  BY Zenon DEF StepOf, XInv
<1> USE <1>0, ExclusiveAssumption DEF XTypes, TimeTypes, ClockRule, Logged, Others,
  OthersStay, OthersTimes, Moves, KeepsTimes, InClosure, Finalizing, Acquiring, Asking
<1>1. CASE Begins(t)
  <2>1. CASE u = t
    BY <1>1, <2>1 DEF Begins
  <2>2. CASE u # t
    BY <1>1, <2>2 DEF Begins
  <2> QED
    BY Zenon, <2>1, <2>2
<1>2. CASE Asks(t) \/ Passes(t) \/ Locks(t)
  BY SMT, ZenonT(40), <1>2 DEF Asks, Passes, Locks
<1>3. CASE GivesUp(t) \/ Swaps(t) \/ Works(t)
  BY Zenon, <1>3 DEF GivesUp, Swaps, Works
<1>4. CASE Starts(t)
  <2>1. CASE u = t
    BY <1>4, <2>1 DEF Starts
  <2>2. CASE u # t
    BY <1>4, <2>2 DEF Starts
  <2> QED
    BY Zenon, <2>1, <2>2
<1>5. CASE Tests(t) \/ Stores(t)
  <2>1. CASE u = t
    BY Zenon, <1>5, <2>1 DEF Tests, Stores
  <2>2. CASE u # t
    BY Zenon, <1>5, <2>2 DEF Tests, Stores
  <2> QED
    BY Zenon, <2>1, <2>2
<1>6. CASE Advances(t) \/ PublishesHeader(t)
  BY ZenonT(40), <1>6 DEF Advances, PlaceRule, PreparingAt, PublishesHeader, Publishes
<1>7. CASE PublishesTs(t) \/ PublishesSchema(t)
  BY ZenonT(40), <1>7 DEF PublishesTs, Publishes, PublishesSchema
<1>8. CASE Ends(t)
  BY SMT, ZenonT(40), <1>8 DEF Ends, PlaceRule, PreparingAt
<1> QED
  BY Zenon, <1>0, <1>1, <1>2, <1>3, <1>4, <1>5, <1>6, <1>7, <1>8 DEF StepOf

(* Timestamps stay distinct. *)
LEMMA ClockPairKept ==
  ASSUME XInv, NEW t \in XTx, StepOf(t), NEW u \in XTx, NEW v \in XTx
  PROVE  ClockPair(u, v)'
<1>0. /\ XTypes /\ Others(t)
      /\ ClockRule(u) /\ ClockRule(v) /\ ClockPair(u, v)
  BY Zenon DEF StepOf, XInv
<1> USE <1>0, ExclusiveAssumption DEF XTypes, TimeTypes, ClockRule, ClockPair, Others,
  OthersStay, OthersTimes, Moves, KeepsTimes, ActiveAt, PreparingAt, Finalizing,
  Acquiring, Asking, InClosure
<1>1. CASE Begins(t)
  BY <1>1 DEF Begins
<1>2. CASE Asks(t) \/ Passes(t) \/ Locks(t)
  BY ZenonT(40), <1>2 DEF Asks, Passes, Locks
<1>3. CASE GivesUp(t) \/ Swaps(t) \/ Works(t)
  BY ZenonT(40), <1>3 DEF GivesUp, Swaps, Works
<1>4. CASE Starts(t)
  BY <1>4 DEF Starts
<1>5. CASE Tests(t) \/ Stores(t)
  BY Zenon, <1>5 DEF Tests, Stores
<1>6. CASE Advances(t) \/ PublishesHeader(t)
  BY Zenon, <1>6 DEF Advances, PublishesHeader, Publishes
<1>7. CASE PublishesTs(t) \/ PublishesSchema(t)
  BY Zenon, <1>7 DEF PublishesTs, Publishes, PublishesSchema
<1>8. CASE Ends(t)
  BY ZenonT(40), <1>8 DEF Ends
<1> QED
  BY Zenon, <1>0, <1>1, <1>2, <1>3, <1>4, <1>5, <1>6, <1>7, <1>8 DEF StepOf

(* exclusive_tx stays with a transaction that has asked and not ended. *)
LEMMA HolderRuleKept ==
  ASSUME XInv, NEW t \in XTx, StepOf(t), NEW u \in XTx
  PROVE  HolderRule(u)'
<1>0. /\ XTypes /\ Others(t)
      /\ PlaceRule(u) /\ HolderRule(u)
  BY Zenon DEF StepOf, XInv
<1> USE <1>0, ExclusiveAssumption DEF XTypes, HolderRule, Others, OthersStay, OthersWork,
  Moves, KeepsWork, Releases, ActiveAt, PreparingAt, Finalizing, Acquiring, Asking,
  InClosure
<1>1. CASE Begins(t)
  BY Zenon, <1>1 DEF Begins
<1>2. CASE Asks(t) \/ Passes(t) \/ Locks(t)
  BY Zenon, <1>2 DEF Asks, Passes, Locks
<1>3. CASE GivesUp(t) \/ Swaps(t) \/ Works(t)
  BY Zenon, <1>3 DEF GivesUp, Swaps, Works
<1>4. CASE Starts(t)
  BY Zenon, <1>4 DEF Starts
<1>5. CASE Tests(t) \/ Stores(t)
  BY Zenon, <1>5 DEF Tests, Stores
<1>6. CASE Advances(t) \/ PublishesHeader(t)
  BY Zenon, <1>6 DEF Advances, PublishesHeader, Publishes
<1>7. CASE PublishesTs(t) \/ PublishesSchema(t)
  BY Zenon, <1>7 DEF PublishesTs, Publishes, PublishesSchema
<1>8. CASE Ends(t)
  BY SMT, ZenonT(40), <1>8 DEF Ends
<1> QED
  BY Zenon, <1>0, <1>1, <1>2, <1>3, <1>4, <1>5, <1>6, <1>7, <1>8 DEF StepOf

(* Nobody else starts to commit while a transaction is between test and store. *)
LEMMA HolderPairKept ==
  ASSUME XInv, NEW t \in XTx, StepOf(t), NEW u \in XTx, NEW v \in XTx
  PROVE  HolderPair(u, v)'
<1>0. /\ XTypes /\ Others(t)
      /\ ClockRule(u) /\ ClockRule(t) /\ HolderRule(u) /\ HolderRule(v) /\ HolderPair(u, v)
  BY Zenon DEF StepOf, XInv
<1> USE <1>0, ExclusiveAssumption DEF XTypes, ClockRule, HolderRule, HolderPair, Others,
  OthersStay, Moves, Releases, ActiveAt, PreparingAt, Finalizing, Acquiring, Asking,
  InClosure
<1>1. CASE Begins(t)
  BY Zenon, <1>1 DEF Begins
<1>2. CASE Asks(t) \/ Passes(t) \/ Locks(t)
  BY Zenon, <1>2 DEF Asks, Passes, Locks
<1>3. CASE GivesUp(t) \/ Swaps(t) \/ Works(t)
  BY ZenonT(40), <1>3 DEF GivesUp, Swaps, Works
<1>4. CASE Starts(t)
  BY Zenon, <1>4 DEF Starts
<1>5. CASE Tests(t) \/ Stores(t)
  BY SMT, ZenonT(40), <1>5 DEF Tests, Stores
<1>6. CASE Advances(t) \/ PublishesHeader(t)
  BY Zenon, <1>6 DEF Advances, PublishesHeader, Publishes
<1>7. CASE PublishesTs(t) \/ PublishesSchema(t)
  BY Zenon, <1>7 DEF PublishesTs, Publishes, PublishesSchema
<1>8. CASE Ends(t)
  BY ZenonT(40), <1>8 DEF Ends
<1> QED
  BY Zenon, <1>0, <1>1, <1>2, <1>3, <1>4, <1>5, <1>6, <1>7, <1>8 DEF StepOf

(* The schema change of a commit is published before exclusive_tx is released. *)
LEMMA SchemaRuleKept ==
  ASSUME XInv, NEW t \in XTx, StepOf(t), NEW u \in XTx
  PROVE  SchemaRule(u)'
<1>0. /\ XTypes /\ Others(t)
      /\ PlaceRule(u) /\ HolderRule(u) /\ SchemaRule(u)
  BY Zenon DEF StepOf, XInv
<1> USE <1>0, ExclusiveAssumption DEF XTypes, TimeTypes, PlaceRule, HolderRule,
  SchemaRule, Changes, Logged, Others, OthersStay, OthersTimes, OthersWork, Moves,
  Releases, KeepsTimes, KeepsWork, KeepsLate, KeepsMarks, ActiveAt, PreparingAt,
  Finalizing, Acquiring, Asking, InClosure
<1>1. CASE Begins(t)
  BY Zenon, <1>1 DEF Begins
<1>2. CASE Asks(t) \/ Passes(t) \/ Locks(t)
  BY Zenon, <1>2 DEF Asks, Passes, Locks
<1>3. CASE GivesUp(t) \/ Swaps(t) \/ Works(t)
  BY ZenonT(40), <1>3 DEF GivesUp, Swaps, Works
<1>4. CASE Starts(t)
  BY Zenon, <1>4 DEF Starts
<1>5. CASE Tests(t) \/ Stores(t)
  BY SMT, ZenonT(40), <1>5 DEF Tests, Stores
<1>6. CASE Advances(t) \/ PublishesHeader(t)
  BY Zenon, <1>6 DEF Advances, PublishesHeader, Publishes
<1>7. CASE PublishesTs(t)
  BY Zenon, <1>7 DEF PublishesTs, Publishes
<1>8. CASE PublishesSchema(t)
  BY ZenonT(40), <1>8, SchemaPublished DEF XInv
<1>9. CASE Ends(t)
  BY SMT, ZenonT(40), <1>9 DEF Ends
<1> QED
  BY Zenon, <1>0, <1>1, <1>2, <1>3, <1>4, <1>5, <1>6, <1>7, <1>8, <1>9 DEF StepOf

(* No header comes between the test of an exclusive transaction and its own. *)
LEMMA OrderPairKept ==
  ASSUME XInv, NEW t \in XTx, StepOf(t), NEW u \in XTx, NEW v \in XTx
  PROVE  OrderPair(u, v)'
<1>0. /\ XTypes /\ Others(t)
      /\ last_global_header_ts < xclock /\ ClockRule(u) /\ ClockRule(v)
      /\ HolderRule(u) /\ HolderPair(v, u) /\ OrderPair(u, v) /\ OrderPair(u, t)
  BY Zenon DEF StepOf, XInv
<1> USE <1>0, ExclusiveAssumption DEF XTypes, TimeTypes, ClockRule, HolderRule,
  HolderPair, OrderPair, WillPublish, Others, OthersStay, OthersTimes, Moves, Releases,
  KeepsTimes, KeepsHeader, ActiveAt, PreparingAt, Finalizing, Acquiring, Asking, InClosure
<1>1. CASE Begins(t)
  BY Zenon, <1>1 DEF Begins
<1>2. CASE Asks(t) \/ Passes(t) \/ Locks(t)
  BY ZenonT(40), <1>2 DEF Asks, Passes, Locks
<1>3. CASE GivesUp(t) \/ Swaps(t) \/ Works(t)
  BY SMT, ZenonT(40), <1>3 DEF GivesUp, Swaps, Works
<1>4. CASE Starts(t)
  <2>1. CASE u = t
    BY Zenon, <1>4, <2>1 DEF Starts
  <2>2. CASE v = t /\ u # t
    BY Zenon, <1>4, <2>2 DEF Starts
  <2>3. CASE u # t /\ v # t
    BY ZenonT(40), <1>4, <2>3 DEF Starts
  <2> QED
    BY Zenon, <2>1, <2>2, <2>3
<1>5. CASE Tests(t) \/ Stores(t)
  BY SMT, ZenonT(40), <1>5 DEF Tests, Stores
<1>6. CASE Advances(t) \/ PublishesHeader(t)
  BY ZenonT(40), <1>6 DEF Advances, PublishesHeader, Publishes, AtLeast
<1>7. CASE PublishesTs(t) \/ PublishesSchema(t)
  BY ZenonT(40), <1>7 DEF PublishesTs, Publishes, PublishesSchema
<1>8. CASE Ends(t)
  BY SMT, ZenonT(40), <1>8 DEF Ends
<1> QED
  BY Zenon, <1>0, <1>1, <1>2, <1>3, <1>4, <1>5, <1>6, <1>7, <1>8 DEF StepOf

(* The header keeps the schema changes that reached the log. *)
LEMMA HeaderRuleKept ==
  ASSUME XInv, NEW t \in XTx, StepOf(t), NEW u \in XTx
  PROVE  HeaderRule(u)'
<1>0. /\ Others(t) /\ PlaceRule(t) /\ HeaderRule(u)
      /\ dropped \subseteq dropped' /\ (regressed => regressed')
  BY Zenon, SharedKept DEF StepOf, XInv
<1>1. CASE PublishesHeader(t) \/ PublishesTs(t)
  BY Zenon, <1>0, <1>1, HeaderPublished
<1>2. CASE ~PublishesHeader(t) /\ ~PublishesTs(t)
  <2>1. global_cookie' = global_cookie
    BY Zenon, <1>2 DEF StepOf, Begins, Asks, Passes, Locks, GivesUp, Swaps, Works, Starts, Tests, Stores,
     Advances, PublishesHeader, PublishesTs, PublishesSchema, Publishes, Ends, KeepsHeader
  <2>2. CASE u # t
    BY Zenon, <1>0, <2>1, <2>2, OthersKept DEF HeaderRule, InHeader
  <2>3. ASSUME InHeader(t)' PROVE InHeader(t) /\ cookie'[t] = cookie[t]
    <3> USE <1>0, <2>3 DEF InHeader, Finalizing
    <3>1. ~(Begins(t) \/ Asks(t) \/ Passes(t) \/ Locks(t) \/ Swaps(t) \/ Works(t))
      BY Zenon DEF Begins, Asks, Passes, Locks, Swaps, Works, Moves
    <3>2. ~(GivesUp(t) \/ Starts(t) \/ Tests(t) \/ Stores(t))
      <4>1. ~GivesUp(t)
        <5>1. xat[t] \in Acquiring \cup Asking => xstate[t] = "Active"
          BY Zenon DEF PlaceRule, ActiveAt
        <5> QED
          BY Zenon, <5>1 DEF GivesUp
      <4> QED
        BY Zenon, <4>1 DEF Starts, Tests, Stores, Moves
    <3>3. CASE Advances(t) \/ PublishesSchema(t)
      BY Zenon, <3>3 DEF Advances, PublishesSchema, Moves, KeepsWork, KeepsLate
    <3>4. CASE Ends(t)
      BY Zenon, <3>4 DEF Ends, KeepsWork, PlaceRule
    <3> QED
      BY Zenon, <1>2, <3>1, <3>2, <3>3, <3>4 DEF StepOf
  <2> QED
    BY Zenon, <1>0, <2>1, <2>2, <2>3 DEF HeaderRule
<1> QED
  BY Zenon, <1>1, <1>2

(* Only Stores gives a transaction its place in the log; what it wrote and its *)
(* timestamps are the same from there on.                                      *)
LEMMA LoggedKept ==
  ASSUME XInv, NEW t \in XTx, StepOf(t), ~Stores(t), Logged(t)'
  PROVE  /\ Logged(t) /\ begin_ts'[t] = begin_ts[t] /\ end_ts'[t] = end_ts[t]
         /\ cookie'[t] = cookie[t] /\ (wrote'[t] <=> wrote[t]) /\ (ddl'[t] <=> ddl[t])
         /\ xstate[t] = "Committed" => xstate'[t] = "Committed"
<1>0. PlaceRule(t)
  BY Zenon DEF XInv
<1> USE <1>0 DEF PlaceRule, Logged, Moves, KeepsTimes, KeepsWork,
  ActiveAt, PreparingAt, Finalizing, Acquiring, Asking, InClosure
<1>1. ~(Begins(t) \/ Asks(t) \/ Passes(t) \/ Locks(t))
  BY Zenon DEF Begins, Asks, Passes, Locks
<1>2. ~(GivesUp(t) \/ Swaps(t) \/ Works(t) \/ Starts(t) \/ Tests(t))
  BY Zenon DEF GivesUp, Swaps, Works, Starts, Tests
<1>3. CASE Advances(t) \/ PublishesHeader(t)
  BY Zenon, <1>3 DEF Advances, PublishesHeader, Publishes
<1>4. CASE PublishesTs(t) \/ PublishesSchema(t)
  BY Zenon, <1>4 DEF PublishesTs, PublishesSchema, Publishes
<1>5. CASE Ends(t)
  BY Zenon, <1>5 DEF Ends
<1> QED
  BY Zenon, <1>1, <1>2, <1>3, <1>4, <1>5 DEF StepOf

(* A transaction of begin_tx keeps the schema changes of its snapshot. *)
LEMMA HeaderPairKept ==
  ASSUME XInv, NEW t \in XTx, StepOf(t), NEW u \in XTx, NEW v \in XTx
  PROVE  HeaderPair(u, v)'
<1>0. /\ Others(t) /\ HeaderPair(u, v)
      /\ dropped \subseteq dropped' /\ (regressed => regressed')
  BY Zenon, SharedKept DEF StepOf, XInv
<1>1. CASE u # t /\ v # t
  <2>1. Changes(v)' => Changes(v)
    BY Zenon, <1>0, <1>1, OthersKept DEF Changes, Logged
  <2> QED
    BY ZenonT(40), <1>0, <1>1, <2>1, OthersKept DEF HeaderPair
<1>2. CASE v = t /\ u # t
  <2>1. CASE Stores(t)
    BY Zenon, <1>0, <1>2, <2>1, StoresLatest
  <2>2. CASE ~Stores(t)
    <3>1. Changes(t)' => Changes(t) /\ end_ts'[t] = end_ts[t] /\ cookie'[t] = cookie[t]
      BY Zenon, <1>0, <2>2, LoggedKept DEF Changes
    <3> QED
      BY Zenon, <1>0, <1>2, <3>1, OthersKept DEF HeaderPair
  <2> QED
    BY Zenon, <2>1, <2>2
<1>3. CASE u = t /\ v # t
  <2>1. CASE Begins(t)
    BY Zenon, <1>0, <1>3, <2>1, BeginsWithHeader
  <2>2. CASE Locks(t)
    BY Zenon, <1>0, <1>3, <2>2, LocksWithHeader
  <2>3. CASE Works(t)
    BY Zenon, <1>0, <1>3, <2>3, WorksWithHeader
  <2>4. CASE ~Begins(t) /\ ~Locks(t) /\ ~Works(t)
    <3>1. /\ cookie'[t] = cookie[t] /\ begin_ts'[t] = begin_ts[t] /\ (fresh'[t] <=> fresh[t])
      BY Zenon, <2>4 DEF StepOf, Begins, Asks, Passes, Locks, GivesUp, Swaps, Works, Starts, Tests, Stores,
     Advances, PublishesHeader, PublishesTs, PublishesSchema, Publishes, Ends, KeepsTimes, KeepsWork
    <3>2. xat[t] # "unborn"
      BY Zenon, <2>4 DEF StepOf, Begins, Asks, Passes, Locks, GivesUp, Swaps, Works, Starts, Tests, Stores,
     Advances, PublishesHeader, PublishesTs, PublishesSchema, Publishes, Ends,
         Moves, Finalizing, Acquiring, Asking
    <3> QED
      <4>1. Changes(v)' => Changes(v)
        BY Zenon, <1>0, <1>3, OthersKept DEF Changes, Logged
      <4> QED
        BY ZenonT(40), <1>0, <1>3, <3>1, <3>2, <4>1, OthersKept DEF HeaderPair
  <2> QED
    BY Zenon, <2>1, <2>2, <2>3, <2>4
<1>4. CASE u = t /\ v = t
  BY Zenon, <1>4 DEF HeaderPair
<1> QED
  BY Zenon, <1>1, <1>2, <1>3, <1>4

(* No rows are committed across a schema change. *)
LEMMA AcrossPairKept ==
  ASSUME XInv, NEW t \in XTx, StepOf(t), NEW u \in XTx, NEW v \in XTx
  PROVE  AcrossPair(u, v)'
<1>0. Others(t) /\ AcrossPair(u, v) /\ dropped \subseteq dropped'
  BY Zenon, SharedKept DEF StepOf, XInv
<1>1. CASE u # t /\ v # t
  BY Zenon, <1>0, <1>1, OthersKept DEF AcrossPair, Changes, Logged
<1>2. CASE v = t /\ u # t
  <2>1. CASE Stores(t)
    BY Zenon, <1>0, <1>2, <2>1, StoresLatest
  <2>2. CASE ~Stores(t)
    <3>1. Logged(u)' <=> Logged(u)
      BY Zenon, <1>2, OthersKept DEF Logged
    <3> QED
      BY Zenon, <1>0, <1>2, <2>2, <3>1, OthersKept, LoggedKept DEF AcrossPair, Changes
  <2> QED
    BY Zenon, <2>1, <2>2
<1>3. CASE u = t /\ v # t
  <2>1. CASE Stores(t)
    BY Zenon, <1>0, <1>3, <2>1, StoresAfterChange
  <2>2. CASE ~Stores(t)
    <3>1. Changes(v)' => Changes(v)
      BY Zenon, <1>0, <1>3, OthersKept DEF Changes, Logged
    <3> QED
      <4>1. wrote'[t] /\ Logged(t)' => wrote[t] /\ Logged(t)
        BY Zenon, <2>2, LoggedKept
      <4>2. Logged(t)' => begin_ts'[t] = begin_ts[t] /\ end_ts'[t] = end_ts[t]
        BY Zenon, <2>2, LoggedKept
      <4> QED
        BY ZenonT(40), <1>0, <1>3, <3>1, <4>1, <4>2, OthersKept DEF AcrossPair
  <2> QED
    BY Zenon, <2>1, <2>2
<1>4. CASE u = t /\ v = t
  BY Zenon, <1>4 DEF AcrossPair
<1> QED
  BY Zenon, <1>1, <1>2, <1>3, <1>4

(* A holder of exclusive_tx misses only late commits, or has yet to see them. *)
LEMMA LatePairKept ==
  ASSUME XInv, NEW t \in XTx, StepOf(t), NEW u \in XTx, NEW v \in XTx
  PROVE  LatePair(u, v)'
<1>0. /\ Others(t) /\ HolderRule(t) /\ LatePair(u, v)
      /\ u # t /\ exclusive_tx' = u => exclusive_tx = u
  BY Zenon, SharedKept DEF StepOf, XInv
<1>1. CASE u # t /\ v # t
  <2>1. Misses(u, v)' => Misses(u, v)
    BY ZenonT(40), <1>1, OthersKept DEF Misses, Logged
  <2> QED
    BY ZenonT(40), <1>0, <1>1, <2>1, OthersKept DEF LatePair
<1>2. CASE v = t /\ u # t
  <2>1. CASE Tests(t)
    <3>1. ~Logged(t)'
      <4>1. PlaceRule(t)
        BY Zenon DEF XInv
      <4> QED
        BY Zenon, <2>1, <4>1 DEF Tests, Moves, PlaceRule, ActiveAt, InClosure, Logged
    <3>2. xat'[t] = "tested" => exclusive_tx' # u
      BY Zenon, <1>2, <2>1, ExclusiveAssumption DEF Tests, Moves
    <3> QED
      BY Zenon, <1>2, <3>1, <3>2 DEF LatePair, Misses
  <2>2. CASE ~Tests(t)
    <3>1. xat'[t] # "tested"
      BY Zenon, <2>2 DEF StepOf, Begins, Asks, Passes, Locks, GivesUp, Swaps, Works, Starts, Tests, Stores,
     Advances, PublishesHeader, PublishesTs, PublishesSchema, Publishes, Ends, Moves
    <3>2. CASE Stores(t)
      <4>1. Misses(u, t)' => xat[t] = "tested"
        <5>1. PlaceRule(t)
          BY Zenon DEF XInv
        <5> QED
          BY Zenon, <3>2, <5>1
          DEF Stores, Misses, KeepsWork, Logged, PlaceRule, ActiveAt, InClosure
      <4> QED
        BY Zenon, <1>0, <1>2, <3>1, <4>1, OthersKept DEF LatePair
    <3>3. CASE ~Stores(t)
      <4>1. Misses(u, t)' => Misses(u, t) /\ (xstate[t] = "Committed" => xstate'[t] = "Committed")
        BY Zenon, <1>2, <3>3, OthersKept, LoggedKept DEF Misses
      <4> QED
        BY Zenon, <1>0, <1>2, <3>1, <4>1, OthersKept DEF LatePair
    <3> QED
      BY Zenon, <3>2, <3>3
  <2> QED
    BY Zenon, <2>1, <2>2
<1>3. CASE u = t /\ v # t
  <2>0. Misses(t, v)' <=> Logged(v) /\ wrote[v] /\ begin_ts'[t] < end_ts[v]
    BY Zenon, <1>3, OthersKept DEF Misses, Logged
  <2>1. CASE Passes(t)
    BY Zenon, <1>0, <1>3, <2>1, PassesLate
  <2>2. CASE Begins(t) \/ GivesUp(t) \/ Ends(t)
    <3>1. exclusive_tx' # t
      BY Zenon, <1>0, <2>2, ExclusiveAssumption DEF Begins, GivesUp, Ends, Releases, HolderRule
    <3> QED
      BY Zenon, <1>3, <3>1 DEF LatePair
  <2>3. CASE Swaps(t)
    <3>1. xat'[t] = "relook" /\ v \in todo'[t]
      BY Zenon, <1>3, <2>3 DEF Swaps, Moves
    <3>2. xat'[v] = "tested" => v \in late'[t]
      BY Zenon, <1>3, <2>3, OthersKept DEF Swaps
    <3> QED
      BY Zenon, <1>3, <3>1, <3>2 DEF LatePair
  <2>4. CASE Asks(t)
    <3>1. CASE xat[t] = "relook"
      <4>1. PICK w \in todo[t] : xstate[w] # "Preparing" /\ todo'[t] = todo[t] \ {w}
        BY Zenon, <2>4, <3>1 DEF Asks, Moves
      <4> QED
        BY Zenon, <1>0, <1>3, <2>0, <2>4, <3>1, <4>1, OthersKept
        DEF Asks, Moves, KeepsTimes, KeepsLate, LatePair, Misses, Logged
    <3>2. CASE xat[t] # "relook"
      <4>1. exclusive_tx' # t
        BY Zenon, <1>0, <2>4, <3>2 DEF Asks, Moves, HolderRule, Acquiring
      <4> QED
        BY Zenon, <1>3, <4>1 DEF LatePair
    <3> QED
      BY Zenon, <3>1, <3>2
  <2>5. CASE ~Passes(t) /\ ~Begins(t) /\ ~GivesUp(t) /\ ~Ends(t) /\ ~Swaps(t) /\ ~Asks(t)
    <3>1. /\ begin_ts'[t] = begin_ts[t] /\ late'[t] = late[t] /\ exclusive_tx' = exclusive_tx
      BY Zenon, <2>5 DEF StepOf, Begins, Asks, Passes, Locks, GivesUp, Swaps, Works, Starts, Tests, Stores,
     Advances, PublishesHeader, PublishesTs, PublishesSchema, Publishes, Ends, KeepsTimes, KeepsLate
    <3>2. xat[t] # "relook"
      BY Zenon, <2>5 DEF StepOf, Begins, Asks, Passes, Locks, GivesUp, Swaps, Works, Starts, Tests, Stores,
     Advances, PublishesHeader, PublishesTs, PublishesSchema, Publishes, Ends, Moves
    <3> QED
      BY Zenon, <1>0, <1>3, <2>0, <3>1, <3>2, OthersKept DEF LatePair, Misses
  <2> QED
    BY Zenon, <2>1, <2>2, <2>3, <2>4, <2>5
<1>4. CASE u = t /\ v = t
  BY Zenon, <1>4 DEF LatePair
<1> QED
  BY Zenon, <1>1, <1>2, <1>3, <1>4

-----------------------------------------------------------------------------
(* The theorems *)

(* The invariant holds at the start. *)
LEMMA InitXInv ==
  ASSUME ExclusiveInit
  PROVE  XInv
<1> USE ExclusiveAssumption DEF ExclusiveInit
<1>1. XTypes
  <2>1. TimeTypes
    BY DEF TimeTypes
  <2>4. HeaderTypes
    <3>1. regressed \in BOOLEAN
      BY Zenon
    <3> QED
      BY Zenon, <3>1 DEF HeaderTypes
  <2>2. FlagTypes /\ PlaceTypes
    BY Zenon DEF FlagTypes, PlaceTypes, XPlaces, XStates
  <2>3. HolderTypes /\ SetTypes
    BY Zenon DEF HolderTypes, SetTypes, Holders
  <2> QED
    BY Zenon, <2>1, <2>2, <2>3, <2>4 DEF XTypes
<1>2. ASSUME NEW t \in XTx
      PROVE  PlaceRule(t) /\ ClockRule(t) /\ HolderRule(t) /\ SchemaRule(t) /\ HeaderRule(t)
  BY <1>2 DEF PlaceRule, ClockRule, HolderRule, SchemaRule, HeaderRule, InHeader, Changes, Logged,
     ActiveAt, PreparingAt, Finalizing, Acquiring, Asking, InClosure
<1>3. ASSUME NEW t \in XTx, NEW u \in XTx
      PROVE  /\ ClockPair(t, u) /\ HolderPair(t, u) /\ LatePair(t, u)
             /\ OrderPair(t, u) /\ HeaderPair(t, u) /\ AcrossPair(t, u)
  BY <1>3 DEF ClockPair, HolderPair, LatePair, OrderPair, HeaderPair, AcrossPair,
     Changes, Logged, InClosure
<1> QED
  BY <1>1, <1>2, <1>3 DEF XInv

(* The latest header is older than the clock. *)
LEMMA HeaderBehindClock ==
  ASSUME XInv, NEW t \in XTx, StepOf(t)
  PROVE  last_global_header_ts' < xclock'
<1>1. XTypes /\ last_global_header_ts < xclock /\ ClockRule(t)
  BY ZenonT(40) DEF XInv
<1>2. CASE Begins(t)
  BY <1>1, <1>2 DEF Begins, KeepsHeader, XTypes, TimeTypes
<1>3. CASE Starts(t)
  BY <1>1, <1>3 DEF Starts, KeepsHeader, XTypes, TimeTypes
<1>4. CASE PublishesHeader(t)
  BY Zenon, <1>1, <1>4
  DEF PublishesHeader, Publishes, KeepsTimes, AtLeast, ClockRule, XTypes, TimeTypes
<1>5. CASE PublishesTs(t)
  BY Zenon, <1>1, <1>5 DEF PublishesTs, Publishes, KeepsTimes
<1>6. CASE KeepsTimes(t) /\ KeepsHeader
  BY Zenon, <1>1, <1>6 DEF KeepsTimes, KeepsHeader
<1>7. ASSUME \/ Asks(t) \/ Passes(t) \/ Locks(t) \/ GivesUp(t) \/ Swaps(t) \/ Works(t)
             \/ Tests(t) \/ Stores(t) \/ Advances(t) \/ PublishesSchema(t) \/ Ends(t)
      PROVE  KeepsTimes(t) /\ KeepsHeader
  BY Zenon, <1>7, Zenon DEF Asks, Passes, Locks, GivesUp, Swaps, Works, Tests, Stores, Advances,
     PublishesSchema, Ends
<1> QED
  BY Zenon, <1>2, <1>3, <1>4, <1>5, <1>6, <1>7 DEF StepOf

(* Every step keeps the invariant. *)
LEMMA NextXInv ==
  ASSUME XInv, [ExclusiveNext]_xVars
  PROVE  XInv'
<1>1. XTypes'
  BY Zenon, XTypesKept DEF XInv
<1>2. ASSUME NEW t \in XTx, StepOf(t) PROVE XInv'
  <2>1. ASSUME NEW u \in XTx
        PROVE  (PlaceRule(u) /\ ClockRule(u) /\ HolderRule(u) /\ SchemaRule(u) /\ HeaderRule(u))'
    BY Zenon, <1>2, PlaceRuleKept, ClockRuleKept, HolderRuleKept, SchemaRuleKept, HeaderRuleKept
  <2>2. ASSUME NEW u \in XTx, NEW v \in XTx
        PROVE  (/\ ClockPair(u, v) /\ HolderPair(u, v) /\ LatePair(u, v)
                /\ OrderPair(u, v) /\ HeaderPair(u, v) /\ AcrossPair(u, v))'
    BY Zenon, <1>2, ClockPairKept, HolderPairKept, LatePairKept, OrderPairKept, HeaderPairKept,
       AcrossPairKept
  <2> QED
    BY Zenon, <1>1, <1>2, <2>1, <2>2, HeaderBehindClock DEF XInv
<1>3. CASE UNCHANGED xVars
  <2> USE <1>3 DEF xVars, lockVars, markVars, headerVars, timeVars, workVars, histVars
  <2>1. ASSUME NEW u \in XTx PROVE PlaceRule(u)' /\ ClockRule(u)' /\ HolderRule(u)'
    BY Zenon DEF XInv, PlaceRule, ClockRule, HolderRule, Logged
  <2>2. ASSUME NEW u \in XTx PROVE SchemaRule(u)' /\ HeaderRule(u)'
    BY Zenon DEF XInv, SchemaRule, HeaderRule, InHeader, Changes, Logged
  <2>3. ASSUME NEW u \in XTx, NEW v \in XTx PROVE ClockPair(u, v)' /\ HolderPair(u, v)'
    BY Zenon DEF XInv, ClockPair, HolderPair
  <2>4. ASSUME NEW u \in XTx, NEW v \in XTx PROVE LatePair(u, v)' /\ OrderPair(u, v)'
    <3>1. LatePair(u, v) /\ OrderPair(u, v)
      BY Zenon DEF XInv
    <3>2. LatePair(u, v)'
      <4>1. Misses(u, v)' <=> Misses(u, v)
        BY Zenon DEF Misses, Logged
      <4>2. /\ exclusive_tx' = exclusive_tx /\ xat' = xat /\ late' = late
            /\ todo' = todo /\ xstate' = xstate
        OBVIOUS
      <4> HIDE <1>3
      <4> QED
        BY Zenon, <3>1, <4>1, <4>2, Zenon DEF LatePair
    <3>3. OrderPair(u, v)'
      BY Zenon, <3>1 DEF OrderPair
    <3> QED
      BY Zenon, <3>2, <3>3
  <2>5. ASSUME NEW u \in XTx, NEW v \in XTx PROVE HeaderPair(u, v)' /\ AcrossPair(u, v)'
    BY Zenon DEF XInv, HeaderPair, AcrossPair, Changes, Logged
  <2>6. last_global_header_ts' < xclock'
    BY Zenon DEF XInv
  <2> QED
    BY Zenon, <1>1, <2>1, <2>2, <2>3, <2>4, <2>5, <2>6 DEF XInv
<1> QED
  BY Zenon, <1>2, <1>3, PointByPoint DEF XInv

(* The invariant holds throughout. *)
LEMMA XInvAlways == ExclusiveSpec => []XInv
BY InitXInv, NextXInv, PTL DEF ExclusiveSpec

(* begin_exclusive_tx: for any set of transactions, the snapshot of a          *)
(* transaction past acquire_exclusive_tx misses only commits that were past    *)
(* the test of CommitState::Initial at the swap, or not yet published at the   *)
(* second look.                                                                *)
THEOREM ExclusiveMisses == ExclusiveSpec => []ExclusiveMissesOnlyLate
<1>1. ASSUME XInv, NEW t \in XTx, Granted(t), NEW u \in Missed(t) PROVE u \in late[t]
  <2>1. u \in XTx /\ u # t /\ Misses(t, u)
    BY Zenon DEF Missed, Misses, Logged
  <2>2. LatePair(t, u)
    BY Zenon, <1>1, <2>1 DEF XInv
  <2>3. exclusive_tx = t /\ xat[t] # "relook"
    BY Zenon, <1>1 DEF Granted
  <2> QED
    BY Zenon, <2>1, <2>2, <2>3, Zenon DEF LatePair
<1>2. XInv => ExclusiveMissesOnlyLate
  BY Zenon, <1>1 DEF ExclusiveMissesOnlyLate
<1> QED
  BY <1>2, XInvAlways, PTL

(* begin_tx: until an older header is put back, a transaction never runs with  *)
(* a header older than its rows.                                               *)
THEOREM HeaderMatches == ExclusiveSpec => []HeaderMatchesSnapshot
<1>1. XInv => HeaderMatchesSnapshot
  BY Zenon DEF XInv, HeaderPair, HeaderMatchesSnapshot, SchemaChanges, Changes, Logged
<1> QED
  BY <1>1, XInvAlways, PTL

(* The tests of CommitState::Initial keep every commit on one side of every    *)
(* schema change that is published.                                            *)
THEOREM NoneAcrossSchemaChange == ExclusiveSpec => []NoCommitAcrossSchemaChange
<1>1. XInv => NoCommitAcrossSchemaChange
  BY Zenon DEF XInv, AcrossPair, NoCommitAcrossSchemaChange, SchemaChanges, Changes, Logged
<1> QED
  BY <1>1, XInvAlways, PTL
=============================================================================
