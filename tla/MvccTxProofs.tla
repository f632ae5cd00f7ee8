---------------------------- MODULE MvccTxProofs ----------------------------
(***************************************************************************)
(* Proofs about MvccTx, for every finite set of transactions.  TxIInv is   *)
(* inductive: there is one lemma per conjunct, with one step per action    *)
(* that can disturb it.  The safety properties of MvccTx follow from it,   *)
(* and so does the refinement of TxOutcome.                                *)
(***************************************************************************)
EXTENDS MvccTx, FiniteSetTheorems, TLAPS

(* The actions that only move pc, but for WaitForDependencies, whose proof    *)
(* needs the counter                                                          *)
OnlyMoves(t) ==
  \/ Validate(t) \/ CheckAbortNow(t) \/ DependenciesResolved(t) \/ Rewrite(t)
  \/ Undo(t)

(* The actions that publish no state *)
KeepsState(t, T) ==
  \/ Write(t) \/ RollbackSavepoint(t) \/ Observe(t, T) \/ Register(t, T)
  \/ OnlyMoves(t) \/ WaitForDependencies(t) \/ AppendLog(t) \/ TakeDependents(t)
  \/ Decrement(t, T) \/ InsertFinalized(t) \/ RemoveTx(t) \/ Abandon(t)

(* The actions that publish an outcome or the log record *)
Publishes(t) ==
  CommitReadOnly(t) \/ AppendLog(t) \/ SkipLog(t) \/ CommitEnd(t) \/ Terminate(t)

-----------------------------------------------------------------------------
(* The counter *)

(* A transaction has finitely many reports to wait for: at most one of each   *)
(* transaction.                                                               *)
LEMMA PendingFinite ==
  ASSUME NEW t
  PROVE  IsFiniteSet(Pending(t))
BY Zenon, TxFinite, FS_Subset, Pending(t) \subseteq Tx DEF Pending

(* A zero counter means that nobody is left to report: this is what the load  *)
(* of commit_dep_counter in WaitForDependencies concludes.                    *)
LEMMA ZeroMeansNone ==
  ASSUME TxIInv, NEW t \in txs, commit_dep_counter[t] = 0
  PROVE  Pending(t) = {}
<1>1. Cardinality(Pending(t)) = 0
  BY Zenon DEF TxIInv, DepCounterExact
<1> QED
  BY Zenon, <1>1, PendingFinite, FS_EmptySet

(* A transaction that waits for a report has a counter of at least one: the    *)
(* fetch_sub of a report does not wrap.                                        *)
LEMMA ReportsArePositive ==
  ASSUME TxIInv, NEW t \in txs, NEW T \in Pending(t)
  PROVE  commit_dep_counter[t] \in Nat /\ commit_dep_counter[t] > 0
<1>1. Cardinality(Pending(t)) # 0
  BY Zenon, PendingFinite, FS_EmptySet
<1>2. Cardinality(Pending(t)) \in Nat
  BY Zenon, PendingFinite, FS_CardinalityType
<1> QED
  BY <1>1, <1>2 DEF TxIInv, DepCounterExact

-----------------------------------------------------------------------------
(* One lemma per conjunct of the inductive invariant *)

(* Every step keeps the types. *)
LEMMA TypeStep ==
  ASSUME TxIInv, [TxNext]_txVars
  PROVE  TxTypeOK'
<1> USE NoneNotTx DEF TxIInv, TxTypeOK, TxState, Step,
             Goto, mapVars, lifeVars, depVars, obsVars
<1>1. ASSUME NEW t \in Tx, Begin(t) PROVE TxTypeOK'
  BY <1>1 DEF Begin, NextClock
<1>2. ASSUME NEW t \in Tx, Write(t) PROVE TxTypeOK'
  BY Zenon, <1>2 DEF Write, CanRun
<1>3. ASSUME NEW t \in Tx, RollbackSavepoint(t) PROVE TxTypeOK'
  BY Zenon, <1>3 DEF RollbackSavepoint, CanRun
<1>4. ASSUME NEW t \in Tx, Prepare(t) PROVE TxTypeOK'
  BY <1>4 DEF Prepare, CanRun, NextClock
<1>5. ASSUME NEW t \in Tx, Rollback(t) PROVE TxTypeOK'
  BY Zenon, <1>5 DEF Rollback, CanRollback, CanRun, Taken
<1>6. ASSUME NEW t \in Tx, WaitForDependencies(t) PROVE TxTypeOK'
  BY Zenon, <1>6 DEF WaitForDependencies
<1>7. ASSUME NEW t \in Tx, OnlyMoves(t) PROVE TxTypeOK'
  BY <1>7 DEF OnlyMoves, Validate, CheckAbortNow, DependenciesResolved,
           StillWanted, Rewrite, AfterRewrite, Undo, ChainsFree
<1>8. ASSUME NEW t \in Tx, Publishes(t) PROVE TxTypeOK'
  <2>1. CASE CommitReadOnly(t)
    BY <2>1 DEF CommitReadOnly
  <2>2. CASE AppendLog(t)
    BY <2>2 DEF AppendLog
  <2>3. CASE SkipLog(t)
    BY <2>3 DEF SkipLog
  <2>4. CASE CommitEnd(t)
    BY <2>4 DEF CommitEnd
  <2>5. CASE Terminate(t)
    BY <2>5 DEF Terminate
  <2> QED
    BY Zenon, <1>8, <2>1, <2>2, <2>3, <2>4, <2>5 DEF Publishes
<1>9. ASSUME NEW t \in Tx, TakeDependents(t) PROVE TxTypeOK'
  BY Zenon, <1>9 DEF TakeDependents, Taken
<1>10. ASSUME NEW t \in Tx, InsertFinalized(t) PROVE TxTypeOK'
  BY Zenon, <1>10 DEF InsertFinalized
<1>11. ASSUME NEW t \in Tx, RemoveTx(t) PROVE TxTypeOK'
  BY Zenon, <1>11 DEF RemoveTx, Drained
<1>12. ASSUME NEW t \in Tx, NEW T \in Tx, Observe(t, T) PROVE TxTypeOK'
  BY Zenon, <1>12 DEF Observe, CanRun, Speculates
<1>13. ASSUME NEW t \in Tx, NEW T \in Tx, Register(t, T) PROVE TxTypeOK'
  BY <1>13 DEF Register, FirstInsertion, FoundDead
<1>14. ASSUME NEW t \in Tx, NEW T \in Tx, Decrement(t, T) PROVE TxTypeOK'
  <2>1. T \in txs => commit_dep_counter[T] > 0
    <3>1. t \in Pending(T)
      BY Zenon, <1>14 DEF Decrement, Pending
    <3> QED
      BY Zenon, <3>1, ReportsArePositive
  <2> QED
    BY <1>14, <2>1 DEF Decrement, FetchSub
<1>15. ASSUME NEW t \in Tx, Abandon(t) PROVE TxTypeOK'
  BY Zenon, <1>15 DEF Abandon
<1>16. CASE UNCHANGED txVars
  BY Zenon, <1>16 DEF txVars
<1> HIDE DEF TxIInv, TxTypeOK, TxState, Step,
             Goto, mapVars, lifeVars, depVars, obsVars
<1> QED
  BY Zenon, <1>1, <1>2, <1>3, <1>4, <1>5, <1>6, <1>7, <1>8, <1>9, <1>10,
     <1>11, <1>12, <1>13, <1>14, <1>15, <1>16 DEF TxNext, AllGone, Progress, OnlyMoves, Publishes

(* State, maps and flags keep agreeing with the step of commit or rollback. *)
LEMMA PcStep ==
  ASSUME TxIInv, [TxNext]_txVars
  PROVE  PcAgrees'
<1> USE NoneNotTx DEF TxIInv, TxTypeOK, PcAgrees, ObservedInFlight, DepSetsAgree,
             PreparingStep, CommittedStep, AbortedStep,
             Goto, mapVars, lifeVars, depVars, obsVars
<1>1. ASSUME NEW t \in Tx, Begin(t) PROVE PcAgrees'
  BY <1>1 DEF Begin, NextClock
<1>2. ASSUME NEW t \in Tx, Write(t) PROVE PcAgrees'
  BY <1>2 DEF Write, CanRun
<1>3. ASSUME NEW t \in Tx, RollbackSavepoint(t) PROVE PcAgrees'
  BY <1>3 DEF RollbackSavepoint, CanRun
<1>4. ASSUME NEW t \in Tx, Prepare(t) PROVE PcAgrees'
  BY <1>4 DEF Prepare, CanRun, NextClock
<1>5. ASSUME NEW t \in Tx, Rollback(t) PROVE PcAgrees'
  BY <1>5 DEF Rollback, CanRollback, CanRun, Taken
<1>6. ASSUME NEW t \in Tx, WaitForDependencies(t) PROVE PcAgrees'
  BY <1>6 DEF WaitForDependencies
<1>7. ASSUME NEW t \in Tx, OnlyMoves(t) PROVE PcAgrees'
  BY <1>7 DEF OnlyMoves, Validate, CheckAbortNow, DependenciesResolved,
           StillWanted, Rewrite, AfterRewrite, Undo, ChainsFree
<1>8. ASSUME NEW t \in Tx, Publishes(t) PROVE PcAgrees'
  BY <1>8 DEF Publishes, CommitReadOnly, StillWanted, AppendLog, SkipLog,
           CommitEnd, Terminate
<1>9. ASSUME NEW t \in Tx, TakeDependents(t) PROVE PcAgrees'
  BY <1>9 DEF TakeDependents, Taken
<1>10. ASSUME NEW t \in Tx, InsertFinalized(t) PROVE PcAgrees'
  BY <1>10 DEF InsertFinalized
<1>11. ASSUME NEW t \in Tx, RemoveTx(t) PROVE PcAgrees'
  BY <1>11 DEF RemoveTx, Drained
<1>12. ASSUME NEW t \in Tx, NEW T \in Tx, Observe(t, T) PROVE PcAgrees'
  BY <1>12 DEF Observe, CanRun, Speculates
<1>13. ASSUME NEW t \in Tx, NEW T \in Tx, Register(t, T) PROVE PcAgrees'
  BY <1>13 DEF Register, FirstInsertion, FoundDead
<1>14. ASSUME NEW t \in Tx, NEW T \in Tx, Decrement(t, T) PROVE PcAgrees'
  BY <1>14 DEF Decrement, FetchSub
<1>15. ASSUME NEW t \in Tx, Abandon(t) PROVE PcAgrees'
  BY Zenon, <1>15 DEF Abandon
<1>16. CASE UNCHANGED txVars
  BY Zenon, <1>16 DEF txVars
<1> HIDE DEF TxIInv, TxTypeOK, PcAgrees, ObservedInFlight, DepSetsAgree,
             PreparingStep, CommittedStep, AbortedStep,
             Goto, mapVars, lifeVars, depVars, obsVars
<1> QED
  BY <1>1, <1>2, <1>3, <1>4, <1>5, <1>6, <1>7, <1>8, <1>9, <1>10,
     <1>11, <1>12, <1>13, <1>14, <1>15, <1>16 DEF TxNext, AllGone, Progress, OnlyMoves, Publishes

(* The clock stays ahead of every timestamp. *)
LEMMA ClockStep ==
  ASSUME TxIInv, [TxNext]_txVars
  PROVE  ClockAhead'
<1> USE NoneNotTx DEF TxIInv, TxTypeOK, ClockAhead, PcAgrees, PreparingStep, CommittedStep, AbortedStep,
             Goto, mapVars, lifeVars, depVars, obsVars
<1>1. ASSUME NEW t \in Tx, Begin(t) PROVE ClockAhead'
  BY <1>1 DEF Begin, NextClock
<1>2. ASSUME NEW t \in Tx, Write(t) PROVE ClockAhead'
  BY Zenon, <1>2 DEF Write, CanRun
<1>3. ASSUME NEW t \in Tx, RollbackSavepoint(t) PROVE ClockAhead'
  BY Zenon, <1>3 DEF RollbackSavepoint, CanRun
<1>4. ASSUME NEW t \in Tx, Prepare(t) PROVE ClockAhead'
  BY <1>4 DEF Prepare, CanRun, NextClock
<1>5. ASSUME NEW t \in Tx, Rollback(t) PROVE ClockAhead'
  BY Zenon, <1>5 DEF Rollback, CanRollback, CanRun, Taken
<1>6. ASSUME NEW t \in Tx, WaitForDependencies(t) PROVE ClockAhead'
  BY Zenon, <1>6 DEF WaitForDependencies
<1>7. ASSUME NEW t \in Tx, OnlyMoves(t) PROVE ClockAhead'
  BY <1>7 DEF OnlyMoves, Validate, CheckAbortNow, DependenciesResolved,
           StillWanted, Rewrite, AfterRewrite, Undo, ChainsFree
<1>8. ASSUME NEW t \in Tx, Publishes(t) PROVE ClockAhead'
  BY <1>8 DEF Publishes, CommitReadOnly, StillWanted, AppendLog, SkipLog,
           CommitEnd, Terminate
<1>9. ASSUME NEW t \in Tx, TakeDependents(t) PROVE ClockAhead'
  BY Zenon, <1>9 DEF TakeDependents, Taken
<1>10. ASSUME NEW t \in Tx, InsertFinalized(t) PROVE ClockAhead'
  BY Zenon, <1>10 DEF InsertFinalized
<1>11. ASSUME NEW t \in Tx, RemoveTx(t) PROVE ClockAhead'
  BY Zenon, <1>11 DEF RemoveTx, Drained
<1>12. ASSUME NEW t \in Tx, NEW T \in Tx, Observe(t, T) PROVE ClockAhead'
  BY Zenon, <1>12 DEF Observe, CanRun, Speculates
<1>13. ASSUME NEW t \in Tx, NEW T \in Tx, Register(t, T) PROVE ClockAhead'
  BY Zenon, <1>13 DEF Register, FirstInsertion, FoundDead
<1>14. ASSUME NEW t \in Tx, NEW T \in Tx, Decrement(t, T) PROVE ClockAhead'
  BY Zenon, <1>14 DEF Decrement, FetchSub
<1>15. ASSUME NEW t \in Tx, Abandon(t) PROVE ClockAhead'
  BY Zenon, <1>15 DEF Abandon
<1>16. CASE UNCHANGED txVars
  BY Zenon, <1>16 DEF txVars
<1> HIDE DEF TxIInv, TxTypeOK, ClockAhead, PcAgrees, PreparingStep, CommittedStep, AbortedStep,
             Goto, mapVars, lifeVars, depVars, obsVars
<1> QED
  BY <1>1, <1>2, <1>3, <1>4, <1>5, <1>6, <1>7, <1>8, <1>9, <1>10,
     <1>11, <1>12, <1>13, <1>14, <1>15, <1>16 DEF TxNext, AllGone, Progress, OnlyMoves, Publishes

(* A transaction that is being observed stays in flight until it is registered. *)
LEMMA ObservedStep ==
  ASSUME TxIInv, [TxNext]_txVars
  PROVE  ObservedInFlight'
<1> USE NoneNotTx DEF TxIInv, TxTypeOK, ObservedInFlight, PcAgrees,
             PreparingStep, CommittedStep, AbortedStep,
             Goto, mapVars, lifeVars, depVars, obsVars
<1>1. ASSUME NEW t \in Tx, Begin(t) PROVE ObservedInFlight'
  BY <1>1 DEF Begin, NextClock
<1>2. ASSUME NEW t \in Tx, Write(t) PROVE ObservedInFlight'
  BY <1>2 DEF Write, CanRun
<1>3. ASSUME NEW t \in Tx, RollbackSavepoint(t) PROVE ObservedInFlight'
  BY <1>3 DEF RollbackSavepoint, CanRun
<1>4. ASSUME NEW t \in Tx, Prepare(t) PROVE ObservedInFlight'
  BY <1>4 DEF Prepare, CanRun, NextClock
<1>5. ASSUME NEW t \in Tx, Rollback(t) PROVE ObservedInFlight'
  BY <1>5 DEF Rollback, CanRollback, CanRun, Taken
<1>6. ASSUME NEW t \in Tx, WaitForDependencies(t) PROVE ObservedInFlight'
  BY <1>6 DEF WaitForDependencies
<1>7. ASSUME NEW t \in Tx, OnlyMoves(t) PROVE ObservedInFlight'
  BY <1>7 DEF OnlyMoves, Validate, CheckAbortNow, DependenciesResolved,
           StillWanted, Rewrite, AfterRewrite, Undo, ChainsFree
<1>8. ASSUME NEW t \in Tx, Publishes(t) PROVE ObservedInFlight'
  BY <1>8 DEF Publishes, CommitReadOnly, StillWanted, AppendLog, SkipLog,
           CommitEnd, Terminate
<1>9. ASSUME NEW t \in Tx, TakeDependents(t) PROVE ObservedInFlight'
  BY <1>9 DEF TakeDependents, Taken
<1>10. ASSUME NEW t \in Tx, InsertFinalized(t) PROVE ObservedInFlight'
  BY <1>10 DEF InsertFinalized
<1>11. ASSUME NEW t \in Tx, RemoveTx(t) PROVE ObservedInFlight'
  BY <1>11 DEF RemoveTx, Drained
<1>12. ASSUME NEW t \in Tx, NEW T \in Tx, Observe(t, T) PROVE ObservedInFlight'
  BY <1>12 DEF Observe, CanRun, Speculates
<1>13. ASSUME NEW t \in Tx, NEW T \in Tx, Register(t, T) PROVE ObservedInFlight'
  BY <1>13 DEF Register, FirstInsertion, FoundDead
<1>14. ASSUME NEW t \in Tx, NEW T \in Tx, Decrement(t, T) PROVE ObservedInFlight'
  BY Zenon, <1>14 DEF Decrement, FetchSub
<1>15. ASSUME NEW t \in Tx, Abandon(t) PROVE ObservedInFlight'
  BY Zenon, <1>15 DEF Abandon
<1>16. CASE UNCHANGED txVars
  BY Zenon, <1>16 DEF txVars
<1> HIDE DEF TxIInv, TxTypeOK, ObservedInFlight, PcAgrees,
             PreparingStep, CommittedStep, AbortedStep,
             Goto, mapVars, lifeVars, depVars, obsVars
<1> QED
  BY <1>1, <1>2, <1>3, <1>4, <1>5, <1>6, <1>7, <1>8, <1>9, <1>10,
     <1>11, <1>12, <1>13, <1>14, <1>15, <1>16 DEF TxNext, AllGone, Progress, OnlyMoves, Publishes

(* Dependency sets keep holding reliances on older transactions in flight. *)
LEMMA DepSetsStep ==
  ASSUME TxIInv, [TxNext]_txVars
  PROVE  DepSetsAgree'
<1> USE NoneNotTx DEF TxIInv, TxTypeOK, DepSetsAgree, ObservedInFlight, PcAgrees,
             PreparingStep, CommittedStep, AbortedStep,
             Goto, mapVars, lifeVars, depVars, obsVars
<1>1. ASSUME NEW t \in Tx, Begin(t) PROVE DepSetsAgree'
  BY <1>1 DEF Begin, NextClock
<1>2. ASSUME NEW t \in Tx, Write(t) PROVE DepSetsAgree'
  BY <1>2 DEF Write, CanRun
<1>3. ASSUME NEW t \in Tx, RollbackSavepoint(t) PROVE DepSetsAgree'
  BY <1>3 DEF RollbackSavepoint, CanRun
<1>4. ASSUME NEW t \in Tx, Prepare(t) PROVE DepSetsAgree'
  BY <1>4 DEF Prepare, CanRun, NextClock
<1>5. ASSUME NEW t \in Tx, Rollback(t) PROVE DepSetsAgree'
  BY <1>5 DEF Rollback, CanRollback, CanRun, Taken
<1>6. ASSUME NEW t \in Tx, WaitForDependencies(t) PROVE DepSetsAgree'
  BY <1>6 DEF WaitForDependencies
<1>7. ASSUME NEW t \in Tx, OnlyMoves(t) PROVE DepSetsAgree'
  BY <1>7 DEF OnlyMoves, Validate, CheckAbortNow, DependenciesResolved,
           StillWanted, Rewrite, AfterRewrite, Undo, ChainsFree
<1>8. ASSUME NEW t \in Tx, Publishes(t) PROVE DepSetsAgree'
  BY <1>8 DEF Publishes, CommitReadOnly, StillWanted, AppendLog, SkipLog,
           CommitEnd, Terminate
<1>9. ASSUME NEW t \in Tx, TakeDependents(t) PROVE DepSetsAgree'
  BY <1>9 DEF TakeDependents, Taken
<1>10. ASSUME NEW t \in Tx, InsertFinalized(t) PROVE DepSetsAgree'
  BY <1>10 DEF InsertFinalized
<1>11. ASSUME NEW t \in Tx, RemoveTx(t) PROVE DepSetsAgree'
  BY <1>11 DEF RemoveTx, Drained
<1>12. ASSUME NEW t \in Tx, NEW T \in Tx, Observe(t, T) PROVE DepSetsAgree'
  BY <1>12 DEF Observe, CanRun, Speculates
<1>13. ASSUME NEW t \in Tx, NEW T \in Tx, Register(t, T) PROVE DepSetsAgree'
  BY <1>13 DEF Register, FirstInsertion, FoundDead
<1>14. ASSUME NEW t \in Tx, NEW T \in Tx, Decrement(t, T) PROVE DepSetsAgree'
  BY <1>14 DEF Decrement, FetchSub
<1>15. ASSUME NEW t \in Tx, Abandon(t) PROVE DepSetsAgree'
  BY <1>15 DEF Abandon
<1>16. CASE UNCHANGED txVars
  BY Zenon, <1>16 DEF txVars
<1> HIDE DEF TxIInv, TxTypeOK, DepSetsAgree, ObservedInFlight, PcAgrees,
             PreparingStep, CommittedStep, AbortedStep,
             Goto, mapVars, lifeVars, depVars, obsVars
<1> QED
  BY <1>1, <1>2, <1>3, <1>4, <1>5, <1>6, <1>7, <1>8, <1>9, <1>10,
     <1>11, <1>12, <1>13, <1>14, <1>15, <1>16 DEF TxNext, AllGone, Progress, OnlyMoves, Publishes

(* Every reliance stays registered, honoured or turned into abort_now. *)
LEMMA ReliedStep ==
  ASSUME TxIInv, [TxNext]_txVars
  PROVE  ReliedAccounted'
<1> USE NoneNotTx DEF TxIInv, TxTypeOK, ReliedAccounted, DepSetsAgree,
             ObservedInFlight, PcAgrees, PreparingStep, CommittedStep, AbortedStep,
             Goto, mapVars, lifeVars, depVars, obsVars
<1>1. ASSUME NEW t \in Tx, Begin(t) PROVE ReliedAccounted'
  BY <1>1 DEF Begin, NextClock
<1>2. ASSUME NEW t \in Tx, Write(t) PROVE ReliedAccounted'
  BY <1>2 DEF Write, CanRun
<1>3. ASSUME NEW t \in Tx, RollbackSavepoint(t) PROVE ReliedAccounted'
  BY <1>3 DEF RollbackSavepoint, CanRun
<1>4. ASSUME NEW t \in Tx, Prepare(t) PROVE ReliedAccounted'
  BY <1>4 DEF Prepare, CanRun, NextClock
<1>5. ASSUME NEW t \in Tx, Rollback(t) PROVE ReliedAccounted'
  <2> SUFFICES ASSUME NEW u \in Tx, NEW T \in relied[u]
               PROVE  ReliedAccounted!(u)!(T)'
    BY <1>5 DEF Rollback
  <2>1. T \in Tx
    <3>1. relied[u] \subseteq Tx
      BY Zenon
    <3> QED
      BY Zenon, <3>1
  <2>2. CASE T = t
    BY SMTT(30), <1>5, <2>1, <2>2 DEF Rollback, CanRollback, CanRun
  <2>3. CASE T # t
    BY SMTT(30), <1>5, <2>1, <2>3 DEF Rollback, CanRollback, CanRun
  <2> QED
    BY Zenon, <2>2, <2>3
<1>6. ASSUME NEW t \in Tx, WaitForDependencies(t) PROVE ReliedAccounted'
  <2>1. commit_dep_counter[t] = 0 => \A T \in Tx : t \notin commit_dep_set[T]
    <3>1. t \in txs
      BY Zenon, <1>6 DEF WaitForDependencies
    <3> QED
      BY Zenon, <3>1, ZeroMeansNone DEF Pending
  <2> QED
    BY <1>6, <2>1 DEF WaitForDependencies
<1>7. ASSUME NEW t \in Tx, OnlyMoves(t) PROVE ReliedAccounted'
  BY <1>7 DEF OnlyMoves, Validate, CheckAbortNow, DependenciesResolved,
           StillWanted, Rewrite, AfterRewrite, Undo, ChainsFree
<1>8. ASSUME NEW t \in Tx, Publishes(t) PROVE ReliedAccounted'
  BY <1>8 DEF Publishes, CommitReadOnly, StillWanted, AppendLog, SkipLog,
           CommitEnd, Terminate
<1>9. ASSUME NEW t \in Tx, TakeDependents(t) PROVE ReliedAccounted'
  BY <1>9 DEF TakeDependents, Taken
<1>10. ASSUME NEW t \in Tx, InsertFinalized(t) PROVE ReliedAccounted'
  BY <1>10 DEF InsertFinalized
<1>11. ASSUME NEW t \in Tx, RemoveTx(t) PROVE ReliedAccounted'
  BY <1>11 DEF RemoveTx, Drained
<1>12. ASSUME NEW t \in Tx, NEW T \in Tx, Observe(t, T) PROVE ReliedAccounted'
  BY <1>12 DEF Observe, CanRun, Speculates
<1>13. ASSUME NEW t \in Tx, NEW T \in Tx, Register(t, T) PROVE ReliedAccounted'
  BY <1>13 DEF Register, FirstInsertion, FoundDead
<1>14. ASSUME NEW t \in Tx, NEW T \in Tx, Decrement(t, T) PROVE ReliedAccounted'
  BY <1>14 DEF Decrement, FetchSub
<1>15. ASSUME NEW t \in Tx, Abandon(t) PROVE ReliedAccounted'
  BY <1>15 DEF Abandon
<1>16. CASE UNCHANGED txVars
  BY <1>16 DEF txVars
<1> HIDE DEF TxIInv, TxTypeOK, ReliedAccounted, DepSetsAgree,
             ObservedInFlight, PcAgrees, PreparingStep, CommittedStep, AbortedStep,
             Goto, mapVars, lifeVars, depVars, obsVars
<1> QED
  BY <1>1, <1>2, <1>3, <1>4, <1>5, <1>6, <1>7, <1>8, <1>9, <1>10,
     <1>11, <1>12, <1>13, <1>14, <1>15, <1>16 DEF TxNext, AllGone, Progress, OnlyMoves, Publishes

(* What a step does to the reports a transaction waits for, seen from one     *)
(* transaction d: nothing, or one more, or one less.                          *)
LEMMA SamePending ==
  ASSUME TxIInv, NEW d \in Tx, d \in txs,
         Pending(d)' = Pending(d), commit_dep_counter'[d] = commit_dep_counter[d]
  PROVE  commit_dep_counter'[d] = Cardinality(Pending(d)')
BY Zenon DEF TxIInv, DepCounterExact

(* commit_dep_counter stays exact. *)
LEMMA CounterStep ==
  ASSUME TxIInv, [TxNext]_txVars
  PROVE  DepCounterExact'
<1> USE DEF TxIInv
<1>1. ASSUME NEW t \in Tx, Begin(t) PROVE DepCounterExact'
  <2> SUFFICES ASSUME NEW d \in txs'
               PROVE  commit_dep_counter'[d] = Cardinality(Pending(d)')
    BY Zenon DEF DepCounterExact
  <2>1. Pending(d)' = Pending(d)
    BY Zenon, <1>1 DEF Begin, depVars, Pending
  <2>2. CASE d = t
    <3>1. Pending(d) = {}
      BY Zenon, <1>1, <2>2 DEF Begin, Goto, PcAgrees, DepSetsAgree, Pending
    <3>2. commit_dep_counter'[d] = 0
      BY Zenon, <1>1, <2>2 DEF Begin, Goto, PcAgrees, depVars
    <3> QED
      BY Zenon, <2>1, <3>1, <3>2, FS_EmptySet
  <2>3. CASE d # t
    BY Zenon, <1>1, <2>1, <2>3, SamePending DEF Begin, depVars, TxTypeOK
  <2> QED
    BY Zenon, <2>2, <2>3
<1>2. ASSUME NEW t \in Tx, NEW T \in Tx, Register(t, T) PROVE DepCounterExact'
  <2> SUFFICES ASSUME NEW d \in txs
               PROVE  commit_dep_counter'[d] = Cardinality(Pending(d)')
    BY Zenon, <1>2 DEF DepCounterExact, Register, mapVars
  <2> d \in Tx
    BY Zenon DEF TxTypeOK
  <2>1. CASE d # t
    <3>1. Pending(d)' = Pending(d)
      BY Zenon, <1>2, <2>1 DEF Register, Pending, TxTypeOK
    <3> QED
      BY Zenon, <1>2, <2>1, <3>1, SamePending DEF Register, TxTypeOK
  <2>2. CASE d = t /\ T \in txs /\ state[T] = "Preparing" /\ t \notin commit_dep_set[T]
    <3>1. T \notin Pending(t)
      BY Zenon, <1>2, <2>2 DEF Pending, DepSetsAgree, PcAgrees, PreparingStep
    <3>2. Pending(t)' = Pending(t) \cup {T}
      BY <1>2, <2>2 DEF Register, Pending, TxTypeOK
    <3>3. Cardinality(Pending(t) \cup {T}) = Cardinality(Pending(t)) + 1
      BY Zenon, <3>1, PendingFinite, FS_AddElement
    <3> QED
      BY Zenon, <1>2, <2>2, <3>2, <3>3 DEF Register, FirstInsertion, DepCounterExact, TxTypeOK
  <2>3. CASE d = t /\ ~(T \in txs /\ state[T] = "Preparing" /\ t \notin commit_dep_set[T])
    <3>1. Pending(t)' = Pending(t)
      BY Zenon, <1>2, <2>3 DEF Register, Pending, TxTypeOK
    <3> QED
      BY Zenon, <1>2, <2>3, <3>1, SamePending DEF Register, FirstInsertion, TxTypeOK
  <2> QED
    BY Zenon, <2>1, <2>2, <2>3
<1>3. ASSUME NEW t \in Tx, NEW T \in Tx, Decrement(t, T) PROVE DepCounterExact'
  <2> SUFFICES ASSUME NEW d \in txs
               PROVE  commit_dep_counter'[d] = Cardinality(Pending(d)')
    BY Zenon, <1>3 DEF DepCounterExact, Decrement, mapVars
  <2> d \in Tx
    BY DEF TxTypeOK
  <2>1. CASE d # T
    <3>1. Pending(d)' = Pending(d)
      BY Zenon, <1>3, <2>1 DEF Decrement, Pending, TxTypeOK
    <3> QED
      BY Zenon, <1>3, <2>1, <3>1, SamePending DEF Decrement, TxTypeOK
  <2>2. CASE d = T
    <3>1. t \in Pending(d)
      BY Zenon, <1>3, <2>2 DEF Decrement, Pending
    <3>2. commit_dep_set[t] = {}
      BY Zenon, <1>3 DEF Decrement, DepSetsAgree, PreparingStep
    <3>3. Pending(d)' = Pending(d) \ {t}
      BY Zenon, <1>3, <2>2, <3>2 DEF Decrement, Pending, TxTypeOK
    <3>4. Cardinality(Pending(d) \ {t}) = Cardinality(Pending(d)) - 1
      BY Zenon, <3>1, PendingFinite, FS_RemoveElement
    <3> QED
      BY Zenon, <1>3, <2>2, <3>3, <3>4 DEF Decrement, FetchSub, DepCounterExact, TxTypeOK
  <2> QED
    BY Zenon, <2>1, <2>2
<1>4. ASSUME NEW t \in Tx, TakeDependents(t) \/ Rollback(t) \/ RemoveTx(t)
      PROVE  DepCounterExact'
  <2> SUFFICES ASSUME NEW d \in txs
               PROVE  commit_dep_counter'[d] = Cardinality(Pending(d)')
    BY Zenon, <1>4 DEF DepCounterExact, TakeDependents, Rollback, RemoveTx, mapVars
  <2> d \in Tx
    BY Zenon DEF TxTypeOK
  <2>1. notify[t] = {}
    BY Zenon, <1>4 DEF TakeDependents, Rollback, RemoveTx, CanRollback, CanRun, Goto,
         DepSetsAgree
  <2>2. Pending(d)' = Pending(d)
    BY <1>4, <2>1 DEF TakeDependents, Rollback, RemoveTx, Taken, Pending, TxTypeOK
  <2> QED
    BY Zenon, <1>4, <2>2, SamePending DEF TakeDependents, Rollback, RemoveTx
<1>5. ASSUME txs' \subseteq txs, UNCHANGED depVars PROVE DepCounterExact'
  <2> SUFFICES ASSUME NEW d \in txs'
               PROVE  commit_dep_counter'[d] = Cardinality(Pending(d)')
    BY Zenon DEF DepCounterExact
  <2>1. Pending(d)' = Pending(d)
    BY Zenon, <1>5 DEF depVars, Pending
  <2> QED
    BY Zenon, <1>5, <2>1, SamePending DEF depVars, TxTypeOK
<1>6. ASSUME NEW t \in Tx, NEW T \in Tx,
             Write(t) \/ RollbackSavepoint(t) \/ Prepare(t) \/ Observe(t, T)
      PROVE  txs' \subseteq txs /\ UNCHANGED depVars
  BY Zenon, <1>6 DEF Write, RollbackSavepoint, Prepare, Observe, mapVars
<1>7. ASSUME NEW t \in Tx,
             \/ WaitForDependencies(t) \/ OnlyMoves(t) \/ Publishes(t)
             \/ InsertFinalized(t) \/ Abandon(t)
      PROVE  txs' \subseteq txs /\ UNCHANGED depVars
  BY Zenon, <1>7 DEF WaitForDependencies, OnlyMoves, Validate, CheckAbortNow,
       DependenciesResolved, Rewrite, AfterRewrite, Undo, Publishes, CommitReadOnly, AppendLog,
       SkipLog, CommitEnd, Terminate, InsertFinalized, Abandon, mapVars
<1>8. CASE UNCHANGED txVars
  BY Zenon, <1>5, <1>8 DEF txVars, mapVars
<1> HIDE DEF TxIInv
<1> QED
  BY Zenon, <1>1, <1>2, <1>3, <1>4, <1>5, <1>6, <1>7, <1>8
  DEF TxNext, AllGone, Progress, OnlyMoves, Publishes

-----------------------------------------------------------------------------
(* The theorems *)

(* The inductive invariant holds in every reachable state of MvccTx. *)
THEOREM Inductive == TxSpec => []TxIInv
<1>1. TxInit => TxIInv
  <2> SUFFICES ASSUME TxInit PROVE TxIInv
    OBVIOUS
  <2>1. DepCounterExact
    BY Zenon DEF TxInit, DepCounterExact
  <2> QED
    BY <2>1 DEF TxInit, TxIInv, TxTypeOK, TxState, Step, PcAgrees, ClockAhead,
         ObservedInFlight, DepSetsAgree, ReliedAccounted, PreparingStep,
         CommittedStep, AbortedStep
<1>2. TxIInv /\ [TxNext]_txVars => TxIInv'
  <2> SUFFICES ASSUME TxIInv, [TxNext]_txVars PROVE TxIInv'
    OBVIOUS
  <2> QED
    BY Zenon, TypeStep, PcStep, ClockStep, ObservedStep, DepSetsStep, ReliedStep,
       CounterStep DEF TxIInv
<1> QED
  BY <1>1, <1>2, PTL DEF TxSpec

(* The variables of a transaction keep their types, and commit_dep_counter    *)
(* never wraps below zero.                                                    *)
THEOREM TypeCorrect == TxSpec => []TxTypeOK
<1>1. TxIInv => TxTypeOK
  BY Zenon DEF TxIInv
<1> QED
  BY <1>1, Inductive, PTL

(* commit_dep_counter always equals the number of outstanding reports.        *)
THEOREM CounterCorrect == TxSpec => []DepCounterExact
<1>1. TxIInv => DepCounterExact
  BY Zenon DEF TxIInv
<1> QED
  BY <1>1, Inductive, PTL

(* Whatever is Committed or in the logical log relied on committed            *)
(* transactions only.                                                         *)
THEOREM Recoverable == TxSpec => []CommitsAreRecoverable
<1>1. TxIInv => CommitsAreRecoverable
  BY Zenon DEF TxIInv, TxTypeOK, PcAgrees, ReliedAccounted, CommitsAreRecoverable
<1> QED
  BY <1>1, Inductive, PTL

(* An abort reaches every live transaction that relied on it.                 *)
THEOREM Cascading == TxSpec => []AbortsCascade
<1>1. TxIInv => AbortsCascade
  BY Zenon DEF TxIInv, TxTypeOK, ReliedAccounted, AbortsCascade
<1> QED
  BY <1>1, Inductive, PTL

(* A visibility test that has to register finds its transaction in txs and    *)
(* not Active, so the assertion of register_commit_dependency cannot fail.    *)
THEOREM RegistrationSafe == TxSpec => []RegisterFindsTx
<1>1. TxIInv => RegisterFindsTx
  BY NoneNotTx DEF TxIInv, TxTypeOK, PcAgrees, ObservedInFlight, RegisterFindsTx,
       PreparingStep, CommittedStep, AbortedStep
<1> QED
  BY <1>1, Inductive, PTL

(* A committed writer is always found in txs or finalized_tx_states, a        *)
(* transaction that has left txs has told its dependents, and the assertion   *)
(* of remove_tx that it did fails only for commits that their statement       *)
(* abandoned and another transaction finished.                                *)
THEOREM Resolvable == TxSpec => []OutcomeResolvable
<1>1. TxIInv => OutcomeResolvable
  BY Zenon DEF TxIInv, TxTypeOK, PcAgrees, DepSetsAgree, OutcomeResolvable,
       PreparingStep, CommittedStep, AbortedStep, Step
<1> QED
  BY <1>1, Inductive, PTL

(* Dependencies point from younger to older transactions, so that the wait    *)
(* for them has no cycle.                                                     *)
THEOREM OlderOnly == TxSpec => []DependOnOlder
<1>1. TxIInv => DependOnOlder
  BY DEF TxIInv, TxTypeOK, ClockAhead, DepSetsAgree, DependOnOlder
<1> QED
  BY <1>1, Inductive, PTL

(* No transaction enters Preparing below the snapshot of a running one.       *)
THEOREM StableSnapshots == TxSpec => SnapshotsAreStable
<1>1. TxIInv /\ [TxNext]_txVars =>
        [\A T, t \in Tx :
           state[T] = "Active" /\ state'[T] = "Preparing" /\ t \in txs
             => end_ts'[T] > begin_ts[t]]_txVars
  <2> SUFFICES ASSUME TxIInv, TxNext, NEW T \in Tx, NEW t \in Tx,
                      state[T] = "Active", state'[T] = "Preparing"
               PROVE  end_ts'[T] > begin_ts[t]
    OBVIOUS
  <2>1. Prepare(T)
    <3>1. ASSUME NEW u \in Tx, NEW v \in Tx, KeepsState(u, v) PROVE FALSE
      BY Zenon, <3>1 DEF KeepsState, Write, RollbackSavepoint, Observe, Register, OnlyMoves,
           Validate, CheckAbortNow, WaitForDependencies, DependenciesResolved,
           AppendLog, Rewrite, AfterRewrite, TakeDependents, Decrement, InsertFinalized, RemoveTx,
           Undo, Abandon
    <3>2. ASSUME NEW u \in Tx,
                 \/ Begin(u) \/ CommitReadOnly(u) \/ SkipLog(u) \/ CommitEnd(u)
                 \/ Terminate(u) \/ Rollback(u)
          PROVE  FALSE
      BY Zenon, <3>2 DEF Begin, CommitReadOnly, SkipLog, CommitEnd, Terminate, Rollback,
           TxIInv, TxTypeOK
    <3>3. ASSUME NEW u \in Tx, Prepare(u) PROVE u = T
      BY Zenon, <3>3 DEF Prepare, TxIInv, TxTypeOK
    <3>4. CASE AllGone
      BY Zenon, <3>4 DEF AllGone, txVars
    <3> QED
      BY Zenon, <3>1, <3>2, <3>3, <3>4 DEF TxNext, Progress, KeepsState, OnlyMoves
  <2> QED
    BY Zenon, <2>1 DEF Prepare, TxIInv, TxTypeOK, ClockAhead
<1> QED
  BY <1>1, Inductive, PTL DEF TxSpec, SnapshotsAreStable

(* MvccTx implements TxOutcome: an outcome is decided once, and a transaction *)
(* commits only when all it relied on have committed.                         *)
THEOREM Refinement == TxSpec => ImplementsOutcome
<1>1. TxInit => Outcome!Init
  BY Zenon DEF TxInit, Outcome!Init, OutcomeOf
<1>2. TxIInv /\ [TxNext]_txVars => [Outcome!Next]_(Outcome!vars)
  <2> SUFFICES ASSUME TxIInv, [TxNext]_txVars
               PROVE  Outcome!Next \/ UNCHANGED Outcome!vars
    OBVIOUS
  <2> USE DEF TxIInv, TxTypeOK
  <2>1. ASSUME NEW t \in Tx, NEW T \in Tx, Observe(t, T)
        PROVE  Outcome!Rely(t, T)
    <3>1. OutcomeOf(t) = "open" /\ OutcomeOf(T) # "aborted"
      BY Zenon, <2>1 DEF Observe, CanRun, Speculates, OutcomeOf, PcAgrees, PreparingStep,
           CommittedStep, AbortedStep
    <3>2. UNCHANGED <<log_appended, state>>
      BY Zenon, <2>1 DEF Observe, lifeVars
    <3> QED
      BY Zenon, <2>1, <3>1, <3>2 DEF Observe, Outcome!Rely, OutcomeOf
  <2>2. ASSUME NEW t \in Tx, CommitReadOnly(t) \/ AppendLog(t) \/ SkipLog(t)
        PROVE  Outcome!Commit(t)
    <3>1. OutcomeOf(t) = "open" /\ OutcomeOf(t)' = "committed" /\ UNCHANGED relied
      BY Zenon, <2>2 DEF CommitReadOnly, AppendLog, SkipLog, Goto, OutcomeOf, PcAgrees,
           PreparingStep, CommittedStep, AbortedStep, obsVars, lifeVars
    <3>2. \A T \in relied[t] : OutcomeOf(T) = "committed"
      BY Zenon, <2>2 DEF CommitReadOnly, AppendLog, SkipLog, Goto, StillWanted, OutcomeOf,
           ReliedAccounted
    <3>3. \A u \in Tx : u # t => OutcomeOf(u)' = OutcomeOf(u)
      BY Zenon, <2>2 DEF CommitReadOnly, AppendLog, SkipLog, OutcomeOf, lifeVars
    <3> QED
      BY Zenon, <3>1, <3>2, <3>3 DEF Outcome!Commit
  <2>3. ASSUME NEW t \in Tx, Rollback(t)
        PROVE  Outcome!Abort(t)
    <3>1. OutcomeOf(t) = "open" /\ OutcomeOf(t)' = "aborted" /\ UNCHANGED relied
      BY Zenon, <2>3 DEF Rollback, CanRollback, CanRun, OutcomeOf, PcAgrees, PreparingStep,
           CommittedStep, AbortedStep, obsVars, lifeVars
    <3>2. \A u \in Tx : u # t => OutcomeOf(u)' = OutcomeOf(u)
      BY Zenon, <2>3 DEF Rollback, OutcomeOf, lifeVars
    <3> QED
      BY Zenon, <3>1, <3>2 DEF Outcome!Abort
  <2>4. ASSUME NEW t \in Tx, Begin(t) \/ Prepare(t) \/ CommitEnd(t) \/ Terminate(t)
        PROVE  UNCHANGED Outcome!vars
    <3>1. \A u \in Tx : OutcomeOf(u)' = OutcomeOf(u)
      BY <2>4 DEF Begin, Prepare, CommitEnd, Terminate, CanRun, Goto, OutcomeOf,
           PcAgrees, PreparingStep, CommittedStep, AbortedStep, lifeVars
    <3> QED
      BY Zenon, <2>4, <3>1 DEF Begin, Prepare, CommitEnd, Terminate, obsVars, Outcome!vars
  <2>5. ASSUME UNCHANGED <<state, log_appended, relied>>
        PROVE  UNCHANGED Outcome!vars
    BY Zenon, <2>5 DEF OutcomeOf, Outcome!vars
  <2>6. ASSUME NEW t \in Tx, NEW T \in Tx,
               KeepsState(t, T), ~Observe(t, T), ~AppendLog(t)
        PROVE  UNCHANGED <<state, log_appended, relied>>
    BY Zenon, <2>6 DEF KeepsState, Write, RollbackSavepoint, Register, OnlyMoves,
         Validate, CheckAbortNow, WaitForDependencies, DependenciesResolved,
         Rewrite, AfterRewrite, TakeDependents, Decrement, InsertFinalized, RemoveTx, Undo, Abandon,
         lifeVars, obsVars
  <2>7. CASE UNCHANGED txVars
    BY Zenon, <2>5, <2>7 DEF txVars, lifeVars, obsVars
  <2> HIDE DEF TxIInv, TxTypeOK
  <2> QED
    BY Zenon, <2>1, <2>2, <2>3, <2>4, <2>5, <2>6, <2>7
    DEF TxNext, AllGone, Progress, KeepsState, OnlyMoves, Outcome!Next
<1> QED
  BY <1>1, <1>2, Inductive, PTL DEF TxSpec, ImplementsOutcome, Outcome!Spec

=============================================================================
