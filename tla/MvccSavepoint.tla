--------------------------- MODULE MvccSavepoint ---------------------------
(***************************************************************************)
(* Savepoints of an MVCC transaction (core/mvcc/database/mod.rs): each     *)
(* statement of an interactive transaction opens one, SAVEPOINT opens a    *)
(* named one.  The newest savepoint records the versions created and the   *)
(* versions ended since; releasing it hands the records to its parent,     *)
(* rolling it back undoes them in the version chains of MvccStore.         *)
(***************************************************************************)
EXTENDS MvccStore

CONSTANT MaxSavepoints  \* bound: depth of the stack of savepoints

ASSUME DepthIsNat == MaxSavepoints \in Nat

VARIABLE stack          \* Transaction.savepoint_stack, the newest last

spVars == <<storeVars, stack>>

SpInit == StoreInit /\ stack = [t \in Tx |-> <<>>]

Top(t)     == stack[t][Len(stack[t])]
Below(t)   == SubSeq(stack[t], 1, Len(stack[t]) - 1)
InStatement(t) == stack[t] # <<>> /\ Top(t).kind = "Statement"
SetStack(t, s) == stack' = [stack EXCEPT ![t] = s]

(* What the cursor of t finds on k *)
View(t, k) ==
  LET c == chain[k]
      visible == {i \in 1..Len(c) : is_visible_to(t, c[i])}
  IN IF visible # {} THEN c[CHOOSE i \in visible : \A j \in visible : j <= i].id
     ELSE IF \E i \in 1..Len(c) : is_btree_invalidating_version(t, c[i]) THEN NoRow
     ELSE BTree(k)

(* begin_savepoint, begin_named_savepoint; view is a history variable *)
Savepoint(t, kind) ==
  [kind |-> kind, created |-> {}, deleted |-> {}, view |-> [k \in Key |-> View(t, k)]]

(* Mutant: the records of a released savepoint are forgotten. *)
Dropped(t) == Below(t)

(* merge_from, into the savepoint below if there is one *)
Merged(t) ==
  IF Len(stack[t]) < 2 THEN Below(t)
  ELSE [Below(t) EXCEPT ![Len(stack[t]) - 1] =
          [@ EXCEPT !.created = @ \cup Top(t).created,
                    !.deleted = @ \cup Top(t).deleted]]

(* A step of the store on behalf of t records what it did in Top(t):        *)
(* record_created_table_version and record_deleted_table_version.           *)
Ids(c) == {c[i].id : i \in 1..Len(c)}

Created(k) == {k} \X (Ids(chain'[k]) \ Ids(chain[k]))
Deleted(t, k) ==
  {k} \X {chain[k][i].id : i \in {j \in 1..Len(chain[k]) :
            /\ Len(chain'[k]) = Len(chain[k])
            /\ chain'[k][j].end = TxID(t) /\ chain[k][j].end # TxID(t)}}

Record(t) ==
  SetStack(t, [stack[t] EXCEPT ![Len(stack[t])] =
    [@ EXCEPT !.created = @ \cup UNION {Created(k) : k \in Key},
              !.deleted = @ \cup UNION {Deleted(t, k) : k \in Key}]])

-----------------------------------------------------------------------------
StartStatement(t, k) ==
  /\ ~InStatement(t)
  /\ StartSeek(t, k)
  /\ SetStack(t, Append(stack[t], Savepoint(t, "Statement")))

(* The statement succeeds: release_savepoint *)
ReleaseStatement(t) ==
  /\ InStatement(t) /\ op[t].kind = "idle"
  /\ phase[t] = "run"
  /\ SetStack(t, Merged(t))
  /\ UNCHANGED storeVars

(* row_has_uncommitted_version_for_tx *)
HasUncommitted(t, k, c) == \E i \in 1..Len(c) : TxID(t) \in {c[i].begin, c[i].end}

(* rollback_savepoint_changes for a set of savepoints, newest first: the    *)
(* versions created are dropped, the ones ended are current again.  The     *)
(* header and header_dirty, which it restores too, are not modelled.        *)
Undone(k, created, deleted) ==
  LET kept == SelectSeq(chain[k], LAMBDA v : <<k, v.id>> \notin created)
  IN [i \in 1..Len(kept) |->
        [kept[i] EXCEPT !.end = IF <<k, kept[i].id>> \in deleted THEN Nil ELSE @]]

UndoSavepoints(t, S) ==
  LET created == UNION {sp.created : sp \in S}
      deleted == UNION {sp.deleted : sp \in S}
      touched == {p[1] : p \in created \cup deleted}
  IN /\ \A k \in touched : WriteLockFree(k)
     /\ chain' = [k \in Key |-> Undone(k, created, deleted)]
     /\ write_set' = [write_set EXCEPT ![t] =
          {k \in @ : k \in touched => HasUncommitted(t, k, Undone(k, created, deleted))}]
     /\ UNCHANGED <<txVars, relied, todo, stmts, log, seen>>

(* The statement fails (a constraint, an interrupt) and the transaction goes *)
(* on: rollback_first_savepoint                                              *)
RollbackStatement(t) ==
  /\ InStatement(t) /\ op[t].kind \in {"idle", "at"}
  /\ phase[t] = "run"
  /\ UndoSavepoints(t, {Top(t)})
  /\ MoveCursor(t, Idle)
  /\ SetStack(t, Below(t))

CanManage(t) == phase[t] = "run" /\ op[t].kind = "idle" /\ ~InStatement(t)

(* SAVEPOINT *)
BeginNamed(t) ==
  /\ CanManage(t) /\ Len(stack[t]) < MaxSavepoints
  /\ SetStack(t, Append(stack[t], Savepoint(t, "Named")))
  /\ UNCHANGED storeVars

(* RELEASE of the savepoint at depth i: the ones above go with it           *)
ReleaseNamed(t, i) ==
  /\ CanManage(t) /\ i \in 1..Len(stack[t])
  /\ LET gone == {stack[t][j] : j \in i..Len(stack[t])}
         rest == SubSeq(stack[t], 1, i - 1)
     IN SetStack(t, IF i = 1 THEN <<>>
          ELSE [rest EXCEPT ![i - 1] =
                 [@ EXCEPT !.created = @ \cup UNION {sp.created : sp \in gone},
                           !.deleted = @ \cup UNION {sp.deleted : sp \in gone}]])
  /\ UNCHANGED storeVars

(* ROLLBACK TO the savepoint at depth i, which stays open and empty          *)
RollbackTo(t, i) ==
  /\ CanManage(t) /\ i \in 1..Len(stack[t])
  /\ UndoSavepoints(t, {stack[t][j] : j \in i..Len(stack[t])})
  /\ UNCHANGED op
  /\ SetStack(t, Append(SubSeq(stack[t], 1, i - 1),
                        [stack[t][i] EXCEPT !.created = {}, !.deleted = {}]))

(* The steps of a statement that is not about to start *)
StatementStep(t) ==
  \/ Seek(t) \/ StartShadow(t) \/ Shadow(t) \/ EndStatement(t)
  \/ StartInsert(t) \/ Readback(t) \/ Put(t) \/ StartDelete(t) \/ Delete(t)

(* What happens outside statements; ending a transaction drops its savepoints *)
TxStep(t) ==
  \/ Begin(t)
  \/ ~InStatement(t) /\ Prepare(t)
  \/ \E k \in Key : Validate(t, k) \/ Rewrite(t, k) \/ Undo(t, k)
  \/ Commit(t) \/ Rollback(t) \/ Finish(t)

SpNext ==
  \/ \E t \in Tx :
       \/ \E k \in Key : StartStatement(t, k)
       \/ StatementStep(t) /\ Record(t)
       \/ ReleaseStatement(t)
       \/ RollbackStatement(t)
       \/ BeginNamed(t)
       \/ \E i \in 1..MaxSavepoints : ReleaseNamed(t, i) \/ RollbackTo(t, i)
       \/ TxStep(t) /\ SetStack(t, IF phase'[t] = "run" THEN stack[t] ELSE <<>>)
  \/ AllDone /\ UNCHANGED stack

SpSpec == SpInit /\ [][SpNext]_spVars

-----------------------------------------------------------------------------
(* Properties *)

(* Rolling back a savepoint restores the rows as the transaction saw them    *)
(* when it opened it, whatever was inserted, updated, deleted, released and  *)
(* rolled back in between, unless a transaction that prepared before it      *)
(* began, and that it may have relied on, has aborted.                       *)
RollbackRestoresView ==
  [][\A t \in Tx : \A i \in 1..Len(stack[t]) :
       /\ \/ RollbackTo(t, i)
          \/ i = Len(stack[t]) /\ RollbackStatement(t)
       /\ \A T \in Tx : end_ts[T] \in 1..begin_ts[t] => state[T] \in {"Preparing", "Committed"}
       => \A k \in Key : View(t, k)' = stack[t][i].view[k]]_spVars

=============================================================================
