--------------------------- MODULE RowidAllocator ---------------------------
(* Automatic rowids of one table (RowidAllocator, op_new_rowid).  The first    *)
(* NewRowid reads the largest rowid its transaction sees and seeds a counter;  *)
(* later ones increment it by compare-and-swap.  Explicit rowids and rows that *)
(* a rollback restores raise the counter without the allocator's lock.         *)
EXTENDS Integers, Sequences

CONSTANTS
  Conn,       \* connections, each with a cursor on the table
  MaxRowid,   \* i64::MAX
  AtOpen,     \* the rowids the B-tree may hold when the database is opened
  Explicit,   \* the rowids that statements name
  Nobody,     \* the allocator's lock is free
  NoRow       \* seek_to_last finds nothing

ASSUME RowidAssumption ==
  /\ MaxRowid \in Nat
  /\ AtOpen \subseteq Int /\ Explicit \subseteq Int
  /\ \A r \in AtOpen \cup Explicit : r <= MaxRowid
  /\ Nobody \notin Conn /\ NoRow \notin Int

VARIABLES
  alloc_lock,   \* RowidAllocator.lock: its holder (creating_new_rowid)
  max_rowid,
  initialized,
  at,           \* where a connection is in op_new_rowid or in a bump
  cur,          \* the value of max_rowid it has loaded
  arg,          \* the rowid it initialises the counter with, or raises it to
  stored,       \* rows of the B-tree that no committed transaction deleted
  deleted,      \* ... of which its running transaction has deleted these
  inserted,     \* explicit rowids whose bump is complete
  blind,        \* history: the rows whose deletion hid them from the seed
  given         \* history: the rowids handed out by the counter

rowidVars == <<alloc_lock, max_rowid, initialized, at, cur, arg, stored, deleted,
               inserted, blind, given>>
tableVars == <<stored, deleted, inserted, blind>>

(* get_rowid_allocator; recovery has bumped it for the rows it replayed *)
RowidInit ==
  /\ stored \in SUBSET AtOpen
  /\ max_rowid \in {0} \cup {r \in stored : r > 0}
  /\ alloc_lock = Nobody /\ initialized = FALSE
  /\ at = [c \in Conn |-> "idle"]
  /\ cur = [c \in Conn |-> 0] /\ arg = [c \in Conn |-> NoRow]
  /\ deleted = [c \in Conn |-> {}]
  /\ inserted = {} /\ blind = {} /\ given = <<>>

Forget(c) == cur' = [cur EXCEPT ![c] = 0] /\ arg' = [arg EXCEPT ![c] = NoRow]

AllocStep(c, from, to) == at[c] = from /\ at' = [at EXCEPT ![c] = to]

(* RowidAllocator::lock; without the lock the statement yields and tries again *)
TakeLock(c) == alloc_lock = Nobody /\ alloc_lock' = c

Unlocked(c) == IF alloc_lock = c THEN Nobody ELSE alloc_lock

-----------------------------------------------------------------------------
(* start_new_rowid *)
StartNewRowid(c) ==
  /\ AllocStep(c, "idle", IF initialized THEN "next" ELSE "seek")
  /\ TakeLock(c)
  /\ UNCHANGED <<max_rowid, initialized, cur, arg, given, tableVars>>

(* seek_to_last and rowid: the largest row the transaction sees.  It sees the *)
(* stored rows it has not deleted and, depending on its snapshot, some of the *)
(* inserted ones.                                                             *)
Largest(S, m) == IF S = {} THEN m = NoRow ELSE m \in S /\ \A r \in S : r <= m

SeekToLast(c) ==
  /\ AllocStep(c, "seek", "seed")
  /\ \E mine \in SUBSET inserted, m \in stored \cup inserted \cup {NoRow} :
       /\ Largest((stored \ deleted[c]) \cup mine, m)
       /\ arg' = [arg EXCEPT ![c] = m]
  /\ blind' = deleted[c]
  /\ UNCHANGED <<alloc_lock, max_rowid, initialized, cur, given, stored, deleted, inserted>>

(* Mutant: the seed is stored, not merged with what statements have inserted. *)
SeededPlainly(m) == IF m = NoRow THEN max_rowid ELSE m

(* initialize: what fetch_update makes of the counter *)
Seeded(m) ==
  IF m = NoRow THEN max_rowid
  ELSE IF max_rowid = 0 THEN m
  ELSE IF max_rowid < m THEN m ELSE max_rowid

Initialize(c) ==
  /\ AllocStep(c, "seed", "seeded")
  /\ max_rowid' = Seeded(arg[c])
  /\ UNCHANGED <<alloc_lock, initialized, cur, arg, given, tableVars>>

SetInitialized(c) ==
  /\ AllocStep(c, "seeded", "next")
  /\ initialized' = TRUE
  /\ UNCHANGED <<alloc_lock, max_rowid, cur, arg, given, tableVars>>

(* get_next_rowid: the load; at i64::MAX a random rowid is looked for, still  *)
(* under the lock if this statement has seeded the counter.                   *)
LoadMax(c) ==
  /\ AllocStep(c, "next", IF max_rowid = MaxRowid THEN "random" ELSE "swap")
  /\ cur' = [cur EXCEPT ![c] = max_rowid]
  /\ \/ UNCHANGED alloc_lock
     \/ max_rowid = MaxRowid /\ alloc_lock' = Unlocked(c)
  /\ UNCHANGED <<max_rowid, initialized, arg, given, tableVars>>

(* get_next_rowid: the compare-and-swap *)
Swap(c) ==
  /\ at[c] = "swap"
  /\ IF max_rowid = cur[c]
     THEN /\ AllocStep(c, "swap", "gonext")
          /\ max_rowid' = cur[c] + 1
          /\ given' = Append(given, cur[c] + 1)
     ELSE AllocStep(c, "swap", "next") /\ UNCHANGED <<max_rowid, given>>
  /\ UNCHANGED <<alloc_lock, initialized, cur, arg, tableVars>>

(* GeneratingRandom, VerifyingCandidate: a candidate that is not in use, or  *)
(* DatabaseFull after 100 of them; GoNext; an error or a drop at a yield     *)
EndNewRowid(c) ==
  /\ at[c] \in {"seek", "random", "gonext"}
  /\ at' = [at EXCEPT ![c] = "idle"]
  /\ alloc_lock' = Unlocked(c)
  /\ Forget(c)
  /\ UNCHANGED <<max_rowid, initialized, given, tableVars>>

-----------------------------------------------------------------------------
(* insert_row_id_maybe_update, for an explicit rowid ... *)
StartBump(c, r) ==
  /\ AllocStep(c, "idle", "bump")
  /\ arg' = [arg EXCEPT ![c] = r]
  /\ UNCHANGED <<alloc_lock, max_rowid, initialized, cur, given, tableVars>>

(* ... or a row that a rollback restores (bump_rowid_allocator_for_restored_row) *)
Restore(c) == \E r \in deleted[c] : StartBump(c, r)

Bumped(c) ==
  /\ at' = [at EXCEPT ![c] = "idle"]
  /\ inserted' = inserted \cup {arg[c]}
  /\ deleted' = [deleted EXCEPT ![c] = @ \ {arg[c]}]
  /\ blind' = IF arg[c] > 0 THEN blind \ {arg[c]} ELSE blind
  /\ Forget(c)
  /\ UNCHANGED stored

LoadBump(c) ==
  /\ at[c] = "bump"
  /\ IF arg[c] <= max_rowid THEN Bumped(c)
     ELSE /\ AllocStep(c, "bump", "raise")
          /\ cur' = [cur EXCEPT ![c] = max_rowid]
          /\ UNCHANGED <<arg, tableVars>>
  /\ UNCHANGED <<alloc_lock, max_rowid, initialized, given>>

Raise(c) ==
  /\ at[c] = "raise"
  /\ IF max_rowid = cur[c]
     THEN max_rowid' = arg[c] /\ Bumped(c)
     ELSE AllocStep(c, "raise", "bump") /\ UNCHANGED <<max_rowid, cur, arg, tableVars>>
  /\ UNCHANGED <<alloc_lock, initialized, given>>

(* The transaction of c deletes a stored row that no other one has deleted ... *)
DeleteStored(c) ==
  /\ at[c] = "idle"
  /\ \E r \in stored :
       /\ \A d \in Conn : r \notin deleted[d]
       /\ deleted' = [deleted EXCEPT ![c] = @ \cup {r}]
  /\ UNCHANGED <<alloc_lock, max_rowid, initialized, at, cur, arg, stored, inserted, blind, given>>

(* ... and commits *)
CommitDeletes(c) ==
  /\ at[c] = "idle" /\ deleted[c] # {}
  /\ stored' = stored \ deleted[c]
  /\ deleted' = [deleted EXCEPT ![c] = {}]
  /\ UNCHANGED <<alloc_lock, max_rowid, initialized, at, cur, arg, inserted, blind, given>>

-----------------------------------------------------------------------------
RowidNext ==
  \E c \in Conn :
    \/ StartNewRowid(c)
    \/ SeekToLast(c)
    \/ Initialize(c)
    \/ SetInitialized(c)
    \/ LoadMax(c)
    \/ Swap(c)
    \/ EndNewRowid(c)
    \/ \E r \in Explicit : StartBump(c, r)
    \/ Restore(c)
    \/ LoadBump(c)
    \/ Raise(c)
    \/ DeleteStored(c)
    \/ CommitDeletes(c)

RowidSpec == RowidInit /\ [][RowidNext]_rowidVars

-----------------------------------------------------------------------------
(* Properties *)

(* The counter hands out increasing rowids, so none twice, although two       *)
(* connections may find it uninitialised and its seed may be negative.        *)
RowidsIncrease == \A i, j \in 1..Len(given) : i < j => given[i] < given[j]

(* The rows that an automatic rowid must not meet: the stored ones, but for   *)
(* those that the transaction that seeded the counter had itself deleted and  *)
(* not yet restored, and the explicit ones that are positive.                 *)
Tracked == (stored \ blind) \cup {r \in inserted : r > 0}

(* A rowid handed out is above every row that is tracked, whoever inserted it *)
(* and whether or not the transaction that seeded the counter saw it inserted, *)
(* and above every rowid handed out before.                                   *)
RowidIsFresh ==
  [][\A c \in Conn : given' # given /\ Swap(c) =>
       \A r \in Tracked \cup {given[i] : i \in 1..Len(given)} : r < cur[c] + 1]_rowidVars
=============================================================================
