------------------------ MODULE RowidAllocatorProofs ------------------------
(* Proofs about RowidAllocator, for any connections and rowids.               *)
EXTENDS RowidAllocator, TLAPS

Places == {"idle", "seek", "seed", "seeded", "next", "swap", "random", "gonext",
           "bump", "raise"}

RowidTypes ==
  /\ alloc_lock \in Conn \cup {Nobody}
  /\ max_rowid \in Int
  /\ initialized \in BOOLEAN
  /\ at \in [Conn -> Places]
  /\ cur \in [Conn -> Int]
  /\ arg \in [Conn -> Int \cup {NoRow}]
  /\ stored \subseteq Int /\ inserted \subseteq Int /\ blind \subseteq Int
  /\ deleted \in [Conn -> SUBSET Int]
  /\ given \in Seq(Int)

(* Who seeds or increments the counter holds the lock, and the flag tells *)
(* which of the two it is.                                                *)
LockRules ==
  \A c \in Conn :
    /\ at[c] \in {"seek", "seed", "seeded", "next", "swap"} => alloc_lock = c
    /\ at[c] \in {"seek", "seed", "seeded"} => ~initialized
    /\ at[c] \in {"next", "swap"} => initialized
    /\ at[c] \in {"bump", "raise"} => arg[c] \in Int
    /\ at[c] = "raise" => cur[c] < arg[c]

(* The counter is at or above all it has to stay above. *)
CounterCovers ==
  /\ ~initialized => given = <<>>
  /\ \A i \in 1..Len(given) : given[i] <= max_rowid
  /\ \A r \in inserted : r > 0 => r <= max_rowid
  /\ \A r \in stored \ blind : \A c \in Conn :
       at[c] = "seed" => (arg[c] \in Int /\ r <= arg[c]) \/ (r > 0 /\ r <= max_rowid)
  /\ initialized \/ (\E c \in Conn : at[c] = "seeded")
       => \A r \in stored \ blind : r <= max_rowid

RowidInv == RowidTypes /\ LockRules /\ CounterCovers /\ RowidsIncrease

(* The seeding rules hold when the table is opened. *)
LEMMA RowidInitInv == RowidInit => RowidInv
<1> SUFFICES ASSUME RowidInit PROVE RowidInv
  OBVIOUS
<1> USE RowidAssumption DEF RowidInit, RowidAssumption
<1>1. RowidTypes
  <2>1. at \in [Conn -> Places] /\ cur \in [Conn -> Int] /\ given \in Seq(Int)
    BY DEF Places
  <2>2. arg \in [Conn -> Int \cup {NoRow}] /\ deleted \in [Conn -> SUBSET Int]
    OBVIOUS
  <2>3. stored \subseteq Int /\ max_rowid \in Int
    OBVIOUS
  <2>4. QED
    BY Zenon, <2>1, <2>2, <2>3 DEF RowidTypes
<1>2. LockRules
  BY Zenon DEF LockRules
<1>3. CounterCovers
  BY DEF CounterCovers
<1>4. RowidsIncrease
  BY DEF RowidsIncrease
<1>5. QED
  BY Zenon, <1>1, <1>2, <1>3, <1>4 DEF RowidInv

(* A bump that is complete, whichever way it ended *)
LEMMA BumpedInv ==
  ASSUME RowidInv, NEW c \in Conn, at[c] \in {"bump", "raise"}, Bumped(c),
         max_rowid' \in Int, max_rowid' >= max_rowid, max_rowid' >= arg[c],
         UNCHANGED <<alloc_lock, initialized, given>>
  PROVE  RowidInv'
<1>0. RowidTypes /\ arg[c] \in Int
  BY Zenon DEF RowidInv, LockRules
<1>1. RowidTypes'
  <2>1. inserted' \subseteq Int /\ blind' \subseteq Int /\ stored' \subseteq Int
    BY Zenon, <1>0 DEF RowidTypes, Bumped
  <2>2. deleted[c] \ {arg[c]} \in SUBSET Int /\ deleted \in [Conn -> SUBSET Int]
    BY Zenon, <1>0 DEF RowidTypes
  <2>3. deleted' \in [Conn -> SUBSET Int]
    BY Zenon, <2>2 DEF Bumped
  <2>4. at' \in [Conn -> Places] /\ cur' \in [Conn -> Int] /\ arg' \in [Conn -> Int \cup {NoRow}]
    BY <1>0 DEF RowidTypes, Places, Bumped, Forget
  <2>5. QED
    BY Zenon, <1>0, <2>1, <2>3, <2>4 DEF RowidTypes
<1>2. LockRules'
  BY Zenon, <1>0 DEF RowidInv, LockRules, RowidTypes, Bumped, Forget
<1>3. /\ ~initialized' => given' = <<>>
      /\ \A i \in 1..Len(given') : given'[i] <= max_rowid'
      /\ \A r \in inserted' : r > 0 => r <= max_rowid'
  <2>1. max_rowid \in Int /\ inserted \subseteq Int /\ \A i \in 1..Len(given) : given[i] \in Int
    BY <1>0 DEF RowidTypes
  <2>2. inserted' = inserted \cup {arg[c]}
    BY Zenon DEF Bumped
  <2>3. QED
    BY <1>0, <2>1, <2>2 DEF RowidInv, CounterCovers
<1>4. \A r \in (stored \ blind)' : r \in Int /\ (r \in stored \ blind \/ (r > 0 /\ r <= max_rowid'))
  BY Zenon, <1>0 DEF RowidTypes, Bumped
<1>5. ASSUME NEW r \in (stored \ blind)', NEW d \in Conn, at'[d] = "seed"
      PROVE (arg'[d] \in Int /\ r <= arg'[d]) \/ (r > 0 /\ r <= max_rowid')
  <2>1. d # c /\ at[d] = "seed" /\ arg'[d] = arg[d]
    BY Zenon, <1>0, <1>5 DEF RowidTypes, Bumped, Forget
  <2>2. CASE r \in stored \ blind
    <3>1. (arg[d] \in Int /\ r <= arg[d]) \/ (r > 0 /\ r <= max_rowid)
      BY Zenon, <2>1, <2>2 DEF RowidInv, CounterCovers
    <3>2. QED
      BY <1>0, <1>4, <2>1, <3>1 DEF RowidTypes
  <2>3. QED
    BY Zenon, <1>4, <1>5, <2>2
<1>6. initialized' \/ (\E d \in Conn : at'[d] = "seeded")
        => \A r \in (stored \ blind)' : r <= max_rowid'
  <2>1. initialized' \/ (\E d \in Conn : at'[d] = "seeded")
          => initialized \/ (\E d \in Conn : at[d] = "seeded")
    BY Zenon, <1>0 DEF RowidTypes, Bumped
  <2>2. initialized \/ (\E d \in Conn : at[d] = "seeded")
          => \A r \in stored \ blind : r <= max_rowid
    BY Zenon DEF RowidInv, CounterCovers
  <2>3. QED
    BY <1>0, <1>4, <2>1, <2>2 DEF RowidTypes
<1>7. CounterCovers' /\ RowidsIncrease'
  BY Zenon, <1>3, <1>5, <1>6 DEF RowidInv, CounterCovers, RowidsIncrease
<1>8. QED
  BY Zenon, <1>1, <1>2, <1>7 DEF RowidInv

(* A step that leaves counter, rows and seeds alone, and takes nobody into    *)
(* the seeding of the counter, keeps what the counter covers.                 *)
LEMMA CoversFrame ==
  ASSUME CounterCovers, RowidsIncrease,
         UNCHANGED <<max_rowid, initialized, given, stored, inserted, blind, arg>>,
         \A d \in Conn : at'[d] \in {"seed", "seeded"} => at'[d] = at[d]
  PROVE  CounterCovers' /\ RowidsIncrease'
<1>1. RowidsIncrease'
  BY Zenon DEF RowidsIncrease
<1>2. CounterCovers'
  BY Zenon DEF CounterCovers
<1>3. QED
  BY Zenon, <1>1, <1>2

(* Every step of every connection keeps them. *)
LEMMA RowidNextInv == RowidInv /\ [RowidNext]_rowidVars => RowidInv'
<1> SUFFICES ASSUME RowidInv, [RowidNext]_rowidVars PROVE RowidInv'
  OBVIOUS
<1> USE RowidAssumption DEF RowidAssumption, RowidInv
<1>1. CASE UNCHANGED rowidVars
  BY Zenon, <1>1 DEF rowidVars, RowidTypes, LockRules, CounterCovers, RowidsIncrease
<1>2. ASSUME NEW c \in Conn, StartNewRowid(c) PROVE RowidInv'
  <2> USE <1>2 DEF StartNewRowid, AllocStep, TakeLock, tableVars
  <2>1. RowidTypes'
    BY Zenon DEF RowidTypes, Places
  <2>2. LockRules'
    BY Zenon DEF LockRules, RowidTypes
  <2>3. CounterCovers' /\ RowidsIncrease'
    BY Zenon DEF CounterCovers, RowidsIncrease, RowidTypes
  <2>4. QED
    BY Zenon, <2>1, <2>2, <2>3
<1>3. ASSUME NEW c \in Conn, SeekToLast(c) PROVE RowidInv'
  <2> USE <1>3 DEF SeekToLast, AllocStep
  <2>0. PICK mine \in SUBSET inserted, m \in stored \cup inserted \cup {NoRow} :
          Largest((stored \ deleted[c]) \cup mine, m) /\ arg' = [arg EXCEPT ![c] = m]
    OBVIOUS
  <2>1. RowidTypes'
    BY Zenon, <2>0 DEF RowidTypes, Places
  <2>2. LockRules'
    BY Zenon, <2>0 DEF LockRules, RowidTypes
  <2>3. \A r \in (stored \ blind)' : m \in Int /\ r <= m
    BY Zenon, <2>0 DEF Largest, RowidTypes
  <2>4. \A d \in Conn : at'[d] \in {"seed", "seeded"} => d = c /\ at'[d] = "seed" /\ arg'[d] = m
    BY Zenon, <2>0 DEF LockRules, RowidTypes
  <2>5. CounterCovers' /\ RowidsIncrease'
    BY <2>3, <2>4 DEF CounterCovers, RowidsIncrease, RowidTypes, LockRules
  <2>6. QED
    BY Zenon, <2>1, <2>2, <2>5
<1>4. ASSUME NEW c \in Conn, Initialize(c) PROVE RowidInv'
  <2> USE <1>4 DEF Initialize, AllocStep, Seeded, tableVars
  <2>1. RowidTypes'
    BY Zenon DEF RowidTypes, Places
  <2>2. LockRules'
    BY Zenon DEF LockRules, RowidTypes
  <2>3. given = <<>> /\ ~initialized
    BY Zenon DEF CounterCovers, LockRules, RowidTypes
  <2>4. \A d \in Conn : at'[d] # "seed"
    BY Zenon DEF LockRules, RowidTypes
  <2>5. \A r \in inserted : r > 0 => r <= max_rowid'
    BY DEF CounterCovers, RowidTypes
  <2>6. \A r \in stored \ blind : r <= max_rowid'
    BY DEF CounterCovers, RowidTypes
  <2>7. CounterCovers' /\ RowidsIncrease'
    BY <2>3, <2>4, <2>5, <2>6 DEF CounterCovers, RowidsIncrease
  <2>8. QED
    BY Zenon, <2>1, <2>2, <2>7
<1>5. ASSUME NEW c \in Conn, SetInitialized(c) PROVE RowidInv'
  <2> USE <1>5 DEF SetInitialized, AllocStep, tableVars
  <2>1. RowidTypes'
    BY Zenon DEF RowidTypes, Places
  <2>2. LockRules'
    BY Zenon DEF LockRules, RowidTypes
  <2>3. CounterCovers' /\ RowidsIncrease'
    BY Zenon DEF CounterCovers, RowidsIncrease, RowidTypes
  <2>4. QED
    BY Zenon, <2>1, <2>2, <2>3
<1>6. ASSUME NEW c \in Conn, LoadMax(c) PROVE RowidInv'
  <2> USE <1>6 DEF LoadMax, AllocStep, Unlocked, tableVars
  <2>1. RowidTypes'
    BY Zenon DEF RowidTypes, Places
  <2>2. LockRules'
    BY Zenon DEF LockRules, RowidTypes
  <2>3. CounterCovers' /\ RowidsIncrease'
    BY Zenon DEF CounterCovers, RowidsIncrease, RowidTypes
  <2>4. QED
    BY Zenon, <2>1, <2>2, <2>3
<1>7. ASSUME NEW c \in Conn, Swap(c) PROVE RowidInv'
  <2> USE <1>7 DEF Swap, AllocStep, tableVars
  <2>0. given' \in Seq(Int) /\ max_rowid' \in Int /\ at' \in [Conn -> Places]
    <3>1. cur[c] + 1 \in Int /\ given \in Seq(Int) /\ max_rowid \in Int /\ at \in [Conn -> Places]
      BY DEF RowidTypes
    <3>2. Append(given, cur[c] + 1) \in Seq(Int)
      BY <3>1
    <3>3. QED
      BY Zenon, <3>1, <3>2 DEF Places
  <2>1. RowidTypes'
    BY Zenon, <2>0 DEF RowidTypes
  <2>2. LockRules'
    BY Zenon DEF LockRules, RowidTypes
  <2>3. CASE max_rowid # cur[c]
    BY <2>1, <2>2, <2>3 DEF CounterCovers, RowidsIncrease, RowidTypes
  <2>4. CASE max_rowid = cur[c]
    <3>1. given \in Seq(Int) /\ given' = Append(given, max_rowid + 1) /\ max_rowid' = max_rowid + 1
      BY Zenon, <2>4 DEF RowidTypes
    <3>2. /\ Len(given') = Len(given) + 1
          /\ \A i \in 1..Len(given) : given'[i] = given[i] /\ given[i] <= max_rowid
          /\ given'[Len(given) + 1] = max_rowid + 1
      BY <3>1 DEF CounterCovers
    <3>3. initialized /\ initialized'
      BY Zenon DEF LockRules
    <3>4. \A i \in 1..Len(given') : given'[i] <= max_rowid'
      BY <3>1, <3>2 DEF RowidTypes
    <3>5. CounterCovers'
      BY <2>4, <3>1, <3>3, <3>4 DEF CounterCovers, RowidTypes
    <3>6. RowidsIncrease'
      <4> SUFFICES ASSUME NEW i \in 1..Len(given'), NEW j \in 1..Len(given'), i < j
                   PROVE given'[i] < given'[j]
        BY Zenon DEF RowidsIncrease
      <4>1. Len(given) \in Nat /\ max_rowid \in Int /\ \A n \in 1..Len(given) : given[n] \in Int
        BY <3>1 DEF RowidTypes
      <4>2. CASE j = Len(given) + 1
        BY <3>1, <3>2, <4>1, <4>2
      <4>3. CASE j # Len(given) + 1
        <5>1. i \in 1..Len(given) /\ j \in 1..Len(given)
          BY <3>2, <4>1, <4>3
        <5>2. given[i] < given[j]
          BY Zenon, <5>1 DEF RowidsIncrease
        <5>3. QED
          BY Zenon, <3>2, <5>1, <5>2
      <4>4. QED
        BY Zenon, <4>2, <4>3
    <3>7. QED
      BY Zenon, <2>1, <2>2, <3>5, <3>6
  <2>5. QED
    BY Zenon, <2>3, <2>4
<1>8. ASSUME NEW c \in Conn, EndNewRowid(c) PROVE RowidInv'
  <2> USE <1>8 DEF EndNewRowid, Unlocked, Forget, tableVars
  <2>1. RowidTypes'
    BY DEF RowidTypes, Places
  <2>2. LockRules'
    BY Zenon DEF LockRules, RowidTypes
  <2>3. CounterCovers' /\ RowidsIncrease'
    BY Zenon DEF CounterCovers, RowidsIncrease, RowidTypes
  <2>4. QED
    BY Zenon, <2>1, <2>2, <2>3
<1>9. ASSUME NEW c \in Conn, NEW r \in Int, StartBump(c, r) PROVE RowidInv'
  <2> USE <1>9 DEF StartBump, AllocStep, tableVars
  <2>1. RowidTypes'
    BY Zenon DEF RowidTypes, Places
  <2>2. LockRules'
    BY Zenon DEF LockRules, RowidTypes
  <2>3. CounterCovers' /\ RowidsIncrease'
    BY Zenon DEF CounterCovers, RowidsIncrease, RowidTypes
  <2>4. QED
    BY Zenon, <2>1, <2>2, <2>3
<1>10. ASSUME NEW c \in Conn, LoadBump(c) PROVE RowidInv'
  <2> USE <1>10 DEF LoadBump
  <2>1. arg[c] \in Int /\ max_rowid \in Int
    BY Zenon DEF LockRules, RowidTypes
  <2>2. CASE arg[c] <= max_rowid
    <3>1. Bumped(c) /\ max_rowid' \in Int /\ max_rowid' >= max_rowid /\ max_rowid' >= arg[c]
      BY <2>1, <2>2 DEF LockRules, RowidTypes
    <3>2. QED
      BY Zenon, <3>1, BumpedInv
  <2>3. CASE ~(arg[c] <= max_rowid)
    <3> USE <2>1, <2>3 DEF AllocStep, tableVars
    <3>1. RowidTypes'
      <4>1. at' \in [Conn -> Places]
        BY Zenon DEF RowidTypes, Places
      <4>2. cur' \in [Conn -> Int]
        BY Zenon DEF RowidTypes
      <4>3. UNCHANGED <<alloc_lock, max_rowid, initialized, given, arg, tableVars>>
        OBVIOUS
      <4>4. QED
        BY Zenon, <4>1, <4>2, <4>3 DEF RowidTypes
    <3>2. LockRules'
      BY DEF LockRules, RowidTypes
    <3>3. \A d \in Conn : at'[d] \in {"seed", "seeded"} => at'[d] = at[d]
      BY Zenon DEF RowidTypes
    <3>4. UNCHANGED <<max_rowid, initialized, given, stored, inserted, blind, arg>>
      OBVIOUS
    <3>5. CounterCovers' /\ RowidsIncrease'
      BY Zenon, <3>3, <3>4, CoversFrame
    <3>6. QED
      BY Zenon, <3>1, <3>2, <3>5
  <2>4. QED
    BY Zenon, <2>2, <2>3
<1>11. ASSUME NEW c \in Conn, Raise(c) PROVE RowidInv'
  <2> USE <1>11 DEF Raise
  <2>1. arg[c] \in Int /\ max_rowid \in Int
    BY Zenon DEF LockRules, RowidTypes
  <2>2. CASE max_rowid = cur[c]
    <3>1. Bumped(c) /\ max_rowid' \in Int /\ max_rowid' >= max_rowid /\ max_rowid' >= arg[c]
      BY <2>1, <2>2 DEF LockRules, RowidTypes
    <3>2. QED
      BY Zenon, <3>1, BumpedInv
  <2>3. CASE ~(max_rowid = cur[c])
    <3> USE <2>1, <2>3 DEF AllocStep, tableVars
    <3>1. RowidTypes'
      <4>1. at' \in [Conn -> Places]
        BY Zenon DEF RowidTypes, Places
      <4>2. cur' \in [Conn -> Int]
        BY Zenon DEF RowidTypes
      <4>3. UNCHANGED <<alloc_lock, max_rowid, initialized, given, arg, tableVars>>
        OBVIOUS
      <4>4. QED
        BY Zenon, <4>1, <4>2, <4>3 DEF RowidTypes
    <3>2. LockRules'
      BY Zenon DEF LockRules, RowidTypes
    <3>3. \A d \in Conn : at'[d] \in {"seed", "seeded"} => at'[d] = at[d]
      BY Zenon DEF RowidTypes
    <3>4. UNCHANGED <<max_rowid, initialized, given, stored, inserted, blind, arg>>
      OBVIOUS
    <3>5. CounterCovers' /\ RowidsIncrease'
      BY Zenon, <3>3, <3>4, CoversFrame
    <3>6. QED
      BY Zenon, <3>1, <3>2, <3>5
  <2>4. QED
    BY Zenon, <2>2, <2>3
<1>12. ASSUME NEW c \in Conn, DeleteStored(c) PROVE RowidInv'
  <2> USE <1>12 DEF DeleteStored
  <2>1. RowidTypes'
    BY DEF RowidTypes, Places
  <2>2. LockRules'
    BY Zenon DEF LockRules, RowidTypes
  <2>3. CounterCovers' /\ RowidsIncrease'
    BY Zenon DEF CounterCovers, RowidsIncrease, RowidTypes
  <2>4. QED
    BY Zenon, <2>1, <2>2, <2>3
<1>13. ASSUME NEW c \in Conn, CommitDeletes(c) PROVE RowidInv'
  <2> USE <1>13 DEF CommitDeletes
  <2>1. RowidTypes'
    BY Zenon DEF RowidTypes, Places
  <2>2. LockRules'
    BY Zenon DEF LockRules, RowidTypes
  <2>3. CounterCovers' /\ RowidsIncrease'
    BY Zenon DEF CounterCovers, RowidsIncrease, RowidTypes
  <2>4. QED
    BY Zenon, <2>1, <2>2, <2>3
<1>14. ASSUME NEW c \in Conn, Restore(c) PROVE RowidInv'
  BY Zenon, <1>9, <1>14 DEF Restore, RowidTypes
<1>15. QED
  BY Zenon, <1>1, <1>2, <1>3, <1>4, <1>5, <1>6, <1>7, <1>8, <1>9, <1>10, <1>11, <1>12, <1>13, <1>14
     DEF RowidNext

(* The counter of a table hands out increasing rowids, whatever connections    *)
(* there are and whatever rows they insert, delete and restore meanwhile.      *)
THEOREM RowidsIncreaseAlways == RowidSpec => []RowidsIncrease
<1>1. RowidInv => RowidsIncrease
  BY Zenon DEF RowidInv
<1>2. QED
  BY <1>1, RowidInitInv, RowidNextInv, PTL DEF RowidSpec

(* A rowid that the compare-and-swap of get_next_rowid hands out is above all  *)
(* tracked rows and all rowids handed out before.                              *)
THEOREM RowidIsFreshAlways == RowidSpec => RowidIsFresh
<1>1. ASSUME RowidInv, NEW c \in Conn, given' # given, Swap(c),
         NEW r \in Tracked \cup {given[i] : i \in 1..Len(given)}
      PROVE r < cur[c] + 1
  <2>1. max_rowid = cur[c] /\ max_rowid \in Int /\ initialized
    BY Zenon, <1>1 DEF Swap, RowidInv, LockRules, RowidTypes
  <2>2. r \in Int /\ r <= max_rowid
    BY <1>1, <2>1 DEF Tracked, RowidInv, CounterCovers, RowidTypes
  <2>3. QED
    BY <2>1, <2>2
<1>2. RowidInv /\ [RowidNext]_rowidVars
        => [\A c \in Conn : given' # given /\ Swap(c) =>
              \A r \in Tracked \cup {given[i] : i \in 1..Len(given)} : r < cur[c] + 1]_rowidVars
  BY Zenon, <1>1
<1>3. QED
  BY <1>2, RowidInitInv, RowidNextInv, PTL DEF RowidSpec, RowidIsFresh
=============================================================================
