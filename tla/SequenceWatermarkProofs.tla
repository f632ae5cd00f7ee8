----------------------- MODULE SequenceWatermarkProofs -----------------------
(* Proofs about SequenceWatermark, for any transactions and any number of ids. *)
EXTENDS SequenceWatermark, TLAPS

Steps == {"idle", "retry", "register", "commit", "tested", "publish", "track", "tracked",
          "insert", "ending"}
Lives == {"unborn", "concurrent", "acquiring", "exclusive", "committed", "aborted"}

SeqTypes ==
  /\ last_value \in Nat /\ published \in Nat /\ sequence_watermarks \in Nat
  /\ seen \in [STx -> Nat] /\ own \in [STx -> Nat] /\ value \in [STx -> Nat]
  /\ sequence_allocations \in [STx -> Nat]
  /\ life \in [STx -> Lives] /\ step \in [STx -> Steps]
  /\ rows \in [STx -> SUBSET Nat]
  /\ exclusive_holder \in STx \cup {NO_EXCLUSIVE_TX}
  /\ push \in {"idle", "locked", "scan"} /\ bound \in Nat /\ cursor \in Nat
  /\ undone \in BOOLEAN

(* The ids of t: of its rows, and the one its statement has drawn for good *)
Drawn(t) == step[t] \in {"publish", "track", "tracked", "insert"}
Held(t) == rows[t] \cup {v \in {value[t]} : Drawn(t)}

LifeRules ==
  \A t \in STx :
    /\ life[t] = "exclusive" <=> exclusive_holder = t
    /\ step[t] # "idle" => Running(t)
    /\ step[t] \notin {"idle", "ending"} => value[t] > 0
    /\ life[t] = "exclusive" =>
         step[t] \notin {"retry", "register", "commit", "tested", "publish"}
    /\ life[t] # "exclusive" => own[t] = 0
    /\ life[t] \in {"unborn", "acquiring", "aborted"} => rows[t] = {}

(* Only the exclusive transaction has ids that the backing table has not, and  *)
(* only when it has missed a commit may it share one.                          *)
IdRules ==
  \A t \in STx :
    /\ seen[t] <= last_value
    /\ life[t] # "exclusive" => \A r \in Held(t) : r <= last_value
    /\ life[t] = "exclusive" => \A r \in Held(t) : r > seen[t]
    /\ life[t] = "exclusive" => \A r \in rows[t] : r <= own[t]
    /\ life[t] = "exclusive" /\ Drawn(t) => value[t] > own[t]
    /\ life[t] = "exclusive" => own[t] = 0 \/ own[t] > seen[t]
    /\ \A u \in STx : u # t => Held(t) \cap Held(u) = {} \/ Superseded(t) \/ Superseded(u)

IdInv == SeqTypes /\ LifeRules /\ IdRules

(* Rows are inserted after the commit of their id is in last_committed_tx_ts,   *)
(* so an exclusive transaction sees the ids of all that commits beside it.     *)
SnapshotRules ==
  /\ published <= last_value
  /\ \A t \in STx :
       /\ life[t] # "exclusive" => \A r \in rows[t] : r <= published
       /\ life[t] # "exclusive" /\ Drawn(t) /\ step[t] # "publish" => value[t] <= published
       /\ life[t] = "exclusive" =>
            \A u \in STx : u # t /\ (life[u] = "committed" \/ step[u] = "ending") =>
              \A r \in rows[u] : r <= seen[t]

(* An id is registered before its commit, and in any case before its row. *)
AllocationRules ==
  \A t \in STx :
    /\ Running(t) =>
         \A r \in rows[t] : sequence_allocations[t] # None /\ sequence_allocations[t] <= r
    /\ \/ step[t] = "insert"
       \/ life[t] = "concurrent" /\ (step[t] \in {"commit", "tested"} \/ Drawn(t))
       => sequence_allocations[t] # None /\ sequence_allocations[t] <= value[t]

(* The exclusive transaction has put an id of its own below the watermark. *)
Announced(e) ==
  life[e] = "exclusive" /\ (own[e] # 0 \/ step[e] \in {"tracked", "insert"})

(* n is at most the next id, or the next id of the exclusive transaction. *)
Reached(n) ==
  \/ n <= last_value + 1
  \/ \E e \in STx :
       /\ Announced(e)
       /\ n <= own[e] + 1 \/ (step[e] \in {"tracked", "insert"} /\ n <= value[e] + 1)

MarkRules == Reached(sequence_watermarks) /\ (push = "scan" => Reached(bound))

(* The push does not reach r, or an exclusive transaction has missed the commit *)
(* of r: the one that has r commits after the other has rolled back.           *)
Beyond(r) == bound <= r \/ \E e \in STx : Announced(e) /\ seen[e] < r

(* What the push loop has read stays below all that can still commit. *)
PushRules ==
  /\ cursor <= published
  /\ \A t \in STx : life[t] = "exclusive" => cursor <= seen[t]
  /\ \A t \in STx : Running(t) => \A r \in Held(t) : r > cursor
  /\ push = "locked" =>
       \A t \in STx : life[t] = "concurrent" =>
         \A r \in Held(t) \cup {v \in {value[t]} : step[t] \in {"commit", "tested"}} :
           bound # None /\ bound <= r
  /\ push = "scan" =>
       \A t \in STx : life[t] = "concurrent" => \A r \in Held(t) : Beyond(r)

PushInv == SnapshotRules /\ AllocationRules /\ MarkRules /\ PushRules /\ PushMissesNothing

(* A new sequence has no ids. *)
LEMMA IdInitInv == SequenceInit => IdInv
<1> SUFFICES ASSUME SequenceInit PROVE IdInv
  OBVIOUS
<1>1. SeqTypes /\ LifeRules
  BY SequenceAssumption DEF SequenceAssumption, SequenceInit, SeqTypes, LifeRules, Running, None,
     Steps, Lives
<1>2. \A t \in STx : Held(t) = {} /\ life[t] # "exclusive" /\ seen[t] = last_value
  BY Zenon DEF SequenceInit, Held, Drawn
<1>3. last_value <= last_value
  BY <1>1 DEF SeqTypes
<1>4. IdRules
  BY Zenon, <1>2, <1>3 DEF IdRules
<1>5. QED
  BY Zenon, <1>1, <1>4 DEF IdInv

(* A step that draws no id keeps them. *)
LEMMA IdFrame ==
  ASSUME IdRules, UNCHANGED <<last_value, own, value, rows>>,
         \A u \in STx :
           /\ Drawn(u)' <=> Drawn(u)
           /\ life'[u] = "exclusive" <=> life[u] = "exclusive"
           /\ seen'[u] = seen[u] \/ (seen'[u] <= last_value /\ life[u] # "exclusive")
  PROVE  IdRules'
<1>1. \A u \in STx : Held(u)' = Held(u) /\ (Superseded(u)' <=> Superseded(u))
  BY Zenon DEF Held, Superseded
<1>2. QED
  BY Zenon, <1>1 DEF IdRules

(* Every step of nextval keeps the rules about ids. *)
LEMMA IdNextvalInv ==
  ASSUME IdInv, NEW t \in STx, NextvalStep(t), UNCHANGED pushVars
  PROVE  IdInv'
<1> USE SequenceAssumption DEF SequenceAssumption, IdInv, pushVars, valueVars, trackVars, None
<1>1. CASE BeginConcurrent(t)
  <2> USE <1>1 DEF BeginConcurrent
  <2>1. SeqTypes'
    BY Zenon DEF SeqTypes, Steps, Lives
  <2>2. LifeRules'
    BY Zenon DEF LifeRules, SeqTypes, Running
  <2>3. IdRules'
    <3>1. \A u \in STx :
            /\ Drawn(u)' <=> Drawn(u)
            /\ life'[u] = "exclusive" <=> life[u] = "exclusive"
            /\ seen'[u] = seen[u] \/ (seen'[u] <= last_value /\ life[u] # "exclusive")
      BY Zenon DEF Drawn, SeqTypes
    <3>2. QED
      BY Zenon, <3>1, IdFrame
  <2>4. QED
    BY Zenon, <2>1, <2>2, <2>3
<1>2. CASE StartExclusive(t)
  <2> USE <1>2 DEF StartExclusive
  <2>1. SeqTypes'
    BY Zenon DEF SeqTypes, Steps, Lives
  <2>2. LifeRules'
    BY Zenon DEF LifeRules, SeqTypes, Running
  <2>3. IdRules'
    <3>1. \A u \in STx :
            /\ Drawn(u)' <=> Drawn(u)
            /\ life'[u] = "exclusive" <=> life[u] = "exclusive"
            /\ seen'[u] = seen[u] \/ (seen'[u] <= last_value /\ life[u] # "exclusive")
      BY DEF Drawn, SeqTypes
    <3>2. QED
      BY Zenon, <3>1, IdFrame
  <2>4. QED
    BY Zenon, <2>1, <2>2, <2>3
<1>3. CASE AcquireExclusive(t)
  <2> USE <1>3 DEF AcquireExclusive
  <2>1. SeqTypes'
    BY Zenon DEF SeqTypes, Steps, Lives
  <2>2. LifeRules'
    BY Zenon DEF LifeRules, SeqTypes, Running
  <2>3. IdRules'
    BY DEF IdRules, LifeRules, SeqTypes, Running, Held, Drawn, Superseded
  <2>4. QED
    BY Zenon, <2>1, <2>2, <2>3
<1>4. CASE RefuseExclusive(t)
  <2> USE <1>4 DEF RefuseExclusive
  <2>1. SeqTypes'
    BY Zenon DEF SeqTypes, Steps, Lives
  <2>2. LifeRules'
    BY Zenon DEF LifeRules, SeqTypes, Running
  <2>3. IdRules'
    <3>1. \A u \in STx :
            /\ Drawn(u)' <=> Drawn(u)
            /\ life'[u] = "exclusive" <=> life[u] = "exclusive"
            /\ seen'[u] = seen[u] \/ (seen'[u] <= last_value /\ life[u] # "exclusive")
      BY DEF Drawn, SeqTypes
    <3>2. QED
      BY Zenon, <3>1, IdFrame
  <2>4. QED
    BY Zenon, <2>1, <2>2, <2>3
<1>5. CASE ComputeNext(t)
  <2> USE <1>5 DEF ComputeNext
  <2>1. SeqTypes'
    BY DEF NextValue, Later, SeqTypes, Steps, Lives
  <2>2. LifeRules'
    BY DEF NextValue, Later, LifeRules, SeqTypes, Running
  <2>3. IdRules'
    <3>1. /\ \A u \in STx : u # t => Held(u)' = Held(u) /\ (Drawn(u)' <=> Drawn(u))
          /\ \A u \in STx : Superseded(u)' <=> Superseded(u)
          /\ Held(t) = rows[t]
          /\ Held(t)' = rows[t] \cup {v \in {NextValue(t)} : life[t] = "exclusive"}
          /\ Drawn(t)' <=> life[t] = "exclusive"
      BY Zenon DEF Held, Drawn, SeqTypes, Running, Superseded
    <3>2. /\ NextValue(t) \in Nat
          /\ life[t] = "exclusive" => NextValue(t) > seen[t] /\ NextValue(t) > own[t]
      BY DEF NextValue, Later, SeqTypes
    <3>3. ASSUME NEW u \in STx, u # t
          PROVE  Held(t)' \cap Held(u)' = {} \/ Superseded(t)' \/ Superseded(u)'
      <4>1. CASE life[t] # "exclusive"
        BY Zenon, <3>1, <3>3, <4>1 DEF IdRules
      <4>2. CASE life[t] = "exclusive"
        <5>1. life[u] # "exclusive" /\ \A r \in Held(u) : r <= last_value
          BY Zenon, <3>3, <4>2 DEF LifeRules, IdRules
        <5>2. CASE seen[t] < last_value
          BY Zenon, <3>1, <4>2, <5>2 DEF Superseded
        <5>3. CASE seen[t] = last_value
          <6>1. NextValue(t) \notin Held(u)
            BY <3>2, <4>2, <5>1, <5>3 DEF SeqTypes
          <6>2. QED
            BY Zenon, <3>1, <3>3, <6>1 DEF IdRules
        <5>4. QED
          BY <5>2, <5>3 DEF IdRules, SeqTypes
      <4>3. QED
        BY Zenon, <4>1, <4>2
    <3>4. value'[t] = NextValue(t) /\ \A u \in STx : u # t => value'[u] = value[u]
      BY Zenon DEF SeqTypes
    <3>5. ASSUME NEW u \in STx
          PROVE  /\ life[u] # "exclusive" => \A r \in Held(u)' : r <= last_value
                 /\ life[u] = "exclusive" => \A r \in Held(u)' : r > seen[u]
                 /\ life[u] = "exclusive" /\ Drawn(u)' => value'[u] > own[u]
      <4>1. CASE u = t
        BY Zenon, <3>1, <3>2, <3>4, <4>1 DEF IdRules
      <4>2. CASE u # t
        BY Zenon, <3>1, <3>4, <4>2 DEF IdRules
      <4>3. QED
        BY Zenon, <4>1, <4>2
    <3>6. ASSUME NEW u \in STx, NEW w \in STx, w # u
          PROVE  Held(u)' \cap Held(w)' = {} \/ Superseded(u)' \/ Superseded(w)'
      <4>1. CASE u = t
        BY Zenon, <3>3, <3>6, <4>1
      <4>2. CASE w = t
        BY Zenon, <3>3, <3>6, <4>2
      <4>3. CASE u # t /\ w # t
        BY Zenon, <3>1, <3>6, <4>3 DEF IdRules
      <4>4. QED
        BY Zenon, <4>1, <4>2, <4>3
    <3>7. QED
      BY Zenon, <3>5, <3>6 DEF IdRules
  <2>4. QED
    BY Zenon, <2>1, <2>2, <2>3
<1>6. CASE RegisterOuter(t)
  <2> USE <1>6 DEF RegisterOuter, Register, Registered
  <2>1. SeqTypes'
    BY Zenon DEF SeqTypes, Steps, Lives
  <2>2. LifeRules'
    BY Zenon DEF LifeRules, SeqTypes, Running
  <2>3. IdRules'
    <3>1. \A u \in STx :
            /\ Drawn(u)' <=> Drawn(u)
            /\ life'[u] = "exclusive" <=> life[u] = "exclusive"
            /\ seen'[u] = seen[u] \/ (seen'[u] <= last_value /\ life[u] # "exclusive")
      BY Zenon DEF Drawn, SeqTypes
    <3>2. QED
      BY Zenon, <3>1, IdFrame
  <2>4. QED
    BY Zenon, <2>1, <2>2, <2>3
<1>7. CASE CheckExclusive(t)
  <2> USE <1>7 DEF CheckExclusive
  <2>1. SeqTypes'
    BY Zenon DEF SeqTypes, Steps, Lives
  <2>2. LifeRules'
    BY Zenon DEF LifeRules, SeqTypes, Running
  <2>3. IdRules'
    <3>1. \A u \in STx :
            /\ Drawn(u)' <=> Drawn(u)
            /\ life'[u] = "exclusive" <=> life[u] = "exclusive"
            /\ seen'[u] = seen[u] \/ (seen'[u] <= last_value /\ life[u] # "exclusive")
      BY Zenon DEF Drawn, SeqTypes
    <3>2. QED
      BY Zenon, <3>1, IdFrame
  <2>4. QED
    BY Zenon, <2>1, <2>2, <2>3
<1>8. CASE CommitInner(t)
  <2> USE <1>8 DEF CommitInner, KeyIsFree
  <2>1. SeqTypes'
    BY Zenon DEF SeqTypes, Steps, Lives
  <2>2. LifeRules'
    BY Zenon DEF LifeRules, SeqTypes, Running
  <2>3. IdRules'
    BY DEF IdRules, LifeRules, SeqTypes, Running, Held, Drawn, Superseded
  <2>4. QED
    BY Zenon, <2>1, <2>2, <2>3
<1>9. CASE CommitConflict(t)
  <2> USE <1>9 DEF CommitConflict
  <2>1. SeqTypes'
    BY Zenon DEF SeqTypes, Steps, Lives
  <2>2. LifeRules'
    BY Zenon DEF LifeRules, SeqTypes, Running
  <2>3. IdRules'
    <3>1. \A u \in STx :
            /\ Drawn(u)' <=> Drawn(u)
            /\ life'[u] = "exclusive" <=> life[u] = "exclusive"
            /\ seen'[u] = seen[u] \/ (seen'[u] <= last_value /\ life[u] # "exclusive")
      BY Zenon DEF Drawn, SeqTypes
    <3>2. QED
      BY Zenon, <3>1, IdFrame
  <2>4. QED
    BY Zenon, <2>1, <2>2, <2>3
<1>10. CASE PublishInner(t)
  <2> USE <1>10 DEF PublishInner, Later
  <2>1. SeqTypes'
    BY Zenon DEF SeqTypes, Steps, Lives
  <2>2. LifeRules'
    BY Zenon DEF LifeRules, SeqTypes, Running
  <2>3. IdRules'
    <3>1. \A u \in STx :
            /\ Drawn(u)' <=> Drawn(u)
            /\ life'[u] = "exclusive" <=> life[u] = "exclusive"
            /\ seen'[u] = seen[u] \/ (seen'[u] <= last_value /\ life[u] # "exclusive")
      BY Zenon DEF Drawn, SeqTypes
    <3>2. QED
      BY Zenon, <3>1, IdFrame
  <2>4. QED
    BY Zenon, <2>1, <2>2, <2>3
<1>11. CASE TrackWatermark(t)
  <2> USE <1>11 DEF TrackWatermark
  <2>1. SeqTypes'
    BY DEF SeqTypes, Steps, Lives
  <2>2. LifeRules'
    BY Zenon DEF LifeRules, SeqTypes, Running
  <2>3. IdRules'
    <3>1. \A u \in STx :
            /\ Drawn(u)' <=> Drawn(u)
            /\ life'[u] = "exclusive" <=> life[u] = "exclusive"
            /\ seen'[u] = seen[u] \/ (seen'[u] <= last_value /\ life[u] # "exclusive")
      BY Zenon DEF Drawn, SeqTypes
    <3>2. QED
      BY Zenon, <3>1, IdFrame
  <2>4. QED
    BY Zenon, <2>1, <2>2, <2>3
<1>12. CASE TrackAllocation(t)
  <2> USE <1>12 DEF TrackAllocation, Register, Registered
  <2>1. SeqTypes'
    BY Zenon DEF SeqTypes, Steps, Lives
  <2>2. LifeRules'
    BY Zenon DEF LifeRules, SeqTypes, Running
  <2>3. IdRules'
    <3>1. \A u \in STx :
            /\ Drawn(u)' <=> Drawn(u)
            /\ life'[u] = "exclusive" <=> life[u] = "exclusive"
            /\ seen'[u] = seen[u] \/ (seen'[u] <= last_value /\ life[u] # "exclusive")
      BY Zenon DEF Drawn, SeqTypes
    <3>2. QED
      BY Zenon, <3>1, IdFrame
  <2>4. QED
    BY Zenon, <2>1, <2>2, <2>3
<1>13. ASSUME NEW kept \in BOOLEAN, EndStatement(t, kept) PROVE IdInv'
  <2> USE <1>13 DEF EndStatement
  <2>1. SeqTypes'
    BY Zenon DEF SeqTypes, Steps, Lives
  <2>2. LifeRules'
    BY Zenon DEF LifeRules, SeqTypes, Running
  <2>3. IdRules'
    <3>1. \A u \in STx :
            /\ Held(u)' \subseteq Held(u)
            /\ Superseded(u)' <=> Superseded(u)
            /\ u # t => rows'[u] = rows[u] /\ own'[u] = own[u] /\ value'[u] = value[u]
                       /\ (Drawn(u)' <=> Drawn(u))
      BY Zenon DEF Held, Drawn, Superseded, SeqTypes
    <3>2. /\ ~Drawn(t)' /\ Drawn(t) /\ value[t] \in Held(t)
          /\ rows'[t] \subseteq rows[t] \cup {value[t]}
          /\ own'[t] = IF life[t] = "exclusive" THEN value[t] ELSE own[t]
      BY Zenon DEF Held, Drawn, SeqTypes
    <3>3. life[t] = "exclusive" => \A r \in rows'[t] : r <= own'[t]
      BY <3>2 DEF IdRules, SeqTypes
    <3>4. life[t] = "exclusive" => own'[t] > seen[t]
      BY Zenon, <3>2 DEF IdRules
    <3>5. QED
      BY Zenon, <3>1, <3>2, <3>3, <3>4 DEF IdRules
  <2>4. QED
    BY Zenon, <2>1, <2>2, <2>3
<1>14. CASE FailStatement(t)
  <2> USE <1>14 DEF FailStatement
  <2>1. SeqTypes'
    BY Zenon DEF SeqTypes, Steps, Lives
  <2>2. LifeRules'
    BY Zenon DEF LifeRules, SeqTypes, Running
  <2>3. IdRules'
    BY DEF IdRules, LifeRules, SeqTypes, Running, Held, Drawn, Superseded
  <2>4. QED
    BY Zenon, <2>1, <2>2, <2>3
<1>15. CASE CommitOuter(t)
  <2> USE <1>15 DEF CommitOuter, End, KeyIsFree, Later
  <2>1. SeqTypes'
    BY Zenon DEF SeqTypes, Steps, Lives
  <2>2. LifeRules'
    BY Zenon DEF LifeRules, SeqTypes, Running
  <2>3. IdRules'
    BY DEF IdRules, LifeRules, SeqTypes, Running, Held, Drawn, Superseded
  <2>4. QED
    BY Zenon, <2>1, <2>2, <2>3
<1>16. CASE RollbackOuter(t)
  <2> USE <1>16 DEF RollbackOuter, End
  <2>1. SeqTypes'
    BY Zenon DEF SeqTypes, Steps, Lives
  <2>2. LifeRules'
    BY Zenon DEF LifeRules, SeqTypes, Running
  <2>3. IdRules'
    BY DEF IdRules, LifeRules, SeqTypes, Running, Held, Drawn, Superseded
  <2>4. QED
    BY Zenon, <2>1, <2>2, <2>3
<1>17. QED
  BY Zenon, <1>1, <1>2, <1>3, <1>4, <1>5, <1>6, <1>7, <1>8, <1>9, <1>10, <1>11, <1>12,
     <1>13, <1>14, <1>15, <1>16 DEF NextvalStep

(* The push loop does not touch the sequence. *)
LEMMA IdNextInv == IdInv /\ [SequenceNext]_seqVars => IdInv'
<1> SUFFICES ASSUME IdInv, [SequenceNext]_seqVars PROVE IdInv'
  OBVIOUS
<1>1. ASSUME UNCHANGED nextvalVars,
             push' \in {"idle", "locked", "scan"}, bound' \in Nat, cursor' \in Nat
      PROVE  IdInv'
  <2>1. LifeRules' /\ SeqTypes'
    BY Zenon, <1>1 DEF IdInv, nextvalVars, valueVars, trackVars, LifeRules, SeqTypes, Running
  <2>2. IdRules'
    BY Zenon, <1>1, IdFrame DEF IdInv, nextvalVars, valueVars, trackVars, Drawn
  <2>3. QED
    BY Zenon, <2>1, <2>2 DEF IdInv
<1>2. CASE UNCHANGED seqVars
  BY Zenon, <1>1, <1>2 DEF seqVars, pushVars, IdInv, SeqTypes
<1>3. CASE ReadAllocations
  BY <1>1, <1>3 DEF ReadAllocations, Allocated, None, IdInv, SeqTypes
<1>4. CASE ReadWatermark
  BY Zenon, <1>1, <1>4 DEF ReadWatermark, IdInv, SeqTypes
<1>5. CASE PushBatch
  BY Zenon, <1>1, <1>5 DEF PushBatch, Changes, Committed, IdInv, SeqTypes
<1>6. CASE PushEnd
  BY Zenon, <1>1, <1>6 DEF PushEnd, None, IdInv, SeqTypes
<1>7. QED
  BY Zenon, <1>2, <1>3, <1>4, <1>5, <1>6, IdNextvalInv DEF SequenceNext

(* No id is in two transactions, but for the id of a commit that an exclusive  *)
(* transaction has missed, however nextval, conflicts, rollbacks and exclusive *)
(* transactions interleave (op_sequence_commit_inner_tx,                       *)
(* check_version_conflicts).                                                   *)
THEOREM IdsAreUniqueAlways == SequenceSpec => []IdsAreUnique
<1>1. IdInv => IdsAreUnique
  BY Zenon DEF IdInv, IdRules, Held, IdsAreUnique
<1>2. QED
  BY <1>1, IdInitInv, IdNextInv, PTL DEF SequenceSpec

-----------------------------------------------------------------------------
(* Nothing is sent from a new sequence. *)
LEMMA PushInitInv == SequenceInit => PushInv
BY SequenceAssumption DEF SequenceAssumption, SequenceInit, PushInv, SnapshotRules, AllocationRules,
   MarkRules, PushRules, PushMissesNothing, Reached, Committed, Held, Drawn, Running, None

(* A step that gives no transaction an id keeps the push loop below them. *)
LEMMA PushFrame ==
  ASSUME PushRules, UNCHANGED <<push, bound, cursor>>,
         cursor <= published', \A u \in STx : life'[u] = "exclusive" => cursor <= seen'[u],
         \A u \in STx : Announced(u) => Announced(u)' /\ seen'[u] = seen[u],
         \A u \in STx :
           /\ Held(u)' \subseteq Held(u)
           /\ Running(u)' => Running(u)
           /\ life'[u] = "concurrent" => life[u] = "concurrent"
           /\ step'[u] \in {"commit", "tested"} =>
                step[u] \in {"commit", "tested"} /\ value'[u] = value[u]
  PROVE  PushRules'
<1>1. \A r : Beyond(r) => Beyond(r)'
  BY Zenon DEF Beyond
<1>2. \A u \in STx : Running(u)' => \A r \in Held(u)' : r > cursor'
  BY Zenon DEF PushRules
<1>3. push' = "scan" =>
        \A u \in STx : life'[u] = "concurrent" => \A r \in Held(u)' : Beyond(r)'
  BY Zenon, <1>1 DEF PushRules
<1>4. push' = "locked" =>
        \A u \in STx : life'[u] = "concurrent" =>
          \A r \in Held(u)' \cup {v \in {value'[u]} : step'[u] \in {"commit", "tested"}} :
            bound' # None /\ bound' <= r
  BY Zenon DEF PushRules
<1>5. QED
  BY Zenon, <1>2, <1>3, <1>4 DEF PushRules

(* Every step of nextval keeps the rules of the push loop, as long as an       *)
(* exclusive transaction takes back no id that it has announced.               *)
LEMMA PushNextvalInv ==
  ASSUME ~undone', IdInv, PushInv, NEW t \in STx, NextvalStep(t), UNCHANGED pushVars
  PROVE  PushInv'
<1> USE SequenceAssumption
    DEF SequenceAssumption, PushInv, IdInv, pushVars, valueVars, trackVars, None
<1>1. CASE BeginConcurrent(t)
  <2> USE <1>1 DEF BeginConcurrent
  <2>1. SnapshotRules'
    BY Zenon DEF SnapshotRules, LifeRules, IdRules, SeqTypes, Running, Held, Drawn
  <2>2. AllocationRules'
    BY Zenon DEF AllocationRules, LifeRules, SeqTypes, Running, Drawn
  <2>3. MarkRules'
    BY Zenon DEF MarkRules, Reached, Announced, LifeRules, SeqTypes
  <2>4. PushRules'
    BY DEF PushRules, SnapshotRules, Beyond, Announced, LifeRules, IdRules, SeqTypes, Running,
       Held, Drawn
  <2>5. PushMissesNothing'
    BY DEF PushMissesNothing, PushRules, Committed, LifeRules, SeqTypes, Running, Held
  <2>6. QED
    BY Zenon, <2>1, <2>2, <2>3, <2>4, <2>5
<1>2. CASE StartExclusive(t)
  <2> USE <1>2 DEF StartExclusive
  <2>1. SnapshotRules'
    BY Zenon DEF SnapshotRules, LifeRules, IdRules, SeqTypes, Running, Held, Drawn
  <2>2. AllocationRules'
    BY Zenon DEF AllocationRules, LifeRules, SeqTypes, Running, Drawn
  <2>3. MarkRules'
    BY Zenon DEF MarkRules, Reached, Announced, LifeRules, SeqTypes
  <2>4. PushRules'
    BY DEF PushRules, SnapshotRules, Beyond, Announced, LifeRules, IdRules, SeqTypes, Running,
       Held, Drawn
  <2>5. PushMissesNothing'
    BY DEF PushMissesNothing, PushRules, Committed, LifeRules, SeqTypes, Running, Held
  <2>6. QED
    BY Zenon, <2>1, <2>2, <2>3, <2>4, <2>5
<1>3. CASE AcquireExclusive(t)
  <2> USE <1>3 DEF AcquireExclusive
  <2>1. SnapshotRules'
    BY DEF SnapshotRules, LifeRules, IdRules, SeqTypes, Running, Held, Drawn
  <2>2. AllocationRules'
    BY Zenon DEF AllocationRules, LifeRules, SeqTypes, Running, Drawn
  <2>3. MarkRules'
    BY Zenon DEF MarkRules, Reached, Announced, LifeRules, SeqTypes
  <2>4. PushRules'
    BY DEF PushRules, SnapshotRules, Beyond, Announced, LifeRules, IdRules, SeqTypes, Running,
       Held, Drawn
  <2>5. PushMissesNothing'
    BY DEF PushMissesNothing, PushRules, Committed, LifeRules, SeqTypes, Running, Held
  <2>6. QED
    BY Zenon, <2>1, <2>2, <2>3, <2>4, <2>5
<1>4. CASE RefuseExclusive(t)
  <2> USE <1>4 DEF RefuseExclusive
  <2>1. SnapshotRules'
    BY Zenon DEF SnapshotRules, LifeRules, IdRules, SeqTypes, Running, Held, Drawn
  <2>2. AllocationRules'
    BY Zenon DEF AllocationRules, LifeRules, SeqTypes, Running, Drawn
  <2>3. MarkRules'
    BY Zenon DEF MarkRules, Reached, Announced, LifeRules, SeqTypes
  <2>4. PushRules'
    <3>1. \A u \in STx :
            /\ Held(u)' \subseteq Held(u)
            /\ Running(u)' => Running(u)
            /\ life'[u] = "concurrent" => life[u] = "concurrent"
            /\ step'[u] \in {"commit", "tested"} =>
                 step[u] \in {"commit", "tested"} /\ value'[u] = value[u]
      BY Zenon DEF Held, Drawn, Running, SeqTypes
    <3>2. \A u \in STx : Announced(u) => Announced(u)' /\ seen'[u] = seen[u]
      BY Zenon DEF Announced, SeqTypes, LifeRules
    <3>3. cursor <= published' /\ \A u \in STx : life'[u] = "exclusive" => cursor <= seen'[u]
      BY Zenon DEF PushRules, SeqTypes
    <3>4. QED
      BY Zenon, <3>1, <3>2, <3>3, PushFrame
  <2>5. PushMissesNothing'
    BY DEF PushMissesNothing, PushRules, Committed, LifeRules, SeqTypes, Running, Held
  <2>6. QED
    BY Zenon, <2>1, <2>2, <2>3, <2>4, <2>5
<1>5. CASE ComputeNext(t)
  <2> USE <1>5 DEF ComputeNext, NextValue, Later
  <2>1. SnapshotRules'
    BY Zenon DEF SnapshotRules, LifeRules, IdRules, SeqTypes, Running, Held, Drawn
  <2>2. AllocationRules'
    BY Zenon DEF AllocationRules, LifeRules, SeqTypes, Running, Drawn
  <2>3. MarkRules'
    BY DEF MarkRules, Reached, Announced, LifeRules, SeqTypes
  <2>4. PushRules'
    BY DEF PushRules, SnapshotRules, Beyond, Announced, LifeRules, IdRules, SeqTypes, Running,
       Held, Drawn
  <2>5. PushMissesNothing'
    BY DEF PushMissesNothing, PushRules, Committed, LifeRules, SeqTypes, Running, Held
  <2>6. QED
    BY Zenon, <2>1, <2>2, <2>3, <2>4, <2>5
<1>6. CASE RegisterOuter(t)
  <2> USE <1>6 DEF RegisterOuter, Register, Registered
  <2>1. SnapshotRules'
    BY Zenon DEF SnapshotRules, LifeRules, IdRules, SeqTypes, Running, Held, Drawn
  <2>2. AllocationRules'
    <3>1. /\ sequence_allocations'[t] # None /\ sequence_allocations'[t] <= value[t]
          /\ sequence_allocations[t] # None
               => sequence_allocations'[t] <= sequence_allocations[t]
      BY DEF LifeRules, SeqTypes
    <3>2. \A u \in STx : u # t => /\ sequence_allocations'[u] = sequence_allocations[u]
                                  /\ step'[u] = step[u]
      BY Zenon DEF SeqTypes
    <3>3. ASSUME NEW u \in STx, Running(u), NEW r \in rows[u]
          PROVE  sequence_allocations'[u] # None /\ sequence_allocations'[u] <= r
      BY <3>1, <3>2, <3>3 DEF AllocationRules, SeqTypes
    <3>4. QED
      BY Zenon, <3>1, <3>2, <3>3 DEF AllocationRules, SeqTypes, Running, Drawn
  <2>3. MarkRules'
    BY Zenon DEF MarkRules, Reached, Announced, LifeRules, SeqTypes
  <2>4. PushRules'
    BY DEF PushRules, SnapshotRules, Beyond, Announced, LifeRules, IdRules, SeqTypes, Running,
       Held, Drawn
  <2>5. PushMissesNothing'
    BY DEF PushMissesNothing, PushRules, Committed, LifeRules, SeqTypes, Running, Held
  <2>6. QED
    BY Zenon, <2>1, <2>2, <2>3, <2>4, <2>5
<1>7. CASE CheckExclusive(t)
  <2> USE <1>7 DEF CheckExclusive
  <2>1. SnapshotRules'
    <3>1. \A u \in STx : /\ Drawn(u)' <=> Drawn(u)
                         /\ u # t => step'[u] = step[u]
                         /\ Drawn(u) => step'[u] = step[u]
      BY Zenon DEF Drawn, SeqTypes
    <3>2. ASSUME NEW e \in STx, life[e] = "exclusive" PROVE t = e \/ step'[t] # "ending"
      BY Zenon, <3>2 DEF LifeRules
    <3>3. QED
      BY Zenon, <3>1, <3>2 DEF SnapshotRules
  <2>2. AllocationRules'
    BY Zenon DEF AllocationRules, LifeRules, SeqTypes, Running, Drawn
  <2>3. MarkRules'
    BY Zenon DEF MarkRules, Reached, Announced, LifeRules, SeqTypes
  <2>4. PushRules'
    <3>1. \A u \in STx :
            /\ Held(u)' \subseteq Held(u)
            /\ Running(u)' => Running(u)
            /\ life'[u] = "concurrent" => life[u] = "concurrent"
            /\ step'[u] \in {"commit", "tested"} =>
                 step[u] \in {"commit", "tested"} /\ value'[u] = value[u]
      BY Zenon DEF Held, Drawn, Running, SeqTypes
    <3>2. \A u \in STx : Announced(u) => Announced(u)' /\ seen'[u] = seen[u]
      BY Zenon DEF Announced, SeqTypes, LifeRules
    <3>3. cursor <= published' /\ \A u \in STx : life'[u] = "exclusive" => cursor <= seen'[u]
      BY Zenon DEF PushRules, SeqTypes
    <3>4. QED
      BY Zenon, <3>1, <3>2, <3>3, PushFrame
  <2>5. PushMissesNothing'
    BY DEF PushMissesNothing, PushRules, Committed, LifeRules, SeqTypes, Running, Held
  <2>6. QED
    BY Zenon, <2>1, <2>2, <2>3, <2>4, <2>5
<1>8. CASE CommitInner(t)
  <2> USE <1>8 DEF CommitInner, KeyIsFree
  <2>1. SnapshotRules'
    BY DEF SnapshotRules, LifeRules, IdRules, SeqTypes, Running, Held, Drawn
  <2>2. AllocationRules'
    BY Zenon DEF AllocationRules, LifeRules, SeqTypes, Running, Drawn
  <2>3. MarkRules'
    BY DEF MarkRules, Reached, Announced, LifeRules, SeqTypes
  <2>4. PushRules'
    <3>1. /\ Held(t)' = Held(t) \cup {value[t]} /\ life[t] = "concurrent"
          /\ \A u \in STx : Announced(u)' <=> Announced(u)
          /\ \A u \in STx : u # t => Held(u)' = Held(u) /\ step'[u] = step[u]
      BY Zenon DEF Held, Drawn, Announced, SeqTypes, LifeRules, Running
    <3>2. value[t] > cursor
      BY <3>1 DEF PushRules, SnapshotRules, SeqTypes
    <3>3. push = "locked" => bound # None /\ bound <= value[t]
      BY Zenon, <3>1 DEF PushRules
    <3>4. push = "scan" => Beyond(value[t])
      <4>1. CASE bound <= last_value + 1
        BY <3>1, <4>1 DEF Beyond, SeqTypes
      <4>2. CASE \E e \in STx : Announced(e)
        BY <3>1, <4>2 DEF Beyond, IdRules, SeqTypes
      <4>3. QED
        BY Zenon, <4>1, <4>2 DEF MarkRules, Reached
    <3>5. \A r : Beyond(r)' <=> Beyond(r)
      BY Zenon, <3>1 DEF Beyond
    <3>6. QED
      BY Zenon, <3>1, <3>2, <3>3, <3>4, <3>5 DEF PushRules, Running
  <2>5. PushMissesNothing'
    BY DEF PushMissesNothing, PushRules, Committed, LifeRules, SeqTypes, Running, Held
  <2>6. QED
    BY Zenon, <2>1, <2>2, <2>3, <2>4, <2>5
<1>9. CASE CommitConflict(t)
  <2> USE <1>9 DEF CommitConflict
  <2>1. SnapshotRules'
    BY Zenon DEF SnapshotRules, LifeRules, IdRules, SeqTypes, Running, Held, Drawn
  <2>2. AllocationRules'
    BY Zenon DEF AllocationRules, LifeRules, SeqTypes, Running, Drawn
  <2>3. MarkRules'
    BY Zenon DEF MarkRules, Reached, Announced, LifeRules, SeqTypes
  <2>4. PushRules'
    <3>1. \A u \in STx :
            /\ Held(u)' \subseteq Held(u)
            /\ Running(u)' => Running(u)
            /\ life'[u] = "concurrent" => life[u] = "concurrent"
            /\ step'[u] \in {"commit", "tested"} =>
                 step[u] \in {"commit", "tested"} /\ value'[u] = value[u]
      BY Zenon DEF Held, Drawn, Running, SeqTypes
    <3>2. \A u \in STx : Announced(u) => Announced(u)' /\ seen'[u] = seen[u]
      BY Zenon DEF Announced, SeqTypes, LifeRules
    <3>3. cursor <= published' /\ \A u \in STx : life'[u] = "exclusive" => cursor <= seen'[u]
      BY Zenon DEF PushRules, SeqTypes
    <3>4. QED
      BY Zenon, <3>1, <3>2, <3>3, PushFrame
  <2>5. PushMissesNothing'
    BY DEF PushMissesNothing, PushRules, Committed, LifeRules, SeqTypes, Running, Held
  <2>6. QED
    BY Zenon, <2>1, <2>2, <2>3, <2>4, <2>5
<1>10. CASE PublishInner(t)
  <2> USE <1>10 DEF PublishInner, Later
  <2>1. SnapshotRules'
    BY DEF SnapshotRules, LifeRules, IdRules, SeqTypes, Running, Held, Drawn
  <2>2. AllocationRules'
    BY Zenon DEF AllocationRules, LifeRules, SeqTypes, Running, Drawn
  <2>3. MarkRules'
    BY Zenon DEF MarkRules, Reached, Announced, LifeRules, SeqTypes
  <2>4. PushRules'
    BY DEF PushRules, SnapshotRules, Beyond, Announced, LifeRules, IdRules, SeqTypes, Running,
       Held, Drawn
  <2>5. PushMissesNothing'
    BY DEF PushMissesNothing, PushRules, Committed, LifeRules, SeqTypes, Running, Held
  <2>6. QED
    BY Zenon, <2>1, <2>2, <2>3, <2>4, <2>5
<1>11. CASE TrackWatermark(t)
  <2> USE <1>11 DEF TrackWatermark
  <2>1. SnapshotRules'
    BY Zenon DEF SnapshotRules, LifeRules, IdRules, SeqTypes, Running, Held, Drawn
  <2>2. AllocationRules'
    BY Zenon DEF AllocationRules, LifeRules, SeqTypes, Running, Drawn
  <2>3. MarkRules'
    <3>1. /\ Drawn(t) /\ value[t] \in Held(t) /\ step'[t] = "tracked"
          /\ \A u \in STx : u # t => step'[u] = step[u]
      BY Zenon DEF Drawn, Held, SeqTypes
    <3>2. Reached(value[t] + 1)'
      <4>1. CASE life[t] = "exclusive"
        BY <3>1, <4>1 DEF Reached, Announced, SeqTypes
      <4>2. CASE life[t] # "exclusive"
        BY <3>1, <4>2 DEF Reached, IdRules, SeqTypes
      <4>3. QED
        BY Zenon, <4>1, <4>2
    <3>3. \A n : Reached(n) => Reached(n)'
      BY Zenon, <3>1 DEF Reached, Announced
    <3>4. QED
      BY Zenon, <3>2, <3>3 DEF MarkRules
  <2>4. PushRules'
    <3>1. \A u \in STx :
            /\ Held(u)' \subseteq Held(u)
            /\ Running(u)' => Running(u)
            /\ life'[u] = "concurrent" => life[u] = "concurrent"
            /\ step'[u] \in {"commit", "tested"} =>
                 step[u] \in {"commit", "tested"} /\ value'[u] = value[u]
      BY Zenon DEF Held, Drawn, Running, SeqTypes
    <3>2. \A u \in STx : Announced(u) => Announced(u)' /\ seen'[u] = seen[u]
      BY Zenon DEF Announced, SeqTypes, LifeRules
    <3>3. cursor <= published' /\ \A u \in STx : life'[u] = "exclusive" => cursor <= seen'[u]
      BY Zenon DEF PushRules, SeqTypes
    <3>4. QED
      BY Zenon, <3>1, <3>2, <3>3, PushFrame
  <2>5. PushMissesNothing'
    BY DEF PushMissesNothing, PushRules, Committed, LifeRules, SeqTypes, Running, Held
  <2>6. QED
    BY Zenon, <2>1, <2>2, <2>3, <2>4, <2>5
<1>12. CASE TrackAllocation(t)
  <2> USE <1>12 DEF TrackAllocation, Register, Registered
  <2>1. SnapshotRules'
    BY Zenon DEF SnapshotRules, LifeRules, IdRules, SeqTypes, Running, Held, Drawn
  <2>2. AllocationRules'
    <3>1. /\ sequence_allocations'[t] # None /\ sequence_allocations'[t] <= value[t]
          /\ sequence_allocations[t] # None
               => sequence_allocations'[t] <= sequence_allocations[t]
      BY DEF LifeRules, SeqTypes
    <3>2. \A u \in STx : u # t => /\ sequence_allocations'[u] = sequence_allocations[u]
                                  /\ step'[u] = step[u]
      BY Zenon DEF SeqTypes
    <3>3. ASSUME NEW u \in STx, Running(u), NEW r \in rows[u]
          PROVE  sequence_allocations'[u] # None /\ sequence_allocations'[u] <= r
      BY <3>1, <3>2, <3>3 DEF AllocationRules, SeqTypes
    <3>4. QED
      BY Zenon, <3>1, <3>2, <3>3 DEF AllocationRules, SeqTypes, Running, Drawn
  <2>3. MarkRules'
    BY Zenon DEF MarkRules, Reached, Announced, LifeRules, SeqTypes
  <2>4. PushRules'
    <3>1. \A u \in STx :
            /\ Held(u)' \subseteq Held(u)
            /\ Running(u)' => Running(u)
            /\ life'[u] = "concurrent" => life[u] = "concurrent"
            /\ step'[u] \in {"commit", "tested"} =>
                 step[u] \in {"commit", "tested"} /\ value'[u] = value[u]
      BY Zenon DEF Held, Drawn, Running, SeqTypes
    <3>2. \A u \in STx : Announced(u) => Announced(u)' /\ seen'[u] = seen[u]
      BY Zenon DEF Announced, SeqTypes, LifeRules
    <3>3. cursor <= published' /\ \A u \in STx : life'[u] = "exclusive" => cursor <= seen'[u]
      BY Zenon DEF PushRules, SeqTypes
    <3>4. QED
      BY Zenon, <3>1, <3>2, <3>3, PushFrame
  <2>5. PushMissesNothing'
    BY DEF PushMissesNothing, PushRules, Committed, LifeRules, SeqTypes, Running, Held
  <2>6. QED
    BY Zenon, <2>1, <2>2, <2>3, <2>4, <2>5
<1>13. ASSUME NEW kept \in BOOLEAN, EndStatement(t, kept) PROVE PushInv'
  <2> USE <1>13 DEF EndStatement
  <2>1. SnapshotRules'
    BY Zenon DEF SnapshotRules, LifeRules, IdRules, SeqTypes, Running, Held, Drawn
  <2>2. AllocationRules'
    BY Zenon DEF AllocationRules, LifeRules, SeqTypes, Running, Drawn
  <2>3. MarkRules'
    <3>1. /\ life[t] = "exclusive" => own'[t] = value[t] /\ value[t] > own[t] /\ value[t] # 0
          /\ \A u \in STx : u # t => step'[u] = step[u] /\ own'[u] = own[u] /\ value'[u] = value[u]
      BY DEF SeqTypes, IdRules, Drawn
    <3>2. ASSUME NEW n \in Nat, Reached(n) PROVE Reached(n)'
      BY <3>1, <3>2 DEF Reached, Announced, SeqTypes
    <3>3. QED
      BY Zenon, <3>2 DEF MarkRules, SeqTypes
  <2>4. PushRules'
    <3>1. \A u \in STx :
            /\ Held(u)' \subseteq Held(u)
            /\ Running(u)' => Running(u)
            /\ life'[u] = "concurrent" => life[u] = "concurrent"
            /\ step'[u] \in {"commit", "tested"} =>
                 step[u] \in {"commit", "tested"} /\ value'[u] = value[u]
      BY Zenon DEF Held, Drawn, Running, SeqTypes
    <3>2. \A u \in STx : Announced(u) => Announced(u)' /\ seen'[u] = seen[u]
      BY DEF Announced, SeqTypes, LifeRules
    <3>3. cursor <= published' /\ \A u \in STx : life'[u] = "exclusive" => cursor <= seen'[u]
      BY Zenon DEF PushRules, SeqTypes
    <3>4. QED
      BY Zenon, <3>1, <3>2, <3>3, PushFrame
  <2>5. PushMissesNothing'
    BY DEF PushMissesNothing, PushRules, Committed, LifeRules, SeqTypes, Running, Held
  <2>6. QED
    BY Zenon, <2>1, <2>2, <2>3, <2>4, <2>5
<1>14. CASE FailStatement(t)
  <2> USE <1>14 DEF FailStatement
  <2>1. SnapshotRules'
    BY Zenon DEF SnapshotRules, LifeRules, IdRules, SeqTypes, Running, Held, Drawn
  <2>2. AllocationRules'
    BY Zenon DEF AllocationRules, LifeRules, SeqTypes, Running, Drawn
  <2>3. MarkRules'
    BY Zenon DEF MarkRules, Reached, Announced, LifeRules, SeqTypes
  <2>4. PushRules'
    <3>1. \A u \in STx :
            /\ Held(u)' \subseteq Held(u)
            /\ Running(u)' => Running(u)
            /\ life'[u] = "concurrent" => life[u] = "concurrent"
            /\ step'[u] \in {"commit", "tested"} =>
                 step[u] \in {"commit", "tested"} /\ value'[u] = value[u]
      BY Zenon DEF Held, Drawn, Running, SeqTypes
    <3>2. \A u \in STx : Announced(u) => Announced(u)' /\ seen'[u] = seen[u]
      BY Zenon DEF Announced, SeqTypes, LifeRules
    <3>3. cursor <= published' /\ \A u \in STx : life'[u] = "exclusive" => cursor <= seen'[u]
      BY Zenon DEF PushRules, SeqTypes
    <3>4. QED
      BY Zenon, <3>1, <3>2, <3>3, PushFrame
  <2>5. PushMissesNothing'
    BY DEF PushMissesNothing, PushRules, Committed, LifeRules, SeqTypes, Running, Held
  <2>6. QED
    BY Zenon, <2>1, <2>2, <2>3, <2>4, <2>5
<1>15. CASE CommitOuter(t)
  <2> USE <1>15 DEF CommitOuter, End, KeyIsFree, Later
  <2>1. SnapshotRules'
    BY DEF SnapshotRules, LifeRules, IdRules, SeqTypes, Running, Held, Drawn
  <2>2. AllocationRules'
    BY Zenon DEF AllocationRules, LifeRules, SeqTypes, Running, Drawn
  <2>3. MarkRules'
    BY DEF MarkRules, Reached, Announced, LifeRules, SeqTypes
  <2>4. PushRules'
    BY DEF PushRules, SnapshotRules, Beyond, Announced, LifeRules, IdRules, SeqTypes, Running,
       Held, Drawn
  <2>5. PushMissesNothing'
    BY DEF PushMissesNothing, PushRules, Committed, LifeRules, SeqTypes, Running, Held
  <2>6. QED
    BY Zenon, <2>1, <2>2, <2>3, <2>4, <2>5
<1>16. CASE RollbackOuter(t)
  <2> USE <1>16 DEF RollbackOuter, End
  <2>1. SnapshotRules'
    <3>1. \A u \in STx :
            /\ rows'[u] \subseteq rows[u]
            /\ life'[u] = "exclusive" => life[u] = "exclusive" /\ seen'[u] = seen[u]
            /\ life'[u] # "exclusive" => life[u] # "exclusive" \/ rows'[u] = {}
            /\ life'[u] = "committed" => life[u] = "committed"
            /\ step'[u] = "ending" => step[u] = "ending"
      BY Zenon DEF SeqTypes
    <3>2. \A u \in STx : Drawn(u)' => Drawn(u) /\ step'[u] = step[u] /\ life'[u] = life[u]
      BY Zenon DEF SeqTypes, Drawn
    <3>3. QED
      BY Zenon, <3>1, <3>2 DEF SnapshotRules
  <2>2. AllocationRules'
    BY Zenon DEF AllocationRules, LifeRules, SeqTypes, Running, Drawn
  <2>3. MarkRules'
    BY Zenon DEF MarkRules, Reached, Announced, LifeRules, SeqTypes
  <2>4. PushRules'
    <3>1. \A u \in STx :
            /\ Held(u)' \subseteq Held(u)
            /\ Running(u)' => Running(u)
            /\ life'[u] = "concurrent" => life[u] = "concurrent"
            /\ step'[u] \in {"commit", "tested"} =>
                 step[u] \in {"commit", "tested"} /\ value'[u] = value[u]
      BY Zenon DEF Held, Drawn, Running, SeqTypes
    <3>2. \A u \in STx : Announced(u) => Announced(u)' /\ seen'[u] = seen[u]
      BY Zenon DEF Announced, SeqTypes, LifeRules
    <3>3. cursor <= published' /\ \A u \in STx : life'[u] = "exclusive" => cursor <= seen'[u]
      BY Zenon DEF PushRules, SeqTypes
    <3>4. QED
      BY Zenon, <3>1, <3>2, <3>3, PushFrame
  <2>5. PushMissesNothing'
    BY DEF PushMissesNothing, PushRules, Committed, LifeRules, SeqTypes, Running, Held
  <2>6. QED
    BY Zenon, <2>1, <2>2, <2>3, <2>4, <2>5
<1>17. QED
  BY Zenon, <1>1, <1>2, <1>3, <1>4, <1>5, <1>6, <1>7, <1>8, <1>9, <1>10, <1>11, <1>12,
     <1>13, <1>14, <1>15, <1>16 DEF NextvalStep

(* The steps of the push loop *)
LEMMA PushLoopInv ==
  ASSUME IdInv, PushInv, ReadAllocations \/ ReadWatermark \/ PushBatch \/ PushEnd
  PROVE  PushInv'
<1> USE DEF IdInv, PushInv, None
<1>1. SnapshotRules' /\ AllocationRules'
  BY Zenon DEF ReadAllocations, ReadWatermark, PushBatch, PushEnd, nextvalVars, valueVars,
     trackVars, SnapshotRules, AllocationRules, Running, Drawn
<1>2. CASE ReadAllocations
  <2> USE <1>2 DEF ReadAllocations, nextvalVars, valueVars, trackVars
  <2>1. PICK m \in Allocated \cup {None} : Lowest(m) /\ bound' = m
    OBVIOUS
  <2>2. ASSUME NEW t \in STx, life[t] = "concurrent",
               NEW r \in Held(t) \cup {v \in {value[t]} : step[t] \in {"commit", "tested"}}
        PROVE  m # None /\ m <= r
    <3>1. sequence_allocations[t] \in Allocated /\ sequence_allocations[t] <= r
      BY Zenon, <2>2 DEF AllocationRules, Allocated, Running, Held, Drawn, SeqTypes
    <3>2. m \in Allocated /\ m <= sequence_allocations[t]
      BY Zenon, <2>1, <3>1 DEF Lowest
    <3>3. QED
      BY <3>1, <3>2 DEF Allocated, Held, SeqTypes
  <2>3. PushRules'
    BY Zenon, <2>1, <2>2 DEF PushRules, Held, Drawn, Running
  <2>4. MarkRules' /\ PushMissesNothing'
    BY Zenon DEF MarkRules, Reached, Announced, PushMissesNothing, Committed
  <2>5. QED
    BY Zenon, <1>1, <2>3, <2>4
<1>3. CASE ReadWatermark
  <2> USE <1>3 DEF ReadWatermark, nextvalVars, valueVars, trackVars
  <2>1. Reached(bound')
    BY DEF MarkRules, Reached, Announced, SeqTypes
  <2>2. MarkRules'
    BY Zenon, <2>1 DEF MarkRules, Reached, Announced
  <2>3. \A t \in STx : life[t] = "concurrent" => \A r \in Held(t) : bound' <= r
    BY DEF PushRules, Held, SeqTypes
  <2>4. PushRules'
    BY Zenon, <2>3 DEF PushRules, Beyond, Held, Drawn, Running
  <2>5. PushMissesNothing'
    BY Zenon DEF PushMissesNothing, Committed
  <2>6. QED
    BY Zenon, <1>1, <2>2, <2>4, <2>5
<1>4. CASE PushBatch
  <2> USE <1>4 DEF PushBatch, nextvalVars, valueVars, trackVars
  <2>1. PICK m \in Changes : cursor' = m /\ sent' = sent \cup {r \in Changes : r <= m}
    OBVIOUS
  <2>2. PICK w \in STx : life[w] = "committed" /\ m \in rows[w] /\ m > cursor /\ m < bound
    BY Zenon DEF Changes, Committed
  <2>3. m \in Nat /\ m <= published
    BY Zenon, <2>2 DEF SnapshotRules, SeqTypes
  <2>4. \A t \in STx : life[t] = "exclusive" => m <= seen[t]
    BY Zenon, <2>2 DEF SnapshotRules
  <2>5. ASSUME NEW t \in STx, Running(t), NEW r \in Held(t) PROVE r > m
    <3>1. r \in Nat
      BY Zenon DEF Held, SeqTypes
    <3>2. CASE life[t] = "exclusive"
      BY <2>3, <2>4, <3>1, <3>2 DEF IdRules, SeqTypes
    <3>3. CASE life[t] = "concurrent"
      BY <2>2, <2>3, <2>4, <3>1, <3>3 DEF PushRules, Beyond, Announced, SeqTypes
    <3>4. QED
      BY Zenon, <2>5, <3>2, <3>3 DEF Running
  <2>6. PushRules'
    BY Zenon, <2>1, <2>3, <2>4, <2>5 DEF PushRules, Beyond, Announced, Held, Drawn, Running
  <2>7. PushMissesNothing'
    BY <2>1, <2>2, <2>3 DEF PushMissesNothing, Changes, Committed, SeqTypes
  <2>8. MarkRules'
    BY Zenon DEF MarkRules, Reached, Announced
  <2>9. QED
    BY Zenon, <1>1, <2>6, <2>7, <2>8
<1>5. CASE PushEnd
  <2> USE <1>5 DEF PushEnd, nextvalVars, valueVars, trackVars
  <2>1. PushRules'
    BY Zenon DEF PushRules, Held, Drawn, Running
  <2>2. MarkRules' /\ PushMissesNothing'
    BY Zenon DEF MarkRules, Reached, Announced, PushMissesNothing, Committed
  <2>3. QED
    BY Zenon, <1>1, <2>1, <2>2
<1>6. QED
  BY Zenon, <1>2, <1>3, <1>4, <1>5

(* The push loop misses no change of concurrent transactions and of exclusive  *)
(* ones, for any number of transactions and ids, until an exclusive one takes  *)
(* ids back: the registration before the inner commit is what makes the bound  *)
(* safe, the validation of an exclusive transaction that missed a commit too.  *)
THEOREM PushMissesNothingAlways == SequenceSpec => []PushMissesNothingBefore
<1>1. IdInv /\ PushInv /\ UNCHANGED seqVars => PushInv'
  <2> SUFFICES ASSUME PushInv, UNCHANGED seqVars PROVE PushInv'
    OBVIOUS
  <2> USE DEF seqVars, nextvalVars, valueVars, trackVars, pushVars, PushInv
  <2>1. SnapshotRules' /\ AllocationRules' /\ MarkRules'
    BY Zenon DEF SnapshotRules, AllocationRules, MarkRules, Reached, Announced, Drawn, Running
  <2>2. PushRules'
    BY Zenon DEF PushRules, Beyond, Announced, Held, Drawn, Running
  <2>3. PushMissesNothing'
    BY Zenon DEF PushMissesNothing, Committed
  <2>4. QED
    BY Zenon, <2>1, <2>2, <2>3
<1>2. IdInv /\ (undone \/ PushInv) /\ [SequenceNext]_seqVars => IdInv' /\ (undone' \/ PushInv')
  <2> SUFFICES ASSUME IdInv, undone \/ PushInv, [SequenceNext]_seqVars, ~undone'
               PROVE  PushInv'
    BY Zenon, IdNextInv
  <2>1. ~undone
    <3>1. ASSUME NEW t \in STx, NextvalStep(t) PROVE undone => undone'
      BY Zenon, <3>1 DEF NextvalStep, BeginConcurrent, StartExclusive, AcquireExclusive,
         RefuseExclusive, ComputeNext, RegisterOuter, Register, CheckExclusive, CommitInner, CommitConflict,
         PublishInner, TrackWatermark, TrackAllocation, EndStatement, FailStatement, CommitOuter,
         RollbackOuter
    <3>2. QED
      BY Zenon, <3>1 DEF SequenceNext, ReadAllocations, ReadWatermark, PushBatch, PushEnd, seqVars,
         nextvalVars
  <2>2. QED
    BY Zenon, <1>1, <2>1, PushNextvalInv, PushLoopInv DEF SequenceNext
<1>3. undone \/ PushInv => PushMissesNothingBefore
  BY Zenon DEF PushInv, PushMissesNothingBefore
<1>4. QED
  BY <1>2, <1>3, IdInitInv, PushInitInv, PTL DEF SequenceSpec
=============================================================================
