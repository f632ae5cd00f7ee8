---------------------------- MODULE GroupLeadProofs ----------------------------
(***************************************************************************)
(* Group commit, who leads: for any number of transactions, modes and      *)
(* failures, one transaction at a time has the commit lock, and the batch  *)
(* and the write it staged are its own (LeadInv).  GroupCommitProofs goes  *)
(* on from here to the records and to the disk.                            *)
(***************************************************************************)
EXTENDS GroupCommit, WellFoundedInduction, TLAPS

-----------------------------------------------------------------------------
(* The invariant *)

(* The records of the queue *)
Rec == [ticket : Nat \ {0}, tx : Tx]
Elems(s) == {s[i] : i \in 1..Len(s)}
Sorted(s) == \A i, j \in 1..Len(s) : i < j => s[i].ticket < s[j].ticket

(* Where a leader has its record in hand, has appended it, or is done with all *)
Unwritten == {"upgrade", "write", "logtx", "issue", "finish"}
Written   == {"appended", "clear", "orphan", "adopt"}
Leading   == Unwritten \cup Written \cup {"sync"}
Leads     == Leading \cup {"prefix", "prefixed", "failed"}
Gone      == {"left", "dropped", "panic"}
Ending    == {"endlog", "commit", "finalize", "acked", "complete"}
Queued    == Waiting \cup {"prefix", "prefixed"}
Places    == Leads \cup Gone \cup Ending \cup Queued \cup {"begin", "cleanup", "giveup"}

Batch == [writing : [ticket : Nat, tx : Tx \cup {None}], rest : Seq(Rec), advanced : Nat]

GroupTypes ==
  /\ pc \in [Tx -> Places]
  /\ next_ticket \in Nat /\ durable_through \in Nat /\ written_through \in Nat
  /\ full_sync_written_through \in Nat
  /\ pending \in Seq(Rec) /\ retry \subseteq Nat /\ txs \subseteq Tx /\ dep_set \subseteq Tx
  /\ locked \in BOOLEAN /\ lock_held \in [Tx -> BOOLEAN]
  /\ log_appended \in [Tx -> BOOLEAN] /\ appending \in [Tx -> BOOLEAN]
  /\ state \in [Tx -> {"Preparing", "Committed", "Aborted"}]
  /\ ticket \in [Tx -> Nat]
  /\ batch \in [Tx -> Batch]
  /\ file \in Seq(Tx \cup {None}) /\ tail \in Tx \cup {None} /\ synced \in Nat

(* The commit lock *)
LockRule(t) ==
  /\ lock_held[t] => locked
  /\ pc[t] \in Leads => lock_held[t]
  /\ batch[t] # NoBatch => lock_held[t] /\ retry = {} /\ pc[t] \in Leading \cup {"failed", "endlog"}
  /\ pc[t] \in Leading => batch[t] # NoBatch /\ batch[t].writing \in Rec
  /\ pc[t] \in {"sync", "failed", "endlog"} => batch[t].rest = <<>>
LockPair(t, u) == lock_held[t] /\ lock_held[u] => t = u

(* The write that is staged *)
StageRule(t) ==
  /\ appending[t] => pc[t] = "finish"
  /\ pc[t] = "issue" \/ appending[t] => crc_pending /\ tail = Owner(t)

(* Who is out of txs *)
GoneRule(t) ==
  /\ t \notin txs => pc[t] \in Gone \cup {"acked"}
  /\ t \in abandoned => pc[t] \in Gone
  /\ pc[t] = "adopt" => pc[Owner(t)] \in Gone
  /\ t \in dep_set \ txs => pc[t] \in Gone /\ state[t] = "Committed"

(* The tickets to retry are above the watermark. *)
HoleRule == \A n \in retry : n > written_through

LeadRules ==
  /\ HoleRule
  /\ \A t \in Tx : LockRule(t) /\ StageRule(t) /\ GoneRule(t)
  /\ \A t, u \in Tx : LockPair(t, u)
LeadInv == GroupTypes /\ LeadRules

-----------------------------------------------------------------------------
(* Sequences as sets, and their order *)

(* One entry more at the end *)
LEMMA AppendElems ==
  ASSUME NEW S, NEW s \in Seq(S), NEW x \in S
  PROVE  /\ Append(s, x) \in Seq(S)
         /\ Elems(Append(s, x)) = Elems(s) \cup {x}
  BY DEF Elems

LEMMA AppendSorted ==
  ASSUME NEW s \in Seq(Rec), Sorted(s), NEW x \in Rec, \A r \in Elems(s) : r.ticket < x.ticket
  PROVE  Sorted(Append(s, x))
<1> SUFFICES ASSUME NEW i \in 1..Len(s) + 1, NEW j \in 1..Len(s) + 1, i < j
             PROVE  Append(s, x)[i].ticket < Append(s, x)[j].ticket
  BY DEF Sorted
<1>1. i \in 1..Len(s) /\ Append(s, x)[i] = s[i] /\ s[i] \in Elems(s)
  BY DEF Elems
<1>2. CASE j \in 1..Len(s)
  BY <1>1, <1>2 DEF Sorted
<1>3. CASE j = Len(s) + 1
  <2>1. Append(s, x)[j] = x
    BY <1>3
  <2> QED
    BY Zenon, <1>1, <2>1
<1> QED
  BY <1>2, <1>3

(* The first entry and the others *)
LEMMA HeadTailElems ==
  ASSUME NEW S, NEW s \in Seq(S), s # <<>>
  PROVE  /\ Head(s) \in S /\ Tail(s) \in Seq(S)
         /\ Elems(s) = {Head(s)} \cup Elems(Tail(s))
<1>1. /\ Len(s) \in Nat \ {0} /\ Head(s) = s[1] /\ Len(Tail(s)) = Len(s) - 1
      /\ \A i \in 1..Len(s) - 1 : Tail(s)[i] = s[i + 1]
  OBVIOUS
<1>2. Elems(s) \subseteq {Head(s)} \cup Elems(Tail(s))
  <2> SUFFICES ASSUME NEW i \in 1..Len(s), i # 1 PROVE s[i] \in Elems(Tail(s))
    BY <1>1 DEF Elems
  <2>1. i - 1 \in 1..Len(Tail(s)) /\ Tail(s)[i - 1] = s[i]
    BY <1>1
  <2> QED
    BY Zenon, <2>1 DEF Elems
<1>3. {Head(s)} \cup Elems(Tail(s)) \subseteq Elems(s)
  <2>1. Head(s) \in Elems(s)
    BY <1>1 DEF Elems
  <2>2. ASSUME NEW i \in 1..Len(Tail(s)) PROVE Tail(s)[i] \in Elems(s)
    <3>1. i + 1 \in 1..Len(s) /\ Tail(s)[i] = s[i + 1]
      BY <1>1
    <3> QED
      BY <3>1 DEF Elems
  <2> QED
    BY <2>1, <2>2 DEF Elems
<1> QED
  BY <1>2, <1>3

LEMMA TailSorted ==
  ASSUME NEW s \in Seq(Rec), s # <<>>, Sorted(s)
  PROVE  Sorted(Tail(s)) /\ \A r \in Elems(Tail(s)) : Head(s).ticket < r.ticket
  BY DEF Elems, Sorted

(* One sequence after another *)
LEMMA ConcatFacts ==
  ASSUME NEW S, NEW s \in Seq(S), NEW u \in Seq(S)
  PROVE  /\ s \o u \in Seq(S) /\ Len(s \o u) = Len(s) + Len(u)
         /\ Len(s) \in Nat /\ Len(u) \in Nat
         /\ \A i \in 1..Len(s) + Len(u) : (s \o u)[i] = IF i <= Len(s) THEN s[i] ELSE u[i - Len(s)]
  OBVIOUS

LEMMA ConcatElems ==
  ASSUME NEW S, NEW s \in Seq(S), NEW u \in Seq(S)
  PROVE  s \o u \in Seq(S) /\ Elems(s \o u) = Elems(s) \cup Elems(u)
<1>1. /\ s \o u \in Seq(S) /\ Len(s \o u) = Len(s) + Len(u) /\ Len(s) \in Nat /\ Len(u) \in Nat
      /\ \A i \in 1..Len(s) + Len(u) : (s \o u)[i] = IF i <= Len(s) THEN s[i] ELSE u[i - Len(s)]
  BY Zenon, ConcatFacts
<1>2. Elems(s \o u) \subseteq Elems(s) \cup Elems(u)
  <2> SUFFICES ASSUME NEW i \in 1..Len(s) + Len(u) PROVE (s \o u)[i] \in Elems(s) \cup Elems(u)
    BY <1>1 DEF Elems
  <2>1. CASE i <= Len(s)
    BY <1>1, <2>1 DEF Elems
  <2>2. CASE i > Len(s)
    <3>1. i - Len(s) \in 1..Len(u) /\ (s \o u)[i] = u[i - Len(s)]
      BY <1>1, <2>2
    <3> QED
      BY <3>1 DEF Elems
  <2> QED
    BY <1>1, <2>1, <2>2
<1>3. ASSUME NEW i \in 1..Len(s) PROVE s[i] \in Elems(s \o u)
  <2>1. i \in 1..Len(s) + Len(u) /\ (s \o u)[i] = s[i]
    BY <1>1
  <2> QED
    BY <1>1, <2>1 DEF Elems
<1>4. ASSUME NEW i \in 1..Len(u) PROVE u[i] \in Elems(s \o u)
  <2>1. i + Len(s) \in 1..Len(s) + Len(u) /\ (s \o u)[i + Len(s)] = u[i]
    BY <1>1
  <2> QED
    BY <1>1, <2>1 DEF Elems
<1>5. Elems(s) \cup Elems(u) \subseteq Elems(s \o u)
  <2>1. \A x \in Elems(s) : x \in Elems(s \o u)
    BY Zenon, <1>3 DEF Elems
  <2>2. \A x \in Elems(u) : x \in Elems(s \o u)
    BY Zenon, <1>4 DEF Elems
  <2> QED
    BY Zenon, <2>1, <2>2
<1> QED
  BY Zenon, <1>1, <1>2, <1>5

LEMMA ConcatSorted ==
  ASSUME NEW s \in Seq(Rec), NEW u \in Seq(Rec), Sorted(s), Sorted(u),
         \A r \in Elems(s), q \in Elems(u) : r.ticket < q.ticket
  PROVE  Sorted(s \o u)
<1>1. /\ Len(s \o u) = Len(s) + Len(u) /\ Len(s) \in Nat /\ Len(u) \in Nat
      /\ \A i \in 1..Len(s) + Len(u) : (s \o u)[i] = IF i <= Len(s) THEN s[i] ELSE u[i - Len(s)]
  BY Zenon, ConcatFacts
<1> SUFFICES ASSUME NEW i \in 1..Len(s) + Len(u), NEW j \in 1..Len(s) + Len(u), i < j
             PROVE  (s \o u)[i].ticket < (s \o u)[j].ticket
  BY <1>1 DEF Sorted
<1>2. CASE j <= Len(s)
  BY <1>1, <1>2 DEF Sorted
<1>3. CASE i <= Len(s) /\ j > Len(s)
  <2>1. /\ i \in 1..Len(s) /\ (s \o u)[i] = s[i]
        /\ j - Len(s) \in 1..Len(u) /\ (s \o u)[j] = u[j - Len(s)]
    BY <1>1, <1>3
  <2>2. s[i] \in Elems(s) /\ u[j - Len(s)] \in Elems(u)
    BY Zenon, <2>1 DEF Elems
  <2> QED
    BY Zenon, <2>1, <2>2
<1>4. CASE i > Len(s)
  <2>1. /\ i - Len(s) \in 1..Len(u) /\ (s \o u)[i] = u[i - Len(s)] /\ i - Len(s) < j - Len(s)
        /\ j - Len(s) \in 1..Len(u) /\ (s \o u)[j] = u[j - Len(s)]
    BY <1>1, <1>4
  <2> QED
    BY <2>1 DEF Sorted
<1> QED
  BY <1>1, <1>2, <1>3, <1>4

(* None, and one *)
LEMMA FewElems ==
  ASSUME NEW x
  PROVE  /\ Elems(<<>>) = {} /\ Sorted(<<>>)
         /\ Elems(<<x>>) = {x} /\ Sorted(<<x>>)
  BY DEF Elems, Sorted

(* drop_pending takes the entries of a ticket from a queue with one of each.   *)
LEMMA WithoutElems ==
  ASSUME NEW s \in Seq(Rec), Sorted(s), NEW n \in Nat
  PROVE  /\ Without(s, n) \in Seq(Rec) /\ Sorted(Without(s, n))
         /\ Elems(Without(s, n)) = {r \in Elems(s) : r.ticket # n}
<1> DEFINE at == {i \in 1..Len(s) : s[i].ticket = n}
<1>0. Len(s) \in Nat /\ \A i \in 1..Len(s) : s[i] \in Rec /\ s[i].ticket \in Nat
  <2>1. Len(s) \in Nat /\ \A i \in 1..Len(s) : s[i] \in Rec
    OBVIOUS
  <2>2. \A r \in Rec : r.ticket \in Nat
    BY DEF Rec
  <2> QED
    BY Zenon, <2>1, <2>2
<1>1. CASE at = {}
  <2>1. Without(s, n) = s
    BY <1>1 DEF Without
  <2>2. \A r \in Elems(s) : r.ticket # n
    BY <1>1 DEF Elems
  <2> QED
    BY <2>1, <2>2
<1>2. CASE at # {}
  <2>1. PICK k \in at : TRUE
    BY <1>2
  <2>2. ASSUME NEW i \in at PROVE i = k
    <3>1. i \in 1..Len(s) /\ k \in 1..Len(s) /\ s[i].ticket = n /\ s[k].ticket = n
      BY <2>1, <2>2
    <3>2. ~(i < k) /\ ~(k < i)
      BY <1>0, <3>1 DEF Sorted
    <3> QED
      BY <1>0, <3>1, <3>2
  <2>3. Without(s, n) = SubSeq(s, 1, k - 1) \o SubSeq(s, k + 1, Len(s))
    <3> DEFINE index == CHOOSE i \in at : \A j \in at : i <= j
    <3>1. k <= k
      BY <2>1
    <3>2. \E i \in at : \A j \in at : i <= j
      BY <2>1, <2>2, <3>1
    <3>3. index = k
      <4>1. index \in at
        BY Zenon, <3>2
      <4> QED
        BY Zenon, <2>2, <4>1
    <3>4. Without(s, n) = IF at = {} THEN s
                          ELSE SubSeq(s, 1, index - 1) \o SubSeq(s, index + 1, Len(s))
      BY Zenon DEF Without
    <3> HIDE DEF at, index
    <3> QED
      BY Zenon, <1>2, <3>3, <3>4
  <2> DEFINE w == Without(s, n)
  <2>0. k \in 1..Len(s) /\ s[k].ticket = n
    BY <2>1
  <2>4. /\ w \in Seq(Rec) /\ Len(w) = Len(s) - 1
        /\ \A i \in 1..Len(s) - 1 : w[i] = IF i < k THEN s[i] ELSE s[i + 1]
    <3> DEFINE a == SubSeq(s, 1, k - 1)
               b == SubSeq(s, k + 1, Len(s))
    <3>1. a \in Seq(Rec) /\ Len(a) = k - 1 /\ \A i \in 1..k - 1 : a[i] = s[i]
      BY <2>0
    <3>2. b \in Seq(Rec) /\ Len(b) = Len(s) - k /\ \A i \in 1..Len(s) - k : b[i] = s[k + i]
      BY <2>0
    <3> HIDE DEF a, b
    <3>3. /\ a \o b \in Seq(Rec) /\ Len(a \o b) = Len(a) + Len(b)
          /\ \A i \in 1..Len(a) + Len(b) : (a \o b)[i] = IF i <= Len(a) THEN a[i] ELSE b[i - Len(a)]
      BY Zenon, <3>1, <3>2, ConcatFacts
    <3>4. ASSUME NEW i \in 1..Len(s) - 1 PROVE (a \o b)[i] = IF i < k THEN s[i] ELSE s[i + 1]
      <4>1. CASE i < k
        BY <2>0, <3>1, <3>2, <3>3, <4>1
      <4>2. CASE i >= k
        <5>1. i - Len(a) \in 1..Len(s) - k /\ (a \o b)[i] = b[i - Len(a)]
              /\ k + (i - Len(a)) = i + 1
          BY <1>0, <2>0, <3>1, <3>2, <3>3, <4>2
        <5>2. b[i - Len(a)] = s[k + (i - Len(a))] /\ ~(i < k)
          BY <1>0, <2>0, <3>2, <4>2, <5>1
        <5> QED
          BY Zenon, <5>1, <5>2
      <4>3. i < k \/ i >= k
        BY <1>0, <2>0
      <4> QED
        BY Zenon, <4>1, <4>2, <4>3
    <3>5. w = a \o b
      BY <2>3 DEF a, b
    <3>6. Len(a) + Len(b) = Len(s) - 1
      BY <1>0, <2>0, <3>1, <3>2
    <3> HIDE DEF w
    <3> QED
      BY Zenon, <3>3, <3>4, <3>5, <3>6
  <2> HIDE DEF w, at
  <2>5. Sorted(w)
    <3> SUFFICES ASSUME NEW i \in 1..Len(s) - 1, NEW j \in 1..Len(s) - 1, i < j
                 PROVE  w[i].ticket < w[j].ticket
      BY <2>4 DEF Sorted
    <3>1. PICK x \in 1..Len(s) : w[i] = s[x] /\ x = IF i < k THEN i ELSE i + 1
      BY <1>0, <2>0, <2>4
    <3>2. PICK y \in 1..Len(s) : w[j] = s[y] /\ y = IF j < k THEN j ELSE j + 1
      BY <1>0, <2>0, <2>4
    <3>3. x < y
      BY <1>0, <2>0, <3>1, <3>2
    <3> QED
      BY <3>1, <3>2, <3>3 DEF Sorted
  <2>6. ASSUME NEW i \in 1..Len(s) - 1 PROVE w[i] \in Elems(s) /\ w[i].ticket # n
    <3> DEFINE x == IF i < k THEN i ELSE i + 1
    <3>1. x \in 1..Len(s) /\ w[i] = s[x] /\ x # k
      BY <1>0, <2>0, <2>4
    <3> HIDE DEF x
    <3> QED
      BY <2>2, <3>1 DEF Elems, at
  <2>7. ASSUME NEW i \in 1..Len(s), s[i].ticket # n PROVE s[i] \in Elems(w)
    <3>1. CASE i < k
      BY <2>0, <2>4, <3>1 DEF Elems
    <3>2. CASE i > k
      <4>1. i - 1 \in 1..Len(w) /\ w[i - 1] = s[i]
        BY <1>0, <2>0, <2>4, <3>2
      <4> QED
        BY <4>1 DEF Elems
    <3> QED
      BY <2>0, <2>7, <3>1, <3>2
  <2>8. Elems(w) = {r \in Elems(s) : r.ticket # n}
    <3>1. \A r \in Elems(w) : r \in Elems(s) /\ r.ticket # n
      BY Zenon, <2>4, <2>6 DEF Elems
    <3>2. \A r \in Elems(s) : r.ticket # n => r \in Elems(w)
      BY Zenon, <2>7 DEF Elems
    <3> QED
      BY Zenon, <3>1, <3>2
  <2> QED
    BY Zenon, <2>4, <2>5, <2>8 DEF w
<1> QED
  BY Zenon, <1>1, <1>2

(* drop_pending leaves a queue. *)
LEMMA WithoutType ==
  ASSUME NEW s \in Seq(Rec), NEW n
  PROVE  Without(s, n) \in Seq(Rec)
<1> DEFINE at == {i \in 1..Len(s) : s[i].ticket = n}
           index == CHOOSE i \in at : \A j \in at : i <= j
<1>0. Len(s) \in Nat /\ at \subseteq Nat /\ at \subseteq 1..Len(s)
  OBVIOUS
<1>1. Without(s, n) = IF at = {} THEN s
                      ELSE SubSeq(s, 1, index - 1) \o SubSeq(s, index + 1, Len(s))
  BY Zenon DEF Without
<1> HIDE DEF at
<1>2. CASE at # {}
  <2>1. PICK i \in at : \A j \in at : ~(<<j, i>> \in OpToRel(<, Nat))
    BY Zenon, <1>0, <1>2, WFMin, NatLessThanWellFounded
  <2>2. ASSUME NEW j \in at PROVE i <= j
    <3>1. i \in Nat /\ j \in Nat
      BY Zenon, <1>0, <2>1, <2>2
    <3>2. ~(<<j, i>> \in {ss \in Nat \X Nat : ss[1] < ss[2]})
      BY Zenon, <2>1, <2>2 DEF OpToRel
    <3> QED
      BY <3>1, <3>2
  <2>3. index \in at
    BY Zenon, <2>1, <2>2
  <2> HIDE DEF index
  <2>4. index \in 1..Len(s)
    BY Zenon, <1>0, <2>3
  <2>5. SubSeq(s, 1, index - 1) \in Seq(Rec) /\ SubSeq(s, index + 1, Len(s)) \in Seq(Rec)
    BY <1>0, <2>4
  <2>6. SubSeq(s, 1, index - 1) \o SubSeq(s, index + 1, Len(s)) \in Seq(Rec)
    BY <2>5
  <2> QED
    BY Zenon, <1>1, <1>2, <2>6
<1>3. CASE at = {}
  BY Zenon, <1>1, <1>3
<1> QED
  BY Zenon, <1>2, <1>3

-----------------------------------------------------------------------------
(* The commit lock, the staged write and the transactions that are gone *)

(* The update of what a transaction has *)
LEMMA TxUpdate ==
  ASSUME NEW S, NEW f \in [Tx -> S], NEW t \in Tx, NEW v
  PROVE  /\ [f EXCEPT ![t] = v][t] = v
         /\ \A u \in Tx \ {t} : [f EXCEPT ![t] = v][u] = f[u]
         /\ v \in S => [f EXCEPT ![t] = v] \in [Tx -> S]
  OBVIOUS

(* The steps of a transaction, point by point *)
OthersLead(t) ==
  \A u \in Tx \ {t} :
    /\ pc'[u] = pc[u] /\ batch'[u] = batch[u] /\ lock_held'[u] = lock_held[u]
    /\ appending'[u] = appending[u]
LeadStep(t) ==
  /\ OthersLead(t) /\ LockRule(t)' /\ StageRule(t)'
  /\ \/ locked' = locked /\ lock_held'[t] = lock_held[t]
     \/ ~locked /\ locked'
     \/ locked' = (locked /\ ~lock_held[t]) /\ ~lock_held'[t]
  /\ lock_held[t] \/ (retry' \subseteq retry /\ crc_pending' = crc_pending /\ tail' = tail)

(* One transaction has the lock: what it does leaves the rules of others.      *)
LEMMA LockKept ==
  ASSUME LeadInv, NEW t \in Tx, LeadStep(t), NEW u \in Tx
  PROVE  LockRule(u)' /\ StageRule(u)'
<1>0. /\ LockRule(u) /\ LockRule(t) /\ StageRule(u) /\ LockPair(t, u)
      /\ OthersLead(t) /\ LockRule(t)' /\ StageRule(t)'
  BY Zenon DEF LeadInv, LeadRules, LeadStep
<1>1. CASE u = t
  BY Zenon, <1>0, <1>1
<1>2. CASE u # t
  <2>1. /\ pc'[u] = pc[u] /\ batch'[u] = batch[u] /\ lock_held'[u] = lock_held[u]
        /\ appending'[u] = appending[u]
    BY Zenon, <1>0, <1>2 DEF OthersLead
  <2>2. lock_held[u] => locked'
    BY Zenon, <1>0, <1>2 DEF LeadStep, LockRule, LockPair
  <2>3. lock_held[u] => retry' \subseteq retry /\ crc_pending' = crc_pending /\ tail' = tail
    BY Zenon, <1>0, <1>2 DEF LeadStep, LockPair
  <2>4. LockRule(u)'
    BY Zenon, <1>0, <2>1, <2>2, <2>3 DEF LockRule
  <2>5. pc[u] \in {"issue", "finish"} => lock_held[u]
    BY Zenon, <1>0 DEF LockRule, Leads, Leading, Unwritten
  <2>6. Owner(u)' = Owner(u)
    BY Zenon, <2>1 DEF Owner
  <2>7. StageRule(u)'
    BY Zenon, <1>0, <2>1, <2>3, <2>5, <2>6 DEF StageRule
  <2> QED
    BY Zenon, <2>4, <2>7
<1> QED
  BY Zenon, <1>1, <1>2

(* Nobody takes the lock from another. *)
LEMMA LockPairKept ==
  ASSUME LeadInv, NEW t \in Tx, LeadStep(t), NEW u \in Tx, NEW v \in Tx
  PROVE  LockPair(u, v)'
<1>0. /\ LockPair(u, v) /\ OthersLead(t) /\ LockRule(u) /\ LockRule(v)
      /\ \/ locked' = locked /\ lock_held'[t] = lock_held[t]
         \/ ~locked /\ locked'
         \/ locked' = (locked /\ ~lock_held[t]) /\ ~lock_held'[t]
  BY Zenon DEF LeadInv, LeadRules, LeadStep
<1>1. CASE u # t /\ v # t
  BY Zenon, <1>0, <1>1 DEF OthersLead, LockPair
<1>2. CASE u = t /\ v # t
  BY Zenon, <1>0, <1>2 DEF OthersLead, LockPair, LockRule
<1>3. CASE u # t /\ v = t
  BY Zenon, <1>0, <1>3 DEF OthersLead, LockPair, LockRule
<1>4. CASE u = v
  BY Zenon, <1>4 DEF LockPair
<1> QED
  BY Zenon, <1>1, <1>2, <1>3, <1>4

(* A step that moves on and leaves the lock, the batch and the log alone *)
LEMMA QuietLead ==
  ASSUME LeadInv, NEW t \in Tx, NEW b, pc' = [pc EXCEPT ![t] = b],
         UNCHANGED <<batch, locked, lock_held, appending, crc_pending, tail>>,
         retry' \subseteq retry,
         b \in Leads => pc[t] \in Leads,
         b \in Leading => pc[t] \in Leading,
         batch[t] # NoBatch => b \in Leading \cup {"failed", "endlog"},
         b \in {"sync", "failed", "endlog"} => batch[t].rest = <<>>,
         ~appending[t], b # "issue"
  PROVE  LeadStep(t)
<1>0. LockRule(t) /\ pc \in [Tx -> Places]
  BY Zenon DEF LeadInv, LeadRules, GroupTypes
<1>1. pc'[t] = b /\ \A u \in Tx \ {t} : pc'[u] = pc[u]
  BY Zenon, <1>0, TxUpdate
<1>2. LockRule(t)'
  BY Zenon, <1>0, <1>1 DEF LockRule
<1>3. StageRule(t)'
  BY Zenon, <1>1 DEF StageRule
<1> QED
  BY Zenon, <1>1, <1>2, <1>3 DEF LeadStep, OthersLead

(* A leader that goes on takes the next record of its batch in hand. *)
LEMMA AdvanceNext ==
  ASSUME GroupTypes, NEW t \in Tx, Advance(t), batch[t].rest # <<>>
  PROVE  /\ pc' = [pc EXCEPT ![t] = "upgrade"]
         /\ batch' \in [Tx -> Batch] /\ \A u \in Tx \ {t} : batch'[u] = batch[u]
         /\ batch'[t].writing = Head(batch[t].rest) /\ batch'[t].writing \in Rec
         /\ batch'[t].rest = Tail(batch[t].rest) /\ batch'[t].rest \in Seq(Rec)
         /\ batch'[t].advanced = batch[t].advanced
<1> DEFINE b == batch[t]
           w == Head(b.rest)
           q == Tail(b.rest)
<1>1. b \in Batch /\ b.rest \in Seq(Rec) /\ b.rest # <<>> /\ b.advanced \in Nat
  BY DEF GroupTypes, Batch
<1>2. w \in Rec /\ q \in Seq(Rec)
  BY <1>1
<1>3. w \in [ticket : Nat, tx : Tx \cup {None}]
  BY <1>2 DEF Rec
<1>4. /\ pc' = [pc EXCEPT ![t] = "upgrade"]
      /\ batch' = [batch EXCEPT ![t] = [writing |-> w, rest |-> q, advanced |-> b.advanced]]
  BY Zenon DEF Advance
<1> HIDE DEF w, q
<1>6. [writing |-> w, rest |-> q, advanced |-> b.advanced] \in Batch
  BY <1>1, <1>2, <1>3 DEF Batch
<1>t. batch \in [Tx -> Batch]
  BY Zenon DEF GroupTypes
<1>7. batch' \in [Tx -> Batch] /\ (\A u \in Tx \ {t} : batch'[u] = batch[u])
      /\ batch'[t] = [writing |-> w, rest |-> q, advanced |-> b.advanced]
  BY Zenon, <1>t, <1>4, <1>6, TxUpdate
<1>8. batch'[t].writing = w /\ batch'[t].rest = q /\ batch'[t].advanced = b.advanced
  BY <1>7
<1> QED
  BY Zenon, <1>2, <1>4, <1>7, <1>8 DEF w, q

(* The record of a leader that has been appended is the one it advanced to. *)
LEMMA MarkFacts ==
  ASSUME LeadInv, NEW t \in Tx, MarkLogRecordWritten(t)
  PROVE  /\ batch' \in [Tx -> Batch] /\ \A u \in Tx \ {t} : batch'[u] = batch[u]
         /\ batch'[t].writing = batch[t].writing /\ batch[t].writing \in Rec
         /\ batch'[t].rest = batch[t].rest /\ batch'[t].advanced = batch[t].writing.ticket
         /\ retry = {} /\ lock_held[t]
         /\ written_through' = Max(written_through, batch[t].writing.ticket)
         /\ full_sync_written_through' = FullMark(t)
         /\ tail = Owner(t) /\ file' = Append(file, Owner(t)) /\ Owner(t) \in Tx
<1> DEFINE b == batch[t]
           n == b.writing.ticket
<1>0. /\ GroupTypes /\ LockRule(t) /\ StageRule(t) /\ pc[t] = "finish" /\ appending[t]
      /\ batch' = [batch EXCEPT ![t].advanced = n]
      /\ written_through' = Noted(n) /\ full_sync_written_through' = FullMark(t)
      /\ file' = Append(file, tail)
  BY Zenon DEF LeadInv, LeadRules, MarkLogRecordWritten, Goto
<1>1. b \in Batch /\ b.writing \in Rec /\ retry = {} /\ tail = Owner(t) /\ lock_held[t]
  BY Zenon, <1>0 DEF GroupTypes, LockRule, StageRule, Leading, Unwritten
<1>2. n \in Nat /\ b.writing.tx \in Tx
  BY <1>1 DEF Rec
<1> DEFINE r == [b EXCEPT !.advanced = n]
<1>3. r \in Batch /\ r.writing = b.writing /\ r.rest = b.rest /\ r.advanced = n
  BY <1>1, <1>2 DEF Batch
<1>5. batch' = [batch EXCEPT ![t] = r]
  BY Zenon, <1>0
<1> HIDE DEF r
<1>t. batch \in [Tx -> Batch] /\ r \in Batch
  BY Zenon, <1>0, <1>3 DEF GroupTypes
<1>6. batch' \in [Tx -> Batch] /\ (\A u \in Tx \ {t} : batch'[u] = batch[u])
      /\ batch'[t] = r
  BY Zenon, <1>t, <1>5, TxUpdate
<1>7. Noted(n) = Max(written_through, n)
  BY Zenon, <1>1 DEF Noted
<1> QED
  BY Zenon, <1>0, <1>1, <1>2, <1>3, <1>6, <1>7 DEF Owner

(* No ticket to retry is below the watermark: it is what becomes durable. *)
LEMMA DurableIs ==
  ASSUME LeadInv
  PROVE  Durable = Max(durable_through, written_through) /\ Durable \in Nat
<1>0. HoleRule /\ written_through \in Nat /\ retry \subseteq Nat
  BY Zenon DEF LeadInv, LeadRules, GroupTypes
<1>h. \A h \in retry : ~(h <= written_through)
  BY <1>0 DEF HoleRule
<1>1. {h \in retry : h <= written_through} = {}
  BY Zenon, <1>h
<1>2. Durable = Max(durable_through, written_through)
  BY Zenon, <1>1 DEF Durable
<1>3. Max(durable_through, written_through) \in Nat
  BY Zenon DEF Max, LeadInv, GroupTypes
<1> QED
  BY Zenon, <1>2, <1>3

(* What a dropped leader gives back, and how it leaves the watermarks *)
LEMMA DropLeadingFacts ==
  ASSUME LeadInv, NEW t \in Tx, DropLeading(t)
  PROVE  /\ lock_held[t] /\ retry = {} /\ pc[t] \in Leading \cup {"failed", "endlog"}
         /\ HandedBack(t) \in Seq(Rec)
         /\ pending' = HandedBack(t) \o pending /\ pending' \in Seq(Rec)
         /\ LET n == batch[t].writing.ticket
                noted == Max(written_through, batch[t].advanced)
            IN \/ /\ ~(pc[t] = "finish" /\ Owner(t) # t /\ Owner(t) \notin abandoned)
                  /\ retry' = {} /\ written_through' = noted /\ durable_through' = durable_through
               \/ /\ pc[t] = "finish" /\ Owner(t) # t /\ Owner(t) \notin abandoned
                  /\ retry' = {n} /\ n \in Nat \ {0}
                  /\ written_through' = Min(noted, n - 1)
                  /\ durable_through' = Min(durable_through, n - 1)
         /\ \/ UNCHANGED <<state, dep_set, txs>>
            \/ Owner(t) \in abandoned \cap txs /\ RolledBack(Owner(t))
         /\ abandoned' \subseteq abandoned
<1> DEFINE b == batch[t]
           n == b.writing.ticket
           noted == Max(written_through, b.advanced)
           another == pc[t] = "finish" /\ Owner(t) # t
           orphan == another /\ Owner(t) \in abandoned
<1>0. GroupTypes /\ LockRule(t) /\ b # NoBatch
  BY Zenon DEF LeadInv, LeadRules, DropLeading
<1>1. lock_held[t] /\ retry = {} /\ pc[t] \in Leading \cup {"failed", "endlog"}
  BY Zenon, <1>0 DEF LockRule
<1>2. b \in Batch /\ b.rest \in Seq(Rec) /\ b.advanced \in Nat
  BY <1>0 DEF GroupTypes, Batch
<1>3. pc[t] \in {"upgrade", "finish"} => b.writing \in Rec
  BY Zenon, <1>0 DEF LockRule, Leading, Unwritten
<1>4. HandedBack(t) \in Seq(Rec)
  BY <1>2, <1>3 DEF HandedBack
<1>5. pending' = HandedBack(t) \o pending
  BY Zenon DEF DropLeading
<1>6. pending' \in Seq(Rec)
  BY <1>0, <1>4, <1>5 DEF GroupTypes
<1>7. (IF b.advanced = 0 THEN written_through ELSE Noted(b.advanced)) = noted
  <2>1. Noted(b.advanced) = noted
    BY Zenon, <1>1 DEF Noted
  <2>2. b.advanced = 0 => noted = written_through
    BY <1>0, <1>2 DEF Max, GroupTypes
  <2> QED
    BY Zenon, <2>1, <2>2
<1>8. CASE another /\ ~orphan
  <2>1. n \in Nat \ {0}
    BY <1>3, <1>8 DEF Rec
  <2>2. /\ retry' = retry \cup {n} /\ written_through' = Min(noted, n - 1)
        /\ durable_through' = Min(durable_through, n - 1)
        /\ UNCHANGED <<state, dep_set, txs>> /\ abandoned' = abandoned
    <3>1. {n} # {}
      OBVIOUS
    <3> QED
      BY Zenon, <1>7, <1>8, <3>1 DEF DropLeading
  <2>3. retry' = {n}
    BY Zenon, <1>1, <2>2
  <2> QED
    BY Zenon, <1>1, <1>4, <1>5, <1>6, <1>8, <2>1, <2>2, <2>3
<1>9. CASE ~(another /\ ~orphan)
  <2>1. /\ retry' = retry \cup {} /\ written_through' = noted /\ durable_through' = durable_through
        /\ abandoned' \subseteq abandoned
        /\ IF orphan /\ Owner(t) \in txs
           THEN RolledBack(Owner(t)) ELSE UNCHANGED <<state, dep_set, txs>>
    BY Zenon, <1>7, <1>9 DEF DropLeading
  <2>2. retry' = {}
    BY Zenon, <1>1, <2>1
  <2> QED
    BY Zenon, <1>1, <1>4, <1>5, <1>6, <1>9, <2>1, <2>2
<1> QED
  BY Zenon, <1>8, <1>9

(* What each step leaves has its type. *)
LEMMA TypesKept ==
  ASSUME LeadInv, NEW t \in Tx, Step(t) \/ LogTxFails(t) \/ SyncFails(t) \/ Drop(t)
  PROVE  GroupTypes'
<1> USE DEF Goto, queueVars, markVars, waitVars, lockVars, txVars, machVars, logVars
<1>0. GroupTypes /\ LockRule(t)
  BY Zenon DEF LeadInv, LeadRules
<1>p. ASSUME NEW b \in Places, pc' = [pc EXCEPT ![t] = b]
      PROVE  pc' \in [Tx -> Places]
  BY Zenon, <1>0, <1>p, TxUpdate DEF GroupTypes
<1>b. ASSUME NEW f \in [Tx -> BOOLEAN], NEW u \in Tx, NEW v \in BOOLEAN
      PROVE  [f EXCEPT ![u] = v] \in [Tx -> BOOLEAN]
  BY Zenon, <1>b, TxUpdate
<1>1. CASE LockBusy(t)
  BY Zenon, <1>0, <1>p, <1>b, <1>1, TxUpdate DEF LockBusy, GroupTypes, Places, Leads, Leading,
     Unwritten, Written, Gone, Ending, Queued, Waiting
<1>2. CASE NoWork(t)
  BY Zenon, <1>0, <1>p, <1>b, <1>2, TxUpdate DEF NoWork, GroupTypes, Places, Leads, Leading,
     Unwritten, Written, Gone, Ending, Queued, Waiting
<1>3. CASE Park(t)
  BY Zenon, <1>0, <1>p, <1>b, <1>3, TxUpdate DEF Park, GroupTypes, Places, Leads, Leading,
     Unwritten, Written, Gone, Ending, Queued, Waiting
<1>4. CASE Woken(t)
  BY Zenon, <1>0, <1>p, <1>b, <1>4, TxUpdate DEF Woken, GroupTypes, Places, Leads, Leading,
     Unwritten, Written, Gone, Ending, Queued, Waiting
<1>5. CASE UpgradeLogicalLogHeader(t)
  BY Zenon, <1>0, <1>p, <1>b, <1>5, TxUpdate DEF UpgradeLogicalLogHeader, GroupTypes, Places, Leads,
     Leading, Unwritten, Written, Gone, Ending, Queued, Waiting
<1>6. CASE WriteLogicalLog(t)
  BY Zenon, <1>0, <1>p, <1>b, <1>6, TxUpdate DEF WriteLogicalLog, GroupTypes, Places, Leads,
     Leading, Unwritten, Written, Gone, Ending, Queued, Waiting
<1>7. CASE LogTxFails(t)
  BY Zenon, <1>0, <1>p, <1>b, <1>7, TxUpdate DEF LogTxFails, GroupTypes, Places, Leads, Leading,
     Unwritten, Written, Gone, Ending, Queued, Waiting
<1>8. CASE ClearIssued(t)
  BY Zenon, <1>0, <1>p, <1>b, <1>8, TxUpdate DEF ClearIssued, GroupTypes, Places, Leads, Leading,
     Unwritten, Written, Gone, Ending, Queued, Waiting
<1>9. CASE SyncFails(t)
  BY Zenon, <1>0, <1>p, <1>b, <1>9, TxUpdate DEF SyncFails, GroupTypes, Places, Leads, Leading,
     Unwritten, Written, Gone, Ending, Queued, Waiting
<1>10. CASE Abandon(t)
  BY Zenon, <1>0, <1>p, <1>b, <1>10, TxUpdate DEF Abandon, GroupTypes, Places, Leads, Leading,
     Unwritten, Written, Gone, Ending, Queued, Waiting
<1>11. CASE Leave(t)
  BY Zenon, <1>0, <1>p, <1>b, <1>11, TxUpdate DEF Leave, GroupTypes, Places, Leads, Leading,
     Unwritten, Written, Gone, Ending, Queued, Waiting
<1>12. CASE Await(t)
  BY Zenon, <1>0, <1>p, <1>b, <1>12, TxUpdate DEF Await, GroupTypes, Places, Leads, Leading,
     Unwritten, Written, Gone, Ending, Queued, Waiting
<1>13. CASE RetryUnderLock(t)
  BY Zenon, <1>0, <1>p, <1>b, <1>13, TxUpdate DEF RetryUnderLock, GroupTypes, Places, Leads,
     Leading, Unwritten, Written, Gone, Ending, Queued, Waiting
<1>14. CASE LeadSync(t)
  BY Zenon, <1>0, <1>p, <1>b, <1>14, TxUpdate DEF LeadSync, HoldLock, GroupTypes, Places, Leads,
     Leading, Unwritten, Written, Gone, Ending, Queued, Waiting
<1>15. CASE NoteWriteIssued(t)
  BY Zenon, <1>0, <1>p, <1>b, <1>15, TxUpdate DEF NoteWriteIssued, GroupTypes, Places, Leads,
     Leading, Unwritten, Written, Gone, Ending, Queued, Waiting
<1>16. CASE SetLogAppended(t)
  BY Zenon, <1>0, <1>p, <1>b, <1>16, TxUpdate DEF SetLogAppended, GroupTypes, Places, Leads,
     Leading, Unwritten, Written, Gone, Ending, Queued, Waiting
<1>17. CASE CommitEnd(t)
  BY Zenon, <1>0, <1>p, <1>b, <1>17, TxUpdate DEF CommitEnd, GroupTypes, Places, Leads, Leading,
     Unwritten, Written, Gone, Ending, Queued, Waiting
<1>18. CASE CleanupDroppedCommit(t)
  <2>1. state' \in [Tx -> {"Preparing", "Committed", "Aborted"}]
    <3>1. CASE LoggedWhenDropped(t)
      <4>1. state' = [state EXCEPT ![t] = "Committed"]
        BY Zenon, <1>18, <3>1 DEF CleanupDroppedCommit
      <4> QED
        BY Zenon, <1>0, <4>1, TxUpdate DEF GroupTypes
    <3>2. CASE ~LoggedWhenDropped(t)
      BY Zenon, <1>0, <1>18, <3>2 DEF CleanupDroppedCommit, GroupTypes
    <3> QED
      BY Zenon, <3>1, <3>2
  <2>2. pc' \in [Tx -> Places]
    BY Zenon, <1>0, <1>p, <1>18 DEF CleanupDroppedCommit, Places, Leads, Leading, Unwritten,
       Written, Gone, Ending, Queued, Waiting
  <2> QED
    BY Zenon, <1>0, <1>18, <2>1, <2>2 DEF CleanupDroppedCommit, GroupTypes
<1>19. CASE FinalizeCommit(t)
  BY Zenon, <1>0, <1>p, <1>b, <1>19, TxUpdate DEF FinalizeCommit, Finish, UnlockIfHeld, Unlocked,
     GroupTypes, Places, Leads, Leading, Unwritten, Written, Gone, Ending, Queued, Waiting
<1>20. CASE CompleteDropped(t)
  BY Zenon, <1>0, <1>p, <1>b, <1>20, TxUpdate DEF CompleteDropped, Finish, UnlockIfHeld, Unlocked,
     GroupTypes, Places, Leads, Leading, Unwritten, Written, Gone, Ending, Queued, Waiting
<1>21. CASE RollbackDropped(t)
  BY Zenon, <1>0, <1>p, <1>b, <1>21, TxUpdate DEF RollbackDropped, RolledBack, UnlockIfHeld,
     Unlocked, GroupTypes, Places, Leads, Leading, Unwritten, Written, Gone, Ending, Queued, Waiting
<1>22. CASE Enqueue(t)
  <2>1. next_ticket + 1 \in Nat \ {0}
    BY <1>0 DEF GroupTypes
  <2>2. [ticket |-> next_ticket + 1, tx |-> t] \in Rec
    BY <2>1 DEF Rec
  <2>3. pending' \in Seq(Rec)
    BY <1>0, <1>22, <2>2 DEF Enqueue, GroupTypes
  <2> QED
    BY Zenon, <1>0, <1>p, <1>22, <2>1, <2>3, TxUpdate DEF Enqueue, GroupTypes, Places, Leads,
       Leading, Unwritten, Written, Gone, Ending, Queued, Waiting
<1>23. CASE Lead(t)
  <2>1. /\ Head(pending) \in Rec /\ Tail(pending) \in Seq(Rec) /\ <<>> \in Seq(Rec)
    BY <1>0, <1>23 DEF Lead, GroupTypes
  <2>2. Rec \subseteq [ticket : Nat, tx : Tx \cup {None}]
    BY DEF Rec
  <2>3. [writing |-> Head(pending), rest |-> Tail(pending), advanced |-> 0] \in Batch
    BY <2>1, <2>2 DEF Batch
  <2>4. batch' \in [Tx -> Batch]
    BY Zenon, <1>0, <1>23, <2>3, TxUpdate DEF Lead, GroupTypes
  <2> QED
    BY Zenon, <1>0, <1>p, <1>b, <1>23, <2>1, <2>4 DEF Lead, HoldLock, GroupTypes, Places, Leads,
       Leading, Unwritten, Written, Gone, Ending, Queued, Waiting
<1>a. ASSUME Advance(t)
      PROVE  pc' \in [Tx -> Places] /\ batch' \in [Tx -> Batch]
  <2>1. CASE batch[t].rest = <<>>
    BY Zenon, <1>0, <1>a, <1>p, <2>1 DEF Advance, GroupTypes, Places, Leads, Leading, Unwritten,
       Written, Gone, Ending, Queued, Waiting
  <2>2. CASE batch[t].rest # <<>>
    BY Zenon, <1>0, <1>a, <1>p, <2>2, AdvanceNext DEF Places, Leads, Leading, Unwritten, Written,
       Gone, Ending, Queued, Waiting
  <2> QED
    BY Zenon, <2>1, <2>2
<1>24. CASE Skip(t)
  BY Zenon, <1>0, <1>a, <1>24 DEF Skip, GroupTypes
<1>25. CASE TakeAbandoned(t)
  <2>1. pc' \in [Tx -> Places] /\ batch' \in [Tx -> Batch]
    BY Zenon, <1>0, <1>a, <1>p, <1>25 DEF TakeAbandoned, GroupTypes, Places, Leads, Leading,
       Unwritten, Written, Gone, Ending, Queued, Waiting
  <2> QED
    BY Zenon, <1>0, <1>25, <2>1 DEF TakeAbandoned, GroupTypes
<1>26. CASE FinishAbandoned(t)
  <2>1. Owner(t) \in Tx
    <3>1. batch[t].writing \in Rec
      BY Zenon, <1>0, <1>26 DEF FinishAbandoned, LockRule, Leading, Written
    <3> QED
      BY <3>1 DEF Owner, Rec
  <2>2. state' \in [Tx -> {"Preparing", "Committed", "Aborted"}]
    BY Zenon, <1>0, <1>26, <2>1, TxUpdate DEF FinishAbandoned, GroupTypes
  <2> QED
    BY Zenon, <1>0, <1>a, <1>26, <2>2 DEF FinishAbandoned, GroupTypes
<1>27. CASE LogTx(t)
  <2>1. Owner(t) \in Tx \cup {None}
    BY <1>0 DEF Owner, GroupTypes, Batch
  <2> QED
    BY Zenon, <1>0, <1>p, <1>27, <2>1 DEF LogTx, GroupTypes, Places, Leads, Leading, Unwritten,
       Written, Gone, Ending, Queued, Waiting
<1>28. CASE MarkLogRecordWritten(t)
  <2>1. /\ batch' \in [Tx -> Batch] /\ batch[t].writing \in Rec
        /\ written_through' = Max(written_through, batch[t].writing.ticket)
        /\ full_sync_written_through' = FullMark(t)
    BY Zenon, <1>28, MarkFacts
  <2>2. batch[t].writing.ticket \in Nat
    BY <2>1 DEF Rec
  <2>3. written_through' \in Nat /\ full_sync_written_through' \in Nat
    BY Zenon, <1>0, <2>1, <2>2 DEF Max, FullMark, GroupTypes
  <2>4. file' \in Seq(Tx \cup {None})
    BY <1>0, <1>28 DEF MarkLogRecordWritten, GroupTypes
  <2> QED
    BY Zenon, <1>0, <1>p, <1>b, <1>28, <2>1, <2>3, <2>4 DEF MarkLogRecordWritten, GroupTypes,
       Places, Leads, Leading, Unwritten, Written, Gone, Ending, Queued, Waiting
<1>29. ASSUME NEW a, NEW b \in Places, SyncLog(t, a, b)
       PROVE  GroupTypes'
  <2>1. synced' \in Nat
    BY <1>0, <1>29 DEF SyncLog, GroupTypes
  <2> QED
    BY Zenon, <1>0, <1>p, <1>29, <2>1 DEF SyncLog, GroupTypes
<1>30. CASE SyncLogicalLog(t) \/ SyncGroupPrefix(t)
  BY Zenon, <1>29, <1>30 DEF SyncLogicalLog, SyncGroupPrefix, Places, Leads, Leading, Unwritten,
     Written, Gone, Ending, Queued, Waiting
<1>31. CASE GroupPrefixSynced(t)
  BY Zenon, <1>0, <1>p, <1>b, <1>31, DurableIs DEF GroupPrefixSynced, UnlockIfHeld, Unlocked,
     GroupTypes, Places, Leads, Leading, Unwritten, Written, Gone, Ending, Queued, Waiting
<1>32. CASE EndCommitLogicalLog(t)
  <2>1. NoBatch \in Batch
    BY DEF NoBatch, Batch
  <2>2. batch' \in [Tx -> Batch]
    BY Zenon, <1>0, <1>32, <2>1, TxUpdate DEF EndCommitLogicalLog, GroupTypes
  <2> QED
    BY Zenon, <1>0, <1>p, <1>32, <2>2, DurableIs DEF EndCommitLogicalLog, GroupTypes, Places, Leads,
       Leading, Unwritten, Written, Gone, Ending, Queued, Waiting
<1>33. CASE Drop(t)
  <2>0. pc' \in [Tx -> Places]
    BY Zenon, <1>p, <1>33 DEF Drop, Places, Leads, Leading, Unwritten, Written, Gone, Ending,
       Queued, Waiting
  <2>1. CASE DropWaiting(t)
    <3>1. pending' \in Seq(Rec)
      BY Zenon, <1>0, <2>1, WithoutType DEF DropWaiting, GroupTypes
    <3> QED
      BY Zenon, <1>0, <2>0, <2>1, <3>1 DEF DropWaiting, GroupTypes
  <2>2. CASE DropIdle(t)
    BY Zenon, <1>0, <2>0, <2>2 DEF DropIdle, GroupTypes
  <2>3. CASE DropLeading(t)
    <3>1. NoBatch \in Batch /\ batch[t] \in Batch
      BY <1>0 DEF NoBatch, Batch, GroupTypes
    <3>2. batch' \in [Tx -> Batch]
      BY Zenon, <1>0, <2>3, <3>1, TxUpdate DEF DropLeading, GroupTypes
    <3>3. batch[t].advanced \in Nat
      BY <3>1 DEF Batch
    <3>4. Max(written_through, batch[t].advanced) \in Nat
      BY Zenon, <1>0, <3>3 DEF Max, GroupTypes
    <3>5. ASSUME NEW m \in Nat, NEW n \in Nat \ {0}
          PROVE  Min(m, n - 1) \in Nat
      BY <3>5 DEF Min
    <3>6. written_through' \in Nat /\ durable_through' \in Nat /\ retry' \subseteq Nat
      <4> DEFINE noted == Max(written_through, batch[t].advanced)
                 n == batch[t].writing.ticket
      <4>1. CASE retry' = {} /\ written_through' = noted /\ durable_through' = durable_through
        BY Zenon, <1>0, <3>4, <4>1 DEF GroupTypes
      <4>2. CASE /\ retry' = {n} /\ n \in Nat \ {0} /\ written_through' = Min(noted, n - 1)
                 /\ durable_through' = Min(durable_through, n - 1)
        <5>1. noted \in Nat /\ durable_through \in Nat
          BY Zenon, <1>0, <3>4 DEF GroupTypes
        <5> HIDE DEF noted, n
        <5> QED
          BY Zenon, <3>5, <4>2, <5>1
      <4> QED
        BY Zenon, <2>3, <4>1, <4>2, DropLeadingFacts
    <3>7. /\ state' \in [Tx -> {"Preparing", "Committed", "Aborted"}]
          /\ txs' \subseteq Tx /\ dep_set' \subseteq Tx
      <4>1. CASE UNCHANGED <<state, dep_set, txs>>
        BY Zenon, <1>0, <4>1 DEF GroupTypes
      <4>2. CASE Owner(t) \in abandoned \cap txs /\ RolledBack(Owner(t))
        BY Zenon, <1>0, <4>2, TxUpdate DEF GroupTypes, RolledBack
      <4> QED
        BY Zenon, <2>3, <4>1, <4>2, DropLeadingFacts
    <3>8. pending' \in Seq(Rec)
      BY Zenon, <2>3, DropLeadingFacts
    <3> QED
      BY Zenon, <1>0, <1>b, <2>0, <2>3, <3>2, <3>6, <3>7, <3>8 DEF DropLeading, GroupTypes
  <2> QED
    BY Zenon, <1>33, <2>1, <2>2, <2>3 DEF Drop
<1> QED
  BY Zenon, <1>1, <1>2, <1>3, <1>4, <1>5, <1>6, <1>7, <1>8, <1>9, <1>10, <1>11, <1>12, <1>13, <1>14,
     <1>15, <1>16, <1>17, <1>18, <1>19, <1>20, <1>21, <1>22, <1>23, <1>24, <1>25, <1>26, <1>27,
     <1>28, <1>30, <1>31, <1>32, <1>33 DEF Step

(* The steps hand on the lock, and stage one write at a time. *)
LEMMA LeadStepKept ==
  ASSUME LeadInv, NEW t \in Tx, Step(t) \/ LogTxFails(t) \/ SyncFails(t) \/ Drop(t)
  PROVE  LeadStep(t)
<1> USE DEF Goto, queueVars, markVars, waitVars, lockVars, txVars, machVars, logVars
<1>0. /\ GroupTypes /\ LockRule(t) /\ StageRule(t)
  BY Zenon DEF LeadInv, LeadRules
<1>p. ASSUME NEW b, pc' = [pc EXCEPT ![t] = b]
      PROVE  pc'[t] = b /\ \A u \in Tx \ {t} : pc'[u] = pc[u]
  BY Zenon, <1>0, <1>p, TxUpdate DEF GroupTypes
<1>b. ASSUME NEW f \in [Tx -> BOOLEAN], NEW v
      PROVE  /\ [f EXCEPT ![t] = v][t] = v
             /\ \A u \in Tx \ {t} : [f EXCEPT ![t] = v][u] = f[u]
  BY Zenon, <1>b, TxUpdate
<1>n. pc[t] # "finish" => ~appending[t]
  BY Zenon, <1>0 DEF StageRule
<1>r. NoBatch.rest = <<>>
  BY DEF NoBatch
<1>q. pc[t] \notin Leading \cup {"failed", "endlog"} => batch[t] = NoBatch
  BY Zenon, <1>0 DEF LockRule
<1>1. CASE LockBusy(t)
  <2>1. /\ pc' = [pc EXCEPT ![t] = "park"] /\ retry' \subseteq retry
        /\ UNCHANGED <<batch, locked, lock_held, appending, crc_pending, tail>>
    BY Zenon, <1>1 DEF LockBusy
  <2> QED
    BY Zenon, <1>0, <1>n, <1>q, <1>r, <1>1, <2>1, QuietLead DEF LockBusy, Leads, Leading, Unwritten,
       Written
<1>2. CASE NoWork(t)
  <2>1. /\ pc' = [pc EXCEPT ![t] = "park"] /\ retry' \subseteq retry
        /\ UNCHANGED <<batch, locked, lock_held, appending, crc_pending, tail>>
    BY Zenon, <1>2 DEF NoWork
  <2> QED
    BY Zenon, <1>0, <1>n, <1>q, <1>r, <1>2, <2>1, QuietLead DEF NoWork, Leads, Leading, Unwritten,
       Written
<1>3. CASE Woken(t)
  <2>1. /\ pc' = [pc EXCEPT ![t] = "await"] /\ retry' \subseteq retry
        /\ UNCHANGED <<batch, locked, lock_held, appending, crc_pending, tail>>
    BY Zenon, <1>3 DEF Woken
  <2> QED
    BY Zenon, <1>0, <1>n, <1>q, <1>r, <1>3, <2>1, QuietLead DEF Woken, Leads, Leading, Unwritten,
       Written
<1>4. CASE UpgradeLogicalLogHeader(t)
  <2>1. /\ pc' = [pc EXCEPT ![t] = "write"] /\ retry' \subseteq retry
        /\ UNCHANGED <<batch, locked, lock_held, appending, crc_pending, tail>>
    BY Zenon, <1>4 DEF UpgradeLogicalLogHeader
  <2> QED
    BY Zenon, <1>0, <1>n, <1>q, <1>r, <1>4, <2>1, QuietLead DEF UpgradeLogicalLogHeader, Leads,
       Leading, Unwritten, Written
<1>5. CASE WriteLogicalLog(t)
  <2>1. /\ pc' = [pc EXCEPT ![t] = "logtx"] /\ retry' \subseteq retry
        /\ UNCHANGED <<batch, locked, lock_held, appending, crc_pending, tail>>
    BY Zenon, <1>5 DEF WriteLogicalLog
  <2> QED
    BY Zenon, <1>0, <1>n, <1>q, <1>r, <1>5, <2>1, QuietLead DEF WriteLogicalLog, Leads, Leading,
       Unwritten, Written
<1>6. CASE LogTxFails(t)
  <2>1. /\ pc' = [pc EXCEPT ![t] = "finish"] /\ retry' \subseteq retry
        /\ UNCHANGED <<batch, locked, lock_held, appending, crc_pending, tail>>
    BY Zenon, <1>6 DEF LogTxFails
  <2> QED
    BY Zenon, <1>0, <1>n, <1>q, <1>r, <1>6, <2>1, QuietLead DEF LogTxFails, Leads, Leading,
       Unwritten, Written
<1>7. CASE ClearIssued(t)
  <2>1. /\ pc' = [pc EXCEPT ![t] = "orphan"] /\ retry' \subseteq retry
        /\ UNCHANGED <<batch, locked, lock_held, appending, crc_pending, tail>>
    BY Zenon, <1>7 DEF ClearIssued
  <2> QED
    BY Zenon, <1>0, <1>n, <1>q, <1>r, <1>7, <2>1, QuietLead DEF ClearIssued, Leads, Leading,
       Unwritten, Written
<1>8. CASE Abandon(t)
  <2>1. /\ pc' = [pc EXCEPT ![t] = "left"] /\ retry' \subseteq retry
        /\ UNCHANGED <<batch, locked, lock_held, appending, crc_pending, tail>>
    BY Zenon, <1>8 DEF Abandon
  <2> QED
    BY Zenon, <1>0, <1>n, <1>q, <1>r, <1>8, <2>1, QuietLead DEF Abandon, Leads, Leading, Unwritten,
       Written
<1>9. CASE RetryUnderLock(t)
  <2>1. /\ pc' = [pc EXCEPT ![t] = "begin"] /\ retry' \subseteq retry
        /\ UNCHANGED <<batch, locked, lock_held, appending, crc_pending, tail>>
    BY Zenon, <1>9 DEF RetryUnderLock
  <2> QED
    BY Zenon, <1>0, <1>n, <1>q, <1>r, <1>9, <2>1, QuietLead DEF RetryUnderLock, Leads, Leading,
       Unwritten, Written
<1>10. CASE SetLogAppended(t)
  <2>1. /\ pc' = [pc EXCEPT ![t] = "clear"] /\ retry' \subseteq retry
        /\ UNCHANGED <<batch, locked, lock_held, appending, crc_pending, tail>>
    BY Zenon, <1>10 DEF SetLogAppended
  <2> QED
    BY Zenon, <1>0, <1>n, <1>q, <1>r, <1>10, <2>1, QuietLead DEF SetLogAppended, Leads, Leading,
       Unwritten, Written
<1>11. CASE CommitEnd(t)
  <2>1. /\ pc' = [pc EXCEPT ![t] = "finalize"] /\ retry' \subseteq retry
        /\ UNCHANGED <<batch, locked, lock_held, appending, crc_pending, tail>>
    BY Zenon, <1>11 DEF CommitEnd
  <2> QED
    BY Zenon, <1>0, <1>n, <1>q, <1>r, <1>11, <2>1, QuietLead DEF CommitEnd, Leads, Leading,
       Unwritten, Written
<1>12. CASE Enqueue(t)
  <2>1. /\ pc' = [pc EXCEPT ![t] = "await"] /\ retry' \subseteq retry
        /\ UNCHANGED <<batch, locked, lock_held, appending, crc_pending, tail>>
    BY Zenon, <1>12 DEF Enqueue
  <2> QED
    BY Zenon, <1>0, <1>n, <1>q, <1>r, <1>12, <2>1, QuietLead DEF Enqueue, Leads, Leading, Unwritten,
       Written
<1>13. CASE Park(t)
  <2>1. PICK b \in {"await", "asleep"} : pc' = [pc EXCEPT ![t] = b]
    BY Zenon, <1>13 DEF Park
  <2>2. retry' = retry /\ UNCHANGED <<batch, locked, lock_held, appending, crc_pending, tail>>
    BY Zenon, <1>13 DEF Park
  <2> QED
    BY Zenon, <1>0, <1>n, <1>q, <1>r, <1>13, <2>1, <2>2, QuietLead DEF Park, Leads, Leading,
       Unwritten, Written
<1>14. CASE Leave(t)
  <2>1. PICK b \in {"dropped", "panic"} : pc' = [pc EXCEPT ![t] = b]
    BY Zenon, <1>14 DEF Leave
  <2>2. retry' = retry /\ UNCHANGED <<batch, locked, lock_held, appending, crc_pending, tail>>
    BY Zenon, <1>14 DEF Leave
  <2> QED
    BY Zenon, <1>0, <1>n, <1>q, <1>r, <1>14, <2>1, <2>2, QuietLead DEF Leave, Leads, Leading,
       Unwritten, Written
<1>15. CASE CleanupDroppedCommit(t)
  <2>1. PICK b \in {"complete", "giveup"} : pc' = [pc EXCEPT ![t] = b]
    BY Zenon, <1>15 DEF CleanupDroppedCommit
  <2>2. /\ pc[t] = "cleanup" /\ retry' = retry
        /\ UNCHANGED <<batch, locked, lock_held, appending, crc_pending, tail>>
    BY Zenon, <1>15 DEF CleanupDroppedCommit
  <2> QED
    BY Zenon, <1>0, <1>n, <1>q, <1>r, <2>1, <2>2, QuietLead DEF Leads, Leading, Unwritten, Written
<1>16. CASE Await(t)
  <2>1. PICK b \in {"endlog", "begin", "lock"} : pc' = [pc EXCEPT ![t] = b]
    BY Zenon, <1>16 DEF Await
  <2>2. /\ pc[t] = "await" /\ retry' \subseteq retry
        /\ UNCHANGED <<batch, locked, lock_held, appending, crc_pending, tail>>
    BY Zenon, <1>16 DEF Await
  <2> QED
    BY Zenon, <1>0, <1>n, <1>q, <1>r, <2>1, <2>2, QuietLead DEF Leads, Leading, Unwritten, Written
<1>17. CASE SyncFails(t)
  <2>1. /\ pc' = [pc EXCEPT ![t] = "failed"] /\ pc[t] \in {"sync", "prefix"}
           /\ retry' \subseteq retry
        /\ UNCHANGED <<batch, locked, lock_held, appending, crc_pending, tail>>
    BY Zenon, <1>17 DEF SyncFails
  <2>2. batch[t].rest = <<>>
    BY Zenon, <1>0, <1>q, <1>r, <2>1 DEF LockRule, Leads, Leading, Unwritten, Written
  <2> QED
    BY Zenon, <1>0, <1>n, <1>q, <2>1, <2>2, QuietLead DEF Leads, Leading, Unwritten, Written
<1>18. CASE SyncLogicalLog(t)
  <2>1. /\ pc' = [pc EXCEPT ![t] = "endlog"] /\ pc[t] = "sync" /\ retry' \subseteq retry
        /\ UNCHANGED <<batch, locked, lock_held, appending, crc_pending, tail>>
    BY Zenon, <1>18 DEF SyncLogicalLog, SyncLog
  <2>2. batch[t].rest = <<>>
    BY Zenon, <1>0, <2>1 DEF LockRule
  <2> QED
    BY Zenon, <1>0, <1>n, <1>q, <2>1, <2>2, QuietLead DEF Leads, Leading, Unwritten, Written
<1>19. CASE SyncGroupPrefix(t)
  <2>1. /\ pc' = [pc EXCEPT ![t] = "prefixed"] /\ pc[t] = "prefix" /\ retry' \subseteq retry
        /\ UNCHANGED <<batch, locked, lock_held, appending, crc_pending, tail>>
    BY Zenon, <1>19 DEF SyncGroupPrefix, SyncLog
  <2> QED
    BY Zenon, <1>0, <1>n, <1>q, <2>1, QuietLead DEF Leads, Leading, Unwritten, Written
<1>w. ASSUME NEW b, b.writing \in Rec PROVE b # NoBatch
  BY <1>w DEF NoBatch, Rec
<1>20. CASE Lead(t)
  <2> DEFINE r == [writing |-> Head(pending), rest |-> Tail(pending), advanced |-> 0]
  <2>0. Head(pending) \in Rec /\ r.writing = Head(pending)
    BY <1>0, <1>20 DEF Lead, GroupTypes
  <2>a. /\ batch' = [batch EXCEPT ![t] = r] /\ pc' = [pc EXCEPT ![t] = "upgrade"] /\ retry = {}
        /\ ~locked /\ locked' /\ lock_held' = [lock_held EXCEPT ![t] = TRUE] /\ pc[t] = "lock"
        /\ UNCHANGED <<appending, crc_pending, tail, retry>>
    BY Zenon, <1>20 DEF Lead, HoldLock
  <2> HIDE DEF r
  <2>b. batch'[t] = r /\ \A u \in Tx \ {t} : batch'[u] = batch[u]
    BY Zenon, <1>0, <2>a, TxUpdate DEF GroupTypes
  <2>1. /\ OthersLead(t) /\ pc'[t] = "upgrade" /\ lock_held'[t]
    BY Zenon, <1>0, <1>p, <1>b, <2>a, <2>b DEF OthersLead, GroupTypes
  <2>2. LockRule(t)'
    BY Zenon, <1>w, <2>0, <2>a, <2>b, <2>1 DEF LockRule, Leads, Leading, Unwritten, Written
  <2>3. StageRule(t)'
    BY Zenon, <1>n, <2>a, <2>1 DEF StageRule
  <2> QED
    BY Zenon, <2>a, <2>1, <2>2, <2>3 DEF LeadStep
<1>21. CASE LeadSync(t)
  <2>a. /\ pc' = [pc EXCEPT ![t] = "prefix"] /\ pc[t] = "lock" /\ ~locked /\ locked'
        /\ lock_held' = [lock_held EXCEPT ![t] = TRUE]
        /\ UNCHANGED <<batch, appending, crc_pending, tail, retry>>
    BY Zenon, <1>21 DEF LeadSync, HoldLock, NothingToLead
  <2>1. OthersLead(t) /\ pc'[t] = "prefix" /\ lock_held'[t]
    BY Zenon, <1>0, <1>p, <1>b, <2>a DEF OthersLead, GroupTypes
  <2>2. LockRule(t)'
    BY Zenon, <1>0, <1>q, <2>a, <2>1 DEF LockRule, Leads, Leading, Unwritten, Written
  <2>3. StageRule(t)'
    BY Zenon, <1>n, <2>a, <2>1 DEF StageRule
  <2> QED
    BY Zenon, <2>a, <2>1, <2>2, <2>3 DEF LeadStep
<1>22. CASE LogTx(t)
  <2>a. /\ pc' = [pc EXCEPT ![t] = "issue"] /\ pc[t] = "logtx" /\ tail' = Owner(t) /\ crc_pending'
        /\ UNCHANGED <<batch, locked, lock_held, appending, retry>>
    BY Zenon, <1>22 DEF LogTx
  <2>1. OthersLead(t) /\ pc'[t] = "issue"
    BY Zenon, <1>p, <2>a DEF OthersLead
  <2>2. LockRule(t)' /\ lock_held[t]
    BY Zenon, <1>0, <2>a, <2>1 DEF LockRule, Leads, Leading, Unwritten, Written
  <2>3. StageRule(t)'
    BY Zenon, <1>n, <2>a, <2>1 DEF StageRule, Owner
  <2> QED
    BY Zenon, <2>a, <2>1, <2>2, <2>3 DEF LeadStep
<1>23. CASE NoteWriteIssued(t)
  <2>a. /\ pc' = [pc EXCEPT ![t] = "finish"] /\ pc[t] = "issue"
        /\ appending' = [appending EXCEPT ![t] = TRUE]
        /\ UNCHANGED <<batch, locked, lock_held, crc_pending, tail, retry>>
    BY Zenon, <1>23 DEF NoteWriteIssued
  <2>1. OthersLead(t) /\ pc'[t] = "finish"
    BY Zenon, <1>0, <1>p, <1>b, <2>a DEF OthersLead, GroupTypes
  <2>2. LockRule(t)'
    BY Zenon, <1>0, <2>a, <2>1 DEF LockRule, Leads, Leading, Unwritten, Written
  <2>3. StageRule(t)'
    BY Zenon, <1>0, <2>a, <2>1 DEF StageRule, Owner
  <2> QED
    BY Zenon, <2>a, <2>1, <2>2, <2>3 DEF LeadStep
<1>24. CASE MarkLogRecordWritten(t)
  <2>a. /\ pc' = [pc EXCEPT ![t] = "appended"] /\ pc[t] = "finish"
        /\ appending' = [appending EXCEPT ![t] = FALSE]
        /\ UNCHANGED <<locked, lock_held, retry>>
    BY Zenon, <1>24 DEF MarkLogRecordWritten
  <2>b. /\ \A u \in Tx \ {t} : batch'[u] = batch[u]
        /\ batch'[t].writing \in Rec /\ lock_held[t]
    BY Zenon, <1>24, MarkFacts
  <2>1. OthersLead(t) /\ pc'[t] = "appended" /\ ~appending'[t]
    BY Zenon, <1>0, <1>p, <1>b, <2>a, <2>b DEF OthersLead, GroupTypes
  <2>2. LockRule(t)'
    BY Zenon, <1>0, <1>w, <2>a, <2>b, <2>1 DEF LockRule, Leads, Leading, Unwritten, Written
  <2>3. StageRule(t)'
    BY Zenon, <2>1 DEF StageRule
  <2> QED
    BY Zenon, <2>a, <2>b, <2>1, <2>2, <2>3 DEF LeadStep
<1>a. ASSUME Advance(t), pc[t] \in {"upgrade", "write", "orphan", "adopt"},
             UNCHANGED <<locked, lock_held, appending, crc_pending, tail, retry>>
      PROVE  LeadStep(t)
  <2>0. ~appending[t] /\ lock_held[t] /\ batch[t].writing \in Rec /\ batch[t] # NoBatch
        /\ retry = {}
    BY Zenon, <1>0, <1>n, <1>a DEF LockRule, Leads, Leading, Unwritten, Written
  <2>1. CASE batch[t].rest = <<>>
    <3>1. pc' = [pc EXCEPT ![t] = "sync"] /\ batch' = batch
      BY Zenon, <1>a, <2>1 DEF Advance
    <3> QED
      BY Zenon, <1>a, <2>0, <2>1, <3>1, QuietLead DEF Leads, Leading, Unwritten, Written
  <2>2. CASE batch[t].rest # <<>>
    <3>1. /\ pc'[t] = "upgrade" /\ OthersLead(t) /\ batch'[t].writing \in Rec
      BY Zenon, <1>0, <1>a, <1>p, <2>2, AdvanceNext DEF OthersLead
    <3>2. LockRule(t)'
      BY Zenon, <1>0, <1>a, <1>w, <2>0, <3>1 DEF LockRule, Leads, Leading, Unwritten, Written
    <3>3. StageRule(t)'
      BY Zenon, <1>a, <2>0, <3>1 DEF StageRule
    <3> QED
      BY Zenon, <1>a, <2>0, <3>1, <3>2, <3>3 DEF LeadStep
  <2> QED
    BY Zenon, <2>1, <2>2
<1>25. CASE Skip(t)
  BY Zenon, <1>a, <1>25 DEF Skip
<1>26. CASE TakeAbandoned(t)
  <2>a. pc[t] = "orphan" /\ UNCHANGED <<locked, lock_held, appending, crc_pending, tail, retry>>
    BY Zenon, <1>26 DEF TakeAbandoned
  <2>1. CASE Advance(t)
    BY Zenon, <1>a, <2>a, <2>1
  <2>2. CASE pc' = [pc EXCEPT ![t] = "adopt"] /\ batch' = batch
    BY Zenon, <1>n, <2>a, <2>2, QuietLead DEF Leads, Leading, Unwritten, Written
  <2> QED
    BY Zenon, <1>26, <2>1, <2>2 DEF TakeAbandoned
<1>27. CASE FinishAbandoned(t)
  BY Zenon, <1>a, <1>27 DEF FinishAbandoned
<1>u. ASSUME NEW b, pc' = [pc EXCEPT ![t] = b], Unlocked(t), b \notin Leads \cup {"endlog"},
             pc[t] \notin Leading \cup {"failed", "endlog"},
             UNCHANGED <<batch, appending, crc_pending, tail, retry>>
      PROVE  LeadStep(t)
  <2>a. locked' = (locked /\ ~lock_held[t]) /\ lock_held' = [lock_held EXCEPT ![t] = FALSE]
    BY Zenon, <1>u DEF Unlocked
  <2>1. OthersLead(t) /\ pc'[t] = b /\ ~lock_held'[t]
    BY Zenon, <1>0, <1>p, <1>b, <1>u, <2>a DEF OthersLead, GroupTypes
  <2>2. LockRule(t)'
    BY Zenon, <1>q, <1>u, <2>1 DEF LockRule, Leads, Leading, Unwritten, Written
  <2>3. StageRule(t)'
    BY Zenon, <1>n, <1>u, <2>1 DEF StageRule, Leads, Leading, Unwritten, Written
  <2> QED
    BY Zenon, <1>u, <2>a, <2>1, <2>2, <2>3 DEF LeadStep
<1>28. CASE GroupPrefixSynced(t)
  BY Zenon, <1>u, <1>28 DEF GroupPrefixSynced, UnlockIfHeld, Leads, Leading, Unwritten, Written
<1>29. CASE FinalizeCommit(t)
  BY Zenon, <1>u, <1>29 DEF FinalizeCommit, Finish, UnlockIfHeld, Leads, Leading, Unwritten, Written
<1>30. CASE CompleteDropped(t)
  BY Zenon, <1>u, <1>30 DEF CompleteDropped, Finish, UnlockIfHeld, Leads, Leading, Unwritten,
     Written
<1>31. CASE RollbackDropped(t)
  BY Zenon, <1>u, <1>31 DEF RollbackDropped, UnlockIfHeld, Leads, Leading, Unwritten, Written
<1>32. CASE EndCommitLogicalLog(t)
  <2>a. /\ pc' = [pc EXCEPT ![t] = "commit"] /\ pc[t] = "endlog"
        /\ batch' = [batch EXCEPT ![t] = NoBatch]
        /\ UNCHANGED <<locked, lock_held, appending, crc_pending, tail, retry>>
    BY Zenon, <1>32 DEF EndCommitLogicalLog
  <2>1. OthersLead(t) /\ pc'[t] = "commit" /\ batch'[t] = NoBatch
    BY Zenon, <1>0, <1>p, <2>a, TxUpdate DEF OthersLead, GroupTypes
  <2>2. LockRule(t)'
    BY Zenon, <1>0, <2>a, <2>1 DEF LockRule, Leads, Leading, Unwritten, Written
  <2>3. StageRule(t)'
    BY Zenon, <1>n, <2>a, <2>1 DEF StageRule
  <2> QED
    BY Zenon, <2>a, <2>1, <2>2, <2>3 DEF LeadStep
<1>33. CASE Drop(t)
  <2>0. pc' = [pc EXCEPT ![t] = "cleanup"]
    BY Zenon, <1>33 DEF Drop
  <2>1. CASE DropWaiting(t)
    BY Zenon, <1>n, <1>q, <2>0, <2>1, QuietLead DEF DropWaiting, Leads, Leading, Unwritten, Written
  <2>2. CASE DropIdle(t)
    <3>1. ~appending[t]
      BY Zenon, <1>0, <2>2 DEF DropIdle, StageRule, LockRule, Leads, Leading, Unwritten, Written
    <3> QED
      BY Zenon, <2>0, <2>2, <3>1, QuietLead DEF DropIdle, Leads, Leading, Unwritten, Written
  <2>3. CASE DropLeading(t)
    <3>a. /\ batch' = [batch EXCEPT ![t] = NoBatch] /\ appending' = [appending EXCEPT ![t] = FALSE]
          /\ UNCHANGED <<locked, lock_held>> /\ batch[t] # NoBatch
      BY Zenon, <2>3 DEF DropLeading
    <3>b. batch'[t] = NoBatch /\ \A u \in Tx \ {t} : batch'[u] = batch[u]
      BY Zenon, <1>0, <3>a, TxUpdate DEF GroupTypes
    <3>1. OthersLead(t) /\ pc'[t] = "cleanup" /\ batch'[t] = NoBatch /\ ~appending'[t]
      BY Zenon, <1>0, <1>p, <1>b, <2>0, <3>a, <3>b DEF OthersLead, GroupTypes
    <3>2. LockRule(t)' /\ lock_held[t]
      BY Zenon, <1>0, <3>a, <3>1 DEF LockRule, Leads, Leading, Unwritten, Written
    <3>3. StageRule(t)'
      BY Zenon, <3>1 DEF StageRule
    <3> QED
      BY Zenon, <3>a, <3>1, <3>2, <3>3 DEF LeadStep
  <2> QED
    BY Zenon, <1>33, <2>1, <2>2, <2>3 DEF Drop
<1> QED
  BY Zenon, <1>1, <1>2, <1>3, <1>4, <1>5, <1>6, <1>7, <1>8, <1>9, <1>10, <1>11, <1>12, <1>13, <1>14,
     <1>15, <1>16, <1>17, <1>18, <1>19, <1>20, <1>21, <1>22, <1>23, <1>24, <1>25, <1>26, <1>27,
     <1>28, <1>29, <1>30, <1>31, <1>32, <1>33 DEF Step

(* Who leaves txs is gone, and says so before: what a step must show.          *)
LEMMA GoneKept ==
  ASSUME LeadInv, NEW t \in Tx, LeadStep(t),
         pc[t] \in Gone => pc'[t] \in Gone,
         pc[t] # "acked",
         pc'[t] = "adopt" => Owner(t)' = Owner(t) /\ pc[Owner(t)] \in Gone,
         \A u \in abandoned' : u \in abandoned \/ pc'[u] \in Gone,
         \A u \in Tx : u \notin txs' => u \notin txs \/ pc'[u] \in Gone \cup {"acked"},
         \A u \in dep_set' \ txs' :
            (u \in dep_set \ txs /\ state'[u] = state[u])
              \/ (pc'[u] \in Gone /\ state'[u] = "Committed"),
         NEW u \in Tx
  PROVE  GoneRule(u)'
<1>0. \A v \in Tx : GoneRule(v)
  BY Zenon DEF LeadInv, LeadRules
<1>o. OthersLead(t)
  BY Zenon DEF LeadStep
<1>1. \A v \in Tx : pc[v] \in Gone => pc'[v] \in Gone
  BY Zenon, <1>o DEF OthersLead
<1>2. \A v \in Tx : pc[v] = "acked" => pc'[v] = "acked"
  BY Zenon, <1>o DEF OthersLead
<1>3. u \notin txs' => pc'[u] \in Gone \cup {"acked"}
  BY Zenon, <1>0, <1>1, <1>2 DEF GoneRule
<1>4. u \in abandoned' => pc'[u] \in Gone
  BY Zenon, <1>0, <1>1 DEF GoneRule
<1>5. u \in dep_set' \ txs' => pc'[u] \in Gone /\ state'[u] = "Committed"
  BY Zenon, <1>0, <1>1 DEF GoneRule
<1>6. pc'[u] = "adopt" => pc'[Owner(u)'] \in Gone
  <2>1. ASSUME pc'[u] = "adopt"
        PROVE  Owner(u)' = Owner(u) /\ pc[Owner(u)] \in Gone
    <3>1. CASE u = t
      BY Zenon, <2>1, <3>1
    <3>2. CASE u # t
      BY Zenon, <1>0, <1>o, <2>1, <3>2 DEF OthersLead, GoneRule, Owner
    <3> QED
      BY Zenon, <3>1, <3>2
  <2>2. ASSUME pc'[u] = "adopt"
        PROVE  Owner(u)' \in Tx
    <3>1. batch'[u].writing \in Rec
      BY Zenon, <2>2, LockKept DEF LockRule, Leading, Written
    <3> QED
      BY <3>1 DEF Owner, Rec
  <2> QED
    BY Zenon, <1>1, <2>1, <2>2
<1> QED
  BY Zenon, <1>3, <1>4, <1>5, <1>6 DEF GoneRule

(* Every step tells who is gone. *)
LEMMA GoneStep ==
  ASSUME LeadInv, NEW t \in Tx, Step(t) \/ LogTxFails(t) \/ SyncFails(t) \/ Drop(t), NEW u \in Tx
  PROVE  GoneRule(u)'
<1> USE DEF Goto, queueVars, markVars, waitVars, lockVars, txVars, machVars, logVars
<1>0. /\ GroupTypes /\ LockRule(t) /\ LeadStep(t) /\ OthersLead(t) /\ \A v \in Tx : GoneRule(v)
  BY Zenon, LeadStepKept DEF LeadInv, LeadRules, LeadStep
<1>p. ASSUME NEW b, pc' = [pc EXCEPT ![t] = b]
      PROVE  pc'[t] = b /\ \A v \in Tx \ {t} : pc'[v] = pc[v]
  BY Zenon, <1>0, <1>p, TxUpdate DEF GroupTypes
<1>s. ASSUME NEW o \in Tx, NEW x, state' = [state EXCEPT ![o] = x]
      PROVE  state'[o] = x /\ \A v \in Tx \ {o} : state'[v] = state[v]
  BY Zenon, <1>0, <1>s, TxUpdate DEF GroupTypes
<1>d. \A v \in dep_set : v \in Tx
  BY Zenon, <1>0 DEF GroupTypes
<1>q. ASSUME UNCHANGED <<txs, dep_set>>, abandoned' \subseteq abandoned,
             \/ state' = state \/ (t \in txs /\ \E x : state' = [state EXCEPT ![t] = x]),
             pc[t] \notin Gone \cup {"acked"}, pc'[t] # "adopt"
      PROVE  GoneRule(u)'
  <2>1. \A v \in dep_set' \ txs' : v \in dep_set \ txs /\ state'[v] = state[v]
    BY Zenon, <1>d, <1>q, <1>s
  <2> QED
    BY Zenon, <1>0, <1>q, <2>1, GoneKept
<1>1. CASE LockBusy(t)
  BY Zenon, <1>p, <1>q, <1>1 DEF LockBusy, Gone
<1>2. CASE NoWork(t)
  BY Zenon, <1>p, <1>q, <1>2 DEF NoWork, Gone
<1>3. CASE Park(t)
  BY Zenon, <1>p, <1>q, <1>3 DEF Park, Gone
<1>4. CASE Woken(t)
  BY Zenon, <1>p, <1>q, <1>4 DEF Woken, Gone
<1>5. CASE UpgradeLogicalLogHeader(t)
  BY Zenon, <1>p, <1>q, <1>5 DEF UpgradeLogicalLogHeader, Gone
<1>6. CASE WriteLogicalLog(t)
  BY Zenon, <1>p, <1>q, <1>6 DEF WriteLogicalLog, Gone
<1>7. CASE LogTxFails(t)
  BY Zenon, <1>p, <1>q, <1>7 DEF LogTxFails, Gone
<1>8. CASE ClearIssued(t)
  BY Zenon, <1>p, <1>q, <1>8 DEF ClearIssued, Gone
<1>9. CASE SyncFails(t)
  BY Zenon, <1>p, <1>q, <1>9 DEF SyncFails, Gone
<1>10. CASE Await(t)
  BY Zenon, <1>p, <1>q, <1>10 DEF Await, Gone
<1>11. CASE RetryUnderLock(t)
  BY Zenon, <1>p, <1>q, <1>11 DEF RetryUnderLock, Gone
<1>12. CASE LeadSync(t)
  BY Zenon, <1>p, <1>q, <1>12 DEF LeadSync, Gone
<1>13. CASE NoteWriteIssued(t)
  BY Zenon, <1>p, <1>q, <1>13 DEF NoteWriteIssued, Gone
<1>14. CASE SetLogAppended(t)
  BY Zenon, <1>p, <1>q, <1>14 DEF SetLogAppended, Gone
<1>15. CASE Enqueue(t)
  BY Zenon, <1>p, <1>q, <1>15 DEF Enqueue, Gone
<1>16. CASE Lead(t)
  BY Zenon, <1>p, <1>q, <1>16 DEF Lead, Gone
<1>17. CASE LogTx(t)
  BY Zenon, <1>p, <1>q, <1>17 DEF LogTx, Gone
<1>18. CASE MarkLogRecordWritten(t)
  BY Zenon, <1>p, <1>q, <1>18 DEF MarkLogRecordWritten, Gone
<1>19. CASE SyncLogicalLog(t)
  BY Zenon, <1>p, <1>q, <1>19 DEF SyncLogicalLog, SyncLog, Gone
<1>20. CASE SyncGroupPrefix(t)
  BY Zenon, <1>p, <1>q, <1>20 DEF SyncGroupPrefix, SyncLog, Gone
<1>21. CASE GroupPrefixSynced(t)
  BY Zenon, <1>p, <1>q, <1>21 DEF GroupPrefixSynced, Gone
<1>22. CASE EndCommitLogicalLog(t)
  BY Zenon, <1>p, <1>q, <1>22 DEF EndCommitLogicalLog, Gone
<1>23. CASE CommitEnd(t)
  <2>1. pc[t] = "commit" /\ pc'[t] = "finalize"
    BY Zenon, <1>p, <1>23 DEF CommitEnd
  <2>2. t \in txs
    BY Zenon, <1>0, <2>1 DEF GoneRule, Gone
  <2> QED
    BY Zenon, <1>q, <1>23, <2>1, <2>2 DEF CommitEnd, Gone
<1>24. CASE CleanupDroppedCommit(t)
  <2>1. /\ pc[t] = "cleanup" /\ pc'[t] # "adopt" /\ UNCHANGED <<txs, dep_set, abandoned>>
        /\ state' = state \/ state' = [state EXCEPT ![t] = "Committed"]
    BY Zenon, <1>p, <1>24 DEF CleanupDroppedCommit
  <2>2. t \in txs
    BY Zenon, <1>0, <2>1 DEF GoneRule, Gone
  <2> QED
    BY Zenon, <1>q, <2>1, <2>2 DEF Gone
<1>a. ASSUME Advance(t) PROVE pc'[t] # "adopt"
  <2>1. PICK b \in {"sync", "upgrade"} : pc' = [pc EXCEPT ![t] = b]
    BY Zenon, <1>a DEF Advance
  <2> QED
    BY Zenon, <1>p, <2>1
<1>25. CASE Skip(t)
  BY Zenon, <1>a, <1>q, <1>25 DEF Skip, Gone
<1>26. CASE TakeAbandoned(t)
  <2>0. pc[t] = "orphan" /\ UNCHANGED <<txs, dep_set, state>> /\ abandoned' \subseteq abandoned
    BY Zenon, <1>26 DEF TakeAbandoned
  <2>1. CASE Advance(t)
    BY Zenon, <1>a, <1>q, <2>0, <2>1 DEF Gone
  <2>2. CASE Owner(t) \in abandoned /\ pc' = [pc EXCEPT ![t] = "adopt"] /\ batch' = batch
    <3>1. Owner(t)' = Owner(t) /\ pc'[t] = "adopt"
      BY Zenon, <1>p, <2>2 DEF Owner
    <3>2. batch[t].writing \in Rec
      BY Zenon, <1>0, <2>0 DEF LockRule, Leading, Written
    <3>3. Owner(t) \in Tx
      BY <3>2 DEF Owner, Rec
    <3>4. pc[Owner(t)] \in Gone
      BY Zenon, <1>0, <2>2, <3>3 DEF GoneRule
    <3> QED
      BY Zenon, <1>0, <2>0, <3>1, <3>4, GoneKept DEF Gone
  <2> QED
    BY Zenon, <1>26, <2>1, <2>2 DEF TakeAbandoned
<1>27. CASE FinishAbandoned(t)
  <2>0. /\ pc[t] = "adopt" /\ pc'[t] # "adopt" /\ UNCHANGED <<dep_set, abandoned>>
        /\ state' = [state EXCEPT ![Owner(t)] = "Committed"] /\ txs' = txs \ {Owner(t)}
    BY Zenon, <1>a, <1>27 DEF FinishAbandoned
  <2>1. batch[t].writing \in Rec
    BY Zenon, <1>0, <2>0 DEF LockRule, Leading, Written
  <2>2. Owner(t) \in Tx
    BY <2>1 DEF Owner, Rec
  <2>3. pc[Owner(t)] \in Gone
    BY Zenon, <1>0, <2>0 DEF GoneRule
  <2>4. pc'[Owner(t)] \in Gone
    BY Zenon, <1>0, <2>0, <2>2, <2>3 DEF OthersLead, Gone
  <2>5. \A v \in dep_set' \ txs' :
          (v \in dep_set \ txs /\ state'[v] = state[v])
            \/ (pc'[v] \in Gone /\ state'[v] = "Committed")
    BY Zenon, <1>d, <1>s, <2>0, <2>2, <2>4
  <2> QED
    BY Zenon, <1>0, <2>0, <2>4, <2>5, GoneKept DEF Gone
<1>f. ASSUME NEW b \in Gone \cup {"acked"}, pc' = [pc EXCEPT ![t] = b], txs' = txs \ {t},
             dep_set' = dep_set \ {t}, abandoned' = abandoned, pc[t] \notin Gone \cup {"acked"},
             \E x : state' = [state EXCEPT ![t] = x] \/ state' = state
      PROVE  GoneRule(u)'
  <2>1. pc'[t] = b /\ pc'[t] # "adopt"
    BY Zenon, <1>f, <1>p DEF Gone
  <2>2. \A v \in dep_set' \ txs' : v \in dep_set \ txs /\ state'[v] = state[v]
    BY Zenon, <1>d, <1>f, <1>s
  <2> QED
    BY Zenon, <1>0, <1>f, <2>1, <2>2, GoneKept DEF Gone
<1>28. CASE FinalizeCommit(t)
  BY Zenon, <1>f, <1>28 DEF FinalizeCommit, Finish, Gone
<1>29. CASE CompleteDropped(t)
  BY Zenon, <1>f, <1>29 DEF CompleteDropped, Finish, Gone
<1>30. CASE RollbackDropped(t)
  BY Zenon, <1>f, <1>30 DEF RollbackDropped, RolledBack, Gone
<1>31. CASE Abandon(t)
  <2>1. pc[t] = "giveup" /\ pc'[t] = "left" /\ abandoned' = abandoned \cup {t}
        /\ UNCHANGED <<txs, dep_set, state>>
    BY Zenon, <1>p, <1>31 DEF Abandon
  <2> QED
    BY Zenon, <1>0, <2>1, GoneKept DEF Gone
<1>32. CASE Leave(t)
  <2>1. pc[t] = "left" /\ pc'[t] \in {"dropped", "panic"}
        /\ UNCHANGED <<abandoned, txs, dep_set, state>>
    BY Zenon, <1>p, <1>32 DEF Leave
  <2> QED
    BY Zenon, <1>0, <2>1, GoneKept DEF Gone
<1>33. CASE Drop(t)
  <2>0. pc'[t] = "cleanup" /\ pc[t] \notin Gone \cup {"acked"}
    BY Zenon, <1>p, <1>33 DEF Drop, YieldPoints, Gone
  <2>1. CASE DropWaiting(t) \/ DropIdle(t)
    BY Zenon, <1>q, <2>0, <2>1 DEF DropWaiting, DropIdle
  <2>2. CASE DropLeading(t)
    <3>1. CASE UNCHANGED <<state, dep_set, txs>>
      BY Zenon, <1>q, <2>0, <2>2, <3>1, DropLeadingFacts
    <3>2. CASE Owner(t) \in abandoned \cap txs /\ RolledBack(Owner(t))
      <4>1. /\ state' = [state EXCEPT ![Owner(t)] = "Aborted"] /\ abandoned' \subseteq abandoned
            /\ dep_set' = dep_set \ {Owner(t)} /\ txs' = txs \ {Owner(t)}
        BY Zenon, <2>2, <3>2, DropLeadingFacts DEF RolledBack
      <4>2. Owner(t) \in Tx /\ Owner(t) \in abandoned
        BY Zenon, <1>0, <3>2 DEF GroupTypes
      <4>3. pc[Owner(t)] \in Gone
        BY Zenon, <1>0, <4>2 DEF GoneRule
      <4>4. pc'[Owner(t)] \in Gone
        BY Zenon, <1>0, <2>0, <4>2, <4>3 DEF OthersLead
      <4>5. \A v \in dep_set' \ txs' : v \in dep_set \ txs /\ state'[v] = state[v]
        BY Zenon, <1>d, <1>s, <4>1, <4>2
      <4> QED
        BY Zenon, <1>0, <2>0, <4>1, <4>4, <4>5, GoneKept
    <3> QED
      BY Zenon, <2>2, <3>1, <3>2, DropLeadingFacts
  <2> QED
    BY Zenon, <1>33, <2>1, <2>2 DEF Drop
<1> QED
  BY Zenon, <1>1, <1>2, <1>3, <1>4, <1>5, <1>6, <1>7, <1>8, <1>9, <1>10, <1>11, <1>12, <1>13, <1>14,
     <1>15, <1>16, <1>17, <1>18, <1>19, <1>20, <1>21, <1>22, <1>23, <1>24, <1>25, <1>26, <1>27,
     <1>28, <1>29, <1>30, <1>31, <1>32, <1>33 DEF Step

(* No step moves the watermark over a ticket that is to be retried. *)
LEMMA HolesKept ==
  ASSUME LeadInv, NEW t \in Tx, Step(t) \/ LogTxFails(t) \/ SyncFails(t) \/ Drop(t)
  PROVE  HoleRule'
<1> USE DEF queueVars, markVars, waitVars
<1>0. GroupTypes /\ HoleRule
  BY Zenon DEF LeadInv, LeadRules
<1>1. CASE retry' \subseteq retry /\ written_through' = written_through
  BY Zenon, <1>0, <1>1 DEF HoleRule
<1>2. CASE MarkLogRecordWritten(t)
  <2>1. retry' = retry /\ retry = {}
    BY Zenon, <1>2, MarkFacts DEF MarkLogRecordWritten
  <2> QED
    BY Zenon, <2>1 DEF HoleRule
<1>3. CASE DropLeading(t)
  <2> DEFINE n == batch[t].writing.ticket
             noted == Max(written_through, batch[t].advanced)
  <2>1. CASE retry' = {}
    BY Zenon, <2>1 DEF HoleRule
  <2>2. CASE retry' = {n} /\ n \in Nat \ {0} /\ written_through' = Min(noted, n - 1)
    <3>1. batch[t].advanced \in Nat
      BY <1>0 DEF GroupTypes, Batch
    <3>2. noted \in Nat
      BY Zenon, <1>0, <3>1 DEF GroupTypes, Max
    <3> HIDE DEF noted, n
    <3>3. n > Min(noted, n - 1)
      BY <2>2, <3>2 DEF Min
    <3> QED
      BY Zenon, <2>2, <3>3 DEF HoleRule
  <2> QED
    BY Zenon, <1>3, <2>1, <2>2, DropLeadingFacts
<1>4. CASE DropWaiting(t) \/ DropIdle(t)
  BY Zenon, <1>1, <1>4 DEF DropWaiting, DropIdle
<1>5. CASE LogTxFails(t) \/ SyncFails(t)
  BY Zenon, <1>1, <1>5 DEF LogTxFails, SyncFails
<1>6. CASE Enqueue(t) \/ Await(t) \/ LockBusy(t) \/ RetryUnderLock(t) \/ Lead(t) \/ LeadSync(t)
  BY Zenon, <1>1, <1>6 DEF Enqueue, Await, LockBusy, RetryUnderLock, Lead, LeadSync
<1>7. CASE NoWork(t) \/ Park(t) \/ Woken(t) \/ Skip(t) \/ UpgradeLogicalLogHeader(t)
           \/ WriteLogicalLog(t)
  BY Zenon, <1>1, <1>7 DEF NoWork, Park, Woken, Skip, UpgradeLogicalLogHeader, WriteLogicalLog
<1>8. CASE LogTx(t) \/ NoteWriteIssued(t) \/ SetLogAppended(t) \/ ClearIssued(t)
           \/ TakeAbandoned(t) \/ FinishAbandoned(t)
  BY Zenon, <1>1, <1>8 DEF LogTx, NoteWriteIssued, SetLogAppended, ClearIssued, TakeAbandoned,
     FinishAbandoned
<1>9. CASE SyncLogicalLog(t) \/ SyncGroupPrefix(t) \/ GroupPrefixSynced(t)
           \/ EndCommitLogicalLog(t) \/ CommitEnd(t) \/ FinalizeCommit(t)
  BY Zenon, <1>1, <1>9 DEF SyncLogicalLog, SyncGroupPrefix, GroupPrefixSynced, EndCommitLogicalLog,
     CommitEnd, FinalizeCommit, SyncLog, Finish
<1>10. CASE CleanupDroppedCommit(t) \/ CompleteDropped(t) \/ Abandon(t)
            \/ RollbackDropped(t) \/ Leave(t)
  BY Zenon, <1>1, <1>10 DEF CleanupDroppedCommit, CompleteDropped, Abandon, RollbackDropped, Leave,
     Finish
<1> QED
  BY Zenon, <1>2, <1>3, <1>4, <1>5, <1>6, <1>7, <1>8, <1>9, <1>10 DEF Step, Drop

(* The lock, the staged write and who is gone: the invariant holds at first ... *)
LEMMA InitLead == GroupInit => LeadInv
<1> SUFFICES ASSUME GroupInit PROVE LeadInv
  OBVIOUS
<1>1. NoBatch \in Batch
  BY DEF NoBatch, Batch
<1>2. GroupTypes
  <2>1. 0 \in Nat /\ <<>> \in Seq(Rec) /\ <<>> \in Seq(Tx \cup {None}) /\ "begin" \in Places
    BY DEF Places
  <2>2. Observed \subseteq Tx
    BY Zenon, GroupConstants
  <2> QED
    BY Zenon, <1>1, <2>1, <2>2 DEF GroupInit, GroupTypes
<1>3. ASSUME NEW t \in Tx
      PROVE  pc[t] = "begin" /\ ~lock_held[t] /\ batch[t] = NoBatch /\ ~appending[t] /\ t \in txs
  BY <1>3 DEF GroupInit
<1>4. abandoned = {} /\ retry = {} /\ dep_set \subseteq txs
  BY GroupConstants DEF GroupInit
<1>5. HoleRule
  BY Zenon, <1>4 DEF HoleRule
<1>6. \A t \in Tx : LockRule(t) /\ StageRule(t) /\ GoneRule(t)
  BY Zenon, <1>3, <1>4 DEF LockRule, StageRule, GoneRule, Leads, Leading, Unwritten, Written
<1>7. \A t, u \in Tx : LockPair(t, u)
  BY Zenon, <1>3 DEF LockPair
<1> QED
  BY Zenon, <1>2, <1>5, <1>6, <1>7 DEF LeadInv, LeadRules

(* ... and every step keeps it. *)
LEMMA LeadKept == LeadInv /\ [GroupNext]_groupVars => LeadInv'
<1> SUFFICES ASSUME LeadInv, [GroupNext]_groupVars PROVE LeadInv'
  OBVIOUS
<1>1. ASSUME NEW t \in Tx, Step(t) \/ LogTxFails(t) \/ SyncFails(t) \/ Drop(t)
      PROVE  LeadInv'
  <2>1. LeadStep(t)
    BY Zenon, <1>1, LeadStepKept
  <2>2. GroupTypes' /\ HoleRule'
    BY Zenon, <1>1, TypesKept, HolesKept
  <2>3. \A u \in Tx : LockRule(u)' /\ StageRule(u)' /\ GoneRule(u)'
    BY Zenon, <1>1, <2>1, LockKept, GoneStep
  <2>4. \A u, v \in Tx : LockPair(u, v)'
    BY Zenon, <2>1, LockPairKept
  <2> QED
    BY Zenon, <2>2, <2>3, <2>4 DEF LeadInv, LeadRules
<1>2. CASE UNCHANGED groupVars
  <2>1. UNCHANGED <<pc, next_ticket, durable_through, written_through, full_sync_written_through,
                    pending, retry, abandoned, locked, lock_held, txs, state, log_appended, dep_set,
                    ticket, batch, appending, file, tail, crc_pending, synced>>
    BY Zenon, <1>2 DEF groupVars, queueVars, markVars, waitVars, lockVars, txVars, machVars, logVars
  <2>2. GroupTypes' /\ HoleRule'
    BY Zenon, <2>1 DEF LeadInv, LeadRules, GroupTypes, HoleRule
  <2>3. ASSUME NEW t \in Tx PROVE LockRule(t)' /\ StageRule(t)' /\ GoneRule(t)'
    <3>1. LockRule(t) /\ StageRule(t) /\ GoneRule(t)
      BY Zenon DEF LeadInv, LeadRules
    <3> QED
      BY Zenon, <2>1, <3>1 DEF LockRule, StageRule, GoneRule, Owner
  <2>4. ASSUME NEW t \in Tx, NEW u \in Tx PROVE LockPair(t, u)'
    BY Zenon, <2>1 DEF LeadInv, LeadRules, LockPair
  <2> QED
    BY Zenon, <2>2, <2>3, <2>4 DEF LeadInv, LeadRules
<1> QED
  BY Zenon, <1>1, <1>2 DEF GroupNext, AllEnded

(* LeadInv is an invariant of the group commit. *)
LEMMA LeadAlways == GroupSpec => []LeadInv
  BY InitLead, LeadKept, PTL DEF GroupSpec

(* The write that a leader completes is the one it staged, whoever else was     *)
(* dropped, failed or led meanwhile: the expect in advance_offset_after_success *)
(* never fails.                                                                 *)
THEOREM WriteIsOwn == GroupSpec => []StagedWriteIsOwn
<1>1. LeadInv => StagedWriteIsOwn
  BY Zenon DEF LeadInv, LeadRules, StageRule, StagedWriteIsOwn
<1> QED
  BY <1>1, LeadAlways, PTL

(* Of all ways out of txs, only the one of an abandoned commit that a leader    *)
(* finished leaves dependents unnotified.                                       *)
THEOREM OnlyAdopted == GroupSpec => []OnlyAdoptedLeaveDependents
<1>1. LeadInv => OnlyAdoptedLeaveDependents
  <2> SUFFICES ASSUME LeadInv, NEW t \in dep_set \ txs
               PROVE  pc[t] \in Gone /\ state[t] = "Committed"
    BY Zenon DEF OnlyAdoptedLeaveDependents, Gone
  <2>1. t \in Tx
    BY Zenon DEF LeadInv, GroupTypes
  <2> QED
    BY Zenon, <2>1 DEF LeadInv, LeadRules, GoneRule
<1> QED
  BY <1>1, LeadAlways, PTL

=============================================================================
