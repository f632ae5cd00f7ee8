--------------------------- MODULE GroupCommitProofs ---------------------------
(***************************************************************************)
(* Group commit, the records and the disk, for any number of transactions, *)
(* modes and failures.  On the invariant of GroupLeadProofs (LeadInv: one  *)
(* leader at a time) rest two more layers:                                 *)
(*                                                                         *)
(*   ClaimRules  every record is in one place: in the queue or in a        *)
(*               leader's hand, above written_through and not logged; in   *)
(*               the log, once; or to be queued again, in retry;           *)
(*   SyncRules   what durable_through covers, and what a FULL commit that  *)
(*               returns needs, is on disk.                                *)
(***************************************************************************)
EXTENDS GroupLeadProofs

-----------------------------------------------------------------------------
(* A record that is queued, or that a leader has in hand *)
RecordOf(t) == [ticket |-> ticket[t], tx |-> t]
InHand(t) == Elems(batch[t].rest) \cup (IF pc[t] \in Unwritten THEN {batch[t].writing} ELSE {})
ClaimRule(r) ==
  /\ r.ticket = ticket[r.tx] /\ pc[r.tx] # "begin" /\ ~Logged(r.tx)
  /\ r.ticket > written_through /\ r.ticket <= next_ticket /\ r.ticket \notin retry

QueueRule ==
  /\ Sorted(pending) /\ \A r \in Elems(pending) : ClaimRule(r)
  /\ durable_through <= written_through /\ written_through <= next_ticket
  /\ \A n \in retry : n <= next_ticket
HandRule(t) ==
  /\ Sorted(batch[t].rest) /\ batch[t].advanced <= written_through
  /\ \A r \in InHand(t) : ClaimRule(r) /\ \A q \in Elems(pending) : r.ticket < q.ticket
  /\ pc[t] \in Unwritten => \A q \in Elems(batch[t].rest) : batch[t].writing.ticket < q.ticket
TicketRule(t) ==
  /\ ticket[t] <= next_ticket
  /\ pc[t] \in Queued => ticket[t] # 0
  /\ ticket[t] \in retry => ~Logged(t)
  /\ pc[t] = "begin" => ~Logged(t)
TicketPair(t, u) == ticket[t] = ticket[u] => t = u \/ ticket[t] = 0

(* The record of a commit that waits is somewhere; that of a leader is in hand *)
PlacedRule(t) ==
  /\ pc[t] \in Queued =>
       \/ Logged(t) \/ ticket[t] \in retry \/ RecordOf(t) \in Elems(pending)
       \/ \E u \in Tx : RecordOf(t) \in InHand(u)
  /\ pc[t] \in Leading => Logged(t) \/ RecordOf(t) \in InHand(t)
  /\ pc[t] \in Written => Logged(Owner(t))
  /\ pc[t] \in Ending \/ log_appended[t] \/ state[t] = "Committed" => Logged(t)
OnceRule == \A i, j \in 1..Len(file) : file[i] = file[j] => i = j

ClaimRules ==
  /\ QueueRule /\ OnceRule
  /\ \A t \in Tx : HandRule(t) /\ TicketRule(t) /\ PlacedRule(t)
  /\ \A t, u \in Tx : TicketPair(t, u)

-----------------------------------------------------------------------------
(* What is on disk *)
OnDisk(t) == \E i \in 1..synced : file[i] = t
SyncRule(t) ==
  /\ t \in Full /\ Logged(t) => ticket[t] <= full_sync_written_through
  /\ t \in Full /\ Logged(t) /\ ticket[t] <= durable_through => OnDisk(t)
  /\ t \in Full /\ pc[t] \in {"endlog", "commit", "finalize", "acked"} => OnDisk(t)
  /\ (pc[t] = "endlog" /\ batch[t] # NoBatch) \/ pc[t] = "prefixed" =>
       synced = Len(file) \/ full_sync_written_through <= durable_through
SyncRules == synced <= Len(file) /\ \A t \in Tx : SyncRule(t)

-----------------------------------------------------------------------------
(* The records that are queued or in hand *)

(* What a record of the queue says *)
LEMMA RecFacts ==
  ASSUME NEW r \in Rec
  PROVE  r.ticket \in Nat /\ r.ticket # 0 /\ r.tx \in Tx /\ r = [ticket |-> r.ticket, tx |-> r.tx]
  BY DEF Rec

(* The records of the queue and those in hand are records. *)
LEMMA ClaimTypes ==
  ASSUME LeadInv, NEW t \in Tx
  PROVE  /\ Elems(pending) \subseteq Rec /\ Elems(batch[t].rest) \subseteq Rec
         /\ batch[t].rest \in Seq(Rec) /\ batch[t].advanced \in Nat
         /\ InHand(t) \subseteq Rec
<1>1. batch[t] \in Batch /\ pending \in Seq(Rec) /\ LockRule(t)
  BY Zenon DEF LeadInv, LeadRules, GroupTypes
<1>2. batch[t].rest \in Seq(Rec) /\ batch[t].advanced \in Nat
  BY <1>1 DEF Batch
<1>3. ASSUME NEW s \in Seq(Rec) PROVE Elems(s) \subseteq Rec
  BY DEF Elems
<1>4. pc[t] \in Unwritten => batch[t].writing \in Rec
  BY Zenon, <1>1 DEF LockRule, Leading
<1> QED
  BY Zenon, <1>1, <1>2, <1>3, <1>4 DEF InHand

(* Only who leads has records in hand. *)
LEMMA OnlyLeader ==
  ASSUME LeadInv, NEW t \in Tx
  PROVE  InHand(t) # {} => batch[t] # NoBatch /\ lock_held[t]
<1>1. LockRule(t)
  BY Zenon DEF LeadInv, LeadRules
<1>2. NoBatch.rest = <<>> /\ Elems(<<>>) = {}
  BY DEF NoBatch, Elems
<1>3. batch[t] = NoBatch => InHand(t) = {}
  BY Zenon, <1>1, <1>2 DEF InHand, LockRule, Leading
<1> QED
  BY Zenon, <1>1, <1>3 DEF LockRule

(* The record of a waiter whose ticket the watermark covers is in the log.     *)
LEMMA CoveredIsLogged ==
  ASSUME LeadInv, ClaimRules, NEW t \in Tx, pc[t] \in Queued, ticket[t] <= written_through
  PROVE  Logged(t)
<1>1. /\ PlacedRule(t) /\ HoleRule /\ QueueRule /\ (\A u \in Tx : HandRule(u))
      /\ ticket[t] \in Nat /\ written_through \in Nat
  BY Zenon DEF LeadInv, LeadRules, ClaimRules, GroupTypes
<1>2. ~(ticket[t] > written_through)
  BY <1>1
<1>3. ASSUME NEW r, ClaimRule(r) PROVE r # RecordOf(t)
  <2>1. RecordOf(t).ticket = ticket[t]
    BY DEF RecordOf
  <2> QED
    BY Zenon, <1>2, <1>3, <2>1 DEF ClaimRule
<1> QED
  BY Zenon, <1>1, <1>2, <1>3 DEF PlacedRule, HoleRule, QueueRule, HandRule

(* A step that moves no record *)
LEMMA QuietClaims ==
  ASSUME LeadInv, ClaimRules, NEW t \in Tx, LeadStep(t),
         UNCHANGED <<pending, ticket, next_ticket, written_through, file, retry>>,
         durable_through' <= written_through',
         batch'[t].rest = batch[t].rest, batch'[t].advanced <= written_through',
         pc'[t] \in Unwritten <=> pc[t] \in Unwritten,
         pc'[t] \in Unwritten => batch'[t].writing = batch[t].writing,
         pc'[t] # "begin",
         pc'[t] \in Queued => pc[t] \in Queued,
         pc'[t] \in Leading => pc[t] \in Leading,
         pc'[t] \in Written => Logged(Owner(t)'),
         pc'[t] \in Ending => Logged(t),
         \A u \in Tx : (log_appended'[u] => log_appended[u] \/ Logged(u))
                    /\ (state'[u] = "Committed" => state[u] = "Committed" \/ Logged(u))
  PROVE  ClaimRules'
<1>0. /\ QueueRule /\ OnceRule /\ OthersLead(t)
      /\ \A u \in Tx : HandRule(u) /\ TicketRule(u) /\ PlacedRule(u) /\ LockRule(u)
      /\ \A u, v \in Tx : TicketPair(u, v)
  BY Zenon DEF ClaimRules, LeadStep, LeadInv, LeadRules
<1>1. \A u : Logged(u)' <=> Logged(u)
  BY Zenon DEF Logged
<1>2. \A u \in Tx : InHand(u)' = InHand(u)
  <2>1. InHand(t)' = InHand(t)
    BY Zenon DEF InHand
  <2>2. ASSUME NEW u \in Tx \ {t} PROVE InHand(u)' = InHand(u)
    BY Zenon, <1>0 DEF InHand, OthersLead
  <2> QED
    BY Zenon, <2>1, <2>2
<1>3. \A u \in Tx : pc'[u] = "begin" => pc[u] = "begin"
  BY Zenon, <1>0 DEF OthersLead
<1>4. ASSUME NEW r \in Rec, ClaimRule(r) PROVE ClaimRule(r)'
  BY Zenon, <1>1, <1>3, <1>4, RecFacts DEF ClaimRule
<1>5. QueueRule' /\ OnceRule'
  BY Zenon, <1>0, <1>4, ClaimTypes DEF QueueRule, OnceRule
<1>6. ASSUME NEW u \in Tx PROVE HandRule(u)'
  <2>1. /\ batch'[u].rest = batch[u].rest /\ batch'[u].advanced <= written_through'
        /\ (pc'[u] \in Unwritten => pc[u] \in Unwritten /\ batch'[u].writing = batch[u].writing)
    BY Zenon, <1>0 DEF OthersLead, HandRule
  <2> QED
    BY Zenon, <1>0, <1>2, <1>4, <2>1, ClaimTypes DEF HandRule
<1>7. ASSUME NEW u \in Tx PROVE TicketRule(u)'
  <2>1. pc'[u] \in Queued => pc[u] \in Queued
    BY Zenon, <1>0 DEF OthersLead
  <2> QED
    BY Zenon, <1>0, <1>1, <1>3, <2>1 DEF TicketRule
<1>8. ASSUME NEW u \in Tx PROVE PlacedRule(u)'
  <2>0. RecordOf(u)' = RecordOf(u)
    BY Zenon DEF RecordOf
  <2>1. /\ pc'[u] \in Queued => pc[u] \in Queued
        /\ pc'[u] \in Leading => pc[u] \in Leading
        /\ pc'[u] \in Written => Logged(Owner(u)')
        /\ pc'[u] \in Ending => Logged(u)
    BY Zenon, <1>0 DEF OthersLead, PlacedRule, Owner
  <2>2. pc'[u] \in Queued =>
          \/ Logged(u)' \/ ticket'[u] \in retry' \/ RecordOf(u)' \in Elems(pending')
          \/ \E v \in Tx : RecordOf(u)' \in InHand(v)'
    BY Zenon, <1>0, <1>1, <1>2, <2>0, <2>1 DEF PlacedRule
  <2>3. /\ pc'[u] \in Leading => Logged(u)' \/ RecordOf(u)' \in InHand(u)'
        /\ pc'[u] \in Written => Logged(Owner(u))'
    BY Zenon, <1>0, <1>1, <1>2, <2>0, <2>1 DEF PlacedRule, Logged
  <2>4. pc'[u] \in Ending \/ log_appended'[u] \/ state'[u] = "Committed" => Logged(u)'
    BY Zenon, <1>0, <1>1, <2>1 DEF PlacedRule
  <2> QED
    BY Zenon, <2>2, <2>3, <2>4 DEF PlacedRule
<1>9. \A u, v \in Tx : TicketPair(u, v)'
  BY Zenon, <1>0 DEF TicketPair
<1> QED
  BY Zenon, <1>5, <1>6, <1>7, <1>8, <1>9 DEF ClaimRules

(* Comparing tickets *)
LEMMA Tickets ==
  ASSUME NEW a \in Nat, NEW b \in Nat, NEW c \in Nat
  PROVE  /\ a <= b /\ b < c => a < c
         /\ a < b /\ b <= c => a < c
         /\ a < b /\ b < c => a < c
         /\ a <= b /\ b <= c => a <= c
         /\ (a > b <=> b < a) /\ ~(a < a)
         /\ a <= a + 1 /\ a < a + 1 /\ a + 1 # 0 /\ a + 1 \in Nat
  OBVIOUS

(* A commit that leaves the queue, because its record is durable, because it   *)
(* has to be queued again or because its statement is dropped                  *)
LEMMA LeavingClaims ==
  ASSUME LeadInv, ClaimRules, NEW t \in Tx, LeadStep(t), pc[t] \in Queued,
         UNCHANGED <<batch, ticket, next_ticket, written_through, durable_through, file,
                     log_appended, state>>,
         pc'[t] \notin Queued \cup Leading \cup Written,
         pc[t] \notin Leading,
         pc'[t] = "begin" => ticket[t] \in retry,
         pc'[t] \in Ending => Logged(t),
         retry' \subseteq retry, retry \subseteq retry' \cup {ticket[t]},
         Sorted(pending'), Elems(pending') \subseteq Elems(pending),
         \A r \in Elems(pending) : r \in Elems(pending') \/ r.ticket = ticket[t]
  PROVE  ClaimRules'
<1>0. /\ QueueRule /\ OnceRule /\ OthersLead(t)
      /\ \A u \in Tx : HandRule(u) /\ TicketRule(u) /\ PlacedRule(u) /\ LockRule(u)
      /\ \A u, v \in Tx : TicketPair(u, v)
  BY Zenon DEF ClaimRules, LeadStep, LeadInv, LeadRules
<1>1. \A u : Logged(u)' <=> Logged(u)
  BY Zenon DEF Logged
<1>2. \A u \in Tx : InHand(u)' = InHand(u)
  <2>1. InHand(t)' = InHand(t)
    BY Zenon DEF InHand, Leading
  <2>2. ASSUME NEW u \in Tx \ {t} PROVE InHand(u)' = InHand(u)
    BY Zenon, <1>0 DEF InHand, OthersLead
  <2> QED
    BY Zenon, <2>1, <2>2
<1>3. \A u \in Tx : pc'[u] = "begin" => pc[u] = "begin" \/ ticket[u] \in retry
  BY Zenon, <1>0 DEF OthersLead
<1>4. ASSUME NEW r \in Rec, ClaimRule(r) PROVE ClaimRule(r)'
  BY Zenon, <1>1, <1>3, <1>4, RecFacts DEF ClaimRule
<1>5. QueueRule' /\ OnceRule'
  BY Zenon, <1>0, <1>4, ClaimTypes DEF QueueRule, OnceRule
<1>6. ASSUME NEW u \in Tx PROVE HandRule(u)'
  <2>1. pc'[u] \in Unwritten => pc[u] \in Unwritten
    BY Zenon, <1>0 DEF OthersLead, Leading
  <2> QED
    BY Zenon, <1>0, <1>2, <1>4, <2>1, ClaimTypes DEF HandRule
<1>7. ASSUME NEW u \in Tx PROVE TicketRule(u)'
  <2>1. pc'[u] \in Queued => pc[u] \in Queued
    BY Zenon, <1>0 DEF OthersLead
  <2> QED
    BY Zenon, <1>0, <1>1, <1>3, <2>1 DEF TicketRule
<1>8. ASSUME NEW u \in Tx PROVE PlacedRule(u)'
  <2>0. RecordOf(u)' = RecordOf(u) /\ RecordOf(u).ticket = ticket[u]
    BY DEF RecordOf
  <2>1. /\ pc'[u] \in Queued => pc[u] \in Queued /\ u # t
        /\ pc'[u] \in Leading => pc[u] \in Leading
        /\ pc'[u] \in Written => pc[u] \in Written
        /\ pc'[u] \in Ending => Logged(u)
    BY Zenon, <1>0 DEF OthersLead, PlacedRule
  <2>a. pc'[u] \in Queued => ticket[u] # ticket[t]
    BY Zenon, <1>0, <2>1 DEF TicketRule, TicketPair
  <2>2. pc'[u] \in Queued =>
          \/ Logged(u)' \/ ticket'[u] \in retry' \/ RecordOf(u)' \in Elems(pending')
          \/ \E v \in Tx : RecordOf(u)' \in InHand(v)'
    BY Zenon, <1>0, <1>1, <1>2, <2>0, <2>1, <2>a DEF PlacedRule
  <2>b. Logged(Owner(u))' <=> Logged(Owner(u))
    BY Zenon DEF Logged, Owner
  <2>3. /\ pc'[u] \in Leading => Logged(u)' \/ RecordOf(u)' \in InHand(u)'
        /\ pc'[u] \in Written => Logged(Owner(u))'
    BY Zenon, <1>0, <1>1, <1>2, <2>0, <2>1, <2>b DEF PlacedRule
  <2>4. pc'[u] \in Ending \/ log_appended'[u] \/ state'[u] = "Committed" => Logged(u)'
    BY Zenon, <1>0, <1>1, <2>1 DEF PlacedRule
  <2> QED
    BY Zenon, <2>2, <2>3, <2>4 DEF PlacedRule
<1>9. \A u, v \in Tx : TicketPair(u, v)'
  BY Zenon, <1>0 DEF TicketPair
<1> QED
  BY Zenon, <1>5, <1>6, <1>7, <1>8, <1>9 DEF ClaimRules

(* enqueue: the new ticket is above all others. *)
LEMMA EnqueueClaims ==
  ASSUME LeadInv, ClaimRules, NEW t \in Tx, LeadStep(t), Enqueue(t)
  PROVE  ClaimRules'
<1>g. GroupTypes
  BY Zenon DEF LeadInv
<1>n. PICK n : n = next_ticket + 1
  BY Zenon
<1>x. PICK x : x = [ticket |-> n, tx |-> t]
  BY Zenon
<1>0. /\ QueueRule /\ OnceRule /\ OthersLead(t)
      /\ \A u \in Tx : HandRule(u) /\ TicketRule(u) /\ PlacedRule(u) /\ LockRule(u)
      /\ \A u, v \in Tx : TicketPair(u, v)
  BY Zenon DEF ClaimRules, LeadStep, LeadInv, LeadRules
<1>a. /\ pc[t] = "begin" /\ next_ticket' = n /\ pending' = Append(pending, x)
      /\ UNCHANGED <<batch, written_through, durable_through, file, retry, log_appended, state>>
  BY Zenon, <1>n, <1>x DEF Enqueue, Goto, markVars, waitVars, txVars, logVars
<1>b. /\ pc'[t] = "await" /\ ticket'[t] = n
      /\ \A u \in Tx \ {t} : pc'[u] = pc[u] /\ ticket'[u] = ticket[u]
  <2>1. pc' = [pc EXCEPT ![t] = "await"] /\ ticket' = [ticket EXCEPT ![t] = n]
    BY Zenon, <1>n DEF Enqueue, Goto
  <2>2. pc \in [Tx -> Places] /\ ticket \in [Tx -> Nat]
    BY Zenon, <1>g DEF GroupTypes
  <2> QED
    BY Zenon, <2>1, <2>2, TxUpdate
<1>c. next_ticket \in Nat /\ n \in Nat /\ n # 0 /\ next_ticket < n /\ next_ticket <= n
  BY <1>g, <1>n DEF GroupTypes
<1>d. x \in Rec /\ x.ticket = n /\ x.tx = t
  BY <1>c, <1>x DEF Rec
<1>e. RecordOf(t)' = x
  BY Zenon, <1>b, <1>x DEF RecordOf
<1>1. \A u : Logged(u)' <=> Logged(u)
  BY Zenon, <1>a DEF Logged
<1>2. \A u \in Tx : InHand(u)' = InHand(u)
  <2>1. InHand(t)' = InHand(t)
    BY Zenon, <1>a, <1>b DEF InHand, Unwritten
  <2>2. ASSUME NEW u \in Tx \ {t} PROVE InHand(u)' = InHand(u)
    BY Zenon, <1>0 DEF InHand, OthersLead
  <2> QED
    BY Zenon, <2>1, <2>2
<1>3. \A m \in Nat : m <= next_ticket => m < n /\ m <= n
  BY Zenon, <1>c, Tickets
<1>4. ASSUME NEW r \in Rec, ClaimRule(r) PROVE ClaimRule(r)' /\ r.ticket < n
  <2>1. r.tx # t /\ r.tx \in Tx /\ r.ticket \in Nat
    BY Zenon, <1>4, <1>a, RecFacts DEF ClaimRule
  <2> QED
    BY Zenon, <1>1, <1>3, <1>4, <1>a, <1>b, <2>1 DEF ClaimRule
<1>5. Elems(pending') = Elems(pending) \cup {x}
  <2>1. pending \in Seq(Rec) /\ pending' = Append(pending, x)
    BY Zenon, <1>a, <1>g DEF GroupTypes
  <2>2. Elems(Append(pending, x)) = Elems(pending) \cup {x}
    BY SMT, <1>d, <2>1, AppendElems
  <2> QED
    BY Zenon, <2>1, <2>2
<1>6. ClaimRule(x)'
  <2>1. written_through < n /\ n \notin retry
    <3>1. written_through \in Nat /\ retry \subseteq Nat /\ written_through <= next_ticket
      BY Zenon, <1>0, <1>g DEF GroupTypes, QueueRule
    <3>2. ~(n <= next_ticket)
      BY <1>c
    <3> QED
      BY Zenon, <1>0, <1>3, <3>1, <3>2 DEF QueueRule
  <2>2. n > written_through /\ n <= n
    BY <1>c, <1>g, <2>1 DEF GroupTypes
  <2>3. ~Logged(t)'
    BY Zenon, <1>0, <1>1, <1>a DEF TicketRule
  <2> QED
    BY Zenon, <1>a, <1>b, <1>d, <2>1, <2>2, <2>3 DEF ClaimRule
<1>7. QueueRule' /\ OnceRule'
  <2>1. \A r \in Elems(pending) : r.ticket < x.ticket
    BY Zenon, <1>0, <1>4, <1>d, ClaimTypes DEF QueueRule
  <2>2. Sorted(pending')
    BY Zenon, <1>0, <1>a, <1>d, <1>g, <2>1, AppendSorted DEF GroupTypes, QueueRule
  <2>3. \A r \in Elems(pending') : ClaimRule(r)'
    BY Zenon, <1>0, <1>4, <1>5, <1>6, ClaimTypes DEF QueueRule
  <2>4. written_through \in Nat /\ retry \subseteq Nat
    BY Zenon, <1>g DEF GroupTypes
  <2> QED
    BY Zenon, <1>0, <1>3, <1>a, <2>2, <2>3, <2>4 DEF QueueRule, OnceRule
<1>8. ASSUME NEW u \in Tx PROVE HandRule(u)'
  <2>1. pc'[u] \in Unwritten => pc[u] \in Unwritten
    BY Zenon, <1>b DEF Unwritten
  <2> QED
    BY Zenon, <1>0, <1>2, <1>4, <1>5, <1>a, <1>d, <2>1, ClaimTypes DEF HandRule
<1>9. ASSUME NEW u \in Tx PROVE TicketRule(u)'
  <2>1. CASE u = t
    <3>1. n <= next_ticket' /\ n \notin retry' /\ pc'[t] # "begin"
      BY Zenon, <1>6, <1>b, <1>d DEF ClaimRule
    <3> QED
      BY Zenon, <1>b, <1>c, <2>1, <3>1 DEF TicketRule
  <2>2. CASE u # t
    <3>1. ticket[u] \in Nat
      BY Zenon, <1>g DEF GroupTypes
    <3> QED
      BY Zenon, <1>0, <1>1, <1>3, <1>a, <1>b, <2>2, <3>1 DEF TicketRule
  <2> QED
    BY Zenon, <2>1, <2>2
<1>10. ASSUME NEW u \in Tx PROVE PlacedRule(u)'
  <2>1. CASE u = t
    BY Zenon, <1>0, <1>1, <1>5, <1>a, <1>b, <1>e, <2>1
    DEF PlacedRule, Leading, Unwritten, Written, Ending
  <2>2. CASE u # t
    <3>1. RecordOf(u)' = RecordOf(u) /\ pc'[u] = pc[u] /\ ticket'[u] = ticket[u]
      BY Zenon, <1>b, <2>2 DEF RecordOf
    <3> QED
      <4>1. PlacedRule(u) /\ Owner(u)' = Owner(u)
        BY Zenon, <1>0, <1>a DEF Owner
      <4>2. UNCHANGED <<retry, log_appended, state>>
        BY Zenon, <1>a
      <4>3. Logged(Owner(u))' <=> Logged(Owner(u))
        BY Zenon, <1>a, <4>1 DEF Logged
      <4> QED
        BY Zenon, <1>1, <1>2, <1>5, <3>1, <4>1, <4>2, <4>3 DEF PlacedRule
  <2> QED
    BY Zenon, <2>1, <2>2
<1>11. ASSUME NEW u \in Tx, NEW v \in Tx PROVE TicketPair(u, v)'
  <2>1. \A w \in Tx : ticket[w] # n
    <3>1. ASSUME NEW w \in Tx PROVE ticket[w] # n
      <4>1. ticket[w] \in Nat /\ ticket[w] < n
        BY Zenon, <1>0, <1>3, <1>g DEF GroupTypes, TicketRule
      <4> QED
        BY <1>c, <4>1
    <3> QED
      BY Zenon, <3>1
  <2> QED
    BY Zenon, <1>0, <1>b, <2>1 DEF TicketPair
<1> QED
  BY Zenon, <1>7, <1>8, <1>9, <1>10, <1>11 DEF ClaimRules

(* take_work: the queue becomes the batch of the leader. *)
LEMMA LeadClaims ==
  ASSUME LeadInv, ClaimRules, NEW t \in Tx, LeadStep(t), Lead(t)
  PROVE  ClaimRules'
<1>g. pending \in Seq(Rec) /\ pending # <<>> /\ batch \in [Tx -> Batch] /\ pc \in [Tx -> Places]
  BY Zenon DEF LeadInv, GroupTypes, Lead
<1>0. /\ QueueRule /\ OnceRule /\ OthersLead(t)
      /\ \A u \in Tx : HandRule(u) /\ TicketRule(u) /\ PlacedRule(u) /\ LockRule(u)
      /\ \A u, v \in Tx : TicketPair(u, v)
  BY Zenon DEF ClaimRules, LeadStep, LeadInv, LeadRules
<1>a. /\ pc[t] = "lock" /\ ~locked /\ retry = {} /\ pending' = <<>>
      /\ UNCHANGED <<ticket, next_ticket, written_through, durable_through, file, retry,
                     log_appended, state>>
  BY Zenon DEF Lead, Goto, markVars, waitVars, txVars, logVars
<1>b. /\ pc'[t] = "upgrade" /\ batch'[t].writing = Head(pending) /\ batch'[t].rest = Tail(pending)
      /\ batch'[t].advanced = 0
  <2>1. /\ pc' = [pc EXCEPT ![t] = "upgrade"]
        /\ batch' = [batch EXCEPT ![t] = [writing |-> Head(pending), rest |-> Tail(pending),
                                          advanced |-> 0]]
    BY Zenon DEF Lead, Goto
  <2>2. pc'[t] = "upgrade"
    BY Zenon, <1>g, <2>1, TxUpdate
  <2>3. batch'[t] = [writing |-> Head(pending), rest |-> Tail(pending), advanced |-> 0]
    BY Zenon, <1>g, <2>1, TxUpdate
  <2> QED
    BY <2>2, <2>3
<1>1. \A u : Logged(u)' <=> Logged(u)
  BY Zenon, <1>a DEF Logged
<1>2. \A u \in Tx : InHand(u) = {}
  BY Zenon, <1>0, <1>a, OnlyLeader DEF LockRule
<1>3. Elems(pending) = {Head(pending)} \cup Elems(Tail(pending))
  BY SMT, <1>g, HeadTailElems
<1>4. InHand(t)' = Elems(pending)
  <2>1. InHand(t)' = Elems(Tail(pending)) \cup {Head(pending)}
    BY Zenon, <1>b DEF InHand, Unwritten
  <2> QED
    BY Zenon, <1>3, <2>1
<1>5. \A u \in Tx \ {t} : InHand(u)' = {}
  BY Zenon, <1>0, <1>2 DEF InHand, OthersLead
<1>6. \A u \in Tx : pc'[u] = "begin" => pc[u] = "begin"
  BY Zenon, <1>0, <1>b DEF OthersLead
<1>7. ASSUME NEW r \in Elems(pending) PROVE ClaimRule(r)'
  <2>1. r \in Rec /\ ClaimRule(r)
    BY Zenon, <1>0, <1>7, ClaimTypes DEF QueueRule
  <2> QED
    BY Zenon, <1>1, <1>6, <1>a, <2>1, RecFacts DEF ClaimRule
<1>e. Elems(pending') = {} /\ Sorted(pending')
  BY Zenon, <1>a, FewElems
<1>8. QueueRule' /\ OnceRule'
  BY Zenon, <1>0, <1>a, <1>e DEF QueueRule, OnceRule
<1>9. ASSUME NEW u \in Tx PROVE HandRule(u)'
  <2>1. CASE u = t
    <3>1. Sorted(Tail(pending)) /\ \A r \in Elems(Tail(pending)) : Head(pending).ticket < r.ticket
      BY Zenon, <1>0, <1>g, TailSorted DEF QueueRule
    <3>2. 0 <= written_through
      BY DEF LeadInv, GroupTypes
    <3> QED
      BY Zenon, <1>4, <1>7, <1>a, <1>b, <1>e, <2>1, <3>1, <3>2 DEF HandRule
  <2>2. CASE u # t
    <3>1. pc'[u] = pc[u] /\ batch'[u] = batch[u] /\ InHand(u)' = {}
      BY Zenon, <1>0, <1>5, <2>2 DEF OthersLead
    <3> QED
      BY Zenon, <1>0, <1>a, <3>1 DEF HandRule
  <2> QED
    BY Zenon, <2>1, <2>2
<1>10. ASSUME NEW u \in Tx PROVE TicketRule(u)'
  <2>1. pc'[u] \in Queued => pc[u] \in Queued
    BY Zenon, <1>0, <1>b DEF OthersLead, Queued, Waiting
  <2> QED
    BY Zenon, <1>0, <1>1, <1>6, <1>a, <2>1 DEF TicketRule
<1>11. ASSUME NEW u \in Tx PROVE PlacedRule(u)'
  <2>0. RecordOf(u)' = RecordOf(u)
    BY Zenon, <1>a DEF RecordOf
  <2>1. /\ pc'[u] \in Queued => pc[u] \in Queued
        /\ pc'[u] \in Leading => u = t \/ pc[u] \in Leading
        /\ pc'[u] \in Written => u # t /\ pc[u] \in Written
        /\ pc'[u] \in Ending => pc[u] \in Ending
    BY Zenon, <1>0, <1>b DEF OthersLead, Queued, Waiting, Written, Ending
  <2>2. pc[u] \in Queued => Logged(u) \/ RecordOf(u) \in Elems(pending)
    BY Zenon, <1>0, <1>2, <1>a DEF PlacedRule
  <2>3. pc'[u] \in Queued => Logged(u)' \/ \E v \in Tx : RecordOf(u)' \in InHand(v)'
    BY Zenon, <1>1, <1>4, <2>0, <2>1, <2>2
  <2>4. pc'[u] \in Leading => Logged(u)' \/ RecordOf(u)' \in InHand(u)'
    <3>1. pc[t] \in Queued
      BY Zenon, <1>a DEF Queued, Waiting
    <3>2. CASE u = t
      BY Zenon, <1>1, <1>4, <2>0, <2>2, <3>1, <3>2
    <3>3. CASE u # t
      BY Zenon, <1>0, <1>1, <1>2, <2>1, <3>3 DEF PlacedRule
    <3> QED
      BY Zenon, <3>2, <3>3
  <2>5. pc'[u] \in Written => Logged(Owner(u))'
    <3>1. ASSUME u # t PROVE Logged(Owner(u))' <=> Logged(Owner(u))
      BY Zenon, <1>0, <1>a, <3>1 DEF Logged, Owner, OthersLead
    <3> QED
      BY Zenon, <1>0, <2>1, <3>1 DEF PlacedRule
  <2>6. pc'[u] \in Ending \/ log_appended'[u] \/ state'[u] = "Committed" => Logged(u)'
    BY Zenon, <1>0, <1>1, <1>a, <2>1 DEF PlacedRule
  <2> QED
    BY Zenon, <2>3, <2>4, <2>5, <2>6 DEF PlacedRule
<1>12. \A u, v \in Tx : TicketPair(u, v)'
  BY Zenon, <1>0, <1>a DEF TicketPair
<1> QED
  BY Zenon, <1>8, <1>9, <1>10, <1>11, <1>12 DEF ClaimRules

(* The log is appended to: what was in it stays, and one record comes.         *)
LEMMA LoggedAppend ==
  ASSUME GroupTypes, NEW o \in Tx, file' = Append(file, o), NEW u
  PROVE  Logged(u)' <=> Logged(u) \/ u = o
<1>1. Len(file) \in Nat /\ Len(file') = Len(file) + 1
  BY DEF GroupTypes
<1>2. file'[Len(file) + 1] = o /\ \A i \in 1..Len(file) : file'[i] = file[i]
  BY DEF GroupTypes
<1>3. ASSUME NEW i \in 1..Len(file) PROVE i \in 1..Len(file')
  BY <1>1, <1>3
<1>4. Len(file) + 1 \in 1..Len(file')
  BY <1>1
<1>5. ASSUME NEW i \in 1..Len(file') PROVE i \in 1..Len(file) \/ i = Len(file) + 1
  BY <1>1, <1>5
<1>6. Logged(u) => Logged(u)'
  BY Zenon, <1>2, <1>3 DEF Logged
<1>7. u = o => Logged(u)'
  BY Zenon, <1>2, <1>4 DEF Logged
<1>8. Logged(u)' => Logged(u) \/ u = o
  BY Zenon, <1>2, <1>5 DEF Logged
<1> QED
  BY Zenon, <1>6, <1>7, <1>8

(* mark_log_record_written: the record in hand is in the log.                  *)
LEMMA MarkClaims ==
  ASSUME LeadInv, ClaimRules, NEW t \in Tx, LeadStep(t), MarkLogRecordWritten(t)
  PROVE  ClaimRules'
<1>g. GroupTypes
  BY Zenon DEF LeadInv
<1>w. PICK w : w = batch[t].writing
  BY Zenon
<1>n. PICK n : n = w.ticket
  BY Zenon
<1>o. PICK o : o = w.tx
  BY Zenon
<1>0. /\ QueueRule /\ OnceRule /\ OthersLead(t)
      /\ \A u \in Tx : HandRule(u) /\ TicketRule(u) /\ PlacedRule(u) /\ LockRule(u)
      /\ \A u, v \in Tx : TicketPair(u, v)
  BY Zenon DEF ClaimRules, LeadStep, LeadInv, LeadRules
<1>a. /\ pc[t] = "finish" /\ pc'[t] = "appended"
      /\ UNCHANGED <<pending, ticket, next_ticket, durable_through, retry, log_appended, state>>
  BY Zenon, <1>g, TxUpdate DEF MarkLogRecordWritten, Goto, queueVars, waitVars, txVars, GroupTypes
<1>b. /\ batch'[t].writing = w /\ w \in Rec /\ batch'[t].rest = batch[t].rest
      /\ batch'[t].advanced = n /\ retry = {} /\ lock_held[t]
      /\ written_through' = Max(written_through, n) /\ file' = Append(file, o) /\ Owner(t) = o
  BY Zenon, <1>w, <1>n, <1>o, MarkFacts DEF Owner
<1>c. n \in Nat /\ n # 0 /\ o \in Tx /\ w = [ticket |-> n, tx |-> o]
  BY Zenon, <1>b, <1>n, <1>o, RecFacts
<1>d. w \in InHand(t) /\ InHand(t) = Elems(batch[t].rest) \cup {w}
      /\ InHand(t)' = Elems(batch[t].rest)
  BY Zenon, <1>a, <1>b, <1>w DEF InHand, Unwritten
<1>e. /\ ClaimRule(w) /\ n = ticket[o] /\ pc[o] # "begin" /\ ~Logged(o) /\ n > written_through
         /\ n <= next_ticket
      /\ w = RecordOf(o)
  <2>1. ClaimRule(w)
    BY Zenon, <1>0, <1>d DEF HandRule
  <2> QED
    BY Zenon, <1>c, <1>n, <1>o, <2>1 DEF ClaimRule, RecordOf
<1>f. written_through' = n
  BY <1>b, <1>c, <1>e, <1>g DEF Max, GroupTypes
<1>1. \A u : Logged(u)' <=> Logged(u) \/ u = o
  BY Zenon, <1>b, <1>c, <1>g, LoggedAppend
<1>2. \A u \in Tx \ {t} : InHand(u) = {} /\ InHand(u)' = {}
  <2>1. \A u \in Tx \ {t} : InHand(u) = {}
    BY Zenon, <1>b, OnlyLeader DEF LeadInv, LeadRules, LockPair
  <2> QED
    BY Zenon, <1>0, <2>1 DEF InHand, OthersLead
<1>3. \A u \in Tx : pc'[u] = "begin" => pc[u] = "begin"
  BY Zenon, <1>0, <1>a DEF OthersLead
<1>4. ASSUME NEW r \in Rec, ClaimRule(r), n < r.ticket PROVE ClaimRule(r)'
  <2>1. r.tx \in Tx /\ r.ticket \in Nat
    BY Zenon, RecFacts
  <2>2. r.ticket > n /\ r.ticket # n
    BY <1>4, <1>c, <2>1
  <2>3. r.tx # o
    BY Zenon, <1>4, <1>e, <2>2 DEF ClaimRule
  <2> QED
    BY Zenon, <1>1, <1>3, <1>4, <1>a, <1>f, <2>1, <2>2, <2>3 DEF ClaimRule
<1>5. /\ \A r \in Elems(batch[t].rest) : r \in Rec /\ ClaimRule(r) /\ n < r.ticket
      /\ \A r \in Elems(pending) : r \in Rec /\ ClaimRule(r) /\ n < r.ticket
  <2>1. Elems(pending) \subseteq Rec /\ Elems(batch[t].rest) \subseteq Rec
    BY Zenon, ClaimTypes
  <2>2. pc[t] \in Unwritten
    BY Zenon, <1>a DEF Unwritten
  <2> QED
    BY Zenon, <1>0, <1>d, <1>n, <1>w, <2>1, <2>2 DEF HandRule, QueueRule
<1>6. QueueRule'
  <2>1. durable_through <= n
    <3>1. durable_through \in Nat /\ written_through \in Nat /\ durable_through <= written_through
      BY Zenon, <1>0, <1>g DEF GroupTypes, QueueRule
    <3> QED
      BY <1>c, <1>e, <3>1
  <2> QED
    BY Zenon, <1>0, <1>4, <1>5, <1>a, <1>e, <1>f, <2>1 DEF QueueRule
<1>7. OnceRule'
  <2> SUFFICES ASSUME NEW i \in 1..Len(file'), NEW j \in 1..Len(file'), file'[i] = file'[j]
               PROVE  i = j
    BY Zenon DEF OnceRule
  <2>1. Len(file) \in Nat /\ Len(file') = Len(file) + 1
    BY <1>b, <1>c, <1>g DEF GroupTypes
  <2>2. file'[Len(file) + 1] = o /\ \A k \in 1..Len(file) : file'[k] = file[k]
    BY <1>b, <1>c, <1>g DEF GroupTypes
  <2>3. /\ i \in 1..Len(file) \/ i = Len(file) + 1
        /\ j \in 1..Len(file) \/ j = Len(file) + 1
    BY <2>1
  <2> QED
    BY Zenon, <1>0, <1>e, <2>2, <2>3 DEF OnceRule, Logged
<1>8. ASSUME NEW u \in Tx PROVE HandRule(u)'
  <2>1. CASE u = t
    <3>1. n <= n
      BY <1>c
    <3>2. \A r \in Elems(batch[t].rest), q \in Elems(pending) : r.ticket < q.ticket
      BY Zenon, <1>0, <1>d DEF HandRule
    <3> QED
      BY Zenon, <1>0, <1>4, <1>5, <1>a, <1>b, <1>d, <1>f, <2>1, <3>1, <3>2 DEF HandRule, Unwritten
  <2>2. CASE u # t
    <3>1. pc'[u] = pc[u] /\ batch'[u] = batch[u] /\ InHand(u)' = {}
      BY Zenon, <1>0, <1>2, <2>2 DEF OthersLead
    <3>2. batch[u].advanced <= written_through'
      <4>1. batch[u].advanced \in Nat
        BY Zenon, ClaimTypes
      <4>2. batch[u].advanced <= written_through /\ written_through \in Nat
        BY Zenon, <1>0, <1>g DEF HandRule, GroupTypes
      <4> QED
        BY <1>c, <1>e, <1>f, <4>1, <4>2
    <3> QED
      BY Zenon, <1>0, <3>1, <3>2 DEF HandRule
  <2> QED
    BY Zenon, <2>1, <2>2
<1>9. ASSUME NEW u \in Tx PROVE TicketRule(u)'
  <2>1. pc'[u] \in Queued => pc[u] \in Queued
    BY Zenon, <1>0, <1>a DEF OthersLead, Queued, Waiting
  <2> QED
    BY Zenon, <1>0, <1>1, <1>3, <1>a, <1>b, <1>e, <2>1 DEF TicketRule
<1>10. ASSUME NEW u \in Tx PROVE PlacedRule(u)'
  <2>0. RecordOf(u)' = RecordOf(u) /\ (RecordOf(u) = w => u = o)
    <3>1. RecordOf(u) = w => u = o
      BY <1>o DEF RecordOf
    <3> QED
      BY Zenon, <1>a, <3>1 DEF RecordOf
  <2>1. /\ pc'[u] \in Queued => pc[u] \in Queued
        /\ pc'[u] \in Leading => pc[u] \in Leading
        /\ pc'[u] \in Written => u = t \/ pc[u] \in Written
        /\ pc'[u] \in Ending => pc[u] \in Ending
    BY Zenon, <1>0, <1>a DEF OthersLead, Queued, Waiting, Written, Ending, Leading, Unwritten
  <2>a. ASSUME NEW v \in Tx, RecordOf(u) \in InHand(v)
        PROVE  Logged(u)' \/ RecordOf(u)' \in InHand(v)'
    <3>1. v = t /\ (RecordOf(u) = w \/ RecordOf(u) \in InHand(t)')
      BY Zenon, <1>2, <1>d, <2>a
    <3> QED
      BY Zenon, <1>1, <2>0, <3>1
  <2>2. pc'[u] \in Queued =>
          Logged(u)' \/ RecordOf(u)' \in Elems(pending')
            \/ \E v \in Tx : RecordOf(u)' \in InHand(v)'
    BY Zenon, <1>0, <1>1, <1>a, <1>b, <2>0, <2>1, <2>a DEF PlacedRule
  <2>3. pc'[u] \in Leading => Logged(u)' \/ RecordOf(u)' \in InHand(u)'
    BY Zenon, <1>0, <1>1, <2>1, <2>a DEF PlacedRule
  <2>4. pc'[u] \in Written => Logged(Owner(u))'
    <3>1. CASE u = t
      <4>1. Owner(t)' = o
        BY Zenon, <1>b, <1>o DEF Owner
      <4>2. Logged(o)'
        BY Zenon, <1>1
      <4> QED
        BY Zenon, <3>1, <4>1, <4>2 DEF Logged
    <3>2. CASE u # t
      <4>1. Owner(u)' = Owner(u) /\ pc'[u] = pc[u]
        BY Zenon, <1>0, <3>2 DEF Owner, OthersLead
      <4>2. pc'[u] \in Written => \E v : v = Owner(u) /\ Logged(v)'
        BY Zenon, <1>0, <1>1, <4>1 DEF PlacedRule
      <4> QED
        BY Zenon, <4>1, <4>2 DEF Logged
    <3> QED
      BY Zenon, <3>1, <3>2
  <2>5. pc'[u] \in Ending \/ log_appended'[u] \/ state'[u] = "Committed" => Logged(u)'
    BY Zenon, <1>0, <1>1, <1>a, <2>1 DEF PlacedRule
  <2> QED
    BY Zenon, <2>2, <2>3, <2>4, <2>5 DEF PlacedRule
<1>11. \A u, v \in Tx : TicketPair(u, v)'
  BY Zenon, <1>0, <1>a DEF TicketPair
<1> QED
  BY Zenon, <1>6, <1>7, <1>8, <1>9, <1>10, <1>11 DEF ClaimRules

(* advance_group_or_sync: the record in hand, if it is not in the log, is one  *)
(* whose commit is gone.                                                       *)
LEMMA AdvanceClaims ==
  ASSUME LeadInv, ClaimRules, NEW t \in Tx, LeadStep(t), Advance(t),
         \/ pc[t] \in {"upgrade", "write"} /\ Owner(t) \notin txs
         \/ pc[t] \in {"orphan", "adopt"},
         UNCHANGED <<pending, ticket, next_ticket, written_through, durable_through, file, retry,
                     log_appended>>,
         \A u \in Tx : state'[u] = "Committed" => state[u] = "Committed" \/ Logged(u)
  PROVE  ClaimRules'
<1>g. GroupTypes
  BY Zenon DEF LeadInv
<1>0. /\ QueueRule /\ OnceRule /\ OthersLead(t)
      /\ \A u \in Tx : HandRule(u) /\ TicketRule(u) /\ PlacedRule(u) /\ LockRule(u) /\ GoneRule(u)
      /\ \A u, v \in Tx : TicketPair(u, v)
  BY Zenon DEF ClaimRules, LeadStep, LeadInv, LeadRules
<1>p. /\ pc[t] \in Leading /\ batch[t].rest \in Seq(Rec) /\ Elems(batch[t].rest) \subseteq InHand(t)
      /\ Sorted(batch[t].rest)
  BY Zenon, <1>0, ClaimTypes DEF Leading, Unwritten, Written, InHand, HandRule
<1>1. /\ pc'[t] \in {"sync", "upgrade"} /\ batch'[t].advanced = batch[t].advanced
      /\ Sorted(batch'[t].rest) /\ InHand(t)' = Elems(batch[t].rest)
      /\ pc'[t] \in Unwritten =>
           \A q \in Elems(batch'[t].rest) : batch'[t].writing.ticket < q.ticket
  <2>1. CASE batch[t].rest = <<>>
    <3>1. pc'[t] = "sync" /\ batch'[t] = batch[t]
      <4>1. pc' = [pc EXCEPT ![t] = "sync"] /\ batch' = batch
        BY Zenon, <2>1 DEF Advance
      <4> QED
        BY Zenon, <1>g, <4>1, TxUpdate DEF GroupTypes
    <3> QED
      BY Zenon, <1>p, <3>1 DEF InHand, Unwritten
  <2>2. CASE batch[t].rest # <<>>
    <3>1. /\ pc' = [pc EXCEPT ![t] = "upgrade"]
          /\ batch'[t].writing = Head(batch[t].rest) /\ batch'[t].rest = Tail(batch[t].rest)
          /\ batch'[t].advanced = batch[t].advanced
      BY Zenon, <1>g, <2>2, AdvanceNext
    <3>2. pc'[t] = "upgrade"
      BY Zenon, <1>g, <3>1, TxUpdate DEF GroupTypes
    <3>3. Elems(batch[t].rest) = {Head(batch[t].rest)} \cup Elems(Tail(batch[t].rest))
      BY SMT, <1>p, <2>2, HeadTailElems
    <3>4. InHand(t)' = Elems(Tail(batch[t].rest)) \cup {Head(batch[t].rest)}
      BY Zenon, <3>1, <3>2 DEF InHand, Unwritten
    <3>5. /\ Sorted(Tail(batch[t].rest))
          /\ \A r \in Elems(Tail(batch[t].rest)) : Head(batch[t].rest).ticket < r.ticket
      BY Zenon, <1>p, <2>2, TailSorted
    <3>6. InHand(t)' = Elems(batch[t].rest)
      BY Zenon, <3>3, <3>4
    <3> QED
      BY Zenon, <3>1, <3>2, <3>5, <3>6
  <2> QED
    BY Zenon, <2>1, <2>2
<1>2. \A u : Logged(u)' <=> Logged(u)
  BY Zenon DEF Logged
<1>3. \A u \in Tx \ {t} : InHand(u)' = InHand(u)
  BY Zenon, <1>0 DEF InHand, OthersLead
<1>4. \A u \in Tx : pc'[u] = "begin" => pc[u] = "begin"
  BY Zenon, <1>0, <1>1 DEF OthersLead
<1>5. ASSUME NEW r \in Rec, ClaimRule(r) PROVE ClaimRule(r)'
  BY Zenon, <1>2, <1>4, <1>5, RecFacts DEF ClaimRule
<1>6. QueueRule' /\ OnceRule'
  BY Zenon, <1>0, <1>5, ClaimTypes DEF QueueRule, OnceRule
<1>7. ASSUME NEW u \in Tx PROVE HandRule(u)'
  <2>0. /\ HandRule(u) /\ InHand(u) \subseteq Rec /\ InHand(u)' \subseteq InHand(u)
    BY Zenon, <1>0, <1>1, <1>3, <1>p, ClaimTypes
  <2>1. /\ Sorted(batch'[u].rest) /\ batch'[u].advanced <= written_through'
        /\ pc'[u] \in Unwritten =>
             \A q \in Elems(batch'[u].rest) : batch'[u].writing.ticket < q.ticket
    <3>1. CASE u = t
      BY Zenon, <1>1, <2>0, <3>1 DEF HandRule
    <3>2. CASE u # t
      BY Zenon, <1>0, <2>0, <3>2 DEF HandRule, OthersLead
    <3> QED
      BY Zenon, <3>1, <3>2
  <2> QED
    BY Zenon, <1>5, <2>0, <2>1 DEF HandRule
<1>8. ASSUME NEW u \in Tx PROVE TicketRule(u)'
  <2>1. pc'[u] \in Queued => pc[u] \in Queued
    BY Zenon, <1>0, <1>1 DEF OthersLead, Queued, Waiting
  <2> QED
    BY Zenon, <1>0, <1>2, <1>4, <2>1 DEF TicketRule
<1>9. ASSUME NEW u \in Tx PROVE PlacedRule(u)'
  <2>0. RecordOf(u)' = RecordOf(u) /\ RecordOf(u).tx = u
    BY DEF RecordOf
  <2>1. /\ pc'[u] \in Queued => pc[u] \in Queued
        /\ pc'[u] \in Leading => pc[u] \in Leading
        /\ pc'[u] \in Written => u # t /\ pc[u] \in Written
        /\ pc'[u] \in Ending => pc[u] \in Ending
    BY Zenon, <1>0, <1>1, <1>p DEF OthersLead, Queued, Waiting, Written, Ending
  <2>a. ASSUME NEW v \in Tx, RecordOf(u) \in InHand(v), pc[u] \in Queued \cup Leading
        PROVE  RecordOf(u)' \in InHand(v)'
    <3>1. CASE v # t
      BY Zenon, <1>3, <2>0, <2>a, <3>1
    <3>2. CASE v = t
      <4>1. u \in txs
        BY Zenon, <1>0, <2>a DEF GoneRule, Gone, Queued, Waiting, Leading, Unwritten, Written
      <4>2. RecordOf(u) # batch[t].writing \/ pc[t] \notin Unwritten
        BY Zenon, <2>0, <4>1 DEF Owner, Unwritten
      <4>3. RecordOf(u) \in Elems(batch[t].rest)
        BY Zenon, <2>a, <3>2, <4>2 DEF InHand
      <4> QED
        BY Zenon, <1>1, <2>0, <3>2, <4>3
    <3> QED
      BY Zenon, <3>1, <3>2
  <2>2. pc'[u] \in Queued =>
          \/ Logged(u)' \/ ticket'[u] \in retry' \/ RecordOf(u)' \in Elems(pending')
          \/ \E v \in Tx : RecordOf(u)' \in InHand(v)'
    BY Zenon, <1>0, <1>2, <2>0, <2>1, <2>a DEF PlacedRule
  <2>3. pc'[u] \in Leading => Logged(u)' \/ RecordOf(u)' \in InHand(u)'
    BY Zenon, <1>0, <1>2, <2>1, <2>a DEF PlacedRule
  <2>4. pc'[u] \in Written => Logged(Owner(u))'
    <3>1. ASSUME u # t PROVE Logged(Owner(u))' <=> Logged(Owner(u))
      BY Zenon, <1>0, <3>1 DEF Logged, Owner, OthersLead
    <3> QED
      BY Zenon, <1>0, <2>1, <3>1 DEF PlacedRule
  <2>5. pc'[u] \in Ending \/ log_appended'[u] \/ state'[u] = "Committed" => Logged(u)'
    BY Zenon, <1>0, <1>2, <2>1 DEF PlacedRule
  <2> QED
    BY Zenon, <2>2, <2>3, <2>4, <2>5 DEF PlacedRule
<1>10. \A u, v \in Tx : TicketPair(u, v)'
  BY Zenon, <1>0 DEF TicketPair
<1> QED
  BY Zenon, <1>6, <1>7, <1>8, <1>9, <1>10 DEF ClaimRules

(* release_group_claim of a leader: what it has not appended goes back to the  *)
(* front of the queue, but for the record in flight, whose owner is to retry   *)
(* it, or is gone, or is the leader.                                           *)
LEMMA DropLeadingClaims ==
  ASSUME LeadInv, ClaimRules, NEW t \in Tx, LeadStep(t), DropLeading(t),
         pc[t] \in YieldPoints, pc'[t] = "cleanup"
  PROVE  ClaimRules'
<1>g. GroupTypes
  BY Zenon DEF LeadInv
<1>w. PICK w : w = batch[t].writing
  BY Zenon
<1>q. PICK q : q = batch[t].rest
  BY Zenon
<1>b. PICK back : back = HandedBack(t)
  BY Zenon
<1>0. /\ QueueRule /\ OnceRule /\ OthersLead(t)
      /\ \A u \in Tx : HandRule(u) /\ TicketRule(u) /\ PlacedRule(u) /\ LockRule(u) /\ GoneRule(u)
      /\ \A u, v \in Tx : TicketPair(u, v)
  BY Zenon DEF ClaimRules, LeadStep, LeadInv, LeadRules
<1>a. UNCHANGED <<ticket, next_ticket, file, log_appended>> /\ batch[t] # NoBatch
  BY Zenon DEF DropLeading
<1>c. /\ lock_held[t] /\ retry = {} /\ pc[t] \in {"upgrade", "finish", "failed", "endlog"}
      /\ back \in Seq(Rec) /\ pending' = back \o pending
  <2>1. pc[t] \in Leading \cup {"failed", "endlog"} /\ pc[t] \in YieldPoints
    BY Zenon, DropLeadingFacts
  <2> QED
    BY Zenon, <1>b, <2>1, DropLeadingFacts DEF Leading, Unwritten, Written, YieldPoints
<1>d. /\ pc[t] \in {"upgrade", "finish"} => w \in InHand(t) /\ w \in Rec /\ ClaimRule(w)
      /\ pc[t] \in {"failed", "endlog"} => q = <<>>
      /\ q \in Seq(Rec) /\ Sorted(q) /\ Elems(q) \subseteq InHand(t) /\ InHand(t) \subseteq Rec
      /\ InHand(t) \subseteq Elems(q) \cup {w}
      /\ pc[t] \in {"upgrade", "finish"} => \A r \in Elems(q) : w.ticket < r.ticket
      /\ \A r \in InHand(t) : ClaimRule(r) /\ \A p \in Elems(pending) : r.ticket < p.ticket
  <2>1. InHand(t) \subseteq Rec /\ q \in Seq(Rec) /\ HandRule(t) /\ LockRule(t)
    BY Zenon, <1>0, <1>q, ClaimTypes
  <2>2. pc[t] \in {"upgrade", "finish"} => pc[t] \in Unwritten
    BY Zenon DEF Unwritten
  <2>3. /\ pc[t] \in {"upgrade", "finish"} => w \in InHand(t)
        /\ Elems(q) \subseteq InHand(t) /\ InHand(t) \subseteq Elems(q) \cup {w}
    BY Zenon, <1>q, <1>w, <2>2 DEF InHand
  <2> QED
    BY Zenon, <1>q, <1>w, <2>1, <2>2, <2>3 DEF HandRule, LockRule
<1>1. /\ Sorted(back) /\ Elems(back) \subseteq InHand(t) /\ Elems(q) \subseteq Elems(back)
      /\ pc[t] = "upgrade" => w \in Elems(back)
      /\ pc[t] = "finish" => Elems(back) = Elems(q)
      /\ pc[t] \in {"failed", "endlog"} => Elems(back) = {}
  <2>1. CASE pc[t] = "upgrade"
    <3>1. back = <<w>> \o q /\ w \in Rec
      BY Zenon, <1>b, <1>d, <1>q, <1>w, <2>1 DEF HandedBack
    <3>2. <<w>> \in Seq(Rec) /\ Elems(<<w>>) = {w} /\ Sorted(<<w>>)
      <4>1. <<w>> \in Seq(Rec)
        BY <3>1
      <4> QED
        BY Zenon, <4>1, FewElems
    <3>3. Elems(<<w>> \o q) = {w} \cup Elems(q)
      <4>1. Elems(<<w>> \o q) = Elems(<<w>>) \cup Elems(q)
        <5>1. PICK one : one = <<w>>
          BY Zenon
        <5>2. one \in Seq(Rec) /\ q \in Seq(Rec)
          BY Zenon, <1>d, <3>2, <5>1
        <5>3. Elems(one \o q) = Elems(one) \cup Elems(q)
          BY SMT, <5>2, ConcatElems
        <5> QED
          BY Zenon, <5>1, <5>3
      <4> QED
        BY Zenon, <3>2, <4>1
    <3>4. \A r \in Elems(<<w>>), p \in Elems(q) : r.ticket < p.ticket
      BY Zenon, <1>d, <2>1, <3>2
    <3>5. Sorted(<<w>> \o q)
      BY Zenon, <1>d, <3>2, <3>4, ConcatSorted
    <3> QED
      BY Zenon, <1>d, <2>1, <3>1, <3>3, <3>5
  <2>2. CASE pc[t] # "upgrade"
    <3>1. back = q
      BY Zenon, <1>b, <1>q, <2>2 DEF HandedBack
    <3>2. Elems(<<>>) = {}
      BY Zenon, FewElems
    <3> QED
      BY Zenon, <1>d, <2>2, <3>1, <3>2
  <2> QED
    BY Zenon, <2>1, <2>2
<1>2. Elems(pending') = Elems(back) \cup Elems(pending) /\ Sorted(pending')
  <2>1. pending \in Seq(Rec) /\ Sorted(pending)
    BY Zenon, <1>0, <1>g DEF GroupTypes, QueueRule
  <2>2. Elems(back \o pending) = Elems(back) \cup Elems(pending)
    BY SMT, <1>c, <2>1, ConcatElems
  <2>3. Sorted(back \o pending)
    BY Zenon, <1>1, <1>c, <1>d, <2>1, ConcatSorted
  <2> QED
    BY Zenon, <1>c, <2>2, <2>3
<1>3. /\ written_through' = written_through /\ durable_through' = durable_through
      /\ \/ retry' = {}
         \/ pc[t] = "finish" /\ Owner(t) # t /\ retry' = {w.ticket}
      /\ pc[t] = "finish" /\ Owner(t) # t /\ Owner(t) \notin abandoned => retry' = {w.ticket}
  <2> DEFINE n == w.ticket
             noted == Max(written_through, batch[t].advanced)
  <2>1. /\ batch[t].advanced \in Nat /\ batch[t].advanced <= written_through
        /\ written_through \in Nat /\ durable_through \in Nat /\ durable_through <= written_through
    BY Zenon, <1>0, <1>g, ClaimTypes DEF HandRule, QueueRule, GroupTypes
  <2>2. noted = written_through
    BY <2>1 DEF Max
  <2> HIDE DEF noted
  <2>3. CASE /\ ~(pc[t] = "finish" /\ Owner(t) # t /\ Owner(t) \notin abandoned)
             /\ retry' = {} /\ written_through' = noted /\ durable_through' = durable_through
    BY Zenon, <2>2, <2>3
  <2>4. CASE /\ pc[t] = "finish" /\ Owner(t) # t /\ Owner(t) \notin abandoned
             /\ retry' = {n} /\ n \in Nat \ {0}
             /\ written_through' = Min(noted, n - 1)
             /\ durable_through' = Min(durable_through, n - 1)
    <3>1. n > written_through
      BY Zenon, <1>d, <2>4 DEF ClaimRule
    <3>2. Min(written_through, n - 1) = written_through
          /\ Min(durable_through, n - 1) = durable_through
      BY <2>1, <2>4, <3>1 DEF Min
    <3> QED
      BY Zenon, <2>2, <2>4, <3>2
  <2> QED
    BY Zenon, <1>w, <2>3, <2>4, DropLeadingFacts DEF noted
<1>4. \A u \in Tx : state'[u] = "Committed" => state[u] = "Committed"
  <2>1. CASE UNCHANGED <<state, dep_set, txs>>
    BY Zenon, <2>1
  <2>2. CASE Owner(t) \in abandoned \cap txs /\ RolledBack(Owner(t))
    <3>1. Owner(t) \in Tx /\ state' = [state EXCEPT ![Owner(t)] = "Aborted"]
      BY Zenon, <1>g, <2>2 DEF GroupTypes, RolledBack
    <3>2. /\ state'[Owner(t)] = "Aborted"
          /\ \A u \in Tx \ {Owner(t)} : state'[u] = state[u]
      BY Zenon, <1>g, <3>1, TxUpdate DEF GroupTypes
    <3> QED
      BY Zenon, <3>2
  <2> QED
    BY Zenon, <2>1, <2>2, DropLeadingFacts
<1>5. \A u : Logged(u)' <=> Logged(u)
  BY Zenon, <1>a DEF Logged
<1>6. \A u \in Tx \ {t} : InHand(u) = {} /\ InHand(u)' = {}
  <2>1. \A u \in Tx \ {t} : InHand(u) = {}
    BY Zenon, <1>c, OnlyLeader DEF LeadInv, LeadRules, LockPair
  <2> QED
    BY Zenon, <1>0, <2>1 DEF InHand, OthersLead
<1>7. batch'[t] = NoBatch /\ InHand(t)' = {} /\ NoBatch.rest = <<>> /\ NoBatch.advanced = 0
  <2>1. batch' = [batch EXCEPT ![t] = NoBatch]
    BY Zenon DEF DropLeading
  <2>2. batch'[t] = NoBatch
    BY Zenon, <1>g, <2>1, TxUpdate DEF GroupTypes
  <2>3. NoBatch.rest = <<>> /\ NoBatch.advanced = 0
    BY DEF NoBatch
  <2>4. Elems(<<>>) = {}
    BY Zenon, FewElems
  <2> QED
    BY Zenon, <2>2, <2>3, <2>4 DEF InHand, Unwritten
<1>8. \A u \in Tx : pc'[u] = "begin" => pc[u] = "begin"
  BY Zenon, <1>0 DEF OthersLead
<1>9. ASSUME NEW r \in Elems(pending') PROVE r \in Rec /\ ClaimRule(r) /\ r.ticket \notin retry'
  <2>1. r \in Rec /\ ClaimRule(r)
    BY Zenon, <1>0, <1>1, <1>2, <1>9, <1>d, ClaimTypes DEF QueueRule
  <2>2. ASSUME pc[t] = "finish" PROVE w.ticket < r.ticket
    BY Zenon, <1>1, <1>2, <1>9, <1>d, <2>2
  <2>3. ASSUME pc[t] = "finish" PROVE w.ticket # r.ticket
    <3>1. r.ticket \in Nat /\ w.ticket \in Nat
      BY Zenon, <1>d, <2>1, <2>3, RecFacts
    <3> QED
      BY <2>2, <2>3, <3>1
  <2> QED
    BY Zenon, <1>3, <2>1, <2>3
<1>10. QueueRule' /\ OnceRule'
  <2>1. \A r \in Elems(pending') : ClaimRule(r)'
    <3>1. ASSUME NEW r \in Elems(pending') PROVE ClaimRule(r)'
      BY Zenon, <1>3, <1>5, <1>8, <1>9, <1>a, RecFacts DEF ClaimRule
    <3> QED
      BY Zenon, <3>1
  <2>2. \A n \in retry' : n <= next_ticket'
    BY Zenon, <1>3, <1>a, <1>d DEF ClaimRule
  <2> QED
    BY Zenon, <1>0, <1>2, <1>3, <1>a, <2>1, <2>2 DEF QueueRule, OnceRule
<1>11. ASSUME NEW u \in Tx PROVE HandRule(u)'
  <2>1. CASE u = t
    <3>1. 0 <= written_through
      BY <1>g DEF GroupTypes
    <3>2. Sorted(<<>>)
      BY Zenon, FewElems
    <3> QED
      BY Zenon, <1>3, <1>7, <2>1, <3>1, <3>2 DEF HandRule, Unwritten
  <2>2. CASE u # t
    <3>1. pc'[u] = pc[u] /\ batch'[u] = batch[u] /\ InHand(u)' = {}
      BY Zenon, <1>0, <1>6, <2>2 DEF OthersLead
    <3> QED
      BY Zenon, <1>0, <1>3, <3>1 DEF HandRule
  <2> QED
    BY Zenon, <2>1, <2>2
<1>o. ASSUME NEW u \in Tx, pc[t] = "finish", ticket[u] = w.ticket
      PROVE  w.tx = u /\ ~Logged(u)
  <2>1. w.tx \in Tx /\ w.ticket # 0 /\ w.ticket = ticket[w.tx] /\ ~Logged(w.tx)
    BY Zenon, <1>d, <1>o, RecFacts DEF ClaimRule
  <2> QED
    BY Zenon, <1>0, <1>o, <2>1 DEF TicketPair
<1>12. ASSUME NEW u \in Tx PROVE TicketRule(u)'
  <2>1. pc'[u] \in Queued => pc[u] \in Queued
    BY Zenon, <1>0 DEF OthersLead, Queued, Waiting
  <2>2. ticket[u] \in retry' => ~Logged(u)
    BY Zenon, <1>3, <1>o
  <2> QED
    BY Zenon, <1>0, <1>5, <1>8, <1>a, <2>1, <2>2 DEF TicketRule
<1>13. ASSUME NEW u \in Tx PROVE PlacedRule(u)'
  <2>0. RecordOf(u)' = RecordOf(u) /\ RecordOf(u).tx = u /\ RecordOf(u).ticket = ticket[u]
    BY <1>a DEF RecordOf
  <2>1. /\ pc'[u] \in Queued => u # t /\ pc[u] \in Queued
        /\ pc'[u] \in Leading => u # t /\ pc[u] \in Leading
        /\ pc'[u] \in Written => u # t /\ pc[u] \in Written
        /\ pc'[u] \in Ending => pc[u] \in Ending
    BY Zenon, <1>0 DEF OthersLead, Queued, Waiting, Written, Ending, Leading, Unwritten
  <2>2. ASSUME NEW v \in Tx, RecordOf(u) \in InHand(v), pc[u] \in Queued, u # t
        PROVE  RecordOf(u) \in Elems(pending') \/ ticket[u] \in retry'
    <3>1. v = t /\ (RecordOf(u) \in Elems(q) \/ RecordOf(u) = w)
      BY Zenon, <1>6, <1>d, <2>2
    <3>2. CASE RecordOf(u) \in Elems(q)
      BY Zenon, <1>1, <1>2, <3>2
    <3>3. CASE RecordOf(u) = w /\ pc[t] = "upgrade"
      BY Zenon, <1>1, <1>2, <3>3
    <3>4. CASE RecordOf(u) = w /\ pc[t] = "finish"
      <4>1. Owner(t) = u /\ ticket[u] = w.ticket
        BY Zenon, <1>w, <2>0, <3>4 DEF Owner
      <4>2. u \notin abandoned
        BY Zenon, <1>0, <2>2 DEF GoneRule, Gone, Queued, Waiting
      <4> QED
        BY Zenon, <1>3, <2>2, <3>4, <4>1, <4>2
    <3>5. pc[t] \in {"failed", "endlog"} => RecordOf(u) \notin InHand(t)
      <4>1. pc[t] \in {"failed", "endlog"} => InHand(t) = Elems(q)
        BY Zenon, <1>q DEF InHand, Unwritten
      <4>2. Elems(<<>>) = {}
        BY Zenon, FewElems
      <4> QED
        BY Zenon, <1>d, <4>1, <4>2
    <3> QED
      BY Zenon, <1>c, <2>2, <3>1, <3>2, <3>3, <3>4, <3>5
  <2>3. pc'[u] \in Queued => Logged(u)' \/ ticket'[u] \in retry' \/ RecordOf(u)' \in Elems(pending')
    <3>1. pc[u] \in Queued =>
            Logged(u) \/ RecordOf(u) \in Elems(pending) \/ \E v \in Tx : RecordOf(u) \in InHand(v)
      BY Zenon, <1>0, <1>c DEF PlacedRule
    <3> QED
      BY Zenon, <1>2, <1>5, <1>a, <2>0, <2>1, <2>2, <3>1
  <2>4. pc'[u] \in Leading => Logged(u)'
    BY Zenon, <1>0, <1>5, <1>6, <2>1 DEF PlacedRule
  <2>5. pc'[u] \in Written => Logged(Owner(u))'
    <3>1. ASSUME u # t PROVE Logged(Owner(u))' <=> Logged(Owner(u))
      BY Zenon, <1>0, <1>a, <3>1 DEF Logged, Owner, OthersLead
    <3> QED
      BY Zenon, <1>0, <2>1, <3>1 DEF PlacedRule
  <2>6. pc'[u] \in Ending \/ log_appended'[u] \/ state'[u] = "Committed" => Logged(u)'
    BY Zenon, <1>0, <1>4, <1>5, <1>a, <2>1 DEF PlacedRule
  <2> QED
    BY Zenon, <2>3, <2>4, <2>5, <2>6 DEF PlacedRule
<1>14. \A u, v \in Tx : TicketPair(u, v)'
  BY Zenon, <1>0, <1>a DEF TicketPair
<1> QED
  BY Zenon, <1>10, <1>11, <1>12, <1>13, <1>14 DEF ClaimRules

(* Every step keeps the records where they belong. *)
LEMMA ClaimsKept ==
  ASSUME LeadInv, ClaimRules, NEW t \in Tx, Step(t) \/ LogTxFails(t) \/ SyncFails(t) \/ Drop(t)
  PROVE  ClaimRules'
<1> USE DEF Goto, queueVars, markVars, waitVars, lockVars, txVars, machVars, logVars
<1>0. /\ GroupTypes /\ LeadStep(t) /\ QueueRule /\ LockRule(t)
      /\ HandRule(t) /\ TicketRule(t) /\ PlacedRule(t)
  BY Zenon, LeadStepKept DEF LeadInv, LeadRules, ClaimRules
<1>p. ASSUME NEW b, pc' = [pc EXCEPT ![t] = b]
      PROVE  pc'[t] = b
  BY Zenon, <1>0, <1>p, TxUpdate DEF GroupTypes
<1>w. ASSUME pc[t] \in Leading PROVE Owner(t) \in Tx
  <2>1. batch[t].writing \in Rec
    BY Zenon, <1>0, <1>w DEF LockRule
  <2> QED
    BY <2>1 DEF Owner, Rec
<1>q. ASSUME UNCHANGED <<pending, ticket, next_ticket, written_through, file, retry, batch>>,
             durable_through' <= written_through,
             pc'[t] \in Unwritten <=> pc[t] \in Unwritten, pc'[t] # "begin",
             pc'[t] \in Queued => pc[t] \in Queued,
             pc'[t] \in Leading => pc[t] \in Leading,
             pc'[t] \in Written => pc[t] \in Written,
             pc'[t] \in Ending => Logged(t),
             \A u \in Tx : (log_appended'[u] => log_appended[u] \/ Logged(u))
                        /\ (state'[u] = "Committed" => state[u] = "Committed" \/ Logged(u))
      PROVE  ClaimRules'
  <2>1. batch[t].advanced <= written_through' /\ Owner(t)' = Owner(t)
    BY Zenon, <1>0, <1>q DEF HandRule, Owner
  <2>2. pc'[t] \in Written => Logged(Owner(t)')
    BY Zenon, <1>0, <1>q, <2>1 DEF PlacedRule
  <2> QED
    BY Zenon, <1>0, <1>q, <2>1, <2>2, QuietClaims
<1>d. durable_through <= written_through
  BY Zenon, <1>0 DEF QueueRule
<1>1. CASE LockBusy(t)
  <2>1. UNCHANGED <<pending, ticket, next_ticket, written_through, durable_through, file, retry,
                    batch, log_appended, state>>
    BY Zenon, <1>1 DEF LockBusy
  <2> QED
    BY Zenon, <1>d, <1>p, <1>q, <1>1, <2>1 DEF LockBusy, Queued, Waiting, Leading, Unwritten,
       Written, Ending
<1>2. CASE NoWork(t)
  <2>1. UNCHANGED <<pending, ticket, next_ticket, written_through, durable_through, file, retry,
                    batch, log_appended, state>>
    BY Zenon, <1>2 DEF NoWork
  <2> QED
    BY Zenon, <1>d, <1>p, <1>q, <1>2, <2>1 DEF NoWork, Queued, Waiting, Leading, Unwritten, Written,
       Ending
<1>3. CASE Park(t)
  <2>1. UNCHANGED <<pending, ticket, next_ticket, written_through, durable_through, file, retry,
                    batch, log_appended, state>>
    BY Zenon, <1>3 DEF Park
  <2> QED
    BY Zenon, <1>d, <1>p, <1>q, <1>3, <2>1 DEF Park, Queued, Waiting, Leading, Unwritten, Written,
       Ending
<1>4. CASE Woken(t)
  <2>1. UNCHANGED <<pending, ticket, next_ticket, written_through, durable_through, file, retry,
                    batch, log_appended, state>>
    BY Zenon, <1>4 DEF Woken
  <2> QED
    BY Zenon, <1>d, <1>p, <1>q, <1>4, <2>1 DEF Woken, Queued, Waiting, Leading, Unwritten, Written,
       Ending
<1>5. CASE UpgradeLogicalLogHeader(t)
  <2>1. UNCHANGED <<pending, ticket, next_ticket, written_through, durable_through, file, retry,
                    batch, log_appended, state>>
    BY Zenon, <1>5 DEF UpgradeLogicalLogHeader
  <2> QED
    BY Zenon, <1>d, <1>p, <1>q, <1>5, <2>1 DEF UpgradeLogicalLogHeader, Queued, Waiting, Leading,
       Unwritten, Written, Ending
<1>6. CASE WriteLogicalLog(t)
  <2>1. UNCHANGED <<pending, ticket, next_ticket, written_through, durable_through, file, retry,
                    batch, log_appended, state>>
    BY Zenon, <1>6 DEF WriteLogicalLog
  <2> QED
    BY Zenon, <1>d, <1>p, <1>q, <1>6, <2>1 DEF WriteLogicalLog, Queued, Waiting, Leading, Unwritten,
       Written, Ending
<1>7. CASE LogTx(t)
  <2>1. UNCHANGED <<pending, ticket, next_ticket, written_through, durable_through, file, retry,
                    batch, log_appended, state>>
    BY Zenon, <1>7 DEF LogTx
  <2> QED
    BY Zenon, <1>d, <1>p, <1>q, <1>7, <2>1 DEF LogTx, Queued, Waiting, Leading, Unwritten, Written,
       Ending
<1>8. CASE LogTxFails(t)
  <2>1. UNCHANGED <<pending, ticket, next_ticket, written_through, durable_through, file, retry,
                    batch, log_appended, state>>
    BY Zenon, <1>8 DEF LogTxFails
  <2> QED
    BY Zenon, <1>d, <1>p, <1>q, <1>8, <2>1 DEF LogTxFails, Queued, Waiting, Leading, Unwritten,
       Written, Ending
<1>9. CASE NoteWriteIssued(t)
  <2>1. UNCHANGED <<pending, ticket, next_ticket, written_through, durable_through, file, retry,
                    batch, log_appended, state>>
    BY Zenon, <1>9 DEF NoteWriteIssued
  <2> QED
    BY Zenon, <1>d, <1>p, <1>q, <1>9, <2>1 DEF NoteWriteIssued, Queued, Waiting, Leading, Unwritten,
       Written, Ending
<1>10. CASE ClearIssued(t)
  <2>1. UNCHANGED <<pending, ticket, next_ticket, written_through, durable_through, file, retry,
                    batch, log_appended, state>>
    BY Zenon, <1>10 DEF ClearIssued
  <2> QED
    BY Zenon, <1>d, <1>p, <1>q, <1>10, <2>1 DEF ClearIssued, Queued, Waiting, Leading, Unwritten,
       Written, Ending
<1>11. CASE SyncGroupPrefix(t)
  <2>1. UNCHANGED <<pending, ticket, next_ticket, written_through, durable_through, file, retry,
                    batch, log_appended, state>>
    BY Zenon, <1>11 DEF SyncGroupPrefix, SyncLog
  <2> QED
    BY Zenon, <1>d, <1>p, <1>q, <1>11, <2>1 DEF SyncGroupPrefix, SyncLog, Queued, Waiting, Leading,
       Unwritten, Written, Ending
<1>12. CASE SyncFails(t)
  <2>1. UNCHANGED <<pending, ticket, next_ticket, written_through, durable_through, file, retry,
                    batch, log_appended, state>>
    BY Zenon, <1>12 DEF SyncFails
  <2> QED
    BY Zenon, <1>d, <1>p, <1>q, <1>12, <2>1 DEF SyncFails, Queued, Waiting, Leading, Unwritten,
       Written, Ending
<1>13. CASE LeadSync(t)
  <2>1. UNCHANGED <<pending, ticket, next_ticket, written_through, durable_through, file, retry,
                    batch, log_appended, state>>
    BY Zenon, <1>13 DEF LeadSync
  <2> QED
    BY Zenon, <1>d, <1>p, <1>q, <1>13, <2>1 DEF LeadSync, Queued, Waiting, Leading, Unwritten,
       Written, Ending
<1>14. CASE Abandon(t)
  <2>1. UNCHANGED <<pending, ticket, next_ticket, written_through, durable_through, file, retry,
                    batch, log_appended, state>>
    BY Zenon, <1>14 DEF Abandon
  <2> QED
    BY Zenon, <1>d, <1>p, <1>q, <1>14, <2>1 DEF Abandon, Queued, Waiting, Leading, Unwritten,
       Written, Ending
<1>15. CASE Leave(t)
  <2>1. UNCHANGED <<pending, ticket, next_ticket, written_through, durable_through, file, retry,
                    batch, log_appended, state>>
    BY Zenon, <1>15 DEF Leave
  <2> QED
    BY Zenon, <1>d, <1>p, <1>q, <1>15, <2>1 DEF Leave, Queued, Waiting, Leading, Unwritten, Written,
       Ending
<1>16. CASE SetLogAppended(t)
  <2>1. /\ UNCHANGED <<pending, ticket, next_ticket, written_through, durable_through, file, retry,
                       batch, state>>
        /\ pc[t] = "appended" /\ pc'[t] = "clear"
        /\ log_appended' = [log_appended EXCEPT ![Owner(t)] = @ \/ Owner(t) \in txs]
    BY Zenon, <1>p, <1>16 DEF SetLogAppended
  <2>2. Owner(t) \in Tx /\ Logged(Owner(t))
    BY Zenon, <1>0, <1>w, <2>1 DEF PlacedRule, Leading, Written
  <2>3. \A u \in Tx \ {Owner(t)} : log_appended'[u] = log_appended[u]
    BY Zenon, <1>0, <2>1, <2>2, TxUpdate DEF GroupTypes
  <2> QED
    BY Zenon, <1>d, <1>q, <2>1, <2>2, <2>3 DEF Queued, Waiting, Leading, Unwritten, Written, Ending
<1>17. CASE SyncLogicalLog(t)
  <2>1. /\ UNCHANGED <<pending, ticket, next_ticket, written_through, durable_through, file, retry,
                       batch, log_appended, state>>
        /\ pc[t] = "sync" /\ pc'[t] = "endlog"
    BY Zenon, <1>p, <1>17 DEF SyncLogicalLog, SyncLog
  <2>2. InHand(t) = {}
    BY Zenon, <1>0, <2>1, FewElems DEF InHand, LockRule, Unwritten
  <2>3. Logged(t)
    BY Zenon, <1>0, <2>1, <2>2 DEF PlacedRule, Leading
  <2> QED
    BY Zenon, <1>d, <1>q, <2>1, <2>3 DEF Queued, Waiting, Leading, Unwritten, Written, Ending
<1>18. CASE GroupPrefixSynced(t)
  <2>1. /\ UNCHANGED <<pending, ticket, next_ticket, written_through, file, retry, batch,
                       log_appended, state>>
        /\ pc[t] = "prefixed" /\ pc'[t] = "await" /\ durable_through' = Durable
    BY Zenon, <1>p, <1>18 DEF GroupPrefixSynced
  <2>2. Durable <= written_through
    <3>1. Durable = Max(durable_through, written_through)
      BY Zenon, DurableIs
    <3> QED
      BY <1>0, <1>d, <3>1 DEF Max, GroupTypes
  <2> QED
    BY Zenon, <1>q, <2>1, <2>2 DEF Queued, Waiting, Leading, Unwritten, Written, Ending
<1>19. CASE EndCommitLogicalLog(t)
  <2>1. /\ UNCHANGED <<pending, ticket, next_ticket, written_through, file, retry, log_appended,
                       state>>
        /\ pc[t] = "endlog" /\ pc'[t] = "commit" /\ batch' = [batch EXCEPT ![t] = NoBatch]
        /\ durable_through' \in {Durable, durable_through}
    BY Zenon, <1>p, <1>19 DEF EndCommitLogicalLog
  <2>2. Durable <= written_through
    <3>1. Durable = Max(durable_through, written_through)
      BY Zenon, DurableIs
    <3> QED
      BY <1>0, <1>d, <3>1 DEF Max, GroupTypes
  <2>3. batch'[t] = NoBatch
    BY Zenon, <1>0, <2>1, TxUpdate DEF GroupTypes
  <2>4. NoBatch.rest = <<>> /\ NoBatch.advanced <= written_through
    BY <1>0 DEF NoBatch, GroupTypes
  <2>5. batch[t].rest = <<>> /\ Logged(t)
    BY Zenon, <1>0, <2>1 DEF LockRule, PlacedRule, Ending
  <2>6. durable_through' <= written_through'
    BY Zenon, <1>d, <2>1, <2>2
  <2> QED
    BY Zenon, <1>0, <2>1, <2>3, <2>4, <2>5, <2>6, QuietClaims DEF Queued, Waiting, Leading,
       Unwritten, Written, Ending
<1>20. CASE CommitEnd(t)
  <2>1. /\ UNCHANGED <<pending, ticket, next_ticket, written_through, durable_through, file, retry,
                       batch, log_appended>>
        /\ pc[t] = "commit" /\ pc'[t] = "finalize" /\ state' = [state EXCEPT ![t] = "Committed"]
    BY Zenon, <1>p, <1>20 DEF CommitEnd
  <2>2. Logged(t)
    BY Zenon, <1>0, <2>1 DEF PlacedRule, Ending
  <2>3. \A u \in Tx \ {t} : state'[u] = state[u]
    BY Zenon, <1>0, <2>1, TxUpdate DEF GroupTypes
  <2> QED
    BY Zenon, <1>d, <1>q, <2>1, <2>2, <2>3 DEF Queued, Waiting, Leading, Unwritten, Written, Ending
<1>21. CASE FinalizeCommit(t) \/ CompleteDropped(t)
  <2>1. /\ UNCHANGED <<pending, ticket, next_ticket, written_through, durable_through, file, retry,
                       batch, log_appended, state>>
        /\ pc[t] \in {"finalize", "complete"} /\ pc'[t] \in {"acked", "dropped"}
    BY Zenon, <1>p, <1>21 DEF FinalizeCommit, CompleteDropped, Finish
  <2>2. Logged(t)
    BY Zenon, <1>0, <2>1 DEF PlacedRule, Ending
  <2> QED
    BY Zenon, <1>d, <1>q, <2>1, <2>2 DEF Queued, Waiting, Leading, Unwritten, Written, Ending
<1>22. CASE CleanupDroppedCommit(t)
  <2>1. /\ UNCHANGED <<pending, ticket, next_ticket, written_through, durable_through, file, retry,
                       batch, log_appended>>
        /\ pc[t] = "cleanup"
        /\ \/ pc'[t] = "complete" /\ LoggedWhenDropped(t)
              /\ state' = [state EXCEPT ![t] = "Committed"]
           \/ pc'[t] = "giveup" /\ state' = state
    BY Zenon, <1>p, <1>22 DEF CleanupDroppedCommit
  <2>2. LoggedWhenDropped(t) => Logged(t)
    BY Zenon, <1>0 DEF PlacedRule, LoggedWhenDropped
  <2>3. \A u \in Tx : state'[u] = "Committed" => state[u] = "Committed" \/ Logged(u)
    <3>1. CASE state' = state
      BY Zenon, <3>1
    <3>2. CASE LoggedWhenDropped(t) /\ state' = [state EXCEPT ![t] = "Committed"]
      BY Zenon, <1>0, <2>2, <3>2, TxUpdate DEF GroupTypes
    <3> QED
      BY Zenon, <2>1, <3>1, <3>2
  <2> QED
    BY Zenon, <1>d, <1>q, <2>1, <2>2, <2>3 DEF Queued, Waiting, Leading, Unwritten, Written, Ending
<1>23. CASE RollbackDropped(t)
  <2>1. /\ UNCHANGED <<pending, ticket, next_ticket, written_through, durable_through, file, retry,
                       batch, log_appended>>
        /\ pc[t] = "giveup" /\ pc'[t] = "dropped" /\ state' = [state EXCEPT ![t] = "Aborted"]
    BY Zenon, <1>p, <1>23 DEF RollbackDropped, RolledBack
  <2>2. state'[t] = "Aborted" /\ \A u \in Tx \ {t} : state'[u] = state[u]
    BY Zenon, <1>0, <2>1, TxUpdate DEF GroupTypes
  <2>3. \A u \in Tx : state'[u] = "Committed" => state[u] = "Committed"
    BY Zenon, <2>2
  <2> QED
    BY Zenon, <1>d, <1>q, <2>1, <2>3 DEF Queued, Waiting, Leading, Unwritten, Written, Ending
<1>24. CASE Enqueue(t)
  BY Zenon, <1>0, <1>24, EnqueueClaims
<1>25. CASE Lead(t)
  BY Zenon, <1>0, <1>25, LeadClaims
<1>26. CASE MarkLogRecordWritten(t)
  BY Zenon, <1>0, <1>26, MarkClaims
<1>27. CASE Skip(t)
  BY Zenon, <1>0, <1>27, AdvanceClaims DEF Skip
<1>28. CASE TakeAbandoned(t)
  <2>0. /\ UNCHANGED <<pending, ticket, next_ticket, written_through, durable_through, file, retry,
                       log_appended, state>>
        /\ pc[t] = "orphan"
    BY Zenon, <1>28 DEF TakeAbandoned
  <2>1. CASE Advance(t)
    BY Zenon, <1>0, <2>0, <2>1, AdvanceClaims
  <2>2. CASE pc' = [pc EXCEPT ![t] = "adopt"] /\ batch' = batch
    BY Zenon, <1>d, <1>p, <1>q, <2>0, <2>2 DEF Queued, Waiting, Leading, Unwritten, Written, Ending
  <2> QED
    BY Zenon, <1>28, <2>1, <2>2 DEF TakeAbandoned
<1>29. CASE FinishAbandoned(t)
  <2>0. /\ UNCHANGED <<pending, ticket, next_ticket, written_through, durable_through, file, retry,
                       log_appended>>
        /\ pc[t] = "adopt" /\ Advance(t) /\ state' = [state EXCEPT ![Owner(t)] = "Committed"]
    BY Zenon, <1>29 DEF FinishAbandoned
  <2>1. Owner(t) \in Tx /\ Logged(Owner(t))
    BY Zenon, <1>0, <1>w, <2>0 DEF PlacedRule, Leading, Written
  <2>2. \A u \in Tx \ {Owner(t)} : state'[u] = state[u]
    BY Zenon, <1>0, <2>0, <2>1, TxUpdate DEF GroupTypes
  <2>3. \A u \in Tx : state'[u] = "Committed" => state[u] = "Committed" \/ Logged(u)
    BY Zenon, <2>1, <2>2
  <2> QED
    BY Zenon, <1>0, <2>0, <2>3, AdvanceClaims
<1>e. Sorted(pending)
  BY Zenon, <1>0 DEF QueueRule
<1>30. CASE Await(t)
  <2>0. /\ UNCHANGED <<pending, ticket, next_ticket, written_through, durable_through, file, batch,
                       log_appended, state>>
        /\ pc[t] = "await" /\ pc[t] \in Queued /\ pc[t] \notin Leading
    BY Zenon, <1>30 DEF Await, Queued, Waiting, Leading, Unwritten, Written, Ending
  <2>1. CASE durable_through >= ticket[t]
    <3>1. pc'[t] = "endlog" /\ retry' = retry
      BY Zenon, <1>p, <1>30, <2>1 DEF Await
    <3>2. ticket[t] <= written_through
      BY <1>0, <1>d, <2>1 DEF GroupTypes
    <3>3. Logged(t)
      BY Zenon, <2>0, <3>2, CoveredIsLogged
    <3> QED
      BY Zenon, <1>0, <1>e, <2>0, <3>1, <3>3, LeavingClaims DEF Queued, Waiting, Leading, Unwritten,
         Written, Ending
  <2>2. CASE ~(durable_through >= ticket[t]) /\ ticket[t] \in retry
    <3>1. pc'[t] = "begin" /\ retry' = retry \ {ticket[t]}
      BY Zenon, <1>p, <1>30, <2>2 DEF Await
    <3> QED
      BY Zenon, <1>0, <1>e, <2>0, <2>2, <3>1, LeavingClaims DEF Queued, Waiting, Leading, Unwritten,
         Written, Ending
  <2>3. CASE ~(durable_through >= ticket[t]) /\ ticket[t] \notin retry
    <3>1. pc'[t] = "lock" /\ retry' = retry \ {ticket[t]}
      BY Zenon, <1>p, <1>30, <2>3 DEF Await
    <3>2. retry' = retry
      BY Zenon, <2>3, <3>1
    <3> QED
      BY Zenon, <1>d, <1>q, <2>0, <3>1, <3>2 DEF Queued, Waiting, Leading, Unwritten, Written,
         Ending
  <2> QED
    BY Zenon, <2>1, <2>2, <2>3
<1>31. CASE RetryUnderLock(t)
  <2>0. /\ UNCHANGED <<pending, ticket, next_ticket, written_through, durable_through, file, batch,
                       log_appended, state>>
        /\ pc[t] = "lock" /\ ticket[t] \in retry /\ pc'[t] = "begin" /\ retry' = retry \ {ticket[t]}
    BY Zenon, <1>p, <1>31 DEF RetryUnderLock
  <2> QED
    BY Zenon, <1>0, <1>e, <2>0, LeavingClaims DEF Queued, Waiting, Leading, Unwritten, Written,
       Ending
<1>32. CASE Drop(t)
  <2>0. pc'[t] = "cleanup" /\ pc[t] \in YieldPoints
    BY Zenon, <1>p, <1>32 DEF Drop
  <2>1. CASE DropWaiting(t)
    <3>1. /\ UNCHANGED <<ticket, next_ticket, written_through, durable_through, file, batch,
                         log_appended, state>>
          /\ pc[t] \in {"await", "asleep"} /\ retry' = retry \ {ticket[t]}
          /\ pending' = Without(pending, ticket[t])
      BY Zenon, <2>1 DEF DropWaiting
    <3>2. Sorted(pending') /\ Elems(pending') = {r \in Elems(pending) : r.ticket # ticket[t]}
      <4>1. pending \in Seq(Rec) /\ ticket[t] \in Nat
        BY Zenon, <1>0 DEF GroupTypes
      <4> QED
        BY Zenon, <1>e, <3>1, <4>1, WithoutElems
    <3>3. /\ Elems(pending') \subseteq Elems(pending)
          /\ \A r \in Elems(pending) : r \in Elems(pending') \/ r.ticket = ticket[t]
      BY Zenon, <3>2
    <3> QED
      BY Zenon, <1>0, <2>0, <3>1, <3>2, <3>3, LeavingClaims DEF Queued, Waiting, Leading, Unwritten,
         Written, Ending
  <2>2. CASE DropIdle(t)
    <3>1. /\ UNCHANGED <<pending, ticket, next_ticket, written_through, durable_through, file,
                         retry, batch, log_appended, state>>
          /\ batch[t] = NoBatch
      BY Zenon, <2>2 DEF DropIdle
    <3>2. pc[t] \notin Leading
      BY Zenon, <1>0, <3>1 DEF LockRule
    <3> QED
      BY Zenon, <1>d, <1>q, <2>0, <3>1, <3>2 DEF Queued, Waiting, Leading, Unwritten, Written,
         Ending
  <2>3. CASE DropLeading(t)
    BY Zenon, <1>0, <2>0, <2>3, DropLeadingClaims
  <2> QED
    BY Zenon, <1>32, <2>1, <2>2, <2>3 DEF Drop
<1> QED
  BY Zenon, <1>1, <1>2, <1>3, <1>4, <1>5, <1>6, <1>7, <1>8, <1>9, <1>10, <1>11, <1>12, <1>13, <1>14,
     <1>15, <1>16, <1>17, <1>18, <1>19, <1>20, <1>21, <1>22, <1>23, <1>24, <1>25, <1>26, <1>27,
     <1>28, <1>29, <1>30, <1>31, <1>32 DEF Step

(* In the beginning nothing is queued, in hand or logged. *)
LEMMA InitClaims == GroupInit => ClaimRules
<1> SUFFICES ASSUME GroupInit PROVE ClaimRules
  OBVIOUS
<1>1. Elems(<<>>) = {} /\ Sorted(<<>>) /\ Len(<<>>) = 0
  BY DEF Elems, Sorted
<1>2. NoBatch.rest = <<>> /\ NoBatch.advanced = 0
  BY DEF NoBatch
<1>3. QueueRule
  BY <1>1 DEF GroupInit, QueueRule
<1>4. OnceRule /\ \A t : ~Logged(t)
  BY DEF GroupInit, OnceRule, Logged
<1>5. ASSUME NEW t \in Tx PROVE HandRule(t) /\ TicketRule(t) /\ PlacedRule(t)
  <2>1. /\ pc[t] = "begin" /\ ticket[t] = 0 /\ batch[t] = NoBatch /\ ~log_appended[t]
        /\ state[t] = "Preparing" /\ retry = {} /\ pending = <<>>
        /\ written_through = 0 /\ next_ticket = 0
    BY Zenon DEF GroupInit
  <2>2. InHand(t) = {}
    BY Zenon, <1>1, <1>2, <2>1 DEF InHand, Unwritten
  <2>3. 0 <= 0
    OBVIOUS
  <2>4. HandRule(t)
    BY Zenon, <1>1, <1>2, <2>1, <2>2, <2>3 DEF HandRule, Unwritten
  <2>5. TicketRule(t)
    BY Zenon, <1>4, <2>1, <2>3 DEF TicketRule, Queued, Waiting
  <2>6. PlacedRule(t)
    BY Zenon, <2>1 DEF PlacedRule, Queued, Waiting, Leading, Unwritten, Written, Ending
  <2> QED
    BY Zenon, <2>4, <2>5, <2>6
<1>6. ASSUME NEW t \in Tx, NEW u \in Tx PROVE TicketPair(t, u)
  BY Zenon DEF GroupInit, TicketPair
<1> QED
  BY Zenon, <1>3, <1>4, <1>5, <1>6 DEF ClaimRules

(* ClaimRules follows the group commit along LeadInv. *)
LEMMA ClaimsNext == LeadInv /\ ClaimRules /\ [GroupNext]_groupVars => ClaimRules'
<1> SUFFICES ASSUME LeadInv, ClaimRules, [GroupNext]_groupVars PROVE ClaimRules'
  OBVIOUS
<1>1. ASSUME NEW t \in Tx, Step(t) \/ LogTxFails(t) \/ SyncFails(t) \/ Drop(t)
      PROVE  ClaimRules'
  BY Zenon, <1>1, ClaimsKept
<1>2. CASE UNCHANGED groupVars
  <2>1. UNCHANGED <<pc, next_ticket, durable_through, written_through, pending, retry, state,
                    log_appended, ticket, batch, file>>
    BY Zenon, <1>2 DEF groupVars, queueVars, markVars, waitVars, txVars, machVars, logVars
  <2>2. /\ \A t : Logged(t)' <=> Logged(t)
        /\ \A t \in Tx : InHand(t)' = InHand(t) /\ RecordOf(t)' = RecordOf(t)
           /\ Owner(t)' = Owner(t)
    BY Zenon, <2>1 DEF Logged, InHand, RecordOf, Owner, Elems
  <2>3. \A r : ClaimRule(r) => ClaimRule(r)'
    BY Zenon, <2>1, <2>2 DEF ClaimRule
  <2>4. QueueRule' /\ OnceRule'
    BY Zenon, <2>1, <2>3 DEF ClaimRules, QueueRule, OnceRule
  <2>5. ASSUME NEW t \in Tx PROVE HandRule(t)' /\ TicketRule(t)' /\ PlacedRule(t)'
    <3>1. HandRule(t) /\ TicketRule(t) /\ PlacedRule(t)
      BY Zenon DEF ClaimRules
    <3>2. HandRule(t)'
      BY Zenon, <2>1, <2>2, <2>3, <3>1 DEF HandRule
    <3>3. TicketRule(t)'
      BY Zenon, <2>1, <2>2, <3>1 DEF TicketRule
    <3>4. PlacedRule(t)'
      BY Zenon, <2>1, <2>2, <3>1 DEF PlacedRule
    <3> QED
      BY Zenon, <3>2, <3>3, <3>4
  <2>6. ASSUME NEW t \in Tx, NEW u \in Tx PROVE TicketPair(t, u)'
    BY Zenon, <2>1 DEF ClaimRules, TicketPair
  <2> QED
    BY Zenon, <2>4, <2>5, <2>6 DEF ClaimRules
<1> QED
  BY Zenon, <1>1, <1>2 DEF GroupNext, AllEnded

(* ClaimRules is an invariant of the group commit. *)
LEMMA ClaimsAlways == GroupSpec => []ClaimRules
  BY LeadAlways, InitClaims, ClaimsNext, PTL DEF GroupSpec

(* A transaction is Committed only when its own record is in the log, and no    *)
(* record is in the log twice, however many leaders failed or were dropped      *)
(* with records in hand and however often waiters queued theirs again.          *)
THEOREM LoggedOnce == GroupSpec => []CommittedIsLoggedOnce
<1>1. ClaimRules => CommittedIsLoggedOnce
  BY Zenon DEF ClaimRules, PlacedRule, OnceRule, CommittedIsLoggedOnce
<1> QED
  BY <1>1, ClaimsAlways, PTL

(* written_through never covers a waiter whose record is not in the log, also   *)
(* when a failed leader's record behind it is queued again (dense_prefix_cap).  *)
THEOREM CoversLogged == GroupSpec => []WatermarkCoversLogged
<1>1. LeadInv /\ ClaimRules => WatermarkCoversLogged
  <2> SUFFICES ASSUME LeadInv, ClaimRules, NEW t \in Tx, pc[t] \in Waiting,
                      written_through >= ticket[t]
               PROVE  Logged(t)
    BY Zenon DEF WatermarkCoversLogged
  <2>1. ticket[t] <= written_through
    BY DEF LeadInv, GroupTypes
  <2> QED
    BY Zenon, <2>1, CoveredIsLogged DEF Queued
<1> QED
  BY <1>1, LeadAlways, ClaimsAlways, PTL

-----------------------------------------------------------------------------
(* What is on disk *)

(* Where a commit that its client hears of has come out of the log *)
Returning == {"endlog", "commit", "finalize", "acked"}

(* The log is synced as far as anyone who runs with FULL needs. *)
FullySynced == synced = Len(file) \/ full_sync_written_through <= durable_through

(* What an fsync covers stays covered while the file is not written. *)
LEMMA DiskKept ==
  ASSUME GroupTypes, SyncRules, file' = file, synced' \in {synced, Len(file)}
  PROVE  /\ synced' <= Len(file') /\ synced <= synced'
         /\ \A u : OnDisk(u) => OnDisk(u)'
         /\ \A u : Logged(u) /\ synced' = Len(file) => OnDisk(u)'
<1>1. synced \in Nat /\ Len(file) \in Nat /\ synced <= Len(file)
  BY DEF GroupTypes, SyncRules
<1>2. synced' <= Len(file') /\ synced <= synced' /\ synced' \in Nat
  BY <1>1
<1>3. ASSUME NEW i \in 1..synced PROVE i \in 1..synced'
  BY <1>1, <1>2, <1>3
<1>4. \A u : OnDisk(u) => OnDisk(u)'
  BY Zenon, <1>3 DEF OnDisk
<1>5. \A u : Logged(u) /\ synced' = Len(file) => OnDisk(u)'
  BY Zenon DEF Logged, OnDisk
<1> QED
  BY Zenon, <1>2, <1>4, <1>5

(* durable_through rises only when what it covers is synced, and a commit       *)
(* returns only when it is on disk if its mode is FULL.                         *)
LEMMA SyncKept ==
  ASSUME LeadInv, SyncRules, NEW t \in Tx, LeadStep(t),
         file' = file, full_sync_written_through' = full_sync_written_through,
         synced' \in {synced, Len(file)}, durable_through' \in Nat,
         \A u \in Tx : Logged(u) => ticket'[u] = ticket[u],
         durable_through' <= durable_through \/ FullySynced,
         durable_through <= durable_through' \/ lock_held[t],
         t \in Full /\ pc'[t] \in Returning => pc[t] \in Returning \/ OnDisk(t)',
         (pc'[t] = "endlog" /\ batch'[t] # NoBatch) \/ pc'[t] = "prefixed" => FullySynced'
  PROVE  SyncRules'
<1>g. GroupTypes
  BY Zenon DEF LeadInv
<1>d. /\ synced' <= Len(file') /\ synced <= synced'
      /\ \A u : OnDisk(u) => OnDisk(u)'
      /\ \A u : Logged(u) /\ synced' = Len(file) => OnDisk(u)'
  BY Zenon, <1>g, DiskKept
<1>l. \A u : Logged(u)' <=> Logged(u)
  BY Zenon DEF Logged
<1>1. ASSUME NEW u \in Tx PROVE SyncRule(u)'
  <2>0. SyncRule(u) /\ OthersLead(t) /\ LockRule(u) /\ LockPair(t, u)
    BY Zenon DEF SyncRules, LeadStep, LeadInv, LeadRules
  <2>1. u \in Full /\ Logged(u)' => ticket'[u] <= full_sync_written_through'
    BY Zenon, <1>l, <2>0 DEF SyncRule
  <2>2. ASSUME u \in Full, Logged(u)', ticket'[u] <= durable_through'
        PROVE  OnDisk(u)'
    <3>1. Logged(u) /\ ticket'[u] = ticket[u]
      BY Zenon, <1>l, <2>2
    <3>2. ticket[u] \in Nat /\ durable_through \in Nat /\ full_sync_written_through \in Nat
      BY Zenon, <1>g DEF GroupTypes
    <3>3. CASE durable_through' <= durable_through
      <4>1. ticket[u] <= durable_through
        BY SMT, <2>2, <3>1, <3>2, <3>3
      <4> QED
        BY Zenon, <1>d, <2>0, <2>2, <3>1, <4>1 DEF SyncRule
    <3>4. CASE synced = Len(file)
      BY Zenon, <1>d, <3>1, <3>4
    <3>5. CASE full_sync_written_through <= durable_through
      <4>1. ticket[u] <= full_sync_written_through
        BY Zenon, <2>0, <2>2, <3>1 DEF SyncRule
      <4>2. ticket[u] <= durable_through
        BY SMT, <3>2, <3>5, <4>1
      <4> QED
        BY Zenon, <1>d, <2>0, <2>2, <3>1, <4>2 DEF SyncRule
    <3> QED
      BY Zenon, <3>3, <3>4, <3>5 DEF FullySynced
  <2>3. u \in Full /\ pc'[u] \in Returning => OnDisk(u)'
    <3>1. u \in Full /\ pc[u] \in Returning => OnDisk(u)
      BY Zenon, <2>0 DEF SyncRule, Returning
    <3> QED
      BY Zenon, <1>d, <2>0, <3>1 DEF OthersLead
  <2>4. (pc'[u] = "endlog" /\ batch'[u] # NoBatch) \/ pc'[u] = "prefixed" => FullySynced'
    <3>1. CASE u = t
      BY Zenon, <3>1
    <3>2. CASE u # t
      <4>1. pc'[u] = pc[u] /\ batch'[u] = batch[u]
        BY Zenon, <2>0, <3>2 DEF OthersLead
      <4>2. SUFFICES ASSUME (pc[u] = "endlog" /\ batch[u] # NoBatch) \/ pc[u] = "prefixed"
                     PROVE  FullySynced'
        BY Zenon, <4>1
      <4>3. lock_held[u]
        BY Zenon, <2>0, <4>2 DEF LockRule, Leads
      <4>4. durable_through <= durable_through'
        BY Zenon, <2>0, <3>2, <4>3 DEF LockPair
      <4>5. FullySynced
        BY Zenon, <2>0, <4>2 DEF SyncRule, FullySynced
      <4>6. CASE synced = Len(file)
        BY Zenon, <4>6 DEF FullySynced
      <4>7. CASE full_sync_written_through <= durable_through
        <5>1. full_sync_written_through \in Nat /\ durable_through \in Nat
          BY Zenon, <1>g DEF GroupTypes
        <5>2. full_sync_written_through <= durable_through'
          BY SMT, <4>4, <4>7, <5>1
        <5> QED
          BY Zenon, <5>2 DEF FullySynced
      <4> QED
        BY Zenon, <4>5, <4>6, <4>7 DEF FullySynced
    <3> QED
      BY Zenon, <3>1, <3>2
  <2> QED
    BY Zenon, <2>1, <2>2, <2>3, <2>4 DEF SyncRule, Returning, FullySynced
<1> QED
  BY Zenon, <1>d, <1>1 DEF SyncRules

(* A record that is appended is above durable_through, and is counted in        *)
(* full_sync_written_through when its owner runs with FULL.                     *)
LEMMA MarkSync ==
  ASSUME LeadInv, ClaimRules, SyncRules, NEW t \in Tx, LeadStep(t), MarkLogRecordWritten(t)
  PROVE  SyncRules'
<1>g. GroupTypes /\ LockRule(t) /\ OthersLead(t) /\ HandRule(t) /\ QueueRule
  BY Zenon DEF LeadInv, LeadRules, LeadStep, ClaimRules
<1>w. PICK n : n = batch[t].writing.ticket
  BY Zenon
<1>o. PICK o : o = Owner(t)
  BY Zenon
<1>1. /\ file' = Append(file, o) /\ o \in Tx /\ lock_held[t]
      /\ full_sync_written_through' = FullMark(t) /\ batch[t].writing \in Rec
  BY Zenon, <1>o, MarkFacts
<1>2. /\ pc[t] = "finish" /\ pc'[t] = "appended" /\ ticket' = ticket
      /\ durable_through' = durable_through /\ synced' = synced
  <2>1. pc[t] = "finish" /\ pc' = [pc EXCEPT ![t] = "appended"]
    BY Zenon DEF MarkLogRecordWritten, Goto
  <2> QED
    BY Zenon, <1>g, <2>1, TxUpdate DEF MarkLogRecordWritten, GroupTypes
<1>3. ClaimRule(batch[t].writing) /\ batch[t].writing.tx = o
  BY Zenon, <1>g, <1>o, <1>2 DEF HandRule, InHand, Unwritten, Owner
<1>4. n = ticket[o] /\ n > written_through /\ ~Logged(o) /\ n \in Nat
  <2>1. n \in Nat
    BY Zenon, <1>w, <1>1, RecFacts
  <2> QED
    BY Zenon, <1>w, <1>3, <2>1 DEF ClaimRule
<1>5. ~(ticket[o] <= durable_through)
  <2>1. durable_through <= written_through /\ durable_through \in Nat /\ written_through \in Nat
    BY Zenon, <1>g DEF QueueRule, GroupTypes
  <2> QED
    BY SMT, <1>4, <2>1
<1>6. \A u : Logged(u)' <=> Logged(u) \/ u = o
  BY Zenon, <1>g, <1>1, LoggedAppend
<1>7. /\ full_sync_written_through <= full_sync_written_through'
      /\ o \in Full => ticket[o] <= full_sync_written_through'
      /\ full_sync_written_through' \in Nat /\ full_sync_written_through \in Nat
  <2>1. full_sync_written_through' = IF o \in Full THEN Max(full_sync_written_through, n)
                                     ELSE full_sync_written_through
    BY Zenon, <1>w, <1>o, <1>1 DEF FullMark
  <2>2. full_sync_written_through \in Nat
    BY Zenon, <1>g DEF GroupTypes
  <2> QED
    BY SMT, <1>4, <2>1, <2>2 DEF Max
<1>8. synced' <= Len(file') /\ \A i \in 1..synced : file'[i] = file[i]
  <2>1. synced \in Nat /\ Len(file) \in Nat /\ synced <= Len(file) /\ file \in Seq(Tx \cup {None})
    BY <1>g DEF GroupTypes, SyncRules
  <2> QED
    BY <1>1, <1>2, <2>1
<1>9. \A u : OnDisk(u) => OnDisk(u)'
  BY Zenon, <1>2, <1>8 DEF OnDisk
<1>10. ASSUME NEW u \in Tx PROVE SyncRule(u)'
  <2>0. SyncRule(u) /\ LockRule(u) /\ LockPair(t, u)
    BY Zenon DEF SyncRules, LeadInv, LeadRules
  <2>1. u \in Full /\ Logged(u)' => ticket'[u] <= full_sync_written_through'
    <3>1. CASE u = o
      BY Zenon, <1>2, <1>7, <3>1
    <3>2. CASE u # o
      <4>1. SUFFICES ASSUME u \in Full, Logged(u) PROVE ticket[u] <= full_sync_written_through'
        BY Zenon, <1>2, <1>6, <3>2
      <4>2. ticket[u] <= full_sync_written_through /\ ticket[u] \in Nat
        BY Zenon, <1>g, <2>0, <4>1 DEF SyncRule, GroupTypes
      <4> QED
        BY SMT, <1>7, <4>2
    <3> QED
      BY Zenon, <3>1, <3>2
  <2>2. u \in Full /\ Logged(u)' /\ ticket'[u] <= durable_through' => OnDisk(u)'
    BY Zenon, <1>2, <1>5, <1>6, <1>9, <2>0 DEF SyncRule
  <2>3. pc'[u] \in Returning => pc[u] \in Returning
    BY Zenon, <1>g, <1>2 DEF OthersLead, Returning
  <2>4. u \in Full /\ pc'[u] \in Returning => OnDisk(u)'
    BY Zenon, <1>9, <2>0, <2>3 DEF SyncRule, Returning
  <2>5. ~((pc'[u] = "endlog" /\ batch'[u] # NoBatch) \/ pc'[u] = "prefixed")
    <3>1. CASE u = t
      BY Zenon, <1>2, <3>1
    <3>2. CASE u # t
      BY Zenon, <1>g, <1>1, <2>0, <3>2 DEF OthersLead, LockRule, LockPair, Leads
    <3> QED
      BY Zenon, <3>1, <3>2
  <2> QED
    BY Zenon, <2>1, <2>2, <2>4, <2>5 DEF SyncRule, Returning
<1> QED
  BY Zenon, <1>8, <1>10 DEF SyncRules

(* Every step keeps what is on disk. *)
LEMMA SyncStep ==
  ASSUME LeadInv, ClaimRules, SyncRules, NEW t \in Tx,
         Step(t) \/ LogTxFails(t) \/ SyncFails(t) \/ Drop(t)
  PROVE  SyncRules'
<1> USE DEF Goto, queueVars, markVars, waitVars, lockVars, txVars, machVars, logVars
<1>0. /\ GroupTypes /\ LeadStep(t) /\ LockRule(t) /\ TicketRule(t) /\ PlacedRule(t) /\ QueueRule
      /\ SyncRule(t)
  BY Zenon, LeadStepKept DEF LeadInv, LeadRules, ClaimRules, SyncRules
<1>d. durable_through \in Nat /\ durable_through <= durable_through
  BY <1>0 DEF GroupTypes
<1>p. ASSUME NEW b, pc' = [pc EXCEPT ![t] = b]
      PROVE  pc'[t] = b
  BY Zenon, <1>0, <1>p, TxUpdate DEF GroupTypes
<1>q. ASSUME UNCHANGED <<file, full_sync_written_through, synced, durable_through>>,
             \A u \in Tx : Logged(u) => ticket'[u] = ticket[u],
             pc'[t] \in Returning => pc[t] \in Returning, pc'[t] \notin {"endlog", "prefixed"}
      PROVE  SyncRules'
  BY Zenon, <1>0, <1>d, <1>q, SyncKept
<1>1. CASE LockBusy(t)
  <2>1. UNCHANGED <<file, full_sync_written_through, synced, durable_through, ticket>>
    BY Zenon, <1>1 DEF LockBusy
  <2> QED
    BY Zenon, <1>p, <1>q, <1>1, <2>1 DEF LockBusy, Returning
<1>2. CASE NoWork(t)
  <2>1. UNCHANGED <<file, full_sync_written_through, synced, durable_through, ticket>>
    BY Zenon, <1>2 DEF NoWork
  <2> QED
    BY Zenon, <1>p, <1>q, <1>2, <2>1 DEF NoWork, Returning
<1>3. CASE Park(t)
  <2>1. UNCHANGED <<file, full_sync_written_through, synced, durable_through, ticket>>
    BY Zenon, <1>3 DEF Park
  <2> QED
    BY Zenon, <1>p, <1>q, <1>3, <2>1 DEF Park, Returning
<1>4. CASE Woken(t)
  <2>1. UNCHANGED <<file, full_sync_written_through, synced, durable_through, ticket>>
    BY Zenon, <1>4 DEF Woken
  <2> QED
    BY Zenon, <1>p, <1>q, <1>4, <2>1 DEF Woken, Returning
<1>5. CASE RetryUnderLock(t)
  <2>1. UNCHANGED <<file, full_sync_written_through, synced, durable_through, ticket>>
    BY Zenon, <1>5 DEF RetryUnderLock
  <2> QED
    BY Zenon, <1>p, <1>q, <1>5, <2>1 DEF RetryUnderLock, Returning
<1>6. CASE Lead(t)
  <2>1. UNCHANGED <<file, full_sync_written_through, synced, durable_through, ticket>>
    BY Zenon, <1>6 DEF Lead
  <2> QED
    BY Zenon, <1>p, <1>q, <1>6, <2>1 DEF Lead, Returning
<1>7. CASE LeadSync(t)
  <2>1. UNCHANGED <<file, full_sync_written_through, synced, durable_through, ticket>>
    BY Zenon, <1>7 DEF LeadSync
  <2> QED
    BY Zenon, <1>p, <1>q, <1>7, <2>1 DEF LeadSync, Returning
<1>8. CASE Skip(t)
  <2>1. UNCHANGED <<file, full_sync_written_through, synced, durable_through, ticket>>
    BY Zenon, <1>8 DEF Skip
  <2> QED
    BY Zenon, <1>p, <1>q, <1>8, <2>1 DEF Skip, Advance, Returning
<1>9. CASE UpgradeLogicalLogHeader(t)
  <2>1. UNCHANGED <<file, full_sync_written_through, synced, durable_through, ticket>>
    BY Zenon, <1>9 DEF UpgradeLogicalLogHeader
  <2> QED
    BY Zenon, <1>p, <1>q, <1>9, <2>1 DEF UpgradeLogicalLogHeader, Returning
<1>10. CASE WriteLogicalLog(t)
  <2>1. UNCHANGED <<file, full_sync_written_through, synced, durable_through, ticket>>
    BY Zenon, <1>10 DEF WriteLogicalLog
  <2> QED
    BY Zenon, <1>p, <1>q, <1>10, <2>1 DEF WriteLogicalLog, Returning
<1>11. CASE LogTx(t)
  <2>1. UNCHANGED <<file, full_sync_written_through, synced, durable_through, ticket>>
    BY Zenon, <1>11 DEF LogTx
  <2> QED
    BY Zenon, <1>p, <1>q, <1>11, <2>1 DEF LogTx, Returning
<1>12. CASE LogTxFails(t)
  <2>1. UNCHANGED <<file, full_sync_written_through, synced, durable_through, ticket>>
    BY Zenon, <1>12 DEF LogTxFails
  <2> QED
    BY Zenon, <1>p, <1>q, <1>12, <2>1 DEF LogTxFails, Returning
<1>13. CASE NoteWriteIssued(t)
  <2>1. UNCHANGED <<file, full_sync_written_through, synced, durable_through, ticket>>
    BY Zenon, <1>13 DEF NoteWriteIssued
  <2> QED
    BY Zenon, <1>p, <1>q, <1>13, <2>1 DEF NoteWriteIssued, Returning
<1>14. CASE SetLogAppended(t)
  <2>1. UNCHANGED <<file, full_sync_written_through, synced, durable_through, ticket>>
    BY Zenon, <1>14 DEF SetLogAppended
  <2> QED
    BY Zenon, <1>p, <1>q, <1>14, <2>1 DEF SetLogAppended, Returning
<1>15. CASE ClearIssued(t)
  <2>1. UNCHANGED <<file, full_sync_written_through, synced, durable_through, ticket>>
    BY Zenon, <1>15 DEF ClearIssued
  <2> QED
    BY Zenon, <1>p, <1>q, <1>15, <2>1 DEF ClearIssued, Returning
<1>16. CASE TakeAbandoned(t)
  <2>1. UNCHANGED <<file, full_sync_written_through, synced, durable_through, ticket>>
    BY Zenon, <1>16 DEF TakeAbandoned
  <2> QED
    BY Zenon, <1>p, <1>q, <1>16, <2>1 DEF TakeAbandoned, Advance, Returning
<1>17. CASE FinishAbandoned(t)
  <2>1. UNCHANGED <<file, full_sync_written_through, synced, durable_through, ticket>>
    BY Zenon, <1>17 DEF FinishAbandoned
  <2> QED
    BY Zenon, <1>p, <1>q, <1>17, <2>1 DEF FinishAbandoned, Advance, Returning
<1>18. CASE SyncFails(t)
  <2>1. UNCHANGED <<file, full_sync_written_through, synced, durable_through, ticket>>
    BY Zenon, <1>18 DEF SyncFails
  <2> QED
    BY Zenon, <1>p, <1>q, <1>18, <2>1 DEF SyncFails, Returning
<1>19. CASE CommitEnd(t)
  <2>1. UNCHANGED <<file, full_sync_written_through, synced, durable_through, ticket>>
    BY Zenon, <1>19 DEF CommitEnd
  <2> QED
    BY Zenon, <1>p, <1>q, <1>19, <2>1 DEF CommitEnd, Returning
<1>20. CASE FinalizeCommit(t)
  <2>1. UNCHANGED <<file, full_sync_written_through, synced, durable_through, ticket>>
    BY Zenon, <1>20 DEF FinalizeCommit, Finish
  <2> QED
    BY Zenon, <1>p, <1>q, <1>20, <2>1 DEF FinalizeCommit, Finish, Returning
<1>21. CASE CleanupDroppedCommit(t)
  <2>1. UNCHANGED <<file, full_sync_written_through, synced, durable_through, ticket>>
    BY Zenon, <1>21 DEF CleanupDroppedCommit
  <2> QED
    BY Zenon, <1>p, <1>q, <1>21, <2>1 DEF CleanupDroppedCommit, Returning
<1>22. CASE CompleteDropped(t)
  <2>1. UNCHANGED <<file, full_sync_written_through, synced, durable_through, ticket>>
    BY Zenon, <1>22 DEF CompleteDropped, Finish
  <2> QED
    BY Zenon, <1>p, <1>q, <1>22, <2>1 DEF CompleteDropped, Finish, Returning
<1>23. CASE Abandon(t)
  <2>1. UNCHANGED <<file, full_sync_written_through, synced, durable_through, ticket>>
    BY Zenon, <1>23 DEF Abandon
  <2> QED
    BY Zenon, <1>p, <1>q, <1>23, <2>1 DEF Abandon, Returning
<1>24. CASE RollbackDropped(t)
  <2>1. UNCHANGED <<file, full_sync_written_through, synced, durable_through, ticket>>
    BY Zenon, <1>24 DEF RollbackDropped
  <2> QED
    BY Zenon, <1>p, <1>q, <1>24, <2>1 DEF RollbackDropped, Returning
<1>25. CASE Leave(t)
  <2>1. UNCHANGED <<file, full_sync_written_through, synced, durable_through, ticket>>
    BY Zenon, <1>25 DEF Leave
  <2> QED
    BY Zenon, <1>p, <1>q, <1>25, <2>1 DEF Leave, Returning
<1>26. CASE Enqueue(t)
  <2>1. /\ UNCHANGED <<file, full_sync_written_through, synced, durable_through>>
        /\ pc[t] = "begin" /\ pc'[t] = "await" /\ ticket' = [ticket EXCEPT ![t] = next_ticket + 1]
    BY Zenon, <1>p, <1>26 DEF Enqueue
  <2>2. ~Logged(t) /\ \A u \in Tx \ {t} : ticket'[u] = ticket[u]
    BY Zenon, <1>0, <2>1, TxUpdate DEF TicketRule, GroupTypes
  <2> QED
    BY Zenon, <1>q, <2>1, <2>2 DEF Returning
<1>27. CASE Await(t)
  <2>1. UNCHANGED <<file, full_sync_written_through, synced, durable_through, ticket, batch>>
        /\ pc[t] = "await"
    BY Zenon, <1>27 DEF Await
  <2>2. CASE pc'[t] # "endlog"
    <3>1. pc'[t] \in {"begin", "lock"}
      BY Zenon, <1>p, <1>27, <2>2 DEF Await
    <3> QED
      BY Zenon, <1>q, <2>1, <3>1 DEF Returning
  <2>3. CASE pc'[t] = "endlog"
    <3>1. durable_through >= ticket[t]
      BY Zenon, <1>p, <1>27, <2>3 DEF Await
    <3>2. ticket[t] <= durable_through /\ ticket[t] <= written_through
      <4>1. durable_through <= written_through
        BY Zenon, <1>0 DEF QueueRule
      <4> QED
        BY <1>0, <3>1, <4>1 DEF GroupTypes
    <3>3. Logged(t)
      BY Zenon, <2>1, <3>2, CoveredIsLogged DEF Queued, Waiting
    <3>4. t \in Full => OnDisk(t)'
      <4>1. t \in Full => OnDisk(t)
        BY Zenon, <1>0, <3>2, <3>3 DEF SyncRule
      <4> QED
        BY Zenon, <2>1, <4>1 DEF OnDisk
    <3>5. batch'[t] = NoBatch
      BY Zenon, <1>0, <2>1 DEF LockRule, Leading, Unwritten, Written
    <3> QED
      BY Zenon, <1>0, <1>d, <2>1, <2>3, <3>4, <3>5, SyncKept
  <2> QED
    BY Zenon, <2>2, <2>3
<1>28. CASE MarkLogRecordWritten(t)
  BY Zenon, <1>0, <1>28, MarkSync
<1>29. CASE SyncLogicalLog(t) \/ SyncGroupPrefix(t)
  <2>1. /\ UNCHANGED <<file, full_sync_written_through, durable_through, ticket>>
        /\ synced' = IF SyncRequired(t) THEN Len(file) ELSE synced
        /\ \/ pc[t] = "sync" /\ pc'[t] = "endlog"
           \/ pc[t] = "prefix" /\ pc'[t] = "prefixed"
    BY Zenon, <1>p, <1>29 DEF SyncLogicalLog, SyncGroupPrefix, SyncLog
  <2>2. FullySynced'
    <3>1. CASE SyncRequired(t)
      BY Zenon, <2>1, <3>1 DEF FullySynced
    <3>2. CASE ~SyncRequired(t)
      <4>1. full_sync_written_through <= durable_through
        BY <1>0, <3>2 DEF SyncRequired, GroupTypes
      <4> QED
        BY Zenon, <2>1, <4>1 DEF FullySynced
    <3> QED
      BY Zenon, <3>1, <3>2
  <2>3. pc'[t] \in Returning => Logged(t)
    <3>1. pc[t] = "sync" => InHand(t) = {}
      BY Zenon, <1>0, FewElems DEF InHand, LockRule, Unwritten
    <3> QED
      BY Zenon, <1>0, <2>1, <3>1 DEF PlacedRule, Leading, Returning
  <2>4. t \in Full /\ pc'[t] \in Returning => OnDisk(t)'
    <3>1. t \in Full => synced' = Len(file)
      BY Zenon, <2>1 DEF SyncRequired
    <3> QED
      BY Zenon, <1>0, <2>1, <2>3, <3>1, DiskKept
  <2>5. synced' \in {synced, Len(file)}
    BY Zenon, <2>1
  <2> QED
    BY Zenon, <1>0, <1>d, <2>1, <2>2, <2>4, <2>5, SyncKept
<1>30. CASE GroupPrefixSynced(t) \/ EndCommitLogicalLog(t)
  <2>1. /\ UNCHANGED <<file, full_sync_written_through, synced, ticket>>
        /\ \/ /\ pc[t] = "prefixed" \/ (pc[t] = "endlog" /\ batch[t] # NoBatch)
              /\ durable_through' = Durable
           \/ durable_through' = durable_through
        /\ pc'[t] \in {"await", "commit"} /\ (pc'[t] = "commit" => pc[t] = "endlog")
    BY Zenon, <1>p, <1>30 DEF GroupPrefixSynced, EndCommitLogicalLog
  <2>2. CASE durable_through' = durable_through
    BY Zenon, <1>q, <2>1, <2>2 DEF Returning
  <2>3. CASE /\ durable_through' = Durable
             /\ pc[t] = "prefixed" \/ (pc[t] = "endlog" /\ batch[t] # NoBatch)
    <3>1. FullySynced
      BY Zenon, <1>0, <2>3 DEF SyncRule, FullySynced
    <3>2. Durable \in Nat /\ durable_through <= Durable
      <4>1. Durable = Max(durable_through, written_through)
        BY Zenon, DurableIs
      <4> QED
        BY <1>0, <4>1 DEF Max, GroupTypes
    <3> QED
      BY Zenon, <1>0, <2>1, <2>3, <3>1, <3>2, SyncKept DEF Returning
  <2> QED
    BY Zenon, <2>1, <2>2, <2>3
<1>31. CASE Drop(t)
  <2>0. pc'[t] = "cleanup"
    BY Zenon, <1>p, <1>31 DEF Drop
  <2>1. CASE DropWaiting(t) \/ DropIdle(t)
    <3>1. UNCHANGED <<file, full_sync_written_through, synced, durable_through, ticket>>
      BY Zenon, <2>1 DEF DropWaiting, DropIdle
    <3> QED
      BY Zenon, <1>q, <2>0, <3>1 DEF Returning
  <2>2. CASE DropLeading(t)
    <3>1. UNCHANGED <<file, full_sync_written_through, synced, ticket>> /\ lock_held[t]
      BY Zenon, <2>2, DropLeadingFacts DEF DropLeading
    <3>2. PICK n : n = batch[t].writing.ticket
      BY Zenon
    <3>3. \/ durable_through' = durable_through
          \/ durable_through' = Min(durable_through, n - 1) /\ n \in Nat \ {0}
      BY Zenon, <2>2, <3>2, DropLeadingFacts
    <3>4. durable_through' \in Nat /\ durable_through' <= durable_through
      <4>1. CASE durable_through' = durable_through
        BY Zenon, <1>d, <4>1
      <4>2. CASE durable_through' = Min(durable_through, n - 1) /\ n \in Nat \ {0}
        BY SMT, <1>d, <4>2 DEF Min
      <4> QED
        BY Zenon, <3>3, <4>1, <4>2
    <3> QED
      BY Zenon, <1>0, <2>0, <3>1, <3>4, SyncKept DEF Returning
  <2> QED
    BY Zenon, <1>31, <2>1, <2>2 DEF Drop
<1> QED
  BY Zenon, <1>1, <1>2, <1>3, <1>4, <1>5, <1>6, <1>7, <1>8, <1>9, <1>10, <1>11, <1>12, <1>13, <1>14,
     <1>15, <1>16, <1>17, <1>18, <1>19, <1>20, <1>21, <1>22, <1>23, <1>24, <1>25, <1>26, <1>27,
     <1>28, <1>29, <1>30, <1>31 DEF Step

(* SyncRules follows the group commit along LeadInv and ClaimRules. *)
LEMMA SyncNext ==
  LeadInv /\ ClaimRules /\ SyncRules /\ [GroupNext]_groupVars => SyncRules'
<1> SUFFICES ASSUME LeadInv, ClaimRules, SyncRules, [GroupNext]_groupVars PROVE SyncRules'
  OBVIOUS
<1>1. ASSUME NEW t \in Tx, Step(t) \/ LogTxFails(t) \/ SyncFails(t) \/ Drop(t)
      PROVE  SyncRules'
  BY Zenon, <1>1, SyncStep
<1>2. CASE UNCHANGED groupVars
  <2>1. UNCHANGED <<pc, durable_through, full_sync_written_through, ticket, batch, file, synced>>
    BY Zenon, <1>2 DEF groupVars, markVars, machVars, logVars
  <2>2. ASSUME NEW t \in Tx PROVE SyncRule(t)'
    <3>1. SyncRule(t)
      BY Zenon DEF SyncRules
    <3>2. (Logged(t)' <=> Logged(t)) /\ (OnDisk(t)' <=> OnDisk(t))
      BY Zenon, <2>1 DEF Logged, OnDisk
    <3> QED
      BY Zenon, <2>1, <3>1, <3>2 DEF SyncRule
  <2> QED
    BY Zenon, <2>1, <2>2 DEF SyncRules
<1> QED
  BY Zenon, <1>1, <1>2 DEF GroupNext, AllEnded

(* A commit with synchronous=FULL that returned to its client is on disk,       *)
(* whatever the modes of those who led, failed or synced on its way.            *)
THEOREM SyncedIfFull == GroupSpec => []FullIsSynced
<1>1. GroupInit => SyncRules
  <2>1. SUFFICES ASSUME GroupInit PROVE SyncRules
    OBVIOUS
  <2>2. synced = 0 /\ Len(file) = 0
    BY <2>1 DEF GroupInit
  <2>3. ASSUME NEW t \in Tx PROVE pc[t] = "begin" /\ ~Logged(t)
    BY <2>1 DEF GroupInit, Logged
  <2>4. 0 <= 0
    OBVIOUS
  <2> QED
    BY Zenon, <2>2, <2>3, <2>4 DEF SyncRules, SyncRule
<1>2. SyncRules => FullIsSynced
  <2>1. Full \subseteq Tx
    BY Zenon, GroupConstants
  <2> QED
    BY Zenon, <2>1 DEF SyncRules, SyncRule, OnDisk, FullIsSynced
<1> QED
  BY <1>1, <1>2, LeadAlways, ClaimsAlways, SyncNext, PTL DEF GroupSpec

=============================================================================
