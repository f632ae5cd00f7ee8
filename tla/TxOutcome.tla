----------------------------- MODULE TxOutcome ------------------------------
(***************************************************************************)
(* What commit dependencies promise (the quotation of Hekaton, section     *)
(* 2.7, in CommitState::Initial of core/mvcc/database/mod.rs): a           *)
(* transaction may go on as if another one will commit, "T1 is allowed to  *)
(* commit only if T2 commits", and an outcome is decided once.             *)
(***************************************************************************)
CONSTANT Tx

VARIABLES
  outcome,   \* "open", "committed" or "aborted"
  relied     \* relied[t]: the transactions whose commit t has assumed

vars == <<outcome, relied>>

Init ==
  /\ outcome = [t \in Tx |-> "open"]
  /\ relied = [t \in Tx |-> {}]

(* An open transaction assumes the commit of one that has not aborted. *)
Rely(t, T) ==
  /\ outcome[t] = "open"
  /\ outcome[T] # "aborted"
  /\ relied' = [relied EXCEPT ![t] = @ \cup {T}]
  /\ UNCHANGED outcome

Commit(t) ==
  /\ outcome[t] = "open"
  /\ \A T \in relied[t] : outcome[T] = "committed"
  /\ outcome' = [outcome EXCEPT ![t] = "committed"]
  /\ UNCHANGED relied

Abort(t) ==
  /\ outcome[t] = "open"
  /\ outcome' = [outcome EXCEPT ![t] = "aborted"]
  /\ UNCHANGED relied

Next == \E t \in Tx : Commit(t) \/ Abort(t) \/ \E T \in Tx : Rely(t, T)

Spec == Init /\ [][Next]_vars

=============================================================================
