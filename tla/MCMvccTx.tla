------------------------------ MODULE MCMvccTx ------------------------------
(* MvccTx with a small set of transactions, for TLC. *)
EXTENDS MvccTx

CONSTANTS t1, t2, t3

MCTx == {t1, t2, t3}

(***************************************************************************)
(* The clients: t1, t2 and t3 begin in this order, each after the one      *)
(* before left its last statement (a dependency on a transaction that is   *)
(* still running is impossible), and t1 and t2 write before anything else  *)
(* (one depends on writers only).  The chain t3 -> t2 -> t1 of             *)
(* dependencies and all its aborts remain.                                 *)
(***************************************************************************)
Earlier == [t \in Tx |-> IF t = t1 THEN {} ELSE IF t = t2 THEN {t1} ELSE {t1, t2}]

OneAfterTheOther ==
  \A t \in Tx : pc'[t] = "run" => \A e \in Earlier[t] : pc'[e] \notin {"unborn", "run"}

WriteFirst ==
  \A t \in {t1, t2} :
    pc'[t] \notin {"unborn", "run"} \/ observed'[t] # None => wrote'[t]

ChainFairSpec ==
  /\ TxInit /\ [][TxNext /\ OneAfterTheOther /\ WriteFirst]_txVars
  /\ \A t \in Tx : WF_txVars(Progress(t) \/ AbortNowSeen(t))

=============================================================================
