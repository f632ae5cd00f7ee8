-------------------------- MODULE MCMvccSavepoint --------------------------
(* The instance of MvccStore and MvccSavepoint for TLC: either three          *)
(* auto-commit transactions of one statement, which open no savepoint, or two *)
(* transactions of two statements with statement and named savepoints.        *)
EXTENDS MvccSavepoint, TLC

CONSTANTS t1, t2, t3, k1

VARIABLE autocommit

Three == {t1, t2, t3}
One   == {k1}

Symmetry == Permutations(Tx)

Started == {t \in Tx : phase[t] # "unborn"}

(* Two transactions run; the third one begins after them and does nothing. *)
PairRuns ==
  Cardinality(Started) = 3 =>
    \E t \in Tx : stmts[t] = 0 /\ \A u \in Tx \ {t} : phase[u] = "done"

AutocommitNext == StoreNext /\ UNCHANGED stack /\ \A t \in Tx : stmts'[t] <= 1

InteractiveNext == SpNext /\ PairRuns'

MCInit == SpInit /\ autocommit \in BOOLEAN

MCNext ==
  \/ autocommit /\ AutocommitNext /\ UNCHANGED autocommit
  \/ ~autocommit /\ InteractiveNext /\ UNCHANGED autocommit

MCSpec == MCInit /\ [][MCNext]_<<spVars, autocommit>>
=============================================================================
