--------------------------- MODULE MCGroupCommit ---------------------------
(* Small instances of GroupCommit *)
EXTENDS GroupCommit, TLC

CONSTANTS t1, t2, t3

Two   == {t1, t2}
Three == {t1, t2, t3}
One   == {t1}
Last  == {t2}
Empty == {}

(***************************************************************************)
(* t1 and t3 have the same constants, so they are interchangeable, and t1  *)
(* is the first of the two to leave its initial state.  A symmetry set     *)
(* would be unsound for CommitsEnd.                                        *)
(***************************************************************************)
T1First == pc'[t3] # "begin" /\ ticket[t3] = 0 => pc'[t1] # "begin" \/ ticket[t1] # 0

OrderedSpec ==
  /\ GroupInit /\ [][GroupNext /\ T1First]_groupVars
  /\ \A t \in Tx : WF_groupVars(Step(t) \/ DropFailed(t))

=============================================================================
