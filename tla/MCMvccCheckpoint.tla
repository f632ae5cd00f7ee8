------------------------- MODULE MCMvccCheckpoint -------------------------
(* Instances of MvccCheckpoint for TLC: two transactions on two rows with a  *)
(* fault, where one of them changes the second row, or two writers and a     *)
(* reader on the first row without a fault.  Where a restart has brought     *)
(* back a transaction whose append was abandoned there is one fault more.    *)
EXTENDS MvccCheckpoint, TLC

CONSTANTS t1, t2, t3

VARIABLES one_row, revived

Three == {t1, t2, t3}
One   == {1}
Both  == {1, 2}

Symmetry == Permutations(Tx)

Writers(k) == {t \in Tx : effect[t][k] # "none"}

MCInit == CheckpointInit /\ one_row \in BOOLEAN /\ revived = FALSE

MCNext ==
  /\ CheckpointNext /\ UNCHANGED one_row
  /\ revived' = (revived \/ \E t \in Leftover : pc'[t] = "finished")
  /\ Load' <= IF revived' THEN MaxLoad ELSE MaxLoad - 1
  /\ IF one_row
     THEN faults' = 0 /\ Cardinality(Writers(1)') <= 2 /\ Writers(2)' = {}
     ELSE Cardinality(Writers(2)') <= 1 /\ \E t \in Tx : pc'[t] = "unborn"

MCSpec == MCInit /\ [][MCNext]_<<vars, one_row, revived>>
=============================================================================
