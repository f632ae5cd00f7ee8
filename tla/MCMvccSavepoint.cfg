\* Three transactions of one statement, or two of two statements with
\* savepoints, on a row of the B-tree
SPECIFICATION MCSpec
CONSTANTS
  t1 = t1
  t2 = t2
  t3 = t3
  k1 = k1
  Tx <- Three
  Key <- One
  Resident <- One
  MaxStmts = 2
  MaxSavepoints = 2
SYMMETRY Symmetry
INVARIANTS
  SnapshotReads
  FirstCommitterWins
  ChainsMatchLog
  NoDanglingTxId
  ChainsSorted
  SupersedesUnlessRolledBack
PROPERTIES
  RollbackRestoresView
