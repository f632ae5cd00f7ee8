\* Two transactions and one fault on two rows, or two writers and a reader on one
SPECIFICATION MCSpec
CONSTANTS
  t1 = t1
  t2 = t2
  t3 = t3
  Tx <- Three
  Key <- Both
  Resident <- One
  MaxCkpts = 2
  MaxLoad = 4
  DroppedCommits = FALSE
SYMMETRY Symmetry
CHECK_DEADLOCK FALSE
INVARIANTS
  BTreeIsSnapshot
  ReadsAcrossCheckpoint
  RestartFindsCommits
