\* Commits of a blocking store whose statement is dropped after the append
SPECIFICATION MCSpec
CONSTANTS
  t1 = t1
  t2 = t2
  t3 = t3
  Tx <- Three
  Key <- Both
  Resident <- One
  MaxCkpts = 2
  MaxLoad = 4
  DroppedCommits = TRUE
SYMMETRY Symmetry
CHECK_DEADLOCK FALSE
INVARIANT
  CutFramesAreWritten
