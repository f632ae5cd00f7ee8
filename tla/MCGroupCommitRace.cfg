SPECIFICATION GroupSpec
CONSTANTS
  t1 = t1
  t2 = t2
  t3 = t3
  None = None
  Tx <- Two
  Full <- Empty
  Fragile <- Two
  Observed <- Empty
INVARIANTS RolledBackNotAppended
