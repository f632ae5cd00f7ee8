SPECIFICATION OrderedSpec
CONSTANTS
  t1 = t1
  t2 = t2
  t3 = t3
  None = None
  Tx <- Three
  Full <- Last
  Fragile <- Three
  Observed <- Last
INVARIANTS CommittedIsLoggedOnce WatermarkCoversLogged FullIsSynced StagedWriteIsOwn OnlyAdoptedLeaveDependents
PROPERTIES CommitsEnd
