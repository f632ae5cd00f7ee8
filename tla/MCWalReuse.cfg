SPECIFICATION WalSpec
CONSTANTS
  c1 = c1
  c2 = c2
  Conn = {c1, c2}
  None = None
  Pages = 2
  Marks = 1
  MaxFrame = 2
  MaxWrites = 2
  MaxCkpts = 2
  MaxCrashes = 0
  Modes = {"Passive", "Truncate"}
  Checkpointers = {c1}
  Updates <- Writes
  Hot <- Caches
  TailFaults = FALSE
INVARIANTS SnapshotReads IndexMatchesFile CrashSafe
