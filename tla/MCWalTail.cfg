SPECIFICATION WalSpec
CONSTANTS
  c1 = c1
  c2 = c2
  Conn = {c1, c2}
  None = None
  Pages = 2
  Marks = 2
  MaxFrame = 2
  MaxWrites = 2
  MaxCkpts = 1
  MaxCrashes = 0
  Modes = {"Truncate"}
  Checkpointers = {c1}
  Updates <- Writes
  Hot <- Caches
  TailFaults = TRUE
INVARIANTS CrashSafe
