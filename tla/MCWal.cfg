SPECIFICATION WalSpec
CONSTANTS
  c1 = c1
  c2 = c2
  Conn = {c1, c2}
  None = None
  Pages = 2
  Marks = 2
  MaxFrame = 3
  MaxWrites = 2
  MaxCkpts = 1
  MaxCrashes = 1
  Modes = {"Passive", "Full", "Restart"}
  Checkpointers = {c1}
  Updates <- Writes
  Hot = {}
  TailFaults = FALSE
INVARIANTS SnapshotReads CrashSafe
