\* An exclusive transaction and two concurrent ones draw two ids
SPECIFICATION MCSpec
CONSTANTS
  c1 = c1
  c2 = c2
  t1 = t1
  t2 = t2
  t3 = t3
  s1 = s1
  s2 = s2
  p1 = p1
  p2 = p2
  r1 = r1
  r2 = r2
  r3 = r3
  Parts = {"sequence"}
  Conn <- Connections
  MaxRowid = 2
  AtOpen <- RowsAtOpen
  Explicit <- RowsNamed
  Nobody = Nobody
  NoRow = NoRow
  XTx <- Transactions
  NoTx = NoTx
  MainFiles = 2
  FirstFiles <- FilesAtOpen
  MaxApplies = 3
  MaxPowerCuts = 2
  Pages <- FourPages
  Writer = s1
  Readers <- OneReader
  NoPage = NoPage
  capacity = 2
  REF_MAX = 1
  MaxHeld = 1
  MaxFrames = 4
  MaxWrites = 3
  STx <- Drawers
  NO_EXCLUSIVE_TX = NO_EXCLUSIVE_TX
  MaxValue = 2
  Procs <- Processes
  RConn <- Openers
  Home <- HomeOf
  SlotCount = 2
  RFrames = {0, 1}
  UNUSED_READER_FRAME = UNUSED_READER_FRAME
  UNOWNED_LOCK = UNOWNED_LOCK
  MaxDeaths = 1
CONSTRAINT UntilStrayLands
INVARIANTS
  PushMissesNothing
