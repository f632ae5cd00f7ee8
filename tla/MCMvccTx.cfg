SPECIFICATION ChainFairSpec
CONSTANTS
  t1 = t1
  t2 = t2
  t3 = t3
  Tx <- MCTx
  None = None
INVARIANTS
  TxTypeOK
  DepCounterExact
  CommitsAreRecoverable
  AbortsCascade
PROPERTIES
  ImplementsOutcome
  CommitsTerminate
