SPECIFICATION Spec
CONSTANTS
  PgEvents = 5
  CassEvents = 1
  Tasks <- MCTasks
  Guarded <- MCGuarded
  Ids <- MCIds
  Txs <- MCTxs
  Log <- MCLog
  NoTx = NoTx
  DedupCapacity = 1000
  MaxCrashes = 0
  MaxSaveErrors = 0
  MaxRefusals = 0
  MaxRewinds = 0
INVARIANT NoDataLoss
CHECK_DEADLOCK FALSE
