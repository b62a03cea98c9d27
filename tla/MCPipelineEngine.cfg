\* A Postgres transaction and the first row of the next one, which stays open;
\* two Cassandra rows.
SPECIFICATION FairSpec
CONSTANTS
  PgEvents = 5
  CassEvents = 2
  Tasks <- MCTasks
  Guarded <- MCGuarded
  Ids <- MCIds
  Txs <- MCTxs
  Log <- MCLog
  NoTx = NoTx
  DedupCapacity = 1000
  MaxCrashes = 1
  MaxSaveErrors = 1
  MaxRefusals = 0
  MaxRewinds = 0
PROPERTY EventuallySettled
CHECK_DEADLOCK FALSE
