SPECIFICATION Spec
CONSTANTS
  Tasks = {"postgres_users"}
  Guarded = {"postgres_users"}
  Ids = {"a", "b", "c", "d", "e", "g", "h", "w"}
  Txs = {"t1", "t2"}
  Log <- MCLog
  NoTx = NoTx
  DedupCapacity = 3
  MaxCrashes = 2
  MaxSaveErrors = 1
  MaxRefusals = 1
  MaxRewinds = 1
INVARIANTS
  TypeOK
  CheckpointCovers
  SessionOrder
  DuplicateBound
  NothingForgotten
PROPERTIES
  SendAfterCommit
  CheckpointMonotone
CHECK_DEADLOCK FALSE
