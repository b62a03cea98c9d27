SPECIFICATION Spec
CONSTANTS
  Ids = {a, b, c}
  DedupCapacity = 2
  Txs = {t1, t2}
  NoTx = NoTx
  MaxEvents = 4
  MaxSizes = {0, 1}
INVARIANT QueueMatchesSet
PROPERTIES
  RefinesWindow
  FlushIsTransaction
CHECK_DEADLOCK FALSE
