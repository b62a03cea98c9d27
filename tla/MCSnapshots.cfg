SPECIFICATION EitherSpec
CONSTANTS
  Workers = {0, 1, 2}
  total_rows = 7
  chunk_size = 2
  MaxCalls = 2
  MaxPanics = 3
  Keys = {k1, k2}
  Vals = {v1, v2}
  NoRow = NoRow
  Origins = {"committed"}
  MaxWrites = 3
  MaxChunks = 2
INVARIANTS
  ChunksPartition
  ClaimedOnce
  ProgressHonest
  SnapshotConsistent
PROPERTY ProcessReturns
CHECK_DEADLOCK FALSE
