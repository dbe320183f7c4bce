SPECIFICATION Spec
CONSTANTS
  OriginBatchPos = 1
  SafeBatches = {0, 1, 2, 3}
  SafeL1Origins = {0, 1}
  SelfRewinds = TRUE
  LooseStarts = {0, 1, 2, 3}
  MaxBatch = 4
  MaxCache = 4
INVARIANTS
  NothingBelowStart
  ReadPosInCache
