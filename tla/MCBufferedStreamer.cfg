SPECIFICATION SteadySpec
CONSTANTS
  OriginBatchPos = 2
  SafeBatches = {0, 1, 2, 3}
  SafeL1Origins = {0, 1, 2}
  SelfRewinds = FALSE
  LooseStarts = {}
  MaxBatch = 6
  MaxCache = 6
INVARIANTS
  TypeOK
  CacheIsWindow
PROPERTY
  KeepsPromise
