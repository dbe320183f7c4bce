SPECIFICATION SteadySpec
CONSTANTS
  OriginBatchPos = 0
  SafeBatches = {0, 1, 2, 3}
  SafeL1Origins = {0}
  SelfRewinds = TRUE
  LooseStarts = {}
  MaxBatch = 6
  MaxCache = 6
PROPERTY
  ProgressionUnchanged
