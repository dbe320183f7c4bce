SPECIFICATION Spec
CONSTANTS
  Batch <- MCRotationBatch
  Capacity = 2
  Histories <- MCCopyHistories
  HotShotHeight = 4
  MaxL1 = 2
  L1Hash <- MCL1Hash
  BatcherAt <- MCRotationBatcherAt
  LightHeights = {1, 2}
  SafeBatches = {0, 1}
  ParentHashes = {"g", "a1"}
  OriginHotShotPos = 0
  OriginBatchPos = 0
  FetchLimit = 2
  L1CacheSize = 1
  MaxUint64 = 99
  ZeroAddress = ZeroAddress
  NoL1Ref = NoL1Ref
  NoBatch = NoBatch
  Undecodable = Undecodable
  Unreachable = Unreachable
INVARIANT
  DuplicateStaysHeld
