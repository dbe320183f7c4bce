SPECIFICATION Spec
CONSTANTS
  Batch <- MCRotationBatch
  Capacity = 2
  Histories <- MCHistories
  HotShotHeight = 4
  MaxL1 = 2
  L1Hash <- MCL1Hash
  BatcherAt <- MCRotationBatcherAt
  LightHeights = {1, 2, 3}
  SafeBatches = {0, 1, 2}
  ParentHashes = {"g", "a1", "r1"}
  OriginHotShotPos = 0
  OriginBatchPos = 0
  FetchLimit = 2
  L1CacheSize = 1
  MaxUint64 = 99
  ZeroAddress = ZeroAddress
  NoL1Ref = NoL1Ref
  NoBatch = NoBatch
  Undecodable = Undecodable
  Unreachable = Unreachable
INVARIANTS
  TypeOK
  HeadIsDue
  DeliversOnlyFinal
  BufferSorted
  RewindWithinScan
  NoBatchLost
PROPERTIES
  HeadIsStable
  DropIsFinal
  ImplementsFeed
