SPECIFICATION Spec
CONSTANTS
  Histories <- MCHistories
  HotShotHeight = 4
  L1Finalized <- MCL1Finalized
  AddressRanges <- MCRanges
  StartBlock = 0
  StartPos = 1
  ResetBlocks = {0, 1, 2, 3}
  ResetPositions = {1, 2}
  RangeLimit = 2
  MaxPos = 4
PROPERTY
  NoJumpAfterReset
