SPECIFICATION Spec
CHECK_DEADLOCK FALSE
CONSTANTS
  Blocks <- MCBlocks
  Foreign <- MCForeign
  ForeignData <- MCForeignData
  Keys = {"A", "B"}
  MaxWord = 3
  MaxRounds = 1
  None = None
  Garbage = Garbage
  ZeroAddress = ZeroAddress
  Stranger = Stranger
INVARIANT
  BlockRestored
