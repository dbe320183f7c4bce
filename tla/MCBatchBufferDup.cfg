SPECIFICATION Spec
CONSTANTS
  Batch <- MCBatch
  Capacity = 4
  MaxInserts = 6
INVARIANT NoDuplicates
