\* Epochs of one tick, with room for a few records.
CONSTANTS
  TxsPerTick = 1
  EpochLength = 1
  MaxRetainedBytes = 3
  Kinds <- MCKinds
  Gone = Gone
  NoRange = NoRange
  MaxTick = 2
  MaxRecords = 4
  MaxDeferred = 2
SPECIFICATION Spec
CHECK_DEADLOCK FALSE
INVARIANTS
  RetentionIsExact
  RangesTellTheTruth
  DigestsCoverMutations
  OnlyOverflowHalts
