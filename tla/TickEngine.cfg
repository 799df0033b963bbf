CONSTANTS
  Names = {a, b}
  Clients = {x, y}
  NoTx = NoTx
  TxsPerTick = 2
  EpochLength = 2
  HistoryTicks = 2
  MaxTick = 5

SPECIFICATION FairSpec

CHECK_DEADLOCK FALSE
INVARIANTS
  QueuedIsAhead
  IndicesAgree
  RunsAtMostOnce
PROPERTIES
  SignedIsKept
  LifeIsKept
