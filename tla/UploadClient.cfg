CONSTANTS
  Slots = {1}
  Sessions = {"a", "b"}
  Modules = {"v1", "v2"}
  NotWasm = {}
  Unloadable = {}
  StateSize <- MCStateSize
  MigrateFrom <- MCMigrateFrom
  StagedSizes = {}
  ChunkCount = 2
  StaleTicks = 9
  MaxTick = 60
  MaxVersion = 3
  MaxStaged = 1
  None = None
  Wants <- MCWants
  Target <- MCTarget
  TxTickOffset = 2
  ReadyTicks = 1
  Retries = 1
  GraceTicks = 1
  MaxPolls = 12
  MayCrash = {"a"}
  Lag = 0
  StartBy = 1
  MaxLosses = 2

SPECIFICATION ClientSpec

CHECK_DEADLOCK FALSE
INVARIANTS
  ReportsAreTrue
  
  ClosedStaysClosed
PROPERTIES
  OnlyTheFedAreRespected
  EveryClientEnds
