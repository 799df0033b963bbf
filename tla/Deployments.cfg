CONSTANTS
  Slots = {1}
  Sessions = {s1, s2}
  Modules = {"v1", "v2", "broken"}
  NotWasm = {"broken"}
  Unloadable = {"broken"}
  StateSize <- MCStateSize
  MigrateFrom <- MCMigrateFrom
  StagedSizes = {2}
  ChunkCount = 1
  StaleTicks = 1
  MaxTick = 2
  MaxVersion = 3
  MaxStaged = 2
  None = None

SPECIFICATION Spec
SYMMETRY SessionSymmetry

CHECK_DEADLOCK FALSE
INVARIANTS
  InitializedOnce
  RegistryReportsWhatRuns
PROPERTIES
  StateSurvivesUpgrade
  HoldersKeepTheirSlot
