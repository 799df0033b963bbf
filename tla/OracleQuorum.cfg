CONSTANTS
  Contracts = {c1}
  Computors = {p1, p2, p3, p4}
  Values = {v1, v2}
  NoValue = NoValue
  Timeouts = {2}
  MaxTimeout = 2
  QuerySize = 1
  MaxQueries = 1
  MaxSimultaneous = 1
  StorageSize = 1
  MaxIndexInTick = 1
  TimeSteps = {1}
  MaxTick = 2

SPECIFICATION Spec
SYMMETRY CommitteeSymmetry

CHECK_DEADLOCK FALSE
INVARIANTS
  StatusFollowsCommits
PROPERTIES
  SuccessIsConfirmed
