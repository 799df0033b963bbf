CONSTANTS
  Contracts = {c1}
  Computors = {p1}
  Values = {v1}
  NoValue = NoValue
  Timeouts = {0, 1}
  MaxTimeout = 2
  QuerySize = 1
  MaxQueries = 3
  MaxSimultaneous = 2
  StorageSize = 8
  MaxIndexInTick = 1
  TimeSteps = {1}
  MaxTick = 3
  Keys = {}
  Periods = {1, 2}
  Minute = 2
  SubscriberIndexSize = 1
  MaxSubscriptions = 1
  MaxSubscribers = 3

SPECIFICATION SimulatorSpec

CHECK_DEADLOCK FALSE
INVARIANTS
  PoolsAgree
  CommittedIsHeld
  EveryoneIsTold
  DeadlinesAreMet
PROPERTIES
  ToldInOrder
  FinishedIsFinal
