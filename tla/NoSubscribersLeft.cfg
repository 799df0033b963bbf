CONSTANTS
  Contracts = {c1, c2}
  Computors = {p1}
  Values = {v1}
  NoValue = NoValue
  Timeouts = {}
  MaxTimeout = 2
  QuerySize = 1
  MaxQueries = 8
  MaxSimultaneous = 1
  StorageSize = 20
  MaxIndexInTick = 2
  TimeSteps = {1, 5}
  MaxTick = 3
  Keys = {k1}
  Periods = {1, 2}
  Minute = 2
  SubscriberIndexSize = 1
  MaxSubscriptions = 1
  MaxSubscribers = 3

SPECIFICATION SimulatorSpec

INVARIANTS
  SubscriptionQueryHasSubscribers

CHECK_DEADLOCK FALSE
