\* Two contracts that may call back into one another, a user, and one phase boundary.
CONSTANTS
  Slots = {1, 2}
  Users = {101}
  Notified = {1, 2}
  Hooked = {2}
  Oracles = {2}
  Buffers = 2
  Computors = 1
  Endowment = 1
  Amounts = {1}
  DefaultReserve = 2
  MaxTick = 1
  MaxCalls = 4
SPECIFICATION Spec
CHECK_DEADLOCK FALSE
INVARIANTS
  EnergyConserved
  TimeIsChargedOnce
  OnlyNotificationsRecurse
PROPERTIES
  OutOfServiceIsGated
