CONSTANTS
  Slots = {c1, c2}
  Interfaces = {"small", "large"}
  RequestSize <- MCRequestSize
  Fee <- MCFee
  Endowment <- MCEndowment
  MinFee = 10
  MaxPerEpoch = 4
  MaxInFlight = 3
  StorageSize = 6
  MaxIndexInTick = 1
  AuthOffset = 2
  TimeoutTicks = 3
  MaxTick = 4

SPECIFICATION Spec

CHECK_DEADLOCK FALSE
INVARIANTS
  InFlightIsHeld
  PlacesAreFreedInTime
  NextIdIsFresh
