CONSTANTS
  Slots = {1, 2}
  Users = {u}
  Receivers = {u, 2}
  Names = {"A"}
  NoName = "none"
  UserStart <- MCUserStart
  UserLow <- MCUserLow
  Capacity = 10
  CommitteeSize = 2
  Mints = {1, 2}
  Fixtures = {2}
  Endowment = 2
  Fees = {1}
  Supplies = {1}
  Amounts = {1}
  MaxRecords = 7

SPECIFICATION Spec

CHECK_DEADLOCK FALSE
INVARIANTS
  SharesConserved
  LookupsAgree
  MoneyConserved
PROPERTIES
  RightsMoveAsAgreed
