\* Three calls of two clients, two at a time, one fault and one change of roster
SPECIFICATION Spec
CONSTANTS
  Alice = alice
  Rogue = rogue
  Db = db
  Client = {alice, rogue}
  Port = {db}
  Rosters <- TwoRosters
  MaxCalls = 3
  MaxOpen = 2
  MaxClock = 1
  MaxRefresh = 1
  MaxFaults = 1
INVARIANTS
  IInv
  NonceUsedOnce
  SessionsAgree
PROPERTIES
  ImplementsSecureService
CHECK_DEADLOCK FALSE
