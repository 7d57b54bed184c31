\* Three calls, one at a time, two clock readings, one fault, under fairness
SPECIFICATION FairSpec
CONSTANTS
  Alice = alice
  Rogue = rogue
  Db = db
  Client = {alice, rogue}
  Port = {db}
  Rosters <- OneRoster
  MaxCalls = 3
  MaxOpen = 1
  MaxClock = 2
  MaxRefresh = 0
  MaxFaults = 1
PROPERTIES
  EveryCallEnds
  LoneCallSucceeds
  IntroducedCallSucceeds
CHECK_DEADLOCK FALSE
