\* Boot and three commands, two at a time, no fault, under fairness
SPECIFICATION FairSpec
CONSTANTS
  Alice = alice
  Rogue = rogue
  Peer = {alice, rogue}
  Officer = {o1}
  Group = group
  Threshold = 2
  LeaseSecs = 1
  MaxCmds = 4
  MaxPending = 2
  MaxTasks = 1
  MaxNow = 0
  MaxFaults = 0
PROPERTIES
  RevocationReaches
  AgentSettles
CHECK_DEADLOCK FALSE
