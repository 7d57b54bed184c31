\* Boot, two overlapping commands and a revocation, no fault
SPECIFICATION Spec
CONSTANTS
  Alice = alice
  Rogue = rogue
  Peer = {alice, rogue}
  Officer = {o1}
  Group = group
  Threshold = 2
  LeaseSecs = 1
  MaxCmds = 4
  MaxPending = 2
  MaxTasks = 1
  MaxNow = 0
  MaxFaults = 0
PROPERTY StampCoversRosterInForce
CHECK_DEADLOCK FALSE
