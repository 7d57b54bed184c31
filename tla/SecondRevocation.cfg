\* Boot and two revocations, one at a time, no fault
SPECIFICATION Spec
CONSTANTS
  Alice = alice
  Rogue = rogue
  Peer = {alice, rogue}
  Officer = {o1}
  Group = group
  Threshold = 2
  LeaseSecs = 1
  MaxCmds = 3
  MaxPending = 1
  MaxTasks = 1
  MaxNow = 0
  MaxFaults = 0
INVARIANT RevocationOutlivesRefresh
CHECK_DEADLOCK FALSE
