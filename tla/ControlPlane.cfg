\* Boot and two commands of the console that may overlap, one fault
SPECIFICATION Spec
CONSTANTS
  Alice = alice
  Rogue = rogue
  Peer = {alice, rogue}
  Officer = {o1}
  Group = group
  Threshold = 2
  LeaseSecs = 1
  MaxCmds = 3
  MaxPending = 2
  MaxTasks = 2
  MaxNow = 1
  MaxFaults = 1
INVARIANTS
  IInv
  GrantsWithinQuorum
  NarrowingAuthorised
  ConsoleShowsSigned
PROPERTIES
  VersionMonotone
  ImplementsAccessControl
CHECK_DEADLOCK FALSE
