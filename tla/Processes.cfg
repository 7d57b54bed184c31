SPECIFICATION Spec
CONSTANTS
  Relay = relay
  Rdv = rdv
  Db = db
  Laptop = laptop
  BootSteps <- OneRefresh
  WalkSteps <- ShortWalk
  TorLog <- ThreeLines
  MaxTries = 1
  MaxCommands = 2
  MaxFaults = 1
INVARIANTS ExitCodeTells OnionStopped AnsweredByOwn ReasonIsOwn
PROPERTIES RunEnds NoneLeftBehind
CHECK_DEADLOCK FALSE
