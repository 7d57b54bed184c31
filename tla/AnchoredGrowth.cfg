\* Two entries, no edit
SPECIFICATION Spec
CONSTANTS
  Bytes <- LineBytes
  MaxAppends = 4
  MaxEdits = 0
INVARIANT HonestLogPasses
CHECK_DEADLOCK FALSE
