\* Three frames; one HTTP exchange; three entries and two editing commands
SPECIFICATION WireSpec
CONSTANTS
  Byte <- UpTo3
  Xor <- XorOf
  Ext = 2
  Base = 4
  MidDigits = 1
  LongDigits = 2
  MidLimit = 4
  Flag = 8
  MaskSize = 2
  Payloads <- ThreeLengths
  Masks <- OneMask
  MaxFrames = 3
  Bodies <- SomeBodies
  SizeLine <- HexLine
  ReplyTail = 2
  Bytes <- LineBytes
  MaxAppends = 3
  MaxEdits = 2
INVARIANTS
  MessagesIntact
  PingsAnswered
  ResponseIntact
  OneTimerWaits
  IInv
  TamperEvident
  ShownFollowsFile
PROPERTIES
  SocksSettles
  EditCaught
  LogCatchesUp
CHECK_DEADLOCK FALSE
