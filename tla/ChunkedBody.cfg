\* One request, five bodies, every cut of the stream
SPECIFICATION SocksSpec
CONSTANTS
  Bodies <- SomeBodies
  SizeLine <- HexLine
  ReplyTail = 2
INVARIANT WholeBody
CHECK_DEADLOCK FALSE
