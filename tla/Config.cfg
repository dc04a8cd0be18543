SPECIFICATION ConfigSpec
CONSTANTS
  Bits = 4
  Ten = 3
  Space = 2
  Question = 3
  LastChar = 13
  NaValue = {255}
  Unset = Unset
  Decimal <- MCDecimal
  Files <- MCFiles
  InputWriteMax = 4
  SlaveMax = 4
  BlockMax = 3
  TextBytesMax = 6
  IntHalf = 16
  Window = 3
INVARIANTS OrderKept OneCopyPerModule WritesSendable
CHECK_DEADLOCK FALSE
