SPECIFICATION Spec
CONSTANTS
  Bits = 4
  Ten = 3
  Space = 2
  Question = 3
  LastChar = 13
  NaValue = {255}
  Channels <- MCChannels
  OffsetSize = 1
  Presets <- MCPresets
  Lives <- MCLives
  Asks <- MCCoils
  MaxCount = 7
  MaxBits = 56
  MaxWrite = 4
INVARIANTS CoilsAsAsked
