SPECIFICATION AoaFairSpec
CONSTANTS
  Keyboard = kb
  Gamepads = {pad}
  AoaLimit = 1
  AoaRoom = 2
  AckLimit = 1
  Video = FALSE
  MaxPastes = 2
  MaxKeys = 1
  MaxPlugs = 2
  MaxInputs = 3
CHECK_DEADLOCK FALSE
INVARIANTS PastesAreOrdered NothingIsMissed
PROPERTY NobodyWaitsForEver
