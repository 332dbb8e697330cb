SPECIFICATION FairSpec
CONSTANTS
  Pts = {0, 3}
  TimeBase = 2
  MaxPackets = 3
CHECK_DEADLOCK FALSE
INVARIANTS
  NoLostWakeup FileIsCorrect StreamsAreAligned
PROPERTIES
  QuitCompletes
