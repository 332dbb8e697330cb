SPECIFICATION FairSpec
CONSTANTS
  MaxItems = 6
  MaxHeld = 1
  ClockRange = 2
CHECK_DEADLOCK FALSE
INVARIANTS
  SinksAreBalanced ConfigReachesDecoder
PROPERTIES
  FramesInOrder StreamEnds
