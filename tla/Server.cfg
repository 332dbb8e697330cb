SPECIFICATION FairSpec
CONSTANTS
  WantedSets <- NoVideo
  LastPort = 2
  Attempts = 2
CHECK_DEADLOCK FALSE
INVARIANTS
  InterruptIsExact NothingLeaks TunnelsAreRemoved
PROPERTIES
  EndsAreNoticed
