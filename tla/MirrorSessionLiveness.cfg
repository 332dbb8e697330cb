SPECIFICATION FairSpec
CONSTANTS
  Starts = {j1, j2}
  Stops = {s1}
  Reports = {r1}
  None = None
  MaxReconnectAttempts = 1
  PromptDispatch = TRUE
CHECK_DEADLOCK FALSE
PROPERTY EveryCoroutineEnds
INVARIANT NewestStartSurvives
