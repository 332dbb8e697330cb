SPECIFICATION FairSpec
CONSTANTS
  Args <- MCArgs
  MaxArgs = 3
  MaxRunArgs = 2
  MaxFiles = 1
  PromptTimeout = TRUE
INVARIANTS OptionsAreConsistent PartsOutliveThreads
PROPERTY ClientEnds
