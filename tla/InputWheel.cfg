SPECIFICATION InputSpec
CONSTANTS
  Scenarios <- MCScenarios
  MaxSequence = 3
  MaxGamepads = 3
  WheelAnywhere = TRUE
INVARIANT InputIsSafe
