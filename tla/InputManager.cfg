SPECIFICATION InputSpec
CONSTANTS
  Scenarios <- MCScenarios
  MaxSequence = 3
  MaxGamepads = 3
  WheelAnywhere = FALSE
INVARIANTS InputIsSafe NothingIsPhantom PausedIsSilent
  PasteWaitsForItsClipboard EachCharacterOnce
