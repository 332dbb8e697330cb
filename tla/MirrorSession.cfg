SPECIFICATION Spec
CONSTANTS
  Starts = {j1, j2}
  Stops = {s1}
  Reports = {r1, r2}
  None = None
  MaxReconnectAttempts = 1
  PromptDispatch = FALSE
SYMMETRY CoroutineSymmetry
CHECK_DEADLOCK FALSE
INVARIANTS
  SessionAgrees FailedStartLeavesNothing
PROPERTIES ReportsHitTheirOwnSession ReconnectBudget
