SPECIFICATION Spec
CONSTANTS
  MaxTs = 3
  FetchCount = 2
  Attempts = 2
  MaxCalls = 2
  MaxRuns = 0
  NoRow = NoRow
INVARIANTS
  WindowEndsAtCandle
CHECK_DEADLOCK FALSE
