SPECIFICATION FairSpec
CONSTANTS
  MaxTs = 2
  FetchCount = 2
  Attempts = 2
  MaxCalls = 2
  MaxRuns = 1
  NoRow = NoRow
INVARIANTS
  TypeOK
  BacklogIsTimeouts
  OnTimeRowsAreOwn
  NoLookAhead
PROPERTIES
  ImplementsCandleMarks
  BackfillReturns
CHECK_DEADLOCK FALSE
