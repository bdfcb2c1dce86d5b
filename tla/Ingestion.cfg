SPECIFICATION Spec
CONSTANTS
  Hours <- MCHours
  TradingDays = {0}
  MaxDay = 1
  Symbols <- MCSymbols
  Target = "QQQ"
  BarHours = {14, 20}
  MinCandles = 1
  KeepDays = 1
  MaxBackoff = 2
  MaxRequests = 1
  MaxRestarts = 0
INVARIANTS
  TypeOK
  SecondEvaluationIsYahoos
  LaterRunsAreAligned
PROPERTIES
  BackfillsEnd
CHECK_DEADLOCK FALSE
