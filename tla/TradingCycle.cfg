SPECIFICATION FairSpec
CONSTANTS
  Inputs <- MCInputs
  Params <- MCParams
  NoInput = NoInput
  MaxTs = 4
  MinCandles = 2
  MaxFaults = 2
  MaxRestarts = 1
INVARIANTS
  TypeOK
  IdleAgreement
  ExecutorMatchesLedger
  NeverOversold
  EvaluatedOncePerLife
PROPERTIES
  ImplementsPositionMachine
  ImplementsCandleMarks
  NewestCandlePredicted
CHECK_DEADLOCK FALSE
