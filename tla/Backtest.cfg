SPECIFICATION ReplaySpec
CONSTANTS
  Window = 2
  Prices = {1, 3}
  Predictions <- MCPredictions
  NoPred = NoPred
  ParamSets <- MCParamSets
  MaxBars = 4
INVARIANTS
  MatchesLive
  TradesArePositions
CHECK_DEADLOCK FALSE
