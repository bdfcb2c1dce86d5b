SPECIFICATION BriefingSpec
CONSTANTS
  Hours <- MCHours
  TradingDays = {0, 1, 3}
  MaxDay = 3
  BriefingHour = 13
  EtHours = 5
  MaxRefreshes = 2
INVARIANTS
  EveryDayBriefed
CHECK_DEADLOCK FALSE
