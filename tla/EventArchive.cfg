SPECIFICATION Spec
CONSTANTS
  Events = {e1, e2, e3}
  MaxDay = 6
  MonthLen = 3
  Retention = 1
INVARIANTS
  TypeOK
  LostOnlyByLaterRun
PROPERTIES
  ImplementsEventKeeper
CHECK_DEADLOCK FALSE
