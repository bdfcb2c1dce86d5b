SPECIFICATION LiveSpec
CONSTANTS
  p1 = p1
  p2 = p2
  engine = engine
  Procs <- MCProcs
  Requests <- MCRequests
  Listed = {"master", "own"}
  Unlisted = {"hidden"}
  Master = {"master"}
  Prediction = {"own"}
  Engine = engine
  FirstOrders <- MCFirstOrders
SYMMETRY MCSymmetry
INVARIANTS
  LiveTypeOK
  ExitTellsFate
  LogIsTrue
  RealOrdersAreConfirmed
  MasterOrdersExplained
  ModifyKeepsTheRest
PROPERTIES
  OnlyFlattens
CHECK_DEADLOCK FALSE
