SPECIFICATION Spec
CONSTANTS
  MaxBundles = 2
  OrderQty = 1
  TenderQty = 2
  MaxOrderSize = 2
  MaxTick = 1
  Directions = {"BUY_ETF"}
  NearDepths = {0, 2}
  FarDepths = {1}
  Losses = TRUE
  ArbDeadline = 0
  TenderLife = 300
  MaxGross = 4
  MaxNet = 4
  PassiveWait = 1
INVARIANTS
  ExposureWithinPlan
  LateFillIsBookable
  HedgedOrBeingHedged
  OneLegAtATimeUntilStarted
PROPERTIES
  KeepsSafePromise
CHECK_DEADLOCK FALSE
