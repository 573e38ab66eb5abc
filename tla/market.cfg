SPECIFICATION FairSpec
CONSTANTS
  MaxBundles = 2
  OrderQty = 2
  TenderQty = 1
  MaxOrderSize = 2
  MaxTick = 1
  Directions = {"BUY_ETF"}
  NearDepths = {0, 2}
  FarDepths = {1}
  Losses = TRUE
  ArbDeadline = 0
  TenderLife = 300
  MaxGross = 8
  MaxNet = 4
INVARIANTS
  TypeOK
  HedgedOrBeingHedged
  OneWorkingBundle
  RiskLimitsHold
  HedgingOnlyAfterShortfall
  OneLossOneOrder
PROPERTIES
  KeepsPromise
