SPECIFICATION Spec
CONSTANTS
  MaxBundles = 2
  OrderQty = 2
  TenderQty = 1
  MaxOrderSize = 2
  MaxTick = 1
  Directions = {"BUY_ETF", "SELL_ETF"}
  NearDepths = {0, 2}
  FarDepths = {0, 1}
  Losses = FALSE
  ArbDeadline = 0
  TenderLife = 300
  MaxGross = 8
  MaxNet = 4
INVARIANTS
  DroppedBundleFreesStrategy
