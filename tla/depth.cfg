SPECIFICATION DepthSpec
CONSTANTS
  Moving = {"BULL", "RITC"}
  Quantities = {1, 2}
  MaxEntries = 2
  Inventories = {"FLAT", "LONG_BASKET"}
  MaxQuantity = 2
  Fee = 1
  MinEdge = 1
  MinProfit = 1
  MaxGross = 6
  MaxNet = 2
  Block = 1
  MaxBlocks = 2
  BlockFee = 1
  MaxLoss = 400
INVARIANTS
  PlanIsBest
  AnyRemainderCanFallBack
  MarkBoundsProceeds
CHECK_DEADLOCK FALSE
