SPECIFICATION FairSpec
CONSTANTS
  Block = 2
  OrderQty = 1
  MaxBlocks = 2
  MaxInventory = 4
  StartLevel = 3
  TargetLevel = 1
  MaxBundles = 3
  MaxConversions = 2
INVARIANTS
  LotsBackedByAccount
  FallbackOnlyForRemainder
  ExitFindsItsLot
PROPERTIES
  WindowResolves
