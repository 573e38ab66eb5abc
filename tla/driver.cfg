SPECIFICATION FairSpec
CONSTANTS
  MaxHeats = 3
  MaxHeatTick = 3
INVARIANTS
  StateBelongsToHeat
PROPERTIES
  EveryHeatIsTraded
CHECK_DEADLOCK FALSE
