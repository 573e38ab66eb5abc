SPECIFICATION LimitSpec
CONSTANTS
  Limits = {1000, 1001, 1200, 5000, 7000}
  Supplied = 5000
  MaxHeats = 3
  LastTick = 3
INVARIANTS
  TradesUnderAnnouncement
  LimitOfThisSubHeat
CHECK_DEADLOCK FALSE
