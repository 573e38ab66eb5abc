SPECIFICATION Spec
CONSTANTS
  WeekTicks = 2
  Weeks = 2
  Said = {"BOTH", "RANGE"}
  Quotes = {1, 4}
  MaxItems = 2
  MaxTick = 2
  MaxHeats = 2
  MaxQuotes = 2
  MaxAge = 1
INVARIANTS
  AgreesWithSchedule
  BaselinePredatesRelease
CHECK_DEADLOCK FALSE
