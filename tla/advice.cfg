SPECIFICATION Spec
CONSTANTS
  WeekTicks = 2
  Weeks = 2
  Said = {"EXACT_LOW"}
  Strikes = {1}
  Signals = {"LONG"}
  Holdings = {"PAIR", "STOCK"}
  NoNewEntry = 1
  ExitReview = 1
  MaxItems = 1
  MaxTick = 1
  MaxHeats = 2
INVARIANTS
  SeenIsAnnounced
  InstructionsAreCurrent
PROPERTIES
  OneAdvicePerTick
CHECK_DEADLOCK FALSE
