SPECIFICATION FairSpec
CONSTANTS
  Strikes = {k1}
  Sides = {"LONG"}
  Edges = {"NEGATIVE", "STRONG"}
  Checks = {"CLEAR"}
  Levels = {"CALM", "EMERGENCY"}
  News = {"RELEASE", "LATE"}
  Starts = {"PAIRS", "EXCESS", "OPPOSED"}
  MaxSize = 2
  MaxTick = 2
  MaxEvents = 2
  MaxLag = 1
  NewsWindow = 1
  ExactWindow = 2
  Cooldown = 1
  NoNewEntry = 2
  ForceExit = 2
INVARIANTS
  NoAddBack
PROPERTIES
  ReleaseTradedOnce
  EventuallyFlat
