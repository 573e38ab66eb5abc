SPECIFICATION Spec
CONSTANTS
  Values = {1, 4, 11}
  Grosses = {0, 2, 6, 16}
  MaxGross = 20
  ConfirmTicks = 2
  RecoveryTicks = 2
  MinHold = 3
  LateTick = 4
  EndgameTick = 5
  MaxTick = 6
INVARIANTS
  DrawdownBoundsGross
PROPERTIES
  GuardStopsGrowth
