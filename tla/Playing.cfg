SPECIFICATION PlayingSpec
CONSTANTS
  Slots = {s1}
  FadeMs = 1
  MaxBlock = 2
  Params = {p1}
  Top = 1
  Rates = {2, 3}
  SmoothingMs = 1
  Full = 2
  BlockSamples = 2
  ClockSize = 8
  WarmUp = 3
  StartWarmUp = 2
INVARIANTS ChainInv MuteHolds
PROPERTIES NoPop BypassTakesEffect ParamLands NeverPopsIn ComesBack 
