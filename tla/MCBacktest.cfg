SPECIFICATION Spec
CONSTANTS
  Bars = 6
  Closes = {90, 100, 120}
  Lows = {80, 97, 120}
  Atrs = {0, 50000}
  Sizes = {0, 3, 600}
  InitialCapital = 500
  HardStopPct = 5
  AtrTrailMult = 2
  MaxHoldDays = 2
  FeePct = 1
  SlipPct = 1
INVARIANTS
  TypeOK
  LossBounded
  HeldWithinLimit
  OnePointPerBar
  RoundTrips
  BooksAgree
  DrawdownIsDeepest
  CurveMeetsCapital
CHECK_DEADLOCK FALSE
