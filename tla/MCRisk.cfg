SPECIFICATION Spec
CONSTANTS
  NVisits = 3
  Modes = {"paper", "live"}
  StartCash = {0, 12, 61, 400}
  Outside = {0, 40}
  BaseCapital = 2000
  RiskPcts = {8, 30}
  Gains = {50, 120}
  MaxTicks = 3
  MaxSingleAssetPct = 20
  MaxTotalInvestmentPct = 70
  MaxConcurrentPositions = 5
  MaxDailyLossPct = 5
  MaxDrawdownPct = 15
  MaxConsecutiveLosses = 5
INVARIANTS
  TypeOK
  TickNeverOvercommits
  NoOrderOnEmptyBalance
  OvershootBounded
  CapUnlessZero
CHECK_DEADLOCK FALSE
