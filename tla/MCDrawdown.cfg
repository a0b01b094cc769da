SPECIFICATION Spec
CONSTANTS
  NVisits = 3
  Modes = {"paper", "live"}
  StartCash = {0, 61, 100}
  Outside = {0, 40}
  BaseCapital = 2000
  RiskPcts = {10, 20}
  Gains = {50, 120}
  MaxTicks = 3
  MaxSingleAssetPct = 20
  MaxTotalInvestmentPct = 70
  MaxConcurrentPositions = 5
  MaxDailyLossPct = 5
  MaxDrawdownPct = 15
  MaxConsecutiveLosses = 5
PROPERTIES
  BreakerHalts
CHECK_DEADLOCK FALSE
