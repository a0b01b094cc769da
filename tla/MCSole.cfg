SPECIFICATION Spec
CONSTANTS
  NStrategy = 1
  HardStopPct <- TfvbHardStopPct
  TrailPct <- TfvbTrailPct
  AtrMult <- TfvbAtrMult
  MaxHoldDays <- TfvbMaxHoldDays
  MaxHoldHours <- TfvbMaxHoldHours
  ReadsAtr14 <- TfvbReadsAtr14
  None = None
  Lost = Lost
  NMarket = 2
  BootModes = {"live"}
  BootEnabled = {1}
  MaxTries = 2
  Slip = 1
  OddFills = {}
  Commands = {}
  Faults = {"portfolio", "fetch", "database", "request", "reply", "crash"}
  Verdicts = {"approve", "policy"}
  Prices = {90, 100}
  Atrs = {300}
  TimeSteps = {24}
  FirstHour = 8
  MaxTime = 8
  MaxLots = 2
INVARIANTS
  SellCovered
PROPERTIES
  NothingLeftUnwatched
  RecordsAreOfHoldings
