SPECIFICATION Spec
CONSTANTS
  NStrategy = 1
  HardStopPct <- TfvbHardStopPct
  TrailPct <- TfvbTrailPct
  AtrMult <- TfvbAtrMult
  MaxHoldDays <- TfvbMaxHoldDays
  MaxHoldHours <- TfvbMaxHoldHours
  ReadsAtr14 <- TfvbReadsAtr14
  None = None
  Lost = Lost
  NMarket = 1
  BootModes = {"paper", "live"}
  BootEnabled = {1}
  MaxTries = 2
  Slip = 1
  OddFills = {0}
  Commands = {"pause", "resume", "enable", "disable"}
  Faults = {"portfolio", "fetch", "database", "request"}
  Verdicts = {"approve", "policy"}
  Prices = {90, 100, 110}
  Atrs = {300}
  TimeSteps = {24}
  FirstHour = 8
  MaxTime = 32
  MaxLots = 2
INVARIANTS
  BooksBalance
