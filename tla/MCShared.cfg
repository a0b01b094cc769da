SPECIFICATION Spec
CONSTANTS
  NStrategy = 2
  HardStopPct <- BothHardStopPct
  TrailPct <- BothTrailPct
  AtrMult <- BothAtrMult
  MaxHoldDays <- BothMaxHoldDays
  MaxHoldHours <- BothMaxHoldHours
  ReadsAtr14 <- BothReadsAtr14
  None = None
  Lost = Lost
  NMarket = 1
  BootModes = {"live"}
  BootEnabled = {1}
  MaxTries = 1
  Slip = 1
  OddFills = {0}
  Commands = {"mode", "switchstrategy"}
  Faults = {"database", "reply", "crash", "file"}
  Verdicts = {"approve", "policy"}
  Prices = {90, 100}
  Atrs = {0, 300}
  TimeSteps = {1}
  FirstHour = 8
  MaxTime = 9
  MaxLots = 1
INVARIANTS
  TypeOK
  SnapshotCurrent
PROPERTIES
  StopsOnlyTighten
