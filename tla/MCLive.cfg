SPECIFICATION FairSpec
CONSTANTS
  NStrategy = 1
  HardStopPct <- TfvbHardStopPct
  TrailPct <- TfvbTrailPct
  AtrMult <- TfvbAtrMult
  MaxHoldDays <- TfvbMaxHoldDays
  MaxHoldHours <- TfvbMaxHoldHours
  ReadsAtr14 <- TfvbReadsAtr14
  None = None
  Lost = Lost
  NMarket = 1
  BootModes = {"paper", "live"}
  BootEnabled = {1}
  MaxTries = 2
  Slip = 1
  OddFills = {}
  Commands = {"disable", "enable", "pause", "resume"}
  Faults = {"portfolio", "fetch", "database", "request", "reply", "crash", "save"}
  Verdicts = {"policy", "error"}
  Prices = {90, 100}
  Atrs = {300}
  TimeSteps = {24}
  FirstHour = 8
  MaxTime = 8
  MaxLots = 1
PROPERTIES
  TickEnds
  HardStopHonoured
  OrphansAdopted
