SPECIFICATION FairSpec
CONSTANTS
  Task = {trader, closer1, closer2}
  Trader = {trader}
  Closer = {closer1, closer2}
  Sem = {"order"}
  Permits <- OnePermit
  MaxRetries = 2
  None = None
  Faults = {"request", "late", "reply", "garbled"}
INVARIANTS
  TypeOK
  PermitsKept
  UntoldFillTracked
PROPERTIES
  KeepsLedger
  TasksEnd
CHECK_DEADLOCK FALSE
