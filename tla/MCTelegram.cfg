SPECIFICATION BotFairSpec
CONSTANTS
  N = 4
  Stops = {3}
  Foreign = {2}
  Limit = 2
  MaxStarts = 3
  Crashes = TRUE
  Briefings = {1, 4}
  MaxEvents = 2
INVARIANTS
  BotTypeOK
  NoCommandSkipped
  OncePerLife
  LostOnlyWhileSending
  NothingToldAgain
PROPERTIES
  EveryCommandHandled
  EventsGetSent
CHECK_DEADLOCK FALSE
