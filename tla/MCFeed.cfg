SPECIFICATION FairSpec
CONSTANTS
  MaxDelay = 60
  MaxStray = 2
  MaxTries = 8
INVARIANTS
  TypeOK
  BackoffGrows
  ClosesWhatItKnows
PROPERTIES
  ReaderEnds
  FeedResumes
CHECK_DEADLOCK FALSE
