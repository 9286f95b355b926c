SPECIFICATION FairSpec
CONSTANTS
  NumUnits = 5
  Concurrency = 3
  InitialWorkers = 1
  Results <- MCResults
  Heartbeats = TRUE
  WindowSize = 3
  MinSamples = 2
  RateNum = 1
  RateDen = 2
INVARIANTS
  TypeOK
  LeaseIsHeld
  EachOutcomeSampledOnce
  OvershootIsBounded
  NothingLeftBehind
PROPERTIES
  ImplementsList
  RunQueueReturns
CHECK_DEADLOCK FALSE
