SPECIFICATION FairSpec
CONSTANTS
  Units = {u1, u2}
  MaxAttempts = 1
  Materialized = {u1, u2}
  Answers <- MCPricedAnswers
  CallCap = 4
  CostCap = 3
  Reserve = 2
  UnpricedCap = 0
  Faults <- JournalFaults
  Inspections <- Never
  MaxCrashes = 0
PROPERTIES
  WaitersAreReleased
CHECK_DEADLOCK FALSE
