SPECIFICATION FairSpec
CONSTANTS
  Units = {u1, u2, u3}
  MaxAttempts = 2
  Materialized = {u1, u2, u3}
  Answers <- MCPricedAnswers
  CallCap = 4
  CostCap = 3
  Reserve = 2
  UnpricedCap = 0
  Faults = {}
  Inspections <- Never
  MaxCrashes = 0
INVARIANTS
  SpendStaysWithinCap
PROPERTIES
  EveryUnitEnds
CHECK_DEADLOCK FALSE
