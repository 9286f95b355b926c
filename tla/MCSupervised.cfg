SPECIFICATION Spec
CONSTANTS
  Units = {u1, u2}
  Handlers = {h1}
  Concurrency = 2
  MaxRuns = 2
  MaxFaults = 1
INVARIANTS
  TypeOK
  PauseLeavesNoOrphan
  VerdictIsTrue
PROPERTIES
  ImplementsPaidWork
  EveryRunEnds
CHECK_DEADLOCK FALSE
