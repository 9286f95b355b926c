SPECIFICATION Spec
CONSTANTS
  Absent = Absent
  f1 = f1
  f2 = f2
  c1 = c1
  c2 = c2
  Updaters = {u1, u2}
  Files <- Pair
  Contents <- Blobs
  Refusing <- SecondRefuses
  Cached <- FirstCached
  MaxCommits = 1
  MaxFaults = 2
  MaxStarts = 2
INVARIANTS
  TypeOK
  StagedIsFull
  RefusedForCause
PROPERTIES
  NeverRepairedInPlace
  EveryUpdateEnds
CHECK_DEADLOCK FALSE
