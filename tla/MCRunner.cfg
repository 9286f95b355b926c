SPECIFICATION Spec
CONSTANTS
  Runners = {r1, r2}
  Items = 2
  MaxRestarts = 1
  MaxFaults = 2
INVARIANTS
  TypeOK
  AnswerIsOwn
PROPERTIES
  ImplementsService
  PoolSettles
CHECK_DEADLOCK FALSE
