SPECIFICATION Spec
CONSTANTS
  Keys = {k1, k2, k3}
  Losses <- AnyLoss
  IoErrors = TRUE
  MaxLosses = 2
  MaxQueue = 2
INVARIANTS
  TypeOK
  OneLinePerKey
  TornOnlyAtEnd
PROPERTIES
  ImplementsMap
CHECK_DEADLOCK FALSE
