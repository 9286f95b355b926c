SPECIFICATION Spec
CONSTANTS
  Keys = {k1, k2, k3}
  Losses <- ProcessOnly
  IoErrors = FALSE
  MaxLosses = 2
  MaxQueue = 1
INVARIANTS
  AcknowledgedSurvive
CHECK_DEADLOCK FALSE
