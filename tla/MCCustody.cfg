SPECIFICATION Spec
CONSTANTS
  Units = {u1, u2}
  MaxAttempts = 3
  Materialized = {u1}
  Answers <- MCAnswers
  CallCap = 4
  CostCap = 4
  Reserve = 1
  UnpricedCap = 0
  Faults <- AllFaults
  Inspections <- Maybe
  MaxCrashes = 2
INVARIANTS
  TypeOK
  SingleDispatch
  NothingBoughtAfterVerdict
  FinalRecordsAreSound
  AccountsMatchJournal
PROPERTIES
  ImplementsPaidWork
  InspectionIsInert
CHECK_DEADLOCK FALSE
