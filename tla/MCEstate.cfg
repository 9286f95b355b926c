SPECIFICATION Spec
CONSTANTS
  None = None
  Operators = {o1, o2}
  Estates = {e1, e2}
  Generations = {g1, g2}
  Batches = 2
  Retain = 0
  Promoting <- Always
  PrunesAlone = TRUE
SYMMETRY Alike
INVARIANTS
  TypeOK
  SelectedIsIntact
  SelectedLabelIsTrue
  NoOrphanRows
  RetentionIsBounded
PROPERTIES
  ImplementsRegister
