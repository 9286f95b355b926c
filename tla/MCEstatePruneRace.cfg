SPECIFICATION Spec
CONSTANTS
  None = None
  Operators = {o1, o2}
  Estates = {e1}
  Generations = {g1, g2, g3}
  Batches = 1
  Retain = 1
  Promoting <- Always
  PrunesAlone = FALSE
SYMMETRY Alike
INVARIANTS
  SelectedIsIntact
