SPECIFICATION Spec
CONSTANTS
  Values = {v1, v2, v3}
  MaxOps = 2
SYMMETRY Symmetry
INVARIANTS
  TypeOK
  LiveListsExact
PROPERTY Implements
CHECK_DEADLOCK FALSE
