SPECIFICATION Spec
CONSTANTS
  Kinds = {"while"}
  ArrayNames = {}
  CodeAfterReturn = FALSE
  ReturnsVoid = TRUE
  MaxBlocks = 7
  MaxWork = 2
INVARIANTS
  LabelsUnique
CHECK_DEADLOCK FALSE
