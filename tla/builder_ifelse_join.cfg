SPECIFICATION Spec
CONSTANTS
  Kinds <- AllKinds
  ArrayNames = {"a"}
  CodeAfterReturn = FALSE
  ReturnsVoid = TRUE
  MaxBlocks = 6
  MaxWork = 2
INVARIANTS
  EveryBlockTerminated
CHECK_DEADLOCK FALSE
