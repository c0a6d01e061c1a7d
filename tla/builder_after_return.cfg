SPECIFICATION Spec
CONSTANTS
  Kinds <- Structured
  ArrayNames = {"a"}
  CodeAfterReturn = TRUE
  ReturnsVoid = TRUE
  MaxBlocks = 6
  MaxWork = 3
INVARIANTS
  SingleTerminator
CHECK_DEADLOCK FALSE
