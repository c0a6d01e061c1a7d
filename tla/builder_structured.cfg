SPECIFICATION Spec
CONSTANTS
  Kinds <- Structured
  ArrayNames = {"a"}
  CodeAfterReturn = FALSE
  ReturnsVoid = TRUE
  MaxBlocks = 10
  MaxWork = 4
INVARIANTS
  EveryBlockTerminated
  SingleTerminator
  EveryBlockReachesReturn
CHECK_DEADLOCK FALSE
