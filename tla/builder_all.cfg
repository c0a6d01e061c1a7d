SPECIFICATION Spec
CONSTANTS
  Kinds <- AllKinds
  ArrayNames = {"a"}
  CodeAfterReturn = TRUE
  ReturnsVoid = FALSE
  MaxBlocks = 9
  MaxWork = 4
INVARIANTS
  TypeOK
  AllReachable
  EdgesMirrored
  LoopHeaderPreds
  LoopsReducible
CHECK_DEADLOCK FALSE
