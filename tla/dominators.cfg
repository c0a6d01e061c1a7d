SPECIFICATION PassesSpec
CONSTANTS
  NBlocks = 6
  NSmall = 4
  Blocks <- MCBlocks
  Entry <- MCEntry
  Graphs <- MCGraphs
INVARIANTS
  TypeOK
  NoAbort
  IdomNumberedLater
  DominatorsAreAncestors
  DominatorsCorrect
  SearchTypeOK
  BaseFound
  ComponentsCorrect
  LoopsNatural
  InnermostLoop
  ParentLoopCorrect
PROPERTIES
  IdomOnlyRises
  Terminates
