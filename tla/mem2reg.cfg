SPECIFICATION FairRunSpec
CONSTANTS
  NBlocks = 5
  VarNames = {"x", "y"}
  Blocks <- MCBlocks
  Entry <- MCEntry
  Vars <- VarNames
  Programs <- MCPrograms
INVARIANTS
  TypeOK
  NoAbort
  SameObservation
  PhisMatchPredecessors
  DefsDominateUses
  StacksRestored
  PrintedNamesUnique
PROPERTY Terminates
