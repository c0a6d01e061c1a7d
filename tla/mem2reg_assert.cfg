SPECIFICATION RunSpec
CONSTANTS
  NBlocks = 6
  VarNames = {"x"}
  Blocks <- MCBlocks
  Entry <- MCEntry
  Vars <- VarNames
  Programs <- SetOnly
INVARIANT AssertHolds
