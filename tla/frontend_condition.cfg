SPECIFICATION Spec
CONSTANTS
  Programs <- NegativePrograms
  Nodes <- MCNodes
  Inputs <- MCInputs
INVARIANTS
  MeaningKept
