SPECIFICATION Spec
CONSTANTS
  Programs <- ReturnPrograms
  Nodes <- MCNodes
  Inputs <- MCInputs
INVARIANTS
  EmittedWellTyped
