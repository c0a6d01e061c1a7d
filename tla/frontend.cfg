SPECIFICATION Spec
CONSTANTS
  Programs <- MCPrograms
  Nodes <- MCNodes
  Inputs <- MCInputs
INVARIANTS
  RoundTrip
  OutlineFaithful
  NoAbort
  LvalueFlag
  ScopesAreLexical
  EmittedWellTyped
  OperandsAvailable
  MeaningKept
