SPECIFICATION FairSpec
CONSTANTS
  N = 4
  Graphs <- AllGraphs
INVARIANTS
  OperandsPrecede
  EmittedOnce
  WriterLosesNothing
  DeclaredBeforeUse
PROPERTIES
  Terminates
