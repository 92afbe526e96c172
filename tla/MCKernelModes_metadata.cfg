SPECIFICATION Spec
CONSTANTS
  Cases <- MCCases
INVARIANTS
  MetadataArrives
  ModesSettled
  RewriteStable
PROPERTIES
  ContractionCloses
  Terminates
CHECK_DEADLOCK FALSE
