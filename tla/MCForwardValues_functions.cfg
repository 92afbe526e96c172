SPECIFICATION ReadSpec
CONSTANTS
  N = 3
  Args = 1
  Consts = 1
  Programs <- AllFunctions
INVARIANTS
  PointersLive
  IdsConsistent
  OperandsDenote
  AnnotationsResolve
  ReadsBack
