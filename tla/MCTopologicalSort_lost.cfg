SPECIFICATION FairSpec
CONSTANTS
  N = 4
  Graphs <- MutualRecursion
INVARIANT LosesNothing
