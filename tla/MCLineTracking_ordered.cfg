SPECIFICATION Spec
CONSTANTS
  N = 4
  Scopes = {s1, s2}
  Lines = {1, 2}
  NoScope = noScope
  NoLine = 0
  Functions <- MCFunctions
INVARIANTS
  RoundTrip
  BlocksStayOrdered
