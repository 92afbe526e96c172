SPECIFICATION Spec
CONSTANTS
  Ids <- MCIds
  Anns <- MCAnns
  NoName = "none"
  Modules <- MCModules
INVARIANTS
  AnnotationsArrive
  RewriteStable
  WritesOnce
