\* Metadata graphs of every kind of node, in the three instruction sets.
CONSTANTS
  Null = Null
  Garbage = Garbage
  Cases = {"types", "arrays", "classes", "functions", "units", "expressions", "extra"}
  Modules <- MCModules
SPECIFICATION Spec
INVARIANTS
WrittenOnce
MetadataArrives
OwnersKept
PROPERTY TranslationEnds
