SPECIFICATION Spec
CONSTANTS
  WordMod = 4
  Programs <- MCPrograms
INVARIANTS ControlReadable HintsArrive DependencesArrive
