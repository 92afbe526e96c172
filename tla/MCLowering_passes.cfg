CONSTANTS
  Programs <- MCPrograms
  IntWidth = 6
  Poison = Poison
  Unbound = Unbound
  NaN = NaN
  NegZero = NegZero
SPECIFICATION Spec
INVARIANTS NothingDangling MeaningKept RegularForm
CHECK_DEADLOCK FALSE
