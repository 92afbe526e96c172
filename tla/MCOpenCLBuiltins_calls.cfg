CONSTANTS
    Inputs <- MCInputs
    Versions = {13, 14}
    Pointers <- MCPointers
SPECIFICATION Spec
INVARIANTS
    MeaningKept
    Linkable
CHECK_DEADLOCK FALSE
