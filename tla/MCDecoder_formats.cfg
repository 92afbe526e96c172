CONSTANTS
    Subjects <- MCSubjects
    CutSubjects <- MCCutSubjects
    MaxWordCount = 6
SPECIFICATION Spec
INVARIANTS
    InStep
    RoundTrip
    AcceptedIffWhole
PROPERTY ParseEnds
