SPECIFICATION Spec
CONSTANTS
  Caps <- MCCaps
  Exts <- MCExts
  NoExt = "none"
  MaxKnown = 2
  Implied <- MCImplied
  CapVer <- MCCapVer
  CapExt <- MCCapExt
  Companion <- MCCompanion
  Constructs <- MCConstructs
  Options <- MCOptions
INVARIANTS
  TypeOK
  DeclaresAll
  WithinLimits
  OutcomeJustified
