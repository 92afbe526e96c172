--------------------------- MODULE FeaturesProofs ---------------------------
(***************************************************************************)
(* Proofs about Features for all tables of capabilities and extensions,    *)
(* all constructs and all options.                                         *)
(***************************************************************************)
EXTENDS Features, TLAPS

(***************************************************************************)
(* The version only moves below the limit, and a versioned triple leaves   *)
(* it no room to move.                                                     *)
(***************************************************************************)
VersionsOK ==
  /\ SPIRVVersion <= MaxVersion
  /\ MaxVersion <= opts.max
  /\ opts.triple \in Versions /\ status \in {"open", "written"} =>
       SPIRVVersion = opts.triple /\ MaxVersion = opts.triple

ExtensionsOK ==
  \A x \in SPIRVExt : x \in opts.allowed \/ \E y \in SPIRVExt \cap opts.allowed : x \in Companion[y]

(***************************************************************************)
(* As long as no check has failed, everything emitted is declared: a later *)
(* "written" rests on it.                                                  *)
(***************************************************************************)
CapsDeclared ==
  \A k \in CapMap : CapVer[k] <= SPIRVVersion /\ CapExt[k] \in SPIRVExt \cup {NoExt}

DeclaredOK ==
  ErrorCode = "Success" => CapsDeclared /\ \A c \in emitted : Declared(c)

StatusOK ==
  /\ status = "created" => ErrorCode = "Success" /\ CapMap = {} /\ emitted = {}
  /\ status = "written" => ErrorCode = "Success"
  /\ status \in {"failed", "exited"} => ErrorCode # "Success"

(***************************************************************************)
(* The log is right about what was translated so far.  The capabilities    *)
(* need a part of their own: addCapability returns early for one it has.   *)
(***************************************************************************)
CapsAllowed ==
  \A k \in CapMap : ~(CapVer[k] > MaxVersion) /\ CapExt[k] \in opts.allowed \cup {NoExt}

ErrorOK ==
  /\ ErrorCode = "Success" => CapsAllowed /\ \A c \in emitted : ~TooNew(c) /\ ~NotAllowed(c)
  /\ ErrorCode = "RequiresVersion" => \E c \in emitted : TooNew(c)
  /\ ErrorCode = "RequiresExtension" => \E c \in emitted : NotAllowed(c)
  /\ ErrorCode = "TripleMaxVersionIncompatible" => opts.triple \in Versions /\ opts.triple > opts.max
  /\ ErrorCode = "InvalidSubArch" => opts.triple = OtherSubArch
  /\ ErrorCode = "InvalidTargetTriple" => opts.triple = Unsupported

FeaturesInv == TypeOK /\ VersionsOK /\ ExtensionsOK /\ DeclaredOK /\ StatusOK /\ ErrorOK

-----------------------------------------------------------------------------
(* Before translation nothing is declared and nothing has failed. *)
LEMMA InitFeaturesInv == Init => FeaturesInv
<1> SUFFICES ASSUME Init PROVE FeaturesInv
  OBVIOUS
<1>0. opts \in OptionType /\ opts.max \in Nat /\ opts.max \in Versions /\ 0 \in Versions
  BY MaxKnownAssumption, InputsAssumption DEF Init, OptionType, Versions
<1>1. TypeOK
  BY <1>0 DEF Init, TypeOK, ErrorCodes
<1>2. VersionsOK /\ StatusOK
  BY <1>0 DEF Init, VersionsOK, StatusOK
<1>3. ExtensionsOK /\ DeclaredOK /\ ErrorOK
  BY DEF Init, ExtensionsOK, DeclaredOK, CapsDeclared, ErrorOK, CapsAllowed
<1> QED
  BY <1>1, <1>2, <1>3 DEF FeaturesInv

(* setMinSPIRVVersion: up, never past the limit, and to every version the limit admits. *)
LEMMA RaiseVersionFacts ==
  ASSUME NEW vs \in SUBSET Versions, TypeOK, SPIRVVersion <= MaxVersion, RaiseVersion(vs)
  PROVE  /\ SPIRVVersion' \in Versions
         /\ SPIRVVersion <= SPIRVVersion'
         /\ SPIRVVersion' <= MaxVersion
         /\ \A v \in vs : v <= MaxVersion => v <= SPIRVVersion'
<1> DEFINE reached == {SPIRVVersion} \cup {v \in vs : v <= MaxVersion}
<1>1. SPIRVVersion' \in reached /\ \A w \in reached : w <= SPIRVVersion'
  BY DEF RaiseVersion
<1>2. SPIRVVersion \in Versions /\ MaxVersion \in Versions
  BY DEF TypeOK
<1> QED
  BY <1>1, <1>2

(* What the writer does for one entry, whatever the entry needs. *)
LEMMA AddEntryFacts ==
  ASSUME NEW vs \in SUBSET Versions, NEW cs \in SUBSET Caps, NEW xs \in SUBSET (Exts \cup {NoExt}),
         FeaturesInv, status = "open", AddEntry(vs, cs, xs), UNCHANGED <<opts, MaxVersion>>
  PROVE  /\ SPIRVVersion' \in Versions /\ CapMap' \subseteq Caps /\ SPIRVExt' \subseteq Exts
         /\ ErrorCode' \in ErrorCodes /\ status' \in {"open", "exited"}
         /\ (VersionsOK /\ ExtensionsOK /\ StatusOK)'
         /\ SPIRVVersion <= SPIRVVersion' /\ CapMap \subseteq CapMap' /\ SPIRVExt \subseteq SPIRVExt'
         /\ ErrorCode' = "Success" =>
              /\ ErrorCode = "Success"
              /\ Closure(cs) \subseteq CapMap'
              /\ \A v \in vs : v <= SPIRVVersion'
              /\ xs \subseteq SPIRVExt' \cup {NoExt}
              /\ CapsDeclared'
         /\ ErrorCode' = "Success" =>
              /\ \A v \in vs : ~(v > MaxVersion)
              /\ xs \subseteq opts.allowed \cup {NoExt}
              /\ CapsAllowed'
         /\ ErrorCode' # ErrorCode =>
              \/ /\ ErrorCode' = "RequiresVersion"
                 /\ (\E v \in vs : v > MaxVersion) \/ \E k \in Closure(cs) : CapVer[k] > MaxVersion
              \/ /\ ErrorCode' = "RequiresExtension"
                 /\ \/ \E x \in xs : x \notin opts.allowed \cup {NoExt}
                    \/ \E k \in Closure(cs) : CapExt[k] \notin opts.allowed \cup {NoExt}
<1> DEFINE new  == Closure(cs) \ CapMap
           vers == vs \cup {CapVer[c] : c \in new}
           exts == (xs \cup {CapExt[c] : c \in new}) \ {NoExt}
<1>0. TypeOK /\ VersionsOK /\ ExtensionsOK /\ StatusOK
  BY DEF FeaturesInv
<1>1. /\ RaiseVersion(vers) /\ AddExtensions(exts) /\ CapMap' = CapMap \cup new
      /\ CheckError(TooHigh(vers) \cup Disallowed(exts))
  BY DEF AddEntry
<1>2. new \subseteq Caps /\ vers \in SUBSET Versions /\ exts \subseteq Exts
  BY TablesAssumption DEF Closure
<1>3. /\ SPIRVVersion' \in Versions /\ SPIRVVersion <= SPIRVVersion' /\ SPIRVVersion' <= MaxVersion
      /\ \A v \in vers : v <= MaxVersion => v <= SPIRVVersion'
  <2> HIDE DEF vers
  <2> QED BY <1>0, <1>1, <1>2, RaiseVersionFacts DEF VersionsOK
<1>4. /\ SPIRVExt' \subseteq Exts /\ SPIRVExt \subseteq SPIRVExt'
      /\ exts \cap opts.allowed \subseteq SPIRVExt'
      /\ \A x \in SPIRVExt' \ SPIRVExt : x \in opts.allowed \/
           \E y \in exts \cap opts.allowed : x \in Companion[y]
  <2> HIDE DEF exts
  <2> QED BY <1>0, <1>1, <1>2, TablesAssumption DEF AddExtensions, TypeOK
<1>5. /\ ErrorCode' \in ErrorCodes /\ status' \in {"open", "exited"}
      /\ status' = "exited" => ErrorCode' # "Success"
      /\ ErrorCode' # ErrorCode => ErrorCode' \in TooHigh(vers) \cup Disallowed(exts)
      /\ ErrorCode' = "Success" =>
           ErrorCode = "Success" /\ TooHigh(vers) = {} /\ Disallowed(exts) = {}
  <2> DEFINE codes == TooHigh(vers) \cup Disallowed(exts)
  <2>1. codes \subseteq {"RequiresVersion", "RequiresExtension"}
    BY DEF TooHigh, Disallowed
  <2> HIDE DEF codes
  <2>2. CheckError(codes)
    BY <1>1 DEF codes
  <2>3. /\ ErrorCode' \in ErrorCodes /\ status' \in {"open", "exited"}
        /\ status' = "exited" => ErrorCode' # "Success"
        /\ ErrorCode' # ErrorCode => ErrorCode' \in codes
        /\ ErrorCode' = "Success" => ErrorCode = "Success" /\ codes = {}
    BY <1>0, <2>1, <2>2 DEF CheckError, TypeOK, ErrorCodes
  <2> QED BY <2>3 DEF codes
<1>6. VersionsOK'
  <2>1. /\ SPIRVVersion \in Nat /\ SPIRVVersion' \in Nat /\ MaxVersion' = MaxVersion /\ opts' = opts
        /\ MaxVersion \in Nat
    BY <1>0, <1>3, MaxKnownAssumption DEF TypeOK, Versions
  <2> QED BY <1>0, <1>3, <1>5, <2>1 DEF VersionsOK
<1>7. ExtensionsOK'
  <2> HIDE DEF exts
  <2> QED BY <1>0, <1>4 DEF ExtensionsOK
<1>8. StatusOK'
  BY <1>5 DEF StatusOK
<1>9. ASSUME ErrorCode' = "Success"
      PROVE  /\ Closure(cs) \subseteq CapMap'
             /\ \A v \in vs : v <= SPIRVVersion'
             /\ xs \subseteq SPIRVExt' \cup {NoExt}
             /\ CapsDeclared'
             /\ \A v \in vs : ~(v > MaxVersion)
             /\ xs \subseteq opts.allowed \cup {NoExt}
             /\ CapsAllowed'
  <2>1. (\A v \in vers : ~(v > MaxVersion)) /\ exts \subseteq opts.allowed
    BY <1>5, <1>9 DEF TooHigh, Disallowed
  <2>2. \A v \in vers : v <= SPIRVVersion'
    <3>1. \A v \in vers : v <= MaxVersion
      <4> HIDE DEF vers
      <4> QED BY <1>0, <1>2, <2>1, MaxKnownAssumption DEF TypeOK, Versions
    <3> QED BY <1>3, <3>1
  <2>3. exts \subseteq SPIRVExt'
    BY <1>4, <2>1
  <2>4. CapsDeclared
    BY <1>5, <1>9 DEF FeaturesInv, DeclaredOK
  <2>5. \A k \in new : CapVer[k] <= SPIRVVersion' /\ CapExt[k] \in SPIRVExt' \cup {NoExt}
    BY <2>2, <2>3
  <2>6. \A k \in CapMap : CapVer[k] <= SPIRVVersion' /\ CapExt[k] \in SPIRVExt' \cup {NoExt}
    <3>1. \A k \in CapMap : CapVer[k] \in Nat /\ CapVer[k] <= SPIRVVersion
      BY <1>0, <2>4, TablesAssumption, MaxKnownAssumption DEF CapsDeclared, TypeOK, Versions
    <3>2. SPIRVVersion \in Nat /\ SPIRVVersion' \in Nat
      BY <1>0, <1>3, MaxKnownAssumption DEF TypeOK, Versions
    <3> QED BY <1>3, <1>4, <2>4, <3>1, <3>2 DEF CapsDeclared
  <2>7. CapsDeclared'
    BY <1>1, <2>5, <2>6 DEF CapsDeclared
  <2>8. CapsAllowed'
    <3>1. CapsAllowed
      BY <1>5, <1>9 DEF FeaturesInv, ErrorOK
    <3>2. \A k \in new : ~(CapVer[k] > MaxVersion) /\ CapExt[k] \in opts.allowed \cup {NoExt}
      BY <2>1
    <3> QED BY <1>1, <3>1, <3>2 DEF CapsAllowed
  <2> QED BY <1>1, <2>1, <2>2, <2>3, <2>7, <2>8
<1>10. ASSUME ErrorCode' # ErrorCode
       PROVE  \/ /\ ErrorCode' = "RequiresVersion"
                 /\ (\E v \in vs : v > MaxVersion) \/ \E k \in Closure(cs) : CapVer[k] > MaxVersion
              \/ /\ ErrorCode' = "RequiresExtension"
                 /\ \/ \E x \in xs : x \notin opts.allowed \cup {NoExt}
                    \/ \E k \in Closure(cs) : CapExt[k] \notin opts.allowed \cup {NoExt}
  <2>1. CASE ErrorCode' \in TooHigh(vers)
    <3>1. ErrorCode' = "RequiresVersion" /\ \E v \in vers : v > MaxVersion
      BY <2>1 DEF TooHigh
    <3> QED BY <3>1
  <2>2. CASE ErrorCode' \in Disallowed(exts)
    <3>1. ErrorCode' = "RequiresExtension" /\ \E x \in exts : x \notin opts.allowed
      BY <2>2 DEF Disallowed
    <3> QED BY <3>1
  <2> QED BY <1>5, <1>10, <2>1, <2>2
<1> QED
  BY <1>0, <1>1, <1>2, <1>3, <1>4, <1>5, <1>6, <1>7, <1>8, <1>9, <1>10 DEF TypeOK

(***************************************************************************)
(* An entry that was declared stays declared: capabilities, extensions and *)
(* the version only grow.                                                  *)
(***************************************************************************)
LEMMA DeclaredGrows ==
  ASSUME NEW c \in Constructs, FeaturesInv, Declared(c), SPIRVVersion' \in Versions,
         SPIRVVersion <= SPIRVVersion', CapMap \subseteq CapMap', SPIRVExt \subseteq SPIRVExt'
  PROVE  Declared(c)'
<1>1. c.ver \in Nat /\ SPIRVVersion \in Nat /\ SPIRVVersion' \in Nat
  BY MaxKnownAssumption, InputsAssumption DEF FeaturesInv, TypeOK, ConstructType, Versions
<1>2. c.ver <= SPIRVVersion => c.ver <= SPIRVVersion'
  BY <1>1
<1> QED
  BY <1>2 DEF Declared, Closure

(* The version and the extension that a construct asks for. *)
Needs(c, vs, xs) ==
  /\ vs = IF ByVersion(c) THEN {c.ver} ELSE {}
  /\ xs = IF ByExtension(c) THEN {c.ext} ELSE {}

(* One construct: what it needs is declared, what was declared stays so. *)
LEMMA EmitKeeps ==
  ASSUME NEW c \in Constructs, NEW vs \in SUBSET Versions, NEW xs \in SUBSET (Exts \cup {NoExt}),
         FeaturesInv, status = "open", AddEntry(vs, c.caps, xs),
         emitted' = emitted \cup {c}, UNCHANGED <<opts, MaxVersion>>,
         Needs(c, vs, xs)
  PROVE  FeaturesInv'
<1>1. c.caps \in SUBSET Caps /\ c.ver \in Versions
  BY InputsAssumption DEF ConstructType
<1>2. TypeOK
  BY DEF FeaturesInv
<1>3. /\ SPIRVVersion' \in Versions /\ CapMap' \subseteq Caps /\ SPIRVExt' \subseteq Exts
      /\ ErrorCode' \in ErrorCodes /\ status' \in {"open", "exited"}
      /\ (VersionsOK /\ ExtensionsOK /\ StatusOK)'
      /\ SPIRVVersion <= SPIRVVersion' /\ CapMap \subseteq CapMap' /\ SPIRVExt \subseteq SPIRVExt'
      /\ ErrorCode' = "Success" =>
           /\ ErrorCode = "Success"
           /\ Closure(c.caps) \subseteq CapMap'
           /\ \A v \in vs : v <= SPIRVVersion'
           /\ xs \subseteq SPIRVExt' \cup {NoExt}
           /\ CapsDeclared'
      /\ ErrorCode' = "Success" =>
           /\ \A v \in vs : ~(v > MaxVersion)
           /\ xs \subseteq opts.allowed \cup {NoExt}
           /\ CapsAllowed'
      /\ ErrorCode' # ErrorCode =>
           \/ /\ ErrorCode' = "RequiresVersion"
              /\ (\E v \in vs : v > MaxVersion) \/ \E k \in Closure(c.caps) : CapVer[k] > MaxVersion
           \/ /\ ErrorCode' = "RequiresExtension"
              /\ \/ \E x \in xs : x \notin opts.allowed \cup {NoExt}
                 \/ \E k \in Closure(c.caps) : CapExt[k] \notin opts.allowed \cup {NoExt}
  BY <1>1, AddEntryFacts
<1>4. TypeOK'
  BY <1>2, <1>3 DEF TypeOK
<1>5. DeclaredOK'
  <2> SUFFICES ASSUME ErrorCode' = "Success"
               PROVE  CapsDeclared' /\ \A d \in emitted' : Declared(d)'
    BY DEF DeclaredOK
  <2>1. \A d \in emitted : Declared(d)'
    BY <1>2, <1>3, DeclaredGrows DEF TypeOK, FeaturesInv, DeclaredOK
  <2>2. Declared(c)'
    <3>1. c.policy = "requires" => c.ver \in vs /\ c.ext \in xs
      BY DEF Needs, ByVersion, ByExtension
    <3>2. c.ver \in vs \/ c.ext \in xs
      BY <1>1, <1>2, MaxKnownAssumption DEF Needs, ByVersion, ByExtension, Versions, TypeOK
    <3> QED BY <1>3, <3>1, <3>2 DEF Declared, Closure
  <2> QED BY <1>3, <2>1, <2>2
<1>6. ErrorOK'
  <2>1. opts' = opts /\ MaxVersion' = MaxVersion /\ ErrorOK
    BY DEF FeaturesInv
  <2>2. \A d \in Constructs : (TooNew(d)' <=> TooNew(d)) /\ (NotAllowed(d)' <=> NotAllowed(d))
    BY <2>1 DEF TooNew, NotAllowed, ByVersion, ByExtension, Closure
  <2>3. CASE ErrorCode' = "Success"
    <3>1. ~TooNew(c)
      <4>1. \A k \in Closure(c.caps) : ~(CapVer[k] > MaxVersion)
        BY <1>3, <2>1, <2>3 DEF CapsAllowed
      <4> QED BY <1>3, <2>3, <4>1 DEF TooNew, Needs
    <3>2. ~NotAllowed(c)
      <4>1. \A k \in Closure(c.caps) : CapExt[k] \in opts.allowed \cup {NoExt}
        BY <1>3, <2>1, <2>3 DEF CapsAllowed
      <4> QED BY <1>3, <2>3, <4>1 DEF NotAllowed, Needs
    <3> QED BY <1>2, <1>3, <2>1, <2>2, <2>3, <3>1, <3>2 DEF ErrorOK, TypeOK
  <2>4. CASE ErrorCode' # "Success" /\ ErrorCode' = ErrorCode
    BY <1>2, <2>1, <2>2, <2>4 DEF ErrorOK, TypeOK
  <2>5. CASE ErrorCode' # ErrorCode
    <3>1. CASE ErrorCode' = "RequiresVersion"
      <4>1. TooNew(c)
        BY <1>3, <2>5, <3>1 DEF TooNew, Needs
      <4> QED BY <2>2, <3>1, <4>1 DEF ErrorOK
    <3>2. CASE ErrorCode' = "RequiresExtension"
      <4>1. NotAllowed(c)
        BY <1>3, <2>5, <3>2 DEF NotAllowed, Needs
      <4> QED BY <2>2, <3>2, <4>1 DEF ErrorOK
    <3> QED BY <1>3, <2>5, <3>1, <3>2
  <2> QED BY <2>3, <2>4, <2>5
<1> QED
  BY <1>3, <1>4, <1>5, <1>6 DEF FeaturesInv

(* The checks before translation and the choice of the version. *)
LEMMA OpenKeeps == ASSUME FeaturesInv, Open PROVE FeaturesInv'
<1>1. /\ opts \in OptionType /\ opts' = opts /\ status = "created"
      /\ UNCHANGED <<CapMap, SPIRVExt, emitted>>
      /\ opts.max \in Versions /\ opts.triple \in Triples
  BY DEF FeaturesInv, TypeOK, Open, OptionType
<1>2. /\ SPIRVVersion \in Nat /\ MaxVersion \in Nat /\ opts.max \in Nat /\ opts.max <= MaxKnown
      /\ opts.triple \in Nat /\ MaxKnown \in Versions
      /\ NoTriple \notin Versions /\ OtherSubArch \notin Versions /\ Unsupported \notin Versions
      /\ NoTriple # OtherSubArch /\ NoTriple # Unsupported /\ OtherSubArch # Unsupported
  BY <1>1, MaxKnownAssumption
     DEF FeaturesInv, TypeOK, Versions, Triples, NoTriple, OtherSubArch, Unsupported
<1>3. ErrorCode = "Success" /\ CapMap' = {} /\ emitted' = {}
  BY <1>1 DEF FeaturesInv, StatusOK
<1>4. (ExtensionsOK /\ DeclaredOK)'
  BY <1>1, <1>3 DEF FeaturesInv, ExtensionsOK, DeclaredOK, CapsDeclared
<1>5. ASSUME NEW code \in ErrorCodes \ {"Success"}, Refuse(code)
      PROVE  (TypeOK /\ VersionsOK /\ StatusOK)' /\ ErrorCode' = code
  <2>1. /\ ErrorCode' = code /\ status' \in {"failed", "exited"}
        /\ SPIRVVersion' = SPIRVVersion /\ MaxVersion' = MaxVersion
    BY <1>5 DEF Refuse
  <2> QED BY <1>1, <2>1 DEF FeaturesInv, TypeOK, VersionsOK, StatusOK
<1>6. CASE opts.triple = Unsupported
  <2>1. Refuse("InvalidTargetTriple")
    BY <1>2, <1>6 DEF Open
  <2>2. (TypeOK /\ VersionsOK /\ StatusOK)' /\ ErrorCode' = "InvalidTargetTriple"
    BY <1>5, <2>1 DEF ErrorCodes
  <2> QED BY <1>1, <1>4, <1>6, <2>2 DEF FeaturesInv, ErrorOK
<1>7. CASE opts.triple = NoTriple
  <2>1. status' = "open" /\ UNCHANGED <<SPIRVVersion, MaxVersion, ErrorCode>>
    BY <1>2, <1>7 DEF Open
  <2>2. (TypeOK /\ VersionsOK /\ StatusOK)'
    BY <1>1, <1>2, <1>3, <1>7, <2>1 DEF FeaturesInv, TypeOK, VersionsOK, StatusOK
  <2> QED BY <1>3, <1>4, <2>1, <2>2 DEF FeaturesInv, ErrorOK, CapsAllowed
<1>8. CASE opts.triple = OtherSubArch /\ (opts.exits \/ TripleVersion > opts.max)
  <2>1. Refuse("InvalidSubArch")
    BY <1>2, <1>8 DEF Open
  <2>2. (TypeOK /\ VersionsOK /\ StatusOK)' /\ ErrorCode' = "InvalidSubArch"
    BY <1>5, <2>1 DEF ErrorCodes
  <2> QED BY <1>1, <1>4, <1>8, <2>2 DEF FeaturesInv, ErrorOK
<1>9. CASE opts.triple \in Versions /\ TripleVersion > opts.max
  <2>1. Refuse("TripleMaxVersionIncompatible")
    BY <1>2, <1>9 DEF Open
  <2>2. (TypeOK /\ VersionsOK /\ StatusOK)' /\ ErrorCode' = "TripleMaxVersionIncompatible"
    BY <1>5, <2>1 DEF ErrorCodes
  <2>3. opts.triple > opts.max
    BY <1>2, <1>9 DEF TripleVersion
  <2> QED BY <1>1, <1>4, <1>9, <2>2, <2>3 DEF FeaturesInv, ErrorOK
<1>10. CASE /\ opts.triple \in Versions \cup {OtherSubArch} /\ ~(TripleVersion > opts.max)
            /\ opts.triple = OtherSubArch => ~opts.exits
  <2>1. /\ SPIRVVersion' = TripleVersion /\ MaxVersion' = TripleVersion /\ status' = "open"
        /\ ErrorCode' = IF opts.triple = OtherSubArch THEN "InvalidSubArch" ELSE ErrorCode
    BY <1>2, <1>10 DEF Open
  <2>2. TripleVersion \in Versions /\ TripleVersion \in Nat /\ TripleVersion <= opts.max
    BY <1>2, <1>10, MaxKnownAssumption DEF TripleVersion, Versions
  <2>3. (TypeOK /\ VersionsOK /\ StatusOK)'
    <3>1. TypeOK'
      BY <1>1, <2>1, <2>2 DEF FeaturesInv, TypeOK, ErrorCodes
    <3>2. VersionsOK'
      BY <1>1, <1>2, <2>1, <2>2 DEF VersionsOK, TripleVersion
    <3> QED BY <2>1, <3>1, <3>2 DEF StatusOK
  <2>4. ErrorOK'
    BY <1>1, <1>3, <2>1 DEF ErrorOK, CapsAllowed
  <2> QED BY <1>4, <2>3, <2>4 DEF FeaturesInv
<1> QED BY <1>1, <1>6, <1>7, <1>8, <1>9, <1>10 DEF Triples

(* Every step keeps the invariant. *)
LEMMA NextFeaturesInv == FeaturesInv /\ [Next]_vars => FeaturesInv'
<1> SUFFICES ASSUME FeaturesInv, [Next]_vars PROVE FeaturesInv'
  OBVIOUS
<1>1. CASE Open
  BY <1>1, OpenKeeps
<1>2. ASSUME NEW c \in Constructs, Requires(c) PROVE FeaturesInv'
  <2>1. {c.ver} \in SUBSET Versions /\ {c.ext} \in SUBSET (Exts \cup {NoExt})
    BY InputsAssumption DEF ConstructType
  <2>2. ByVersion(c) /\ ByExtension(c)
    BY <1>2 DEF Requires, ByVersion, ByExtension
  <2> QED BY <1>2, <2>1, <2>2, EmitKeeps DEF Requires, Needs
<1>3. ASSUME NEW c \in Constructs, Either(c) PROVE FeaturesInv'
  <2>1. {c.ver} \in SUBSET Versions /\ {c.ext} \in SUBSET (Exts \cup {NoExt})
    BY InputsAssumption DEF ConstructType
  <2>2. c.policy = "either" /\ status = "open" /\ emitted' = emitted \cup {c} /\ UNCHANGED <<opts, MaxVersion>>
    BY <1>3 DEF Either
  <2>3. AddEntry(IF ByVersion(c) THEN {c.ver} ELSE {}, c.caps, IF ByExtension(c) THEN {c.ext} ELSE {})
    <3>1. c.ver \in Nat /\ MaxVersion \in Nat
      BY InputsAssumption, MaxKnownAssumption DEF ConstructType, FeaturesInv, TypeOK, Versions
    <3>2. CASE c.ver <= MaxVersion
      BY <1>3, <2>2, <3>1, <3>2 DEF Either, ByVersion, ByExtension
    <3>3. CASE ~(c.ver <= MaxVersion)
      BY <1>3, <2>2, <3>1, <3>3 DEF Either, ByVersion, ByExtension
    <3> QED BY <3>2, <3>3
  <2> QED BY <2>1, <2>2, <2>3, EmitKeeps DEF Needs
<1>4. ASSUME NEW c \in Constructs, Optional(c) PROVE FeaturesInv'
  <2>1. {c.ver} \in SUBSET Versions /\ {c.ext} \in SUBSET (Exts \cup {NoExt})
    BY InputsAssumption DEF ConstructType
  <2>2. c.policy = "optional" /\ status = "open" /\ emitted' = emitted \cup {c} /\ UNCHANGED <<opts, MaxVersion>>
    BY <1>4 DEF Optional
  <2>3. AddEntry(IF ByVersion(c) THEN {c.ver} ELSE {}, c.caps, IF ByExtension(c) THEN {c.ext} ELSE {})
    <3>1. c.ver \in Nat /\ MaxVersion \in Nat
      BY InputsAssumption, MaxKnownAssumption DEF ConstructType, FeaturesInv, TypeOK, Versions
    <3>2. CASE c.ver <= MaxVersion
      BY <1>4, <2>2, <3>1, <3>2 DEF Optional, ByVersion, ByExtension
    <3>3. CASE ~(c.ver <= MaxVersion)
      BY <1>4, <2>2, <3>1, <3>3 DEF Optional, ByVersion, ByExtension
    <3> QED BY <3>2, <3>3
  <2> QED BY <2>1, <2>2, <2>3, EmitKeeps DEF Needs
<1>5. CASE Finish
  <2>1. /\ status = "open" /\ status' = IF ErrorCode = "Success" THEN "written" ELSE "failed"
        /\ UNCHANGED <<opts, SPIRVVersion, MaxVersion, CapMap, SPIRVExt, ErrorCode, emitted>>
    BY <1>5 DEF Finish
  <2>2. (TypeOK /\ VersionsOK /\ ExtensionsOK /\ StatusOK)'
    BY <2>1 DEF FeaturesInv, TypeOK, VersionsOK, ExtensionsOK, StatusOK
  <2>3. DeclaredOK'
    BY <2>1 DEF FeaturesInv, DeclaredOK, CapsDeclared, Declared, Closure
  <2>4. ErrorOK'
    BY <2>1 DEF FeaturesInv, ErrorOK, CapsAllowed, TooNew, NotAllowed, ByVersion, ByExtension, Closure
  <2> QED BY <2>2, <2>3, <2>4 DEF FeaturesInv
<1>6. CASE UNCHANGED vars
  BY <1>6 DEF vars, FeaturesInv, TypeOK, VersionsOK, ExtensionsOK, StatusOK, DeclaredOK, CapsDeclared,
              Declared, Closure, ErrorOK, CapsAllowed, TooNew, NotAllowed, ByVersion, ByExtension
<1> QED
  BY <1>1, <1>2, <1>3, <1>4, <1>5, <1>6 DEF Next, Ended

-----------------------------------------------------------------------------
(* The invariant holds in every state of the specification. *)
LEMMA FeaturesInvariant == Spec => []FeaturesInv
  BY InitFeaturesInv, NextFeaturesInv, PTL DEF Spec

(***************************************************************************)
(* The version, capabilities, extensions and error code of a module stay   *)
(* in their types while runSpirvWriterPasses works on it.                  *)
(***************************************************************************)
THEOREM FeaturesTypeCorrect == Spec => []TypeOK
<1>1. FeaturesInv => TypeOK
  BY DEF FeaturesInv
<1> QED
  BY <1>1, FeaturesInvariant, PTL

(***************************************************************************)
(* A module that is written declares all its entries need, for any tables  *)
(* of implied capabilities and in any order of addEntry and addCapability. *)
(***************************************************************************)
THEOREM FeaturesDeclaresAll == Spec => []DeclaresAll
<1>1. FeaturesInv => DeclaresAll
  BY DEF FeaturesInv, StatusOK, DeclaredOK, CapsDeclared, DeclaresAll
<1> QED
  BY <1>1, FeaturesInvariant, PTL

(***************************************************************************)
(* A module that is written is at the version of its triple, at most at    *)
(* the maximum version, and declares only extensions allowed to it.        *)
(***************************************************************************)
THEOREM FeaturesWithinLimits == Spec => []WithinLimits
<1>1. FeaturesInv => WithinLimits
  <2> SUFFICES ASSUME FeaturesInv PROVE WithinLimits
    OBVIOUS
  <2>1. SPIRVVersion \in Nat /\ MaxVersion \in Nat /\ opts.max \in Nat
    BY MaxKnownAssumption DEF FeaturesInv, TypeOK, OptionType, Versions
  <2>2. SPIRVVersion <= opts.max
    BY <2>1 DEF FeaturesInv, VersionsOK
  <2> QED BY <2>2 DEF FeaturesInv, VersionsOK, ExtensionsOK, WithinLimits
<1> QED
  BY <1>1, FeaturesInvariant, PTL

(***************************************************************************)
(* Whether runSpirvWriterPasses writes a module, and the error it reports  *)
(* when it does not, follow from what is in the module and the limits, for *)
(* any tables and any order of addEntry and addCapability.                 *)
(***************************************************************************)
THEOREM FeaturesOutcomeJustified == Spec => []OutcomeJustified
<1>1. FeaturesInv => OutcomeJustified
  <2> SUFFICES ASSUME FeaturesInv PROVE OutcomeJustified
    OBVIOUS
  <2>1. status = "written" => \A c \in emitted : ~TooNew(c) /\ ~NotAllowed(c)
    BY DEF FeaturesInv, StatusOK, ErrorOK
  <2>2. status \in {"failed", "exited"} => ErrorCode \in ErrorCodes \ {"Success"}
    BY DEF FeaturesInv, TypeOK, StatusOK
  <2> QED BY <2>1, <2>2 DEF FeaturesInv, ErrorOK, OutcomeJustified, ErrorCodes
<1> QED
  BY <1>1, FeaturesInvariant, PTL
=============================================================================
