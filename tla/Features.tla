------------------------------ MODULE Features ------------------------------
(***************************************************************************)
(* What a SPIR-V module declares it needs: its version, capabilities and   *)
(* extensions, collected while the LLVM module is translated               *)
(* (SPIRVModuleImpl::addCapability, addExtension, setSPIRVVersion,         *)
(* addEntry), under the limits of TranslatorOpts and of the target triple  *)
(* (runSpirvWriterPasses), with the error log that decides whether         *)
(* anything is written (SPIRVErrorLog::checkError).                        *)
(***************************************************************************)
EXTENDS Naturals

CONSTANTS
  Caps,       \* capabilities
  Exts,       \* extensions
  NoExt,      \* no extension is required
  MaxKnown,   \* versions are 0 .. MaxKnown, for 1.0 .. 1.6
  Implied,    \* capability -> those getCapability(Cap) lists
  CapVer,     \* capability -> getRequiredSPIRVVersion
  CapExt,     \* capability -> getRequiredExtension
  Companion,  \* extension -> extensions addExtension adds with it
  Constructs, \* LLVM entities: records [policy, ver, ext, caps]
  Options     \* records [allowed, max, triple, exits]

Versions == 0 .. MaxKnown

(* Triples without a version: no subarch, a subarch that is no version, not SPIR-V. *)
NoTriple == MaxKnown + 1
OtherSubArch == MaxKnown + 2
Unsupported == MaxKnown + 3
Triples == Versions \cup {NoTriple, OtherSubArch, Unsupported}

(***************************************************************************)
(* requires  an entry that needs its version, capabilities and extension   *)
(* either    an entry that needs the extension only where its version is   *)
(*           not allowed (OpSDotKHR)                                       *)
(* optional  translated with the version or else the extension, dropped    *)
(*           when neither is allowed (nsw and nuw)                         *)
(***************************************************************************)
Policies == {"requires", "either", "optional"}

ConstructType == [policy : Policies, ver : Versions, ext : Exts \cup {NoExt}, caps : SUBSET Caps]
OptionType == [allowed : SUBSET Exts, max : Versions, triple : Triples, exits : BOOLEAN]

ASSUME MaxKnownAssumption == MaxKnown \in Nat
ASSUME NoExtAssumption == NoExt \notin Exts
ASSUME TablesAssumption ==
  /\ Implied \in [Caps -> SUBSET Caps]
  /\ CapVer \in [Caps -> Versions]
  /\ CapExt \in [Caps -> Exts \cup {NoExt}]
  /\ Companion \in [Exts -> SUBSET Exts]
ASSUME InputsAssumption == Constructs \subseteq ConstructType /\ Options \subseteq OptionType

VARIABLES
  opts,          \* TranslatorOpts and the triple of the module (constant)
  status,        \* "created", "open", then "written", "failed" or "exited"
  SPIRVVersion,
  MaxVersion,
  CapMap,
  SPIRVExt,
  ErrorCode,     \* "Success" until the first failed check
  emitted        \* constructs translated and not dropped

vars == <<opts, status, SPIRVVersion, MaxVersion, CapMap, SPIRVExt, ErrorCode, emitted>>

ErrorCodes == {"Success", "RequiresVersion", "RequiresExtension", "TripleMaxVersionIncompatible",
               "InvalidSubArch", "InvalidTargetTriple"}

TypeOK ==
  /\ opts \in OptionType
  /\ status \in {"created", "open", "written", "failed", "exited"}
  /\ SPIRVVersion \in Versions
  /\ MaxVersion \in Versions
  /\ CapMap \subseteq Caps
  /\ SPIRVExt \subseteq Exts
  /\ ErrorCode \in ErrorCodes
  /\ emitted \subseteq Constructs

Init ==
  /\ opts \in Options
  /\ status = "created"
  /\ SPIRVVersion = 0
  /\ MaxVersion = opts.max
  /\ CapMap = {}
  /\ SPIRVExt = {}
  /\ ErrorCode = "Success"
  /\ emitted = {}

-----------------------------------------------------------------------------
(***************************************************************************)
(* checkError for the checks of one step that failed: the first failure of *)
(* the translation is kept, and ends the process if so configured.         *)
(***************************************************************************)
CheckError(codes) ==
  /\ ErrorCode' \in IF codes = {} \/ ErrorCode # "Success" THEN {ErrorCode} ELSE codes
  /\ status' = IF codes # {} /\ ErrorCode = "Success" /\ opts.exits THEN "exited" ELSE status

(* Mutant: the version asked for replaces a higher one. *)
SetVersion(vs) ==
  SPIRVVersion' \in IF \E v \in vs : v <= MaxVersion
                      THEN {v \in vs : v <= MaxVersion} ELSE {SPIRVVersion}

(* setMinSPIRVVersion for each of vs; one above the limit changes nothing. *)
RaiseVersion(vs) ==
  LET reached == {SPIRVVersion} \cup {v \in vs : v <= MaxVersion}
  IN  SPIRVVersion' \in {v \in reached : \A w \in reached : w <= v}

(* Mutant: the limit itself is refused. *)
TooHighAtLimit(vs) == IF \E v \in vs : v >= MaxVersion THEN {"RequiresVersion"} ELSE {}

TooHigh(vs) == IF \E v \in vs : v > MaxVersion THEN {"RequiresVersion"} ELSE {}

(* addExtension for each of xs. *)
AddExtensions(xs) ==
  SPIRVExt' = SPIRVExt \cup (xs \cap opts.allowed)
                       \cup UNION {Companion[x] : x \in xs \cap opts.allowed}

Disallowed(xs) == IF xs \subseteq opts.allowed THEN {} ELSE {"RequiresExtension"}

(* addCapability recurses into the capabilities that getCapability lists. *)
Closure(cs) ==
  {c \in Caps : \A T \in SUBSET Caps :
     cs \subseteq T /\ (\A t \in T : Implied[t] \subseteq T) => c \in T}

-----------------------------------------------------------------------------
(* Mutant: the subarch is not tested for absence. *)
OpenUnversioned ==
  /\ status = "created"
  /\ SPIRVVersion' = IF opts.triple = NoTriple THEN SPIRVVersion ELSE opts.triple
  /\ MaxVersion' = opts.triple
  /\ status' = "open"
  /\ UNCHANGED <<opts, CapMap, SPIRVExt, ErrorCode, emitted>>

(* getVersionFromTriple takes a subarch it does not know for the highest version. *)
TripleVersion == IF opts.triple = OtherSubArch THEN MaxKnown ELSE opts.triple

(* A check before translation that returns when it fails. *)
Refuse(code) ==
  /\ ErrorCode' = code
  /\ status' = IF opts.exits THEN "exited" ELSE "failed"
  /\ UNCHANGED <<SPIRVVersion, MaxVersion>>

(***************************************************************************)
(* runSpirvWriterPasses up to the passes: isValidLLVMModule, then a        *)
(* versioned triple fixes the version or is refused.  The error of a       *)
(* subarch that is no version is logged, and translation goes on.          *)
(***************************************************************************)
Open ==
  /\ status = "created"
  /\ CASE opts.triple = Unsupported -> Refuse("InvalidTargetTriple")
       [] opts.triple = NoTriple -> status' = "open" /\ UNCHANGED <<SPIRVVersion, MaxVersion, ErrorCode>>
       [] opts.triple = OtherSubArch /\ (opts.exits \/ TripleVersion > opts.max) -> Refuse("InvalidSubArch")
       [] opts.triple \in Versions /\ TripleVersion > opts.max -> Refuse("TripleMaxVersionIncompatible")
       [] OTHER -> /\ SPIRVVersion' = TripleVersion
                   /\ MaxVersion' = TripleVersion
                   /\ status' = "open"
                   /\ ErrorCode' = IF opts.triple = OtherSubArch THEN "InvalidSubArch" ELSE ErrorCode
  /\ UNCHANGED <<opts, CapMap, SPIRVExt, emitted>>

(* Mutant: an implied capability is added without what it needs itself. *)
AddEntryShallow(vs, cs, xs) ==
  LET new  == Closure(cs) \ CapMap
      vers == vs \cup {CapVer[c] : c \in cs \ CapMap}
      exts == (xs \cup {CapExt[c] : c \in cs \ CapMap}) \ {NoExt}
  IN  /\ RaiseVersion(vers)
      /\ AddExtensions(exts)
      /\ CapMap' = CapMap \cup new
      /\ CheckError(TooHigh(vers) \cup Disallowed(exts))

(***************************************************************************)
(* The constructor raises the version (updateModuleVersion); addEntry adds *)
(* the capabilities, each new one with its own version and extension, and  *)
(* the extension of the entry.                                             *)
(***************************************************************************)
AddEntry(vs, cs, xs) ==
  LET new  == Closure(cs) \ CapMap
      vers == vs \cup {CapVer[c] : c \in new}
      exts == (xs \cup {CapExt[c] : c \in new}) \ {NoExt}
  IN  /\ RaiseVersion(vers)
      /\ AddExtensions(exts)
      /\ CapMap' = CapMap \cup new
      /\ CheckError(TooHigh(vers) \cup Disallowed(exts))

Requires(c) ==
  /\ status = "open"
  /\ c.policy = "requires"
  /\ AddEntry({c.ver}, c.caps, {c.ext})
  /\ emitted' = emitted \cup {c}
  /\ UNCHANGED <<opts, MaxVersion>>

Either(c) ==
  /\ status = "open"
  /\ c.policy = "either"
  /\ IF c.ver <= MaxVersion THEN AddEntry({c.ver}, c.caps, {})
                            ELSE AddEntry({}, c.caps, {c.ext})
  /\ emitted' = emitted \cup {c}
  /\ UNCHANGED <<opts, MaxVersion>>

Optional(c) ==
  /\ status = "open"
  /\ c.policy = "optional"
  /\ c.ver <= MaxVersion \/ c.ext \in opts.allowed
  /\ IF c.ver <= MaxVersion THEN AddEntry({c.ver}, c.caps, {})
                            ELSE AddEntry({}, c.caps, {c.ext})
  /\ emitted' = emitted \cup {c}
  /\ UNCHANGED <<opts, MaxVersion>>

(* runSpirvWriterPasses writes the module only when no check has failed. *)
Finish ==
  /\ status = "open"
  /\ status' = IF ErrorCode = "Success" THEN "written" ELSE "failed"
  /\ UNCHANGED <<opts, SPIRVVersion, MaxVersion, CapMap, SPIRVExt, ErrorCode, emitted>>

Ended == status \in {"written", "failed", "exited"} /\ UNCHANGED vars

Next ==
  \/ Open
  \/ \E c \in Constructs : Requires(c) \/ Either(c) \/ Optional(c)
  \/ Finish
  \/ Ended

Spec == Init /\ [][Next]_vars

-----------------------------------------------------------------------------
(***************************************************************************)
(* A module that is written declares everything its entries need, in       *)
(* whatever order they came and whichever of them shared capabilities: the *)
(* version, the capabilities with all they imply, and the extensions.      *)
(***************************************************************************)
Declared(c) ==
  /\ Closure(c.caps) \subseteq CapMap
  /\ CASE c.policy = "requires" -> c.ver <= SPIRVVersion /\ c.ext \in SPIRVExt \cup {NoExt}
       [] OTHER -> c.ver <= SPIRVVersion \/ c.ext \in SPIRVExt \cup {NoExt}

DeclaresAll ==
  status = "written" =>
    /\ \A c \in emitted : Declared(c)
    /\ \A k \in CapMap : CapVer[k] <= SPIRVVersion /\ CapExt[k] \in SPIRVExt \cup {NoExt}

(***************************************************************************)
(* A module that is written is within the limits it was asked for, and at  *)
(* the very version of a versioned triple: no order of constructs gets one *)
(* past --spirv-max-version or --spirv-ext.  (SPV_EXT_shader_atomic_       *)
(* float16_add brings its companion with it.)                              *)
(***************************************************************************)
WithinLimits ==
  status = "written" =>
    /\ SPIRVVersion <= opts.max
    /\ opts.triple \in Versions => SPIRVVersion = opts.triple
    /\ \A x \in SPIRVExt : x \notin opts.allowed =>
         \E y \in SPIRVExt \cap opts.allowed : x \in Companion[y]

(***************************************************************************)
(* What a construct needs of the limits, however the ones before it came:  *)
(* a version that is not allowed, or an extension.                         *)
(***************************************************************************)
ByVersion(c) == c.policy = "requires" \/ c.ver <= MaxVersion
ByExtension(c) == c.policy = "requires" \/ c.ver > MaxVersion

TooNew(c) ==
  \/ ByVersion(c) /\ c.ver > MaxVersion
  \/ \E k \in Closure(c.caps) : CapVer[k] > MaxVersion

NotAllowed(c) ==
  \/ ByExtension(c) /\ c.ext \notin opts.allowed \cup {NoExt}
  \/ \E k \in Closure(c.caps) : CapExt[k] \notin opts.allowed \cup {NoExt}

(***************************************************************************)
(* Whether a module is written depends on what is in it and not on the     *)
(* order it came in: it is written only if each of its constructs can be   *)
(* declared within the limits, and the error that is reported when it is   *)
(* not is true of the triple or of a construct that was translated, also   *)
(* where a capability that another one implied returned early from         *)
(* addCapability, or an extension came with another.                       *)
(***************************************************************************)
OutcomeJustified ==
  /\ status = "written" => \A c \in emitted : ~TooNew(c) /\ ~NotAllowed(c)
  /\ status \in {"failed", "exited"} =>
       CASE ErrorCode = "RequiresVersion" -> \E c \in emitted : TooNew(c)
         [] ErrorCode = "RequiresExtension" -> \E c \in emitted : NotAllowed(c)
         [] ErrorCode = "TripleMaxVersionIncompatible" -> opts.triple \in Versions /\ opts.triple > opts.max
         [] ErrorCode = "InvalidSubArch" -> opts.triple = OtherSubArch
         [] ErrorCode = "InvalidTargetTriple" -> opts.triple = Unsupported
         [] OTHER -> FALSE
=============================================================================
