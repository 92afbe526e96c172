---------------------------- MODULE KernelReader ----------------------------
(***************************************************************************)
(* What the reader makes of the execution modes and decorations of a       *)
(* SPIR-V function: the attributes set by transFunctionAttrs and the       *)
(* metadata set by transMetadata, in the order in which they are set, a    *)
(* later value of a kind replacing an earlier one.                         *)
(*                                                                         *)
(* A SPIR-V function has name, kernel, decl, avail, body, fcm (its control *)
(* mask), modes and decs, two sequences, and params with name, kind, type  *)
(* and decs.                                                               *)
(***************************************************************************)
EXTENDS KernelWriter, FiniteSets, TLC

\* SPIRVComponentExecutionModes: a multimap from the kind of the mode.
HasMode(bf, mode) == \E x \in ToSet(bf.modes) : x.mode = mode

getExecutionMode(bf, mode) == SelectSeq(bf.modes, LAMBDA x : x.mode = mode)[1].args

HasDec(e, dec) == \E d \in ToSet(e.decs) : d.dec = dec

getDecoration(e, dec) == SelectSeq(e.decs, LAMBDA d : d.dec = dec)[1]

\* Metadata or attributes: one kind, and several together, of which the first one
\* that has a kind counts.
Key(key, val) == [k \in {key} |-> val]

Merge(ms) ==
  LET merged[s \in {ms}] ==
        [k \in UNION {DOMAIN s[j] : j \in DOMAIN s} |->
           s[Min({j \in DOMAIN s : k \in DOMAIN s[j]})][k]]
  IN  merged[ms]

\* setMetadata or addFnAttr if the condition holds.
Set(cond, key, val) == IF cond THEN Key(key, val) ELSE <<>>

-----------------------------------------------------------------------------
(* transFunctionAttrs.                                                     *)

LLVMAttr(word) == CHOOSE a \in DOMAIN FuncParamAttr : FuncParamAttr[a] = word

\* AttributeFuncs::typeIncompatible, of LLVM: pointer attributes on a value that
\* is no pointer, extensions on a value that is no integer.
IllegalAttrs(p) ==
  IF p.kind = "int"
  THEN {"ByVal", "NoAlias", "NoCapture", "Sret", "ReadOnly", "ReadNone"}
  ELSE {"ZExt", "SExt"}

ParamAttrWords(p) == SelectSeq(p.decs, LAMBDA d : d.dec = "FuncParamAttr")

ReadParam(p) ==
  LET Lit(dec) == IF HasDec(p, dec) THEN getDecoration(p, dec).args[1] ELSE 0
      kinds == {LLVMAttr(d.word) : d \in ToSet(ParamAttrWords(p))}
  IN  [name |-> p.name, kind |-> p.kind, type |-> p.type,
       attrs |-> {a \in kinds : a = "NoCapture" \/ a \notin IllegalAttrs(p)},
       align |-> Lit("Alignment"), deref |-> Lit("MaxByteOffset"), vc |-> <<>>]

transFunctionAttrs(bf) ==
  [name |-> bf.name, kernel |-> bf.kernel, decl |-> bf.decl,
   avail |-> bf.avail /\ ~bf.kernel, body |-> bf.body, md |-> <<>>,
   attr |-> Merge(<<Key("nounwind", TRUE), [a \in bf.fcm |-> TRUE]>>),
   params |-> [j \in 1 .. Len(bf.params) |-> ReadParam(bf.params[j])]]

-----------------------------------------------------------------------------
(* transOCLMetadata.                                                       *)

\* The tokens of a string up to the commas that are outside angle brackets.
SplitArgs(s) ==
  LET Depth(k) == Cardinality({j \in 1 .. k : s[j] = "<"})
                    - Cardinality({j \in 1 .. k : s[j] = ">"})
      cuts == {k \in 1 .. Len(s) : s[k] = "," /\ Depth(k) = 0}
      Before(k) == LET prev == {c \in cuts : c < k}
                   IN  IF prev = {} THEN 0 ELSE CHOOSE c \in prev : \A d \in prev : d <= c
      ends == SetToSortSeq(cuts, <)
  IN  [j \in 1 .. Len(ends) |-> SubSeq(s, Before(ends[j]) + 1, ends[j] - 1)]

\* transKernelArgTypeMedataFromString: the first string with the prefix.
StringsOf(strings, kind, f) ==
  LET prefix == <<kind, ".">> \o f.name \o <<".">>
      hit == SelectSeq(strings, LAMBDA s : IsPrefix(prefix, s))
  IN  [j \in 1 .. Len(hit) |-> SubSeq(hit[j], Len(prefix) + 1, Len(hit[j]))]

FromString(o, strings, kind, f, default) ==
  LET found == StringsOf(strings, kind, f)
  IN  IF o.argStrings /\ found # <<>> THEN SplitArgs(found[1]) ELSE default

\* Every attribute after the first word adds a blank; blanks are left out here.
QualOf(p) ==
  If(HasDec(p, "Volatile"), <<"volatile">>)
  \o [j \in 1 .. Len(SelectSeq(ParamAttrWords(p), LAMBDA d : d.word = "NoAlias"))
        |-> "restrict"]
  \o If(p.kind = "pipe", <<"pipe">>)

\* transTypeToOCLTypeName: the name of the SPIR-V type.
OCLTypeName(p) == <<p.type>>

AddrSpace(p) == CASE p.kind = "ptr" -> 1 [] p.kind \in {"image", "pipe"} -> 1 [] OTHER -> 0

AccessQual(p) == IF p.kind \in {"image", "pipe"} THEN "read_only" ELSE "none"

ReadOCLMetadata(o, strings, bf) ==
  LET ps == bf.params
      All(Val(_)) == [j \in 1 .. Len(ps) |-> Val(ps[j])]
      Found(decs) == \E p \in ToSet(ps) : \E d \in decs : HasDec(p, d)
      Location(p) == IF p.kind = "ptr" /\ HasDec(p, "BufferLocationINTEL")
                     THEN getDecoration(p, "BufferLocationINTEL").args[1] ELSE -1
      Aligned(p) == IF HasDec(p, "RuntimeAlignedINTEL") THEN 1 ELSE 0
      Name(p) == p.name
      Decs(p) == p.decs
  IN  IF ~bf.kernel \/ HasDec(bf, "VectorComputeFunctionINTEL") THEN <<>>
      ELSE Merge(<<
             Key("kernel_arg_addr_space", All(AddrSpace)),
             Key("kernel_arg_access_qual", All(AccessQual)),
             Key("kernel_arg_type",
               FromString(o, strings, "kernel_arg_type", bf, All(OCLTypeName))),
             Key("kernel_arg_type_qual",
               FromString(o, strings, "kernel_arg_type_qual", bf, All(QualOf))),
             Key("kernel_arg_base_type", All(OCLTypeName)),
             Set(o.argNames, "kernel_arg_name", All(Name)),
             Set(Found({"BufferLocationINTEL"}), "kernel_arg_buffer_location",
               All(Location)),
             Set(Found({"RuntimeAlignedINTEL"}), "kernel_arg_runtime_aligned",
               All(Aligned)),
             Key("spirv.ParameterDecorations", All(Decs)) >>)

-----------------------------------------------------------------------------
(* transVectorComputeMetadata.                                             *)

ReadFloatControl(bf) ==
  LET Modes(table) == {k \in DOMAIN table : HasMode(bf, table[k])}
      Decs(dec) == {d \in ToSet(bf.decs) : d.dec = dec}
      FirstWord(dec) == getDecoration(bf, dec).word
  IN  IF bf.kernel
      THEN UNION {RoundBits[r] : r \in Modes(RoundMode)}
           \cup UNION {OperationBits[p] : p \in Modes(OperationMode)}
           \cup {DenormBit(x.args[1]) :
                   x \in {y \in ToSet(bf.modes) : y.mode = DenormMode.Preserve}}
      ELSE (IF HasDec(bf, "FunctionRoundingModeINTEL")
            THEN RoundBits[FirstWord("FunctionRoundingModeINTEL")] ELSE {})
           \cup {DenormBit(d.args[1]) :
                   d \in {e \in Decs("FunctionDenormModeINTEL") : e.word = "Preserve"}}
           \cup (IF HasDec(bf, "FunctionFloatingPointModeINTEL")
                 THEN OperationBits[FirstWord("FunctionFloatingPointModeINTEL")] ELSE {})

HasFloatControl(bf) ==
  IF bf.kernel
  THEN \E x \in ToSet(bf.modes) :
         \E t \in {RoundMode, OperationMode, DenormMode} : \E k \in DOMAIN t : x.mode = t[k]
  ELSE \E d \in {"FunctionRoundingModeINTEL", "FunctionDenormModeINTEL",
                 "FunctionFloatingPointModeINTEL"} : HasDec(bf, d)

ReadVectorCompute(bf) ==
  LET Lit(dec) == getDecoration(bf, dec).args[1]
      Mode(mode) == getExecutionMode(bf, mode)[1]
      Num(key, mode) == IF HasMode(bf, mode) THEN Key(key, Mode(mode)) ELSE <<>>
  IN  Merge(<< Set(HasDec(bf, "StackCallINTEL"), "VCStackCall", TRUE),
               Set(HasDec(bf, "VectorComputeFunctionINTEL"), "VCFunction", TRUE),
               IF HasDec(bf, "SIMTCallINTEL")
                 THEN Key("VCSIMTCall", Lit("SIMTCallINTEL")) ELSE <<>>,
               Set(HasFloatControl(bf), "VCFloatControl", ReadFloatControl(bf)),
               Num("VCSLMSize", "SharedLocalMemorySizeINTEL"),
               Num("VCNamedBarrierCount", "NamedBarrierCountINTEL") >>)

\* translateSEVMetadata and the other parameter attributes.
ReadVectorComputeParam(p) ==
  LET sev == getDecoration(p, "SingleElementVectorINTEL").args
  IN  Merge(<< IF HasDec(p, "FuncParamIOKindINTEL")
                 THEN Key("VCArgumentIOKind", getDecoration(p, "FuncParamIOKindINTEL").args[1])
                 ELSE <<>>,
               IF HasDec(p, "SingleElementVectorINTEL")
                 THEN Key("VCSingleElementVector", IF sev = <<>> THEN 0 ELSE sev[1])
                 ELSE <<>>,
               Set(HasDec(p, "MediaBlockIOINTEL"), "VCMediaBlockIO", TRUE) >>)

-----------------------------------------------------------------------------
(* transFPGAFunctionMetadata.                                              *)

ReadFPGAMetadata(bf) ==
  LET Args(dec) == getDecoration(bf, dec).args
      One(dec, key) == IF HasDec(bf, dec) THEN Key(key, Args(dec)[1]) ELSE <<>>
      Dsp == HasDec(bf, "MathOpDSPModeINTEL")
  IN  Merge(<< Set(HasDec(bf, "StallEnableINTEL"), "stall_enable", 1),
               Set(HasDec(bf, "StallFreeINTEL"), "stall_free", 1),
               IF HasDec(bf, "FuseLoopsInFunctionINTEL")
                 THEN Key("loop_fuse", Args("FuseLoopsInFunctionINTEL")) ELSE <<>>,
               IF Dsp THEN Key("prefer_dsp", Args("MathOpDSPModeINTEL")[1]) ELSE <<>>,
               IF Dsp /\ Args("MathOpDSPModeINTEL")[2] # 0
                 THEN Key("propagate_dsp_preference", Args("MathOpDSPModeINTEL")[2]) ELSE <<>>,
               One("InitiationIntervalINTEL", "initiation_interval"),
               One("MaxConcurrencyINTEL", "max_concurrency"),
               One("PipelineEnableINTEL", "pipeline_kernel") >>)

-----------------------------------------------------------------------------
(* The rest of transMetadata, for a kernel.                                *)

decodeVecTypeHint(code) == [elt |-> Scalars[(code % 65536) + 1], n |-> code \div 65536]

Interfaces ==
  [RegisterMapInterfaceINTEL |-> <<{"csr"}, {"csr", "wait_for_done_write"}>>,
   StreamingInterfaceINTEL |-> <<{"streaming"}, {"streaming", "stall_free_return"}>>]

ReadModes(bf) ==
  LET Args(mode) == getExecutionMode(bf, mode)
      All(mode, key) == IF HasMode(bf, mode) THEN Key(key, Args(mode)) ELSE <<>>
      One(mode, key) == IF HasMode(bf, mode) THEN Key(key, Args(mode)[1]) ELSE <<>>
      Interface(mode) == IF HasMode(bf, mode)
                         THEN Key("ip_interface", Interfaces[mode][Args(mode)[1] + 1])
                         ELSE <<>>
  IN  Merge(<< Set(HasMode(bf, "NamedSubgroupSizeINTEL"), "intel_reqd_sub_group_size", -1),
               Interface("StreamingInterfaceINTEL"),
               Interface("RegisterMapInterfaceINTEL"),
               All("LocalSize", "reqd_work_group_size"),
               All("LocalSizeHint", "work_group_size_hint"),
               All("MaxWorkgroupSizeINTEL", "max_work_group_size"),
               IF HasMode(bf, "VecTypeHint")
                 THEN Key("vec_type_hint", decodeVecTypeHint(Args("VecTypeHint")[1]))
                 ELSE <<>>,
               One("SubgroupSize", "reqd_sub_group_size"),
               One("SubgroupSize", "intel_reqd_sub_group_size"),
               Set(HasMode(bf, "NoGlobalOffsetINTEL"), "no_global_work_offset", TRUE),
               One("MaxWorkDimINTEL", "max_global_work_dim"),
               One("NumSIMDWorkitemsINTEL", "num_simd_work_items"),
               One("SchedulerTargetFmaxMhzINTEL", "scheduler_target_fmax_mhz") >>)

\* The modes that go back into !spirv.ExecutionMode, in the order of transMetadata.
ReadNodes(i, bf) ==
  LET List(mode) == If(HasMode(bf, mode), <<Node(i, mode, getExecutionMode(bf, mode))>>)
  IN  List("SubgroupsPerWorkgroup") \o List("MaximumRegistersINTEL")
      \o List("MaximumRegistersIdINTEL") \o List("NamedMaximumRegistersINTEL")
      \o List("ArithmeticPoisonKHR")

\* parseFloatControls2ExecutionModeId.
ReadFastMathNodes(i, bf) ==
  FlattenSeq([j \in 1 .. Len(bf.modes) |->
    If(bf.modes[j].mode = "FPFastMathDefault",
       <<Node(i, "FPFastMathDefault", bf.modes[j].args)>>)])
=============================================================================
