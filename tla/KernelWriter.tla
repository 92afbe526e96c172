---------------------------- MODULE KernelWriter ----------------------------
(***************************************************************************)
(* What the writer makes of the metadata and the attributes of a function: *)
(* PreprocessMetadata turns them into nodes of !spirv.ExecutionMode,       *)
(* transFunctionDecl into decorations of the function and its parameters,  *)
(* transOCLMetadata into decorations and strings.  The nodes become        *)
(* execution modes in the module KernelModes.                              *)
(*                                                                         *)
(* A function is a record:                                                 *)
(*   name    its name, a sequence of tokens                                *)
(*   kernel  whether it has the calling convention spir_kernel             *)
(*   decl    whether it is only declared                                   *)
(*   avail   whether its linkage is available_externally                   *)
(*   body    what decides about contraction: "muladd" (an unfused          *)
(*           multiplication and addition), "asm", "indirect" or a callee   *)
(*   md      its metadata, a function of the kind                          *)
(*   attr    its attributes, a function of the name                        *)
(*   params  its parameters: kind, type, attrs (a set), align, deref, vc   *)
(*           (the string attributes of vector compute)                     *)
(* Numbers are 32-bit words; -1 is the word with all bits set.  A          *)
(* VCFloatControl attribute is the set of its bits.                        *)
(***************************************************************************)
EXTENDS Integers, Sequences, SequencesExt

Has(f, k) == k \in DOMAIN f

If(b, s) == IF b THEN s ELSE <<>>

-----------------------------------------------------------------------------
(* VectorComputeUtil.                                                      *)

RoundBits == [RTE |-> {}, RTP |-> {4}, RTN |-> {5}, RTZ |-> {4, 5}]

OperationBits == [IEEE |-> {}, ALT |-> {0}]

DenormBit(width) == IF width = 64 THEN 6 ELSE IF width = 32 THEN 7 ELSE 10

Widths == <<64, 32, 16>>

getFPRoundingMode(c) ==
  CHOOSE r \in DOMAIN RoundBits : RoundBits[r] = c \cap {4, 5}

getFPOperationMode(c) ==
  CHOOSE o \in DOMAIN OperationBits : OperationBits[o] = c \cap {0}

getFPDenormMode(c, width) ==
  IF DenormBit(width) \in c THEN "Preserve" ELSE "FlushToZero"

RoundMode == [RTE |-> "RoundingModeRTE", RTZ |-> "RoundingModeRTZ",
              RTP |-> "RoundingModeRTPINTEL", RTN |-> "RoundingModeRTNINTEL"]

OperationMode == [IEEE |-> "FloatingPointModeIEEEINTEL",
                  ALT |-> "FloatingPointModeALTINTEL"]

DenormMode == [FlushToZero |-> "DenormFlushToZero", Preserve |-> "DenormPreserve"]

-----------------------------------------------------------------------------
(* PreprocessMetadata: nodes [f, mode, args] for the i-th function.        *)

Node(i, mode, args) == [f |-> i, mode |-> mode, args |-> args]

preprocessVectorComputeMetadata(i, f) ==
  LET c == f.attr.VCFloatControl
      ForWidth(w) == << Node(i, RoundMode[getFPRoundingMode(c)], <<w>>),
                        Node(i, OperationMode[getFPOperationMode(c)], <<w>>),
                        Node(i, DenormMode[getFPDenormMode(c, w)], <<w>>) >>
  IN  If(Has(f.attr, "VCFloatControl"), FlattenSeq([j \in 1 .. 3 |-> ForWidth(Widths[j])]))
      \o If(Has(f.attr, "VCSLMSize"),
            <<Node(i, "SharedLocalMemorySizeINTEL", <<f.attr.VCSLMSize>>)>>)
      \o If(Has(f.attr, "VCNamedBarrierCount"),
            <<Node(i, "NamedBarrierCountINTEL", <<f.attr.VCNamedBarrierCount>>)>>)

preprocessCXXStructorList(ctors) ==
  [j \in 1 .. Len(ctors) |-> Node(ctors[j], "Initializer", <<>>)]

\* Mutant: the dimensions that are missing are 0.
ThreeDimsZero(s) ==
  <<s[1], IF Len(s) >= 2 THEN s[2] ELSE 0, IF Len(s) = 3 THEN s[3] ELSE 0>>

\* A work group size has up to three dimensions; the missing ones are 1.
ThreeDims(s) ==
  <<s[1], IF Len(s) >= 2 THEN s[2] ELSE 1, IF Len(s) = 3 THEN s[3] ELSE 1>>

Scalars == <<"i8", "i16", "i32", "i64", "half", "float", "double">>

encodeVecTypeHint(t) ==
  t.n * 65536 + (CHOOSE k \in DOMAIN Scalars : Scalars[k] = t.elt) - 1

\* The kernel's metadata in the order in which visit looks at it.
KernelNodes(i, f) ==
  LET m == f.md
      One(key, mode) == If(Has(m, key), <<Node(i, mode, <<m[key]>>)>>)
      Dims(key, mode) == If(Has(m, key), <<Node(i, mode, ThreeDims(m[key]))>>)
      Interface(name, mode, flag) ==
        If(Has(m, "ip_interface") /\ name \in m.ip_interface,
           <<Node(i, mode, <<IF flag \in m.ip_interface THEN 1 ELSE 0>>)>>)
      Intel == "intel_reqd_sub_group_size"
  IN  Dims("reqd_work_group_size", "LocalSize")
      \o Dims("work_group_size_hint", "LocalSizeHint")
      \o Dims("max_work_group_size", "MaxWorkgroupSizeINTEL")
      \o If(Has(m, "vec_type_hint"),
            <<Node(i, "VecTypeHint", <<encodeVecTypeHint(m.vec_type_hint)>>)>>)
      \o (IF Has(m, "reqd_sub_group_size")
          THEN One("reqd_sub_group_size", "SubgroupSize")
          ELSE If(Has(m, Intel),
                  If(m[Intel] = -1, <<Node(i, "NamedSubgroupSizeINTEL", <<0>>)>>)
                  \o One(Intel, "SubgroupSize")))
      \o If(Has(m, "no_global_work_offset"), <<Node(i, "NoGlobalOffsetINTEL", <<>>)>>)
      \o One("max_global_work_dim", "MaxWorkDimINTEL")
      \o One("num_simd_work_items", "NumSIMDWorkitemsINTEL")
      \o One("scheduler_target_fmax_mhz", "SchedulerTargetFmaxMhzINTEL")
      \o Interface("csr", "RegisterMapInterfaceINTEL", "wait_for_done_write")
      \o Interface("streaming", "StreamingInterfaceINTEL", "stall_free_return")

-----------------------------------------------------------------------------
(* Decorations: literals in args, an attribute or a string in word.        *)

Dec(dec, args) == [dec |-> dec, args |-> args, word |-> ""]

Attr(word) == [dec |-> "FuncParamAttr", args |-> <<>>, word |-> word]

\* The order of transFunctionDecl.
ParamAttrs == <<"ByVal", "NoAlias", "NoCapture", "Sret", "ReadOnly", "ReadNone",
                "ZExt", "SExt">>

FuncParamAttr ==
  [ByVal |-> "ByVal", NoAlias |-> "NoAlias", NoCapture |-> "NoCapture",
   Sret |-> "Sret", ReadOnly |-> "NoWrite", ReadNone |-> "NoReadWrite",
   ZExt |-> "Zext", SExt |-> "Sext"]

ParamAttrDecs(p) ==
  LET held == SelectSeq(ParamAttrs, LAMBDA a : a \in p.attrs)
  IN  [j \in 1 .. Len(held) |-> Attr(FuncParamAttr[held[j]])]

\* transFunctionDecl, then transVectorComputeMetadata, for parameter j.
ParamDecs(o, f, j) ==
  LET p == f.params[j]
      Val(key) == f.md[key][j]
      Loc == "kernel_arg_buffer_location"
      Aligned == "kernel_arg_runtime_aligned"
  IN  ParamAttrDecs(p)
      \o If(p.align > 0, <<Dec("Alignment", <<p.align>>)>>)
      \o If(o.ver >= 1 /\ p.deref > 0, <<Dec("MaxByteOffset", <<p.deref>>)>>)
      \o If("fpga_buffer_location" \in o.ext /\ Has(f.md, Loc) /\ p.kind = "ptr"
              /\ Val(Loc) >= 0,
            <<Dec("BufferLocationINTEL", <<Val(Loc)>>)>>)
      \o If("runtime_aligned" \in o.ext /\ Has(f.md, Aligned) /\ p.kind = "ptr"
              /\ Val(Aligned) = 1,
            <<Dec("RuntimeAlignedINTEL", <<1>>)>>)
      \o If("vector_compute" \in o.ext,
            If(Has(p.vc, "VCArgumentIOKind"),
               <<Dec("FuncParamIOKindINTEL", <<p.vc.VCArgumentIOKind>>)>>)
            \o If(Has(p.vc, "VCSingleElementVector"),
                  <<Dec("SingleElementVectorINTEL",
                        If(p.kind = "ptr", <<p.vc.VCSingleElementVector>>))>>)
            \o If(Has(p.vc, "VCMediaBlockIO"), <<Dec("MediaBlockIOINTEL", <<>>)>>))

\* transVectorComputeMetadata, for the function itself.
VectorComputeDecs(o, f) ==
  LET c == f.attr.VCFloatControl
      ForWidth(w) ==
        << [Dec("FunctionDenormModeINTEL", <<w>>) EXCEPT
              !.word = getFPDenormMode(c, w)],
           [Dec("FunctionRoundingModeINTEL", <<w>>) EXCEPT
              !.word = getFPRoundingMode(c)],
           [Dec("FunctionFloatingPointModeINTEL", <<w>>) EXCEPT
              !.word = getFPOperationMode(c)] >>
  IN  If("vector_compute" \in o.ext,
         If(Has(f.attr, "VCStackCall"), <<Dec("StackCallINTEL", <<>>)>>)
         \o If(Has(f.attr, "VCFunction"), <<Dec("VectorComputeFunctionINTEL", <<>>)>>)
         \o If(Has(f.attr, "VCSIMTCall"), <<Dec("SIMTCallINTEL", <<f.attr.VCSIMTCall>>)>>)
         \o If(~f.kernel /\ "INTEL_float_controls2" \in o.ext
                 /\ Has(f.attr, "VCFloatControl"),
               FlattenSeq([j \in 1 .. 3 |-> ForWidth(Widths[j])])))

transFPGAFunctionMetadata(o, f) ==
  LET m == f.md
      Flag(ext, key, dec) ==
        If(ext \in o.ext /\ Has(m, key) /\ m[key] # 0, <<Dec(dec, <<>>)>>)
      One(ext, key, dec) ==
        If(ext \in o.ext /\ Has(m, key), <<Dec(dec, <<m[key]>>)>>)
      Pipelining == "fpga_invocation_pipelining_attributes"
  IN  Flag("fpga_cluster_attributes", "stall_enable", "StallEnableINTEL")
      \o Flag("fpga_cluster_attributes", "stall_free", "StallFreeINTEL")
      \o If("loop_fuse" \in o.ext /\ Has(m, "loop_fuse"),
            <<Dec("FuseLoopsInFunctionINTEL", m.loop_fuse)>>)
      \o If("fpga_dsp_control" \in o.ext /\ Has(m, "prefer_dsp"),
            <<Dec("MathOpDSPModeINTEL",
                  <<m.prefer_dsp, IF Has(m, "propagate_dsp_preference")
                                  THEN m.propagate_dsp_preference ELSE 0>>)>>)
      \o If(Has(m, "initiation_interval") /\ m.initiation_interval # 0,
            One(Pipelining, "initiation_interval", "InitiationIntervalINTEL"))
      \o One(Pipelining, "max_concurrency", "MaxConcurrencyINTEL")
      \o One(Pipelining, "pipeline_kernel", "PipelineEnableINTEL")
      \o If(Has(m, "spirv.Decorations"), m["spirv.Decorations"])

\* transFunctionMetadataAsUserSemanticDecoration.
NumThreads == <<"num-thread-per-eu 0", "num-thread-per-eu 8", "num-thread-per-eu 4">>

UserSemanticDecs(f) ==
  If(Has(f.md, "RegisterAllocMode") /\ f.md.RegisterAllocMode \in 0 .. 2,
     <<[Dec("UserSemantic", <<>>) EXCEPT
          !.word = NumThreads[f.md.RegisterAllocMode + 1]]>>)

\* transFunctionMetadataAsExecutionMode.
RegisterMode == [named |-> "NamedMaximumRegistersINTEL",
                 id |-> "MaximumRegistersIdINTEL", num |-> "MaximumRegistersINTEL"]

RegisterModes(o, f) ==
  If("maximum_registers" \in o.ext /\ Has(f.md, "MaximumRegisters"),
     [j \in 1 .. Len(f.md.MaximumRegisters) |->
        [mode |-> RegisterMode[f.md.MaximumRegisters[j].kind],
         args |-> <<f.md.MaximumRegisters[j].val>>]])

\* transFunctionControlMask: the mask as a set of attributes.
ControlMask(o, f) ==
  {a \in {"alwaysinline", "noinline", "optnone"} :
     Has(f.attr, a) /\ (a = "optnone" => "optnone" \in o.ext)}

\* transAuxDataInst: the instructions of one function, which differ in their names;
\* "spirv.Decorations" and "spirv.ParameterDecorations" travel as decorations.
AuxData(o, i, f) ==
  LET kinds == DOMAIN f.md \ {"spirv.Decorations", "spirv.ParameterDecorations"}
  IN  If(o.aux, <<[f |-> i, attr |-> f.attr, md |-> [k \in kinds |-> f.md[k]],
                   avail |-> f.avail]>>)

-----------------------------------------------------------------------------
(* transOCLMetadata.                                                       *)

\* transKernelArgTypeMD: "kind.name.arg0,arg1,...," token by token.
ArgString(kind, f) ==
  <<kind, ".">> \o f.name \o <<".">>
    \o FlattenSeq([j \in 1 .. Len(f.md[kind]) |-> Append(f.md[kind][j], ",")])

ArgStrings(o, f) ==
  If(o.argStrings,
     If(Has(f.md, "kernel_arg_type"), <<ArgString("kernel_arg_type", f)>>)
     \o If(Has(f.md, "kernel_arg_type_qual"), <<ArgString("kernel_arg_type_qual", f)>>))

OCLParamDecs(f, j) ==
  LET q == f.md["kernel_arg_type_qual"][j]
  IN  If(Has(f.md, "kernel_arg_type_qual"),
         If("volatile" \in ToSet(q), <<Dec("Volatile", <<>>)>>)
         \o If("restrict" \in ToSet(q), <<Attr("NoAlias")>>))
      \o If(Has(f.md, "spirv.ParameterDecorations"),
            f.md["spirv.ParameterDecorations"][j])

\* addDecorate, except that SPIRVValue::setAlignment decorates only once.
AddDecs(decs, new) ==
  decs \o SelectSeq(new, LAMBDA d :
             d.dec = "Alignment" => \A e \in ToSet(decs) : e.dec # "Alignment")

\* The name that the metadata gives a parameter replaces the one it has.
OCLParamName(f, j) ==
  IF Has(f.md, "kernel_arg_name") THEN f.md["kernel_arg_name"][j]
  ELSE f.params[j].name
=============================================================================
