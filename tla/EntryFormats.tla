---------------------------- MODULE EntryFormats ----------------------------
(***************************************************************************)
(* How the entries of libSPIRV are laid out in a stream: what encode()     *)
(* writes, what decode() reads, and where the word count of the header     *)
(* comes from.  A writer knows the word count from the constructor of the  *)
(* entry; a reader makes an incomplete entry, gives it the word count of   *)
(* the header (setWordCount, which sizes the vectors) and decodes it.  The *)
(* two halves of a class are written separately and nothing but their      *)
(* agreement keeps a reader in step with the stream.                       *)
(*                                                                         *)
(* A format has                                                            *)
(*   op      the class, with the opcode its complete constructor sets;     *)
(*   enc     the fields encode() writes, in order;                         *)
(*   bin,txt the fields decode() reads, in the binary and the text form;   *)
(*   wc,grow the constructor's word count: wc words, grow words for each   *)
(*           element of the vector, and the words of the strings;          *)
(*   base    what setWordCount() subtracts to size the vector;             *)
(*   lens    the sizes the vector may have;                                *)
(*   caps,ext  getRequiredCapability() and getRequiredExtension();         *)
(*   reads   the opcode of the incomplete constructor.                     *)
(* The values of the words are left out: a word is known by the field that *)
(* wrote it.                                                               *)
(***************************************************************************)
EXTENDS Naturals, FiniteSets, Sequences, SequencesExt

NoExt == "none"

(***************************************************************************)
(* Fields: a word; an enumeration, which the text form writes by name; a   *)
(* string, which ends itself; a vector, whose size the reader must know.   *)
(***************************************************************************)
Words(ns) == [i \in DOMAIN ns |-> [n |-> ns[i], k |-> "word"]]
Named(n) == <<[n |-> n, k |-> "name"]>>
Text(n) == <<[n |-> n, k |-> "text"]>>
Rest(n) == <<[n |-> n, k |-> "rest"]>>

\* An entry without a vector, and one whose constructor adds the vector's size.
Fixed(op, wc, fields) ==
    [op |-> op, enc |-> fields, bin |-> fields, txt |-> fields,
     wc |-> wc, grow |-> 1, base |-> wc, lens |-> {0},
     caps |-> {}, ext |-> NoExt, reads |-> op]

Growing(op, wc, fields, lens) == [Fixed(op, wc, fields) EXCEPT !.lens = lens]

Needs(formats, caps, ext) ==
    {[f EXCEPT !.caps = caps, !.ext = ext] : f \in formats}

Few == 0..2
Opt == 0..1

-----------------------------------------------------------------------------
(* Module-level entries: SPIRVEntry.h, SPIRVEntry.cpp *)

SPIRVEntryPoint ==
    {Growing("EntryPoint", 3, Words(<<"ExecModel", "Target">>) \o Text("Name")
                                \o Rest("Variables"), Few)}

SPIRVName == {Fixed("Name", 2, Words(<<"Target">>) \o Text("Str"))}

\* Both constructors set the opcode of OpName: SPIRVName reads what this writes.
SPIRVMemberName ==
    {[Fixed("Name", 3, Words(<<"Target", "MemberNumber">>) \o Text("Str"))
        EXCEPT !.bin = Words(<<"Target">>) \o Text("Str"),
               !.txt = Words(<<"Target">>) \o Text("Str")]}

SPIRVString == {Fixed("String", 2, Words(<<"Id">>) \o Text("Str"))}

SPIRVLine == {Fixed("Line", 4, Words(<<"FileName", "Line", "Column">>))}

SPIRVExtInstImport == {Fixed("ExtInstImport", 2, Words(<<"Id">>) \o Text("Str"))}

SPIRVMemoryModel ==
    {Fixed("MemoryModel", 3, Words(<<"AddressingModel", "MemoryModel">>))}

SPIRVSource == {Fixed("Source", 3, Words(<<"Language", "Ver">>))}

SPIRVSourceExtension == {Fixed("SourceExtension", 1, Text("S"))}

SPIRVExtension == {Fixed("Extension", 1, Text("S"))}

SPIRVCapability == {Fixed("Capability", 2, Named("Kind"))}

SPIRVModuleProcessed == {Fixed("ModuleProcessed", 1, Text("ProcessStr"))}

\* SPIRVContinuedInstINTELBase: the tail of a composite that is too long.
SPIRVContinuedInstINTELBase(op) ==
    Needs({Growing(op, 1, Rest("Elements"), Few)},
          {"LongCompositesINTEL"}, "SPV_INTEL_long_composites")

(***************************************************************************)
(* Execution modes.  The reader does not size the literals from the word   *)
(* count but from the mode; the writer passes them to a constructor with   *)
(* as many parameters.                                                     *)
(***************************************************************************)
OneLiteral == {"VecTypeHint", "DenormPreserve", "DenormFlushToZero",
    "SignedZeroInfNanPreserve", "RoundingModeRTE", "RoundingModeRTZ",
    "RoundingModeRTPINTEL", "RoundingModeRTNINTEL", "FloatingPointModeALTINTEL",
    "FloatingPointModeIEEEINTEL", "SharedLocalMemorySizeINTEL",
    "NamedBarrierCountINTEL", "SubgroupSize", "SubgroupsPerWorkgroup",
    "SubgroupsPerWorkgroupId", "MaxWorkDimINTEL", "NumSIMDWorkitemsINTEL",
    "SchedulerTargetFmaxMhzINTEL", "RegisterMapInterfaceINTEL",
    "StreamingInterfaceINTEL", "NamedSubgroupSizeINTEL", "MaximumRegistersINTEL",
    "MaximumRegistersIdINTEL", "NamedMaximumRegistersINTEL", "Invocations",
    "OutputVertices"}
ThreeLiterals == {"LocalSize", "LocalSizeId", "LocalSizeHint", "LocalSizeHintId",
    "MaxWorkgroupSizeINTEL"}

\* Mutant: the three sizes of a work-group are read as one.
OneSizeRead(mode) ==
    IF mode = "FPFastMathDefault" THEN 2
    ELSE IF mode \in OneLiteral \cup ThreeLiterals THEN 1 ELSE 0

\* SPIRVExecutionMode::decode
LiteralsRead(mode) ==
    CASE mode \in ThreeLiterals -> 3
      [] mode = "FPFastMathDefault" -> 2
      [] mode \in OneLiteral -> 1
      [] OTHER -> 0

\* transExecutionMode, setExecutionModeFPFastMathDefault and the registers of
\* transFunctionMetadataAsExecutionMode: the modes written, by their literals.
ModesWritten ==
    {<<m, 0>> : m \in {"ContractionOff", "Initializer", "Finalizer",
                       "NoGlobalOffsetINTEL", "ArithmeticPoisonKHR"}}
    \cup {<<m, 3>> : m \in {"LocalSize", "LocalSizeHint", "MaxWorkgroupSizeINTEL"}}
    \cup {<<m, 1>> : m \in {"VecTypeHint", "SubgroupSize", "SubgroupsPerWorkgroup",
            "MaxWorkDimINTEL", "NumSIMDWorkitemsINTEL", "NamedBarrierCountINTEL",
            "SchedulerTargetFmaxMhzINTEL", "SharedLocalMemorySizeINTEL",
            "DenormPreserve", "DenormFlushToZero", "SignedZeroInfNanPreserve",
            "RoundingModeRTE", "RoundingModeRTZ", "RoundingModeRTPINTEL",
            "RoundingModeRTNINTEL", "FloatingPointModeALTINTEL",
            "FloatingPointModeIEEEINTEL", "NamedSubgroupSizeINTEL",
            "StreamingInterfaceINTEL", "RegisterMapInterfaceINTEL",
            "MaximumRegistersINTEL", "MaximumRegistersIdINTEL",
            "NamedMaximumRegistersINTEL"}}

ModeFields(n) == Words(<<"Target", "ExecMode">> \o [i \in 1..n |-> "WordLiterals"])

ModeExtension(mode) ==
    CASE mode \in {"MaximumRegistersINTEL", "MaximumRegistersIdINTEL",
                   "NamedMaximumRegistersINTEL"} -> "SPV_INTEL_maximum_registers"
      [] mode = "ArithmeticPoisonKHR" -> "SPV_KHR_poison_freeze"
      [] OTHER -> NoExt

\* Both opcodes are read by the constructor of SPIRVExecutionMode.
Mode(op, m) ==
    [Fixed(op, 3 + m[2], ModeFields(m[2]))
        EXCEPT !.bin = ModeFields(LiteralsRead(m[1])),
               !.txt = ModeFields(LiteralsRead(m[1])),
               !.ext = ModeExtension(m[1]),
               !.reads = "ExecutionMode"]

SPIRVExecutionMode ==
    {Mode("ExecutionMode", m) : m \in {w \in ModesWritten : w[1] # "MaximumRegistersIdINTEL"}}

SPIRVExecutionModeId ==
    {Mode("ExecutionModeId", m) :
     m \in {<<"FPFastMathDefault", 2>>, <<"MaximumRegistersIdINTEL", 1>>}}

-----------------------------------------------------------------------------
(* Annotations: SPIRVDecorate.h, SPIRVDecorate.cpp *)

\* A decoration of n literals: the vector takes what the header leaves.
Target == Words(<<"Target">>) \o Named("Dec")
Member == Words(<<"Target", "MemberNumber">>) \o Named("Dec")

SPIRVDecorateGeneric(n) == {Growing("Decorate", 3, Target \o Rest("Literals"), {n})}

\* Kinds whose text form has an encoder and a decoder of its own; the binary
\* decoder takes a string and what follows it as literals.
WithText(wc, head, text) ==
    {[Fixed("Decorate", wc, head \o text)
        EXCEPT !.bin = head \o Rest("Literals"), !.base = Len(head) + 1]}

SPIRVDecorateLinkageAttr ==
    WithText(4, Target, Text("Literals") \o Named("Literals"))

SPIRVDecorateStrAttrBase == WithText(3, Target, Text("Literals"))

SPIRVDecorateHostAccessINTEL ==
    Needs(WithText(4, Target, Named("Literals") \o Text("Literals")),
          {"GlobalVariableHostAccessINTEL"}, "SPV_INTEL_global_variable_host_access")

SPIRVDecorateHostAccessINTELLegacy ==
    Needs(WithText(4, Target, Words(<<"Literals">>) \o Text("Literals")),
          {"GlobalVariableDecorationsINTEL"}, "SPV_INTEL_global_variable_decorations")

SPIRVDecorateInitModeINTELLegacy ==
    Needs(SPIRVDecorateGeneric(1),
          {"GlobalVariableDecorationsINTEL"}, "SPV_INTEL_global_variable_decorations")

\* SPIRVDecorate::decode() has no case for this kind: it reads a literal where
\* encode() wrote the name of the mode.
SPIRVDecorateInitModeINTEL ==
    Needs({[Fixed("Decorate", 4, Target \o Named("Literals"))
              EXCEPT !.bin = Target \o Rest("Literals"), !.base = 3,
                     !.txt = Target \o Words(<<"Literals">>)]},
          {"GlobalVariableFPGADecorationsINTEL"},
          "SPV_INTEL_global_variable_fpga_decorations")

\* The text decoder joins the two strings into one.
SPIRVDecorateMergeINTELAttr ==
    Needs({[Fixed("Decorate", 3, Target \o Text("Name") \o Text("Direction"))
              EXCEPT !.bin = Target \o Rest("Literals"),
                     !.txt = Target \o Text("Joined") \o Text("Joined")]},
          {"FPGAMemoryAttributesINTEL"}, "SPV_INTEL_fpga_memory_attributes")

\* getRequiredExtension(), with the literals the kinds take and their capability.
DecorationExtension == {
    <<0, "FPGAMemoryAttributesINTEL", "SPV_INTEL_fpga_memory_attributes">>,
    <<1, "FPGAMemoryAttributesINTEL", "SPV_INTEL_fpga_memory_attributes">>,
    <<1, "FPGAMemoryAccessesINTEL", "SPV_INTEL_fpga_memory_accesses">>,
    <<0, "IndirectReferencesINTEL", "SPV_INTEL_function_pointers">>,
    <<1, "IOPipesINTEL", "SPV_INTEL_io_pipes">>,
    <<1, "FPGABufferLocationINTEL", "SPV_INTEL_fpga_buffer_location">>,
    <<2, "FunctionFloatControlINTEL", "SPV_INTEL_float_controls2">>,
    <<0, "FPGAClusterAttributesINTEL", "SPV_INTEL_fpga_cluster_attributes">>,
    <<2, "LoopFuseINTEL", "SPV_INTEL_loop_fuse">>,
    <<2, "FPGADSPControlINTEL", "SPV_INTEL_fpga_dsp_control">>,
    <<1, "FPGAInvocationPipeliningAttributesINTEL",
         "SPV_INTEL_fpga_invocation_pipelining_attributes">>,
    <<1, "RuntimeAlignedAttributeINTEL", "SPV_INTEL_runtime_aligned">>,
    <<1, "GlobalVariableDecorationsINTEL", "SPV_INTEL_global_variable_decorations">>,
    <<1, "GlobalVariableFPGADecorationsINTEL", "SPV_INTEL_global_variable_fpga_decorations">>,
    <<1, "FPGAArgumentInterfacesINTEL", "SPV_INTEL_fpga_argument_interfaces">>,
    <<3, "FPGALatencyControlINTEL", "SPV_INTEL_fpga_latency_control">>,
    <<1, "FPMaxErrorINTEL", "SPV_INTEL_fp_max_error">>,
    <<2, "CacheControlsINTEL", "SPV_INTEL_cache_controls">>}

SPIRVDecorate ==
    UNION {SPIRVDecorateGeneric(n) : n \in 0..3}
    \cup UNION {Needs(SPIRVDecorateGeneric(d[1]), {d[2]}, d[3]) : d \in DecorationExtension}

SPIRVDecorateId ==
    {Growing("DecorateId", 3, Target \o Rest("Literals"), 1..2)}
    \cup Needs({Growing("DecorateId", 3, Target \o Rest("Literals"), {1})},
               {"MemoryAccessAliasingINTEL"}, "SPV_INTEL_memory_access_aliasing")

SPIRVMemberDecorate ==
    {[f EXCEPT !.op = "MemberDecorate", !.reads = "MemberDecorate"] :
     f \in {Growing("MemberDecorate", 4, Member \o Rest("Literals"), Few)}
            \cup WithText(4, Member, Text("Literals"))}

\* Read by SPIRVDecorateString and SPIRVMemberDecorateString, which add nothing
\* to the constructors of their bases.
SPIRVDecorateString ==
    {[f EXCEPT !.op = "DecorateString"] : f \in SPIRVDecorateStrAttrBase}
SPIRVMemberDecorateString ==
    {[f EXCEPT !.op = "MemberDecorateString", !.reads = "MemberDecorate"] :
     f \in WithText(4, Member, Text("Literals"))}

SPIRVDecorationGroup == {Fixed("DecorationGroup", 2, Words(<<"Id">>))}

SPIRVGroupDecorateGeneric ==
    {Growing(op, 2, Words(<<"DecorationGroup">>) \o Rest("Targets"), Few) :
     op \in {"GroupDecorate", "GroupMemberDecorate"}}

-----------------------------------------------------------------------------
(* Entries of one extension: SPIRVAsm.h, SPIRVMemAliasingINTEL.h, SPIRVFnVar.h *)

SPIRVAsmTargetINTEL ==
    Needs({Fixed("AsmTargetINTEL", 2, Words(<<"Id">>) \o Text("Target"))},
          {"AsmINTEL"}, "SPV_INTEL_inline_assembly")

SPIRVAsmINTEL ==
    Needs({Fixed("AsmINTEL", 5, Words(<<"Type", "Id", "FunctionType", "Target">>)
                                  \o Text("Instructions") \o Text("Constraints"))},
          {"AsmINTEL"}, "SPV_INTEL_inline_assembly")

SPIRVAsmCallINTEL ==
    Needs({Growing("AsmCallINTEL", 4, Words(<<"Type", "Id", "Asm">>) \o Rest("Args"), Few)},
          {"AsmINTEL"}, "SPV_INTEL_inline_assembly")

SPIRVMemAliasingINTELGeneric ==
    Needs({Growing(op, 2, Words(<<"Id">>) \o Rest("Args"), Few) :
             op \in {"AliasDomainDeclINTEL", "AliasScopeDeclINTEL", "AliasScopeListDeclINTEL"}},
          {"MemoryAccessAliasingINTEL"}, "SPV_INTEL_memory_access_aliasing")

SPIRVConditionalEntryPointINTEL ==
    {Growing("ConditionalEntryPointINTEL", 4,
             Words(<<"Condition", "ExecModel", "Target">>) \o Text("Name")
               \o Rest("Variables"), Few)}

SPIRVConditionalExtensionINTEL ==
    {Fixed("ConditionalExtensionINTEL", 2, Words(<<"Condition">>) \o Text("S"))}

SPIRVConditionalCapabilityINTEL ==
    {Fixed("ConditionalCapabilityINTEL", 3, Words(<<"Condition">>) \o Named("Kind"))}

SPIRVConditionalCopyObjectINTEL ==
    {Growing("ConditionalCopyObjectINTEL", 3,
             Words(<<"Type", "Id">>) \o Rest("Ops"), {2, 4})}

SPIRVSpecConstantTargetINTEL ==
    {Growing("SpecConstantTargetINTEL", 4,
             Words(<<"Type", "Id", "Target">>) \o Rest("Features"), Few)}

SPIRVSpecConstantArchitectureINTEL ==
    {Fixed("SpecConstantArchitectureINTEL", 7,
           Words(<<"Type", "Id", "Category", "Family">>) \o Named("CmpOp")
             \o Words(<<"Architecture">>))}

SPIRVSpecConstantCapabilitiesINTEL ==
    {Growing("SpecConstantCapabilitiesINTEL", 3,
             Words(<<"Type", "Id">>) \o Rest("Capabilities"), 1..2)}

-----------------------------------------------------------------------------
(* Types, constants and functions: SPIRVType.h, SPIRVValue.h,              *)
(* SPIRVFunction.h and SPIRVBasicBlock.h.                                  *)

Plain(op, wc, fields) == {Fixed(op, wc, Words(fields))}
Vector(op, wc, fields, n, lens) == {Growing(op, wc, Words(fields) \o Rest(n), lens)}

-----------------------------------------------------------------------------
(* SPIRVType.h *)

SPIRVTypeVoid == Plain("TypeVoid", 2, <<"Id">>)
SPIRVTypeBool == Plain("TypeBool", 2, <<"Id">>)

\* Widths outside 8, 16, 32 and 64 need an extension.
SPIRVTypeInt ==
    LET int == Plain("TypeInt", 4, <<"Id", "BitWidth", "IsSigned">>)
    IN  int \cup UNION {Needs(int, {c}, NoExt) : c \in {"Int8", "Int16", "Int64"}}
        \cup Needs(int, {"Int4TypeINTEL"}, "SPV_INTEL_int4")
        \cup Needs(int, {"ArbitraryPrecisionIntegersINTEL"},
                   "SPV_INTEL_arbitrary_precision_integers")
        \cup Needs(int, {"ArbitraryPrecisionIntegersINTEL"},
                   "SPV_ALTERA_arbitrary_precision_integers")

\* The encoding of a float is written only when it is not IEEE 754.
SPIRVTypeFloat ==
    LET float == Plain("TypeFloat", 3, <<"Id", "BitWidth">>)
        encoded == Vector("TypeFloat", 3, <<"Id", "BitWidth">>, "FloatingPointEncoding", {1})
    IN  float \cup Needs(float, {"Float16Buffer"}, NoExt) \cup Needs(float, {"Float64"}, NoExt)
        \cup Needs(encoded, {"BFloat16TypeKHR"}, "SPV_KHR_bfloat16")
        \cup Needs(encoded, {"Float8EXT"}, "SPV_EXT_float8")
        \cup Needs(encoded, {"Float4EXT"}, "SPV_EXT_ocp_microscaling_types")
        \cup Needs(encoded, {"Float4E2M1INTEL"}, "SPV_INTEL_float4")

SPIRVTypePointer ==
    Needs(Plain("TypePointer", 4, <<"Id", "ElemStorageClass", "ElemTypeId">>),
          {"Addresses"}, NoExt)
SPIRVTypeUntypedPointerKHR ==
    Needs(Plain("TypeUntypedPointerKHR", 3, <<"Id", "ElemStorageClass">>),
          {"UntypedPointersKHR", "Addresses"}, "SPV_KHR_untyped_pointers")
SPIRVTypeForwardPointer == Plain("TypeForwardPointer", 3, <<"PointerId", "SC">>)
SPIRVTypeVector ==
    UNION {Needs(Plain("TypeVector", 4, <<"Id", "CompType", "CompCount">>), caps, NoExt) :
           caps \in {{}, {"Vector16"}, {"LongVectorEXT"}, {"VectorAnyINTEL"}}}
SPIRVTypeMatrix == Plain("TypeMatrix", 4, <<"Id", "ColType", "ColCount">>)
SPIRVTypeArray == Plain("TypeArray", 4, <<"Id", "ElemType", "Length">>)
SPIRVTypeVectorIdEXT ==
    Needs(Plain("TypeVectorIdEXT", 4, <<"Id", "CompType", "CompCount">>),
          {"LongVectorEXT"}, "SPV_EXT_long_vector")
SPIRVTypeOpaque == {Fixed("TypeOpaque", 2, Words(<<"Id">>) \o Text("Name"))}
SPIRVTypeImage ==
    Needs(Vector("TypeImage", 9, <<"Id", "SampledType", "Dim", "Depth", "Arrayed", "MS",
                                   "Sampled", "Format">>, "Acc", Opt),
          {"ImageBasic"}, NoExt)
SPIRVTypeSampler == Plain("TypeSampler", 2, <<"Id">>)
SPIRVTypeSampledImage == Plain("TypeSampledImage", 3, <<"Id", "ImgTy">>)
SPIRVTypePipeStorage == Plain("TypePipeStorage", 2, <<"Id">>)
SPIRVTypeStruct == Vector("TypeStruct", 2, <<"Id">>, "MemberTypeIdVec", Few)
SPIRVTypeFunction == Vector("TypeFunction", 3, <<"Id", "ReturnType">>, "ParamTypeIdVec", Few)
SPIRVTypeOpaqueGeneric ==
    {Fixed(op, 2, Words(<<"Id">>)) : op \in {"TypeEvent", "TypeReserveId"}}
SPIRVTypeDeviceEvent == Needs(Plain("TypeDeviceEvent", 2, <<"Id">>), {"DeviceEnqueue"}, NoExt)
SPIRVTypeQueue == Needs(Plain("TypeQueue", 2, <<"Id">>), {"DeviceEnqueue"}, NoExt)
SPIRVTypePipe == Needs(Plain("TypePipe", 3, <<"Id", "AccessQualifier">>), {"Pipes"}, NoExt)
SPIRVTypeBufferSurfaceINTEL ==
    Needs(Vector("TypeBufferSurfaceINTEL", 2, <<"Id">>, "AccessKind", Opt),
          {"VectorComputeINTEL"}, "SPV_INTEL_vector_compute")
SPIRVTypeVmeImageINTEL ==
    Needs(Plain("TypeVmeImageINTEL", 3, <<"Id", "ImgTy">>),
          {"SubgroupAvcMotionEstimationINTEL"}, "SPV_INTEL_device_side_avc_motion_estimation")
SPIRVTypeSubgroupAvcINTEL ==
    Needs(Plain("TypeAvcMcePayloadINTEL", 2, <<"Id">>),
          {"SubgroupAvcMotionEstimationINTEL"}, "SPV_INTEL_device_side_avc_motion_estimation")
SPIRVTypeTokenINTEL == Needs(Plain("TypeTokenINTEL", 2, <<"Id">>), {"TokenTypeINTEL"},
                             "SPV_INTEL_token_type")
SPIRVTypeCooperativeMatrixKHR ==
    Needs(Plain("TypeCooperativeMatrixKHR", 7,
                <<"Id", "CompType", "Scope", "Rows", "Columns", "Use">>),
          {"CooperativeMatrixKHR"}, "SPV_KHR_cooperative_matrix")
SPIRVTypeTaskSequenceINTEL ==
    Needs(Plain("TypeTaskSequenceINTEL", 2, <<"Id">>), {"TaskSequenceINTEL"},
          "SPV_INTEL_task_sequence")

-----------------------------------------------------------------------------
(* SPIRVValue.h *)

\* As many words as the width of the type needs.
SPIRVConstantBase ==
    UNION {Vector(op, 3, <<"Type", "Id">>, "Words", 1..2) : op \in {"Constant", "SpecConstant"}}

SPIRVConstantEmpty ==
    {Fixed(op, 3, Words(<<"Type", "Id">>)) :
     op \in {"ConstantTrue", "ConstantFalse", "SpecConstantTrue", "SpecConstantFalse",
             "ConstantNull", "Undef"}}
    \cup Needs(Plain("PoisonKHR", 3, <<"Type", "Id">>),
               {"PoisonFreezeKHR"}, "SPV_KHR_poison_freeze")

SPIRVConstantCompositeBase ==
    UNION {Vector(op, 3, <<"Type", "Id">>, "Elements", Few) :
           op \in {"ConstantComposite", "SpecConstantComposite"}}

SPIRVConstantSampler ==
    Needs(Plain("ConstantSampler", 6,
                <<"Type", "Id", "AddrMode", "ParamMode", "FilterMode">>),
          {"LiteralSampler"}, NoExt)

SPIRVConstantPipeStorage ==
    Needs(Plain("ConstantPipeStorage", 6,
                <<"Type", "Id", "PacketSize", "PacketAlign", "Capacity">>),
          {"Pipes", "PipeStorage"}, NoExt)

-----------------------------------------------------------------------------
(* SPIRVFunction.h, SPIRVBasicBlock.h *)

SPIRVConstantFunctionPointerINTEL ==
    Needs(Plain("ConstantFunctionPointerINTEL", 4, <<"Type", "Id", "TheFunction">>),
          {"FunctionPointersINTEL"}, "SPV_INTEL_function_pointers")
SPIRVFunction == Plain("Function", 5, <<"Type", "Id", "FCtrlMask", "FuncType">>)
SPIRVFunctionParameter == Plain("FunctionParameter", 3, <<"Type", "Id">>)
SPIRVFunctionEnd == Plain("FunctionEnd", 1, <<>>)
SPIRVLabel == Plain("Label", 2, <<"Id">>)

-----------------------------------------------------------------------------
\* What the module-level loop of the parser may meet.
ModuleEntries == UNION {
    SPIRVEntryPoint, SPIRVName, SPIRVMemberName, SPIRVString,
    SPIRVExtInstImport, SPIRVMemoryModel, SPIRVSource, SPIRVSourceExtension,
    SPIRVExtension, SPIRVCapability, SPIRVModuleProcessed,
    SPIRVExecutionMode, SPIRVExecutionModeId, SPIRVDecorate,
    SPIRVDecorateLinkageAttr, SPIRVDecorateStrAttrBase, SPIRVDecorateHostAccessINTEL,
    SPIRVDecorateHostAccessINTELLegacy, SPIRVDecorateInitModeINTELLegacy,
    SPIRVDecorateInitModeINTEL, SPIRVDecorateMergeINTELAttr, SPIRVDecorateId,
    SPIRVMemberDecorate, SPIRVDecorateString, SPIRVMemberDecorateString,
    SPIRVDecorationGroup, SPIRVGroupDecorateGeneric,
    SPIRVAsmTargetINTEL, SPIRVAsmINTEL, SPIRVMemAliasingINTELGeneric,
    SPIRVConditionalEntryPointINTEL, SPIRVConditionalExtensionINTEL,
    SPIRVConditionalCapabilityINTEL, SPIRVSpecConstantTargetINTEL,
    SPIRVSpecConstantArchitectureINTEL, SPIRVSpecConstantCapabilitiesINTEL}

TypesAndConstants == UNION {
    SPIRVTypeVoid, SPIRVTypeBool, SPIRVTypeInt, SPIRVTypeFloat, SPIRVTypePointer,
    SPIRVTypeUntypedPointerKHR, SPIRVTypeForwardPointer, SPIRVTypeVector,
    SPIRVTypeMatrix, SPIRVTypeArray, SPIRVTypeVectorIdEXT, SPIRVTypeOpaque,
    SPIRVTypeImage, SPIRVTypeSampler, SPIRVTypeSampledImage, SPIRVTypePipeStorage,
    SPIRVTypeStruct, SPIRVTypeFunction, SPIRVTypeOpaqueGeneric, SPIRVTypeDeviceEvent,
    SPIRVTypeQueue, SPIRVTypePipe, SPIRVTypeBufferSurfaceINTEL, SPIRVTypeVmeImageINTEL,
    SPIRVTypeSubgroupAvcINTEL, SPIRVTypeTokenINTEL, SPIRVTypeCooperativeMatrixKHR,
    SPIRVTypeTaskSequenceINTEL, SPIRVConstantBase, SPIRVConstantEmpty,
    SPIRVConstantCompositeBase, SPIRVConstantSampler, SPIRVConstantPipeStorage,
    SPIRVConstantFunctionPointerINTEL}

=============================================================================
