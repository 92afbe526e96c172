---------------------------- MODULE BuiltinCalls ----------------------------
(***************************************************************************)
(* Calls of OpenCL C builtins and of the SPIR-V friendly functions they    *)
(* become (lib/SPIRV/OCLUtil, SPIRVBuiltinHelper, SPIRVOpCode): the call   *)
(* record with its argument list, the operations of BuiltinCallMutator on  *)
(* it, and the tables that both directions of the translation share.       *)
(*                                                                         *)
(* Names are token sequences, split where the code takes them apart;       *)
(* argument positions are 0-based as in the code.  Values are evaluated:   *)
(* an argument holds the number (or the elements) it denotes at run time   *)
(* and whether it is a compile-time constant.                              *)
(***************************************************************************)
EXTENDS Integers, Sequences, SequencesExt

(***************************************************************************)
(* Types: e is the element kind ("s" and "u" are the signed and unsigned   *)
(* integers that a mangled name distinguishes and LLVM does not), w the    *)
(* width or, for a pointer, its address space, n the number of elements,   *)
(* "to" what a pointer points to or the kind of an image.                  *)
(***************************************************************************)
Ty(e, w, n) == [e |-> e, w |-> w, n |-> n, to |-> ""]
Ptr(space, e) == [e |-> "p", w |-> space, n |-> 1, to |-> e]
Img(kind) == [e |-> "img", w |-> 0, n |-> 1, to |-> kind]
Opaque(name) == [e |-> name, w |-> 0, n |-> 1, to |-> ""]
Void == Opaque("void")
I1 == Ty("b", 1, 1)
I32 == Ty("s", 32, 1)

SPIRAS_Private == 0
SPIRAS_Global == 1
SPIRAS_Local == 3
SPIRAS_Generic == 4

IsInt(t) == t.e \in {"s", "u"}
IsFloat(t) == t.e = "f"
IsVec(t) == t.n > 1
Elem(t) == [t EXCEPT !.n = 1]
\* What LLVM keeps of a type: no signs.
LLVMType(t) == [t EXCEPT !.e = IF @ = "u" THEN "s" ELSE @, !.to = IF @ = "u" THEN "s" ELSE @]

\* A value: its type, its elements, whether it is a constant, and the operand
\* of the translator's own switch function when it is the result of one.
Val(t, v) == [t |-> t, v |-> v, c |-> FALSE, w |-> <<>>]
Const(t, v) == [t |-> t, v |-> v, c |-> TRUE, w |-> <<>>]
addInt32(k) == Const(I32, <<k>>)

(***************************************************************************)
(* A call: the language of the callee ("ocl", "spv", or "ir" for a plain   *)
(* instruction), its name, the postfixes of a SPIR-V friendly name, the    *)
(* arguments, the returned type, and what is done with the returned value  *)
(* before the program sees it.                                             *)
(***************************************************************************)
PostOp(op, k) == [op |-> op, k |-> k]
Callee(c, lang, n, pf) == [c EXCEPT !.lang = lang, !.n = n, !.pf = pf]
toSPIRV(c, op) == Callee(c, "spv", <<op>>, <<>>)
toIR(c, op) == Callee(c, "ir", <<op>>, <<>>)
toExt(c, n) == Callee(c, "spv", <<"ext">> \o n, <<>>)

arg(c, i) == c.a[i + 1]
argSize(c) == Len(c.a)
setArgs(c, as) == [c EXCEPT !.a = as]
insertArg(c, i, v) == [c EXCEPT !.a = InsertAt(@, i + 1, v)]
appendArg(c, v) == [c EXCEPT !.a = Append(@, v)]
removeArg(c, i) == [c EXCEPT !.a = RemoveAt(@, i + 1)]
removeArgs(c, i, len) == [c EXCEPT !.a = SubSeq(@, 1, i) \o SubSeq(@, i + len + 1, Len(@))]
replaceArg(c, i, v) == [c EXCEPT !.a = [@ EXCEPT ![i + 1] = v]]
moveArg(c, from, to) ==
    IF from = to THEN c ELSE insertArg(removeArg(c, from), to, arg(c, from))
\* The new call returns t; the operations turn its result into the old one, so
\* they come before those that already follow the call.
changeReturnType(c, t, ops) == [c EXCEPT !.ret = t, !.post = ops \o @]

\* A mangled name spells the sign of every parameter; these are its last and,
\* for a clustered operation, its last but one letter.
LastSign(c) == Last(c.a).t
isLastFuncParamSigned(c) == LastSign(c).e = "s"

(***************************************************************************)
(* Enumerations of the two languages.                                      *)
(***************************************************************************)
OCLMemFenceMap == {<<1, 256>>, <<2, 512>>, <<4, 2048>>}
OCLMemOrderMap == {<<0, 0>>, <<2, 2>>, <<3, 4>>, <<4, 8>>, <<5, 16>>}
OCLMemScopeMap == {<<0, 4>>, <<1, 2>>, <<2, 1>>, <<3, 0>>, <<4, 3>>}
RoundingModeMap == {<<"rte", 0>>, <<"rtz", 1>>, <<"rtp", 2>>, <<"rtn", 3>>}
OCLMO_relaxed == 0
OCLMO_acquire == 2
OCLMO_release == 3
OCLMO_acq_rel == 4
OCLMO_seq_cst == 5
OCLMS_work_group == 1
OCLMS_device == 2
OCLMS_sub_group == 4
ScopeDevice == 1
ScopeWorkgroup == 2
ScopeSubgroup == 3
SignExtendMask == 4096
ZeroExtendMask == 8192
LodMask == 2
GradMask == 4
SampleMask == 64

MapTo(map, k) == (CHOOSE p \in map : p[1] = k)[2]
MapBack(map, k) == (CHOOSE p \in map : p[2] = k)[1]
HasBit(m, b) == (m \div b) % 2 = 1
SumOf(S) == FoldLeft(LAMBDA x, y : x + y, 0, SetToSeq(S))
mapBitMask(map, m) == SumOf({p[2] : p \in {q \in map : HasBit(m, q[1])}})
rmapBitMask(map, m) == SumOf({p[1] : p \in {q \in map : HasBit(m, q[2])}})

mapOCLMemSemanticToSPIRV(flags, order) ==
    MapTo(OCLMemOrderMap, order) + mapBitMask(OCLMemFenceMap, flags)
\* The order bits of a semantics mask, and the two halves mapped back.
MemOrderOf(sema) == MapBack(OCLMemOrderMap, (sema % 32) - (sema % 2))
mapSPIRVMemSemanticToOCL(sema) == <<rmapBitMask(OCLMemFenceMap, sema), MemOrderOf(sema)>>

\* A constant is folded; anything else goes through a switch function whose
\* call remembers its operand.
MapScope(v) == [v EXCEPT !.v = <<MapTo(OCLMemScopeMap, @[1])>>, !.w = IF v.c THEN <<>> ELSE v.v]
MapOrder(v) == [v EXCEPT !.v = <<MapTo(OCLMemOrderMap, @[1])>>, !.w = IF v.c THEN <<>> ELSE v.v]
Unwrapped(v, mapped) == [v EXCEPT !.v = IF v.w # <<>> THEN v.w ELSE mapped, !.w = <<>>]
transSPIRVMemoryScopeIntoOCLMemoryScope(v) == Unwrapped(v, <<MapBack(OCLMemScopeMap, v.v[1])>>)
transSPIRVMemorySemanticsIntoOCLMemoryOrder(v) == Unwrapped(v, <<MemOrderOf(v.v[1])>>)
transSPIRVMemorySemanticsIntoOCLMemFenceFlags(v) ==
    [v EXCEPT !.v = <<rmapBitMask(OCLMemFenceMap, v.v[1])>>, !.w = <<>>]

(***************************************************************************)
(* Images.                                                                 *)
(***************************************************************************)
Desc(kind) == [
    dim |-> IF kind \in {"image1d", "image1d_buffer", "image1d_array"} THEN 1
            ELSE IF kind = "image3d" THEN 3 ELSE 2,
    arrayed |-> kind \in {"image1d_array", "image2d_array", "image2d_array_msaa"},
    ms |-> kind \in {"image2d_msaa", "image2d_array_msaa"},
    buffer |-> kind = "image1d_buffer",
    depth |-> kind = "image2d_depth"]
ImageChannelDataTypeOffset == 4304
ImageChannelOrderOffset == 4272

(***************************************************************************)
(* Uniqued OpenCL builtin names and their opcodes, in the order of the     *)
(* table: several names may share an opcode, and the reverse map keeps the *)
(* last one.                                                               *)
(***************************************************************************)
AtomicBuiltins == <<
    <<<<"atom", "add">>, "AtomicIAdd">>, <<<<"atom", "sub">>, "AtomicISub">>,
    <<<<"atom", "xchg">>, "AtomicExchange">>, <<<<"atom", "dec">>, "AtomicIDecrement">>,
    <<<<"atom", "inc">>, "AtomicIIncrement">>, <<<<"atom", "cmpxchg">>, "AtomicCompareExchange">>,
    <<<<"atom", "min">>, "AtomicSMin">>, <<<<"atom", "max">>, "AtomicSMax">>,
    <<<<"atom", "and">>, "AtomicAnd">>, <<<<"atom", "or">>, "AtomicOr">>,
    <<<<"atom", "xor">>, "AtomicXor">>,
    <<<<"atomic", "flag", "test", "and", "set", "explicit">>, "AtomicFlagTestAndSet">>,
    <<<<"atomic", "flag", "clear", "explicit">>, "AtomicFlagClear">>,
    <<<<"atomic", "load", "explicit">>, "AtomicLoad">>,
    <<<<"atomic", "store", "explicit">>, "AtomicStore">>,
    <<<<"atomic", "exchange", "explicit">>, "AtomicExchange">>,
    <<<<"atomic", "compare", "exchange", "strong", "explicit">>, "AtomicCompareExchange">>,
    <<<<"atomic", "compare", "exchange", "weak", "explicit">>, "AtomicCompareExchangeWeak">>,
    <<<<"atomic", "inc">>, "AtomicIIncrement">>, <<<<"atomic", "dec">>, "AtomicIDecrement">>,
    <<<<"atomic", "fetch", "add", "explicit">>, "AtomicIAdd">>,
    <<<<"atomic", "fetch", "sub", "explicit">>, "AtomicISub">>,
    <<<<"atomic", "fetch", "u", "min", "explicit">>, "AtomicUMin">>,
    <<<<"atomic", "fetch", "u", "max", "explicit">>, "AtomicUMax">>,
    <<<<"atomic", "fetch", "min", "explicit">>, "AtomicSMin">>,
    <<<<"atomic", "fetch", "max", "explicit">>, "AtomicSMax">>,
    <<<<"atomic", "fetch", "and", "explicit">>, "AtomicAnd">>,
    <<<<"atomic", "fetch", "or", "explicit">>, "AtomicOr">>,
    <<<<"atomic", "fetch", "xor", "explicit">>, "AtomicXor">>>>

PlainBuiltins == <<
    <<<<"dot">>, "Dot">>, <<<<"async_work_group_copy">>, "GroupAsyncCopy">>,
    <<<<"async_work_group_strided_copy">>, "GroupAsyncCopy">>,
    <<<<"wait_group_events">>, "GroupWaitEvents">>, <<<<"isequal">>, "FOrdEqual">>,
    <<<<"isnotequal">>, "FUnordNotEqual">>, <<<<"isgreater">>, "FOrdGreaterThan">>,
    <<<<"isgreaterequal">>, "FOrdGreaterThanEqual">>, <<<<"isless">>, "FOrdLessThan">>,
    <<<<"islessequal">>, "FOrdLessThanEqual">>, <<<<"islessgreater">>, "FOrdNotEqual">>,
    <<<<"isordered">>, "Ordered">>, <<<<"isunordered">>, "Unordered">>,
    <<<<"isfinite">>, "IsFinite">>, <<<<"isinf">>, "IsInf">>, <<<<"isnan">>, "IsNan">>,
    <<<<"isnormal">>, "IsNormal">>, <<<<"signbit">>, "SignBitSet">>, <<<<"any">>, "Any">>,
    <<<<"all">>, "All">>, <<<<"popcount">>, "BitCount">>,
    <<<<"get_fence">>, "GenericPtrMemSemantics">>, <<<<"enqueue_marker">>, "EnqueueMarker">>,
    <<<<"enqueue_kernel">>, "EnqueueKernel">>,
    <<<<"get_kernel_sub_group_count_for_ndrange_impl">>, "GetKernelNDrangeSubGroupCount">>,
    <<<<"get_kernel_max_sub_group_size_for_ndrange_impl">>, "GetKernelNDrangeMaxSubGroupSize">>,
    <<<<"get_kernel_work_group_size_impl">>, "GetKernelWorkGroupSize">>,
    <<<<"get_kernel_preferred_work_group_size_multiple_impl">>, "GetKernelPreferredWorkGroupSizeMultiple">>,
    <<<<"retain_event">>, "RetainEvent">>, <<<<"release_event">>, "ReleaseEvent">>,
    <<<<"create_user_event">>, "CreateUserEvent">>, <<<<"is_valid_event">>, "IsValidEvent">>,
    <<<<"set_user_event_status">>, "SetUserEventStatus">>,
    <<<<"capture_event_profiling_info">>, "CaptureEventProfilingInfo">>,
    <<<<"get_default_queue">>, "GetDefaultQueue">>, <<<<"ndrange_1D">>, "BuildNDRange">>,
    <<<<"ndrange_2D">>, "BuildNDRange">>, <<<<"ndrange_3D">>, "BuildNDRange">>,
    <<<<"to_global">>, "GenericCastToPtrExplicit">>,
    <<<<"to_local">>, "GenericCastToPtrExplicit">>,
    <<<<"to_private">>, "GenericCastToPtrExplicit">>, <<<<"read_pipe_2">>, "ReadPipe">>,
    <<<<"write_pipe_2">>, "WritePipe">>, <<<<"read_pipe_2_bl">>, "ReadPipeBlockingINTEL">>,
    <<<<"write_pipe_2_bl">>, "WritePipeBlockingINTEL">>,
    <<<<"read_pipe_4">>, "ReservedReadPipe">>, <<<<"write_pipe_4">>, "ReservedWritePipe">>,
    <<<<"reserve_read_pipe">>, "ReserveReadPipePackets">>,
    <<<<"reserve_write_pipe">>, "ReserveWritePipePackets">>,
    <<<<"commit_read_pipe">>, "CommitReadPipe">>, <<<<"commit_write_pipe">>, "CommitWritePipe">>,
    <<<<"is_valid_reserve_id">>, "IsValidReserveId">>,
    <<<<"group", "reserve_read_pipe">>, "GroupReserveReadPipePackets">>,
    <<<<"group", "reserve_write_pipe">>, "GroupReserveWritePipePackets">>,
    <<<<"group", "commit_read_pipe">>, "GroupCommitReadPipe">>,
    <<<<"group", "commit_write_pipe">>, "GroupCommitWritePipe">>,
    <<<<"get_pipe_num_packets_ro">>, "GetNumPipePackets">>,
    <<<<"get_pipe_num_packets_wo">>, "GetNumPipePackets">>,
    <<<<"get_pipe_max_packets_ro">>, "GetMaxPipePackets">>,
    <<<<"get_pipe_max_packets_wo">>, "GetMaxPipePackets">>>>

GroupBuiltins == <<
    <<<<"group", "all">>, "GroupAll">>, <<<<"group", "any">>, "GroupAny">>,
    <<<<"group", "broadcast">>, "GroupBroadcast">>, <<<<"group", "i", "add">>, "GroupIAdd">>,
    <<<<"group", "f", "add">>, "GroupFAdd">>, <<<<"group", "f", "min">>, "GroupFMin">>,
    <<<<"group", "u", "min">>, "GroupUMin">>, <<<<"group", "s", "min">>, "GroupSMin">>,
    <<<<"group", "f", "max">>, "GroupFMax">>, <<<<"group", "u", "max">>, "GroupUMax">>,
    <<<<"group", "s", "max">>, "GroupSMax">>, <<<<"group", "i", "mul">>, "GroupIMulKHR">>,
    <<<<"group", "f", "mul">>, "GroupFMulKHR">>,
    <<<<"group", "i", "bitwise", "and">>, "GroupBitwiseAndKHR">>,
    <<<<"group", "i", "bitwise", "or">>, "GroupBitwiseOrKHR">>,
    <<<<"group", "i", "bitwise", "xor">>, "GroupBitwiseXorKHR">>,
    <<<<"group", "i", "logical", "and">>, "GroupLogicalAndKHR">>,
    <<<<"group", "i", "logical", "or">>, "GroupLogicalOrKHR">>,
    <<<<"group", "i", "logical", "xor">>, "GroupLogicalXorKHR">>,
    <<<<"SampledImage">>, "SampledImage">>,
    <<<<"ImageSampleExplicitLod">>, "ImageSampleExplicitLod">>, <<<<"read_image">>, "ImageRead">>,
    <<<<"write_image">>, "ImageWrite">>,
    <<<<"get_image_channel_data_type">>, "ImageQueryFormat">>,
    <<<<"get_image_channel_order">>, "ImageQueryOrder">>,
    <<<<"get_image_num_mip_levels">>, "ImageQueryLevels">>,
    <<<<"get_image_num_samples">>, "ImageQuerySamples">>,
    <<<<"intel_sub_group_shuffle">>, "SubgroupShuffleINTEL">>,
    <<<<"intel_sub_group_shuffle_down">>, "SubgroupShuffleDownINTEL">>,
    <<<<"intel_sub_group_shuffle_up">>, "SubgroupShuffleUpINTEL">>,
    <<<<"intel_sub_group_shuffle_xor">>, "SubgroupShuffleXorINTEL">>,
    <<<<"intel_sub_group_media_block_read">>, "SubgroupImageMediaBlockReadINTEL">>,
    <<<<"intel_sub_group_media_block_write">>, "SubgroupImageMediaBlockWriteINTEL">>,
    <<<<"group", "elect">>, "GroupNonUniformElect">>,
    <<<<"group", "non", "uniform", "all">>, "GroupNonUniformAll">>,
    <<<<"group", "non", "uniform", "any">>, "GroupNonUniformAny">>,
    <<<<"group", "non", "uniform", "all", "equal">>, "GroupNonUniformAllEqual">>,
    <<<<"group", "non", "uniform", "broadcast">>, "GroupNonUniformBroadcast">>,
    <<<<"group", "broadcast", "first">>, "GroupNonUniformBroadcastFirst">>,
    <<<<"group", "ballot">>, "GroupNonUniformBallot">>,
    <<<<"group", "inverse", "ballot">>, "GroupNonUniformInverseBallot">>,
    <<<<"group", "ballot", "bit", "extract">>, "GroupNonUniformBallotBitExtract">>,
    <<<<"group", "ballot", "bit", "count", "i", "add">>, "GroupNonUniformBallotBitCount">>,
    <<<<"group", "ballot", "find", "lsb">>, "GroupNonUniformBallotFindLSB">>,
    <<<<"group", "ballot", "find", "msb">>, "GroupNonUniformBallotFindMSB">>,
    <<<<"group", "non", "uniform", "i", "add">>, "GroupNonUniformIAdd">>,
    <<<<"group", "non", "uniform", "f", "add">>, "GroupNonUniformFAdd">>,
    <<<<"group", "non", "uniform", "i", "mul">>, "GroupNonUniformIMul">>,
    <<<<"group", "non", "uniform", "f", "mul">>, "GroupNonUniformFMul">>,
    <<<<"group", "non", "uniform", "s", "min">>, "GroupNonUniformSMin">>,
    <<<<"group", "non", "uniform", "u", "min">>, "GroupNonUniformUMin">>,
    <<<<"group", "non", "uniform", "f", "min">>, "GroupNonUniformFMin">>,
    <<<<"group", "non", "uniform", "s", "max">>, "GroupNonUniformSMax">>,
    <<<<"group", "non", "uniform", "u", "max">>, "GroupNonUniformUMax">>,
    <<<<"group", "non", "uniform", "f", "max">>, "GroupNonUniformFMax">>,
    <<<<"group", "non", "uniform", "i", "and">>, "GroupNonUniformBitwiseAnd">>,
    <<<<"group", "non", "uniform", "i", "or">>, "GroupNonUniformBitwiseOr">>,
    <<<<"group", "non", "uniform", "i", "xor">>, "GroupNonUniformBitwiseXor">>,
    <<<<"group", "non", "uniform", "logical", "i", "and">>, "GroupNonUniformLogicalAnd">>,
    <<<<"group", "non", "uniform", "logical", "i", "or">>, "GroupNonUniformLogicalOr">>,
    <<<<"group", "non", "uniform", "logical", "i", "xor">>, "GroupNonUniformLogicalXor">>,
    <<<<"group", "shuffle">>, "GroupNonUniformShuffle">>,
    <<<<"group", "shuffle", "xor">>, "GroupNonUniformShuffleXor">>,
    <<<<"group", "shuffle", "up">>, "GroupNonUniformShuffleUp">>,
    <<<<"group", "shuffle", "down">>, "GroupNonUniformShuffleDown">>,
    <<<<"group", "rotate">>, "GroupNonUniformRotateKHR">>,
    <<<<"group", "clustered", "rotate">>, "GroupNonUniformRotateKHR">>,
    <<<<"bitfield_insert">>, "BitFieldInsert">>,
    <<<<"bitfield_extract_signed">>, "BitFieldSExtract">>,
    <<<<"bitfield_extract_unsigned">>, "BitFieldUExtract">>, <<<<"bit_reverse">>, "BitReverse">>,
    <<<<"intel_work_group_barrier_arrive">>, "ControlBarrierArriveINTEL">>,
    <<<<"intel_work_group_barrier_wait">>, "ControlBarrierWaitINTEL">>>>

OCLSPIRVBuiltinMap == AtomicBuiltins \o PlainBuiltins \o GroupBuiltins
OCL12SPIRVBuiltinMap == <<
    <<<<"add">>, "AtomicIAdd">>, <<<<"sub">>, "AtomicISub">>, <<<<"xchg">>, "AtomicExchange">>,
    <<<<"cmpxchg">>, "AtomicCompareExchange">>, <<<<"inc">>, "AtomicIIncrement">>,
    <<<<"dec">>, "AtomicIDecrement">>, <<<<"min">>, "AtomicSMin">>, <<<<"max">>, "AtomicSMax">>,
    <<<<"u", "min">>, "AtomicUMin">>, <<<<"u", "max">>, "AtomicUMax">>, <<<<"and">>, "AtomicAnd">>,
    <<<<"or">>, "AtomicOr">>, <<<<"xor">>, "AtomicXor">>>>

FindOp(map, n) == {map[i][2] : i \in {j \in DOMAIN map : map[j][1] = n}}
RFind(map, op) == {i \in DOMAIN map : map[i][2] = op}
RMap(map, op) == map[CHOOSE i \in RFind(map, op) : \A j \in RFind(map, op) : j <= i][1]

\* Work-item functions and the SPIR-V variables behind them.
BuiltinVariableMap == {
    <<"get_work_dim", "WorkDim">>, <<"get_global_size", "GlobalSize">>,
    <<"get_global_id", "GlobalInvocationId">>, <<"get_global_offset", "GlobalOffset">>,
    <<"get_local_size", "WorkgroupSize">>, <<"get_enqueued_local_size", "EnqueuedWorkgroupSize">>,
    <<"get_local_id", "LocalInvocationId">>, <<"get_num_groups", "NumWorkgroups">>,
    <<"get_group_id", "WorkgroupId">>, <<"get_global_linear_id", "GlobalLinearId">>,
    <<"get_local_linear_id", "LocalInvocationIndex">>, <<"get_sub_group_size", "SubgroupSize">>,
    <<"get_max_sub_group_size", "SubgroupMaxSize">>, <<"get_num_sub_groups", "NumSubgroups">>,
    <<"get_enqueued_num_sub_groups", "NumEnqueuedSubgroups">>,
    <<"get_sub_group_id", "SubgroupId">>,
    <<"get_sub_group_local_id", "SubgroupLocalInvocationId">>,
    <<"get_sub_group_eq_mask", "SubgroupEqMask">>, <<"get_sub_group_ge_mask", "SubgroupGeMask">>,
    <<"get_sub_group_gt_mask", "SubgroupGtMask">>, <<"get_sub_group_le_mask", "SubgroupLeMask">>,
    <<"get_sub_group_lt_mask", "SubgroupLtMask">>}
VariableNames == {p[1] : p \in BuiltinVariableMap}
Variables == {p[2] : p \in BuiltinVariableMap}

\* Group operations: the prefix of a group builtin's name and the operand.
GroupOperationMap == {
    <<<<"reduce">>, 0>>, <<<<"scan", "inclusive">>, 1>>, <<<<"scan", "exclusive">>, 2>>,
    <<<<"ballot", "bit", "count">>, 0>>, <<<<"ballot", "inclusive", "scan">>, 1>>,
    <<<<"ballot", "exclusive", "scan">>, 2>>, <<<<"non", "uniform", "reduce">>, 0>>,
    <<<<"non", "uniform", "scan", "inclusive">>, 1>>,
    <<<<"non", "uniform", "scan", "exclusive">>, 2>>, <<<<"clustered", "reduce">>, 3>>}

\* Names of the OpenCL.std instructions that the translation treats on their own
\* or finds by adding the sign of the last parameter.
OCLExtOps == {
    <<"f", "min">>, <<"f", "max">>, <<"s", "min">>, <<"u", "min">>, <<"s", "max">>, <<"u", "max">>,
    <<"f", "clamp">>, <<"s", "clamp">>, <<"u", "clamp">>, <<"mix">>, <<"step">>, <<"smoothstep">>,
    <<"ldexp">>, <<"s", "abs">>, <<"u", "abs">>, <<"s", "mul_hi">>, <<"u", "mul_hi">>, <<"sqrt">>,
    <<"vload", "n">>, <<"vload", "half">>, <<"vload", "half", "n">>, <<"vloada", "half", "n">>,
    <<"vstore", "n">>, <<"vstore", "half">>, <<"vstore", "half", "r">>,
    <<"vstore", "half", "n">>, <<"vstore", "half", "n", "r">>,
    <<"vstorea", "half", "n">>, <<"vstorea", "half", "n", "r">>, <<"printf">>, <<"prefetch">>}

\* The digits of a vector's width in a name, and the letters of the data of a
\* sub-group block.
WidthToken(n) ==
    CASE n = 2 -> <<"2">> [] n = 3 -> <<"3">> [] n = 4 -> <<"4">> [] n = 8 -> <<"8">> [] n = 16 -> <<"16">>
      [] OTHER -> <<>>
DataPostfix(t) ==
    (CASE t.w = 8 -> <<"uc">> [] t.w = 16 -> <<"us">> [] t.w = 64 -> <<"ul">> [] OTHER -> <<>>) \o WidthToken(t.n)

=============================================================================
