----------------------------- MODULE SPIRVToOCL -----------------------------
(***************************************************************************)
(* The passes that turn SPIR-V friendly calls into calls of OpenCL C       *)
(* builtins (lib/SPIRV/SPIRVToOCL.cpp with SPIRVToOCL12.cpp for OpenCL 1.2 *)
(* and SPIRVToOCL20.cpp for OpenCL 2.0): one operator per handler, the     *)
(* tests of visitCallInst, and the signs and enumerations that             *)
(* OCLBuiltinFuncMangleInfo::init puts back into the mangled name.         *)
(***************************************************************************)
EXTENDS BuiltinCalls

toOCL(c, n) == Callee(c, "ocl", n, <<>>)
Op(c) == c.n[1]
mapArg(c, i, F(_)) == replaceArg(c, i, F(arg(c, i)))

(***************************************************************************)
(* Classes of opcodes.                                                     *)
(***************************************************************************)
FPAtomics == {"AtomicFAddEXT", "AtomicFMinEXT", "AtomicFMaxEXT"}
Atomics == FPAtomics \cup
    {"AtomicLoad", "AtomicStore", "AtomicExchange", "AtomicCompareExchange", "AtomicIIncrement",
     "AtomicIDecrement", "AtomicIAdd", "AtomicISub", "AtomicSMin", "AtomicUMin", "AtomicSMax", "AtomicUMax",
     "AtomicAnd", "AtomicOr", "AtomicXor", "AtomicFlagTestAndSet", "AtomicFlagClear"}
TableNames(op) == {OCLSPIRVBuiltinMap[i][1] : i \in RFind(OCLSPIRVBuiltinMap, op)}
GroupLogical == {"GroupNonUniformLogicalAnd", "GroupNonUniformLogicalOr", "GroupNonUniformLogicalXor"}
UniformArithmetic == {"GroupIAdd", "GroupFAdd", "GroupFMin", "GroupUMin", "GroupSMin", "GroupFMax", "GroupUMax",
    "GroupSMax", "GroupIMulKHR", "GroupFMulKHR"}
NonUniformArithmetic == GroupLogical \cup
    {"GroupNonUniformIAdd", "GroupNonUniformFAdd", "GroupNonUniformIMul", "GroupNonUniformFMul",
     "GroupNonUniformSMin", "GroupNonUniformUMin", "GroupNonUniformFMin", "GroupNonUniformSMax",
     "GroupNonUniformUMax", "GroupNonUniformFMax", "GroupNonUniformBitwiseAnd", "GroupNonUniformBitwiseOr",
     "GroupNonUniformBitwiseXor"}
GroupPipes == {"GroupReserveReadPipePackets", "GroupReserveWritePipePackets", "GroupCommitReadPipe",
    "GroupCommitWritePipe"}
PacketPipes == {"ReadPipe", "WritePipe", "ReservedReadPipe", "ReservedWritePipe", "ReadPipeBlockingINTEL",
    "WritePipeBlockingINTEL"}
Pipes == GroupPipes \cup PacketPipes \cup
    {"ReserveReadPipePackets", "ReserveWritePipePackets", "CommitReadPipe", "CommitWritePipe",
     "IsValidReserveId", "GetNumPipePackets", "GetMaxPipePackets"}
IsGroupOp(op) == op \notin GroupPipes /\ \E n \in TableNames(op) : n[1] = "group"
hasGroupOperation(op) ==
    op \in UniformArithmetic \cup NonUniformArithmetic \cup {"GroupNonUniformBallotBitCount"}
MediaBlocks == {"SubgroupImageMediaBlockReadINTEL", "SubgroupImageMediaBlockWriteINTEL"}
IntelSubgroup == {"SubgroupShuffleINTEL", "SubgroupShuffleDownINTEL", "SubgroupShuffleUpINTEL",
    "SubgroupShuffleXorINTEL", "SubgroupBlockReadINTEL", "SubgroupBlockWriteINTEL",
    "SubgroupImageBlockReadINTEL", "SubgroupImageBlockWriteINTEL"}
Converts == {"SConvert", "UConvert", "ConvertSToF", "ConvertUToF", "ConvertFToS", "ConvertFToU", "FConvert",
    "SatConvertSToU", "SatConvertUToS"}
SatConverts == {"SatConvertSToU", "SatConvertUToS"}
CvtToUnsigned == {"ConvertFToU", "UConvert", "SatConvertSToU"}
CvtFromUnsigned == {"ConvertUToF", "UConvert", "SatConvertUToS"}
UnaryPredicates == {"Any", "All", "IsNan", "IsInf", "IsFinite", "IsNormal", "SignBitSet"}
Relational == UnaryPredicates \cup {"Ordered", "Unordered", "FOrdEqual", "FUnordNotEqual", "FOrdGreaterThan",
    "FOrdGreaterThanEqual", "FOrdLessThan", "FOrdLessThanEqual", "FOrdNotEqual"}
Dots == {"SDot", "UDot", "SUDot", "SDotAccSat", "UDotAccSat", "SUDotAccSat"}

(***************************************************************************)
(* Images.                                                                 *)
(***************************************************************************)
visitCallSPIRVImageQuerySize(c) ==
    LET d == Desc(arg(c, 0).t.to)
        size == IF d.dim = 1 THEN Callee(setArgs(c, <<arg(c, 0)>>), "ocl", <<"get_image_width">>, <<>>)
                ELSE Callee(setArgs(c, <<arg(c, 0)>>), "ocl", <<"get_image_dim">>, <<>>)
        fit == IF ~d.arrayed /\ d.dim # 3 THEN <<>>
               ELSE IF d.dim = 1 THEN <<PostOp("insert_first", <<2>>)>>
               ELSE <<PostOp("shuffle_poison", [i \in 1..c.ret.n |-> i - 1])>>
        array == IF d.arrayed THEN <<PostOp("get_image_array_size", <<c.ret.n - 1>>)>> ELSE <<>>
    IN changeReturnType(size, Ty("s", 32, CASE d.dim = 1 -> 1 [] d.dim = 2 -> 2 [] OTHER -> 4), fit \o array)

getTypeSuffix(t, signed) ==
    CASE IsFloat(t) -> IF t.w = 16 THEN "h" ELSE "f" [] signed -> "i" [] OTHER -> "ui"
\* The sign bits go into the name, the operands mask disappears, and so does a
\* constant level of detail of zero.
mutateCallImageOperands(c, n, t, index) ==
    LET has == argSize(c) > index
        mask == IF has /\ arg(c, index).c THEN arg(c, index).v[1] ELSE 0
        named == toOCL(c, n \o <<getTypeSuffix(t, ~HasBit(mask, ZeroExtendMask))>>)
        bare == IF has THEN removeArg(named, index) ELSE named
        lod == /\ has /\ index < argSize(bare) /\ HasBit(mask, LodMask)
               /\ IsFloat(arg(bare, index).t) /\ arg(bare, index).c /\ arg(bare, index).v = <<0>>
    IN IF lod THEN removeArgs(bare, index, argSize(bare) - index) ELSE bare

visitCallSPIRVImageSampleExplicitLodBuiltIn(c) ==
    LET m == mutateCallImageOperands(c, <<"sampled_read_image">>, Elem(c.ret), 2)
        s == arg(c, 0)
        split == insertArg(replaceArg(m, 0, [s EXCEPT !.t.e = "img", !.v = <<@[1]>>]), 1,
                           Val(Opaque("sampler"), <<s.v[2]>>))
    IN IF Desc(s.t.to).depth
       THEN changeReturnType(split, Elem(c.ret), <<PostOp("insert_first", <<4>>)>>) ELSE split

visitCallSPIRVImageWriteBuiltIn(c) ==
    LET m == mutateCallImageOperands(c, <<"write_image">>, arg(c, 2).t, 3)
    IN IF argSize(m) > 3 THEN moveArg(m, 3, 2) ELSE m
visitCallSPIRVImageReadBuiltIn(c) == mutateCallImageOperands(c, <<"read_image">>, c.ret, 2)

visitCallSPIRVImageQueryBuiltIn(c) ==
    changeReturnType(toOCL(c, RMap(OCLSPIRVBuiltinMap, Op(c))), c.ret,
      <<PostOp("sub", <<IF Op(c) = "ImageQueryFormat" THEN ImageChannelDataTypeOffset
                        ELSE ImageChannelOrderOffset>>)>>)

visitCallSPIRVImageMediaBlockBuiltin(c) ==
    LET t == IF Op(c) = "SubgroupImageMediaBlockWriteINTEL" THEN arg(c, 4).t ELSE c.ret
        postfix == <<CASE t.w = 8 -> "uc" [] t.w = 16 -> "us" [] OTHER -> "ui">> \o WidthToken(t.n)
    IN moveArg(toOCL(c, RMap(OCLSPIRVBuiltinMap, Op(c)) \o postfix), 0, argSize(c) - 1)

(***************************************************************************)
(* Group functions and pipes.                                              *)
(***************************************************************************)
\* Any other scope is llvm_unreachable.
getGroupBuiltinPrefix(c) ==
    CASE arg(c, 0).v[1] = ScopeWorkgroup -> <<"work">> [] arg(c, 0).v[1] = ScopeSubgroup -> <<"sub">>
OperationWord(k) ==
    CASE k = 0 -> <<"reduce">> [] k = 1 -> <<"scan", "inclusive">> [] k = 2 -> <<"scan", "exclusive">>
      [] k = 3 -> <<"clustered", "reduce">>
\* An unsigned operation keeps its letter until the name is mangled.
getUniformArithmeticBuiltinName(c) ==
    LET op == Tail(RMap(OCLSPIRVBuiltinMap, Op(c)))
    IN getGroupBuiltinPrefix(c) \o <<"group">> \o OperationWord(arg(c, 1).v[1])
       \o (IF op[1] = "u" THEN op ELSE Tail(op))
getNonUniformArithmeticBuiltinName(c) ==
    LET op == SubSeq(RMap(OCLSPIRVBuiltinMap, Op(c)), 4, Len(RMap(OCLSPIRVBuiltinMap, Op(c))))
        kind == arg(c, 1).v[1]
    IN getGroupBuiltinPrefix(c) \o <<"group">> \o (IF kind = 3 THEN <<>> ELSE <<"non", "uniform">>)
       \o OperationWord(kind)
       \o (CASE Op(c) \in GroupLogical -> <<op[1], op[3]>> [] op[1] = "u" -> op [] OTHER -> Tail(op))
getBallotBuiltinName(c) ==
    getGroupBuiltinPrefix(c) \o <<"group", "ballot">>
    \o (CASE arg(c, 1).v[1] = 0 -> <<"bit", "count">> [] arg(c, 1).v[1] = 1 -> <<"inclusive", "scan">>
          [] OTHER -> <<"exclusive", "scan">>)
getRotateBuiltinName(c) ==
    getGroupBuiltinPrefix(c) \o <<"group">> \o (IF argSize(c) = 4 THEN <<"clustered">> ELSE <<>>) \o <<"rotate">>
groupOCToOCLBuiltinName(c) ==
    CASE Op(c) = "GroupNonUniformRotateKHR" -> getRotateBuiltinName(c)
      [] ~hasGroupOperation(Op(c)) -> getGroupBuiltinPrefix(c) \o RMap(OCLSPIRVBuiltinMap, Op(c))
      [] Op(c) \in UniformArithmetic -> getUniformArithmeticBuiltinName(c)
      [] Op(c) \in NonUniformArithmetic -> getNonUniformArithmeticBuiltinName(c)
      [] OTHER -> getBallotBuiltinName(c)

needsInt32RetTy(op) ==
    op \in GroupLogical \cup {"GroupAny", "GroupAll", "GroupNonUniformAny", "GroupNonUniformAll",
      "GroupNonUniformAllEqual", "GroupNonUniformElect", "GroupNonUniformInverseBallot",
      "GroupNonUniformBallotBitExtract"}
HasArg0Extended(op) ==
    op \in GroupLogical \cup {"GroupAny", "GroupAll", "GroupNonUniformAny", "GroupNonUniformAll",
      "GroupNonUniformBallot"}
visitCallSPIRVGroupBuiltin(c) ==
    LET bare == removeArgs(toOCL(c, groupOCToOCLBuiltinName(c)), 0, IF hasGroupOperation(Op(c)) THEN 2 ELSE 1)
        ids == arg(bare, 1)
        split == [i \in 1..ids.t.n |-> Val(Elem(ids.t), <<ids.v[i]>>)]
        full == CASE Op(c) = "GroupBroadcast" /\ IsVec(ids.t) -> setArgs(bare, <<arg(bare, 0)>> \o split)
                  [] HasArg0Extended(Op(c)) -> mapArg(bare, 0, LAMBDA v : [v EXCEPT !.t = I32])
                  [] OTHER -> bare
    IN IF needsInt32RetTy(Op(c)) THEN changeReturnType(full, I32, <<PostOp("ne", <<0>>)>>) ELSE full

visitCallSPIRVPipeBuiltin(c) ==
    LET n == RMap(OCLSPIRVBuiltinMap, Op(c))
        scoped == n[1] = "group"
        s == IF scoped THEN removeArg(toOCL(c, getGroupBuiltinPrefix(c) \o n), 0) ELSE toOCL(c, n)
    IN IF Op(c) \in PacketPipes
       THEN mapArg(s, argSize(s) - 3, LAMBDA p : [p EXCEPT !.t = Ptr(SPIRAS_Generic, "s")]) ELSE s

visitCallSPIRVSubgroupINTELBuiltIn(c) ==
    CASE Op(c) \in {"SubgroupBlockReadINTEL", "SubgroupImageBlockReadINTEL"} ->
           toOCL(c, <<"intel_sub_group_block_read">> \o DataPostfix(c.ret))
      [] Op(c) = "SubgroupBlockWriteINTEL" ->
           toOCL(c, <<"intel_sub_group_block_write">> \o DataPostfix(arg(c, 1).t))
      [] Op(c) = "SubgroupImageBlockWriteINTEL" ->
           toOCL(c, <<"intel_sub_group_block_write">> \o DataPostfix(arg(c, 2).t))
      [] OTHER -> toOCL(c, RMap(OCLSPIRVBuiltinMap, Op(c)))

(***************************************************************************)
(* Ranges, pointers, conversions, copies, products, clocks, tests.         *)
(***************************************************************************)
\* The structure that the reader made the result is handed over by address
\* again, and so are arrays.
postProcessBuiltinReturningStruct(c) == insertArg(c, 0, Val(Ptr(SPIRAS_Private, "ndrange"), <<0>>))
postProcessBuiltinWithArrayArguments(c) ==
    [c EXCEPT !.a = [i \in DOMAIN @ |-> IF IsVec(@[i].t) THEN [@[i] EXCEPT !.t = Ptr(SPIRAS_Private, @.e)] ELSE @[i]]]
visitCallBuildNDRangeBuiltIn(c) == moveArg(toOCL(c, <<"ndrange", c.pf[1]>>), 2, 0)

visitCallGenericCastToPtrExplicitBuiltIn(c) ==
    removeArg(toOCL(c, <<CASE c.ret.w = SPIRAS_Global -> "to_global" [] c.ret.w = SPIRAS_Local -> "to_local"
                           [] OTHER -> "to_private">>), 1)

visitCallSPIRVCvtBuiltin(c) ==
    LET sat == "sat" \in ToSet(c.pf) \/ Op(c) \in SatConverts
        scalars == IsInt(arg(c, 0).t) /\ IsInt(c.ret) /\ ~IsVec(c.ret)
        rounding == IF scalars THEN <<>> ELSE SelectSeq(c.pf, LAMBDA x : x \in {p[1] : p \in RoundingModeMap})
        dest == IF IsInt(c.ret) THEN [c.ret EXCEPT !.e = IF Op(c) \in CvtToUnsigned THEN "u" ELSE "s"] ELSE c.ret
    IN [toOCL(c, <<IF Op(c) \in CvtFromUnsigned THEN "uconvert" ELSE "convert">>
                 \o (IF sat THEN <<"sat">> ELSE <<>>) \o rounding) EXCEPT !.ret = dest]

\* Casts of vectors that the reader left as instructions; there are no builtins
\* for booleans and 4-bit integers.
Casts == {"sext", "zext", "trunc", "sitofp", "uitofp", "fptosi", "fptoui", "fpext", "fptrunc"}
visitCastInst(c) ==
    LET dest == IF IsInt(c.ret) THEN [c.ret EXCEPT !.e = IF Op(c) = "fptoui" THEN "u" ELSE "s"] ELSE c.ret
        from == IF Op(c) \in {"zext", "uitofp"} THEN [arg(c, 0).t EXCEPT !.e = "u"] ELSE arg(c, 0).t
    IN IF ~IsVec(c.ret) \/ {arg(c, 0).t.w, c.ret.w} \cap {1, 4} # {} THEN c
       ELSE [toOCL(replaceArg(c, 0, [arg(c, 0) EXCEPT !.t = from]), <<"convert">>) EXCEPT !.ret = dest]

visitCallAsyncWorkGroupCopy(c) == removeArg(toOCL(c, RMap(OCLSPIRVBuiltinMap, Op(c))), 0)
visitCallGroupWaitEvents(c) == removeArg(toOCL(c, RMap(OCLSPIRVBuiltinMap, Op(c))), 0)

visitCallSPIRVGenericPtrMemSemantics(c) ==
    changeReturnType(toOCL(c, RMap(OCLSPIRVBuiltinMap, Op(c))), c.ret, <<PostOp("shl", <<8>>)>>)

visitCallSPIRVBFloat16Conversions(c) ==
    toOCL(c, <<IF Op(c) = "ConvertFToBF16INTEL" THEN "intel_convert_bfloat16_as_ushort"
               ELSE "intel_convert_as_bfloat16_float">> \o WidthToken(arg(c, 0).t.n))

\* Products whose result is not a 32-bit integer have no OpenCL builtin.
visitCallSPIRVDot(c) ==
    LET packed == ~IsVec(arg(c, 0).t)
        sat == Op(c) \in {"SDotAccSat", "UDotAccSat", "SUDotAccSat"}
        signs == CASE Op(c) \in {"SDot", "SDotAccSat"} -> <<"s", "s">>
                   [] Op(c) \in {"UDot", "UDotAccSat"} -> <<"u", "u">>
                   [] OTHER -> <<"s", "u">>
        result == IF signs = <<"u", "u">> THEN "uint" ELSE "int"
        stem == IF packed THEN IF sat THEN "dot_acc_sat_4x8packed" ELSE "dot_4x8packed"
                ELSE IF sat THEN "dot_acc_sat" ELSE "dot"
    IN IF Ty(c.ret.e, 32, 1) # c.ret THEN c
       ELSE IF packed THEN removeArg(toOCL(c, <<stem>> \o signs \o <<result>>), argSize(c) - 1)
       ELSE toOCL(c, <<stem>> \o signs)

visitCallSPIRVReadClockKHR(c) ==
    removeArg(toOCL(c, <<"clock_read">> \o (IF IsVec(c.ret) THEN <<"hilo">> ELSE <<>>)
      \o <<CASE arg(c, 0).v[1] = ScopeDevice -> "device" [] arg(c, 0).v[1] = ScopeWorkgroup -> "work_group"
             [] OTHER -> "sub_group">>), 0)

visitCallSPIRVAnyAll(c) ==
    changeReturnType(
      mapArg(toOCL(c, RMap(OCLSPIRVBuiltinMap, Op(c))), 0,
             LAMBDA v : IF v.t.w = 8 THEN v
                        ELSE [v EXCEPT !.t = Ty("s", 8, @.n), !.v = [i \in DOMAIN @ |-> -@[i]]]),
      I32, <<PostOp("trunc", <<>>)>>)
visitCallSPIRVRelational(c) ==
    LET w == arg(c, 0).t.w
    IN changeReturnType(toOCL(c, RMap(OCLSPIRVBuiltinMap, Op(c))),
                        Ty("s", IF IsVec(c.ret) THEN w ELSE 32, c.ret.n), <<PostOp("trunc", <<>>)>>)

visitCallSPIRVBuiltin(c) == toOCL(c, RMap(OCLSPIRVBuiltinMap, Op(c)))
visitCallSPIRVBuiltinVariable(c) == toOCL(c, <<MapBack(BuiltinVariableMap, Op(c))>>)

visitCallSPIRVOCLExt(c) == toOCL(c, Tail(c.n))
visitCallSPIRVVLoadn(c) ==
    LET k == Last(c.a).v[1]
    IN removeArg(toOCL(c, SubSeq(c.n, 2, Len(c.n) - 1) \o
                          (IF k = 1 THEN <<"1">> ELSE WidthToken(k))), argSize(c) - 1)
visitCallSPIRVVStore(c) ==
    LET rounded == Last(c.n) = "r"
        rounding == IF rounded THEN <<MapBack(RoundingModeMap, Last(c.a).v[1])>> ELSE <<>>
        stem == SelectSeq(Tail(c.n), LAMBDA x : x \notin {"n", "r"})
        width == IF "n" \in ToSet(c.n) THEN WidthToken(arg(c, 0).t.n) ELSE <<>>
        s == toOCL(c, stem \o width \o rounding)
    IN IF rounded THEN removeArg(s, argSize(s) - 1) ELSE s

(***************************************************************************)
(* OpenCL 1.2: no scopes, no orders.                                       *)
(***************************************************************************)
Flags(v) == transSPIRVMemorySemanticsIntoOCLMemFenceFlags(v)
MemoryBarrier12(c) == removeArg(mapArg(toOCL(c, <<"mem_fence">>), 1, Flags), 0)
ControlBarrier12(c) == removeArg(removeArg(mapArg(toOCL(c, <<"barrier">>), 2, Flags), 1), 0)
SplitBarrier12(c) ==
    removeArg(removeArg(mapArg(toOCL(c, RMap(OCLSPIRVBuiltinMap, Op(c))), 2, Flags), 1), 0)

mapAtomicName(op, t) ==
    CASE op = "AtomicFAddEXT" -> <<"atomic", "add">>
      [] op = "AtomicFMinEXT" -> <<"atomic", "min">>
      [] op = "AtomicFMaxEXT" -> <<"atomic", "max">>
      [] OTHER -> <<IF IsInt(t) /\ t.w = 64 /\ ~IsVec(t) THEN "atom" ELSE "atomic">> \o RMap(OCL12SPIRVBuiltinMap, op)
CommonAtomic12(c) == removeArgs(toOCL(c, mapAtomicName(Op(c), c.ret)), 1, 2)
UMinUMax12(c) == removeArg(removeArg(moveArg(toOCL(c, mapAtomicName(Op(c), c.ret)), 3, 1), 3), 2)
AtomicLoad12(c) ==
    appendArg(removeArg(removeArg(toOCL(c, mapAtomicName("AtomicIAdd", c.ret)), 2), 1), Const(c.ret, <<0>>))
AtomicStore12(c) ==
    LET t == arg(c, 3).t
    IN changeReturnType(removeArg(removeArg(toOCL(c, mapAtomicName("AtomicExchange", t)), 2), 1), t,
                        <<PostOp("drop", <<>>)>>)
FlagExchange12(c, k, post) ==
    changeReturnType(appendArg(removeArg(removeArg(toOCL(c, mapAtomicName("AtomicExchange", I32)), 2), 1), addInt32(k)),
                     I32, post)
AtomicFlagClear12(c) == FlagExchange12(c, 0, <<PostOp("drop", <<>>)>>)
AtomicFlagTestAndSet12(c) == FlagExchange12(c, 1, <<PostOp("trunc", <<>>)>>)
\* MUTANT: the comparator and the value keep the places of the instruction.
CmpExchg12InPlace(c) == removeArgs(toOCL(c, mapAtomicName("AtomicCompareExchange", c.ret)), 1, 3)
CmpExchg12(c) ==
    moveArg(removeArgs(toOCL(c, mapAtomicName("AtomicCompareExchange", c.ret)), 1, 3), 2, 1)
AtomicBuiltin12(c) ==
    CASE Op(c) = "AtomicLoad" -> AtomicLoad12(c)
      [] Op(c) = "AtomicStore" -> AtomicStore12(c)
      [] Op(c) = "AtomicFlagClear" -> AtomicFlagClear12(c)
      [] Op(c) = "AtomicFlagTestAndSet" -> AtomicFlagTestAndSet12(c)
      [] Op(c) \in {"AtomicUMin", "AtomicUMax"} -> UMinUMax12(c)
      [] Op(c) = "AtomicCompareExchange" -> CmpExchg12(c)
      [] OTHER -> CommonAtomic12(c)

(***************************************************************************)
(* OpenCL 2.0.                                                             *)
(***************************************************************************)
OCLScope(v) == transSPIRVMemoryScopeIntoOCLMemoryScope(v)
OCLOrder(v) == transSPIRVMemorySemanticsIntoOCLMemoryOrder(v)
MemoryBarrier20(c) ==
    toOCL(setArgs(c, <<Flags(arg(c, 1)), OCLOrder(arg(c, 1)), OCLScope(arg(c, 0))>>),
          <<"atomic", "work", "item", "fence">>)
ControlBarrier20(c) ==
    toOCL(setArgs(c, <<Flags(arg(c, 2)), OCLScope(arg(c, 1))>>),
          <<IF arg(c, 0).v[1] = ScopeWorkgroup THEN "work" ELSE "sub", "group", "barrier">>)
SplitBarrier20(c) ==
    toOCL(setArgs(c, <<Flags(arg(c, 2)), OCLScope(arg(c, 1))>>), RMap(OCLSPIRVBuiltinMap, Op(c)))

AtomicName20(op) ==
    CASE op = "AtomicFAddEXT" -> <<"atomic", "fetch", "add", "explicit">>
      [] op = "AtomicFMinEXT" -> <<"atomic", "fetch", "min", "explicit">>
      [] op = "AtomicFMaxEXT" -> <<"atomic", "fetch", "max", "explicit">>
      [] OTHER -> RMap(OCLSPIRVBuiltinMap, op)
\* object, scope, orders, others becomes object, last, orders, others, scope.
mutateCommonAtomicArguments(c) ==
    LET orders == IF Op(c) = "AtomicCompareExchange" THEN 2 ELSE 1
        generic == mapArg(toOCL(c, AtomicName20(Op(c))), 0, LAMBDA p : [p EXCEPT !.t.w = SPIRAS_Generic])
        mapped == [mapArg(generic, 1, OCLScope) EXCEPT
                    !.a = [i \in DOMAIN @ |-> IF i - 1 \in 2..(orders + 1) THEN OCLOrder(@[i]) ELSE @[i]]]
        m == moveArg(mapped, argSize(mapped) - 1, 2)
    IN moveArg(m, 1, argSize(m) - 1)
AtomicIncDec20(c, op) ==
    insertArg(toOCL(c, AtomicName20(IF op = "AtomicIIncrement" THEN "AtomicIAdd" ELSE "AtomicISub")), 1,
              Const(c.ret, <<1>>))
\* The comparator is put into a variable of its own, which holds the old value
\* after the call.
AtomicCmpExchg20(c) ==
    LET cell == Val(Ptr(SPIRAS_Generic, LLVMType(c.ret).e), <<2, arg(c, 1).v[1]>>)
    IN changeReturnType(moveArg(replaceArg(toOCL(c, <<"atomic", "compare", "exchange", "strong", "explicit">>),
                                           1, cell), 4, 2),
                        I1, <<PostOp("load_original", <<>>)>>)
AtomicBuiltin20(c) ==
    LET g == mutateCommonAtomicArguments(c)
    IN CASE Op(c) \in {"AtomicIIncrement", "AtomicIDecrement"} -> AtomicIncDec20(g, Op(c))
         [] Op(c) = "AtomicCompareExchange" -> AtomicCmpExchg20(g)
         [] OTHER -> g

visitCallSPIRVEnqueueKernel(c) ==
    LET varargs == argSize(c) > 10
        null == arg(c, 5).c /\ arg(c, 5).v = <<0>>
        events == ~(null /\ arg(c, 3).c) \/ arg(c, 3).v[1] # 0
        n == <<"__enqueue_kernel">> \o
             (CASE ~varargs /\ ~events -> <<"basic">> [] ~varargs -> <<"basic", "events">>
                [] ~events -> <<"varargs">> [] OTHER -> <<"events", "varargs">>)
        s == mapArg(toOCL(c, n), 6, LAMBDA f : [f EXCEPT !.t = Ptr(SPIRAS_Generic, "s")])
        m == moveArg(s, 10, 8)
        v == insertArg(m, 8, addInt32(argSize(m) - 10))
        r == IF varargs THEN removeArgs(v, 10, argSize(v) - 10) ELSE removeArgs(s, 8, 2)
    IN IF events THEN r ELSE removeArgs(r, 3, 3)

(***************************************************************************)
(* The name and the parameter types that are mangled (init): which         *)
(* integers are unsigned (-1 stands for all), and which are enumerations.  *)
(***************************************************************************)
IsName(n, p) == IsPrefix(p, n)
Has(n, tok) == tok \in ToSet(n)
UnsignedOfCore(n) ==
    CASE n[1] \in {"async_work_group_copy", "async_work_group_strided_copy"} -> {-1}
      [] n = <<"write_image", "ui">> -> {2}
      [] n = <<"prefetch">> -> {1}
      [] n[1] = "__enqueue_kernel" -> {}
      [] n[1] \in VariableNames \cup {"nan", "shuffle", "shuffle2", "get_fence", "mem_fence",
                "get_image_width", "get_image_dim",
                "get_image_channel_data_type", "get_image_channel_order", "get_image_num_samples",
                "get_image_num_mip_levels", "get_pipe_num_packets_wo", "get_pipe_max_packets_wo",
                "get_default_queue"} -> {-1}
      [] Has(n, "barrier") \/ n[1] \in {"intel_work_group_barrier_arrive", "intel_work_group_barrier_wait"} -> {0}
      [] n = <<"atomic", "work", "item", "fence">> -> {0}
      [] n[1] \in {"atom", "atomic"} -> IF Has(n, "u") THEN {-1} ELSE {}
      [] n[1] = "uconvert" -> {0}
      [] n[1] = "s" -> IF n = <<"s", "upsample">> THEN {1} ELSE {}
      [] n[1] = "u" -> {-1}
      [] OTHER -> {}
UnsignedOfMemory(n) ==
    CASE n[1] \in {"read_pipe_2", "write_pipe_2", "read_pipe_2_bl", "write_pipe_2_bl"} -> {2, 3}
      [] n[1] \in {"read_pipe_4", "write_pipe_4"} -> {2, 4, 5}
      [] Has(n, "reserve_read_pipe") \/ Has(n, "reserve_write_pipe") -> {1, 2, 3}
      [] Has(n, "commit_read_pipe") \/ Has(n, "commit_write_pipe") -> {2, 3}
      [] n[1] = "enqueue_marker" -> {1}
      [] n[1] \in {"vload", "vloada"} -> {0}
      [] n[1] \in {"vstore", "vstorea"} -> {1}
      [] n[1] = "ndrange" -> {0, 1, 2}
      [] OTHER -> {}
UnsignedOfGroup(n, k) ==
    CASE Has(n, "u") /\ Has(n, "group") -> {-1}
      [] Has(n, "broadcast") -> {-1}
      [] n[1] \in {"intel_sub_group_shuffle_down", "intel_sub_group_shuffle_up"} -> {2}
      [] n[1] \in {"intel_sub_group_shuffle", "intel_sub_group_shuffle_xor"} -> {1}
      [] n[1] = "intel_sub_group_block_write" -> IF k = 2 THEN {0, 1} ELSE {2}
      [] n[1] = "intel_sub_group_block_read" -> IF k = 1 THEN {0} ELSE {}
      [] n[1] = "intel_sub_group_media_block_write" -> {3}
      [] n[1] = "sub" /\ Has(n, "ballot") ->
           IF Has(n, "extract") THEN {0, 1} ELSE IF Len(n) > 3 THEN {0} ELSE {}
      [] IsName(n, <<"sub", "group", "clustered", "rotate">>) -> {2}
      [] n[1] = "sub" /\ (Has(n, "shuffle") \/ Has(n, "clustered")) -> {1}
      [] n[1] = "bitfield_insert" -> {2, 3}
      [] n[1] \in {"bitfield_extract_signed", "bitfield_extract_unsigned"} -> {1, 2}
      [] n[1] = "dot_4x8packed" -> {0, 1}
      [] n[1] = "dot_acc_sat_4x8packed" -> {0, 1} \cup (IF n[2] = "u" THEN {2} ELSE {})
      [] n[1] \in {"dot", "dot_acc_sat"} /\ Len(n) = 3 ->
           CASE n[3] = "s" -> {} [] n[2] = "s" -> {1} [] n[1] = "dot" -> {0, 1} [] OTHER -> {0, 1, 2}
      [] OTHER -> {}
\* What is left of the name: prefixes and letters that only told signs go away.
MangledName(n) ==
    CASE n[1] = "uconvert" -> <<"convert">> \o Tail(n)
      [] n[1] \in {"s", "u"} -> Tail(n)
      [] n = <<"f", "clamp">> -> <<"clamp">>
      [] n[1] = "sampled_read_image" -> <<"read_image">> \o Tail(n)
      [] n[1] \in {"dot", "dot_acc_sat"} -> <<n[1]>>
      [] n[1] \in {"atom", "atomic"} \/ Has(n, "group") -> SelectSeq(n, LAMBDA x : x # "u")
      [] OTHER -> n
\* MUTANT: a compare exchange is taken for an atomic with one order.
OrderArgsOfOne(n) ==
    CASE n = <<"atomic", "work", "item", "fence">> -> {1}
      [] n[1] = "atomic" /\ Last(n) = "explicit" -> IF Has(n, "load") \/ Has(n, "flag") THEN {1} ELSE {2}
      [] OTHER -> {}
OrderArgs(n) ==
    CASE n = <<"atomic", "work", "item", "fence">> -> {1}
      [] Has(n, "compare") -> {3, 4}
      [] n[1] = "atomic" /\ Last(n) = "explicit" -> IF Has(n, "load") \/ Has(n, "flag") THEN {1} ELSE {2}
      [] OTHER -> {}
ScopeArgs(n) ==
    CASE n = <<"atomic", "work", "item", "fence">> -> {2}
      [] Has(n, "barrier") \/ n[1] \in {"intel_work_group_barrier_arrive", "intel_work_group_barrier_wait"} -> {1}
      [] Has(n, "compare") -> {5}
      [] n[1] = "atomic" /\ Last(n) = "explicit" -> IF Has(n, "load") \/ Has(n, "flag") THEN {2} ELSE {3}
      [] OTHER -> {}
Mangled(c) ==
    LET n == c.n
        uns == UnsignedOfCore(n) \cup UnsignedOfMemory(n) \cup UnsignedOfGroup(n, argSize(c))
        Signed(i, t) ==
          CASE i - 1 \in OrderArgs(n) -> Ty("order", 32, 1)
            [] i - 1 \in ScopeArgs(n) -> Ty("scope", 32, 1)
            [] uns \cap {-1, i - 1} # {} /\ t.e = "s" -> [t EXCEPT !.e = "u"]
            [] uns \cap {-1, i - 1} # {} /\ t.e = "p" /\ t.to = "s" -> [t EXCEPT !.to = "u"]
            [] OTHER -> t
    IN [c EXCEPT !.n = MangledName(n),
                 !.a = [i \in DOMAIN @ |-> [@[i] EXCEPT !.t = Signed(i, @)]]]

(***************************************************************************)
(* The tests of visitCallInst in their order; the calls that no test       *)
(* accepts stay as they are.                                               *)
(***************************************************************************)
Vloads == {<<"vload", "n">>, <<"vload", "half", "n">>, <<"vloada", "half", "n">>}
Vstores == {<<"vstore", "n">>, <<"vstore", "half", "n">>, <<"vstorea", "half", "n">>, <<"vstore", "half", "r">>,
    <<"vstore", "half", "n", "r">>, <<"vstorea", "half", "n", "r">>}
BackHandlers(c) ==
    LET op == Op(c) IN <<
    <<"Cast", c.lang = "ir" /\ op \in Casts>>,
    <<"Kept", c.lang # "spv">>,
    <<"VLoadn", op = "ext" /\ Tail(c.n) \in Vloads>>,
    <<"VStore", op = "ext" /\ Tail(c.n) \in Vstores>>,
    <<"OCLExt", op = "ext">>,
    <<"Variable", op \in Variables>>,
    <<"ImageQuerySize", op \in {"ImageQuerySize", "ImageQuerySizeLod"}>>,
    <<"MemoryBarrier", op = "MemoryBarrier">>,
    <<"ControlBarrier", op = "ControlBarrier">>,
    <<"SplitBarrier", op \in {"ControlBarrierArriveINTEL", "ControlBarrierWaitINTEL"}>>,
    <<"Atomic", op \in Atomics>>,
    <<"Group", IsGroupOp(op)>>,
    <<"Pipe", op \in Pipes>>,
    <<"MediaBlock", op \in MediaBlocks>>,
    <<"SubgroupINTEL", op \in IntelSubgroup>>,
    <<"NDRange", op = "BuildNDRange">>,
    <<"ToAddr", op = "GenericCastToPtrExplicit">>,
    <<"Convert", op \in Converts>>,
    <<"AsyncWorkGroupCopy", op = "GroupAsyncCopy">>,
    <<"WaitEvents", op = "GroupWaitEvents">>,
    <<"ImageSample", op = "ImageSampleExplicitLod">>,
    <<"ImageWrite", op = "ImageWrite">>,
    <<"ImageRead", op = "ImageRead">>,
    <<"ImageQuery", op \in {"ImageQueryOrder", "ImageQueryFormat"}>>,
    <<"EnqueueKernel", op = "EnqueueKernel">>,
    <<"GetFence", op = "GenericPtrMemSemantics">>,
    <<"AnyAll", op \in {"Any", "All"}>>,
    <<"Relational", op \in Relational>>,
    <<"ReadClock", op = "ReadClockKHR">>,
    <<"BFloat16", op \in {"ConvertFToBF16INTEL", "ConvertBF16ToFINTEL"}>>,
    <<"Dot", op \in Dots>>,
    <<"Builtin", RFind(OCLSPIRVBuiltinMap, op) # {}>>,
    <<"Kept", TRUE>>>>
backHandlerOf(c) ==
    LET hs == BackHandlers(c) IN
    hs[CHOOSE i \in DOMAIN hs : hs[i][2] /\ \A j \in 1..(i - 1) : ~hs[j][2]][1]

=============================================================================
