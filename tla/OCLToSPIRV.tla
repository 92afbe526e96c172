----------------------------- MODULE OCLToSPIRV -----------------------------
(***************************************************************************)
(* The pass that turns calls of OpenCL C builtins into calls of SPIR-V     *)
(* friendly functions (lib/SPIRV/OCLToSPIRV.cpp).  Every visitCall handler *)
(* is an operator from a call to the call that replaces it; Handlers is    *)
(* the sequence of tests of visitCallInst, whose order decides where a     *)
(* name belongs that several tests accept.                                 *)
(***************************************************************************)
EXTENDS BuiltinCalls

CONSTANT Pointers   \* pointer values: address space of the type and operands

Starts(n, p) == IsPrefix(p, n)
HasToken(n, tok) == tok \in ToSet(n)

(***************************************************************************)
(* Looking a name up (transBuiltin, getExtOp).                             *)
(***************************************************************************)
\* The OpenCL.std instruction of a name, directly or with the sign of the last
\* parameter in front of it.
SignPrefix(t) == IF t.e \in {"s", "u", "f"} THEN <<t.e>> ELSE <<>>
getExtOp(c, n) ==
    IF n \in OCLExtOps THEN {n} ELSE {SignPrefix(LastSign(c)) \o n} \cap OCLExtOps

\* The call under its SPIR-V name, with the arguments and returned type that the
\* handler prepared, or the call as it was when no table knows the name.
transBuiltin(c, prepared, uniq, pf, ext) ==
    IF FindOp(OCLSPIRVBuiltinMap, uniq) # {}
    THEN LET op == CHOOSE o \in FindOp(OCLSPIRVBuiltinMap, uniq) : TRUE
         IN Callee(prepared, "spv", <<op>>, IF op = "ImageRead" THEN <<"R">> ELSE pf)
    ELSE IF ext /\ c.a # <<>> /\ getExtOp(c, uniq) # {}
    THEN Callee(prepared, "spv", <<"ext">> \o (CHOOSE n \in getExtOp(c, uniq) : TRUE), pf)
    ELSE IF Len(uniq) = 1 /\ uniq[1] \in VariableNames
    THEN Callee(prepared, "spv", <<MapTo(BuiltinVariableMap, uniq[1])>>, pf)
    ELSE c

visitCallBuiltinSimple(c) == transBuiltin(c, c, c.n, <<>>, TRUE)

(***************************************************************************)
(* Kernel ranges, copies, fences and barriers.                             *)
(***************************************************************************)
RangeDim(n) == IF n[2] = "1D" THEN 1 ELSE IF n[2] = "2D" THEN 2 ELSE 3
visitCallNDRange(c) ==
    LET len == RangeDim(c.n)
        zero == Const(Ty("s", 64, len), [i \in 1..len |-> 0])
        s == [c EXCEPT !.a = [i \in DOMAIN @ |-> IF i = 1 THEN @[i]
                                                 ELSE [@[i] EXCEPT !.t = Ty("s", 64, len)]]]
        r == CASE argSize(c) = 2 -> appendArg(appendArg(s, zero), zero)
               [] argSize(c) = 3 -> appendArg(s, zero)
               [] argSize(c) = 4 -> moveArg(s, 1, argSize(c) - 1)
    IN Callee(r, "spv", <<"BuildNDRange">>, <<c.n[2]>>)

visitCallAsyncWorkGroupCopy(c) ==
    LET s == IF c.n = <<"async_work_group_copy">>
             THEN insertArg(c, 3, Const(Ty("s", 64, 1), <<1>>)) ELSE c
    IN toSPIRV(insertArg(s, 0, addInt32(ScopeWorkgroup)), "GroupAsyncCopy")

transMemoryBarrier(c, flags, order, scope) ==
    toSPIRV(setArgs(c, <<addInt32(MapTo(OCLMemScopeMap, scope)),
                         addInt32(mapOCLMemSemanticToSPIRV(flags, order))>>), "MemoryBarrier")

visitCallAtomicWorkItemFence(c) ==
    transMemoryBarrier(c, arg(c, 0).v[1], arg(c, 1).v[1], arg(c, 2).v[1])

visitCallMemFence(c) ==
    transMemoryBarrier(c, arg(c, 0).v[1],
        CASE c.n = <<"read_mem_fence">> -> OCLMO_acquire
          [] c.n = <<"write_mem_fence">> -> OCLMO_release
          [] OTHER -> OCLMO_acq_rel,
        OCLMS_work_group)

getBarrierLiterals(c) ==
    <<arg(c, 0).v[1],
      IF argSize(c) = 1 THEN OCLMS_work_group ELSE arg(c, 1).v[1],
      IF c.n = <<"sub", "group", "barrier">> THEN OCLMS_sub_group ELSE OCLMS_work_group>>

BarrierArgs(lit, order) ==
    <<addInt32(MapTo(OCLMemScopeMap, lit[3])), addInt32(MapTo(OCLMemScopeMap, lit[2])),
      addInt32(mapOCLMemSemanticToSPIRV(lit[1], order))>>

visitCallBarrier(c) ==
    LET lit == getBarrierLiterals(c)
        order == IF lit[1] # 0 THEN OCLMO_seq_cst ELSE OCLMO_relaxed
    IN toSPIRV(setArgs(c, BarrierArgs(lit, order)), "ControlBarrier")

visitCallSplitBarrierINTEL(c) ==
    LET arrive == c.n = <<"intel_work_group_barrier_arrive">>
        order == IF arrive THEN OCLMO_release ELSE OCLMO_acquire
    IN toSPIRV(setArgs(c, BarrierArgs(getBarrierLiterals(c), order)),
               IF arrive THEN "ControlBarrierArriveINTEL" ELSE "ControlBarrierWaitINTEL")

(***************************************************************************)
(* Atomics.                                                                *)
(***************************************************************************)
\* The first address space other than generic among the origins of a pointer;
\* the last one found is looked at first.
RECURSIVE getAddressSpaceFromValue(_, _)
getAddressSpaceFromValue(work, visited) ==
    IF work = <<>> THEN SPIRAS_Generic
    ELSE LET cur == Last(work) IN
         IF cur \in visited THEN getAddressSpaceFromValue(Front(work), visited)
         ELSE IF Pointers[cur].space # SPIRAS_Generic THEN Pointers[cur].space
         ELSE getAddressSpaceFromValue(Front(work) \o Pointers[cur].from, visited \cup {cur})

getAtomicPointerMemorySemanticsMask(p) ==
    LET space == IF p.t.w = SPIRAS_Generic THEN getAddressSpaceFromValue(<<p.v[1]>>, {}) ELSE p.t.w
    IN CASE space = SPIRAS_Global -> 512
         [] space = SPIRAS_Local -> 256
         [] space = SPIRAS_Generic -> 768
         [] OTHER -> 0

FloatAtomic(op) ==
    CASE op \in {"AtomicIAdd", "AtomicISub"} -> "AtomicFAddEXT"
      [] op = "AtomicSMax" -> "AtomicFMaxEXT"
      [] op = "AtomicSMin" -> "AtomicFMinEXT"
      [] OTHER -> op

IsCompareExchange(uniq) == Starts(uniq, <<"atomic", "compare", "exchange">>)
MemoryOrderArgs(uniq) == IF IsCompareExchange(uniq) THEN 2 ELSE 1

\* object, others, orders, scope becomes object, scope, orders, others; the two
\* others of a compare exchange change places.
transAtomicBuiltin(c, uniq, extra) ==
    LET found == CHOOSE o \in FindOp(OCLSPIRVBuiltinMap, uniq) : TRUE
        float == IsFloat(c.ret)
        op == IF float THEN FloatAtomic(found) ELSE found
        full == [c EXCEPT !.a = @ \o [i \in DOMAIN extra |-> addInt32(extra[i])]]
        neg == IF float /\ found = "AtomicISub"
               THEN replaceArg(full, 1, [arg(full, 1) EXCEPT !.v = <<-@[1]>>, !.c = FALSE]) ELSE full
        orders == MemoryOrderArgs(uniq)
        scopeIdx == argSize(full) - 1
        orderIdx == scopeIdx - orders
        mask == getAtomicPointerMemorySemanticsMask(arg(full, 0))
        Sem(v) == LET m == MapOrder(v) IN
                  IF mask = 0 THEN m ELSE [m EXCEPT !.v = <<@[1] + mask>>, !.w = <<>>]
        mapped == [neg EXCEPT !.a = [i \in DOMAIN @ |->
                     IF i - 1 = scopeIdx THEN MapScope(@[i])
                     ELSE IF i - 1 \in orderIdx..(scopeIdx - 1) THEN Sem(@[i]) ELSE @[i]]]
        m1 == moveArg(mapped, orderIdx, 1)
        m2 == IF orders = 2 THEN moveArg(m1, orderIdx + 1, 2) ELSE m1
        m3 == moveArg(m2, scopeIdx, 1)
    IN toSPIRV(IF IsCompareExchange(uniq) THEN moveArg(m3, argSize(m3) - 1, argSize(m3) - 2) ELSE m3,
               op)

\* Old-style atomics (atom_, atomic_ without an order).
LegacyOps == {"add", "sub", "and", "or", "xor", "min", "max"}
IsLegacyAtomic(n) == Len(n) = 2 /\ n[2] \in LegacyOps \cup {"xchg", "cmpxchg", "inc", "dec"}
visitCallAtomicLegacy(c) ==
    LET stem == c.n[2]
        sign == IF stem \in {"min", "max"} /\ LastSign(c).e = "u" THEN <<"u">> ELSE <<>>
        uniq == <<"atomic">> \o
                (CASE stem \in LegacyOps -> <<"fetch">> \o sign \o <<stem, "explicit">>
                   [] stem = "xchg" -> <<"exchange", "explicit">>
                   [] stem = "cmpxchg" -> <<"compare", "exchange", "strong", "explicit">>
                   [] OTHER -> <<stem>>)
        relaxed == <<OCLMO_relaxed>>
    IN transAtomicBuiltin(c, uniq,
         (IF stem = "cmpxchg" THEN relaxed \o relaxed ELSE relaxed) \o <<OCLMS_work_group>>)

Cpp11MaxNumOps(stem) ==
    CASE stem[1] \in {"load", "flag"} -> 3
      [] stem[1] \in {"store", "exchange", "fetch"} -> 4
      [] stem[1] = "compare" -> 6
visitCallAtomicCpp11(c) ==
    LET stem == Tail(c.n)
        unsigned == stem[1] = "fetch" /\ stem[2] \in {"min", "max"} /\ arg(c, 0).t.to = "u"
        new == IF unsigned THEN InsertAt(stem, 2, "u") ELSE stem
        explicit == Last(stem) = "explicit"
        seqs == IF stem[1] = "compare" THEN <<OCLMO_seq_cst, OCLMO_seq_cst>> ELSE <<OCLMO_seq_cst>>
    IN IF explicit
       THEN transAtomicBuiltin(c, <<"atomic">> \o new,
                               IF argSize(c) < Cpp11MaxNumOps(stem) THEN <<OCLMS_device>> ELSE <<>>)
       ELSE transAtomicBuiltin(c, <<"atomic">> \o new \o <<"explicit">>, seqs \o <<OCLMS_device>>)

visitCallAtomicInit(c) == toIR(c, "store")

\* The expected value is loaded before the call; afterwards the old value is
\* stored where it came from and compared with it.
visitCallAtomicCmpXchg(c) ==
    LET t == arg(c, 2).t
        mem == IF IsFloat(t) THEN Ty("s", t.w, 1) ELSE t
        expected == arg(c, 1).v[2]
    IN changeReturnType(
         replaceArg(replaceArg(c, 1, Val(mem, <<expected>>)), 2, [arg(c, 2) EXCEPT !.t = mem]),
         mem, <<PostOp("store_expected", <<arg(c, 1).v[1]>>), PostOp("eq", <<expected>>)>>)

\* Atomics of floating point type with these names are left alone.
isComputeAtomicOCLBuiltin(n) ==
    \/ Len(n) = 2 /\ n[2] \in {"add", "sub", "min", "max", "inc", "dec", "cmpxchg", "and", "or", "xor"}
    \/ Len(n) > 2 /\ n[3] \in {"and", "or", "xor"}

IsCmpXchgCall(n) == Starts(n, <<"atomic", "compare", "exchange">>)
visitCallAtomic(c) ==
    LET s == IF IsCmpXchgCall(c.n) THEN visitCallAtomicCmpXchg(c) ELSE c
    IN CASE IsFloat(c.ret) /\ isComputeAtomicOCLBuiltin(c.n) -> c
         [] c.n = <<"atomic", "init">> -> visitCallAtomicInit(c)
         [] c.n = <<"atomic", "work", "item", "fence">> -> visitCallAtomicWorkItemFence(c)
         [] IsLegacyAtomic(c.n) -> visitCallAtomicLegacy(s)
         [] OTHER -> visitCallAtomicCpp11(s)

(***************************************************************************)
(* Conversions.                                                            *)
(***************************************************************************)
IsSaturated(n) == HasToken(n, "sat")
RoundingOf(n) == SelectSeq(n, LAMBDA x : x \in {p[1] : p \in RoundingModeMap})
SameElement(c) == LLVMType(Elem(arg(c, 0).t)) = LLVMType(Elem(c.ret))

\* A conversion between types that LLVM does not tell apart disappears unless it
\* saturates from one sign to the other.
IsUselessConvert(c) ==
    /\ SameElement(c)
    /\ ~(IsInt(c.ret) /\ IsSaturated(c.n) /\ isLastFuncParamSigned(c) # (c.ret.e = "s"))

visitCallConvert(c) ==
    LET src == arg(c, 0).t
        signed == isLastFuncParamSigned(c)
        target == c.ret.e = "s"
        crossing == IsInt(src) /\ IsInt(c.ret) /\ IsSaturated(c.n) /\ target # signed
        op == CASE crossing -> IF signed THEN "SatConvertSToU" ELSE "SatConvertUToS"
                [] IsInt(src) /\ IsInt(c.ret) -> IF signed THEN "SConvert" ELSE "UConvert"
                [] IsInt(src) -> IF signed THEN "ConvertSToF" ELSE "ConvertUToF"
                [] IsInt(c.ret) -> IF target THEN "ConvertFToS" ELSE "ConvertFToU"
                [] OTHER -> "FConvert"
    IN CASE IsUselessConvert(c) -> toIR(c, "value")
         [] HasToken(c.n, "custom") -> c
         [] OTHER -> Callee(c, "spv", <<op>>,
                       <<"R", c.ret.e>> \o (IF IsSaturated(c.n) /\ ~crossing THEN <<"sat">> ELSE <<>>)
                       \o RoundingOf(c.n))

(***************************************************************************)
(* Group functions.                                                        *)
(***************************************************************************)
WithFalse(v) == [v EXCEPT !.t = Ty("b", 1, @.n), !.v = [i \in DOMAIN @ |-> IF @[i] # 0 THEN 1 ELSE 0]]
\* The table's name for a reduction, a scan or a counted ballot: the letter in
\* front of the operation comes from the type that the mangled name ends with.
GroupTableName(c, fn) ==
    LET clustered == HasToken(fn, "clustered")
        op == IF fn[1] = "ballot" THEN "add" ELSE Last(fn)
        typed == arg(c, argSize(c) - (IF clustered THEN 2 ELSE 1)).t
        letter == CASE IsFloat(c.ret) -> "f"
                    [] op \notin {"min", "max"} -> "i"
                    [] OTHER -> IF typed.e = "s" THEN "s" ELSE "u"
    IN <<"group">> \o (CASE fn[1] = "ballot" -> <<"ballot", "bit", "count">>
                          [] fn[1] = "non" -> <<"non", "uniform">>
                          [] OTHER -> <<>>)
       \o (IF clustered THEN <<"non", "uniform">> ELSE <<>>)
       \o (IF HasToken(fn, "logical") THEN <<"logical">> ELSE <<>>)
       \o <<letter, op>>

ReturnsBool(uniq) ==
    \/ HasToken(uniq, "all") \/ HasToken(uniq, "any") \/ HasToken(uniq, "logical")
    \/ uniq \in {<<"group", "elect">>, <<"group", "inverse", "ballot">>,
                 <<"group", "ballot", "bit", "extract">>}
TakesBool(uniq) ==
    \/ (HasToken(uniq, "all") \/ HasToken(uniq, "any")) /\ ~HasToken(uniq, "equal")
    \/ HasToken(uniq, "logical") \/ uniq = <<"group", "ballot">>

visitCallGroupBuiltin(c) ==
    LET wait == c.n = <<"wait_group_events">>
        scope == IF wait \/ c.n[1] = "work" THEN ScopeWorkgroup ELSE ScopeSubgroup
        fn == SubSeq(c.n, 3, Len(c.n))
        kinds == {p \in GroupOperationMap : ~wait /\ Starts(fn, p[1])}
        uniq == IF wait THEN c.n ELSE IF kinds = {} THEN Tail(c.n) ELSE GroupTableName(c, fn)
        pre == <<addInt32(scope)>> \o (IF kinds = {} THEN <<>>
                                      ELSE <<addInt32((CHOOSE p \in kinds : TRUE)[2])>>)
        b == IF TakesBool(uniq) THEN replaceArg(c, 0, WithFalse(arg(c, 0))) ELSE c
        ids == [i \in 1..(argSize(c) - 1) |-> arg(c, i).v[1]]
        packed == IF uniq = <<"group", "broadcast">> /\ argSize(c) > 2
                  THEN setArgs(b, <<arg(b, 0), Val([arg(c, 1).t EXCEPT !.n = Len(ids)], ids)>>) ELSE b
        full == [packed EXCEPT !.a = pre \o @]
    IN transBuiltin(c, IF ReturnsBool(uniq) THEN changeReturnType(full, I1, <<PostOp("zext", <<>>)>>)
                       ELSE full, uniq, <<>>, FALSE)

(***************************************************************************)
(* Images.                                                                 *)
(***************************************************************************)
getImageSignZeroExt(n) ==
    CASE Last(n) = "i" -> SignExtendMask [] Last(n) = "ui" -> ZeroExtendMask [] OTHER -> 0

visitCallReadImageMSAA(c) ==
    insertArg(Callee(c, "spv", <<"ImageRead">>, <<"R">>), 2, addInt32(SampleMask))

visitCallReadImageWithSampler(c) ==
    LET sampled == [arg(c, 0) EXCEPT !.v = @ \o arg(c, 1).v, !.t.e = "sampled"]
        s == removeArg(replaceArg(c, 0, sampled), 1)
        mask == getImageSignZeroExt(c.n)
        args == CASE argSize(s) = 2 -> insertArg(appendArg(s, Const(Ty("f", 32, 1), <<0>>)), 2,
                                                 addInt32(mask + LodMask))
                  [] argSize(s) = 3 -> insertArg(s, 2, addInt32(mask + LodMask))
                  [] argSize(s) = 4 -> insertArg(s, 2, addInt32(mask + GradMask))
        call == Callee(args, "spv", <<"ImageSampleExplicitLod">>, <<"R">>)
    IN IF IsVec(c.ret) THEN call
       ELSE changeReturnType(call, [c.ret EXCEPT !.n = 4], <<PostOp("extract", <<0>>)>>)

visitCallReadWriteImage(c) ==
    LET read == c.n[1] = "read_image"
        sign == getImageSignZeroExt(c.n)
        lod == ~read /\ argSize(c) = 4
        moved == IF lod THEN moveArg(c, 2, 3) ELSE c
        mask == IF lod THEN sign + LodMask ELSE sign
        args == IF mask = 0 THEN moved
                ELSE insertArg(moved, IF lod THEN 3 ELSE argSize(c), addInt32(mask))
    IN transBuiltin(c, args, <<c.n[1]>>, <<>>, FALSE)

ImageDims(d) == d.dim + (IF d.arrayed THEN 1 ELSE 0)
SizePost(c, d) ==
    LET dims == ImageDims(d)
        Extract(i) == <<PostOp("extract", <<i>>)>>
    IN CASE dims = 1 -> <<>>
         [] c.n[1] = "get_image_dim" /\ d.dim = 3 -> <<PostOp("shuffle", <<0, 1, 2, 3>>)>>
         [] c.n[1] = "get_image_dim" /\ d.dim = 2 /\ d.arrayed -> <<PostOp("shuffle", <<0, 1>>)>>
         [] c.n[1] = "get_image_dim" -> <<>>
         [] c.n[1] = "get_image_width" -> Extract(0)
         [] c.n[1] = "get_image_height" -> Extract(1)
         [] c.n[1] = "get_image_depth" -> Extract(2)
         [] c.n[1] = "get_image_array_size" -> Extract(dims - 1)
visitCallGetImageSize(c) ==
    LET d == Desc(arg(c, 0).t.to)
        lod == ~d.buffer /\ ~d.ms
        call == Callee(c, "spv", <<IF lod THEN "ImageQuerySizeLod" ELSE "ImageQuerySize">>, <<"R">>)
    IN changeReturnType(IF lod THEN appendArg(call, addInt32(0)) ELSE call,
                        Ty("s", IF c.ret.w = 64 THEN 64 ELSE 32, ImageDims(d)), SizePost(c, d))

visitCallGetImageChannel(c, offset) ==
    changeReturnType(visitCallBuiltinSimple(c), c.ret, <<PostOp("add", <<offset>>)>>)

(***************************************************************************)
(* Tests, pointers, vectors in memory, products and clocks.                *)
(***************************************************************************)
visitCallAllAny(c) ==
    LET a == arg(c, 0)
        neg == [a EXCEPT !.t = Ty("b", 1, a.t.n), !.v = [i \in DOMAIN @ |-> IF @[i] < 0 THEN 1 ELSE 0]]
        s == changeReturnType(setArgs(c, <<neg>>), I1, <<PostOp("zext", <<>>)>>)
    IN IF IsVec(a.t) THEN toSPIRV(s, IF c.n = <<"all">> THEN "All" ELSE "Any") ELSE toIR(s, "value")

visitCallRelational(c) ==
    changeReturnType(visitCallBuiltinSimple(c), Ty("b", 1, c.ret.n),
                     <<PostOp("select", <<IF IsVec(c.ret) THEN -1 ELSE 1>>)>>)

StorageClass(space) == CASE space = SPIRAS_Private -> 7 [] space = SPIRAS_Global -> 5 [] space = SPIRAS_Local -> 4
visitCallToAddr(c) ==
    transBuiltin(c, appendArg(c, addInt32(StorageClass(c.ret.w))), c.n, <<"To">>, FALSE)

WidthOf(tok) ==
    CASE tok = "2" -> 2 [] tok = "3" -> 3 [] tok = "4" -> 4 [] tok = "8" -> 8 [] tok = "16" -> 16
      [] OTHER -> 1
\* The name with "n" for the width and "r" for the rounding mode.
transVecLoadStoreName(n) ==
    LET always == n[1] \in {"vloada", "vstorea"}
        r == IF RoundingOf(n) # <<>> THEN <<"r">> ELSE <<>>
        half == Len(n) > 1 /\ n[2] = "half"
    IN CASE ~half -> <<n[1], "n">>
         [] ~always /\ (Len(n) = 2 \/ n[3] \in ToSet(RoundingOf(n))) -> <<n[1], "half">> \o r
         [] OTHER -> <<n[1], "half", "n">> \o r
visitCallVecLoadStore(c) ==
    LET load == c.n[1] \in {"vload", "vloada"}
        pre == IF load /\ c.n # <<"vload", "half">> THEN <<addInt32(WidthOf(Last(c.n)))>>
               ELSE [i \in DOMAIN RoundingOf(c.n) |-> addInt32(MapTo(RoundingModeMap, RoundingOf(c.n)[i]))]
    IN transBuiltin(c, [c EXCEPT !.a = @ \o pre], transVecLoadStoreName(c.n),
                    IF load THEN <<"R">> ELSE <<>>, TRUE)

visitCallGetFence(c) ==
    changeReturnType(visitCallBuiltinSimple(c), c.ret, <<PostOp("lshr", <<8>>)>>)

visitCallDotFloat(c) == toIR(c, "fmul")

visitCallDot(c) ==
    LET sat == HasToken(c.n, "dot_acc_sat") \/ HasToken(c.n, "dot_acc_sat_4x8packed")
        packed == ~IsVec(arg(c, 0).t)
        first == IF packed THEN c.n[2] = "s" ELSE arg(c, 0).t.e = "s"
        second == IF packed THEN c.n[3] = "s" ELSE arg(c, 1).t.e = "s"
        op == (IF first # second THEN "SUDot" ELSE IF first THEN "SDot" ELSE "UDot")
        s == toSPIRV(c, IF sat THEN CASE op = "SUDot" -> "SUDotAccSat" [] op = "SDot" -> "SDotAccSat"
                                      [] OTHER -> "UDotAccSat" ELSE op)
        swapped == IF ~first /\ second THEN moveArg(s, 1, 0) ELSE s
    IN IF packed THEN appendArg(swapped, addInt32(0)) ELSE swapped

visitCallClockRead(c) ==
    LET scope == CASE Last(c.n) = "device" -> ScopeDevice
                   [] Last(c.n) = "work_group" -> ScopeWorkgroup
                   [] OTHER -> ScopeSubgroup
    IN appendArg(Callee(c, "spv", <<"ReadClockKHR">>, <<"R">>), addInt32(scope))

Splat(v, n) == [v EXCEPT !.t.n = n, !.v = [i \in 1..n |-> v.v[1]], !.c = FALSE]
ScalarPos(n) ==
    CASE n \in {<<"f", "min">>, <<"f", "max">>, <<"min">>, <<"max">>} -> {1}
      [] n = <<"clamp">> -> {1, 2}
      [] n = <<"mix">> -> {2}
      [] n = <<"step">> -> {0}
      [] n = <<"smoothstep">> -> {0, 1}
visitCallScalToVec(c) ==
    LET width == c.ret.n
        uniform == \A i \in DOMAIN c.a : IsVec(c.a[i].t) = IsVec(c.a[1].t)
        wide == [c EXCEPT !.a = [i \in DOMAIN @ |-> IF i - 1 \in ScalarPos(c.n) THEN Splat(@[i], width) ELSE @[i]]]
    IN IF uniform THEN visitCallBuiltinSimple(c)
       ELSE toExt(wide, CHOOSE n \in getExtOp(c, c.n) : TRUE)

visitCallLdexp(c) ==
    visitCallBuiltinSimple(IF argSize(c) = 2 /\ IsVec(arg(c, 0).t) /\ ~IsVec(arg(c, 1).t)
                           THEN replaceArg(c, 1, Splat(arg(c, 1), arg(c, 0).t.n)) ELSE c)

(***************************************************************************)
(* Device-side enqueue.  A block literal's value is its identity, size and *)
(* alignment; the array of local sizes is a pointer to its first element.  *)
(***************************************************************************)
NullPtr == Const(Ptr(SPIRAS_Generic, "event"), <<0>>)
BlockSize(v) == Const(I32, <<v.v[2]>>)
BlockAlign(v) == Const(I32, <<v.v[3]>>)
visitCallEnqueueKernel(c) ==
    LET events == HasToken(c.n, "events")
        f == IF events THEN 6 ELSE 3
        block == arg(c, f + 1)
        sizes == IF HasToken(c.n, "varargs") THEN arg(c, IF events THEN 9 ELSE 6) ELSE Val(I32, <<>>)
    IN toSPIRV(setArgs(c,
         SubSeq(c.a, 1, f) \o (IF events THEN <<>> ELSE <<addInt32(0), NullPtr, NullPtr>>)
         \o <<arg(c, f), block, BlockSize(block), BlockAlign(block)>>
         \o [i \in 1..Len(sizes.v) |-> [sizes EXCEPT !.v = SubSeq(@, i, Len(@))]]), "EnqueueKernel")

visitCallKernelQuery(c) ==
    LET block == Last(c.a)
    IN Callee(appendArg(appendArg(c, BlockSize(block)), BlockAlign(block)), "spv",
              <<CHOOSE o \in FindOp(OCLSPIRVBuiltinMap, c.n) : TRUE>>, <<>>)

(***************************************************************************)
(* Intel sub-group blocks and bfloat16 conversions.                        *)
(***************************************************************************)
visitSubgroupBlockReadINTEL(c) ==
    Callee(c, "spv", <<IF arg(c, 0).t.e = "img" THEN "SubgroupImageBlockReadINTEL"
                       ELSE "SubgroupBlockReadINTEL">>, DataPostfix(c.ret))
visitSubgroupBlockWriteINTEL(c) ==
    Callee(c, "spv", <<IF arg(c, 0).t.e = "img" THEN "SubgroupImageBlockWriteINTEL"
                       ELSE "SubgroupBlockWriteINTEL">>, DataPostfix(Last(c.a).t))
visitSubgroupImageMediaBlockINTEL(c) ==
    moveArg(Callee(c, "spv", <<IF c.n[1] = "intel_sub_group_media_block_read"
                               THEN "SubgroupImageMediaBlockReadINTEL"
                               ELSE "SubgroupImageMediaBlockWriteINTEL">>, <<"R">>), argSize(c) - 1, 0)

\* Types that do not fit the name stop the translation.
visitCallConvertBFloat16AsUshort(c) ==
    LET fits == /\ c.ret = Ty(c.ret.e, 16, WidthOf(Last(c.n))) /\ IsInt(c.ret)
                /\ arg(c, 0).t = Ty("f", 32, WidthOf(Last(c.n)))
    IN IF fits THEN toSPIRV(c, "ConvertFToBF16INTEL") ELSE Callee(c, "error", c.n, <<>>)
visitCallConvertAsBFloat16Float(c) ==
    LET fits == /\ c.ret = Ty("f", 32, WidthOf(Last(c.n))) /\ IsInt(arg(c, 0).t)
                /\ LLVMType(arg(c, 0).t) = Ty("s", 16, WidthOf(Last(c.n)))
    IN IF fits THEN toSPIRV(c, "ConvertBF16ToFINTEL") ELSE Callee(c, "error", c.n, <<>>)

(***************************************************************************)
(* The tests of visitCallInst in their order.                              *)
(***************************************************************************)
ImageSizeNames == {"get_image_width", "get_image_height", "get_image_depth", "get_image_dim",
                   "get_image_array_size"}
RelationalNames == {"isfinite", "isinf", "isnan", "isnormal", "signbit"}
ScalToVecNames == {<<"f", "min">>, <<"f", "max">>, <<"min">>, <<"max">>, <<"step">>, <<"smoothstep">>,
                   <<"clamp">>, <<"mix">>}
BarrierNames == {<<"work", "group", "barrier">>, <<"barrier">>, <<"sub", "group", "barrier">>}
HasArg(c, e) == \E i \in DOMAIN c.a : c.a[i].t.e = e
HasMsaa(c) == \E i \in DOMAIN c.a : c.a[i].t.e = "img" /\ Desc(c.a[i].t.to).ms
DotNames == {"dot", "dot_acc_sat", "dot_4x8packed", "dot_acc_sat_4x8packed"}
Handlers(c) ==
    LET n == c.n h == c.n[1] IN <<
    <<"NDRange", h = "ndrange">>,
    <<"AllAny", h \in {"all", "any"}>>,
    <<"AsyncWorkGroupCopy", h \in {"async_work_group_copy", "async_work_group_strided_copy"}>>,
    <<"Atomic", h \in {"atomic", "atom"}>>,
    <<"Convert", h = "convert">>,
    <<"GetImageSize", h \in ImageSizeNames>>,
    <<"GroupBuiltin", \/ h = "wait_group_events"
                      \/ Starts(n, <<"work", "group">>) /\ n \notin BarrierNames
                      \/ Starts(n, <<"sub", "group">>) /\ n \notin BarrierNames>>,
    <<"MemFence", h \in {"mem_fence", "read_mem_fence", "write_mem_fence"}>>,
    <<"ReadImageWithSampler", h = "read_image" /\ HasArg(c, "sampler")>>,
    <<"ReadImageMSAA", h = "read_image" /\ HasMsaa(c)>>,
    <<"ReadWriteImage", h \in {"read_image", "write_image"}>>,
    <<"ToAddr", h \in {"to_global", "to_local", "to_private"}>>,
    <<"VecLoadStore", h \in {"vload", "vloada", "vstore", "vstorea"}>>,
    <<"Relational", h \in RelationalNames>>,
    <<"Barrier", n \in BarrierNames>>,
    <<"GetFence", h = "get_fence">>,
    <<"DotFloat", h = "dot" /\ IsFloat(arg(c, 0).t) /\ ~IsVec(arg(c, 0).t)>>,
    <<"Simple", h \in DotNames /\ IsVec(arg(c, 0).t) /\ IsFloat(arg(c, 0).t)>>,
    <<"Dot", h \in DotNames>>,
    <<"ClockRead", h = "clock_read">>,
    <<"ScalToVec", n \in ScalToVecNames>>,
    <<"ImageChannelDataType", h = "get_image_channel_data_type">>,
    <<"ImageChannelOrder", h = "get_image_channel_order">>,
    <<"EnqueueKernel", h = "__enqueue_kernel">>,
    <<"KernelQuery", h \in {"get_kernel_work_group_size_impl",
                           "get_kernel_preferred_work_group_size_multiple_impl",
                           "get_kernel_sub_group_count_for_ndrange_impl",
                           "get_kernel_max_sub_group_size_for_ndrange_impl"}>>,
    <<"BlockRead", h = "intel_sub_group_block_read">>,
    <<"BlockWrite", h = "intel_sub_group_block_write">>,
    <<"MediaBlock", h \in {"intel_sub_group_media_block_read", "intel_sub_group_media_block_write"}>>,
    <<"SplitBarrier", h \in {"intel_work_group_barrier_arrive", "intel_work_group_barrier_wait"}>>,
    <<"Ldexp", h = "ldexp">>,
    <<"BFloat16AsUshort", h = "intel_convert_bfloat16_as_ushort">>,
    <<"AsBFloat16Float", h = "intel_convert_as_bfloat16_float">>,
    <<"Simple", TRUE>>>>

\* The handler of a call: that of the first test that holds.
handlerOf(c) ==
    LET hs == Handlers(c) IN
    hs[CHOOSE i \in DOMAIN hs : hs[i][2] /\ \A j \in 1..(i - 1) : ~hs[j][2]][1]

=============================================================================
