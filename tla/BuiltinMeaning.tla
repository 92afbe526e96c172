--------------------------- MODULE BuiltinMeaning ---------------------------
(***************************************************************************)
(* What a call of an OpenCL C builtin, of a SPIR-V instruction or of a     *)
(* plain LLVM instruction means to the program: the function it performs,  *)
(* the values it gets for each role, whatever their order in the argument  *)
(* list, and what the program sees of the result once the operations that  *)
(* follow the call are done.  External: OpenCL C, OpenCL.std and SPIR-V.   *)
(***************************************************************************)
EXTENDS BuiltinCalls

CONSTANT Pointers   \* pointer values: address space of the type and operands

(***************************************************************************)
(* A shape: function, values by role, and the kind of answer it gives.     *)
(***************************************************************************)
Shape(f, in, kind) == [f |-> f, in |-> in, kind |-> kind, op |-> "", x |-> 0, e |-> 0]
Values(as) == [i \in DOMAIN as |-> as[i].v]
From(c, i) == SubSeq(c.a, i + 1, argSize(c))
Truths(v) == [i \in DOMAIN v |-> IF v[i] # 0 THEN 1 ELSE 0]
Signs(v) == [i \in DOMAIN v |-> IF v[i] < 0 THEN 1 ELSE 0]
BlockOf(v) == <<v.v, <<v.v[2]>>, <<v.v[3]>>>>
ToOCLScope(v) == <<MapBack(OCLMemScopeMap, v.v[1])>>
OrderOf(sema) ==
    CASE HasBit(sema, 16) -> OCLMO_seq_cst [] HasBit(sema, 8) -> OCLMO_acq_rel
      [] HasBit(sema, 4) -> OCLMO_release [] HasBit(sema, 2) -> OCLMO_acquire [] OTHER -> OCLMO_relaxed
FlagsOf(sema) ==
    (IF HasBit(sema, 256) THEN 1 ELSE 0) + (IF HasBit(sema, 512) THEN 2 ELSE 0)
    + (IF HasBit(sema, 2048) THEN 4 ELSE 0)

\* The spaces an address can lie in: those of its origins.
RECURSIVE Origins(_, _)
Origins(ps, seen) ==
    LET new == UNION {ToSet(Pointers[p].from) : p \in ps} \ seen
    IN IF new = {} THEN seen ELSE Origins(new, seen \cup new)
Spaces(p) == {Pointers[o].space : o \in {q \in Origins({p}, {p}) : Pointers[q].from = <<>>}}
Covered(p, sema) ==
    \A s \in Spaces(p) :
        CASE s = SPIRAS_Global -> HasBit(sema, 512) [] s = SPIRAS_Local -> HasBit(sema, 256)
          [] s = SPIRAS_Generic -> HasBit(sema, 256) /\ HasBit(sema, 512) [] OTHER -> TRUE

(***************************************************************************)
(* Atomics by their effect: operation, operand and expected value.         *)
(***************************************************************************)
Small(x) == x % 8
BitOf(x, i) == (Small(x) \div (2 ^ i)) % 2
Bitwise3(F(_, _), x, y) == F(BitOf(x, 0), BitOf(y, 0)) + 2 * F(BitOf(x, 1), BitOf(y, 1)) + 4 * F(BitOf(x, 2), BitOf(y, 2))
Least(x, y) == IF x < y THEN x ELSE y
Most(x, y) == IF x < y THEN y ELSE x
Effect(op, old, x, e) ==
    Small(CASE op = "add" -> old + x [] op = "sub" -> old - x [] op = "inc" -> old + 1 [] op = "dec" -> old - 1
            [] op = "load" -> old [] op \in {"exchange", "store"} -> x [] op = "clear" -> 0 [] op = "set" -> 1
            [] op = "min" -> Least(old, x) [] op = "max" -> Most(old, x)
            [] op = "umin" -> Least(Small(old), Small(x)) [] op = "umax" -> Most(Small(old), Small(x))
            [] op = "and" -> Bitwise3(LAMBDA p, q : p * q, old, x)
            [] op = "or" -> Bitwise3(Most, old, x)
            [] op = "xor" -> Bitwise3(LAMBDA p, q : (p + q) % 2, old, x)
            [] op = "compare" -> IF old = e THEN x ELSE old)
AtomicSPV == {
    <<"AtomicLoad", "load">>, <<"AtomicStore", "store">>, <<"AtomicExchange", "exchange">>,
    <<"AtomicCompareExchange", "compare">>, <<"AtomicCompareExchangeWeak", "compare">>,
    <<"AtomicIIncrement", "inc">>, <<"AtomicIDecrement", "dec">>, <<"AtomicIAdd", "add">>,
    <<"AtomicISub", "sub">>, <<"AtomicSMin", "min">>, <<"AtomicUMin", "umin">>, <<"AtomicSMax", "max">>,
    <<"AtomicUMax", "umax">>, <<"AtomicAnd", "and">>, <<"AtomicOr", "or">>, <<"AtomicXor", "xor">>,
    <<"AtomicFlagTestAndSet", "set">>, <<"AtomicFlagClear", "clear">>, <<"AtomicFAddEXT", "add">>,
    <<"AtomicFMinEXT", "min">>, <<"AtomicFMaxEXT", "max">>}
AtomicWords == {"add", "sub", "inc", "dec", "load", "store", "min", "max", "and", "or", "xor", "compare",
    "exchange"}
AtomicOf(c) ==
    LET n == c.n
        word == CASE Last(n) = "xchg" -> "exchange" [] Last(n) = "cmpxchg" -> "compare"
                  [] Len(n) > 1 /\ n[2] = "flag" -> IF n[3] = "clear" THEN "clear" ELSE "set"
                  [] OTHER -> CHOOSE w \in AtomicWords : w \in ToSet(SubSeq(n, 2, IF "fetch" \in ToSet(n) THEN 3 ELSE 2))
    IN IF word \in {"min", "max"} /\ arg(c, 1).t.e = "u" THEN IF word = "min" THEN "umin" ELSE "umax" ELSE word
Atomic(op, p, x, e, orders, scope, covered) ==
    [Shape(<<"atomic">>, <<p.v, orders, <<scope>>, <<IF covered THEN 1 ELSE 0>>>>, "atomic")
       EXCEPT !.op = op, !.x = x, !.e = e]
Operandless == {"load", "inc", "dec", "clear", "set"}
OrderCount(op) == IF op = "compare" THEN 2 ELSE 1
OCLAtomic(c) ==
    LET op == AtomicOf(c)
        legacy == Len(c.n) = 2 /\ c.n[2] \notin {"load", "store", "exchange"}
        k == OrderCount(op)
        x == CASE op \in Operandless -> 0 [] op = "compare" -> arg(c, 2).v[1] [] OTHER -> arg(c, 1).v[1]
        e == IF op # "compare" THEN 0 ELSE Last(arg(c, 1).v)
        first == CASE op \in Operandless -> 1 [] op = "compare" -> 3 [] OTHER -> 2
        explicit == Last(c.n) = "explicit"
        orders == [i \in 1..k |-> CASE legacy -> OCLMO_relaxed [] explicit -> arg(c, first + i - 1).v[1]
                                    [] OTHER -> OCLMO_seq_cst]
        scope == CASE legacy -> OCLMS_work_group
                   [] explicit /\ argSize(c) > first + k -> Last(c.a).v[1] [] OTHER -> OCLMS_device
    IN Atomic(op, arg(c, 0), x, e, orders, scope, TRUE)
SPVAtomic(c) ==
    LET op == MapTo(AtomicSPV, c.n[1])
        k == OrderCount(op)
        sema == [i \in 1..k |-> arg(c, 1 + i).v[1]]
    IN Atomic(op, arg(c, 0), IF op \in Operandless THEN 0 ELSE arg(c, 2 + k).v[1],
              IF op = "compare" THEN arg(c, 5).v[1] ELSE 0,
              [i \in 1..k |-> OrderOf(sema[i])], ToOCLScope(arg(c, 1))[1],
              \A i \in 1..k : Covered(arg(c, 0).v[1], sema[i]))

(***************************************************************************)
(* Conversions: the sign of a type counts only where it can change the     *)
(* result.                                                                 *)
(***************************************************************************)
Conversion(v, from, to, sat, rounding) ==
    LET ints == IsInt(from) /\ IsInt(to)
        src == IF ints /\ ~sat /\ to.w <= from.w THEN "s" ELSE from.e
        dst == IF ints /\ ~sat THEN "s" ELSE to.e
        mode == CASE ints -> "none" [] rounding # <<>> -> rounding[1]
                  [] IsInt(to) -> "rtz" [] OTHER -> "rte"
    IN Shape(<<"convert", src, dst, mode, IF sat THEN "sat" ELSE "wrap">>, <<v.v, <<from.w>>, <<to.w>>>>, "same")
Roundings(n) == SelectSeq(n, LAMBDA x : x \in {p[1] : p \in RoundingModeMap})
OCLConversion(c) ==
    LET v == arg(c, 0) sat == "sat" \in ToSet(c.n)
    IN IF Elem(v.t) = Elem(c.ret) \/ (LLVMType(Elem(v.t)) = LLVMType(Elem(c.ret)) /\ ~sat)
       THEN Shape(<<"value">>, <<>>, "value")
       ELSE Conversion(v, v.t, c.ret, sat, Roundings(c.n))
SignOfOp(op) ==
    CASE op \in {"SConvert", "sext", "trunc"} -> <<"s", "s">> [] op \in {"UConvert", "zext"} -> <<"u", "u">>
      [] op \in {"ConvertSToF", "sitofp"} -> <<"s", "f">> [] op \in {"ConvertUToF", "uitofp"} -> <<"u", "f">>
      [] op \in {"ConvertFToS", "fptosi"} -> <<"f", "s">> [] op \in {"ConvertFToU", "fptoui"} -> <<"f", "u">>
      [] op = "SatConvertSToU" -> <<"s", "u">> [] op = "SatConvertUToS" -> <<"u", "s">> [] OTHER -> <<"f", "f">>
OpConversion(c) ==
    LET s == SignOfOp(c.n[1])
    IN Conversion(arg(c, 0), [arg(c, 0).t EXCEPT !.e = s[1]], [c.ret EXCEPT !.e = s[2]],
                  "sat" \in ToSet(c.pf) \/ c.n[1] \in {"SatConvertSToU", "SatConvertUToS"}, Roundings(c.pf))

(***************************************************************************)
(* Images.  A read is the image, its sampler, the coordinate, what selects *)
(* the texel beyond it (level, gradients, sample) and the sign of texels.  *)
(***************************************************************************)
SignName(n) == CASE Last(n) = "i" -> 1 [] Last(n) = "ui" -> 2 [] OTHER -> 0
SignMask(mask, t) ==
    IF IsFloat(t) THEN 0 ELSE IF HasBit(mask, ZeroExtendMask) THEN 2 ELSE IF HasBit(mask, SignExtendMask) THEN 1 ELSE 0
ReadOf(img, smp, xy, how, extra, sign) ==
    Shape(<<"read">>, <<img, smp, xy, <<how>>>> \o extra \o <<<<sign>>>>, "same")
OCLRead(c) ==
    LET s == arg(c, 1).t.e = "sampler"
        rest == From(c, IF s THEN 3 ELSE 2)
        how == CASE s /\ Len(rest) = 2 -> GradMask [] s -> LodMask
                 [] Desc(arg(c, 0).t.to).ms -> SampleMask [] OTHER -> 0
    IN ReadOf(arg(c, 0).v, IF s THEN arg(c, 1).v ELSE <<>>, arg(c, IF s THEN 2 ELSE 1).v, how,
              IF s /\ rest = <<>> THEN <<<<0>>>> ELSE Values(rest), SignName(c.n))
SPVRead(c) ==
    LET mask == IF argSize(c) > 2 THEN arg(c, 2).v[1] ELSE 0
    IN ReadOf(<<arg(c, 0).v[1]>>, Tail(arg(c, 0).v), arg(c, 1).v, mask % SignExtendMask, Values(From(c, 3)),
              SignMask(mask, c.ret))
OCLWrite(c) ==
    Shape(<<"write">>, <<arg(c, 0).v, arg(c, 1).v, Last(c.a).v, IF argSize(c) = 4 THEN arg(c, 2).v ELSE <<0>>,
                         <<SignName(c.n)>>>>, "same")
SPVWrite(c) ==
    LET mask == IF argSize(c) > 3 THEN arg(c, 3).v[1] ELSE 0
    IN Shape(<<"write">>, <<arg(c, 0).v, arg(c, 1).v, arg(c, 2).v, IF HasBit(mask, LodMask) THEN arg(c, 4).v ELSE <<0>>,
                            <<SignMask(mask, arg(c, 2).t)>>>>, "same")
\* Width, height, depth and number of elements of the images of the model.
Width == 7
Height == 8
Depth == 9
Layers == 5
Extent(d) == SubSeq(<<Width, Height, Depth>>, 1, d.dim)
SizeOf(c) ==
    LET d == Desc(arg(c, 0).t.to) whole == Extent(d) \o (IF d.arrayed THEN <<Layers>> ELSE <<>>)
    IN CASE c.lang = "spv" -> whole
         [] c.n[1] = "get_image_width" -> <<Width>> [] c.n[1] = "get_image_height" -> <<Height>>
         [] c.n[1] = "get_image_depth" -> <<Depth>> [] c.n[1] = "get_image_array_size" -> <<Layers>>
         [] OTHER -> IF d.dim = 3 THEN Extent(d) \o <<0>> ELSE Extent(d)

(***************************************************************************)
(* Group functions: the scope, the kind of operation, the operation with   *)
(* the letter of its type, and whether every work-item has to take part.   *)
(***************************************************************************)
ArithmeticWords == {"add", "mul", "min", "max", "and", "or", "xor"}
IsArithmetic(f) == Last(f) \in ArithmeticWords /\ "shuffle" \notin ToSet(f)
TruthFor(f) ==
    \/ {"all", "any", "logical"} \cap ToSet(f) # {}
    \/ f \in {<<"group", "elect">>, <<"group", "inverse", "ballot">>, <<"group", "ballot", "bit", "extract">>}
TestsTruth(f) ==
    \/ {"all", "any", "logical"} \cap ToSet(f) # {} /\ "equal" \notin ToSet(f)
    \/ f = <<"group", "ballot">>
Concat(ss) == FoldLeft(LAMBDA x, y : x \o y, <<>>, ss)
Group(f, scope, kind, as) ==
    LET first == IF TestsTruth(f) THEN <<Truths(as[1].v)>> ELSE Values(SubSeq(as, 1, Least(1, Len(as))))
        rest == Values(SubSeq(as, 2, Len(as)))
    IN Shape(f, <<<<scope>>, <<kind>>>> \o first \o (IF f = <<"group", "broadcast">> THEN <<Concat(rest)>> ELSE rest),
             IF TruthFor(f) THEN "truth" ELSE "same")
ArithmeticName(uniform, logical, letter, op) ==
    <<"group">> \o (IF uniform THEN <<>> ELSE <<"non", "uniform">>) \o (IF logical THEN <<"logical">> ELSE <<>>)
    \o <<letter, op>>
KindOf(fn) ==
    CASE "clustered" \in ToSet(fn) -> 3 [] "inclusive" \in ToSet(fn) -> 1 [] "exclusive" \in ToSet(fn) -> 2
      [] OTHER -> 0
OCLGroup(c) ==
    LET fn == SubSeq(c.n, 3, Len(c.n))
        t == arg(c, 0).t
        letter == IF IsFloat(t) THEN "f" ELSE IF Last(fn) \in {"min", "max"} THEN t.e ELSE "i"
        f == CASE IsArithmetic(fn) ->
                    ArithmeticName({"non", "clustered"} \cap ToSet(fn) = {}, "logical" \in ToSet(fn), letter, Last(fn))
               [] fn[1] = "ballot" /\ {"count", "scan"} \cap ToSet(fn) # {} -> <<"group", "ballot", "count">>
               [] Last(fn) = "rotate" -> <<"group", "rotate">>
               [] OTHER -> <<"group">> \o fn
        kind == IF IsArithmetic(fn) \/ fn[1] = "ballot" THEN KindOf(fn) ELSE 0
    IN Group(f, IF c.n[1] = "work" THEN ScopeWorkgroup ELSE ScopeSubgroup, kind, c.a)
SPVGroup(c) ==
    LET n == RMap(OCLSPIRVBuiltinMap, c.n[1])
        counted == c.n[1] = "GroupNonUniformBallotBitCount"
        grouped == IsArithmetic(n)
        f == CASE counted -> <<"group", "ballot", "count">> [] Last(n) = "rotate" -> <<"group", "rotate">>
               [] OTHER -> n
    IN Group(f, arg(c, 0).v[1], IF grouped THEN arg(c, 1).v[1] ELSE 0, From(c, IF grouped THEN 2 ELSE 1))

(***************************************************************************)
(* Products, memory, ranges, device-side enqueue.                          *)
(***************************************************************************)
Product(sat, packed, c, s1, s2) ==
    LET swap == s1 = "u" /\ s2 = "s"
        a == arg(c, IF swap THEN 1 ELSE 0).v
        b == arg(c, IF swap THEN 0 ELSE 1).v
    IN Shape(<<"product", IF sat THEN "sat" ELSE "plain", IF packed THEN "packed" ELSE "vector",
               IF swap THEN s2 ELSE s1, IF swap THEN s1 ELSE s2>>,
             <<a, b>> \o (IF sat THEN <<arg(c, 2).v>> ELSE <<>>), "same")
OCLProduct(c) ==
    LET packed == Len(c.n) > 1
    IN Product(c.n[1] \in {"dot_acc_sat", "dot_acc_sat_4x8packed"}, packed, c,
               IF packed THEN c.n[2] ELSE arg(c, 0).t.e, IF packed THEN c.n[3] ELSE arg(c, 1).t.e)
SPVProduct(c) ==
    LET u == c.n[1] \in {"UDot", "UDotAccSat"} mixed == c.n[1] \in {"SUDot", "SUDotAccSat"}
    IN Product(c.n[1] \in {"SDotAccSat", "UDotAccSat", "SUDotAccSat"}, ~IsVec(arg(c, 0).t), c,
               IF u THEN "u" ELSE "s", IF u \/ mixed THEN "u" ELSE "s")
MemoryForm(n) ==
    IF n[1] \in {"vloada", "vstorea"} THEN "aligned half" ELSE IF "half" \in ToSet(n) THEN "half" ELSE "full"
WidthIn(n) ==
    CASE "2" \in ToSet(n) -> 2 [] "3" \in ToSet(n) -> 3 [] "4" \in ToSet(n) -> 4 [] "8" \in ToSet(n) -> 8
      [] "16" \in ToSet(n) -> 16 [] OTHER -> 1
VLoad(n, c, width) == Shape(<<"vload", MemoryForm(n)>>, <<<<width>>, arg(c, 0).v, arg(c, 1).v>>, "same")
VStore(n, c, mode) == Shape(<<"vstore", MemoryForm(n)>>, <<arg(c, 0).v, arg(c, 1).v, arg(c, 2).v, mode>>, "same")
OCLVStoreMode(n) == IF Roundings(n) = <<>> THEN <<>> ELSE <<MapTo(RoundingModeMap, Roundings(n)[1])>>
NDRange(gws, lws, gwo) == Shape(<<"ndrange">>, <<gws, lws, gwo>>, "same")
OCLNDRange(c) ==
    LET s == Values(Tail(c.a))
        zero == [i \in DOMAIN s[1] |-> 0]
    IN CASE Len(s) = 1 -> NDRange(s[1], zero, zero) [] Len(s) = 2 -> NDRange(s[1], s[2], zero)
         [] OTHER -> NDRange(s[2], s[3], s[1])
SPVNDRange(c) ==
    LET s == Values(SelectSeq(c.a, LAMBDA v : v.t.to # "ndrange")) IN NDRange(s[1], s[2], s[3])
Enqueue(c, events, invoke, sizes) ==
    Shape(<<"enqueue">>, Values(SubSeq(c.a, 1, 3)) \o events \o <<invoke.v>> \o sizes, "same")
OCLEnqueue(c) ==
    LET events == "events" \in ToSet(c.n)
        f == IF events THEN 6 ELSE 3
        sizes == IF "varargs" \in ToSet(c.n) THEN SubSeq(Last(c.a).v, 1, arg(c, f + 2).v[1]) ELSE <<>>
    IN Enqueue(c, IF events THEN Values(SubSeq(c.a, 4, 6)) ELSE <<<<0>>, <<0>>, <<0>>>>, arg(c, f),
               BlockOf(arg(c, f + 1)) \o <<sizes>>)
SPVEnqueue(c) ==
    Enqueue(c, Values(SubSeq(c.a, 4, 6)), arg(c, 6),
            <<arg(c, 7).v, arg(c, 8).v, arg(c, 9).v, [i \in 1..(argSize(c) - 10) |-> arg(c, 9 + i).v[1]]>>)
\* Scalars stand for vectors of the width of the result.
Widened(c) == [i \in DOMAIN c.a |-> IF IsVec(c.ret) /\ Len(c.a[i].v) = 1
                                    THEN [j \in 1..c.ret.n |-> c.a[i].v[1]] ELSE c.a[i].v]
Extended(c, n) == Shape(<<"ext">> \o n, Widened(c), "same")

(***************************************************************************)
(* The shape of a call of each language.                                   *)
(***************************************************************************)
Tests == {"isequal", "isnotequal", "isgreater", "isgreaterequal", "isless", "islessequal", "islessgreater",
    "isordered", "isunordered", "isfinite", "isinf", "isnan", "isnormal", "signbit"}
Table(n) == CHOOSE o \in FindOp(OCLSPIRVBuiltinMap, n) : TRUE
Fence(flags, order, scope) == Shape(<<"fence">>, <<<<flags>>, <<order>>, scope>>, "same")
Barrier(f, exec, mem, flags, order) == Shape(<<f>>, <<exec, mem, <<flags>>, <<order>>>>, "same")
OCLBarrier(c) ==
    LET flags == arg(c, 0).v[1]
        mem == IF argSize(c) > 1 THEN arg(c, 1).v ELSE <<OCLMS_work_group>>
    IN CASE c.n[1] = "intel_work_group_barrier_arrive" -> Barrier("arrive", <<OCLMS_work_group>>, mem, flags, OCLMO_release)
         [] c.n[1] = "intel_work_group_barrier_wait" -> Barrier("wait", <<OCLMS_work_group>>, mem, flags, OCLMO_acquire)
         [] OTHER -> Barrier("barrier", <<IF c.n[1] = "sub" THEN OCLMS_sub_group ELSE OCLMS_work_group>>, mem, flags,
                             IF flags = 0 THEN OCLMO_relaxed ELSE OCLMO_seq_cst)
SPVBarrier(c, f) ==
    LET sema == arg(c, 2).v[1]
    IN Barrier(f, ToOCLScope(arg(c, 0)), ToOCLScope(arg(c, 1)), FlagsOf(sema), OrderOf(sema))
SizeQueries == {"get_image_width", "get_image_height", "get_image_depth", "get_image_dim", "get_image_array_size"}
Channels == {"get_image_channel_data_type", "get_image_channel_order"}
QueryNames == {"get_kernel_work_group_size_impl", "get_kernel_preferred_work_group_size_multiple_impl",
    "get_kernel_sub_group_count_for_ndrange_impl", "get_kernel_max_sub_group_size_for_ndrange_impl"}
OCLShape(c) ==
    LET n == c.n h == c.n[1] vs == Values(c.a)
    IN CASE h = "ndrange" -> OCLNDRange(c)
         [] h \in {"any", "all"} -> IF IsVec(arg(c, 0).t) THEN Shape(<<h>>, <<Signs(vs[1])>>, "truth")
                                    ELSE Shape(<<"value">>, <<>>, "value")
         [] h = "async_work_group_copy" ->
              Shape(<<"copy">>, <<vs[1], vs[2], vs[3], <<1>>, vs[4]>>, "same")
         [] h = "async_work_group_strided_copy" -> Shape(<<"copy">>, vs, "same")
         [] n = <<"atomic", "work", "item", "fence">> -> Fence(vs[1][1], vs[2][1], vs[3])
         [] n = <<"atomic", "init">> -> Shape(<<"store">>, vs, "same")
         [] h \in {"atomic", "atom"} -> OCLAtomic(c)
         [] h = "convert" -> OCLConversion(c)
         [] h \in SizeQueries -> Shape(<<"size">>, vs, "size")
         [] h \in {"mem_fence", "read_mem_fence", "write_mem_fence"} ->
              Fence(vs[1][1], CASE h = "read_mem_fence" -> OCLMO_acquire [] h = "write_mem_fence" -> OCLMO_release
                                [] OTHER -> OCLMO_acq_rel, <<OCLMS_work_group>>)
         [] h = "barrier" \/ "barrier" \in ToSet(n)
            \/ h \in {"intel_work_group_barrier_arrive", "intel_work_group_barrier_wait"} -> OCLBarrier(c)
         [] h \in {"work", "sub"} /\ FindOp(PlainBuiltins, Tail(n)) # {} ->
              Shape(<<Table(Tail(n))>>, <<<<IF h = "work" THEN ScopeWorkgroup ELSE ScopeSubgroup>>>> \o vs, "same")
         [] h \in {"work", "sub"} -> OCLGroup(c)
         [] h = "wait_group_events" -> Shape(<<"wait_events">>, vs, "same")
         [] h = "read_image" -> OCLRead(c)
         [] h = "write_image" -> OCLWrite(c)
         [] h \in {"to_global", "to_local", "to_private"} ->
              Shape(<<"to_addr">>, <<vs[1], <<CASE h = "to_global" -> SPIRAS_Global [] h = "to_local" -> SPIRAS_Local
                                               [] OTHER -> SPIRAS_Private>>>>, "same")
         [] h \in {"vload", "vloada"} -> VLoad(n, c, WidthIn(n))
         [] h \in {"vstore", "vstorea"} -> VStore(n, c, OCLVStoreMode(n))
         [] h \in Tests -> Shape(<<Table(n)>>, vs, "truth")
         [] h = "get_fence" -> Shape(<<"get_fence">>, vs, "fence")
         [] h \in {"dot", "dot_acc_sat", "dot_4x8packed", "dot_acc_sat_4x8packed"} /\ ~IsFloat(arg(c, 0).t) -> OCLProduct(c)
         [] h = "dot" -> Shape(<<"dot">>, vs, "same")
         [] h = "clock_read" ->
              Shape(<<"clock">>, <<<<CASE Last(n) = "device" -> ScopeDevice [] Last(n) = "work_group" -> ScopeWorkgroup
                                       [] OTHER -> ScopeSubgroup>>, <<IF n[2] = "hilo" THEN 2 ELSE 1>>>>, "same")
         [] h \in Channels -> Shape(<<Table(n)>>, vs, "channel")
         [] h = "__enqueue_kernel" -> OCLEnqueue(c)
         [] h \in QueryNames -> Shape(<<Table(n)>>, Values(Front(c.a)) \o BlockOf(Last(c.a)), "same")
         [] h = "intel_sub_group_block_read" -> Shape(<<"block_read">> \o Tail(n), vs, "same")
         [] h = "intel_sub_group_block_write" -> Shape(<<"block_write">> \o Tail(n), vs, "same")
         [] h \in {"intel_sub_group_media_block_read", "intel_sub_group_media_block_write"} ->
              Shape(<<Table(<<h>>)>> \o Tail(n), <<Last(vs)>> \o Front(vs), "same")
         [] h = "intel_convert_bfloat16_as_ushort" -> Shape(<<"ConvertFToBF16INTEL">>, vs, "same")
         [] h = "intel_convert_as_bfloat16_float" -> Shape(<<"ConvertBF16ToFINTEL">>, vs, "same")
         [] h \in VariableNames -> Shape(<<MapTo(BuiltinVariableMap, h)>>, vs, "same")
         [] FindOp(OCLSPIRVBuiltinMap, n) # {} -> Shape(<<Table(n)>>, vs, "same")
         [] OTHER -> Extended(c, IF n \in OCLExtOps THEN n ELSE <<LastSign(c).e>> \o n)

MediaForm(t) == <<CASE t.w = 8 -> "uc" [] t.w = 16 -> "us" [] OTHER -> "ui">> \o WidthToken(t.n)
IsGroup(op) == \E i \in RFind(GroupBuiltins, op) : GroupBuiltins[i][1][1] = "group"
SPVShape(c) ==
    LET op == c.n[1] vs == Values(c.a)
    IN CASE op = "BuildNDRange" -> SPVNDRange(c)
         [] op \in {"Any", "All"} -> Shape(<<IF op = "Any" THEN "any" ELSE "all">>, <<Truths(vs[1])>>, "truth")
         [] op = "GroupAsyncCopy" -> Shape(<<"copy">>, Tail(vs), "same")
         [] op = "GroupWaitEvents" -> Shape(<<"wait_events">>, Tail(vs), "same")
         [] op = "MemoryBarrier" -> Fence(FlagsOf(vs[2][1]), OrderOf(vs[2][1]), ToOCLScope(arg(c, 0)))
         [] op = "ControlBarrier" -> SPVBarrier(c, "barrier")
         [] op = "ControlBarrierArriveINTEL" -> SPVBarrier(c, "arrive")
         [] op = "ControlBarrierWaitINTEL" -> SPVBarrier(c, "wait")
         [] op \in {p[1] : p \in AtomicSPV} -> SPVAtomic(c)
         [] op \in {"SConvert", "UConvert", "ConvertSToF", "ConvertUToF", "ConvertFToS", "ConvertFToU", "FConvert",
                    "SatConvertSToU", "SatConvertUToS"} -> OpConversion(c)
         [] op \in {"ImageQuerySize", "ImageQuerySizeLod"} -> Shape(<<"size">>, <<vs[1]>>, "size")
         [] op \in {"ImageRead", "ImageSampleExplicitLod"} -> SPVRead(c)
         [] op = "ImageWrite" -> SPVWrite(c)
         [] op = "GenericCastToPtrExplicit" ->
              Shape(<<"to_addr">>, <<vs[1], <<CASE vs[2][1] = 5 -> SPIRAS_Global [] vs[2][1] = 4 -> SPIRAS_Local
                                               [] OTHER -> SPIRAS_Private>>>>, "same")
         [] op = "ext" /\ c.n[2] \in {"vload", "vloada"} ->
              VLoad(Tail(c.n), c, IF "n" \in ToSet(c.n) THEN Last(vs)[1] ELSE 1)
         [] op = "ext" /\ c.n[2] \in {"vstore", "vstorea"} ->
              VStore(Tail(c.n), c, IF Last(c.n) = "r" THEN Last(vs) ELSE <<>>)
         [] op = "ext" -> Extended(c, Tail(c.n))
         [] op \in {Table(<<t>>) : t \in Tests} -> Shape(<<op>>, vs, "truth")
         [] op = "GenericPtrMemSemantics" -> Shape(<<"get_fence">>, vs, "fence")
         [] op \in {"SDot", "UDot", "SUDot", "SDotAccSat", "UDotAccSat", "SUDotAccSat"} -> SPVProduct(c)
         [] op = "Dot" -> Shape(<<"dot">>, vs, "same")
         [] op = "ReadClockKHR" -> Shape(<<"clock">>, <<vs[1], <<c.ret.n>>>>, "same")
         [] op \in {"ImageQueryFormat", "ImageQueryOrder"} -> Shape(<<op>>, vs, "channel")
         [] op = "EnqueueKernel" -> SPVEnqueue(c)
         [] op \in {"SubgroupBlockReadINTEL", "SubgroupImageBlockReadINTEL"} ->
              Shape(<<"block_read">> \o DataPostfix(c.ret), vs, "same")
         [] op \in {"SubgroupBlockWriteINTEL", "SubgroupImageBlockWriteINTEL"} ->
              Shape(<<"block_write">> \o DataPostfix(Last(c.a).t), vs, "same")
         [] op = "SubgroupImageMediaBlockReadINTEL" -> Shape(<<op>> \o MediaForm(c.ret), vs, "same")
         [] op = "SubgroupImageMediaBlockWriteINTEL" -> Shape(<<op>> \o MediaForm(Last(c.a).t), vs, "same")
         [] IsGroup(op) -> SPVGroup(c)
         [] OTHER -> Shape(<<op>>, vs, "same")

IRShape(c) ==
    LET vs == Values(c.a)
    IN CASE c.n[1] = "value" -> Shape(<<"value">>, <<>>, "value")
         [] c.n[1] = "fmul" -> Shape(<<"dot">>, vs, "same")
         [] c.n[1] = "fcmp" -> Shape(<<c.n[2]>>, vs, "truth")
         [] c.n[1] = "store" -> Shape(<<"store">>, vs, "same")
         [] OTHER -> OpConversion(c)
ShapeOf(c) == CASE c.lang = "ocl" -> OCLShape(c) [] c.lang = "spv" -> SPVShape(c) [] OTHER -> IRShape(c)

(***************************************************************************)
(* What the program sees.  The state after the call is the returned value, *)
(* the program's own expected value and the variable of the translator;    *)
(* the operations that follow the call work on it.                         *)
(***************************************************************************)
Poison == -7777
After(r, cell, tmp) == [r |-> r, cell |-> cell, tmp |-> tmp]
Lane(r, i, other) == IF i < Len(r) THEN r[i + 1] ELSE other
Each(r, F(_)) == [i \in DOMAIN r |-> F(r[i])]
Follow(st, p) ==
    LET k == p.k r == st.r IN
    CASE p.op = "zext" -> st
      [] p.op = "extract" -> [st EXCEPT !.r = <<Lane(r, k[1], Poison)>>]
      [] p.op = "shuffle" -> [st EXCEPT !.r = [i \in DOMAIN k |-> Lane(r, k[i], 0)]]
      [] p.op = "shuffle_poison" -> [st EXCEPT !.r = [i \in DOMAIN k |-> Lane(r, k[i], Poison)]]
      [] p.op = "insert_first" -> [st EXCEPT !.r = [i \in 1..k[1] |-> IF i = 1 THEN r[1] ELSE Poison]]
      [] p.op = "get_image_array_size" -> [st EXCEPT !.r = [@ EXCEPT ![k[1] + 1] = Layers]]
      [] p.op = "add" -> [st EXCEPT !.r = Each(@, LAMBDA x : x + k[1])]
      [] p.op = "sub" -> [st EXCEPT !.r = Each(@, LAMBDA x : x - k[1])]
      [] p.op = "lshr" -> [st EXCEPT !.r = Each(@, LAMBDA x : x \div (2 ^ k[1]))]
      [] p.op = "shl" -> [st EXCEPT !.r = Each(@, LAMBDA x : x * (2 ^ k[1]))]
      [] p.op = "select" -> [st EXCEPT !.r = Each(@, LAMBDA x : IF x # 0 THEN k[1] ELSE 0)]
      [] p.op = "trunc" -> [st EXCEPT !.r = Each(@, LAMBDA x : x % 2)]
      [] p.op = "ne" -> [st EXCEPT !.r = Each(@, LAMBDA x : IF x # k[1] THEN 1 ELSE 0)]
      [] p.op = "drop" -> [st EXCEPT !.r = <<>>]
      [] p.op = "store_expected" -> IF k[1] = 1 THEN [st EXCEPT !.cell = r[1]] ELSE [st EXCEPT !.tmp = r[1]]
      [] p.op = "eq" -> [st EXCEPT !.r = <<IF r[1] = k[1] THEN 1 ELSE 0>>]
      [] p.op = "load_original" -> [st EXCEPT !.r = <<st.tmp>>]
Worlds == 0..3
\* The stored value that an atomic meets in each world.
Old(w) == w - 2
Answer(c, s, w) ==
    LET n == c.ret.n
        unit == IF IsVec(c.ret) /\ c.ret.e # "b" THEN -1 ELSE 1
        own == s.op = "compare" /\ c.lang = "ocl" /\ "exchange" \in ToSet(c.n)
    IN CASE s.kind = "same" -> After(IF c.ret = Void THEN <<>> ELSE [i \in 1..n |-> 40 + i], 0, 0)
         [] s.kind = "truth" -> After([i \in 1..n |-> IF (w + i) % 3 = 0 THEN unit ELSE 0], 0, 0)
         [] s.kind = "value" -> After(IF c.n[1] \in {"any", "all"} THEN Signs(arg(c, 0).v) ELSE arg(c, 0).v, 0, 0)
         [] s.kind = "size" -> After(SizeOf(c), 0, 0)
         [] s.kind = "channel" ->
              After(<<IF c.lang = "spv" THEN w
                      ELSE w + (IF s.f = <<"ImageQueryFormat">> THEN ImageChannelDataTypeOffset
                                ELSE ImageChannelOrderOffset)>>, 0, 0)
         [] s.kind = "fence" -> After(<<IF c.lang = "spv" THEN 256 * w ELSE w>>, 0, 0)
         [] OTHER -> \* atomic
              After(CASE c.ret = Void -> <<>>
                      [] own -> <<IF Old(w) = s.e THEN 1 ELSE 0>>
                      [] s.op = "set" /\ c.ret.w = 1 -> <<Old(w) % 2>>
                      [] OTHER -> <<Old(w)>>,
                    IF own /\ arg(c, 1).v[1] = 1 THEN Old(w) ELSE s.e,
                    IF own /\ arg(c, 1).v[1] = 2 THEN Old(w) ELSE 0)
Seen(c, s, w) ==
    LET st == FoldLeft(Follow, Answer(c, s, w), c.post)
    IN [r |-> st.r, cell |-> st.cell, new |-> IF s.kind = "atomic" THEN Effect(s.op, Old(w), s.x, s.e) ELSE 0]
Meaning(c) ==
    LET s == ShapeOf(c) IN [f |-> s.f, in |-> s.in, seen |-> [w \in Worlds |-> Seen(c, s, w)]]

=============================================================================
