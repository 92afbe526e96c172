------------------------- MODULE BuiltinInstructions -------------------------
(***************************************************************************)
(* A SPIR-V friendly call written as an instruction and read back          *)
(* (LLVMToSPIRVBase::transBuiltinToInst, SPIRVToLLVM::transValue): what    *)
(* the instruction keeps of the name and the arguments.  Integers lose     *)
(* their signs, image operands depend on the SPIR-V version, and           *)
(* conversions and comparisons come back as plain instructions.            *)
(***************************************************************************)
EXTENDS BuiltinCalls

\* Enumeration types and signs are a matter of OpenCL names only.
WrittenType(t) == [LLVMType(t) EXCEPT !.e = IF @ \in {"order", "scope"} THEN "s" ELSE @]
Plain(v) == [v EXCEPT !.t = WrittenType(@)]
Unsigned(c) == [c EXCEPT !.a = [i \in DOMAIN @ |-> Plain(@[i])], !.ret = WrittenType(@)]

(***************************************************************************)
(* Images: below version 1.4 the sign bits are dropped, and the operands   *)
(* with them when nothing else is in the mask.                             *)
(***************************************************************************)
ImageOps == {"ImageRead", "ImageSampleExplicitLod", "ImageWrite"}
getImageOperandsIndex(op) == IF op = "ImageWrite" THEN 3 ELSE 2
SignBits(mask) ==
    (IF HasBit(mask, SignExtendMask) THEN SignExtendMask ELSE 0)
    + (IF HasBit(mask, ZeroExtendMask) THEN ZeroExtendMask ELSE 0)
setOpWords(c, version) ==
    LET i == getImageOperandsIndex(c.n[1])
        mask == arg(c, i).v[1]
        rest == mask - SignBits(mask)
    IN CASE argSize(c) <= i \/ version >= 14 \/ SignBits(mask) = 0 -> c
         [] rest = 0 -> setArgs(c, Front(c.a))
         [] OTHER -> replaceArg(c, i, addInt32(rest))
\* The sign bits that the name of the call gives: a read has none left when it
\* was made from an OpenCL name, a write has the type of its texel.
getSignZeroExtOfName(c) ==
    LET t == IF c.n[1] = "ImageWrite" THEN arg(c, 2).t ELSE c.ret
    IN CASE t.e = "s" -> SignExtendMask [] t.e = "u" -> ZeroExtendMask [] OTHER -> 0
transImageInst(c, version) ==
    LET i == getImageOperandsIndex(c.n[1])
        bits == getSignZeroExtOfName(c)
        full == CASE version < 14 \/ bits = 0 -> c
                  [] argSize(c) <= i -> appendArg(c, addInt32(bits))
                  [] SignBits(arg(c, i).v[1]) # 0 -> c
                  [] OTHER -> replaceArg(c, i, addInt32(arg(c, i).v[1] + bits))
    IN setOpWords(full, version)

(***************************************************************************)
(* Conversions and comparisons.                                            *)
(***************************************************************************)
SaturatingOps == {"SatConvertSToU", "SatConvertUToS"}
isSaturatedConversion(c) == c.n[1] \in SaturatingOps \/ "sat" \in ToSet(c.pf)
hasFPRoundingMode(c) == \E p \in RoundingModeMap : p[1] \in ToSet(c.pf)
ConvertOps == SaturatingOps \cup
    {"SConvert", "UConvert", "ConvertSToF", "ConvertUToF", "ConvertFToS", "ConvertFToU", "FConvert"}
transConvertInst(c) ==
    LET wider == c.ret.w > arg(c, 0).t.w
        Grow(up, down) == IF wider THEN up ELSE down
    IN toIR(c, CASE c.n[1] = "SConvert" -> Grow("sext", "trunc")
                 [] c.n[1] = "UConvert" -> Grow("zext", "trunc")
                 [] c.n[1] = "FConvert" -> Grow("fpext", "fptrunc")
                 [] c.n[1] = "ConvertSToF" -> "sitofp"
                 [] c.n[1] = "ConvertUToF" -> "uitofp"
                 [] c.n[1] = "ConvertFToS" -> "fptosi"
                 [] c.n[1] = "ConvertFToU" -> "fptoui")

CompareOps == {"FOrdEqual", "FUnordNotEqual", "FOrdGreaterThan", "FOrdGreaterThanEqual", "FOrdLessThan",
    "FOrdLessThanEqual", "FOrdNotEqual", "Ordered", "Unordered"}
\* The result of a comparison is a boolean, made an integer again by a select.
addCmpInst(c) ==
    IF c.ret.e = "b" THEN c
    ELSE changeReturnType(c, Ty("b", 1, c.ret.n), <<PostOp("select", <<IF IsVec(c.ret) THEN -1 ELSE 1>>)>>)
transCmpInst(c) == Callee(addCmpInst(c), "ir", <<"fcmp", c.n[1]>>, <<>>)

transAllAny(c) ==
    replaceArg(c, 0, [arg(c, 0) EXCEPT !.t = Ty("s", 8, @.n), !.v = [i \in DOMAIN @ |-> -@[i]]])
RelationalOps == {"IsFinite", "IsInf", "IsNan", "IsNormal", "SignBitSet"}
transRelational(c) ==
    IF IsVec(c.ret) THEN changeReturnType(c, Ty("s", 8, c.ret.n), <<PostOp("trunc", <<>>)>>) ELSE c

(***************************************************************************)
(* Kernel queries are read as the OpenCL functions themselves.             *)
(***************************************************************************)
QueryOps == {"GetKernelWorkGroupSize", "GetKernelPreferredWorkGroupSizeMultiple",
    "GetKernelNDrangeSubGroupCount", "GetKernelNDrangeMaxSubGroupSize"}
transKernelQuery(c) ==
    Callee(setArgs(c, Front(Front(c.a))), "ocl", RMap(OCLSPIRVBuiltinMap, c.n[1]), <<>>)

(***************************************************************************)
(* One instruction, written and read.                                      *)
(***************************************************************************)
RangePostfix(c) == IF argSize(c) = 0 THEN <<>> ELSE <<CASE arg(c, 1).t.n = 1 -> "1D" [] arg(c, 1).t.n = 2 -> "2D" [] OTHER -> "3D">>
WriteRead(c, version) ==
    LET op == c.n[1] u == Unsigned(c)
    IN CASE c.lang # "spv" -> c
         [] op = "AtomicCompareExchangeWeak" -> [u EXCEPT !.n = <<"AtomicCompareExchange">>]
         [] op \in ImageOps -> Unsigned(transImageInst(c, version))
         [] op = "BuildNDRange" -> [removeArg(u, 0) EXCEPT !.pf = RangePostfix(u)]
         [] op \in ConvertOps -> IF isSaturatedConversion(c) \/ hasFPRoundingMode(c) THEN u
                                 ELSE transConvertInst(u)
         [] op \in CompareOps -> transCmpInst(u)
         [] op \in {"Any", "All"} -> transAllAny(u)
         [] op \in RelationalOps -> transRelational(u)
         [] op \in QueryOps -> transKernelQuery(u)
         [] OTHER -> u

=============================================================================
