-------------------------- MODULE LoweringSemantics --------------------------
(* What a list of LLVM instructions computes: the measure the lowering       *)
(* passes are held to.  Values are sequences of lanes (a scalar has one, a   *)
(* {value, flag} pair two); a lane is a number below 2^w, a small integer    *)
(* for floating point, a set of bit positions for llvm.bitreverse, or one of *)
(* the model values below.  Lanes wider than the arithmetic of the checker   *)
(* only ever move.                                                           *)
EXTENDS Integers, Sequences, FiniteSets
LOCAL INSTANCE Bitwise

CONSTANTS Poison,     \* a value nothing may depend on
          Unbound,    \* the value of an instruction that has not run
          NaN, NegZero

(* An operand: the result of instruction v ("id"), the constant c ("lit"),   *)
(* undef, the address of global v ("glob"), or the constant expression v     *)
(* ("ce").  w is the width of a lane, n the number of lanes.                 *)
Ref(v, w)     == [k |-> "id", v |-> v, c |-> <<>>, w |-> w, n |-> 1]
Lit(x, w)     == [k |-> "lit", v |-> 0, c |-> <<x>>, w |-> w, n |-> 1]
Undef(w)      == [k |-> "undef", v |-> 0, c |-> <<>>, w |-> w, n |-> 1]
Glob(v)       == [k |-> "glob", v |-> v, c |-> <<>>, w |-> 32, n |-> 1]
ConstExpr(v)  == [k |-> "ce", v |-> v, c |-> <<>>, w |-> 32, n |-> 1]
Lanes(o, n)   == [o EXCEPT !.n = n]
IsConst(o)    == o.k \in {"lit", "undef", "ce", "glob"}

(* An instruction: p names a predicate or a callee, m holds numbers (mask,   *)
(* index, flags), d the cache controls <<kind, operand>> (before) or the     *)
(* decorations (after), bb its block.                                        *)
Ins(id, op, w, a) ==
  [id |-> id, op |-> op, w |-> w, n |-> 1, a |-> a, p |-> "", m |-> <<>>,
   d |-> <<>>, bb |-> 1]
Pair(i)    == [i EXCEPT !.n = 2]
With(i, m) == [i EXCEPT !.m = m]
Pred(i, p) == [i EXCEPT !.p = p]
In(i, bb)  == [i EXCEPT !.bb = bb]
Out(i)     == [k |-> "id", v |-> i.id, c |-> <<>>, w |-> i.w, n |-> i.n]

-----------------------------------------------------------------------------
Signed(x, w) == IF x < 2^(w - 1) THEN x ELSE x - 2^w
Wrap(x, w)   == x % 2^w
Bool(b)      == IF b THEN 1 ELSE 0

Compare(p, x, y, w) ==
  CASE p = "eq"  -> x = y      [] p = "ne"  -> x # y
    [] p = "ugt" -> x > y      [] p = "uge" -> x >= y
    [] p = "ult" -> x < y      [] p = "ule" -> x <= y
    [] p = "sgt" -> Signed(x, w) > Signed(y, w)
    [] p = "sge" -> Signed(x, w) >= Signed(y, w)
    [] p = "slt" -> Signed(x, w) < Signed(y, w)
    [] p = "sle" -> Signed(x, w) <= Signed(y, w)

(* Floating point: integers, a negative zero and NaN.                        *)
Num(x)         == IF x = NegZero THEN 0 ELSE x
Negative(x)    == x = NegZero \/ (x # NaN /\ Num(x) < 0)
Negate(x)      == IF x = NegZero THEN 0 ELSE IF x = 0 THEN NegZero ELSE -x
CopySign(x, s) == IF x = NaN \/ Negative(x) = Negative(s) THEN x ELSE Negate(x)
Saturate(x, lo, hi) ==
  IF x = NaN THEN 0 ELSE IF Num(x) < lo THEN lo ELSE IF Num(x) > hi THEN hi
  ELSE Num(x)

(* minnum and maxnum may return either of two zeros: pick says which.        *)
Least(x, y, max, pick) ==
  IF x = NaN THEN y ELSE IF y = NaN THEN x
  ELSE IF Num(x) = Num(y) THEN (IF pick = 1 THEN x ELSE y)
  ELSE IF (Num(x) < Num(y)) # max THEN x ELSE y
Minimum(x, y, max) ==
  IF NaN \in {x, y} THEN NaN
  ELSE IF Num(x) = Num(y) THEN (IF Negative(x) # max THEN x ELSE y)
  ELSE IF (Num(x) < Num(y)) # max THEN x ELSE y

(* Bit positions of a lane of width w, for shifts and masks.                 *)
ShiftSet(s, w, k)  == {b + k : b \in s} \cap (0..(w - 1))
ReverseSet(s, w)   == {w - 1 - b : b \in s}

-----------------------------------------------------------------------------
(* One lane of an instruction without memory; operands x are not poison.     *)
Lane(i, x, pick) ==
  LET w == i.w  aw == i.a[1].w IN
  CASE i.op = "and"   -> x[1] & x[2]
    [] i.op = "or"    -> x[1] | x[2]
    [] i.op = "xor"   -> x[1] ^^ x[2]
    [] i.op = "add"   -> Wrap(x[1] + x[2], w)
    [] i.op = "sub"   -> Wrap(x[1] - x[2], w)
    [] i.op = "mul nuw" -> IF x[1] * x[2] < 2^w THEN x[1] * x[2] ELSE Poison
    [] i.op = "udiv"  -> IF x[2] = 0 THEN Poison ELSE x[1] \div x[2]
    [] i.op = "urem"  -> IF x[2] = 0 THEN Poison ELSE x[1] % x[2]
    [] i.op = "shl"   -> IF x[2] >= w THEN Poison ELSE Wrap(x[1] * 2^x[2], w)
    [] i.op = "lshr"  -> IF x[2] >= w THEN Poison ELSE x[1] \div 2^x[2]
    [] i.op = "trunc" -> Wrap(x[1], w)
    [] i.op = "zext"  -> x[1]
    [] i.op = "sext"  -> Wrap(Signed(x[1], aw), w)
    [] i.op = "uitofp" -> x[1]
    [] i.op = "sitofp" -> Signed(x[1], aw)
    [] i.op = "icmp"  -> Bool(Compare(i.p, x[1], x[2], aw))
    [] i.op = "fcmp"  -> Bool(IF i.p = "uno" THEN NaN \in {x[1], x[2]}
                              ELSE NaN \notin {x[1], x[2]} /\ Num(x[1]) < Num(x[2]))
    [] i.op = "copysign" -> CopySign(x[1], x[2])
    [] i.op \in {"minnum", "maxnum"} -> Least(x[1], x[2], i.op = "maxnum", pick)
    [] i.op \in {"minimum", "maximum"} ->
         LET r == Minimum(x[1], x[2], i.op = "maximum") IN
         IF i.m[2] = 1 /\ NaN \in {x[1], x[2]} THEN Poison
         ELSE IF i.m[1] = 1 /\ r \in {0, NegZero} THEN Poison ELSE r
    [] i.op = "fptosi.sat" -> Wrap(Saturate(x[1], -(2^(w - 1)), 2^(w - 1) - 1), w)
    [] i.op = "fptoui.sat" -> Saturate(x[1], 0, 2^w - 1)
    [] i.op = "fshl" -> LET c == x[3] % w IN
                        Wrap(x[1] * 2^c, w) + (x[2] \div 2^(w - c))
    [] i.op = "fshr" -> LET c == x[3] % w IN
                        Wrap(x[1] * 2^(w - c), w) + (x[2] \div 2^c)
    [] i.op = "bitreverse" -> ReverseSet(x[1], w)
    [] i.op = "bswap" -> (x[1] % 256) * 256 + (x[1] \div 256)     \* i16
    [] i.op \in {"freeze", "gep"} -> x[1]

(* The {value, flag} pair of an arithmetic intrinsic.                        *)
WithOverflow(op, x, y, w) ==
  LET r == CASE op = "umul" -> x * y
             [] op = "uadd" -> x + y
             [] op = "usub" -> x - y
             [] op = "sadd" -> Signed(x, w) + Signed(y, w)
      in == IF op = "sadd" THEN -(2^(w - 1)) <= r /\ r < 2^(w - 1)
            ELSE 0 <= r /\ r < 2^w
  IN  <<Wrap(r, w), Bool(~in)>>

(* A bitcast regroups the bytes of the lanes, least significant first.       *)
Bytes(v, w) ==
  [b \in 1..((Len(v) * w) \div 8) |->
     LET l == v[((8 * (b - 1)) \div w) + 1] IN
     IF l \in {Poison, Unbound} THEN l
     ELSE (l \div 2^((8 * (b - 1)) % w)) % 256]
Regroup(bs, w) ==
  LET k == w \div 8 IN
  [l \in 1..(Len(bs) \div k) |->
     LET b == [j \in 1..k |-> bs[(l - 1) * k + j]] IN
     IF \E j \in 1..k : b[j] \in {Poison, Unbound} THEN Poison
     ELSE LET acc[j \in 0..k] == IF j = 0 THEN 0
                                 ELSE acc[j - 1] + b[j] * 2^(8 * (j - 1))
          IN  acc[k]]

(* The result of instruction i on operand values x, memory left aside.       *)
Result(i, x, pick) ==
  CASE i.op \in {"umul", "uadd", "usub", "sadd"} ->
         IF x[1][1] = Poison \/ x[2][1] = Poison THEN <<Poison, Poison>>
         ELSE WithOverflow(i.op, x[1][1], x[2][1], i.w)
    [] i.op = "insertvalue"  -> [x[1] EXCEPT ![i.m[1]] = x[2][1]]
    [] i.op = "insertelement" -> [x[1] EXCEPT ![i.m[1] + 1] = x[2][1]]
    [] i.op = "extractvalue" -> <<x[1][i.m[1]]>>
    [] i.op = "extractelement" ->
         <<IF x[2][1] \in DOMAIN [j \in 0..(Len(x[1]) - 1) |-> 0]
           THEN x[1][x[2][1] + 1] ELSE Poison>>
    [] i.op = "shufflevector" ->
         LET both == x[1] \o x[2] IN
         [l \in DOMAIN i.m |-> IF i.m[l] < 0 THEN Poison ELSE both[i.m[l] + 1]]
    [] i.op = "bitcast" -> Regroup(Bytes(x[1], i.a[1].w), i.w)
    [] i.op = "out" -> x[1]
    [] OTHER ->
         [l \in 1..i.n |->
            LET y == [j \in DOMAIN x |-> x[j][IF Len(x[j]) = 1 THEN 1 ELSE l]]
            IN  IF i.op = "select"
                THEN IF y[1] \in {Poison, Unbound} THEN y[1]
                     ELSE IF y[1] = 1 THEN y[2] ELSE y[3]
                ELSE IF \E j \in DOMAIN y : y[j] = Unbound THEN Unbound
                ELSE IF \E j \in DOMAIN y : y[j] = Poison THEN Poison
                ELSE Lane(i, y, pick)]

-----------------------------------------------------------------------------
(* Bodies of the functions in LLVMBitreverse.h, on bit positions: exchange   *)
(* neighbouring groups of k bits, for k half the width down to 1.            *)
High(w, k) == {b \in 0..(w - 1) : (b \div k) % 2 = 1}
Swap(s, w, k) == (ShiftSet(s, w, k) \cap High(w, k))
                   \cup (ShiftSet(s, w, -k) \ High(w, k))
LLVMBitreversei2(s) == ShiftSet(s, 2, 1) \cup ShiftSet(s, 2, -1)
LLVMBitreversei4(s) ==
  LET or == ShiftSet(s, 4, 2) \cup ShiftSet(s, 4, -2)
  IN  (ShiftSet(or, 4, 1) \cap {1, 3}) \cup (ShiftSet(or, 4, -1) \cap {0, 2})
LLVMBitreversei8(s)  == Swap(Swap(Swap(s, 8, 4), 8, 2), 8, 1)
LLVMBitreversei16(s) == Swap(Swap(Swap(Swap(s, 16, 8), 16, 4), 16, 2), 16, 1)
LLVMBitreversei32(s) ==
  Swap(Swap(Swap(Swap(Swap(s, 32, 16), 32, 8), 32, 4), 32, 2), 32, 1)
LLVMBitreversei64(s) ==
  Swap(Swap(Swap(Swap(Swap(Swap(s, 64, 32), 64, 16), 64, 8), 64, 4), 64, 2), 64, 1)
LLVMBitreverse(s, w) ==
  CASE w = 2  -> LLVMBitreversei2(s)  [] w = 4  -> LLVMBitreversei4(s)
    [] w = 8  -> LLVMBitreversei8(s)  [] w = 16 -> LLVMBitreversei16(s)
    [] w = 32 -> LLVMBitreversei32(s) [] w = 64 -> LLVMBitreversei64(s)

(* The vector variants do the same on every lane.                            *)
LLVMBitreverseVector(v, w) == [l \in DOMAIN v |-> LLVMBitreverse(v[l], w)]

(* Bodies of LLVMSaddWithOverflow.h.  The narrow ones (i8, i16) compare the  *)
(* sum of the magnitudes, computed in i32, with the limits.                  *)
Abs(x) == IF x < 0 THEN -x ELSE x
SaddNarrow(a, b, w) ==
  LET x == Signed(a, w)  y == Signed(b, w)
      bothPos == Signed(a | b, w) > -1
      bothNeg == Signed(a & b, w) < 0
      sum == Abs(x) + Abs(y)
  IN  << Wrap(a + b, w),
         Bool(/\ bothPos \/ bothNeg
              /\ \/ bothPos /\ sum > 2^(w - 1) - 1
                 \/ bothNeg /\ sum > 2^(w - 1)) >>

(* The wide ones (i32, i64) have no room for the magnitude of the smallest   *)
(* number, and add the operands with nsw: the value is poison on overflow.   *)
SaddWide(a, b, w) ==
  LET x == Signed(a, w)  y == Signed(b, w)  least == -(2^(w - 1))
      bothPos == Signed(a | b, w) > -1
      bothNeg == Signed(a & b, w) < 0
      sum == Abs(x) + Abs(y)
      over == IF bothNeg /\ (x = least \/ y = least) THEN TRUE
              ELSE IF ~bothNeg /\ ~bothPos THEN FALSE
              ELSE \/ bothPos /\ sum >= 2^(w - 1)
                   \/ bothNeg /\ sum > 2^(w - 1)
  IN  << IF -(2^(w - 1)) <= x + y /\ x + y < 2^(w - 1) THEN Wrap(a + b, w)
         ELSE Poison,
         Bool(over) >>
LLVMSaddWithOverflow(a, b, w) ==
  IF w \in {8, 16} THEN SaddNarrow(a, b, w) ELSE SaddWide(a, b, w)
=============================================================================
