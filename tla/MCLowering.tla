----------------------------- MODULE MCLowering -----------------------------
(* Functions for the lowering passes: each construct a pass rewrites, with   *)
(* the users that make a difference, over every argument of a small width.   *)
EXTENDS Lowering

Prog(c, ins) == [code |-> c, exts |-> {}, ces |-> [x \in {} |-> 0],
                 globs |-> [x \in {} |-> 0], paths |-> {<<1>>}, rpo |-> <<1>>,
                 inputs |-> ins]
Exts(p, e)   == [p EXCEPT !.exts = e]
Vals(w)      == {<<x>> : x \in 0..(2^w - 1)}
Unary(w)     == {<<x>> : x \in Vals(w)}
Binary(w)    == {<<x, y>> : x, y \in Vals(w)}
O(id, o)     == Ins(id, "out", o.w, <<o>>)
V(i)         == Out(i)

(* Booleans: one or two operations on i1, with a comparison on top.          *)
BoolOps == {"zext", "sext", "uitofp", "sitofp"}
Preds   == {"eq", "ne", "ugt", "uge", "ult", "ule", "sgt", "sge", "slt", "sle"}
BoolPrograms ==
  {LET t == Ins(11, "trunc", 1, <<Ref(1, 3)>>)
       c == Pred(Ins(12, "icmp", 1, <<V(t), Ref(2, 1)>>), p)
       e == Ins(13, o, 4, <<V(c)>>)
   IN  Prog(<<t, c, e, O(14, V(e)), O(15, V(c))>>,
            {<<x, y>> : x \in Vals(3), y \in Vals(1)})
   : p \in Preds, o \in BoolOps}

(* Shifts of i1 with every mixture of users.                                 *)
ShiftPrograms ==
  {LET s == Ins(11, o, 1, <<Ref(1, 1), Ref(2, 1)>>)
       z == Ins(12, "zext", IntWidth, <<V(s)>>)
       a == Ins(13, "and", 1, <<V(s), Ref(1, 1)>>)
       s2 == Ins(16, "lshr", 1, <<V(s), Ref(2, 1)>>)
       us == [zext |-> <<z, O(14, V(z))>>, other |-> <<a, O(15, V(a))>>,
              both |-> <<z, a, O(14, V(z)), O(15, V(a))>>,
              chain |-> <<s2, z, O(14, V(z)), O(15, V(s2))>>]
   IN  Prog(<<s>> \o us[u], Binary(1))
   : o \in {"shl", "lshr"}, u \in {"zext", "other", "both", "chain"}}

(* Funnel shifts by an amount that is not a multiple of the width, and two   *)
(* calls that share a helper.                                                *)
FunnelPrograms ==
  {LET f == Ins(11, o, 3, <<Ref(1, 3), Ref(2, 3), Ref(3, 3)>>)
       g == Ins(12, p, 3, <<V(f), Ref(1, 3), Ref(3, 3)>>)
   IN  Prog(<<f, g, O(13, V(f)), O(14, V(g))>>,
            {<<x, y, z>> : x, y \in Vals(3), z \in {v \in Vals(3) : v[1] % 3 # 0}})
   : o, p \in {"fshl", "fshr"}}

(* Arithmetic with overflow.  The value of an unsigned product, and of a     *)
(* sum of the wide helpers, is looked at only where it is defined.           *)
Flagged(op, w, ins, part) ==
  LET f == Pair(Ins(11, op, w, <<Ref(1, w), Ref(2, w)>>))
      e == With(Ins(12, "extractvalue", w, <<V(f)>>), <<part>>)
  IN  Prog(<<f, e, O(13, V(e))>>, ins)
Few == {<<x>> : x \in {0, 1, 2, 100, 127, 128, 129, 200, 254, 255}}
FewPairs == {<<x, y>> : x, y \in Few}
Fits(op, w) == {x \in Binary(w) : WithOverflow(op, x[1][1], x[2][1], w)[2] = 0}
OverflowPrograms ==
  {Flagged(op, 8, FewPairs, k) : op \in {"uadd", "usub", "sadd"}, k \in {1, 2}}
    \cup {Flagged("sadd", 5, Binary(5), 2), Flagged("sadd", 5, Fits("sadd", 5), 1),
          Flagged("umul", 4, {x \in Fits("umul", 4) : x[1][1] # 0}, 1)}

(* Floating point minimum and maximum; odd saturating conversions.           *)
Floats == {<<x>> : x \in {-2, 0, 3, NaN, NegZero}}
MinimumPrograms ==
  {LET m == With(Ins(11, o, 32, <<Ref(1, 32), Ref(2, 32)>>), <<nsz, nnan>>)
   IN  Prog(<<m, O(12, V(m))>>, {<<x, y>> : x, y \in Floats})
   : o \in {"minimum", "maximum"}, nsz, nnan \in {0, 1}}
SatPrograms ==
  {LET s == Ins(11, o, w, <<Ref(1, 32)>>)
       e == Ins(12, x, 8, <<V(s)>>)
       t == Ins(13, "trunc", 2, <<V(s)>>)
   IN  Prog(IF alone THEN <<s, e, O(14, V(e))>> ELSE <<s, e, t, O(14, V(e)), O(15, V(t))>>,
            {<<<<v>>>> : v \in {-200, -9, -5, -4, -2, -1, 0, 1, 3, 4, 7, 8, 15, 16, 300, NaN, NegZero}})
   : o \in {"fptosi.sat", "fptoui.sat"}, x \in {"sext", "zext"}, w \in {2, 3, 4, 8},
     alone \in BOOLEAN}

(* Bit reversal on single bits (the bodies treat bits independently), freeze.*)
ReversePrograms ==
  {LET b == [Ins(11, "bitreverse", w, <<Lanes(Ref(1, w), n)>>) EXCEPT !.n = n]
       b2 == [Ins(12, "bitreverse", w, <<V(b)>>) EXCEPT !.n = n]
   IN  Exts(Prog(<<b, b2, O(13, V(b)), O(14, V(b2))>>,
                 {<<[l \in 1..n |-> IF l = 1 THEN s ELSE {0, 1}]>>
                  : s \in {{k} : k \in 0..(w - 1)} \cup {{}, 0..(w - 1)}}), e)
   : w \in {2, 4, 8, 16, 32, 64}, n \in {1, 3},
     e \in SUBSET {"bit_instructions", "arbitrary_precision"}}
FreezePrograms ==
  {LET f == Ins(11, "freeze", 3, <<x>>)
       a == Ins(12, "add", 3, <<V(f), V(f)>>)
   IN  Exts(Prog(<<f, a, O(13, V(a))>>, Unary(3)), e)
   : x \in {Ref(1, 3), Undef(3)}, e \in {{}, {"poison_freeze"}}}
SwapProgram ==
  LET b == Ins(11, "bswap", 16, <<Ref(1, 16)>>)
      c == Ins(12, "bswap", 16, <<V(b)>>)
  IN  Prog(<<b, c, O(13, V(b)), O(14, V(c))>>, {<<<<258>>>>, <<<<65281>>>>, <<<<7>>>>})

(* Memory: copies that may overlap, fills, compare and exchange.             *)
MemMove(id, d, s, n) == Ins(id, "memmove", 8, <<Ref(d, 32), Ref(s, 32), Lit(n, 32)>>)
MemSet(id, v, l, vol) == With(Ins(id, "memset", 8, <<Ref(1, 32), v, l>>), <<vol>>)
Pointers == {<<<<p>>, <<q>>>> : p \in 2..4, q \in 2..4}
MemoryPrograms ==
  {Prog(<<MemMove(11, 1, 2, n), MemMove(12, 2, 1, 1)>>, Pointers) : n \in 0..3}
    \cup {Prog(<<Ins(11, "memmove", 8, <<Ref(1, 32), Ref(2, 32), Ref(3, 32)>>)>>,
               {<<<<2>>, <<3>>, <<n>>>> : n \in 0..3})}
    \cup {Prog(<<MemSet(11, v, l, 0), MemSet(12, v, l, 1), MemSet(13, v, l, 0)>>,
               {<<<<4>>, <<x>>, <<n>>>> : x \in {0, 9}, n \in 0..2})
          : v \in {Ref(2, 8), Lit(7, 8)}, l \in {Ref(3, 32), Lit(2, 32)}}
    \cup {LET x == Pair(Ins(11, "cmpxchg", 8, <<Ref(1, 32), Ref(2, 8), Ref(3, 8)>>))
          IN  Prog(<<x, [O(12, V(x)) EXCEPT !.n = 2]>>,
                   {<<<<4>>, <<c>>, <<n>>>> : c, n \in {4, 5, 6}})}

(* Constant expressions: shared, nested, used first or only outside the      *)
(* entry block, and from metadata.                                           *)
CEs == (1 :> [op |-> "or", a |-> <<Lit(3, 32), Lit(8, 32)>>])
         @@ (3 :> [op |-> "or", a |-> <<ConstExpr(1), Lit(16, 32)>>])
         @@ (4 :> [op |-> "and", a |-> <<ConstExpr(1), ConstExpr(3)>>])
Md(c) == [ConstExpr(c) EXCEPT !.k = "mdce"]
ConstPrograms ==
  {LET A(id, o, bb) == In(Ins(id, "xor", 32, <<o, z>>), bb)
       U(id, x) == In(O(id, V(x)), x.bb)
       p1 == A(11, a, 1)  p2 == A(12, b, 1)  p3 == A(13, c, 2)  p4 == A(14, d, 3)
       br == Ins(20, "br", 1, <<>>)
   IN  [Prog(<<p1, U(15, p1), p2, U(16, p2), br, p3, U(17, p3), p4, U(18, p4)>>, {<<<<5>>>>})
          EXCEPT !.ces = CEs, !.paths = {<<1>>, <<1, 2>>, <<1, 3>>}, !.rpo = <<1, 2, 3>>]
   : a, b \in {Ref(1, 32), ConstExpr(1), ConstExpr(3)},
     c \in {Ref(1, 32), ConstExpr(1), ConstExpr(3), Md(1)}, d \in {Ref(1, 32), ConstExpr(3)},
     z \in {Ref(1, 32), ConstExpr(4)}}

(* Private constants, and cache controls on the accesses to memory.          *)
GlobPrograms ==
  {LET l1 == Ins(11, "load", 8, <<Glob(1)>>)
       l2 == Ins(12, "load", 8, <<IF ce THEN ConstExpr(1) ELSE Glob(g)>>)
       st == Ins(13, "store", 8, <<V(l1), Ref(1, 32)>>)
   IN  [Prog(<<l1, l2, st, O(14, V(l2))>>, {<<<<3>>>>})
          EXCEPT !.globs = (1 :> [base |-> 16, bytes |-> <<71, 72>>])
                             @@ (2 :> [base |-> 20, bytes |-> <<81>>]),
                 !.ces = 1 :> [op |-> "gep", a |-> <<Glob(1)>>]]
   : g \in {1, 2}, ce \in BOOLEAN}
CachePrograms ==
  {LET l == [Ins(11, "load", 8, <<Ref(1, 32)>>) EXCEPT !.d = d]
       s == [Ins(12, "store", 8, <<V(l), Ref(2, 32)>>) EXCEPT
               !.d = [k \in DOMAIN d |-> <<d[k][1], 2>>]]
   IN  Prog(<<l, s>>, Pointers)
   : d \in {<<>>, <<<<1, 1>>>>, <<<<1, 1>>, <<2, 1>>>>}}

(* Vectors.  Each byte of the source is different, so that one argument      *)
(* tells every way of mixing up lanes apart.                                 *)
Vec(w, n) == Regroup([b \in 1..((w * n) \div 8) |-> b], w)
Cast(id, w, n, x) == [Ins(id, "bitcast", w, <<x>>) EXCEPT !.n = n]
Lane1(id, v, k) == Ins(id, "extractelement", v.w, <<V(v), k>>)
Shuffle(id, x, y, m) == [With(Ins(id, "shufflevector", x.w, <<x, y>>), m) EXCEPT !.n = Len(m)]
Shapes == { <<24, 4, 16, 6>>, <<16, 16, 8, 32>>, <<32, 3, 16, 6>>, <<24, 4, 8, 12>>,
            <<16, 5, 8, 10>>, <<16, 3, 8, 6>>, <<16, 4, 8, 8>> }
VectorPrograms ==
  {LET x == Lanes(Ref(1, s[1]), s[2])
       c == Cast(11, s[3], s[4], x)
       a == Lane1(12, c, Lit(0, 32))
       b == Lane1(13, c, Lit(s[4] - 1, 32))
       d == Lane1(14, c, Lit((s[4] \div 2) - 1, 32))
       st == In(Ins(19, "store", s[3], <<V(c), Ref(2, 32)>>), 1)
       us == [one |-> <<b, O(16, V(b))>>, two |-> <<a, b, O(15, V(a)), O(16, V(b))>>,
              three |-> <<a, d, b, O(15, V(a)), O(16, V(b)), O(17, V(d))>>,
              kept |-> <<a, st, O(15, V(a))>>,
              variable |-> <<Lane1(12, c, Ref(3, 32)), O(15, Ref(12, s[3]))>>]
   IN  Exts(Prog(<<c>> \o us[u], {<<Vec(s[1], s[2]), <<4>>, <<1>>>>}), e)
   : s \in Shapes, u \in {"one", "two", "three", "kept", "variable"},
     e \in {{}, {"long_vector"}}}
LoadPrograms ==
  {LET l == [Ins(11, "load", 8, <<Ref(1, 32)>>) EXCEPT !.n = n]
       c == Cast(12, 8, n, Lanes(Out(l), n))
       v == IF cast THEN c ELSE l
       a == Lane1(13, v, Lit(1, 32))  b == Lane1(14, v, Lit(n - 1, 32))
   IN  Prog(<<l>> \o (IF cast THEN <<c>> ELSE <<>>) \o <<a, b, O(15, V(a)), O(16, V(b))>>,
            {<<<<4>>>>})
   : n \in {4, 6, 10, 12}, cast \in BOOLEAN}
ShufflePrograms ==
  {LET x == Lanes(Ref(1, 24), 4)
       c == Cast(11, 16, 6, x)  c2 == Cast(12, 16, 6, Lanes(Ref(2, 24), 4))
       y == CASE o = "same" -> V(c) [] o = "other" -> V(c2)
              [] o = "undef" -> Lanes(Undef(16), 6)
              [] o = "const" -> [Lanes(Lit(0, 16), 6) EXCEPT !.c = <<900, 901, 902, 903, 904, 905>>]
       s == Shuffle(13, V(c), y, m)
   IN  Prog(<<c, c2, s, O(14, V(s))>>,
            {<<Vec(24, 4), [l \in 1..4 |-> 4096 + l]>>})
   : o \in {"same", "other", "undef", "const"},
     m \in {<<0, 1, 2>>, <<3, 4, 5>>, <<5, 0>>, <<2, 3, 8, 9>>, <<0, 3, 6, 9>>,
            <<-1, -1>>, <<-1, 4, 7>>, <<0, 1, 2, 3, 4>>}}
(* The defining block comes after its user in the layout.                    *)
LayoutProgram ==
  LET c == In(Cast(11, 16, 6, Lanes(Ref(1, 24), 4)), 2)
      a == In(Lane1(12, c, Lit(4, 32)), 3)
  IN  [Prog(<<Ins(20, "br", 1, <<>>), a, In(O(13, V(a)), 3), c>>, {<<Vec(24, 4)>>})
         EXCEPT !.paths = {<<1, 2, 3>>}, !.rpo = <<1, 2, 3>>]

MCPrograms == BoolPrograms \cup ShiftPrograms \cup FunnelPrograms \cup OverflowPrograms
  \cup MinimumPrograms \cup SatPrograms \cup ReversePrograms \cup FreezePrograms
  \cup {SwapProgram, LayoutProgram} \cup MemoryPrograms \cup ConstPrograms
  \cup GlobPrograms \cup CachePrograms \cup VectorPrograms \cup LoadPrograms
  \cup ShufflePrograms
=============================================================================
