------------------------------ MODULE Lowering ------------------------------
(* The passes that bring LLVM IR into the subset SPIR-V can express, in the  *)
(* order addPassesForSPIRV runs them.  A pass goes over a work list of the   *)
(* function's instructions and rewrites one at a time: new instructions are  *)
(* put before the visited one, the last of them takes over its uses (and     *)
(* here its id).  What is left behind is erased when the pass is over.       *)
EXTENDS LoweringSemantics, SequencesExt

CONSTANTS Programs,   \* the functions lowered, see ProgramOK
          IntWidth    \* the width standing for i32

(* A program is [code, exts: extensions allowed, ces: constant expressions,  *)
(*  globs: private constants [base, bytes], paths: ways through the blocks,  *)
(*  rpo: the blocks in reverse post order, inputs: argument values tried].   *)
ProgramOK(p) ==
  /\ p.exts \subseteq {"bit_instructions", "arbitrary_precision", "poison_freeze",
                       "long_vector"}
  /\ \A q \in p.paths : Head(q) = 1 /\ Range(q) \subseteq Range(p.rpo)
  /\ \A x \in p.inputs, i \in DOMAIN p.code : p.code[i].id \notin DOMAIN x
ASSUME ProgramsAssumption ==
  IntWidth \in 3..30 /\ \A p \in Programs : ProgramOK(p)

VARIABLES
  prog,      \* the function as it was
  code,      \* the function as it is
  pass,      \* the pass running, "done" or "error"
  todo,      \* what the pass has still to visit
  dead,      \* ToErase, Replaced, InstsToErase
  fresh,     \* the next unused id
  helpers,   \* functions the passes added: name -> body
  halves,    \* Halves: value -> its two legal halves
  tracked    \* MaybeDeletedInsts: what became of each, 0 when nothing

vars == <<prog, code, pass, todo, dead, fresh, helpers, halves, tracked>>

-----------------------------------------------------------------------------
(* The function as a sequence of instructions.                               *)
Pos(c, id)       == CHOOSE i \in DOMAIN c : c[i].id = id
Find(c, id)      == c[Pos(c, id)]
Before(c, i, new) == SubSeq(c, 1, i - 1) \o new \o SubSeq(c, i, Len(c))
Uses(c, id)      == {<<i, j>> \in (DOMAIN c) \X (1..3) :
                       /\ j \in DOMAIN c[i].a
                       /\ c[i].a[j].k = "id" /\ c[i].a[j].v = id}
Users(c, id)     == {c[u[1]].id : u \in Uses(c, id)}
Substitute(c, Old(_), new) ==
  [i \in DOMAIN c |->
     [c[i] EXCEPT !.a = [j \in DOMAIN @ |-> IF Old(@[j]) THEN new ELSE @[j]]]]
ReplaceAllUses(c, id, new) ==
  Substitute(c, LAMBDA o : o.k = "id" /\ o.v = id, new)
Erase(c, ids)    == SelectSeq(c, LAMBDA i : i.id \notin ids)
PastAllocas(c)   == CHOOSE i \in 1..(Len(c) + 1) :
                      /\ \A j \in 1..(i - 1) : c[j].op = "alloca"
                      /\ i = Len(c) + 1 \/ c[i].op # "alloca"
(* Memory cells below 32 belong to the arguments and globals.                *)
NewAlloca(c, id) == With(Ins(id, "alloca", 32, <<>>),
                         <<32 + 8 * Cardinality({i \in DOMAIN c : c[i].op = "alloca"})>>)

-----------------------------------------------------------------------------
(* Running a function: e = [v: values, m: memory].                           *)
RECURSIVE Value(_, _)
Value(o, e) ==
  CASE o.k = "id"    -> IF o.v \in DOMAIN e.v THEN e.v[o.v]
                        ELSE [l \in 1..o.n |-> Unbound]
    [] o.k = "lit"   -> o.c
    [] o.k = "undef" -> [l \in 1..o.n |-> Poison]
    [] o.k = "glob"  -> <<prog.globs[o.v].base>>
    [] o.k \in {"ce", "mdce"} ->
         LET x == prog.ces[o.v]
         IN  Result(Ins(0, x.op, 32, x.a), [j \in DOMAIN x.a |-> Value(x.a[j], e)], 1)

Cells(at, n) == at..(at + n - 1)
Overlap(p, q, n) == Cells(p, n) \cap Cells(q, n) # {}
Copied(m, d, s, n) == [k \in Cells(d, n) |-> m[s + k - d]] @@ m
Stored(m, p, bs) == [k \in Cells(p, Len(bs)) |-> bs[k - p + 1]] @@ m
Loaded(m, p, w, n) == Regroup([b \in 1..((n * w) \div 8) |-> m[p + b - 1]], w)
MaySkip(x) == x \in {Poison, Unbound}

(* Memory after instruction i with operand values x.                         *)
MemAfter(i, x, m) ==
  CASE \E j \in DOMAIN x : i.op \in {"store", "memcpy", "memmove", "memset", "sret"}
                           /\ MaySkip(x[j][1]) /\ ~(i.op = "store" /\ j = 1) -> m
    [] i.op = "store"   -> Stored(m, x[2][1], Bytes(x[1], i.a[1].w))
    [] i.op = "memcpy"  -> IF x[1][1] # x[2][1] /\ Overlap(x[1][1], x[2][1], i.m[1])
                           THEN Stored(m, x[1][1], [k \in 1..i.m[1] |-> Poison])
                           ELSE Copied(m, x[1][1], x[2][1], i.m[1])
    [] i.op = "memmove" -> Copied(m, x[1][1], x[2][1], x[3][1])
    [] i.op = "memset" \/ (i.op = "call" /\ i.p = "memset") ->
         Stored(m, x[1][1], [k \in 1..x[3][1] |-> x[2][1]])
    [] i.op = "sret"    -> Stored(m, x[1][1], WithOverflow(i.p, x[2][1], x[3][1], i.w))
    [] i.op = "cmpxchg" -> IF Loaded(m, x[1][1], 8, 1) = x[2]
                           THEN Stored(m, x[1][1], x[3]) ELSE m
    [] i.op = "atomiccmpxchg" -> IF Loaded(m, x[1][1], 8, 1) = x[3]
                                 THEN Stored(m, x[1][1], x[2]) ELSE m
    [] OTHER -> m

Name(i) == <<i.p, i.w, i.a[1].n, i.m>>
RECURSIVE Run(_, _, _, _)
Execute(i, x, e, hs, pick) ==
  CASE i.op \in {"br", "store", "memcpy", "memmove", "memset", "sret"} -> <<>>
    [] i.op = "alloca" -> i.m
    [] i.op = "load"   -> IF MaySkip(x[1][1]) THEN [l \in 1..i.n |-> Poison]
                          ELSE Loaded(e.m, x[1][1], i.w, i.n)
    [] i.op = "cmpxchg" -> LET old == Loaded(e.m, x[1][1], 8, 1)
                           IN  <<old[1], Bool(old = x[2])>>
    [] i.op = "atomiccmpxchg" -> Loaded(e.m, x[1][1], 8, 1)
    [] i.op = "call" /\ i.p = "bitreverse" ->
         LLVMBitreverseVector(x[1], i.w)
    [] i.op = "call" /\ i.p = "sadd" ->
         LLVMSaddWithOverflow(x[1][1], x[2][1], i.w)
    [] i.op = "call" /\ i.p = "memset" -> <<>>      \* see MemAfter
    [] i.op = "call" ->
         LET body == hs[Name(i)].code
             r == Run(body, [v |-> [j \in DOMAIN x |-> x[j]], m |-> e.m], hs, pick)
         IN  r.v[body[Len(body)].id]
    [] OTHER -> Result(i, x, pick)

Run(c, e, hs, pick) ==
  IF c = <<>> THEN e
  ELSE LET i == Head(c)
           x == [j \in DOMAIN i.a |-> Value(i.a[j], e)]
           next == {[v |-> (i.id :> r) @@ e.v, m |-> MemAfter(i, x, e.m)]
                      : r \in {Execute(i, x, e, hs, pick)}}
       IN  CHOOSE r \in {Run(Tail(c), s, hs, pick) : s \in next} : TRUE

(* The instructions a path of blocks runs, in order.                         *)
Along(c, q) == FlattenSeq([b \in DOMAIN q |-> SelectSeq(c, LAMBDA i : i.bb = q[b])])
Memory ==
  LET held(g) == Stored([k \in {} |-> 0], prog.globs[g].base, prog.globs[g].bytes)
  IN  FoldFunction(LAMBDA f, m : f @@ m, [k \in 0..95 |-> IF k < 32 THEN k + 1 ELSE Poison],
                   [g \in DOMAIN prog.globs |-> held(g)])
Picks(c) == IF \E i \in DOMAIN c : c[i].op \in {"minnum", "maxnum"} THEN {1, 2} ELSE {1}
Final(c, q, x, hs, pick) == Run(Along(c, q), [v |-> x, m |-> Memory], hs, pick)

-----------------------------------------------------------------------------
PassOrder == << "sat", "globals", "regularize", "constexpr", "bool", "memmove",
                "intrinsic", "split", "extract" >>
AllIds(c)     == [i \in DOMAIN c |-> c[i].id]
IsValidVectorSize(n) == n \in {2, 3, 4, 8, 16}
NonStandard(n) == n > 1 /\ ~IsValidVectorSize(n)
IsVectorPass(p) == p \in {"split", "extract"}

(* What a pass visits: the globals, the blocks in reverse post order, the    *)
(* extractions from vectors of an unsupported size, or every instruction.    *)
WorkList(p, c) ==
  CASE p = "globals" -> SetToSeq(DOMAIN prog.globs)
    [] IsVectorPass(p) /\ "long_vector" \in prog.exts -> <<>>
    [] p = "split"   -> AllIds(Along(c, prog.rpo))
    [] p = "extract" -> AllIds(SelectSeq(c, LAMBDA i :
                          i.op = "extractelement" /\ NonStandard(i.a[1].n)))
    [] OTHER -> AllIds(c)

Init ==
  /\ prog \in Programs
  /\ code = prog.code
  /\ pass = "sat"
  /\ todo = AllIds(prog.code)
  /\ dead = <<>>
  /\ fresh = 50
  /\ helpers = [x \in {} |-> 0]
  /\ halves = [x \in {} |-> 0]
  /\ tracked = [x \in {} |-> 0]

I == Find(code, Head(todo))
At == Pos(code, Head(todo))
Advance == todo' = Tail(todo)

(* Replace the visited instruction by a list whose last one has its id.      *)
Become(new) ==
  /\ code' = SubSeq(code, 1, At - 1) \o [j \in DOMAIN new |-> In(new[j], I.bb)]
               \o SubSeq(code, At + 1, Len(code))
  /\ Advance /\ fresh' = fresh + Len(new)
OnlyCode == UNCHANGED <<prog, pass, dead, helpers, halves, tracked>>

-----------------------------------------------------------------------------
(* Which rewriting of the running pass the visited instruction i meets.      *)
OddWidth(w) == w \notin {8, 16, 32, 64}
Extension(i) == IF i.op = "fptosi.sat" THEN "sext" ELSE "zext"
WidensMutant(i) ==             \* other users of the conversion overlooked
  /\ i.op \in {"fptosi.sat", "fptoui.sat"}
  /\ OddWidth(i.w)
  /\ Find(code, CHOOSE u \in Users(code, i.id) : TRUE).op = Extension(i)
Widens(i) == /\ i.op \in {"fptosi.sat", "fptoui.sat"}
             /\ OddWidth(i.w)
             /\ Cardinality(Users(code, i.id)) = 1
             /\ \A u \in Users(code, i.id) : Find(code, u).op = Extension(i)
RegularRule(i) ==
  CASE i.op \in {"load", "store"} /\ i.d # <<>> -> "cache"
    [] i.op \in {"memset", "bswap"} -> "function"
    [] i.op \in {"fshl", "fshr", "umul"} -> "helper"
    [] i.op \in {"minimum", "maximum"} -> "minimum"
    [] i.op \in {"uadd", "usub"} -> "overflow"
    [] i.op \in {"shl", "lshr"} /\ i.a[1].w = 1 -> "shift"
    [] i.op = "freeze" /\ "poison_freeze" \notin prog.exts -> "freeze"
    [] i.op = "cmpxchg" -> "cmpxchg"
    [] OTHER -> "none"
BoolRule(i) ==
  CASE i.op = "trunc" /\ i.w = 1 -> "trunc"
    [] i.op = "icmp" /\ i.a[1].w = 1 /\ i.p \notin {"eq", "ne"} -> "icmp"
    [] i.op \in {"zext", "sext"} /\ i.a[1].w = 1 -> "ext"
    [] i.op \in {"uitofp", "sitofp"} /\ i.a[1].w = 1 -> "cast"
    [] OTHER -> "none"
ConstOperands(i) == {j \in DOMAIN i.a : i.a[j].k \in {"ce", "mdce"}}
(* A mapping is applied only if its required extension is allowed and its    *)
(* forbidden one is not.                                                     *)
Emulated(i) ==
  \/ i.op = "sadd"
  \/ /\ i.op = "bitreverse" /\ "bit_instructions" \notin prog.exts
     /\ i.w \in {8, 16, 32, 64} \/ "arbitrary_precision" \in prog.exts
HalfSize(n) == IF NonStandard(n) /\ n % 2 = 0 /\ IsValidVectorSize(n \div 2)
               THEN n \div 2 ELSE 0
CanSplit(o) == (o.k = "id" /\ o.v \in DOMAIN halves) \/ o.k \in {"lit", "undef"}
SplitRule(i) ==
  CASE /\ i.op = "bitcast" /\ HalfSize(i.n) # 0 /\ i.w # 1
       /\ i.a[1].n % 2 = 0 /\ IsValidVectorSize(i.a[1].n)
       /\ IsValidVectorSize(i.a[1].n \div 2) -> "bitcast"
    [] /\ i.op = "extractelement" /\ HalfSize(i.a[1].n) # 0
       /\ i.a[2].k = "lit" /\ CanSplit(i.a[1]) -> "lane"
    [] /\ i.op = "shufflevector" /\ HalfSize(i.a[1].n) # 0
       /\ IsValidVectorSize(i.n) /\ CanSplit(i.a[1]) /\ CanSplit(i.a[2]) -> "shuffle"
    [] OTHER -> "none"
RECURSIVE Factor(_, _)
Factor(n, f) == IF n % f = 0 /\ ~IsValidVectorSize(n \div f) THEN Factor(n, 2 * f)
                ELSE f
FactorOf(n) == IF n % Factor(n, 2) = 0 THEN Factor(n, 2) ELSE 0
CanWiden(i) == /\ FactorOf(i.a[1].n) # 0
               /\ i.a[1].k = "id" /\ i.a[2].k = "lit"
               /\ i.a[1].v \in Range(AllIds(code))
               /\ Find(code, i.a[1].v).op \in {"load", "bitcast"}
If(test, rule) == IF test THEN rule ELSE "none"
Rule ==
  CASE todo = <<>>          -> "end"
    [] pass = "sat"         -> If(Widens(I), "sat")
    [] pass = "globals"     -> "global"
    [] pass = "regularize"  -> RegularRule(I)
    [] pass = "constexpr"   -> If(ConstOperands(I) # {}, "constexpr")
    [] pass = "bool"        -> BoolRule(I)
    [] pass = "memmove"     -> If(I.op = "memmove" /\ I.a[3].k = "lit", "memmove")
    [] pass = "intrinsic"   -> If(Emulated(I), "emulate")
    [] pass = "split"       -> SplitRule(I)
    [] pass = "extract"     -> IF CanWiden(I) THEN "widen" ELSE "fatal"

-----------------------------------------------------------------------------
(* cleanupConversionToNonStdIntegers: a saturating conversion to an integer  *)
(* of odd width and the extension that is its only user become a conversion  *)
(* to the extended type, clamped to the limits of the odd one.               *)
ClampSigned(id, x, w, ow) ==
  LET max == Lit(2^(ow - 1) - 1, w)  min == Lit(2^w - 2^(ow - 1), w)
      conv == Ins(id, "fptosi.sat", w, <<x>>)
      gt == Pred(Ins(id + 1, "icmp", 1, <<Out(conv), max>>), "sge")
      lt == Pred(Ins(id + 2, "icmp", 1, <<Out(conv), min>>), "sle")
      hi == Ins(id + 3, "select", w, <<Out(gt), max, Out(conv)>>)
      lo == Ins(id + 4, "select", w, <<Out(lt), min, Out(hi)>>)
  IN  <<conv, gt, lt, hi, lo>>
ClampUnsigned(id, x, w, ow) ==
  LET max == Lit(2^ow - 1, w)
      conv == Ins(id, "fptoui.sat", w, <<x>>)
      gt == Pred(Ins(id + 1, "icmp", 1, <<Out(conv), max>>), "uge")
      hi == Ins(id + 2, "select", w, <<Out(gt), max, Out(conv)>>)
  IN  <<conv, gt, hi>>

CleanupConversion ==
  /\ Rule = "sat"
  /\ LET u == Find(code, CHOOSE u \in Users(code, I.id) : TRUE)
         new == IF I.op = "fptosi.sat" THEN ClampSigned(fresh, I.a[1], u.w, I.w)
                ELSE ClampUnsigned(fresh, I.a[1], u.w, I.w)
     IN  /\ code' = ReplaceAllUses(Before(code, At, new), u.id, Out(new[Len(new)]))
         /\ dead' = dead \o <<u.id, I.id>>
  /\ Advance /\ fresh' = fresh + 5
  /\ UNCHANGED <<prog, pass, helpers, halves, tracked>>

(* replacePrivateConstGlobalsWithAllocas: a copy per function, initialised   *)
(* at the top of its entry block.                                            *)
UsedByConstant(g) == \E c \in DOMAIN prog.ces :
                       \E j \in DOMAIN prog.ces[c].a :
                         prog.ces[c].a[j].k = "glob" /\ prog.ces[c].a[j].v = g
ReplacePrivateConstGlobal ==
  /\ Rule = "global"
  /\ LET g == Head(todo)
         used == \E i \in DOMAIN code, j \in 1..3 :
                   j \in DOMAIN code[i].a /\ code[i].a[j] = Glob(g)
         a == NewAlloca(code, fresh)
         init == [Lanes(Lit(0, 8), Len(prog.globs[g].bytes))
                    EXCEPT !.c = prog.globs[g].bytes]
         st == Ins(fresh + 1, "store", 8, <<init, Out(a)>>)
     IN  code' = IF UsedByConstant(g) \/ ~used THEN code
                 ELSE <<a, st>> \o Substitute(code, LAMBDA o : o = Glob(g), Out(a))
  /\ Advance /\ fresh' = fresh + 2 /\ OnlyCode

-----------------------------------------------------------------------------
(* prepareCacheControlsTranslation: each control becomes a decoration on a   *)
(* zero offset made for the operand, or on the one already made; meeting     *)
(* one already made ends the walk over the controls.                         *)
AddDecoration(d, kind) == <<<<kind, 0>>>> \o d
RECURSIVE Decorate(_, _, _)
Decorate(c, id, ctl) ==
  IF ctl = <<>> THEN c
  ELSE LET i == Find(c, id)  kind == Head(ctl)[1]  arg == Head(ctl)[2]
           o == i.a[arg]
           made == o.k = "id" /\ o.v >= fresh
           g == [Ins(fresh + Len(c), "gep", 32, <<o>>)
                   EXCEPT !.d = <<<<kind, 0>>>>, !.bb = i.bb]
       IN  IF made THEN [c EXCEPT ![Pos(c, o.v)].d = AddDecoration(@, kind)]
           ELSE Decorate([Before(c, Pos(c, id), <<g>>) EXCEPT
                            ![Pos(c, id) + 1].a[arg] = Out(g)], id, Tail(ctl))
CacheControls ==
  /\ Rule = "cache"
  /\ code' = [Decorate(code, I.id, I.d) EXCEPT
                ![Pos(Decorate(code, I.id, I.d), I.id)].d = <<>>]
  /\ fresh' = fresh + Len(code) + 10
  /\ UNCHANGED todo /\ OnlyCode

(* lowerIntrinsicToFunction: a function of its own that expands the          *)
(* intrinsic, unless it is a memset of a constant value and length.  The     *)
(* name tells a volatile one (I.m = <<1>>) apart.                            *)
FunctionName(i) == <<i.op, i.w, i.a[1].n, i.m>>
LeftToWriter(i) == i.op = "memset" /\ IsConst(i.a[2]) /\ IsConst(i.a[3])
LowerIntrinsicToFunction ==
  /\ Rule = "function"
  /\ LET name == FunctionName(I)
         known == LeftToWriter(I) \/ name \in DOMAIN helpers
         params == [j \in DOMAIN I.a |-> [k |-> "id", v |-> j, c |-> <<>>,
                                          w |-> I.a[j].w, n |-> I.a[j].n]]
         body == [I EXCEPT !.id = 9, !.a = params, !.bb = 1]
     IN  /\ code' = IF LeftToWriter(I) THEN code
                    ELSE [code EXCEPT ![At].op = "call", ![At].p = I.op, ![At].m = name[4]]
         /\ helpers' = IF known THEN helpers
                       ELSE [x \in DOMAIN helpers \cup {name} |->
                               IF x = name THEN [code |-> <<body>>, op |-> I.op]
                               ELSE helpers[x]]
  /\ Advance /\ UNCHANGED <<prog, pass, dead, fresh, halves, tracked>>

(* lowerFunnelShift: the body built for llvm.fshl and llvm.fshr; parameters  *)
(* are values 1, 2 and 3.                                                    *)
FunnelShiftBody(op, w, n) ==
  LET P(k) == Lanes(Ref(k, w), n)
      N(i) == [i EXCEPT !.n = n]
      bw == Lit(w, w)
      mod == N(Ins(4, "urem", w, <<P(3), bw>>))
      first == N(IF op = "fshr" THEN Ins(5, "lshr", w, <<P(2), Out(mod)>>)
                 ELSE Ins(5, "shl", w, <<P(1), Out(mod)>>))
      sub == N(Ins(6, "sub", w, <<bw, Out(mod)>>))
      sec == N(IF op = "fshr" THEN Ins(7, "shl", w, <<P(1), Out(sub)>>)
               ELSE Ins(7, "lshr", w, <<P(2), Out(sub)>>))
  IN  <<mod, first, sub, sec, N(Ins(8, "or", w, <<Out(first), Out(sec)>>))>>

(* buildUMulWithOverflowFunc.                                                *)
UMulBody(w) ==
  LET mul == Ins(4, "mul nuw", w, <<Ref(1, w), Ref(2, w)>>)
      div == Ins(5, "udiv", w, <<Out(mul), Ref(1, w)>>)
      ovf == Pred(Ins(6, "icmp", 1, <<Ref(1, w), Out(div)>>), "ne")
      agg == With(Pair(Ins(7, "insertvalue", w, <<Lanes(Undef(w), 2), Out(mul)>>)), <<1>>)
  IN  <<mul, div, ovf, agg,
        With(Pair(Ins(8, "insertvalue", w, <<Out(agg), Out(ovf)>>)), <<2>>)>>

Helper(i) == IF i.op = "umul" THEN UMulBody(i.w) ELSE FunnelShiftBody(i.op, i.w, i.n)
CallHelper(i) == [i EXCEPT !.op = "call", !.p = i.op]
LowerToHelper ==
  /\ Rule = "helper"
  /\ LET call == CallHelper(I)
     IN  /\ code' = [code EXCEPT ![At] = call]
         /\ helpers' = IF Name(call) \in DOMAIN helpers THEN helpers
                       ELSE [x \in DOMAIN helpers \cup {Name(call)} |->
                               IF x = Name(call)
                               THEN [code |-> Helper(I), op |-> I.op]
                               ELSE helpers[x]]
  /\ Advance /\ UNCHANGED <<prog, pass, dead, fresh, halves, tracked>>

(* lowerFMinimumMaximum; I.m = <<nsz, nnan>>.                                *)
MinimumCode(i, id) ==
  LET x == i.a[1]  y == i.a[2]  w == i.w  max == i.op = "maximum"
      m == Ins(id, IF max THEN "maxnum" ELSE "minnum", w, <<x, y>>)
      xsign == Ins(id + 1, "copysign", w, <<Lit(1, w), x>>)
      xneg == Pred(Ins(id + 2, "fcmp", 1, <<Out(xsign), Lit(0, w)>>), "olt")
      s == Ins(id + 3, "select", w, IF max THEN <<Out(xneg), y, x>>
                                    ELSE <<Out(xneg), x, y>>)
      ms == Ins(id + 4, "copysign", w, <<Out(m), Out(s)>>)
      signed == IF i.m[1] = 1 THEN <<m>> ELSE <<m, xsign, xneg, s, ms>>
      uno == Pred(Ins(id + 5, "fcmp", 1, <<x, y>>), "uno")
      res == Ins(id + 6, "select", w, <<Out(uno), Lit(NaN, w), Out(Last(signed))>>)
  IN  IF i.m[2] = 1 THEN signed ELSE signed \o <<uno, res>>
Finish(new, id) == [new EXCEPT ![Len(new)].id = id]
LowerFMinimumMaximum ==
  /\ Rule = "minimum"
  /\ code' = SubSeq(code, 1, At - 1)
               \o [j \in DOMAIN MinimumCode(I, fresh) |->
                     In(Finish(MinimumCode(I, fresh), I.id)[j], I.bb)]
               \o SubSeq(code, At + 1, Len(code))
  /\ Advance /\ fresh' = fresh + 7 /\ OnlyCode

(* regularizeWithOverflowInstrinsics: a SPIR-V builtin that stores the pair  *)
(* through its first argument; the flag comes back as an integer.            *)
OverflowCode(i, id, slot) ==
  LET sret == Pred(Ins(id + 1, "sret", i.w, <<Out(slot)>> \o i.a), i.op)
      l == Pair(Ins(id + 2, "load", i.w, <<Out(slot)>>))
      v0 == With(Ins(id + 3, "extractvalue", i.w, <<Out(l)>>), <<1>>)
      v1 == With(Ins(id + 4, "extractvalue", i.w, <<Out(l)>>), <<2>>)
      v2 == Pred(Ins(id + 5, "icmp", 1, <<Out(v1), Lit(0, i.w)>>), "ne")
      v3 == With(Pair(Ins(id + 6, "insertvalue", i.w, <<Lanes(Undef(i.w), 2), Out(v0)>>)), <<1>>)
  IN  <<sret, l, v0, v1, v2, v3,
        With(Pair(Ins(i.id, "insertvalue", i.w, <<Out(v3), Out(v2)>>)), <<2>>)>>
WithOverflowIntrinsics ==
  /\ Rule = "overflow"
  /\ LET slot == NewAlloca(code, fresh)
         c == SubSeq(code, 1, At - 1)
                \o [j \in 1..7 |-> In(OverflowCode(I, fresh, slot)[j], I.bb)]
                \o SubSeq(code, At + 1, Len(code))
     IN  code' = Before(c, PastAllocas(c), <<slot>>)
  /\ Advance /\ fresh' = fresh + 8 /\ OnlyCode

(* i1 is a boolean to the translator, and booleans have no shifts.  Both     *)
(* shifts become a right shift of integers: a left shift by one is poison.   *)
(* A zext of the shift becomes the integer, any other user compares it.      *)
LogicalShift ==
  /\ Rule = "shift"
  /\ LET Ext(o, id) == Ins(id, "select", IntWidth, <<o, Lit(1, IntWidth), Lit(0, IntWidth)>>)
         base == Ext(I.a[1], fresh)
         amount == Ext(I.a[2], fresh + 1)
         sh == Ins(fresh + 2, "lshr", IntWidth, <<Out(base), Out(amount)>>)
         cmp == Pred(Ins(fresh + 3, "icmp", 1, <<Out(sh), Lit(0, IntWidth)>>), "ne")
         zexts == SelectSeq(AllIds(code), LAMBDA u : u \in Users(code, I.id)
                                                     /\ Find(code, u).op = "zext")
         others == Users(code, I.id) \ Range(zexts)
         new == <<base, amount, sh>> \o (IF others = {} THEN <<>> ELSE <<cmp>>)
         c0 == Before(code, At, [j \in DOMAIN new |-> In(new[j], I.bb)])
         c1 == [i \in DOMAIN c0 |->
                  [c0[i] EXCEPT !.a = [j \in DOMAIN @ |->
                     IF @[j].k = "id" /\ @[j].v \in Range(zexts) THEN Out(sh)
                     ELSE IF @[j].k = "id" /\ @[j].v = I.id
                     THEN (IF c0[i].id \in Range(zexts) THEN Lit(0, 1) ELSE Out(cmp))
                     ELSE @[j]]]]
     IN  code' = c1 /\ dead' = dead \o zexts \o <<I.id>>
  /\ Advance /\ fresh' = fresh + 4
  /\ UNCHANGED <<prog, pass, helpers, halves, tracked>>

(* Without SPV_KHR_poison_freeze a freeze gives way to its operand, or to    *)
(* zero when that is undef.                                                  *)
Freeze ==
  /\ Rule = "freeze"
  /\ LET v == IF I.a[1].k = "undef" THEN Lit(0, I.w) ELSE I.a[1]
     IN  code' = [ReplaceAllUses(code, I.id, v) EXCEPT ![At].a = <<Lit(0, I.w)>>]
  /\ dead' = Append(dead, I.id)
  /\ Advance /\ UNCHANGED <<prog, pass, fresh, helpers, halves, tracked>>

(* OpAtomicCompareExchange returns the old value only: the flag of a cmpxchg *)
(* is made by comparing it with the comparator.                              *)
CmpxchgCode(i, id) ==
  LET res == Ins(id, "atomiccmpxchg", i.w, <<i.a[1], i.a[3], i.a[2]>>)
      ok == Pred(Ins(id + 1, "icmp", 1, <<Out(res), i.a[2]>>), "eq")
      v1 == With(Pair(Ins(id + 2, "insertvalue", i.w, <<Lanes(Undef(i.w), 2), Out(res)>>)), <<1>>)
  IN  <<res, ok, v1, With(Pair(Ins(i.id, "insertvalue", i.w, <<Out(v1), Out(ok)>>)), <<2>>)>>
Cmpxchg == Rule = "cmpxchg" /\ Become(CmpxchgCode(I, fresh)) /\ OnlyCode

-----------------------------------------------------------------------------
(* SPIRVLowerConstExpr: a constant expression becomes an instruction of the  *)
(* entry block, before the visited instruction or before the block's end,    *)
(* and in any case before its first user there; all users in the function    *)
(* take it.  It is visited next.                                             *)
EntryEnd(c) == Last(SelectSeq([i \in DOMAIN c |-> i], LAMBDA i : c[i].bb = 1))
InsertPointMutant(c, i, ce) == \* not moved before earlier users
  IF i.bb = 1 THEN Pos(c, i.id) ELSE EntryEnd(c)
InsertPoint(c, i, ce) ==
  LET from == IF i.bb = 1 THEN Pos(c, i.id) ELSE EntryEnd(c)
      users == {j \in DOMAIN c : c[j].bb = 1 /\ \E k \in DOMAIN c[j].a : c[j].a[k] = ce}
  IN  CHOOSE p \in users \cup {from} : \A q \in users \cup {from} : p <= q
LowerConstExpr ==
  /\ Rule = "constexpr"
  /\ LET j == CHOOSE j \in ConstOperands(I) : \A k \in ConstOperands(I) : j <= k
         ce == ConstExpr(I.a[j].v)
         x == prog.ces[ce.v]
         new == Ins(fresh, x.op, 32, x.a)
         c == Substitute(Before(code, InsertPoint(code, I, ce), <<new>>),
                         LAMBDA o : o = ce, Out(new))
     IN  code' = [c EXCEPT ![Pos(c, I.id)].a[j] = Out(new)]
  /\ todo' = <<Head(todo), fresh>> \o Tail(todo)
  /\ fresh' = fresh + 1 /\ OnlyCode

-----------------------------------------------------------------------------
(* SPIRVLowerBool.                                                           *)
VisitTrunc ==
  /\ Rule = "trunc"
  /\ LET w == I.a[1].w
         and == Ins(fresh, "and", w, <<I.a[1], Lit(1, w)>>)
     IN  Become(<<and, Pred(Ins(I.id, "icmp", 1, <<Out(and), Lit(0, w)>>), "ne")>>)
  /\ OnlyCode

(* Every relational predicate is A & !B or A | !B for some order of A and B. *)
BoolCompare(p) ==
  CASE p \in {"ugt", "slt"} -> <<"and", 1, 2>> [] p \in {"ult", "sgt"} -> <<"and", 2, 1>>
    [] p \in {"uge", "sle"} -> <<"or", 1, 2>>  [] p \in {"ule", "sge"} -> <<"or", 2, 1>>
VisitICmp ==
  /\ Rule = "icmp"
  /\ LET b == BoolCompare(I.p)
         notB == Ins(fresh, "xor", 1, <<I.a[b[3]], Lit(1, 1)>>)
     IN  Become(<<notB, Ins(I.id, b[1], 1, <<I.a[b[2]], Out(notB)>>)>>)
  /\ OnlyCode

HandleExtInstructions ==
  /\ Rule = "ext"
  /\ LET one == IF I.op = "sext" THEN 2^I.w - 1 ELSE 1
     IN  Become(<<Ins(I.id, "select", I.w, <<I.a[1], Lit(one, I.w), Lit(0, I.w)>>)>>)
  /\ OnlyCode

HandleCastInstructions ==
  /\ Rule = "cast"
  /\ LET one == IF I.op = "sitofp" THEN 2^IntWidth - 1 ELSE 1
         sel == Ins(fresh, "select", IntWidth, <<I.a[1], Lit(one, IntWidth), Lit(0, IntWidth)>>)
     IN  Become(<<sel, [I EXCEPT !.a = <<Out(sel)>>]>>)
  /\ OnlyCode

-----------------------------------------------------------------------------
(* SPIRVLowerMemmove: through a temporary of the function, because copies in *)
(* SPIR-V say nothing of overlapping operands.  A memmove of nothing is      *)
(* dropped; one of unknown length becomes a loop, which is LLVM's own code.  *)
ExpandMemMove ==
  /\ Rule = "memmove"
  /\ LET len == I.a[3].c[1]
         tmp == NewAlloca(code, fresh)
         cpy1 == With(Ins(fresh + 1, "memcpy", 8, <<Out(tmp), I.a[2]>>), <<len>>)
         cpy2 == With(Ins(I.id, "memcpy", 8, <<I.a[1], Out(tmp)>>), <<len>>)
         c == SubSeq(code, 1, At - 1) \o <<In(cpy1, I.bb), In(cpy2, I.bb)>>
                \o SubSeq(code, At + 1, Len(code))
     IN  code' = IF len = 0 THEN Erase(code, {I.id})
                 ELSE Before(c, PastAllocas(c), <<tmp>>)
  /\ Advance /\ fresh' = fresh + 2 /\ OnlyCode

(* SPIRVLowerLLVMIntrinsic: the call goes to a function of an emulation      *)
(* module linked in once, where the extensions leave no other way.           *)
VisitIntrinsic ==
  /\ Rule = "emulate"
  /\ LET call == CallHelper(I)
     IN  /\ code' = [code EXCEPT ![At] = call]
         /\ helpers' = IF Name(call) \in DOMAIN helpers THEN helpers
                       ELSE [x \in DOMAIN helpers \cup {Name(call)} |->
                               IF x = Name(call) THEN [code |-> <<>>, op |-> I.op]
                               ELSE helpers[x]]
  /\ Advance /\ UNCHANGED <<prog, pass, dead, fresh, halves, tracked>>

-----------------------------------------------------------------------------
(* SPIRVLowerBitCastToNonStandardType, first part: NonStdVectorLegalizer.    *)
GetHalves(o) ==
  IF o.k = "id" THEN halves[o.v]
  ELSE LET h == o.n \div 2
           Half(from) == IF o.k = "undef" THEN Lanes(o, h)
                         ELSE [Lanes(o, h) EXCEPT !.c = SubSeq(o.c, from + 1, from + h)]
       IN  <<Half(0), Half(h)>>
(* The legal vector and the index that hold lane k of o.                     *)
ResolveLane(o, k) ==
  LET h == HalfSize(o.n) IN
  IF h = 0 THEN [src |-> o, idx |-> k]
  ELSE IF k < h THEN [src |-> GetHalves(o)[1], idx |-> k]
  ELSE [src |-> GetHalves(o)[2], idx |-> k - h]
ConstantLane(o, k) == IF o.k = "undef" THEN Undef(o.w) ELSE Lit(o.c[k + 1], o.w)
ExtractCode(id, o, k) == Ins(id, "extractelement", o.w, <<o, Lit(k, 32)>>)

VisitBitCast ==
  /\ Rule = "bitcast"
  /\ LET n == I.a[1].n  h == n \div 2  dh == HalfSize(I.n)
         Sh(id, m) == [With(Ins(id, "shufflevector", I.a[1].w,
                                <<I.a[1], Lanes(Undef(I.a[1].w), n)>>), m) EXCEPT !.n = h]
         Bc(id, s) == [Ins(id, "bitcast", I.w, <<Out(s)>>) EXCEPT !.n = dh]
         lo == Sh(fresh, [k \in 1..h |-> k - 1])
         hi == Sh(fresh + 2, [k \in 1..h |-> h + k - 1])
         new == <<lo, Bc(fresh + 1, lo), hi, Bc(fresh + 3, hi)>>
     IN  /\ code' = Before(code, At, [j \in 1..4 |-> In(new[j], I.bb)])
         /\ halves' = [x \in DOMAIN halves \cup {I.id} |->
                         IF x = I.id THEN <<Out(new[2]), Out(new[4])>> ELSE halves[x]]
  /\ dead' = Append(dead, I.id) /\ Advance /\ fresh' = fresh + 4
  /\ UNCHANGED <<prog, pass, helpers, tracked>>

VisitExtractElement ==
  /\ Rule = "lane"
  /\ LET r == ResolveLane(I.a[1], I.a[2].c[1])
         e == In(ExtractCode(fresh, r.src, r.idx), I.bb)
     IN  code' = IF IsConst(r.src)
                 THEN ReplaceAllUses(code, I.id, ConstantLane(r.src, r.idx))
                 ELSE ReplaceAllUses(Before(code, At, <<e>>), I.id, Out(e))
  /\ dead' = Append(dead, I.id) /\ Advance /\ fresh' = fresh + 1
  /\ UNCHANGED <<prog, pass, helpers, halves, tracked>>

(* buildShuffleLanes: where each lane comes from, then one shuffle of at     *)
(* most two vectors of one type if that is enough, or lane by lane.          *)
ShuffleLanes(i) ==
  LET n == i.a[1].n IN
  [l \in DOMAIN i.m |->
     IF i.m[l] < 0 THEN [src |-> Undef(0), idx |-> -1]
     ELSE IF i.m[l] < n THEN ResolveLane(i.a[1], i.m[l])
     ELSE ResolveLane(i.a[2], i.m[l] - n)]
Sources(ls) == LET Known == SelectSeq(ls, LAMBDA r : r.idx >= 0)
               IN  [l \in DOMAIN Known |-> Known[l].src]
RECURSIVE Distinct(_)
Distinct(s) == IF s = <<>> THEN <<>>
               ELSE <<Head(s)>> \o Distinct(SelectSeq(Tail(s), LAMBDA x : x # Head(s)))
RECURSIVE InsertLanes(_, _, _, _)
InsertLanes(ls, l, acc, id) ==
  IF l > Len(ls) THEN acc
  ELSE IF ls[l].idx < 0 THEN InsertLanes(ls, l + 1, acc, id)
  ELSE LET s == ls[l].src
           e == ExtractCode(id, s, ls[l].idx)
           prev == IF acc = <<>> THEN Lanes(Undef(s.w), Len(ls)) ELSE Out(Last(acc))
           ins == [With(Ins(id + 1, "insertelement", s.w,
                           <<prev, IF IsConst(s) THEN ConstantLane(s, ls[l].idx) ELSE Out(e)>>),
                        <<l - 1>>) EXCEPT !.n = Len(ls)]
       IN  InsertLanes(ls, l + 1,
                       acc \o (IF IsConst(s) THEN <<ins>> ELSE <<e, ins>>), id + 2)
OneShuffle(srcs) == Len(srcs) <= 2 /\ \A s \in Range(srcs) : s.n = srcs[1].n
ShuffleMask(ls, srcs) ==
  [l \in DOMAIN ls |-> IF ls[l].idx < 0 THEN -1
                       ELSE (IF ls[l].src = srcs[1] THEN 0 ELSE srcs[1].n) + ls[l].idx]
IsIdentity(mask, n) == Len(mask) = n /\ \A l \in DOMAIN mask : mask[l] \in {-1, l - 1}

VisitShuffleVector ==
  /\ Rule = "shuffle"
  /\ LET ls == ShuffleLanes(I)  srcs == Distinct(Sources(ls))
         mask == ShuffleMask(ls, srcs)
         sh == [With(Ins(fresh, "shufflevector", I.w,
                         <<srcs[1], IF Len(srcs) = 2 THEN srcs[2]
                                    ELSE Lanes(Undef(I.w), srcs[1].n)>>), mask)
                  EXCEPT !.n = I.n]
         new == IF srcs = <<>> THEN <<>>
                ELSE IF OneShuffle(srcs)
                THEN (IF Len(srcs) = 1 /\ IsIdentity(mask, srcs[1].n) THEN <<>> ELSE <<sh>>)
                ELSE InsertLanes(ls, 1, <<>>, fresh)
         v == IF srcs = <<>> THEN Lanes(Undef(I.w), I.n)
              ELSE IF new = <<>> THEN srcs[1] ELSE Out(Last(new))
     IN  code' = ReplaceAllUses(Before(code, At, [j \in DOMAIN new |-> In(new[j], I.bb)]),
                                I.id, v)
  /\ dead' = Append(dead, I.id) /\ Advance /\ fresh' = fresh + 2 * I.n
  /\ UNCHANGED <<prog, pass, helpers, halves, tracked>>

-----------------------------------------------------------------------------
(* Second part: extractelement (bitcast) read from wider lanes instead.      *)

(* removeBitCasts: the source reread as vectors of the wider lanes.  An old  *)
(* value with other uses gets a bitcast back, which the tracking handle then *)
(* follows; one with a single use leaves poison behind.                      *)
RemoveBitCasts(c, old, w, n, id) ==
  LET o == Find(c, old)
      one == Cardinality(Uses(c, old)) = 1
      wide == [Ins(id, o.op, w, o.a) EXCEPT !.n = n, !.bb = o.bb]
      back == [Ins(id + 1, "bitcast", o.w, <<Out(wide)>>) EXCEPT !.n = o.n, !.bb = o.bb]
      same == o.op = "bitcast" /\ o.a[1].w = w /\ o.a[1].n = n
      none == Lanes(Undef(o.w), o.n)
  IN  IF same
      THEN [code |-> IF one THEN ReplaceAllUses(c, old, none) ELSE c,
            value |-> o.a[1], erase |-> IF one THEN <<old>> ELSE <<>>,
            now |-> IF one THEN 0 ELSE old]
      ELSE [code |-> IF one THEN ReplaceAllUses(Before(c, Pos(c, old), <<wide>>), old, none)
                     ELSE ReplaceAllUses(Before(c, Pos(c, old), <<wide, back>>), old, Out(back)),
            value |-> Out(wide), erase |-> <<old>>,
            now |-> IF one THEN 0 ELSE id + 1]

WidenExtract ==
  /\ Rule = "widen"
  /\ LET f == FactorOf(I.a[1].n)
         k == I.a[2].c[1]
         r == RemoveBitCasts(code, I.a[1].v, I.w * f, I.a[1].n \div f, fresh)
         e == ExtractCode(fresh + 2, r.value, k \div f)
         s == Ins(fresh + 3, "lshr", I.w * f, <<Out(e), Lit((k % f) * I.w, I.w * f)>>)
         from == IF k % f > 0 THEN s ELSE e
         new == <<e>> \o (IF k % f > 0 THEN <<s>> ELSE <<>>)
                  \o <<Ins(I.id, "trunc", I.w, <<Out(from)>>)>>
         p == Pos(r.code, I.id)
     IN  /\ code' = SubSeq(r.code, 1, p - 1) \o [j \in DOMAIN new |-> In(new[j], I.bb)]
                      \o SubSeq(r.code, p + 1, Len(r.code))
         /\ dead' = dead \o r.erase
         /\ tracked' = [t \in DOMAIN tracked |->
                          IF tracked[t] = I.a[1].v THEN r.now ELSE tracked[t]]
  /\ Advance /\ fresh' = fresh + 4
  /\ UNCHANGED <<prog, pass, helpers, halves>>

(* A size no factor helps, an index that is not constant, or a source that   *)
(* is neither load nor bitcast ends the translation.                         *)
CannotWiden ==
  /\ Rule = "fatal"
  /\ pass' = "error" /\ todo' = <<>>
  /\ UNCHANGED <<prog, code, dead, fresh, helpers, halves, tracked>>

-----------------------------------------------------------------------------
(* An instruction a pass leaves alone.                                       *)
LeaveAlone ==
  /\ Rule = "none"
  /\ Advance /\ UNCHANGED <<prog, code, pass, dead, fresh, helpers, halves, tracked>>

(* The end of a pass.  split erases what is fully unused, last first;        *)
(* extract whatever is, and what only that used; then it looks for vectors   *)
(* of an unsupported size that are still there.                              *)
RECURSIVE EraseUnused(_, _)
EraseUnused(c, ids) ==
  IF ids = <<>> THEN c
  ELSE EraseUnused(IF Uses(c, Last(ids)) = {} THEN Erase(c, {Last(ids)}) ELSE c,
                   Front(ids))
RECURSIVE DeleteDead(_, _)
DeleteDead(c, ids) ==
  LET gone == {x \in ids : x \in Range(AllIds(c)) /\ Uses(c, x) = {}} IN
  IF gone = {} THEN c
  ELSE LET x == CHOOSE x \in gone : TRUE
           i == Find(c, x)
           ops == {i.a[j].v : j \in {j \in DOMAIN i.a : i.a[j].k = "id"}}
           pure == {o \in ops : o \in Range(AllIds(c))
                                /\ Find(c, o).op \in {"load", "bitcast", "shufflevector"}}
       IN  DeleteDead(Erase(c, {x}), ids \cup pure)
Cleaned ==
  CASE pass \in {"sat", "regularize"} -> Erase(code, Range(dead))
    [] pass = "split"   -> EraseUnused(code, dead)
    [] pass = "extract" -> DeleteDead(code, Range(dead))
    [] OTHER -> code
NextOf(p) == IF p = Last(PassOrder) THEN "done"
             ELSE PassOrder[(CHOOSE i \in DOMAIN PassOrder : PassOrder[i] = p) + 1]
ResidualMutant(c) ==           \* the handles do not follow replacements
  \E t \in DOMAIN tracked : t \in Range(AllIds(c))
Residual(c) == \E t \in DOMAIN tracked : tracked[t] \in Range(AllIds(c))
EndPass ==
  /\ pass \in Range(PassOrder) /\ Rule = "end"
  /\ code' = Cleaned
  /\ pass' = IF pass = "extract" /\ Residual(Cleaned) THEN "error" ELSE NextOf(pass)
  /\ todo' = IF pass' \in {"done", "error"} THEN <<>> ELSE WorkList(pass', code')
  /\ dead' = <<>>
  /\ tracked' = IF pass' # "extract" \/ "long_vector" \in prog.exts THEN tracked
                ELSE LET odd == {i \in DOMAIN code' : code'[i].op # "extractelement"
                                                      /\ NonStandard(code'[i].n)}
                     IN  [t \in {code'[i].id : i \in odd} |-> t]
  /\ UNCHANGED <<prog, fresh, helpers, halves>>

Next ==
  \/ CleanupConversion \/ ReplacePrivateConstGlobal
  \/ CacheControls \/ LowerIntrinsicToFunction \/ LowerToHelper
  \/ LowerFMinimumMaximum \/ WithOverflowIntrinsics \/ LogicalShift
  \/ Freeze \/ Cmpxchg
  \/ LowerConstExpr
  \/ VisitTrunc \/ VisitICmp \/ HandleExtInstructions \/ HandleCastInstructions
  \/ ExpandMemMove \/ VisitIntrinsic
  \/ VisitBitCast \/ VisitExtractElement \/ VisitShuffleVector
  \/ WidenExtract \/ CannotWiden
  \/ LeaveAlone \/ EndPass

Spec == Init /\ [][Next]_vars

-----------------------------------------------------------------------------
(* The passes keep ids in order: what is erased is not used any more, and    *)
(* the work list names instructions that exist.                              *)
TypeOK ==
  /\ prog \in Programs
  /\ pass \in Range(PassOrder) \cup {"done", "error"}
  /\ \A i, j \in DOMAIN code : code[i].id = code[j].id => i = j
  /\ \A i \in DOMAIN code : code[i].id < fresh

(* No instruction uses one that a pass has erased (the assertions on         *)
(* user_empty before eraseFromParent), and the work list holds none.         *)
NothingDangling ==
  LET live == Range(AllIds(code)) \cup UNION {DOMAIN x : x \in prog.inputs} IN
  /\ \A i \in DOMAIN code, j \in 1..3 :
       j \in DOMAIN code[i].a /\ code[i].a[j].k = "id" => code[i].a[j].v \in live
  /\ pass # "globals" => Range(todo) \subseteq live

(* On every path and for every argument, the lowered function computes what  *)
(* the original did wherever that was defined, and leaves the same memory.   *)
MeaningKept ==
  pass = "done" =>
    \A q \in prog.paths, x \in prog.inputs, pick \in Picks(code) :
      LET old == Final(prog.code, q, x, [h \in {} |-> 0], pick)
          new == Final(code, q, x, helpers, pick)
      IN  /\ \A i \in DOMAIN prog.code :
               prog.code[i].op = "out" /\ prog.code[i].bb \in Range(q) =>
                 \A l \in DOMAIN old.v[prog.code[i].id] :
                   \/ old.v[prog.code[i].id][l] = Poison
                   \/ old.v[prog.code[i].id][l] = new.v[prog.code[i].id][l]
          /\ \A k \in 0..31 : old.m[k] \in {Poison, new.m[k]}

(* What is left can be written.  What the writer cannot express is gone:     *)
(* comparisons, conversions and shifts of booleans, intrinsics without an    *)
(* instruction, constant expressions, copies that may overlap, vectors of    *)
(* other sizes.  A helper serves every call of its name: it was made for the *)
(* same intrinsic, and a volatile memset shares none with a plain one.       *)
(* Cache controls have become decorations on the pointer the access uses,    *)
(* all those asked for its operand.                                          *)
Expressible(x) ==
  /\ x.op \notin {"fshl", "fshr", "umul", "uadd", "usub", "sadd", "minimum",
                   "maximum", "cmpxchg", "bswap"}
  /\ x.op \in {"shl", "lshr", "zext", "sext", "uitofp", "sitofp"} => x.a[1].w # 1
  /\ x.op = "icmp" /\ x.a[1].w = 1 => x.p \in {"eq", "ne"}
  /\ ~(x.op = "trunc" /\ x.w = 1)
  /\ x.op = "freeze" => "poison_freeze" \in prog.exts
  /\ x.op = "bitreverse" =>
       \/ "bit_instructions" \in prog.exts
       \/ /\ OddWidth(x.w) /\ "arbitrary_precision" \notin prog.exts
  /\ x.op = "memmove" => x.a[3].k # "lit"
  /\ \A j \in DOMAIN x.a : x.a[j].k \notin {"ce", "mdce"}
  /\ "long_vector" \in prog.exts \/ ~NonStandard(x.n)
HelperFits(x) ==
  LET orig == Find(prog.code, x.id)
      helper == helpers[Name(x)]
  IN  /\ Name(x) \in DOMAIN helpers
      /\ helper.op = orig.op
      /\ \A b \in DOMAIN helper.code :
           helper.code[b].op = "memset" => helper.code[b].m = orig.m
CacheControlKept(x, c) ==
  LET p == Find(code, x.id).a[c[2]]
  IN  p.k = "id" /\ \E d \in Range(Find(code, p.v).d) : d[1] = c[1]
RegularForm ==
  pass = "done" =>
    /\ \A i \in DOMAIN code :
         Expressible(code[i]) /\ (code[i].op = "call" => HelperFits(code[i]))
    /\ \A i \in DOMAIN prog.code :
         \A c \in Range(prog.code[i].d) : CacheControlKept(prog.code[i], c)
=============================================================================
