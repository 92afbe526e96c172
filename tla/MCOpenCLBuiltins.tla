-------------------------- MODULE MCOpenCLBuiltins --------------------------
(***************************************************************************)
(* Calls for OpenCLBuiltins: for every handler of both passes the          *)
(* overloads between which its code decides.  Every argument has a value   *)
(* of its own, so that two arguments that change places are noticed.       *)
(***************************************************************************)
EXTENDS OpenCLBuiltins

Call(n, as, ret) == [lang |-> "ocl", n |-> n, pf |-> <<>>, a |-> as, ret |-> ret, post |-> <<>>]
Both == {"1.2", "2.0"}
In(versions, to, calls) == {[call |-> c, in |-> versions, to |-> to] : c \in calls}
Every(calls) == In(Both, Both, calls)
Only20(calls) == In({"2.0"}, {"2.0"}, calls)

\* Types, and values made of consecutive numbers.
Char == Ty("s", 8, 1)
UChar == Ty("u", 8, 1)
Short == Ty("s", 16, 1)
UShort == Ty("u", 16, 1)
UInt == Ty("u", 32, 1)
Long == Ty("s", 64, 1)
ULong == Ty("u", 64, 1)
Half == Ty("f", 16, 1)
Float == Ty("f", 32, 1)
Double == Ty("f", 64, 1)
Bool == Ty("b", 1, 1)
X(t, n) == [t EXCEPT !.n = n]
Arg(t, k) == Val(t, [i \in 1..t.n |-> k + i - 1])
OrderTy == Ty("order", 32, 1)
ScopeTy == Ty("scope", 32, 1)
Order(k) == Const(OrderTy, <<k>>)
Scope(k) == Const(ScopeTy, <<k>>)
ConstU(k) == Const(UInt, <<k>>)

MCPointers ==
    [p \in 1..6 |->
       CASE p = 1 -> [space |-> 1, from |-> <<>>]
         [] p = 2 -> [space |-> 3, from |-> <<>>]
         [] p = 3 -> [space |-> 4, from |-> <<>>]
         [] p = 4 -> [space |-> 4, from |-> <<1>>]
         [] p = 5 -> [space |-> 4, from |-> <<4, 6>>]
         [] OTHER -> [space |-> 4, from |-> <<1, 5>>]]
At(p, e) == Val(Ptr(MCPointers[p].space, e), <<p>>)

Ranges ==
    LET Size(k, d) == IF d = 1 THEN Arg(ULong, k) ELSE Val(Ptr(SPIRAS_Private, "u"), [i \in 1..d |-> k + i])
        Result == Val(Ptr(SPIRAS_Private, "ndrange"), <<1>>)
        Dim == <<"1D", "2D", "3D">>
    IN Only20({Call(<<"ndrange", Dim[d]>>, <<Result>> \o [i \in 1..k |-> Size(10 * i, d)], Void) :
                 d \in 1..3, k \in 1..3})

Fences ==
    Every({Call(<<n>>, <<ConstU(3)>>, Void) : n \in {"mem_fence", "read_mem_fence", "write_mem_fence"}})
    \cup In({"2.0"}, Both, {Call(<<"atomic", "work", "item", "fence">>, <<ConstU(f), Order(o), Scope(s)>>, Void) :
                             f \in {1, 6}, o \in {2, 3, 4, 5}, s \in {1, 2, 3, 4}})
    \cup Every({Call(<<"barrier">>, <<ConstU(f)>>, Void) : f \in {0, 1, 3}})
    \cup In({"2.0"}, Both, {Call(<<"work", "group", "barrier">>, <<ConstU(2)>>, Void),
                            Call(<<"work", "group", "barrier">>, <<ConstU(1), Scope(2)>>, Void)})
    \cup Only20({Call(<<"sub", "group", "barrier">>, <<ConstU(f), Scope(s)>>, Void) : f \in {0, 2}, s \in {2, 4}})
    \cup UNION {Every({Call(<<n>>, <<ConstU(1)>>, Void)})
                \cup In({"2.0"}, Both, {Call(<<n>>, <<ConstU(3), Scope(2)>>, Void)}) :
                n \in {"intel_work_group_barrier_arrive", "intel_work_group_barrier_wait"}}

(***************************************************************************)
(* Atomics: legacy ones on a global pointer; those of OpenCL 2.0 on        *)
(* generic pointers of several origins, with constant orders and with one  *)
(* that is only known at run time; those of OpenCL 3.0 without the generic *)
(* address space for OpenCL 1.2.                                           *)
(***************************************************************************)
LegacyBinary == {"add", "sub", "xchg", "min", "max", "and", "or", "xor"}
Legacy(pre, t) ==
    {Call(<<pre, op>>, <<At(1, t.e), Arg(t, 3)>>, t) : op \in LegacyBinary}
    \cup {Call(<<pre, op>>, <<At(1, t.e)>>, t) : op \in {"inc", "dec"}}
    \cup {Call(<<pre, "cmpxchg">>, <<At(1, t.e), Arg(t, -1), Arg(t, 3)>>, t)}
LegacyAtomics == Every(Legacy("atomic", I32) \cup Legacy("atomic", UInt) \cup Legacy("atom", Long))

Fetches(t) == IF IsFloat(t) THEN {"add", "sub", "min", "max"} ELSE {"add", "sub", "min", "max", "and", "or", "xor"}
Explicit(p, t, o, s) ==
    {Call(<<"atomic", "fetch", op, "explicit">>, <<At(p, t.e), Arg(t, 3), o, s>>, t) : op \in Fetches(t)}
    \cup (IF t.e = "u" THEN {} ELSE
          {Call(<<"atomic", "load", "explicit">>, <<At(p, t.e), o, s>>, t),
           Call(<<"atomic", "store", "explicit">>, <<At(p, t.e), Arg(t, 3), o, s>>, Void),
           Call(<<"atomic", "exchange", "explicit">>, <<At(p, t.e), Arg(t, 3), o, s>>, t)})
Exchanges(p, t, o1, o2, s) ==
    LET Expected == Val(Ptr(SPIRAS_Generic, "s"), <<1, -1>>)
    IN {Call(<<"atomic", "compare", "exchange", k, "explicit">>,
             <<At(p, "s"), Expected, Arg(t, 3), o1, o2, s>>, Bool) : k \in {"strong", "weak"}}
Flags(p, o, s) ==
    {Call(<<"atomic", "flag", "test", "and", "set", "explicit">>, <<At(p, "s"), o, s>>, Bool),
     Call(<<"atomic", "flag", "clear", "explicit">>, <<At(p, "s"), o, s>>, Void)}
AnyOrder == Val(OrderTy, <<3>>)
AnyScope == Val(ScopeTy, <<2>>)
ExplicitAtomics ==
    Only20(UNION {Explicit(3, t, Order(4), Scope(1)) : t \in {I32, UInt, Long, Float}}
           \cup UNION {Explicit(p, I32, o, s) : p \in {4, 5}, o \in {Order(5), AnyOrder}, s \in {Scope(2), AnyScope}}
           \cup UNION {Exchanges(3, t, Order(5), Order(2), Scope(2)) : t \in {I32, Long}} \cup Exchanges(4, I32, AnyOrder, Order(0), AnyScope)
           \cup Flags(3, Order(3), Scope(2)))
    \cup In({}, {"1.2"}, UNION {Explicit(1, t, Order(2), Scope(2)) : t \in {I32, UInt, Long}}
                         \cup Exchanges(1, I32, Order(5), Order(2), Scope(2)) \cup Flags(1, Order(3), Scope(2)))
ImplicitAtomics ==
    Only20({Call(<<"atomic", "load">>, <<At(3, "s")>>, I32), Call(<<"atomic", "store">>, <<At(3, "s"), Arg(I32, 3)>>, Void),
            Call(<<"atomic", "exchange">>, <<At(3, "s"), Arg(I32, 3)>>, I32),
            Call(<<"atomic", "fetch", "max">>, <<At(3, "u"), Arg(UInt, 3)>>, UInt),
            Call(<<"atomic", "flag", "clear">>, <<At(3, "s")>>, Void),
            Call(<<"atomic", "compare", "exchange", "strong">>,
                 <<At(3, "s"), Val(Ptr(SPIRAS_Generic, "s"), <<1, -1>>), Arg(I32, 3)>>, Bool),
            Call(<<"atomic", "load", "explicit">>, <<At(3, "s"), Order(2)>>, I32),
            Call(<<"atomic", "init">>, <<At(3, "s"), Arg(I32, 3)>>, Void)})

(***************************************************************************)
(* Conversions.                                                            *)
(***************************************************************************)
Convert(from, to, mods) == Call(<<"convert">> \o mods, <<Arg(from, 3)>>, to)
Vectors(t) == X(t, 4)
Conversions == Every(
    {Convert(from, to, <<>>) : from \in {I32, UInt, Float, Half}, to \in {Char, UChar, Long, Float, Double, UInt}}
    \cup {Convert(Vectors(from), Vectors(to), <<>>) :
            from \in {I32, UInt, Float}, to \in {Char, UChar, Long, ULong, I32, UInt, Float, Double}}
    \cup {Convert(from, to, <<"sat">>) : from \in {I32, UInt, Float}, to \in {Char, UChar, I32, UInt}}
    \cup {Convert(Vectors(from), Vectors(to), <<"sat", "rte">>) : from \in {Float}, to \in {Char, UChar}}
    \cup {Convert(Vectors(from), Vectors(to), <<r>>) :
            from \in {I32, UInt}, to \in {Char, UChar, Float}, r \in {"rtp", "rtz"}}
    \cup {Convert(from, to, <<"rtn">>) : from \in {I32, UInt, Float}, to \in {Char, Float, Half, UInt}})

(***************************************************************************)
(* Groups.                                                                 *)
(***************************************************************************)
G(s, f, as, ret) == Call(<<s, "group">> \o f, as, ret)
Numbers == {I32, UInt, Float}
Groups == Every(
    UNION {{G(s, <<"all">>, <<Arg(I32, 5)>>, I32), G(s, <<"any">>, <<Arg(I32, 5)>>, I32)} : s \in {"work", "sub"}}
    \cup {G("work", <<"broadcast">>, <<Arg(t, 5)>> \o [i \in 1..k |-> Arg(ULong, 10 * i)], t) :
            t \in Numbers, k \in 1..3}
    \cup {G("sub", <<"broadcast">>, <<Arg(t, 5), Arg(UInt, 9)>>, t) : t \in Numbers}
    \cup {G(s, k \o <<op>>, <<Arg(t, 5)>>, t) :
            s \in {"work", "sub"}, k \in {<<"reduce">>, <<"scan", "inclusive">>, <<"scan", "exclusive">>},
            op \in {"add", "min", "max"}, t \in Numbers})
NonUniform == Every(
    {G("sub", <<"non", "uniform">> \o k \o <<op>>, <<Arg(t, 5)>>, t) :
        k \in {<<"reduce">>, <<"scan", "inclusive">>, <<"scan", "exclusive">>}, op \in {"mul", "max"}, t \in Numbers}
    \cup {G("sub", <<"clustered", "reduce", op>>, <<Arg(t, 5), Const(UInt, <<4>>)>>, t) : op \in {"add", "min"}, t \in Numbers}
    \cup {G("sub", <<"non", "uniform", "reduce">> \o op, <<Arg(I32, 5)>>, I32) :
            op \in {<<"and">>, <<"xor">>, <<"logical", "and">>, <<"logical", "or">>}}
    \cup {G("sub", <<"elect">>, <<>>, I32), G("sub", <<"non", "uniform", "all">>, <<Arg(I32, 5)>>, I32),
          G("sub", <<"non", "uniform", "any">>, <<Arg(I32, 5)>>, I32),
          G("sub", <<"non", "uniform", "all", "equal">>, <<Arg(I32, 5)>>, I32),
          G("sub", <<"ballot">>, <<Arg(I32, 5)>>, X(UInt, 4)),
          G("sub", <<"inverse", "ballot">>, <<Arg(X(UInt, 4), 5)>>, I32),
          G("sub", <<"ballot", "bit", "extract">>, <<Arg(X(UInt, 4), 5), Arg(UInt, 20)>>, I32),
          G("sub", <<"ballot", "bit", "count">>, <<Arg(X(UInt, 4), 5)>>, UInt),
          G("sub", <<"ballot", "inclusive", "scan">>, <<Arg(X(UInt, 4), 5)>>, UInt),
          G("sub", <<"ballot", "exclusive", "scan">>, <<Arg(X(UInt, 4), 5)>>, UInt),
          G("sub", <<"ballot", "find", "lsb">>, <<Arg(X(UInt, 4), 5)>>, UInt),
          G("sub", <<"rotate">>, <<Arg(I32, 5), Arg(I32, 6)>>, I32),
          G("sub", <<"clustered", "rotate">>, <<Arg(I32, 5), Arg(I32, 6), Const(UInt, <<8>>)>>, I32)}
    \cup {G("sub", <<"non", "uniform", "broadcast">>, <<Arg(UInt, 5), Arg(UInt, 6)>>, UInt),
          G("sub", <<"broadcast", "first">>, <<Arg(UInt, 5)>>, UInt)}
    \cup {G("sub", f, <<Arg(I32, 5), Arg(UInt, 6)>>, I32) :
            f \in {<<"shuffle">>, <<"shuffle", "xor">>, <<"shuffle", "up">>, <<"shuffle", "down">>}})

(***************************************************************************)
(* Images.                                                                 *)
(***************************************************************************)
Image(kind) == Val(Img(kind), <<77>>)
Sampler == Val(Opaque("sampler"), <<78>>)
Coord(t) == Arg(X(t, 2), 1)
Texel(s) == CASE s = "i" -> X(I32, 4) [] s = "ui" -> X(UInt, 4) [] s = "h" -> X(Half, 4) [] OTHER -> X(Float, 4)
Reads == Every(
    {Call(<<"read_image", s>>, <<Image("image2d"), Sampler, Coord(t)>> \o extra, Texel(s)) :
        s \in {"f", "i", "ui", "h"}, t \in {Float},
        extra \in {<<>>, <<Arg(Float, 3)>>, <<Arg(X(Float, 2), 5), Arg(X(Float, 2), 8)>>}}
    \cup {Call(<<"read_image", "f">>, <<Image("image2d_depth"), Sampler, Coord(I32)>>, Float)}
    \cup {Call(<<"read_image", s>>, <<Image("image2d"), Coord(I32)>>, Texel(s)) : s \in {"f", "i", "ui"}}
    \cup {Call(<<"read_image", "f">>, <<Image("image2d_msaa"), Coord(I32), Arg(I32, 4)>>, Texel("f"))})
Writes == Every(
    {Call(<<"write_image", s>>, <<Image("image2d"), Coord(I32), Arg(Texel(s), 20)>>, Void) : s \in {"f", "i", "ui"}}
    \cup {Call(<<"write_image", s>>, <<Image("image2d"), Coord(I32), Arg(I32, 4), Arg(Texel(s), 20)>>, Void) :
            s \in {"f", "i"}})
Kinds == {"image1d", "image1d_array", "image1d_buffer", "image2d", "image2d_array", "image2d_msaa",
    "image2d_array_msaa", "image3d"}
Queries == Every(
    {Call(<<"get_image_width">>, <<Image(k)>>, I32) : k \in Kinds}
    \cup {Call(<<"get_image_height">>, <<Image(k)>>, I32) : k \in {x \in Kinds : Desc(x).dim > 1}}
    \cup {Call(<<"get_image_depth">>, <<Image("image3d")>>, I32)}
    \cup {Call(<<"get_image_dim">>, <<Image(k)>>, X(I32, IF k = "image3d" THEN 4 ELSE 2)) :
            k \in {x \in Kinds : Desc(x).dim > 1}}
    \cup {Call(<<"get_image_array_size">>, <<Image(k)>>, Long) : k \in {x \in Kinds : Desc(x).arrayed}}
    \cup {Call(<<n>>, <<Image("image2d")>>, I32) :
            n \in {"get_image_channel_data_type", "get_image_channel_order", "get_image_num_mip_levels"}}
    \cup {Call(<<"get_image_num_samples">>, <<Image("image2d_msaa")>>, I32)})

(***************************************************************************)
(* Memory, tests, products, arithmetic.                                    *)
(***************************************************************************)
To(space, e) == Val(Ptr(space, e), <<90>>)
Memory == Every(
    {Call(<<"vload", w>>, <<Arg(ULong, 3), To(1, "f")>>, X(Float, n)) : <<w, n>> \in {<<"2", 2>>, <<"3", 3>>, <<"16", 16>>}}
    \cup {Call(<<"vload", "half">>, <<Arg(ULong, 3), To(1, "h")>>, Float),
          Call(<<"vload", "half", "4">>, <<Arg(ULong, 3), To(1, "h")>>, X(Float, 4)),
          Call(<<"vloada", "half", "3">>, <<Arg(ULong, 3), To(1, "h")>>, X(Float, 3)),
          Call(<<"vstore", "4">>, <<Arg(X(Float, 4), 20), Arg(ULong, 3), To(1, "f")>>, Void)}
    \cup {Call(<<"vstore", "half">> \o r, <<Arg(Float, 20), Arg(ULong, 3), To(1, "h")>>, Void) :
            r \in {<<>>, <<"rte">>, <<"rtn">>}}
    \cup {Call(<<s, "half", "4">> \o r, <<Arg(X(Float, 4), 20), Arg(ULong, 3), To(1, "h")>>, Void) :
            s \in {"vstore", "vstorea"}, r \in {<<>>, <<"rtz">>, <<"rtp">>}}
    \cup {Call(<<"async_work_group_copy">>, <<To(3, e), Val(Ptr(1, e), <<91>>), Arg(ULong, 5), Val(Opaque("event"), <<92>>)>>,
               Opaque("event")) : e \in {"s", "u", "f"}}
    \cup {Call(<<"async_work_group_strided_copy">>,
               <<To(3, e), Val(Ptr(1, e), <<91>>), Arg(ULong, 5), Arg(ULong, 7), Val(Opaque("event"), <<92>>)>>,
               Opaque("event")) : e \in {"u", "f"}}
    \cup {Call(<<"wait_group_events">>, <<Arg(I32, 2), Val(Ptr(4, "event"), <<93>>)>>, Void),
          Call(<<"prefetch">>, <<To(1, "s"), Arg(ULong, 6)>>, Void)})
    \cup Only20({Call(<<n>>, <<Val(Ptr(4, "s"), <<90>>)>>, Ptr(s, "s")) :
                   <<n, s>> \in {<<"to_global", 1>>, <<"to_local", 3>>, <<"to_private", 0>>}}
                \cup {Call(<<"get_fence">>, <<Val(Ptr(4, "void"), <<90>>)>>, UInt)})
Truth(t) == X(Ty("s", IF IsVec(t) THEN t.w ELSE 32, 1), t.n)
TestCalls == Every(
    {Call(<<n>>, <<Arg(t, 3)>>, Truth(t)) :
        n \in {"isnan", "isinf", "isfinite", "isnormal", "signbit"}, t \in {Float, X(Float, 4), X(Double, 2), X(Half, 3)}}
    \cup {Call(<<n>>, <<Arg(t, 3), Arg(t, 9)>>, Truth(t)) :
            n \in {"isequal", "isnotequal", "isgreater", "isless", "islessgreater", "isordered", "isunordered"},
            t \in {Float, X(Double, 2)}}
    \cup {Call(<<n>>, <<Val(t, v)>>, I32) : n \in {"any", "all"},
            <<t, v>> \in {<<X(I32, 3), <<-1, 0, 5>>>>, <<X(Char, 3), <<-1, -2, 0>>>>, <<I32, <<-4>>>>, <<I32, <<4>>>>}})
Product4(s) == X(IF s = "s" THEN Char ELSE UChar, 4)
Acc(a, b) == IF a = "u" /\ b = "u" THEN UInt ELSE I32
Result(a, b) == IF a = "u" /\ b = "u" THEN "uint" ELSE "int"
Products == Every(
    {Call(<<"dot">>, <<Arg(t, 3), Arg(t, 30)>>, Float) : t \in {Float, X(Float, 4)}}
    \cup {Call(<<"dot">>, <<Arg(Product4(a), 3), Arg(Product4(b), 30)>>, Acc(a, b)) : a \in {"s", "u"}, b \in {"s", "u"}}
    \cup {Call(<<"dot_acc_sat">>, <<Arg(Product4(a), 3), Arg(Product4(b), 30), Arg(Acc(a, b), 50)>>, Acc(a, b)) :
            a \in {"s", "u"}, b \in {"s", "u"}}
    \cup {Call(<<"dot_4x8packed", a, b, Result(a, b)>>, <<Arg(UInt, 3), Arg(UInt, 30)>>, Acc(a, b)) :
            a \in {"s", "u"}, b \in {"s", "u"}}
    \cup {Call(<<"dot_acc_sat_4x8packed", a, b, Result(a, b)>>, <<Arg(UInt, 3), Arg(UInt, 30), Arg(Acc(a, b), 50)>>, Acc(a, b)) :
            a \in {"s", "u"}, b \in {"s", "u"}})
F4 == X(Float, 4)
Mathematics == Every(
    {Call(n, <<Arg(F4, 3), Arg(t, 30)>>, F4) : n \in {<<"f", "min">>, <<"f", "max">>, <<"min">>, <<"max">>}, t \in {Float, F4}}
    \cup UNION {{Call(<<n>>, <<Arg(X(t, 4), 3), Arg(u, 30)>>, X(t, 4)) : n \in {"min", "max"}, u \in {t, X(t, 4)}} :
                t \in {I32, UInt}}
    \cup {Call(<<"clamp">>, <<Arg(F4, 3), Arg(t, 30), Arg(t, 40)>>, F4) : t \in {Float, F4}}
    \cup UNION {{Call(<<"clamp">>, <<Arg(X(t, 4), 3), Arg(u, 30), Arg(u, 40)>>, X(t, 4)) : u \in {t, X(t, 4)}} :
                t \in {I32, UInt}}
    \cup {Call(<<"mix">>, <<Arg(F4, 3), Arg(F4, 30), Arg(t, 40)>>, F4) : t \in {Float, F4}}
    \cup {Call(<<"step">>, <<Arg(t, 3), Arg(F4, 30)>>, F4) : t \in {Float, F4}}
    \cup {Call(<<"smoothstep">>, <<Arg(t, 3), Arg(t, 30), Arg(F4, 40)>>, F4) : t \in {Float, F4}}
    \cup {Call(<<"ldexp">>, <<Arg(F4, 3), Arg(t, 30)>>, F4) : t \in {I32, X(I32, 4)}}
    \cup {Call(<<"abs">>, <<Arg(t, 3)>>, t) : t \in {I32, UInt}}
    \cup {Call(<<"mul_hi">>, <<Arg(t, 3), Arg(t, 30)>>, t) : t \in {I32, UInt}}
    \cup {Call(<<"sqrt">>, <<Arg(Float, 3)>>, Float), Call(<<"popcount">>, <<Arg(I32, 3)>>, I32),
          Call(<<"bitfield_insert">>, <<Arg(I32, 3), Arg(I32, 4), Arg(UInt, 5), Arg(UInt, 6)>>, I32),
          Call(<<"bitfield_extract_unsigned">>, <<Arg(I32, 3), Arg(UInt, 5), Arg(UInt, 6)>>, UInt),
          Call(<<"bit_reverse">>, <<Arg(I32, 3)>>, I32)})

(***************************************************************************)
(* Clocks, queries of work-items, pipes, blocks, enqueued kernels.         *)
(***************************************************************************)
Pipe == Val(Opaque("pipe"), <<60>>)
Reserve == Val(Opaque("reserve_id"), <<61>>)
Sizes == <<Const(UInt, <<4>>), Const(UInt, <<8>>)>>
Packet == Val(Ptr(4, "s"), <<62>>)
PipeCalls == Only20(
    {Call(<<n>>, <<Pipe, Packet>> \o Sizes, I32) : n \in {"read_pipe_2", "write_pipe_2", "read_pipe_2_bl"}}
    \cup {Call(<<n>>, <<Pipe, Reserve, Arg(UInt, 3), Packet>> \o Sizes, I32) : n \in {"read_pipe_4", "write_pipe_4"}}
    \cup {Call(n, <<Pipe, Arg(UInt, 3)>> \o Sizes, Opaque("reserve_id")) :
            n \in {<<"reserve_read_pipe">>, <<"work", "group", "reserve_write_pipe">>, <<"sub", "group", "reserve_read_pipe">>}}
    \cup {Call(n, <<Pipe, Reserve>> \o Sizes, Void) :
            n \in {<<"commit_write_pipe">>, <<"work", "group", "commit_read_pipe">>, <<"sub", "group", "commit_write_pipe">>}}
    \cup {Call(<<"is_valid_reserve_id">>, <<Reserve>>, Bool),
          Call(<<"get_pipe_num_packets_wo">>, <<Pipe>> \o Sizes, UInt)})
Blocks == Every(
    {Call(<<"intel_sub_group_block_read">> \o f, <<To(1, "u")>>, t) :
        <<f, t>> \in {<<<<>>, UInt>>, <<<<"2">>, X(UInt, 2)>>, <<<<"us", "4">>, X(UShort, 4)>>, <<<<"ul">>, ULong>>}}
    \cup {Call(<<"intel_sub_group_block_read", "uc">>, <<Image("image2d"), Coord(I32)>>, UChar)}
    \cup {Call(<<"intel_sub_group_block_write", "us", "2">>, <<To(1, "u"), Arg(X(UShort, 2), 20)>>, Void),
          Call(<<"intel_sub_group_block_write", "4">>, <<Image("image2d"), Coord(I32), Arg(X(UInt, 4), 20)>>, Void)}
    \cup {Call(<<"intel_sub_group_media_block_read", "uc", "4">>, <<Coord(I32), Arg(I32, 30), Arg(I32, 31), Image("image2d")>>,
               X(UChar, 4)),
          Call(<<"intel_sub_group_media_block_write", "ui">>,
               <<Coord(I32), Arg(I32, 30), Arg(I32, 31), Arg(UInt, 40), Image("image2d")>>, Void)}
    \cup {Call(<<"intel_sub_group_shuffle">>, <<Arg(I32, 3), Arg(UInt, 4)>>, I32),
          Call(<<"intel_sub_group_shuffle_down">>, <<Arg(I32, 3), Arg(I32, 4), Arg(UInt, 5)>>, I32),
          Call(<<"intel_convert_bfloat16_as_ushort">>, <<Arg(Float, 3)>>, UShort),
          Call(<<"intel_convert_bfloat16_as_ushort", "2">>, <<Arg(X(Float, 2), 3)>>, X(UShort, 2)),
          Call(<<"intel_convert_as_bfloat16_float", "4">>, <<Arg(X(Short, 4), 3)>>, F4)})
Clocks == Every(
    {Call(<<"clock_read", s>>, <<>>, ULong) : s \in {"device", "work_group", "sub_group"}}
    \cup {Call(<<"clock_read", "hilo", s>>, <<>>, X(UInt, 2)) : s \in {"device", "sub_group"}}
    \cup {Call(<<n>>, <<Arg(UInt, 1)>>, ULong) : n \in {"get_global_id", "get_local_size", "get_group_id", "get_num_groups"}}
    \cup {Call(<<n>>, <<>>, UInt) : n \in {"get_work_dim", "get_sub_group_size", "get_sub_group_local_id"}}
    \cup {Call(<<"get_sub_group_eq_mask">>, <<>>, X(UInt, 4))})
Queue == Val(Opaque("queue"), <<1>>)
Event(k) == Val(Ptr(4, "event"), <<k>>)
NoEvent == Const(Ptr(4, "event"), <<0>>)
Invoke == Val(Ptr(4, "s"), <<7>>)
Block == Val(Ptr(4, "s"), <<8, 24, 16>>)
Enqueued(form, events, tail) ==
    Call(<<"__enqueue_kernel">> \o form,
         <<Queue, Arg(I32, 2), Val(Ptr(0, "ndrange"), <<3>>)>> \o events \o <<Invoke, Block>> \o tail, I32)
Waits == {<<addInt32(2), Event(5), Event(6)>>, <<addInt32(0), NoEvent, Event(6)>>, <<addInt32(1), Event(5), NoEvent>>}
Locals(k) == <<addInt32(k), Val(Ptr(0, "s"), SubSeq(<<16, 32, 64>>, 1, k))>>
Enqueues == Only20(
    {Enqueued(<<"basic">>, <<>>, <<>>)} \cup {Enqueued(<<"varargs">>, <<>>, Locals(k)) : k \in {1, 3}}
    \cup {Enqueued(<<"basic", "events">>, w, <<>>) : w \in Waits}
    \cup {Enqueued(<<"events", "varargs">>, w, Locals(2)) : w \in Waits}
    \cup {Call(<<n>>, <<Invoke, Block>>, I32) :
            n \in {"get_kernel_work_group_size_impl", "get_kernel_preferred_work_group_size_multiple_impl"}}
    \cup {Call(<<n>>, <<Val(Ptr(0, "ndrange"), <<3>>), Invoke, Block>>, I32) :
            n \in {"get_kernel_sub_group_count_for_ndrange_impl", "get_kernel_max_sub_group_size_for_ndrange_impl"}}
    \cup {Call(<<"enqueue_marker">>, <<Queue, Arg(UInt, 2), Event(5), Event(6)>>, I32),
          Call(<<"retain_event">>, <<Val(Opaque("event"), <<92>>)>>, Void),
          Call(<<"set_user_event_status">>, <<Val(Opaque("event"), <<92>>), Arg(I32, 2)>>, Void),
          Call(<<"get_default_queue">>, <<>>, Opaque("queue"))})

MCInputs ==
    Ranges \cup Fences \cup LegacyAtomics \cup ExplicitAtomics \cup ImplicitAtomics \cup Conversions \cup Groups
    \cup NonUniform \cup Reads \cup Writes \cup Queries \cup Memory \cup TestCalls \cup Products \cup Mathematics
    \cup PipeCalls \cup Blocks \cup Clocks \cup Enqueues

=============================================================================
