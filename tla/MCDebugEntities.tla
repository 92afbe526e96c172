-------------------------- MODULE MCDebugEntities ---------------------------
(***************************************************************************)
(* Small modules of debug metadata, each in the three instruction sets.    *)
(***************************************************************************)
EXTENDS DebugPromise

CONSTANT Cases      \* the names of the modules to take

File(path, sum, text) == [tag |-> "file", path |-> path, checksum |-> sum, text |-> text]
Unit(file, lang, imports) ==
  [tag |-> "cu", file |-> file, lang |-> lang, producer |-> "clang", flags |-> "-g",
   storage |-> <<7, "split">>, imports |-> imports]
BaseTy(name, size, enc) == [tag |-> "base", name |-> name, size |-> size, enc |-> enc]
PtrTo(tag, base, flags) == [tag |-> tag, base |-> base, as |-> Null, flags |-> flags]
Qual(tag, base) == [tag |-> tag, base |-> base]
Range1(lower, upper, count, stride) ==
  [tag |-> "subrange", lower |-> lower, upper |-> upper, count |-> count, stride |-> stride]
Array(base, vector, elements) ==
  [tag |-> "array", base |-> base, vector |-> vector, elements |-> elements,
   dataLocation |-> Null, associated |-> Null, allocated |-> Null, rank |-> Null]
Struct(tag, name, scope, elements, tparams) ==
  [tag |-> tag, name |-> name, file |-> "f", line |-> 3, scope |-> scope, identifier |-> "_ZTS" ,
   size |-> 64, flags |-> {"TypePassByValue"}, elements |-> elements, tparams |-> tparams]
Member(name, base, scope, flags, const) ==
  [tag |-> "member", name |-> name, base |-> base, file |-> "f", line |-> 4, scope |-> scope,
   offset |-> 32, size |-> 16, flags |-> flags, const |-> const]
Subroutine(types) == [tag |-> "subroutine", types |-> types, flags |-> {"LValueReference"}]
Fun(name, type, scope, def, fn, retained, tparams) ==
  [tag |-> "subprogram", name |-> name, type |-> type, file |-> "f", line |-> 9, scope |-> scope,
   linkage |-> "_Z", flags |-> {"Prototyped"}, local |-> TRUE, opt |-> TRUE, def |-> def,
   scopeLine |-> 10, decl |-> Null, target |-> "", fn |-> fn, kernel |-> FALSE, main |-> FALSE,
   unit |-> "cu", retained |-> retained, tparams |-> tparams]
Local(name, type, scope, arg) ==
  [tag |-> "localvar", name |-> name, type |-> type, file |-> "f", line |-> 11, scope |-> scope,
   flags |-> {"Artificial"}, arg |-> arg]
Global(name, type, scope, var, expr, decl) ==
  [tag |-> "globalvar", name |-> name, type |-> type, file |-> "h", line |-> 5, scope |-> scope,
   linkage |-> "l", local |-> TRUE, def |-> TRUE, decl |-> decl, var |-> var, expr |-> expr]
Block(scope) == [tag |-> "block", file |-> "f", scope |-> scope, line |-> 12, col |-> 13]
Expr(ops) == [tag |-> "expr", ops |-> ops]
Macro(tag, name, file, value) ==
  [tag |-> tag, name |-> name, file |-> file, line |-> 2, value |-> value]
Import(kind, entity, scope) ==
  [tag |-> "imported", kind |-> kind, name |-> IF kind = "declaration" THEN "n" ELSE "",
   file |-> "f", entity |-> entity, line |-> 6, scope |-> scope]

Common == ("f" :> File("f.cl", "c1", "text")) @@ ("cu" :> Unit("f", "CPP14", <<>>))
          @@ ("int" :> BaseTy("int", 32, "Signed"))
Mod(nodes) == [nodes |-> nodes @@ Common, units |-> <<"cu">>, macros |-> <<>>, types |-> <<>>,
               subprograms |-> <<>>, scopes |-> <<>>, globals |-> <<>>, body |-> <<>>,
               kernels |-> {}, debugModule |-> FALSE, extra |-> FALSE]

Types ==
  [Mod(("p" :> PtrTo("pointer", "int", {"Artificial"})) @@ ("r" :> PtrTo("rvalue", "p", {}))
       @@ ("l" :> PtrTo("reference", Null, {"ObjectPointer"})) @@ ("q" :> Qual("const", "p"))
       @@ ("u" :> BaseTy("nullptr", 0, "none"))
       @@ ("t" :> [tag |-> "typedef", name |-> "T", base |-> "q", file |-> "f", line |-> 3,
                   scope |-> "f"])
       @@ ("e" :> [tag |-> "enum", name |-> "E", base |-> "int", file |-> Null, line |-> 3,
                   scope |-> Null, size |-> 8, flags |-> {"EnumClass"},
                   enumerators |-> <<[name |-> "A", value |-> 1], [name |-> "B", value |-> 2]>>])
       @@ ("g" :> [tag |-> "enum", name |-> "G", base |-> Null, file |-> "f", line |-> 3,
                   scope |-> Null, size |-> 8, flags |-> {"FwdDecl"}, enumerators |-> <<>>])
       @@ ("s" :> Subroutine(<<Null, "int", "r">>)))
   EXCEPT !.types = <<"r", "l", "t", "u", "e", "g", "s">>]

\* Arrays with every kind of bound; the 100 sets get constant lower bounds.
Arrays(set) ==
  [Mod(("d1" :> Range1(<<0>>, Null, <<4>>, Null)) @@ ("d2" :> Range1(<<1>>, Null, <<5>>, Null))
       @@ ("a" :> Array("int", FALSE, <<"d1", "d2">>)) @@ ("v" :> Array("int", TRUE, <<"d1">>))
       @@ ("x1" :> Expr(<<<<"PushObjectAddress">>, <<"PlusUconst">>, 8, <<"Deref">>>>))
       @@ ("x2" :> Expr(<<>>))
       @@ ("d3" :> Range1(<<"ref", "x2">>, <<"ref", "x2">>, Null,
                          IF set = "Shader200" THEN <<"ref", "x1">> ELSE Null))
       @@ ("b" :> Array(Null, FALSE, <<"d3">>))
       @@ ("gv" :> Global("n", "int", Null, Null, Null, Null)) @@ ("h" :> File("h.h", Null, Null))
       @@ ("y" :> [Array("int", FALSE, <<"d1">>) EXCEPT !.dataLocation = "x2", !.rank = "gv"])
       @@ ("st" :> [tag |-> "string", name |-> "S", size |-> 8, locExp |-> "x2", lenExp |-> Null,
                    lenVar |-> "gv"]))
   EXCEPT !.types = <<"a", "v", "b">> \o (IF set = "Shader200" THEN <<"y">> ELSE <<>>) \o <<"st">>]

\* A class that refers to itself, with a base, a template parameter of each
\* kind, a static member defined elsewhere and a method.
Classes ==
  [Mod(("c" :> Struct("class", "C", "ns", <<"inh", "next", "static", "m">>, <<"tp", "vp", "pk", "tt">>))
       @@ ("base" :> Struct("struct", "B", Null, <<"mb">>, <<>>))
       @@ ("mb" :> Member("x", "int", "base", {}, Null))
       @@ ("inh" :> [tag |-> "inheritance", base |-> "base", scope |-> "c", offset |-> 8,
                     size |-> 0, flags |-> {"Protected"}])
       @@ ("next" :> Member("next", "pc", "c", {"Private"}, Null)) @@ ("pc" :> PtrTo("pointer", "c", {}))
       @@ ("static" :> Member("st", "int", "c", {"StaticMember"}, 5))
       @@ ("m" :> Fun("m", "mt", "c", FALSE, Null, <<>>, <<>>)) @@ ("mt" :> Subroutine(<<"int", "pc">>))
       @@ ("pm" :> [tag |-> "ptrtomember", base |-> "mt", class |-> "c"])
       @@ ("tp" :> [tag |-> "tparam", name |-> "T", type |-> "int", isValue |-> FALSE, value |-> Null])
       @@ ("vp" :> [tag |-> "tparam", name |-> "N", type |-> "int", isValue |-> TRUE, value |-> 3])
       @@ ("pk" :> [tag |-> "tpack", name |-> "P", elements |-> <<"tp", "vp">>])
       @@ ("tt" :> [tag |-> "ttparam", name |-> "TT", template |-> "V"])
       @@ ("ns" :> [tag |-> "namespace", name |-> "N", file |-> Null, scope |-> Null, export |-> 1])
       @@ ("gs" :> Global("C::st", "int", "ns", "gvar", Null, "static")) @@ ("h" :> File("h.h", Null, "t2"))
       @@ ("un" :> Struct("union", "U", "f", <<"mu">>, <<>>)) @@ ("mu" :> Member("u", "un2", "un", {}, Null))
       @@ ("un2" :> PtrTo("pointer", "un", {})))
   EXCEPT !.types = <<"pc", "pm", "mu">>, !.globals = <<"gs">>, !.scopes = <<"ns">>]

\* Functions: a kernel with blocks and retained variables, the definition of
\* a method, an inlined call, a template function.
Functions ==
  [Mod(("k" :> [Fun("k", "kt", "f", TRUE, "fk", <<"v1", "v2">>, <<>>) EXCEPT !.kernel = TRUE])
       @@ ("kt" :> Subroutine(<<Null, "int">>))
       @@ ("v1" :> Local("v1", "int", "k", 1)) @@ ("v2" :> Local("v2", "int", "b2", 0))
       @@ ("b1" :> Block("k")) @@ ("b2" :> Block("b1"))
       @@ ("bf" :> [tag |-> "blockfile", file |-> "f", scope |-> "b2", disc |-> 2])
       @@ ("c" :> Struct("struct", "C", "cu", <<"md">>, <<>>))
       @@ ("md" :> Fun("m", "kt", "c", FALSE, Null, <<>>, <<>>))
       @@ ("m" :> [Fun("m", "kt", "c", TRUE, "fm", <<>>, <<>>) EXCEPT !.decl = "md"])
       @@ ("t" :> [Fun("t", "kt", Null, TRUE, "ft", <<"sv">>, <<"tp">>) EXCEPT !.target = "tramp"])
       @@ ("sv" :> Global("sv", "int", "t", Null, "x1", Null)) @@ ("h" :> File("h.h", Null, Null))
       @@ ("x1" :> Expr(<<<<"Constu">>, 1, <<"StackValue">>>>))
       @@ ("tp" :> [tag |-> "tparam", name |-> "T", type |-> "int", isValue |-> FALSE, value |-> Null])
       @@ ("at" :> [tag |-> "location", line |-> 20, col |-> 3, scope |-> "b1", inlined |-> Null])
       @@ ("at2" :> [tag |-> "location", line |-> 21, col |-> 4, scope |-> "m", inlined |-> "at"]))
   EXCEPT !.subprograms = <<"m", "k", "t">>, !.scopes = <<"bf", "b1">>, !.globals = <<"sv">>,
          !.body = <<"v1", "x1", "at2">>, !.kernels = {"fk"}]

\* Two units with imports, a Fortran style module, macros.
Units ==
  [Mod(("cu" :> Unit("f", "C99", <<"i1">>)) @@ ("cu2" :> Unit("h", "Fortran90", <<"i2", "i3">>))
       @@ ("h" :> File("h.h", "c2", Null))
       @@ ("ns" :> [tag |-> "namespace", name |-> "N", file |-> Null, scope |-> "cu", export |-> 0])
       @@ ("mo" :> [tag |-> "module", name |-> "mod", file |-> "f", scope |-> "cu2", line |-> 7,
                    macros |-> "", include |-> "inc", notes |-> "", decl |-> 1])
       @@ ("i1" :> Import("module", "ns", "cu")) @@ ("i2" :> Import("module", "mo", "cu2"))
       @@ ("i3" :> Import("declaration", "ns", "cu2"))
       @@ ("d" :> Macro("define", "M", "f", "1")) @@ ("d0" :> Macro("define", "E", Null, ""))
       @@ ("ud" :> Macro("undef", "M", "f", "")) @@ ("ux" :> Macro("undef", "X", "f", "")))
   EXCEPT !.units = <<"cu", "cu2">>, !.macros = <<"ud", "d", "d0", "ux">>, !.scopes = <<"mo">>,
          !.debugModule = TRUE]

\* Expressions with operators of every number of words.
Expressions(extra) ==
  [Mod(("x" :> Expr(<<<<"Breg", 3>>, 16, <<"Lit", 2>>, <<"Convert">>, 32, 5, <<"Plus">>,
                      <<"ConstTypeOp">>, 1, 2, 3>>)) @@ ("z" :> Expr(<<<<"Fragment">>, 0, 8>>)))
   EXCEPT !.body = <<"z", "x">>, !.extra = extra]

Case(c, set) ==
  CASE c = "types" -> Types [] c = "arrays" -> Arrays(set) [] c = "classes" -> Classes
    [] c = "functions" -> Functions [] c = "units" -> Units
    [] c = "expressions" -> Expressions(FALSE) [] c = "extra" -> Expressions(TRUE)

MCModules == {Case(c, set) @@ [set |-> set] : c \in Cases, set \in InstructionSets}
=============================================================================
