---------------------------- MODULE DebugReader -----------------------------
(***************************************************************************)
(* SPIRVToLLVMDbgTran: the metadata made of one debug instruction.  An     *)
(* object is a record with the fields of the node it was written from;     *)
(* what it refers to is the id of the instruction the other object was     *)
(* made from, null, or the path of a file.  rRefs lists, in the order of   *)
(* the calls, what a handler translates before it makes its own object;    *)
(* the handlers take what came back: r by role, l for lists.               *)
(***************************************************************************)
EXTENDS DebugFormats

\* Results of a reference are pairs, so that ids, paths and null compare.
Obj(i) == <<"obj", i>>
NullObj == <<"obj", 0>>
FileObj(path) == <<"file", path>>
Unspecified == <<"unknown", 0>> \* the type "SPIRV unknown type"
Stray == <<"stray", 0>>         \* an operand that is no debug instruction, taken for one

Q(as, how, o) == [as |-> as, how |-> how, op |-> o]
QList(how, ops) == [k \in DOMAIN ops |-> Q("", how, ops[k])]

\* The first half of the bounds are counts or upper bounds, the others lower.
BoundIndex(i) == 2 .. (Len(i.args) \div 2 + 1)
\* Mutant: one too low.
LowerAtBefore(i, k) == LET p == Len(i.args) \div 2 + k - 1
                       IN  IF p <= Len(i.args) THEN i.args[p] ELSE <<"out", 0>>
LowerAt(i, k) == LET p == Len(i.args) \div 2 + k
                 IN  IF p <= Len(i.args) THEN i.args[p] ELSE <<"out", 0>>
OpOf(code, o) == IF o[1] = "ent" THEN code[o[2]].op ELSE "none"

IsVariable(code, o) == OpOf(code, o) \in {"GlobalVariable", "LocalVariable"}
IsNone(code, o) == OpOf(code, o) = "DebugInfoNone"
IsEntity(code, o) == IsVariable(code, o) \/ OpOf(code, o) = "Expression"
When(b, seq) == IF b THEN seq ELSE <<>>

\* The pairs of bounds transTypeArrayOpenCL follows as entities.
ArrayBoundRefs(code, i, k) ==
  CASE OpOf(code, i.args[k]) = "LocalVariable" -> <<Q("", "inst", i.args[k])>>
    [] OpOf(code, i.args[k]) = "Expression" /\ OpOf(code, LowerAt(i, k)) = "Expression" ->
         <<Q("", "inst", i.args[k]), Q("", "inst", LowerAt(i, k))>>
    [] OTHER -> <<>>

rRefs(s, code, id) ==
  LET i == code[id]
      a(name) == Opt(s, i, name)
      has(name) == Has(s, i, name)
  IN
  CASE i.op = "CompilationUnit" -> <<Q("File", "file", a("Source"))>>
    [] i.op = "TypeQualifier" -> <<Q("Base", "inst", a("BaseType"))>>
    [] i.op = "TypePointer" -> <<Q("Base", "type", a("BaseType"))>>
    [] i.op = "TypeArray" ->
         <<Q("Base", "nonnull", a("BaseType"))>>
         \o (IF s = "Shader200" THEN QList("inst", From(s, i, "ComponentCount"))
             ELSE LET k == Len(i.args) \div 2 + 1
                  IN  ArrayBoundRefs(code, i, 2) \o When(k > 2, ArrayBoundRefs(code, i, 3)))
    [] i.op = "TypeArrayDynamic" ->
         <<Q("Base", "nonnull", a("BaseType"))>> \o QList("inst", From(s, i, "Subranges"))
         \o [k \in 1 .. 4 |-> Q(<<"dataLocation", "associated", "allocated", "rank">>[k],
                                "entity", i.args[k + 1])]
    [] i.op = "TypeVector" -> <<Q("Base", "nonnull", a("BaseType"))>>
    [] i.op = "TypeSubrange" ->
         [k \in DOMAIN i.args |-> Q(<<"lower", "upper", "count", "stride">>[k], "bound", i.args[k])]
    [] i.op = "TypeString" -> <<Q("Location", "entity", a("DataLocation")),
                                Q("Length", "entity", a("LengthAddr"))>>
    [] i.op = "TypeComposite" -> <<Q("File", "file", a("Source")), Q("Scope", "scope", a("Parent"))>>
    [] i.op = "TypeMember" ->
         <<Q("File", "file", a("Source"))>>
         \o When(~isNonSemanticDebugInfo(s), <<Q("Scope", "scope", Opt(s, i, "Parent"))>>)
         \o <<Q("Base", "nonnull", a("Type"))>>
    [] i.op = "TypeEnum" ->
         <<Q("File", "file", a("Source")), Q("Scope", "scope", a("Parent"))>>
         \o When("FwdDecl" \notin Word(s, a("Flags")), <<Q("Base", "type", a("UnderlyingType"))>>)
    [] i.op = "TypeFunction" ->
         <<Q("Return", "type", a("ReturnType"))>> \o QList("type", From(s, i, "FirstParameter"))
    [] i.op = "TypePtrToMember" -> <<Q("Base", "nonnull", a("MemberType")),
                                     Q("Class", "nonnull", a("Parent"))>>
    [] i.op = "LexicalBlock" -> <<Q("Scope", "scope", a("Parent")), Q("File", "file", a("Source"))>>
    [] i.op = "LexicalBlockDiscriminator" ->
         <<Q("File", "file", a("Source")), Q("Scope", "scope", a("Parent"))>>
    [] i.op = "Function" ->
         <<Q("Type", "inst", a("Type")), Q("File", "file", a("Source")),
           Q("Scope", "scope", a("Parent"))>>
         \o When(has("Declaration"), <<Q("Decl", "inst", a("Declaration"))>>)
    [] i.op = "FunctionDeclaration" ->
         <<Q("Scope", "scope", a("Parent")), Q("File", "file", a("Source")),
           Q("Type", "inst", a("Type"))>>
    [] i.op = "GlobalVariable" ->
         <<Q("Type", "nonnull", a("Type")), Q("File", "file", a("Source")),
           Q("Scope", "scope", a("Parent"))>>
         \o When(has("StaticMemberDeclaration"),
                 <<Q("Decl", "inst", a("StaticMemberDeclaration"))>>)
         \o When(OpOf(code, a("Variable")) = "Expression", <<Q("Expr", "inst", a("Variable"))>>)
    [] i.op = "LocalVariable" ->
         <<Q("Scope", "scope", a("Parent")), Q("File", "file", a("Source")),
           Q("Type", "nonnull", a("Type"))>>
    [] i.op = "Typedef" ->
         <<Q("File", "file", a("Source")), Q("Base", "inst", a("BaseType")),
           Q("Scope", "scope", a("Parent"))>>
    [] i.op = "TypeInheritance" ->
         <<Q("Base", "inst", a("Parent"))>>
         \o When(~isNonSemanticDebugInfo(s), <<Q("Scope", "inst", Opt(s, i, "Child"))>>)
    [] i.op = "TypeTemplateParameter" -> <<Q("Type", "type", a("Type"))>>
    [] i.op = "TypeTemplateParameterPack" -> QList("inst", From(s, i, "FirstParameter"))
    [] i.op = "TypeTemplate" ->
         <<Q("Target", "inst", a("Target"))>> \o QList("inst", From(s, i, "FirstParameter"))
    [] i.op = "ImportedEntity" ->
         <<Q("Scope", "scope", a("Parent")), Q("File", "file", a("Source")),
           Q("Entity", "inst", a("Entity"))>>
    [] i.op = "Module" -> <<Q("Scope", "scope", a("Parent")), Q("File", "file", a("Source"))>>
    [] i.op = "MacroDef" -> <<Q("File", "path", a("Source"))>>
    [] i.op = "MacroUndef" -> <<Q("Macro", "inst", a("Macro")), Q("File", "path", a("Source"))>>
    [] i.op = "InlinedAt" -> <<Q("Scope", "scope", a("Scope"))>>
                             \o When(has("Inlined"), <<Q("Inlined", "inst", a("Inlined"))>>)
    [] OTHER -> <<>>

\* asserts on the number of operands
Counted(s, i) ==
  LET n == Len(i.args)
      min == Layout(s, i.op).min
  IN  CASE i.op \in {"TypeQualifier", "TypePointer", "FunctionDeclaration", "TypeInheritance",
                     "EntryPoint", "ImportedEntity"} -> n = min
        [] i.op = "TypeBasic" -> n = (IF isNonSemanticDebugInfo(s) THEN 4 ELSE 3)
        [] i.op = "TypeSubrange" -> n \in {3, 4}
        [] OTHER -> n >= min

-----------------------------------------------------------------------------
transCompilationUnit(s, i, r, epProducer, epFlags, modProducer, storage) ==
  [ tag |-> "cu", file |-> r.File,
    lang |-> LET w == Word(s, Opt(s, i, "Language"))
             IN  IF s = "Shader200" THEN convertSPIRVSourceLangToDWARFNonSemanticDbgInfo(w)
                                    ELSE convertSPIRVSourceLangToDWARF(w),
    producer |-> CASE s = "Shader200" -> StringOf(Opt(s, i, "Producer"))
                   [] s = "Shader100" -> epProducer
                   [] OTHER -> modProducer,
    flags |-> epFlags,
    storage |-> IF isNonSemanticDebugInfo(s) THEN storage ELSE <<0, "">> ]

transTypeBasic(s, i) ==
  LET e == Word(s, Opt(s, i, "Encoding"))
      unspecified == e = "Unspecified"
  IN  [ tag |-> "base", name |-> StringOf(Opt(s, i, "Name")), enc |-> e,
        size |-> IF unspecified THEN 0 ELSE ConstantOf(Opt(s, i, "Size")) ]

transTypeQualifier(s, i, r) == [ tag |-> Word(s, Opt(s, i, "Qualifier")), base |-> r.Base ]

transTypePointer(s, i, r) ==
  LET f == Word(s, Opt(s, i, "Flags"))
  IN  [ tag |-> CASE "LValueReference" \in f -> "reference"
                  [] "LValueReference" \notin f /\ "RValueReference" \in f -> "rvalue"
                  [] OTHER -> "pointer",
        base |-> r.Base, as |-> Word(s, Opt(s, i, "StorageClass")),
        flags |-> IF "ObjectPointer" \in f THEN {"ObjectPointer", "Artificial"}
                  ELSE f \cap {"Artificial"} ]

Subrange(lower, upper, count, stride) ==
  [tag |-> "subrange", lower |-> lower, upper |-> upper, count |-> count, stride |-> stride]
NumberAt(o) == <<"num", ConstantOf(o)>>

\* A pair of bounds as a subrange; a pair the reader cannot use is left out.
OpenCLSubrange(code, i, k) ==
  LET o == i.args[k]
  IN  CASE OpOf(code, o) = "LocalVariable" ->
             <<Subrange(NumberAt(LowerAt(i, k)), Obj(o[2]), NullObj, NullObj)>>
        [] OpOf(code, o) = "Expression" /\ OpOf(code, LowerAt(i, k)) = "Expression" ->
             <<Subrange(Obj(LowerAt(i, k)[2]), Obj(o[2]), NullObj, NullObj)>>
        [] IsNone(code, o) -> <<>>
        [] OTHER -> <<Subrange(NumberAt(LowerAt(i, k)), NullObj, NumberAt(o), NullObj)>>

ArrayObject(r, vector, dims) == [tag |-> "array", base |-> r.Base, vector |-> vector, dims |-> dims]
NoParts == [dataLocation |-> NullObj, associated |-> NullObj, allocated |-> NullObj, rank |-> NullObj]

transTypeArrayOpenCL(s, code, i, r) ==
  ArrayObject(r, FALSE, OpenCLSubrange(code, i, 2)
                        \o When(3 \in BoundIndex(i), OpenCLSubrange(code, i, 3))) @@ NoParts
transTypeArrayNonSemantic(r, l) == ArrayObject(r, FALSE, l) @@ NoParts
transTypeArrayDynamic(r, l) ==
  ArrayObject(r, FALSE, l)
  @@ [p \in {"dataLocation", "associated", "allocated", "rank"} |-> r[p]]
transTypeVector(s, i, r) ==
  ArrayObject(r, TRUE, <<Subrange(<<"num", 0>>, NullObj,
                                  <<"num", Word(s, Opt(s, i, "ComponentCount"))>>, NullObj)>>) @@ NoParts

transTypeSubrange(i, r) ==
  Subrange(r.lower, r.upper, r.count, IF Len(i.args) = 4 THEN r.stride ELSE NullObj)

transTypeString(s, code, i, r) ==
  LET len == OpOf(code, Opt(s, i, "LengthAddr"))
  IN  [ tag |-> "string", name |-> StringOf(Opt(s, i, "Name")),
        size |-> ConstantOf(Opt(s, i, "Size")),
        locExp |-> IF OpOf(code, Opt(s, i, "DataLocation")) = "Expression" THEN r.Location ELSE NullObj,
        lenExp |-> IF len = "Expression" THEN r.Length ELSE NullObj,
        lenVar |-> IF len \in {"GlobalVariable", "LocalVariable"} THEN r.Length ELSE NullObj ]

\* Made before its members, which take it as their scope.
transTypeComposite(s, i, r) ==
  [ tag |-> Word(s, Opt(s, i, "Tag")), name |-> StringOf(Opt(s, i, "Name")), file |-> r.File,
    line |-> Word(s, Opt(s, i, "Line")), scope |-> r.Scope,
    identifier |-> IF Opt(s, i, "LinkageName")[1] = "str" THEN Opt(s, i, "LinkageName")[2] ELSE "",
    size |-> ConstantOf(Opt(s, i, "Size")),
    flags |-> Word(s, Opt(s, i, "Flags")) \cap {"FwdDecl", "TypePassByValue", "TypePassByReference"},
    elements |-> <<>>, tparams |-> <<>> ]

transTypeMember(s, i, r, scope) ==
  LET f == Word(s, Opt(s, i, "Flags"))
      static == "StaticMember" \in f
  IN  [ tag |-> "member", name |-> StringOf(Opt(s, i, "Name")), base |-> r.Base, file |-> r.File,
        line |-> Word(s, Opt(s, i, "Line")), scope |-> scope,
        offset |-> IF static THEN 0 ELSE ConstantOf(Opt(s, i, "Offset")),
        size |-> IF static THEN 0 ELSE ConstantOf(Opt(s, i, "Size")),
        flags |-> f \cap (Access \cup {"StaticMember"}
                          \cup (IF isNonSemanticDebugInfo(s) THEN {"BitField"} ELSE {})),
        const |-> IF static /\ Has(s, i, "Value") THEN ConstantOf(Opt(s, i, "Value")) ELSE Null ]

\* A forward declaration has neither enumerators nor an underlying type.
transTypeEnum(s, i, r) ==
  LET f == Word(s, Opt(s, i, "Flags"))
      fwd == "FwdDecl" \in f
      e == From(s, i, "FirstEnumerator")
  IN  [ tag |-> "enum", name |-> StringOf(Opt(s, i, "Name")), file |-> r.File,
        line |-> Word(s, Opt(s, i, "Line")), scope |-> r.Scope,
        size |-> ConstantOf(Opt(s, i, "Size")), base |-> IF fwd THEN NullObj ELSE r.Base,
        flags |-> IF fwd THEN {"FwdDecl"} ELSE f \cap {"EnumClass"},
        enumerators |-> IF fwd THEN <<>>
                        ELSE [k \in 1 .. Len(e) \div 2 |->
                                [value |-> ConstantOf(e[2 * k - 1]), name |-> StringOf(e[2 * k])]] ]

transTypeFunction(s, i, r, l) ==
  [ tag |-> "subroutine", types |-> <<r.Return>> \o l,
    flags |-> Word(s, Opt(s, i, "Flags")) \cap {"LValueReference", "RValueReference"} ]

transTypePtrToMember(r) == [tag |-> "ptrtomember", base |-> r.Base, class |-> r.Class]

\* A name makes it a namespace.
transLexicalBlock(s, i, r) ==
  IF Has(s, i, "Name")
  THEN [ tag |-> "namespace", scope |-> r.Scope, name |-> StringOf(Opt(s, i, "Name")),
         export |-> IF s = "Shader200" THEN ConstantOf(Opt(s, i, "InlineNamespace")) ELSE 0 ]
  ELSE [ tag |-> "block", scope |-> r.Scope, file |-> r.File,
         line |-> Word(s, Opt(s, i, "Line")), col |-> Word(s, Opt(s, i, "Column")) ]

transLexicalBlockDiscriminator(s, i, r) ==
  [ tag |-> "blockfile", scope |-> r.Scope, file |-> r.File,
    disc |-> Word(s, Opt(s, i, "Discriminator")) ]

FunctionFlags == Access \cup {"Artificial", "Explicit", "Prototyped", "LValueReference",
                              "RValueReference"}

\* What Function and FunctionDeclaration have in common.
FunctionObject(s, i, r) ==
  LET f == Word(s, Opt(s, i, "Flags"))
  IN  [ tag |-> "subprogram", name |-> StringOf(Opt(s, i, "Name")), type |-> r.Type,
        file |-> r.File, line |-> Word(s, Opt(s, i, "Line")), scope |-> r.Scope,
        linkage |-> StringOf(Opt(s, i, "LinkageName")), flags |-> f \cap FunctionFlags,
        def |-> "Definition" \in f, opt |-> "Optimized" \in f, local |-> "Local" \in f,
        tparams |-> <<>> ]

transFunction(s, i, r, main) ==
  FunctionObject(s, i, r)
  @@ [ scopeLine |-> Word(s, Opt(s, i, "ScopeLine")), main |-> main,
       decl |-> IF Has(s, i, "Declaration") THEN r.Decl ELSE NullObj,
       target |-> IF s = "Shader200" /\ Has(s, i, "TargetFunctionName")
                  THEN StringOf(Opt(s, i, "TargetFunctionName")) ELSE "" ]

transFunctionDecl(s, i, r) ==
  FunctionObject(s, i, r) @@ [scopeLine |-> 0, main |-> FALSE, decl |-> NullObj, target |-> ""]

transGlobalVariable(s, i, r) ==
  LET f == Word(s, Opt(s, i, "Flags"))
  IN  [ tag |-> "globalvar", name |-> StringOf(Opt(s, i, "Name")), type |-> r.Type,
        file |-> r.File, line |-> Word(s, Opt(s, i, "Line")), scope |-> r.Scope,
        linkage |-> StringOf(Opt(s, i, "LinkageName")), local |-> "Local" \in f,
        def |-> "Definition" \in f,
        decl |-> IF "Decl" \in DOMAIN r THEN r.Decl ELSE NullObj,
        expr |-> IF "Expr" \in DOMAIN r /\ "Definition" \in f THEN r.Expr ELSE NullObj ]

transLocalVariable(s, i, r) ==
  [ tag |-> "localvar", name |-> StringOf(Opt(s, i, "Name")), type |-> r.Type, file |-> r.File,
    line |-> Word(s, Opt(s, i, "Line")), scope |-> r.Scope,
    flags |-> Word(s, Opt(s, i, "Flags")) \cap {"Artificial", "ObjectPointer"},
    arg |-> IF Has(s, i, "ArgNumber") THEN Word(s, Opt(s, i, "ArgNumber")) ELSE 0 ]

transTypedef(s, i, r) ==
  [ tag |-> "typedef", name |-> StringOf(Opt(s, i, "Name")), base |-> r.Base, file |-> r.File,
    line |-> Word(s, Opt(s, i, "Line")), scope |-> r.Scope ]

transTypeInheritance(s, i, r, child) ==
  [ tag |-> "inheritance", base |-> r.Base, scope |-> child,
    offset |-> ConstantOf(Opt(s, i, "Offset")),
    flags |-> Word(s, Opt(s, i, "Flags")) \cap Access ]

transTypeTemplateParameter(s, code, i, r) ==
  LET v == Opt(s, i, "Value")
  IN  [ tag |-> "tparam", name |-> StringOf(Opt(s, i, "Name")), type |-> r.Type,
        isValue |-> ~IsNone(code, v), value |-> IF IsNone(code, v) THEN Null ELSE ConstantOf(v) ]

transTypeTemplateTemplateParameter(s, i) ==
  [ tag |-> "ttparam", name |-> StringOf(Opt(s, i, "Name")),
    template |-> StringOf(Opt(s, i, "TemplateName")) ]

transTypeTemplateParameterPack(s, i, l) ==
  [ tag |-> "tpack", name |-> StringOf(Opt(s, i, "Name")), elements |-> l ]

\* A module imported has no name.
transImportedEntry(s, i, r) ==
  LET kind == Word(s, Opt(s, i, "Tag"))
  IN  [ tag |-> "imported", kind |-> kind, file |-> r.File, entity |-> r.Entity,
        line |-> Word(s, Opt(s, i, "Line")), scope |-> r.Scope,
        name |-> IF kind = "declaration" THEN StringOf(Opt(s, i, "Name")) ELSE "" ]

\* Literals unless it is the DebugModule of the 200 set.
transModule(s, i, r) ==
  LET w(o) == IF s = "Shader200" THEN ConstantOf(o) ELSE IF o[1] = "lit" THEN o[2] ELSE Garbage
  IN  [ tag |-> "module", name |-> StringOf(Opt(s, i, "Name")), file |-> r.File, scope |-> r.Scope,
        line |-> w(Opt(s, i, "Line")), macros |-> StringOf(Opt(s, i, "ConfigMacros")),
        include |-> StringOf(Opt(s, i, "IncludePath")), notes |-> StringOf(Opt(s, i, "ApiNotes")),
        decl |-> w(Opt(s, i, "IsDecl")) ]

transMacroDef(s, i, r) ==
  [ tag |-> "define", file |-> r.File, line |-> Word(s, Opt(s, i, "Line")),
    name |-> StringOf(Opt(s, i, "Name")),
    value |-> IF Has(s, i, "Value") THEN StringOf(Opt(s, i, "Value")) ELSE "" ]

transMacroUndef(s, i, r, referenced) ==
  [ tag |-> "undef", file |-> r.File, line |-> Word(s, Opt(s, i, "Line")),
    name |-> referenced.name, value |-> "" ]

\* The operations' operators and numbers in one row again.
RECURSIVE Flattened(_, _)
Flattened(s, ops) ==
  IF ops = <<>> THEN <<>>
  ELSE [k \in DOMAIN Head(ops)[2] |-> Word(s, Head(ops)[2][k])] \o Flattened(s, Tail(ops))
transExpression(s, i) == [tag |-> "expr", ops |-> Flattened(s, i.args)]

transDebugInlined(s, i, r) ==
  [ tag |-> "location", line |-> Word(s, Opt(s, i, "Line")),
    col |-> IF s = "Shader200" THEN Word(s, Opt(s, i, "Column")) ELSE 0,
    scope |-> r.Scope, inlined |-> IF Has(s, i, "Inlined") THEN r.Inlined ELSE NullObj ]

\* getFile: what a Source says of its file; the checksum of the 100 sets is
\* looked for in the text operand of OpenCL.DebugInfo.100 only.
getFile(s, code, o) ==
  LET i == IF o[1] = "ent" THEN code[o[2]] ELSE Inst("none", <<>>)
      n == Len(i.args)
      str(k) == IF k > n \/ IsNone(code, i.args[k]) THEN Null ELSE StringOf(i.args[k])
  IN  IF i.op # "Source" THEN [path |-> Garbage, checksum |-> Null, text |-> Null]
      ELSE [ path |-> StringOf(i.args[1]),
             checksum |-> CASE s = "OpenCL100" -> str(2)
                            [] s = "Shader200" /\ n >= 3 -> str(3)
                            [] OTHER -> Null,
             text |-> CASE s = "Shader100" -> str(2)
                        [] s = "Shader200" /\ n \in {2, 4} -> str(4)
                        [] OTHER -> Null ]
=============================================================================
