---------------------------- MODULE DebugWriter -----------------------------
(***************************************************************************)
(* LLVMToSPIRVDbgTran: the debug instruction made of one metadata node.    *)
(* A node is a record with a tag; the fields that refer to other nodes     *)
(* hold their names.  Refs lists, in the order of the calls, what a        *)
(* handler translates before it emits its own instruction; the handlers    *)
(* take what came back: r by role, l for lists.                            *)
(***************************************************************************)
EXTENDS DebugFormats

\* [as |-> role, how |-> the call, to |-> node or file]; the role of an
\* element of a list is "".
R(as, how, to) == [as |-> as, how |-> how, to |-> to]
List(how, names) == [i \in DOMAIN names |-> R("", how, names[i])]

NamedTypes == {"typedef", "enum", "class", "struct", "union"}
Composites == {"class", "struct", "union"}
Pointers == {"pointer", "reference", "rvalue"}
Qualifiers == {"const", "volatile", "restrict", "atomic"}
\* Shader200 has subranges and string types of their own.
DynamicParts == <<"dataLocation", "associated", "allocated", "rank">>
isFortranArrayDynamic(n) == \E i \in DOMAIN DynamicParts : n[DynamicParts[i]] # Null
Emitted(s, n, debugModule) ==
  CASE n.tag \in {"subrange", "string"} -> s = "Shader200"
    [] n.tag = "module" -> s = "Shader200" \/ debugModule
    [] OTHER -> n.tag \notin {"file", "label"}

\* A bound of a subrange: a number, the name of a variable or an expression,
\* or null; numbers are given as <<n>>.
IsNumber(b) == b # Null /\ Len(b) = 1
BoundRefs(as, b) == IF b = Null \/ IsNumber(b) THEN <<>> ELSE <<R(as, "entry", b[2])>>
Bound(b, r, as) == CASE b = Null -> None [] IsNumber(b) -> Cst(b[1]) [] OTHER -> r[as]

\* The 100 sets name the bounds in the array itself: at most two dimensions.
UpperRole == <<"upper1", "upper2">>
LowerRole == <<"lower1", "lower2">>
DimensionRefs(ranges, k) ==
  IF k > Len(ranges) THEN <<>>
  ELSE (IF ranges[k].count = Null THEN BoundRefs(UpperRole[k], ranges[k].upper) ELSE <<>>)
       \o BoundRefs(LowerRole[k], ranges[k].lower)

Refs(s, n, ranges) ==
  CASE n.tag = "cu" -> <<R("Source", "source", n.file)>>
    [] n.tag \in Pointers -> <<R("Base", "entry", n.base)>>
    [] n.tag \in Qualifiers -> <<R("Base", "entry", n.base)>>
    [] n.tag = "array" ->
         <<R("Base", "entry", n.base)>>
         \o (IF s = "Shader200" /\ isFortranArrayDynamic(n)
             THEN [i \in 1 .. 4 |-> R(DynamicParts[i], "direct", n[DynamicParts[i]])] ELSE <<>>)
         \o (IF n.vector THEN <<>>
             ELSE IF s = "Shader200" THEN List("entry", n.elements)
             ELSE DimensionRefs(ranges, 1) \o DimensionRefs(ranges, 2))
    [] n.tag = "subrange" -> BoundRefs("lower", n.lower) \o BoundRefs("upper", n.upper)
                             \o BoundRefs("count", n.count) \o BoundRefs("stride", n.stride)
    [] n.tag = "string" -> <<R("Location", "direct", n.locExp),
                             R("Length", "direct", IF n.lenExp # Null THEN n.lenExp ELSE n.lenVar)>>
    [] n.tag = "typedef" -> <<R("Base", "entry", n.base), R("Source", "source", n.file),
                              R("Scope", "scope", n.scope)>>
    [] n.tag = "subroutine" ->
         <<R("Return", "void", IF n.types = <<>> THEN Null ELSE n.types[1])>>
         \o (IF n.types = <<>> THEN <<>> ELSE List("entry", Tail(n.types)))
    [] n.tag = "enum" -> <<R("Base", "void", n.base), R("Source", "source", n.file),
                           R("Scope", "scope", n.scope)>>
    [] n.tag \in Composites -> <<R("Source", "source", n.file), R("Scope", "scope", n.scope)>>
                               \o List("entry", n.elements)
    [] n.tag = "member" -> <<R("Base", "entry", n.base), R("Source", "source", n.file),
                             R("Scope", "entry", n.scope)>>
    [] n.tag = "inheritance" ->
         <<R("Base", "entry", n.base)>>
         \o (IF isNonSemanticDebugInfo(s) THEN <<>> ELSE <<R("Scope", "entry", n.scope)>>)
    [] n.tag = "ptrtomember" -> <<R("Base", "entry", n.base), R("Class", "entry", n.class)>>
    [] n.tag = "tparam" -> <<R("Type", "entry", n.type)>>
    [] n.tag = "ttparam" -> <<>>
    [] n.tag = "tpack" -> List("entry", n.elements)
    [] n.tag = "globalvar" ->
         <<R("Type", "entry", n.type), R("Source", "source", n.file), R("Scope", "global", n.scope)>>
         \o WhenNotNull(n.decl, <<R("Decl", "entry", n.decl)>>)
         \o (IF n.var = Null /\ isNonSemanticDebugInfo(s) /\ n.expr # Null
             THEN <<R("Expr", "direct", n.expr)>> ELSE <<>>)
    [] n.tag = "subprogram" ->
         <<R("Type", "entry", n.type), R("Source", "source", n.file),
           R("Scope", "lexical", n.scope)>>
         \o (IF n.def THEN WhenNotNull(n.decl, <<R("Decl", "entry", n.decl)>>) ELSE <<>>)
    [] n.tag \in {"block", "blockfile", "namespace"} ->
         <<R("Source", "source", n.file), R("Scope", "scope", n.scope)>>
    [] n.tag = "localvar" -> <<R("Type", "entry", n.type), R("Source", "source", n.file),
                               R("Scope", "scope", n.scope)>>
    [] n.tag = "location" -> <<R("Scope", "scope", n.scope)>>
                             \o WhenNotNull(n.inlined, <<R("Inlined", "entry", n.inlined)>>)
    [] n.tag = "imported" -> <<R("Source", "source", n.file), R("Entity", "entry", n.entity),
                               R("Scope", "scope", n.scope)>>
    [] n.tag = "module" -> <<R("Source", "source", n.file), R("Scope", "scope", n.scope)>>
    [] OTHER -> <<>>

-----------------------------------------------------------------------------
transDbgCompileUnit(s, n, r) ==
  Inst("CompilationUnit",
    Place(s, "CompilationUnit",
      [ Version |-> Num(s, 65536), DWARFVersion |-> Num(s, 4), Source |-> r.Source,
        Language |-> Num(s, IF s = "Shader200"
                            THEN convertDWARFSourceLangToSPIRVNonSemanticDbgInfo(n.lang)
                            ELSE convertDWARFSourceLangToSPIRV(n.lang)) ])
    \o IF s = "Shader200" THEN <<Str(n.producer)>> ELSE <<>>)

transDbgBaseType(s, n) ==
  Inst("TypeBasic",
    Place(s, "TypeBasic", [ Name |-> Str(n.name), Size |-> Cst(n.size),
                            Encoding |-> Num(s, EncodingTag(s, n.enc)) ])
    \o IF isNonSemanticDebugInfo(s) THEN <<Cst(0)>> ELSE <<>>)

transDbgPointerType(s, n, r) ==
  Inst("TypePointer",
    Place(s, "TypePointer", [ BaseType |-> r.Base, StorageClass |-> Num(s, n.as),
                              Flags |-> Num(s, transDebugFlags(s, n)) ]))

transDbgQualifiedType(s, n, r) ==
  Inst("TypeQualifier",
    Place(s, "TypeQualifier", [ BaseType |-> r.Base, Qualifier |-> Num(s, n.tag) ]))

\* Counts or upper bounds of all dimensions, then their lower bounds.  An
\* upper bound that is a number is not written.
transDbgArrayTypeOpenCL(s, n, r, ranges) ==
  IF n.vector
  THEN Inst("TypeVector", <<r.Base, Num(s, ranges[1].count[1])>>)
  ELSE LET firstOf(k) == IF ranges[k].count # Null THEN Cst(ranges[k].count[1])
                         ELSE IF IsNumber(ranges[k].upper) THEN None ELSE r[UpperRole[k]]
       IN  Inst("TypeArray",
             <<r.Base>> \o [k \in DOMAIN ranges |-> firstOf(k)]
                        \o [k \in DOMAIN ranges |-> Bound(ranges[k].lower, r, LowerRole[k])])

transDbgArrayTypeNonSemantic(s, n, r, l, ranges) ==
  IF n.vector THEN Inst("TypeVector", <<r.Base, Num(s, ranges[1].count[1])>>)
              ELSE Inst("TypeArray", <<r.Base>> \o l)

transDbgArrayTypeDynamic(n, r, l) ==
  Inst("TypeArrayDynamic",
    <<r.Base>> \o [i \in 1 .. 4 |-> r[DynamicParts[i]]] \o l)

transDbgSubrangeType(s, n, r) ==
  Inst("TypeSubrange",
    Place(s, "TypeSubrange", [ LowerBound |-> Bound(n.lower, r, "lower"),
                               UpperBound |-> Bound(n.upper, r, "upper"),
                               Count |-> Bound(n.count, r, "count") ])
    \o WhenNotNull(n.stride, <<Bound(n.stride, r, "stride")>>))

transDbgStringType(s, n, r) ==
  Inst("TypeString",
    Place(s, "TypeString", [ Name |-> Str(n.name), BaseType |-> None,
                             DataLocation |-> r.Location, Size |-> Cst(n.size),
                             LengthAddr |-> r.Length ]))

\* "This version of DIDerivedType has no line number"
transDbgTypeDef(s, n, r) ==
  Inst("Typedef",
    Place(s, "Typedef", [ Name |-> Str(n.name), BaseType |-> r.Base, Source |-> r.Source,
                          Line |-> Num(s, 0), Column |-> Num(s, 0), Parent |-> r.Scope ]))

transDbgSubroutineType(s, n, r, l) ==
  Inst("TypeFunction", <<Num(s, transDebugFlags(s, n)), r.Return>> \o l)

transDbgEnumType(s, n, r) ==
  Inst("TypeEnum",
    Place(s, "TypeEnum",
      [ Name |-> Str(n.name), UnderlyingType |-> r.Base, Source |-> r.Source,
        Line |-> Num(s, n.line), Column |-> Num(s, 0), Parent |-> r.Scope,
        Size |-> Cst(n.size), Flags |-> Num(s, transDebugFlags(s, n)) ])
    \o [i \in 1 .. 2 * Len(n.enumerators) |->
          IF i % 2 = 1 THEN Cst(n.enumerators[(i + 1) \div 2].value)
                       ELSE Str(n.enumerators[i \div 2].name)])

transDbgCompositeType(s, n, r, l) ==
  Inst("TypeComposite",
    Place(s, "TypeComposite",
      [ Name |-> Str(n.name), Tag |-> Num(s, n.tag), Source |-> r.Source,
        Line |-> Num(s, n.line), Column |-> Num(s, 0), Parent |-> r.Scope,
        LinkageName |-> IF n.identifier = "" THEN None ELSE Str(n.identifier),
        Size |-> Cst(n.size), Flags |-> Num(s, transDebugFlags(s, n)) ])
    \o l)

StaticValue(n) == IF "StaticMember" \in n.flags /\ n.const # Null THEN <<Cst(n.const)>> ELSE <<>>

transDbgMemberTypeOpenCL(s, n, r, scopeTag) ==
  Inst("TypeMember",
    Place(s, "TypeMember",
      [ Name |-> Str(n.name), Type |-> r.Base, Source |-> r.Source,
        Line |-> Num(s, n.line), Column |-> Num(s, 0), Parent |-> r.Scope,
        Offset |-> Cst(n.offset), Size |-> Cst(n.size),
        Flags |-> Num(s, adjustAccessFlags(scopeTag, transDebugFlags(s, n))) ])
    \o StaticValue(n))

transDbgMemberTypeNonSemantic(s, n, r, scopeTag) ==
  Inst("TypeMember",
    Place(s, "TypeMember",
      [ Name |-> Str(n.name), Type |-> r.Base, Source |-> r.Source,
        Line |-> Num(s, n.line), Column |-> Num(s, 0),
        Offset |-> Cst(n.offset), Size |-> Cst(n.size),
        Flags |-> Num(s, adjustAccessFlags(scopeTag, transDebugFlags(s, n))) ])
    \o StaticValue(n))

transDbgInheritance(s, n, r) ==
  Inst("TypeInheritance",
    Place(s, "TypeInheritance",
      [ Parent |-> r.Base, Offset |-> Cst(n.offset), Size |-> Cst(n.size),
        Flags |-> Num(s, transDebugFlags(s, n)) ]
      @@ (IF isNonSemanticDebugInfo(s) THEN <<>> ELSE [Child |-> r.Scope])))

transDbgPtrToMember(s, n, r) ==
  Inst("TypePtrToMember",
    Place(s, "TypePtrToMember", [ MemberType |-> r.Base, Parent |-> r.Class ]))

transDbgTemplateParams(target, l) ==
  Inst("TypeTemplate", <<Ent(target)>> \o l)

\* A value parameter without a value gets a null pointer constant.
transDbgTemplateParameter(s, n, r) ==
  Inst("TypeTemplateParameter",
    Place(s, "TypeTemplateParameter",
      [ Name |-> Str(n.name), Type |-> r.Type,
        Value |-> IF n.isValue THEN Cst(IF n.value = Null THEN 0 ELSE n.value) ELSE None,
        Source |-> None, Line |-> Num(s, 0), Column |-> Num(s, 0) ]))

transDbgTemplateTemplateParameter(s, n) ==
  Inst("TypeTemplateTemplateParameter",
    Place(s, "TypeTemplateTemplateParameter",
      [ Name |-> Str(n.name), TemplateName |-> Str(n.template), Source |-> None,
        Line |-> Num(s, 0), Column |-> Num(s, 0) ]))

transDbgTemplateParameterPack(s, n, l) ==
  Inst("TypeTemplateParameterPack",
    Place(s, "TypeTemplateParameterPack",
      [ Name |-> Str(n.name), Source |-> None, Line |-> Num(s, 0), Column |-> Num(s, 0) ])
    \o l)

transDbgGlobalVariable(s, n, r) ==
  Inst("GlobalVariable",
    Place(s, "GlobalVariable",
      [ Name |-> Str(n.name), Type |-> r.Type, Source |-> r.Source,
        Line |-> Num(s, n.line), Column |-> Num(s, 0), Parent |-> r.Scope,
        LinkageName |-> Str(n.linkage),
        Variable |-> IF n.var # Null THEN <<"var", n.var>>
                     ELSE IF "Expr" \in DOMAIN r THEN r.Expr ELSE None,
        Flags |-> Num(s, transDebugFlags(s, n)) ])
    \o WhenNotNull(n.decl, <<r.Decl>>))

\* Declaration or definition; the operands shared by both come first.
FunctionOperands(s, n, r, scopeTag) ==
  [ Name |-> Str(n.name), Type |-> r.Type, Source |-> r.Source,
    Line |-> Num(s, n.line), Column |-> Num(s, 0), Parent |-> r.Scope,
    LinkageName |-> Str(n.linkage),
    Flags |-> Num(s, adjustAccessFlags(scopeTag, transDebugFlags(s, n))) ]

transDbgFunction(s, n, r, scopeTag) ==
  LET shared == FunctionOperands(s, n, r, scopeTag)
  IN  IF ~n.def
      THEN Inst("FunctionDeclaration", Place(s, "FunctionDeclaration", shared))
      ELSE Inst("Function",
             Place(s, "Function",
               shared @@ [ ScopeLine |-> Num(s, n.scopeLine),
                           FunctionId |-> IF n.fn = Null THEN None ELSE <<"fun", n.fn>> ])
             \o (IF n.decl # Null THEN <<r.Decl>>
                 ELSE IF s = "Shader200" /\ n.target # ""
                      THEN <<None, Str(n.target)>> ELSE <<>>))

transDbgFuncDefinition(fn, dbgFunc) == Inst("FunctionDefinition", <<Ent(dbgFunc), <<"fun", fn>>>>)

transDbgEntryPoint(dbgFunc, cu, cuId) ==
  Inst("EntryPoint", <<Ent(dbgFunc), Ent(cuId), Str(cu.producer), Str(cu.flags)>>)

transDbgScope(s, n, r) ==
  IF n.tag = "blockfile"
  THEN Inst("LexicalBlockDiscriminator",
         Place(s, "LexicalBlockDiscriminator",
           [ Source |-> r.Source, Discriminator |-> Num(s, n.disc), Parent |-> r.Scope ]))
  ELSE Inst("LexicalBlock",
         Place(s, "LexicalBlock",
           [ Source |-> r.Source, Parent |-> r.Scope,
             Line |-> Num(s, IF n.tag = "block" THEN n.line ELSE 0),
             Column |-> Num(s, IF n.tag = "block" THEN n.col ELSE 0) ])
         \o (IF n.tag = "namespace"
             THEN <<Str(n.name)>> \o IF s = "Shader200" THEN <<Cst(n.export)>> ELSE <<>>
             ELSE <<>>))

transDbgInlinedAt(s, n, r) ==
  Inst("InlinedAt",
    (IF s = "Shader200" THEN <<Num(s, n.line), Num(s, n.col)>> ELSE <<Num(s, n.line)>>)
    \o <<r.Scope>> \o WhenNotNull(n.inlined, <<r.Inlined>>))

\* The file a Source names, with what its set has room for: a checksum in the
\* text operand, the text, or both.
getSource(s, f) ==
  Inst("Source",
    <<Str(f.path)>>
    \o CASE s = "OpenCL100" -> IF f.checksum = Null THEN <<>> ELSE <<Str(f.checksum)>>
         [] s = "Shader100" -> IF f.text = Null THEN <<>> ELSE <<Str(f.text)>>
         [] s = "Shader200" ->
              (IF f.checksum # Null THEN <<Cst("kind"), Str(f.checksum)>>
               ELSE IF f.text # Null THEN <<None, None>> ELSE <<>>)
              \o (IF f.text # Null THEN <<Str(f.text)>> ELSE <<>>))

transDbgLocalVariable(s, n, r) ==
  Inst("LocalVariable",
    Place(s, "LocalVariable",
      [ Name |-> Str(n.name), Type |-> r.Type, Source |-> r.Source,
        Line |-> Num(s, n.line), Column |-> Num(s, 0), Parent |-> r.Scope,
        Flags |-> Num(s, transDebugFlags(s, n)) ])
    \o (IF n.arg > 0 THEN <<Num(s, n.arg)>> ELSE <<>>))

\* One operation per operator of the expression, cut by OpCount.
RECURSIVE OperationsOf(_, _)
OperationsOf(s, e) ==
  IF e = <<>> THEN <<>>
  ELSE LET k == OpCount(e[1])
       IN  <<<<"opn", [i \in 1 .. k |-> Num(s, e[i])]>>>>
           \o OperationsOf(s, SubSeq(e, k + 1, Len(e)))
\* An operator beyond Fragment needs the 200 set or --spirv-allow-extra-diexpressions.
Translatable(s, n, extra) ==
  LET o == OperationsOf(s, n.ops) IN \A k \in DOMAIN o : o[k][2][1][2] \in Expressible(s, extra)
transDbgExpression(s, n) == Inst("Expression", OperationsOf(s, n.ops))

transDbgImportedEntry(s, n, r) ==
  Inst("ImportedEntity",
    Place(s, "ImportedEntity",
      [ Name |-> Str(n.name), Tag |-> Num(s, n.kind), Source |-> r.Source,
        Entity |-> r.Entity, Line |-> Num(s, n.line), Column |-> Num(s, 0),
        Parent |-> r.Scope ]))

\* Literals unless it is the DebugModule of the 200 set.
transDbgModule(s, n, r) ==
  LET w(v) == IF s = "Shader200" THEN Cst(v) ELSE Lit(v)
  IN  Inst("Module",
        Place(s, "Module",
          [ Name |-> Str(n.name), Source |-> r.Source, Line |-> w(n.line),
            Parent |-> r.Scope, ConfigMacros |-> Str(n.macros),
            IncludePath |-> Str(n.include), ApiNotes |-> Str(n.notes), IsDecl |-> w(n.decl) ]))

transDbgMacroDefine(s, n) ==
  Inst("MacroDef", <<Str(n.file), Num(s, n.line), Str(n.name)>>
                   \o IF n.value = "" THEN <<>> ELSE <<Str(n.value)>>)

transDbgMacroUndef(s, n, defId) == Inst("MacroUndef", <<Str(n.file), Num(s, n.line), Ent(defId)>>)
=============================================================================
