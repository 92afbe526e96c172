---------------------------- MODULE DebugFormats ----------------------------
(***************************************************************************)
(* Operand layouts of the debug instructions (libSPIRV/SPIRV.debug.h) and  *)
(* what the two debug translators put into the operands and take out of    *)
(* them.  An operand is a pair <<form, value>>: a literal word, the id of  *)
(* a constant, of a string or of another debug instruction, or the id of   *)
(* OpTypeVoid.  The three instruction sets differ in layouts and in        *)
(* whether a number is a literal or a constant.                            *)
(***************************************************************************)
EXTENDS Naturals, Sequences, FiniteSets, TLC

InstructionSets == {"OpenCL100", "Shader100", "Shader200"}
isNonSemanticDebugInfo(s) == s \in {"Shader100", "Shader200"}

CONSTANTS Null,      \* a null metadata operand
          Garbage    \* what a read of an operand of another form yields

Lit(v) == <<"lit", v>>
Cst(v) == <<"cst", v>>
Str(v) == <<"str", v>>
Ent(i) == <<"ent", i>>
VoidTy == <<"void", 0>>
\* DebugInfoNone, made when it is first asked for, is instruction 1 here.
NoneId == 1
None == Ent(NoneId)

(***************************************************************************)
(* Layouts: the operands by name, in the order of their indices, and the   *)
(* number of operands that are always there.                               *)
(***************************************************************************)
L(ops, min) == [ops |-> ops, min |-> min]

BasicLayouts(s) ==
  [ CompilationUnit |-> L(<<"Version", "DWARFVersion", "Source", "Language", "Producer">>, 4),
    Source |-> IF s = "Shader200" THEN L(<<"File", "ChecksumKind", "ChecksumValue", "Text">>, 1)
                                  ELSE L(<<"File", "Text">>, 1),
    BuildIdentifier |-> L(<<"Identifier", "Flags">>, 2),
    StoragePath |-> L(<<"Path">>, 1),
    TypeBasic |-> L(<<"Name", "Size", "Encoding", "Flags">>, 3),
    TypePointer |-> L(<<"BaseType", "StorageClass", "Flags">>, 3),
    TypeQualifier |-> L(<<"BaseType", "Qualifier">>, 2),
    TypeVector |-> L(<<"BaseType", "ComponentCount">>, 2),
    TypeArray |-> L(<<"BaseType", "ComponentCount">>, 2),
    TypeArrayDynamic |-> L(<<"BaseType", "DataLocation", "Associated", "Allocated", "Rank",
                             "Subranges">>, 6),
    TypeSubrange |-> L(<<"LowerBound", "UpperBound", "Count", "Stride">>, 3),
    TypeString |-> L(<<"Name", "BaseType", "DataLocation", "Size", "LengthAddr">>, 5),
    Typedef |-> L(<<"Name", "BaseType", "Source", "Line", "Column", "Parent">>, 6),
    TypeFunction |-> L(<<"Flags", "ReturnType", "FirstParameter">>, 2) ]

CompositeLayouts(s) ==
  [ TypeEnum |-> L(<<"Name", "UnderlyingType", "Source", "Line", "Column", "Parent", "Size",
                     "Flags", "FirstEnumerator">>, 8),
    TypeComposite |-> L(<<"Name", "Tag", "Source", "Line", "Column", "Parent", "LinkageName",
                          "Size", "Flags", "FirstMember">>, 9),
    TypeMember |-> IF isNonSemanticDebugInfo(s)
                   THEN L(<<"Name", "Type", "Source", "Line", "Column", "Offset", "Size",
                            "Flags", "Value">>, 8)
                   ELSE L(<<"Name", "Type", "Source", "Line", "Column", "Parent", "Offset",
                            "Size", "Flags", "Value">>, 9),
    TypeInheritance |-> IF isNonSemanticDebugInfo(s)
                        THEN L(<<"Parent", "Offset", "Size", "Flags">>, 4)
                        ELSE L(<<"Child", "Parent", "Offset", "Size", "Flags">>, 5),
    TypePtrToMember |-> L(<<"MemberType", "Parent">>, 2),
    TypeTemplate |-> L(<<"Target", "FirstParameter">>, 1),
    TypeTemplateParameter |-> L(<<"Name", "Type", "Value", "Source", "Line", "Column">>, 6),
    TypeTemplateTemplateParameter |->
                     L(<<"Name", "TemplateName", "Source", "Line", "Column">>, 5),
    TypeTemplateParameterPack |->
                     L(<<"Name", "Source", "Line", "Column", "FirstParameter">>, 4) ]

ObjectLayouts(s) ==
  [ GlobalVariable |-> L(<<"Name", "Type", "Source", "Line", "Column", "Parent", "LinkageName",
                           "Variable", "Flags", "StaticMemberDeclaration">>, 9),
    FunctionDeclaration |-> L(<<"Name", "Type", "Source", "Line", "Column", "Parent",
                                "LinkageName", "Flags">>, 8),
    Function |-> IF isNonSemanticDebugInfo(s)
                 THEN L(<<"Name", "Type", "Source", "Line", "Column", "Parent", "LinkageName",
                          "Flags", "ScopeLine", "Declaration", "TargetFunctionName">>, 9)
                 ELSE L(<<"Name", "Type", "Source", "Line", "Column", "Parent", "LinkageName",
                          "Flags", "ScopeLine", "FunctionId", "Declaration">>, 10),
    FunctionDefinition |-> L(<<"Function", "Definition">>, 2),
    EntryPoint |-> L(<<"EntryPoint", "CompilationUnit", "CompilerSignature",
                       "CommandLineArgs">>, 4),
    LexicalBlock |-> L(<<"Source", "Line", "Column", "Parent", "Name", "InlineNamespace">>, 4),
    LexicalBlockDiscriminator |-> L(<<"Source", "Discriminator", "Parent">>, 3),
    InlinedAt |-> IF s = "Shader200" THEN L(<<"Line", "Column", "Scope", "Inlined">>, 3)
                                     ELSE L(<<"Line", "Scope", "Inlined">>, 2),
    LocalVariable |-> L(<<"Name", "Type", "Source", "Line", "Column", "Parent", "Flags",
                          "ArgNumber">>, 7) ]

EntityLayouts(s) ==
  [ Expression |-> L(<<>>, 0),
    \* "it's bugged version, note 2nd index is missing"
    ImportedEntity |-> IF isNonSemanticDebugInfo(s)
                       THEN L(<<"Name", "Tag", "Source", "Entity", "Line", "Column",
                                "Parent">>, 7)
                       ELSE L(<<"Name", "Tag", "Missing", "Source", "Entity", "Line", "Column",
                                "Parent">>, 8),
    Module |-> L(<<"Name", "Source", "Line", "Parent", "ConfigMacros", "IncludePath",
                   "ApiNotes", "IsDecl">>, 8),
    MacroDef |-> L(<<"Source", "Line", "Name", "Value">>, 3),
    MacroUndef |-> L(<<"Source", "Line", "Macro">>, 3),
    DebugInfoNone |-> L(<<>>, 0) ]

Layouts == [s \in InstructionSets |->
              BasicLayouts(s) @@ CompositeLayouts(s) @@ ObjectLayouts(s) @@ EntityLayouts(s)]
Layout(s, op) == Layouts[s][op]

Idx(s, op, name) ==
  LET l == Layout(s, op).ops IN CHOOSE i \in 1 .. Len(l) : l[i] = name

\* SPIRVWordVec Ops(MinOperandCount) and the assignments Ops[...Idx] = ...
Place(s, op, rec) ==
  LET l == Layout(s, op)
  IN  [i \in 1 .. l.min |-> IF l.ops[i] \in DOMAIN rec THEN rec[l.ops[i]] ELSE Lit(0)]

Inst(op, args) == [op |-> op, args |-> args]
WhenNotNull(x, seq) == IF x = Null THEN <<>> ELSE seq

\* transformToConstant: numbers are literals in OpenCL.DebugInfo.100 and ids
\* of 32 bit constants in the NonSemantic sets.
Num(s, v) == IF isNonSemanticDebugInfo(s) THEN Cst(v) ELSE Lit(v)

\* getConstantValueOrLiteral, getString and BM->get<SPIRVConstant>.
Word(s, o) == IF o[1] = (IF isNonSemanticDebugInfo(s) THEN "cst" ELSE "lit")
              THEN o[2] ELSE Garbage
StringOf(o) == IF o[1] = "str" THEN o[2] ELSE Garbage
ConstantOf(o) == IF o[1] = "cst" THEN o[2] ELSE Garbage

Opt(s, i, name) ==      \* an operand read without looking at the count
  IF Idx(s, i.op, name) <= Len(i.args) THEN i.args[Idx(s, i.op, name)] ELSE <<"out", 0>>
Has(s, i, name) == Idx(s, i.op, name) <= Len(i.args)
From(s, i, name) == SubSeq(i.args, Idx(s, i.op, name), Len(i.args))

(***************************************************************************)
(* Languages, encodings, flags and expression operations.                  *)
(***************************************************************************)
convertDWARFSourceLangToSPIRV(d) ==
  CASE d \in {"CPP17", "CPP14", "CPP"} -> "CPP_for_OpenCL"
    [] d \in {"C99", "OpenCL"} -> "OpenCL_C"
    [] OTHER -> "Unknown"

convertSPIRVSourceLangToDWARF(l) ==
  CASE l = "OpenCL_CPP" -> "CPP14"
    [] l = "CPP_for_OpenCL" -> "CPP17"
    [] OTHER -> "OpenCL"

\* Languages that have a number of their own in NonSemantic.Shader.DebugInfo.200.
OwnNumber == {"CPP20", "CPP17", "CPP14", "CPP11", "CPP03", "CPP", "C", "C99", "C11", "C17",
              "Python", "Julia", "Rust", "D", "Fortran77", "Fortran90", "Fortran95",
              "Fortran03", "Fortran08", "Fortran18"}

convertDWARFSourceLangToSPIRVNonSemanticDbgInfo(d) ==
  CASE d = "OpenCL" -> "OpenCL_C"
    [] d \in OwnNumber -> d
    [] OTHER -> "Unknown"

convertSPIRVSourceLangToDWARFNonSemanticDbgInfo(l) ==
  CASE l = "OpenCL_CPP" -> "CPP14"
    [] l = "CPP_for_OpenCL" -> "CPP17"
    [] l \in OwnNumber -> l
    [] OTHER -> "OpenCL"

\* DbgEncodingMap; an encoding it does not hold becomes Unspecified.
Encodings == {"Address", "Boolean", "Float", "Signed", "SignedChar", "Unsigned",
              "UnsignedChar", "Complex"}
EncodingTag(s, e) ==
  IF e \in Encodings /\ (e = "Complex" => s = "Shader200") THEN e ELSE "Unspecified"

\* Both flag words keep accessibility in two bits; public is both of them.
Access == {"Private", "Protected"}

\* mapDebugFlags
MappedFlags(s) ==
  Access \cup {"FwdDecl", "Artificial", "Explicit", "Prototyped", "ObjectPointer",
               "StaticMember", "LValueReference", "RValueReference", "TypePassByValue",
               "TypePassByReference", "EnumClass"}
         \cup (IF s = "Shader200" THEN {"BitField"} ELSE {})
mapDebugFlags(s, flags) == flags \cap MappedFlags(s)

\* transDebugFlags: what the node is, next to the flags it carries.
transDebugFlags(s, n) ==
  LET is(f, b) == IF b THEN {f} ELSE {}
  IN  CASE n.tag = "globalvar" -> is("Local", n.local) \cup is("Definition", n.def)
        [] n.tag = "subprogram" -> is("Local", n.local) \cup is("Optimized", n.opt)
                                   \cup is("Definition", n.def) \cup mapDebugFlags(s, n.flags)
        [] n.tag = "reference" -> {"LValueReference"} \cup mapDebugFlags(s, n.flags)
        [] n.tag = "rvalue" -> {"RValueReference"} \cup mapDebugFlags(s, n.flags)
        [] OTHER -> mapDebugFlags(s, n.flags)

\* "In SPIR-V we set the flags even for members with default access specifier"
adjustAccessFlags(scopeTag, flags) ==
  IF flags \cap Access # {} THEN flags
  ELSE CASE scopeTag = "class" -> flags \cup {"Private"}
         [] scopeTag \in {"struct", "union"} -> flags \cup Access
         [] OTHER -> flags

\* OpCountMap: the words of an operation; the numbered families in one go.
Numbered(name) == {<<name, k>> : k \in 0 .. 31}
OneWord == {<<x>> : x \in {"Deref", "Plus", "Minus", "Swap", "Xderef", "StackValue", "Dup",
    "Drop", "Over", "Pick", "Rot", "Abs", "And", "Div", "Mod", "Mul", "Neg", "Not", "Or", "Shl",
    "Shr", "Shra", "Xor", "Eq", "Ge", "Gt", "Le", "Lt", "Ne", "Fbreg", "Nop",
    "PushObjectAddress", "FormTlsAddress", "CallFrameCfa"}} \cup Numbered("Lit") \cup Numbered("Reg")
TwoWords == {<<x>> : x \in {"PlusUconst", "Constu", "Addr", "Const1u", "Const1s", "Const2u",
    "Const2s", "Const4u", "Const4s", "Const8u", "Const8s", "Consts", "Bra", "Skip", "Regx",
    "Piece", "DerefSize", "XderefSize", "Call2", "Call4", "CallRef", "Addrx", "Constx",
    "Reinterpret", "LLVMArg", "ImplicitPointerTag", "TagOffset"}} \cup Numbered("Breg")
ThreeWords == {<<x>> : x \in {"BitPiece", "Fragment", "Convert", "Bregx", "ImplicitValue",
    "ImplicitPointer", "EntryValue", "RegvalType", "DerefType", "XderefType"}}
OpCount(op) == CASE op \in OneWord -> 1 [] op \in TwoWords -> 2
                 [] op \in ThreeWords -> 3 [] op = <<"ConstTypeOp">> -> 4

\* ExpressionOpCode up to Fragment; DbgExpressionOpCodeMap maps both ways.
UpToFragment == {<<x>> : x \in {"Deref", "Plus", "Minus", "PlusUconst", "BitPiece", "Swap",
                                "Xderef", "StackValue", "Constu", "Fragment"}}
Operations == OneWord \cup TwoWords \cup ThreeWords \cup {<<"ConstTypeOp">>}
Expressible(s, extra) == IF s = "Shader200" \/ extra THEN Operations \ {<<"Fbreg">>}
                                                     ELSE UpToFragment
=============================================================================
