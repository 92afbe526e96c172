--------------------------- MODULE DebugEntities ----------------------------
(***************************************************************************)
(* The two debug translators at work on one module: the writer walks the   *)
(* metadata graph depth first, caching instructions by node, and the       *)
(* reader walks the instructions depth first, caching objects by           *)
(* instruction.  Both recursions are explicit stacks, so that what is in   *)
(* the caches while a cycle of the graph is being followed is visible.     *)
(***************************************************************************)
EXTENDS DebugWriter, DebugReader

CONSTANT Modules    \* the debug metadata of some LLVM modules
(* A module: [set |-> instruction set, nodes |-> name -> node, units,       *)
(* macros, types, subprograms, scopes, globals, body |-> the names the      *)
(* writer's loops visit, in order, debugModule |-> SPV_INTEL_debug_module,  *)
(* extra |-> --spirv-allow-extra-diexpressions, kernels |-> functions].     *)

VARIABLES
  mod, phase,
  code, order, defs, next,      \* instructions by id; DebugInstVec; FunctionDefinitions
  MDMap, FileMap, MacroDefMap, SPIRVCUMap, producers, stack,
  DebugInstCache, objs, files, BuilderMap, attached, rstack

wvars == <<code, order, defs, next, MDMap, FileMap, MacroDefMap, SPIRVCUMap, producers, stack>>
rvars == <<DebugInstCache, objs, files, BuilderMap, attached, rstack>>
vars == <<mod, phase, wvars, rvars>>

s == mod.set
Node(x) == mod.nodes[x]
PathOf(f) == IF f = Null THEN "" ELSE Node(f).path

-----------------------------------------------------------------------------
(* The writer.                                                             *)

Ranges(n) == IF n.tag = "array" THEN [k \in DOMAIN n.elements |-> Node(n.elements[k])] ELSE <<>>
Frame(x, how, id) ==
  [n |-> x, how |-> how, todo |-> Refs(s, Node(x), Ranges(Node(x))), got |-> <<>>, lst |-> <<>>,
   stage |-> "refs", id |-> id]

\* transDebugMetadata: everything that is visited, in this order.
Imports(m, k) == <<R("", "entry", m.units[k])>> \o List("entry", m.nodes[m.units[k]].imports)
MacrosOf(m, tag) == SelectSeq(m.macros, LAMBDA x : m.nodes[x].tag = tag)
\* Mutant: scopes before subprograms.
transDebugMetadataScopesFirst(m) ==
  Imports(m, 1) \o (IF Len(m.units) = 2 THEN Imports(m, 2) ELSE <<>>)
  \o List("entry", m.types) \o List("entry", m.scopes) \o List("entry", m.subprograms)
transDebugMetadata(m) ==
  Imports(m, 1) \o (IF Len(m.units) = 2 THEN Imports(m, 2) ELSE <<>>)
  \o List("define", MacrosOf(m, "define")) \o List("undef", MacrosOf(m, "undef"))
  \o List("entry", m.types) \o List("entry", m.subprograms) \o List("entry", m.scopes)
  \o List("entry", m.globals) \o List("entry", m.body)

Top == stack[Len(stack)]
Pending == phase = "write" /\ Top.todo # <<>>
Ready(stage) == phase = "write" /\ Len(stack) > 1 /\ Top.todo = <<>> /\ Top.stage = stage

Take(f, o) ==
  LET as == Head(f.todo).as
  IN  [f EXCEPT !.todo = Tail(@),
                !.lst = IF as = "" THEN Append(@, o) ELSE @,
                !.got = IF as = "" THEN @ ELSE (as :> o) @@ @]
Deliver(st, o) == [st EXCEPT ![Len(st)] = Take(@, o)]
Below == SubSeq(stack, 1, Len(stack) - 1)

AnyUnit == {Ent(SPIRVCUMap[u]) : u \in DOMAIN SPIRVCUMap}
UnitOf(x) == IF Node(x).unit = Null THEN AnyUnit ELSE {Ent(SPIRVCUMap[Node(x).unit])}
IsLexical(to) == /\ to # Null
                 /\ Node(to).tag # "file"
                 /\ ~(isNonSemanticDebugInfo(s) /\ Node(to).tag = "module")
IsGlobalScope(to) == to # Null /\ Node(to).tag \in {"namespace", "subprogram", "module"}

\* What a call yields without translating anything: empty if it has to.
Immediate(q) ==
  LET to == q.to
  IN  CASE q.how = "source" ->
             IF PathOf(to) \in DOMAIN FileMap THEN {Ent(FileMap[PathOf(to)])} ELSE {}
        [] q.how = "global" /\ ~IsGlobalScope(to) -> AnyUnit
        [] q.how = "lexical" /\ ~IsLexical(to) -> UnitOf(Top.n)
        [] q.how = "scope" /\ to = Null -> AnyUnit
        [] q.how = "void" /\ to = Null -> {VoidTy}
        [] OTHER -> IF to = Null THEN {None}
                    ELSE IF q.how \in {"define", "undef"} THEN {}
                    ELSE IF q.how # "direct" /\ to \in DOMAIN MDMap THEN {Ent(MDMap[to])}
                    ELSE IF Node(to).tag = "file" THEN {Str(Node(to).path)}
                    ELSE IF ~Emitted(s, Node(to), mod.debugModule) THEN {None}
                    ELSE {}

Emit(id, inst) == code' = (id :> inst) @@ code
Unread == UNCHANGED <<mod, rvars>>

\* transDbgEntry finds the node in MDMap, or nothing has to be emitted.
FindEntry ==
  /\ Pending
  /\ \E o \in Immediate(Head(Top.todo)) : stack' = Deliver(stack, o)
  /\ UNCHANGED <<phase, code, order, defs, next, MDMap, FileMap, MacroDefMap, SPIRVCUMap, producers>>
  /\ Unread

NewSource ==
  /\ Pending
  /\ Head(Top.todo).how = "source" /\ Immediate(Head(Top.todo)) = {}
  /\ LET f == Head(Top.todo).to
     IN  /\ Emit(next, getSource(s, IF f = Null THEN [path |-> "", checksum |-> Null, text |-> Null]
                                               ELSE Node(f)))
         /\ FileMap' = (PathOf(f) :> next) @@ FileMap
  /\ order' = Append(order, next) /\ next' = next + 1
  /\ stack' = Deliver(stack, Ent(next))
  /\ UNCHANGED <<phase, defs, MDMap, MacroDefMap, SPIRVCUMap, producers>> /\ Unread

\* Mutant: a composite type is not in the cache while its members are translated.
\* A stack of 12 frames stands for one that has overflowed.
EnterUncached ==
  /\ Pending
  /\ Head(Top.todo).how \notin {"source", "define", "undef"} /\ Immediate(Head(Top.todo)) = {}
  /\ LET q == Head(Top.todo)
     IN  stack' = IF Len(stack) = 12 THEN stack
                  ELSE Append(stack, Frame(q.to, q.how, IF Node(q.to).tag \in Composites
                                                          THEN next ELSE 0))
  /\ UNCHANGED <<phase, MDMap, code, next, order, defs, FileMap, MacroDefMap, SPIRVCUMap,
                 producers>> /\ Unread
\* transDbgEntryImpl is entered; a composite type first gets a forward entry.
Enter ==
  /\ Pending
  /\ Head(Top.todo).how \notin {"source", "define", "undef"} /\ Immediate(Head(Top.todo)) = {}
  /\ LET q == Head(Top.todo)
     IN  IF Node(q.to).tag \in Composites
         THEN /\ stack' = Append(stack, Frame(q.to, q.how, next))
              /\ MDMap' = (q.to :> next) @@ MDMap
              /\ Emit(next, Inst("Forward", <<>>))
              /\ next' = next + 1
         ELSE /\ stack' = Append(stack, Frame(q.to, q.how, 0))
              /\ UNCHANGED <<MDMap, code, next>>
  /\ UNCHANGED <<phase, order, defs, FileMap, MacroDefMap, SPIRVCUMap, producers>> /\ Unread

\* transDbgMacros
DefineMacro ==
  /\ Pending /\ Head(Top.todo).how \in {"define", "undef"}
  /\ LET x == Head(Top.todo).to
         n == [Node(x) EXCEPT !.file = PathOf(@)]
         def == IF n.name \in DOMAIN MacroDefMap THEN MacroDefMap[n.name] ELSE NoneId
     IN  /\ Emit(next, IF n.tag = "define" THEN transDbgMacroDefine(s, n)
                                           ELSE transDbgMacroUndef(s, n, def))
         /\ MDMap' = (x :> next) @@ MDMap
         /\ MacroDefMap' = IF n.tag = "define" THEN (n.name :> next) @@ MacroDefMap ELSE MacroDefMap
  /\ order' = Append(order, next) /\ next' = next + 1
  /\ stack' = Deliver(stack, Ent(next))
  /\ UNCHANGED <<phase, defs, FileMap, SPIRVCUMap, producers>> /\ Unread

\* The instruction of a node that is made in one go.
transDbgEntryImpl(f) ==
  LET n == Node(f.n)
      scopeTag == IF n.scope = Null THEN "" ELSE Node(n.scope).tag
  IN
  CASE n.tag = "base" -> transDbgBaseType(s, n)
    [] n.tag \in Pointers -> transDbgPointerType(s, n, f.got)
    [] n.tag \in Qualifiers -> transDbgQualifiedType(s, n, f.got)
    [] n.tag = "array" ->
         IF s # "Shader200" THEN transDbgArrayTypeOpenCL(s, n, f.got, Ranges(n))
         ELSE IF isFortranArrayDynamic(n) THEN transDbgArrayTypeDynamic(n, f.got, f.lst)
         ELSE transDbgArrayTypeNonSemantic(s, n, f.got, f.lst, Ranges(n))
    [] n.tag = "subrange" -> transDbgSubrangeType(s, n, f.got)
    [] n.tag = "string" -> transDbgStringType(s, n, f.got)
    [] n.tag = "typedef" -> transDbgTypeDef(s, n, f.got)
    [] n.tag = "subroutine" -> transDbgSubroutineType(s, n, f.got, f.lst)
    [] n.tag = "enum" -> transDbgEnumType(s, n, f.got)
    [] n.tag = "member" -> IF isNonSemanticDebugInfo(s)
                           THEN transDbgMemberTypeNonSemantic(s, n, f.got, scopeTag)
                           ELSE transDbgMemberTypeOpenCL(s, n, f.got, scopeTag)
    [] n.tag = "inheritance" -> transDbgInheritance(s, n, f.got)
    [] n.tag = "ptrtomember" -> transDbgPtrToMember(s, n, f.got)
    [] n.tag = "tparam" -> transDbgTemplateParameter(s, n, f.got)
    [] n.tag = "ttparam" -> transDbgTemplateTemplateParameter(s, n)
    [] n.tag = "tpack" -> transDbgTemplateParameterPack(s, n, f.lst)
    [] n.tag = "globalvar" -> transDbgGlobalVariable(s, n, f.got)
    [] n.tag \in {"block", "blockfile", "namespace"} -> transDbgScope(s, n, f.got)
    [] n.tag = "localvar" -> transDbgLocalVariable(s, n, f.got)
    [] n.tag = "location" -> transDbgInlinedAt(s, n, f.got)
    [] n.tag = "imported" -> transDbgImportedEntry(s, n, f.got)
    [] n.tag = "module" -> transDbgModule(s, n, f.got)
    [] n.tag = "expr" -> transDbgExpression(s, n)

\* The end of transDbgEntry: a node that got into MDMap meanwhile keeps the
\* instruction it has there, and the one just made is dead.
Cached(f, id) == IF f.how = "direct" \/ f.n \in DOMAIN MDMap THEN MDMap ELSE (f.n :> id) @@ MDMap
Result(f, id) == Ent(IF f.how # "direct" /\ f.n \in DOMAIN MDMap THEN MDMap[f.n] ELSE id)
Return(id) == /\ stack' = Deliver(Below, Result(Top, id))
              /\ MDMap' = Cached(Top, id)

EmitEntry ==
  /\ Ready("refs") /\ Node(Top.n).tag \notin Composites \cup {"cu", "subprogram"}
  /\ Node(Top.n).tag = "expr" => Translatable(s, Node(Top.n), mod.extra)
  /\ Emit(next, transDbgEntryImpl(Top))
  /\ order' = Append(order, next) /\ next' = next + 1
  /\ Return(next)
  /\ UNCHANGED <<phase, defs, FileMap, MacroDefMap, SPIRVCUMap, producers>> /\ Unread

\* report_fatal_error("unsupported opcode found in DIExpression")
RejectExpression ==
  /\ Ready("refs") /\ Node(Top.n).tag = "expr" /\ ~Translatable(s, Node(Top.n), mod.extra)
  /\ phase' = "rejected"
  /\ UNCHANGED wvars /\ Unread

\* The first unit also writes the build identifier and the storage path.
EmitCompileUnit ==
  /\ Ready("refs") /\ Node(Top.n).tag = "cu"
  /\ LET n == Node(Top.n)
         first == isNonSemanticDebugInfo(s) /\ DOMAIN SPIRVCUMap = {}
         id == IF first THEN next + 2 ELSE next
     IN  /\ code' = (id :> transDbgCompileUnit(s, n, Top.got))
                    @@ (IF first THEN (next :> Inst("BuildIdentifier", <<Str(n.storage[1]), Cst(1)>>))
                                      @@ (next + 1 :> Inst("StoragePath", <<Str(n.storage[2])>>))
                                 ELSE <<>>)
                    @@ code
         /\ order' = order \o (IF first THEN <<next, next + 1>> ELSE <<>>) \o <<id>>
         /\ next' = id + 1
         /\ SPIRVCUMap' = (Top.n :> id) @@ SPIRVCUMap
         /\ producers' = IF isNonSemanticDebugInfo(s) THEN producers ELSE Append(producers, n.producer)
         /\ Return(id)
  /\ UNCHANGED <<phase, defs, FileMap, MacroDefMap>> /\ Unread

\* A composite type takes the id of its forward entry, or its TypeTemplate does.
EmitComposite ==
  /\ Ready("refs") /\ Node(Top.n).tag \in Composites
  /\ LET n == Node(Top.n)
         inst == transDbgCompositeType(s, n, Top.got, Top.lst)
     IN  IF n.tparams = <<>>
         THEN /\ Emit(Top.id, inst)
              /\ order' = Append(order, Top.id)
              /\ Return(Top.id)
              /\ UNCHANGED next
         ELSE /\ Emit(next, inst)
              /\ order' = Append(order, next) /\ next' = next + 1
              /\ stack' = Append(Below, [Top EXCEPT !.stage = "tparams", !.lst = <<>>,
                                                    !.got = [Comp |-> next],
                                                    !.todo = List("entry", n.tparams)])
              /\ UNCHANGED MDMap
  /\ UNCHANGED <<phase, defs, FileMap, MacroDefMap, SPIRVCUMap, producers>> /\ Unread

EmitCompositeTemplate ==
  /\ Ready("tparams") /\ Node(Top.n).tag \in Composites
  /\ Emit(Top.id, transDbgTemplateParams(Top.got.Comp, Top.lst))
  /\ order' = Append(order, Top.id)
  /\ Return(Top.id)
  /\ UNCHANGED <<phase, defs, next, FileMap, MacroDefMap, SPIRVCUMap, producers>> /\ Unread

\* A definition is in MDMap before its retained nodes are translated.
CachedEarly(x, id) == IF Node(x).def THEN MDMap @@ (x :> id) ELSE MDMap
EmitFunction ==
  /\ Ready("refs") /\ Node(Top.n).tag = "subprogram"
  /\ LET n == Node(Top.n)
         scopeTag == IF n.scope = Null THEN "" ELSE Node(n.scope).tag
     IN  /\ Emit(next, transDbgFunction(s, n, Top.got, scopeTag))
         /\ MDMap' = CachedEarly(Top.n, next)
         /\ stack' = Append(Below, [Top EXCEPT !.stage = "retained", !.id = next,
                                               !.todo = IF n.def THEN List("entry", n.retained)
                                                                 ELSE <<>>])
  /\ order' = Append(order, next) /\ next' = next + 1
  /\ UNCHANGED <<phase, defs, FileMap, MacroDefMap, SPIRVCUMap, producers>> /\ Unread

FunctionTemplate ==
  /\ Ready("retained")
  /\ stack' = Append(Below, [Top EXCEPT !.stage = "tparams", !.lst = <<>>,
                                        !.todo = List("entry", Node(Top.n).tparams)])
  /\ UNCHANGED <<phase, code, order, defs, next, MDMap, FileMap, MacroDefMap, SPIRVCUMap, producers>>
  /\ Unread

\* Template parameters, entry point and definition of the function.
CloseFunction ==
  /\ Ready("tparams") /\ Node(Top.n).tag = "subprogram"
  /\ LET n == Node(Top.n)
         unit == IF n.unit = Null THEN CHOOSE u \in DOMAIN SPIRVCUMap : TRUE ELSE n.unit
         templ == IF n.tparams = <<>> THEN <<>> ELSE <<transDbgTemplateParams(Top.id, Top.lst)>>
         fid == IF templ = <<>> THEN Top.id ELSE next
         cu == IF n.unit = Null THEN [producer |-> "", flags |-> ""] ELSE Node(unit)
         entry == IF isNonSemanticDebugInfo(s) /\ (n.main \/ (n.def /\ n.kernel))
                  THEN <<transDbgEntryPoint(fid, cu, SPIRVCUMap[unit])>> ELSE <<>>
         def == IF isNonSemanticDebugInfo(s) /\ n.def /\ n.fn # Null
                THEN <<transDbgFuncDefinition(n.fn, fid)>> ELSE <<>>
         made == templ \o entry \o def
     IN  /\ code' = [k \in next .. next + Len(made) - 1 |-> made[k - next + 1]] @@ code
         /\ order' = order \o [k \in 1 .. Len(templ \o entry) |-> next + k - 1]
         /\ defs' = defs \o (IF def = <<>> THEN <<>> ELSE <<next + Len(made) - 1>>)
         /\ next' = next + Len(made)
         /\ Return(fid)
  /\ UNCHANGED <<phase, FileMap, MacroDefMap, SPIRVCUMap, producers>> /\ Unread

-----------------------------------------------------------------------------
(* The reader.                                                             *)

RTop == rstack[Len(rstack)]
RBelow == SubSeq(rstack, 1, Len(rstack) - 1)
RPending == phase = "read" /\ RTop.todo # <<>>
RReady(stage) == phase = "read" /\ Len(rstack) > 1 /\ RTop.todo = <<>> /\ RTop.stage = stage
Unwritten == UNCHANGED <<mod, wvars>>

RFrame(id, how) ==
  [id |-> id, how |-> how, todo |-> rRefs(s, code, id), got |-> <<>>, lst |-> <<>>, stage |-> "refs"]

\* SPIRVToLLVM::translate: entry points, units, then everything; a
\* FunctionDefinition stands in its function, behind all of them.
OfOp(op) == SelectSeq(order, LAMBDA i : code[i].op = op)
Visits(ids) == [k \in DOMAIN ids |-> Q("", "inst", Ent(ids[k]))]
StartReading ==
  /\ phase = "write" /\ Len(stack) = 1 /\ Top.todo = <<>>
  /\ phase' = "read"
  /\ rstack' = <<[id |-> 0, how |-> "", got |-> <<>>, lst |-> <<>>, stage |-> "root",
                  todo |-> Visits(OfOp("EntryPoint")) \o Visits(OfOp("CompilationUnit"))
                           \o Visits(order) \o Visits(defs)]>>
  /\ UNCHANGED <<mod, wvars, DebugInstCache, objs, files, BuilderMap, attached>>

\* Instructions that make nothing of their own; a member of the NonSemantic
\* sets makes nothing until its composite type asks for it.
MakesNothing(i) ==
  i.op \in {"DebugInfoNone", "Source", "BuildIdentifier", "StoragePath"}
     \cup (IF isNonSemanticDebugInfo(s) THEN {"TypeMember", "TypeInheritance"} ELSE {})

Follow(o) == IF o[1] # "ent" THEN {Stray}
             ELSE IF o[2] \in DOMAIN DebugInstCache THEN {DebugInstCache[o[2]]} ELSE {}
rImmediate(q) ==
  LET o == q.op
  IN  CASE q.how = "type" /\ o = VoidTy -> {NullObj}
        [] q.how = "nonnull" /\ IsNone(code, o) -> {Unspecified}
        [] q.how = "entity" /\ ~IsEntity(code, o) -> {NullObj}
        [] q.how = "bound" /\ ~IsEntity(code, o) ->
             {IF IsNone(code, o) THEN NullObj ELSE NumberAt(o)}
        [] q.how \in {"file", "path", "member", "main"} \/ (q.how = "scope" /\ o[1] = "str") -> {}
        [] OTHER -> Follow(o)

FindObject ==
  /\ RPending
  /\ \E o \in rImmediate(Head(RTop.todo)) : rstack' = Deliver(rstack, o)
  /\ UNCHANGED <<phase, DebugInstCache, objs, files, BuilderMap, attached>> /\ Unwritten

\* getDIFile: the first to name a path decides what is known of the file.
ReadFile ==
  /\ RPending
  /\ LET q == Head(RTop.todo)
         f == IF q.how = "file" THEN getFile(s, code, q.op)
              ELSE [path |-> StringOf(q.op), checksum |-> Null, text |-> Null]
     IN  /\ q.how \in {"file", "path"} \/ (q.how = "scope" /\ q.op[1] = "str")
         /\ files' = files @@ (f.path :> f)
         /\ rstack' = Deliver(rstack, FileObj(f.path))
  /\ UNCHANGED <<phase, DebugInstCache, objs, BuilderMap, attached>> /\ Unwritten

ToDescend(q) == q.how \notin {"file", "path"} /\ q.op[1] = "ent" /\ rImmediate(q) = {}

SkipInst ==
  /\ RPending /\ ToDescend(Head(RTop.todo))
  /\ LET q == Head(RTop.todo)
     IN  /\ q.how # "member" /\ MakesNothing(code[q.op[2]])
         /\ DebugInstCache' = (q.op[2] :> NullObj) @@ DebugInstCache
         /\ rstack' = Deliver(rstack, NullObj)
  /\ UNCHANGED <<phase, objs, files, BuilderMap, attached>> /\ Unwritten

\* transDebugInstImpl is entered; its asserts on operand counts stop a
\* checked build.
EnterInst ==
  /\ RPending /\ ToDescend(Head(RTop.todo))
  /\ LET q == Head(RTop.todo)
         id == q.op[2]
         op == IF q.how = "main" THEN "Function" ELSE code[id].op
     IN  /\ q.how = "member" \/ ~MakesNothing(code[id])
         /\ IF Counted(s, [code[id] EXCEPT !.op = op])
            THEN rstack' = Append(rstack, RFrame(id, q.how)) /\ UNCHANGED phase
            ELSE phase' = "stopped" /\ UNCHANGED rstack
  /\ UNCHANGED <<DebugInstCache, objs, files, BuilderMap, attached>> /\ Unwritten

-----------------------------------------------------------------------------
\* getDIBuilder: the unit whose builder makes the object; any unit when the
\* way up the scopes is not known.
\* Mutant: an imported entity does not know its scope.
ParentOperandOfTypes(i) == IF i.op = "CompilationUnit" THEN <<Opt(s, i, "Source")>> ELSE <<>>
ParentOperand(i) ==
  CASE i.op \in {"Typedef", "TypeEnum", "TypeComposite", "TypeInheritance", "TypePtrToMember",
                 "Function", "LexicalBlock", "LexicalBlockDiscriminator", "LocalVariable",
                 "ImportedEntity", "Module"} -> <<Opt(s, i, "Parent")>>
    [] i.op = "EntryPoint" -> <<Opt(s, i, "CompilationUnit")>>
    [] i.op = "InlinedAt" -> <<Opt(s, i, "Scope")>>
    [] OTHER -> <<>>

RECURSIVE getDIBuilder(_)
getDIBuilder(id) ==
  IF Cardinality(BuilderMap) = 1 THEN BuilderMap
  ELSE IF code[id].op = "CompilationUnit" THEN {id}
  ELSE LET p == ParentOperand(code[id])
       IN  IF p = <<>> THEN BuilderMap
           ELSE IF p[1][1] # "ent" THEN {Garbage} ELSE getDIBuilder(p[1][2])

\* transFunctionBody, and the variable a GlobalVariable names: the first
\* description of a function or variable stays attached.
Attach(o, id) == IF o[1] \in {"fun", "var"} THEN attached @@ (o :> id) ELSE attached

\* How the object of an instruction is made, once what it refers to is there.
transDebugInstImpl(f) ==
  LET i == code[f.id]
      r == f.got
      scope == IF isNonSemanticDebugInfo(s) THEN RBelow[Len(RBelow)].got.Self ELSE r.Scope
  IN
  CASE i.op = "TypeBasic" -> transTypeBasic(s, i)
    [] i.op = "TypeQualifier" -> transTypeQualifier(s, i, r)
    [] i.op = "TypePointer" -> transTypePointer(s, i, r)
    [] i.op = "TypeArray" -> IF s = "Shader200"
                             THEN transTypeArrayNonSemantic(r, [k \in DOMAIN f.lst |-> objs[f.lst[k][2]]])
                             ELSE transTypeArrayOpenCL(s, code, i, r)
    [] i.op = "TypeArrayDynamic" ->
         transTypeArrayDynamic(r, [k \in DOMAIN f.lst |-> objs[f.lst[k][2]]])
    [] i.op = "TypeVector" -> transTypeVector(s, i, r)
    [] i.op = "TypeSubrange" -> transTypeSubrange(i, r)
    [] i.op = "TypeString" -> transTypeString(s, code, i, r)
    [] i.op = "TypeMember" -> transTypeMember(s, i, r, scope)
    [] i.op = "TypeInheritance" -> transTypeInheritance(s, i, r, scope)
    [] i.op = "TypeEnum" -> transTypeEnum(s, i, r)
    [] i.op = "TypeFunction" -> transTypeFunction(s, i, r, f.lst)
    [] i.op = "TypePtrToMember" -> transTypePtrToMember(r)
    [] i.op = "LexicalBlock" -> transLexicalBlock(s, i, r)
    [] i.op = "LexicalBlockDiscriminator" -> transLexicalBlockDiscriminator(s, i, r)
    [] i.op = "FunctionDeclaration" -> transFunctionDecl(s, i, r)
    [] i.op = "GlobalVariable" -> transGlobalVariable(s, i, r)
    [] i.op = "LocalVariable" -> transLocalVariable(s, i, r)
    [] i.op = "Typedef" -> transTypedef(s, i, r)
    [] i.op = "TypeTemplateParameter" -> transTypeTemplateParameter(s, code, i, r)
    [] i.op = "TypeTemplateTemplateParameter" -> transTypeTemplateTemplateParameter(s, i)
    [] i.op = "TypeTemplateParameterPack" -> transTypeTemplateParameterPack(s, i, f.lst)
    [] i.op = "ImportedEntity" -> transImportedEntry(s, i, r)
    [] i.op = "Module" -> transModule(s, i, r)
    [] i.op = "MacroDef" -> transMacroDef(s, i, r)
    [] i.op = "Expression" -> transExpression(s, i)
    [] i.op = "InlinedAt" -> transDebugInlined(s, i, r)

MadeLater == {"CompilationUnit", "TypeComposite", "Function", "TypeTemplate", "EntryPoint",
              "FunctionDefinition", "MacroUndef"}
Made(o, unit) == o @@ [builder |-> unit]
rReturn(o) == rstack' = Deliver(RBelow, o)

MakeObject ==
  /\ RReady("refs") /\ code[RTop.id].op \notin MadeLater
  /\ LET i == code[RTop.id]
         v == IF i.op = "GlobalVariable" THEN Opt(s, i, "Variable") ELSE None
     IN  \E u \in getDIBuilder(RTop.id) :
           /\ objs' = (RTop.id :> Made(transDebugInstImpl(RTop), u)) @@ objs
           /\ attached' = Attach(v, RTop.id)
  /\ DebugInstCache' = (RTop.id :> Obj(RTop.id)) @@ DebugInstCache
  /\ rReturn(Obj(RTop.id))
  /\ UNCHANGED <<phase, files, BuilderMap>> /\ Unwritten

\* transMacroUndef: without the definition there is nothing to undefine.
MakeUndef ==
  /\ RReady("refs") /\ code[RTop.id].op = "MacroUndef"
  /\ IF RTop.got.Macro = NullObj
     THEN /\ DebugInstCache' = (RTop.id :> NullObj) @@ DebugInstCache
          /\ rReturn(NullObj) /\ UNCHANGED objs
     ELSE /\ \E u \in getDIBuilder(RTop.id) :
               objs' = (RTop.id :> Made(transMacroUndef(s, code[RTop.id], RTop.got,
                                                        objs[RTop.got.Macro[2]]), u)) @@ objs
          /\ DebugInstCache' = (RTop.id :> Obj(RTop.id)) @@ DebugInstCache
          /\ rReturn(Obj(RTop.id))
  /\ UNCHANGED <<phase, files, BuilderMap, attached>> /\ Unwritten

StorageOf ==
  LET b == OfOp("BuildIdentifier") p == OfOp("StoragePath")
  IN  IF b = <<>> THEN <<0, "">> ELSE <<code[b[1]].args[1][2], code[p[1]].args[1][2]>>
findModuleProducer == IF producers = <<>> THEN "spirv" ELSE Head(producers)

\* transCompilationUnit does nothing for a unit that has its builder, which
\* an entry point may have asked for.
MakeUnit ==
  /\ RReady("refs") /\ code[RTop.id].op = "CompilationUnit"
  /\ BuilderMap' = BuilderMap \cup {RTop.id}
  /\ LET ep == RBelow[Len(RBelow)].id
         byEntry == RTop.how = "unit"
         ofEntry(name) == IF byEntry THEN StringOf(Opt(s, code[ep], name)) ELSE ""
     IN  objs' = IF RTop.id \in BuilderMap THEN objs
                 ELSE (RTop.id :> transCompilationUnit(s, code[RTop.id], RTop.got,
                                    ofEntry("CompilerSignature"), ofEntry("CommandLineArgs"),
                                    findModuleProducer, StorageOf)) @@ objs
  /\ DebugInstCache' = (RTop.id :> Obj(RTop.id)) @@ DebugInstCache
  /\ rReturn(Obj(RTop.id))
  /\ UNCHANGED <<phase, files, attached>> /\ Unwritten

\* transEntryPoint: the unit, then the function, whether or not it is cached.
EntryPointUnit ==
  /\ RReady("refs") /\ code[RTop.id].op = "EntryPoint"
  /\ rstack' = Append(RBelow, [RTop EXCEPT !.stage = "entry",
                   !.todo = <<Q("Unit", "unit", Opt(s, code[RTop.id], "CompilationUnit")),
                              Q("Main", "main", Opt(s, code[RTop.id], "EntryPoint"))>>])
  /\ UNCHANGED <<phase, DebugInstCache, objs, files, BuilderMap, attached>> /\ Unwritten

EntryPointDone ==
  /\ RReady("entry")
  /\ DebugInstCache' = (RTop.id :> RTop.got.Main) @@ DebugInstCache
  /\ rReturn(RTop.got.Main)
  /\ UNCHANGED <<phase, objs, files, BuilderMap, attached>> /\ Unwritten

\* In cache before its members, and before its template parameters.
MakeComposite ==
  /\ RReady("refs") /\ code[RTop.id].op = "TypeComposite"
  /\ \E u \in getDIBuilder(RTop.id) :
       objs' = (RTop.id :> Made(transTypeComposite(s, code[RTop.id], RTop.got), u)) @@ objs
  /\ DebugInstCache' = (RTop.id :> Obj(RTop.id)) @@ DebugInstCache
  /\ LET e == From(s, code[RTop.id], "FirstMember")
         how(o) == IF OpOf(code, o) \in {"TypeMember", "TypeInheritance"} THEN "member" ELSE "inst"
     IN  rstack' = Append(RBelow, [RTop EXCEPT !.stage = "elements", !.got = [Self |-> Obj(RTop.id)],
                                     !.todo = [k \in DOMAIN e |-> Q("", how(e[k]), e[k])]])
  /\ UNCHANGED <<phase, files, BuilderMap, attached>> /\ Unwritten

CloseComposite ==
  /\ RReady("elements")
  /\ objs' = [objs EXCEPT ![RTop.id].elements = RTop.lst]
  /\ rReturn(Obj(RTop.id))
  /\ UNCHANGED <<phase, DebugInstCache, files, BuilderMap, attached>> /\ Unwritten

MakeFunction ==
  /\ RReady("refs") /\ code[RTop.id].op = "Function"
  /\ LET i == code[RTop.id]
         ocl == ~isNonSemanticDebugInfo(s)
         fn == IF ocl THEN Opt(s, i, "FunctionId") ELSE None
         main == RTop.how = "main" \/ (fn[1] = "fun" /\ fn[2] \in mod.kernels)
     IN  /\ \E u \in getDIBuilder(RTop.id) :
              objs' = (RTop.id :> Made(transFunction(s, i, RTop.got, main), u)) @@ objs
         /\ attached' = Attach(fn, RTop.id)
  /\ DebugInstCache' = (RTop.id :> Obj(RTop.id)) @@ DebugInstCache
  /\ rReturn(Obj(RTop.id))
  /\ UNCHANGED <<phase, files, BuilderMap>> /\ Unwritten

\* transFunctionDefinition
DefineFunction ==
  /\ RReady("refs") /\ code[RTop.id].op = "FunctionDefinition"
  /\ LET fn == Opt(s, code[RTop.id], "Function")[2]
     IN  attached' = Attach(Opt(s, code[RTop.id], "Definition"), DebugInstCache[fn][2])
  /\ DebugInstCache' = (RTop.id :> NullObj) @@ DebugInstCache
  /\ rReturn(NullObj)
  /\ UNCHANGED <<phase, objs, files, BuilderMap>> /\ Unwritten

\* transTypeTemplate changes the object of its target and stands for it.
AddTemplate ==
  /\ RReady("refs") /\ code[RTop.id].op = "TypeTemplate"
  /\ objs' = [objs EXCEPT ![RTop.got.Target[2]].tparams = RTop.lst]
  /\ DebugInstCache' = (RTop.id :> RTop.got.Target) @@ DebugInstCache
  /\ rReturn(RTop.got.Target)
  /\ UNCHANGED <<phase, files, BuilderMap, attached>> /\ Unwritten

Finished ==
  /\ phase = "read" /\ Len(rstack) = 1 /\ RTop.todo = <<>>
  /\ phase' = "done"
  /\ UNCHANGED rvars /\ Unwritten

-----------------------------------------------------------------------------
Init ==
  /\ mod \in Modules
  /\ phase = "write"
  /\ code = (NoneId :> Inst("DebugInfoNone", <<>>)) /\ order = <<NoneId>> /\ defs = <<>>
  /\ next = NoneId + 1
  /\ MDMap = <<>> /\ FileMap = <<>> /\ MacroDefMap = <<>> /\ SPIRVCUMap = <<>> /\ producers = <<>>
  /\ stack = <<[n |-> Null, how |-> "", todo |-> transDebugMetadata(mod), got |-> <<>>, lst |-> <<>>,
                stage |-> "root", id |-> 0]>>
  /\ DebugInstCache = <<>> /\ objs = <<>> /\ files = <<>> /\ BuilderMap = {} /\ attached = <<>>
  /\ rstack = <<>>

Write == \/ FindEntry \/ NewSource \/ Enter \/ DefineMacro \/ EmitEntry \/ RejectExpression
         \/ EmitCompileUnit
         \/ EmitComposite \/ EmitCompositeTemplate \/ EmitFunction \/ FunctionTemplate
         \/ CloseFunction
Read == \/ StartReading \/ FindObject \/ ReadFile \/ SkipInst \/ EnterInst \/ MakeObject
        \/ MakeUndef \/ MakeUnit \/ EntryPointUnit \/ EntryPointDone \/ MakeComposite
        \/ CloseComposite \/ MakeFunction \/ DefineFunction \/ AddTemplate \/ Finished
Stop == phase \in {"done", "stopped", "rejected"} /\ UNCHANGED vars
Next == Write \/ Read \/ Stop

Spec == Init /\ [][Next]_vars /\ WF_vars(Write \/ Read)
=============================================================================
