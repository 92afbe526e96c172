---------------------------- MODULE DebugPromise ----------------------------
(***************************************************************************)
(* What a round trip of debug metadata keeps, said of the metadata alone,  *)
(* and the properties of the two translators.                              *)
(***************************************************************************)
EXTENDS DebugEntities

\* The object a node became.
ObjectOf(x) == IF x = Null THEN NullObj ELSE DebugInstCache[MDMap[x]]
ObjectsOf(xs) == [k \in DOMAIN xs |-> ObjectOf(xs[k])]
UnitObjects == {Obj(SPIRVCUMap[u]) : u \in DOMAIN SPIRVCUMap}
\* A type that is missing is replaced by an unspecified one where LLVM wants one.
TypeOf(x) == IF x = Null \/ ~Emitted(s, Node(x), mod.debugModule) THEN Unspecified ELSE ObjectOf(x)
FileOf(n) == FileObj(PathOf(n.file))
BoundOf(b) == IF b = Null THEN NullObj ELSE IF IsNumber(b) THEN <<"num", b[1]>> ELSE ObjectOf(b[2])

\* The scope given, or some unit where the instruction has to name one.
InScope(scope, o) ==
  IF scope = Null THEN o.scope \in UnitObjects
  ELSE IF Node(scope).tag = "file" THEN o.scope = FileObj(Node(scope).path)
  ELSE o.scope = ObjectOf(scope)

Keeps(o, rec) == \A f \in DOMAIN rec : o[f] = rec[f]

UnitKept(n, o) ==
  LET entered == \E i \in DOMAIN code : code[i].op = "EntryPoint" /\ code[i].args[3][2] = n.producer
  IN  Keeps(o,
        [ file |-> FileOf(n),
          lang |-> IF s = "Shader200" /\ n.lang \in OwnNumber THEN n.lang
                   ELSE IF s # "Shader200" /\ n.lang \in {"CPP17", "CPP14", "CPP"} THEN "CPP17"
                   ELSE "OpenCL",
          producer |-> IF s = "Shader100" /\ ~entered THEN "" ELSE n.producer,
          flags |-> IF isNonSemanticDebugInfo(s) /\ entered THEN n.flags ELSE "",
          storage |-> IF isNonSemanticDebugInfo(s) THEN n.storage ELSE <<0, "">> ])

ArrayKept(n, o) ==
  /\ o.base = TypeOf(n.base) /\ o.vector = n.vector
  /\ Len(o.dims) = Len(n.elements)
  /\ \A k \in DOMAIN n.elements :
       LET sr == Node(n.elements[k])
       IN  /\ n.vector \/ o.dims[k].lower = BoundOf(sr.lower)
           /\ o.dims[k].count = BoundOf(sr.count)
           /\ n.vector \/ o.dims[k].upper = BoundOf(sr.upper)
  \* dataLocation and the others go to instructions of their own kind
  /\ \A k \in 1 .. 4 : (s = "Shader200" /\ n[DynamicParts[k]] # Null) => o[DynamicParts[k]] \notin {NullObj, Stray}

TypeKept(n, o) ==
  CASE n.tag = "base" ->
         Keeps(o, [tag |-> "base", name |-> n.name, enc |-> EncodingTag(s, n.enc),
                   size |-> IF EncodingTag(s, n.enc) = "Unspecified" THEN 0 ELSE n.size])
    [] n.tag \in Pointers ->
         Keeps(o, [tag |-> n.tag, base |-> ObjectOf(n.base), as |-> n.as])
    [] n.tag \in Qualifiers -> Keeps(o, [tag |-> n.tag, base |-> ObjectOf(n.base)])
    [] n.tag = "array" -> ArrayKept(n, o)
    [] n.tag = "subrange" ->
         Keeps(o, [lower |-> BoundOf(n.lower), upper |-> BoundOf(n.upper),
                   count |-> BoundOf(n.count), stride |-> BoundOf(n.stride)])
    [] n.tag = "string" -> Keeps(o, [name |-> n.name, size |-> n.size])
    [] n.tag = "typedef" -> Keeps(o, [name |-> n.name, base |-> ObjectOf(n.base), file |-> FileOf(n)])
                            /\ InScope(n.scope, o)
    [] n.tag = "subroutine" ->
         Keeps(o, [types |-> IF n.types = <<>> THEN <<NullObj>> ELSE ObjectsOf(n.types),
                   flags |-> n.flags \cap {"LValueReference", "RValueReference"}])
    [] n.tag = "enum" ->
         /\ Keeps(o, [name |-> n.name, file |-> FileOf(n), line |-> n.line, size |-> n.size,
                      enumerators |-> n.enumerators,
                      base |-> IF "FwdDecl" \in n.flags THEN NullObj ELSE ObjectOf(n.base)])
         /\ InScope(n.scope, o)
    [] n.tag = "ptrtomember" -> Keeps(o, [base |-> TypeOf(n.base), class |-> TypeOf(n.class)])

CompositeKept(n, o) ==
  CASE n.tag \in Composites ->
         /\ Keeps(o, [tag |-> n.tag, name |-> n.name, file |-> FileOf(n), line |-> n.line,
                      identifier |-> n.identifier, size |-> n.size,
                      elements |-> ObjectsOf(n.elements), tparams |-> ObjectsOf(n.tparams)])
         /\ InScope(n.scope, o)
    [] n.tag = "member" ->
         LET static == "StaticMember" \in n.flags
         IN  Keeps(o, [name |-> n.name, file |-> FileOf(n), line |-> n.line, base |-> TypeOf(n.base),
                       scope |-> ObjectOf(n.scope), offset |-> IF static THEN 0 ELSE n.offset,
                       size |-> IF static THEN 0 ELSE n.size, const |-> n.const])
             /\ (n.flags \cap Access # {} => o.flags \cap Access = n.flags \cap Access)
             /\ (static <=> "StaticMember" \in o.flags)
    [] n.tag = "inheritance" ->
         Keeps(o, [base |-> ObjectOf(n.base), scope |-> ObjectOf(n.scope), offset |-> n.offset,
                   flags |-> n.flags \cap Access])
    [] n.tag = "tparam" -> Keeps(o, [name |-> n.name, type |-> ObjectOf(n.type), isValue |-> n.isValue])
                           /\ (n.value # Null => o.value = n.value)
    [] n.tag = "ttparam" -> Keeps(o, [name |-> n.name, template |-> n.template])
    [] n.tag = "tpack" -> Keeps(o, [name |-> n.name, elements |-> ObjectsOf(n.elements)])

ScopeKept(n, o) ==
  CASE n.tag = "block" -> Keeps(o, [tag |-> "block", line |-> n.line, col |-> n.col, file |-> FileOf(n),
                                    scope |-> ObjectOf(n.scope)])
    [] n.tag = "blockfile" -> Keeps(o, [tag |-> "blockfile", disc |-> n.disc, file |-> FileOf(n),
                                        scope |-> ObjectOf(n.scope)])
    [] n.tag = "namespace" -> Keeps(o, [tag |-> "namespace", name |-> n.name]) /\ InScope(n.scope, o)
    [] n.tag = "location" -> Keeps(o, [line |-> n.line, scope |-> ObjectOf(n.scope),
                                       inlined |-> ObjectOf(n.inlined),
                                       col |-> IF s = "Shader200" THEN n.col ELSE 0])
    [] n.tag = "module" -> Keeps(o, [name |-> n.name, file |-> FileOf(n), line |-> n.line,
                                     macros |-> n.macros, include |-> n.include, notes |-> n.notes,
                                     decl |-> n.decl])
                           /\ InScope(n.scope, o)
    [] n.tag = "imported" -> Keeps(o, [kind |-> n.kind, file |-> FileOf(n), line |-> n.line,
                                       entity |-> IF Emitted(s, Node(n.entity), mod.debugModule)
                                                  THEN ObjectOf(n.entity) ELSE NullObj])
                             /\ InScope(n.scope, o)
    [] n.tag = "expr" -> o.ops = n.ops
    [] n.tag \in {"define", "undef"} ->
         Keeps(o, [tag |-> n.tag, file |-> FileOf(n), line |-> n.line, name |-> n.name, value |-> n.value])

ObjectKept(n, o) ==
  CASE n.tag = "subprogram" ->
         /\ Keeps(o, [name |-> n.name, type |-> ObjectOf(n.type), file |-> FileOf(n), line |-> n.line,
                      linkage |-> n.linkage, def |-> n.def, opt |-> n.opt, local |-> n.local,
                      tparams |-> ObjectsOf(n.tparams),
                      scopeLine |-> IF n.def THEN n.scopeLine ELSE 0,
                      decl |-> IF n.def THEN ObjectOf(n.decl) ELSE NullObj,
                      main |-> IF isNonSemanticDebugInfo(s) THEN n.main \/ n.kernel ELSE n.kernel])
         /\ IF IsLexical(n.scope) THEN InScope(n.scope, o) ELSE o.scope \in UnitObjects
         /\ (s = "Shader200" /\ n.decl = Null) => o.target = n.target
    [] n.tag = "globalvar" ->
         /\ Keeps(o, [name |-> n.name, type |-> TypeOf(n.type), file |-> FileOf(n), line |-> n.line,
                      linkage |-> n.linkage, def |-> n.def, local |-> n.local, decl |-> ObjectOf(n.decl)])
         /\ IF IsGlobalScope(n.scope) THEN InScope(n.scope, o) ELSE o.scope \in UnitObjects
         /\ (n.expr # Null /\ isNonSemanticDebugInfo(s) /\ n.var = Null) =>
               objs[o.expr[2]].ops = Node(n.expr).ops
    [] n.tag = "localvar" ->
         Keeps(o, [name |-> n.name, type |-> TypeOf(n.type), file |-> FileOf(n), line |-> n.line,
                   scope |-> ObjectOf(n.scope), arg |-> n.arg,
                   flags |-> n.flags \cap {"Artificial", "ObjectPointer"}])

Kept(n, o) ==
  CASE n.tag = "cu" -> UnitKept(n, o)
    [] n.tag \in {"base", "array", "subrange", "string", "typedef", "subroutine", "enum",
                  "ptrtomember"} \cup Pointers \cup Qualifiers -> TypeKept(n, o)
    [] n.tag \in Composites \cup {"member", "inheritance", "tparam", "ttparam", "tpack"} ->
         CompositeKept(n, o)
    [] n.tag \in {"subprogram", "globalvar", "localvar"} -> ObjectKept(n, o)
    [] OTHER -> ScopeKept(n, o)

-----------------------------------------------------------------------------
\* Types of the bookkeeping: ids are those handed out, the caches hold them.
TypeOK ==
  /\ phase \in {"write", "read", "done", "stopped", "rejected"}
  /\ DOMAIN code = 1 .. next - 1
  /\ \A x \in DOMAIN MDMap : MDMap[x] \in DOMAIN code
  /\ DOMAIN objs \subseteq DOMAIN code /\ BuilderMap \subseteq DOMAIN code

\* Once the writer is through, no forward entry is left, every instruction
\* is in DebugInstVec or a function once, and so is every instruction an
\* operand names (transDbgCompositeType, BM->replaceForward).  "Scheduling the
\* translation of subprograms ahead of scopes (lexical blocks) solves this
\* dependency cycle issue": no block is emitted twice.
WrittenOnce ==
  phase = "read" =>
    /\ \A i \in DOMAIN code : code[i].op # "Forward"
    /\ Len(order) + Len(defs) = Cardinality(DOMAIN code)
    /\ \A i \in DOMAIN code : \A k \in DOMAIN code[i].args :
         code[i].args[k][1] = "ent" => code[i].args[k][2] \in {order[j] : j \in DOMAIN order}
    /\ LET blocks == {x \in DOMAIN MDMap : Node(x).tag \in {"block", "blockfile", "namespace"}}
       IN  Cardinality({i \in DOMAIN code : code[i].op \in {"LexicalBlock", "LexicalBlockDiscriminator"}})
             = Cardinality(blocks)

\* The undefinition of a macro the module defines nowhere comes back as null:
\* transMacroUndef takes the name from the definition.
Undefinable(n) ==
  /\ n.tag = "undef"
  /\ \A k \in DOMAIN mod.macros : LET y == Node(mod.macros[k])
                                 IN  y.tag = "define" => y.name # n.name

\* Every node that was translated comes back as one object with what the
\* node said, referring to the objects of the nodes it referred to, and nothing
\* else comes back as null.  The first Source of a path says all that its set can
\* say of the file, and the reader's file map has it (getSource, getDIFile).
MetadataArrives ==
  phase = "done" =>
    /\ \A x \in DOMAIN MDMap :
         IF ObjectOf(x) = NullObj THEN Undefinable(Node(x))
         ELSE code[MDMap[x]].op # "DebugInfoNone" => Kept(Node(x), objs[ObjectOf(x)[2]])
    /\ \A x \in DOMAIN mod.nodes :
         (Node(x).tag = "file" /\ Node(x).path \in DOMAIN FileMap) =>
           Keeps(files[Node(x).path],
                 [ checksum |-> IF s = "Shader100" THEN Null ELSE Node(x).checksum,
                   text |-> IF s = "OpenCL100" THEN Null ELSE Node(x).text ])

Attached(what, x) == what \in DOMAIN attached /\ Obj(attached[what]) = ObjectOf(x)

\* A function and a global variable get the description that names them, and an
\* entity a unit imports is made by the builder of that unit again.
OwnersKept ==
  phase = "done" =>
    /\ \A x \in DOMAIN MDMap :
         /\ (Node(x).tag = "subprogram" /\ Node(x).def /\ Node(x).fn # Null) =>
              Attached(<<"fun", Node(x).fn>>, x)
         /\ (Node(x).tag = "globalvar" /\ Node(x).var # Null) =>
              Attached(<<"var", Node(x).var>>, x)
    /\ \A u \in DOMAIN SPIRVCUMap : \A k \in DOMAIN Node(u).imports :
         LET x == Node(u).imports[k]
         IN  Node(x).scope = u => objs[ObjectOf(x)[2]].builder = SPIRVCUMap[u]

\* Every module is written and read to the end, cycles included, or refused; no
\* assertion of SPIRVToLLVMDbgTran on a number of operands stops it.
TranslationEnds == <>(phase \in {"done", "rejected"})
=============================================================================
