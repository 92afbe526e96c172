------------------------- MODULE MCTopologicalSort -------------------------
(***************************************************************************)
(* Small dependency graphs of valid SPIR-V modules with four entries.      *)
(***************************************************************************)
EXTENDS TopologicalSort

TypeKinds == {"typeInt", "pointer", "type"}
ValueKinds == {"constInt", "const", "variable"}

(***************************************************************************)
(* Kinds an operand may have.  A non-integer type refers to types and, for *)
(* an array's length, an integer constant.                                 *)
(***************************************************************************)
OperandKinds(k) ==
  CASE k = "typeInt"  -> {}
    [] k = "pointer"  -> TypeKinds
    [] k = "type"     -> TypeKinds \cup {"constInt"}
    [] k = "constInt" -> {"constInt"}
    [] OTHER          -> ValueKinds

OperandLists(kind, e) ==
  LET legal == {x \in Entries \ {e} : kind[x] \in OperandKinds(kind[e])}
  IN  {<<>>} \cup {<<x>> : x \in legal}
      \cup (IF kind[e] = "type"
              THEN {xy \in legal \X legal : xy[1] # xy[2]} ELSE {})

(***************************************************************************)
(* Only a non-integer type (a struct) may use a pointer declared later, so *)
(* the other dependencies have an order.                                   *)
(***************************************************************************)
HardOperands(g, e) ==
  {x \in {g.ops[e][k] : k \in 1 .. Len(g.ops[e])} :
      ~(g.kind[e] = "type" /\ g.kind[x] = "pointer")}

Placeable(g, placed) == {e \in Entries : HardOperands(g, e) \subseteq placed}

Legal(g) ==
  Placeable(g, Placeable(g, Placeable(g, Placeable(g, {})))) = Entries

GraphsOver(kinds) ==
  UNION { {g \in {[kind |-> k, ops |-> <<a, b, c, d>>] :
                     a \in OperandLists(k, 1),
                     b \in OperandLists(k, 2),
                     c \in OperandLists(k, 3),
                     d \in OperandLists(k, 4)} : Legal(g)}
          : k \in kinds }

KindVectors(S) == [Entries -> S]

(* Two structs (or array, function types) and two pointers in any id order. *)
MutualRecursion ==
  GraphsOver({k \in KindVectors({"pointer", "type"}) :
                 \E e, f \in Entries : e # f /\ {x \in Entries : k[x] = "pointer"} = {e, f}})

(* Every kind, next to one integer type. *)
MixedEntries ==
  GraphsOver({k \in KindVectors(Kinds) :
                 \A x \in Entries : (k[x] = "typeInt") <=> (x = 4)})

AllGraphs == MutualRecursion \cup MixedEntries
=============================================================================
