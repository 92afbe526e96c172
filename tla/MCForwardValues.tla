-------------------------- MODULE MCForwardValues --------------------------
(***************************************************************************)
(* Functions of three instructions, a parameter and a constant.            *)
(***************************************************************************)
EXTENDS ReadValues

(* Pairs of instructions and, for a phi, loops back to itself included. *)
OperandLists(k, i) ==
  CASE k = "inst"  -> {<<>>} \cup {<<v>> : v \in Values}
                      \cup {vw \in Insts \X Insts : vw[1] < vw[2]}
    [] k = "alias" -> {<<v>> : v \in Values \ {i}}
    [] k = "annot" -> {<<v>> : v \in (Insts \cup ArgValues) \ {i}}
    [] k = "drop"  -> {<<>>}

Yields(p) == {i \in Insts : p.kind[i] \in {"alias", "annot"}}

(* Every cycle of uses goes through an instruction of its own, a phi. *)
CyclesHavePhi(p) ==
  \A S \in SUBSET Yields(p) \ {{}} : \E i \in S : p.ops[i][1] \notin S

FunctionsOver(kinds) ==
  UNION { {p \in {[kind |-> k, ops |-> <<a, b, c>>] :
                     a \in OperandLists(k[1], 1),
                     b \in OperandLists(k[2], 2),
                     c \in OperandLists(k[3], 3)} : CyclesHavePhi(p)}
          : k \in kinds }

(* No forward is yielded: past that the code uses memory it has freed. *)
AllFunctions == {p \in FunctionsOver([Insts -> Kinds]) : YieldsFollow(p)}

=============================================================================
