--------------------------- MODULE MCLineTracking ---------------------------
(***************************************************************************)
(* Functions of four instructions with two scopes and two lines.           *)
(***************************************************************************)
EXTENDS LineTracking

(* What the location of an instruction that is skipped is does not matter. *)
FunctionsOver(kinds) ==
  {f \in [kind : [Insts -> kinds], loc : [Insts -> Locs], of : {[i \in Insts |-> 0]}] :
     /\ f.kind[N] \in Terminators
     /\ \A i \in Insts : f.kind[i] = "none" => f.loc[i] = NoLoc}

OrderedFunctions ==
  {f \in FunctionsOver({"op", "alloca", "none", "term", "loopterm"}) : InOrder(f)}

(* One block and one scope, a variable behind another instruction. *)
HoistingFunctions ==
  {f \in FunctionsOver({"op", "alloca", "term"}) :
     /\ \A i \in 1 .. 3 : f.kind[i] # "term"
     /\ \A i, j \in Insts : f.loc[i] # NoLoc /\ f.loc[i].scope = f.loc[j].scope}

MCFunctions == OrderedFunctions \cup HoistingFunctions
=============================================================================
