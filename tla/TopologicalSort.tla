-------------------------- MODULE TopologicalSort --------------------------
(***************************************************************************)
(* The depth-first sort that orders the types, constants and global       *)
(* variables of a SPIR-V module when operator<< writes it                  *)
(* (lib/SPIRV/libSPIRV/SPIRVModule.cpp, class TopologicalSort).            *)
(*                                                                         *)
(* An entry is its id, a number of 1 .. N.  The recursion of visit() is    *)
(* made explicit: a stack of frames, one per active call, and the flag     *)
(* cyclic, which is TRUE just after a call returned true ("cyclic          *)
(* dependency detected").  The dependency graph is chosen once, in Init.   *)
(***************************************************************************)
EXTENDS Naturals, Sequences

CONSTANTS
  N,        \* number of entries collected for sorting
  Graphs    \* dependency graphs explored: records [kind, ops]

Entries == 1 .. N

(***************************************************************************)
(* What visit() distinguishes of an opcode: an integer type, a pointer     *)
(* type (typed or untyped), any other type, a constant of integer type,    *)
(* any other constant, and a global variable.                              *)
(***************************************************************************)
Kinds == {"typeInt", "pointer", "type", "constInt", "const", "variable"}

DFSState == {"Unvisited", "Discovered", "Visited"}

(***************************************************************************)
(* The four containers, written in this order by operator<<.               *)
(***************************************************************************)
Containers == {"TypeIntVec", "ConstIntVec", "TypeVec", "ConstAndVarVec"}

(* Mutant: integer constants among the other constants. *)
ContainerOfNoConstInt(k) ==
  CASE k = "typeInt"              -> "TypeIntVec"
    [] k \in {"pointer", "type"}  -> "TypeVec"
    [] OTHER                      -> "ConstAndVarVec"

ContainerOf(k) ==
  CASE k = "typeInt"              -> "TypeIntVec"
    [] k = "constInt"             -> "ConstIntVec"
    [] k \in {"pointer", "type"}  -> "TypeVec"
    [] OTHER                      -> "ConstAndVarVec"

GraphType == [kind : [Entries -> Kinds], ops : [Entries -> Seq(Entries)]]

ASSUME NAssumption == N \in Nat
ASSUME GraphsAssumption == Graphs \subseteq GraphType

VARIABLES
  graph,    \* the entries' kinds and non-literal operands (constant)
  next,     \* the constructor's iterator over EntryStateMap, in id order
  state,    \* EntryStateMap
  stack,    \* active calls of visit(), the innermost last
  cyclic,   \* the call that just returned, returned true
  fwd,      \* ids in ForwardPointerSet
  vec       \* the four containers

vars == <<graph, next, state, stack, cyclic, fwd, vec>>

Frame == [ent : Entries, idx : Nat \ {0}]

TypeOK ==
  /\ graph \in Graphs
  /\ next \in 1 .. (N + 1)
  /\ state \in [Entries -> DFSState]
  /\ stack \in Seq(Frame)
  /\ cyclic \in BOOLEAN
  /\ fwd \in SUBSET Entries
  /\ vec \in [Containers -> Seq(Entries)]

Init ==
  /\ graph \in Graphs
  /\ next = 1
  /\ state = [e \in Entries |-> "Unvisited"]
  /\ stack = <<>>
  /\ cyclic = FALSE
  /\ fwd = {}
  /\ vec = [c \in Containers |-> <<>>]

Top == stack[Len(stack)]
Pop(s) == SubSeq(s, 1, Len(s) - 1)
Operands(e) == graph.ops[e]
HasOperandLeft(f) == f.idx <= Len(Operands(f.ent))
CurrentOperand(f) == Operands(f.ent)[f.idx]

(***************************************************************************)
(* Return false from the innermost call: the caller, if there is one, goes *)
(* on with its next operand.                                               *)
(***************************************************************************)
ReturnFalse ==
  LET s == Pop(stack)
  IN  stack' = IF s = <<>> THEN s ELSE [s EXCEPT ![Len(s)].idx = @ + 1]

(* Mutant: a pointer declared in ForwardPointerSet is taken for emitted. *)
VisitRootSkipForward ==
  /\ stack = <<>>
  /\ ~cyclic
  /\ next \in Entries
  /\ next' = next + 1
  /\ IF state[next] = "Visited" \/ next \in fwd
       THEN UNCHANGED <<state, stack>>
       ELSE /\ state' = [state EXCEPT ![next] = "Discovered"]
            /\ stack' = <<[ent |-> next, idx |-> 1]>>
  /\ UNCHANGED <<graph, cyclic, fwd, vec>>

(***************************************************************************)
(* The constructor calls visit() on the next entry of EntryStateMap; a     *)
(* Visited one returns at once.                                            *)
(***************************************************************************)
VisitRoot ==
  /\ stack = <<>>
  /\ ~cyclic
  /\ next \in Entries
  /\ next' = next + 1
  /\ IF state[next] = "Visited"
       THEN UNCHANGED <<state, stack>>
       ELSE /\ state' = [state EXCEPT ![next] = "Discovered"]
            /\ stack' = <<[ent |-> next, idx |-> 1]>>
  /\ UNCHANGED <<graph, cyclic, fwd, vec>>

(* Mutant: an operand under way counts as done. *)
SkipDiscovered ==
  /\ stack # <<>>
  /\ ~cyclic
  /\ HasOperandLeft(Top)
  /\ state[CurrentOperand(Top)] # "Unvisited"
  /\ stack' = [stack EXCEPT ![Len(stack)].idx = @ + 1]
  /\ UNCHANGED <<graph, next, state, cyclic, fwd, vec>>

SkipVisited ==
  /\ stack # <<>>
  /\ ~cyclic
  /\ HasOperandLeft(Top)
  /\ state[CurrentOperand(Top)] = "Visited"
  /\ stack' = [stack EXCEPT ![Len(stack)].idx = @ + 1]
  /\ UNCHANGED <<graph, next, state, cyclic, fwd, vec>>

Descend ==
  /\ stack # <<>>
  /\ ~cyclic
  /\ HasOperandLeft(Top)
  /\ state[CurrentOperand(Top)] = "Unvisited"
  /\ state' = [state EXCEPT ![CurrentOperand(Top)] = "Discovered"]
  /\ stack' = Append(stack, [ent |-> CurrentOperand(Top), idx |-> 1])
  /\ UNCHANGED <<graph, next, cyclic, fwd, vec>>

(***************************************************************************)
(* visit(Op) returned true: either Op is on the stack already, or a deeper *)
(* call found the cycle and its entry could not break it.                  *)
(***************************************************************************)
OperandCyclic ==
  /\ stack # <<>>
  /\ cyclic \/ (HasOperandLeft(Top) /\ state[CurrentOperand(Top)] = "Discovered")

(* Mutant: the caller tries the same operand again. *)
BreakAndRetry ==
  /\ OperandCyclic
  /\ graph.kind[Top.ent] = "pointer"
  /\ state' = [state EXCEPT ![Top.ent] = "Unvisited"]
  /\ fwd' = fwd \cup {Top.ent}
  /\ cyclic' = FALSE
  /\ stack' = Pop(stack)
  /\ UNCHANGED <<graph, next, vec>>

BreakAtPointer ==
  /\ OperandCyclic
  /\ graph.kind[Top.ent] = "pointer"
  /\ state' = [state EXCEPT ![Top.ent] = "Unvisited"]
  /\ fwd' = fwd \cup {Top.ent}
  /\ cyclic' = FALSE
  /\ ReturnFalse
  /\ UNCHANGED <<graph, next, vec>>

PropagateCycle ==
  /\ OperandCyclic
  /\ graph.kind[Top.ent] # "pointer"
  /\ state' = [state EXCEPT ![Top.ent] = "Unvisited"]
  /\ cyclic' = TRUE
  /\ stack' = Pop(stack)
  /\ UNCHANGED <<graph, next, fwd, vec>>

(* Mutant: the entry is pushed but not marked Visited. *)
EmitUnmarked ==
  /\ stack # <<>>
  /\ ~cyclic
  /\ ~HasOperandLeft(Top)
  /\ vec' = [vec EXCEPT ![ContainerOf(graph.kind[Top.ent])] = Append(@, Top.ent)]
  /\ state' = [state EXCEPT ![Top.ent] = "Unvisited"]
  /\ ReturnFalse
  /\ UNCHANGED <<graph, next, cyclic, fwd>>

Emit ==
  /\ stack # <<>>
  /\ ~cyclic
  /\ ~HasOperandLeft(Top)
  /\ vec' = [vec EXCEPT ![ContainerOf(graph.kind[Top.ent])] = Append(@, Top.ent)]
  /\ state' = [state EXCEPT ![Top.ent] = "Visited"]
  /\ ReturnFalse
  /\ UNCHANGED <<graph, next, cyclic, fwd>>

Sorted == stack = <<>> /\ next = N + 1 /\ ~cyclic

(***************************************************************************)
(* The process reached llvm_unreachable("Cyclic dependency for types       *)
(* detected").                                                             *)
(***************************************************************************)
Unreachable == stack = <<>> /\ cyclic

Finished == (Sorted \/ Unreachable) /\ UNCHANGED vars

Next ==
  \/ VisitRoot
  \/ SkipVisited
  \/ Descend
  \/ BreakAtPointer
  \/ PropagateCycle
  \/ Emit
  \/ Finished

Spec == Init /\ [][Next]_vars

(***************************************************************************)
(* The sort is one sequential computation, so it keeps going while it can. *)
(***************************************************************************)
FairSpec == Spec /\ WF_vars(Next)

(***************************************************************************)
(* What operator<< writes: the forward pointers, then the containers.      *)
(***************************************************************************)
Output ==
  vec["TypeIntVec"] \o vec["ConstIntVec"] \o vec["TypeVec"] \o vec["ConstAndVarVec"]

-----------------------------------------------------------------------------
(***************************************************************************)
(* Every operand of an entry appears before the entry in its container, or *)
(* is declared by an OpTypeForwardPointer, or lives in another container   *)
(* and was pushed there already.  (The comment above visit(): post-order   *)
(* traversal guarantees that the operands precede the entry.)              *)
(***************************************************************************)
OperandsPrecede ==
  \A c \in Containers : \A i \in 1 .. Len(vec[c]) :
    \A k \in 1 .. Len(Operands(vec[c][i])) :
      \/ Operands(vec[c][i])[k] \in fwd
      \/ /\ state[Operands(vec[c][i])[k]] = "Visited"
         /\ ContainerOf(graph.kind[Operands(vec[c][i])[k]]) = c
            => \E j \in 1 .. (i - 1) : vec[c][j] = Operands(vec[c][i])[k]

(***************************************************************************)
(* visit() pushes an entry at most once, into the container of its kind,   *)
(* exactly when it marks it Visited: forgetting a Discovered entry after a *)
(* cycle never leads to a second declaration of the same id.               *)
(***************************************************************************)
EmittedOnce ==
  /\ \A c \in Containers : \A i, j \in 1 .. Len(vec[c]) :
        vec[c][i] = vec[c][j] => i = j
  /\ \A e \in Entries :
        (state[e] = "Visited") <=>
        (\E i \in 1 .. Len(vec[ContainerOf(graph.kind[e])]) :
            vec[ContainerOf(graph.kind[e])][i] = e)

(***************************************************************************)
(* Ids as the LLVM-to-SPIR-V writer hands them out: addPointerType takes   *)
(* the id of a pointer after its pointee has one (openStructType takes a   *)
(* struct's id before its members are translated).                         *)
(***************************************************************************)
PointeesFirst ==
  \A e \in Entries : graph.kind[e] = "pointer" =>
    \A k \in 1 .. Len(Operands(e)) : Operands(e)[k] < e

(***************************************************************************)
(* With the writer's ids no entry is lost: when the sort ends without a    *)
(* cycle it could not break, every type, constant and variable has been    *)
(* written, those given a forward declaration included.                    *)
(***************************************************************************)
WriterLosesNothing ==
  Sorted /\ PointeesFirst => \A e \in Entries : state[e] = "Visited"

(***************************************************************************)
(* The same claim for the ids of any module that was read back: "recursive *)
(* depth-first search among all Entries in EntryStateMap".                 *)
(***************************************************************************)
LosesNothing == Sorted => \A e \in Entries : state[e] = "Visited"

(***************************************************************************)
(* "All operands must be declared before being used": in the text written, *)
(* each operand of an entry comes before it or is forward-declared.        *)
(***************************************************************************)
DeclaredBeforeUse ==
  Sorted =>
    \A i \in 1 .. Len(Output) : \A k \in 1 .. Len(Operands(Output[i])) :
      \/ Operands(Output[i])[k] \in fwd
      \/ \E j \in 1 .. (i - 1) : Output[j] = Operands(Output[i])[k]

(***************************************************************************)
(* The search ends although entries are forgotten and visited again, and   *)
(* never in the llvm_unreachable of the constructor: when the only         *)
(* recursion of a module goes through pointer types, some pointer on the   *)
(* recursion stack breaks every cycle that is met.                         *)
(***************************************************************************)
Terminates == <>Sorted

=============================================================================
