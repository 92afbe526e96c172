----------------------- MODULE TopologicalSortProofs -----------------------
(***************************************************************************)
(* Proofs about TopologicalSort for every number of entries and every      *)
(* dependency graph.                                                       *)
(***************************************************************************)
EXTENDS TopologicalSort, SequenceTheorems, TLAPS

(***************************************************************************)
(* The active calls: their entries are exactly the Discovered ones, each   *)
(* has one call, and a call's entry is the operand its caller is at.       *)
(***************************************************************************)
CallsOK ==
  /\ \A i \in 1 .. Len(stack) : state[stack[i].ent] = "Discovered"
  /\ \A i, j \in 1 .. Len(stack) : stack[i].ent = stack[j].ent => i = j
  /\ \A i, j \in 1 .. Len(stack) : j = i + 1 =>
        HasOperandLeft(stack[i]) /\ stack[j].ent = CurrentOperand(stack[i])

(***************************************************************************)
(* The operands a call has gone past are written or forward-declared.      *)
(***************************************************************************)
PassedOK ==
  \A i \in 1 .. Len(stack) : \A k \in 1 .. Len(Operands(stack[i].ent)) :
    k < stack[i].idx =>
      \/ Operands(stack[i].ent)[k] \in fwd
      \/ state[Operands(stack[i].ent)[k]] = "Visited"

(* Entries sit in the container of their kind. *)
ContainersOK ==
  \A c \in Containers : \A i \in 1 .. Len(vec[c]) :
    ContainerOf(graph.kind[vec[c][i]]) = c

SortInv == TypeOK /\ CallsOK /\ PassedOK /\ ContainersOK /\ EmittedOnce /\ OperandsPrecede

-----------------------------------------------------------------------------
(* The graph is well-typed, for the assumption on Graphs. *)
LEMMA GraphWellTyped ==
  ASSUME TypeOK, NEW e \in Entries
  PROVE  /\ graph.kind[e] \in Kinds
         /\ graph.ops[e] \in Seq(Entries)
         /\ Len(graph.ops[e]) \in Nat
         /\ \A k \in 1 .. Len(graph.ops[e]) : graph.ops[e][k] \in Entries
         /\ ContainerOf(graph.kind[e]) \in Containers
<1>1. graph \in GraphType
  BY GraphsAssumption DEF TypeOK
<1>2. graph.kind[e] \in Kinds /\ graph.ops[e] \in Seq(Entries)
  BY <1>1 DEF GraphType
<1>3. ContainerOf(graph.kind[e]) \in Containers
  BY <1>2 DEF ContainerOf, Containers, Kinds
<1>4. Len(graph.ops[e]) \in Nat /\ \A k \in 1 .. Len(graph.ops[e]) : graph.ops[e][k] \in Entries
  BY <1>2, ElementOfSeq, LenProperties
<1> QED
  BY <1>2, <1>3, <1>4

(* What the innermost call is, and what the stack is without it. *)
LEMMA PopFacts ==
  ASSUME stack \in Seq(Frame), stack # <<>>
  PROVE  /\ Len(stack) \in Nat \ {0}
         /\ \A i \in 1 .. Len(stack) :
              stack[i] \in Frame /\ stack[i].ent \in Entries /\ stack[i].idx \in Nat
         /\ Top = stack[Len(stack)]
         /\ Top \in Frame
         /\ Pop(stack) \in Seq(Frame)
         /\ Len(Pop(stack)) = Len(stack) - 1
         /\ \A i \in 1 .. (Len(stack) - 1) : Pop(stack)[i] = stack[i]
<1>1. Len(stack) \in Nat \ {0}
  BY EmptySeq
<1>2. \A i \in 1 .. Len(stack) : stack[i] \in Frame
  BY ElementOfSeq
<1>3. \A i \in 1 .. Len(stack) : stack[i].ent \in Entries /\ stack[i].idx \in Nat
  BY <1>2 DEF Frame
<1>4. \A i \in 1 .. (Len(stack) - 1) : stack[i] \in Frame
  BY <1>1, <1>2
<1>5. /\ Pop(stack) \in Seq(Frame)
      /\ Len(Pop(stack)) = Len(stack) - 1
      /\ \A i \in 1 .. (Len(stack) - 1) : Pop(stack)[i] = stack[i]
  <2> DEFINE m == 1
             n == Len(stack) - 1
  <2>1. m \in Int /\ n \in Int /\ \A i \in m .. n : stack[i] \in Frame
    BY <1>1, <1>4
  <2>2. m = 1 /\ n = Len(stack) - 1 /\ n \in Nat
    BY <1>1
  <2>3. Pop(stack) = SubSeq(stack, m, n)
    BY DEF Pop
  <2> HIDE DEF m, n
  <2>4. /\ SubSeq(stack, m, n) \in Seq(Frame)
        /\ Len(SubSeq(stack, m, n)) = IF m <= n THEN n - m + 1 ELSE 0
        /\ \A i \in 1 .. (n - m + 1) : SubSeq(stack, m, n)[i] = stack[m + i - 1]
    BY <2>1, SubSeqProperties
  <2>5. Len(SubSeq(stack, m, n)) = n
    BY <2>2, <2>4
  <2>6. \A i \in 1 .. n : SubSeq(stack, m, n)[i] = stack[i]
    BY <2>2, <2>4
  <2> QED
    BY <2>2, <2>3, <2>4, <2>5, <2>6
<1>9. Top = stack[Len(stack)] /\ Top \in Frame
  BY <1>1, <1>2 DEF Top
<1> QED
  BY <1>1, <1>2, <1>3, <1>5, <1>9

(* A return that lets the caller go on with its next operand. *)
LEMMA ReturnFalseFacts ==
  ASSUME stack \in Seq(Frame), stack # <<>>, ReturnFalse
  PROVE  /\ stack' \in Seq(Frame)
         /\ Len(stack') = Len(stack) - 1
         /\ \A i \in 1 .. Len(stack') :
              /\ stack'[i].ent = stack[i].ent
              /\ stack'[i].idx = IF i = Len(stack) - 1 THEN stack[i].idx + 1
                                                      ELSE stack[i].idx
<1> DEFINE s == Pop(stack)
<1>1. /\ Len(stack) \in Nat \ {0}
      /\ s \in Seq(Frame)
      /\ Len(s) = Len(stack) - 1
      /\ \A i \in 1 .. (Len(stack) - 1) : s[i] = stack[i]
      /\ \A i \in 1 .. Len(stack) :
              stack[i] \in Frame /\ stack[i].ent \in Entries /\ stack[i].idx \in Nat
  BY PopFacts
<1>2. CASE s = <<>>
  <2>1. stack' = s /\ Len(stack) - 1 = 0
    BY <1>1, <1>2, EmptySeq DEF ReturnFalse
  <2> QED
    BY <1>1, <2>1
<1>3. CASE s # <<>>
  <2> DEFINE n == Len(s)
             f == [s[n] EXCEPT !.idx = @ + 1]
  <2>1. n \in 1 .. Len(s)
    BY <1>1, <1>3, EmptySeq
  <2>2. s[n] = stack[n] /\ s[n] \in Frame
    BY <1>1, <2>1
  <2>3. f \in Frame /\ f.ent = stack[n].ent /\ f.idx = stack[n].idx + 1
    BY <2>2 DEF Frame
  <2>4. stack' = [s EXCEPT ![n] = f]
    BY <1>3 DEF ReturnFalse
  <2> HIDE DEF f
  <2>5. /\ [s EXCEPT ![n] = f] \in Seq(Frame)
        /\ Len([s EXCEPT ![n] = f]) = Len(s)
        /\ \A j \in 1 .. Len(s) : [s EXCEPT ![n] = f][j] = IF j = n THEN f ELSE s[j]
    <3> HIDE DEF s, n
    <3> QED BY <1>1, <2>1, <2>3, ExceptSeq
  <2> QED
    BY <1>1, <2>1, <2>3, <2>4, <2>5
<1> QED
  BY <1>2, <1>3

(* A caller that passes an operand without a call. *)
LEMMA SkipFacts ==
  ASSUME stack \in Seq(Frame), stack # <<>>,
         stack' = [stack EXCEPT ![Len(stack)].idx = @ + 1]
  PROVE  /\ stack' \in Seq(Frame)
         /\ Len(stack') = Len(stack)
         /\ \A i \in 1 .. Len(stack') :
              /\ stack'[i].ent = stack[i].ent
              /\ stack'[i].idx = IF i = Len(stack) THEN stack[i].idx + 1
                                                   ELSE stack[i].idx
<1> DEFINE n == Len(stack)
           f == [stack[n] EXCEPT !.idx = @ + 1]
<1>1. n \in 1 .. Len(stack) /\ stack[n] \in Frame
  BY PopFacts
<1>2. f \in Frame /\ f.ent = stack[n].ent /\ f.idx = stack[n].idx + 1
  BY <1>1 DEF Frame
<1>3. stack' = [stack EXCEPT ![n] = f]
  OBVIOUS
<1> HIDE DEF f
<1>4. /\ [stack EXCEPT ![n] = f] \in Seq(Frame)
      /\ Len([stack EXCEPT ![n] = f]) = Len(stack)
      /\ \A j \in 1 .. Len(stack) : [stack EXCEPT ![n] = f][j] = IF j = n THEN f ELSE stack[j]
  <2> HIDE DEF n
  <2> QED BY <1>1, <1>2, ExceptSeq
<1> QED
  BY <1>1, <1>2, <1>3, <1>4

(* A new call on entry e. *)
LEMMA CallFacts ==
  ASSUME stack \in Seq(Frame), NEW e \in Entries,
         stack' = Append(stack, [ent |-> e, idx |-> 1])
  PROVE  /\ stack' \in Seq(Frame)
         /\ Len(stack) \in Nat
         /\ Len(stack') = Len(stack) + 1
         /\ \A i \in 1 .. Len(stack) : stack'[i] = stack[i]
         /\ stack'[Len(stack) + 1].ent = e
         /\ stack'[Len(stack) + 1].idx = 1
<1> DEFINE f == [ent |-> e, idx |-> 1]
<1>1. f \in Frame /\ f.ent = e /\ f.idx = 1
  BY DEF Frame
<1>2. Len(stack) \in Nat
  BY LenProperties
<1> HIDE DEF f
<1>3. stack' = Append(stack, f)
  BY DEF f
<1> QED
  BY <1>1, <1>2, <1>3, AppendProperties

-----------------------------------------------------------------------------
(* Before the first call every entry is Unvisited and nothing is pushed. *)
LEMMA InitSortInv == Init => SortInv
<1> SUFFICES ASSUME Init PROVE SortInv
  OBVIOUS
<1>1. Len(stack) = 0 /\ \A c \in Containers : Len(vec[c]) = 0
  BY EmptySeq DEF Init
<1>2. TypeOK
  <2>1. next \in 1 .. (N + 1)
    BY NAssumption DEF Init
  <2>2. state \in [Entries -> DFSState] /\ fwd \in SUBSET Entries /\ cyclic \in BOOLEAN
    BY DEF Init, DFSState
  <2>3. stack \in Seq(Frame) /\ vec \in [Containers -> Seq(Entries)]
    BY EmptySeq DEF Init
  <2> QED
    BY <2>1, <2>2, <2>3 DEF TypeOK, Init
<1>3. CallsOK /\ PassedOK
  BY <1>1 DEF CallsOK, PassedOK
<1>4. ContainersOK /\ OperandsPrecede
  BY <1>1 DEF ContainersOK, OperandsPrecede
<1>5. EmittedOnce
  <2>1. \A e \in Entries : ContainerOf(graph.kind[e]) \in Containers
    BY <1>2, GraphWellTyped
  <2> QED
    BY <1>1, <2>1 DEF EmittedOnce, Init
<1> QED
  BY <1>2, <1>3, <1>4, <1>5 DEF SortInv

(* A step that pushes nothing keeps what is known of the containers. *)
LEMMA NothingPushed ==
  ASSUME SortInv, UNCHANGED <<graph, vec>>, fwd \subseteq fwd',
         \A e \in Entries : (state'[e] = "Visited") <=> (state[e] = "Visited")
  PROVE  (ContainersOK /\ EmittedOnce /\ OperandsPrecede)'
<1> USE DEF SortInv
<1>1. ContainersOK'
  BY DEF ContainersOK
<1>2. EmittedOnce'
  BY DEF EmittedOnce
<1>3. OperandsPrecede'
  <2>1. ASSUME NEW c \in Containers, NEW i \in 1 .. Len(vec'[c]),
               NEW k \in 1 .. Len(graph'.ops[vec'[c][i]])
        PROVE  \/ graph'.ops[vec'[c][i]][k] \in fwd'
               \/ /\ state'[graph'.ops[vec'[c][i]][k]] = "Visited"
                  /\ ContainerOf(graph'.kind[graph'.ops[vec'[c][i]][k]]) = c
                     => \E j \in 1 .. (i - 1) : vec'[c][j] = graph'.ops[vec'[c][i]][k]
    <3> DEFINE op == graph.ops[vec[c][i]][k]
    <3>1. i \in 1 .. Len(vec[c]) /\ k \in 1 .. Len(graph.ops[vec[c][i]])
      OBVIOUS
    <3>2. op \in Entries
      BY <3>1, ElementOfSeq, GraphWellTyped DEF TypeOK
    <3>3. \/ op \in fwd
          \/ /\ state[op] = "Visited"
             /\ ContainerOf(graph.kind[op]) = c
                => \E j \in 1 .. (i - 1) : vec[c][j] = op
      BY <3>1 DEF OperandsPrecede, Operands
    <3> QED
      BY <3>2, <3>3
  <2> QED
    BY <2>1, Zenon DEF OperandsPrecede, Operands
<1> QED
  BY <1>1, <1>2, <1>3

(* The constructor's call of visit() keeps the invariant. *)
LEMMA VisitRootSortInv ==
  ASSUME SortInv, VisitRoot
  PROVE  SortInv'
<1> USE DEF SortInv
<1>1. stack \in Seq(Frame) /\ Len(stack) = 0
  BY EmptySeq DEF TypeOK, VisitRoot
<1>2. CASE state[next] = "Visited"
  <2>1. UNCHANGED <<graph, state, stack, cyclic, fwd, vec>> /\ next' = next + 1 /\ next \in 1 .. N
    BY <1>2 DEF VisitRoot, Entries
  <2>2. TypeOK'
    BY <2>1, NAssumption DEF TypeOK
  <2>3. (CallsOK /\ PassedOK /\ ContainersOK)'
    BY <2>1 DEF CallsOK, PassedOK, ContainersOK, HasOperandLeft, CurrentOperand, Operands
  <2>4. (EmittedOnce /\ OperandsPrecede)'
    BY <2>1 DEF EmittedOnce, OperandsPrecede, Operands
  <2> QED
    BY <2>2, <2>3, <2>4
<1>3. CASE state[next] # "Visited"
  <2>1. /\ UNCHANGED <<graph, cyclic, fwd, vec>>
        /\ next \in 1 .. N
        /\ next \in Entries
        /\ next' = next + 1
        /\ state' = [state EXCEPT ![next] = "Discovered"]
        /\ stack' = <<[ent |-> next, idx |-> 1]>>
    BY <1>3 DEF VisitRoot, Entries
  <2>2. /\ stack' \in Seq(Frame)
        /\ Len(stack') = 1
        /\ stack'[1].ent = next
        /\ stack'[1].idx = 1
    <3> DEFINE f == [ent |-> next, idx |-> 1]
    <3>1. f \in Frame /\ f.ent = next /\ f.idx = 1
      BY <2>1 DEF Frame
    <3> HIDE DEF f
    <3>2. stack' = <<f>>
      BY <2>1 DEF f
    <3> QED
      BY <3>1, <3>2
  <2>3. TypeOK'
    BY <2>1, <2>2, NAssumption DEF TypeOK, DFSState
  <2>4. CallsOK'
    BY <2>1, <2>2 DEF CallsOK, TypeOK
  <2>5. PassedOK'
    BY <2>1, <2>2, GraphWellTyped DEF PassedOK, Operands
  <2>6. \A e \in Entries : (state'[e] = "Visited") <=> (state[e] = "Visited")
    BY <1>3, <2>1 DEF TypeOK
  <2> QED
    BY <2>1, <2>3, <2>4, <2>5, <2>6, NothingPushed
<1> QED
  BY <1>2, <1>3

(* Passing an operand that is Visited keeps the invariant. *)
LEMMA SkipVisitedSortInv ==
  ASSUME SortInv, SkipVisited
  PROVE  SortInv'
<1> USE DEF SortInv
<1>1. /\ stack \in Seq(Frame)
      /\ stack # <<>>
      /\ UNCHANGED <<graph, next, state, cyclic, fwd, vec>>
      /\ HasOperandLeft(Top)
      /\ state[CurrentOperand(Top)] = "Visited"
      /\ stack' = [stack EXCEPT ![Len(stack)].idx = @ + 1]
  BY DEF TypeOK, SkipVisited
<1>2. /\ stack' \in Seq(Frame)
      /\ Len(stack') = Len(stack)
      /\ \A i \in 1 .. Len(stack') :
              /\ stack'[i].ent = stack[i].ent
              /\ stack'[i].idx = IF i = Len(stack) THEN stack[i].idx + 1
                                                   ELSE stack[i].idx
  BY <1>1, SkipFacts
<1>3. /\ Len(stack) \in Nat \ {0}
      /\ Top = stack[Len(stack)]
      /\ \A i \in 1 .. Len(stack) : stack[i].ent \in Entries /\ stack[i].idx \in Nat
  BY <1>1, PopFacts
<1>4. TypeOK'
  BY <1>1, <1>2 DEF TypeOK
<1>5. CallsOK'
  BY <1>1, <1>2, <1>3 DEF CallsOK, HasOperandLeft, CurrentOperand, Operands
<1>6. PassedOK'
  BY <1>1, <1>2, <1>3, GraphWellTyped DEF PassedOK, HasOperandLeft, CurrentOperand, Operands
<1> QED
  BY <1>1, <1>4, <1>5, <1>6, NothingPushed

(* The recursive call on an Unvisited operand keeps the invariant. *)
LEMMA DescendSortInv ==
  ASSUME SortInv, Descend
  PROVE  SortInv'
<1> USE DEF SortInv
<1> DEFINE op == CurrentOperand(Top)
<1>1. /\ stack \in Seq(Frame)
      /\ stack # <<>>
      /\ UNCHANGED <<graph, next, cyclic, fwd, vec>>
      /\ HasOperandLeft(Top)
      /\ state[op] = "Unvisited"
      /\ state' = [state EXCEPT ![op] = "Discovered"]
      /\ stack' = Append(stack, [ent |-> op, idx |-> 1])
  BY DEF TypeOK, Descend
<1>2. /\ Len(stack) \in Nat \ {0}
      /\ Top = stack[Len(stack)]
      /\ \A i \in 1 .. Len(stack) : stack[i].ent \in Entries /\ stack[i].idx \in Nat \ {0}
  BY <1>1, PopFacts, ElementOfSeq DEF Frame
<1>3. op \in Entries
  BY <1>1, <1>2, GraphWellTyped DEF CurrentOperand, HasOperandLeft, Operands
<1>4. /\ stack' \in Seq(Frame)
      /\ Len(stack') = Len(stack) + 1
      /\ \A i \in 1 .. Len(stack) : stack'[i] = stack[i]
      /\ stack'[Len(stack) + 1].ent = op
      /\ stack'[Len(stack) + 1].idx = 1
  BY <1>1, <1>3, CallFacts
<1>5. TypeOK'
  BY <1>1, <1>3, <1>4 DEF TypeOK, DFSState
<1>6. \A e \in Entries : /\ (state'[e] = "Visited") <=> (state[e] = "Visited")
                         /\ state[e] = "Discovered" => state'[e] = "Discovered"
                         /\ e = op => state'[e] = "Discovered"
  BY <1>1, <1>3 DEF TypeOK
<1>7. CallsOK'
  <2>1. \A i \in 1 .. Len(stack) : stack[i].ent # op
    BY <1>1 DEF CallsOK
  <2>2. \A i \in 1 .. Len(stack') : IF i = Len(stack) + 1 THEN stack'[i].ent = op
                                    ELSE i \in 1 .. Len(stack) /\ stack'[i] = stack[i]
    BY <1>2, <1>4
  <2>3. \A i \in 1 .. Len(stack') : state'[stack'[i].ent] = "Discovered"
    <3> SUFFICES ASSUME NEW i \in 1 .. Len(stack') PROVE state'[stack'[i].ent] = "Discovered"
      OBVIOUS
    <3> HIDE DEF op
    <3>1. CASE i = Len(stack) + 1
      BY <1>3, <1>6, <2>2, <3>1
    <3>2. CASE i # Len(stack) + 1
      <4>1. i \in 1 .. Len(stack) /\ stack'[i] = stack[i]
        BY <2>2, <3>2
      <4>2. stack[i].ent \in Entries /\ state[stack[i].ent] = "Discovered"
        BY <1>2, <4>1 DEF CallsOK
      <4> QED
        BY <1>6, <4>1, <4>2
    <3> QED
      BY <3>1, <3>2
  <2>4. \A i, j \in 1 .. Len(stack') : stack'[i].ent = stack'[j].ent => i = j
    BY <2>1, <2>2 DEF CallsOK
  <2>5. ASSUME NEW i \in 1 .. Len(stack'), NEW j \in 1 .. Len(stack'), j = i + 1
        PROVE  /\ stack'[i].idx <= Len(graph'.ops[stack'[i].ent])
               /\ stack'[j].ent = graph'.ops[stack'[i].ent][stack'[i].idx]
    <3>1. i \in 1 .. Len(stack) /\ stack'[i] = stack[i]
      BY <1>2, <1>4, <2>5
    <3>2. CASE i = Len(stack)
      BY <1>1, <1>2, <1>4, <2>5, <3>1, <3>2 DEF HasOperandLeft, CurrentOperand, Operands
    <3>3. CASE i # Len(stack)
      <4> HIDE DEF op
      <4>1. j \in 1 .. Len(stack) /\ stack'[j] = stack[j]
        BY <1>2, <1>4, <2>5, <3>1, <3>3
      <4>2. HasOperandLeft(stack[i]) /\ stack[j].ent = CurrentOperand(stack[i])
        BY <2>5, <3>1, <4>1 DEF CallsOK
      <4> QED
        BY <1>1, <3>1, <4>1, <4>2 DEF HasOperandLeft, CurrentOperand, Operands
    <3> QED
      BY <3>2, <3>3
  <2> QED
    BY <2>3, <2>4, <2>5 DEF CallsOK, HasOperandLeft, CurrentOperand, Operands
<1>8. PassedOK'
  <2> SUFFICES ASSUME NEW i \in 1 .. Len(stack'), NEW k \in 1 .. Len(graph.ops[stack'[i].ent]),
                      k < stack'[i].idx
               PROVE  \/ graph.ops[stack'[i].ent][k] \in fwd
                      \/ state'[graph.ops[stack'[i].ent][k]] = "Visited"
    BY <1>1 DEF PassedOK, Operands
  <2>0. Len(graph.ops[stack'[i].ent]) \in Nat
    BY <1>2, <1>3, <1>4, GraphWellTyped
  <2>1. i \in 1 .. Len(stack) /\ stack'[i] = stack[i]
    BY <1>2, <1>4, <2>0
  <2>2. graph.ops[stack[i].ent][k] \in Entries
    BY <1>2, <2>1, GraphWellTyped
  <2> QED
    BY <1>6, <2>1, <2>2 DEF PassedOK, Operands
<1> QED
  BY <1>1, <1>5, <1>6, <1>7, <1>8, NothingPushed

(***************************************************************************)
(* What is left of CallsOK and PassedOK when the innermost call returns    *)
(* and its entry e leaves the Discovered state: bumped is TRUE when the    *)
(* caller goes on with its next operand, which needs e written or forward- *)
(* declared.                                                               *)
(***************************************************************************)
LEMMA ReturnKeepsCalls ==
  ASSUME SortInv, stack # <<>>, graph' = graph, fwd \subseteq fwd',
         NEW bumped \in BOOLEAN,
         stack' \in Seq(Frame),
         Len(stack') = Len(stack) - 1,
         \A i \in 1 .. Len(stack') :
            /\ stack'[i].ent = stack[i].ent
            /\ stack'[i].idx = IF bumped /\ i = Len(stack) - 1
                                 THEN stack[i].idx + 1 ELSE stack[i].idx,
         \A e \in Entries \ {Top.ent} : state'[e] = state[e],
         bumped => (Top.ent \in fwd' \/ state'[Top.ent] = "Visited")
  PROVE  (CallsOK /\ PassedOK)'
<1> USE DEF SortInv
<1> DEFINE n == Len(stack)
           e == Top.ent
<1>1. /\ n \in Nat \ {0}
      /\ Top = stack[n]
      /\ e = stack[n].ent
      /\ \A i \in 1 .. n : stack[i].ent \in Entries /\ stack[i].idx \in Nat
      /\ Len(stack') = n - 1
  BY PopFacts DEF TypeOK
<1>2. state[e] = "Discovered" /\ e \in Entries
  BY <1>1 DEF CallsOK
<1>3. ASSUME NEW i \in 1 .. (n - 1)
      PROVE  stack[i].ent # e /\ state'[stack[i].ent] = "Discovered"
  <2>1. i \in 1 .. n /\ n \in 1 .. n /\ i # n
    BY <1>1
  <2>2. stack[i].ent # e
    BY <1>1, <2>1 DEF CallsOK
  <2>3. stack[i].ent \in Entries \ {Top.ent} /\ state[stack[i].ent] = "Discovered"
    BY <1>1, <2>1, <2>2 DEF CallsOK
  <2> QED
    BY <2>2, <2>3
<1>4. ASSUME NEW i \in 1 .. Len(stack'), NEW j \in 1 .. Len(stack'), j = i + 1
      PROVE  /\ stack'[i].idx <= Len(graph'.ops[stack'[i].ent])
             /\ stack'[j].ent = graph'.ops[stack'[i].ent][stack'[i].idx]
  <2>1. i # n - 1 /\ i \in 1 .. n /\ j \in 1 .. n
    BY <1>1, <1>4
  <2> QED
    BY <1>1, <1>4, <2>1 DEF CallsOK, HasOperandLeft, CurrentOperand, Operands
<1>5. CallsOK'
  <2>1. \A i \in 1 .. Len(stack') : state'[stack'[i].ent] = "Discovered"
    BY <1>1, <1>3
  <2>2. \A i, j \in 1 .. Len(stack') : stack'[i].ent = stack'[j].ent => i = j
    BY <1>1 DEF CallsOK
  <2> QED
    BY <1>4, <2>1, <2>2 DEF CallsOK, HasOperandLeft, CurrentOperand, Operands
<1>6. ASSUME NEW i \in 1 .. Len(stack'), NEW k \in 1 .. Len(graph.ops[stack[i].ent]),
             k < stack'[i].idx
      PROVE  \/ graph.ops[stack[i].ent][k] \in fwd'
             \/ state'[graph.ops[stack[i].ent][k]] = "Visited"
  <2> DEFINE op == graph.ops[stack[i].ent][k]
  <2>1. i \in 1 .. n /\ stack[i].ent \in Entries /\ stack[i].idx \in Nat
    BY <1>1
  <2>2. op \in Entries /\ k \in Nat
    BY <2>1, GraphWellTyped
  <2>3. CASE k < stack[i].idx
    BY <1>2, <2>1, <2>2, <2>3 DEF PassedOK, Operands
  <2>4. CASE ~(k < stack[i].idx)
    <3>1. bumped /\ i = n - 1 /\ k = stack[i].idx
      BY <1>1, <1>6, <2>1, <2>2, <2>4
    <3>2. op = e
      BY <1>1, <2>1, <3>1 DEF CallsOK, CurrentOperand, Operands
    <3> QED
      BY <3>1, <3>2
  <2> QED
    BY <2>3, <2>4
<1>7. PassedOK'
  <2> SUFFICES ASSUME NEW i \in 1 .. Len(stack'), NEW k \in 1 .. Len(graph'.ops[stack'[i].ent]),
                      k < stack'[i].idx
               PROVE  \/ graph'.ops[stack'[i].ent][k] \in fwd'
                      \/ state'[graph'.ops[stack'[i].ent][k]] = "Visited"
    BY Zenon DEF PassedOK, Operands
  <2>1. stack'[i].ent = stack[i].ent /\ k \in 1 .. Len(graph.ops[stack[i].ent])
    OBVIOUS
  <2>2. \/ graph.ops[stack[i].ent][k] \in fwd'
        \/ state'[graph.ops[stack[i].ent][k]] = "Visited"
    BY <1>6, <2>1
  <2> QED
    BY <2>1, <2>2
<1> QED
  BY <1>5, <1>7

(* Breaking a cycle at a pointer type keeps the invariant. *)
LEMMA BreakAtPointerSortInv ==
  ASSUME SortInv, BreakAtPointer
  PROVE  SortInv'
<1> USE DEF SortInv
<1>1. /\ stack \in Seq(Frame)
      /\ stack # <<>>
      /\ UNCHANGED <<graph, next, vec>>
      /\ state' = [state EXCEPT ![Top.ent] = "Unvisited"]
      /\ fwd' = fwd \cup {Top.ent}
      /\ cyclic' = FALSE
      /\ ReturnFalse
  BY DEF TypeOK, BreakAtPointer, OperandCyclic
<1>2. /\ stack' \in Seq(Frame)
      /\ Len(stack') = Len(stack) - 1
      /\ \A i \in 1 .. Len(stack') :
              /\ stack'[i].ent = stack[i].ent
              /\ stack'[i].idx = IF i = Len(stack) - 1 THEN stack[i].idx + 1
                                                      ELSE stack[i].idx
  BY <1>1, ReturnFalseFacts
<1>3. Top.ent \in Entries /\ state[Top.ent] = "Discovered"
  BY <1>1, PopFacts DEF CallsOK
<1>4. TypeOK'
  BY <1>1, <1>2, <1>3 DEF TypeOK, DFSState
<1>5. (CallsOK /\ PassedOK)'
  <2>1. \A e \in Entries \ {Top.ent} : state'[e] = state[e]
    BY <1>1, <1>3 DEF TypeOK
  <2> QED
    BY <1>1, <1>2, <2>1, ReturnKeepsCalls
<1>6. \A e \in Entries : (state'[e] = "Visited") <=> (state[e] = "Visited")
  BY <1>1, <1>3 DEF TypeOK
<1> QED
  BY <1>1, <1>4, <1>5, <1>6, NothingPushed

(* Returning true to the caller keeps the invariant. *)
LEMMA PropagateCycleSortInv ==
  ASSUME SortInv, PropagateCycle
  PROVE  SortInv'
<1> USE DEF SortInv
<1>1. /\ stack \in Seq(Frame)
      /\ stack # <<>>
      /\ UNCHANGED <<graph, next, fwd, vec>>
      /\ state' = [state EXCEPT ![Top.ent] = "Unvisited"]
      /\ cyclic' = TRUE
      /\ stack' = Pop(stack)
  BY DEF TypeOK, PropagateCycle, OperandCyclic
<1>2. /\ stack' \in Seq(Frame)
      /\ Len(stack') = Len(stack) - 1
      /\ \A i \in 1 .. Len(stack') :
              /\ stack'[i].ent = stack[i].ent
              /\ stack'[i].idx = IF FALSE /\ i = Len(stack) - 1
                                   THEN stack[i].idx + 1 ELSE stack[i].idx
  BY <1>1, PopFacts
<1>3. Top.ent \in Entries /\ state[Top.ent] = "Discovered"
  BY <1>1, PopFacts DEF CallsOK
<1>4. TypeOK'
  BY <1>1, <1>2, <1>3 DEF TypeOK, DFSState
<1>5. (CallsOK /\ PassedOK)'
  <2>1. \A e \in Entries \ {Top.ent} : state'[e] = state[e]
    BY <1>1, <1>3 DEF TypeOK
  <2> QED
    BY <1>1, <1>2, <2>1, ReturnKeepsCalls
<1>6. \A e \in Entries : (state'[e] = "Visited") <=> (state[e] = "Visited")
  BY <1>1, <1>3 DEF TypeOK
<1> QED
  BY <1>1, <1>4, <1>5, <1>6, NothingPushed

(* Pushing an entry whose operands have all been passed keeps the invariant. *)
LEMMA EmitSortInv ==
  ASSUME SortInv, Emit
  PROVE  SortInv'
<1> USE DEF SortInv
<1> DEFINE e == Top.ent
           d == ContainerOf(graph.kind[e])
           n == Len(vec[d])
<1>1. /\ stack \in Seq(Frame)
      /\ stack # <<>>
      /\ UNCHANGED <<graph, next, cyclic, fwd>>
      /\ ~HasOperandLeft(Top)
      /\ vec' = [vec EXCEPT ![d] = Append(@, e)]
      /\ state' = [state EXCEPT ![e] = "Visited"]
      /\ ReturnFalse
  BY DEF TypeOK, Emit
<1>2. /\ stack' \in Seq(Frame)
      /\ Len(stack') = Len(stack) - 1
      /\ \A i \in 1 .. Len(stack') :
              /\ stack'[i].ent = stack[i].ent
              /\ stack'[i].idx = IF i = Len(stack) - 1 THEN stack[i].idx + 1
                                                      ELSE stack[i].idx
  BY <1>1, ReturnFalseFacts
<1>3. e \in Entries /\ state[e] = "Discovered" /\ Top.idx \in Nat /\ Len(stack) \in 1 .. Len(stack)
      /\ Top = stack[Len(stack)]
  BY <1>1, PopFacts DEF CallsOK
<1>4. d \in Containers
  BY <1>3, GraphWellTyped
<1>5. \A f \in Entries : state'[f] = IF f = e THEN "Visited" ELSE state[f]
  BY <1>1, <1>3 DEF TypeOK
<1>6. /\ vec'[d] = Append(vec[d], e)
      /\ \A c \in Containers \ {d} : vec'[c] = vec[c]
      /\ \A c \in Containers : vec[c] \in Seq(Entries) /\ Len(vec[c]) \in Nat
      /\ \A c \in Containers : \A i \in 1 .. Len(vec[c]) : vec[c][i] \in Entries
  BY <1>1, <1>4, LenProperties, ElementOfSeq DEF TypeOK
<1>7. /\ vec'[d] \in Seq(Entries)
      /\ Len(vec'[d]) = n + 1
      /\ \A i \in 1 .. n : vec'[d][i] = vec[d][i]
      /\ vec'[d][n + 1] = e
      /\ n \in Nat
  <2>1. vec[d] \in Seq(Entries) /\ n \in Nat
    BY <1>4, <1>6
  <2> HIDE DEF e, d
  <2> QED
    BY <1>3, <1>6, <2>1, AppendProperties
<1> HIDE DEF n
<1>8. TypeOK'
  <2>1. vec' \in [Containers -> Seq(Entries)]
    BY <1>1, <1>4, <1>6, <1>7 DEF TypeOK
  <2> QED
    BY <1>1, <1>2, <1>3, <2>1 DEF TypeOK, DFSState
<1>9. (CallsOK /\ PassedOK)'
  BY <1>1, <1>2, <1>3, <1>5, ReturnKeepsCalls
<1>10. \A c \in Containers : \A i \in 1 .. Len(vec'[c]) :
         \/ i \in 1 .. Len(vec[c]) /\ vec'[c][i] = vec[c][i]
         \/ c = d /\ i = n + 1 /\ vec'[c][i] = e
  <2> SUFFICES ASSUME NEW c \in Containers, NEW i \in 1 .. Len(vec'[c])
               PROVE  \/ i \in 1 .. Len(vec[c]) /\ vec'[c][i] = vec[c][i]
                      \/ c = d /\ i = n + 1 /\ vec'[c][i] = e
    OBVIOUS
  <2> HIDE DEF e, d
  <2>1. CASE c = d
    BY <1>7, <2>1 DEF n
  <2>2. CASE c # d
    BY <1>6, <2>2
  <2> QED
    BY <2>1, <2>2
<1>11. \A c \in Containers : \A i \in 1 .. Len(vec[c]) :
         /\ i \in 1 .. Len(vec'[c])
         /\ vec'[c][i] = vec[c][i]
         /\ state[vec[c][i]] = "Visited"
         /\ vec[c][i] # e
  <2>1. \A c \in Containers : \A i \in 1 .. Len(vec[c]) : state[vec[c][i]] = "Visited"
    BY <1>6 DEF ContainersOK, EmittedOnce
  <2>2. ASSUME NEW c \in Containers, NEW i \in 1 .. Len(vec[c])
        PROVE  i \in 1 .. Len(vec'[c]) /\ vec'[c][i] = vec[c][i]
    <3>1. CASE c = d
      BY <1>7, <3>1 DEF n
    <3>2. CASE c # d
      BY <1>6, <3>2
    <3> QED
      BY <3>1, <3>2
  <2> QED
    BY <1>3, <2>1, <2>2
<1>12. ContainersOK'
  <2>1. \A c \in Containers : \A i \in 1 .. Len(vec'[c]) : ContainerOf(graph.kind[vec'[c][i]]) = c
    BY <1>10 DEF ContainersOK
  <2> QED
    BY <1>1, <2>1 DEF ContainersOK
<1>13. EmittedOnce'
  <2>1. \A c \in Containers : \A i, j \in 1 .. Len(vec'[c]) : vec'[c][i] = vec'[c][j] => i = j
    BY <1>10, <1>11 DEF EmittedOnce
  <2>2. ASSUME NEW f \in Entries
        PROVE  (state'[f] = "Visited") <=>
               (\E i \in 1 .. Len(vec'[ContainerOf(graph'.kind[f])]) :
                   vec'[ContainerOf(graph'.kind[f])][i] = f)
    <3> DEFINE c == ContainerOf(graph.kind[f])
    <3>1. c \in Containers
      BY GraphWellTyped
    <3>2. CASE f = e
      BY <1>1, <1>5, <1>7, <3>2
    <3>3. CASE f # e
      <4>1. (\E i \in 1 .. Len(vec'[c]) : vec'[c][i] = f) <=> (\E i \in 1 .. Len(vec[c]) : vec[c][i] = f)
        BY <1>10, <1>11, <3>1, <3>3
      <4> QED
        BY <1>1, <1>5, <3>3, <4>1 DEF EmittedOnce
    <3> QED
      BY <3>2, <3>3
  <2> QED
    BY <2>1, <2>2, Zenon DEF EmittedOnce
<1>14. OperandsPrecede'
  <2>1. ASSUME NEW c \in Containers, NEW i \in 1 .. Len(vec'[c]),
               NEW k \in 1 .. Len(graph'.ops[vec'[c][i]])
        PROVE  \/ graph'.ops[vec'[c][i]][k] \in fwd'
               \/ /\ state'[graph'.ops[vec'[c][i]][k]] = "Visited"
                  /\ ContainerOf(graph'.kind[graph'.ops[vec'[c][i]][k]]) = c
                     => \E j \in 1 .. (i - 1) : vec'[c][j] = graph'.ops[vec'[c][i]][k]
    <3> DEFINE op == graph.ops[vec'[c][i]][k]
    <3>1. vec'[c][i] \in Entries
      BY <1>3, <1>6, <1>10
    <3>2. op \in Entries /\ k \in 1 .. Len(graph.ops[vec'[c][i]])
      BY <1>1, <3>1, GraphWellTyped
    <3>3. CASE i \in 1 .. Len(vec[c]) /\ vec'[c][i] = vec[c][i]
      <4>1. \/ op \in fwd
            \/ /\ state[op] = "Visited"
               /\ ContainerOf(graph.kind[op]) = c
                  => \E j \in 1 .. (i - 1) : vec[c][j] = op
        <5>1. k \in 1 .. Len(graph.ops[vec[c][i]]) /\ op = graph.ops[vec[c][i]][k]
          BY <3>2, <3>3
        <5>2. \/ graph.ops[vec[c][i]][k] \in fwd
              \/ /\ state[graph.ops[vec[c][i]][k]] = "Visited"
                 /\ ContainerOf(graph.kind[graph.ops[vec[c][i]][k]]) = c
                    => \E j \in 1 .. (i - 1) : vec[c][j] = graph.ops[vec[c][i]][k]
          BY <3>3, <5>1, Zenon DEF OperandsPrecede, Operands
        <5> HIDE DEF op
        <5> QED
          BY <5>1, <5>2
      <4>2. \A j \in 1 .. (i - 1) : j \in 1 .. Len(vec[c]) /\ vec'[c][j] = vec[c][j]
        BY <1>6, <1>11, <3>3
      <4> QED
        BY <1>1, <1>5, <3>2, <4>1, <4>2
    <3>4. CASE c = d /\ i = n + 1 /\ vec'[c][i] = e
      <4>1. k < Top.idx /\ k \in 1 .. Len(Operands(stack[Len(stack)].ent))
        <5>1. /\ stack[Len(stack)].ent = vec'[c][i]
              /\ Len(graph.ops[vec'[c][i]]) \in Nat
              /\ ~(Top.idx <= Len(graph.ops[vec'[c][i]]))
          BY <1>1, <1>3, <3>1, <3>4, GraphWellTyped DEF HasOperandLeft, Operands
        <5> QED
          BY <1>3, <3>2, <5>1 DEF Operands
      <4>2. op \in fwd \/ state[op] = "Visited"
        BY <1>3, <3>4, <4>1 DEF PassedOK, Operands
      <4>3. CASE state[op] = "Visited" /\ ContainerOf(graph.kind[op]) = c
        <5>1. \E j \in 1 .. Len(vec[c]) : vec[c][j] = op
          BY <3>2, <4>3 DEF EmittedOnce
        <5>2. \E j \in 1 .. (i - 1) : vec'[c][j] = op
          <6>1. PICK j \in 1 .. Len(vec[c]) : vec[c][j] = op
            BY <5>1
          <6>2. Len(vec[c]) = n /\ n \in Nat /\ i = n + 1
            BY <1>7, <3>4 DEF n
          <6>3. j \in 1 .. n /\ j \in 1 .. (i - 1)
            BY <6>2
          <6>4. vec'[c][j] = vec[c][j]
            BY <1>7, <3>4, <6>3
          <6> QED
            BY <6>1, <6>3, <6>4
        <5>3. graph' = graph /\ state'[op] = "Visited"
          BY <1>1, <1>5, <3>2, <4>3
        <5> QED
          BY <5>2, <5>3
      <4> QED
        BY <1>1, <1>5, <3>2, <4>2, <4>3
    <3> QED
      BY <1>10, <3>3, <3>4
  <2> QED
    BY <2>1, Zenon DEF OperandsPrecede, Operands
<1> QED
  BY <1>8, <1>9, <1>12, <1>13, <1>14

(* Every step of the sort keeps the invariant. *)
LEMMA NextSortInv == SortInv /\ [Next]_vars => SortInv'
<1> SUFFICES ASSUME SortInv, [Next]_vars PROVE SortInv'
  OBVIOUS
<1>1. CASE VisitRoot
  BY <1>1, VisitRootSortInv
<1>2. CASE SkipVisited
  BY <1>2, SkipVisitedSortInv
<1>3. CASE Descend
  BY <1>3, DescendSortInv
<1>4. CASE BreakAtPointer
  BY <1>4, BreakAtPointerSortInv
<1>5. CASE PropagateCycle
  BY <1>5, PropagateCycleSortInv
<1>6. CASE Emit
  BY <1>6, EmitSortInv
<1>7. CASE UNCHANGED vars
  <2>1. UNCHANGED <<graph, next, state, stack, cyclic, fwd, vec>>
    BY <1>7 DEF vars
  <2>2. TypeOK'
    BY <2>1 DEF SortInv, TypeOK
  <2>3. CallsOK' /\ PassedOK'
    BY <2>1 DEF SortInv, CallsOK, PassedOK, HasOperandLeft, CurrentOperand, Operands
  <2> QED
    BY <2>1, <2>2, <2>3, NothingPushed DEF SortInv
<1> QED
  BY <1>1, <1>2, <1>3, <1>4, <1>5, <1>6, <1>7 DEF Next, Finished

(***************************************************************************)
(* The sort keeps its data structures well formed, for every number of     *)
(* entries and every dependency graph.                                     *)
(***************************************************************************)
THEOREM SortTypeCorrect == Spec => []TypeOK
<1>1. SortInv => TypeOK
  BY DEF SortInv
<1> QED
  BY <1>1, InitSortInv, NextSortInv, PTL DEF Spec

(***************************************************************************)
(* Post-order: whatever the graph, recursive or not, an entry is pushed    *)
(* after its operands, except those declared by an OpTypeForwardPointer.   *)
(***************************************************************************)
THEOREM SortOperandsPrecede == Spec => []OperandsPrecede
<1>1. SortInv => OperandsPrecede
  BY DEF SortInv
<1> QED
  BY <1>1, InitSortInv, NextSortInv, PTL DEF Spec

(***************************************************************************)
(* An entry is pushed at most once, into its kind's container, and exactly *)
(* the Visited entries are: backtracking out of a cycle duplicates no id.  *)
(***************************************************************************)
THEOREM SortEmittedOnce == Spec => []EmittedOnce
<1>1. SortInv => EmittedOnce
  BY DEF SortInv
<1> QED
  BY <1>1, InitSortInv, NextSortInv, PTL DEF Spec

-----------------------------------------------------------------------------
(***************************************************************************)
(* Nothing is lost with the writer's ids.  Behind the iterator everything  *)
(* is Visited, except the root being visited: a pointer broken deeper in   *)
(* the stack is ahead of the iterator and will be a root itself, and the   *)
(* root cannot break, its pointee being behind the iterator.               *)
(***************************************************************************)
RootOK == stack # <<>> => stack[1].ent + 1 = next

CycleOK ==
  cyclic /\ stack # <<>> =>
    HasOperandLeft(Top) /\ state[CurrentOperand(Top)] # "Visited"

BehindOK ==
  PointeesFirst => \A e \in Entries : e < next =>
    \/ state[e] = "Visited"
    \/ stack # <<>> /\ stack[1].ent = e
    \/ stack = <<>> /\ cyclic

LossInv == SortInv /\ RootOK /\ CycleOK /\ BehindOK

(* Before the first call nothing is behind the iterator. *)
LEMMA InitLossInv == Init => LossInv
<1> SUFFICES ASSUME Init PROVE LossInv
  OBVIOUS
<1>1. SortInv
  BY InitSortInv
<1>2. RootOK /\ CycleOK
  BY DEF Init, RootOK, CycleOK
<1>3. BehindOK
  BY NAssumption DEF Init, BehindOK, Entries
<1> QED
  BY <1>1, <1>2, <1>3 DEF LossInv

(* The root frame is untouched by a step that keeps the stack non-empty. *)
LEMMA VisitRootLossInv ==
  ASSUME LossInv, VisitRoot
  PROVE  (RootOK /\ CycleOK /\ BehindOK)'
<1>1. /\ stack = <<>> /\ ~cyclic /\ next \in Entries /\ next' = next + 1
      /\ UNCHANGED <<graph, cyclic>>
      /\ \A e \in Entries : e \in Nat
      /\ next \in Nat
      /\ state \in [Entries -> DFSState]
  BY NAssumption DEF VisitRoot, Entries, LossInv, SortInv, TypeOK
<1>2. PointeesFirst => \A e \in Entries : e < next => state[e] = "Visited"
  BY <1>1 DEF LossInv, BehindOK
<1>3. CycleOK'
  BY <1>1 DEF CycleOK
<1>4. PointeesFirst' <=> PointeesFirst
  BY <1>1 DEF PointeesFirst, Operands
<1>5. CASE state[next] = "Visited"
  <2>1. state' = state /\ stack' = stack
    BY <1>5 DEF VisitRoot
  <2>2. RootOK'
    BY <1>1, <2>1 DEF RootOK
  <2>3. BehindOK'
    BY <1>1, <1>2, <1>4, <1>5, <2>1 DEF BehindOK
  <2> QED
    BY <1>3, <2>2, <2>3
<1>6. CASE state[next] # "Visited"
  <2>1. /\ state' = [state EXCEPT ![next] = "Discovered"]
        /\ stack' = <<[ent |-> next, idx |-> 1]>>
    BY <1>6 DEF VisitRoot
  <2>2. stack' # <<>> /\ stack'[1].ent = next
    BY <2>1
  <2>3. RootOK'
    BY <1>1, <2>2 DEF RootOK
  <2>4. \A e \in Entries : e < next + 1 /\ e # next => e < next /\ state'[e] = state[e]
    BY <1>1, <2>1
  <2>5. BehindOK'
    BY <1>1, <1>2, <1>4, <2>2, <2>4 DEF BehindOK
  <2> QED
    BY <1>3, <2>3, <2>5
<1> QED
  BY <1>5, <1>6

(* Passing a Visited operand leaves the root call where it is. *)
LEMMA SkipVisitedLossInv ==
  ASSUME LossInv, SkipVisited
  PROVE  (RootOK /\ CycleOK /\ BehindOK)'
<1>1. /\ stack \in Seq(Frame)
      /\ stack # <<>>
      /\ ~cyclic
      /\ UNCHANGED <<graph, next, state, cyclic, fwd, vec>>
      /\ stack' = [stack EXCEPT ![Len(stack)].idx = @ + 1]
  BY DEF LossInv, SortInv, TypeOK, SkipVisited
<1>2. /\ stack' \in Seq(Frame)
      /\ Len(stack') = Len(stack)
      /\ \A i \in 1 .. Len(stack') : stack'[i].ent = stack[i].ent
      /\ Len(stack) \in Nat \ {0}
  BY <1>1, SkipFacts, PopFacts
<1>3. stack' # <<>> /\ stack'[1].ent = stack[1].ent
  BY <1>2, EmptySeq
<1>4. RootOK' /\ CycleOK'
  BY <1>1, <1>3 DEF LossInv, RootOK, CycleOK
<1>5. BehindOK'
  BY <1>1, <1>3 DEF LossInv, BehindOK, PointeesFirst, Operands
<1> QED
  BY <1>4, <1>5

(* A recursive call leaves the root call where it is. *)
LEMMA DescendLossInv ==
  ASSUME LossInv, Descend
  PROVE  (RootOK /\ CycleOK /\ BehindOK)'
<1> DEFINE op == CurrentOperand(Top)
<1>1. /\ stack \in Seq(Frame)
      /\ stack # <<>>
      /\ ~cyclic
      /\ UNCHANGED <<graph, next, cyclic, fwd, vec>>
      /\ HasOperandLeft(Top)
      /\ state[op] = "Unvisited"
      /\ state' = [state EXCEPT ![op] = "Discovered"]
      /\ stack' = Append(stack, [ent |-> op, idx |-> 1])
      /\ state \in [Entries -> DFSState]
      /\ TypeOK
  BY DEF LossInv, SortInv, TypeOK, Descend
<1>2. /\ Len(stack) \in Nat \ {0}
      /\ Top = stack[Len(stack)]
      /\ \A i \in 1 .. Len(stack) : stack[i].ent \in Entries /\ stack[i].idx \in Nat \ {0}
  BY <1>1, PopFacts, ElementOfSeq DEF Frame
<1>3. op \in Entries
  BY <1>1, <1>2, GraphWellTyped DEF CurrentOperand, HasOperandLeft, Operands
<1>4. Len(stack') = Len(stack) + 1 /\ stack' \in Seq(Frame) /\ stack'[1] = stack[1]
  BY <1>1, <1>2, <1>3, CallFacts
<1>5. stack' # <<>> /\ stack'[1].ent = stack[1].ent
  BY <1>2, <1>4, EmptySeq
<1>6. RootOK' /\ CycleOK'
  BY <1>1, <1>5 DEF LossInv, RootOK, CycleOK
<1>7. \A e \in Entries : state[e] = "Visited" => state'[e] = "Visited"
  BY <1>1, <1>3
<1>8. BehindOK'
  BY <1>1, <1>5, <1>7 DEF LossInv, BehindOK, PointeesFirst, Operands
<1> QED
  BY <1>6, <1>8

(***************************************************************************)
(* With the writer's ids a pointer that breaks a cycle is never the root.  *)
(***************************************************************************)
LEMMA RootNeverBreaks ==
  ASSUME LossInv, BreakAtPointer, PointeesFirst
  PROVE  Len(stack) # 1
<1> SUFFICES ASSUME Len(stack) = 1 PROVE FALSE
  OBVIOUS
<1>1. /\ stack \in Seq(Frame)
      /\ stack # <<>>
      /\ TypeOK
      /\ graph.kind[Top.ent] = "pointer"
      /\ HasOperandLeft(Top)
      /\ state[CurrentOperand(Top)] # "Visited"
  BY DEF LossInv, SortInv, TypeOK, BreakAtPointer, OperandCyclic, CycleOK
<1>2. Top = stack[1] /\ stack[1].ent \in Entries /\ stack[1].idx \in Nat \ {0}
  BY <1>1, PopFacts, ElementOfSeq DEF Frame
<1> DEFINE e == stack[1].ent
           op == graph.ops[e][stack[1].idx]
<1>3. stack[1].idx \in 1 .. Len(graph.ops[e]) /\ op \in Entries
  BY <1>1, <1>2, GraphWellTyped DEF HasOperandLeft, Operands
<1>4. op < e
  BY <1>1, <1>2, <1>3 DEF PointeesFirst, Operands
<1>5. e + 1 = next /\ op \in Int /\ e \in Int
  BY <1>1, <1>2, <1>3 DEF LossInv, RootOK, Entries
<1>6. op < next /\ op # e
  BY <1>4, <1>5
<1>7. state[op] = "Visited"
  BY <1>1, <1>3, <1>6 DEF LossInv, BehindOK
<1> QED
  BY <1>1, <1>2, <1>7 DEF CurrentOperand, Operands

(***************************************************************************)
(* A call below the root that returns leaves the entries behind the        *)
(* iterator as they were: its own entry is ahead of it or becomes Visited. *)
(***************************************************************************)
LEMMA InnerReturnKeepsBehind ==
  ASSUME LossInv, stack # <<>>, Len(stack) # 1,
         UNCHANGED <<graph, next>>,
         stack' # <<>>, stack'[1].ent = stack[1].ent,
         \A e \in Entries \ {Top.ent} : state'[e] = state[e]
  PROVE  (RootOK /\ BehindOK)'
<1>1. /\ Len(stack) \in Nat \ {0} /\ Top = stack[Len(stack)]
      /\ Top.ent \in Entries /\ stack[1].ent \in Entries
  BY PopFacts DEF LossInv, SortInv, TypeOK
<1>2. Top.ent # stack[1].ent /\ state[Top.ent] = "Discovered"
  <2>1. 1 \in 1 .. Len(stack) /\ Len(stack) \in 1 .. Len(stack)
    BY <1>1
  <2> QED
    BY <1>1, <2>1 DEF LossInv, SortInv, CallsOK
<1>3. RootOK'
  BY DEF LossInv, RootOK
<1>4. PointeesFirst => ~(Top.ent < next)
  BY <1>1, <1>2 DEF LossInv, BehindOK
<1>5. BehindOK'
  <2> SUFFICES ASSUME PointeesFirst, NEW e \in Entries, e < next
               PROVE  state'[e] = "Visited" \/ stack'[1].ent = e
    BY DEF BehindOK, PointeesFirst, Operands
  <2>1. state'[e] = state[e]
    BY <1>4
  <2> QED
    BY <2>1 DEF LossInv, BehindOK
<1> QED
  BY <1>3, <1>5

(* A pointer that breaks a cycle is not the root, so the root call goes on. *)
LEMMA BreakAtPointerLossInv ==
  ASSUME LossInv, BreakAtPointer
  PROVE  (RootOK /\ CycleOK /\ BehindOK)'
<1>1. /\ stack \in Seq(Frame)
      /\ stack # <<>>
      /\ UNCHANGED <<graph, next, vec>>
      /\ state' = [state EXCEPT ![Top.ent] = "Unvisited"]
      /\ cyclic' = FALSE
      /\ ReturnFalse
      /\ state \in [Entries -> DFSState]
  BY DEF LossInv, SortInv, TypeOK, BreakAtPointer, OperandCyclic
<1>2. /\ stack' \in Seq(Frame)
      /\ Len(stack') = Len(stack) - 1
      /\ \A i \in 1 .. Len(stack') : stack'[i].ent = stack[i].ent
      /\ Len(stack) \in Nat \ {0}
      /\ Top.ent \in Entries
  BY <1>1, ReturnFalseFacts, PopFacts
<1>3. CycleOK'
  BY <1>1 DEF CycleOK
<1>4. \A e \in Entries \ {Top.ent} : state'[e] = state[e]
  BY <1>1, <1>2
<1>5. CASE Len(stack) = 1
  <2>1. stack' = <<>>
    BY <1>2, <1>5, EmptySeq
  <2>2. ~PointeesFirst
    BY <1>5, RootNeverBreaks
  <2>3. ~PointeesFirst'
    BY <1>1, <2>2 DEF PointeesFirst, Operands
  <2> QED
    BY <1>3, <2>1, <2>3 DEF RootOK, BehindOK
<1>6. CASE Len(stack) # 1
  <2>1. stack' # <<>> /\ stack'[1].ent = stack[1].ent
    BY <1>2, <1>6, EmptySeq
  <2> QED
    BY <1>1, <1>3, <1>4, <1>6, <2>1, InnerReturnKeepsBehind
<1> QED
  BY <1>5, <1>6

(* A cycle that is propagated still leads to a pointer above it. *)
LEMMA PropagateCycleLossInv ==
  ASSUME LossInv, PropagateCycle
  PROVE  (RootOK /\ CycleOK /\ BehindOK)'
<1> DEFINE n == Len(stack)
<1>1. /\ stack \in Seq(Frame)
      /\ stack # <<>>
      /\ UNCHANGED <<graph, next, fwd, vec>>
      /\ state' = [state EXCEPT ![Top.ent] = "Unvisited"]
      /\ cyclic' = TRUE
      /\ stack' = Pop(stack)
      /\ state \in [Entries -> DFSState]
  BY DEF LossInv, SortInv, TypeOK, PropagateCycle, OperandCyclic
<1>2. /\ stack' \in Seq(Frame)
      /\ Len(stack') = n - 1
      /\ \A i \in 1 .. (n - 1) : stack'[i] = stack[i]
      /\ n \in Nat \ {0}
      /\ Top = stack[n]
      /\ Top.ent \in Entries
  BY <1>1, PopFacts
<1>3. \A e \in Entries : state'[e] = IF e = Top.ent THEN "Unvisited" ELSE state[e]
  BY <1>1, <1>2
<1>4. CASE n = 1
  <2>1. stack' = <<>>
    BY <1>2, <1>4, EmptySeq
  <2> QED
    BY <1>1, <2>1 DEF RootOK, BehindOK, CycleOK
<1>5. CASE n # 1
  <2>1. stack' # <<>> /\ stack'[1].ent = stack[1].ent
    BY <1>2, <1>5, EmptySeq
  <2>2. RootOK' /\ BehindOK'
    BY <1>1, <1>3, <1>5, <2>1, InnerReturnKeepsBehind
  <2>3. n - 1 \in 1 .. n /\ n \in 1 .. n /\ n = (n - 1) + 1
    BY <1>2, <1>5
  <2>4. /\ stack[n - 1].idx <= Len(graph.ops[stack[n - 1].ent])
        /\ Top.ent = graph.ops[stack[n - 1].ent][stack[n - 1].idx]
    BY <1>2, <2>3 DEF LossInv, SortInv, CallsOK, HasOperandLeft, CurrentOperand, Operands
  <2>5. stack'[Len(stack')] = stack[n - 1]
    BY <1>2, <1>5
  <2>6. CycleOK'
    BY <1>1, <1>2, <1>3, <2>4, <2>5
       DEF CycleOK, HasOperandLeft, CurrentOperand, Operands, Top
  <2> QED
    BY <2>2, <2>6
<1> QED
  BY <1>4, <1>5

(* An entry that is pushed is no longer missing. *)
LEMMA EmitLossInv ==
  ASSUME LossInv, Emit
  PROVE  (RootOK /\ CycleOK /\ BehindOK)'
<1>1. /\ stack \in Seq(Frame)
      /\ stack # <<>>
      /\ ~cyclic
      /\ UNCHANGED <<graph, next, cyclic, fwd>>
      /\ state' = [state EXCEPT ![Top.ent] = "Visited"]
      /\ ReturnFalse
      /\ state \in [Entries -> DFSState]
  BY DEF LossInv, SortInv, TypeOK, Emit
<1>2. /\ stack' \in Seq(Frame)
      /\ Len(stack') = Len(stack) - 1
      /\ \A i \in 1 .. Len(stack') : stack'[i].ent = stack[i].ent
      /\ Len(stack) \in Nat \ {0}
      /\ Top = stack[Len(stack)]
      /\ Top.ent \in Entries
  BY <1>1, ReturnFalseFacts, PopFacts
<1>3. CycleOK'
  BY <1>1 DEF CycleOK
<1>4. \A e \in Entries : state'[e] = IF e = Top.ent THEN "Visited" ELSE state[e]
  BY <1>1, <1>2
<1>5. CASE Len(stack) = 1
  <2>1. stack' = <<>> /\ Top = stack[1]
    BY <1>2, <1>5, EmptySeq
  <2>2. \A e \in Entries : PointeesFirst /\ e < next => state'[e] = "Visited"
    BY <1>1, <1>4, <2>1 DEF LossInv, BehindOK
  <2>3. BehindOK'
    BY <1>1, <2>2 DEF BehindOK, PointeesFirst, Operands
  <2> QED
    BY <1>3, <2>1, <2>3 DEF RootOK
<1>6. CASE Len(stack) # 1
  <2>1. stack' # <<>> /\ stack'[1].ent = stack[1].ent
    BY <1>2, <1>6, EmptySeq
  <2> QED
    BY <1>1, <1>3, <1>4, <1>6, <2>1, InnerReturnKeepsBehind
<1> QED
  BY <1>5, <1>6

(* Every step keeps what is known of the entries behind the iterator. *)
LEMMA NextLossInv == LossInv /\ [Next]_vars => LossInv'
<1> SUFFICES ASSUME LossInv, [Next]_vars PROVE LossInv'
  OBVIOUS
<1>1. SortInv'
  BY NextSortInv DEF LossInv
<1>2. CASE UNCHANGED vars
  BY <1>1, <1>2 DEF vars, LossInv, RootOK, CycleOK, BehindOK, PointeesFirst,
                    HasOperandLeft, CurrentOperand, Operands, Top
<1> QED
  BY <1>1, <1>2, VisitRootLossInv, SkipVisitedLossInv, DescendLossInv,
     BreakAtPointerLossInv, PropagateCycleLossInv, EmitLossInv
     DEF LossInv, Next, Finished

(***************************************************************************)
(* With ids handed out pointee first, as the writer does, a sort that ends *)
(* has written every entry, the forward-declared pointers included.        *)
(***************************************************************************)
THEOREM SortLosesNothing == Spec => []WriterLosesNothing
<1>1. LossInv => WriterLosesNothing
  <2> SUFFICES ASSUME LossInv, Sorted, PointeesFirst, NEW e \in Entries
               PROVE  state[e] = "Visited"
    BY DEF WriterLosesNothing
  <2>1. e < next
    BY NAssumption DEF Sorted, Entries
  <2> QED
    BY <2>1 DEF LossInv, BehindOK, Sorted
<1> QED
  BY <1>1, InitLossInv, NextLossInv, PTL DEF Spec

-----------------------------------------------------------------------------
(***************************************************************************)
(* The order of the text.  operator<< writes the containers one after the  *)
(* other, so a use across containers is in order only when the operand's   *)
(* container comes first: an integer type needs nothing of the later       *)
(* containers, an integer constant no other type or constant, another type *)
(* no constant that is not an integer.                                     *)
(***************************************************************************)
Rank(c) ==
  CASE c = "TypeIntVec"  -> 1
    [] c = "ConstIntVec" -> 2
    [] c = "TypeVec"     -> 3
    [] OTHER             -> 4

Layered ==
  \A e \in Entries : \A k \in 1 .. Len(Operands(e)) :
    Rank(ContainerOf(graph.kind[Operands(e)[k]])) <= Rank(ContainerOf(graph.kind[e]))

(* The number of entries written before those of container c. *)
Offset(c) ==
  CASE c = "TypeIntVec"  -> 0
    [] c = "ConstIntVec" -> Len(vec["TypeIntVec"])
    [] c = "TypeVec"     -> Len(vec["TypeIntVec"]) + Len(vec["ConstIntVec"])
    [] OTHER             -> Len(vec["TypeIntVec"]) + Len(vec["ConstIntVec"]) + Len(vec["TypeVec"])

(* Where the parts of a concatenation of four sequences are. *)
LEMMA TwoParts ==
  ASSUME NEW S, NEW s \in Seq(S), NEW r \in Seq(S), NEW w, w = s \o r,
         NEW m, m = Len(s), NEW n, n = Len(r)
  PROVE  /\ w \in Seq(S) /\ m \in Nat /\ n \in Nat /\ Len(w) = m + n
         /\ \A i \in 1 .. m : w[i] = s[i]
         /\ \A i \in 1 .. n : w[m + i] = r[i]
OBVIOUS

LEMMA FourParts ==
  ASSUME NEW S, NEW a \in Seq(S), NEW b \in Seq(S), NEW c \in Seq(S), NEW d \in Seq(S),
         NEW u, u = a \o b, NEW v, v = u \o c, NEW w, w = v \o d,
         NEW la, la = Len(a), NEW lb, lb = Len(b), NEW lc, lc = Len(c), NEW ld, ld = Len(d)
  PROVE  /\ la \in Nat /\ lb \in Nat /\ lc \in Nat /\ ld \in Nat
         /\ Len(w) = la + lb + lc + ld
         /\ \A i \in 1 .. la : w[i] = a[i]
         /\ \A i \in 1 .. lb : w[la + i] = b[i]
         /\ \A i \in 1 .. lc : w[la + lb + i] = c[i]
         /\ \A i \in 1 .. ld : w[la + lb + lc + i] = d[i]
<1>1. u \in Seq(S) /\ la \in Nat /\ lb \in Nat /\ Len(u) = la + lb
      /\ (\A i \in 1 .. la : u[i] = a[i]) /\ (\A i \in 1 .. lb : u[la + i] = b[i])
  BY TwoParts
<1>2. v \in Seq(S) /\ lc \in Nat /\ Len(v) = (la + lb) + lc
      /\ (\A i \in 1 .. (la + lb) : v[i] = u[i]) /\ (\A i \in 1 .. lc : v[la + lb + i] = c[i])
  BY <1>1, TwoParts
<1>3. ld \in Nat /\ Len(w) = (la + lb + lc) + ld
      /\ (\A i \in 1 .. (la + lb + lc) : w[i] = v[i])
      /\ (\A i \in 1 .. ld : w[la + lb + lc + i] = d[i])
  BY <1>2, TwoParts
<1>4. \A i \in 1 .. la : i \in 1 .. (la + lb) /\ i \in 1 .. (la + lb + lc)
  BY <1>1, <1>2
<1>5. \A i \in 1 .. lb : la + i \in 1 .. (la + lb) /\ la + i \in 1 .. (la + lb + lc)
  BY <1>1, <1>2
<1>6. \A i \in 1 .. lc : la + lb + i \in 1 .. (la + lb + lc)
  BY <1>1, <1>2
<1> QED BY <1>1, <1>2, <1>3, <1>4, <1>5, <1>6

(* A position of the whole is one of exactly one part. *)
LEMMA FourRanges ==
  ASSUME NEW la \in Nat, NEW lb \in Nat, NEW lc \in Nat, NEW ld \in Nat
  PROVE  /\ \A i \in 1 .. (la + lb + lc + ld) :
              \/ \E j \in 1 .. la : i = 0 + j
              \/ \E j \in 1 .. lb : i = la + j
              \/ \E j \in 1 .. lc : i = la + lb + j
              \/ \E j \in 1 .. ld : i = la + lb + lc + j
         /\ \A j \in 1 .. la : 0 + j \in 1 .. (la + lb + lc + ld) /\ 0 + j = j
         /\ \A j \in 1 .. lb : la + j \in 1 .. (la + lb + lc + ld)
         /\ \A j \in 1 .. lc : la + lb + j \in 1 .. (la + lb + lc + ld)
         /\ \A j \in 1 .. ld : la + lb + lc + j \in 1 .. (la + lb + lc + ld)
<1>1. ASSUME NEW i \in 1 .. (la + lb + lc + ld)
      PROVE  \/ \E j \in 1 .. la : i = 0 + j
             \/ \E j \in 1 .. lb : i = la + j
             \/ \E j \in 1 .. lc : i = la + lb + j
             \/ \E j \in 1 .. ld : i = la + lb + lc + j
  <2>1. CASE i <= la
    BY <2>1, i \in 1 .. la
  <2>2. CASE la < i /\ i <= la + lb
    BY <2>2, i - la \in 1 .. lb, i = la + (i - la)
  <2>3. CASE la + lb < i /\ i <= la + lb + lc
    BY <2>3, i - (la + lb) \in 1 .. lc, i = la + lb + (i - (la + lb))
  <2>4. CASE la + lb + lc < i
    BY <2>4, i - (la + lb + lc) \in 1 .. ld, i = la + lb + lc + (i - (la + lb + lc))
  <2> QED BY <2>1, <2>2, <2>3, <2>4
<1> QED BY <1>1

(* The entries of a container are written together, lower ranks first. *)
LEMMA OutputParts ==
  ASSUME TypeOK
  PROVE  /\ \A c \in Containers : Offset(c) \in Nat /\ Len(vec[c]) \in Nat
         /\ \A c \in Containers : \A j \in 1 .. Len(vec[c]) :
              Offset(c) + j \in 1 .. Len(Output) /\ Output[Offset(c) + j] = vec[c][j]
         /\ \A i \in 1 .. Len(Output) : \E c \in Containers : \E j \in 1 .. Len(vec[c]) :
              i = Offset(c) + j
         /\ \A c, d \in Containers : Rank(c) < Rank(d) => Offset(c) + Len(vec[c]) <= Offset(d)
<1> DEFINE Names == {"TypeIntVec", "ConstIntVec", "TypeVec", "ConstAndVarVec"}
           ti == vec["TypeIntVec"]
           ci == vec["ConstIntVec"]
           ty == vec["TypeVec"]
           cv == vec["ConstAndVarVec"]
           la == Len(ti)
           lb == Len(ci)
           lc == Len(ty)
           ld == Len(cv)
<1>1. ti \in Seq(Entries) /\ ci \in Seq(Entries) /\ ty \in Seq(Entries) /\ cv \in Seq(Entries)
  BY DEF TypeOK, Containers
<1>2. /\ Offset("TypeIntVec") = 0 /\ Offset("ConstIntVec") = la
      /\ Offset("TypeVec") = la + lb /\ Offset("ConstAndVarVec") = la + lb + lc
  BY DEF Offset
<1>3. /\ Rank("TypeIntVec") = 1 /\ Rank("ConstIntVec") = 2
      /\ Rank("TypeVec") = 3 /\ Rank("ConstAndVarVec") = 4
  BY DEF Rank
<1>4. Output = ((ti \o ci) \o ty) \o cv
  BY DEF Output
<1>5. /\ Len(vec["TypeIntVec"]) = la /\ Len(vec["ConstIntVec"]) = lb
      /\ Len(vec["TypeVec"]) = lc /\ Len(vec["ConstAndVarVec"]) = ld
      /\ vec["TypeIntVec"] = ti /\ vec["ConstIntVec"] = ci
      /\ vec["TypeVec"] = ty /\ vec["ConstAndVarVec"] = cv
      /\ la = Len(ti) /\ lb = Len(ci) /\ lc = Len(ty) /\ ld = Len(cv)
  OBVIOUS
<1>8. Containers = Names
  BY DEF Containers
<1> HIDE DEF ti, ci, ty, cv, la, lb, lc, ld
<1>6. /\ la \in Nat /\ lb \in Nat /\ lc \in Nat /\ ld \in Nat
      /\ Len(Output) = la + lb + lc + ld
      /\ \A i \in 1 .. la : Output[i] = ti[i]
      /\ \A i \in 1 .. lb : Output[la + i] = ci[i]
      /\ \A i \in 1 .. lc : Output[la + lb + i] = ty[i]
      /\ \A i \in 1 .. ld : Output[la + lb + lc + i] = cv[i]
  BY <1>1, <1>4, <1>5, FourParts
<1>7. /\ \A i \in 1 .. (la + lb + lc + ld) :
           \/ \E j \in 1 .. la : i = 0 + j
           \/ \E j \in 1 .. lb : i = la + j
           \/ \E j \in 1 .. lc : i = la + lb + j
           \/ \E j \in 1 .. ld : i = la + lb + lc + j
      /\ \A j \in 1 .. la : 0 + j \in 1 .. (la + lb + lc + ld) /\ 0 + j = j
      /\ \A j \in 1 .. lb : la + j \in 1 .. (la + lb + lc + ld)
      /\ \A j \in 1 .. lc : la + lb + j \in 1 .. (la + lb + lc + ld)
      /\ \A j \in 1 .. ld : la + lb + lc + j \in 1 .. (la + lb + lc + ld)
  BY <1>6, FourRanges
<1>9. \A x \in Names : Offset(x) \in Nat /\ Len(vec[x]) \in Nat
  <2>1. la + lb \in Nat /\ la + lb + lc \in Nat /\ 0 \in Nat
    BY <1>6
  <2> QED BY <1>2, <1>5, <1>6, <2>1, Zenon
<1>10. ASSUME NEW x \in Names, NEW j \in 1 .. Len(vec[x])
       PROVE  Offset(x) + j \in 1 .. Len(Output) /\ Output[Offset(x) + j] = vec[x][j]
  <2>1. CASE x = "TypeIntVec"
    BY <1>2, <1>5, <1>6, <1>7, <2>1
  <2>2. CASE x = "ConstIntVec"
    BY <1>2, <1>5, <1>6, <1>7, <2>2
  <2>3. CASE x = "TypeVec"
    BY <1>2, <1>5, <1>6, <1>7, <2>3
  <2>4. CASE x = "ConstAndVarVec"
    BY <1>2, <1>5, <1>6, <1>7, <2>4
  <2> QED BY <2>1, <2>2, <2>3, <2>4
<1>11. ASSUME NEW x \in Names, NEW y \in Names, Rank(x) < Rank(y)
       PROVE  Offset(x) + Len(vec[x]) <= Offset(y)
  <2>1. /\ 0 + la <= la /\ 0 + la <= la + lb /\ 0 + la <= la + lb + lc
        /\ la + lb <= la + lb /\ la + lb <= la + lb + lc /\ la + lb + lc <= la + lb + lc
    BY <1>6
  <2>2. CASE x = "TypeIntVec"
    BY <1>2, <1>3, <1>5, <1>11, <2>1, <2>2
  <2>3. CASE x = "ConstIntVec"
    BY <1>2, <1>3, <1>5, <1>11, <2>1, <2>3
  <2>4. CASE x = "TypeVec"
    BY <1>2, <1>3, <1>5, <1>11, <2>1, <2>4
  <2>5. CASE x = "ConstAndVarVec"
    BY <1>3, <1>11, <2>5
  <2> QED BY <2>2, <2>3, <2>4, <2>5
<1>12. ASSUME NEW i \in 1 .. Len(Output)
       PROVE  \E x \in Names : \E j \in 1 .. Len(vec[x]) : i = Offset(x) + j
  <2>1. CASE \E j \in 1 .. la : i = 0 + j
    BY <1>2, <1>5, <2>1
  <2>2. CASE \E j \in 1 .. lb : i = la + j
    BY <1>2, <1>5, <2>2
  <2>3. CASE \E j \in 1 .. lc : i = la + lb + j
    BY <1>2, <1>5, <2>3
  <2>4. CASE \E j \in 1 .. ld : i = la + lb + lc + j
    BY <1>2, <1>5, <2>4
  <2> QED BY <1>6, <1>7, <2>1, <2>2, <2>3, <2>4, Zenon
<1> HIDE DEF Names
<1> QED BY <1>8, <1>9, <1>10, <1>11, <1>12

(***************************************************************************)
(* Declared before used: in the text written, whatever recursion the graph *)
(* has, each operand of an entry comes before the entry or is declared by  *)
(* an OpTypeForwardPointer, if no entry needs one of a later container.    *)
(***************************************************************************)
THEOREM SortDeclaredBeforeUse == Spec => [](Layered => DeclaredBeforeUse)
<1>1. SortInv => (Layered => DeclaredBeforeUse)
  <2> SUFFICES ASSUME SortInv, Layered, NEW i \in 1 .. Len(Output),
                      NEW k \in 1 .. Len(Operands(Output[i])),
                      Operands(Output[i])[k] \notin fwd
               PROVE  \E j \in 1 .. (i - 1) : Output[j] = Operands(Output[i])[k]
    BY DEF DeclaredBeforeUse
  <2>1. TypeOK
    BY DEF SortInv
  <2>0. PICK c \in Containers : \E j \in 1 .. Len(vec[c]) : i = Offset(c) + j
    BY <2>1, OutputParts
  <2>2. PICK n \in 1 .. Len(vec[c]) : i = Offset(c) + n
    BY <2>0
  <2>3. Output[i] = vec[c][n] /\ Offset(c) \in Nat /\ Len(vec[c]) \in Nat
    BY <2>1, <2>2, OutputParts
  <2> DEFINE e == vec[c][n]
             x == Operands(e)[k]
             d == ContainerOf(graph.kind[x])
  <2>4. e \in Entries /\ ContainerOf(graph.kind[e]) = c
    <3>1. vec[c] \in Seq(Entries)
      BY <2>1 DEF TypeOK
    <3> QED BY <2>3, <3>1 DEF SortInv, ContainersOK
  <2>5. k \in 1 .. Len(Operands(e))
    BY <2>3
  <2>6. x \in Entries
    BY <2>1, <2>4, <2>5, GraphWellTyped DEF Operands
  <2>7. d \in Containers
    BY <2>1, <2>6, GraphWellTyped
  <2>8. state[x] = "Visited" /\ (d = c => \E j \in 1 .. (n - 1) : vec[c][j] = x)
    BY <2>2, <2>3, <2>5 DEF SortInv, OperandsPrecede
  <2>9. CASE d = c
    <3>1. PICK j \in 1 .. (n - 1) : vec[c][j] = x
      BY <2>8, <2>9
    <3>2. Offset(c) + j \in 1 .. (i - 1) /\ j \in 1 .. Len(vec[c])
      <4>1. \A o, l \in Nat : \A m \in 1 .. l : \A h \in 1 .. (m - 1) :
              o + h \in 1 .. (o + m - 1) /\ h \in 1 .. l
        OBVIOUS
      <4> QED BY <2>2, <2>3, <4>1
    <3>3. Output[Offset(c) + j] = x
      BY <2>1, <3>1, <3>2, OutputParts
    <3> QED BY <2>3, <3>2, <3>3
  <2>10. CASE d # c
    <3>1. PICK j \in 1 .. Len(vec[d]) : vec[d][j] = x
      BY <2>6, <2>8 DEF SortInv, EmittedOnce
    <3>2. Rank(d) <= Rank(c)
      BY <2>4, <2>5 DEF Layered
    <3>3. Rank(d) < Rank(c)
      BY <2>7, <2>10, <3>2 DEF Rank, Containers
    <3>4. Offset(d) + Len(vec[d]) <= Offset(c) /\ Offset(d) \in Nat /\ Len(vec[d]) \in Nat
      BY <2>1, <2>7, <3>3, OutputParts
    <3>5. Offset(d) + j \in 1 .. (i - 1)
      <4>1. \A o, p, l, r \in Nat : \A m \in 1 .. l : \A h \in 1 .. r :
              p + r <= o => p + h \in 1 .. (o + m - 1)
        OBVIOUS
      <4> HIDE DEF d
      <4>2. Offset(d) + j \in 1 .. (Offset(c) + n - 1)
        BY <2>3, <3>4, <4>1
      <4> QED BY <2>2, <2>3, <4>2
    <3>6. Output[Offset(d) + j] = x
      BY <2>1, <2>7, <3>1, OutputParts
    <3> QED BY <2>3, <3>5, <3>6
  <2> QED BY <2>9, <2>10
<1> QED
  BY <1>1, InitSortInv, NextSortInv, PTL DEF Spec
=============================================================================
