-------------------------- MODULE ReadValuesProofs --------------------------
(***************************************************************************)
(* Proofs about ForwardValues and ReadValues for functions of any size,    *)
(* with any number of parameters and constants, in every layout: forwards  *)
(* are replaced and deleted safely, ids stay consistent, and a function    *)
(* that was written and read back has the operands it had.                 *)
(***************************************************************************)
EXTENDS ReadValues, WellFoundedInduction, TLAPS

(* The writer: ForwardValues.                                              *)


(***************************************************************************)
(* Ids and entries are inverse to each other, and ids are below NextId.    *)
(***************************************************************************)
IdsOK ==
  /\ \A i \in DOMAIN IdEntryMap : obj[IdEntryMap[i]].live /\ obj[IdEntryMap[i]].id = i
  /\ \A o \in Objects : obj[o].live =>
       obj[o].id < NextId /\ obj[o].id \in DOMAIN IdEntryMap /\ IdEntryMap[obj[o].id] = o

(***************************************************************************)
(* What ValueMap holds is live, and is a forward exactly as long as the    *)
(* instruction it stands for has not been translated (or never will be).   *)
(* Every instruction translated is mapped, and the parameters are real.    *)
(***************************************************************************)
Awaited(v) == v \in Insts /\ (v >= pc \/ prog.kind[v] = "drop")

MappedOK ==
  /\ \A v \in Values : ValueMap[v] # NoObj =>
       /\ obj[ValueMap[v]].live
       /\ obj[ValueMap[v]].fwd => Awaited(v)
       /\ Awaited(v) => obj[ValueMap[v]].fwd
  /\ \A v \in Insts : ValueMap[v] = NoObj => Awaited(v)
  /\ \A a \in 1 .. Args : obj[a].live /\ ~obj[a].fwd

(* A forward is in ValueMap, and stands for one instruction.               *)
ForwardsOK ==
  /\ \A o \in Objects : obj[o].live /\ obj[o].fwd => \E v \in Insts : ValueMap[v] = o
  /\ \A v, w \in Values :
       ValueMap[v] # NoObj /\ ValueMap[v] = ValueMap[w] /\ obj[ValueMap[v]].fwd => v = w

(***************************************************************************)
(* The writer's locals: the operands are the values ValueMap has for them, *)
(* and what will be mapped is a real value.                                *)
(***************************************************************************)
LocalsOK ==
  /\ \A k \in 1 .. Len(got) : got[k] = ValueMap[Operands[k]]
  /\ made # NoObj => prog.kind[pc] # "drop" /\ obj[made].live /\ ~obj[made].fwd

(* The parameters exist; only at an instruction there are operands.        *)
ControlOK ==
  /\ Args <= Len(obj)
  /\ pc \notin Insts => got = <<>>
  /\ pc \in Insts => Len(got) <= Len(Operands)
  /\ made # NoObj => pc \in Insts

ForwardInv ==
  /\ TypeOK /\ ControlOK
  /\ YieldsFollow(prog) => IdsOK /\ MappedOK /\ ForwardsOK /\ LocalsOK

-----------------------------------------------------------------------------
(***************************************************************************)
(* In a tracked function only an instruction of its own takes the place of *)
(* a forward; until then nothing refers to it.                             *)
(***************************************************************************)
UsedOK ==
  \A v \in Insts : v >= pc /\ ValueMap[v] # NoObj =>
    \E j \in Insts : j <= pc /\ v \in OperandsOf(prog, j)

FreshOK ==
  made # NoObj /\ prog.kind[pc] = "inst" =>
    /\ \A v \in Values : ValueMap[v] # made
    /\ obj[made].id \notin NamedId

RecordedOK ==
  \A o \in Objects :
    /\ Len(obj[o].ops) = Len(obj[o].refs)
    /\ \A k \in 1 .. Len(obj[o].refs) :
         LET v == obj[o].refs[k]
         IN  /\ \E j \in Insts : v \in OperandsOf(prog, j)
             /\ ValueMap[v] # NoObj
             /\ obj[o].ops[k] = obj[ValueMap[v]].id

AnnotatedOK ==
  /\ NamedId \subseteq DOMAIN IdEntryMap
  /\ \A d \in DecorateVec : obj[d[1]].live /\ ~obj[d[1]].fwd /\ obj[d[1]].id = d[2]

TrackedOK == UsedOK /\ FreshOK /\ RecordedOK /\ AnnotatedOK

TrackedInv == ForwardInv /\ (Tracked(prog) => TrackedOK)

-----------------------------------------------------------------------------
(* What Append does to the table of objects. *)
LEMMA AppendObj ==
  ASSUME NEW s \in Seq(ObjType), NEW o \in ObjType
  PROVE  /\ Append(s, o) \in Seq(ObjType)
         /\ Len(Append(s, o)) = Len(s) + 1
         /\ \A x \in 1 .. Len(s) : Append(s, o)[x] = s[x]
         /\ Append(s, o)[Len(s) + 1] = o
OBVIOUS

(* The fields of an object in the table. *)
LEMMA ObjFields ==
  ASSUME NEW s \in Seq(ObjType), NEW x \in 1 .. Len(s)
  PROVE  /\ s[x] \in ObjType /\ s[x].id \in Nat /\ s[x].fwd \in BOOLEAN
         /\ s[x].live \in BOOLEAN /\ s[x].ops \in Seq(Nat) /\ s[x].refs \in Seq(Values)
<1>1. s[x] \in ObjType
  OBVIOUS
<1> QED BY <1>1 DEF ObjType

(* One object gets another id. *)
LEMMA SetId ==
  ASSUME NEW s \in Seq(ObjType), NEW m \in 1 .. Len(s), NEW id \in Nat
  PROVE  /\ [s EXCEPT ![m].id = id] \in Seq(ObjType)
         /\ Len([s EXCEPT ![m].id = id]) = Len(s)
         /\ \A x \in 1 .. Len(s) :
              /\ [s EXCEPT ![m].id = id][x].id = IF x = m THEN id ELSE s[x].id
              /\ [s EXCEPT ![m].id = id][x].live = s[x].live
              /\ [s EXCEPT ![m].id = id][x].fwd = s[x].fwd
              /\ [s EXCEPT ![m].id = id][x].ops = s[x].ops
              /\ [s EXCEPT ![m].id = id][x].refs = s[x].refs
<1> DEFINE o == [s[m] EXCEPT !.id = id]
<1>1. s[m] \in ObjType
  OBVIOUS
<1>2. o \in ObjType /\ o.id = id /\ o.live = s[m].live /\ o.fwd = s[m].fwd
      /\ o.ops = s[m].ops /\ o.refs = s[m].refs
  BY <1>1 DEF ObjType
<1>3. [s EXCEPT ![m].id = id] = [s EXCEPT ![m] = o]
  OBVIOUS
<1> HIDE DEF o
<1>4. /\ [s EXCEPT ![m] = o] \in Seq(ObjType) /\ Len([s EXCEPT ![m] = o]) = Len(s)
      /\ \A x \in 1 .. Len(s) : [s EXCEPT ![m] = o][x] = IF x = m THEN o ELSE s[x]
  BY <1>2
<1> QED BY <1>2, <1>3, <1>4

(* One object is deleted. *)
Deleted(s, f) == [s EXCEPT ![f].live = FALSE]

LEMMA SetDead ==
  ASSUME NEW s \in Seq(ObjType), NEW f \in 1 .. Len(s)
  PROVE  /\ Deleted(s, f) \in Seq(ObjType)
         /\ Len(Deleted(s, f)) = Len(s)
         /\ \A x \in 1 .. Len(s) :
              /\ Deleted(s, f)[x].id = s[x].id
              /\ Deleted(s, f)[x].live <=> s[x].live /\ x # f
              /\ Deleted(s, f)[x].fwd = s[x].fwd
              /\ Deleted(s, f)[x].ops = s[x].ops
              /\ Deleted(s, f)[x].refs = s[x].refs
<1> DEFINE o == [s[f] EXCEPT !.live = FALSE]
           t == [s EXCEPT ![f] = o]
<1>1. s[f] \in ObjType
  OBVIOUS
<1>2. o \in ObjType /\ o.id = s[f].id /\ ~o.live /\ o.fwd = s[f].fwd
      /\ o.ops = s[f].ops /\ o.refs = s[f].refs
  BY <1>1 DEF ObjType
<1>3. Deleted(s, f) = t
  BY DEF Deleted
<1> HIDE DEF o
<1>4. /\ t \in Seq(ObjType) /\ Len(t) = Len(s)
      /\ \A x \in 1 .. Len(s) : t[x] = IF x = f THEN o ELSE s[x]
  BY <1>2
<1> HIDE DEF t
<1>5. ASSUME NEW x \in 1 .. Len(s)
      PROVE  /\ t[x].id = s[x].id
             /\ t[x].live <=> s[x].live /\ x # f
             /\ t[x].fwd = s[x].fwd /\ t[x].ops = s[x].ops /\ t[x].refs = s[x].refs
  <2>1. CASE x = f
    BY <1>2, <1>4, <2>1
  <2>2. CASE x # f
    BY <1>4, <2>2
  <2> QED BY <2>1, <2>2
<1> QED BY <1>3, <1>4, <1>5

(* What replaceForward does to the table: f is deleted, m has its id. *)
IdTaken(s, m, f, id) == [s EXCEPT ![m].id = id, ![f].live = FALSE]

LEMMA ReplaceObj ==
  ASSUME NEW s \in Seq(ObjType), NEW m \in 1 .. Len(s), NEW f \in 1 .. Len(s), NEW id \in Nat
  PROVE  /\ IdTaken(s, m, f, id) \in Seq(ObjType) /\ Len(IdTaken(s, m, f, id)) = Len(s)
         /\ \A x \in 1 .. Len(s) :
              /\ IdTaken(s, m, f, id)[x].id = IF x = m THEN id ELSE s[x].id
              /\ IdTaken(s, m, f, id)[x].live <=> s[x].live /\ x # f
              /\ IdTaken(s, m, f, id)[x].fwd = s[x].fwd
              /\ IdTaken(s, m, f, id)[x].ops = s[x].ops
              /\ IdTaken(s, m, f, id)[x].refs = s[x].refs
<1> DEFINE r == [s EXCEPT ![m].id = id]
           t == Deleted(r, f)
<1>1. IdTaken(s, m, f, id) = t
  BY DEF IdTaken, Deleted
<1>2. /\ r \in Seq(ObjType) /\ Len(r) = Len(s)
      /\ \A x \in 1 .. Len(s) :
           /\ r[x].id = IF x = m THEN id ELSE s[x].id
           /\ r[x].live = s[x].live
           /\ r[x].fwd = s[x].fwd /\ r[x].ops = s[x].ops /\ r[x].refs = s[x].refs
  BY SetId
<1> HIDE DEF r
<1>3. r \in Seq(ObjType) /\ f \in 1 .. Len(r)
  BY <1>2
<1>4. /\ t \in Seq(ObjType) /\ Len(t) = Len(r)
      /\ \A x \in 1 .. Len(r) :
           /\ t[x].id = r[x].id
           /\ t[x].live <=> r[x].live /\ x # f
           /\ t[x].fwd = r[x].fwd
           /\ t[x].ops = r[x].ops
           /\ t[x].refs = r[x].refs
  BY <1>3, SetDead, SMTT(40)
<1> HIDE DEF t
<1> QED BY <1>1, <1>2, <1>4

(* Parameters, instructions and constants are values. *)
LEMMA ValueSets ==
  /\ Insts \subseteq Values /\ ArgValues \subseteq Values /\ ConstValues \subseteq Values
  /\ Values \subseteq Nat
  /\ \A v \in ArgValues : v - N \in 1 .. Args /\ v \notin Insts
  /\ \A v \in ConstValues : v \notin Insts
  /\ \A v \in Values : v \in Insts \/ v \in ArgValues \/ v \in ConstValues
BY SizesAssumption DEF Insts, ArgValues, ConstValues, Values

(* An operand of an instruction is a value. *)
LEMMA OperandIsValue ==
  ASSUME TypeOK, AtOperand
  PROVE  Operand \in Values /\ Operands \in Seq(Values) /\ Len(got) + 1 \in 1 .. Len(Operands)
<1>1. Operands \in Seq(Values)
  BY DEF TypeOK, AtOperand, Operands, ProgramType
<1>2. Len(got) + 1 \in 1 .. Len(Operands)
  BY <1>1 DEF AtOperand, TypeOK
<1> QED BY <1>1, <1>2 DEF Operand

LEMMA InitTypes == Init => TypeOK /\ ControlOK
<1> SUFFICES ASSUME Init PROVE TypeOK /\ ControlOK
  OBVIOUS
<1>1. prog \in ProgramType /\ WellFormed(prog) /\ pc \in 1 .. (N + 1) /\ made \in Handles
  BY ProgramsAssumption, SizesAssumption DEF Init, Handles
<1>2. obj \in Seq(ObjType) /\ Len(obj) = Args
  BY SizesAssumption DEF Init, Live, ObjType
<1>3. got \in Seq(Objects) /\ got = <<>> /\ Len(got) = 0
  BY DEF Init
<1>4. ValueMap \in [Values -> Handles]
  BY DEF Init, Handles
<1>5. /\ DOMAIN IdEntryMap \subseteq Nat
      /\ \A i \in DOMAIN IdEntryMap : IdEntryMap[i] \in Objects
  BY <1>2, SizesAssumption DEF Init, Objects
<1>6. NextId \in Nat /\ NamedId \subseteq Nat /\ DecorateVec \subseteq Objects \X Nat
  BY SizesAssumption DEF Init
<1>7. ControlOK
  <2>1. pc \in Insts => Operands \in Seq(Values)
    BY <1>1 DEF Operands, ProgramType
  <2> QED BY <1>2, <1>3, <2>1, SizesAssumption DEF ControlOK, Init
<1> QED BY <1>1, <1>2, <1>3, <1>4, <1>5, <1>6, <1>7 DEF TypeOK

(* What addEntry does to the tables, for any object with a new id. *)
LEMMA AddEntryTypes ==
  ASSUME TypeOK, NEW o \in ObjType, AddEntry(o)
  PROVE  /\ obj' \in Seq(ObjType) /\ Len(obj') = Len(obj) + 1
         /\ \A x \in Objects : obj'[x] = obj[x]
         /\ obj'[Len(obj) + 1] = o
         /\ Objects \subseteq Objects' /\ Len(obj) + 1 \in Objects' /\ Len(obj) + 1 \notin Objects
         /\ \A x \in Objects' : x \in Objects \/ x = Len(obj) + 1
         /\ Handles \subseteq Handles' /\ Len(obj) + 1 # NoObj
         /\ DOMAIN IdEntryMap' = DOMAIN IdEntryMap \cup {NextId}
         /\ \A i \in DOMAIN IdEntryMap : i # NextId => IdEntryMap'[i] = IdEntryMap[i]
         /\ IdEntryMap'[NextId] = Len(obj) + 1
         /\ DOMAIN IdEntryMap' \subseteq Nat
         /\ \A i \in DOMAIN IdEntryMap' : IdEntryMap'[i] \in Objects'
         /\ NextId' = NextId + 1 /\ NextId' \in Nat
<1>1. obj \in Seq(ObjType) /\ obj' = Append(obj, o)
  BY DEF TypeOK, AddEntry
<1>2. /\ obj' \in Seq(ObjType) /\ Len(obj') = Len(obj) + 1 /\ Len(obj) \in Nat
      /\ \A x \in 1 .. Len(obj) : obj'[x] = obj[x]
      /\ obj'[Len(obj) + 1] = o
  BY <1>1, AppendObj
<1>3. /\ Objects \subseteq Objects' /\ Len(obj) + 1 \in Objects' /\ Len(obj) + 1 \notin Objects
      /\ \A x \in Objects' : x \in Objects \/ x = Len(obj) + 1
  BY <1>2 DEF Objects
<1>4. /\ DOMAIN IdEntryMap' = DOMAIN IdEntryMap \cup {NextId}
      /\ \A i \in DOMAIN IdEntryMap : i # NextId => IdEntryMap'[i] = IdEntryMap[i]
      /\ IdEntryMap'[NextId] = Len(obj) + 1
      /\ NextId' = NextId + 1
  BY DEF AddEntry
<1>5. /\ DOMAIN IdEntryMap' \subseteq Nat /\ NextId' \in Nat
      /\ \A i \in DOMAIN IdEntryMap' : IdEntryMap'[i] \in Objects'
  BY <1>3, <1>4 DEF TypeOK
<1> QED BY <1>2, <1>3, <1>4, <1>5 DEF Objects, Handles, NoObj

LEMMA LiveType ==
  ASSUME NEW id \in Nat, NEW fwd \in BOOLEAN, NEW ops \in Seq(Nat), NEW refs \in Seq(Values)
  PROVE  /\ Live(id, fwd, ops, refs) \in ObjType
         /\ Live(id, fwd, ops, refs).id = id /\ Live(id, fwd, ops, refs).live
         /\ Live(id, fwd, ops, refs).ops = ops /\ Live(id, fwd, ops, refs).refs = refs
         /\ Live(id, fwd, ops, refs).fwd <=> fwd
BY DEF Live, ObjType

(* Only the objects UseForward makes are forwards. *)
LEMMA NotForward ==
  ASSUME NEW id \in Nat, NEW ops \in Seq(Nat), NEW refs \in Seq(Values)
  PROVE  /\ Live(id, FALSE, ops, refs) \in ObjType
         /\ Live(id, FALSE, ops, refs).id = id
         /\ Live(id, FALSE, ops, refs).live
         /\ Live(id, FALSE, ops, refs).ops = ops
         /\ Live(id, FALSE, ops, refs).refs = refs
         /\ ~Live(id, FALSE, ops, refs).fwd
BY DEF Live, ObjType

(* After an instruction there are no operands left of it. *)
LEMMA EmptyLen ==
  ASSUME TypeOK', got' = <<>>
  PROVE  pc' \in Insts => Len(got') <= Len(Operands')
<1> SUFFICES ASSUME pc' \in Insts PROVE Len(got') <= Len(Operands')
  OBVIOUS
<1>1. Operands' \in Seq(Values)
  BY DEF TypeOK, Operands, ProgramType
<1> QED BY <1>1

(* Every step keeps the types; a step that maps a value is at an instruction. *)
LEMMA NextTypes ==
  ASSUME TypeOK, ControlOK, [Next]_vars
  PROVE  TypeOK' /\ ControlOK'
<1> USE SizesAssumption
<1>0. /\ obj \in Seq(ObjType) /\ Len(obj) \in Nat /\ got \in Seq(Objects) /\ Len(got) \in Nat
      /\ \A x \in Objects : obj[x] \in ObjType /\ obj[x].id \in Nat
  <2>1. /\ obj \in Seq(ObjType) /\ Len(obj) \in Nat /\ got \in Seq(Objects) /\ Len(got) \in Nat
        /\ \A x \in Objects : obj[x] \in ObjType
    BY DEF TypeOK, Objects
  <2> QED BY <2>1 DEF ObjType
<1>1. CASE UseMapped
  <2>1. Operand \in Values /\ Len(got) < Len(Operands) /\ pc \in Insts /\ made = NoObj
    BY <1>1, OperandIsValue DEF UseMapped, AtOperand
  <2>2. ValueMap[Operand] \in Objects
    BY <1>1, <2>1 DEF UseMapped, TypeOK, Handles
  <2>3. got' \in Seq(Objects) /\ Len(got') = Len(got) + 1
    BY <1>0, <1>1, <2>2 DEF UseMapped
  <2>4. TypeOK'
    BY <1>1, <2>3 DEF UseMapped, TypeOK, Objects, Handles
  <2>5. Len(got') <= Len(Operands)
    BY <2>1, <2>3, <1>0, <1>1, OperandIsValue DEF UseMapped
  <2> QED BY <1>1, <2>1, <2>4, <2>5 DEF UseMapped, ControlOK, Operands
<1>2. CASE UseArgument
  <2>1. Operand \in Values /\ Len(got) < Len(Operands) /\ pc \in Insts /\ made = NoObj
    BY <1>2, OperandIsValue DEF UseArgument, AtOperand
  <2>2. Operand - N \in Objects
    BY <1>0, <1>2, ValueSets DEF UseArgument, ControlOK, Objects
  <2>3. got' \in Seq(Objects) /\ Len(got') = Len(got) + 1
    BY <1>0, <1>2, <2>2 DEF UseArgument
  <2>4. ValueMap' \in [Values -> Handles] /\ NamedId' \subseteq Nat
    BY <1>0, <1>2, <2>2 DEF UseArgument, TypeOK, Handles
  <2>5. TypeOK'
    BY <1>2, <2>3, <2>4 DEF UseArgument, TypeOK, Objects, Handles
  <2>6. Len(got') <= Len(Operands)
    BY <2>1, <2>3, <1>0, <1>2, OperandIsValue DEF UseArgument
  <2> QED BY <1>2, <2>1, <2>5, <2>6 DEF UseArgument, ControlOK, Operands
<1>3. CASE UseConstant \/ UseForward
  <2>1. AtOperand
    BY <1>3 DEF UseConstant, UseForward
  <2>2. Operand \in Values /\ Len(got) < Len(Operands) /\ pc \in Insts /\ made = NoObj
    BY <2>1, OperandIsValue DEF AtOperand
  <2>3. NextId \in Nat /\ <<>> \in Seq(Nat) /\ <<>> \in Seq(Values)
    BY DEF TypeOK
  <2>4. PICK o \in ObjType : AddEntry(o)
    BY <1>3, <2>3, LiveType DEF UseConstant, UseForward
  <2>5. /\ ValueMap' = [ValueMap EXCEPT ![Operand] = Len(obj) + 1]
        /\ got' = Append(got, Len(obj) + 1)
        /\ UNCHANGED <<prog, pc, made, DecorateVec>>
        /\ NamedId' \subseteq NamedId \cup {NextId}
    BY <1>3 DEF UseConstant, UseForward
  <2>6. got' \in Seq(Objects') /\ Len(got') = Len(got) + 1
    <3>1. got \in Seq(Objects') /\ Len(obj) + 1 \in Objects'
      BY <1>0, <2>4, AddEntryTypes
    <3> QED BY <2>5, <3>1
  <2>7. ValueMap' \in [Values -> Handles'] /\ NamedId' \subseteq Nat /\ made' \in Handles'
    BY <2>3, <2>4, <2>5, AddEntryTypes DEF TypeOK, Handles
  <2>8. TypeOK'
    BY <2>4, <2>5, <2>6, <2>7, AddEntryTypes DEF TypeOK
  <2>9. Len(got') <= Len(Operands)
    BY <2>1, <2>2, <2>6, <1>0, OperandIsValue
  <2> QED BY <1>0, <2>2, <2>4, <2>5, <2>8, <2>9, AddEntryTypes DEF ControlOK, Operands
<1>4. CASE CreateInst
  <2>1. pc \in Insts /\ Operands \in Seq(Values) /\ Len(got) = Len(Operands) /\ NextId \in Nat
    BY <1>4 DEF CreateInst, AtEnd, TypeOK, Operands, ProgramType
  <2>2. [k \in 1 .. Len(got) |-> obj[got[k]].id] \in Seq(Nat)
    BY <1>0
  <2>3. PICK o \in ObjType : AddEntry(o)
    BY <1>4, <2>1, <2>2, LiveType DEF CreateInst
  <2>4. made' = Len(obj) + 1 /\ UNCHANGED <<prog, pc, got, ValueMap, NamedId>>
        /\ DecorateVec' = DecorateVec \cup {<<Len(obj) + 1, NextId>>}
    BY <1>4 DEF CreateInst
  <2>5. TypeOK'
    BY <1>0, <2>1, <2>3, <2>4, AddEntryTypes DEF TypeOK, Handles
  <2> QED BY <1>0, <2>1, <2>3, <2>4, <2>5, AddEntryTypes DEF ControlOK, Operands
<1>5. CASE YieldOperand
  <2>1. pc \in Insts /\ Operands \in Seq(Values) /\ Len(got) = Len(Operands) /\ Operands # <<>>
    BY <1>5 DEF YieldOperand, AtEnd, TypeOK, Operands, ProgramType, WellFormed
  <2>2. got[1] \in Objects
    BY <1>0, <2>1
  <2>3. DecorateVec' \subseteq Objects \X Nat
    BY <1>0, <1>5, <2>2 DEF YieldOperand, TypeOK
  <2>4. TypeOK'
    BY <1>5, <2>2, <2>3 DEF YieldOperand, TypeOK, Objects, Handles
  <2> QED BY <1>5, <2>1, <2>4 DEF YieldOperand, ControlOK, Operands
<1>6. CASE DropInst
  <2>1. pc \in Insts /\ made = NoObj
    BY <1>6 DEF DropInst, AtEnd
  <2>2. TypeOK' /\ got' = <<>>
    BY <1>6, <2>1 DEF DropInst, TypeOK, Objects, Handles, Insts
  <2> QED BY <1>6, <2>1, <2>2, EmptyLen DEF DropInst, ControlOK
<1>7. CASE MapValue
  <2>1. pc \in Insts /\ made \in Objects
    BY <1>7 DEF MapValue, ControlOK, TypeOK, Handles
  <2>2. /\ pc' = pc + 1 /\ got' = <<>> /\ made' = NoObj
        /\ UNCHANGED <<prog, obj, IdEntryMap, NextId>>
        /\ ValueMap' = [ValueMap EXCEPT ![pc] = made]
    BY <1>7 DEF MapValue, NextInst, Mapped
  <2>3. NamedId' \subseteq Nat /\ DecorateVec' \subseteq Objects \X Nat
    <3>1. NamedId' = NamedId \cup {obj[made].id}
      BY <1>7 DEF MapValue
    <3>2. DecorateVec' \subseteq DecorateVec \cup {<<made, obj[made].id>>}
      BY <1>7 DEF MapValue, Annotated
    <3>3. <<made, obj[made].id>> \in Objects \X Nat /\ obj[made].id \in Nat
      BY <1>0, <2>1
    <3> QED BY <3>1, <3>2, <3>3 DEF TypeOK
  <2>4. pc' \in 1 .. (N + 1) /\ ValueMap' \in [Values -> Handles] /\ got' \in Seq(Objects)
    <3>1. pc' \in 1 .. (N + 1) /\ got' \in Seq(Objects)
      BY <2>1, <2>2 DEF Insts
    <3>2. ValueMap' \in [Values -> Handles]
      BY <2>1, <2>2 DEF TypeOK, Handles
    <3> QED BY <3>1, <3>2
  <2>5. TypeOK'
    BY <2>2, <2>3, <2>4 DEF TypeOK, Objects, Handles
  <2> QED BY <2>2, <2>5, EmptyLen DEF ControlOK
<1>8. CASE ReplaceForward
  <2> DEFINE f == ValueMap[pc]
             id == obj[f].id
  <2>1. pc \in Insts /\ made \in Objects /\ f \in Objects /\ id \in Nat
    BY <1>0, <1>8, ValueSets DEF ReplaceForward, ControlOK, TypeOK, Handles
  <2>2. /\ pc' = pc + 1 /\ got' = <<>> /\ made' = NoObj
        /\ UNCHANGED <<prog, NextId>>
        /\ ValueMap' = [ValueMap EXCEPT ![pc] = made]
        /\ obj' = IdTaken(obj, made, f, id)
        /\ IdEntryMap' = TakeId(made, id)
        /\ DecorateVec' = Retarget(DecorateVec, made, id) \cup Annotated(made, id)
        /\ NamedId' = NamedId \cup {id}
    BY <1>8 DEF ReplaceForward, NextInst, Mapped, IdTaken
  <2> HIDE DEF f, id
  <2>3. obj' \in Seq(ObjType) /\ Len(obj') = Len(obj)
    <3>1. made \in 1 .. Len(obj) /\ f \in 1 .. Len(obj) /\ obj \in Seq(ObjType) /\ id \in Nat
      BY <1>0, <2>1 DEF Objects
    <3> QED BY <2>2, <3>1, ReplaceObj
  <2>4. NamedId' \subseteq Nat
    BY <2>1, <2>2 DEF TypeOK
  <2>5. DecorateVec' \subseteq Objects \X Nat
    BY <2>1, <2>2 DEF TypeOK, Retarget, Annotated
  <2>6. DOMAIN IdEntryMap' \subseteq Nat /\ \A i \in DOMAIN IdEntryMap' : IdEntryMap'[i] \in Objects
    BY <2>1, <2>2 DEF TypeOK, TakeId
  <2>7. pc' \in 1 .. (N + 1) /\ ValueMap' \in [Values -> Handles] /\ got' \in Seq(Objects)
    <3>1. pc' \in 1 .. (N + 1) /\ got' \in Seq(Objects)
      BY <2>1, <2>2 DEF Insts
    <3>2. ValueMap' \in [Values -> Handles]
      BY <2>1, <2>2 DEF TypeOK, Handles
    <3> QED BY <3>1, <3>2
  <2>8. TypeOK'
    BY <2>2, <2>3, <2>4, <2>5, <2>6, <2>7 DEF TypeOK, Objects, Handles
  <2> QED BY <2>2, <2>3, <2>8, EmptyLen DEF ControlOK
<1>9. CASE UNCHANGED vars
  BY <1>9 DEF vars, TypeOK, ControlOK, Objects, Handles, Operands
<1>10. CASE Finished
  BY <1>9, <1>10 DEF Finished
<1> QED
  BY <1>1, <1>2, <1>3, <1>4, <1>5, <1>6, <1>7, <1>8, <1>9, <1>10 DEF Next

-----------------------------------------------------------------------------
(* ValueMap holds objects. *)
LEMMA Pointers ==
  ASSUME TypeOK
  PROVE  /\ \A v \in Values : ValueMap[v] # NoObj => ValueMap[v] \in Objects
         /\ \A k \in 1 .. Len(got) : got[k] \in Objects
         /\ NoObj \notin Objects
         /\ Len(got) \in Nat /\ got \in Seq(Objects)
         /\ ValueMap \in [Values -> Handles]
         /\ NextId \in Nat
         /\ obj \in Seq(ObjType)
         /\ \A x \in Objects : obj[x] \in ObjType
BY DEF TypeOK, Handles, Objects, NoObj

(* An entry added under the next id keeps ids and entries inverse. *)
LEMMA AddEntryIds ==
  ASSUME TypeOK, IdsOK, NEW o \in ObjType, o.live, o.id = NextId, AddEntry(o)
  PROVE  IdsOK'
<1>1. NextId \notin DOMAIN IdEntryMap
  BY DEF IdsOK, TypeOK
<1>2. ASSUME NEW i \in DOMAIN IdEntryMap'
      PROVE  obj'[IdEntryMap'[i]].live /\ obj'[IdEntryMap'[i]].id = i
  <2>1. CASE i = NextId
    BY <2>1, AddEntryTypes
  <2>2. CASE i # NextId
    <3>1. i \in DOMAIN IdEntryMap /\ IdEntryMap'[i] = IdEntryMap[i]
      BY <1>2, <2>2, AddEntryTypes
    <3>2. obj'[IdEntryMap[i]] = obj[IdEntryMap[i]]
      BY <3>1, AddEntryTypes DEF TypeOK
    <3> QED BY <3>1, <3>2 DEF IdsOK
  <2> QED BY <2>1, <2>2
<1>3. ASSUME NEW x \in Objects', obj'[x].live
      PROVE  /\ obj'[x].id < NextId' /\ obj'[x].id \in DOMAIN IdEntryMap'
             /\ IdEntryMap'[obj'[x].id] = x
  <2>1. CASE x = Len(obj) + 1
    BY <2>1, AddEntryTypes, Pointers
  <2>2. CASE x \in Objects
    <3>1. obj'[x] = obj[x] /\ NextId' = NextId + 1
      BY <2>2, AddEntryTypes
    <3>2. /\ obj[x].id < NextId /\ obj[x].id \in DOMAIN IdEntryMap
          /\ IdEntryMap[obj[x].id] = x
      BY <1>3, <2>2, <3>1 DEF IdsOK
    <3>3. obj[x].id \in Nat /\ NextId \in Nat
      BY <2>2, ObjFields, Pointers DEF Objects
    <3>4. IdEntryMap'[obj[x].id] = x /\ obj[x].id \in DOMAIN IdEntryMap'
      BY <1>1, <3>2, AddEntryTypes
    <3> QED BY <3>1, <3>2, <3>3, <3>4
  <2> QED BY <1>3, <2>1, <2>2, AddEntryTypes
<1> QED BY <1>2, <1>3 DEF IdsOK

LEMMA UseMappedInv ==
  ASSUME ForwardInv, YieldsFollow(prog), UseMapped
  PROVE  IdsOK' /\ MappedOK' /\ ForwardsOK' /\ LocalsOK'
<1>1. TypeOK /\ IdsOK /\ MappedOK /\ ForwardsOK /\ LocalsOK
  BY DEF ForwardInv
<1>2. IdsOK' /\ MappedOK' /\ ForwardsOK'
  BY <1>1 DEF UseMapped, IdsOK, MappedOK, ForwardsOK, Objects, Awaited
<1>3. Operands' = Operands /\ ValueMap' = ValueMap /\ made' = NoObj
      /\ got' = Append(got, ValueMap[Operand])
  BY DEF UseMapped, Operands, AtOperand
<1>4. ASSUME NEW k \in 1 .. Len(got') PROVE got'[k] = ValueMap[Operands[k]]
  <2>1. ValueMap[Operand] \in Objects
    BY <1>1, OperandIsValue, Pointers DEF UseMapped
  <2>2. CASE k \in 1 .. Len(got)
    BY <1>1, <1>3, <2>1, <2>2, Pointers DEF LocalsOK
  <2>3. CASE k = Len(got) + 1
    BY <1>1, <1>3, <2>1, <2>3, Pointers DEF Operand
  <2> QED BY <1>1, <1>3, <2>1, <2>2, <2>3, Pointers
<1> QED BY <1>2, <1>3, <1>4 DEF LocalsOK

(* The operands translated so far are not the one that has no value yet. *)
LEMMA NotTranslated ==
  ASSUME TypeOK, LocalsOK, AtOperand, ValueMap[Operand] = NoObj,
         NEW x \in Objects', got' = Append(got, x), ValueMap' = [ValueMap EXCEPT ![Operand] = x],
         UNCHANGED <<prog, pc, made>>, Objects \subseteq Objects'
  PROVE  LocalsOK'
<1>1. Operands' = Operands /\ made' = NoObj
  BY DEF Operands, AtOperand
<1>2. ASSUME NEW k \in 1 .. Len(got') PROVE got'[k] = ValueMap'[Operands[k]]
  <2>1. got \in Seq(Objects') /\ Len(got) \in Nat
    BY Pointers
  <2>2. CASE k \in 1 .. Len(got)
    <3>1. got'[k] = got[k] /\ got[k] \in Objects
      BY <2>1, <2>2, Pointers
    <3>2. got[k] = ValueMap[Operands[k]] /\ Operands[k] # Operand
      BY <2>2, <3>1, Pointers DEF LocalsOK
    <3>3. Operands[k] \in Values
      BY <2>1, <2>2, OperandIsValue
    <3> QED BY <3>1, <3>2, <3>3, Pointers
  <2>3. CASE k = Len(got) + 1
    BY <2>1, <2>3, OperandIsValue, Pointers DEF Operand
  <2> QED BY <2>1, <2>2, <2>3
<1> QED BY <1>1, <1>2 DEF LocalsOK

LEMMA UseArgumentInv ==
  ASSUME ForwardInv, YieldsFollow(prog), UseArgument
  PROVE  IdsOK' /\ MappedOK' /\ ForwardsOK' /\ LocalsOK'
<1> DEFINE a == Operand - N
<1>1. TypeOK /\ ControlOK /\ IdsOK /\ MappedOK /\ ForwardsOK /\ LocalsOK
  BY DEF ForwardInv
<1>2. /\ AtOperand /\ Operand \in ArgValues /\ ValueMap[Operand] = NoObj
      /\ ValueMap' = [ValueMap EXCEPT ![Operand] = a] /\ got' = Append(got, a)
      /\ UNCHANGED <<prog, pc, made, obj, IdEntryMap, NextId>>
  BY DEF UseArgument
<1>3. /\ Operand \in Values /\ Operand \notin Insts
      /\ a \in 1 .. Args /\ a \in Objects /\ obj[a].live /\ ~obj[a].fwd
  BY <1>1, <1>2, ValueSets, Pointers, SizesAssumption DEF ControlOK, Objects, MappedOK
<1> HIDE DEF a
<1>4. IdsOK' /\ Objects' = Objects
  BY <1>1, <1>2 DEF IdsOK, Objects
<1>5. LocalsOK'
  BY <1>1, <1>2, <1>3, <1>4, NotTranslated
<1>6. /\ \A v \in Values : ValueMap'[v] = IF v = Operand THEN a ELSE ValueMap[v]
      /\ \A v : Awaited(v)' <=> Awaited(v)
  BY <1>1, <1>2, Pointers DEF Awaited
<1>7. MappedOK'
  BY <1>1, <1>2, <1>3, <1>6, ValueSets DEF MappedOK, Awaited
<1>8. ForwardsOK'
  BY <1>1, <1>2, <1>3, <1>4, <1>6, ValueSets, Pointers DEF ForwardsOK
<1> QED BY <1>4, <1>5, <1>7, <1>8

(* A new object for an operand: a constant, or a forward of an instruction. *)
LEMMA UseNewInv ==
  ASSUME ForwardInv, YieldsFollow(prog), UseConstant \/ UseForward
  PROVE  IdsOK' /\ MappedOK' /\ ForwardsOK' /\ LocalsOK'
<1> DEFINE n == Len(obj) + 1
<1>1. TypeOK /\ ControlOK /\ IdsOK /\ MappedOK /\ ForwardsOK /\ LocalsOK
  BY DEF ForwardInv
<1>2. /\ AtOperand /\ ValueMap[Operand] = NoObj
      /\ ValueMap' = [ValueMap EXCEPT ![Operand] = n] /\ got' = Append(got, n)
      /\ UNCHANGED <<prog, pc, made>>
  BY DEF UseConstant, UseForward
<1>3. NextId \in Nat /\ <<>> \in Seq(Nat) /\ <<>> \in Seq(Values)
  BY <1>1 DEF TypeOK
<1>4. PICK o \in ObjType :
        /\ AddEntry(o) /\ o.id = NextId /\ o.live
        /\ o.fwd => Operand \in Insts
        /\ Operand \in Insts => o.fwd
  <2>1. CASE UseConstant
    <3> DEFINE c == Live(NextId, FALSE, <<>>, <<>>)
    <3>1. c \in ObjType /\ c.id = NextId /\ c.live /\ ~c.fwd
      BY <1>3, NotForward, ZenonT(60)
    <3>2. AddEntry(c) /\ Operand \notin Insts
      BY <2>1, ValueSets DEF UseConstant
    <3> QED BY <3>1, <3>2
  <2>2. CASE UseForward
    BY <1>3, <2>2, LiveType DEF UseForward
  <2> QED BY <2>1, <2>2
<1>5. IdsOK'
  BY <1>1, <1>4, AddEntryIds
<1>6. /\ Objects \subseteq Objects' /\ n \in Objects' /\ n \notin Objects
      /\ \A x \in Objects' : x \in Objects \/ x = n
      /\ \A x \in Objects : obj'[x] = obj[x]
      /\ obj'[n] = o /\ n # NoObj
  BY <1>1, <1>4, AddEntryTypes
<1> HIDE DEF n
<1>7. LocalsOK'
  BY <1>1, <1>2, <1>6, NotTranslated
<1>8. /\ Operand \in Values
      /\ \A v \in Values : ValueMap'[v] = IF v = Operand THEN n ELSE ValueMap[v]
      /\ \A v : Awaited(v)' <=> Awaited(v)
      /\ o.fwd <=> Awaited(Operand)
  BY <1>1, <1>2, <1>4, OperandIsValue, Pointers DEF Awaited, MappedOK
<1>9. MappedOK'
  <2>1. ASSUME NEW v \in Values, ValueMap'[v] # NoObj
        PROVE  /\ obj'[ValueMap'[v]].live
               /\ obj'[ValueMap'[v]].fwd => Awaited(v)'
               /\ Awaited(v)' => obj'[ValueMap'[v]].fwd
    <3>1. CASE v = Operand
      BY <1>4, <1>6, <1>8, <3>1
    <3>2. CASE v # Operand
      BY <1>1, <1>6, <1>8, <2>1, <3>2, Pointers DEF MappedOK
    <3> QED BY <3>1, <3>2
  <2>2. \A v \in Insts : ValueMap'[v] = NoObj => Awaited(v)'
    BY <1>1, <1>6, <1>8, ValueSets DEF MappedOK
  <2>3. \A a \in 1 .. Args : obj'[a].live /\ ~obj'[a].fwd
    BY <1>1, <1>6, Pointers, SizesAssumption DEF MappedOK, ControlOK, Objects
  <2> QED BY <2>1, <2>2, <2>3 DEF MappedOK
<1>10. ForwardsOK'
  <2>1. ASSUME NEW x \in Objects', obj'[x].live /\ obj'[x].fwd
        PROVE  \E v \in Insts : ValueMap'[v] = x
    <3>1. CASE x = n
      BY <1>4, <1>6, <1>8, <2>1, <3>1
    <3>2. CASE x \in Objects
      BY <1>1, <1>2, <1>6, <1>8, <2>1, <3>2, ValueSets, Pointers DEF ForwardsOK
    <3> QED BY <1>6, <3>1, <3>2
  <2>2. ASSUME NEW v \in Values, NEW w \in Values, ValueMap'[v] # NoObj,
               ValueMap'[v] = ValueMap'[w], obj'[ValueMap'[v]].fwd
        PROVE  v = w
    BY <1>1, <1>6, <1>8, <2>2, Pointers DEF ForwardsOK
  <2> QED BY <2>1, <2>2 DEF ForwardsOK
<1> QED BY <1>5, <1>7, <1>9, <1>10

LEMMA CreateInstInv ==
  ASSUME ForwardInv, YieldsFollow(prog), CreateInst
  PROVE  IdsOK' /\ MappedOK' /\ ForwardsOK' /\ LocalsOK'
<1> DEFINE n == Len(obj) + 1
<1>1. TypeOK /\ ControlOK /\ IdsOK /\ MappedOK /\ ForwardsOK /\ LocalsOK
  BY DEF ForwardInv
<1>2. made' = n /\ prog.kind[pc] = "inst" /\ UNCHANGED <<prog, pc, got, ValueMap>>
  BY DEF CreateInst
<1>3. PICK o \in ObjType : AddEntry(o) /\ o.id = NextId /\ o.live /\ ~o.fwd
  <2>1. [k \in 1 .. Len(got) |-> obj[got[k]].id] \in Seq(Nat)
    BY <1>1, Pointers DEF ObjType
  <2>2. Operands \in Seq(Values) /\ NextId \in Nat
    BY <1>1 DEF CreateInst, AtEnd, TypeOK, ProgramType, Operands
  <2> DEFINE ids == [k \in 1 .. Len(got) |-> obj[got[k]].id]
             c == Live(NextId, FALSE, ids, Operands)
  <2>3. AddEntry(c)
    BY DEF CreateInst
  <2> HIDE DEF ids
  <2>4. c \in ObjType /\ c.id = NextId /\ c.live /\ ~c.fwd
    BY <2>1, <2>2, NotForward, ZenonT(60) DEF ids
  <2> QED BY <2>3, <2>4, Zenon
<1>4. IdsOK'
  BY <1>1, <1>3, AddEntryIds
<1>5. /\ Objects \subseteq Objects' /\ n \in Objects'
      /\ \A x \in Objects' : x \in Objects \/ x = n
      /\ \A x \in Objects : obj'[x] = obj[x]
      /\ obj'[n] = o /\ n # NoObj
  BY <1>1, <1>3, AddEntryTypes
<1> HIDE DEF n
<1>6. LocalsOK'
  BY <1>1, <1>2, <1>3, <1>5 DEF LocalsOK, Operands
<1>7. MappedOK'
  <2>1. \A a \in 1 .. Args : a \in Objects
    BY <1>1, Pointers, SizesAssumption DEF ControlOK, Objects
  <2> QED BY <1>1, <1>2, <1>5, <2>1, Pointers DEF MappedOK, Awaited
<1>8. ForwardsOK'
  BY <1>1, <1>2, <1>3, <1>5, Pointers DEF ForwardsOK
<1> QED BY <1>4, <1>6, <1>7, <1>8

(* What an alias or an annotation yields has been translated. *)
LEMMA YieldOperandInv ==
  ASSUME ForwardInv, YieldsFollow(prog), YieldOperand
  PROVE  IdsOK' /\ MappedOK' /\ ForwardsOK' /\ LocalsOK'
<1>1. TypeOK /\ IdsOK /\ MappedOK /\ ForwardsOK /\ LocalsOK
  BY DEF ForwardInv
<1>2. /\ pc \in Insts /\ prog.kind[pc] \in {"alias", "annot"}
      /\ made' = got[1] /\ UNCHANGED <<prog, pc, got, ValueMap, obj, IdEntryMap, NextId>>
      /\ Len(got) = Len(Operands)
  BY DEF YieldOperand, AtEnd
<1>3. Operands \in Seq(Values) /\ Operands # <<>>
  BY <1>1, <1>2 DEF TypeOK, Operands, ProgramType, WellFormed
<1>4. 1 \in 1 .. Len(got) /\ Operands[1] \in Values
  BY <1>2, <1>3
<1>5. got[1] = ValueMap[Operands[1]] /\ got[1] \in Objects /\ got[1] # NoObj
  BY <1>1, <1>4, Pointers DEF LocalsOK
<1>6. ~Awaited(Operands[1])
  BY <1>1, <1>2 DEF Awaited, YieldsFollow, Operands, TypeOK, Insts
<1>7. obj[got[1]].live /\ ~obj[got[1]].fwd
  BY <1>1, <1>4, <1>5, <1>6 DEF MappedOK
<1>8. LocalsOK'
  BY <1>1, <1>2, <1>7 DEF LocalsOK, Operands
<1> QED
  BY <1>1, <1>2, <1>8 DEF IdsOK, MappedOK, ForwardsOK, Objects, Awaited

LEMMA DropInstInv ==
  ASSUME ForwardInv, YieldsFollow(prog), DropInst
  PROVE  IdsOK' /\ MappedOK' /\ ForwardsOK' /\ LocalsOK'
<1>1. TypeOK /\ IdsOK /\ MappedOK /\ ForwardsOK /\ LocalsOK
  BY DEF ForwardInv
<1>2. /\ pc \in Insts /\ prog.kind[pc] = "drop" /\ pc' = pc + 1 /\ got' = <<>> /\ made' = NoObj
      /\ UNCHANGED <<prog, ValueMap, obj, IdEntryMap, NextId>>
  BY DEF DropInst, AtEnd
<1>3. \A v : Awaited(v)' <=> Awaited(v)
  BY <1>2, SizesAssumption DEF Awaited, Insts
<1> QED
  BY <1>1, <1>2, <1>3 DEF IdsOK, MappedOK, ForwardsOK, LocalsOK, Objects

(* A translated instruction is not awaited any more; the others are as before. *)
LEMMA AwaitedNext ==
  ASSUME pc \in Insts, pc' = pc + 1, prog' = prog, prog.kind[pc] # "drop"
  PROVE  Awaited(pc) /\ \A v : Awaited(v)' <=> Awaited(v) /\ v # pc
BY SizesAssumption DEF Awaited, Insts

LEMMA MapValueInv ==
  ASSUME ForwardInv, YieldsFollow(prog), MapValue
  PROVE  IdsOK' /\ MappedOK' /\ ForwardsOK' /\ LocalsOK'
<1>1. TypeOK /\ ControlOK /\ IdsOK /\ MappedOK /\ ForwardsOK /\ LocalsOK
  BY DEF ForwardInv
<1>2. /\ pc' = pc + 1 /\ got' = <<>> /\ made' = NoObj /\ made # NoObj
      /\ ValueMap' = [ValueMap EXCEPT ![pc] = made] /\ ValueMap[pc] \in {NoObj, made}
      /\ UNCHANGED <<prog, obj, IdEntryMap, NextId>>
  BY DEF MapValue, NextInst, Mapped
<1>3. /\ pc \in Insts /\ pc \in Values /\ made \in Objects
      /\ prog.kind[pc] # "drop" /\ obj[made].live /\ ~obj[made].fwd
  BY <1>1, <1>2, ValueSets DEF ControlOK, LocalsOK, TypeOK, Handles
<1>4. ValueMap[pc] = NoObj
  BY <1>1, <1>2, <1>3, AwaitedNext DEF MappedOK
<1>5. \A v \in Values : ValueMap'[v] = IF v = pc THEN made ELSE ValueMap[v]
  BY <1>1, <1>2, Pointers
<1>6. IdsOK' /\ LocalsOK'
  BY <1>1, <1>2 DEF IdsOK, LocalsOK, Objects
<1>7. MappedOK'
  BY <1>1, <1>2, <1>3, <1>5, AwaitedNext, ValueSets DEF MappedOK
<1>8. ForwardsOK'
  BY <1>1, <1>2, <1>3, <1>4, <1>5, ValueSets, Pointers DEF ForwardsOK, Objects
<1> QED BY <1>6, <1>7, <1>8

(* replaceForward: nothing but ValueMap[pc] held the forward it deletes. *)
LEMMA ReplaceForwardInv ==
  ASSUME ForwardInv, YieldsFollow(prog), ReplaceForward
  PROVE  IdsOK' /\ MappedOK' /\ ForwardsOK' /\ LocalsOK'
<1> DEFINE f == ValueMap[pc]
           id == obj[f].id
<1>1. TypeOK /\ ControlOK /\ IdsOK /\ MappedOK /\ ForwardsOK /\ LocalsOK
  BY DEF ForwardInv
<1>2. /\ pc' = pc + 1 /\ got' = <<>> /\ made' = NoObj /\ made # NoObj
      /\ ValueMap' = [ValueMap EXCEPT ![pc] = made] /\ f # NoObj /\ f # made
      /\ IdEntryMap' = TakeId(made, id) /\ obj' = IdTaken(obj, made, f, id)
      /\ UNCHANGED <<prog, NextId>>
  BY DEF ReplaceForward, NextInst, Mapped, IdTaken
<1>3. /\ pc \in Insts /\ pc \in Values /\ made \in Objects
      /\ prog.kind[pc] # "drop" /\ obj[made].live /\ ~obj[made].fwd
  BY <1>1, <1>2, ValueSets DEF ControlOK, LocalsOK, TypeOK, Handles
<1>4. f \in Objects /\ id \in Nat
  BY <1>1, <1>2, <1>3, Pointers, ObjFields DEF Objects
<1>5. obj[f].live /\ obj[f].fwd
  BY <1>1, <1>2, <1>3, AwaitedNext DEF MappedOK
<1>6. \A v \in Values : v # pc => ValueMap[v] # f
  BY <1>1, <1>2, <1>3, <1>5 DEF ForwardsOK
<1>7. \A v \in Values : ValueMap'[v] = IF v = pc THEN made ELSE ValueMap[v]
  BY <1>1, <1>2, Pointers
<1> HIDE DEF f, id
<1>8. /\ Objects' = Objects
      /\ \A x \in Objects :
           /\ obj'[x].id = IF x = made THEN id ELSE obj[x].id
           /\ obj'[x].live <=> obj[x].live /\ x # f
           /\ obj'[x].fwd = obj[x].fwd
  BY <1>1, <1>2, <1>3, <1>4, Pointers, ReplaceObj DEF Objects
<1>9. IdsOK'
  <2>1. /\ id \in DOMAIN IdEntryMap /\ IdEntryMap[id] = f /\ id < NextId
        /\ obj[made].id \in DOMAIN IdEntryMap /\ IdEntryMap[obj[made].id] = made
    BY <1>1, <1>3, <1>4, <1>5 DEF IdsOK, id
  <2>2. /\ DOMAIN IdEntryMap' = (DOMAIN IdEntryMap \ {obj[made].id}) \cup {id}
        /\ IdEntryMap'[id] = made
        /\ \A i \in DOMAIN IdEntryMap' : i # id => IdEntryMap'[i] = IdEntryMap[i]
    BY <1>2 DEF TakeId
  <2>3. ASSUME NEW i \in DOMAIN IdEntryMap'
        PROVE  obj'[IdEntryMap'[i]].live /\ obj'[IdEntryMap'[i]].id = i
    <3>1. CASE i = id
      BY <1>2, <1>3, <1>8, <2>2, <3>1
    <3>2. CASE i # id
      <4>1. i \in DOMAIN IdEntryMap /\ i # obj[made].id /\ IdEntryMap'[i] = IdEntryMap[i]
        BY <2>2, <2>3, <3>2
      <4>2. IdEntryMap[i] \in Objects /\ obj[IdEntryMap[i]].live /\ obj[IdEntryMap[i]].id = i
        BY <1>1, <4>1 DEF IdsOK, TypeOK
      <4>3. IdEntryMap[i] # f /\ IdEntryMap[i] # made
        BY <3>2, <4>1, <4>2 DEF id
      <4> QED BY <1>8, <4>1, <4>2, <4>3
    <3> QED BY <3>1, <3>2
  <2>4. ASSUME NEW x \in Objects, obj'[x].live
        PROVE  /\ obj'[x].id < NextId /\ obj'[x].id \in DOMAIN IdEntryMap'
               /\ IdEntryMap'[obj'[x].id] = x
    <3>1. CASE x = made
      BY <1>8, <2>1, <2>2, <3>1
    <3>2. CASE x # made
      <4>1. obj'[x].id = obj[x].id /\ obj[x].live /\ x # f
        BY <1>8, <2>4, <3>2
      <4>2. /\ obj[x].id < NextId /\ obj[x].id \in DOMAIN IdEntryMap
            /\ IdEntryMap[obj[x].id] = x
        BY <1>1, <4>1 DEF IdsOK
      <4>3. obj[x].id # obj[made].id /\ obj[x].id # id
        BY <2>1, <3>2, <4>1, <4>2
      <4> QED BY <2>2, <4>1, <4>2, <4>3
    <3> QED BY <3>1, <3>2
  <2> QED BY <1>2, <1>8, <2>3, <2>4 DEF IdsOK
<1>10. \A v : Awaited(v)' <=> Awaited(v) /\ v # pc
  BY <1>2, <1>3, AwaitedNext
<1>11. MappedOK'
  <2>1. ASSUME NEW v \in Values, ValueMap'[v] # NoObj
        PROVE  /\ obj'[ValueMap'[v]].live
               /\ obj'[ValueMap'[v]].fwd => Awaited(v)'
               /\ Awaited(v)' => obj'[ValueMap'[v]].fwd
    <3>1. CASE v = pc
      BY <1>2, <1>3, <1>7, <1>8, <1>10, <3>1
    <3>2. CASE v # pc
      BY <1>1, <1>6, <1>7, <1>8, <1>10, <2>1, <3>2, Pointers DEF MappedOK
    <3> QED BY <3>1, <3>2
  <2>2. \A v \in Insts : ValueMap'[v] = NoObj => Awaited(v)'
    BY <1>1, <1>2, <1>7, <1>10, ValueSets DEF MappedOK
  <2>3. ASSUME NEW a \in 1 .. Args PROVE obj'[a].live /\ ~obj'[a].fwd
    <3>1. a \in Objects /\ obj[a].live /\ ~obj[a].fwd
      BY <1>1, Pointers, SizesAssumption DEF ControlOK, MappedOK, Objects
    <3> QED BY <1>5, <1>8, <3>1
  <2> QED BY <2>1, <2>2, <2>3 DEF MappedOK
<1>12. ForwardsOK'
  <2>1. ASSUME NEW x \in Objects, obj'[x].live /\ obj'[x].fwd
        PROVE  \E v \in Insts : ValueMap'[v] = x
    <3>1. obj[x].live /\ obj[x].fwd /\ x # f
      BY <1>8, <2>1
    <3>2. PICK v \in Insts : ValueMap[v] = x
      BY <1>1, <3>1 DEF ForwardsOK
    <3>3. v # pc
      BY <3>1, <3>2 DEF f
    <3> QED BY <1>7, <3>2, <3>3, ValueSets
  <2>2. ASSUME NEW v \in Values, NEW w \in Values, ValueMap'[v] # NoObj,
               ValueMap'[v] = ValueMap'[w], obj'[ValueMap'[v]].fwd
        PROVE  v = w
    <3>1. v # pc /\ w # pc
      BY <1>3, <1>7, <1>8, <2>2
    <3> QED BY <1>1, <1>7, <1>8, <2>2, <3>1, Pointers DEF ForwardsOK
  <2> QED BY <1>8, <2>1, <2>2 DEF ForwardsOK
<1>13. LocalsOK'
  BY <1>2 DEF LocalsOK
<1> QED BY <1>9, <1>11, <1>12, <1>13

(* The inductive invariant. *)
LEMMA ForwardInvInit == Init => ForwardInv
<1> SUFFICES ASSUME Init PROVE ForwardInv
  OBVIOUS
<1>1. TypeOK /\ ControlOK
  BY InitTypes
<1>2. /\ Objects = 1 .. Args /\ \A x \in 1 .. Args : obj[x].id = x /\ obj[x].live /\ ~obj[x].fwd
      /\ DOMAIN IdEntryMap = 1 .. Args /\ \A i \in 1 .. Args : IdEntryMap[i] = i
  <2>1. obj = [a \in 1 .. Args |-> Live(a, FALSE, <<>>, <<>>)] /\ IdEntryMap = [i \in 1 .. Args |-> i]
    BY DEF Init
  <2>2. Objects = 1 .. Args
    BY <2>1, SizesAssumption DEF Objects
  <2>3. ASSUME NEW x \in 1 .. Args PROVE obj[x].id = x /\ obj[x].live /\ ~obj[x].fwd
    <3>1. obj[x] = Live(x, FALSE, <<>>, <<>>)
      BY <2>1, Zenon
    <3>2. ~obj[x].fwd /\ obj[x].live /\ obj[x].id = x
      BY <3>1 DEF Live
    <3> QED BY <3>2
  <2> QED BY <2>1, <2>2, <2>3
<1>3. IdsOK
  <2>1. NextId = Args + 1
    BY DEF Init
  <2> QED BY <1>2, <2>1, SizesAssumption DEF IdsOK
<1>4. \A v \in Values : ValueMap[v] = NoObj
  BY DEF Init
<1>5. MappedOK
  <2>1. \A v \in Insts : Awaited(v)
    BY SizesAssumption DEF Awaited, Insts, Init
  <2> QED BY <1>2, <1>4, <2>1 DEF MappedOK
<1>6. ForwardsOK /\ LocalsOK
  <2>1. made = NoObj /\ Len(got) = 0
    BY DEF Init
  <2> QED BY <1>2, <1>4, <2>1 DEF ForwardsOK, LocalsOK
<1> QED BY <1>1, <1>3, <1>5, <1>6 DEF ForwardInv

LEMMA ForwardInvNext == ForwardInv /\ [Next]_vars => ForwardInv'
<1> SUFFICES ASSUME ForwardInv, [Next]_vars PROVE ForwardInv'
  OBVIOUS
<1>1. TypeOK' /\ ControlOK'
  BY NextTypes DEF ForwardInv
<1>2. prog' = prog
  BY DEF Next, vars, UseMapped, UseArgument, UseConstant, UseForward, CreateInst, YieldOperand,
         DropInst, MapValue, ReplaceForward, Finished
<1>3. ASSUME YieldsFollow(prog)
      PROVE  IdsOK' /\ MappedOK' /\ ForwardsOK' /\ LocalsOK'
  <2>1. CASE UNCHANGED vars
    BY <1>3, <2>1 DEF vars, ForwardInv, IdsOK, MappedOK, ForwardsOK, LocalsOK, Objects, Awaited, Operands
  <2>2. CASE Finished
    BY <2>1, <2>2 DEF Finished
  <2> QED
    BY <1>3, <2>1, <2>2, UseMappedInv, UseArgumentInv, UseNewInv, CreateInstInv, YieldOperandInv,
       DropInstInv, MapValueInv, ReplaceForwardInv DEF Next
<1> QED BY <1>1, <1>2, <1>3 DEF ForwardInv, YieldsFollow

-----------------------------------------------------------------------------
(* A step that maps no instruction keeps what has been used. *)
LEMMA SameUsed ==
  ASSUME TypeOK, UsedOK, prog' = prog, pc' \in {pc, pc + 1},
         \A v \in Insts : v >= pc' => ValueMap'[v] = ValueMap[v]
  PROVE  UsedOK'
<1> SUFFICES ASSUME NEW v \in Insts, v >= pc', ValueMap'[v] # NoObj
             PROVE  \E j \in Insts : j <= pc' /\ v \in OperandsOf(prog, j)
  BY DEF UsedOK, OperandsOf
<1>1. v >= pc /\ ValueMap[v] # NoObj /\ pc \in Nat /\ v \in Nat
  BY SizesAssumption DEF TypeOK, Insts
<1>2. PICK j \in Insts : j <= pc /\ v \in OperandsOf(prog, j)
  BY <1>1 DEF UsedOK
<1> QED BY <1>1, <1>2 DEF Insts

(* The operand translated is an operand of the instruction. *)
LEMMA OperandUsed ==
  ASSUME TypeOK, AtOperand
  PROVE  pc \in Insts /\ Operand \in OperandsOf(prog, pc)
BY OperandIsValue DEF AtOperand, Operand, Operands, OperandsOf

(* Operands recorded stay recorded while no mapped value changes its id. *)
LEMMA SameRecorded ==
  ASSUME TypeOK, RecordedOK, prog' = prog,
         NEW x \in Objects, NEW y \in Objects',
         obj'[y].ops = obj[x].ops, obj'[y].refs = obj[x].refs,
         \A v \in Values : ValueMap[v] # NoObj =>
            ValueMap'[v] # NoObj /\ obj'[ValueMap'[v]].id = obj[ValueMap[v]].id
  PROVE  /\ Len(obj'[y].ops) = Len(obj'[y].refs)
         /\ \A k \in 1 .. Len(obj'[y].refs) :
              LET v == obj'[y].refs[k]
              IN  /\ \E j \in Insts : v \in OperandsOf(prog', j)
                  /\ ValueMap'[v] # NoObj
                  /\ obj'[y].ops[k] = obj'[ValueMap'[v]].id
<1>1. obj[x].refs \in Seq(Values)
  BY Pointers, ObjFields DEF Objects
<1>2. Len(obj'[y].ops) = Len(obj'[y].refs)
  BY DEF RecordedOK
<1>3. ASSUME NEW k \in 1 .. Len(obj'[y].refs)
      PROVE  /\ \E j \in Insts : obj'[y].refs[k] \in OperandsOf(prog', j)
             /\ ValueMap'[obj'[y].refs[k]] # NoObj
             /\ obj'[y].ops[k] = obj'[ValueMap'[obj'[y].refs[k]]].id
  <2> DEFINE v == obj[x].refs[k]
  <2>1. v \in Values /\ v = obj'[y].refs[k] /\ obj'[y].ops[k] = obj[x].ops[k]
    BY <1>1, <1>3
  <2>2. /\ \E j \in Insts : v \in OperandsOf(prog, j)
        /\ ValueMap[v] # NoObj /\ obj[x].ops[k] = obj[ValueMap[v]].id
    BY <1>3 DEF RecordedOK
  <2> QED BY <2>1, <2>2
<1> QED BY <1>2, <1>3

LEMMA UseMappedTracked ==
  ASSUME ForwardInv, Tracked(prog), TrackedOK, UseMapped
  PROVE  TrackedOK'
<1>1. UNCHANGED <<prog, pc, made, ValueMap, obj, IdEntryMap, NextId, NamedId, DecorateVec>>
  BY DEF UseMapped
<1>2. UsedOK' /\ FreshOK'
  BY <1>1 DEF TrackedOK, UsedOK, FreshOK
<1>3. RecordedOK'
  BY <1>1, Zenon DEF TrackedOK, RecordedOK, Objects
<1>4. AnnotatedOK'
  BY <1>1 DEF TrackedOK, AnnotatedOK
<1> QED
  BY <1>2, <1>3, <1>4 DEF TrackedOK

LEMMA UseArgumentTracked ==
  ASSUME ForwardInv, Tracked(prog), TrackedOK, UseArgument
  PROVE  TrackedOK'
<1> DEFINE a == Operand - N
<1>1. /\ TypeOK /\ ControlOK /\ IdsOK /\ MappedOK
      /\ UsedOK /\ FreshOK /\ RecordedOK /\ AnnotatedOK
  BY DEF ForwardInv, Tracked, TrackedOK
<1>2. /\ AtOperand /\ Operand \in ArgValues /\ ValueMap[Operand] = NoObj
      /\ ValueMap' = [ValueMap EXCEPT ![Operand] = a]
      /\ NamedId' = NamedId \cup {obj[a].id}
      /\ UNCHANGED <<prog, pc, made, obj, IdEntryMap, NextId, DecorateVec>>
  BY DEF UseArgument
<1>3. /\ Operand \in Values /\ Operand \notin Insts
      /\ a \in 1 .. Args /\ a \in Objects /\ obj[a].live /\ made = NoObj
  BY <1>1, <1>2, ValueSets, Pointers, SizesAssumption DEF ControlOK, Objects, MappedOK, AtOperand
<1> HIDE DEF a
<1>4. \A v \in Values : v # Operand => ValueMap'[v] = ValueMap[v]
  BY <1>1, <1>2, Pointers
<1>5. UsedOK'
  BY <1>1, <1>2, <1>3, <1>4, ValueSets, SameUsed
<1>6. FreshOK'
  BY <1>2, <1>3 DEF FreshOK
<1>7. RecordedOK'
  <2>1. Objects' = Objects
    BY <1>2 DEF Objects
  <2>2. \A v \in Values : ValueMap[v] # NoObj =>
          ValueMap'[v] # NoObj /\ obj'[ValueMap'[v]].id = obj[ValueMap[v]].id
    BY <1>2, <1>4
  <2>3. obj' = obj /\ prog' = prog
    BY <1>2
  <2> QED BY <1>1, <2>1, <2>2, <2>3, SameRecorded DEF RecordedOK
<1>8. AnnotatedOK'
  BY <1>1, <1>2, <1>3 DEF AnnotatedOK, IdsOK
<1> QED BY <1>5, <1>6, <1>7, <1>8 DEF TrackedOK

(* An entry added under a new id leaves what is recorded and annotated. *)
LEMMA AddEntryTracked ==
  ASSUME TypeOK, RecordedOK, AnnotatedOK, prog' = prog,
         NEW o \in ObjType, AddEntry(o),
         \A v \in Values : ValueMap[v] # NoObj => ValueMap'[v] = ValueMap[v],
         Len(o.ops) = Len(o.refs),
         \A k \in 1 .. Len(o.refs) :
           /\ \E j \in Insts : o.refs[k] \in OperandsOf(prog, j)
           /\ ValueMap[o.refs[k]] # NoObj /\ o.refs[k] \in Values
           /\ o.ops[k] = obj[ValueMap[o.refs[k]]].id
  PROVE  /\ RecordedOK'
         /\ NamedId \subseteq DOMAIN IdEntryMap'
         /\ \A d \in DecorateVec : obj'[d[1]].live /\ ~obj'[d[1]].fwd /\ obj'[d[1]].id = d[2]
<1> DEFINE n == Len(obj) + 1
<1>1. /\ \A x \in Objects' : x \in Objects \/ x = n
      /\ \A x \in Objects : obj'[x] = obj[x]
      /\ obj'[n] = o /\ n \in Objects'
      /\ DOMAIN IdEntryMap \subseteq DOMAIN IdEntryMap'
  BY AddEntryTypes
<1> HIDE DEF n
<1>2. \A v \in Values : ValueMap[v] # NoObj =>
        ValueMap'[v] # NoObj /\ obj'[ValueMap'[v]].id = obj[ValueMap[v]].id
  BY <1>1, Pointers
<1>3. ASSUME NEW y \in Objects'
      PROVE  /\ Len(obj'[y].ops) = Len(obj'[y].refs)
             /\ \A k \in 1 .. Len(obj'[y].refs) :
                  LET v == obj'[y].refs[k]
                  IN  /\ \E j \in Insts : v \in OperandsOf(prog', j)
                      /\ ValueMap'[v] # NoObj
                      /\ obj'[y].ops[k] = obj'[ValueMap'[v]].id
  <2>1. CASE y \in Objects
    BY <1>1, <1>2, <2>1, SameRecorded
  <2>2. CASE y = n
    BY <1>1, <1>2, <2>2
  <2> QED BY <1>1, <1>3, <2>1, <2>2
<1>4. RecordedOK'
  BY <1>3, Zenon DEF RecordedOK
<1>5. \A d \in DecorateVec : d[1] \in Objects
  BY DEF TypeOK
<1> QED BY <1>1, <1>4, <1>5 DEF AnnotatedOK

LEMMA UseNewTracked ==
  ASSUME ForwardInv, Tracked(prog), TrackedOK, UseConstant \/ UseForward
  PROVE  TrackedOK'
<1> DEFINE n == Len(obj) + 1
<1>1. /\ TypeOK /\ ControlOK /\ IdsOK /\ MappedOK
      /\ UsedOK /\ FreshOK /\ RecordedOK /\ AnnotatedOK
  BY DEF ForwardInv, Tracked, TrackedOK
<1>2. /\ AtOperand /\ ValueMap[Operand] = NoObj /\ made = NoObj
      /\ ValueMap' = [ValueMap EXCEPT ![Operand] = n]
      /\ UNCHANGED <<prog, pc, made, DecorateVec>>
      /\ NamedId' \subseteq NamedId \cup {NextId}
  BY DEF UseConstant, UseForward, AtOperand
<1>3. NextId \in Nat /\ <<>> \in Seq(Nat) /\ <<>> \in Seq(Values)
  BY <1>1 DEF TypeOK
<1>4. PICK o \in ObjType : AddEntry(o) /\ o.ops = <<>> /\ o.refs = <<>>
  <2>1. CASE UseConstant
    <3> DEFINE c == Live(NextId, FALSE, <<>>, <<>>)
    <3>0. c.ops = <<>> /\ c.refs = <<>>
      BY DEF Live
    <3>1. c \in ObjType
      BY <1>3, NotForward
    <3>2. AddEntry(c)
      BY <2>1 DEF UseConstant
    <3> QED BY <3>0, <3>1, <3>2
  <2>2. CASE UseForward
    <3> DEFINE c == Live(NextId, TRUE, <<>>, <<>>)
    <3>0. c.ops = <<>> /\ c.refs = <<>>
      BY DEF Live
    <3>1. c \in ObjType
      BY <1>3, LiveType
    <3>2. AddEntry(c)
      BY <2>2 DEF UseForward
    <3> QED BY <3>0, <3>1, <3>2
  <2> QED BY <2>1, <2>2
<1> HIDE DEF n
<1>5. \A v \in Values : ValueMap'[v] = IF v = Operand THEN n ELSE ValueMap[v]
  BY <1>1, <1>2, Pointers
<1>6. UsedOK'
  <2> SUFFICES ASSUME NEW v \in Insts, v >= pc, ValueMap'[v] # NoObj
               PROVE  \E j \in Insts : j <= pc /\ v \in OperandsOf(prog, j)
    BY <1>2 DEF UsedOK, OperandsOf
  <2>1. CASE v = Operand
    BY <1>1, <1>2, <2>1, OperandUsed DEF Insts
  <2>2. CASE v # Operand
    BY <1>1, <1>5, <2>2, ValueSets DEF UsedOK
  <2> QED BY <2>1, <2>2
<1>7. FreshOK'
  BY <1>2 DEF FreshOK
<1>8. /\ RecordedOK' /\ NamedId \subseteq DOMAIN IdEntryMap'
      /\ \A d \in DecorateVec : obj'[d[1]].live /\ ~obj'[d[1]].fwd /\ obj'[d[1]].id = d[2]
  <2>1. Len(o.ops) = Len(o.refs) /\ \A k \in 1 .. Len(o.refs) : FALSE
    BY <1>4
  <2>2. \A v \in Values : ValueMap[v] # NoObj => ValueMap'[v] = ValueMap[v]
    BY <1>2, <1>5
  <2> QED BY <1>1, <1>2, <1>4, <2>1, <2>2, AddEntryTracked
<1>9. AnnotatedOK'
  BY <1>1, <1>2, <1>4, <1>8, AddEntryTypes DEF AnnotatedOK
<1> QED BY <1>6, <1>7, <1>8, <1>9 DEF TrackedOK

(* The instruction records, operand by operand, the ids of the values that *)
(* ValueMap has for them, and nothing knows it yet.                        *)
LEMMA CreateInstTracked ==
  ASSUME ForwardInv, Tracked(prog), TrackedOK, CreateInst
  PROVE  TrackedOK'
<1> DEFINE n == Len(obj) + 1
           ids == [k \in 1 .. Len(got) |-> obj[got[k]].id]
<1>1. /\ TypeOK /\ ControlOK /\ IdsOK /\ MappedOK /\ LocalsOK
      /\ UsedOK /\ FreshOK /\ RecordedOK /\ AnnotatedOK
  BY DEF ForwardInv, Tracked, TrackedOK
<1>2. /\ made' = n /\ UNCHANGED <<prog, pc, ValueMap, NamedId>>
      /\ DecorateVec' = DecorateVec \cup {<<n, NextId>>}
      /\ pc \in Insts /\ Len(got) = Len(Operands)
      /\ AddEntry(Live(NextId, FALSE, ids, Operands))
  BY DEF CreateInst, AtEnd
<1>3. ids \in Seq(Nat) /\ Len(ids) = Len(got) /\ \A k \in 1 .. Len(got) : ids[k] = obj[got[k]].id
  BY <1>1, Pointers DEF ObjType
<1>4. Operands \in Seq(Values) /\ NextId \in Nat
  BY <1>1, <1>2 DEF TypeOK, ProgramType, Operands
<1> HIDE DEF ids
<1>5. PICK o \in ObjType :
        /\ AddEntry(o) /\ o.id = NextId /\ o.live /\ ~o.fwd /\ o.ops = ids /\ o.refs = Operands
  <2> DEFINE c == Live(NextId, FALSE, ids, Operands)
  <2>1. c.id = NextId /\ c.live /\ ~c.fwd /\ c.ops = ids /\ c.refs = Operands
    BY DEF Live
  <2>2. c \in ObjType
    BY <1>3, <1>4, NotForward
  <2> QED BY <1>2, <2>1, <2>2
<1>6. /\ \A x \in Objects : obj'[x] = obj[x]
      /\ obj'[n] = o /\ n \notin Objects /\ n # NoObj
      /\ DOMAIN IdEntryMap' = DOMAIN IdEntryMap \cup {NextId}
  BY <1>1, <1>5, AddEntryTypes
<1> HIDE DEF n
<1>7. UsedOK'
  BY <1>2 , <1>1 DEF UsedOK, OperandsOf
<1>8. FreshOK'
  <2>1. \A v \in Values : ValueMap'[v] # made'
    BY <1>1, <1>2, <1>6, Pointers
  <2>2. NextId \notin NamedId
    BY <1>1 DEF AnnotatedOK, IdsOK, TypeOK
  <2>3. obj'[made'].id = NextId
    BY <1>2, <1>5, <1>6
  <2> QED BY <1>2, <2>1, <2>2, <2>3 DEF FreshOK
<1>9. /\ RecordedOK' /\ NamedId \subseteq DOMAIN IdEntryMap'
      /\ \A d \in DecorateVec : obj'[d[1]].live /\ ~obj'[d[1]].fwd /\ obj'[d[1]].id = d[2]
  <2>1. Len(o.ops) = Len(o.refs)
    BY <1>2, <1>3, <1>5
  <2>2. ASSUME NEW k \in 1 .. Len(o.refs)
        PROVE  /\ \E j \in Insts : o.refs[k] \in OperandsOf(prog, j)
               /\ ValueMap[o.refs[k]] # NoObj /\ o.refs[k] \in Values
               /\ o.ops[k] = obj[ValueMap[o.refs[k]]].id
    <3>1. k \in 1 .. Len(got) /\ o.refs[k] = Operands[k] /\ Operands[k] \in Values
      BY <1>2, <1>4, <1>5, <2>2
    <3>2. got[k] = ValueMap[Operands[k]] /\ got[k] # NoObj
      BY <1>1, <3>1, Pointers DEF LocalsOK
    <3>3. Operands[k] \in OperandsOf(prog, pc)
      BY <1>2, <3>1 DEF OperandsOf, Operands
    <3> QED BY <1>2, <1>3, <1>5, <3>1, <3>2, <3>3
  <2>3. prog' = prog /\ \A v \in Values : ValueMap[v] # NoObj => ValueMap'[v] = ValueMap[v]
    BY <1>2
  <2> QED BY <1>1, <1>5, <2>1, <2>2, <2>3, AddEntryTracked
<1>10. AnnotatedOK'
  <2>1. NamedId' \subseteq DOMAIN IdEntryMap'
    BY <1>2, <1>9
  <2>2. obj'[n].live /\ ~obj'[n].fwd /\ obj'[n].id = NextId
    BY <1>5, <1>6
  <2>3. ASSUME NEW d \in DecorateVec'
        PROVE  obj'[d[1]].live /\ ~obj'[d[1]].fwd /\ obj'[d[1]].id = d[2]
    <3>1. CASE d \in DecorateVec
      BY <1>9, <3>1
    <3>2. CASE d = <<n, NextId>>
      BY <2>2, <3>2
    <3> QED BY <1>2, <2>3, <3>1, <3>2
  <2> QED BY <2>1, <2>3 DEF AnnotatedOK
<1> QED BY <1>7, <1>8, <1>9, <1>10 DEF TrackedOK

LEMMA YieldOperandTracked ==
  ASSUME ForwardInv, Tracked(prog), TrackedOK, YieldOperand
  PROVE  TrackedOK'
<1>1. TypeOK /\ UsedOK /\ FreshOK /\ RecordedOK /\ AnnotatedOK
  BY DEF ForwardInv, TrackedOK
<1>2. /\ prog.kind[pc] # "inst" /\ made' = got[1] /\ pc \in Insts
      /\ DecorateVec' \subseteq DecorateVec \cup {<<got[1], obj[got[1]].id>>}
      /\ UNCHANGED <<prog, pc, got, ValueMap, obj, IdEntryMap, NextId, NamedId>>
  BY DEF YieldOperand, AtEnd
<1>3. got[1] # NoObj
  <2>1. Operands \in Seq(Values) /\ Operands # <<>> /\ Len(got) = Len(Operands)
    BY <1>1, <1>2 DEF YieldOperand, AtEnd, TypeOK, Operands, ProgramType, WellFormed
  <2>2. 1 \in 1 .. Len(got)
    BY <2>1
  <2> QED BY <1>1, <2>2, Pointers
<1>4. obj[got[1]].live /\ ~obj[got[1]].fwd
  <2>1. LocalsOK'
    BY YieldOperandInv DEF Tracked
  <2> QED BY <1>2, <1>3, <2>1 DEF LocalsOK
<1>5. UsedOK' /\ FreshOK' /\ RecordedOK'
  BY <1>1, <1>2 DEF UsedOK, FreshOK, RecordedOK, OperandsOf, Objects
<1>6. AnnotatedOK'
  <2>1. ASSUME NEW d \in DecorateVec'
        PROVE  obj[d[1]].live /\ ~obj[d[1]].fwd /\ obj[d[1]].id = d[2]
    <3>1. CASE d \in DecorateVec
      BY <1>1, <3>1 DEF AnnotatedOK
    <3>2. CASE d = <<got[1], obj[got[1]].id>>
      BY <1>4, <3>2
    <3> QED BY <1>2, <2>1, <3>1, <3>2
  <2> QED BY <1>1, <1>2, <2>1 DEF AnnotatedOK
<1> QED BY <1>5, <1>6 DEF TrackedOK

LEMMA DropInstTracked ==
  ASSUME ForwardInv, Tracked(prog), TrackedOK, DropInst
  PROVE  TrackedOK'
<1>1. TypeOK /\ UsedOK /\ FreshOK /\ RecordedOK /\ AnnotatedOK
  BY DEF ForwardInv, TrackedOK
<1>2. /\ pc' = pc + 1 /\ made' = NoObj
      /\ UNCHANGED <<prog, ValueMap, obj, IdEntryMap, NextId, NamedId, DecorateVec>>
  BY DEF DropInst, AtEnd
<1>3. UsedOK'
  BY <1>1, <1>2, SameUsed
<1>4. FreshOK' /\ RecordedOK' /\ AnnotatedOK'
  BY <1>1, <1>2 DEF FreshOK, RecordedOK, AnnotatedOK, OperandsOf, Objects
<1> QED BY <1>3, <1>4 DEF TrackedOK

LEMMA MapValueTracked ==
  ASSUME ForwardInv, Tracked(prog), TrackedOK, MapValue
  PROVE  TrackedOK'
<1>1. /\ TypeOK /\ ControlOK /\ IdsOK /\ MappedOK /\ LocalsOK
      /\ UsedOK /\ FreshOK /\ RecordedOK /\ AnnotatedOK
  BY DEF ForwardInv, Tracked, TrackedOK
<1>2. /\ pc' = pc + 1 /\ made' = NoObj /\ made # NoObj
      /\ ValueMap' = [ValueMap EXCEPT ![pc] = made] /\ ValueMap[pc] \in {NoObj, made}
      /\ NamedId' = NamedId \cup {obj[made].id}
      /\ UNCHANGED <<prog, obj, IdEntryMap, NextId>>
  BY DEF MapValue, NextInst, Mapped
<1>3. DecorateVec' \subseteq DecorateVec \cup {<<made, obj[made].id>>}
  BY DEF MapValue, Annotated
<1>4. pc \in Values /\ made \in Objects /\ obj[made].live /\ ~obj[made].fwd
  BY <1>1, <1>2, ValueSets DEF ControlOK, LocalsOK, TypeOK, Handles
<1>5. \A v \in Values : ValueMap'[v] = IF v = pc THEN made ELSE ValueMap[v]
  BY <1>1, <1>2, Pointers
<1>6. UsedOK'
  <2>1. \A v \in Insts : v >= pc' => ValueMap'[v] = ValueMap[v]
    BY <1>1, <1>2, <1>5, ValueSets DEF TypeOK, Insts
  <2> QED BY <1>1, <1>2, <2>1, SameUsed
<1>7. FreshOK'
  BY <1>2 DEF FreshOK
<1>8. RecordedOK'
  <2>1. Objects' = Objects /\ obj' = obj /\ prog' = prog
    BY <1>2 DEF Objects
  <2>2. \A v \in Values : ValueMap[v] # NoObj =>
          ValueMap'[v] # NoObj /\ obj'[ValueMap'[v]].id = obj[ValueMap[v]].id
    BY <1>2, <1>5
  <2> QED BY <1>1, <2>1, <2>2, SameRecorded DEF RecordedOK
<1>9. AnnotatedOK'
  <2>1. NamedId' \subseteq DOMAIN IdEntryMap
    BY <1>1, <1>2, <1>4 DEF AnnotatedOK, IdsOK
  <2>2. ASSUME NEW d \in DecorateVec'
        PROVE  obj[d[1]].live /\ ~obj[d[1]].fwd /\ obj[d[1]].id = d[2]
    <3>1. CASE d \in DecorateVec
      BY <1>1, <3>1 DEF AnnotatedOK
    <3>2. CASE d = <<made, obj[made].id>>
      BY <1>4, <3>2
    <3> QED BY <1>3, <2>2, <3>1, <3>2
  <2> QED BY <1>2, <2>1, <2>2 DEF AnnotatedOK
<1> QED BY <1>6, <1>7, <1>8, <1>9 DEF TrackedOK

(* Only a fresh instruction takes a forward's id: no name, no value and no *)
(* operand is left with the id it gives up.                                *)
LEMMA ReplaceForwardTracked ==
  ASSUME ForwardInv, Tracked(prog), TrackedOK, ReplaceForward
  PROVE  TrackedOK'
<1> DEFINE f == ValueMap[pc]
           id == obj[f].id
<1>1. /\ TypeOK /\ ControlOK /\ IdsOK /\ MappedOK /\ ForwardsOK /\ LocalsOK
      /\ UsedOK /\ FreshOK /\ RecordedOK /\ AnnotatedOK
  BY DEF ForwardInv, Tracked, TrackedOK
<1>2. /\ pc' = pc + 1 /\ made' = NoObj /\ made # NoObj
      /\ ValueMap' = [ValueMap EXCEPT ![pc] = made] /\ f # NoObj /\ f # made
      /\ IdEntryMap' = TakeId(made, id) /\ obj' = IdTaken(obj, made, f, id)
      /\ NamedId' = NamedId \cup {id}
      /\ DecorateVec' = Retarget(DecorateVec, made, id) \cup Annotated(made, id)
      /\ UNCHANGED <<prog, NextId>>
  BY DEF ReplaceForward, NextInst, Mapped, IdTaken
<1>3. /\ pc \in Insts /\ pc \in Values /\ made \in Objects
      /\ prog.kind[pc] # "drop" /\ obj[made].live /\ ~obj[made].fwd
  BY <1>1, <1>2, ValueSets DEF ControlOK, LocalsOK, TypeOK, Handles
<1>4. f \in Objects /\ id \in Nat /\ obj[f].fwd /\ obj[f].live
  BY <1>1, <1>2, <1>3, Pointers, ObjFields, AwaitedNext DEF Objects, MappedOK
<1>5. /\ \A v \in Values : ValueMap[v] # made
      /\ obj[made].id \notin NamedId
  <2>1. PICK j \in Insts : j <= pc /\ pc \in OperandsOf(prog, j)
    BY <1>1, <1>2, <1>3 DEF UsedOK, Insts
  <2>2. prog.kind[pc] \notin {"alias", "annot"}
    BY <1>3, <2>1 DEF Tracked, Insts
  <2>3. prog.kind[pc] = "inst"
    BY <1>1, <1>3, <2>2 DEF TypeOK, ProgramType, Kinds
  <2> QED BY <1>1, <1>2, <2>3 DEF FreshOK
<1>6. \A v \in Values : ValueMap'[v] = IF v = pc THEN made ELSE ValueMap[v]
  BY <1>1, <1>2, Pointers
<1>7. /\ Objects' = Objects
      /\ \A x \in Objects :
           /\ obj'[x].id = IF x = made THEN id ELSE obj[x].id
           /\ obj'[x].live <=> obj[x].live /\ x # f
           /\ obj'[x].fwd = obj[x].fwd
           /\ obj'[x].ops = obj[x].ops
           /\ obj'[x].refs = obj[x].refs
  <2> HIDE DEF f, id
  <2> QED BY <1>1, <1>2, <1>3, <1>4, Pointers, ReplaceObj DEF Objects
<1>8. UsedOK'
  <2>1. \A v \in Insts : v >= pc' => ValueMap'[v] = ValueMap[v]
    BY <1>1, <1>2, <1>6, ValueSets DEF TypeOK, Insts
  <2> QED BY <1>1, <1>2, <2>1, SameUsed
<1>9. FreshOK'
  BY <1>2 DEF FreshOK
<1>10. RecordedOK'
  <2>1. ASSUME NEW v \in Values, ValueMap[v] # NoObj
        PROVE  ValueMap'[v] # NoObj /\ obj'[ValueMap'[v]].id = obj[ValueMap[v]].id
    <3>1. CASE v = pc
      BY <1>2, <1>3, <1>6, <1>7, <3>1
    <3>2. CASE v # pc
      BY <1>1, <1>5, <1>6, <1>7, <2>1, <3>2, Pointers
    <3> QED BY <3>1, <3>2
  <2>2. prog' = prog
    BY <1>2
  <2> HIDE DEF f, id
  <2>3. ASSUME NEW y \in Objects'
        PROVE  /\ Len(obj'[y].ops) = Len(obj'[y].refs)
               /\ \A k \in 1 .. Len(obj'[y].refs) :
                    LET v == obj'[y].refs[k]
                    IN  /\ \E j \in Insts : v \in OperandsOf(prog', j)
                        /\ ValueMap'[v] # NoObj
                        /\ obj'[y].ops[k] = obj'[ValueMap'[v]].id
    BY <1>1, <1>7, <2>1, <2>2, SameRecorded
  <2> QED BY <2>3, Zenon DEF RecordedOK
<1>11. AnnotatedOK'
  <2>1. NamedId' \subseteq DOMAIN IdEntryMap'
    BY <1>1, <1>2, <1>5 DEF AnnotatedOK, TakeId
  <2>2. obj'[made].live /\ ~obj'[made].fwd /\ obj'[made].id = id
    BY <1>2, <1>3, <1>7
  <2> HIDE DEF id, f
  <2>3. ASSUME NEW d \in DecorateVec'
        PROVE  obj'[d[1]].live /\ ~obj'[d[1]].fwd /\ obj'[d[1]].id = d[2]
    <3>1. CASE d = <<made, id>>
      BY <2>2, <3>1
    <3>2. CASE d \in DecorateVec /\ d[1] # made
      <4>1. d[1] \in Objects /\ obj[d[1]].live /\ ~obj[d[1]].fwd /\ obj[d[1]].id = d[2]
        BY <1>1, <3>2 DEF AnnotatedOK, TypeOK
      <4> QED BY <1>4, <1>7, <3>2, <4>1
    <3>3. d = <<made, id>> \/ (d \in DecorateVec /\ d[1] # made)
      BY <1>2, <2>3 DEF Retarget, Annotated
    <3> QED BY <3>1, <3>2, <3>3
  <2> QED BY <2>1, <2>3 DEF AnnotatedOK
<1> QED BY <1>8, <1>9, <1>10, <1>11 DEF TrackedOK

LEMMA TrackedInvInit == Init => TrackedInv
<1> SUFFICES ASSUME Init PROVE TrackedInv
  OBVIOUS
<1>1. ForwardInv
  BY ForwardInvInit
<1>2. UsedOK /\ FreshOK
  BY ValueSets DEF Init, UsedOK, FreshOK
<1>3. RecordedOK
  <2> SUFFICES ASSUME NEW x \in Objects
               PROVE  Len(obj[x].ops) = 0 /\ Len(obj[x].refs) = 0
    BY DEF RecordedOK
  <2>1. x \in 1 .. Args
    BY SizesAssumption DEF Init, Objects
  <2>2. obj[x] = Live(x, FALSE, <<>>, <<>>)
    BY <2>1, Zenon DEF Init
  <2>3. obj[x].ops = <<>> /\ obj[x].refs = <<>>
    BY <2>2 DEF Live
  <2> QED BY <2>3
<1>4. AnnotatedOK
  BY DEF AnnotatedOK, Init
<1> QED BY <1>1, <1>2, <1>3, <1>4 DEF TrackedInv, TrackedOK

LEMMA TrackedInvNext == TrackedInv /\ [Next]_vars => TrackedInv'
<1> SUFFICES ASSUME TrackedInv, [Next]_vars PROVE TrackedInv'
  OBVIOUS
<1>1. ForwardInv'
  BY ForwardInvNext DEF TrackedInv
<1>2. prog' = prog
  BY DEF Next, vars, UseMapped, UseArgument, UseConstant, UseForward, CreateInst, YieldOperand,
         DropInst, MapValue, ReplaceForward, Finished
<1>3. ASSUME Tracked(prog) PROVE TrackedOK'
  <2>1. ForwardInv /\ TrackedOK
    BY <1>3 DEF TrackedInv
  <2>2. CASE UNCHANGED vars
    <3>1. /\ prog' = prog /\ pc' = pc /\ made' = made /\ ValueMap' = ValueMap /\ obj' = obj
          /\ IdEntryMap' = IdEntryMap /\ NamedId' = NamedId /\ DecorateVec' = DecorateVec
          /\ got' = got /\ NextId' = NextId
      BY <2>2 DEF vars
    <3>2. UsedOK' /\ FreshOK'
      BY <2>1, <3>1 DEF TrackedOK, UsedOK, FreshOK
    <3>3. RecordedOK'
      BY <2>1, <3>1, SMTT(40) DEF TrackedOK, RecordedOK, Objects
    <3>4. AnnotatedOK'
      BY <2>1, <3>1 DEF TrackedOK, AnnotatedOK
    <3> QED BY <3>2, <3>3, <3>4 DEF TrackedOK
  <2>3. CASE Finished
    BY <2>2, <2>3 DEF Finished
  <2> QED
    BY <1>3, <2>1, <2>2, <2>3, UseMappedTracked, UseArgumentTracked, UseNewTracked,
       CreateInstTracked, YieldOperandTracked, DropInstTracked, MapValueTracked,
       ReplaceForwardTracked DEF Next
<1>4. Tracked(prog') <=> Tracked(prog)
  BY <1>2
<1> QED BY <1>1, <1>2, <1>3, <1>4 DEF TrackedInv, Tracked, YieldsFollow, OperandsOf

-----------------------------------------------------------------------------
LEMMA PointersLiveFromInv == ForwardInv => PointersLive
<1> SUFFICES ASSUME ForwardInv, YieldsFollow(prog)
             PROVE  /\ \A v \in Values : ValueMap[v] # NoObj => obj[ValueMap[v]].live
                    /\ \A k \in 1 .. Len(got) : obj[got[k]].live
                    /\ made # NoObj => obj[made].live
  BY DEF PointersLive
<1>1. TypeOK /\ ControlOK /\ MappedOK /\ LocalsOK
  BY DEF ForwardInv
<1>2. \A v \in Values : ValueMap[v] # NoObj => obj[ValueMap[v]].live
  BY <1>1 DEF MappedOK
<1>3. ASSUME NEW k \in 1 .. Len(got) PROVE obj[got[k]].live
  <2>1. pc \in Insts
    BY <1>1, <1>3 DEF ControlOK
  <2>2. Operands \in Seq(Values) /\ Len(got) <= Len(Operands) /\ Len(got) \in Nat
    BY <1>1, <2>1, Pointers DEF TypeOK, Operands, ProgramType, ControlOK
  <2>3. Operands[k] \in Values /\ got[k] = ValueMap[Operands[k]] /\ got[k] # NoObj
    BY <1>1, <1>3, <2>2, Pointers DEF LocalsOK
  <2> QED BY <1>2, <2>3
<1> QED BY <1>1, <1>2, <1>3 DEF LocalsOK

LEMMA IdsConsistentFromInv == ForwardInv => IdsConsistent
<1> SUFFICES ASSUME ForwardInv, YieldsFollow(prog)
             PROVE  /\ IdsOK
                    /\ Done => \A i \in DOMAIN IdEntryMap : obj[IdEntryMap[i]].fwd =>
                         \E v \in Insts : prog.kind[v] = "drop" /\ ValueMap[v] = IdEntryMap[i]
  BY DEF IdsConsistent, IdsOK
<1>1. TypeOK /\ IdsOK /\ MappedOK /\ ForwardsOK
  BY DEF ForwardInv
<1>2. ASSUME Done, NEW i \in DOMAIN IdEntryMap, obj[IdEntryMap[i]].fwd
      PROVE  \E v \in Insts : prog.kind[v] = "drop" /\ ValueMap[v] = IdEntryMap[i]
  <2>1. IdEntryMap[i] \in Objects /\ obj[IdEntryMap[i]].live
    BY <1>1, <1>2 DEF TypeOK, IdsOK
  <2>2. PICK v \in Insts : ValueMap[v] = IdEntryMap[i]
    BY <1>1, <1>2, <2>1 DEF ForwardsOK
  <2>3. Awaited(v)
    BY <1>1, <1>2, <2>1, <2>2, Pointers, ValueSets DEF MappedOK
  <2> QED BY <1>2, <2>2, <2>3, SizesAssumption DEF Awaited, Done, Insts
<1> QED BY <1>1, <1>2

LEMMA OperandsDenoteFromInv == TrackedInv => OperandsDenote
<1> SUFFICES ASSUME TrackedInv, Done, Tracked(prog),
                    NEW o \in Objects, obj[o].live, NEW k \in 1 .. Len(obj[o].ops)
             PROVE  /\ obj[o].ops[k] \in DOMAIN IdEntryMap
                    /\ ~obj[IdEntryMap[obj[o].ops[k]]].fwd
                    /\ IdEntryMap[obj[o].ops[k]] = ValueMap[obj[o].refs[k]]
  BY DEF OperandsDenote
<1> DEFINE v == obj[o].refs[k]
<1>1. TypeOK /\ IdsOK /\ MappedOK /\ RecordedOK
  BY DEF TrackedInv, TrackedOK, ForwardInv, Tracked
<1>2. obj[o].refs \in Seq(Values) /\ k \in 1 .. Len(obj[o].refs)
  BY <1>1, Pointers, ObjFields DEF Objects, RecordedOK
<1>3. v \in Values /\ ValueMap[v] # NoObj /\ obj[o].ops[k] = obj[ValueMap[v]].id
  BY <1>1, <1>2 DEF RecordedOK
<1>4. PICK j \in Insts : v \in OperandsOf(prog, j)
  BY <1>1, <1>2 DEF RecordedOK
<1> HIDE DEF v
<1>5. ValueMap[v] \in Objects /\ obj[ValueMap[v]].live
  BY <1>1, <1>3, Pointers DEF MappedOK
<1>6. obj[o].ops[k] \in DOMAIN IdEntryMap /\ IdEntryMap[obj[o].ops[k]] = ValueMap[v]
  BY <1>1, <1>3, <1>5 DEF IdsOK
<1>7. ~Awaited(v)
  <2>1. v \in Insts => prog.kind[v] # "drop"
    BY <1>4 DEF Tracked
  <2>2. v \in Insts => ~(v >= pc)
    BY SizesAssumption DEF Done, Insts
  <2> QED BY <2>1, <2>2 DEF Awaited
<1>8. ~obj[ValueMap[v]].fwd
  BY <1>1, <1>3, <1>7 DEF MappedOK
<1> QED BY <1>6, <1>8 DEF v

LEMMA AnnotationsResolveFromInv == TrackedInv => AnnotationsResolve
<1> SUFFICES ASSUME TrackedInv, Tracked(prog)
             PROVE  /\ NamedId \subseteq DOMAIN IdEntryMap
                    /\ \A d \in DecorateVec : d[2] \in DOMAIN IdEntryMap /\ IdEntryMap[d[2]] = d[1]
  BY DEF AnnotationsResolve
<1>1. TypeOK /\ IdsOK /\ AnnotatedOK
  BY DEF TrackedInv, TrackedOK, ForwardInv, Tracked
<1>2. \A d \in DecorateVec : d[1] \in Objects
  BY <1>1 DEF TypeOK
<1> QED BY <1>1, <1>2 DEF AnnotatedOK, IdsOK

(***************************************************************************)
(* The writer's tables keep their types: a pointer in ValueMap, in the     *)
(* operands gathered or in IdEntryMap is always an object allocated.       *)
(***************************************************************************)
THEOREM TypeCorrect == Spec => []TypeOK
<1>1. Init => TypeOK /\ ControlOK
  BY InitTypes
<1>2. TypeOK /\ ControlOK /\ [Next]_vars => TypeOK' /\ ControlOK'
  BY NextTypes
<1> QED BY <1>1, <1>2, PTL DEF Spec

(***************************************************************************)
(* Forwards and real values are told apart: the invariant of transValue    *)
(* and mapValue, whatever the function and its layout.                     *)
(***************************************************************************)
THEOREM ForwardsTracked == Spec => []TrackedInv
<1>1. Init => TrackedInv
  BY TrackedInvInit
<1>2. TrackedInv /\ [Next]_vars => TrackedInv'
  BY TrackedInvNext
<1> QED BY <1>1, <1>2, PTL DEF Spec

(***************************************************************************)
(* No use after free in transValue and mapValue: after replaceForward has  *)
(* deleted a forward, neither ValueMap nor a local of the writer holds it. *)
(***************************************************************************)
THEOREM NoDeletedForward == Spec => []PointersLive
<1>1. TrackedInv => PointersLive
  BY PointersLiveFromInv DEF TrackedInv
<1> QED BY <1>1, ForwardsTracked, PTL

(***************************************************************************)
(* addEntry never sees an id twice, every entry is found under its own id  *)
(* below the bound of the header, and the forwards left at the end stand   *)
(* for instructions the writer dropped.                                    *)
(***************************************************************************)
THEOREM IdsStayConsistent == Spec => []IdsConsistent
<1>1. TrackedInv => IdsConsistent
  BY IdsConsistentFromInv DEF TrackedInv
<1> QED BY <1>1, ForwardsTracked, PTL

(***************************************************************************)
(* When the function is translated, every operand id an instruction        *)
(* recorded denotes the SPIR-V value of that operand, and no forward.      *)
(***************************************************************************)
THEOREM RecordedOperandsDenote == Spec => []OperandsDenote
<1> QED BY ForwardsTracked, OperandsDenoteFromInv, PTL

(***************************************************************************)
(* No name and no decoration is left on an id that replaceForward gave up. *)
(***************************************************************************)
THEOREM AnnotationsFollow == Spec => []AnnotationsResolve
<1> QED BY ForwardsTracked, AnnotationsResolveFromInv, PTL

-----------------------------------------------------------------------------
(* The reader: ReadValues.                                                 *)

(***************************************************************************)
(* What the writer leaves to the reader: an instruction of its own has an  *)
(* object that records the operands of the LLVM instruction.               *)
(***************************************************************************)
RefsOK ==
  /\ \A i \in Insts : i < pc /\ prog.kind[i] = "inst" =>
       ValueMap[i] # NoObj /\ obj[ValueMap[i]].refs = prog.ops[i]
  /\ made # NoObj /\ prog.kind[pc] = "inst" => obj[made].refs = prog.ops[pc]

WriterInv == TrackedInv /\ RefsOK

-----------------------------------------------------------------------------
(* The object operand k of object o denotes, and its LLVM value so far. *)
Denoted(o, k) == IdEntryMap[obj[o].ops[k]]
Got(o, k) == RValueMap[Denoted(o, k)]

LLVMType == [what : {"argument", "constant", "load", "inst"}, ops : Seq(Nat), live : BOOLEAN]

ReadTypes ==
  /\ rpc \in Nat
  /\ llvm \in Seq(LLVMType)
  /\ RValueMap \in [Objects -> 0 .. Len(llvm)]
  /\ rops \in Seq(Nat)
  /\ phi \in 0 .. Len(llvm)

(* Two SPIR-V values never share an LLVM value. *)
OwnValues ==
  \A o, p \in Objects : RValueMap[o] # NoObj /\ RValueMap[o] = RValueMap[p] => o = p

(* Instruction h has the LLVM values of the first n operands of object o. *)
HasOperands(h, o, n) ==
  \A k \in 1 .. n : llvm[h].ops[k] = Got(o, k) /\ Got(o, k) # NoObj

(* The instructions read are complete, whatever is replaced later. *)
ReadOK ==
  \A o \in Written : o < rpc =>
    /\ RValueMap[o] # NoObj /\ llvm[RValueMap[o]].live /\ llvm[RValueMap[o]].what = "inst"
    /\ Len(llvm[RValueMap[o]].ops) = Len(obj[o].ops)
    /\ HasOperands(RValueMap[o], o, Len(obj[o].ops))

(* The operands collected for the instruction being read. *)
CollectedOK ==
  /\ rpc \notin Written => rops = <<>> /\ phi = NoObj
  /\ phi = NoObj => \A k \in 1 .. Len(rops) : rops[k] = Got(rpc, k) /\ Got(rpc, k) # NoObj
  /\ phi # NoObj =>
       /\ rops = <<>> /\ RValueMap[rpc] = phi
       /\ llvm[phi].live /\ llvm[phi].what = "inst"
       /\ HasOperands(phi, rpc, Len(llvm[phi].ops))

(* A placeholder not erased stands for an instruction still to be read. *)
PlaceholdersOK ==
  \A h \in LLVMValue : llvm[h].live /\ llvm[h].what = "load" =>
    \E o \in Written : RValueMap[o] = h /\ o >= rpc /\ (phi # NoObj => o # rpc)

ReadInv ==
  /\ WriterInv
  /\ rpc = 0 => rops = <<>> /\ phi = NoObj
  /\ rpc # 0 =>
       /\ Done /\ Tracked(prog)
       /\ ReadTypes /\ OwnValues /\ ReadOK /\ CollectedOK /\ PlaceholdersOK

-----------------------------------------------------------------------------
(* A nonempty set of numbers has a least element. *)
LEMMA LeastOf ==
  ASSUME NEW T \in SUBSET Nat, T # {}
  PROVE  Min(T) \in T /\ \A y \in T : Min(T) <= y
<1>1. PICK x \in T : \A y \in T : ~(<<y, x>> \in OpToRel(<, Nat))
  BY NatLessThanWellFounded, WFMin, Zenon
<1>2. \A y \in T : ~(y < x)
  BY <1>1 DEF OpToRel
<1>3. \A y \in T : x =< y
  BY <1>2
<1> QED BY <1>3 DEF Min

(* What the set of written instructions leaves after an instruction. *)
LEMMA EntryAfterFacts ==
  ASSUME TypeOK, Written \subseteq Objects, NEW o \in 0 .. Len(obj)
  PROVE  /\ EntryAfter(o) \in Written \/ EntryAfter(o) = CodeEnd
         /\ EntryAfter(o) \in Nat /\ EntryAfter(o) > o
         /\ \A p \in Written : p < EntryAfter(o) => p <= o
<1> DEFINE T == {p \in Written \cup {CodeEnd} : p > o}
<1>1. Len(obj) \in Nat /\ CodeEnd \in Nat /\ CodeEnd > o /\ Written \subseteq Nat
  BY DEF TypeOK, CodeEnd, Objects
<1>2. T \in SUBSET Nat /\ T # {}
  BY <1>1
<1>3. EntryAfter(o) = Min(T)
  BY DEF EntryAfter
<1>4. Min(T) \in T /\ \A y \in T : Min(T) <= y
  BY <1>2, LeastOf
<1>5. /\ EntryAfter(o) \in Written \cup {CodeEnd} /\ EntryAfter(o) > o
      /\ \A p \in Written : p > o => EntryAfter(o) <= p
  BY <1>3, <1>4
<1>6. EntryAfter(o) \in Nat
  BY <1>1, <1>5
<1>7. \A p \in Written : p < EntryAfter(o) => p <= o
  BY <1>1, <1>5, <1>6
<1> QED BY <1>5, <1>6, <1>7

-----------------------------------------------------------------------------
(* The fields of an LLVM value. *)
LEMMA LLVMFields ==
  ASSUME NEW s \in Seq(LLVMType), NEW h \in 1 .. Len(s)
  PROVE  /\ s[h] \in LLVMType
         /\ s[h].what \in {"argument", "constant", "load", "inst"}
         /\ s[h].ops \in Seq(Nat) /\ s[h].live \in BOOLEAN
<1>1. s[h] \in LLVMType
  OBVIOUS
<1> QED BY <1>1 DEF LLVMType

(* A value that is made. *)
LEMMA MadeFields ==
  ASSUME NEW w \in {"argument", "constant", "load", "inst"}, NEW ops \in Seq(Nat)
  PROVE  /\ Made(w, ops) \in LLVMType /\ Made(w, ops).what = w
         /\ Made(w, ops).ops = ops /\ Made(w, ops).live
BY DEF Made, LLVMType

LEMMA AppendLLVM ==
  ASSUME NEW s \in Seq(LLVMType), NEW r \in LLVMType
  PROVE  /\ Append(s, r) \in Seq(LLVMType)
         /\ Len(Append(s, r)) = Len(s) + 1
         /\ \A x \in 1 .. Len(s) : Append(s, r)[x] = s[x]
         /\ Append(s, r)[Len(s) + 1] = r
OBVIOUS

(* A phi takes another incoming value. *)
Incoming(s, h, v) == [s EXCEPT ![h].ops = Append(@, v)]

LEMMA IncomingFields ==
  ASSUME NEW s \in Seq(LLVMType), NEW h \in 1 .. Len(s), NEW v \in Nat
  PROVE  /\ Incoming(s, h, v) \in Seq(LLVMType) /\ Len(Incoming(s, h, v)) = Len(s)
         /\ \A x \in 1 .. Len(s) : x # h => Incoming(s, h, v)[x] = s[x]
         /\ Incoming(s, h, v)[h].what = s[h].what
         /\ Incoming(s, h, v)[h].live <=> s[h].live
         /\ Incoming(s, h, v)[h].ops = Append(s[h].ops, v)
<1> DEFINE r == [s[h] EXCEPT !.ops = Append(@, v)]
<1>1. s[h] \in LLVMType /\ Append(s[h].ops, v) \in Seq(Nat)
  BY LLVMFields
<1>2. r \in LLVMType /\ r.what = s[h].what /\ r.live = s[h].live /\ r.ops = Append(s[h].ops, v)
  BY <1>1 DEF LLVMType
<1>3. Incoming(s, h, v) = [s EXCEPT ![h] = r]
  BY DEF Incoming
<1> HIDE DEF r
<1>4. /\ [s EXCEPT ![h] = r] \in Seq(LLVMType) /\ Len([s EXCEPT ![h] = r]) = Len(s)
      /\ \A x \in 1 .. Len(s) : [s EXCEPT ![h] = r][x] = IF x = h THEN r ELSE s[x]
  BY <1>2
<1> QED BY <1>2, <1>3, <1>4

(* The uses of a placeholder are replaced, and it is erased. *)
LEMMA ReplacedFields ==
  ASSUME NEW s \in Seq(LLVMType), NEW ld \in Nat, NEW v \in Nat
  PROVE  /\ Replaced(s, ld, v) \in Seq(LLVMType) /\ Len(Replaced(s, ld, v)) = Len(s)
         /\ \A h \in 1 .. Len(s) :
              /\ Replaced(s, ld, v)[h].what = s[h].what
              /\ Replaced(s, ld, v)[h].live <=> s[h].live /\ h # ld
              /\ Len(Replaced(s, ld, v)[h].ops) = Len(s[h].ops)
              /\ \A k \in 1 .. Len(s[h].ops) :
                   Replaced(s, ld, v)[h].ops[k] = IF s[h].ops[k] = ld THEN v ELSE s[h].ops[k]
<1> DEFINE ops(h) == [k \in DOMAIN s[h].ops |-> IF s[h].ops[k] = ld THEN v ELSE s[h].ops[k]]
           r(h) == [s[h] EXCEPT !.live = @ /\ h # ld, !.ops = ops(h)]
<1>1. Replaced(s, ld, v) = [h \in 1 .. Len(s) |-> r(h)]
  BY DEF Replaced
<1>2. ASSUME NEW h \in 1 .. Len(s)
      PROVE  /\ r(h) \in LLVMType /\ r(h).what = s[h].what
             /\ r(h).live <=> s[h].live /\ h # ld
             /\ Len(r(h).ops) = Len(s[h].ops)
             /\ \A k \in 1 .. Len(s[h].ops) :
                  r(h).ops[k] = IF s[h].ops[k] = ld THEN v ELSE s[h].ops[k]
  <2>1. s[h] \in LLVMType /\ s[h].ops \in Seq(Nat)
    BY LLVMFields
  <2>2. ops(h) \in Seq(Nat) /\ Len(ops(h)) = Len(s[h].ops)
        /\ \A k \in 1 .. Len(s[h].ops) : ops(h)[k] = IF s[h].ops[k] = ld THEN v ELSE s[h].ops[k]
    BY <2>1
  <2> HIDE DEF ops
  <2>3. r(h) \in LLVMType /\ r(h).what = s[h].what /\ (r(h).live <=> s[h].live /\ h # ld)
        /\ r(h).ops = ops(h)
    BY <2>1, <2>2 DEF LLVMType
  <2> HIDE DEF r
  <2> QED BY <2>2, <2>3
<1> HIDE DEF r
<1>3. /\ [h \in 1 .. Len(s) |-> r(h)] \in Seq(LLVMType) /\ Len([h \in 1 .. Len(s) |-> r(h)]) = Len(s)
      /\ \A h \in 1 .. Len(s) : [x \in 1 .. Len(s) |-> r(x)][h] = r(h)
  BY <1>2
<1> QED BY <1>1, <1>2, <1>3

-----------------------------------------------------------------------------
(* The writer leaves operands that the reader finds under their ids. *)
LEMMA WriterLeaves ==
  ASSUME WriterInv, Done, Tracked(prog)
  PROVE  /\ Written \subseteq Objects
         /\ \A o \in Written :
              obj[o].ops \in Seq(Nat) /\ \A k \in 1 .. Len(obj[o].ops) : Denoted(o, k) \in Objects
         /\ \A i \in Insts : prog.kind[i] = "inst" =>
              /\ ValueMap[i] \in Written
              /\ prog.ops[i] \in Seq(Values)
              /\ Len(obj[ValueMap[i]].ops) = Len(prog.ops[i])
              /\ \A k \in 1 .. Len(prog.ops[i]) : Denoted(ValueMap[i], k) = ValueMap[prog.ops[i][k]]
<1>1. TypeOK /\ MappedOK /\ RecordedOK /\ RefsOK /\ OperandsDenote
  BY OperandsDenoteFromInv DEF WriterInv, TrackedInv, TrackedOK, ForwardInv, Tracked
<1>2. ASSUME NEW i \in Insts, prog.kind[i] = "inst"
      PROVE  /\ ValueMap[i] \in Objects /\ ValueMap[i] \in Written /\ obj[ValueMap[i]].live
             /\ obj[ValueMap[i]].refs = prog.ops[i]
  <2>1. i < pc
    BY SizesAssumption DEF Done, Insts
  <2>2. ValueMap[i] # NoObj /\ obj[ValueMap[i]].refs = prog.ops[i]
    BY <1>1, <1>2, <2>1 DEF RefsOK
  <2> QED BY <1>1, <1>2, <2>2, Pointers, ValueSets DEF Written, MappedOK
<1>3. ASSUME NEW o \in Objects, obj[o].live
      PROVE  /\ obj[o].ops \in Seq(Nat) /\ Len(obj[o].ops) = Len(obj[o].refs)
             /\ \A k \in 1 .. Len(obj[o].ops) :
                  Denoted(o, k) \in Objects /\ Denoted(o, k) = ValueMap[obj[o].refs[k]]
  <2>1. obj[o].ops \in Seq(Nat) /\ Len(obj[o].ops) = Len(obj[o].refs)
    BY <1>1, ObjFields DEF TypeOK, Objects, RecordedOK
  <2>2. ASSUME NEW k \in 1 .. Len(obj[o].ops)
        PROVE  Denoted(o, k) \in Objects /\ Denoted(o, k) = ValueMap[obj[o].refs[k]]
    BY <1>1, <1>3 DEF OperandsDenote, Denoted, TypeOK
  <2> QED BY <2>1, <2>2
<1>4. ASSUME NEW o \in Written
      PROVE  o \in Objects /\ obj[o].live
  BY <1>2, <1>4 DEF Written
<1>5. \A i \in Insts : prog.ops[i] \in Seq(Values)
  BY <1>1 DEF TypeOK, ProgramType
<1> QED BY <1>2, <1>3, <1>4, <1>5

-----------------------------------------------------------------------------
(* A step that stays at the instruction and keeps what objects record. *)
LEMMA StaysKeepsRefs ==
  ASSUME TypeOK, RefsOK, UNCHANGED <<prog, pc>>, made' # NoObj => made' = made,
         \A x \in Objects : obj'[x].refs = obj[x].refs,
         \A v \in Insts : ValueMap[v] # NoObj => ValueMap'[v] = ValueMap[v]
  PROVE  RefsOK'
<1>1. ASSUME NEW i \in Insts, i < pc, prog.kind[i] = "inst"
      PROVE  ValueMap'[i] # NoObj /\ obj'[ValueMap'[i]].refs = prog.ops[i]
  <2>1. ValueMap[i] # NoObj /\ obj[ValueMap[i]].refs = prog.ops[i]
    BY <1>1 DEF RefsOK
  <2>2. ValueMap[i] \in Objects
    BY <2>1, Pointers, ValueSets
  <2> QED BY <2>1, <2>2
<1>2. ASSUME made' # NoObj, prog.kind[pc] = "inst"
      PROVE  obj'[made'].refs = prog.ops[pc]
  <2>1. made \in Objects /\ obj[made].refs = prog.ops[pc]
    BY <1>2 DEF RefsOK, TypeOK, Handles
  <2> QED BY <1>2, <2>1
<1> QED BY <1>1, <1>2 DEF RefsOK

(* A step that goes on to the next instruction, mapping this one. *)
LEMMA GoesOnKeepsRefs ==
  ASSUME TypeOK, RefsOK, prog' = prog, pc' = pc + 1, made' = NoObj, pc \in Insts,
         \A x \in Objects : obj'[x].refs = obj[x].refs,
         \A v \in Insts : v # pc => ValueMap'[v] = ValueMap[v],
         prog.kind[pc] = "inst" => made # NoObj /\ ValueMap'[pc] = made
  PROVE  RefsOK'
<1>1. ASSUME NEW i \in Insts, i < pc', prog.kind[i] = "inst"
      PROVE  ValueMap'[i] # NoObj /\ obj'[ValueMap'[i]].refs = prog.ops[i]
  <2>1. CASE i = pc
    <3>1. made \in Objects /\ obj[made].refs = prog.ops[pc]
      BY <1>1, <2>1 DEF RefsOK, TypeOK, Handles
    <3> QED BY <1>1, <2>1, <3>1
  <2>2. CASE i # pc
    <3>1. i < pc
      BY <1>1, <2>2, SizesAssumption DEF Insts
    <3>2. ValueMap[i] # NoObj /\ obj[ValueMap[i]].refs = prog.ops[i]
      BY <1>1, <3>1 DEF RefsOK
    <3>3. ValueMap[i] \in Objects
      BY <3>2, Pointers, ValueSets
    <3> QED BY <2>2, <3>2, <3>3
  <2> QED BY <2>1, <2>2
<1> QED BY <1>1 DEF RefsOK

(* The writer keeps its own record of the operands. *)
LEMMA RefsNext ==
  ASSUME ForwardInv, RefsOK, [Next]_vars
  PROVE  RefsOK'
<1>0. TypeOK /\ ControlOK /\ ValueMap \in [Values -> Handles]
  BY DEF ForwardInv, TypeOK
<1>1. CASE UseMapped \/ UNCHANGED vars \/ YieldOperand \/ Finished
  <2>1. /\ UNCHANGED <<prog, pc, obj, ValueMap>>
        /\ made' # made => prog.kind[pc] # "inst"
    BY <1>1 DEF UseMapped, YieldOperand, Finished, vars
  <2>2. CASE made' = made
    BY <1>0, <2>1, <2>2, StaysKeepsRefs
  <2>3. CASE prog.kind[pc] # "inst"
    BY <2>1, <2>3 DEF RefsOK
  <2> QED BY <2>1, <2>2, <2>3
<1>2. CASE UseArgument
  <2>1. /\ UNCHANGED <<prog, pc, obj, made>> /\ Operand \in ArgValues
        /\ ValueMap' = [ValueMap EXCEPT ![Operand] = Operand - N]
    BY <1>2 DEF UseArgument
  <2>2. \A v \in Insts : ValueMap'[v] = ValueMap[v]
    BY <1>0, <2>1, ValueSets
  <2> QED BY <1>0, <2>1, <2>2, StaysKeepsRefs
<1>3. CASE UseConstant \/ UseForward
  <2>1. /\ UNCHANGED <<prog, pc, made>> /\ ValueMap[Operand] = NoObj
        /\ ValueMap' = [ValueMap EXCEPT ![Operand] = Len(obj) + 1]
    BY <1>3 DEF UseConstant, UseForward
  <2>2. \A x \in Objects : obj'[x] = obj[x]
    <3> DEFINE c == Live(NextId, FALSE, <<>>, <<>>)
               f == Live(NextId, TRUE, <<>>, <<>>)
    <3>1. (UseConstant => AddEntry(c)) /\ (UseForward => AddEntry(f))
      BY DEF UseConstant, UseForward
    <3>2. c \in ObjType /\ f \in ObjType
      BY <1>0, Pointers DEF Live, ObjType
    <3> HIDE DEF c, f
    <3> QED BY <1>0, <1>3, <3>1, <3>2, AddEntryTypes
  <2>3. \A v \in Insts : ValueMap[v] # NoObj => ValueMap'[v] = ValueMap[v]
    BY <1>0, <2>1, ValueSets
  <2> QED BY <1>0, <2>1, <2>2, <2>3, StaysKeepsRefs
<1>4. CASE CreateInst
  <2> DEFINE ids == [k \in 1 .. Len(got) |-> obj[got[k]].id]
             c == Live(NextId, FALSE, ids, Operands)
  <2>1. /\ UNCHANGED <<prog, pc, ValueMap>> /\ made = NoObj /\ made' = Len(obj) + 1
        /\ obj' = Append(obj, c) /\ pc \in Insts /\ AddEntry(c)
    BY <1>4 DEF CreateInst, AddEntry, AtEnd
  <2>2. c.refs = Operands
    BY DEF Live
  <2>3. c \in ObjType
    <3>1. Operands \in Seq(Values) /\ NextId \in Nat
      BY <1>0, <2>1 DEF TypeOK, Operands, ProgramType
    <3>2. ids \in Seq(Nat)
      <4>1. \A k \in 1 .. Len(got) : obj[got[k]].id \in Nat
        BY <1>0, Pointers, ObjFields DEF Objects
      <4> QED BY <1>0, <4>1, Pointers
    <3> QED BY <3>1, <3>2 DEF Live, ObjType
  <2> HIDE DEF c
  <2>4. (\A x \in Objects : obj'[x] = obj[x]) /\ obj'[made'] = c
    BY <1>0, <2>1, <2>3, AddEntryTypes
  <2>5. ASSUME NEW i \in Insts, i < pc, prog.kind[i] = "inst"
        PROVE  ValueMap'[i] # NoObj /\ obj'[ValueMap'[i]].refs = prog.ops[i]
    <3>1. ValueMap[i] # NoObj /\ obj[ValueMap[i]].refs = prog.ops[i]
      BY <2>5 DEF RefsOK
    <3>2. ValueMap[i] \in Objects
      BY <1>0, <3>1, Pointers, ValueSets
    <3> QED BY <2>1, <2>4, <3>1, <3>2
  <2> QED BY <2>1, <2>2, <2>4, <2>5 DEF RefsOK, Operands
<1>5. CASE DropInst
  <2>1. /\ pc' = pc + 1 /\ UNCHANGED <<prog, made, ValueMap, obj>> /\ pc \in Insts
        /\ made = NoObj /\ prog.kind[pc] = "drop"
    BY <1>5 DEF DropInst, AtEnd
  <2> QED BY <1>0, <2>1, GoesOnKeepsRefs
<1>6. CASE MapValue
  <2>1. /\ pc' = pc + 1 /\ UNCHANGED <<prog, obj>> /\ made # NoObj /\ made' = NoObj
        /\ ValueMap' = [ValueMap EXCEPT ![pc] = made]
    BY <1>6 DEF MapValue, NextInst, Mapped
  <2>2. pc \in Insts /\ pc \in Values
    BY <1>0, <2>1, ValueSets DEF ControlOK
  <2> QED BY <1>0, <2>1, <2>2, GoesOnKeepsRefs, ValueSets
<1>7. CASE ReplaceForward
  <2> DEFINE f == ValueMap[pc]
             id == obj[f].id
  <2>1. /\ pc' = pc + 1 /\ prog' = prog /\ made # NoObj /\ made' = NoObj /\ f # NoObj
        /\ ValueMap' = [ValueMap EXCEPT ![pc] = made] /\ obj' = IdTaken(obj, made, f, id)
    BY <1>7 DEF ReplaceForward, NextInst, Mapped, IdTaken
  <2>2. pc \in Insts /\ pc \in Values /\ made \in Objects
    BY <1>0, <2>1, ValueSets DEF ControlOK, TypeOK, Handles
  <2>3. f \in Objects /\ id \in Nat
    BY <1>0, <2>1, <2>2, Pointers, ObjFields DEF Objects
  <2> HIDE DEF f, id
  <2>4. \A x \in Objects : obj'[x].refs = obj[x].refs
    BY <1>0, <2>1, <2>2, <2>3, Pointers, ReplaceObj DEF Objects
  <2> QED BY <1>0, <2>1, <2>2, <2>4, GoesOnKeepsRefs, ValueSets
<1> QED BY <1>1, <1>2, <1>3, <1>4, <1>5, <1>6, <1>7 DEF Next

LEMMA WriterInit == Init => WriterInv
<1>1. Init => RefsOK
  <2>1. Init => pc = 1 /\ made = NoObj
    BY DEF Init
  <2>2. \A i \in Insts : ~(i < 1)
    BY SizesAssumption DEF Insts
  <2> QED BY <2>1, <2>2 DEF RefsOK
<1> QED BY <1>1, TrackedInvInit DEF WriterInv

LEMMA WriterNext == WriterInv /\ [Next]_vars => WriterInv'
<1> SUFFICES ASSUME WriterInv, [Next]_vars PROVE WriterInv'
  OBVIOUS
<1>1. TrackedInv /\ ForwardInv /\ RefsOK
  BY DEF WriterInv, TrackedInv
<1>2. TrackedInv'
  BY <1>1, TrackedInvNext
<1>3. RefsOK'
  BY <1>1, RefsNext
<1> QED BY <1>2, <1>3 DEF WriterInv

-----------------------------------------------------------------------------
(* The reader changes nothing of what the writer left. *)
LEMMA WriterStays ==
  ASSUME UNCHANGED vars
  PROVE  /\ Written' = Written /\ Objects' = Objects /\ CodeEnd' = CodeEnd
         /\ Done' <=> Done
         /\ Tracked(prog)' <=> Tracked(prog)
         /\ WriterInv => WriterInv'
         /\ obj' = obj
         /\ \A o, k : Denoted(o, k)' = Denoted(o, k)
         /\ \A o, k : Got(o, k)' = RValueMap'[Denoted(o, k)]
<1>1. UNCHANGED <<prog, pc, got, made, ValueMap, obj, IdEntryMap, NextId, NamedId, DecorateVec>>
  BY DEF vars
<1>2. \A o, k : Denoted(o, k)' = Denoted(o, k)
  BY <1>1 DEF Denoted
<1>3. WriterInv => WriterInv'
  BY WriterNext
<1> QED BY <1>1, <1>2, <1>3 DEF Written, Objects, CodeEnd, Done, Tracked, YieldsFollow, OperandsOf, Got

(* While the reader is at work the writer has finished a tracked function. *)
LEMMA ReadingFacts ==
  ASSUME ReadInv, rpc # 0
  PROVE  /\ TypeOK /\ WriterInv /\ Done /\ Tracked(prog)
         /\ ReadTypes /\ OwnValues /\ ReadOK /\ CollectedOK /\ PlaceholdersOK
         /\ Written \subseteq Objects
         /\ Objects \subseteq Nat \ {0} /\ Len(obj) \in Nat
         /\ \A o \in Written : obj[o].ops \in Seq(Nat) /\ Len(obj[o].ops) \in Nat
         /\ \A o \in Written : \A k \in 1 .. Len(obj[o].ops) : Denoted(o, k) \in Objects
         /\ Len(llvm) \in Nat /\ Len(rops) \in Nat
         /\ \A o \in Objects : RValueMap[o] \in 0 .. Len(llvm)
         /\ \A o \in Objects : RValueMap[o] # NoObj => RValueMap[o] \in 1 .. Len(llvm)
         /\ phi # NoObj => phi \in 1 .. Len(llvm)
<1>1. /\ WriterInv /\ Done /\ Tracked(prog)
      /\ ReadTypes /\ OwnValues /\ ReadOK /\ CollectedOK /\ PlaceholdersOK
  BY DEF ReadInv
<1>2. TypeOK
  BY <1>1 DEF WriterInv, TrackedInv, ForwardInv
<1>3. Objects \subseteq Nat \ {0} /\ Len(obj) \in Nat
  BY <1>2 DEF TypeOK, Objects
<1>4. /\ Written \subseteq Objects
      /\ \A o \in Written :
           obj[o].ops \in Seq(Nat) /\ \A k \in 1 .. Len(obj[o].ops) : Denoted(o, k) \in Objects
  BY <1>1, WriterLeaves
<1>5. Len(llvm) \in Nat /\ Len(rops) \in Nat
  BY <1>1 DEF ReadTypes
<1>6. \A o \in Objects : RValueMap[o] \in 0 .. Len(llvm)
  BY <1>1 DEF ReadTypes
<1>7. \A o \in Objects : RValueMap[o] # NoObj => RValueMap[o] \in 1 .. Len(llvm)
  BY <1>5, <1>6 DEF NoObj
<1>8. phi # NoObj => phi \in 1 .. Len(llvm)
  BY <1>1, <1>5 DEF ReadTypes, NoObj
<1>9. \A o \in Written : Len(obj[o].ops) \in Nat
  BY <1>4
<1> QED BY <1>1, <1>2, <1>3, <1>4, <1>5, <1>6, <1>7, <1>8, <1>9

(***************************************************************************)
(* An operand is translated to v, by any of the three ways: the values     *)
(* mapped before keep theirs, and v goes to the phi or to the operands     *)
(* collected.                                                              *)
(***************************************************************************)
LEMMA UseStep ==
  ASSUME ReadInv, rpc # 0, AtReadOperand, UNCHANGED <<vars, rpc, phi>>,
         NEW s \in Seq(LLVMType), Len(s) >= Len(llvm), \A h \in 1 .. Len(llvm) : s[h] = llvm[h],
         RValueMap' \in [Objects -> 0 .. Len(s)],
         \A o \in Objects : RValueMap[o] # NoObj => RValueMap'[o] = RValueMap[o],
         NEW v \in 1 .. Len(s), RValueMap'[ReadOperand] = v, Use(s, v)
  PROVE  /\ ReadTypes' /\ ReadOK' /\ CollectedOK'
         /\ Len(llvm') = Len(s)
         /\ \A h \in 1 .. Len(s) : llvm'[h].what = s[h].what /\ (llvm'[h].live <=> s[h].live)
<1> USE ReadingFacts
<1>1. /\ rpc \in Written /\ rpc \in Objects /\ Written' = Written /\ Objects' = Objects /\ obj' = obj
      /\ \A o, k : Got(o, k)' = RValueMap'[Denoted(o, k)]
  BY WriterStays DEF AtReadOperand, Reading
<1>2. ASSUME NEW o \in Written, NEW k \in 1 .. Len(obj[o].ops), Got(o, k) # NoObj
      PROVE  Got(o, k)' = Got(o, k)
  <2>1. Denoted(o, k) \in Objects
    BY <1>2
  <2> QED BY <1>1, <1>2, <2>1 DEF Got
<1>3. Len(s) \in Nat /\ v \in Nat /\ v # NoObj
  BY DEF NoObj
<1>4. CASE phi = NoObj
  <2>1. rops' = Append(rops, v) /\ llvm' = s /\ phi' = NoObj /\ rpc' = rpc
    BY <1>4 DEF Use
  <2>2. rops \in Seq(Nat) /\ rops' \in Seq(Nat) /\ Len(rops') = Len(rops) + 1
        /\ rops'[Len(rops) + 1] = v /\ \A k \in 1 .. Len(rops) : rops'[k] = rops[k]
    BY <1>3, <2>1 DEF ReadTypes
  <2>3. ReadTypes'
    BY <1>1, <1>3, <2>1, <2>2 DEF ReadTypes, NoObj
  <2>4. ReadOK'
    <3> SUFFICES ASSUME NEW o \in Written, o < rpc
                 PROVE  /\ RValueMap'[o] # NoObj /\ s[RValueMap'[o]].live
                        /\ s[RValueMap'[o]].what = "inst"
                        /\ Len(s[RValueMap'[o]].ops) = Len(obj[o].ops)
                        /\ \A k \in 1 .. Len(obj[o].ops) :
                             s[RValueMap'[o]].ops[k] = Got(o, k)' /\ Got(o, k)' # NoObj
      BY <1>1, <2>1 DEF ReadOK, HasOperands
    <3>1. RValueMap[o] # NoObj /\ RValueMap[o] \in 1 .. Len(llvm) /\ RValueMap'[o] = RValueMap[o]
      BY DEF ReadOK
    <3>2. s[RValueMap'[o]] = llvm[RValueMap[o]]
      BY <3>1
    <3>3. \A k \in 1 .. Len(obj[o].ops) : llvm[RValueMap[o]].ops[k] = Got(o, k) /\ Got(o, k) # NoObj
      BY DEF ReadOK, HasOperands
    <3> QED BY <1>2, <3>1, <3>2, <3>3 DEF ReadOK
  <2>5. CollectedOK'
    <3>1. Len(rops) < Len(obj[rpc].ops) /\ ReadOperand = Denoted(rpc, Len(rops) + 1)
      BY <1>4 DEF AtReadOperand, Collected, ReadOperand, Entry, Denoted
    <3>2. ASSUME NEW k \in 1 .. Len(rops')
          PROVE  rops'[k] = Got(rpc, k)' /\ Got(rpc, k)' # NoObj
      <4>1. CASE k = Len(rops) + 1
        BY <1>1, <1>3, <2>2, <3>1, <4>1
      <4>2. CASE k # Len(rops) + 1
        <5>0. Len(obj[rpc].ops) \in Nat /\ Len(rops) \in Nat /\ k \in 1 .. (Len(rops) + 1)
          BY <1>1, <2>2
        <5>1. k \in 1 .. Len(rops) /\ k \in 1 .. Len(obj[rpc].ops)
          BY <3>1, <4>2, <5>0
        <5>2. rops[k] = Got(rpc, k) /\ Got(rpc, k) # NoObj
          BY <1>1, <1>4, <5>1 DEF CollectedOK
        <5> QED BY <1>1, <1>2, <2>2, <5>1, <5>2
      <4> QED BY <4>1, <4>2
    <3> QED BY <1>1, <2>1, <3>2 DEF CollectedOK
  <2> QED BY <2>1, <2>3, <2>4, <2>5
<1>5. CASE phi # NoObj
  <2>1. rops' = rops /\ llvm' = Incoming(s, phi, v) /\ phi' = phi /\ rpc' = rpc
    BY <1>5 DEF Use, Incoming
  <2>2. phi \in 1 .. Len(s) /\ phi \in 1 .. Len(llvm) /\ s[phi] = llvm[phi] /\ s[phi].ops \in Seq(Nat)
    BY <1>3, <1>5, LLVMFields
  <2>3. /\ llvm' \in Seq(LLVMType) /\ Len(llvm') = Len(s)
        /\ \A x \in 1 .. Len(s) : x # phi => llvm'[x] = s[x]
        /\ llvm'[phi].what = s[phi].what
        /\ llvm'[phi].live <=> s[phi].live
        /\ llvm'[phi].ops = Append(s[phi].ops, v)
    <3> HIDE ReadingFacts
    <3>1. v \in Nat
      BY <1>3
    <3> QED BY <2>1, <2>2, <3>1, IncomingFields, SMTT(40)
  <2>4. ReadTypes'
    BY <1>1, <1>3, <2>1, <2>2, <2>3, SMTT(40) DEF ReadTypes, NoObj
  <2>5. ReadOK'
    <3> SUFFICES ASSUME NEW o \in Written, o < rpc
                 PROVE  /\ RValueMap'[o] # NoObj /\ llvm'[RValueMap'[o]].live
                        /\ llvm'[RValueMap'[o]].what = "inst"
                        /\ Len(llvm'[RValueMap'[o]].ops) = Len(obj[o].ops)
                        /\ \A k \in 1 .. Len(obj[o].ops) :
                             llvm'[RValueMap'[o]].ops[k] = Got(o, k)' /\ Got(o, k)' # NoObj
      BY <1>1, <2>1, SMTT(40) DEF ReadOK, HasOperands
    <3>1. RValueMap[o] # NoObj /\ RValueMap[o] \in 1 .. Len(llvm) /\ RValueMap'[o] = RValueMap[o]
      BY DEF ReadOK
    <3>2. RValueMap[o] # phi
      <4>1. o \in Objects /\ o # rpc
        BY <1>1
      <4> QED BY <1>1, <1>5, <3>1, <4>1 DEF OwnValues, CollectedOK
    <3>3. llvm'[RValueMap'[o]] = llvm[RValueMap[o]]
      BY <1>3, <2>3, <3>1, <3>2
    <3>4. \A k \in 1 .. Len(obj[o].ops) : llvm[RValueMap[o]].ops[k] = Got(o, k) /\ Got(o, k) # NoObj
      BY DEF ReadOK, HasOperands
    <3> QED BY <1>2, <3>1, <3>3, <3>4, SMTT(40) DEF ReadOK
  <2>6. CollectedOK'
    <3> DEFINE n == Len(llvm[phi].ops)
    <3>1. n < Len(obj[rpc].ops) /\ ReadOperand = Denoted(rpc, n + 1) /\ n \in Nat
      BY <1>5, <2>2 DEF AtReadOperand, Collected, ReadOperand, Entry, Denoted
    <3>2. Len(llvm'[phi].ops) = n + 1 /\ llvm'[phi].ops[n + 1] = v
          /\ \A k \in 1 .. n : llvm'[phi].ops[k] = llvm[phi].ops[k]
      BY <1>3, <2>2, <2>3
    <3> HIDE DEF n
    <3>3. \A k \in 1 .. n : llvm[phi].ops[k] = Got(rpc, k) /\ Got(rpc, k) # NoObj
      BY <1>5 DEF CollectedOK, HasOperands, n
    <3>4. ASSUME NEW k \in 1 .. (n + 1)
          PROVE  llvm'[phi].ops[k] = Got(rpc, k)' /\ Got(rpc, k)' # NoObj
      <4>1. CASE k = n + 1
        BY <1>1, <1>3, <3>1, <3>2, <4>1
      <4>2. CASE k # n + 1
        <5>1. k \in 1 .. n /\ k \in 1 .. Len(obj[rpc].ops)
          BY <1>1, <3>1, <4>2
        <5> QED BY <1>1, <1>2, <3>2, <3>3, <5>1
      <4> QED BY <4>1, <4>2
    <3>5. rops = <<>> /\ RValueMap'[rpc] = phi /\ llvm'[phi].live /\ llvm'[phi].what = "inst"
      BY <1>1, <1>5, <2>2, <2>3 DEF CollectedOK
    <3> QED BY <1>1, <1>5, <2>1, <3>2, <3>4, <3>5 DEF CollectedOK, HasOperands
  <2>7. \A h \in 1 .. Len(s) : llvm'[h].what = s[h].what /\ (llvm'[h].live <=> s[h].live)
    BY <2>3
  <2> QED BY <2>3, <2>4, <2>5, <2>6, <2>7
<1> QED BY <1>4, <1>5

(* The operand asked for is a value of the SPIR-V function. *)
LEMMA ReadOperandFound ==
  ASSUME ReadInv, rpc # 0, AtReadOperand
  PROVE  ReadOperand \in Objects /\ rpc \in Written
<1>1. rpc \in Written /\ Collected < Len(obj[rpc].ops) /\ ReadOperand = Denoted(rpc, Collected + 1)
  BY DEF AtReadOperand, Reading, Entry, ReadOperand, Denoted
<1>2. Collected \in Nat
  <2>1. CASE phi = NoObj
    BY <2>1, ReadingFacts DEF Collected
  <2>2. CASE phi # NoObj
    <3>1. llvm[phi].ops \in Seq(Nat)
      BY <2>2, ReadingFacts, LLVMFields DEF ReadTypes
    <3> QED BY <2>2, <3>1 DEF Collected
  <2> QED BY <2>1, <2>2
<1>3. Len(obj[rpc].ops) \in Nat /\ Collected + 1 \in 1 .. Len(obj[rpc].ops)
  BY <1>1, <1>2, ReadingFacts
<1> QED BY <1>1, <1>3, ReadingFacts

(* A value that is mapped is found again: no new value, no new mapping. *)
LEMMA ReadMappedInv ==
  ASSUME ReadInv, rpc # 0, ReadMapped
  PROVE  ReadTypes' /\ OwnValues' /\ ReadOK' /\ CollectedOK' /\ PlaceholdersOK'
<1> DEFINE v == RValueMap[ReadOperand]
<1>1. /\ AtReadOperand /\ v # NoObj /\ Use(llvm, v)
      /\ UNCHANGED <<vars, rpc, phi>> /\ RValueMap' = RValueMap
  BY DEF ReadMapped
<1>2. ReadOperand \in Objects
  BY <1>1, ReadOperandFound
<1>3. /\ llvm \in Seq(LLVMType) /\ Len(llvm) \in Nat /\ RValueMap \in [Objects -> 0 .. Len(llvm)]
      /\ v \in 1 .. Len(llvm) /\ OwnValues /\ PlaceholdersOK
  BY <1>1, <1>2, ReadingFacts DEF ReadTypes
<1> HIDE DEF v
<1>4. /\ ReadTypes' /\ ReadOK' /\ CollectedOK' /\ Len(llvm') = Len(llvm)
      /\ \A h \in 1 .. Len(llvm) : llvm'[h].what = llvm[h].what /\ (llvm'[h].live <=> llvm[h].live)
  <2>1. RValueMap'[ReadOperand] = v /\ Len(llvm) >= Len(llvm)
    BY <1>1, <1>3 DEF v
  <2> QED BY <1>1, <1>3, <2>1, UseStep
<1>5. Written' = Written /\ Objects' = Objects
  BY <1>1, WriterStays
<1> QED BY <1>1, <1>3, <1>4, <1>5 DEF OwnValues, PlaceholdersOK, LLVMValue

(***************************************************************************)
(* An operand that has no value gets a new one, a constant or the load of  *)
(* a placeholder; a placeholder is for an instruction not read yet.        *)
(***************************************************************************)
LEMMA ReadNewInv ==
  ASSUME ReadInv, rpc # 0, ReadConstant \/ CreatePlaceHolder
  PROVE  ReadTypes' /\ OwnValues' /\ ReadOK' /\ CollectedOK' /\ PlaceholdersOK'
<1> DEFINE v == Len(llvm) + 1
           w == IF ReadConstant THEN "constant" ELSE "load"
           c == Made(w, <<>>)
           s == Append(llvm, c)
<1>1. /\ AtReadOperand /\ RValueMap[ReadOperand] = NoObj /\ Use(s, v)
      /\ UNCHANGED <<vars, rpc, phi>> /\ RValueMap' = [RValueMap EXCEPT ![ReadOperand] = v]
      /\ w = "load" => ReadOperand \in Written
  BY DEF ReadConstant, CreatePlaceHolder
<1>2. ReadOperand \in Objects /\ rpc \in Written
  BY <1>1, ReadOperandFound
<1>3. /\ llvm \in Seq(LLVMType) /\ Len(llvm) \in Nat /\ RValueMap \in [Objects -> 0 .. Len(llvm)]
      /\ OwnValues /\ PlaceholdersOK /\ ReadOK /\ CollectedOK /\ rpc \in Nat /\ Objects \subseteq Nat
  BY ReadingFacts DEF ReadTypes
<1>4. c \in LLVMType /\ c.what = w
  <2>1. w \in {"argument", "constant", "load", "inst"} /\ <<>> \in Seq(Nat)
    OBVIOUS
  <2> QED BY <2>1, MadeFields
<1> HIDE DEF c, w
<1>5. s \in Seq(LLVMType) /\ Len(s) = v /\ s[v] = c /\ \A h \in 1 .. Len(llvm) : s[h] = llvm[h]
  BY <1>3, <1>4, AppendLLVM
<1> HIDE DEF s
<1>6. v \in Nat /\ v \in 1 .. Len(s) /\ Len(s) >= Len(llvm) /\ v # NoObj
  BY <1>3, <1>5 DEF NoObj
<1>7. /\ RValueMap' \in [Objects -> 0 .. Len(s)] /\ RValueMap'[ReadOperand] = v
      /\ \A o \in Objects : o # ReadOperand => RValueMap'[o] = RValueMap[o] /\ RValueMap'[o] # v
  BY <1>1, <1>2, <1>3, <1>5
<1>8. \A o \in Objects : RValueMap[o] # NoObj => RValueMap'[o] = RValueMap[o]
  BY <1>1, <1>7
<1> HIDE DEF v
<1>9. /\ ReadTypes' /\ ReadOK' /\ CollectedOK' /\ Len(llvm') = Len(s)
      /\ \A h \in 1 .. Len(s) : llvm'[h].what = s[h].what /\ (llvm'[h].live <=> s[h].live)
  BY <1>1, <1>5, <1>6, <1>7, <1>8, UseStep
<1>10. Written' = Written /\ Objects' = Objects /\ Written \subseteq Objects
  BY <1>1, WriterStays, ReadingFacts
<1>11. OwnValues'
  BY <1>3, <1>7, <1>10 DEF OwnValues
<1>12. PlaceholdersOK'
  <2> SUFFICES ASSUME NEW h \in 1 .. Len(s), s[h].live, s[h].what = "load"
               PROVE  \E o \in Written : RValueMap'[o] = h /\ o >= rpc /\ (phi # NoObj => o # rpc)
    BY <1>1, <1>9, <1>10 DEF PlaceholdersOK, LLVMValue
  <2>1. CASE h = v
    <3>1. ReadOperand \in Written /\ RValueMap'[ReadOperand] = h
      BY <1>1, <1>4, <1>5, <1>7, <2>1
    <3>2. ~(ReadOperand < rpc)
      BY <1>1, <1>3, <3>1 DEF ReadOK
    <3>3. phi # NoObj => ReadOperand # rpc
      BY <1>1, <1>3 DEF CollectedOK
    <3>4. ReadOperand \in Nat
      BY <1>2, <1>3
    <3>5. ReadOperand >= rpc
      BY <1>3, <3>2, <3>4
    <3> QED BY <3>1, <3>3, <3>5
  <2>2. CASE h # v
    <3>1. h \in 1 .. Len(llvm) /\ s[h] = llvm[h]
      BY <1>3, <1>5, <2>2 DEF v
    <3>2. PICK o \in Written : RValueMap[o] = h /\ o >= rpc /\ (phi # NoObj => o # rpc)
      BY <1>3, <3>1 DEF PlaceholdersOK, LLVMValue
    <3>3. RValueMap[o] # NoObj
      BY <3>1, <3>2 DEF NoObj
    <3> QED BY <1>8, <1>10, <3>2, <3>3
  <2> QED BY <2>1, <2>2
<1> QED BY <1>9, <1>11, <1>12

-----------------------------------------------------------------------------
(* What mapValue does to the LLVM values: ld is replaced by the new value. *)
LEMMA MapReadFields ==
  ASSUME NEW s \in Seq(LLVMType), NEW m \in Nat, MapRead(s, m),
         RValueMap[rpc] \in Nat
  PROVE  /\ llvm' \in Seq(LLVMType) /\ Len(llvm') = Len(s)
         /\ \A h \in 1 .. Len(s) :
              /\ llvm'[h].what = s[h].what
              /\ h # RValueMap[rpc] => (llvm'[h].live <=> s[h].live)
              /\ RValueMap[rpc] = h => RValueMap[rpc] = NoObj \/ ~llvm'[h].live
              /\ Len(llvm'[h].ops) = Len(s[h].ops)
              /\ \A k \in 1 .. Len(s[h].ops) : s[h].ops[k] # NoObj =>
                   llvm'[h].ops[k] = IF s[h].ops[k] = RValueMap[rpc] THEN m ELSE s[h].ops[k]
<1> DEFINE ld == RValueMap[rpc]
<1>1. llvm' = IF ld = NoObj THEN s ELSE Replaced(s, ld, m)
  BY DEF MapRead, Entry
<1> HIDE DEF ld
<1>2. CASE ld = NoObj
  <2>1. llvm' = s
    BY <1>1, <1>2
  <2> QED BY <1>2, <2>1 DEF ld
<1>3. CASE ld # NoObj
  <2>1. llvm' = Replaced(s, ld, m) /\ ld \in Nat
    BY <1>1, <1>3 DEF ld
  <2>2. /\ llvm' \in Seq(LLVMType) /\ Len(llvm') = Len(s)
        /\ \A h \in 1 .. Len(s) :
             /\ llvm'[h].what = s[h].what
             /\ llvm'[h].live <=> s[h].live /\ h # ld
             /\ Len(llvm'[h].ops) = Len(s[h].ops)
             /\ \A k \in 1 .. Len(s[h].ops) :
                  llvm'[h].ops[k] = IF s[h].ops[k] = ld THEN m ELSE s[h].ops[k]
    BY <2>1, ReplacedFields
  <2> QED BY <2>2 DEF ld
<1> QED BY <1>2, <1>3

(***************************************************************************)
(* The instruction at rpc is made with the operands given and mapped: it   *)
(* takes the place of its placeholder in every instruction read before,    *)
(* and in itself.                                                          *)
(***************************************************************************)
LEMMA MapStep ==
  ASSUME ReadInv, rpc # 0, AtInstruction, UNCHANGED vars, NEW ops \in Seq(Nat),
         MapRead(Append(llvm, Made("inst", ops)), Len(llvm) + 1),
         Len(ops) <= Len(obj[rpc].ops),
         \A k \in 1 .. Len(ops) : ops[k] = Got(rpc, k) /\ Got(rpc, k) # NoObj
  PROVE  /\ llvm' \in Seq(LLVMType) /\ Len(llvm') = Len(llvm) + 1
         /\ RValueMap' \in [Objects -> 0 .. Len(llvm')] /\ OwnValues'
         /\ RValueMap'[rpc] = Len(llvm) + 1
         /\ llvm'[Len(llvm) + 1].live /\ llvm'[Len(llvm) + 1].what = "inst"
         /\ Len(llvm'[Len(llvm) + 1].ops) = Len(ops)
         /\ \A k \in 1 .. Len(ops) :
              llvm'[Len(llvm) + 1].ops[k] = RValueMap'[Denoted(rpc, k)] /\ RValueMap'[Denoted(rpc, k)] # NoObj
         /\ \A o \in Written : o < rpc =>
              /\ RValueMap'[o] # NoObj /\ llvm'[RValueMap'[o]].live
              /\ llvm'[RValueMap'[o]].what = "inst"
              /\ Len(llvm'[RValueMap'[o]].ops) = Len(obj[o].ops)
              /\ \A k \in 1 .. Len(obj[o].ops) :
                   llvm'[RValueMap'[o]].ops[k] = Got(o, k)' /\ Got(o, k)' # NoObj
         /\ \A h \in 1 .. Len(llvm') : llvm'[h].live /\ llvm'[h].what = "load" =>
              \E o \in Written : RValueMap'[o] = h /\ o >= rpc /\ o # rpc
<1> DEFINE m == Len(llvm) + 1
           c == Made("inst", ops)
           s == Append(llvm, c)
           ld == RValueMap[rpc]
<1>1. /\ llvm \in Seq(LLVMType) /\ Len(llvm) \in Nat /\ RValueMap \in [Objects -> 0 .. Len(llvm)]
      /\ OwnValues /\ PlaceholdersOK /\ ReadOK /\ Written \subseteq Objects
      /\ Objects \subseteq Nat \ {0} /\ rpc \in Nat
  BY ReadingFacts DEF ReadTypes
<1>2. rpc \in Written /\ rpc \in Objects /\ phi = NoObj
  BY <1>1 DEF AtInstruction, Reading
<1>3. /\ m \in Nat /\ m # NoObj /\ ld \in Nat /\ ld \in 0 .. Len(llvm) /\ m # ld
      /\ \A o \in Objects : RValueMap[o] # m /\ RValueMap[o] \in 0 .. Len(llvm)
  BY <1>1, <1>2 DEF NoObj
<1>4. c \in LLVMType /\ c.what = "inst" /\ c.ops = ops /\ c.live
  BY MadeFields
<1> HIDE DEF c
<1>5. s \in Seq(LLVMType) /\ Len(s) = m /\ s[m] = c /\ \A h \in 1 .. Len(llvm) : s[h] = llvm[h]
  BY <1>1, <1>4, AppendLLVM
<1>6. MapRead(s, m) /\ RValueMap' = [RValueMap EXCEPT ![rpc] = m]
  BY DEF MapRead, Entry, c
<1> HIDE DEF s
<1>7. /\ llvm' \in Seq(LLVMType) /\ Len(llvm') = m
      /\ \A h \in 1 .. m :
           /\ llvm'[h].what = s[h].what
           /\ h # ld => (llvm'[h].live <=> s[h].live)
           /\ ld = h => ld = NoObj \/ ~llvm'[h].live
           /\ Len(llvm'[h].ops) = Len(s[h].ops)
           /\ \A k \in 1 .. Len(s[h].ops) : s[h].ops[k] # NoObj =>
                llvm'[h].ops[k] = IF s[h].ops[k] = ld THEN m ELSE s[h].ops[k]
  BY <1>3, <1>5, <1>6, MapReadFields
<1>8. /\ RValueMap' \in [Objects -> 0 .. m] /\ RValueMap'[rpc] = m
      /\ \A o \in Objects : o # rpc => RValueMap'[o] = RValueMap[o]
  BY <1>1, <1>2, <1>3, <1>6
<1> HIDE DEF m, ld
<1>9. Objects' = Objects /\ Written' = Written /\ \A o, k : Got(o, k)' = RValueMap'[Denoted(o, k)]
  BY WriterStays
<1>10. OwnValues'
  <2>1. \A o \in Objects : o # rpc => RValueMap'[o] # RValueMap'[rpc]
    BY <1>3, <1>8
  <2>2. \A o, p \in Objects : o # rpc /\ p # rpc =>
          (RValueMap'[o] # NoObj /\ RValueMap'[o] = RValueMap'[p] => o = p)
    BY <1>1, <1>8 DEF OwnValues
  <2> QED BY <1>2, <1>9, <2>1, <2>2 DEF OwnValues
(* The value an operand had, and what replaces it. *)
<1>11. ASSUME NEW o \in Written, NEW k \in 1 .. Len(obj[o].ops), Got(o, k) # NoObj
       PROVE  /\ Got(o, k)' = IF Got(o, k) = ld THEN m ELSE Got(o, k)
              /\ Got(o, k)' # NoObj
  <2>1. Denoted(o, k) \in Objects
    BY <1>11, ReadingFacts
  <2>2. CASE Denoted(o, k) = rpc
    BY <1>3, <1>8, <1>9, <2>2 DEF Got, ld
  <2>3. CASE Denoted(o, k) # rpc
    <3>1. Got(o, k)' = Got(o, k)
      BY <1>8, <1>9, <2>1, <2>3 DEF Got
    <3>2. Got(o, k) # ld
      BY <1>1, <1>2, <1>11, <2>1, <2>3 DEF Got, OwnValues, ld
    <3> QED BY <1>11, <3>1, <3>2
  <2> QED BY <2>2, <2>3
<1>12. ASSUME NEW o \in Written, o < rpc
       PROVE  /\ RValueMap'[o] # NoObj /\ llvm'[RValueMap'[o]].live
              /\ llvm'[RValueMap'[o]].what = "inst"
              /\ Len(llvm'[RValueMap'[o]].ops) = Len(obj[o].ops)
              /\ \A k \in 1 .. Len(obj[o].ops) :
                   llvm'[RValueMap'[o]].ops[k] = Got(o, k)' /\ Got(o, k)' # NoObj
  <2> DEFINE h == RValueMap[o]
  <2>1. /\ h # NoObj /\ llvm[h].live /\ llvm[h].what = "inst"
        /\ Len(llvm[h].ops) = Len(obj[o].ops)
        /\ \A k \in 1 .. Len(obj[o].ops) : llvm[h].ops[k] = Got(o, k) /\ Got(o, k) # NoObj
    BY <1>1, <1>12 DEF ReadOK, HasOperands
  <2>2. o \in Objects /\ o # rpc
    BY <1>1, <1>12
  <2>3. h \in 1 .. Len(llvm) /\ h \in 1 .. m /\ h # ld /\ RValueMap'[o] = h
    <3>1. h # ld /\ RValueMap'[o] = h
      BY <1>1, <1>2, <1>8, <2>1, <2>2 DEF OwnValues, ld
    <3>2. h \in 0 .. Len(llvm) /\ h # 0
      BY <1>1, <2>1, <2>2 DEF NoObj
    <3> QED BY <1>1, <3>1, <3>2 DEF m
  <2> HIDE DEF h
  <2>4. s[h] = llvm[h]
    BY <1>5, <2>3
  <2>5. ASSUME NEW k \in 1 .. Len(obj[o].ops)
        PROVE  llvm'[h].ops[k] = Got(o, k)' /\ Got(o, k)' # NoObj
    <3>1. llvm'[h].ops[k] = IF Got(o, k) = ld THEN m ELSE Got(o, k)
      <4>1. k \in 1 .. Len(s[h].ops) /\ s[h].ops[k] = Got(o, k) /\ Got(o, k) # NoObj
        BY <2>1, <2>4
      <4>2. \A x \in 1 .. Len(s[h].ops) : s[h].ops[x] # NoObj =>
              llvm'[h].ops[x] = IF s[h].ops[x] = ld THEN m ELSE s[h].ops[x]
        BY <1>7, <2>3
      <4> QED BY <4>1, <4>2
    <3> QED BY <1>11, <2>1, <3>1
  <2> QED BY <1>7, <2>1, <2>3, <2>4, <2>5
<1>13. /\ m \in 1 .. m /\ llvm'[m].live /\ llvm'[m].what = "inst"
       /\ Len(llvm'[m].ops) = Len(ops)
       /\ \A k \in 1 .. Len(ops) : llvm'[m].ops[k] = RValueMap'[Denoted(rpc, k)] /\ RValueMap'[Denoted(rpc, k)] # NoObj
  <2>1. m \in 1 .. m
    BY <1>1 DEF m
  <2>2. llvm'[m].live /\ llvm'[m].what = "inst" /\ Len(llvm'[m].ops) = Len(ops)
    BY <1>3, <1>4, <1>5, <1>7, <2>1
  <2>3. ASSUME NEW k \in 1 .. Len(ops)
        PROVE  llvm'[m].ops[k] = RValueMap'[Denoted(rpc, k)] /\ RValueMap'[Denoted(rpc, k)] # NoObj
    <3>1. k \in 1 .. Len(obj[rpc].ops) /\ ops[k] = Got(rpc, k) /\ Got(rpc, k) # NoObj
      <4>1. Len(obj[rpc].ops) \in Nat /\ Len(ops) \in Nat
        BY <1>2, ReadingFacts
      <4> QED BY <4>1
    <3>2. llvm'[m].ops[k] = IF Got(rpc, k) = ld THEN m ELSE Got(rpc, k)
      <4>1. \A x \in 1 .. Len(s[m].ops) : s[m].ops[x] # NoObj =>
              llvm'[m].ops[x] = IF s[m].ops[x] = ld THEN m ELSE s[m].ops[x]
        BY <1>7, <2>1
      <4>2. s[m].ops = ops
        BY <1>4, <1>5
      <4> QED BY <3>1, <4>1, <4>2
    <3>3. RValueMap'[Denoted(rpc, k)] = (IF Got(rpc, k) = ld THEN m ELSE Got(rpc, k)) /\ RValueMap'[Denoted(rpc, k)] # NoObj
      BY <1>2, <1>9, <1>11, <3>1
    <3> QED BY <3>2, <3>3
  <2> QED BY <2>1, <2>2, <2>3
<1>14. ASSUME NEW h \in 1 .. m, llvm'[h].live, llvm'[h].what = "load"
       PROVE  \E o \in Written : RValueMap'[o] = h /\ o >= rpc /\ o # rpc
  <2>1. h # m
    BY <1>13, <1>14
  <2>2. h \in 1 .. Len(llvm) /\ s[h] = llvm[h] /\ h # NoObj
    BY <1>1, <1>5, <2>1 DEF m, NoObj
  <2>3. h # ld
    BY <1>7, <1>14, <2>2
  <2>4. llvm[h].live /\ llvm[h].what = "load"
    BY <1>7, <1>14, <2>2, <2>3
  <2>5. PICK o \in Written : RValueMap[o] = h /\ o >= rpc
    BY <1>1, <2>2, <2>4 DEF PlaceholdersOK, LLVMValue
  <2>6. o # rpc
    BY <2>3, <2>5 DEF ld
  <2> QED BY <1>1, <1>8, <2>5, <2>6
<1> QED BY <1>7, <1>8, <1>10, <1>12, <1>13, <1>14 DEF m

(* An instruction that collected its operands first. *)
LEMMA ReadInstInv ==
  ASSUME ReadInv, rpc # 0, ReadInst
  PROVE  rpc' # 0 /\ ReadTypes' /\ OwnValues' /\ ReadOK' /\ CollectedOK' /\ PlaceholdersOK'
<1> DEFINE m == Len(llvm) + 1
<1>1. /\ AtInstruction /\ UNCHANGED vars /\ Len(rops) = Len(obj[rpc].ops)
      /\ MapRead(Append(llvm, Made("inst", rops)), m)
      /\ rpc' = EntryAfter(rpc) /\ rops' = <<>> /\ phi' = phi
  BY DEF ReadInst, Entry
<1>2. /\ rpc \in Written /\ rpc \in Objects /\ phi = NoObj /\ rops \in Seq(Nat) /\ rpc \in Nat
      /\ Written \subseteq Objects /\ Objects \subseteq Nat \ {0} /\ Len(obj) \in Nat /\ TypeOK
  BY <1>1, ReadingFacts DEF AtInstruction, Reading, ReadTypes
<1>3. \A k \in 1 .. Len(rops) : rops[k] = Got(rpc, k) /\ Got(rpc, k) # NoObj
  BY <1>2, ReadingFacts DEF CollectedOK
<1>4. Len(rops) <= Len(obj[rpc].ops)
  BY <1>1, <1>2, ReadingFacts
<1>5. /\ llvm' \in Seq(LLVMType) /\ Len(llvm') = m
      /\ RValueMap' \in [Objects -> 0 .. Len(llvm')] /\ OwnValues'
      /\ RValueMap'[rpc] = m
      /\ llvm'[m].live /\ llvm'[m].what = "inst" /\ Len(llvm'[m].ops) = Len(rops)
      /\ \A k \in 1 .. Len(rops) : llvm'[m].ops[k] = RValueMap'[Denoted(rpc, k)] /\ RValueMap'[Denoted(rpc, k)] # NoObj
      /\ \A o \in Written : o < rpc =>
           /\ RValueMap'[o] # NoObj /\ llvm'[RValueMap'[o]].live
           /\ llvm'[RValueMap'[o]].what = "inst"
           /\ Len(llvm'[RValueMap'[o]].ops) = Len(obj[o].ops)
           /\ \A k \in 1 .. Len(obj[o].ops) :
                llvm'[RValueMap'[o]].ops[k] = Got(o, k)' /\ Got(o, k)' # NoObj
      /\ \A h \in 1 .. Len(llvm') : llvm'[h].live /\ llvm'[h].what = "load" =>
           \E o \in Written : RValueMap'[o] = h /\ o >= rpc /\ o # rpc
  BY <1>1, <1>2, <1>3, <1>4, MapStep
<1>6. m # NoObj /\ m \in Nat
  BY ReadingFacts DEF NoObj
<1> HIDE DEF m
<1>7. rpc \in 0 .. Len(obj)
  BY <1>2 DEF Objects
<1>8. /\ rpc' \in Nat /\ rpc' > rpc /\ \A p \in Written : p < rpc' => p <= rpc
  BY <1>1, <1>2, <1>7, EntryAfterFacts
<1>9. Written' = Written /\ Objects' = Objects /\ obj' = obj
  BY <1>1, WriterStays
<1>10. ReadTypes'
  BY <1>1, <1>2, <1>5, <1>8, <1>9 DEF ReadTypes, NoObj
<1>11. ReadOK'
  <2> SUFFICES ASSUME NEW o \in Written, o < rpc'
               PROVE  /\ RValueMap'[o] # NoObj /\ llvm'[RValueMap'[o]].live
                      /\ llvm'[RValueMap'[o]].what = "inst"
                      /\ Len(llvm'[RValueMap'[o]].ops) = Len(obj[o].ops)
                      /\ \A k \in 1 .. Len(obj[o].ops) :
                           llvm'[RValueMap'[o]].ops[k] = Got(o, k)' /\ Got(o, k)' # NoObj
    BY <1>9 DEF ReadOK, HasOperands
  <2>1. CASE o = rpc
    <3>1. /\ RValueMap'[rpc] # NoObj /\ llvm'[RValueMap'[rpc]].live
          /\ llvm'[RValueMap'[rpc]].what = "inst"
          /\ Len(llvm'[RValueMap'[rpc]].ops) = Len(obj[rpc].ops)
      BY <1>1, <1>5, <1>6
    <3>2. \A k \in 1 .. Len(obj[rpc].ops) :
            llvm'[RValueMap'[rpc]].ops[k] = RValueMap'[Denoted(rpc, k)] /\ RValueMap'[Denoted(rpc, k)] # NoObj
      BY <1>1, <1>5
    <3>3. \A k : Got(o, k)' = RValueMap'[Denoted(rpc, k)]
      BY <1>1, <2>1, WriterStays
    <3> QED BY <2>1, <3>1, <3>2, <3>3
  <2>2. CASE o # rpc
    <3>1. o < rpc
      BY <1>2, <1>8, <2>2
    <3> QED BY <1>5, <3>1
  <2> QED BY <2>1, <2>2
<1>12. CollectedOK'
  BY <1>1, <1>2 DEF CollectedOK
<1>13. PlaceholdersOK'
  <2> SUFFICES ASSUME NEW h \in 1 .. Len(llvm'), llvm'[h].live, llvm'[h].what = "load"
               PROVE  \E o \in Written : RValueMap'[o] = h /\ o >= rpc'
    BY <1>1, <1>2, <1>9 DEF PlaceholdersOK, LLVMValue
  <2>1. PICK o \in Written : RValueMap'[o] = h /\ o >= rpc /\ o # rpc
    BY <1>5
  <2>2. o \in Nat /\ ~(o <= rpc)
    BY <1>2, <2>1
  <2>3. o >= rpc'
    BY <1>8, <2>2
  <2> QED BY <2>1, <2>3
<1>14. rpc' # 0
  BY <1>2, <1>8
<1> QED BY <1>5, <1>10, <1>11, <1>12, <1>13, <1>14

(* A phi is made without operands, and mapped. *)
LEMMA ReadPhiInv ==
  ASSUME ReadInv, rpc # 0, ReadPhi
  PROVE  ReadTypes' /\ OwnValues' /\ ReadOK' /\ CollectedOK' /\ PlaceholdersOK'
<1> DEFINE m == Len(llvm) + 1
           none == <<>>
<1>1. /\ AtInstruction /\ UNCHANGED vars /\ rops = <<>>
      /\ MapRead(Append(llvm, Made("inst", none)), m)
      /\ rpc' = rpc /\ rops' = rops /\ phi' = m
  BY DEF ReadPhi, Entry
<1>2. /\ rpc \in Written /\ rpc \in Objects /\ rops \in Seq(Nat) /\ rpc \in Nat
      /\ Written \subseteq Objects /\ Objects \subseteq Nat \ {0} /\ Len(obj) \in Nat /\ TypeOK
      /\ Len(obj[rpc].ops) \in Nat /\ Len(llvm) \in Nat
  BY <1>1, ReadingFacts DEF AtInstruction, Reading, ReadTypes
<1>3. none \in Seq(Nat) /\ Len(none) = 0 /\ Len(none) <= Len(obj[rpc].ops)
      /\ \A k \in 1 .. Len(none) : none[k] = Got(rpc, k) /\ Got(rpc, k) # NoObj
  BY <1>2
<1> HIDE DEF none
<1>4. /\ llvm' \in Seq(LLVMType) /\ Len(llvm') = m
      /\ RValueMap' \in [Objects -> 0 .. Len(llvm')] /\ OwnValues'
      /\ RValueMap'[rpc] = m
      /\ llvm'[m].live /\ llvm'[m].what = "inst" /\ Len(llvm'[m].ops) = 0
      /\ \A o \in Written : o < rpc =>
           /\ RValueMap'[o] # NoObj /\ llvm'[RValueMap'[o]].live
           /\ llvm'[RValueMap'[o]].what = "inst"
           /\ Len(llvm'[RValueMap'[o]].ops) = Len(obj[o].ops)
           /\ \A k \in 1 .. Len(obj[o].ops) :
                llvm'[RValueMap'[o]].ops[k] = Got(o, k)' /\ Got(o, k)' # NoObj
      /\ \A h \in 1 .. Len(llvm') : llvm'[h].live /\ llvm'[h].what = "load" =>
           \E o \in Written : RValueMap'[o] = h /\ o >= rpc /\ o # rpc
  BY <1>1, <1>3, MapStep
<1>5. m # NoObj /\ m \in 0 .. m
  BY <1>2 DEF NoObj
<1> HIDE DEF m
<1>6. Written' = Written /\ Objects' = Objects /\ obj' = obj
  BY <1>1, WriterStays
<1>7. ReadTypes'
  BY <1>1, <1>2, <1>4, <1>5, <1>6 DEF ReadTypes
<1>8. ReadOK'
  BY <1>1, <1>4, <1>6 DEF ReadOK, HasOperands
<1>9. CollectedOK'
  BY <1>1, <1>2, <1>4, <1>5, <1>6 DEF CollectedOK, HasOperands
<1>10. PlaceholdersOK'
  BY <1>1, <1>4, <1>6 DEF PlaceholdersOK, LLVMValue
<1> QED BY <1>4, <1>7, <1>8, <1>9, <1>10

(* A phi that has all its incoming values is complete. *)
LEMMA FinishPhiInv ==
  ASSUME ReadInv, rpc # 0, FinishPhi
  PROVE  rpc' # 0 /\ ReadTypes' /\ OwnValues' /\ ReadOK' /\ CollectedOK' /\ PlaceholdersOK'
<1>1. /\ UNCHANGED vars /\ phi # NoObj /\ Len(llvm[phi].ops) = Len(obj[rpc].ops)
      /\ rpc' = EntryAfter(rpc) /\ phi' = NoObj
      /\ UNCHANGED <<rops, RValueMap, llvm>> /\ rpc \in Written
  BY DEF FinishPhi, Entry, Reading
<1>2. /\ rpc \in Objects /\ Written \subseteq Objects /\ Objects \subseteq Nat \ {0}
      /\ Len(obj) \in Nat /\ TypeOK /\ rpc \in Nat
      /\ ReadTypes /\ OwnValues /\ ReadOK /\ CollectedOK /\ PlaceholdersOK
  BY <1>1, ReadingFacts
<1>3. rpc \in 0 .. Len(obj)
  BY <1>2 DEF Objects
<1>4. rpc' \in Nat /\ rpc' > rpc /\ \A p \in Written : p < rpc' => p <= rpc
  BY <1>1, <1>2, <1>3, EntryAfterFacts
<1>5. /\ Written' = Written /\ Objects' = Objects /\ obj' = obj
      /\ \A o, k : Got(o, k)' = Got(o, k)
  BY <1>1, WriterStays DEF Got
<1>6. ReadTypes' /\ OwnValues'
  BY <1>1, <1>2, <1>4, <1>5 DEF ReadTypes, OwnValues, NoObj
<1>7. ReadOK'
  <2> SUFFICES ASSUME NEW o \in Written, o < rpc'
               PROVE  /\ RValueMap[o] # NoObj /\ llvm[RValueMap[o]].live
                      /\ llvm[RValueMap[o]].what = "inst"
                      /\ Len(llvm[RValueMap[o]].ops) = Len(obj[o].ops)
                      /\ \A k \in 1 .. Len(obj[o].ops) :
                           llvm[RValueMap[o]].ops[k] = Got(o, k) /\ Got(o, k) # NoObj
    BY <1>1, <1>5 DEF ReadOK, HasOperands
  <2>1. CASE o = rpc
    <3>1. /\ RValueMap[rpc] = phi /\ llvm[phi].live /\ llvm[phi].what = "inst"
          /\ \A k \in 1 .. Len(llvm[phi].ops) : llvm[phi].ops[k] = Got(rpc, k) /\ Got(rpc, k) # NoObj
      BY <1>1, <1>2 DEF CollectedOK, HasOperands
    <3> QED BY <1>1, <2>1, <3>1
  <2>2. CASE o # rpc
    <3>1. o < rpc
      BY <1>2, <1>4, <2>2
    <3> QED BY <1>2, <3>1 DEF ReadOK, HasOperands
  <2> QED BY <2>1, <2>2
<1>8. CollectedOK'
  <2>1. rops = <<>>
    BY <1>1, <1>2 DEF CollectedOK
  <2> QED BY <1>1, <2>1 DEF CollectedOK
<1>9. PlaceholdersOK'
  <2> SUFFICES ASSUME NEW h \in 1 .. Len(llvm), llvm[h].live, llvm[h].what = "load"
               PROVE  \E o \in Written : RValueMap[o] = h /\ o >= rpc'
    BY <1>1, <1>5 DEF PlaceholdersOK, LLVMValue
  <2>1. PICK o \in Written : RValueMap[o] = h /\ o >= rpc /\ o # rpc
    BY <1>1, <1>2 DEF PlaceholdersOK, LLVMValue
  <2>2. o \in Nat /\ ~(o <= rpc)
    BY <1>2, <2>1
  <2>3. o >= rpc'
    BY <1>4, <2>2
  <2> QED BY <2>1, <2>3
<1> QED BY <1>2, <1>4, <1>6, <1>7, <1>8, <1>9

(* The parameters have their values before the first instruction is read. *)
LEMMA TransFunctionAttrsInv ==
  ASSUME ReadInv, Tracked(prog), TransFunctionAttrs
  PROVE  rpc' # 0 /\ ReadTypes' /\ OwnValues' /\ ReadOK' /\ CollectedOK' /\ PlaceholdersOK'
<1>1. /\ UNCHANGED vars /\ Done /\ rpc = 0 /\ rpc' = EntryAfter(0)
      /\ llvm' = [a \in 1 .. Args |-> Made("argument", <<>>)]
      /\ RValueMap' = [o \in Objects |-> IF o <= Args THEN o ELSE NoObj]
      /\ UNCHANGED <<rops, phi>>
  BY DEF TransFunctionAttrs
<1>2. WriterInv /\ TypeOK /\ rops = <<>> /\ phi = NoObj
  BY <1>1 DEF ReadInv, WriterInv, TrackedInv, ForwardInv
<1>3. Written \subseteq Objects /\ Objects \subseteq Nat \ {0} /\ Len(obj) \in Nat
  BY <1>1, <1>2, WriterLeaves DEF TypeOK, Objects
<1>4. 0 \in 0 .. Len(obj)
  BY <1>3
<1>5. rpc' \in Nat /\ rpc' > 0 /\ \A p \in Written : p < rpc' => p <= 0
  BY <1>1, <1>2, <1>3, <1>4, EntryAfterFacts
<1>6. Written' = Written /\ Objects' = Objects
  BY <1>1, WriterStays
<1>7. llvm' \in Seq(LLVMType) /\ Len(llvm') = Args
      /\ \A h \in 1 .. Args : llvm'[h].what = "argument"
  <2> DEFINE c == Made("argument", <<>>)
  <2>1. c \in LLVMType /\ c.what = "argument"
    BY DEF Made, LLVMType
  <2> HIDE DEF c
  <2>2. llvm' = [a \in 1 .. Args |-> c]
    BY <1>1 DEF c
  <2> QED BY <2>1, <2>2, SizesAssumption
<1>8. RValueMap' \in [Objects -> 0 .. Len(llvm')]
  BY <1>1, <1>3, <1>7, SizesAssumption DEF NoObj
<1>9. ReadTypes'
  BY <1>1, <1>2, <1>5, <1>6, <1>7, <1>8, SizesAssumption DEF ReadTypes, NoObj
<1>10. OwnValues'
  BY <1>1, <1>6 DEF OwnValues
<1>11. ReadOK'
  BY <1>3, <1>5, <1>6 DEF ReadOK
<1>12. CollectedOK'
  BY <1>1, <1>2 DEF CollectedOK
<1>13. PlaceholdersOK'
  BY <1>7 DEF PlaceholdersOK, LLVMValue
<1> QED BY <1>5, <1>9, <1>10, <1>11, <1>12, <1>13

-----------------------------------------------------------------------------
(* The reader starts with the first instruction, not before. *)
LEMMA NothingUnmapped ==
  ASSUME WriterInv, Done
  PROVE  0 \notin Written
<1>1. \A i \in Insts : i < pc
  BY SizesAssumption DEF Done, Insts
<1>2. \A i \in Insts : prog.kind[i] = "inst" => ValueMap[i] # 0
  BY <1>1 DEF WriterInv, RefsOK, NoObj
<1> QED BY <1>2 DEF Written

LEMMA ReadInvInit == ReadInit => ReadInv
BY WriterInit DEF ReadInit, ReadInv

LEMMA ReadInvNext == ReadInv /\ [ReadNext]_allVars => ReadInv'
<1> SUFFICES ASSUME ReadInv, [ReadNext]_allVars PROVE ReadInv'
  OBVIOUS
<1>0. WriterInv
  BY DEF ReadInv
<1>1. CASE ~Done /\ Next /\ UNCHANGED rvars
  <2>1. rpc = 0 /\ UNCHANGED <<rpc, rops, phi>>
    BY <1>1 DEF ReadInv, rvars
  <2>2. WriterInv'
    BY <1>0, <1>1, WriterNext
  <2> QED BY <2>1, <2>2 DEF ReadInv
<1>2. CASE Tracked(prog) /\ TransFunctionAttrs
  <2>1. UNCHANGED vars /\ Done
    BY <1>2 DEF TransFunctionAttrs
  <2>2. WriterInv' /\ Done' /\ Tracked(prog)'
    BY <1>0, <1>2, <2>1, WriterStays
  <2>3. rpc' # 0 /\ ReadTypes' /\ OwnValues' /\ ReadOK' /\ CollectedOK' /\ PlaceholdersOK'
    BY <1>2, TransFunctionAttrsInv
  <2> QED BY <2>2, <2>3 DEF ReadInv
<1>3. CASE (Reading /\ ReadOperands) \/ ReadInst \/ ReadPhi \/ FinishPhi
  <2>1. Reading
    BY <1>3 DEF ReadInst, ReadPhi, FinishPhi, AtInstruction
  <2>2. rpc # 0 /\ Done
    BY <1>0, <2>1, NothingUnmapped DEF Reading
  <2>3. UNCHANGED vars
    BY <1>3 DEF ReadOperands, ReadMapped, ReadConstant, CreatePlaceHolder, ReadInst, ReadPhi, FinishPhi
  <2>4. WriterInv' /\ Done' /\ Tracked(prog)'
    BY <1>0, <2>2, <2>3, WriterStays DEF ReadInv
  <2>5. CASE ReadMapped \/ ReadConstant \/ CreatePlaceHolder
    <3>1. rpc' = rpc
      BY <2>5 DEF ReadMapped, ReadConstant, CreatePlaceHolder
    <3> QED BY <2>2, <2>4, <2>5, <3>1, ReadMappedInv, ReadNewInv DEF ReadInv
  <2>6. CASE ReadInst
    BY <2>2, <2>4, <2>6, ReadInstInv DEF ReadInv
  <2>7. CASE ReadPhi
    <3>1. rpc' = rpc
      BY <2>7 DEF ReadPhi
    <3> QED BY <2>2, <2>4, <2>7, <3>1, ReadPhiInv DEF ReadInv
  <2>8. CASE FinishPhi
    BY <2>2, <2>4, <2>8, FinishPhiInv DEF ReadInv
  <2> QED BY <1>3, <2>5, <2>6, <2>7, <2>8 DEF ReadOperands
<1>4. CASE UNCHANGED allVars
  <2>1. UNCHANGED vars /\ UNCHANGED <<rpc, rops, phi, RValueMap, PlaceholderMap, llvm>>
    BY <1>4 DEF allVars, rvars
  <2>2. /\ WriterInv' /\ Written' = Written /\ Objects' = Objects /\ obj' = obj
        /\ (Done' <=> Done) /\ (Tracked(prog)' <=> Tracked(prog))
        /\ \A o, k : Got(o, k)' = Got(o, k)
    BY <1>0, <2>1, WriterStays DEF Got
  <2>3. CASE rpc = 0
    BY <2>1, <2>2, <2>3 DEF ReadInv
  <2>4. CASE rpc # 0
    <3>1. ReadTypes' /\ OwnValues' /\ PlaceholdersOK'
      BY <2>1, <2>2, <2>4 DEF ReadInv, ReadTypes, OwnValues, PlaceholdersOK, LLVMValue
    <3>2. ReadOK'
      BY <2>1, <2>2, <2>4 DEF ReadInv, ReadOK, HasOperands
    <3>3. CollectedOK'
      BY <2>1, <2>2, <2>4 DEF ReadInv, CollectedOK, HasOperands
    <3> QED BY <2>1, <2>2, <2>4, <3>1, <3>2, <3>3 DEF ReadInv
  <2> QED BY <2>3, <2>4
<1> QED BY <1>1, <1>2, <1>3, <1>4 DEF ReadNext, ReadFinished

(* At the end everything written has been read. *)
LEMMA ReadsBackFromInv == ReadInv => ReadsBack
<1> SUFFICES ASSUME ReadInv, Read PROVE
       /\ \A h \in LLVMValue : llvm[h].what = "load" => ~llvm[h].live
       /\ \A i \in Insts : prog.kind[i] = "inst" =>
            /\ ReadBack(i) # NoObj /\ llvm[ReadBack(i)].live
            /\ llvm[ReadBack(i)].ops = [k \in DOMAIN prog.ops[i] |-> ReadBack(prog.ops[i][k])]
  BY DEF ReadsBack
<1>1. rpc = Len(obj) + 1 /\ Done /\ rpc # 0
  <2>1. TypeOK
    BY DEF ReadInv, WriterInv, TrackedInv, ForwardInv
  <2>2. Len(obj) \in Nat
    BY <2>1 DEF TypeOK
  <2> QED BY <2>2 DEF Read, CodeEnd
<1>2. \A o \in Written : o < rpc /\ ~(o >= rpc)
  BY <1>1, ReadingFacts DEF Objects
<1>3. \A h \in LLVMValue : llvm[h].what = "load" => ~llvm[h].live
  BY <1>1, <1>2, ReadingFacts DEF PlaceholdersOK
<1>4. ASSUME NEW i \in Insts, prog.kind[i] = "inst"
      PROVE  /\ ReadBack(i) # NoObj /\ llvm[ReadBack(i)].live
             /\ llvm[ReadBack(i)].ops = [k \in DOMAIN prog.ops[i] |-> ReadBack(prog.ops[i][k])]
  <2> DEFINE o == ValueMap[i]
             h == RValueMap[o]
             ops == llvm[h].ops
             p == prog.ops[i]
  <2>1. o \in Written /\ o < rpc /\ o \in Objects /\ h \in 0 .. Len(llvm)
    BY <1>1, <1>2, <1>4, WriterLeaves, ReadingFacts
  <2>2. /\ p \in Seq(Values) /\ Len(obj[o].ops) = Len(p)
        /\ \A k \in 1 .. Len(p) : Denoted(o, k) = ValueMap[p[k]]
    BY <1>1, <1>4, WriterLeaves, ReadingFacts
  <2>3. /\ h # NoObj /\ llvm[h].live /\ Len(ops) = Len(obj[o].ops)
        /\ \A k \in 1 .. Len(obj[o].ops) : ops[k] = Got(o, k)
    BY <1>1, <2>1, ReadingFacts DEF ReadOK, HasOperands
  <2>4. ops \in Seq(Nat)
    BY <1>1, <2>1, <2>3, ReadingFacts, LLVMFields DEF ReadTypes
  <2> HIDE DEF o, ops, p
  <2>5. \A k \in 1 .. Len(p) : ops[k] = ReadBack(p[k])
    BY <2>2, <2>3 DEF Got, ReadBack
  <2>6. ops = [k \in DOMAIN p |-> ReadBack(p[k])]
    BY <2>2, <2>3, <2>4, <2>5
  <2> QED BY <2>3, <2>6 DEF ReadBack, o, ops, p
<1> QED BY <1>3, <1>4

(***************************************************************************)
(* The writer of the composed system is the writer of ForwardValues, so    *)
(* what is proved of it there holds while the function is read as well.    *)
(***************************************************************************)
THEOREM ReaderKeepsWriter == ReadSpec => Spec
<1>1. ReadInit => Init
  BY DEF ReadInit
<1>2. [ReadNext]_allVars => [Next]_vars
  BY DEF ReadNext, allVars, TransFunctionAttrs, ReadOperands, ReadMapped, ReadConstant,
         CreatePlaceHolder, ReadInst, ReadPhi, FinishPhi, ReadFinished
<1> QED BY <1>1, <1>2, PTL DEF ReadSpec, Spec

(***************************************************************************)
(* Writing a function and reading it back keeps its operands: every        *)
(* instruction ends with the LLVM values of the operands it had, and no    *)
(* placeholder of the reader is left, for functions of any size with any   *)
(* forward references and phis.                                            *)
(***************************************************************************)
THEOREM FunctionReadsBack == ReadSpec => []ReadsBack
BY ReadInvInit, ReadInvNext, ReadsBackFromInv, PTL DEF ReadSpec
=============================================================================
