--------------------------- MODULE ForwardValues ---------------------------
(***************************************************************************)
(* How the LLVM-to-SPIR-V writer translates the values of one function:    *)
(* LLVMToSPIRVBase::transFunction, transValue and mapValue over            *)
(* SPIRVModuleImpl's ids, entries, forwards, names and decorations         *)
(* (lib/SPIRV/SPIRVWriter.cpp, lib/SPIRV/libSPIRV/SPIRVModule.cpp).        *)
(*                                                                         *)
(* Instructions are translated in the layout order of the LLVM function,   *)
(* so an operand may not have been translated yet (a phi of a loop, or a   *)
(* block laid out before its dominator): a SPIRVForward stands for it and  *)
(* is replaced when the real instruction is created.  Instructions record  *)
(* their operands by id, the writer's locals and ValueMap by pointer.      *)
(***************************************************************************)
EXTENDS Naturals, Sequences

CONSTANTS
  N,         \* instructions of the function, numbered in layout order
  Args,      \* its parameters
  Consts,    \* constants it uses
  Programs   \* functions explored: records [kind, ops]

Insts == 1 .. N
ArgValues == (N + 1) .. (N + Args)
ConstValues == (N + Args + 1) .. (N + Args + Consts)
Values == 1 .. (N + Args + Consts)

(***************************************************************************)
(* inst   an instruction of its own in SPIR-V                              *)
(* alias  translated to the value of its first operand: llvm.expect,       *)
(*        llvm.annotation of an fpga_reg (their extensions not allowed),   *)
(*        llvm.is.constant, an addrspacecast that is a no-op               *)
(* annot  llvm.var.annotation: decorates its operand and yields it         *)
(* drop   not translated: llvm.annotation with any other string            *)
(***************************************************************************)
Kinds == {"inst", "alias", "annot", "drop"}

ProgramType == [kind : [Insts -> Kinds], ops : [Insts -> Seq(Values)]]

(***************************************************************************)
(* An alias or an annotation has the operand it yields.                    *)
(***************************************************************************)
WellFormed(p) ==
  \A i \in Insts : p.kind[i] \in {"alias", "annot"} => p.ops[i] # <<>>

ASSUME SizesAssumption == N \in Nat /\ Args \in Nat /\ Consts \in Nat
ASSUME ProgramsAssumption ==
  \A p \in Programs : p \in ProgramType /\ WellFormed(p)

NoObj == 0

VARIABLES
  prog,        \* the function translated (constant)
  pc,          \* the instruction transFunction is at
  got,         \* SPIRVValue pointers of the operands translated so far
  made,        \* the SPIRVValue transValueWithoutDecoration will map, or NoObj
  ValueMap,    \* LLVM value -> object, NoObj when absent
  obj,         \* objects allocated: id, forward or not, deleted or not, operands
  IdEntryMap,  \* id -> object
  NextId,
  NamedId,     \* ids with an OpName
  DecorateVec  \* decorations: the object that owns one and its target id

vars == <<prog, pc, got, made, ValueMap, obj, IdEntryMap, NextId, NamedId, DecorateVec>>

Objects == 1 .. Len(obj)
Handles == Objects \cup {NoObj}

ObjType == [id : Nat, fwd : BOOLEAN, live : BOOLEAN,
            ops : Seq(Nat),       \* operand ids as recorded in the instruction
            refs : Seq(Values)]   \* the LLVM operands they were recorded for

TypeOK ==
  /\ prog \in ProgramType /\ WellFormed(prog)
  /\ pc \in 1 .. (N + 1)
  /\ got \in Seq(Objects)
  /\ made \in Handles
  /\ ValueMap \in [Values -> Handles]
  /\ obj \in Seq(ObjType)
  /\ DOMAIN IdEntryMap \subseteq Nat
  /\ \A i \in DOMAIN IdEntryMap : IdEntryMap[i] \in Objects
  /\ NextId \in Nat
  /\ NamedId \subseteq Nat
  /\ DecorateVec \subseteq Objects \X Nat

Live(id, fwd, ops, refs) ==
  [id |-> id, fwd |-> fwd, live |-> TRUE, ops |-> ops, refs |-> refs]

(***************************************************************************)
(* addFunction reserved the ids of the parameters and transFunctionDecl    *)
(* named them; argument values are mapped when they are first used.        *)
(***************************************************************************)
Init ==
  /\ prog \in Programs
  /\ pc = 1
  /\ got = <<>>
  /\ made = NoObj
  /\ ValueMap = [v \in Values |-> NoObj]
  /\ obj = [a \in 1 .. Args |-> Live(a, FALSE, <<>>, <<>>)]
  /\ IdEntryMap = [i \in 1 .. Args |-> i]
  /\ NextId = Args + 1
  /\ NamedId = 1 .. Args
  /\ DecorateVec = {}

-----------------------------------------------------------------------------
Operands == prog.ops[pc]
AtOperand == pc \in Insts /\ made = NoObj /\ Len(got) < Len(Operands)
AtEnd == pc \in Insts /\ made = NoObj /\ Len(got) = Len(Operands)
Operand == Operands[Len(got) + 1]

(* add(new SPIRVX(getId())): addEntry maps the next id to the new object. *)
AddEntry(o) ==
  /\ obj' = Append(obj, o)
  /\ IdEntryMap' = [i \in DOMAIN IdEntryMap \cup {NextId} |->
                      IF i = NextId THEN Len(obj) + 1 ELSE IdEntryMap[i]]
  /\ NextId' = NextId + 1

(* transValue(Op, BB, CreateForward = true) finds Op in ValueMap. *)
UseMapped ==
  /\ AtOperand
  /\ ValueMap[Operand] # NoObj
  /\ got' = Append(got, ValueMap[Operand])
  /\ UNCHANGED <<prog, pc, made, ValueMap, obj, IdEntryMap, NextId, NamedId, DecorateVec>>

UseArgument ==
  /\ AtOperand
  /\ Operand \in ArgValues
  /\ ValueMap[Operand] = NoObj
  /\ ValueMap' = [ValueMap EXCEPT ![Operand] = Operand - N]
  /\ NamedId' = NamedId \cup {obj[Operand - N].id}
  /\ got' = Append(got, Operand - N)
  /\ UNCHANGED <<prog, pc, made, obj, IdEntryMap, NextId, DecorateVec>>

UseConstant ==
  /\ AtOperand
  /\ Operand \in ConstValues
  /\ ValueMap[Operand] = NoObj
  /\ AddEntry(Live(NextId, FALSE, <<>>, <<>>))
  /\ ValueMap' = [ValueMap EXCEPT ![Operand] = Len(obj) + 1]
  /\ got' = Append(got, Len(obj) + 1)
  /\ UNCHANGED <<prog, pc, made, NamedId, DecorateVec>>

UseForward ==
  /\ AtOperand
  /\ Operand \in Insts
  /\ ValueMap[Operand] = NoObj
  /\ AddEntry(Live(NextId, TRUE, <<>>, <<>>))
  /\ ValueMap' = [ValueMap EXCEPT ![Operand] = Len(obj) + 1]
  /\ NamedId' = NamedId \cup {NextId}
  /\ got' = Append(got, Len(obj) + 1)
  /\ UNCHANGED <<prog, pc, made, DecorateVec>>

(* Mutant: operands in reverse order. *)
CreateInstReversed ==
  /\ AtEnd
  /\ prog.kind[pc] = "inst"
  /\ AddEntry(Live(NextId, FALSE, [k \in 1 .. Len(got) |-> obj[got[Len(got) + 1 - k]].id], Operands))
  /\ made' = Len(obj) + 1
  /\ DecorateVec' = DecorateVec \cup {<<Len(obj) + 1, NextId>>}
  /\ UNCHANGED <<prog, pc, got, ValueMap, NamedId>>

(***************************************************************************)
(* The real instruction: it has an id of its own and records the ids its   *)
(* operands have now.  It is decorated before it is mapped, as             *)
(* applyRoundingModeConstraint does (every value has a name and            *)
(* decorations here: the worst case, since nothing else depends on them).  *)
(***************************************************************************)
CreateInst ==
  /\ AtEnd
  /\ prog.kind[pc] = "inst"
  /\ AddEntry(Live(NextId, FALSE, [k \in 1 .. Len(got) |-> obj[got[k]].id], Operands))
  /\ made' = Len(obj) + 1
  /\ DecorateVec' = DecorateVec \cup {<<Len(obj) + 1, NextId>>}
  /\ UNCHANGED <<prog, pc, got, ValueMap, NamedId>>

YieldOperand ==
  /\ AtEnd
  /\ prog.kind[pc] \in {"alias", "annot"}
  /\ made' = got[1]
  /\ DecorateVec' = IF prog.kind[pc] = "annot"
                      THEN DecorateVec \cup {<<got[1], obj[got[1]].id>>}
                      ELSE DecorateVec
  /\ UNCHANGED <<prog, pc, got, ValueMap, obj, IdEntryMap, NextId, NamedId>>

(* transIntrinsicInst returned nullptr: nothing is mapped or named. *)
DropInst ==
  /\ AtEnd
  /\ prog.kind[pc] = "drop"
  /\ pc' = pc + 1
  /\ got' = <<>>
  /\ UNCHANGED <<prog, made, ValueMap, obj, IdEntryMap, NextId, NamedId, DecorateVec>>

-----------------------------------------------------------------------------
(***************************************************************************)
(* mapValue(V, BV), then the decorations (not of a forward) and the name   *)
(* transValue gives BV.                                                    *)
(***************************************************************************)
NextInst == pc' = pc + 1 /\ got' = <<>> /\ made' = NoObj

Annotated(o, id) == IF obj[o].fwd THEN {} ELSE {<<o, id>>}

(* Mutant: emplace instead of assignment keeps the value already there. *)
MappedFirst(v, o) == IF ValueMap[v] # NoObj THEN ValueMap ELSE [ValueMap EXCEPT ![v] = o]

Mapped(v, o) == [ValueMap EXCEPT ![v] = o]

MapValue ==
  /\ made # NoObj
  /\ ValueMap[pc] \in {NoObj, made}
  /\ ValueMap' = Mapped(pc, made)
  /\ NamedId' = NamedId \cup {obj[made].id}
  /\ DecorateVec' = DecorateVec \cup Annotated(made, obj[made].id)
  /\ NextInst
  /\ UNCHANGED <<prog, obj, IdEntryMap, NextId>>

(* Mutant: decorations keep the id they were made for. *)
RetargetNone(dec, owner, id) == dec

(* replaceTargetIdInDecorates. *)
Retarget(dec, owner, id) ==
  {IF d[1] = owner THEN <<owner, id>> ELSE d : d \in dec}

(* Mutant: the id given up still leads to the entry. *)
TakeIdKeepOld(o, id) ==
  [i \in DOMAIN IdEntryMap \cup {id} |-> IF i = id THEN o ELSE IdEntryMap[i]]

(* IdEntryMap when object o leaves its own id for another. *)
TakeId(o, id) ==
  [i \in (DOMAIN IdEntryMap \ {obj[o].id}) \cup {id} |->
     IF i = id THEN o ELSE IdEntryMap[i]]

(***************************************************************************)
(* replaceForward: the entry leaves its own id for the id of the forward,  *)
(* its decorations follow, and the forward is deleted.                     *)
(***************************************************************************)
ReplaceForward ==
  /\ made # NoObj
  /\ ValueMap[pc] \notin {NoObj, made}
  /\ LET f  == ValueMap[pc]
         id == obj[f].id
     IN  /\ IdEntryMap' = TakeId(made, id)
         /\ obj' = [obj EXCEPT ![made].id = id, ![f].live = FALSE]
         /\ DecorateVec' = Retarget(DecorateVec, made, id) \cup Annotated(made, id)
         /\ NamedId' = NamedId \cup {id}
  /\ ValueMap' = Mapped(pc, made)
  /\ NextInst
  /\ UNCHANGED <<prog, NextId>>

Done == pc = N + 1

Finished == Done /\ UNCHANGED vars

Next ==
  \/ UseMapped
  \/ UseArgument
  \/ UseConstant
  \/ UseForward
  \/ CreateInst
  \/ YieldOperand
  \/ DropInst
  \/ MapValue
  \/ ReplaceForward
  \/ Finished

Spec == Init /\ [][Next]_vars

-----------------------------------------------------------------------------
(***************************************************************************)
(* YieldsFollow: an alias or annotation comes after what it yields, so it  *)
(* never yields a forward.  Tracked: besides, nothing uses it before, and  *)
(* nothing uses a dropped instruction.                                     *)
(***************************************************************************)
OperandsOf(p, i) == {p.ops[i][k] : k \in 1 .. Len(p.ops[i])}

YieldsFollow(p) ==
  \A i \in Insts : p.kind[i] \in {"alias", "annot"} =>
    (p.ops[i][1] \in Insts => p.ops[i][1] < i /\ p.kind[p.ops[i][1]] # "drop")

Tracked(p) ==
  /\ YieldsFollow(p)
  /\ \A i, j \in Insts : i \in OperandsOf(p, j) =>
       /\ p.kind[i] # "drop"
       /\ p.kind[i] \in {"alias", "annot"} => i < j

(***************************************************************************)
(* No use after free: ValueMap and the writer's locals never hold a        *)
(* forward that replaceForward has deleted.                                *)
(***************************************************************************)
PointersLive ==
  YieldsFollow(prog) =>
    /\ \A v \in Values : ValueMap[v] # NoObj => obj[ValueMap[v]].live
    /\ \A k \in 1 .. Len(got) : obj[got[k]].live
    /\ made # NoObj => obj[made].live

(***************************************************************************)
(* An id names one entry, and every entry not deleted is found under its   *)
(* own id, below the bound the header will announce (addEntry: "Id used    *)
(* twice"; operator<< writes NextId as the bound).  A forward is a         *)
(* placeholder, "replaced later by the real instructions": when the        *)
(* function is finished the only forwards left under an id stand for       *)
(* instructions the writer dropped (an llvm.annotation other than the FPGA *)
(* register one).                                                          *)
(***************************************************************************)
IdsConsistent ==
  YieldsFollow(prog) =>
    /\ \A i \in DOMAIN IdEntryMap : obj[IdEntryMap[i]].live /\ obj[IdEntryMap[i]].id = i
    /\ \A o \in Objects : obj[o].live =>
         obj[o].id < NextId /\ obj[o].id \in DOMAIN IdEntryMap /\ IdEntryMap[obj[o].id] = o
    /\ Done => \A i \in DOMAIN IdEntryMap : obj[IdEntryMap[i]].fwd =>
         \E v \in Insts : prog.kind[v] = "drop" /\ ValueMap[v] = IdEntryMap[i]

(***************************************************************************)
(* The id an instruction recorded for an operand denotes, when the         *)
(* function is finished, the SPIR-V value of that operand and no forward,  *)
(* although it was recorded before that value existed.                     *)
(***************************************************************************)
OperandsDenote ==
  Done /\ Tracked(prog) =>
    \A o \in Objects : obj[o].live => \A k \in 1 .. Len(obj[o].ops) :
      LET id == obj[o].ops[k]
      IN  /\ id \in DOMAIN IdEntryMap
          /\ ~obj[IdEntryMap[id]].fwd
          /\ IdEntryMap[id] = ValueMap[obj[o].refs[k]]

(***************************************************************************)
(* operator<< looks up every named id and writes every decoration: none    *)
(* refers to an id that a replaced instruction gave up, and a decoration's *)
(* target is the entry it was added to.                                    *)
(***************************************************************************)
AnnotationsResolve ==
  Tracked(prog) =>
    /\ NamedId \subseteq DOMAIN IdEntryMap
    /\ \A d \in DecorateVec : d[2] \in DOMAIN IdEntryMap /\ IdEntryMap[d[2]] = d[1]

=============================================================================
