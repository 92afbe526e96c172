----------------------------- MODULE ReadValues -----------------------------
(***************************************************************************)
(* How the SPIR-V-to-LLVM reader translates the function that              *)
(* ForwardValues has written: SPIRVToLLVM::transFunction, transValue and   *)
(* mapValue (lib/SPIRV/SPIRVReader.cpp).                                   *)
(*                                                                         *)
(* The instructions come in the order they were written, so an operand may *)
(* again be one that comes later.  The load of a global "placeholder." is  *)
(* used in its place until mapValue has the real value and replaces every  *)
(* use of the load.  An instruction other than a phi collects its operands *)
(* before it exists and is mapped; a phi is mapped first, so that it can   *)
(* be its own operand.                                                     *)
(***************************************************************************)
EXTENDS ForwardValues, FiniteSetsExt

VARIABLES
  rpc,             \* the instruction of the SPIR-V function read, 0 before the first
  rops,            \* LLVM values of the operands translated so far
  phi,             \* the LLVM phi that takes incoming values, or NoObj
  RValueMap,       \* SPIR-V object -> LLVM value, NoObj when absent
  PlaceholderMap,  \* SPIR-V objects that ever had a placeholder
  llvm             \* LLVM values made: what they are, operands, erased or not

rvars == <<rpc, rops, phi, RValueMap, PlaceholderMap, llvm>>
allVars == <<vars, rvars>>

(* The instructions of the SPIR-V function; they come as they were created. *)
Written == {ValueMap[i] : i \in {j \in Insts : prog.kind[j] = "inst"}}
CodeEnd == Len(obj) + 1
EntryAfter(o) == Min({p \in Written \cup {CodeEnd} : p > o})
Entry == rpc
Reading == Done /\ rpc \in Written

Made(what, ops) == [what |-> what, ops |-> ops, live |-> TRUE]
LLVMValue == 1 .. Len(llvm)

ReadInit ==
  /\ Init
  /\ rpc = 0 /\ rops = <<>> /\ phi = NoObj
  /\ RValueMap = <<>> /\ PlaceholderMap = {} /\ llvm = <<>>

(* transFunctionAttrs maps the parameters before any instruction. *)
TransFunctionAttrs ==
  /\ Done /\ rpc = 0
  /\ rpc' = EntryAfter(0)
  /\ llvm' = [a \in 1 .. Args |-> Made("argument", <<>>)]
  /\ RValueMap' = [o \in Objects |-> IF o <= Args THEN o ELSE NoObj]
  /\ UNCHANGED <<vars, rops, phi, PlaceholderMap>>

-----------------------------------------------------------------------------
(* The operand transValue(BV, F, BB, CreatePlaceHolder = true) is asked for. *)
Collected == IF phi = NoObj THEN Len(rops) ELSE Len(llvm[phi].ops)
AtReadOperand == Reading /\ Collected < Len(obj[Entry].ops)
ReadOperand == IdEntryMap[obj[Entry].ops[Collected + 1]]

(* What the caller does with the translated operand: addIncoming of a phi, *)
(* or the list of operands of the instruction to be made.                  *)
Use(values, v) ==
  IF phi = NoObj THEN rops' = Append(rops, v) /\ llvm' = values
  ELSE rops' = rops /\ llvm' = [values EXCEPT ![phi].ops = Append(@, v)]

ReadMapped ==
  /\ AtReadOperand
  /\ RValueMap[ReadOperand] # NoObj
  /\ Use(llvm, RValueMap[ReadOperand])
  /\ UNCHANGED <<vars, rpc, phi, RValueMap, PlaceholderMap>>

ReadConstant ==
  /\ AtReadOperand
  /\ RValueMap[ReadOperand] = NoObj
  /\ ReadOperand \in {ValueMap[c] : c \in ConstValues}
  /\ RValueMap' = [RValueMap EXCEPT ![ReadOperand] = Len(llvm) + 1]
  /\ Use(Append(llvm, Made("constant", <<>>)), Len(llvm) + 1)
  /\ UNCHANGED <<vars, rpc, phi, PlaceholderMap>>

CreatePlaceHolder ==
  /\ AtReadOperand
  /\ RValueMap[ReadOperand] = NoObj
  /\ ReadOperand \in Written
  /\ RValueMap' = [RValueMap EXCEPT ![ReadOperand] = Len(llvm) + 1]
  /\ PlaceholderMap' = PlaceholderMap \cup {ReadOperand}
  /\ Use(Append(llvm, Made("load", <<>>)), Len(llvm) + 1)
  /\ UNCHANGED <<vars, rpc, phi>>

-----------------------------------------------------------------------------
(* transFunction asks for the instruction with CreatePlaceHolder = false: a  *)
(* placeholder does not count as its translation.                            *)
AtInstruction ==
  /\ Reading /\ phi = NoObj
  /\ RValueMap[Entry] = NoObj \/ Entry \in PlaceholderMap

(* Mutant: the uses of the placeholder are left alone. *)
ReplacedNone(values, ld, v) ==
  [h \in DOMAIN values |-> IF h = ld THEN [values[h] EXCEPT !.live = FALSE] ELSE values[h]]

(* mapValue: the load of the placeholder is replaced in every instruction and *)
(* erased.  Only instructions are users; the reader's locals are not.         *)
Replaced(values, ld, v) ==
  [h \in DOMAIN values |->
     [values[h] EXCEPT !.live = @ /\ h # ld,
                       !.ops = [k \in DOMAIN @ |-> IF @[k] = ld THEN v ELSE @[k]]]]

(* The assertion "A value is translated twice" allows a placeholder only. *)
MapRead(values, v) ==
  /\ RValueMap[Entry] # NoObj => llvm[RValueMap[Entry]].what = "load"
  /\ llvm' = IF RValueMap[Entry] = NoObj THEN values
             ELSE Replaced(values, RValueMap[Entry], v)
  /\ RValueMap' = [RValueMap EXCEPT ![Entry] = v]

ReadInst ==
  /\ AtInstruction
  /\ Len(rops) = Len(obj[Entry].ops)
  /\ MapRead(Append(llvm, Made("inst", rops)), Len(llvm) + 1)
  /\ rpc' = EntryAfter(rpc) /\ rops' = <<>>
  /\ UNCHANGED <<vars, phi, PlaceholderMap>>

ReadPhi ==
  /\ AtInstruction
  /\ rops = <<>> /\ obj[Entry].ops # <<>>
  /\ MapRead(Append(llvm, Made("inst", <<>>)), Len(llvm) + 1)
  /\ phi' = Len(llvm) + 1
  /\ UNCHANGED <<vars, rpc, rops, PlaceholderMap>>

FinishPhi ==
  /\ Reading /\ phi # NoObj
  /\ Len(llvm[phi].ops) = Len(obj[Entry].ops)
  /\ rpc' = EntryAfter(rpc) /\ phi' = NoObj
  /\ UNCHANGED <<vars, rops, RValueMap, PlaceholderMap, llvm>>

(* Only a phi can be its own operand. *)
SelfUse == obj[Entry].id \in {obj[Entry].ops[k] : k \in DOMAIN obj[Entry].ops}

ReadOperands ==
  /\ phi # NoObj \/ ~SelfUse
  /\ \/ ReadMapped
     \/ ReadConstant
     \/ CreatePlaceHolder

Read == Done /\ rpc = CodeEnd

ReadFinished == (Read \/ (Done /\ ~Tracked(prog))) /\ UNCHANGED allVars

(* A function with a use of a dropped instruction, or of a value yielded     *)
(* under another id, is not valid SPIR-V and is not read.                    *)
ReadNext ==
  \/ ~Done /\ Next /\ UNCHANGED rvars
  \/ Tracked(prog) /\ TransFunctionAttrs
  \/ Reading /\ ReadOperands
  \/ ReadInst
  \/ ReadPhi
  \/ FinishPhi
  \/ ReadFinished

ReadSpec == ReadInit /\ [][ReadNext]_allVars

-----------------------------------------------------------------------------
(***************************************************************************)
(* The function that is read uses what the function that was written used: *)
(* each instruction has, in order, the LLVM values of the operands the     *)
(* original had, an alias being what it yields.  No placeholder is left,   *)
(* and no instruction uses one that was erased, although both directions   *)
(* met operands before the instructions that define them.                  *)
(***************************************************************************)
ReadBack(v) == RValueMap[ValueMap[v]]
ReadsBack ==
  Read =>
    /\ \A h \in LLVMValue : llvm[h].what = "load" => ~llvm[h].live
    /\ \A i \in Insts : prog.kind[i] = "inst" =>
         /\ ReadBack(i) # NoObj /\ llvm[ReadBack(i)].live
         /\ llvm[ReadBack(i)].ops = [k \in DOMAIN prog.ops[i] |-> ReadBack(prog.ops[i][k])]
=============================================================================
