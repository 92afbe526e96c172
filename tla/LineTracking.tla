---------------------------- MODULE LineTracking ----------------------------
(***************************************************************************)
(* Debug locations through a SPIR-V module and back.  The writer attaches  *)
(* DebugScope instructions and OpLine to what it translated                *)
(* (LLVMToSPIRVDbgTran::transLocationInfo), operator<< writes an OpLine    *)
(* only where the current line changes (SPIRVEntry::encodeLine), decodeBB  *)
(* keeps a current line and scope while it reads the blocks, and           *)
(* transDebugScope makes the LLVM location of each instruction from them.  *)
(*                                                                         *)
(* A line stands for a file, line and column, a scope for a DIScope and an *)
(* inlined-at location.  DebugLine of NonSemantic.Shader.DebugInfo goes    *)
(* through the same steps (addDebugLine, encodeDebugLine).                 *)
(***************************************************************************)
EXTENDS Naturals, Sequences, SequencesExt

CONSTANTS
  N,         \* LLVM instructions of the function
  Scopes,
  Lines,
  NoScope,   \* no DebugScope in force
  NoLine,    \* no OpLine in force
  Functions  \* functions explored: records [kind, loc, of]

Insts == 1 .. N

(***************************************************************************)
(* op        a SPIR-V instruction where the LLVM one was                   *)
(* alloca    OpVariable, moved before the other instructions of its block  *)
(* alias     its SPIR-V value is that of instruction of[i], or of a        *)
(*           parameter when of[i] = 0                                      *)
(* none      no SPIR-V value, a constant, or skipped (llvm.dbg.label)      *)
(* term      a terminator; loopterm one with OpLoopMerge before it         *)
(***************************************************************************)
Kinds == {"op", "alloca", "alias", "none", "term", "loopterm"}
Terminators == {"term", "loopterm"}

NoLoc == [scope |-> NoScope, line |-> NoLine]
Locs == [scope : Scopes, line : Lines] \cup {NoLoc}

FunctionType == [kind : [Insts -> Kinds], loc : [Insts -> Locs], of : [Insts -> 0 .. N]]

ASSUME SizeAssumption == N \in Nat
ASSUME MarkersAssumption == NoScope \notin Scopes /\ NoLine \notin Lines
ASSUME FunctionsAssumption ==
  \A f \in Functions : f \in FunctionType /\ (N > 0 => f.kind[N] \in Terminators)

VARIABLES
  fn,           \* the function (constant)
  phase,        \* "translate", "locate", "encode", "decode", "done"
  pc,           \* next LLVM instruction, entry or stream item of the phase
  DbgScope,     \* transLocationInfo's scope; decodeBB's DebugScope
  Line,         \* transLocationInfo's File, LineNo and Col
  InstVec,      \* the SPIR-V instructions, block after block
  CurrentLine,  \* the module's current line
  stream,       \* what operator<< has written
  read          \* LLVM instruction -> location read back

vars == <<fn, phase, pc, DbgScope, Line, InstVec, CurrentLine, stream, read>>

(* An entry: a Label, the SPIR-V instruction of src, or a DebugScope. *)
Entry(op, src, scope) == [op |-> op, src |-> src, scope |-> scope, line |-> NoLine]

EntryType == [op : {"Label", "inst", "var", "merge", "end", "Scope", "NoScope"}, src : Insts,
              scope : Scopes \cup {NoScope}, line : Lines \cup {NoLine}]
ItemType == EntryType \cup [op : {"OpLine"}, line : Lines]

TypeOK ==
  /\ fn \in FunctionType
  /\ phase \in {"translate", "locate", "encode", "decode", "done"}
  /\ pc \in Nat \ {0}
  /\ DbgScope \in Scopes \cup {NoScope}
  /\ Line \in Lines \cup {NoLine}
  /\ InstVec \in Seq(EntryType)
  /\ CurrentLine \in Lines \cup {NoLine}
  /\ stream \in Seq(ItemType)
  /\ read \in [Insts -> [scope : Scopes \cup {NoScope}, line : Lines \cup {NoLine}]]

Init ==
  /\ fn \in Functions
  /\ phase = "translate"
  /\ pc = 1
  /\ DbgScope = NoScope
  /\ Line = NoLine
  /\ InstVec = <<>>
  /\ CurrentLine = NoLine
  /\ stream = <<>>
  /\ read = [i \in Insts |-> NoLoc]

-----------------------------------------------------------------------------
(***************************************************************************)
(* transFunction: a block starts with its label; addVariable puts an       *)
(* OpVariable at getVariableInsertionPoint, after the block's variables.   *)
(***************************************************************************)
StartsBlock(i) == i = 1 \/ fn.kind[i - 1] \in Terminators
BlockStart(i) == CHOOSE j \in 1 .. i : StartsBlock(j) /\ \A k \in (j + 1) .. i : ~StartsBlock(k)

Opened == IF StartsBlock(pc) THEN Append(InstVec, Entry("Label", pc, NoScope)) ELSE InstVec

VariableInsertionPoint(s, first) ==
  CHOOSE p \in first .. (Len(s) + 1) :
    /\ \A k \in first .. (p - 1) : s[k].op \in {"Label", "var"}
    /\ p <= Len(s) => s[p].op \notin {"Label", "var"}

LabelAt(s, i) == CHOOSE k \in 1 .. Len(s) : s[k].op = "Label" /\ s[k].src = BlockStart(i)

Translate ==
  /\ phase = "translate" /\ pc \in Insts
  /\ InstVec' =
       CASE fn.kind[pc] = "op"       -> Append(Opened, Entry("inst", pc, NoScope))
         [] fn.kind[pc] = "alloca"   ->
              InsertAt(Opened, VariableInsertionPoint(Opened, LabelAt(Opened, pc)),
                       Entry("var", pc, NoScope))
         [] fn.kind[pc] = "term"     -> Append(Opened, Entry("end", pc, NoScope))
         [] fn.kind[pc] = "loopterm" ->
              Opened \o <<Entry("merge", pc, NoScope), Entry("end", pc, NoScope)>>
         [] OTHER                    -> Opened
  /\ pc' = pc + 1
  /\ UNCHANGED <<fn, phase, DbgScope, Line, CurrentLine, stream, read>>

StartLocate ==
  /\ phase = "translate" /\ pc = N + 1
  /\ phase' = "locate"
  /\ pc' = 1
  /\ UNCHANGED <<fn, DbgScope, Line, InstVec, CurrentLine, stream, read>>

-----------------------------------------------------------------------------
(* The LLVM instruction whose SPIR-V value stands for instruction i. *)
Value(i) == IF fn.kind[i] = "alias" THEN fn.of[i] ELSE i

IsValueOf(e, i) == e.src = i /\ e.op \in {"inst", "var", "end"}

(***************************************************************************)
(* find(V) in the block of the LLVM instruction at pc: the position of V,  *)
(* or the end of the block when V is not there.                            *)
(***************************************************************************)
BlockEnd(s, i) ==
  CHOOSE k \in LabelAt(s, i) .. Len(s) :
    /\ k = Len(s) \/ s[k + 1].op = "Label"
    /\ \A m \in (LabelAt(s, i) + 1) .. k : s[m].op # "Label"

Find(s, v) ==
  LET here == {k \in LabelAt(s, pc) .. BlockEnd(s, pc) : IsValueOf(s[k], v)}
  IN  IF here = {} THEN BlockEnd(s, pc) + 1 ELSE CHOOSE k \in here : TRUE

(* Mutant: nothing keeps OpLoopMerge next to its branch. *)
InsertRightBefore(s, e, v) == InsertAt(s, Find(s, v), e)

(* addInstruction(e, InsertBefore = V): not between a merge and its branch. *)
InsertBefore(s, e, v) ==
  LET pos == Find(s, v)
  IN  InsertAt(s, IF s[pos - 1].op = "merge" THEN pos - 1 ELSE pos, e)

(***************************************************************************)
(* addLine on V, or on the OpLoopMerge before V when V is a branch.        *)
(***************************************************************************)
SetLine(s, v, l) ==
  [k \in 1 .. Len(s) |->
     IF IF v \in Insts /\ fn.kind[v] = "loopterm"
          THEN s[k].src = v /\ s[k].op = "merge" ELSE IsValueOf(s[k], v)
       THEN [s[k] EXCEPT !.line = l] ELSE s[k]]

(* The locals of transLocationInfo are per block. *)
NextLocals(scope, line) ==
  /\ pc' = pc + 1
  /\ IF fn.kind[pc] \in Terminators
       THEN DbgScope' = NoScope /\ Line' = NoLine
       ELSE DbgScope' = scope /\ Line' = line

Skip ==
  /\ phase = "locate" /\ pc \in Insts
  /\ fn.kind[pc] = "none"
  /\ NextLocals(DbgScope, Line)
  /\ UNCHANGED <<fn, phase, InstVec, CurrentLine, stream, read>>

LocateNoLoc ==
  /\ phase = "locate" /\ pc \in Insts
  /\ fn.kind[pc] # "none"
  /\ fn.loc[pc] = NoLoc
  /\ InstVec' = IF DbgScope = NoScope THEN InstVec
                ELSE InsertBefore(InstVec, Entry("NoScope", pc, NoScope), Value(pc))
  /\ NextLocals(NoScope, Line)
  /\ UNCHANGED <<fn, phase, CurrentLine, stream, read>>

Locate ==
  /\ phase = "locate" /\ pc \in Insts
  /\ fn.kind[pc] # "none"
  /\ fn.loc[pc] # NoLoc
  /\ LET loc    == fn.loc[pc]
         scoped == IF loc.scope = DbgScope THEN InstVec
                   ELSE InsertBefore(InstVec, Entry("Scope", pc, loc.scope), Value(pc))
     IN  /\ InstVec' = IF loc.line = Line THEN scoped
                       ELSE SetLine(scoped, Value(pc), loc.line)
         /\ NextLocals(loc.scope, loc.line)
  /\ UNCHANGED <<fn, phase, CurrentLine, stream, read>>

StartEncode ==
  /\ phase = "locate" /\ pc = N + 1
  /\ phase' = "encode"
  /\ pc' = 1
  /\ CurrentLine' = NoLine
  /\ UNCHANGED <<fn, DbgScope, Line, InstVec, stream, read>>

-----------------------------------------------------------------------------
OpLine(l) == [op |-> "OpLine", line |-> l]

(* Mutant: the line survives the end of the block in the writer alone. *)
EncodeEntryKeepLine ==
  /\ phase = "encode" /\ pc \in 1 .. Len(InstVec)
  /\ LET e   == InstVec[pc]
         new == e.line # NoLine /\ e.line # CurrentLine
     IN  /\ stream' = stream \o (IF new THEN <<OpLine(e.line)>> ELSE <<>>) \o <<e>>
         /\ CurrentLine' = IF new THEN e.line ELSE CurrentLine
  /\ pc' = pc + 1
  /\ UNCHANGED <<fn, phase, DbgScope, Line, InstVec, read>>

(* encodeAll: encodeLine, then the entry; a terminator ends the line. *)
EncodeEntry ==
  /\ phase = "encode" /\ pc \in 1 .. Len(InstVec)
  /\ LET e   == InstVec[pc]
         new == e.line # NoLine /\ e.line # CurrentLine
     IN  /\ stream' = stream \o (IF new THEN <<OpLine(e.line)>> ELSE <<>>) \o <<e>>
         /\ CurrentLine' = CASE e.op = "end" -> NoLine
                             [] e.op # "end" /\ new -> e.line
                             [] OTHER -> CurrentLine
  /\ pc' = pc + 1
  /\ UNCHANGED <<fn, phase, DbgScope, Line, InstVec, read>>

(* Another process or a later call reads the module. *)
StartDecode ==
  /\ phase = "encode" /\ pc = Len(InstVec) + 1
  /\ phase' = "decode"
  /\ pc' = 1
  /\ CurrentLine' = NoLine
  /\ DbgScope' = NoScope
  /\ UNCHANGED <<fn, Line, InstVec, stream, read>>

-----------------------------------------------------------------------------
AtItem(ops) == phase = "decode" /\ pc \in 1 .. Len(stream) /\ stream[pc].op \in ops

(* decodeBB starts a block without a scope. *)
DecodeLabel ==
  /\ AtItem({"Label"})
  /\ DbgScope' = NoScope
  /\ pc' = pc + 1
  /\ UNCHANGED <<fn, phase, Line, InstVec, CurrentLine, stream, read>>

DecodeLine ==
  /\ AtItem({"OpLine"})
  /\ CurrentLine' = stream[pc].line
  /\ pc' = pc + 1
  /\ UNCHANGED <<fn, phase, DbgScope, Line, InstVec, stream, read>>

DecodeScope ==
  /\ AtItem({"Scope", "NoScope"})
  /\ DbgScope' = stream[pc].scope
  /\ pc' = pc + 1
  /\ UNCHANGED <<fn, phase, Line, InstVec, CurrentLine, stream, read>>

(* getEntry, setDebugScope, and transDebugScope for the LLVM instruction. *)
LocationOf(scope, line) == IF scope = NoScope THEN NoLoc ELSE [scope |-> scope, line |-> line]

DecodeEntry ==
  /\ AtItem({"inst", "var", "merge", "end"})
  /\ read' = IF stream[pc].op = "merge" THEN read
             ELSE [read EXCEPT ![stream[pc].src] = LocationOf(DbgScope, CurrentLine)]
  /\ CurrentLine' = IF stream[pc].op = "end" THEN NoLine ELSE CurrentLine
  /\ pc' = pc + 1
  /\ UNCHANGED <<fn, phase, DbgScope, Line, InstVec, stream>>

EndDecode ==
  /\ phase = "decode" /\ pc = Len(stream) + 1
  /\ phase' = "done"
  /\ UNCHANGED <<fn, pc, DbgScope, Line, InstVec, CurrentLine, stream, read>>

Finished == phase = "done" /\ UNCHANGED vars

Next ==
  \/ Translate \/ StartLocate
  \/ Skip \/ LocateNoLoc \/ Locate \/ StartEncode
  \/ EncodeEntry \/ StartDecode
  \/ DecodeLabel \/ DecodeLine \/ DecodeScope \/ DecodeEntry \/ EndDecode
  \/ Finished

Spec == Init /\ [][Next]_vars

-----------------------------------------------------------------------------
(***************************************************************************)
(* Functions whose SPIR-V instructions keep the LLVM order: an alloca is   *)
(* not behind another instruction of its block, and no value is another's. *)
(***************************************************************************)
InOrder(f) ==
  \A i \in Insts :
    /\ f.kind[i] # "alias"
    /\ f.kind[i] = "alloca" => \A j \in 1 .. (i - 1) :
         (\A k \in j .. (i - 1) : f.kind[k] \notin Terminators) =>
           f.kind[j] \in {"alloca", "none"}

SamePlaces ==
  \A i \in Insts : fn.kind[i] \notin {"none", "alias"} => read[i] = fn.loc[i]

(***************************************************************************)
(* Every instruction comes back with the scope and line it had, although   *)
(* both are written only where they change and the writer, the encoder and *)
(* the decoder each keep a current one of their own.                       *)
(***************************************************************************)
RoundTrip == phase = "done" /\ InOrder(fn) => SamePlaces

(***************************************************************************)
(* "insertion before the returned instruction is guaranteed to retain      *)
(* correct instruction order in a block" (addInstruction): nothing follows *)
(* a terminator, and a merge instruction is followed by its branch, also   *)
(* where a variable was moved to the front of its block.  The value of     *)
(* every located instruction is here an instruction of its own block.      *)
(***************************************************************************)
BlocksStayOrdered ==
  (\A i \in Insts : fn.kind[i] # "alias") =>
    \A k \in 1 .. Len(InstVec) :
      /\ InstVec[k].op = "end" => k = Len(InstVec) \/ InstVec[k + 1].op = "Label"
      /\ InstVec[k].op = "merge" => k < Len(InstVec) /\ InstVec[k + 1].op = "end"

=============================================================================
