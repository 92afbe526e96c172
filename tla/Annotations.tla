---------------------------- MODULE Annotations ----------------------------
(***************************************************************************)
(* Names, decorations, decoration groups and execution modes of a SPIR-V   *)
(* module that is read, written and read again.  They come before the      *)
(* entries they are about: a SPIRVForward collects them under the target's *)
(* id, and the entry takes them over when it is defined (SPIRVEntry.cpp,   *)
(* SPIRVDecorate.cpp, addEntry, replaceForward, addDecorationGroup and     *)
(* operator<< of SPIRVModule.cpp).                                         *)
(*                                                                         *)
(* A module is the sequence of its instructions, an annotation is a value  *)
(* that identifies it: the text of a name, or what a decoration says.      *)
(***************************************************************************)
EXTENDS Naturals, Sequences, FiniteSets, SequencesExt

CONSTANTS
  Ids,      \* ids of the module
  Anns,     \* annotations
  NoName,   \* the empty name
  Modules   \* modules explored: sequences of instructions

(***************************************************************************)
(* Annotations of id that carry ann: EntryPoint, Mode, Name, Decorate,     *)
(* Linkage (OpDecorate LinkageAttributes, which also names its target) and *)
(* MemberDecorate.  Group defines id as a decoration group, GroupDecorate  *)
(* applies the group id to targets, Function and Def define id.            *)
(***************************************************************************)
Decorations == {"Decorate", "Linkage", "MemberDecorate"}
Definitions == {"Group", "Function", "Def"}
Ops == {"EntryPoint", "Mode", "Name", "GroupDecorate"} \cup Decorations \cup Definitions

InstType == [op : Ops, id : Ids, ann : Anns \cup {NoName}, targets : SUBSET Ids]

ASSUME NoNameAssumption == NoName \notin Anns
ASSUME ModulesAssumption ==
  \A m \in Modules : /\ m \in Seq(InstType)
                     /\ \A i \in 1 .. Len(m) :
                          m[i].op \notin Definitions \cup {"GroupDecorate"} => m[i].ann \in Anns

VARIABLES
  input,        \* the module being read
  pos,          \* the next instruction of it
  round,        \* 1, then 2 for the module written
  IdEntryMap,   \* id -> the entry, with its annotations
  NamedId,
  EntryPointVec,
  DecorateVec,
  DecGroupVec,  \* groups with their Decorations, which have them as owner
  GroupDecVec,
  DefVec,       \* ConstVec, VariableVec, FuncVec and the like together
  firstRead     \* IdEntryMap and NamedId when the first reading ended

tables == <<IdEntryMap, NamedId, EntryPointVec, DecorateVec, DecGroupVec, GroupDecVec, DefVec>>
vars == <<input, pos, round, tables, firstRead>>

EntryKinds == {"none", "forward", "group", "function", "other"}
EntryType == [kind : EntryKinds, name : Anns \cup {NoName},
              decs : SUBSET InstType, modes : SUBSET Anns]
Absent == [kind |-> "none", name |-> NoName, decs |-> {}, modes |-> {}]
NoEntries == [i \in Ids |-> Absent]

TypeOK ==
  /\ input \in Seq(InstType)
  /\ pos \in 1 .. (Len(input) + 1)
  /\ round \in {1, 2}
  /\ IdEntryMap \in [Ids -> EntryType]
  /\ NamedId \subseteq Ids
  /\ EntryPointVec \in Seq(InstType)
  /\ DecorateVec \in Seq(InstType)
  /\ DecGroupVec \in Seq([group : InstType, decs : Seq(InstType)])
  /\ GroupDecVec \in Seq(InstType)
  /\ DefVec \in Seq(InstType)
  /\ firstRead \in [entries : [Ids -> EntryType], named : SUBSET Ids]

Init ==
  /\ input \in Modules
  /\ pos = 1
  /\ round = 1
  /\ IdEntryMap = NoEntries
  /\ NamedId = {}
  /\ EntryPointVec = <<>>
  /\ DecorateVec = <<>>
  /\ DecGroupVec = <<>>
  /\ GroupDecVec = <<>>
  /\ DefVec = <<>>
  /\ firstRead = [entries |-> NoEntries, named |-> {}]

-----------------------------------------------------------------------------
Inst == input[pos]
At(ops) == pos \in 1 .. Len(input) /\ Inst.op \in ops

Advance == pos' = pos + 1 /\ UNCHANGED <<input, round, firstRead>>

(* getOrCreateTarget, getOrCreate: the entry of an id, or a new forward. *)
GetOrCreate(id) ==
  IF IdEntryMap[id].kind = "none" THEN [Absent EXCEPT !.kind = "forward"] ELSE IdEntryMap[id]

(* assert "Annotations only allowed on forward". *)
OnForward == IdEntryMap[Inst.id].kind \in {"none", "forward"}

(* SPIRVName::decode, SPIRVEntryPoint::decode: setName of the module. *)
SetName ==
  /\ OnForward
  /\ IdEntryMap' = [IdEntryMap EXCEPT ![Inst.id] = [GetOrCreate(Inst.id) EXCEPT !.name = Inst.ann]]
  /\ NamedId' = NamedId \cup {Inst.id}

DecodeName ==
  /\ At({"Name"})
  /\ SetName
  /\ Advance
  /\ UNCHANGED <<EntryPointVec, DecorateVec, DecGroupVec, GroupDecVec, DefVec>>

DecodeEntryPoint ==
  /\ At({"EntryPoint"})
  /\ SetName
  /\ EntryPointVec' = Append(EntryPointVec, Inst)
  /\ Advance
  /\ UNCHANGED <<DecorateVec, DecGroupVec, GroupDecVec, DefVec>>

DecodeExecutionMode ==
  /\ At({"Mode"})
  /\ OnForward
  /\ IdEntryMap' = [IdEntryMap EXCEPT ![Inst.id] =
                      [GetOrCreate(Inst.id) EXCEPT !.modes = @ \cup {Inst.ann}]]
  /\ Advance
  /\ UNCHANGED <<NamedId, EntryPointVec, DecorateVec, DecGroupVec, GroupDecVec, DefVec>>

(***************************************************************************)
(* addDecorate and addMemberDecorate of an entry, for decs in this order:  *)
(* a linkage decoration names the entry (and leaves NamedId alone).        *)
(***************************************************************************)
Decorated(entry, decs) ==
  LET linkages == {k \in 1 .. Len(decs) : decs[k].op = "Linkage"}
  IN  [entry EXCEPT !.decs = @ \cup ToSet(decs),
                    !.name = IF linkages = {} THEN @ ELSE decs[Max(linkages)].ann]

DecodeDecorate ==
  /\ At(Decorations)
  /\ OnForward
  /\ IdEntryMap' = [IdEntryMap EXCEPT ![Inst.id] = Decorated(GetOrCreate(Inst.id), <<Inst>>)]
  /\ DecorateVec' = Append(DecorateVec, Inst)
  /\ Advance
  /\ UNCHANGED <<NamedId, EntryPointVec, DecGroupVec, GroupDecVec, DefVec>>

(* Mutant: the decorations of the forward are not moved. *)
DefinedMovesNoDecs(entry, kind) ==
  [entry EXCEPT !.kind = kind, !.decs = {}, !.modes = IF kind = "function" THEN @ ELSE {}]

(* replaceForward with takeAnnotations; only a function has modes. *)
Defined(entry, kind) ==
  [entry EXCEPT !.kind = kind, !.modes = IF kind = "function" THEN @ ELSE {}]

(* takeAnnotations: setName of the module with the name of the forward. *)
TakeName(id) ==
  NamedId' = CASE IdEntryMap[id].kind # "forward" -> NamedId
               [] IdEntryMap[id].kind = "forward" /\ IdEntryMap[id].name = NoName -> NamedId \ {id}
               [] OTHER -> NamedId \cup {id}

Define(kind) ==
  /\ IdEntryMap[Inst.id].kind \in {"none", "forward"}
  /\ IdEntryMap' = [IdEntryMap EXCEPT ![Inst.id] = Defined(@, kind)]
  /\ TakeName(Inst.id)
  /\ Advance

DecodeDef ==
  /\ At({"Def"})
  /\ Define("other")
  /\ DefVec' = Append(DefVec, Inst)
  /\ UNCHANGED <<EntryPointVec, DecorateVec, DecGroupVec, GroupDecVec>>

DecodeFunction ==
  /\ At({"Function"})
  /\ Define("function")
  /\ DefVec' = Append(DefVec, Inst)
  /\ UNCHANGED <<EntryPointVec, DecorateVec, DecGroupVec, GroupDecVec>>

(* addDecorationGroup: the group takes all of DecorateVec. *)
DecodeGroup ==
  /\ At({"Group"})
  /\ Define("group")
  /\ DecGroupVec' = Append(DecGroupVec, [group |-> Inst, decs |-> DecorateVec])
  /\ DecorateVec' = <<>>
  /\ UNCHANGED <<EntryPointVec, GroupDecVec, DefVec>>

GroupDecorations(id) ==
  LET k == CHOOSE k \in 1 .. Len(DecGroupVec) : DecGroupVec[k].group.id = id
  IN  DecGroupVec[k].decs

(* Mutant: what the group owns goes back to DecorateVec for each use. *)
DecodeGroupDecorateAgain ==
  /\ At({"GroupDecorate"})
  /\ IdEntryMap[Inst.id].kind = "group"
  /\ IdEntryMap' = [i \in Ids |-> IF i \in Inst.targets
                                    THEN Decorated(GetOrCreate(i), GroupDecorations(Inst.id))
                                    ELSE IdEntryMap[i]]
  /\ GroupDecVec' = Append(GroupDecVec, Inst)
  /\ DecorateVec' = DecorateVec \o GroupDecorations(Inst.id)
  /\ Advance
  /\ UNCHANGED <<NamedId, EntryPointVec, DecGroupVec, DefVec>>

(***************************************************************************)
(* decorateTargets: addDecorate for every target; what the group owns does *)
(* not go back to DecorateVec.                                             *)
(***************************************************************************)
DecodeGroupDecorate ==
  /\ At({"GroupDecorate"})
  /\ IdEntryMap[Inst.id].kind = "group"
  /\ IdEntryMap' = [i \in Ids |-> IF i \in Inst.targets
                                    THEN Decorated(GetOrCreate(i), GroupDecorations(Inst.id))
                                    ELSE IdEntryMap[i]]
  /\ GroupDecVec' = Append(GroupDecVec, Inst)
  /\ Advance
  /\ UNCHANGED <<NamedId, EntryPointVec, DecorateVec, DecGroupVec, DefVec>>

-----------------------------------------------------------------------------
(***************************************************************************)
(* operator<<: entry points, the modes of their functions, the names of    *)
(* NamedId that are not entry points', the groups (each behind what it     *)
(* owns), DecorateVec, GroupDecVec, and the definitions.                   *)
(***************************************************************************)
Annotation(op, id, ann) == [op |-> op, id |-> id, ann |-> ann, targets |-> {}]

WrittenModes ==
  FlattenSeq([k \in 1 .. Len(EntryPointVec) |->
    LET f == EntryPointVec[k].id
    IN  SetToSeq({Annotation("Mode", f, a) : a \in IdEntryMap[f].modes})])

EntryPointIds == {EntryPointVec[k].id : k \in 1 .. Len(EntryPointVec)}

WrittenNames ==
  SetToSeq({Annotation("Name", i, IdEntryMap[i].name) : i \in NamedId \ EntryPointIds})

WrittenGroups ==
  FlattenSeq([k \in 1 .. Len(DecGroupVec) |-> Append(DecGroupVec[k].decs, DecGroupVec[k].group)])

(* Mutant: DecorateVec is written before the groups. *)
WrittenDecoratesFirst ==
  EntryPointVec \o WrittenModes \o WrittenNames \o DecorateVec
    \o WrittenGroups \o GroupDecVec \o DefVec

Written ==
  EntryPointVec \o WrittenModes \o WrittenNames \o WrittenGroups
    \o DecorateVec \o GroupDecVec \o DefVec

WriteAndReread ==
  /\ round = 1
  /\ pos = Len(input) + 1
  /\ firstRead' = [entries |-> IdEntryMap, named |-> NamedId]
  /\ input' = Written
  /\ pos' = 1
  /\ round' = 2
  /\ IdEntryMap' = NoEntries
  /\ NamedId' = {}
  /\ EntryPointVec' = <<>>
  /\ DecorateVec' = <<>>
  /\ DecGroupVec' = <<>>
  /\ GroupDecVec' = <<>>
  /\ DefVec' = <<>>

ReadOnce == round = 1 /\ pos = Len(input) + 1
ReadTwice == round = 2 /\ pos = Len(input) + 1

Finished == ReadTwice /\ UNCHANGED vars

Next ==
  \/ DecodeName \/ DecodeEntryPoint \/ DecodeExecutionMode
  \/ DecodeDecorate \/ DecodeGroup \/ DecodeGroupDecorate
  \/ DecodeDef \/ DecodeFunction
  \/ WriteAndReread
  \/ Finished

Spec == Init /\ [][Next]_vars

-----------------------------------------------------------------------------
(***************************************************************************)
(* What the instructions read so far say about an id.                      *)
(***************************************************************************)
Read == 1 .. (pos - 1)
Direct(id) == {input[i] : i \in {k \in Read : input[k].op \in Decorations /\ input[k].id = id}}
GroupsOn(id) == {input[i].id : i \in {k \in Read : input[k].op = "GroupDecorate" /\ id \in input[k].targets}}
Declared(id) == Direct(id) \cup UNION {Direct(g) : g \in GroupsOn(id)}

(***************************************************************************)
(* Every group directly follows its own decorations, as the producers of   *)
(* SPIR-V write them: "The first decoration group includes all the         *)
(* previously defined decorates".                                          *)
(***************************************************************************)
OwnGroups(m) ==
  \A i \in 1 .. Len(m) : m[i].op = "Group" =>
    \A j \in 1 .. (i - 1) : m[j].op \in Decorations =>
      \/ m[j].id = m[i].id
      \/ \E k \in j .. (i - 1) : m[k].op = "Group"

(***************************************************************************)
(* Each id has, at every moment of both readings, exactly the decorations  *)
(* that were declared for it, directly or through a group, before or after *)
(* its forward was replaced; none is lost and none belongs to another id.  *)
(* A defined entry has the last name given to its id, by OpName,           *)
(* OpEntryPoint or linkage, and operator<< will find it in NamedId exactly *)
(* when it has one.                                                        *)
(***************************************************************************)
Naming(id) == {k \in Read : input[k].op \in {"Name", "EntryPoint", "Linkage"} /\ input[k].id = id}

NamedAsRead(id) ==
  IF Naming(id) = {}
    THEN IdEntryMap[id].name = NoName /\ id \notin NamedId
    ELSE /\ id \in NamedId
         /\ \E k \in Naming(id) : IdEntryMap[id].name = input[k].ann /\ \A j \in Naming(id) : j <= k

AnnotationsArrive ==
  OwnGroups(input) => \A i \in Ids :
    /\ IdEntryMap[i].decs = Declared(i)
    /\ IdEntryMap[i].kind \notin {"none", "forward"} => NamedAsRead(i)

(***************************************************************************)
(* What is written reads back as it was read first, although operator<<    *)
(* regroups the annotations: groups first, then DecorateVec, then          *)
(* GroupDecVec, also when a group took decorations of other ids.           *)
(***************************************************************************)
NoLinkageInGroups(m) ==
  \A i, j \in 1 .. Len(m) : m[i].op = "Linkage" /\ m[j].op = "Group" => j < i

RewriteStable ==
  ReadTwice /\ NoLinkageInGroups(input) =>
    firstRead = [entries |-> IdEntryMap, named |-> NamedId]

(***************************************************************************)
(* operator<< writes every decoration once, however often a group with it  *)
(* is applied: a decoration that has an owner is written with the owner.   *)
(***************************************************************************)
Occurrences(m, d) == Cardinality({k \in 1 .. Len(m) : m[k] = d})

WritesOnce ==
  ReadOnce => \A d \in {x \in ToSet(input) : x.op \in Decorations} :
                Occurrences(Written, d) = Occurrences(input, d)

=============================================================================
