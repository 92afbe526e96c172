---------------------------- MODULE LoopControls ----------------------------
(* Loop hints on their way through SPIR-V.  The writer meets the blocks of a *)
(* function in layout order: access chains note which array belongs to which *)
(* index group, a latch turns its !llvm.loop nodes into a mask and a list of *)
(* literal words on a merge instruction placed in the header.  The reader    *)
(* goes over the loops, outermost first, and turns mask and words back into  *)
(* nodes.  Nothing in the words says which bit a word belongs to: writer and *)
(* reader agree only by the order of the bits.                               *)
EXTENDS Integers, SequencesExt

CONSTANTS Programs,   \* the functions translated, see ProgramOK
          WordMod     \* 2 ^ (bits of a SPIR-V word)

(* A program is [v14, fpga, unstructured: what the target allows,            *)
(*  layout: the blocks [bb, geps, br, to, nodes] in function order,          *)
(*  loops: headers in preorder, blocks[h]: the blocks of loop h,             *)
(*  array[g], groups[g]: the array an access chain g addresses and the index *)
(*  groups it is marked into, field[a]: the memory the array pointer a names]*)
ProgramOK(p) ==
  /\ \A i \in DOMAIN p.layout :
       LET b == p.layout[i]
       IN  /\ b.br \in {"cond", "uncond", "return"}
           /\ Len(b.to) = CASE b.br = "cond" -> 2 [] b.br = "uncond" -> 1
                            [] OTHER -> 0
           /\ \A g \in Range(b.geps) : g \in DOMAIN p.array
  /\ DOMAIN p.array = DOMAIN p.groups
  /\ Range(p.loops) = DOMAIN p.blocks

ASSUME ProgramsAssumption ==
  /\ WordMod \in Nat \ {0, 1}
  /\ \A p \in Programs : ProgramOK(p)

VARIABLES
  prog,      \* the function being translated
  phase,     \* "write" | "node" | "read" | "bit" | "done"
  at,        \* next block (writer), next loop (reader)
  sub,       \* next access chain, node or bit
  ctl,       \* the locals of getLoopControl
  arraysOf,  \* IndexGroupArrayMap: index group -> arrays
  spv,       \* instructions of each SPIR-V block
  caps,      \* capabilities the module declares
  rd,        \* the locals of setLLVMLoopMetadata
  md,        \* !llvm.loop nodes the reader attached, by header
  groupsOf   \* llvm.index.group the reader put on each access chain

vars == <<prog, phase, at, sub, ctl, arraysOf, spv, caps, rd, md, groupsOf>>

-----------------------------------------------------------------------------
(* The bits of a loop control mask, smallest first.                          *)
Bits == << "Unroll", "DontUnroll", "DependencyInfinite", "DependencyLength",
           "MinIterations", "MaxIterations", "IterationMultiple", "PeelCount",
           "PartialCount", "InitiationInterval", "MaxConcurrency",
           "DependencyArray", "PipelineEnable", "LoopCoalesce",
           "MaxInterleaving", "SpeculatedIterations", "NoFusion", "LoopCount",
           "MaxReinvocationDelay" >>

(* Nodes whose operand becomes the one word of a bit, in both directions.    *)
CountBit ==
  [n \in {"ii.count", "max_concurrency.count", "pipelining.enable",
          "max_interleaving.count", "speculated.iterations.count",
          "max_reinvocation_delay.count"} |->
     CASE n = "ii.count" -> "InitiationInterval"
       [] n = "max_concurrency.count" -> "MaxConcurrency"
       [] n = "pipelining.enable" -> "PipelineEnable"
       [] n = "max_interleaving.count" -> "MaxInterleaving"
       [] n = "speculated.iterations.count" -> "SpeculatedIterations"
       [] OTHER -> "MaxReinvocationDelay"]

CountNames == <<"loopcount_min", "loopcount_max", "loopcount_avg">>

FPGABits == {"InitiationInterval", "MaxConcurrency", "DependencyArray",
             "PipelineEnable", "LoopCoalesce", "MaxInterleaving",
             "SpeculatedIterations", "NoFusion", "LoopCount",
             "MaxReinvocationDelay"}

(* A node is a name with at most one number; parallel_access_indices lists   *)
(* index groups and keeps the safe length as its number.                     *)
Node(name, val) == [name |-> name, val |-> val, groups |-> {}]
Parallel(groups, val) ==
  [name |-> "parallel_access_indices", val |-> val, groups |-> groups]

-----------------------------------------------------------------------------
(* The writer.                                                               *)
Flag(c, bit) == [c EXCEPT !.mask = @ \cup {bit}]
Push(c, bit, n) ==
  [Flag(c, bit) EXCEPT !.params = Append(@, <<bit, n % WordMod>>)]

NoControl ==
  [mask |-> {}, params |-> <<>>, deps |-> <<>>, fpga |-> FALSE,
   count |-> [n \in Range(CountNames) |-> WordMod * WordMod - 1]]

(* The <array, safe length> pairs of one parallel_access_indices node; an    *)
(* index group no access chain was met for contributes nothing.              *)
LLVMParallelAccessIndices(n) ==
  LET arrays == UNION {arraysOf[g] : g \in n.groups \cap DOMAIN arraysOf}
      order  == SetToSeq(arrays)
  IN  [i \in 1..Len(order) |-> <<order[i], n.val>>]

(* One turn of the loop over the operands of !llvm.loop.                     *)
UnrollNode(c, n) ==
  CASE n.name = "unroll.disable" -> Flag(c, "DontUnroll")
    [] n.name = "unroll.enable"  -> Flag(c, "Unroll")
    [] n.name = "unroll.full"    -> IF prog.v14
                                      THEN Push(Flag(c, "Unroll"), "PartialCount", 1)
                                      ELSE Flag(c, "Unroll")
    [] OTHER                     -> IF prog.v14 /\ "DontUnroll" \notin c.mask
                                      THEN Push(c, "PartialCount", n.val)
                                      ELSE c

FPGANode(c, n) ==
  LET d == [c EXCEPT !.fpga = TRUE]
  IN  CASE n.name = "parallel_access_indices" ->
             [c EXCEPT !.deps = @ \o LLVMParallelAccessIndices(n)]
        [] n.name \in Range(CountNames) ->
             [Flag(d, "LoopCount") EXCEPT !.count[n.name] = n.val]
        [] n.name = "coalesce.enable" -> Push(d, "LoopCoalesce", 0)
        [] n.name = "coalesce.count"  -> Push(d, "LoopCoalesce", n.val)
        [] n.name = "fusion.disable"  -> Flag(d, "NoFusion")
        [] OTHER                      -> Push(d, CountBit[n.name], n.val)

ControlNode(c, n) ==
  CASE n.name \in {"unroll.disable", "unroll.enable", "unroll.full",
                   "unroll.count"} -> UnrollNode(c, n)
    [] n.name = "ivdep.enable"     -> Flag(c, "DependencyInfinite")
    [] n.name = "ivdep.safelen"    -> Push(c, "DependencyLength", n.val)
    [] prog.fpga /\ n.name \notin {"ivdep.enable", "ivdep.safelen"} ->
         FPGANode(c, n)
    [] OTHER -> c

(* The words held back until all nodes are seen, then all words in the order *)
(* of their bits: a stable sort.                                             *)
Late(c) ==
  LET words(v) == << <<"LoopCount", v % WordMod>>,
                     <<"LoopCount", v \div WordMod>> >>
      counts == FlattenSeq([i \in 1..3 |-> words(c.count[CountNames[i]])])
      pairs  == FlattenSeq([i \in 1..Len(c.deps) |->
                  << <<"DependencyArray", c.deps[i][1]>>,
                     <<"DependencyArray", c.deps[i][2]>> >>])
      l == IF "LoopCount" \in c.mask
             THEN [c EXCEPT !.params = @ \o counts] ELSE c
  IN  IF c.deps = <<>> THEN l
      ELSE [Flag(l, "DependencyArray") EXCEPT !.fpga = TRUE,
              !.params = @ \o << <<"DependencyArray", Len(c.deps)>> >> \o pairs]

\* Mutant: the words in the order of the metadata, not of the bits.
UnsortedWords(params) == [i \in 1..Len(params) |-> params[i][2]]
SortedWords(params) ==
  LET of(bit) == SelectSeq(params, LAMBDA p : p[1] = bit)
      sorted  == FlattenSeq([i \in 1..Len(Bits) |-> of(Bits[i])])
  IN  [i \in 1..Len(sorted) |-> sorted[i][2]]

Inst(op, mask, words, to) ==
  [op |-> op, mask |-> mask, words |-> words, to |-> to]
Branches == {"Branch", "BranchConditional"}
Merges   == {"LoopMerge", "LoopControlINTEL"}
Terminator(insts) ==
  IF insts # <<>> /\ Last(insts).op \in Branches \cup {"Return"}
    THEN Last(insts).op ELSE "none"

(* SPIRVModuleImpl::addLoopMergeInst and addLoopControlINTELInst: before the *)
(* branch when the block has one, and before a merge already there.          *)
AddMerge(insts, inst) ==
  IF Terminator(insts) \notin Branches THEN Append(insts, inst)
  ELSE LET body == Front(insts)
           pos  == IF body # <<>> /\ Last(body).op \in Merges
                     THEN Len(insts) - 1 ELSE Len(insts)
       IN  InsertAt(insts, pos, inst)

Innermost(p, bb) ==
  {h \in DOMAIN p.blocks :
     /\ bb \in p.blocks[h]
     /\ \A k \in DOMAIN p.blocks : bb \in p.blocks[k] => p.blocks[h] \subseteq p.blocks[k]}

(* Where the controls of a conditional latch go: to the header of the        *)
(* innermost loop of the block, when the branch goes there.                  *)
CondTarget(b) ==
  LET h == Innermost(prog, b.bb)
  IN  IF b.to[2] \in h THEN {b.to[2]} ELSE {b.to[1]} \cap h

(* An unconditional latch looks at the terminator the header has got so far. *)
UncondMerge(b, inst) ==
  LET h == b.to[1]
  IN  IF Terminator(spv[h]) = "BranchConditional"
        THEN [spv EXCEPT ![h] = AddMerge(@, inst)]
      ELSE IF prog.unstructured
        THEN [spv EXCEPT ![h] = AddMerge(@, [inst EXCEPT !.op = "LoopControlINTEL"])]
      ELSE spv

Controlled(b, inst) ==
  CASE inst.mask = {} -> spv
    [] b.br = "uncond" -> UncondMerge(b, inst)
    [] OTHER -> [h \in DOMAIN spv |-> IF h \in CondTarget(b)
                                        THEN AddMerge(spv[h], inst) ELSE spv[h]]

BranchOf(b) ==
  Inst(CASE b.br = "return" -> "Return"
         [] b.br = "cond" /\ b.to[1] # b.to[2] -> "BranchConditional"
         [] OTHER -> "Branch", {}, <<>>, b.to)

Block == prog.layout[at]
NextBlock ==
  /\ at' = IF at = Len(prog.layout) THEN 1 ELSE at + 1
  /\ phase' = IF at = Len(prog.layout) THEN "read" ELSE "write"
  /\ sub' = 1

Init ==
  /\ prog \in Programs
  /\ phase = "write" /\ at = 1 /\ sub = 1
  /\ ctl = NoControl /\ arraysOf = [g \in {} |-> {}] /\ caps = {}
  /\ spv = [bb \in {prog.layout[i].bb : i \in DOMAIN prog.layout} |-> <<>>]
  /\ rd = [num |-> 0, out |-> <<>>, short |-> FALSE]
  /\ md = [h \in {} |-> <<>>]
  /\ groupsOf = [g \in DOMAIN prog.array |-> <<>>]

(* An access chain: the array it addresses joins each group it is marked in. *)
WriteChain ==
  /\ phase = "write" /\ sub <= Len(Block.geps)
  /\ LET g == Block.geps[sub]
         old(k) == IF k \in DOMAIN arraysOf THEN arraysOf[k] ELSE {}
     IN  /\ arraysOf' = [k \in DOMAIN arraysOf \cup prog.groups[g] |->
                           IF k \in prog.groups[g] THEN old(k) \cup {prog.array[g]}
                           ELSE old(k)]
         /\ spv' = [spv EXCEPT ![Block.bb] =
                      Append(@, Inst("PtrAccessChain", {}, <<>>, <<g>>))]
  /\ sub' = sub + 1
  /\ UNCHANGED <<prog, phase, at, ctl, caps, rd, md, groupsOf>>

(* A terminator without loop metadata.                                       *)
WriteBranch ==
  /\ phase = "write" /\ sub > Len(Block.geps) /\ Block.nodes = <<>>
  /\ spv' = [spv EXCEPT ![Block.bb] = Append(@, BranchOf(Block))]
  /\ NextBlock
  /\ UNCHANGED <<prog, ctl, arraysOf, caps, rd, md, groupsOf>>

OpenControl ==
  /\ phase = "write" /\ sub > Len(Block.geps) /\ Block.nodes # <<>>
  /\ phase' = "node" /\ sub' = 1 /\ ctl' = NoControl
  /\ UNCHANGED <<prog, at, arraysOf, spv, caps, rd, md, groupsOf>>

WriteNode ==
  /\ phase = "node" /\ sub <= Len(Block.nodes)
  /\ ctl' = ControlNode(ctl, Block.nodes[sub])
  /\ caps' = IF ctl'.fpga THEN caps \cup {"FPGALoopControlsINTEL"} ELSE caps
  /\ sub' = sub + 1
  /\ UNCHANGED <<prog, phase, at, arraysOf, spv, rd, md, groupsOf>>

(* The end of getLoopControl, the merge instruction and the branch.          *)
WriteControl ==
  /\ phase = "node" /\ sub > Len(Block.nodes)
  /\ LET c    == Late(ctl)
         inst == Inst("LoopMerge", c.mask, SortedWords(c.params), <<>>)
         s    == Controlled(Block, inst)
     IN  /\ spv' = [s EXCEPT ![Block.bb] = Append(@, BranchOf(Block))]
         /\ caps' = caps
              \cup (IF c.fpga THEN {"FPGALoopControlsINTEL"} ELSE {})
              \cup (IF \E h \in DOMAIN s : \E i \in DOMAIN s[h] :
                         s[h][i].op = "LoopControlINTEL"
                      THEN {"UnstructuredLoopControlsINTEL"} ELSE {})
         /\ ctl' = c
  /\ NextBlock
  /\ UNCHANGED <<prog, arraysOf, rd, md, groupsOf>>

-----------------------------------------------------------------------------
(* The reader.  FuncLoopMetadataMap keeps the last merge of a header block.  *)
Loop == prog.loops[at]
MergeOf(h) == SelectSeq(spv[h], LAMBDA i : i.op \in Merges)
Control(h) == Last(MergeOf(h))

Word(r, h, k) ==
  IF r.num + k <= Len(Control(h).words) THEN Control(h).words[r.num + k] ELSE 0
Taken(r, h, k) ==
  [r EXCEPT !.num = @ + k, !.short = @ \/ r.num + k > Len(Control(h).words)]
Out(r, node) == [r EXCEPT !.out = Append(@, node)]
Has(h, bit) == bit \in Control(h).mask

(* Bits that only add a node, bits that skip a word, and bits whose word is  *)
(* the operand of a node.                                                    *)
ReadUnroll(r, h) ==
  IF Has(h, "Unroll") /\ ~Has(h, "PartialCount")
    THEN Out(r, Node("unroll.enable", 0))
  ELSE IF Has(h, "DontUnroll") THEN Out(r, Node("unroll.disable", 0)) ELSE r

ReadPartialCount(r, h) ==
  IF Has(h, "DontUnroll") THEN r
  ELSE IF Word(r, h, 1) = 1 /\ Has(h, "Unroll")
    THEN Out(Taken(r, h, 1), Node("unroll.full", 0))
  ELSE Out(Taken(r, h, 1), Node("unroll.count", Word(r, h, 1)))

ReadCoalesce(r, h) ==
  LET w == Word(r, h, 1)
  IN  Out(Taken(r, h, 1), IF w = 0 THEN Node("coalesce.enable", 0)
                          ELSE Node("coalesce.count", w))

ReadLoopCount(r, h) ==
  LET value(i) == Word(r, h, 2 * i - 1) + WordMod * Word(r, h, 2 * i)
      kept == SelectSeq(<<1, 2, 3>>, LAMBDA i : 2 * value(i) < WordMod * WordMod)
  IN  [Taken(r, h, 6) EXCEPT
         !.out = @ \o [i \in 1..Len(kept) |->
                        Node(CountNames[kept[i]], value(kept[i]))]]

(* <array, safe length> pairs; the first pair of an array stands.            *)
SafeLengths(r, h) ==
  LET n     == Word(r, h, 1)
      pair(i) == <<Word(r, h, 2 * i), Word(r, h, 2 * i + 1)>>
      first(i) == \A j \in 1..(i - 1) : pair(j)[1] # pair(i)[1]
  IN  {pair(i) : i \in {i \in 1..n : first(i)}}

(* Every array with an access chain in the loop gets an index group of its   *)
(* own, the pointers to one closure field share theirs.                      *)
Accessed(h) ==
  {g \in DOMAIN prog.array : \E i \in DOMAIN prog.layout :
     prog.layout[i].bb \in prog.blocks[h] /\ g \in Range(prog.layout[i].geps)}
GroupFor(h, a) == <<h, prog.field[a]>>

\* Mutant: the word with the number of pairs is not consumed.
ReadDependencyArrayShort(r, h) == Taken(r, h, 2 * Word(r, h, 1))
ReadDependencyArray(r, h) ==
  LET pairs == {p \in SafeLengths(r, h) :
                  \E g \in Accessed(h) : prog.array[g] = p[1]}
      lens  == SetToSortSeq({p[2] : p \in pairs}, <)
      node(l) == Parallel({GroupFor(h, p[1]) : p \in {q \in pairs : q[2] = l}}, l)
  IN  [Taken(r, h, 1 + 2 * Word(r, h, 1)) EXCEPT
         !.out = @ \o [i \in 1..Len(lens) |-> node(lens[i])]]

\* Mutant: the groups of the outer loops are replaced.
ReplaceGroups(h) ==
  [g \in DOMAIN groupsOf |->
     IF g \in Accessed(h) /\ prog.array[g] \in {p[1] : p \in SafeLengths(rd, h)}
       THEN <<GroupFor(h, prog.array[g])>> ELSE groupsOf[g]]
(* An access chain keeps the groups of the outer loops, in a joined node.    *)
JoinGroups(h) ==
  LET named == {p[1] : p \in SafeLengths(rd, h)}
  IN  [g \in DOMAIN groupsOf |->
         IF g \in Accessed(h) /\ prog.array[g] \in named
           THEN Append(groupsOf[g], GroupFor(h, prog.array[g])) ELSE groupsOf[g]]

NodeOf(bit) == CHOOSE n \in DOMAIN CountBit : CountBit[n] = bit
ReadBitOf(r, h, bit) ==
  CASE bit = "Unroll"             -> ReadUnroll(r, h)
    [] ~Has(h, bit)               -> r
    [] bit = "DontUnroll"         -> r
    [] bit = "DependencyInfinite" -> Out(r, Node("ivdep.enable", 0))
    [] bit = "DependencyLength"   ->
         Out(Taken(r, h, 1), Node("ivdep.safelen", Word(r, h, 1)))
    [] bit \in {"MinIterations", "MaxIterations", "IterationMultiple",
                "PeelCount"}      -> Taken(r, h, 1)
    [] bit = "PartialCount"       -> ReadPartialCount(r, h)
    [] bit = "DependencyArray"    -> ReadDependencyArray(r, h)
    [] bit = "LoopCoalesce"       -> ReadCoalesce(r, h)
    [] bit = "NoFusion"           -> Out(r, Node("fusion.disable", 0))
    [] bit = "LoopCount"          -> ReadLoopCount(r, h)
    [] OTHER -> Out(Taken(r, h, 1), Node(NodeOf(bit), Word(r, h, 1)))

NextLoop == phase' = "read" /\ at' = at + 1 /\ sub' = 1

(* A loop whose header carries no controls keeps no loop id.                 *)
SkipLoop ==
  /\ phase = "read" /\ at <= Len(prog.loops) /\ MergeOf(Loop) = <<>>
  /\ NextLoop
  /\ UNCHANGED <<prog, ctl, arraysOf, spv, caps, rd, md, groupsOf>>

OpenLoop ==
  /\ phase = "read" /\ at <= Len(prog.loops) /\ MergeOf(Loop) # <<>>
  /\ phase' = "bit" /\ sub' = 1
  /\ rd' = [num |-> 0, out |-> <<>>, short |-> FALSE]
  /\ UNCHANGED <<prog, at, ctl, arraysOf, spv, caps, md, groupsOf>>

ReadBit ==
  /\ phase = "bit" /\ sub <= Len(Bits)
  /\ rd' = ReadBitOf(rd, Loop, Bits[sub])
  /\ groupsOf' = IF Bits[sub] = "DependencyArray" /\ Has(Loop, Bits[sub])
                   THEN JoinGroups(Loop) ELSE groupsOf
  /\ sub' = sub + 1
  /\ UNCHANGED <<prog, phase, at, ctl, arraysOf, spv, caps, md>>

CloseLoop ==
  /\ phase = "bit" /\ sub > Len(Bits)
  /\ md' = [h \in DOMAIN md \cup {Loop} |-> IF h = Loop THEN rd.out ELSE md[h]]
  /\ NextLoop
  /\ UNCHANGED <<prog, ctl, arraysOf, spv, caps, rd, groupsOf>>

Finish ==
  /\ phase = "read" /\ at > Len(prog.loops)
  /\ phase' = "done"
  /\ UNCHANGED <<prog, at, sub, ctl, arraysOf, spv, caps, rd, md, groupsOf>>

Done == phase = "done" /\ UNCHANGED vars

Next == \/ WriteChain \/ WriteBranch \/ OpenControl \/ WriteNode
        \/ WriteControl \/ SkipLoop \/ OpenLoop \/ ReadBit \/ CloseLoop
        \/ Finish \/ Done

Spec == Init /\ [][Next]_vars

-----------------------------------------------------------------------------
(* What the hints mean, read off the nodes alone.                            *)
LatchesOf(h) == {i \in DOMAIN prog.layout :
                   h \in Range(prog.layout[i].to) /\ prog.layout[i].nodes # <<>>
                   /\ prog.layout[i].bb \in prog.blocks[h]}

(* A while loop whose header is laid out before its latch, a loop that       *)
(* ends in a conditional latch, or any loop when unstructured controls may   *)
(* be used: the others have no place for their hints.                        *)
Placeable(h, i) ==
  LET b == prog.layout[i]
  IN  \/ b.br = "cond" \/ prog.unstructured
      \/ \E j \in 1..(i - 1) : prog.layout[j].bb = h /\ prog.layout[j].br = "cond"
                              /\ prog.layout[j].to[1] # prog.layout[j].to[2]

NeedsFPGA(n) == n.name \in DOMAIN CountBit \cup Range(CountNames)
                  \cup {"coalesce.enable", "coalesce.count", "fusion.disable"}

Scalars(nodes) == {n \in Range(nodes) : n.name # "parallel_access_indices"}

(* The hints of a loop that SPIR-V can express for this target.              *)
Meaning(nodes) ==
  LET has(name) == \E n \in Range(nodes) : n.name = name
      dropped(n) == \/ NeedsFPGA(n) /\ ~prog.fpga
                    \/ n.name = "unroll.count" /\ ~prog.v14
                    \/ n.name = "unroll.enable" /\ has("unroll.count") /\ prog.v14
                    \/ n.name \in Range(CountNames) /\ 2 * n.val >= WordMod * WordMod
      degraded(n) == IF n.name = "unroll.full" /\ ~prog.v14
                       THEN Node("unroll.enable", 0) ELSE n
  IN  {degraded(n) : n \in {k \in Scalars(nodes) : ~dropped(k)}}

(* The arrays of a loop with the safe length promised for each.              *)
Promised(h, i) ==
  {<<prog.array[gn[1]], gn[2].val>> :
     gn \in {q \in Accessed(h) \X Range(prog.layout[i].nodes) :
                     /\ q[2].name = "parallel_access_indices"
                     /\ prog.groups[q[1]] \cap q[2].groups # {}}}
ReadBack(h) ==
  {<<prog.array[gn[1]], gn[2].val>> :
     gn \in {q \in Accessed(h) \X Range(md[h]) :
                     /\ q[2].name = "parallel_access_indices"
                     /\ Range(groupsOf[q[1]]) \cap q[2].groups # {}}}

-----------------------------------------------------------------------------
(* The mask stays within the known bits, the cursors within their ranges.    *)
TypeOK ==
  /\ prog \in Programs
  /\ phase \in {"write", "node", "read", "bit", "done"}
  /\ at \in 1..(Len(prog.layout) + Len(prog.loops) + 1) /\ sub \in Nat \ {0}
  /\ ctl.mask \subseteq Range(Bits)
  /\ \A i \in DOMAIN ctl.params : ctl.params[i][1] \in ctl.mask
  /\ DOMAIN md \subseteq Range(prog.loops)

(* The loop instruction a module ends up with can be read.  A finished       *)
(* header holds one at most, immediately before its branch, whether the      *)
(* latch or the header was translated first; the capability for it is        *)
(* declared; and setLLVMLoopMetadata leaves it with every word consumed and  *)
(* none read past the end (the asserts "Missing loop control parameter!").   *)
MergeInPlace(h, k) == k = Len(spv[h]) - 1
ControlDeclared(i) ==
  /\ i.mask \cap FPGABits # {} => "FPGALoopControlsINTEL" \in caps
  /\ i.op = "LoopControlINTEL" => "UnstructuredLoopControlsINTEL" \in caps
ParametersInStep == ~rd.short /\ rd.num = Len(Control(Loop).words)
ControlReadable ==
  /\ phase = "read" =>
       \A h \in DOMAIN spv : \A k \in DOMAIN spv[h] :
         spv[h][k].op \in Merges => MergeInPlace(h, k) /\ ControlDeclared(spv[h][k])
  /\ phase = "bit" /\ sub > Len(Bits) => ParametersInStep

(* Every expressible hint of a loop comes back, with its number, and no      *)
(* other hint does, whatever the order of the nodes in the metadata.         *)
HintsArrive ==
  phase = "done" =>
    \A h \in Range(prog.loops) : \A i \in LatchesOf(h) :
      Placeable(h, i) =>
        (IF h \in DOMAIN md THEN Scalars(md[h]) ELSE {})
          = Meaning(prog.layout[i].nodes)

(* Each array of a loop comes back with the safe length promised for it in   *)
(* that loop, also when the access chain sits in a nested loop with promises *)
(* of its own.                                                               *)
DependencesArrive ==
  phase = "done" /\ prog.fpga =>
    \A h \in Range(prog.loops) : \A i \in LatchesOf(h) :
      Placeable(h, i) =>
        (IF h \in DOMAIN md THEN ReadBack(h) ELSE {}) = Promised(h, i)
=============================================================================
