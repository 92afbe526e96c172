---------------------------- MODULE KernelModes ----------------------------
(***************************************************************************)
(* The metadata and attributes of the functions of a module on their way   *)
(* from LLVM to SPIR-V and back: PreprocessMetadata lists execution modes, *)
(* the writer declares the functions, translates their bodies (which       *)
(* settles for which kernels floating point contraction must be off),      *)
(* then the OpenCL metadata and the listed modes; the reader turns modes,  *)
(* decorations, strings and auxiliary data back into metadata.  A module   *)
(* that was read may be written and read a second time.                    *)
(*                                                                         *)
(* A module is a record: funcs, nodes (!spirv.ExecutionMode), ctors        *)
(* (llvm.global_ctors), annots (llvm.global.annotations), fpContract       *)
(* (opencl.enable.FP_CONTRACT), floats (the widths of its float types),    *)
(* freeze (whether it has a freeze instruction).                           *)
(*                                                                         *)
(* Options o: ext, the extensions allowed (without SPV_INTEL_ or SPV_KHR_  *)
(* where that is clear), ver, the minor version allowed, contract, the     *)
(* mode of --spirv-fp-contract, argStrings, argNames and aux; again is     *)
(* TRUE if the module that was read is translated once more.               *)
(***************************************************************************)
EXTENDS KernelReader

CONSTANT Cases   \* the modules that are translated, each with options: [mod, opt]

\* What a body holds, and where the callee or the function referred to is.
Kinds == {"muladd", "asm", "indirect", "call", "ref"}

WellFormed(fs) ==
  /\ Len(fs) \in Nat \ {0}
  /\ \A i \in 1 .. Len(fs) :
       /\ fs[i].decl \in BOOLEAN
       /\ fs[i].body \in Seq([k : Kinds, g : 0 .. Len(fs)])
       /\ \A j \in 1 .. Len(fs[i].body) :
            fs[i].body[j].k = "call" => fs[i].body[j].g # 0
       /\ fs[i].decl => fs[i].body = <<>>

IsList(s) == Len(s) \in Nat /\ s = [j \in 1 .. Len(s) |-> s[j]]

\* The operands of !MaximumRegisters are names, ids or numbers.
Registers(md) ==
  Has(md, "MaximumRegisters") =>
    LET r == md["MaximumRegisters"]
    IN  IsList(r) /\ \A j \in 1 .. Len(r) : r[j].kind \in DOMAIN RegisterMode

FloatModes == {"SignedZeroInfNanPreserve", "DenormPreserve", "DenormFlushToZero",
               "RoundingModeRTE", "RoundingModeRTZ"}

\* The lists of a module; a node of a float mode lists the widths it is for.
ListsOK(m) ==
  /\ {"funcs", "nodes", "ctors", "floats"} \subseteq DOMAIN m
  /\ IsList(m.nodes) /\ IsList(m.ctors) /\ IsList(m.floats)
  /\ \A j \in 1 .. Len(m.nodes) : m.nodes[j].mode \in FloatModes => IsList(m.nodes[j].args)

\* Inline assembly is only translated where its extension is allowed.
AssemblyAllowed(f, o) ==
  "inline_assembly" \notin o.ext => \A j \in 1 .. Len(f.body) : f.body[j].k # "asm"

\* A module has functions; one that is only declared has no instructions, and a
\* direct call has a callee in the module.
ASSUME CasesAssumption ==
  \A c \in Cases :
    /\ ListsOK(c.mod) /\ WellFormed(c.mod.funcs)
    /\ \A i \in 1 .. Len(c.mod.funcs) :
         Registers(c.mod.funcs[i].md) /\ AssemblyAllowed(c.mod.funcs[i], c.opt)

VARIABLES opt,      \* the options of the run
          input,    \* the module of the first translation
          llvm,     \* the LLVM module that is being written
          spv,      \* the SPIR-V module
          out,      \* the LLVM module that is being read
          first,    \* the module that the first translation gave
          fpc,      \* FPContractMap
          queue,    \* functions that fpContractUpdateRecursive has to visit
          pc, at, it, round

vars == <<opt, input, llvm, spv, out, first, fpc, queue, pc, at, it, round>>

Funcs == 1 .. Len(llvm.funcs)

NoSPIRV ==
  [funcs |-> <<>>, strings |-> <<>>, aux |-> <<>>, caps |-> {}, exts |-> {},
   ver |-> 0, ctors |-> <<>>]

\* The mode of each extension that only allows or forbids it.
Gate ==
  [MaxWorkgroupSizeINTEL |-> "kernel_attributes",
   NoGlobalOffsetINTEL |-> "kernel_attributes",
   NumSIMDWorkitemsINTEL |-> "kernel_attributes",
   SchedulerTargetFmaxMhzINTEL |-> "kernel_attributes",
   MaxWorkDimINTEL |-> "kernel_attributes",
   RegisterMapInterfaceINTEL |-> "kernel_attributes",
   StreamingInterfaceINTEL |-> "kernel_attributes",
   SharedLocalMemorySizeINTEL |-> "vector_compute",
   NamedBarrierCountINTEL |-> "vector_compute",
   RoundingModeRTPINTEL |-> "INTEL_float_controls2",
   RoundingModeRTNINTEL |-> "INTEL_float_controls2",
   FloatingPointModeALTINTEL |-> "INTEL_float_controls2",
   FloatingPointModeIEEEINTEL |-> "INTEL_float_controls2",
   NamedSubgroupSizeINTEL |-> "subgroup_requirements",
   ArithmeticPoisonKHR |-> "poison_freeze"]

PlainModes == {"LocalSize", "LocalSizeHint", "VecTypeHint", "SubgroupSize",
               "SubgroupsPerWorkgroup"}

\* The capabilities that an execution mode requires or the writer adds with it.
ModeCaps(mode) ==
  CASE mode \in {"LocalSizeHint", "VecTypeHint", "ContractionOff"} -> {"Kernel"}
    [] mode = "SubgroupSize" -> {"SubgroupDispatch"}
    [] mode \in {"MaxWorkgroupSizeINTEL", "NoGlobalOffsetINTEL"} -> {"KernelAttributesINTEL"}
    [] mode \in {"NumSIMDWorkitemsINTEL", "SchedulerTargetFmaxMhzINTEL",
                 "MaxWorkDimINTEL", "StreamingInterfaceINTEL"} ->
         {"FPGAKernelAttributesINTEL"}
    [] mode = "RegisterMapInterfaceINTEL" ->
         {"FPGAKernelAttributesINTEL", "FPGAKernelAttributesv2INTEL"}
    [] mode \in {"SharedLocalMemorySizeINTEL", "NamedBarrierCountINTEL"} ->
         {"VectorComputeINTEL"}
    [] mode \in {"RoundingModeRTPINTEL", "RoundingModeRTNINTEL"} -> {"RoundToInfinityINTEL"}
    [] mode \in {"FloatingPointModeALTINTEL", "FloatingPointModeIEEEINTEL"} ->
         {"FloatingPointModeINTEL"}
    [] mode \in FloatModes -> {mode}
    [] mode = "FPFastMathDefault" -> {"FloatControls2"}
    [] mode = "NamedSubgroupSizeINTEL" -> {"SubgroupRequirementsINTEL"}
    [] mode \in {"MaximumRegistersINTEL", "MaximumRegistersIdINTEL",
                 "NamedMaximumRegistersINTEL"} -> {"RegisterLimitsINTEL"}
    [] mode = "ArithmeticPoisonKHR" -> {"PoisonFreezeKHR"}
    [] OTHER -> {}

\* addExecutionMode: the function's multimap keeps the order of one kind.
AddModes(s, f, modes) ==
  [s EXCEPT !.funcs[f].modes = @ \o modes,
            !.caps = @ \cup UNION {ModeCaps(m.mode) : m \in ToSet(modes)}]

(* Its assertion, SPV_KHR_float_controls and SPV_INTEL_float_controls2: a   *)
(* function has a mode once, and of the modes for one float width no two    *)
(* that contradict each other.                                              *)
Contradicting ==
  {{"DenormPreserve", "DenormFlushToZero"},
   {"RoundingModeRTE", "RoundingModeRTZ", "RoundingModeRTPINTEL", "RoundingModeRTNINTEL"},
   {"FloatingPointModeALTINTEL", "FloatingPointModeIEEEINTEL"}}

FloatControls == UNION Contradicting \cup {"SignedZeroInfNanPreserve", "FPFastMathDefault"}

IsCompatible(a, b) ==
  IF {a.mode, b.mode} \subseteq FloatControls
  THEN a.args[1] = b.args[1] => \A S \in Contradicting : ~({a.mode, b.mode} \subseteq S)
  ELSE a.mode # b.mode

\* Conjoined, primed, to the actions that add modes: with assertions the
\* translation goes no further than two modes that exclude each other.
ModesCompatible ==
  \A i \in DOMAIN spv.funcs :
    LET modes == spv.funcs[i].modes
    IN  \A j, k \in DOMAIN modes : j # k => IsCompatible(modes[j], modes[k])

AddMode(s, n) == AddModes(s, n.f, <<[mode |-> n.mode, args |-> n.args]>>)

FastMathModes(widths, flags) ==
  [j \in 1 .. Len(widths) |-> [mode |-> "FPFastMathDefault", args |-> <<widths[j], flags>>]]

-----------------------------------------------------------------------------
Init ==
  /\ \E c \in Cases : opt = c.opt /\ input = c.mod
  /\ llvm = input
  /\ spv = NoSPIRV
  /\ out = [input EXCEPT !.funcs = <<>>, !.nodes = <<>>, !.annots = <<>>]
  /\ first = out
  /\ fpc = [i \in Funcs |-> "UNDEF"]
  /\ queue = <<>>
  /\ pc = "preprocess" /\ at = 1 /\ it = 1 /\ round = 1

\* Go on with the next element of a list of n, or with the next phase.
Advance(n, phase) ==
  IF at < n THEN at' = at + 1 /\ pc' = pc ELSE at' = 1 /\ pc' = phase

Phase(phase) == pc' = phase /\ at' = 1

\* visit: first the metadata of vector compute and the constructors ...
PreprocessModule ==
  /\ pc = "preprocess"
  /\ LET vc == FlattenSeq([i \in Funcs |->
                 If(llvm.funcs[i].kernel,
                    preprocessVectorComputeMetadata(i, llvm.funcs[i]))])
     IN  llvm' = [llvm EXCEPT !.nodes = @ \o vc \o preprocessCXXStructorList(llvm.ctors)]
  /\ Phase("kernels")
  /\ UNCHANGED <<opt, input, spv, out, first, fpc, queue, it, round>>

\* ... then the metadata of each kernel.
PreprocessKernel ==
  /\ pc = "kernels"
  /\ llvm' = [llvm EXCEPT !.nodes = @ \o If(llvm.funcs[at].kernel,
                                            KernelNodes(at, llvm.funcs[at]))]
  /\ Advance(Len(llvm.funcs), "globals")
  /\ UNCHANGED <<opt, input, spv, out, first, fpc, queue, it, round>>

\* transGlobalVariables: the constructors are kept as a variable only if
\* functions can be pointed to.  A freeze is removed by the regularizer unless it
\* can be written, and then brings its capability.
TransGlobals ==
  /\ pc = "globals"
  /\ spv' = [NoSPIRV EXCEPT
               !.ctors = If("function_pointers" \in opt.ext, llvm.ctors),
               !.caps = IF llvm.freeze /\ "poison_freeze" \in opt.ext THEN {"PoisonFreezeKHR"} ELSE {}]
  /\ Phase("declare")
  /\ UNCHANGED <<opt, input, llvm, out, first, fpc, queue, it, round>>

AnnotationDecs(i) ==
  LET mine == SelectSeq(llvm.annots, LAMBDA a : a.f = i)
  IN  [j \in 1 .. Len(mine) |->
         [Dec("UserSemantic", <<>>) EXCEPT !.word = mine[j].word]]

TransFunctionDecl ==
  /\ pc = "declare"
  /\ LET f == llvm.funcs[at]
         bf == [name |-> f.name, kernel |-> f.kernel, decl |-> f.decl, avail |-> f.avail,
                body |-> f.body, fcm |-> ControlMask(opt, f), modes |-> <<>>,
                decs |-> AnnotationDecs(at) \o VectorComputeDecs(opt, f)
                           \o transFPGAFunctionMetadata(opt, f) \o UserSemanticDecs(f),
                params |-> [j \in 1 .. Len(f.params) |->
                              [name |-> f.params[j].name, kind |-> f.params[j].kind,
                               type |-> f.params[j].type, decs |-> ParamDecs(opt, f, j)]]]
         s == [spv EXCEPT !.funcs = Append(@, bf), !.aux = @ \o AuxData(opt, at, f)]
     IN  spv' = AddModes(s, at, RegisterModes(opt, f))
  /\ ModesCompatible'
  /\ Advance(Len(llvm.funcs), "bodies")
  /\ it' = 1
  /\ UNCHANGED <<opt, input, llvm, out, first, fpc, queue, round>>

-----------------------------------------------------------------------------
(* Floating point contraction.                                             *)

\* Mutant: what was seen last counts.
JoinLast(old, new) == IF new = "UNDEF" THEN old ELSE new

\* joinFPContract: UNDEF, then ENABLED, then DISABLED, never back.
Join(old, new) ==
  IF old = "UNDEF" \/ (old = "ENABLED" /\ new = "DISABLED") THEN new ELSE old

Users(g) == {i \in Funcs : \E x \in ToSet(llvm.funcs[i].body) : x.g = g}

Body == llvm.funcs[at].body

\* transCallInst: calls of which it is not known what they run.
Opaque == {"asm", "indirect"}

\* What the instruction at it says about the function it is in.
Seen ==
  LET x == Body[it]
  IN  CASE x.k \in {"muladd"} \cup Opaque -> "DISABLED"
        [] x.k = "call" -> IF llvm.funcs[x.g].decl THEN "DISABLED" ELSE fpc[x.g]
        [] x.k = "ref" -> "UNDEF"

\* transBinaryInst, transCallInst and transDirectCallInst.
TransInstruction ==
  /\ pc = "bodies" /\ ~llvm.funcs[at].decl /\ it <= Len(Body)
  /\ fpc' = [fpc EXCEPT ![at] = Join(@, Seen)]
  /\ it' = it + 1
  /\ UNCHANGED <<opt, input, llvm, spv, out, first, queue, pc, at, round>>

\* Mutant: the users of the function are not told.
FinishAlone ==
  /\ pc = "bodies" /\ ~llvm.funcs[at].decl /\ it > Len(Body)
  /\ fpc' = [fpc EXCEPT ![at] = Join(@, "ENABLED")]
  /\ queue' = <<>>
  /\ pc' = "propagate"
  /\ UNCHANGED <<opt, input, llvm, spv, out, first, at, it, round>>

\* The end of transFunction: what is known goes to the users.
FinishFunction ==
  /\ pc = "bodies" /\ ~llvm.funcs[at].decl /\ it > Len(Body)
  /\ fpc' = [fpc EXCEPT ![at] = Join(@, "ENABLED")]
  /\ queue' = SetToSeq(Users(at))
  /\ pc' = "propagate"
  /\ UNCHANGED <<opt, input, llvm, spv, out, first, at, it, round>>

\* Mutant: a user that knew already stays at the head of the queue.
PropagateStuck ==
  /\ pc = "propagate" /\ queue # <<>>
  /\ LET g == Head(queue)
         new == Join(fpc[g], fpc[at])
     IN  /\ fpc' = [fpc EXCEPT ![g] = new]
         /\ queue' = IF new = fpc[g] THEN queue ELSE Tail(queue) \o SetToSeq(Users(g))
  /\ UNCHANGED <<opt, input, llvm, spv, out, first, pc, at, it, round>>

\* One turn of the loop of fpContractUpdateRecursive.
PropagateContract ==
  /\ pc = "propagate" /\ queue # <<>>
  /\ LET g == Head(queue)
         new == Join(fpc[g], fpc[at])
     IN  /\ fpc' = [fpc EXCEPT ![g] = new]
         /\ queue' = Tail(queue) \o If(new # fpc[g], SetToSeq(Users(g)))
  /\ UNCHANGED <<opt, input, llvm, spv, out, first, pc, at, it, round>>

NextFunction ==
  /\ \/ pc = "propagate" /\ queue = <<>>
     \/ pc = "bodies" /\ llvm.funcs[at].decl
  /\ it' = 1
  /\ IF at < Len(llvm.funcs) THEN at' = at + 1 /\ pc' = "bodies" ELSE Phase("ocl")
  /\ UNCHANGED <<opt, input, llvm, spv, out, first, fpc, queue, round>>

-----------------------------------------------------------------------------
TransOCLMetadata ==
  /\ pc = "ocl"
  /\ LET f == llvm.funcs[at]
         Param(j) == [spv.funcs[at].params[j] EXCEPT
                        !.decs = AddDecs(@, OCLParamDecs(f, j)),
                        !.name = OCLParamName(f, j)]
     IN  spv' = IF f.kernel
                THEN [spv EXCEPT
                        !.strings = @ \o ArgStrings(opt, f),
                        !.funcs[at].params = [j \in 1 .. Len(f.params) |-> Param(j)]]
                ELSE spv
  /\ Advance(Len(llvm.funcs), "contract")
  /\ UNCHANGED <<opt, input, llvm, out, first, fpc, queue, it, round>>

DisableContraction(i) ==
  /\ llvm.funcs[i].kernel /\ ~llvm.funcs[i].decl
  /\ \/ opt.contract = "Off"
     \/ opt.contract = "On" /\ fpc[i] = "DISABLED"

TransFPContract ==
  /\ pc = "contract"
  /\ llvm' = [llvm EXCEPT !.nodes = @ \o If(DisableContraction(at),
                                            <<Node(at, "ContractionOff", <<>>)>>)]
  /\ Advance(Len(llvm.funcs), "modes")
  /\ UNCHANGED <<opt, input, spv, out, first, fpc, queue, it, round>>

\* transExecutionMode: the next node if its mode is one of these.  At a mode that
\* no action takes, the code has llvm_unreachable("invalid execution mode").
AtMode(modes) ==
  /\ pc = "modes" /\ at <= Len(llvm.nodes) /\ llvm.nodes[at].mode \in modes
  /\ UNCHANGED <<opt, input, llvm, out, first, fpc, queue, it, round>>

NextMode == at' = at + 1 /\ pc' = pc /\ ModesCompatible'

TransContractionOff ==
  /\ AtMode({"ContractionOff"})
  /\ spv' = IF "float_controls2" \in opt.ext
            THEN [AddModes(spv, llvm.nodes[at].f, FastMathModes(llvm.floats, 0)) EXCEPT
                    !.caps = @ \cup {"FloatControls2"},
                    !.exts = @ \cup {"float_controls2"}]
            ELSE AddMode(spv, llvm.nodes[at])
  /\ NextMode

TransInitializer ==
  /\ AtMode({"Initializer", "Finalizer"})
  /\ IF opt.ver >= 1
     THEN spv' = AddMode(spv, llvm.nodes[at]) /\ NextMode
     ELSE spv' = spv /\ Phase("failed")

TransPlainMode ==
  /\ AtMode(PlainModes)
  /\ spv' = AddMode(spv, llvm.nodes[at])
  /\ NextMode

TransGatedMode ==
  /\ AtMode(DOMAIN Gate)
  /\ LET gate == Gate[llvm.nodes[at].mode]
         known == gate = "kernel_attributes" \/ llvm.nodes[at].mode = "NamedBarrierCountINTEL"
     IN  spv' = IF gate \notin opt.ext THEN spv
                ELSE [AddMode(spv, llvm.nodes[at]) EXCEPT
                        !.exts = @ \cup (IF known THEN {gate} ELSE {})]
  /\ NextMode

TransFloatMode ==
  /\ AtMode(FloatModes)
  /\ LET n == llvm.nodes[at]
         s == AddMode(spv, n)
         way == IF n.mode = "SignedZeroInfNanPreserve" /\ "float_controls2" \in opt.ext
                THEN "default"
                ELSE IF opt.ver >= 4 THEN "version"
                ELSE IF "float_controls" \in opt.ext THEN "extension" ELSE "none"
     IN  spv' = CASE way = "default" ->
                       [AddModes(spv, n.f, FastMathModes(n.args, 0)) EXCEPT
                          !.exts = @ \cup {"float_controls2"}]
                  [] way = "version" -> [s EXCEPT !.ver = IF @ < 4 THEN 4 ELSE @]
                  [] way = "extension" -> [s EXCEPT !.exts = @ \cup {"float_controls"}]
                  [] way = "none" -> spv
  /\ NextMode

\* Mutant: the target type and the flags change places.
TransFastMathSwapped ==
  /\ AtMode({"FPFastMathDefault"})
  /\ LET n == llvm.nodes[at]
     IN  spv' = IF "float_controls2" \notin opt.ext THEN spv
                ELSE [AddModes(spv, n.f, FastMathModes(<<n.args[2]>>, n.args[1])) EXCEPT
                        !.exts = @ \cup {"float_controls2"}]
  /\ NextMode

TransFastMathDefault ==
  /\ AtMode({"FPFastMathDefault"})
  /\ LET n == llvm.nodes[at]
     IN  spv' = IF "float_controls2" \notin opt.ext THEN spv
                ELSE [AddModes(spv, n.f, FastMathModes(<<n.args[1]>>, n.args[2])) EXCEPT
                        !.exts = @ \cup {"float_controls2"}]
  /\ NextMode

PoisonMode == [mode |-> "ArithmeticPoisonKHR", args |-> <<>>]

\* The end of transExecutionMode.
TransPoison ==
  /\ pc = "modes" /\ at > Len(llvm.nodes)
  /\ LET Poisoned(bf) == IF bf.kernel /\ ~bf.decl /\ ~HasMode(bf, "ArithmeticPoisonKHR")
                         THEN [bf EXCEPT !.modes = Append(@, PoisonMode)] ELSE bf
     IN  spv' = IF "PoisonFreezeKHR" \in spv.caps
                THEN [spv EXCEPT !.funcs = [i \in Funcs |-> Poisoned(@[i])]]
                ELSE spv
  /\ ModesCompatible'
  /\ out' = [llvm EXCEPT !.funcs = <<>>, !.nodes = <<>>, !.annots = <<>>,
                         !.ctors = spv.ctors, !.fpContract = FALSE]
  /\ Phase("readFunctions")
  /\ UNCHANGED <<opt, input, llvm, first, fpc, queue, it, round>>

-----------------------------------------------------------------------------
(* The reader.                                                             *)

\* transFunction, then transUserSemantic.
ReadFunction ==
  /\ pc = "readFunctions"
  /\ LET bf == spv.funcs[at]
         sem == SelectSeq(bf.decs, LAMBDA d : d.dec = "UserSemantic")
     IN  out' = [out EXCEPT
                   !.funcs = Append(@, transFunctionAttrs(bf)),
                   !.nodes = @ \o ReadFastMathNodes(at, bf),
                   !.annots = @ \o [j \in 1 .. Len(sem) |-> [f |-> at, word |-> sem[j].word]]]
  /\ Advance(Len(spv.funcs), "readMetadata")
  /\ UNCHANGED <<opt, input, llvm, spv, first, fpc, queue, it, round>>

\* transMetadata for one function.
ReadMetadata ==
  /\ pc = "readMetadata"
  /\ LET bf == spv.funcs[at]
         md == Merge(<<IF bf.kernel THEN ReadModes(bf) ELSE <<>>, ReadFPGAMetadata(bf),
                       ReadOCLMetadata(opt, spv.strings, bf)>>)
         Param(j) == [out.funcs[at].params[j] EXCEPT
                        !.vc = ReadVectorComputeParam(bf.params[j])]
     IN  out' = [out EXCEPT
                   !.funcs[at].md = md,
                   !.funcs[at].attr = Merge(<<ReadVectorCompute(bf), @>>),
                   !.funcs[at].params = [j \in 1 .. Len(bf.params) |-> Param(j)],
                   !.nodes = @ \o If(bf.kernel, ReadNodes(at, bf))]
  /\ Advance(Len(spv.funcs), "readContract")
  /\ UNCHANGED <<opt, input, llvm, spv, first, fpc, queue, it, round>>

\* The end of transMetadata, createCXXStructor, and transFPContractMetadata.
ReadContract ==
  /\ pc = "readContract"
  /\ LET kernels == FlattenSeq([i \in Funcs |->
                      If(spv.funcs[i].kernel /\ HasMode(spv.funcs[i], "Initializer"), <<i>>)])
     IN  out' = [out EXCEPT
                   !.ctors = IF @ = <<>> THEN kernels ELSE @,
                   !.fpContract = \A i \in Funcs :
                     ~(spv.funcs[i].kernel /\ HasMode(spv.funcs[i], "ContractionOff"))]
  /\ Phase("readAux")
  /\ UNCHANGED <<opt, input, llvm, spv, first, fpc, queue, it, round>>

\* transAuxDataInst, for the instructions of one function: only what the function does
\* not have yet.
ReadAuxData ==
  /\ pc = "readAux" /\ at <= Len(spv.aux)
  /\ LET x == spv.aux[at]
         f == out.funcs[x.f]
     IN  out' = IF opt.aux
                THEN [out EXCEPT !.funcs[x.f] = [f EXCEPT !.attr = Merge(<<f.attr, x.attr>>),
                                                          !.md = Merge(<<f.md, x.md>>),
                                                          !.avail = f.avail \/ x.avail]]
                ELSE out
  /\ at' = at + 1
  /\ UNCHANGED <<opt, input, llvm, spv, first, fpc, queue, pc, it, round>>

FinishReading ==
  /\ pc = "readAux" /\ at > Len(spv.aux)
  /\ Phase("done")
  /\ UNCHANGED <<opt, input, llvm, spv, out, first, fpc, queue, it, round>>

\* The module that was read is translated once more.
Rewrite ==
  /\ pc = "done" /\ round = 1 /\ opt.again
  /\ llvm' = out /\ first' = out
  /\ fpc' = [i \in Funcs |-> "UNDEF"]
  /\ round' = 2
  /\ Phase("preprocess")
  /\ UNCHANGED <<opt, input, spv, out, queue, it>>

Next ==
  \/ PreprocessModule \/ PreprocessKernel
  \/ TransGlobals \/ TransFunctionDecl
  \/ TransInstruction \/ FinishFunction \/ PropagateContract \/ NextFunction
  \/ TransOCLMetadata \/ TransFPContract
  \/ TransContractionOff \/ TransInitializer \/ TransPlainMode \/ TransGatedMode
  \/ TransFloatMode \/ TransFastMathDefault \/ TransPoison
  \/ ReadFunction \/ ReadMetadata \/ ReadContract \/ ReadAuxData \/ FinishReading
  \/ Rewrite

\* A translation runs to its end: it is one thread that waits for nothing.
Spec == Init /\ [][Next]_vars /\ WF_vars(Next)

-----------------------------------------------------------------------------
(* What must hold.                                                         *)

ArgKeys == {"kernel_arg_addr_space", "kernel_arg_access_qual", "kernel_arg_type",
            "kernel_arg_type_qual", "kernel_arg_base_type", "kernel_arg_name",
            "kernel_arg_buffer_location", "kernel_arg_runtime_aligned",
            "spirv.ParameterDecorations", "spirv.Decorations"}

\* The extension that a kind of metadata needs; the other kinds need none.
Needs ==
  [max_work_group_size |-> "kernel_attributes", no_global_work_offset |-> "kernel_attributes",
   max_global_work_dim |-> "kernel_attributes", num_simd_work_items |-> "kernel_attributes",
   scheduler_target_fmax_mhz |-> "kernel_attributes", ip_interface |-> "kernel_attributes",
   stall_enable |-> "fpga_cluster_attributes", stall_free |-> "fpga_cluster_attributes",
   loop_fuse |-> "loop_fuse", prefer_dsp |-> "fpga_dsp_control",
   initiation_interval |-> "fpga_invocation_pipelining_attributes",
   max_concurrency |-> "fpga_invocation_pipelining_attributes",
   pipeline_kernel |-> "fpga_invocation_pipelining_attributes"]

KernelOnly == {"reqd_work_group_size", "work_group_size_hint", "max_work_group_size",
               "vec_type_hint", "reqd_sub_group_size", "intel_reqd_sub_group_size",
               "no_global_work_offset", "max_global_work_dim", "num_simd_work_items",
               "scheduler_target_fmax_mhz", "ip_interface"}

\* A value that means the same as leaving the metadata out.
Default(k, val) ==
  \/ k \in {"stall_enable", "stall_free", "initiation_interval"} /\ val = 0

Carried(f) ==
  {k \in DOMAIN f.md \cap (DOMAIN Needs \cup KernelOnly) :
     /\ k \in KernelOnly => f.kernel
     /\ k \in DOMAIN Needs => Needs[k] \in opt.ext
     /\ ~Default(k, f.md[k])}

\* A work group size comes back with all three dimensions.
Same(k, old, new) ==
  IF k \in {"reqd_work_group_size", "work_group_size_hint", "max_work_group_size"}
  THEN Len(new) = 3 /\ \A d \in 1 .. 3 : new[d] = IF d <= Len(old) THEN old[d] ELSE 1
  ELSE old = new

SubGroup == {"reqd_sub_group_size", "intel_reqd_sub_group_size"}

MetadataSame(f, g) ==
  /\ \A k \in Carried(f) : k \in DOMAIN g.md /\ Same(k, f.md[k], g.md[k])
  /\ \A k \in DOMAIN g.md \ ArgKeys :
       \/ k \in DOMAIN f.md
       \/ k \in SubGroup /\ SubGroup \cap DOMAIN f.md # {}
  /\ opt.aux => DOMAIN f.md \ {"spirv.Decorations", "spirv.ParameterDecorations"}
                  \subseteq DOMAIN g.md

\* What the metadata of a kernel says of parameter j beside its attributes.
Told(f, j) ==
  IF f.kernel /\ Has(f.md, "spirv.ParameterDecorations")
  THEN ToSet(f.md["spirv.ParameterDecorations"][j]) ELSE {}

IsRestrict(f, j) ==
  f.kernel /\ Has(f.md, "kernel_arg_type_qual")
    /\ "restrict" \in ToSet(f.md["kernel_arg_type_qual"][j])

ParamSame(f, j, q) ==
  LET p == f.params[j]
      said == p.attrs \cup (IF IsRestrict(f, j) THEN {"NoAlias"} ELSE {})
                \cup {LLVMAttr(d.word) : d \in {e \in Told(f, j) : e.dec = "FuncParamAttr"}}
      aligns == {d.args[1] : d \in {e \in Told(f, j) : e.dec = "Alignment"}}
  IN  /\ q.attrs = {a \in said : a = "NoCapture" \/ a \notin IllegalAttrs(p)}
      /\ IF p.align = 0 /\ aligns # {} THEN q.align \in aligns ELSE q.align = p.align
      /\ q.deref = IF opt.ver >= 1 THEN p.deref ELSE 0
      /\ q.vc = IF "vector_compute" \in opt.ext THEN p.vc ELSE <<>>

\* The metadata of the arguments, of a kernel that is no vector compute function.
ArgumentsSame(f, g) ==
  LET Old(k, j) == f.md[k][j]
      New(k, j) == g.md[k][j]
      Loc == "kernel_arg_buffer_location"
      Qual == "kernel_arg_type_qual"
  IN  \A j \in DOMAIN f.params :
        /\ Has(f.md, "kernel_arg_type") /\ opt.argStrings =>
             Old("kernel_arg_type", j) = New("kernel_arg_type", j)
        /\ Has(f.md, Qual) => \A q \in ToSet(Old(Qual, j)) : q \in ToSet(New(Qual, j))
        /\ Has(f.md, "kernel_arg_name") /\ opt.argNames =>
             Old("kernel_arg_name", j) = New("kernel_arg_name", j)
        /\ Has(f.md, Loc) /\ "fpga_buffer_location" \in opt.ext /\ f.params[j].kind = "ptr"
             /\ Old(Loc, j) >= 0 => Has(g.md, Loc) /\ Old(Loc, j) = New(Loc, j)

FloatControlSame(f, g) ==
  LET c == "VCFloatControl"
      kept == /\ "INTEL_float_controls2" \in opt.ext
              /\ IF f.kernel THEN opt.ver >= 4 \/ "float_controls" \in opt.ext
                 ELSE "vector_compute" \in opt.ext
  IN  Has(f.attr, c) /\ kept => Has(g.attr, c) /\ f.attr[c] = g.attr[c]

(* What the metadata and the attributes of a function say after a          *)
(* translation to SPIR-V and back is what they said before, for everything *)
(* the allowed extensions can carry, and nothing is said that was not.     *)
MetadataArrives ==
  pc = "done" /\ round = 1 =>
    \A i \in Funcs :
      LET f == input.funcs[i]
          g == out.funcs[i]
      IN  /\ MetadataSame(f, g)
          /\ \A j \in DOMAIN f.params : ParamSame(f, j, g.params[j])
          /\ f.kernel /\ ~(Has(f.attr, "VCFunction") /\ "vector_compute" \in opt.ext)
               => ArgumentsSame(f, g)
          /\ FloatControlSame(f, g)

\* The functions that are reached from i over uses of functions with a body: they are
\* in every set that has i and whatever is used by its members.
UsesClosed(S) ==
  \A k \in S : ~llvm.funcs[k].decl =>
    \A x \in ToSet(llvm.funcs[k].body) : x.g \in S \cup {0}

Reached(i) == {k \in Funcs : \A S \in SUBSET Funcs : i \in S /\ UsesClosed(S) => k \in S}

MayFuse(i) ==
  \E k \in Reached(i) :
    /\ ~llvm.funcs[k].decl
    /\ \E x \in ToSet(llvm.funcs[k].body) :
         \/ x.k \in {"muladd", "asm", "indirect"}
         \/ x.k = "call" /\ llvm.funcs[x.g].decl

(* A kernel that has a body must not be contracted exactly if that was     *)
(* asked for, or it reaches something that could be fused and contraction  *)
(* is only allowed as written; and in a module with poison every kernel    *)
(* entry says once that its arithmetic may give poison.                    *)
ModesSettled ==
  pc = "done" =>
    \A i \in Funcs :
      LET bf == spv.funcs[i]
          off == opt.contract = "Off" \/ (opt.contract = "On" /\ MayFuse(i))
          Once(mode) == \E j \in DOMAIN bf.modes : \A k \in DOMAIN bf.modes :
                          bf.modes[k].mode = mode <=> k = j
      IN  bf.kernel /\ ~bf.decl =>
            /\ "float_controls2" \notin opt.ext => (HasMode(bf, "ContractionOff") <=> off)
            /\ "float_controls2" \in opt.ext /\ off =>
                 \A w \in ToSet(llvm.floats) :
                   [mode |-> "FPFastMathDefault", args |-> <<w, 0>>] \in ToSet(bf.modes)
            /\ "PoisonFreezeKHR" \in spv.caps => Once("ArithmeticPoisonKHR")

Promise ==
  INSTANCE ContractionPromise WITH
    prog <- [i \in Funcs |-> [decl |-> llvm.funcs[i].decl, body |-> llvm.funcs[i].body]],
    marked <- {i \in Funcs : fpc[i] = "DISABLED"},
    settled <- pc \notin {"preprocess", "kernels", "globals", "declare", "bodies", "propagate"}

(* The writer's one pass over the functions, with its propagation to the   *)
(* users of each, implements the promise about contraction: no function is *)
(* marked without a reason and none with a reason is missed.               *)
ContractionCloses == Promise!Spec

\* Decorations and qualifiers may have been repeated.
Unrepeated(k, val) ==
  IF k \in {"spirv.ParameterDecorations", "kernel_arg_type_qual"}
  THEN [j \in DOMAIN val |-> ToSet(val[j])] ELSE val

(* Translating a module that was read a second time changes nothing more   *)
(* than how often a decoration or a node is repeated.                      *)
RewriteStable ==
  pc = "done" /\ round = 2 =>
    /\ ToSet(out.nodes) = ToSet(first.nodes)
    /\ ToSet(out.annots) = ToSet(first.annots)
    /\ out.ctors = first.ctors
    /\ out.fpContract = first.fpContract
    /\ \A i \in Funcs :
         LET f == first.funcs[i]
             g == out.funcs[i]
         IN  /\ DOMAIN f.md = DOMAIN g.md
             /\ \A k \in DOMAIN f.md : Unrepeated(k, f.md[k]) = Unrepeated(k, g.md[k])
             /\ f.attr = g.attr /\ f.params = g.params

(* Every translation ends in a module or an error, whatever functions call *)
(* each other, and so does the second one where there is one: no mode is   *)
(* listed that transExecutionMode does not know, and no two sources of     *)
(* modes (metadata, attributes, listed nodes, contraction and poison) give *)
(* a kernel modes on which addExecutionMode asserts, also when what the    *)
(* reader made of them is written again.                                   *)
Terminates == <>(pc = "failed" \/ (pc = "done" /\ (round = 2 \/ ~opt.again)))
=============================================================================
