# TLA+ models of the SPIR-V / LLVM translator

This directory holds a verification development for the translator in this
repository: TLA+ modules that model its stateful core, TLC configurations that
check them on small instances, and TLAPS proofs, for seven components, that the
same properties hold for modules, functions and graphs of any size.  Most properties say that a
translation keeps what it was given, over all the orders, cycles, limits and
repetitions a test suite of single files hardly reaches.  `PROJECT.json` lists components,
runs, mutants, the map from definitions to source lines, findings, hazards and
theorems.  Paths below are relative to the repository; `lib/` is
`lib/SPIRV/`, `libSPIRV/` is `lib/SPIRV/libSPIRV/`.

## 1. Inventory

The translator is a sequential library with a command line driver.  There are no
threads and no messages: the hard behaviours are *orders* (entities are
translated, numbered, sorted, written and read in different orders), *places
held for later* (forwards, placeholders, forward pointers), *state kept between
entities* (current line and scope, version, error code), and *limits* given on
the command line that must hold of the result whatever the input.

| Component | Source | State | Operations | Hard part and what makes it correct |
|---|---|---|---|---|
| Sort of types, constants, variables | libSPIRV/SPIRVModule.cpp, `TopologicalSort` | `EntryStateMap`, `ForwardPointerSet`, four containers, the recursion | `visit`, constructor, `operator<<` | recursive types; every entry declared once and before use, none lost, the search ends |
| Values and forwards of the writer | SPIRVWriter.cpp, libSPIRV/SPIRVModule.cpp | `ValueMap`, `IdEntryMap`, `NamedId`, `DecorateVec`, ids | `transFunction`, `transValue`, `mapValue`, `addForward`, `replaceForward` | uses before definitions; ids, pointers, names and decorations agree afterwards |
| Debug locations | LLVMToSPIRVDbgTran.cpp, libSPIRV/SPIRVEntry.cpp, SPIRVBasicBlock.cpp, SPIRVFunction.cpp, SPIRVToLLVMDbgTran.cpp | current scope and line, three times | `transLocationInfo`, `addInstruction`, `encodeLine`, `decodeBB`, `transDebugScope` | differences are written, values are read; a location survives the round trip |
| Versions, capabilities, extensions, errors | libSPIRV/SPIRVModule.cpp, SPIRVError.h, SPIRVWriter.cpp, include/LLVMSPIRVOpts.h | `SPIRVVersion`, `MaxVersion`, `CapMap`, `SPIRVExt`, `ErrorCode` | `addCapability`, `addExtension`, `setSPIRVVersion`, `checkError`, `runSpirvWriterPasses` | the module declares what it uses and stays within the limits; the first error is kept |
| Binary and text decoder | libSPIRV/SPIRVModule.cpp, SPIRVStream.cpp, SPIRVFunction.cpp, SPIRVEntry.*, SPIRVType.h, SPIRVValue.h, SPIRVInstruction.h | stream position, word count and opcode, scope, current line, validity | `parseSPIRV`, `parseSPT`, `getEntry`, `decode` and `encode` of every class, function decoding | two hand-written halves per class must agree to the word; truncated input; the parse ends |
| Continued instructions | libSPIRV/SPIRVModule.cpp, SPIRVStream.cpp | - | splitting at 65535 words, look-ahead when reading | nothing lost at the boundary |
| Reader | SPIRVReader.cpp | `ValueMap`, `PlaceholderMap`, `BlockMap` | `transValue`, `transFunction`, `mapValue` | placeholders replaced before the function ends |
| Decorations and groups | libSPIRV/SPIRVDecorate.cpp, SPIRVEntry.cpp, SPIRVModule.cpp | `IdEntryMap`, `NamedId`, `DecorateVec`, `DecGroupVec`, `GroupDecVec` | `getOrCreateTarget`, `takeAnnotations`, `addDecorationGroup`, `decorateTargets`, `operator<<` | annotations read before their targets reach them, once, and survive being written |
| Debug entities | LLVMToSPIRVDbgTran.cpp, SPIRVToLLVMDbgTran.cpp | `MDMap`, `FileMap`, `SPIRVCUMap`, `DebugInstVec`; `DebugInstCache`, `BuilderMap` | one handler per kind of node and of instruction | recursive nodes, three operand layouts, several units |
| Loop controls | SPIRVWriter.cpp, SPIRVReader.cpp | merge instructions, `IndexGroupArrayMap`, access groups | `getLoopControl`, `setLLVMLoopMetadata` | words belong to bits by order only; nested loops share arrays |
| Lowering passes | SPIRVRegularizeLLVM.cpp, SPIRVLower*.cpp | work lists, deferred erasures, helper functions | one rewriting per construct | the program computes what it did; nothing erased is used |
| Kernel metadata and modes | SPIRVWriter.cpp, PreprocessMetadata.cpp, SPIRVReader.cpp, VectorComputeUtil.cpp | `!spirv.ExecutionMode`, `FPContractMap`, modes, decorations, strings | `transOCLMetadata`, `transExecutionMode`, `fpContractUpdateRecursive`, `transMetadata` | facts in five forms survive; contraction depends on functions met later |
| OpenCL builtins | OCLToSPIRV.cpp, OCLUtil.cpp, SPIRVToOCL*.cpp | the call being rewritten, tables | one handler per family of builtins, in both directions | arguments move by index, signs and enumerations are lost and restored |
| Module layout and tables | libSPIRV/SPIRVModule.cpp | per-kind vectors and sets | `layoutEntry`, `eraseValue`, constant and string tables | each entry in exactly the section it belongs to |
| Function variants | libSPIRV/SPIRVFnVar.cpp | conditional entities | specialization, `eraseReferencesOfInst` | no reference to what was erased |
| Pointer type scavenging | SPIRVTypeScavenger.cpp | deduced types, union-find | `deduceFunctionType`, `correctUseTypes` | every use ends with one type |
| Mangler | Mangler/ | substitution list | `mangle` | names link |
| Driver, options | tools/llvm-spirv | option values | parsing | last option wins |
| Generated tables, runtime headers | libSPIRV/*.hpp, runtime/ | - | - | no behaviour to check |

How they interact: the driver fills `TranslatorOpts` and calls
`runSpirvWriterPasses`, which creates a `SPIRVModuleImpl` (features), runs
`PreprocessMetadata`, `OCLToSPIRV` and the lowering passes, and then the writer:
functions (forwards, loop controls, contraction), metadata and modes, and last the
debug entities and locations; then `operator<<` sorts and encodes the module.
Reading goes through the decoder, which fills another `SPIRVModuleImpl`, and the
reader with its debug translator; `SPIRVToOCL` follows as a pass over the result.
They share the module's id table and its error log; a failed check is remembered
there and translation goes on until the end.

## 2. Modules

Each component has one module, or a few where writer and reader are large, and one
`MC` module with the inputs explored; seven components also have a module of proofs.  The inputs (a dependency graph, a
function, a set of options) are chosen in `Init` and never change, so one run
covers all the inputs of its bound.

### TopologicalSort

`visit()` is recursive.  Its stack is the variable `stack` of frames (entry and
index of the operand being visited) and its Boolean result is `cyclic`, which is
`TRUE` between a call that returned true and the caller that handles it.

| Code | Model |
|---|---|
| `EntryStateMap`, `ForwardPointerSet` | `state`, `fwd` |
| `TypeIntVec`, `ConstIntVec`, `TypeVec`, `ConstAndVarVec` | `vec` |
| loop of the constructor, in id order | `next`, `VisitRoot` |
| an operand that is Visited, Unvisited, Discovered | `SkipVisited`, `Descend`, `OperandCyclic` |
| `State = Unvisited; // Forget about it`, then a pointer or not | `BreakAtPointer`, `PropagateCycle` |
| the entry pushed into its container | `Emit`, `ContainerOf` |
| `llvm_unreachable` in the constructor | `Unreachable` |
| `operator<<` on the sort | `Output` |

An entry is abstracted to the kind by which the code chooses its container and
the list `getNonLiteralOperands` returns.

### ForwardValues

One function is translated instruction by instruction in layout order.  `obj` is
the heap of SPIR-V values: an object has an id, may be a forward and may have
been deleted; instructions record the *ids* of their operands (and, for the
properties only, the LLVM values they were recorded for), while `ValueMap` and
the locals `got` and `made` hold *pointers*.  What an LLVM instruction becomes is
abstracted to four kinds: an instruction of its own, its operand's value
(`llvm.expect` without its extension, a no-op `addrspacecast`), its operand's
value after decorating it (`llvm.var.annotation`), or nothing.

`UseMapped`, `UseArgument`, `UseConstant` and `UseForward` are the branches of
`transValue` for an operand; `CreateInst`, `YieldOperand` and `DropInst` those of
`transValueWithoutDecoration`; `MapValue` and `ReplaceForward` are `mapValue` and
what `transValue` does next, with `TakeId` and `Retarget` for
`replaceForward`'s work on the id table and the decorations.

### LineTracking

Five phases, each over the whole function: `Translate` (where the SPIR-V
instructions go, with `OpVariable` moved to the front of its block), `Skip`,
`LocateNoLoc` and `Locate` (`transLocationInfo`), `EncodeEntry` (`encodeAll`),
`DecodeLabel`, `DecodeLine`, `DecodeScope` and `DecodeEntry` (`decodeBB` and
`transDebugScope`).  `InsertBefore` and `Find` are `addInstruction` with its
lookup of the place to insert, `SetLine` is `addLine`.  A file, line and column
are one `Line`, a scope with its inlined-at location is one `Scope`.

### Features

`Open` is what `runSpirvWriterPasses` does before the passes: `isValidLLVMModule` may
refuse the target triple, its subarch may be no version (an error is logged, and
translation goes on), or its version fixes the module's; `Requires`,
`Either` and `Optional` add one entry with its version, capabilities and
extension under the three policies the entries of `libSPIRV` follow; `Finish`
writes the module or not.  `AddEntry` is `addEntry` with the constructor's
`updateModuleVersion`, `Closure` the recursion of `addCapability`, `CheckError`
the log.  An entry performs several checks in a fixed order; which of the codes
of one step is the first is left open.

### Annotations

A module, as the sequence of its instructions, is read, written by `operator<<`
and read again; `firstRead` keeps the result of the first reading.  `IdEntryMap`
has for each id the entry or the forward with its name, decorations and execution
modes; `NamedId`, `EntryPointVec`, `DecorateVec`, `DecGroupVec` and `GroupDecVec` are
the module's own, `DefVec` stands for its vectors of types, constants, variables and
functions together.  There is one action per `decode` of an instruction;
`Decorated` is `addDecorate`, `Defined` and `TakeName` are `replaceForward` with
`takeAnnotations`, `Written` is the order in which `operator<<` writes.  The
assertion `Annotations only allowed on forward` is the guard `OnForward`: a
module that broke it would stop the reading, which TLC reports as a deadlock.

### ReadValues

The reader at work on the function `ForwardValues` has just written, so the run
goes from an LLVM function to an LLVM function.  `llvm` are the values made, with
what each is, its operands and whether it was erased; `RValueMap` is the reader's
`ValueMap`.  `ReadMapped`, `ReadConstant` and `CreatePlaceHolder` are the branches
of `transValue` for an operand; `ReadInst` creates an instruction and maps it,
`ReadPhi` maps the phi before its incoming values and `FinishPhi` completes it;
`EntryAfter` is the next instruction of the function in the order written;
`Replaced` is the replacement of a placeholder load in `mapValue`.

### Decoder and the formats

`EntryFormats` and `InstructionFormats` have one definition per
class of `libSPIRV` that can stand in a stream: the fields `encode` writes, those
`decode` reads in binary and in text, the word count of the constructor and what
`setWordCount` makes of it, the required capabilities and extension.  The values
of the words are left out: a word is known by the field that wrote it, so that a
field read in the wrong place is seen.

`Decoder` is the parser over these formats.  `Modules` lays out a module around one
subject; `ReadHeader`, `ParseEntry` and `ParseFunction` are the steps of `parseSPIRV`,
`DecodeParameter` to `DecodeInstruction` those of `SPIRVFunction::decode` and
`decodeBB`; `EntriesAt` has the look-ahead of `getContinuedInstructions`.  The stream may
be cut after any word, an extension may not be allowed, the header may not suit.
`asserts` tells a build with assertions from one without.  `StructParts` and
`ConstantParts` split composites at `MaxWordCount`, which is 6 in the run instead of
65535: the arithmetic of the boundary does not depend on its size.

### DebugFormats, DebugWriter, DebugReader, DebugEntities, DebugPromise

`DebugFormats` has the operand layouts of the three instruction sets.  In
`DebugWriter` and `DebugReader` every handler is an operator from a node and the
translated references to an instruction, and from an instruction to an object;
`Refs` and `rRefs` say, in the order of the calls, what a handler translates first.
`DebugEntities` has the two recursions as explicit stacks of frames with the caches
`MDMap` and `DebugInstCache` in between, so that a cycle of the graph is followed the
way the code follows it: what is found in a cache while a handler is still running is
what the code finds.  `DebugPromise` says, of the metadata alone, what a round trip
has to keep in each set, and states the properties.

### LoopControls

The writer goes over the blocks in layout order: `ctl` are the locals of
`getLoopControl`, `spv` the instructions of each SPIR-V block, `arraysOf`
`IndexGroupArrayMap`.  The reader goes over the loops, outermost first, one bit at a
time, consuming words.  `WordMod` is the range of a word (2^32 in the code, 4 in the
run, so that a value that does not fit occurs).

### LoweringSemantics, Lowering

`LoweringSemantics` says what a list of LLVM instructions computes for given
arguments, on a path through the blocks, with poison, undef, memory and calls of
helper functions: the measure for the passes.  `Lowering` runs the passes in the
order of `addPassesForSPIRV`, one action per construct a pass rewrites; new
instructions go before the visited one, erased ones are kept in `dead` until the pass
erases them, `helpers` are the functions the passes add.

### KernelWriter, KernelReader, KernelModes, ContractionPromise

`KernelWriter` has what `PreprocessMetadata`, `transFunctionDecl` and
`transOCLMetadata` make of metadata and attributes, `KernelReader` what
`transFunctionAttrs` and `transMetadata` make of modes, decorations and strings.
`KernelModes` is the way of a whole module: preprocessing, one action per function
and per item of its body (with the recursion of `fpContractUpdateRecursive` as a work
list), modes, reading, and the same a second time.  `ContractionPromise` is the
abstract specification: in any order, a function is marked only for a reason, and
when the writer acts on the marks every function that has a reason is marked.
`KernelModes` implements it: `Promise` is `INSTANCE ContractionPromise WITH` the
call graph, `FPContractMap` and the phase, and `Promise!Spec` is the property
`ContractionCloses`.

### BuiltinCalls, OCLToSPIRV, SPIRVToOCL, BuiltinInstructions, BuiltinMeaning, OpenCLBuiltins

`BuiltinCalls` has the call record (name tokens, arguments with values, returned type,
operations that follow), the operations of `BuiltinCallMutator` and the tables of
`OCLUtil`.  `OCLToSPIRV` and `SPIRVToOCL` have an operator per handler and the tests
of `visitCallInst` in their order; `BuiltinInstructions` is what an instruction keeps of
a call.  `BuiltinMeaning` is the reference: the function a call of OpenCL C, of a SPIR-V
instruction or of plain LLVM performs, the values by role, and what the program sees of
the result.  `OpenCLBuiltins` takes a call through the passes, one action per handler.

## 3. What the runs show

| Run | Distinct states | Inputs | What it shows |
|---|---|---|---|
| `sort_graphs` | 144,803 | 4 entries, all legal graphs of two pointers and two aggregates, and of all kinds next to one integer type | the sort ends without meeting its `llvm_unreachable`, declares each entry once and before its use, and with the writer's ids loses nothing |
| `sort_lost` (violation of `LosesNothing`) | - | the same pointers and aggregates with any ids | finding 1 |
| `forward_functions` | 56,593 | all functions of 3 instructions, 1 parameter, 1 constant | pointers live, ids consistent, operands and annotations resolve; read back with placeholders, each value is used where it was used |
| `line_ordered` | 3.0 million | functions of 4 instructions, 2 scopes, 2 lines, up to 4 blocks | locations survive the round trip, blocks stay well-formed also when variables are hoisted |
| `features_limits` | 145,544 | 3 versions, 4 capabilities, 5 extensions, 8 constructs, every combination of options | what is written declares all it uses within its limits; a module is written only if its constructs fit the options, and the error of one that is not is true of what was translated |
| `annotations_modules` | 195,629 | a variable, an entry point, two groups; up to 4 decorations, linkages, groups and group uses in every legal order | names and decorations arrive, are written once, and read back the same |
| `decoder_formats` | 45,408 | a module around every class of entry with every number of operands, in both forms; streams cut at every word; each header and extension refused | the reader stays in step with exact word counts, reads what was written, accepts exactly what is whole and allowed, and ends |
| `debug_graphs` | 2,155 | seven metadata graphs with cycles through classes, functions, blocks, imports and units, in three instruction sets | each instruction written once; each node comes back saying and naming what it did, made by its own unit's builder; both directions end |
| `loop_hints` | 54,453 | five shapes of loops, every hint alone and in pairs and triples, structured or not, version 1.4 or not | the merge instruction is readable where it stands, and the hints and independent accesses arrive |
| `lowering_passes` | 25,214 | each construct a pass rewrites, with the users that make a difference, over every argument of a small width | the function computes what it did; nothing uses what was erased; what is left can be expressed in SPIR-V |
| `kernel_metadata` | 159,440 | call graphs of three functions; every kind of metadata, attribute and mode alone and in pairs, with the extensions it depends on | metadata arrives, modes are settled, a second translation changes nothing; the contraction marks implement `ContractionPromise`; both translations end, without modes that exclude each other |
| `builtin_calls` | 13,944 | for every handler the overloads its code tells apart, to OpenCL 1.2 and 2.0, SPIR-V 1.3 and 1.4 | a call means the same at every stage and comes back as a function OpenCL C declares |

**Bounds.**  Four entries are enough for two mutually recursive structs with two
pointers, for a cycle entered at, before and behind the pointer that breaks it,
and for a forgotten entry that is visited again.  Where section 4 has a theorem for a
property, the bound of its run only served to find the property.  Three instructions allow a forward used twice, a
forward behind a forward, an instruction that aliases one which aliases another,
and on the way back a placeholder for a phi that uses itself.  Four instructions in
up to four blocks allow a line to change and change back, a scope to end, a loop
header, and a variable behind another instruction.  The tables of `MCFeatures` have a
chain of two implications, a capability with a version, one with an extension, and
one extension with a companion: each branch of `addCapability` and `addExtension`.
Four annotations allow a group with a decoration that is applied between two others,
two groups one after the other, and a linkage before, between and behind them.  In
`decoder_formats` a vector has every length up to two beyond its minimum, and
composites reach three instructions at a word limit of 6.  `IntWidth` is 6 where the
passes use `i32`: wide enough for a boolean extension, a carry and a sign to be
different bits; the wider overflow arithmetic is checked at a width of 5, the lanes
of a vector are lowered alike and one lane with its own value shows a mix-up, and
`llvm.bitreverse` moves bits independently, so single bits suffice.  Every argument of
a builtin call has a value of its own, so two that change places are noticed.  Three
functions allow a callee translated after its caller, a chain of two calls, and
recursion.

**What the inputs leave out.**  Past some inputs the code does something the property
forbids; section 5 lists them, and the inputs of the runs stop short of them:
`MCTopologicalSort!Legal` admits the graphs of valid SPIR-V (only an aggregate may use
a pointer declared later, an integer constant uses integer constants).
`MCForwardValues!CyclesHavePhi` admits only functions in SSA form, `YieldsFollow` only
those in which no forward is yielded.  `InOrder` in `LineTracking` marks the functions
whose SPIR-V instructions keep the LLVM order, for which `RoundTrip` is stated.
`MCAnnotations` admits no member decoration before a group, and `RewriteStable` leaves
out a linkage inside a group (it would name the group's targets, which an import or
export of one symbol is never used for).  `MCDecoder!Asymmetric` are the classes whose
two halves differ; an `OpNoLine` that ends a line is followed by an `OpLine` or by no
instruction of the block, and composites that do not fit one instruction are
written with `SPV_INTEL_long_composites` allowed.  `MCLoopControls` has no contradicting unroll hints.  `MCLowering`
compares the product of `umul.with.overflow` and not its flag, and has no funnel shift
by a multiple of the width.  The debug graphs give a lower bound to every array of the
100 sets, and the kernels, loops and calls avoid the cases named in section 5: inline assembly
comes with its extension (`AssemblyAllowed`), a mode is not listed beside the metadata it
is made from, and kernels with a register limit are translated once (`MCKernelModes!Once`).

**Fairness.**  Liveness is checked of the sort (`Terminates`), the decoder
(`ParseEnds`), the debug translators (`TranslationEnds`) and kernel metadata
(`Terminates`).  Each assumes weak fairness of its next-state relation and no more: each
is one sequential computation, and a thread that can take a step does.

**Deadlock** is checked except in `lowering_passes`, `kernel_metadata` and
`builtin_calls`, where the end of the computation is a state without a step; elsewhere a
finished computation stutters in an action of its own (`Finished`, `Ended`, `Stop`).

A `TypeOK` that no run lists documents the types of the variables.

## 4. What is proved

Each theorem holds for every value of the constants that satisfies the named
assumptions: modules, functions and graphs of any size.  Each is proved from an
inductive invariant that TLC checked first, one lemma per action.

`TopologicalSortProofs`, for every graph (also illegal ones), from `NAssumption` and
`GraphsAssumption`:

* `SortTypeCorrect`, `SortOperandsPrecede`, `SortEmittedOnce`, from the inductive
  invariant `SortInv`.  `OperandsPrecede` is not inductive: a return from a call
  must know that the operand it returns for is Visited or forward-declared.
  `CallsOK` says that the frames are Discovered, each the current operand of the
  one below it, with pairwise different entries; `PassedOK` that the operands a
  frame has passed are Visited or forward-declared; `ContainersOK` that a
  container holds entries of its own kinds.
* `SortLosesNothing`: with the writer's ids nothing is lost, from `LossInv`, which
  adds that the root frame is the entry before the iterator (`RootOK`), that after a
  call returned true the operand its caller is at has not been emitted (`CycleOK`),
  and that all entries behind the iterator are Visited except the root being
  visited (`BehindOK`).  The step that matters is `RootNeverBreaks`: a root that is a
  pointer has a pointee with a lower id, which has been emitted already, so the
  root can never be the entry that is forgotten.
* `SortDeclaredBeforeUse`: in the order `operator<<` writes, over all four containers,
  when operands live in the same or an earlier container (`Layered`, which the valid
  graphs of the run satisfy).

`FeaturesProofs`, for all capability, version and extension tables, options and
constructs, from `MaxKnownAssumption`, `NoExtAssumption`, `TablesAssumption` and
`InputsAssumption`:

* `FeaturesTypeCorrect`, `FeaturesDeclaresAll`, `FeaturesWithinLimits` and
  `FeaturesOutcomeJustified`, from `FeaturesInv`.  A module that will *fail* need not
  declare what it uses, so the invariant says that as long as no error has been logged
  all is declared (`DeclaredOK`), the version lies between the triple's and the
  limit (`VersionsOK`), and each extension is allowed or a companion of one that is
  (`ExtensionsOK`); `StatusOK` ties the status to the error code.
  `OutcomeJustified` is about the end; on the way `ErrorOK` says of each error code what
  it is true of, and of success that every construct so far fits, for which the
  capabilities need a part of their own (`CapsAllowed`): a construct whose capability
  another one implied is not checked again.

`ReadValuesProofs`, about the writer, from `SizesAssumption` and `ProgramsAssumption`:

* `TypeCorrect`, `NoDeletedForward`, `IdsStayConsistent`, `RecordedOperandsDenote` and
  `AnnotationsFollow`, from `TrackedInv`.  No pointer can be shown live without knowing
  what it points to: what `ValueMap` holds is a forward exactly as long as the
  instruction it stands for has not been translated (`MappedOK`, `Awaited`), a forward
  is held by one value only (`ForwardsOK`), and the locals of `transValue` agree with
  `ValueMap` (`LocalsOK`).  `PointersLive` and
  `IdsConsistent` are about functions in which no forward is yielded (`YieldsFollow`),
  `OperandsDenote` and `AnnotationsResolve` about those in which, besides, dropped
  instructions have no users and yielded ones only later users (`Tracked`); for these the
  invariant also says what stands under a recorded id (`ForwardsTracked`).

`ReadValuesProofs`, about the reader, over the writer's invariant:

* `ReaderKeepsWriter`: the composed system implements the writer's specification, so
  the writer's theorems hold of it; `FunctionReadsBack` from `ReadInv`: two SPIR-V values
  never share an LLVM value (`OwnValues`), the instructions read have the values of their
  operands whatever is replaced later (`ReadOK`), what was collected for the next one are
  its operands (`CollectedOK`), and a placeholder that is not erased stands for an
  instruction still to be read (`PlaceholdersOK`).

`ContractionProofs`, from `CasesAssumption` (bodies call functions of the module, its
lists are lists, the operands of `!MaximumRegisters` are of the three kinds there
are, and inline assembly comes with its extension):

* `ContractionImplemented`: every step of `KernelModes`, through both translations, is
  a step of `ContractionPromise` or leaves its variables alone.  From `ContractInv`: what
  is queued uses a marked function (`Reasoned`), a function whose body has been met is marked
  if the body has a reason (`OwnMet`), and the users of a marked function are marked or queued,
  unless it is the one being translated (`UsersMet`).  An empty queue at the end of the
  last body then makes the marks closed under users.
* `ContractionExact`: after the last body the marked functions are exactly those in `MayFuse`,
  which is defined by the least set of functions closed under uses.  One half is an
  invariant (a mark is never without a reason that is reached, `MarkInv`); for the other,
  the unmarked functions are closed under uses, so the least closed set of an unmarked
  function has no reason in it.
* `ModesAreSettled`: `ModesSettled`, if the module that is translated first lists no
  `ContractionOff` itself and poison at most once for a function (`Unsettled`), as all
  modules of the run do.  `ModesSettled` is about the end of a translation and says
  nothing of the way there.  `SettleInv` follows the two modes from the nodes to the modes and
  back: until `transFPContract` no node says `ContractionOff`, then exactly those of
  `DisableContraction` do (`NodesMeant`); the modes of a kernel are those of the nodes
  behind `at` (`ModesMeant`); what is read has no `ContractionOff` node, and a node of
  poison only of a function that was read already (`NodesRead`), which makes the module read
  one the second translation can start from.  The other nodes and modes only have to be
  others (`Ordinary`, `Meant`), which takes a lemma for each place that lists nodes.

`LineTrackingProofs`, from `SizeAssumption`, `MarkersAssumption` and
`FunctionsAssumption`:

* `LayoutKept` and `BlocksOrdered` from `LayoutInv`: labels differ, and a value stands
  behind the label of its block and before the next, while `InsertBefore` puts variables,
  lines and scopes around it.
* `LocationsRoundTrip` from `RoundInv`, which says for every phase of a function in
  LLVM order (`InOrder`) what the next phase will find: after `Locate` each instruction
  stands behind the scope and line it was given or one that is still current, after
  `EncodeEntry` the stream says so with its `OpLine` items and labels, and `decodeBB`
  has the current line and scope of the stream's prefix at every point.

`AnnotationsProofs`, from `NoNameAssumption` and `ModulesAssumption`:

* `AnnotationsTypeCorrect`, `AnnotationsArrived` and `DecorationsWrittenOnce` from
  `AnnotationsInvariant`, that is `TableInv`, `ArriveInv` and `CountInv` together.
  `AnnotationsArrive` is not inductive: applying a group copies what `DecGroupVec` has
  for it, so the invariant says that a group owns what is declared for its id (`Own`),
  which in turn needs `DecorateVec` to hold nothing from before the last group
  (`Pending`).  `CountInv` counts each decoration in groups and `DecorateVec` against the
  instructions read.  A linkage in a group would name the group's targets, so
  `AnnotationsArrived` is about modules without (`LinkageOnSymbols`); linkage is for
  symbols, and the modules of the run have none either.
* What is written can be read: `WrittenFacts` shows the input of the second reading
  well-formed, so the theorems hold of it, too.
* `RewritesStable` from `StableInv` on top of `AnnotationsInvariant`: for a module of any
  size the second reading ends with the entries and the `NamedId` of the first.  The
  tables are functions of the sections that `operator<<` keeps: `Said` gives every
  entry's kind, name and decorations from `EntryPointVec`, `DecLog` (the groups and
  `DecorateVec` one behind the other, in the order read), `GroupDecVec` and `DefVec`.
  `Rewritten` says where each section stands in what was written, `Begun` how much of it
  the second reading has, `Compared` what names and modes have come back; at the end all
  sections are equal, and so are the entries.  The hypothesis `Regular` is about the
  module read first: a mode is one of an entry point (`operator<<` writes modes with the
  entry points), an id is named before its linkage decoration, the order of SPIR-V's sections,
  and an `OpName` of an entry point has the entry point's name (`operator<<` writes no
  other).  Every module of the run `annotations_modules` is regular.

`SequenceFacts` has what two of these modules need of sequences.  `FlattenSeq` is a recursive
function; its lemmas (`FlattenType`, `FlattenAppend`, `FlattenHas`) are proved by `InductionOnSets`,
induction over the naturals stated about a set of numbers and derived from the
well-foundedness of `<` through `WFMin`.

Only model-checked:

* Liveness (`Terminates`, `ParseEnds`, `TranslationEnds`), which the prover does not
  reach.
* `LoopControls`: readable words and arriving hints depend on a stable sort of words by
  bit, written with `SelectSeq`, and on hypotheses about the shape of the function (one
  latch with hints per header, no access chain in a header laid out behind its latch);
  no proof has been tried.
* `MetadataArrives` and `RewriteStable` of `KernelModes`: the metadata of one function against
  another, kind by kind, through selections by `SelectSeq`, which none of the provers
  expands; the bound is on kinds of metadata, of which the run has all.
* `Decoder`, `Debug*`, `Lowering` and the OpenCL modules declare `RECURSIVE` operators
  (or use `Bitwise`), which takes the SMT backend away.  In these modules, where two
  guards of a `CASE` can both hold, the first one that holds counts, as in the
  code's chain of tests.

## 5. Findings

1. `sort_lost`: a pointer type forgotten on a cycle is never visited again when
   the iterator has passed it; the module has its `OpTypeForwardPointer` and no
   `OpTypePointer`.  The writer's ids exclude it (theorem `SortLosesNothing`); a
   module that was read and is written again keeps its producer's ids.  It is quoted
   with the comment it contradicts in `PROJECT.json`.

Met while the models were written, each by tracing the code; the inputs of the runs
leave these cases out, so no run shows them.

*Sort, values, lines, annotations*
* An integer `OpSpecConstantOp` is written with the integer constants, before operands
  that are not integers (SPIRVModule.cpp:2307; the comment at :2183 wants operands
  first).
* `replaceForward` takes an id away from a value that others already use, when an
  instruction yields an existing value (SPIRVWriter.cpp:2928), and `ValueMap` keeps a
  deleted forward when it yields one that is still a forward (:2930).
* The instruction after a hoisted `OpVariable` gets another line
  (LLVMToSPIRVDbgTran.cpp:234); `DebugScope` lands after the terminator when the LLVM
  instruction became a value of another block (SPIRVBasicBlock.cpp:69).
* A decoration group takes the decorations of other ids that precede it; a member
  decoration among them is applied to its targets, against the assertion in
  SPIRVDecorate.cpp:260.
* `ForwardValues` admits a forward for an instruction the writer dropped
  (`llvm.annotation` that is not the FPGA register one): the id it was used under is
  defined nowhere.  `WithinLimits` admits `SPV_EXT_shader_atomic_float_add`, which
  `addExtension` declares with `SPV_EXT_shader_atomic_float16_add` unasked.

*Reader, decoder*
* The reader's `OpImage` maps the placeholder of another value (SPIRVReader.cpp:2512),
  so `ValueMap` may keep a load that is erased later.
* `decodeBB` skips an `OpNoLine` before anything looks at it (SPIRVFunction.cpp:145), so
  the line of the last `OpLine` stays with the instructions behind it, where `OpNoLine`
  elsewhere ends it (SPIRVStream.cpp:265, SPIRVModule.cpp:2537, SPIRVEntry.cpp:188).
  `RoundTrip` of `Decoder` wants the line ended.
* `OpExecutionModeId` becomes `OpExecutionMode` when it is read (SPIRVEntry.h:769).
* A stream cut inside a continued instruction puts a null entry into the module
  (SPIRVStream.cpp:349) without assertions; a stream cut between two instructions is
  accepted.  `getNonLiteralOperands` of a composite omits the operands of its continued
  instructions (a TODO in SPIRVType.h and SPIRVValue.h).  The first constructor of
  `SPIRVTypeStruct` sizes its vector and then appends to it.
  `SPIRVUntypedPrefetchKHRInst` keeps a word count of 3 whatever its operands.

*Debug entities*
* `DebugInfoNone` written for an absent lower bound is read as a constant
  (SPIRVToLLVMDbgTran.cpp:389); a type scoped in a lexical block with a retained
  variable gets the block emitted twice, the case the comment at
  LLVMToSPIRVDbgTran.cpp:83 is about; a function whose type mentions a class scoped in
  the function sends the reader into recursion.
* The entry point of a kernel with template parameters names the `TypeTemplate`; a
  scope in a header with a checksum read before its `Source` loses checksum and text;
  global variables translated directly are emitted again; splitting of source text loses
  its last characters, and a path of the maximal length less two is read out of range;
  the line of a typedef, the numeric upper bound of an array in the 100 sets, and the
  target name of a declaration are lost; with two units a parent that is an `OpString`
  is cast to an instruction; `ImplicitPointerTag` is counted with an operand too few.

*Loops*
* `llvm.loop.unroll.count` before `llvm.loop.unroll.disable` leaves both bits
  (SPIRVWriter.cpp:1931, against the comment at :1930), and the reader gives the count
  to the next hint; two nodes for one bit push two words; `unroll.enable` with a count
  of one comes back as `unroll.full`; access chains laid out after the latch lose their
  promise; an array some of whose accesses are marked comes back with all marked.

*Lowering*
* The flag of `umul.with.overflow` compares the quotient with the first operand, by
  which it was divided (SPIRVRegularizeLLVM.cpp:226), and divides by zero; a funnel
  shift by a multiple of the width shifts by the width; the value of
  `sadd.with.overflow` is poison where it overflows (`nsw`); a third cache control of
  one operand is lost; `zext` of an `i1` shift; the `memset` and `bswap` helpers take
  the attributes of the first caller; an element of a vector of 32 booleans becomes a
  `trunc` after the pass for booleans has run; `freeze` is dropped although its operand
  may be poison at run time.

*Kernel metadata*
* Register limits listed by the reader (SPIRVReader.cpp:5323 and following) reach
  `llvm_unreachable("invalid execution mode")` when the module is written again
  (SPIRVWriter.cpp:7134).  The model has no step there, so `Terminates` would fail: the
  inputs translate such a kernel once.
* A call of inline assembly without `SPV_INTEL_inline_assembly` is taken for a direct
  call and has no callee (SPIRVWriter.cpp:6016); `FPFastMathDefault` nodes, and decorations of parameters,
  multiply with each translation; a listed `ContractionOff` is lost in the second;
  `NamedSubgroupSize` and `Finalizer` do not come back; `ip_interface` with `csr` and
  `streaming` loses `csr`; a kernel whose name is a dotted prefix of another takes that
  one's argument types; one `ContractionOff` kernel drops the module's `FP_CONTRACT`;
  rounding modes of vector compute are dropped without `SPV_INTEL_float_controls2`.

*OpenCL builtins*
* `work_group_reduce_and`, `_or`, `_xor` and the uniform bitwise and logical forms are
  not recognised; integer multisample reads carry no sign; `get_pipe_num_packets_ro`
  comes back as `_wo`; `vloada_half1` and `vstorea_halfn` come back with another name;
  a sub-group barrier with one argument gets work-group scope; `write_imageui` with a level of detail marks the wrong
  argument as unsigned; OpenCL 1.2 cannot say order or scope of a fence.

## 6. Not modelled, and the plan

Not worth a model: generated tables and the OpenCL runtime headers (declarations), the
mangler's strings, file handling and option parsing.  Instruction-by-instruction
translation between LLVM and SPIR-V is a table of constructors; what is hard in it
(forwards, lines, loops, modes, builtins) is modelled apart.

Left, in this order:

1. Proofs: `ControlReadable` of `LoopControls` (merge instructions in place and declared,
   then the words).
2. Function variants: specialization with `eraseReferencesOfInst`, `eraseValue` and
   `eraseCapability`.
3. Pointer type scavenging as a work list with unification.
4. `OpGroupMemberDecorate`, placing of `llvm.dbg.declare` and `llvm.dbg.value`,
   continued source text, AVC motion estimation builtins.
