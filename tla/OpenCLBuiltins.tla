--------------------------- MODULE OpenCLBuiltins ---------------------------
(***************************************************************************)
(* A call of an OpenCL C builtin on its way through the translator and     *)
(* back: OCLToSPIRV gives it its SPIR-V friendly form, the writer and the  *)
(* reader carry it as an instruction, SPIRVToOCL12 or SPIRVToOCL20 makes   *)
(* it an OpenCL call again, and the module that came back may be           *)
(* translated another time.  One action per handler of each pass.          *)
(***************************************************************************)
EXTENDS BuiltinCalls

CONSTANTS
    Inputs,     \* calls, with the OpenCL versions that declare them and those they go to
    Versions,   \* SPIR-V versions, 13 for 1.3 and so on
    Pointers    \* pointer values: address space of the type and operands

Fwd == INSTANCE OCLToSPIRV
Back == INSTANCE SPIRVToOCL
Instr == INSTANCE BuiltinInstructions
Means == INSTANCE BuiltinMeaning

VARIABLES input, target, version, phase, call
vars == <<input, target, version, phase, call>>

NextPhase == [p \in {"ocl", "spv", "read", "back", "again"} |->
    CASE p = "ocl" -> "spv" [] p = "spv" -> "read" [] p = "read" -> "back" [] p = "back" -> "again"
      [] p = "again" -> "done"]

Init ==
    /\ input \in Inputs
    /\ target \in input.to
    /\ version \in Versions
    /\ phase = "ocl"
    /\ call = input.call

Step(c) ==
    /\ call' = c
    /\ phase' = NextPhase[phase]
    /\ UNCHANGED <<input, target, version>>

(***************************************************************************)
(* OCLToSPIRV, for the program and for the module that came back.          *)
(***************************************************************************)
Visit(handler, c) ==
    /\ phase \in {"ocl", "back"}
    /\ call.lang = "ocl"
    /\ Fwd!handlerOf(call) = handler
    /\ Step(c)
VisitNDRange == Visit("NDRange", Fwd!visitCallNDRange(call))
VisitAllAny == Visit("AllAny", Fwd!visitCallAllAny(call))
VisitAsyncWorkGroupCopy == Visit("AsyncWorkGroupCopy", Fwd!visitCallAsyncWorkGroupCopy(call))
VisitAtomic == Visit("Atomic", Fwd!visitCallAtomic(call))
VisitConvert == Visit("Convert", Fwd!visitCallConvert(call))
VisitGetImageSize == Visit("GetImageSize", Fwd!visitCallGetImageSize(call))
VisitGroupBuiltin == Visit("GroupBuiltin", Fwd!visitCallGroupBuiltin(call))
VisitMemFence == Visit("MemFence", Fwd!visitCallMemFence(call))
VisitReadImageWithSampler == Visit("ReadImageWithSampler", Fwd!visitCallReadImageWithSampler(call))
VisitReadImageMSAA == Visit("ReadImageMSAA", Fwd!visitCallReadImageMSAA(call))
VisitReadWriteImage == Visit("ReadWriteImage", Fwd!visitCallReadWriteImage(call))
VisitToAddr == Visit("ToAddr", Fwd!visitCallToAddr(call))
VisitVecLoadStore == Visit("VecLoadStore", Fwd!visitCallVecLoadStore(call))
VisitRelational == Visit("Relational", Fwd!visitCallRelational(call))
VisitBarrier == Visit("Barrier", Fwd!visitCallBarrier(call))
VisitGetFence == Visit("GetFence", Fwd!visitCallGetFence(call))
VisitDotFloat == Visit("DotFloat", Fwd!visitCallDotFloat(call))
VisitDot == Visit("Dot", Fwd!visitCallDot(call))
VisitClockRead == Visit("ClockRead", Fwd!visitCallClockRead(call))
VisitScalToVec == Visit("ScalToVec", Fwd!visitCallScalToVec(call))
VisitImageChannelDataType ==
    Visit("ImageChannelDataType", Fwd!visitCallGetImageChannel(call, ImageChannelDataTypeOffset))
VisitImageChannelOrder == Visit("ImageChannelOrder", Fwd!visitCallGetImageChannel(call, ImageChannelOrderOffset))
VisitEnqueueKernel == Visit("EnqueueKernel", Fwd!visitCallEnqueueKernel(call))
VisitKernelQuery == Visit("KernelQuery", Fwd!visitCallKernelQuery(call))
VisitBlockRead == Visit("BlockRead", Fwd!visitSubgroupBlockReadINTEL(call))
VisitBlockWrite == Visit("BlockWrite", Fwd!visitSubgroupBlockWriteINTEL(call))
VisitMediaBlock == Visit("MediaBlock", Fwd!visitSubgroupImageMediaBlockINTEL(call))
VisitSplitBarrier == Visit("SplitBarrier", Fwd!visitCallSplitBarrierINTEL(call))
VisitLdexp == Visit("Ldexp", Fwd!visitCallLdexp(call))
VisitBFloat16AsUshort == Visit("BFloat16AsUshort", Fwd!visitCallConvertBFloat16AsUshort(call))
VisitAsBFloat16Float == Visit("AsBFloat16Float", Fwd!visitCallConvertAsBFloat16Float(call))
VisitSimple == Visit("Simple", Fwd!visitCallBuiltinSimple(call))
\* What came back as a plain instruction is no call any more.
VisitInstruction == phase = "back" /\ call.lang = "ir" /\ Step(call)

(***************************************************************************)
(* The instruction.                                                        *)
(***************************************************************************)
WriteAndRead == phase \in {"spv", "again"} /\ Step(Instr!WriteRead(call, version))

(***************************************************************************)
(* SPIRVToOCL12 and SPIRVToOCL20.                                          *)
(***************************************************************************)
Return(handler, c) ==
    /\ phase = "read"
    /\ Back!backHandlerOf(call) = handler
    /\ Step(c)
ByVersion(c12, c20) == Back!Mangled(IF target = "1.2" THEN c12 ELSE c20)
ReturnKept == Return("Kept", call)
ReturnCast == Return("Cast", Back!visitCastInst(call))
ReturnVLoadn == Return("VLoadn", Back!Mangled(Back!visitCallSPIRVVLoadn(call)))
ReturnVStore == Return("VStore", Back!Mangled(Back!visitCallSPIRVVStore(call)))
ReturnOCLExt == Return("OCLExt", Back!Mangled(Back!visitCallSPIRVOCLExt(call)))
ReturnVariable == Return("Variable", Back!Mangled(Back!visitCallSPIRVBuiltinVariable(call)))
ReturnImageQuerySize == Return("ImageQuerySize", Back!Mangled(Back!visitCallSPIRVImageQuerySize(call)))
ReturnMemoryBarrier == Return("MemoryBarrier", ByVersion(Back!MemoryBarrier12(call), Back!MemoryBarrier20(call)))
ReturnControlBarrier == Return("ControlBarrier", ByVersion(Back!ControlBarrier12(call), Back!ControlBarrier20(call)))
ReturnSplitBarrier == Return("SplitBarrier", ByVersion(Back!SplitBarrier12(call), Back!SplitBarrier20(call)))
ReturnAtomic == Return("Atomic", ByVersion(Back!AtomicBuiltin12(call), Back!AtomicBuiltin20(call)))
ReturnGroup == Return("Group", Back!Mangled(Back!visitCallSPIRVGroupBuiltin(call)))
ReturnPipe == Return("Pipe", Back!Mangled(Back!visitCallSPIRVPipeBuiltin(call)))
ReturnMediaBlock == Return("MediaBlock", Back!Mangled(Back!visitCallSPIRVImageMediaBlockBuiltin(call)))
ReturnSubgroupINTEL == Return("SubgroupINTEL", Back!Mangled(Back!visitCallSPIRVSubgroupINTELBuiltIn(call)))
ReturnNDRange ==
    Return("NDRange", Back!postProcessBuiltinWithArrayArguments(Back!postProcessBuiltinReturningStruct(
                        Back!Mangled(Back!visitCallBuildNDRangeBuiltIn(call)))))
ReturnToAddr == Return("ToAddr", Back!Mangled(Back!visitCallGenericCastToPtrExplicitBuiltIn(call)))
ReturnConvert == Return("Convert", Back!Mangled(Back!visitCallSPIRVCvtBuiltin(call)))
ReturnAsyncWorkGroupCopy == Return("AsyncWorkGroupCopy", Back!Mangled(Back!visitCallAsyncWorkGroupCopy(call)))
ReturnWaitEvents == Return("WaitEvents", Back!Mangled(Back!visitCallGroupWaitEvents(call)))
ReturnImageSample == Return("ImageSample", Back!Mangled(Back!visitCallSPIRVImageSampleExplicitLodBuiltIn(call)))
ReturnImageWrite == Return("ImageWrite", Back!Mangled(Back!visitCallSPIRVImageWriteBuiltIn(call)))
ReturnImageRead == Return("ImageRead", Back!Mangled(Back!visitCallSPIRVImageReadBuiltIn(call)))
ReturnImageQuery == Return("ImageQuery", Back!Mangled(Back!visitCallSPIRVImageQueryBuiltIn(call)))
ReturnEnqueueKernel == Return("EnqueueKernel", Back!Mangled(Back!visitCallSPIRVEnqueueKernel(call)))
ReturnGetFence == Return("GetFence", Back!Mangled(Back!visitCallSPIRVGenericPtrMemSemantics(call)))
ReturnAnyAll == Return("AnyAll", Back!Mangled(Back!visitCallSPIRVAnyAll(call)))
ReturnRelational == Return("Relational", Back!Mangled(Back!visitCallSPIRVRelational(call)))
ReturnReadClock == Return("ReadClock", Back!Mangled(Back!visitCallSPIRVReadClockKHR(call)))
ReturnBFloat16 == Return("BFloat16", Back!Mangled(Back!visitCallSPIRVBFloat16Conversions(call)))
ReturnDot == Return("Dot", Back!Mangled(Back!visitCallSPIRVDot(call)))
ReturnBuiltin == Return("Builtin", Back!Mangled(Back!visitCallSPIRVBuiltin(call)))

Forward ==
    \/ VisitNDRange \/ VisitAllAny \/ VisitAsyncWorkGroupCopy \/ VisitAtomic \/ VisitConvert
    \/ VisitGetImageSize \/ VisitGroupBuiltin \/ VisitMemFence \/ VisitReadImageWithSampler
    \/ VisitReadImageMSAA \/ VisitReadWriteImage \/ VisitToAddr \/ VisitVecLoadStore \/ VisitRelational
    \/ VisitBarrier \/ VisitGetFence \/ VisitDotFloat \/ VisitDot \/ VisitClockRead \/ VisitScalToVec
    \/ VisitImageChannelDataType \/ VisitImageChannelOrder \/ VisitEnqueueKernel \/ VisitKernelQuery
    \/ VisitBlockRead \/ VisitBlockWrite \/ VisitMediaBlock \/ VisitSplitBarrier \/ VisitLdexp
    \/ VisitBFloat16AsUshort \/ VisitAsBFloat16Float \/ VisitSimple \/ VisitInstruction
Backward ==
    \/ ReturnKept \/ ReturnCast \/ ReturnVLoadn \/ ReturnVStore \/ ReturnOCLExt \/ ReturnVariable
    \/ ReturnImageQuerySize \/ ReturnMemoryBarrier \/ ReturnControlBarrier \/ ReturnSplitBarrier
    \/ ReturnAtomic \/ ReturnGroup \/ ReturnPipe \/ ReturnMediaBlock \/ ReturnSubgroupINTEL
    \/ ReturnNDRange \/ ReturnToAddr \/ ReturnConvert \/ ReturnAsyncWorkGroupCopy \/ ReturnWaitEvents
    \/ ReturnImageSample \/ ReturnImageWrite \/ ReturnImageRead \/ ReturnImageQuery
    \/ ReturnEnqueueKernel \/ ReturnGetFence \/ ReturnAnyAll \/ ReturnRelational \/ ReturnReadClock
    \/ ReturnBFloat16 \/ ReturnDot \/ ReturnBuiltin
Next == Forward \/ WriteAndRead \/ Backward
Spec == Init /\ [][Next]_vars

(***************************************************************************)
(* Properties.                                                             *)
(***************************************************************************)
\* What a target cannot say: OpenCL 1.2 has no orders and no scopes, SPIR-V
\* before 1.4 no sign of texels.
Sayable(m) ==
    CASE m.f \in {<<"fence">>, <<"atomic">>} /\ target = "1.2" -> [m EXCEPT !.in = <<@[1]>>]
      [] m.f \in {<<"barrier">>, <<"arrive">>, <<"wait">>} /\ target = "1.2" -> [m EXCEPT !.in = <<@[3]>>]
      [] m.f \in {<<"read">>, <<"write">>} /\ version < 14 -> [m EXCEPT !.in = Front(@)]
      [] OTHER -> m

\* At every stage, in the program's OpenCL call, the SPIR-V friendly call, the
\* instruction read back, the OpenCL call made of it and its second
\* translation, the call performs the same function on the same values for each
\* role and the program sees the same result, the same stored value and the
\* same expected value, whatever the function finds (OCLToSPIRV.cpp,
\* SPIRVToOCL.cpp, SPIRVToOCL12.cpp, SPIRVToOCL20.cpp).
MeaningKept == Sayable(Means!Meaning(call)) = Sayable(Means!Meaning(input.call))

\* The name that links a call: the builtin with the types and signs of its
\* parameters, and the type a conversion is named after.
Signature(c) == <<c.n, [i \in DOMAIN c.a |-> c.a[i].t], IF c.n[1] = "convert" THEN c.ret ELSE Void>>
Declared == {Signature(i.call) : i \in {j \in Inputs : target \in j.in}}

\* Every OpenCL call becomes a SPIR-V friendly call or a plain instruction, and
\* every call that comes back is one that the target's OpenCL C declares: its
\* name and the signs and enumerations of its parameters, which the instruction
\* did not keep, are restored so that the library's function is found
\* (OCLBuiltinFuncMangleInfo::init and the dispatch of both passes).
Linkable ==
    CASE phase \in {"spv", "again"} -> call.lang \in {"spv", "ir"}
      [] phase = "back" /\ call.lang # "ir" -> call.lang = "ocl" /\ Signature(call) \in Declared
      [] OTHER -> call.lang # "error"

=============================================================================
