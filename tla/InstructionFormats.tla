------------------------- MODULE InstructionFormats -------------------------
(***************************************************************************)
(* The formats of the instructions of SPIRVInstruction.h, one definition   *)
(* per class, named as the class.  The opcodes that one template gives the *)
(* same shape are told apart by nothing an encoder or a decoder does: such *)
(* a family is one class with the set of its shapes.                       *)
(***************************************************************************)
EXTENDS EntryFormats

(***************************************************************************)
(* SPIRVInstTemplate: with or without a result, word count, and whether    *)
(* more operands may follow.  The operands are one vector: setOpWords()    *)
(* takes the word count from it, setWordCount() sizes it from the header.  *)
(***************************************************************************)
Res(wc) == [hasId |-> TRUE, wc |-> wc, more |-> 0]
ResV(wc) == [hasId |-> TRUE, wc |-> wc, more |-> 2]
NoRes(wc) == [hasId |-> FALSE, wc |-> wc, more |-> 0]
NoResV(wc) == [hasId |-> FALSE, wc |-> wc, more |-> 2]

SPIRVInstTemplate(class, s) ==
    LET result == IF s.hasId THEN <<"Type", "Id">> ELSE <<>>
        base == 1 + Len(result)
    IN  Growing(class, base, Words(result) \o Rest("Ops"), (s.wc - base)..(s.wc - base + s.more))

Family(class, shapes) == {SPIRVInstTemplate(class, s) : s \in shapes}

-----------------------------------------------------------------------------
(* Classes with fields of their own *)

SPIRVVariable ==
    Vector("Variable", 4, <<"Type", "Id", "StorageClass">>, "Initializer", Opt)
SPIRVUntypedVariableKHR ==
    Needs(Vector("UntypedVariableKHR", 4, <<"Type", "Id", "StorageClass">>,
                 "DataTypeAndInitializer", Few),
          {"UntypedPointersKHR"}, "SPV_KHR_untyped_pointers")
SPIRVStore == Vector("Store", 3, <<"PtrId", "ValId">>, "MemoryAccess", Few)
SPIRVLoad == Vector("Load", 4, <<"Type", "Id", "PtrId">>, "MemoryAccess", Few)
SPIRVInstNoOperand ==
    {Fixed(op, 1, <<>>) : op \in {"Return", "Unreachable"}}
SPIRVAbortKHR ==
    Needs(Plain("AbortKHR", 3, <<"MessageTypeId", "MessageId">>),
          {"AbortKHR"}, "SPV_KHR_abort")
SPIRVReturnValue == Plain("ReturnValue", 2, <<"ReturnValueId">>)
SPIRVBranch == Plain("Branch", 2, <<"TargetLabelId">>)
SPIRVBranchConditional ==
    Vector("BranchConditional", 4, <<"ConditionId", "TrueLabelId", "FalseLabelId">>,
           "BranchWeights", {0, 2})
SPIRVPhi == Vector("Phi", 3, <<"Type", "Id">>, "Pairs", {2, 4})
SPIRVFPGARegINTELInstBase ==
    Needs(Family("FPGARegINTEL", {Res(4)}), {"FPGARegINTEL"}, "SPV_INTEL_fpga_reg")
SPIRVSelectBase == Family("Select", {Res(6)})
SPIRVSelectionMerge == Plain("SelectionMerge", 3, <<"MergeBlock", "SelectionControl">>)
SPIRVLoopMerge ==
    Vector("LoopMerge", 4, <<"MergeBlock", "ContinueTarget", "LoopControl">>,
           "LoopControlParameters", Few)
SPIRVSwitch == Vector("Switch", 3, <<"Select", "Default">>, "Pairs", {0, 2, 3})
SPIRVVectorTimesScalar == Plain("VectorTimesScalar", 5, <<"Type", "Id", "Vector", "Scalar">>)
SPIRVVectorTimesMatrix == Plain("VectorTimesMatrix", 5, <<"Type", "Id", "Vector", "Matrix">>)
SPIRVMatrixTimesScalar == Plain("MatrixTimesScalar", 5, <<"Type", "Id", "Matrix", "Scalar">>)
SPIRVMatrixTimesVector == Plain("MatrixTimesVector", 5, <<"Type", "Id", "Matrix", "Vector">>)
SPIRVMatrixTimesMatrix ==
    Plain("MatrixTimesMatrix", 5, <<"Type", "Id", "LeftMatrix", "RightMatrix">>)
SPIRVTranspose == Plain("Transpose", 4, <<"Type", "Id", "Matrix">>)
SPIRVAccessChainBase ==
    Family("AccessChain", {ResV(4), ResV(5)})
    \cup Needs(Family("UntypedAccessChainKHR", {ResV(5), ResV(6)}),
               {"UntypedPointersKHR"}, "SPV_KHR_untyped_pointers")
SPIRVLoopControlINTEL ==
    Needs(Vector("LoopControlINTEL", 2, <<"LoopControl">>, "LoopControlParameters", Few),
          {"UnstructuredLoopControlsINTEL"}, "SPV_INTEL_unstructured_loop_controls")
SPIRVFunctionCall == Vector("FunctionCall", 4, <<"Type", "Id", "FunctionId">>, "Args", Few)
SPIRVFunctionPointerCallINTEL ==
    Needs(Vector("FunctionPointerCallINTEL", 4, <<"Type", "Id", "CalledValueId">>, "Args", Few),
          {"FunctionPointersINTEL"}, "SPV_INTEL_function_pointers")

\* The text form writes the instruction of the set by name.
ExtInstFields ==
    Words(<<"Type", "Id", "ExtSetId">>) \o Named("ExtOp") \o Rest("Args")
SPIRVExtInst ==
    LET inst == {Growing("ExtInst", 5, ExtInstFields, Few)}
    IN  inst \cup Needs(inst, {}, "SPV_KHR_non_semantic_info")
SPIRVExtInstWithForwardRefsKHR ==
    Needs({Growing("ExtInstWithForwardRefsKHR", 5, ExtInstFields, Few)},
          {}, "SPV_KHR_relaxed_extended_instruction")

SPIRVCompositeConstruct ==
    Vector("CompositeConstruct", 3, <<"Type", "Id">>, "Constituents", Few)
SPIRVCompositeExtractBase == Family("CompositeExtract", {ResV(4)})
SPIRVCompositeInsertBase == Family("CompositeInsert", {ResV(5)})
SPIRVCopyBase ==
    {Fixed(op, 4, Words(<<"Type", "Id", "Operand">>)) : op \in {"CopyObject", "CopyLogical"}}
SPIRVCopyMemory == Vector("CopyMemory", 3, <<"Target", "Source">>, "MemoryAccess", Few)
SPIRVCopyMemorySized ==
    Vector("CopyMemorySized", 4, <<"Target", "Source", "Size">>, "MemoryAccess", Few)
SPIRVVectorExtractDynamic ==
    Plain("VectorExtractDynamic", 5, <<"Type", "Id", "VectorId", "IndexId">>)
SPIRVVectorInsertDynamic ==
    Plain("VectorInsertDynamic", 6, <<"Type", "Id", "VectorId", "ComponentId", "IndexId">>)
SPIRVVectorShuffleBase == Family("VectorShuffle", {ResV(5)})
SPIRVControlBarrier ==
    LET barrier == Plain("ControlBarrier", 4, <<"ExecScope", "MemScope", "MemSema">>)
    IN  barrier \cup Needs(barrier, {"DeviceBarrierINTEL"}, "SPV_INTEL_device_barrier")
SPIRVLifetime ==
    Needs({Fixed(op, 3, Words(<<"Object", "Size">>)) : op \in {"LifetimeStart", "LifetimeStop"}},
          {"Kernel"}, NoExt)
SPIRVGroupAsyncCopy ==
    Plain("GroupAsyncCopy", 9, <<"Type", "Id", "ExecScope", "Destination", "Source",
                                 "NumElements", "Stride", "Event">>)
SPIRVSpecConstantOpBase == Family("SpecConstantOp", {ResV(4)})
SPIRVAssumeTrueKHR ==
    Needs(Plain("AssumeTrueKHR", 2, <<"ConditionId">>),
          {"ExpectAssumeKHR"}, "SPV_KHR_expect_assume")

\* The constructor keeps the fixed word count whatever optional operands it is
\* given; the writer gives it none.
SPIRVUntypedPrefetchKHR ==
    Needs({[Growing("UntypedPrefetchKHR", 3, Words(<<"PtrTy", "NumBytes">>) \o Rest("Optional"),
                    {0}) EXCEPT !.grow = 0]},
          {"UntypedPointersKHR"}, "SPV_KHR_untyped_pointers")

SPIRVAtomicInstBase ==
    LET atomic == Family("AtomicInst", {Res(6), Res(7), NoRes(3), NoRes(4)})
    IN  atomic \cup Needs(atomic, {"Int64Atomics"}, NoExt)
        \cup Needs(atomic, {"Int16AtomicsINTEL"}, "SPV_INTEL_16bit_atomics")
SPIRVAtomicCompareExchangeInstructions ==
    LET atomic == Family("AtomicCompareExchange", {Res(6), Res(7), Res(9), NoRes(5)})
    IN  atomic \cup Needs(atomic, {"AtomicInt16CompareExchangeINTEL"},
                          "SPV_INTEL_16bit_atomics")
SPIRVAtomicFAddEXTInst ==
    LET add == Family("AtomicFAddEXT", {Res(7)})
    IN  Needs(add, {"AtomicFloat16AddEXT"}, "SPV_EXT_shader_atomic_float16_add")
        \cup Needs(add, {"AtomicFloat32AddEXT"}, "SPV_EXT_shader_atomic_float_add")
        \cup Needs(add, {"AtomicFloat16VectorNV"}, "SPV_NV_shader_atomic_fp16_vector")
SPIRVAtomicFMinMaxEXTBase ==
    Needs(Family("AtomicFMinMaxEXT", {Res(7)}),
          {"AtomicFloat32MinMaxEXT"}, "SPV_EXT_shader_atomic_float_min_max")

SPIRVSubgroupBlockPrefetchINTELInst ==
    Needs(Family("SubgroupBlockPrefetchINTEL", {NoResV(3)}),
          {"SubgroupBufferPrefetchINTEL"}, "SPV_INTEL_subgroup_buffer_prefetch")
SPIRVSubgroupBitcastShuffleINTELInst ==
    Needs(Family("BitcastShuffleINTEL", {Res(4)}),
          {"SubgroupBitcastShuffleINTEL"}, "SPV_INTEL_subgroup_bitcast_shuffle")
SPIRVFmaKHRInstBase == Needs(Family("FmaKHR", {Res(6)}), {"FMAKHR"}, "SPV_KHR_fma")
SPIRVFreezeKHRInstBase ==
    Needs(Family("FreezeKHR", {Res(4)}), {"PoisonFreezeKHR"}, "SPV_KHR_poison_freeze")

-----------------------------------------------------------------------------
(* Classes that only the template lays out *)

SPIRVBinary == Family("Binary", {Res(5)})
SPIRVCompare == Family("Compare", {Res(5)})
SPIRVUnary == Family("Unary", {Res(4)})
SPIRVDevEnqInstBase ==
    Needs(Family("DevEnqInstBase", {Res(7), ResV(13), Res(8), NoRes(2), Res(3), Res(4), NoRes(3), NoRes(4), Res(6)}),
          {"DeviceEnqueue"}, NoExt)
SPIRVPipeInstBase ==
    Needs(Family("PipeInstBase", {Res(7), Res(9), NoRes(5), Res(4), Res(6)}),
          {"Pipes"}, NoExt)
SPIRVPipeStorageInstBase ==
    Needs(Family("PipeStorageInstBase", {Res(4)}),
          {"PipeStorage", "Pipes"}, NoExt)
SPIRVGroupInstBase ==
    Needs(Family("GroupInstBase", {Res(5), Res(6), Res(8), NoRes(6)}),
          {"Groups"}, NoExt)
SPIRVGroupNonUniformVoteInst ==
    Needs(Family("GroupNonUniformVoteInst", {Res(4), Res(5)}),
          {"GroupNonUniformVote"}, NoExt)
SPIRVGroupNonUniformBallotInst ==
    Needs(Family("GroupNonUniformBallotInst", {Res(6), Res(5)}),
          {"GroupNonUniformBallot"}, NoExt)
SPIRVGroupNonUniformArithmeticInst ==
    Needs(Family("GroupNonUniformArithmeticInst", {ResV(6)}),
          {"GroupNonUniformArithmetic"}, NoExt)
SPIRVGroupNonUniformShuffleInst ==
    Needs(Family("GroupNonUniformShuffleInst", {Res(6)}),
          {"GroupNonUniformShuffle"}, NoExt)
SPIRVGroupNonUniformRotateKHRInst ==
    Needs(Family("GroupNonUniformRotateKHRInst", {ResV(6)}),
          {"GroupNonUniformRotateKHR"}, "SPV_KHR_subgroup_rotate")
SPIRVBlockingPipesIntelInst ==
    Needs(Family("BlockingPipesIntelInst", {NoRes(5)}),
          {"BlockingPipesINTEL"}, "SPV_INTEL_blocking_pipes")
SPIRVFixedPointIntelInst ==
    Needs(Family("FixedPointIntelInst", {Res(9)}),
          {"ArbitraryPrecisionFixedPointINTEL"}, "SPV_INTEL_arbitrary_precision_fixed_point")
SPIRVArbFloatIntelInst ==
    Needs(Family("ArbFloatIntelInst", {Res(9), Res(11), Res(7)}),
          {"ArbitraryPrecisionFloatingPointINTEL"}, "SPV_INTEL_arbitrary_precision_floating_point")
SPIRVImageInstBase ==
    Needs(Family("ImageInstBase", {Res(5), ResV(5), ResV(7), NoResV(4), Res(4)}),
          {"ImageBasic"}, NoExt)
SPIRVGenericPtrInst == Family("GenericPtrInst", {Res(4), Res(5)})
SPIRVExpectKHRInstBase ==
    Needs(Family("ExpectKHRInstBase", {Res(5)}),
          {"ExpectAssumeKHR"}, "SPV_KHR_expect_assume")
SPIRVDotKHRBase ==
    Needs(Family("DotKHRBase", {ResV(5), ResV(6)}),
          {"DotProductKHR"}, "SPV_KHR_integer_dot_product")
SPIRVBitOp ==
    Needs(Family("BitOp", {Res(7), Res(6), Res(4)}),
          {"BitInstructions"}, "SPV_KHR_bit_instructions")
SPIRVSubgroupShuffleINTELInstBase ==
    Needs(Family("SubgroupShuffleINTELInstBase", {Res(5), Res(6)}),
          {"SubgroupShuffleINTEL"}, "SPV_INTEL_subgroups")
SPIRVSubgroupBufferBlockIOINTELInstBase ==
    Needs(Family("SubgroupBufferBlockIOINTELInstBase", {Res(4), NoRes(3)}),
          {"SubgroupBufferBlockIOINTEL"}, "SPV_INTEL_subgroups")
SPIRVSubgroupImageBlockIOINTELInstBase ==
    Needs(Family("SubgroupImageBlockIOINTELInstBase", {Res(5), NoRes(4)}),
          {"SubgroupImageBlockIOINTEL"}, "SPV_INTEL_subgroups")
SPIRVSubgroupImageMediaBlockIOINTELInstBase ==
    Needs(Family("SubgroupImageMediaBlockIOINTELInstBase", {Res(7), NoRes(6)}),
          {"SubgroupImageMediaBlockIOINTEL"}, "SPV_INTEL_media_block_io")
SPIRVSubgroupAVCIntelInstBase ==
    Needs(Family("SubgroupAVCIntelInstBase", {Res(5), Res(3), Res(7), Res(4), Res(6), Res(8), Res(10), Res(11), Res(9)}),
          {"SubgroupAvcMotionEstimationINTEL"}, "SPV_INTEL_device_side_avc_motion_estimation")
SPIRVSubgroupAVCIntelInstBaseIntra ==
    Needs(Family("SubgroupAVCIntelInstBaseIntra", {Res(5), Res(3), Res(11), Res(7), Res(4)}),
          {"SubgroupAvcMotionEstimationIntraINTEL"}, NoExt)
SPIRVSubgroupAVCIntelInstBaseChroma ==
    Needs(Family("SubgroupAVCIntelInstBaseChroma", {Res(3), Res(14), Res(5), Res(4)}),
          {"SubgroupAvcMotionEstimationChromaINTEL"}, NoExt)
SPIRVVariableLengthArrayINTELInstBase ==
    Needs(Family("VariableLengthArrayINTELInstBase", {Res(4), Res(3), NoRes(2)}),
          {"VariableLengthArrayINTEL"}, "SPV_INTEL_variable_length_array")
SPIRVBfloat16ConversionINTELInstBase ==
    Needs(Family("Bfloat16ConversionINTELInstBase", {Res(4)}),
          {"BFloat16ConversionINTEL"}, "SPV_INTEL_bfloat16_conversion")
SPIRVJointMatrixINTELInstBase ==
    Needs(Family("JointMatrixINTELInstBase", {Res(5)}),
          {"JointMatrixWIInstructionsINTEL"}, "SPV_INTEL_joint_matrix")
SPIRVCooperativeMatrixINTELInstBase ==
    Needs(Family("CooperativeMatrixINTELInstBase", {NoResV(6), ResV(9), NoResV(8), Res(8), ResV(8), NoResV(7), Res(5)}),
          {"CooperativeMatrixCheckedInstructionsINTEL"}, "SPV_INTEL_joint_matrix")
SPIRVCooperativeMatrixKHRInstBase ==
    Needs(Family("CooperativeMatrixKHRInstBase", {ResV(5), NoResV(4), Res(4), ResV(6)}),
          {"CooperativeMatrixKHR"}, "SPV_KHR_cooperative_matrix")
SPIRVSplitBarrierINTELBase ==
    Needs(Family("SplitBarrierINTELBase", {NoRes(4)}),
          {"SplitBarrierINTEL"}, "SPV_INTEL_split_barrier")
SPIRVGroupUniformArithmeticKHRInstBase ==
    Needs(Family("GroupUniformArithmeticKHRInstBase", {Res(6)}),
          {"GroupUniformArithmeticKHR"}, "SPV_KHR_uniform_group_instructions")
SPIRVMaskedGatherScatterINTELInstBase ==
    Needs(Family("MaskedGatherScatterINTELInstBase", {Res(7), NoRes(5)}),
          {"MaskedGatherScatterINTEL"}, "SPV_INTEL_masked_gather_scatter")
SPIRVTensorFloat32RoundingINTELInstBase ==
    Needs(Family("TensorFloat32RoundingINTELInstBase", {Res(4)}),
          {"TensorFloat32RoundingINTEL"}, "SPV_INTEL_tensor_float32_conversion")
SPIRVReadClockKHRInstBase ==
    Needs(Family("ReadClockKHRInstBase", {Res(4)}),
          {"ShaderClockKHR"}, "SPV_KHR_shader_clock")
SPIRVTaskSequenceINTELInst ==
    Needs(Family("TaskSequenceINTELInst", {NoResV(2), Res(4), NoRes(2), Res(8)}),
          {"TaskSequenceINTEL"}, "SPV_INTEL_task_sequence")
SPIRVBindlessImagesInstBase ==
    Needs(Family("BindlessImagesInstBase", {Res(4)}),
          {"BindlessImagesINTEL"}, "SPV_INTEL_bindless_images")
SPIRVSubgroup2DBlockIOINTELInst ==
    Needs(Family("Subgroup2DBlockIOINTELInst", {NoRes(11), NoRes(10)}),
          {"Subgroup2DBlockIOINTEL"}, "SPV_INTEL_2d_block_io")
SPIRVSubgroupMatrixMultiplyAccumulateINTELInst ==
    Needs(Family("SubgroupMatrixMultiplyAccumulateINTELInst", {ResV(7)}),
          {"SubgroupMatrixMultiplyAccumulateINTEL"}, "SPV_INTEL_subgroup_matrix_multiply_accumulate")
SPIRVSubgroupScaledMatrixMultiplyAccumulateINTELInst ==
    Needs(Family("SubgroupScaledMatrixMultiplyAccumulateINTELInst", {ResV(9)}),
          {"SubgroupScaledMatrixMultiplyAccumulateINTEL"}, "SPV_INTEL_subgroup_scaled_matrix_multiply_accumulate")
SPIRVTernaryBitwiseFunctionINTELInst ==
    Needs(Family("TernaryBitwiseFunctionINTELInst", {Res(7)}),
          {"TernaryBitwiseFunctionINTEL"}, "SPV_INTEL_ternary_bitwise_function")
SPIRVPredicatedIOINTELInst ==
    Needs(Family("PredicatedIOINTELInst", {ResV(6), NoResV(4)}),
          {"PredicatedIOINTEL"}, "SPV_INTEL_predicated_io")
SPIRVFSigmoidINTELInstBase ==
    Needs(Family("FSigmoidINTELInstBase", {Res(4)}),
          {"SigmoidINTEL"}, "SPV_INTEL_sigmoid")
SPIRVFPConversionINTELInstBase ==
    Needs(Family("FPConversionINTELInstBase", {Res(4), ResV(5)}),
          {"FloatConversionsFtoFINTEL"}, "SPV_INTEL_fp_conversions")

-----------------------------------------------------------------------------
\* Instructions that end a block (isEndOfBlock), and all that may stand in one.
EndsBlock(f) ==
    f.op \in {"Return", "Unreachable", "ReturnValue", "Branch", "BranchConditional",
              "Switch", "Kill", "AbortKHR"}

BlockEntries == SPIRVAsmCallINTEL \cup SPIRVConditionalCopyObjectINTEL \cup UNION {
    SPIRVVariable, SPIRVUntypedVariableKHR, SPIRVStore, SPIRVLoad, SPIRVInstNoOperand,
    SPIRVAbortKHR, SPIRVReturnValue, SPIRVBranch, SPIRVBranchConditional, SPIRVPhi,
    SPIRVFPGARegINTELInstBase, SPIRVSelectBase, SPIRVSelectionMerge, SPIRVLoopMerge,
    SPIRVSwitch, SPIRVVectorTimesScalar, SPIRVVectorTimesMatrix,
    SPIRVMatrixTimesScalar, SPIRVMatrixTimesVector, SPIRVMatrixTimesMatrix, SPIRVTranspose, SPIRVAccessChainBase,
    SPIRVLoopControlINTEL, SPIRVFunctionCall, SPIRVFunctionPointerCallINTEL,
    SPIRVExtInst, SPIRVExtInstWithForwardRefsKHR, SPIRVCompositeConstruct,
    SPIRVCompositeExtractBase, SPIRVCompositeInsertBase, SPIRVCopyBase,
    SPIRVCopyMemory, SPIRVCopyMemorySized, SPIRVVectorExtractDynamic,
    SPIRVVectorInsertDynamic, SPIRVVectorShuffleBase, SPIRVControlBarrier,
    SPIRVLifetime, SPIRVGroupAsyncCopy, SPIRVSpecConstantOpBase, SPIRVAssumeTrueKHR,
    SPIRVUntypedPrefetchKHR, SPIRVAtomicInstBase,
    SPIRVAtomicCompareExchangeInstructions, SPIRVAtomicFAddEXTInst,
    SPIRVAtomicFMinMaxEXTBase, SPIRVSubgroupBlockPrefetchINTELInst,
    SPIRVSubgroupBitcastShuffleINTELInst, SPIRVFmaKHRInstBase, SPIRVFreezeKHRInstBase,
    SPIRVBinary, SPIRVCompare, SPIRVUnary, SPIRVDevEnqInstBase, SPIRVPipeInstBase,
    SPIRVPipeStorageInstBase, SPIRVGroupInstBase, SPIRVGroupNonUniformVoteInst,
    SPIRVGroupNonUniformBallotInst, SPIRVGroupNonUniformArithmeticInst,
    SPIRVGroupNonUniformShuffleInst, SPIRVGroupNonUniformRotateKHRInst,
    SPIRVBlockingPipesIntelInst, SPIRVFixedPointIntelInst, SPIRVArbFloatIntelInst,
    SPIRVImageInstBase, SPIRVGenericPtrInst, SPIRVExpectKHRInstBase, SPIRVDotKHRBase,
    SPIRVBitOp, SPIRVSubgroupShuffleINTELInstBase,
    SPIRVSubgroupBufferBlockIOINTELInstBase, SPIRVSubgroupImageBlockIOINTELInstBase,
    SPIRVSubgroupImageMediaBlockIOINTELInstBase, SPIRVSubgroupAVCIntelInstBase,
    SPIRVSubgroupAVCIntelInstBaseIntra, SPIRVSubgroupAVCIntelInstBaseChroma,
    SPIRVVariableLengthArrayINTELInstBase, SPIRVBfloat16ConversionINTELInstBase,
    SPIRVJointMatrixINTELInstBase, SPIRVCooperativeMatrixINTELInstBase,
    SPIRVCooperativeMatrixKHRInstBase, SPIRVSplitBarrierINTELBase,
    SPIRVGroupUniformArithmeticKHRInstBase, SPIRVMaskedGatherScatterINTELInstBase,
    SPIRVTensorFloat32RoundingINTELInstBase, SPIRVReadClockKHRInstBase,
    SPIRVTaskSequenceINTELInst, SPIRVBindlessImagesInstBase,
    SPIRVSubgroup2DBlockIOINTELInst, SPIRVSubgroupMatrixMultiplyAccumulateINTELInst,
    SPIRVSubgroupScaledMatrixMultiplyAccumulateINTELInst,
    SPIRVTernaryBitwiseFunctionINTELInst, SPIRVPredicatedIOINTELInst,
    SPIRVFSigmoidINTELInstBase, SPIRVFPConversionINTELInstBase}

=============================================================================
