----------------------------- MODULE MCDecoder ------------------------------
(***************************************************************************)
(* Decoder with every class of libSPIRV as the subject in turn.            *)
(***************************************************************************)
EXTENDS Decoder

AllFormats == ModuleEntries \cup TypesAndConstants \cup BlockEntries

\* Classes whose two halves differ: the opcode of the incomplete constructor,
\* or the text form.
Asymmetric ==
    SPIRVMemberName \cup SPIRVExecutionModeId \cup SPIRVDecorateString
    \cup SPIRVMemberDecorateString \cup SPIRVDecorateInitModeINTEL
    \cup SPIRVDecorateMergeINTELAttr

MCSubjects == (AllFormats \ Asymmetric) \ (SPIRVExtension \cup SPIRVCapability)

\* One subject per loop and per way to size a vector.
MCCutSubjects ==
    SPIRVEntryPoint \cup SPIRVTypeStruct \cup SPIRVExtInst \cup SPIRVBranchConditional
    \cup {f \in SPIRVAtomicFAddEXTInst : f.ext = "SPV_EXT_shader_atomic_float16_add"}

=============================================================================
