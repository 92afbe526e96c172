--------------------------- MODULE MCKernelModes ---------------------------
(* Small modules for KernelModes: call graphs of three functions for         *)
(* contraction, and a kernel with a function for every kind of metadata,     *)
(* attribute and mode, alone and in pairs.                                   *)
EXTENDS KernelModes

NoMap == [k \in {} |-> 0]

Item(k, g) == [k |-> k, g |-> g]

Ptr == [name |-> "p", kind |-> "ptr", type |-> "ptr", attrs |-> {}, align |-> 0,
        deref |-> 0, vc |-> NoMap]
Num == [Ptr EXCEPT !.name = "n", !.kind = "int", !.type = "int"]
Image == [Ptr EXCEPT !.name = "i", !.kind = "image", !.type = "image2d"]
Pipe == [Ptr EXCEPT !.name = "q", !.kind = "pipe", !.type = "pipe"]

Fun(name, kernel, body) ==
  [name |-> <<name>>, kernel |-> kernel, decl |-> FALSE, avail |-> FALSE, body |-> body,
   md |-> NoMap, attr |-> NoMap, params |-> <<>>]

Module(funcs) ==
  [funcs |-> funcs, nodes |-> <<>>, ctors |-> <<>>, annots |-> <<>>,
   fpContract |-> TRUE, floats |-> <<32, 64>>, freeze |-> FALSE]

-----------------------------------------------------------------------------
(* Call graphs: f and h are kernels, g is defined or declared.               *)
Bodies ==
  {<<>>, <<Item("muladd", 0)>>, <<Item("call", 2), Item("call", 3)>>,
   <<Item("call", 1), Item("ref", 2)>>}
    \cup {<<Item(k, g)>> : k \in {"call", "ref"}, g \in 1 .. 3}
Graphs ==
  {Module(<<Fun("f", TRUE, b1), [Fun("g", FALSE, b2) EXCEPT !.decl = d], Fun("h", TRUE, b3)>>) :
     b1 \in Bodies, b3 \in Bodies, b2 \in Bodies, d \in {FALSE}}
  \cup {Module(<<Fun("f", TRUE, b1), [Fun("g", FALSE, <<>>) EXCEPT !.decl = TRUE],
                 Fun("h", TRUE, b3)>>) : b1 \in Bodies, b3 \in Bodies}
  \cup {Module(<<Fun("f", TRUE, <<Item("indirect", 0)>>), Fun("g", FALSE, <<Item(c, 1)>>)>>) :
          c \in {"call", "ref"}}
  \cup {Module([i \in 1 .. 4 |-> Fun(<<"f", "g", "h", "k">>[i], i = s[1],
                   IF i = s[4] THEN <<Item("muladd", 0)>>
                   ELSE <<Item("call", s[(CHOOSE j \in 1 .. 3 : s[j] = i) + 1])>>)]) :
          s \in {t \in [1 .. 4 -> 1 .. 4] : \A i, j \in 1 .. 4 : i # j => t[i] # t[j]}}

AssemblyGraphs ==
  {Module(<<Fun("f", TRUE, <<Item("asm", 0)>>), Fun("g", FALSE, <<Item(c, 1)>>)>>) :
     c \in {"call", "ref"}}

-----------------------------------------------------------------------------
(* Metadata: <<kind>> :> value, one or two at a time.                        *)
KernelMd ==
  {"reqd_work_group_size" :> <<2, 3, 4>>, "reqd_work_group_size" :> <<2, 3>>,
   "work_group_size_hint" :> <<5>>, "max_work_group_size" :> <<6, 7, 8>>,
   "vec_type_hint" :> [elt |-> "i8", n |-> 4], "vec_type_hint" :> [elt |-> "double", n |-> 1],
   "reqd_sub_group_size" :> 8, "intel_reqd_sub_group_size" :> 16,
   "intel_reqd_sub_group_size" :> -1, "no_global_work_offset" :> TRUE,
   "max_global_work_dim" :> 0, "num_simd_work_items" :> 4,
   "scheduler_target_fmax_mhz" :> 300, "ip_interface" :> {"csr"},
   "ip_interface" :> {"csr", "wait_for_done_write"},
   "ip_interface" :> {"streaming", "stall_free_return"}}
FunctionMd ==
  {"stall_enable" :> 1, "stall_free" :> 0, "stall_free" :> 1, "loop_fuse" :> <<2, 1>>,
   "prefer_dsp" :> 1, "initiation_interval" :> 3, "initiation_interval" :> 0,
   "max_concurrency" :> 0, "pipeline_kernel" :> 1, "RegisterAllocMode" :> 1,
   "other" :> 7,
   "prefer_dsp" :> 0 @@ "propagate_dsp_preference" :> 1,
   "spirv.Decorations" :> <<Dec("Referenced", <<>>)>>}
Both == KernelMd \cup FunctionMd
Pairs == {a @@ b : <<a, b>> \in {x \in KernelMd \X Both :
                                  ~(SubGroup \subseteq DOMAIN x[1] \cup DOMAIN x[2])}}

Kernel(md) == [Fun("k", TRUE, <<>>) EXCEPT !.md = md]
Helper(md) == [Fun("h", FALSE, <<>>) EXCEPT !.md = md]

MetadataModules ==
  {Module(<<Kernel(p)>>) : p \in Pairs}
    \cup {Module(<<Helper(p), Kernel(NoMap)>>) : p \in FunctionMd}

(* Arguments.                                                                *)
Vec(a) == <<"vec", "<", a, ",", "4", ">">>
ArgMd ==
  {NoMap,
   "kernel_arg_type" :> <<Vec("int"), <<"myint">> >>,
   "kernel_arg_type_qual" :> << <<"volatile", "restrict">>, <<>> >>,
   "kernel_arg_type_qual" :> << <<"restrict">>, <<>> >>
     @@ "kernel_arg_type" :> << <<"a">>, Vec("b")>>,
   "kernel_arg_name" :> <<"x", "y">>,
   "kernel_arg_buffer_location" :> <<2, -1>>, "kernel_arg_buffer_location" :> <<-1, -1>>,
   "kernel_arg_runtime_aligned" :> <<1, 0>>,
   "spirv.ParameterDecorations" :> << <<Dec("Alignment", <<8>>)>>, <<Attr("ByVal")>> >>}
Attrs == {{}, {"ByVal"}, {"NoAlias", "NoCapture"}, {"Sret", "ReadOnly"}, {"ReadNone"}}
ArgumentModules ==
  {Module(<<[Kernel(md) EXCEPT !.params = <<[Ptr EXCEPT !.attrs = a, !.align = n], Num>>],
            [Helper(NoMap) EXCEPT !.params = <<[Num EXCEPT !.attrs = {"SExt"}],
                                               [Ptr EXCEPT !.deref = n]>>]>>) :
     md \in ArgMd, a \in Attrs, n \in {0, 4}}
  \cup {Module(<<[Kernel(NoMap) EXCEPT !.params = <<[Num EXCEPT !.attrs = {"ZExt"}], q>>],
                 [Kernel("kernel_arg_type" :> << <<"other">> >>) EXCEPT !.name = <<"k2">>,
                                                                !.params = <<Num>>]>>) :
          q \in {Image, Pipe}}

(* Attributes, vector compute among them.                                    *)
Controls == {{}, {4}, {5, 10}, {4, 5, 0}, {6, 7}, {0, 7, 10}}
FunctionAttrs ==
  {"VCFloatControl" :> c : c \in Controls}
    \cup {"VCFunction" :> TRUE @@ "VCFloatControl" :> {4, 6},
          "VCStackCall" :> TRUE @@ "VCSIMTCall" :> 1, "alwaysinline" :> TRUE,
          "noinline" :> TRUE @@ "optnone" :> TRUE,
          "VCFunction" :> TRUE @@ "VCSLMSize" :> 64 @@ "VCNamedBarrierCount" :> 2}
VCParams ==
  {NoMap, "VCArgumentIOKind" :> 1 @@ "VCSingleElementVector" :> 2, "VCMediaBlockIO" :> TRUE}
VCParam(v) == [(IF "VCMediaBlockIO" \in DOMAIN v THEN Image ELSE Ptr) EXCEPT !.vc = v]
AttributeModules ==
  {Module(<<[Kernel(NoMap) EXCEPT !.attr = a, !.params = <<VCParam(v)>>],
            [Helper(NoMap) EXCEPT !.attr = a, !.params = <<VCParam(v)>>, !.avail = TRUE]>>) :
     a \in FunctionAttrs, v \in VCParams}

(* Modes that are already listed, constructors, poison.                      *)
ListedNodes ==
  {Node(1, "SubgroupsPerWorkgroup", <<4>>),
   Node(1, "SignedZeroInfNanPreserve", <<32>>), Node(1, "FPFastMathDefault", <<32, 7>>),
   Node(1, "Finalizer", <<>>), Node(1, "DenormPreserve", <<32>>),
   Node(1, "ArithmeticPoisonKHR", <<>>)}
ListedModules ==
  {[Module(<<Kernel(NoMap), [Kernel(NoMap) EXCEPT !.name = <<"k2">>]>>) EXCEPT
      !.nodes = <<n>>, !.freeze = z, !.ctors = c] :
     n \in ListedNodes, z \in BOOLEAN, c \in {<<>>, <<2>>}}

Limits == {[kind |-> "num", val |-> 32], [kind |-> "named", val |-> 0], [kind |-> "id", val |-> 7]}
RegisterModules == {Module(<<Kernel("MaximumRegisters" :> <<x>>)>>) : x \in Limits}

-----------------------------------------------------------------------------
AllExt == {Gate[m] : m \in DOMAIN Gate} \cup {Needs[k] : k \in DOMAIN Needs}
            \cup {"float_controls", "float_controls2", "function_pointers", "optnone",
                  "fpga_buffer_location", "runtime_aligned", "maximum_registers"}
Opt(ext, ver, contract, more) ==
  [ext |-> ext, ver |-> ver, contract |-> contract, argStrings |-> more,
   argNames |-> more, aux |-> more, again |-> TRUE]

SomeOptions ==
  {Opt(AllExt, 5, "Fast", TRUE), Opt({}, 0, "On", FALSE), Opt({}, 4, "Off", TRUE),
   Opt(AllExt \ {"float_controls2", "vector_compute"}, 3, "On", FALSE)}
Plain == Opt({}, 4, "On", FALSE)

Cross(mods, opts) == {[mod |-> m, opt |-> o] : m \in mods, o \in opts}

\* A limit of registers that was written and read is not translated again.
Once(opts) == {[o EXCEPT !.again = "maximum_registers" \notin o.ext] : o \in opts}

MCCases ==
  Cross(Graphs, {Plain})
    \cup Cross(AssemblyGraphs, {[Plain EXCEPT !.ext = {"inline_assembly"}],
                                [Plain EXCEPT !.ext = {"inline_assembly", "float_controls2"}]})
    \cup Cross(MetadataModules \cup ArgumentModules \cup AttributeModules \cup ListedModules,
               SomeOptions)
    \cup Cross(RegisterModules, Once(SomeOptions))
=============================================================================
