------------------------- MODULE ContractionProofs -------------------------
(***************************************************************************)
(* The writer of KernelModes implements ContractionPromise for every call  *)
(* graph.  The argument has two halves.  Marking: a function is marked     *)
(* while its own instructions are translated or while the queue is worked  *)
(* off, and whatever is queued then uses a marked function.  Settling:     *)
(* a marked function has users that are marked or wait in the queue, so an *)
(* empty queue means that marking is closed.  The program itself must      *)
(* survive the way to SPIR-V and back for the second translation.          *)
(*                                                                         *)
(* From there: the marked functions are the ones that reach a reason       *)
(* (MarkedIffReached), the nodes and the modes of a kernel follow them     *)
(* through both translations (SettleInv), and ModesSettled holds.          *)
(***************************************************************************)
EXTENDS KernelModes, SequenceFacts

Contracts == {"UNDEF", "ENABLED", "DISABLED"}

Undecided == {"preprocess", "kernels", "globals", "declare"}

Late == {"ocl", "contract", "modes", "failed", "readFunctions",
         "readMetadata", "readContract", "readAux", "done"}

\* The first n functions of gs, as far as contraction is concerned, make up fs.
Copy(fs, gs, n) ==
  /\ n \in Nat
  /\ fs = [i \in 1 .. n |-> fs[i]]
  /\ \A i \in 1 .. n : /\ "decl" \in DOMAIN fs[i] /\ "body" \in DOMAIN fs[i]
                       /\ fs[i].decl = gs[i].decl
                       /\ fs[i].body = gs[i].body

Carries(m, gs, n) == "funcs" \in DOMAIN m /\ Copy(m.funcs, gs, n)

Item(i, j) == llvm.funcs[i].body[j]

Marked(i) == fpc[i] = "DISABLED"

Uses(i, g) == \E j \in 1 .. Len(llvm.funcs[i].body) : Item(i, j).g = g

OwnReason(i, j) ==
  \/ Item(i, j).k \in {"muladd", "asm", "indirect"}
  \/ Item(i, j).k = "call" /\ llvm.funcs[Item(i, j).g].decl

-----------------------------------------------------------------------------
(* The inductive invariant, in parts.                                      *)

Program ==
  /\ "funcs" \in DOMAIN llvm /\ WellFormed(llvm.funcs)
  /\ pc \in Undecided \cup {"bodies", "propagate"} \cup Late
  /\ at \in Nat \ {0} /\ it \in Nat \ {0}
  /\ pc \in {"declare", "bodies", "propagate", "readFunctions"} => at \in Funcs

Copied ==
  LET n == Len(llvm.funcs)
  IN  /\ pc = "declare" => Carries(spv, llvm.funcs, at - 1)
      /\ pc \in {"bodies", "propagate"} \cup Late => Carries(spv, llvm.funcs, n)
      /\ pc = "readFunctions" => Carries(out, llvm.funcs, at - 1)
      /\ pc \in {"readMetadata", "readContract", "readAux", "done"} =>
           Carries(out, llvm.funcs, n)

Deciding ==
  /\ fpc \in [Funcs -> Contracts]
  /\ queue \in Seq(Funcs)
  /\ pc \in Undecided => \A i \in Funcs : fpc[i] = "UNDEF"
  /\ pc = "propagate" => fpc[at] # "UNDEF"

\* Whatever is queued while DISABLED goes round has a reason.
Reasoned ==
  /\ \A i \in Funcs : Marked(i) => ~llvm.funcs[i].decl
  /\ pc = "propagate" /\ Marked(at) =>
       \A q \in 1 .. Len(queue) : \E g \in Funcs : Marked(g) /\ Uses(queue[q], g)

\* Own reasons are met item by item ...
OwnMet ==
  /\ pc \in {"bodies", "propagate"} =>
       \A i \in 1 .. at - 1 : \A j \in 1 .. Len(llvm.funcs[i].body) :
         OwnReason(i, j) => Marked(i)
  /\ pc = "bodies" =>
       \A j \in 1 .. Len(Body) : j < it /\ OwnReason(at, j) => Marked(at)
  /\ pc = "propagate" =>
       \A j \in 1 .. Len(Body) : OwnReason(at, j) => Marked(at)

\* ... and a marked function has users that are marked or will be.
UsersMet ==
  pc \in {"bodies", "propagate"} =>
    \A i, g \in Funcs : Marked(g) /\ Uses(i, g) =>
      \/ Marked(i)
      \/ pc = "propagate" /\ Marked(at) /\ \E q \in 1 .. Len(queue) : queue[q] = i
      \/ pc = "bodies" /\ g = at

ContractInv == Program /\ Copied /\ Deciding /\ Reasoned /\ OwnMet /\ UsersMet

-----------------------------------------------------------------------------
(* Sequences and records.                                                  *)

LEMMA CopyLength ==
  ASSUME NEW fs, NEW gs, NEW n, Copy(fs, gs, n)
  PROVE  Len(fs) = n /\ n \in Nat /\ DOMAIN fs = 1 .. n
<1> DEFINE S == {fs[i] : i \in 1 .. n}
<1>1. n \in Nat /\ fs \in [1 .. n -> S] /\ DOMAIN fs = 1 .. n
  BY DEF Copy
<1>. QED
  BY <1>1, SequenceOf

LEMMA CopyAppend ==
  ASSUME NEW fs, NEW gs, NEW n, Copy(fs, gs, n), NEW f,
         "decl" \in DOMAIN f, "body" \in DOMAIN f,
         f.decl = gs[n + 1].decl, f.body = gs[n + 1].body
  PROVE  Copy(Append(fs, f), gs, n + 1)
<1> DEFINE S == {fs[i] : i \in 1 .. n} \cup {f}
<1>1. n \in Nat /\ n + 1 \in Nat /\ fs \in [1 .. n -> S]
  BY DEF Copy
<1>2. fs \in Seq(S) /\ Len(fs) = n /\ f \in S
  BY <1>1, SequenceOf
<1> HIDE DEF S
<1>3. /\ Append(fs, f) \in Seq(S) /\ Len(Append(fs, f)) = n + 1
      /\ \A i \in 1 .. n : Append(fs, f)[i] = fs[i]
      /\ Append(fs, f)[n + 1] = f
  BY <1>1, <1>2, AppendProperties
<1>4. Append(fs, f) = [i \in 1 .. n + 1 |-> Append(fs, f)[i]]
  <2>1. Append(fs, f) \in [1 .. n + 1 -> S]
    BY <1>3, LenProperties
  <2>. QED
    BY <2>1
<1>5. ASSUME NEW i \in 1 .. n + 1
      PROVE  LET h == Append(fs, f)[i]
             IN  /\ "decl" \in DOMAIN h /\ "body" \in DOMAIN h
                 /\ h.decl = gs[i].decl /\ h.body = gs[i].body
  <2>1. CASE i = n + 1
    BY <1>3, <2>1
  <2>2. CASE i # n + 1
    <3>1. i \in 1 .. n
      BY <1>1, <2>2
    <3>. QED
      BY <1>3, <3>1 DEF Copy
  <2>. QED
    BY <2>1, <2>2
<1>. QED
  BY <1>1, <1>4, <1>5 DEF Copy

\* Changing another field of one function leaves a copy a copy.
LEMMA CopyExcept ==
  ASSUME NEW fs, NEW gs, NEW n, Copy(fs, gs, n), NEW f, NEW h,
         f \in 1 .. n => /\ DOMAIN h = DOMAIN fs[f]
                         /\ h.decl = fs[f].decl /\ h.body = fs[f].body
  PROVE  Copy([fs EXCEPT ![f] = h], gs, n)
BY DEF Copy

LEMMA CopyOne ==
  ASSUME NEW fs, NEW gs, NEW n, Copy(fs, gs, n), NEW f, NEW x
  PROVE  /\ Copy([fs EXCEPT ![f].modes = x], gs, n)
         /\ Copy([fs EXCEPT ![f].params = x], gs, n)
         /\ Copy([fs EXCEPT ![f].attr = x], gs, n)
         /\ Copy([fs EXCEPT ![f].md = x], gs, n)
         /\ Copy([fs EXCEPT ![f].avail = x], gs, n)
BY DEF Copy

\* Fields of a module other than its functions.
LEMMA CarriesOther ==
  ASSUME NEW m, NEW gs, NEW n, Carries(m, gs, n), NEW x, NEW y
  PROVE  /\ Carries([m EXCEPT !.caps = x], gs, n)
         /\ Carries([m EXCEPT !.exts = x], gs, n)
         /\ Carries([m EXCEPT !.ver = x], gs, n)
         /\ Carries([m EXCEPT !.caps = x, !.exts = y], gs, n)
         /\ Carries([m EXCEPT !.ctors = IF @ = <<>> THEN x ELSE @, !.fpContract = y], gs, n)
BY DEF Carries

LEMMA CarriesFuncs ==
  ASSUME NEW m, NEW gs, NEW n, NEW fs, Copy(fs, gs, n), "funcs" \in DOMAIN m, NEW x
  PROVE  /\ Carries([m EXCEPT !.funcs = fs], gs, n)
         /\ Carries([m EXCEPT !.funcs = fs, !.caps = x], gs, n)
BY DEF Carries

LEMMA CarriesModes ==
  ASSUME NEW s, NEW gs, NEW n, Carries(s, gs, n), NEW f, NEW modes
  PROVE  Carries(AddModes(s, f, modes), gs, n)
<1> DEFINE x == s.funcs[f].modes \o modes
           more == UNION {ModeCaps(m.mode) : m \in ToSet(modes)}
           fs == [s.funcs EXCEPT ![f].modes = x]
<1>1. "funcs" \in DOMAIN s /\ Copy(s.funcs, gs, n)
  BY DEF Carries
<1>2. Copy(fs, gs, n)
  BY <1>1, CopyOne
<1>3. AddModes(s, f, modes) = [s EXCEPT !.funcs[f].modes = @ \o modes, !.caps = @ \cup more]
  BY Zenon DEF AddModes
<1> HIDE DEF more
<1>4. AddModes(s, f, modes) = [s EXCEPT !.funcs = fs, !.caps = @ \cup more]
  BY <1>3
<1> HIDE DEF fs
<1>5. Carries([s EXCEPT !.funcs = fs, !.caps = @ \cup more], gs, n)
  BY <1>1, <1>2 DEF Carries
<1>. QED
  BY <1>4, <1>5

LEMMA CarriesMode ==
  ASSUME NEW s, NEW gs, NEW n, Carries(s, gs, n), NEW node
  PROVE  Carries(AddMode(s, node), gs, n)
BY CarriesModes DEF AddMode

\* TransFunctionDecl declares the next function.
LEMMA CarriesDeclared ==
  ASSUME NEW s, NEW gs, NEW n, Carries(s, gs, n), NEW f, NEW x,
         "decl" \in DOMAIN f, "body" \in DOMAIN f,
         f.decl = gs[n + 1].decl, f.body = gs[n + 1].body
  PROVE  Carries([s EXCEPT !.funcs = Append(@, f), !.aux = x], gs, n + 1)
<1> DEFINE fs == Append(s.funcs, f)
<1>1. "funcs" \in DOMAIN s /\ Copy(fs, gs, n + 1)
  BY CopyAppend DEF Carries
<1> HIDE DEF fs
<1>2. Carries([s EXCEPT !.funcs = fs, !.aux = x], gs, n + 1)
  BY <1>1 DEF Carries
<1>. QED
  BY <1>2 DEF fs

LEMMA CarriesRead ==
  ASSUME NEW m, NEW gs, NEW n, Carries(m, gs, n), NEW f, NEW x, NEW y,
         "decl" \in DOMAIN f, "body" \in DOMAIN f,
         f.decl = gs[n + 1].decl, f.body = gs[n + 1].body
  PROVE  Carries([m EXCEPT !.funcs = Append(@, f), !.nodes = @ \o x, !.annots = @ \o y],
                 gs, n + 1)
<1> DEFINE fs == Append(m.funcs, f)
<1>1. "funcs" \in DOMAIN m /\ Copy(fs, gs, n + 1)
  BY CopyAppend DEF Carries
<1> HIDE DEF fs
<1>2. Carries([m EXCEPT !.funcs = fs, !.nodes = @ \o x, !.annots = @ \o y], gs, n + 1)
  BY <1>1 DEF Carries
<1>. QED
  BY <1>2 DEF fs

LEMMA CarriesParams ==
  ASSUME NEW s, NEW gs, NEW n, Carries(s, gs, n), NEW f, NEW x, NEW y
  PROVE  Carries([s EXCEPT !.strings = x, !.funcs[f].params = y], gs, n)
<1> DEFINE fs == [s.funcs EXCEPT ![f].params = y]
<1>1. "funcs" \in DOMAIN s /\ Copy(fs, gs, n)
  BY CopyOne DEF Carries
<1> HIDE DEF fs
<1>2. Carries([s EXCEPT !.strings = x, !.funcs = fs], gs, n)
  BY <1>1 DEF Carries
<1>. QED
  BY <1>2 DEF fs

LEMMA CarriesMetadata ==
  ASSUME NEW m, NEW gs, NEW n, Carries(m, gs, n), NEW f, NEW x, NEW y, NEW z, NEW w
  PROVE  Carries([m EXCEPT !.funcs[f].md = x, !.funcs[f].attr = Merge(<<y, @>>),
                           !.funcs[f].params = z, !.nodes = @ \o w], gs, n)
<1> DEFINE f1 == [m.funcs EXCEPT ![f].md = x]
           f2 == [f1 EXCEPT ![f].attr = Merge(<<y, m.funcs[f].attr>>)]
           f3 == [f2 EXCEPT ![f].params = z]
<1>1. Copy(f1, gs, n)
  BY CopyOne DEF Carries
<1>2. Copy(f2, gs, n)
  BY <1>1, CopyOne
<1>3. "funcs" \in DOMAIN m /\ Copy(f3, gs, n)
  BY <1>2, CopyOne DEF Carries
<1> HIDE DEF f3
<1>4. Carries([m EXCEPT !.funcs = f3, !.nodes = @ \o w], gs, n)
  BY <1>3 DEF Carries
<1>. QED
  BY <1>4, ZenonT(60) DEF f3

LEMMA CarriesAux ==
  ASSUME NEW m, NEW gs, NEW n, Carries(m, gs, n), NEW f, NEW x, NEW y, NEW z
  PROVE  Carries([m EXCEPT !.funcs[f] =
                    [m.funcs[f] EXCEPT !.attr = x, !.md = y, !.avail = z]], gs, n)
<1> DEFINE h == [m.funcs[f] EXCEPT !.attr = x, !.md = y, !.avail = z]
           fs == [m.funcs EXCEPT ![f] = h]
<1>1. DOMAIN h = DOMAIN m.funcs[f] /\ h.decl = m.funcs[f].decl /\ h.body = m.funcs[f].body
  BY DEF Carries, Copy
<1> HIDE DEF h
<1>2. "funcs" \in DOMAIN m /\ Copy(fs, gs, n)
  BY <1>1, CopyExcept DEF Carries
<1> HIDE DEF fs
<1>3. Carries([m EXCEPT !.funcs = fs], gs, n)
  BY <1>2, CarriesFuncs
<1>. QED
  BY <1>3 DEF fs, h

-----------------------------------------------------------------------------
(* Steps that decide nothing about contraction.                            *)

Deciders == {"bodies", "propagate"}

Quiet ==
  /\ "funcs" \in DOMAIN llvm' /\ llvm'.funcs = llvm.funcs
  /\ UNCHANGED <<fpc, queue>>
  /\ pc \notin Deciders /\ pc' \notin Deciders
  /\ pc \in Undecided <=> pc' \in Undecided

LEMMA WriterQuiet ==
  ASSUME Program, Copied,
         PreprocessModule \/ PreprocessKernel \/ TransGlobals \/ TransOCLMetadata
           \/ TransFPContract
  PROVE  Program' /\ Copied' /\ Quiet
<1>1. CASE PreprocessModule
  <2>1. "funcs" \in DOMAIN llvm' /\ llvm'.funcs = llvm.funcs
    BY <1>1 DEF PreprocessModule, Program
  <2>. QED
    BY <1>1, <2>1 DEF PreprocessModule, Phase, Program, Copied, Quiet, Deciders,
       Undecided, Late, Funcs
<1>2. CASE PreprocessKernel
  <2>1. "funcs" \in DOMAIN llvm' /\ llvm'.funcs = llvm.funcs
    BY <1>2 DEF PreprocessKernel, Program
  <2>2. Program' /\ Quiet /\ pc' \in {"kernels", "globals"}
    BY <1>2, <2>1 DEF PreprocessKernel, Advance, Program, Quiet, Deciders,
       Undecided, Late, Funcs
  <2>. QED
    BY <2>2 DEF Copied, Late
<1>3. CASE TransGlobals
  <2>1. "funcs" \in DOMAIN spv' /\ spv'.funcs = <<>>
    BY <1>3 DEF TransGlobals, NoSPIRV
  <2>2. Copy(<<>>, llvm.funcs, 0)
    BY DEF Copy
  <2>3. llvm' = llvm /\ pc = "globals" /\ pc' = "declare" /\ at' = 1 /\ it' = it
        /\ UNCHANGED <<fpc, queue>>
    BY <1>3 DEF TransGlobals, Phase
  <2>4. Len(llvm.funcs) \in Nat \ {0}
    BY DEF Program, WellFormed
  <2>5. Program' /\ Quiet
    BY <2>3, <2>4 DEF Program, Quiet, Deciders, Undecided, Late, Funcs
  <2>. QED
    BY <2>1, <2>2, <2>3, <2>5 DEF Copied, Carries, Late
<1>4. CASE TransOCLMetadata
  <2>1. Carries(spv, llvm.funcs, Len(llvm.funcs))
    BY <1>4 DEF TransOCLMetadata, Copied, Late
  <2>2. Carries(spv', llvm.funcs, Len(llvm.funcs))
    BY <1>4, <2>1, CarriesParams DEF TransOCLMetadata
  <2>3. llvm' = llvm /\ pc' \in {"ocl", "contract"} /\ at' \in Nat \ {0}
        /\ UNCHANGED <<fpc, queue, it>> /\ pc = "ocl"
    BY <1>4 DEF TransOCLMetadata, Advance, Program
  <2>. QED
    BY <2>2, <2>3 DEF Program, Copied, Quiet, Deciders, Undecided, Late, Funcs
<1>5. CASE TransFPContract
  <2>1. "funcs" \in DOMAIN llvm' /\ llvm'.funcs = llvm.funcs
    BY <1>5 DEF TransFPContract, Program
  <2>2. pc' \in {"contract", "modes"} /\ at' \in Nat \ {0}
        /\ UNCHANGED <<fpc, queue, it, spv>> /\ pc = "contract"
    BY <1>5 DEF TransFPContract, Advance, Program
  <2>. QED
    BY <2>1, <2>2 DEF Program, Copied, Quiet, Deciders, Undecided, Late, Funcs
<1>. QED
  BY <1>1, <1>2, <1>3, <1>4, <1>5

LEMMA ModesQuiet ==
  ASSUME Program, Copied,
         TransContractionOff \/ TransInitializer \/ TransPlainMode \/ TransGatedMode
           \/ TransFloatMode \/ TransFastMathDefault
  PROVE  Program' /\ Copied' /\ Quiet
<1> DEFINE n == Len(llvm.funcs)
<1>1. /\ UNCHANGED <<llvm, fpc, queue, it>> /\ pc = "modes"
      /\ pc' \in {"modes", "failed"} /\ at' \in Nat \ {0}
  <2>1. CASE TransContractionOff
    BY <2>1 DEF TransContractionOff, AtMode, NextMode, Phase, Program
  <2>2. CASE TransInitializer
    BY <2>2 DEF TransInitializer, AtMode, NextMode, Phase, Program
  <2>3. CASE TransPlainMode
    BY <2>3 DEF TransPlainMode, AtMode, NextMode, Phase, Program
  <2>4. CASE TransGatedMode
    BY <2>4 DEF TransGatedMode, AtMode, NextMode, Phase, Program
  <2>5. CASE TransFloatMode
    BY <2>5 DEF TransFloatMode, AtMode, NextMode, Phase, Program
  <2>6. CASE TransFastMathDefault
    BY <2>6 DEF TransFastMathDefault, AtMode, NextMode, Phase, Program
  <2>. QED
    BY <2>1, <2>2, <2>3, <2>4, <2>5, <2>6
<1>2. Carries(spv, llvm.funcs, n)
  BY <1>1 DEF Copied, Late
<1>3. Carries(spv', llvm.funcs, n)
  <2>1. CASE TransContractionOff
    BY <1>2, <2>1, CarriesModes, CarriesMode, CarriesOther DEF TransContractionOff
  <2>2. CASE TransInitializer
    BY <1>2, <2>2, CarriesMode DEF TransInitializer
  <2>3. CASE TransPlainMode
    BY <1>2, <2>3, CarriesMode DEF TransPlainMode
  <2>4. CASE TransGatedMode
    BY <1>2, <2>4, CarriesMode, CarriesOther DEF TransGatedMode
  <2>5. CASE TransFloatMode
    BY <1>2, <2>5, CarriesModes, CarriesMode, CarriesOther DEF TransFloatMode
  <2>6. CASE TransFastMathDefault
    BY <1>2, <2>6, CarriesModes, CarriesOther DEF TransFastMathDefault
  <2>. QED
    BY <2>1, <2>2, <2>3, <2>4, <2>5, <2>6
<1>. QED
  BY <1>1, <1>3 DEF Program, Copied, Quiet, Deciders, Undecided, Late, Funcs

LEMMA ReaderQuiet ==
  ASSUME Program, Copied,
         TransPoison \/ ReadFunction \/ ReadMetadata \/ ReadContract \/ ReadAuxData
           \/ FinishReading
  PROVE  Program' /\ Copied' /\ Quiet
<1> DEFINE n == Len(llvm.funcs)
<1>1. n \in Nat \ {0}
  BY DEF Program, WellFormed
<1>2. /\ UNCHANGED <<llvm, fpc, queue, it>>
      /\ pc \in {"modes", "readFunctions", "readMetadata", "readContract", "readAux"}
  BY DEF TransPoison, ReadFunction, ReadMetadata, ReadContract, ReadAuxData, FinishReading
<1>3. Carries(spv, llvm.funcs, n)
  BY <1>2 DEF Copied, Late
<1>4. Len(spv.funcs) = n
  BY <1>3, CopyLength DEF Carries
<1>5. CASE TransPoison
  <2> DEFINE Poisoned(bf) == IF bf.kernel /\ ~bf.decl /\ ~HasMode(bf, "ArithmeticPoisonKHR")
                             THEN [bf EXCEPT !.modes = Append(@, PoisonMode)] ELSE bf
             fs == [i \in 1 .. n |-> Poisoned(spv.funcs[i])]
  <2>1. /\ spv' = IF "PoisonFreezeKHR" \in spv.caps
                  THEN [spv EXCEPT !.funcs = fs] ELSE spv
        /\ pc' = "readFunctions" /\ at' = 1
        /\ pc = "modes"
    BY <1>5 DEF TransPoison, Phase, Funcs
  <2>2. Copy(fs, llvm.funcs, n)
    BY <1>3 DEF Copy, Carries
  <2> HIDE DEF fs
  <2>3. Carries(spv', llvm.funcs, n)
    BY <1>3, <2>1, <2>2, CarriesFuncs DEF Carries
  <2>4. "funcs" \in DOMAIN out' /\ out'.funcs = <<>>
    BY <1>5 DEF TransPoison, Program
  <2>5. Carries(out', llvm.funcs, 0)
    BY <2>4 DEF Carries, Copy
  <2>. QED
    BY <1>1, <1>2, <2>1, <2>3, <2>5
    DEF Program, Copied, Quiet, Deciders, Undecided, Late, Funcs
<1>6. CASE ReadFunction
  <2> DEFINE bf == spv.funcs[at]
             f == transFunctionAttrs(bf)
             sem == SelectSeq(bf.decs, LAMBDA d : d.dec = "UserSemantic")
             x == ReadFastMathNodes(at, bf)
             y == [j \in 1 .. Len(sem) |-> [f |-> at, word |-> sem[j].word]]
  <2>1. at \in 1 .. n /\ Carries(out, llvm.funcs, at - 1) /\ pc = "readFunctions"
    BY <1>6 DEF ReadFunction, Program, Copied, Funcs
  <2>2. /\ "decl" \in DOMAIN f /\ "body" \in DOMAIN f
        /\ f.decl = llvm.funcs[at].decl /\ f.body = llvm.funcs[at].body
    BY <1>3, <2>1 DEF transFunctionAttrs, Carries, Copy
  <2>3. at - 1 + 1 = at
    BY <2>1, <1>1
  <2>4. out' = [out EXCEPT !.funcs = Append(@, f), !.nodes = @ \o x, !.annots = @ \o y]
    BY <1>6, Zenon DEF ReadFunction
  <2> HIDE DEF f, x, y
  <2>5. Carries(out', llvm.funcs, at)
    <3>1. Carries([out EXCEPT !.funcs = Append(@, f), !.nodes = @ \o x, !.annots = @ \o y],
                  llvm.funcs, at - 1 + 1)
      BY <2>1, <2>2, <2>3, CarriesRead
    <3>. QED
      BY <2>3, <2>4, <3>1, Zenon
  <2>6. /\ spv' = spv
        /\ IF at < n THEN at' = at + 1 /\ pc' = pc ELSE at' = 1 /\ pc' = "readMetadata"
    BY <1>4, <1>6 DEF ReadFunction, Advance
  <2>7. CASE at < n
    BY <1>1, <1>2, <1>3, <2>1, <2>5, <2>6, <2>7
    DEF Program, Copied, Quiet, Deciders, Undecided, Late, Funcs
  <2>8. CASE ~(at < n)
    <3>1. at = n
      BY <1>1, <2>1, <2>8
    <3>. QED
      BY <1>1, <1>2, <1>3, <2>1, <2>5, <2>6, <2>8, <3>1
      DEF Program, Copied, Quiet, Deciders, Undecided, Late, Funcs
  <2>. QED
    BY <2>7, <2>8
<1>7. CASE ReadMetadata
  <2>1. Carries(out, llvm.funcs, n) /\ pc = "readMetadata"
    BY <1>7 DEF ReadMetadata, Copied
  <2> DEFINE bf == spv.funcs[at]
             x == Merge(<<IF bf.kernel THEN ReadModes(bf) ELSE <<>>, ReadFPGAMetadata(bf),
                          ReadOCLMetadata(opt, spv.strings, bf)>>)
             y == ReadVectorCompute(bf)
             Param(j) == [out.funcs[at].params[j] EXCEPT
                            !.vc = ReadVectorComputeParam(bf.params[j])]
             z == [j \in 1 .. Len(bf.params) |-> Param(j)]
             w == If(bf.kernel, ReadNodes(at, bf))
  <2>2. out' = [out EXCEPT !.funcs[at].md = x, !.funcs[at].attr = Merge(<<y, @>>),
                           !.funcs[at].params = z, !.nodes = @ \o w]
    BY <1>7, Zenon DEF ReadMetadata
  <2> HIDE DEF x, y, z, w
  <2>3. Carries(out', llvm.funcs, n)
    BY <2>1, <2>2, CarriesMetadata
  <2>4. spv' = spv /\ pc' \in {"readMetadata", "readContract"} /\ at' \in Nat \ {0}
    BY <1>7 DEF ReadMetadata, Advance, Program
  <2>. QED
    BY <1>2, <1>3, <2>1, <2>3, <2>4
    DEF Program, Copied, Quiet, Deciders, Undecided, Late, Funcs
<1>8. CASE ReadContract
  <2>1. Carries(out, llvm.funcs, n) /\ pc = "readContract"
    BY <1>8 DEF ReadContract, Copied
  <2> DEFINE x == FlattenSeq([i \in Funcs |->
                    If(spv.funcs[i].kernel /\ HasMode(spv.funcs[i], "Initializer"), <<i>>)])
             y == \A i \in Funcs :
                    ~(spv.funcs[i].kernel /\ HasMode(spv.funcs[i], "ContractionOff"))
  <2>2. out' = [out EXCEPT !.ctors = IF @ = <<>> THEN x ELSE @, !.fpContract = y]
    BY <1>8, Zenon DEF ReadContract
  <2> HIDE DEF x, y
  <2>3. Carries(out', llvm.funcs, n)
    BY <2>1, <2>2, CarriesOther
  <2>4. spv' = spv /\ pc' = "readAux" /\ at' = 1
    BY <1>8 DEF ReadContract, Phase
  <2>. QED
    <3>1. Program'
      BY <1>2, <1>3, <2>1, <2>4 DEF Program, Late, Funcs
    <3>2. Copied'
      BY <1>2, <2>1, <2>3, <2>4 DEF Copied, Late
    <3>3. Quiet
      BY <1>2, <2>1, <2>4 DEF Program, Quiet, Deciders, Undecided
    <3>. QED
      BY <3>1, <3>2, <3>3
<1>9. CASE ReadAuxData
  <2>1. Carries(out, llvm.funcs, n) /\ pc = "readAux" /\ pc' = pc /\ spv' = spv
        /\ at' \in Nat \ {0}
    <3>1. pc = "readAux" /\ pc' = pc /\ spv' = spv /\ at' = at + 1
      BY <1>9, Zenon DEF ReadAuxData
    <3>2. Carries(out, llvm.funcs, n) /\ at \in Nat
      BY <3>1 DEF Copied, Program
    <3>. QED
      BY <3>1, <3>2
  <2> DEFINE a == spv.aux[at]
             g == out.funcs[a.f]
             o == [out EXCEPT !.funcs[a.f] = [g EXCEPT !.attr = Merge(<<g.attr, a.attr>>),
                                                       !.md = Merge(<<g.md, a.md>>),
                                                       !.avail = g.avail \/ a.avail]]
  <2>2. out' = IF opt.aux THEN o ELSE out
    BY <1>9, Zenon DEF ReadAuxData
  <2>3. Carries(o, llvm.funcs, n)
    BY <2>1, CarriesAux
  <2> HIDE DEF o
  <2>4. Carries(out', llvm.funcs, n)
    BY <2>1, <2>2, <2>3
  <2>. QED
    BY <1>2, <1>3, <2>1, <2>4
    DEF Program, Copied, Quiet, Deciders, Undecided, Late, Funcs
<1>10. CASE FinishReading
  <2>1. Carries(out, llvm.funcs, n) /\ pc = "readAux" /\ pc' = "done" /\ at' = 1
        /\ UNCHANGED <<spv, out>>
    BY <1>10 DEF FinishReading, Phase, Copied
  <2>. QED
    BY <1>2, <1>3, <2>1 DEF Program, Copied, Quiet, Deciders, Undecided, Late, Funcs
<1>. QED
  BY <1>5, <1>6, <1>7, <1>8, <1>9, <1>10

-----------------------------------------------------------------------------
(* Steps that do decide.                                                   *)

Decided == Deciding /\ Reasoned /\ OwnMet /\ UsersMet

LEMMA QuietDecides ==
  ASSUME ContractInv, Quiet
  PROVE  Decided'
<1>1. Funcs' = Funcs /\ fpc' = fpc /\ queue' = queue
  BY DEF Quiet, Funcs
<1>2. pc' \notin {"bodies", "propagate"}
  BY DEF Quiet, Deciders
<1>3. Deciding'
  BY <1>1, <1>2 DEF Quiet, ContractInv, Deciding
<1>4. Reasoned'
  BY <1>1, <1>2 DEF Quiet, ContractInv, Reasoned, Marked
<1>5. OwnMet' /\ UsersMet'
  BY <1>2 DEF OwnMet, UsersMet
<1>. QED
  BY <1>3, <1>4, <1>5 DEF Decided

\* What a body holds.
LEMMA ItemTypes ==
  ASSUME Program, NEW i \in Funcs, NEW j \in 1 .. Len(llvm.funcs[i].body)
  PROVE  /\ Item(i, j).k \in Kinds /\ Item(i, j).g \in 0 .. Len(llvm.funcs)
         /\ Item(i, j).k = "call" => Item(i, j).g \in Funcs
<1>1. /\ llvm.funcs[i].body \in Seq([k : Kinds, g : 0 .. Len(llvm.funcs)])
      /\ Item(i, j).k = "call" => Item(i, j).g # 0
      /\ Len(llvm.funcs) \in Nat
  BY DEF Program, WellFormed, Funcs, Item
<1> DEFINE x == Item(i, j)
<1>2. x \in [k : Kinds, g : 0 .. Len(llvm.funcs)]
  <2> DEFINE b == llvm.funcs[i].body
             S == [k : Kinds, g : 0 .. Len(llvm.funcs)]
  <2>1. b \in Seq(S) /\ j \in 1 .. Len(b) /\ x = b[j]
    BY <1>1 DEF Item
  <2> HIDE DEF b, S
  <2>2. b[j] \in S
    BY <2>1, LenProperties
  <2>. QED
    BY <2>1, <2>2 DEF S
<1>3. x.k = "call" => x.g # 0
  BY <1>1
<1> HIDE DEF x
<1>4. x.k \in Kinds /\ x.g \in 0 .. Len(llvm.funcs)
  BY <1>2
<1>5. x.k = "call" => x.g \in Funcs
  BY <1>1, <1>3, <1>4 DEF Funcs
<1>. QED
  BY <1>4, <1>5 DEF x

LEMMA Earlier ==
  ASSUME Program, at \in Funcs
  PROVE  /\ Len(llvm.funcs) \in Nat \ {0} /\ at \in 1 .. Len(llvm.funcs)
         /\ \A i \in 1 .. at - 1 : i \in Funcs
<1>1. Len(llvm.funcs) \in Nat \ {0}
  BY DEF Program, WellFormed
<1>. QED
  BY <1>1 DEF Funcs

\* A function that uses another has instructions: it is defined.
LEMMA UserDefined ==
  ASSUME Program, NEW i \in Funcs, NEW g, Uses(i, g)
  PROVE  ~llvm.funcs[i].decl
<1>1. llvm.funcs[i].decl => Len(llvm.funcs[i].body) = 0
  BY DEF Program, WellFormed, Funcs
<1>. QED
  BY <1>1 DEF Uses

LEMMA UsersAre ==
  ASSUME Program, NEW g
  PROVE  /\ IsFiniteSet(Users(g)) /\ Users(g) \subseteq Funcs
         /\ \A i \in Funcs : i \in Users(g) <=> Uses(i, g)
<1>1. Len(llvm.funcs) \in Nat
  BY DEF Program, WellFormed
<1>2. IsFiniteSet(Funcs)
  BY <1>1, FS_Interval DEF Funcs
<1>3. Users(g) \subseteq Funcs
  BY DEF Users
<1>4. ASSUME NEW i \in Funcs PROVE i \in Users(g) <=> Uses(i, g)
  <2>1. llvm.funcs[i].body \in Seq([k : Kinds, g : 0 .. Len(llvm.funcs)])
    BY DEF Program, WellFormed, Funcs
  <2>2. DOMAIN llvm.funcs[i].body = 1 .. Len(llvm.funcs[i].body)
    BY <2>1, LenProperties
  <2>. QED
    BY <2>2 DEF Users, Uses, Item, ToSet
<1>. QED
  BY <1>2, <1>3, <1>4, FS_Subset

LEMMA DeclareStep ==
  ASSUME ContractInv, TransFunctionDecl
  PROVE  ContractInv'
<1> DEFINE n == Len(llvm.funcs)
           f == llvm.funcs[at]
           bf == [name |-> f.name, kernel |-> f.kernel, decl |-> f.decl, avail |-> f.avail,
                  body |-> f.body, fcm |-> ControlMask(opt, f), modes |-> <<>>,
                  decs |-> AnnotationDecs(at) \o VectorComputeDecs(opt, f)
                             \o transFPGAFunctionMetadata(opt, f) \o UserSemanticDecs(f),
                  params |-> [j \in 1 .. Len(f.params) |->
                                [name |-> f.params[j].name, kind |-> f.params[j].kind,
                                 type |-> f.params[j].type, decs |-> ParamDecs(opt, f, j)]]]
           s == [spv EXCEPT !.funcs = Append(@, bf), !.aux = @ \o AuxData(opt, at, f)]
<1>1. n \in Nat \ {0} /\ at \in 1 .. n /\ Carries(spv, llvm.funcs, at - 1) /\ pc = "declare"
  BY DEF TransFunctionDecl, ContractInv, Program, Copied, WellFormed, Funcs
<1>2. spv' = AddModes(s, at, RegisterModes(opt, f))
  BY Zenon DEF TransFunctionDecl
<1>3. /\ "decl" \in DOMAIN bf /\ "body" \in DOMAIN bf
      /\ bf.decl = llvm.funcs[at].decl /\ bf.body = llvm.funcs[at].body
  OBVIOUS
<1> HIDE DEF bf
<1>4. Carries(s, llvm.funcs, at)
  <2>1. at - 1 + 1 = at
    BY <1>1
  <2>2. Carries(s, llvm.funcs, at - 1 + 1)
    BY <1>1, <1>3, <2>1, CarriesDeclared
  <2>. QED
    BY <2>1, <2>2
<1> HIDE DEF s
<1>5. Carries(spv', llvm.funcs, at)
  BY <1>2, <1>4, CarriesModes
<1>6. /\ UNCHANGED <<llvm, fpc, queue>> /\ it' = 1
      /\ IF at < n THEN at' = at + 1 /\ pc' = pc ELSE at' = 1 /\ pc' = "bodies"
  BY DEF TransFunctionDecl, Advance
<1>7. Program' /\ Copied'
  <2>1. CASE at < n
    BY <1>1, <1>5, <1>6, <2>1 DEF ContractInv, Program, Copied, Late, Funcs, Undecided
  <2>2. CASE ~(at < n)
    <3>1. at = n
      BY <1>1, <2>2
    <3>. QED
      BY <1>1, <1>5, <1>6, <2>2, <3>1 DEF ContractInv, Program, Copied, Late, Funcs, Undecided
  <2>. QED
    BY <2>1, <2>2
<1>8. \A i \in Funcs : fpc[i] = "UNDEF"
  BY <1>1 DEF ContractInv, Deciding, Undecided
<1>9. Decided'
  <2>1. Funcs' = Funcs /\ fpc' = fpc /\ pc' \in {"declare", "bodies"}
    BY <1>1, <1>6 DEF Funcs
  <2>2. \A i \in Funcs' : ~Marked(i)'
    BY <1>8, <2>1 DEF Marked
  <2>3. Deciding'
    BY <1>6, <1>8, <2>1 DEF ContractInv, Deciding
  <2>4. Reasoned' /\ UsersMet'
    BY <2>1, <2>2 DEF Reasoned, UsersMet
  <2>5. OwnMet'
    BY <1>1, <1>6, <2>1 DEF OwnMet
  <2>. QED
    BY <2>3, <2>4, <2>5 DEF Decided
<1>. QED
  BY <1>7, <1>9 DEF ContractInv, Decided

\* Joining marks a function exactly when it was marked or DISABLED comes in.
LEMMA JoinMarks ==
  ASSUME NEW old \in Contracts, NEW new \in Contracts
  PROVE  /\ Join(old, new) \in Contracts
         /\ Join(old, new) = "DISABLED" <=> old = "DISABLED" \/ new = "DISABLED"
         /\ new # "UNDEF" => Join(old, new) # "UNDEF"
BY DEF Join, Contracts

LEMMA SeenFacts ==
  ASSUME Program, Deciding, at \in Funcs, it \in 1 .. Len(Body)
  PROVE  /\ Seen \in Contracts
         /\ OwnReason(at, it) => Seen = "DISABLED"
         /\ Seen = "DISABLED" =>
              OwnReason(at, it) \/ \E g \in Funcs : Marked(g) /\ Uses(at, g)
<1> DEFINE x == Item(at, it)
<1>1. /\ x.k \in Kinds
      /\ x.k = "call" => x.g \in Funcs
  BY ItemTypes DEF Body
<1>2. x = Body[it]
  BY DEF Item, Body
<1>3. x.k = "call" => fpc[x.g] \in Contracts /\ llvm.funcs[x.g].decl \in BOOLEAN
  BY <1>1 DEF Deciding, Program, WellFormed, Funcs
<1>4. x.k = "call" => Uses(at, x.g)
  BY DEF Uses, Body
<1> HIDE DEF x
<1>5. CASE x.k \in {"muladd", "asm", "indirect"}
  <2>1. Seen = "DISABLED"
    BY <1>2, <1>5 DEF Seen, Opaque
  <2>2. OwnReason(at, it)
    BY <1>5 DEF OwnReason, x
  <2>. QED
    BY <2>1, <2>2 DEF Contracts
<1>6. CASE x.k = "call"
  <2>1. Seen = IF llvm.funcs[x.g].decl THEN "DISABLED" ELSE fpc[x.g]
    BY <1>2, <1>6 DEF Seen, Opaque
  <2>2. OwnReason(at, it) <=> llvm.funcs[x.g].decl
    BY <1>6 DEF OwnReason, x
  <2>. QED
    BY <1>1, <1>3, <1>4, <1>6, <2>1, <2>2 DEF Contracts, Marked
<1>7. CASE x.k = "ref"
  <2>1. Seen = "UNDEF"
    BY <1>2, <1>7 DEF Seen, Opaque
  <2>2. ~OwnReason(at, it)
    BY <1>7 DEF OwnReason, x
  <2>. QED
    BY <2>1, <2>2 DEF Contracts
<1>. QED
  BY <1>1, <1>5, <1>6, <1>7 DEF Kinds

LEMMA InstructionFacts ==
  ASSUME ContractInv, TransInstruction
  PROVE  /\ pc = "bodies" /\ at \in Funcs /\ ~llvm.funcs[at].decl /\ it \in 1 .. Len(Body)
         /\ fpc' = [fpc EXCEPT ![at] = Join(@, Seen)] /\ fpc' \in [Funcs -> Contracts]
         /\ UNCHANGED <<llvm, spv, out, queue, pc, at>> /\ it' = it + 1
         /\ Seen \in Contracts
         /\ \A i \in Funcs : Marked(i)' <=> Marked(i) \/ (i = at /\ Seen = "DISABLED")
<1>1. /\ pc = "bodies" /\ at \in Funcs /\ ~llvm.funcs[at].decl /\ it \in 1 .. Len(Body)
      /\ UNCHANGED <<llvm, spv, out, queue, pc, at>> /\ it' = it + 1
  <2>1. it \in Nat \ {0} /\ at \in Funcs /\ it <= Len(Body)
    BY DEF TransInstruction, ContractInv, Program
  <2>2. Len(Body) \in Nat
    <3>1. Body \in Seq([k : Kinds, g : 0 .. Len(llvm.funcs)])
      BY <2>1 DEF ContractInv, Program, WellFormed, Funcs, Body
    <3>. QED
      BY <3>1, LenProperties
  <2>. QED
    BY <2>1, <2>2 DEF TransInstruction
<1>2. fpc' = [fpc EXCEPT ![at] = Join(@, Seen)]
  BY Zenon DEF TransInstruction
<1>3. Seen \in Contracts /\ fpc \in [Funcs -> Contracts]
  BY <1>1, SeenFacts DEF ContractInv, Deciding
<1>4. /\ Join(fpc[at], Seen) \in Contracts
      /\ Join(fpc[at], Seen) = "DISABLED" <=> fpc[at] = "DISABLED" \/ Seen = "DISABLED"
  BY <1>1, <1>3, JoinMarks
<1>. QED
  BY <1>1, <1>2, <1>3, <1>4 DEF Marked

LEMMA InstructionStep ==
  ASSUME ContractInv, TransInstruction
  PROVE  ContractInv'
<1> USE InstructionFacts
<1>1. Program' /\ Copied'
  BY DEF ContractInv, Program, Copied, Funcs
<1>2. Funcs' = Funcs
  BY DEF Funcs
<1>3. \A i, g : Uses(i, g)' <=> Uses(i, g)
  BY DEF Uses, Item
<1>4. \A i, j : OwnReason(i, j)' <=> OwnReason(i, j)
  BY DEF OwnReason, Item
<1>5. \A i \in Funcs : Marked(i) => Marked(i)'
  OBVIOUS
<1>6. Deciding'
  BY <1>2 DEF ContractInv, Deciding, Undecided
<1>7. Reasoned'
  BY <1>2 DEF ContractInv, Reasoned
<1>8. OwnMet'
  <2>1. \A i \in 1 .. at - 1 : i \in Funcs
    BY Earlier DEF ContractInv
  <2>2. \A i \in 1 .. at - 1 : \A j \in 1 .. Len(llvm.funcs[i].body) :
          OwnReason(i, j) => Marked(i)'
    BY <1>5, <2>1 DEF ContractInv, OwnMet
  <2>3. ASSUME NEW j \in 1 .. Len(Body), j < it + 1, OwnReason(at, j)
        PROVE  Marked(at)'
    <3>1. CASE j = it
      BY <2>3, <3>1, SeenFacts DEF ContractInv
    <3>2. CASE j # it
      <4>1. j < it
        BY <2>3, <3>2
      <4>2. Marked(at)
        BY <2>3, <4>1 DEF ContractInv, OwnMet
      <4>. QED
        BY <1>5, <4>2
    <3>. QED
      BY <3>1, <3>2
  <2>. QED
    BY <1>4, <2>2, <2>3 DEF OwnMet, Body
<1>9. UsersMet'
  <2> SUFFICES ASSUME NEW i \in Funcs, NEW g \in Funcs, Marked(g)', Uses(i, g)
               PROVE  Marked(i)' \/ g = at
    BY <1>2, <1>3 DEF UsersMet
  <2>. QED
    BY <1>5 DEF ContractInv, UsersMet
<1>. QED
  BY <1>1, <1>6, <1>7, <1>8, <1>9 DEF ContractInv

\* The users of a function that is done go into the queue.
LEMMA FinishStep ==
  ASSUME ContractInv, FinishFunction
  PROVE  ContractInv' /\ (\A i \in Funcs : Marked(i)' <=> Marked(i))
<1> DEFINE us == SetToSeq(Users(at))
<1>1. /\ pc = "bodies" /\ pc' = "propagate" /\ at \in Funcs /\ it > Len(Body)
      /\ ~llvm.funcs[at].decl
      /\ fpc' = [fpc EXCEPT ![at] = Join(@, "ENABLED")] /\ queue' = us
      /\ UNCHANGED <<llvm, spv, out, at, it>>
  BY DEF FinishFunction, ContractInv, Program
<1>2. us \in Seq(Funcs) /\ (\A q \in 1 .. Len(us) : us[q] \in Funcs /\ Uses(us[q], at))
  <2>1. /\ us \in Seq(Users(at)) /\ Users(at) \subseteq Funcs
        /\ \A i \in Funcs : i \in Users(at) <=> Uses(i, at)
    BY UsersAre, Listed DEF ContractInv
  <2> HIDE DEF us
  <2>2. us \in Seq(Funcs)
    BY <2>1
  <2>3. \A q \in 1 .. Len(us) : us[q] \in Users(at)
    BY <2>1
  <2>. QED
    BY <2>1, <2>2, <2>3
<1>3. \A i \in Funcs : Uses(i, at) => \E q \in 1 .. Len(us) : us[q] = i
  BY UsersAre, Listed DEF ContractInv
<1> HIDE DEF us
<1>4. fpc \in [Funcs -> Contracts] /\ "ENABLED" \in Contracts
  BY DEF ContractInv, Deciding, Contracts
<1>5. /\ Join(fpc[at], "ENABLED") \in Contracts
      /\ Join(fpc[at], "ENABLED") = "DISABLED" <=> fpc[at] = "DISABLED"
      /\ Join(fpc[at], "ENABLED") # "UNDEF"
  BY <1>1, <1>4, JoinMarks
<1>6. /\ fpc' \in [Funcs -> Contracts] /\ fpc'[at] # "UNDEF"
      /\ \A i \in Funcs : Marked(i)' <=> Marked(i)
  BY <1>1, <1>4, <1>5 DEF Marked
<1>7. Funcs' = Funcs
  BY <1>1 DEF Funcs
<1>8. \A i, g : Uses(i, g)' <=> Uses(i, g)
  BY <1>1 DEF Uses, Item
<1>9. \A i, j : OwnReason(i, j)' <=> OwnReason(i, j)
  BY <1>1 DEF OwnReason, Item
<1>10. Program' /\ Copied'
  BY <1>1 DEF ContractInv, Program, Copied, Funcs
<1>11. Deciding'
  BY <1>1, <1>2, <1>6, <1>7 DEF Deciding, Undecided
<1>12. Reasoned'
  <2>1. \A i \in Funcs : Marked(i)' => ~llvm.funcs[i].decl
    BY <1>6 DEF ContractInv, Reasoned
  <2>2. Marked(at)' => \A q \in 1 .. Len(us) : \E g \in Funcs : Marked(g)' /\ Uses(us[q], g)
    BY <1>1, <1>2
  <2>. QED
    BY <1>1, <1>7, <1>8, <2>1, <2>2 DEF Reasoned, Marked
<1>13. OwnMet'
  <2>1. \A i \in 1 .. at - 1 : i \in Funcs
    BY <1>1, Earlier DEF ContractInv
  <2>2. \A i \in 1 .. at - 1 : \A j \in 1 .. Len(llvm.funcs[i].body) :
          OwnReason(i, j) => Marked(i)'
    BY <1>1, <1>6, <2>1 DEF ContractInv, OwnMet
  <2>3. \A j \in 1 .. Len(Body) : j < it
    <3>1. Body \in Seq([k : Kinds, g : 0 .. Len(llvm.funcs)])
      BY <1>1 DEF ContractInv, Program, WellFormed, Funcs, Body
    <3>2. Len(Body) \in Nat /\ it \in Nat
      BY <3>1, LenProperties DEF ContractInv, Program
    <3>. QED
      BY <1>1, <3>2
  <2>4. \A j \in 1 .. Len(Body) : OwnReason(at, j) => Marked(at)'
    BY <1>1, <1>6, <2>3 DEF ContractInv, OwnMet
  <2>. QED
    BY <1>1, <1>9, <2>2, <2>4 DEF OwnMet, Body
<1>14. UsersMet'
  <2> SUFFICES ASSUME NEW i \in Funcs, NEW g \in Funcs, Marked(g), Uses(i, g)
               PROVE  \/ Marked(i)
                      \/ Marked(at) /\ \E q \in 1 .. Len(us) : us[q] = i
    BY <1>1, <1>6, <1>7, <1>8 DEF UsersMet, Marked
  <2>1. CASE g = at
    BY <1>3, <2>1
  <2>2. CASE g # at
    BY <1>1, <2>2 DEF ContractInv, UsersMet
  <2>. QED
    BY <2>1, <2>2
<1>. QED
  BY <1>6, <1>10, <1>11, <1>12, <1>13, <1>14 DEF ContractInv

In(x, s) == \E q \in 1 .. Len(s) : s[q] = x

\* The head leaves the queue, others come in at its end.
LEMMA QueueParts ==
  ASSUME NEW S, NEW s \in Seq(S), s # <<>>, NEW t \in Seq(S)
  PROVE  /\ Head(s) \in S /\ Tail(s) \o t \in Seq(S)
         /\ \A x : In(x, s) => x = Head(s) \/ In(x, Tail(s) \o t)
         /\ \A x : In(x, t) => In(x, Tail(s) \o t)
         /\ \A x : In(x, Tail(s) \o t) => In(x, s) \/ In(x, t)
<1> DEFINE r == Tail(s)
           u == r \o t
<1>1. /\ Len(s) \in Nat \ {0} /\ r \in Seq(S) /\ Len(r) = Len(s) - 1
      /\ Head(s) = s[1] /\ Head(s) \in S
      /\ \A q \in 1 .. Len(r) : r[q] = s[q + 1]
  OBVIOUS
<1>2. Len(t) \in Nat
  OBVIOUS
<1> HIDE DEF r
<1>3. /\ u \in Seq(S) /\ Len(u) = Len(r) + Len(t)
      /\ \A q \in 1 .. Len(r) : u[q] = r[q]
      /\ \A q \in Len(r) + 1 .. Len(r) + Len(t) : u[q] = t[q - Len(r)]
  <2>1. /\ u \in Seq(S) /\ Len(u) = Len(r) + Len(t)
        /\ \A q \in 1 .. Len(r) + Len(t) : u[q] = IF q <= Len(r) THEN r[q] ELSE t[q - Len(r)]
    BY <1>1, ConcatProperties
  <2>2. Len(r) \in Nat
    BY <1>1
  <2> HIDE DEF u
  <2>3. \A q \in 1 .. Len(r) : q \in 1 .. Len(r) + Len(t) /\ q <= Len(r)
    BY <1>2, <2>2
  <2>4. \A q \in Len(r) + 1 .. Len(r) + Len(t) : q \in 1 .. Len(r) + Len(t) /\ ~(q <= Len(r))
    BY <1>2, <2>2
  <2>. QED
    BY <2>1, <2>3, <2>4
<1> HIDE DEF u
<1>4. ASSUME NEW x, In(x, s), x # Head(s) PROVE In(x, u)
  <2>1. PICK q \in 1 .. Len(s) : s[q] = x
    BY <1>4 DEF In
  <2>2. q # 1
    BY <1>1, <1>4, <2>1
  <2>3. q - 1 \in 1 .. Len(r) /\ q - 1 + 1 = q /\ q - 1 \in 1 .. Len(u)
    BY <1>1, <1>2, <1>3, <2>1, <2>2
  <2>4. u[q - 1] = x
    BY <1>1, <1>3, <2>1, <2>3
  <2>. QED
    BY <2>3, <2>4 DEF In
<1>5. ASSUME NEW x, In(x, t) PROVE In(x, u)
  <2>1. PICK q \in 1 .. Len(t) : t[q] = x
    BY <1>5 DEF In
  <2>2. /\ q + Len(r) \in Len(r) + 1 .. Len(r) + Len(t) /\ q + Len(r) - Len(r) = q
        /\ q + Len(r) \in 1 .. Len(u)
    BY <1>1, <1>2, <1>3, <2>1
  <2>3. u[q + Len(r)] = x
    BY <1>3, <2>1, <2>2
  <2>. QED
    BY <2>2, <2>3 DEF In
<1>6. ASSUME NEW x, In(x, u) PROVE In(x, s) \/ In(x, t)
  <2>1. PICK q \in 1 .. Len(u) : u[q] = x
    BY <1>6 DEF In
  <2>2. CASE q \in 1 .. Len(r)
    <3>1. s[q + 1] = x /\ q + 1 \in 1 .. Len(s)
      BY <1>1, <1>3, <2>1, <2>2
    <3>. QED
      BY <3>1 DEF In
  <2>3. CASE q \notin 1 .. Len(r)
    <3>1. q \in Len(r) + 1 .. Len(r) + Len(t) /\ q - Len(r) \in 1 .. Len(t)
      BY <1>1, <1>2, <1>3, <2>1, <2>3
    <3>2. t[q - Len(r)] = x
      BY <1>3, <2>1, <3>1
    <3>. QED
      BY <3>1, <3>2 DEF In
  <2>. QED
    BY <2>2, <2>3
<1>. QED
  BY <1>1, <1>3, <1>4, <1>5, <1>6 DEF u, r

LEMMA PropagateFacts ==
  ASSUME ContractInv, PropagateContract
  PROVE  LET g == Head(queue)
         IN  /\ pc = "propagate" /\ at \in Funcs /\ queue # <<>> /\ g \in Funcs
             /\ UNCHANGED <<llvm, spv, out, pc, at, it>>
             /\ fpc' \in [Funcs -> Contracts] /\ fpc'[at] = fpc[at]
             /\ queue' \in Seq(Funcs)
             /\ \A i \in Funcs : Marked(i)' <=> Marked(i) \/ (i = g /\ Marked(at))
             /\ \A x : In(x, queue) => x = g \/ In(x, queue')
             /\ ~Marked(g) /\ Marked(at) =>
                  \A x \in Funcs : Uses(x, g) => In(x, queue')
             /\ \A x : In(x, queue') =>
                  In(x, queue) \/ (fpc'[g] # fpc[g] /\ x \in Funcs /\ Uses(x, g))
<1> DEFINE g == Head(queue)
           new == Join(fpc[g], fpc[at])
           us == SetToSeq(Users(g))
           t == If(new # fpc[g], us)
<1>1. /\ pc = "propagate" /\ at \in Funcs /\ queue # <<>>
      /\ UNCHANGED <<llvm, spv, out, pc, at, it>>
      /\ fpc' = [fpc EXCEPT ![g] = new] /\ queue' = Tail(queue) \o t
  BY DEF PropagateContract, ContractInv, Program
<1>2. queue \in Seq(Funcs) /\ fpc \in [Funcs -> Contracts] /\ fpc[at] # "UNDEF"
  BY <1>1 DEF ContractInv, Deciding
<1>3. /\ us \in Seq(Users(g)) /\ Users(g) \subseteq Funcs
      /\ \A x \in Users(g) : In(x, us)
      /\ \A i \in Funcs : i \in Users(g) <=> Uses(i, g)
  BY UsersAre, Listed DEF ContractInv, In
<1> HIDE DEF us
<1>4. us \in Seq(Funcs) /\ (\A x : In(x, us) => x \in Users(g))
  BY <1>3 DEF In
<1>5. /\ t \in Seq(Funcs)
      /\ \A x : In(x, t) => new # fpc[g] /\ In(x, us)
      /\ \A x : In(x, us) /\ new # fpc[g] => In(x, t)
  <2>1. CASE new # fpc[g]
    BY <1>4, <2>1 DEF If
  <2>2. CASE new = fpc[g]
    <3>1. t = <<>>
      BY <2>2 DEF If
    <3>2. <<>> \in Seq(Funcs) /\ \A x : ~In(x, <<>>)
      BY DEF In
    <3>. QED
      BY <2>2, <3>1, <3>2
  <2>. QED
    BY <2>1, <2>2
<1> HIDE DEF t
<1>6. /\ g \in Funcs /\ queue' \in Seq(Funcs)
      /\ \A x : In(x, queue) => x = g \/ In(x, queue')
      /\ \A x : In(x, t) => In(x, queue')
      /\ \A x : In(x, queue') => In(x, queue) \/ In(x, t)
  BY <1>1, <1>2, <1>5, QueueParts
<1> HIDE DEF g
<1>7. /\ new \in Contracts
      /\ new = "DISABLED" <=> fpc[g] = "DISABLED" \/ fpc[at] = "DISABLED"
  BY <1>1, <1>2, <1>6, JoinMarks
<1>8. g = at => new = fpc[at]
  BY <1>2 DEF Join
<1> HIDE DEF new
<1>9. /\ fpc' \in [Funcs -> Contracts] /\ fpc'[at] = fpc[at] /\ fpc'[g] = new
      /\ \A i \in Funcs : Marked(i)' <=> Marked(i) \/ (i = g /\ Marked(at))
  BY <1>1, <1>2, <1>6, <1>7, <1>8 DEF Marked
<1>10. ~Marked(g) /\ Marked(at) => \A x \in Funcs : Uses(x, g) => In(x, queue')
  BY <1>3, <1>5, <1>6, <1>7 DEF Marked
<1>11. \A x : In(x, queue') =>
         In(x, queue) \/ (fpc'[g] # fpc[g] /\ x \in Funcs /\ Uses(x, g))
  BY <1>3, <1>4, <1>5, <1>6, <1>9
<1>. QED
  BY <1>1, <1>6, <1>9, <1>10, <1>11 DEF g

LEMMA PropagateStep ==
  ASSUME ContractInv, PropagateContract
  PROVE  ContractInv'
<1> DEFINE g == Head(queue)
<1>1. /\ pc = "propagate" /\ at \in Funcs /\ queue # <<>> /\ g \in Funcs
      /\ UNCHANGED <<llvm, spv, out, pc, at, it>>
      /\ fpc' \in [Funcs -> Contracts] /\ fpc'[at] = fpc[at]
      /\ queue' \in Seq(Funcs)
  BY PropagateFacts
<1>2. \A i \in Funcs : Marked(i)' <=> Marked(i) \/ (i = g /\ Marked(at))
  BY PropagateFacts
<1>3. /\ \A x : In(x, queue) => x = g \/ In(x, queue')
      /\ ~Marked(g) /\ Marked(at) => \A x \in Funcs : Uses(x, g) => In(x, queue')
      /\ \A x : In(x, queue') =>
           In(x, queue) \/ (fpc'[g] # fpc[g] /\ x \in Funcs /\ Uses(x, g))
  BY PropagateFacts
<1>4. In(g, queue)
  <2>1. queue \in Seq(Funcs)
    BY DEF ContractInv, Deciding
  <2>2. Head(queue) = queue[1] /\ 1 \in 1 .. Len(queue)
    BY <1>1, <2>1
  <2>. QED
    BY <2>2 DEF In
<1> HIDE DEF g
<1>5. Funcs' = Funcs
  BY <1>1 DEF Funcs
<1>6. \A i, h : Uses(i, h)' <=> Uses(i, h)
  BY <1>1 DEF Uses, Item
<1>7. \A i, j : OwnReason(i, j)' <=> OwnReason(i, j)
  BY <1>1 DEF OwnReason, Item
<1>8. \A i \in Funcs : Marked(i) => Marked(i)'
  BY <1>2
<1>9. Program' /\ Copied'
  BY <1>1 DEF ContractInv, Program, Copied, Funcs
<1>10. Deciding'
  BY <1>1, <1>5 DEF ContractInv, Deciding, Undecided
<1>11. Marked(at) => \A x : In(x, queue) => \E h \in Funcs : Marked(h) /\ Uses(x, h)
  BY <1>1 DEF ContractInv, Reasoned, In
<1>12. Reasoned'
  <2>1. \A i \in Funcs : Marked(i)' => ~llvm.funcs[i].decl
    <3>1. Marked(at) => ~llvm.funcs[g].decl
      BY <1>1, <1>4, <1>11, UserDefined DEF ContractInv
    <3>. QED
      BY <1>2, <3>1 DEF ContractInv, Reasoned
  <2>2. ASSUME Marked(at)', NEW x, In(x, queue')
        PROVE  \E h \in Funcs : Marked(h)' /\ Uses(x, h)
    <3>1. Marked(at)
      BY <1>1, <2>2 DEF Marked
    <3>2. CASE In(x, queue)
      BY <1>8, <1>11, <3>1, <3>2
    <3>3. CASE Uses(x, g)
      BY <1>1, <1>2, <3>1, <3>3
    <3>. QED
      BY <1>3, <2>2, <3>2, <3>3
  <2>3. Marked(at)' => \A q \in 1 .. Len(queue') : \E h \in Funcs : Marked(h)' /\ Uses(queue'[q], h)
    BY <2>2 DEF In
  <2>. QED
    BY <1>1, <1>5, <1>6, <2>1, <2>3 DEF Reasoned, Marked
<1>13. OwnMet'
  <2>1. \A i \in 1 .. at - 1 : i \in Funcs
    BY <1>1, Earlier DEF ContractInv
  <2>2. \A i \in 1 .. at - 1 : \A j \in 1 .. Len(llvm.funcs[i].body) :
          OwnReason(i, j) => Marked(i)'
    BY <1>1, <1>8, <2>1 DEF ContractInv, OwnMet
  <2>3. \A j \in 1 .. Len(Body) : OwnReason(at, j) => Marked(at)'
    BY <1>1, <1>8 DEF ContractInv, OwnMet
  <2>. QED
    BY <1>1, <1>7, <2>2, <2>3 DEF OwnMet, Body
<1>14. UsersMet'
  <2>1. ASSUME NEW i \in Funcs, NEW h \in Funcs, Marked(h)', Uses(i, h)
        PROVE  Marked(i)' \/ (Marked(at) /\ In(i, queue'))
    <3>1. CASE Marked(h)
      <4>1. Marked(i) \/ (Marked(at) /\ In(i, queue))
        BY <1>1, <2>1, <3>1 DEF ContractInv, UsersMet, In
      <4>. QED
        BY <1>1, <1>2, <1>3, <4>1
    <3>2. CASE ~Marked(h)
      <4>1. h = g /\ Marked(at)
        BY <1>2, <2>1, <3>2
      <4>. QED
        BY <1>3, <2>1, <3>2, <4>1
    <3>. QED
      BY <3>1, <3>2
  <2>2. Marked(at)' <=> Marked(at)
    BY <1>1 DEF Marked
  <2>. QED
    BY <1>1, <1>5, <1>6, <2>1, <2>2 DEF UsersMet, In
<1>. QED
  BY <1>9, <1>10, <1>12, <1>13, <1>14 DEF ContractInv

\* An empty queue: nothing is left to be met.
Closed ==
  /\ \A i \in Funcs : (\E j \in 1 .. Len(llvm.funcs[i].body) : OwnReason(i, j)) => Marked(i)
  /\ \A i, g \in Funcs : Marked(g) /\ Uses(i, g) => Marked(i)

LEMMA FunctionStep ==
  ASSUME ContractInv, NextFunction
  PROVE  ContractInv' /\ (pc' = "ocl" => Closed)
<1>1. /\ pc \in {"bodies", "propagate"} /\ at \in Funcs
      /\ pc = "bodies" => llvm.funcs[at].decl
      /\ pc = "propagate" => queue = <<>>
      /\ UNCHANGED <<llvm, spv, out, fpc, queue>> /\ it' = 1
      /\ IF at < Len(llvm.funcs) THEN at' = at + 1 /\ pc' = "bodies"
                                 ELSE at' = 1 /\ pc' = "ocl"
  BY DEF NextFunction, Phase, ContractInv, Program
<1>2. Len(llvm.funcs) \in Nat \ {0} /\ at \in 1 .. Len(llvm.funcs)
  BY <1>1, Earlier DEF ContractInv
<1>3. pc = "bodies" => Len(llvm.funcs[at].body) = 0 /\ ~Marked(at)
  <2>1. llvm.funcs[at].decl => Len(llvm.funcs[at].body) = 0
    BY <1>1 DEF ContractInv, Program, WellFormed, Funcs
  <2>. QED
    BY <1>1, <2>1 DEF ContractInv, Reasoned
<1>4. \A i \in 1 .. at : \A j \in 1 .. Len(llvm.funcs[i].body) : OwnReason(i, j) => Marked(i)
  <2>1. \A j \in 1 .. Len(llvm.funcs[at].body) : OwnReason(at, j) => Marked(at)
    BY <1>1, <1>3 DEF ContractInv, OwnMet, Body
  <2>2. \A i \in 1 .. at : i = at \/ i \in 1 .. at - 1
    BY <1>2
  <2>. QED
    BY <1>1, <2>1, <2>2 DEF ContractInv, OwnMet
<1>5. \A i, g \in Funcs : Marked(g) /\ Uses(i, g) => Marked(i)
  <2>1. pc = "propagate" => Len(queue) = 0
    BY <1>1
  <2>. QED
    BY <1>1, <1>3, <2>1 DEF ContractInv, UsersMet
<1>6. Program' /\ Copied'
  BY <1>1, <1>2 DEF ContractInv, Program, Copied, Funcs, Late
<1>7. Deciding' /\ Reasoned'
  BY <1>1 DEF ContractInv, Deciding, Reasoned, Marked, Funcs, Undecided
<1>8. UsersMet'
  <2>1. Funcs' = Funcs /\ \A i, g : (Uses(i, g)' <=> Uses(i, g)) /\ (Marked(i)' <=> Marked(i))
    BY <1>1 DEF Funcs, Uses, Item, Marked
  <2>. QED
    BY <1>5, <2>1 DEF UsersMet
<1>9. OwnMet'
  <2>1. \A i, j : (OwnReason(i, j)' <=> OwnReason(i, j)) /\ (Marked(i)' <=> Marked(i))
    BY <1>1 DEF OwnReason, Item, Marked
  <2>2. CASE at < Len(llvm.funcs)
    <3>1. at' = at + 1 /\ pc' = "bodies" /\ it' = 1 /\ llvm' = llvm
      BY <1>1, <2>2
    <3>2. \A i \in 1 .. at' - 1 : i \in 1 .. at
      BY <1>2, <3>1
    <3>. QED
      BY <1>4, <2>1, <3>1, <3>2 DEF OwnMet
  <2>3. CASE ~(at < Len(llvm.funcs))
    BY <1>1, <2>3 DEF OwnMet
  <2>. QED
    BY <2>2, <2>3
<1>10. pc' = "ocl" => Closed
  <2>1. pc' = "ocl" => at = Len(llvm.funcs)
    BY <1>1, <1>2
  <2>. QED
    BY <1>4, <1>5, <2>1 DEF Closed, Funcs
<1>. QED
  BY <1>6, <1>7, <1>8, <1>9, <1>10 DEF ContractInv

LEMMA CopyWellFormed ==
  ASSUME NEW fs, NEW gs, WellFormed(gs), Copy(fs, gs, Len(gs))
  PROVE  /\ WellFormed(fs) /\ Len(fs) = Len(gs)
         /\ \A i \in 1 .. Len(gs) : fs[i].decl = gs[i].decl /\ fs[i].body = gs[i].body
<1>1. Len(fs) = Len(gs)
  BY CopyLength
<1>2. \A i \in 1 .. Len(gs) : fs[i].decl = gs[i].decl /\ fs[i].body = gs[i].body
  BY DEF Copy
<1>. QED
  BY <1>1, <1>2 DEF WellFormed

LEMMA RewriteStep ==
  ASSUME ContractInv, Rewrite
  PROVE  /\ ContractInv' /\ Funcs' = Funcs
         /\ pc = "done" /\ pc' = "preprocess" /\ \A i \in Funcs : ~Marked(i)'
         /\ \A i \in Funcs : /\ llvm'.funcs[i].decl = llvm.funcs[i].decl
                             /\ llvm'.funcs[i].body = llvm.funcs[i].body
<1>1. /\ pc = "done" /\ pc' = "preprocess" /\ at' = 1 /\ llvm' = out
      /\ fpc' = [i \in Funcs |-> "UNDEF"] /\ UNCHANGED <<queue, it>>
  BY DEF Rewrite, Phase
<1>2. "funcs" \in DOMAIN out /\ Copy(out.funcs, llvm.funcs, Len(llvm.funcs))
  BY <1>1 DEF ContractInv, Copied, Carries
<1>3. /\ WellFormed(out.funcs) /\ Len(out.funcs) = Len(llvm.funcs)
      /\ \A i \in 1 .. Len(llvm.funcs) : /\ out.funcs[i].decl = llvm.funcs[i].decl
                                         /\ out.funcs[i].body = llvm.funcs[i].body
  BY <1>2, CopyWellFormed DEF ContractInv, Program
<1>4. Funcs' = Funcs
  BY <1>1, <1>3 DEF Funcs
<1>5. Program'
  BY <1>1, <1>2, <1>3 DEF ContractInv, Program, Undecided
<1>6. Copied' /\ OwnMet' /\ UsersMet'
  BY <1>1 DEF Copied, OwnMet, UsersMet, Late
<1>7. \A i \in Funcs : ~Marked(i)'
  BY <1>1 DEF Marked
<1>8. Deciding' /\ Reasoned'
  BY <1>1, <1>4, <1>7 DEF ContractInv, Deciding, Reasoned, Contracts, Undecided
<1>. QED
  BY <1>1, <1>3, <1>4, <1>5, <1>6, <1>7, <1>8 DEF ContractInv, Funcs

LEMMA InitInv == Init => ContractInv
<1> SUFFICES ASSUME Init PROVE ContractInv
  OBVIOUS
<1>1. PICK c \in Cases : input = c.mod
  BY DEF Init
<1>2. "funcs" \in DOMAIN llvm /\ WellFormed(llvm.funcs)
  BY <1>1, CasesAssumption DEF Init, ListsOK
<1>3. /\ fpc = [i \in Funcs |-> "UNDEF"] /\ queue = <<>> /\ pc = "preprocess"
      /\ at = 1 /\ it = 1
  BY DEF Init
<1>4. Program /\ Copied /\ OwnMet /\ UsersMet
  BY <1>2, <1>3 DEF Program, Copied, OwnMet, UsersMet, Undecided, Late
<1>5. Deciding /\ Reasoned
  BY <1>3 DEF Deciding, Reasoned, Marked, Contracts, Undecided
<1>. QED
  BY <1>4, <1>5 DEF ContractInv

LEMMA QuietStep ==
  ASSUME ContractInv, Next,
         ~TransFunctionDecl, ~TransInstruction, ~FinishFunction, ~PropagateContract,
         ~NextFunction, ~Rewrite
  PROVE  ContractInv' /\ Quiet
<1>1. Program' /\ Copied' /\ Quiet
  BY WriterQuiet, ModesQuiet, ReaderQuiet DEF ContractInv, Next
<1>2. Decided'
  BY <1>1, QuietDecides
<1>. QED
  BY <1>1, <1>2 DEF ContractInv, Decided

LEMMA StepInv == ContractInv /\ [Next]_vars => ContractInv'
<1> SUFFICES ASSUME ContractInv, [Next]_vars PROVE ContractInv'
  OBVIOUS
<1>1. CASE UNCHANGED vars
  <2>1. /\ llvm' = llvm /\ spv' = spv /\ out' = out /\ fpc' = fpc
        /\ queue' = queue /\ pc' = pc /\ at' = at /\ it' = it
    BY <1>1 DEF vars
  <2>2. Program' /\ Copied' /\ Deciding'
    BY <2>1 DEF ContractInv, Program, Copied, Deciding, Funcs
  <2>3. Reasoned' /\ UsersMet'
    BY <2>1 DEF ContractInv, Reasoned, UsersMet, Funcs, Item, Marked, Uses
  <2>4. OwnMet'
    BY <2>1 DEF ContractInv, OwnMet, Body, Item, Marked, OwnReason
  <2>. QED
    BY <2>2, <2>3, <2>4 DEF ContractInv
<1>2. CASE Next
  BY <1>2, QuietStep, DeclareStep, InstructionStep, FinishStep, PropagateStep,
     FunctionStep, RewriteStep
<1>. QED
  BY <1>1, <1>2

(* The invariant behind contraction, for every call graph: what the writer *)
(* has met of the bodies is marked, a marked function has users that are   *)
(* marked or queued, and translation carries the program along.            *)
THEOREM ContractionInvariant == Spec => []ContractInv
<1>. QED
  BY InitInv, StepInv, PTL DEF Spec

-----------------------------------------------------------------------------
(* The refinement.                                                         *)

Open == Undecided \cup {"bodies", "propagate"}

LEMMA Bodies ==
  ASSUME Program, NEW i \in Funcs
  PROVE  DOMAIN llvm.funcs[i].body = 1 .. Len(llvm.funcs[i].body)
<1>1. llvm.funcs[i].body \in Seq([k : Kinds, g : 0 .. Len(llvm.funcs)])
  BY DEF Program, WellFormed, Funcs
<1>. QED
  BY <1>1, LenProperties

\* Reason of ContractionPromise in terms of the writer's state.
LEMMA ReasonMaps ==
  ASSUME Program, NEW i \in Funcs
  PROVE  Promise!Reason(i) <=>
           /\ ~llvm.funcs[i].decl
           /\ \/ \E j \in 1 .. Len(llvm.funcs[i].body) : OwnReason(i, j)
              \/ \E g \in Funcs : Marked(g) /\ Uses(i, g)
<1> DEFINE b == llvm.funcs[i].body
<1>1. DOMAIN b = 1 .. Len(b)
  BY Bodies
<1>2. Promise!Items(i) = {b[j] : j \in 1 .. Len(b)}
  BY <1>1 DEF Promise!Items
<1>3. \A j \in 1 .. Len(b) : Item(i, j) = b[j] /\ (b[j].k = "call" => b[j].g \in Funcs)
  BY ItemTypes DEF Item
<1>4. Promise!Own(i) <=> \E j \in 1 .. Len(b) : OwnReason(i, j)
  <2>1. Promise!Own(i) <=> \E x \in Promise!Items(i) :
                             \/ x.k \in {"muladd", "asm", "indirect"}
                             \/ x.k = "call" /\ [f \in Funcs |->
                                  [decl |-> llvm.funcs[f].decl,
                                   body |-> llvm.funcs[f].body]][x.g].decl
    BY DEF Promise!Own
  <2>2. ASSUME NEW j \in 1 .. Len(b)
        PROVE  OwnReason(i, j) <=>
                 \/ b[j].k \in {"muladd", "asm", "indirect"}
                 \/ b[j].k = "call" /\ [f \in Funcs |->
                      [decl |-> llvm.funcs[f].decl,
                       body |-> llvm.funcs[f].body]][b[j].g].decl
    BY <1>3 DEF OwnReason
  <2>. QED
    BY <1>2, <2>1, <2>2
<1>5. (\E x \in Promise!Items(i) : x.g \in {f \in Funcs : fpc[f] = "DISABLED"}) <=>
        \E g \in Funcs : Marked(g) /\ Uses(i, g)
  BY <1>2, <1>3 DEF Marked, Uses
<1>6. Promise!Reason(i) <=>
        /\ ~llvm.funcs[i].decl
        /\ \/ Promise!Own(i)
           \/ \E x \in Promise!Items(i) : x.g \in {f \in Funcs : fpc[f] = "DISABLED"}
  BY DEF Promise!Reason
<1>. QED
  BY <1>4, <1>5, <1>6

Prog == [i \in Funcs |-> [decl |-> llvm.funcs[i].decl, body |-> llvm.funcs[i].body]]

MarkedFuncs == {i \in Funcs : fpc[i] = "DISABLED"}

LEMMA SameProg ==
  ASSUME Funcs' = Funcs,
         \A i \in Funcs : /\ llvm'.funcs[i].decl = llvm.funcs[i].decl
                          /\ llvm'.funcs[i].body = llvm.funcs[i].body
  PROVE  Prog' = Prog
BY DEF Prog

\* A step that marks nobody, while the writer is or is not done.
LEMMA Stutters ==
  ASSUME Prog' = Prog, Funcs' = Funcs, \A i \in Funcs : Marked(i)' <=> Marked(i),
         pc \in Open <=> pc' \in Open
  PROVE  UNCHANGED Promise!vars
<1>1. MarkedFuncs' = MarkedFuncs
  BY DEF MarkedFuncs, Marked
<1>. QED
  BY <1>1 DEF Promise!vars, Prog, MarkedFuncs, Open, Undecided

\* A step that marks one function for a reason.
LEMMA Marks ==
  ASSUME Program, Prog' = Prog, Funcs' = Funcs, pc \in Open, pc' \in Open,
         NEW i \in Funcs, \A k \in Funcs : Marked(k)' <=> Marked(k) \/ k = i,
         Promise!Reason(i)
  PROVE  Promise!Mark
<1>1. MarkedFuncs' = MarkedFuncs \cup {i}
  BY DEF MarkedFuncs, Marked
<1>2. i \in DOMAIN Prog
  BY DEF Prog
<1>. QED
  BY <1>1, <1>2 DEF Promise!Mark, Prog, MarkedFuncs, Open, Undecided

LEMMA StepRefines ==
  ASSUME ContractInv, [Next]_vars
  PROVE  [Promise!Next]_(Promise!vars)
<1>1. Program
  BY DEF ContractInv
<1>2. CASE UNCHANGED vars
  BY <1>2 DEF vars, Promise!vars, Funcs
<1>3. CASE TransInstruction
  <2>1. /\ pc = "bodies" /\ at \in Funcs /\ ~llvm.funcs[at].decl /\ it \in 1 .. Len(Body)
        /\ UNCHANGED <<llvm, pc>>
        /\ \A i \in Funcs : Marked(i)' <=> Marked(i) \/ (i = at /\ Seen = "DISABLED")
    BY <1>3, InstructionFacts
  <2>2. Prog' = Prog /\ Funcs' = Funcs /\ pc \in Open /\ pc' \in Open
    BY <2>1 DEF Prog, Funcs, Open
  <2>3. CASE Seen = "DISABLED"
    <3>1. OwnReason(at, it) \/ \E g \in Funcs : Marked(g) /\ Uses(at, g)
      BY <2>1, <2>3, SeenFacts DEF ContractInv
    <3>2. Promise!Reason(at)
      BY <1>1, <2>1, <3>1, ReasonMaps DEF Body
    <3>3. Promise!Mark
      BY <1>1, <2>1, <2>2, <2>3, <3>2, Marks
    <3>. QED
      BY <3>3 DEF Promise!Next
  <2>4. CASE Seen # "DISABLED"
    BY <2>1, <2>2, <2>4, Stutters
  <2>. QED
    BY <2>3, <2>4
<1>4. CASE FinishFunction
  <2>1. \A i \in Funcs : Marked(i)' <=> Marked(i)
    BY <1>4, FinishStep
  <2>2. Prog' = Prog /\ Funcs' = Funcs /\ pc \in Open /\ pc' \in Open
    BY <1>4 DEF FinishFunction, Prog, Funcs, Open
  <2>. QED
    BY <2>1, <2>2, Stutters
<1>5. CASE PropagateContract
  <2> DEFINE g == Head(queue)
  <2>1. /\ pc = "propagate" /\ g \in Funcs /\ queue # <<>>
        /\ UNCHANGED <<llvm, pc>>
        /\ \A i \in Funcs : Marked(i)' <=> Marked(i) \/ (i = g /\ Marked(at))
    BY <1>5, PropagateFacts
  <2>2. Prog' = Prog /\ Funcs' = Funcs /\ pc \in Open /\ pc' \in Open
    BY <2>1 DEF Prog, Funcs, Open
  <2>3. CASE Marked(at)
    <3>1. queue \in Seq(Funcs)
      BY DEF ContractInv, Deciding
    <3>2. g = queue[1] /\ 1 \in 1 .. Len(queue)
      BY <2>1, <3>1
    <3>3. \E h \in Funcs : Marked(h) /\ Uses(g, h)
      BY <2>1, <2>3, <3>2 DEF ContractInv, Reasoned
    <3> HIDE DEF g
    <3>4. ~llvm.funcs[g].decl
      BY <1>1, <2>1, <3>3, UserDefined
    <3>5. Promise!Reason(g)
      BY <1>1, <2>1, <3>3, <3>4, ReasonMaps
    <3>6. Promise!Mark
      BY <1>1, <2>1, <2>2, <2>3, <3>5, Marks
    <3>. QED
      BY <3>6 DEF Promise!Next
  <2>4. CASE ~Marked(at)
    BY <2>1, <2>2, <2>4, Stutters
  <2>. QED
    BY <2>3, <2>4
<1>6. CASE NextFunction
  <2>1. /\ UNCHANGED <<llvm, fpc>> /\ pc \in Open
        /\ pc' = "bodies" \/ pc' = "ocl"
    BY <1>6 DEF NextFunction, Phase, Open
  <2>2. Prog' = Prog /\ Funcs' = Funcs /\ MarkedFuncs' = MarkedFuncs
        /\ (\A i \in Funcs : Marked(i)' <=> Marked(i))
    BY <2>1 DEF Prog, Funcs, MarkedFuncs, Marked
  <2>3. CASE pc' = "bodies"
    BY <2>1, <2>2, <2>3, Stutters DEF Open
  <2>4. CASE pc' = "ocl"
    <3>1. Closed
      BY <1>6, <2>4, FunctionStep
    <3>2. \A i \in Funcs : Promise!Reason(i) => i \in MarkedFuncs
      BY <1>1, <3>1, ReasonMaps DEF Closed, MarkedFuncs, Marked
    <3>3. DOMAIN Prog = Funcs
      BY DEF Prog
    <3>4. Promise!Settle
      BY <2>1, <2>2, <2>4, <3>2, <3>3
      DEF Promise!Settle, Prog, MarkedFuncs, Open, Undecided
    <3>. QED
      BY <3>4 DEF Promise!Next
  <2>. QED
    BY <2>1, <2>3, <2>4
<1>7. CASE Rewrite
  <2>1. /\ Funcs' = Funcs /\ pc = "done" /\ pc' = "preprocess"
        /\ \A i \in Funcs : ~Marked(i)'
        /\ \A i \in Funcs : /\ llvm'.funcs[i].decl = llvm.funcs[i].decl
                            /\ llvm'.funcs[i].body = llvm.funcs[i].body
    BY <1>7, RewriteStep
  <2>2. Prog' = Prog
    BY <2>1, SameProg
  <2>3. MarkedFuncs' = {}
    BY <2>1 DEF MarkedFuncs, Marked
  <2>4. Promise!Again
    BY <2>1, <2>2, <2>3 DEF Promise!Again, Prog, MarkedFuncs
  <2>. QED
    BY <2>4 DEF Promise!Next
<1>8. CASE TransFunctionDecl
  <2>1. UNCHANGED <<llvm, fpc>> /\ pc = "declare" /\ pc' \in {"declare", "bodies"}
    BY <1>8 DEF TransFunctionDecl, Advance
  <2>2. Prog' = Prog /\ Funcs' = Funcs /\ pc \in Open /\ pc' \in Open
        /\ (\A i \in Funcs : Marked(i)' <=> Marked(i))
    BY <2>1 DEF Prog, Funcs, Open, Marked, Undecided
  <2>. QED
    BY <2>2, Stutters
<1>9. CASE /\ Next /\ ~TransFunctionDecl /\ ~TransInstruction /\ ~FinishFunction
           /\ ~PropagateContract /\ ~NextFunction /\ ~Rewrite
  <2>1. Quiet
    BY <1>9, QuietStep
  <2>2. Prog' = Prog /\ Funcs' = Funcs /\ (\A i \in Funcs : Marked(i)' <=> Marked(i))
    BY <2>1 DEF Quiet, Prog, Funcs, Marked
  <2>3. pc \in Open <=> pc' \in Open
    BY <2>1 DEF Quiet, Open, Deciders
  <2>. QED
    BY <2>2, <2>3, Stutters
<1>. QED
  BY <1>2, <1>3, <1>4, <1>5, <1>6, <1>7, <1>8, <1>9

(* The writer's pass over the functions with its propagation implements    *)
(* ContractionPromise whatever the call graph, cycles included: a function *)
(* is marked only for a reason, and when OpenCL metadata and modes are     *)
(* translated no function with a reason is unmarked.                       *)
THEOREM ContractionImplemented == Spec => ContractionCloses
<1>1. Init => Promise!Init
  BY DEF Init, Promise!Init
<1>2. ContractInv /\ [Next]_vars => [Promise!Next]_(Promise!vars)
  BY StepRefines
<1>. QED
  BY <1>1, <1>2, ContractionInvariant, PTL DEF Spec, ContractionCloses, Promise!Spec

-----------------------------------------------------------------------------
(* What is marked in the end is what reaches something that could be fused. *)

LEMMA ReachedOnwards ==
  ASSUME Program, NEW i \in Funcs
  PROVE  /\ i \in Reached(i)
         /\ \A g \in Funcs : Uses(i, g) => Reached(g) \subseteq Reached(i)
<1>1. i \in Reached(i)
  BY DEF Reached
<1>2. ASSUME NEW g \in Funcs, Uses(i, g), NEW k \in Reached(g), NEW S \in SUBSET Funcs,
             i \in S, UsesClosed(S)
      PROVE  k \in S
  <2>1. PICK j \in 1 .. Len(llvm.funcs[i].body) : llvm.funcs[i].body[j].g = g
    BY <1>2 DEF Uses, Item
  <2>2. ~llvm.funcs[i].decl /\ DOMAIN llvm.funcs[i].body = 1 .. Len(llvm.funcs[i].body)
    BY <1>2, UserDefined, Bodies
  <2>3. llvm.funcs[i].body[j] \in ToSet(llvm.funcs[i].body)
    BY <2>2 DEF ToSet
  <2>4. g \in S \cup {0}
    BY <1>2, <2>1, <2>2, <2>3 DEF UsesClosed
  <2>5. g # 0
    BY DEF Funcs
  <2>. QED
    BY <1>2, <2>4, <2>5 DEF Reached
<1>. QED
  BY <1>1, <1>2 DEF Reached

\* What has a reason of its own, and what uses something that may be fused.
LEMMA MayFuseBy ==
  ASSUME Program, NEW i \in Funcs, ~llvm.funcs[i].decl
  PROVE  /\ (\E j \in 1 .. Len(llvm.funcs[i].body) : OwnReason(i, j)) => MayFuse(i)
         /\ \A g \in Funcs : Uses(i, g) /\ MayFuse(g) => MayFuse(i)
<1>1. ASSUME NEW j \in 1 .. Len(llvm.funcs[i].body), OwnReason(i, j) PROVE MayFuse(i)
  <2>1. Item(i, j) \in ToSet(llvm.funcs[i].body)
    BY Bodies DEF ToSet, Item
  <2>. QED
    BY <1>1, <2>1, ReachedOnwards DEF MayFuse, OwnReason
<1>2. ASSUME NEW g \in Funcs, Uses(i, g), MayFuse(g) PROVE MayFuse(i)
  BY <1>2, ReachedOnwards DEF MayFuse
<1>. QED
  BY <1>1, <1>2

LEMMA SameBodies ==
  ASSUME Prog' = Prog
  PROVE  /\ Funcs' = Funcs
         /\ \A k \in Funcs : /\ llvm'.funcs[k].decl = llvm.funcs[k].decl
                             /\ llvm'.funcs[k].body = llvm.funcs[k].body
<1>1. Funcs' = Funcs
  BY DEF Prog
<1>2. ASSUME NEW k \in Funcs
      PROVE  Prog[k].decl = llvm.funcs[k].decl /\ Prog[k].body = llvm.funcs[k].body
  BY DEF Prog
<1>3. ASSUME NEW k \in Funcs
      PROVE  Prog'[k].decl = llvm'.funcs[k].decl /\ Prog'[k].body = llvm'.funcs[k].body
  BY <1>1 DEF Prog
<1>. QED
  BY <1>1, <1>2, <1>3

\* Reaching is a matter of the program alone.
LEMMA SameMayFuse ==
  ASSUME Program, Prog' = Prog
  PROVE  Funcs' = Funcs /\ \A i \in Funcs : MayFuse(i)' <=> MayFuse(i)
<1>1. Funcs' = Funcs
  BY SameBodies
<1>2. \A k \in Funcs : /\ llvm'.funcs[k].decl = llvm.funcs[k].decl
                       /\ llvm'.funcs[k].body = llvm.funcs[k].body
  BY SameBodies
<1>3. \A S \in SUBSET Funcs : UsesClosed(S)' <=> UsesClosed(S)
  BY <1>2 DEF UsesClosed
<1>4. \A i \in Funcs : Reached(i)' = Reached(i)
  BY <1>1, <1>3 DEF Reached
<1>5. \A k \in Funcs : \A x \in ToSet(llvm.funcs[k].body) : x.k = "call" => x.g \in Funcs
  <2> SUFFICES ASSUME NEW k \in Funcs, NEW x \in ToSet(llvm.funcs[k].body), x.k = "call"
               PROVE  x.g \in Funcs
    OBVIOUS
  <2>1. PICK j \in 1 .. Len(llvm.funcs[k].body) : x = Item(k, j)
    BY Bodies DEF ToSet, Item
  <2>. QED
    BY <2>1, ItemTypes
<1>6. \A i \in Funcs : Reached(i) \subseteq Funcs
  BY DEF Reached
<1>. QED
  BY <1>1, <1>2, <1>4, <1>5, <1>6 DEF MayFuse

\* Reason of ContractionPromise, in the words of the writer.
HasReason(i) ==
  /\ ~llvm.funcs[i].decl
  /\ \/ \E j \in 1 .. Len(llvm.funcs[i].body) : OwnReason(i, j)
     \/ \E g \in Funcs : Marked(g) /\ Uses(i, g)

LEMMA SameReasons ==
  ASSUME Program, Prog' = Prog, \A k \in Funcs : Marked(k)' <=> Marked(k)
  PROVE  \A i \in Funcs : HasReason(i)' <=> HasReason(i)
<1> SUFFICES ASSUME NEW i \in Funcs PROVE HasReason(i)' <=> HasReason(i)
  OBVIOUS
<1>1. /\ Funcs' = Funcs
      /\ \A k \in Funcs : /\ llvm'.funcs[k].decl = llvm.funcs[k].decl
                          /\ llvm'.funcs[k].body = llvm.funcs[k].body
  BY SameBodies
<1>2. \A g : Uses(i, g)' <=> Uses(i, g)
  BY <1>1 DEF Uses, Item
<1>3. \A j \in 1 .. Len(llvm.funcs[i].body) : OwnReason(i, j)' <=> OwnReason(i, j)
  BY <1>1, ItemTypes DEF OwnReason, Item
<1>. QED
  BY <1>1, <1>2, <1>3 DEF HasReason

MarkInv ==
  /\ \A i \in Funcs : Marked(i) => MayFuse(i)
  /\ pc \notin Open => \A i \in Funcs : HasReason(i) => Marked(i)

LEMMA MarkStep ==
  ASSUME ContractInv, MarkInv, [Next]_vars
  PROVE  MarkInv'
<1>1. Program /\ Program' /\ [Promise!Next]_(Promise!vars)
  BY StepRefines, StepInv DEF ContractInv
<1>2. CASE Promise!Mark
  <2>1. PICK i \in DOMAIN Prog : Promise!Reason(i) /\ MarkedFuncs' = MarkedFuncs \cup {i}
    BY <1>2 DEF Promise!Mark, Prog, MarkedFuncs
  <2>2. Prog' = Prog /\ pc \in Open /\ pc' \in Open
    BY <1>2 DEF Promise!Mark, Prog, Open, Undecided
  <2>3. i \in Funcs /\ Funcs' = Funcs /\ \A k \in Funcs : MayFuse(k)' <=> MayFuse(k)
    BY <1>1, <2>2, SameMayFuse DEF Prog
  <2>4. MayFuse(i)
    <3>1. HasReason(i)
      BY <1>1, <2>1, <2>3, ReasonMaps DEF HasReason
    <3>. QED
      BY <1>1, <2>3, <3>1, MayFuseBy DEF MarkInv, HasReason
  <2>5. \A k \in Funcs : Marked(k)' => Marked(k) \/ k = i
    BY <2>1, <2>3 DEF Marked, MarkedFuncs
  <2>. QED
    BY <2>2, <2>3, <2>4, <2>5 DEF MarkInv
<1>3. CASE Promise!Settle \/ UNCHANGED Promise!vars
  <2>1. Prog' = Prog /\ MarkedFuncs' = MarkedFuncs
    BY <1>3 DEF Promise!Settle, Promise!vars, Prog, MarkedFuncs
  <2>2. Funcs' = Funcs /\ \A k \in Funcs : MayFuse(k)' <=> MayFuse(k)
    BY <1>1, <2>1, SameMayFuse
  <2>3. \A k \in Funcs : Marked(k)' <=> Marked(k)
    BY <2>1, <2>2 DEF Marked, MarkedFuncs
  <2>4. \A k \in Funcs : HasReason(k)' <=> HasReason(k)
    BY <1>1, <2>1, <2>3, SameReasons
  <2>5. pc' \notin Open => \A k \in Funcs : HasReason(k) => Marked(k)
    <3>1. CASE Promise!Settle
      <4>1. \A k \in Funcs : Promise!Reason(k) => Marked(k)
        BY <3>1 DEF Promise!Settle, Marked
      <4>. QED
        BY <1>1, <4>1, ReasonMaps DEF HasReason
    <3>2. CASE UNCHANGED Promise!vars
      <4>1. pc \in Open <=> pc' \in Open
        BY <3>2 DEF Promise!vars, Open, Undecided
      <4>. QED
        BY <4>1 DEF MarkInv
    <3>. QED
      BY <1>3, <3>1, <3>2
  <2>. QED
    BY <2>2, <2>3, <2>4, <2>5 DEF MarkInv
<1>4. CASE Promise!Again
  <2>1. MarkedFuncs' = {} /\ pc' \in Open
    BY <1>4 DEF Promise!Again, MarkedFuncs, Open, Undecided
  <2>. QED
    BY <2>1 DEF MarkInv, Marked, MarkedFuncs
<1>. QED
  BY <1>1, <1>2, <1>3, <1>4 DEF Promise!Next

LEMMA MarkExactly ==
  ASSUME Program, MarkInv, pc \notin Open, NEW i \in Funcs
  PROVE  Marked(i) <=> MayFuse(i)
<1> SUFFICES ASSUME MayFuse(i), ~Marked(i) PROVE FALSE
  BY DEF MarkInv
<1> DEFINE S == {k \in Funcs : ~Marked(k)}
<1>1. \A k \in Funcs : ~llvm.funcs[k].decl =>
        /\ (\E j \in 1 .. Len(llvm.funcs[k].body) : OwnReason(k, j)) => Marked(k)
        /\ \A g \in Funcs : Marked(g) /\ Uses(k, g) => Marked(k)
  BY DEF MarkInv, HasReason
<1>2. \A k \in Funcs : ToSet(llvm.funcs[k].body)
                         = {Item(k, j) : j \in 1 .. Len(llvm.funcs[k].body)}
  BY Bodies DEF ToSet, Item
<1>3. UsesClosed(S)
  <2> SUFFICES ASSUME NEW k \in S, ~llvm.funcs[k].decl, NEW x \in ToSet(llvm.funcs[k].body),
                      x.g # 0
               PROVE  x.g \in S
    BY DEF UsesClosed
  <2>1. PICK j \in 1 .. Len(llvm.funcs[k].body) : x = Item(k, j)
    BY <1>2
  <2>2. x.g \in Funcs /\ Uses(k, x.g)
    <3>1. x.g \in 0 .. Len(llvm.funcs) /\ Len(llvm.funcs) \in Nat
      BY <2>1, ItemTypes DEF Program, WellFormed
    <3>. QED
      BY <2>1, <3>1 DEF Uses, Funcs
  <2>. QED
    BY <1>1, <2>2
<1>4. PICK k \in Reached(i) :
        /\ ~llvm.funcs[k].decl
        /\ \E x \in ToSet(llvm.funcs[k].body) :
             \/ x.k \in {"muladd", "asm", "indirect"}
             \/ x.k = "call" /\ llvm.funcs[x.g].decl
  BY DEF MayFuse
<1>5. k \in S
  BY <1>3, <1>4 DEF Reached
<1>6. \E j \in 1 .. Len(llvm.funcs[k].body) : OwnReason(k, j)
  BY <1>2, <1>4, <1>5 DEF OwnReason
<1>. QED
  BY <1>1, <1>4, <1>5, <1>6

\* The functions for which the writer has found that contraction must be off.
MarkedIffReached == pc \in Late => \A i \in Funcs : Marked(i) <=> MayFuse(i)

(* For every call graph, cycles and any order of the functions included:   *)
(* once all bodies are translated, FPContractMap says DISABLED for exactly *)
(* the functions that reach, over calls and references of functions with a *)
(* body, an instruction a consumer could fuse or a call into the unknown.  *)
THEOREM ContractionExact == Spec => []MarkedIffReached
<1>1. Init => MarkInv
  BY DEF Init, MarkInv, Marked, Open, Undecided
<1>2. ContractInv /\ MarkInv /\ [Next]_vars => MarkInv'
  BY MarkStep
<1>3. ContractInv /\ MarkInv => MarkedIffReached
  BY MarkExactly DEF ContractInv, MarkedIffReached, Late, Open, Undecided
<1>. QED
  BY <1>1, <1>2, <1>3, ContractionInvariant, PTL DEF Spec

-----------------------------------------------------------------------------
(* Lists.                                                                  *)

LEMMA ListIn ==
  ASSUME NEW s, IsList(s), NEW S, \A j \in 1 .. Len(s) : s[j] \in S
  PROVE  s \in Seq(S)
<1>1. s \in [1 .. Len(s) -> S] /\ Len(s) \in Nat
  BY DEF IsList
<1>. QED
  BY <1>1, SequenceOf

LEMMA ListOf ==
  ASSUME NEW S, NEW s \in Seq(S)
  PROVE  IsList(s) /\ \A j \in 1 .. Len(s) : s[j] \in S
BY DEF IsList

LEMMA ListFunction ==
  ASSUME NEW n \in Nat, NEW s, s = [j \in 1 .. n |-> s[j]]
  PROVE  IsList(s) /\ Len(s) = n
<1>1. s \in [1 .. n -> {s[j] : j \in 1 .. n}]
  OBVIOUS
<1>2. s \in Seq({s[j] : j \in 1 .. n}) /\ Len(s) = n
  BY <1>1, SequenceOf
<1>. QED
  BY <1>2, ListOf

LEMMA ListSmall ==
  ASSUME NEW x
  PROVE  /\ IsList(<<>>) /\ Len(<<>>) = 0
         /\ IsList(<<x>>) /\ Len(<<x>>) = 1 /\ <<x>>[1] = x
BY DEF IsList

LEMMA ListJoin ==
  ASSUME NEW s, NEW t, IsList(s), IsList(t)
  PROVE  /\ IsList(s \o t) /\ Len(s \o t) = Len(s) + Len(t)
         /\ Len(s) \in Nat /\ Len(t) \in Nat
         /\ \A j \in 1 .. Len(s) : j \in 1 .. Len(s \o t) /\ (s \o t)[j] = s[j]
         /\ \A j \in 1 .. Len(t) : /\ Len(s) + j \in 1 .. Len(s \o t)
                                   /\ (s \o t)[Len(s) + j] = t[j]
         /\ \A j \in 1 .. Len(s \o t) : j \in 1 .. Len(s) \/ j - Len(s) \in 1 .. Len(t)
<1> DEFINE S == {s[j] : j \in 1 .. Len(s)} \cup {t[j] : j \in 1 .. Len(t)}
<1>1. s \in Seq(S) /\ t \in Seq(S)
  BY ListIn
<1> HIDE DEF S
<1>2. /\ s \o t \in Seq(S) /\ Len(s \o t) = Len(s) + Len(t)
      /\ \A j \in 1 .. Len(s) + Len(t) :
           (s \o t)[j] = IF j <= Len(s) THEN s[j] ELSE t[j - Len(s)]
  BY <1>1, ConcatProperties
<1>3. IsList(s \o t)
  BY <1>2, ListOf
<1>4. Len(s) \in Nat /\ Len(t) \in Nat
  BY DEF IsList
<1>. QED
  BY <1>2, <1>3, <1>4

LEMMA ListAppend ==
  ASSUME NEW s, IsList(s), NEW x
  PROVE  Append(s, x) = s \o <<x>>
<1> DEFINE S == {s[j] : j \in 1 .. Len(s)} \cup {x}
<1>1. s \in Seq(S) /\ x \in S
  BY ListIn
<1> HIDE DEF S
<1>. QED
  BY <1>1

\* A list of lists.
LEMMA ListFlatten ==
  ASSUME NEW ss, IsList(ss), \A i \in 1 .. Len(ss) : IsList(ss[i])
  PROVE  /\ IsList(FlattenSeq(ss))
         /\ \A j \in 1 .. Len(FlattenSeq(ss)) :
              \E i \in 1 .. Len(ss) : \E k \in 1 .. Len(ss[i]) : FlattenSeq(ss)[j] = ss[i][k]
<1> DEFINE n == Len(ss)
           Elt(i) == {ss[i][k] : k \in 1 .. Len(ss[i])}
           T == UNION {Elt(i) : i \in 1 .. n}
<1>1. \A i \in 1 .. n : ss[i] \in Seq(T)
  <2> SUFFICES ASSUME NEW i \in 1 .. n PROVE ss[i] \in Seq(T)
    OBVIOUS
  <2>1. \A k \in 1 .. Len(ss[i]) : ss[i][k] \in T
    OBVIOUS
  <2> HIDE DEF T
  <2>. QED
    BY <2>1, ListIn
<1>2. \A x \in T : \E i \in 1 .. n : \E k \in 1 .. Len(ss[i]) : x = ss[i][k]
  OBVIOUS
<1> HIDE DEF T
<1>3. ss \in Seq(Seq(T))
  BY <1>1, ListIn
<1>4. FlattenSeq(ss) \in Seq(T)
  BY <1>3, FlattenType
<1>. QED
  BY <1>2, <1>4, ListOf

-----------------------------------------------------------------------------
(* What is listed and what is declared.                                    *)

Reading == {"readFunctions", "readMetadata", "readContract", "readAux", "done"}

\* The functions that have been declared in SPIR-V and those that have been read.
WrittenTo ==
  IF pc = "declare" THEN 1 .. at - 1
  ELSE IF pc \in {"bodies", "propagate"} \cup Late THEN Funcs ELSE {}

ReadTo ==
  IF pc = "readFunctions" THEN 1 .. at - 1
  ELSE IF pc \in Reading THEN Funcs ELSE {}

LLVMTyped == ListsOK(llvm) /\ \A i \in Funcs : Registers(llvm.funcs[i].md)

SpvTyped ==
  pc \notin {"preprocess", "kernels", "globals"} =>
    /\ {"funcs", "aux", "caps", "ctors"} \subseteq DOMAIN spv
    /\ IsList(spv.ctors) /\ IsList(spv.aux) /\ \A j \in 1 .. Len(spv.aux) : Registers(spv.aux[j].md)
    /\ \A i \in WrittenTo : /\ {"modes", "kernel"} \subseteq DOMAIN spv.funcs[i]
                            /\ IsList(spv.funcs[i].modes)
                            /\ spv.funcs[i].kernel = llvm.funcs[i].kernel

OutTyped ==
  pc \in Reading =>
    /\ ListsOK(out)
    /\ \A i \in ReadTo : "md" \in DOMAIN out.funcs[i] /\ Registers(out.funcs[i].md)

\* The nodes and modes that matter.
Off == "ContractionOff"
Poison == "ArithmeticPoisonKHR"

ListedFor(nodes, i, mode) ==
  \E j \in 1 .. Len(nodes) : nodes[j].f = i /\ nodes[j].mode = mode

OnePoison(nodes) ==
  \A j, k \in 1 .. Len(nodes) :
    nodes[j].mode = Poison /\ nodes[k].mode = Poison /\ nodes[j].f = nodes[k].f => j = k

\* A module in which contraction is decided by the writer alone, and poison is listed
\* at most once for a function.
Unsettled(m) ==
  /\ OnePoison(m.nodes)
  /\ \A j \in 1 .. Len(m.nodes) : m.nodes[j].mode # Off

NodesMeant ==
  /\ OnePoison(llvm.nodes)
  /\ \A i \in Funcs :
       /\ pc \in Undecided \cup {"bodies", "propagate", "ocl"} => ~ListedFor(llvm.nodes, i, Off)
       /\ pc = "contract" => (ListedFor(llvm.nodes, i, Off) <=> i < at /\ DisableContraction(i))
       /\ pc \in {"modes"} \cup Reading => (ListedFor(llvm.nodes, i, Off) <=> DisableContraction(i))

NodesRead ==
  /\ pc \in Reading => OnePoison(out.nodes) /\ \A i \in Funcs : ~ListedFor(out.nodes, i, Off)
  /\ pc \in {"readFunctions", "readMetadata"} =>
       \A j \in 1 .. Len(out.nodes) : out.nodes[j].mode = Poison =>
         pc = "readMetadata" /\ out.nodes[j].f \in 1 .. at - 1

Modes(i) == spv.funcs[i].modes

With(s, mode) == \E k \in 1 .. Len(s) : s[k].mode = mode

Single(s) == \A k, l \in 1 .. Len(s) : s[k].mode = Poison /\ s[l].mode = Poison => k = l

FastMath(w) == [mode |-> "FPFastMathDefault", args |-> <<w, 0>>]

AllWidths(s) ==
  \A w \in 1 .. Len(llvm.floats) : \E k \in 1 .. Len(s) : s[k] = FastMath(llvm.floats[w])

\* A node of function i with the mode has been translated.
Before(i, mode) ==
  \E j \in 1 .. Len(llvm.nodes) : j < at /\ llvm.nodes[j].f = i /\ llvm.nodes[j].mode = mode

ModesMeant ==
  /\ pc \in {"declare", "bodies", "propagate", "ocl", "contract"} =>
       \A i \in WrittenTo : ~With(Modes(i), Off) /\ ~With(Modes(i), Poison)
  /\ pc = "modes" =>
       \A i \in Funcs :
         /\ "float_controls2" \notin opt.ext => (With(Modes(i), Off) <=> Before(i, Off))
         /\ "float_controls2" \in opt.ext /\ Before(i, Off) => AllWidths(Modes(i))
         /\ Single(Modes(i)) /\ (With(Modes(i), Poison) => Before(i, Poison))
  /\ pc \in Reading =>
       \A i \in Funcs :
         /\ "float_controls2" \notin opt.ext => (With(Modes(i), Off) <=> DisableContraction(i))
         /\ "float_controls2" \in opt.ext /\ DisableContraction(i) => AllWidths(Modes(i))
         /\ Single(Modes(i))
         /\ "PoisonFreezeKHR" \in spv.caps /\ llvm.funcs[i].kernel /\ ~llvm.funcs[i].decl =>
              With(Modes(i), Poison)

SettleInv ==
  /\ LLVMTyped /\ SpvTyped /\ OutTyped
  /\ Unsettled(input) => NodesMeant /\ NodesRead /\ ModesMeant

LEMMA ListedJoin ==
  ASSUME NEW s, NEW t, IsList(s), IsList(t), NEW i, NEW mode
  PROVE  /\ ListedFor(s \o t, i, mode) <=> ListedFor(s, i, mode) \/ ListedFor(t, i, mode)
         /\ With(s \o t, mode) <=> With(s, mode) \/ With(t, mode)
<1> DEFINE r == s \o t
<1>1. /\ \A j \in 1 .. Len(s) : j \in 1 .. Len(r) /\ r[j] = s[j]
      /\ \A j \in 1 .. Len(t) : /\ Len(s) + j \in 1 .. Len(r)
                                /\ r[Len(s) + j] = t[j]
      /\ \A j \in 1 .. Len(r) : j \in 1 .. Len(s) \/ j - Len(s) \in 1 .. Len(t)
      /\ Len(s) \in Nat /\ Len(r) \in Nat
  BY ListJoin
<1>2. \A j \in 1 .. Len(r) :
        \/ \E k \in 1 .. Len(s) : r[j] = s[k]
        \/ \E k \in 1 .. Len(t) : r[j] = t[k]
  <2> SUFFICES ASSUME NEW j \in 1 .. Len(r), j \notin 1 .. Len(s)
               PROVE  \E k \in 1 .. Len(t) : r[j] = t[k]
    BY <1>1
  <2>1. j - Len(s) \in 1 .. Len(t) /\ Len(s) + (j - Len(s)) = j
    BY <1>1
  <2>. QED
    BY <1>1, <2>1
<1>3. /\ \A k \in 1 .. Len(s) : \E j \in 1 .. Len(r) : r[j] = s[k]
      /\ \A k \in 1 .. Len(t) : \E j \in 1 .. Len(r) : r[j] = t[k]
  BY <1>1
<1> HIDE DEF r
<1>4. ListedFor(r, i, mode) <=> ListedFor(s, i, mode) \/ ListedFor(t, i, mode)
  <2>1. ASSUME ListedFor(r, i, mode) PROVE ListedFor(s, i, mode) \/ ListedFor(t, i, mode)
    <3>1. PICK j \in 1 .. Len(r) : r[j].f = i /\ r[j].mode = mode
      BY <2>1 DEF ListedFor
    <3>2. CASE \E k \in 1 .. Len(s) : r[j] = s[k]
      BY <3>1, <3>2 DEF ListedFor
    <3>3. CASE \E k \in 1 .. Len(t) : r[j] = t[k]
      BY <3>1, <3>3 DEF ListedFor
    <3>. QED
      BY <1>2, <3>1, <3>2, <3>3
  <2>2. ASSUME ListedFor(s, i, mode) PROVE ListedFor(r, i, mode)
    <3>1. PICK k \in 1 .. Len(s) : s[k].f = i /\ s[k].mode = mode
      BY <2>2 DEF ListedFor
    <3>. QED
      BY <1>3, <3>1 DEF ListedFor
  <2>3. ASSUME ListedFor(t, i, mode) PROVE ListedFor(r, i, mode)
    <3>1. PICK k \in 1 .. Len(t) : t[k].f = i /\ t[k].mode = mode
      BY <2>3 DEF ListedFor
    <3>. QED
      BY <1>3, <3>1 DEF ListedFor
  <2>. QED
    BY <2>1, <2>2, <2>3
<1>5. With(r, mode) <=> With(s, mode) \/ With(t, mode)
  <2>1. ASSUME With(r, mode) PROVE With(s, mode) \/ With(t, mode)
    <3>1. PICK j \in 1 .. Len(r) : r[j].mode = mode
      BY <2>1 DEF With
    <3>2. CASE \E k \in 1 .. Len(s) : r[j] = s[k]
      BY <3>1, <3>2 DEF With
    <3>3. CASE \E k \in 1 .. Len(t) : r[j] = t[k]
      BY <3>1, <3>3 DEF With
    <3>. QED
      BY <1>2, <3>1, <3>2, <3>3
  <2>2. ASSUME With(s, mode) PROVE With(r, mode)
    <3>1. PICK k \in 1 .. Len(s) : s[k].mode = mode
      BY <2>2 DEF With
    <3>. QED
      BY <1>3, <3>1 DEF With
  <2>3. ASSUME With(t, mode) PROVE With(r, mode)
    <3>1. PICK k \in 1 .. Len(t) : t[k].mode = mode
      BY <2>3 DEF With
    <3>. QED
      BY <1>3, <3>1 DEF With
  <2>. QED
    BY <2>1, <2>2, <2>3
<1>. QED
  BY <1>4, <1>5 DEF r

LEMMA PoisonJoin ==
  ASSUME NEW s, NEW t, IsList(s), IsList(t)
  PROVE  /\ OnePoison(s) /\ OnePoison(t)
              /\ (\A j \in 1 .. Len(s), k \in 1 .. Len(t) :
                    ~(s[j].mode = Poison /\ t[k].mode = Poison /\ s[j].f = t[k].f))
            => OnePoison(s \o t)
         /\ Single(s) /\ Single(t) /\ ~(With(s, Poison) /\ With(t, Poison)) => Single(s \o t)
<1> DEFINE r == s \o t
<1>1. /\ \A j \in 1 .. Len(s) : r[j] = s[j]
      /\ \A j \in 1 .. Len(r) : j \in 1 .. Len(s) \/ j - Len(s) \in 1 .. Len(t)
      /\ \A j \in 1 .. Len(t) : r[Len(s) + j] = t[j]
      /\ Len(s) \in Nat /\ Len(t) \in Nat /\ Len(r) \in Nat
  BY ListJoin
<1>2. \A j \in 1 .. Len(r) : j \notin 1 .. Len(s) =>
        j - Len(s) \in 1 .. Len(t) /\ r[j] = t[j - Len(s)]
  <2> SUFFICES ASSUME NEW j \in 1 .. Len(r), j \notin 1 .. Len(s)
               PROVE  j - Len(s) \in 1 .. Len(t) /\ r[j] = t[j - Len(s)]
    OBVIOUS
  <2>1. j - Len(s) \in 1 .. Len(t) /\ Len(s) + (j - Len(s)) = j
    BY <1>1
  <2>2. r[Len(s) + (j - Len(s))] = t[j - Len(s)]
    BY <1>1, <2>1
  <2>. QED
    BY <2>1, <2>2
<1> HIDE DEF r
<1>3. ASSUME OnePoison(s), OnePoison(t),
             \A j \in 1 .. Len(s), k \in 1 .. Len(t) :
               ~(s[j].mode = Poison /\ t[k].mode = Poison /\ s[j].f = t[k].f)
      PROVE  OnePoison(r)
  <2> SUFFICES ASSUME NEW j \in 1 .. Len(r), NEW k \in 1 .. Len(r),
                      r[j].mode = Poison, r[k].mode = Poison, r[j].f = r[k].f
               PROVE  j = k
    BY DEF OnePoison
  <2>1. CASE j \in 1 .. Len(s) /\ k \in 1 .. Len(s)
    BY <1>1, <1>3, <2>1 DEF OnePoison
  <2>2. CASE j \notin 1 .. Len(s) /\ k \notin 1 .. Len(s)
    <3> DEFINE a == j - Len(s)
               b == k - Len(s)
    <3>1. a \in 1 .. Len(t) /\ b \in 1 .. Len(t) /\ r[j] = t[a] /\ r[k] = t[b]
      BY <1>2, <2>2
    <3> HIDE DEF a, b
    <3>2. a = b
      BY <1>3, <3>1 DEF OnePoison
    <3>3. j - Len(s) = k - Len(s)
      BY <3>2 DEF a, b
    <3>. QED
      BY <1>1, <3>3
  <2>3. CASE j \in 1 .. Len(s) /\ k \notin 1 .. Len(s)
    <3>1. r[j] = s[j] /\ k - Len(s) \in 1 .. Len(t) /\ r[k] = t[k - Len(s)]
      BY <1>1, <1>2, <2>3
    <3>. QED
      BY <1>3, <2>3, <3>1
  <2>4. CASE j \notin 1 .. Len(s) /\ k \in 1 .. Len(s)
    <3>1. r[k] = s[k] /\ j - Len(s) \in 1 .. Len(t) /\ r[j] = t[j - Len(s)]
      BY <1>1, <1>2, <2>4
    <3>. QED
      BY <1>3, <2>4, <3>1
  <2>. QED
    BY <2>1, <2>2, <2>3, <2>4
<1>4. ASSUME Single(s), Single(t), ~(With(s, Poison) /\ With(t, Poison))
      PROVE  Single(r)
  <2> SUFFICES ASSUME NEW j \in 1 .. Len(r), NEW k \in 1 .. Len(r),
                      r[j].mode = Poison, r[k].mode = Poison
               PROVE  j = k
    BY DEF Single
  <2>1. CASE j \in 1 .. Len(s) /\ k \in 1 .. Len(s)
    BY <1>1, <1>4, <2>1 DEF Single
  <2>2. CASE j \notin 1 .. Len(s) /\ k \notin 1 .. Len(s)
    <3>1. j - Len(s) = k - Len(s)
      BY <1>2, <1>4, <2>2 DEF Single
    <3>. QED
      BY <1>1, <3>1
  <2>3. CASE j \in 1 .. Len(s) /\ k \notin 1 .. Len(s)
    BY <1>1, <1>2, <1>4, <2>3 DEF With
  <2>4. CASE j \notin 1 .. Len(s) /\ k \in 1 .. Len(s)
    BY <1>1, <1>2, <1>4, <2>4 DEF With
  <2>. QED
    BY <2>1, <2>2, <2>3, <2>4
<1>. QED
  BY <1>3, <1>4 DEF r

LEMMA WidthsJoin ==
  ASSUME NEW s, NEW t, IsList(s), IsList(t), AllWidths(s) \/ AllWidths(t)
  PROVE  AllWidths(s \o t)
<1> SUFFICES ASSUME NEW w \in 1 .. Len(llvm.floats)
             PROVE  \E k \in 1 .. Len(s \o t) : (s \o t)[k] = FastMath(llvm.floats[w])
  BY DEF AllWidths
<1>1. CASE AllWidths(s)
  <2>1. PICK k \in 1 .. Len(s) : s[k] = FastMath(llvm.floats[w])
    BY <1>1 DEF AllWidths
  <2>2. k \in 1 .. Len(s \o t) /\ (s \o t)[k] = s[k]
    BY ListJoin
  <2>. QED
    BY <2>1, <2>2
<1>2. CASE AllWidths(t)
  <2>1. PICK k \in 1 .. Len(t) : t[k] = FastMath(llvm.floats[w])
    BY <1>2 DEF AllWidths
  <2>2. Len(s) + k \in 1 .. Len(s \o t) /\ (s \o t)[Len(s) + k] = t[k]
    BY ListJoin
  <2>. QED
    BY <2>1, <2>2
<1>. QED
  BY <1>1, <1>2

-----------------------------------------------------------------------------
(* What is listed for a kernel by its metadata and by its modes.           *)

\* Nodes that say nothing about contraction as a whole or about poison.
Ordinary(s) ==
  /\ IsList(s)
  /\ \A j \in 1 .. Len(s) : /\ s[j].mode \notin {Off, Poison}
                            /\ s[j].mode \in FloatModes => IsList(s[j].args)

LEMMA OrdinaryJoin ==
  ASSUME NEW s, NEW t, Ordinary(s), Ordinary(t)
  PROVE  Ordinary(s \o t)
<1> DEFINE r == s \o t
<1>1. /\ IsList(r) /\ Len(s) \in Nat
      /\ \A j \in 1 .. Len(s) : r[j] = s[j]
      /\ \A j \in 1 .. Len(t) : r[Len(s) + j] = t[j]
      /\ \A j \in 1 .. Len(r) : j \in 1 .. Len(s) \/ j - Len(s) \in 1 .. Len(t)
  BY ListJoin DEF Ordinary
<1> SUFFICES ASSUME NEW j \in 1 .. Len(r)
             PROVE  /\ r[j].mode \notin {Off, Poison}
                    /\ r[j].mode \in FloatModes => IsList(r[j].args)
  BY <1>1 DEF Ordinary
<1> HIDE DEF r
<1>2. CASE j \in 1 .. Len(s)
  BY <1>1, <1>2 DEF Ordinary
<1>3. CASE j - Len(s) \in 1 .. Len(t)
  <2>1. Len(s) + (j - Len(s)) = j
    BY <1>1
  <2>2. r[j] = t[j - Len(s)]
    BY <1>1, <1>3, <2>1
  <2>. QED
    BY <1>3, <2>2 DEF Ordinary
<1>. QED
  BY <1>1, <1>2, <1>3

LEMMA OrdinaryNone == Ordinary(<<>>)
<1>1. IsList(<<>>)
  BY DEF IsList
<1>. QED
  BY <1>1 DEF Ordinary

LEMMA OrdinaryIf ==
  ASSUME NEW c, NEW s, c => Ordinary(s)
  PROVE  Ordinary(If(c, s))
BY OrdinaryNone DEF If

LEMMA OrdinaryNode ==
  ASSUME NEW i, NEW mode, NEW args, mode \notin {Off, Poison},
         mode \in FloatModes => IsList(args)
  PROVE  Ordinary(<<Node(i, mode, args)>>)
<1> DEFINE x == Node(i, mode, args)
<1>1. x.mode = mode /\ x.args = args
  BY DEF Node
<1> HIDE DEF x
<1>2. Ordinary(<<x>>)
  BY <1>1, ListSmall DEF Ordinary
<1>. QED
  BY <1>2 DEF x

LEMMA OrdinaryPart ==
  ASSUME NEW c, NEW i, NEW mode, NEW args, mode \notin {Off, Poison} \cup FloatModes
  PROVE  Ordinary(If(c, <<Node(i, mode, args)>>))
BY OrdinaryNode, OrdinaryIf

LEMMA KernelNodesOrdinary ==
  ASSUME NEW i, NEW f
  PROVE  Ordinary(KernelNodes(i, f))
<1> DEFINE m == f.md
           One(key, mode) == If(Has(m, key), <<Node(i, mode, <<m[key]>>)>>)
           Dims(key, mode) == If(Has(m, key), <<Node(i, mode, ThreeDims(m[key]))>>)
           Interface(name, mode, flag) ==
             If(Has(m, "ip_interface") /\ name \in m.ip_interface,
                <<Node(i, mode, <<IF flag \in m.ip_interface THEN 1 ELSE 0>>)>>)
           Intel == "intel_reqd_sub_group_size"
           p1 == Dims("reqd_work_group_size", "LocalSize")
           p2 == Dims("work_group_size_hint", "LocalSizeHint")
           p3 == Dims("max_work_group_size", "MaxWorkgroupSizeINTEL")
           p4 == If(Has(m, "vec_type_hint"),
                    <<Node(i, "VecTypeHint", <<encodeVecTypeHint(m.vec_type_hint)>>)>>)
           named == If(m[Intel] = -1, <<Node(i, "NamedSubgroupSizeINTEL", <<0>>)>>)
           p5 == IF Has(m, "reqd_sub_group_size")
                 THEN One("reqd_sub_group_size", "SubgroupSize")
                 ELSE If(Has(m, Intel), named \o One(Intel, "SubgroupSize"))
           p6 == If(Has(m, "no_global_work_offset"), <<Node(i, "NoGlobalOffsetINTEL", <<>>)>>)
           p7 == One("max_global_work_dim", "MaxWorkDimINTEL")
           p8 == One("num_simd_work_items", "NumSIMDWorkitemsINTEL")
           p9 == One("scheduler_target_fmax_mhz", "SchedulerTargetFmaxMhzINTEL")
           p10 == Interface("csr", "RegisterMapInterfaceINTEL", "wait_for_done_write")
           p11 == Interface("streaming", "StreamingInterfaceINTEL", "stall_free_return")
<1> DEFINE Free(mode) == mode \notin {Off, Poison} \cup FloatModes
<1>1. /\ Free("LocalSize") /\ Free("LocalSizeHint") /\ Free("MaxWorkgroupSizeINTEL")
      /\ Free("VecTypeHint") /\ Free("NamedSubgroupSizeINTEL") /\ Free("SubgroupSize")
      /\ Free("NoGlobalOffsetINTEL") /\ Free("MaxWorkDimINTEL")
      /\ Free("NumSIMDWorkitemsINTEL") /\ Free("SchedulerTargetFmaxMhzINTEL")
      /\ Free("RegisterMapInterfaceINTEL") /\ Free("StreamingInterfaceINTEL")
  BY DEF Off, Poison, FloatModes
<1>2. Ordinary(p1) /\ Ordinary(p2) /\ Ordinary(p3) /\ Ordinary(p4)
  BY <1>1, OrdinaryPart, Zenon
<1>3. Ordinary(p5)
  <2>1. /\ Ordinary(One("reqd_sub_group_size", "SubgroupSize"))
        /\ Ordinary(One(Intel, "SubgroupSize"))
    BY <1>1, OrdinaryPart, Zenon
  <2>2. Ordinary(named)
    BY <1>1, OrdinaryPart, Zenon
  <2>3. Ordinary(named \o One(Intel, "SubgroupSize"))
    BY <2>1, <2>2, OrdinaryJoin, Zenon
  <2>4. Ordinary(If(Has(m, Intel), named \o One(Intel, "SubgroupSize")))
    BY <2>3, OrdinaryIf, Zenon
  <2>. QED
    BY <2>1, <2>4, Zenon
<1>4. Ordinary(p6) /\ Ordinary(p7) /\ Ordinary(p8) /\ Ordinary(p9)
  BY <1>1, OrdinaryPart, Zenon
<1>5. Ordinary(p10) /\ Ordinary(p11)
  BY <1>1, OrdinaryPart, Zenon
<1>6. KernelNodes(i, f) = p1 \o p2 \o p3 \o p4 \o p5 \o p6 \o p7 \o p8 \o p9 \o p10 \o p11
  BY Zenon DEF KernelNodes
<1> HIDE DEF p1, p2, p3, p4, p5, p6, p7, p8, p9, p10, p11
<1>7. Ordinary(p1 \o p2 \o p3 \o p4 \o p5)
  BY <1>2, <1>3, OrdinaryJoin
<1>8. Ordinary(p1 \o p2 \o p3 \o p4 \o p5 \o p6 \o p7 \o p8)
  BY <1>4, <1>7, OrdinaryJoin
<1>9. Ordinary(p1 \o p2 \o p3 \o p4 \o p5 \o p6 \o p7 \o p8 \o p9 \o p10 \o p11)
  BY <1>4, <1>5, <1>8, OrdinaryJoin
<1>. QED
  BY <1>6, <1>9

LEMMA OrdinaryFlatten ==
  ASSUME NEW ss, IsList(ss), \A i \in 1 .. Len(ss) : Ordinary(ss[i])
  PROVE  Ordinary(FlattenSeq(ss))
<1>1. \A i \in 1 .. Len(ss) : IsList(ss[i])
  BY DEF Ordinary
<1>2. /\ IsList(FlattenSeq(ss))
      /\ \A j \in 1 .. Len(FlattenSeq(ss)) :
           \E i \in 1 .. Len(ss) : \E k \in 1 .. Len(ss[i]) : FlattenSeq(ss)[j] = ss[i][k]
  BY <1>1, ListFlatten
<1>. QED
  BY <1>2 DEF Ordinary

LEMMA VectorComputeOrdinary ==
  ASSUME NEW i, NEW f
  PROVE  Ordinary(preprocessVectorComputeMetadata(i, f))
<1> DEFINE c == f.attr.VCFloatControl
           a == RoundMode[getFPRoundingMode(c)]
           b == OperationMode[getFPOperationMode(c)]
           d(w) == DenormMode[getFPDenormMode(c, w)]
           ForWidth(w) == << Node(i, a, <<w>>), Node(i, b, <<w>>), Node(i, d(w), <<w>>) >>
           ss == [j \in 1 .. 3 |-> ForWidth(Widths[j])]
           p1 == If(Has(f.attr, "VCFloatControl"), FlattenSeq(ss))
           p2 == If(Has(f.attr, "VCSLMSize"),
                    <<Node(i, "SharedLocalMemorySizeINTEL", <<f.attr.VCSLMSize>>)>>)
           p3 == If(Has(f.attr, "VCNamedBarrierCount"),
                    <<Node(i, "NamedBarrierCountINTEL", <<f.attr.VCNamedBarrierCount>>)>>)
<1>1. a \notin {Off, Poison}
  <2> DEFINE r == getFPRoundingMode(c)
  <2>1. \E q \in DOMAIN RoundBits : RoundBits[q] = c \cap {4, 5}
    <3>1. c \cap {4, 5} \in {{}, {4}, {5}, {4, 5}}
      OBVIOUS
    <3>2. \A x \in {{}, {4}, {5}, {4, 5}} : \E q \in DOMAIN RoundBits : RoundBits[q] = x
      BY DEF RoundBits
    <3>. QED
      BY <3>1, <3>2
  <2>2. r \in DOMAIN RoundBits
    BY <2>1 DEF getFPRoundingMode
  <2> HIDE DEF r
  <2>3. RoundMode[r] \notin {Off, Poison}
    BY <2>2 DEF RoundBits, RoundMode, Off, Poison
  <2>. QED
    BY <2>3 DEF r
<1>2. b \notin {Off, Poison}
  <2> DEFINE r == getFPOperationMode(c)
  <2>1. \E q \in DOMAIN OperationBits : OperationBits[q] = c \cap {0}
    <3>1. c \cap {0} \in {{}, {0}}
      OBVIOUS
    <3>2. \A x \in {{}, {0}} : \E q \in DOMAIN OperationBits : OperationBits[q] = x
      BY DEF OperationBits
    <3>. QED
      BY <3>1, <3>2
  <2>2. r \in DOMAIN OperationBits
    BY <2>1 DEF getFPOperationMode
  <2> HIDE DEF r
  <2>3. OperationMode[r] \notin {Off, Poison}
    BY <2>2 DEF OperationBits, OperationMode, Off, Poison
  <2>. QED
    BY <2>3 DEF r
<1>3. \A w : d(w) \notin {Off, Poison}
  BY DEF getFPDenormMode, DenormMode, Off, Poison
<1>4. \A w : Ordinary(ForWidth(w))
  <2> SUFFICES ASSUME NEW w PROVE Ordinary(ForWidth(w))
    OBVIOUS
  <2> DEFINE x == Node(i, a, <<w>>)
             y == Node(i, b, <<w>>)
             z == Node(i, d(w), <<w>>)
  <2>1. IsList(<<w>>) /\ d(w) \notin {Off, Poison}
    BY <1>3, ListSmall
  <2> HIDE DEF a, b, d
  <2>2. /\ x.mode = a /\ y.mode = b /\ z.mode = d(w)
        /\ IsList(x.args) /\ IsList(y.args) /\ IsList(z.args)
    BY <2>1 DEF Node
  <2> HIDE DEF x, y, z
  <2> DEFINE s == <<x, y, z>>
  <2>3. IsList(s) /\ Len(s) = 3 /\ s[1] = x /\ s[2] = y /\ s[3] = z
    BY DEF IsList
  <2> HIDE DEF s
  <2>4. \A j \in 1 .. Len(s) : s[j] = x \/ s[j] = y \/ s[j] = z
    BY <2>3
  <2>5. Ordinary(s)
    BY <1>1, <1>2, <2>1, <2>2, <2>3, <2>4 DEF Ordinary
  <2>. QED
    BY <2>5 DEF s, x, y, z
<1>5. Ordinary(FlattenSeq(ss))
  <2>1. \A j \in 1 .. 3 : Ordinary(ss[j])
    BY <1>4
  <2>2. ss = [j \in 1 .. 3 |-> ss[j]]
    OBVIOUS
  <2> HIDE DEF ss
  <2>3. IsList(ss) /\ Len(ss) = 3
    BY <2>2, ListFunction
  <2>. QED
    BY <2>1, <2>3, OrdinaryFlatten
<1>6. Ordinary(p1)
  BY <1>5, OrdinaryIf, Zenon
<1>7. Ordinary(p2) /\ Ordinary(p3)
  <2>1. "SharedLocalMemorySizeINTEL" \notin {Off, Poison} \cup FloatModes
        /\ "NamedBarrierCountINTEL" \notin {Off, Poison} \cup FloatModes
    BY DEF Off, Poison, FloatModes
  <2>. QED
    BY <2>1, OrdinaryPart, Zenon
<1>8. preprocessVectorComputeMetadata(i, f) = p1 \o p2 \o p3
  BY Zenon DEF preprocessVectorComputeMetadata
<1> HIDE DEF p1, p2, p3
<1>. QED
  BY <1>6, <1>7, <1>8, OrdinaryJoin

LEMMA StructorsOrdinary ==
  ASSUME NEW ctors, IsList(ctors)
  PROVE  Ordinary(preprocessCXXStructorList(ctors))
<1> DEFINE s == preprocessCXXStructorList(ctors)
<1>1. Len(ctors) \in Nat /\ s = [j \in 1 .. Len(ctors) |-> s[j]]
  BY DEF IsList, preprocessCXXStructorList
<1>2. IsList(s) /\ Len(s) = Len(ctors)
  BY <1>1, ListFunction
<1>3. \A j \in 1 .. Len(ctors) : s[j].mode = "Initializer"
  BY DEF preprocessCXXStructorList, Node
<1> HIDE DEF s
<1>4. Ordinary(s)
  BY <1>2, <1>3 DEF Ordinary, Off, Poison, FloatModes
<1>. QED
  BY <1>4 DEF s

LEMMA FastMathNodesOrdinary ==
  ASSUME NEW i, NEW bf, IsList(bf.modes)
  PROVE  Ordinary(ReadFastMathNodes(i, bf))
<1> DEFINE n == Len(bf.modes)
           Part(j) == If(bf.modes[j].mode = "FPFastMathDefault",
                         <<Node(i, "FPFastMathDefault", bf.modes[j].args)>>)
           ss == [j \in 1 .. n |-> Part(j)]
<1>1. "FPFastMathDefault" \notin {Off, Poison} \cup FloatModes
  BY DEF Off, Poison, FloatModes
<1>2. \A j : Ordinary(Part(j))
  BY <1>1, OrdinaryPart, Zenon
<1>3. ReadFastMathNodes(i, bf) = FlattenSeq(ss)
  BY Zenon DEF ReadFastMathNodes
<1> HIDE DEF Part
<1>4. n \in Nat /\ ss = [j \in 1 .. n |-> ss[j]] /\ \A j \in 1 .. n : Ordinary(ss[j])
  BY <1>2 DEF IsList
<1> HIDE DEF ss
<1>5. IsList(ss) /\ Len(ss) = n
  BY <1>4, ListFunction
<1>. QED
  BY <1>3, <1>4, <1>5, OrdinaryFlatten

\* The reader lists ordinary nodes, then poison at most once.
LEMMA ReadNodesAre ==
  ASSUME NEW i, NEW bf
  PROVE  \E s, t : /\ ReadNodes(i, bf) = s \o t /\ Ordinary(s)
                   /\ t = <<>> \/ \E args : t = <<Node(i, Poison, args)>>
<1> DEFINE L(mode) == If(HasMode(bf, mode), <<Node(i, mode, getExecutionMode(bf, mode))>>)
           p1 == L("SubgroupsPerWorkgroup")
           p2 == L("MaximumRegistersINTEL")
           p3 == L("MaximumRegistersIdINTEL")
           p4 == L("NamedMaximumRegistersINTEL")
           p5 == L("ArithmeticPoisonKHR")
<1>1. ReadNodes(i, bf) = p1 \o p2 \o p3 \o p4 \o p5
  BY Zenon DEF ReadNodes
<1>2. \A mode \in {"SubgroupsPerWorkgroup", "MaximumRegistersINTEL",
                   "MaximumRegistersIdINTEL", "NamedMaximumRegistersINTEL"} :
        mode \notin {Off, Poison} \cup FloatModes
  BY DEF Off, Poison, FloatModes
<1>3. Ordinary(p1) /\ Ordinary(p2) /\ Ordinary(p3) /\ Ordinary(p4)
  BY <1>2, OrdinaryPart, Zenon
<1>4. p5 = <<>> \/ \E args : p5 = <<Node(i, Poison, args)>>
  BY Zenon DEF If, Poison
<1> HIDE DEF p1, p2, p3, p4, p5
<1>5. Ordinary(p1 \o p2 \o p3 \o p4)
  BY <1>3, OrdinaryJoin
<1>. QED
  BY <1>1, <1>4, <1>5

\* More nodes in a module's list.
LEMMA NodesAdd ==
  ASSUME NEW s, NEW t, IsList(s), Ordinary(t), NEW i
  PROVE  /\ IsList(s \o t)
         /\ OnePoison(s) => OnePoison(s \o t)
         /\ ListedFor(s \o t, i, Off) <=> ListedFor(s, i, Off)
         /\ ListedFor(s \o t, i, Poison) <=> ListedFor(s, i, Poison)
         /\ (\A j \in 1 .. Len(s) : s[j].mode \in FloatModes => IsList(s[j].args)) =>
              \A j \in 1 .. Len(s \o t) :
                (s \o t)[j].mode \in FloatModes => IsList((s \o t)[j].args)
<1>1. IsList(t) /\ ~ListedFor(t, i, Off) /\ ~ListedFor(t, i, Poison) /\ OnePoison(t)
  BY DEF Ordinary, ListedFor, OnePoison
<1>2. /\ IsList(s \o t)
      /\ ListedFor(s \o t, i, Off) <=> ListedFor(s, i, Off)
      /\ ListedFor(s \o t, i, Poison) <=> ListedFor(s, i, Poison)
  BY <1>1, ListJoin, ListedJoin
<1>3. OnePoison(s) => OnePoison(s \o t)
  BY <1>1, PoisonJoin DEF Ordinary
<1> DEFINE r == s \o t
<1>4. /\ \A j \in 1 .. Len(s) : r[j] = s[j]
      /\ \A j \in 1 .. Len(t) : r[Len(s) + j] = t[j]
      /\ \A j \in 1 .. Len(r) : j \in 1 .. Len(s) \/ j - Len(s) \in 1 .. Len(t)
      /\ Len(s) \in Nat
  BY <1>1, ListJoin
<1> HIDE DEF r
<1>5. ASSUME \A j \in 1 .. Len(s) : s[j].mode \in FloatModes => IsList(s[j].args),
             NEW j \in 1 .. Len(r), r[j].mode \in FloatModes
      PROVE  IsList(r[j].args)
  <2>1. CASE j \in 1 .. Len(s)
    BY <1>4, <1>5, <2>1
  <2>2. CASE j - Len(s) \in 1 .. Len(t)
    <3>1. Len(s) + (j - Len(s)) = j
      BY <1>4
    <3>2. r[j] = t[j - Len(s)]
      BY <1>4, <2>2, <3>1
    <3>. QED
      BY <1>5, <2>2, <3>2 DEF Ordinary
  <2>. QED
    BY <1>4, <2>1, <2>2
<1>. QED
  BY <1>2, <1>3, <1>5 DEF r

-----------------------------------------------------------------------------
(* The registers that metadata asks for.                                   *)

LEMMA MergeIs ==
  ASSUME NEW ms
  PROVE  Merge(ms) = [k \in UNION {DOMAIN ms[j] : j \in DOMAIN ms} |->
                        ms[Min({j \in DOMAIN ms : k \in DOMAIN ms[j]})][k]]
BY DEF Merge

\* Every kind of what is merged comes from one of the parts.
LEMMA MergeValue ==
  ASSUME NEW ms, IsList(ms), NEW k \in DOMAIN Merge(ms)
  PROVE  \E j \in 1 .. Len(ms) : k \in DOMAIN ms[j] /\ Merge(ms)[k] = ms[j][k]
<1> DEFINE T == {j \in DOMAIN ms : k \in DOMAIN ms[j]}
<1>1. DOMAIN ms = 1 .. Len(ms) /\ Len(ms) \in Nat
  BY DEF IsList
<1>2. k \in UNION {DOMAIN ms[j] : j \in DOMAIN ms} /\ Merge(ms)[k] = ms[Min(T)][k]
  BY MergeIs
<1>3. T \in SUBSET Nat /\ T # {}
  BY <1>1, <1>2
<1>4. Min(T) \in T
  <2>1. \E x \in T : \A y \in T : x <= y
    BY <1>3, LeastNatural
  <2> HIDE DEF T
  <2>. QED
    BY <2>1 DEF Min
<1>. QED
  BY <1>1, <1>2, <1>4

LEMMA MergeRegisters ==
  ASSUME NEW ms, IsList(ms), \A j \in 1 .. Len(ms) : Registers(ms[j])
  PROVE  Registers(Merge(ms))
<1> DEFINE R == "MaximumRegisters"
<1> SUFFICES ASSUME R \in DOMAIN Merge(ms) PROVE Registers(Merge(ms))
  BY DEF Registers, Has
<1>1. PICK j \in 1 .. Len(ms) : R \in DOMAIN ms[j] /\ Merge(ms)[R] = ms[j][R]
  BY MergeValue
<1>2. Registers(ms[j])
  OBVIOUS
<1>. QED
  BY <1>1, <1>2 DEF Registers, Has

\* Metadata that the reader gives a function is of other kinds.
Lacks(m) == "MaximumRegisters" \notin DOMAIN m

LEMMA MergeLacks ==
  ASSUME NEW ms, \A j \in DOMAIN ms : Lacks(ms[j])
  PROVE  Lacks(Merge(ms))
BY MergeIs DEF Lacks

LEMMA KeyLacks ==
  ASSUME NEW c, NEW key, NEW val, key # "MaximumRegisters"
  PROVE  /\ Lacks(<<>>) /\ Lacks(Key(key, val)) /\ Lacks(Set(c, key, val))
         /\ Lacks(IF c THEN Key(key, val) ELSE <<>>)
<1>1. Lacks(<<>>)
  BY DEF Lacks
<1>2. Lacks(Key(key, val))
  BY DEF Lacks, Key
<1>. QED
  BY <1>1, <1>2 DEF Set

LEMMA ModesLack ==
  ASSUME NEW bf
  PROVE  Lacks(ReadModes(bf))
<1> DEFINE Args(mode) == getExecutionMode(bf, mode)
           All(mode, key) == IF HasMode(bf, mode) THEN Key(key, Args(mode)) ELSE <<>>
           One(mode, key) == IF HasMode(bf, mode) THEN Key(key, Args(mode)[1]) ELSE <<>>
           Interface(mode) == IF HasMode(bf, mode)
                              THEN Key("ip_interface", Interfaces[mode][Args(mode)[1] + 1])
                              ELSE <<>>
           p1 == Set(HasMode(bf, "NamedSubgroupSizeINTEL"), "intel_reqd_sub_group_size", -1)
           p2 == Interface("StreamingInterfaceINTEL")
           p3 == Interface("RegisterMapInterfaceINTEL")
           p4 == All("LocalSize", "reqd_work_group_size")
           p5 == All("LocalSizeHint", "work_group_size_hint")
           p6 == All("MaxWorkgroupSizeINTEL", "max_work_group_size")
           p7 == IF HasMode(bf, "VecTypeHint")
                 THEN Key("vec_type_hint", decodeVecTypeHint(Args("VecTypeHint")[1]))
                 ELSE <<>>
           p8 == One("SubgroupSize", "reqd_sub_group_size")
           p9 == One("SubgroupSize", "intel_reqd_sub_group_size")
           p10 == Set(HasMode(bf, "NoGlobalOffsetINTEL"), "no_global_work_offset", TRUE)
           p11 == One("MaxWorkDimINTEL", "max_global_work_dim")
           p12 == One("NumSIMDWorkitemsINTEL", "num_simd_work_items")
           p13 == One("SchedulerTargetFmaxMhzINTEL", "scheduler_target_fmax_mhz")
           ms == <<p1, p2, p3, p4, p5, p6, p7, p8, p9, p10, p11, p12, p13>>
<1>0. \A key \in {"intel_reqd_sub_group_size", "ip_interface",
                  "reqd_work_group_size", "work_group_size_hint",
                  "max_work_group_size", "vec_type_hint", "reqd_sub_group_size",
                  "no_global_work_offset", "max_global_work_dim",
                  "num_simd_work_items", "scheduler_target_fmax_mhz"} :
        key # "MaximumRegisters"
  OBVIOUS
<1>1. Lacks(p1) /\ Lacks(p2) /\ Lacks(p3) /\ Lacks(p4) /\ Lacks(p5) /\ Lacks(p6)
  BY <1>0, KeyLacks, Zenon
<1>2. Lacks(p7) /\ Lacks(p8) /\ Lacks(p9) /\ Lacks(p10) /\ Lacks(p11)
  BY <1>0, KeyLacks, Zenon
<1>3. Lacks(p12) /\ Lacks(p13)
  BY <1>0, KeyLacks, Zenon
<1>4. ReadModes(bf) = Merge(ms)
  BY Zenon DEF ReadModes
<1> HIDE DEF p1, p2, p3, p4, p5, p6, p7, p8, p9, p10, p11, p12, p13
<1>5. \A j \in DOMAIN ms : Lacks(ms[j])
  BY <1>1, <1>2, <1>3
<1> HIDE DEF ms
<1>. QED
  BY <1>4, <1>5, MergeLacks

LEMMA FPGALacks ==
  ASSUME NEW bf
  PROVE  Lacks(ReadFPGAMetadata(bf))
<1> DEFINE Args(dec) == getDecoration(bf, dec).args
           One(dec, key) == IF HasDec(bf, dec) THEN Key(key, Args(dec)[1]) ELSE <<>>
           Dsp == HasDec(bf, "MathOpDSPModeINTEL")
           p1 == Set(HasDec(bf, "StallEnableINTEL"), "stall_enable", 1)
           p2 == Set(HasDec(bf, "StallFreeINTEL"), "stall_free", 1)
           p3 == IF HasDec(bf, "FuseLoopsInFunctionINTEL")
                 THEN Key("loop_fuse", Args("FuseLoopsInFunctionINTEL")) ELSE <<>>
           p4 == IF Dsp THEN Key("prefer_dsp", Args("MathOpDSPModeINTEL")[1]) ELSE <<>>
           p5 == IF Dsp /\ Args("MathOpDSPModeINTEL")[2] # 0
                 THEN Key("propagate_dsp_preference", Args("MathOpDSPModeINTEL")[2]) ELSE <<>>
           p6 == One("InitiationIntervalINTEL", "initiation_interval")
           p7 == One("MaxConcurrencyINTEL", "max_concurrency")
           p8 == One("PipelineEnableINTEL", "pipeline_kernel")
           ms == <<p1, p2, p3, p4, p5, p6, p7, p8>>
<1>0. \A key \in {"stall_enable", "stall_free", "loop_fuse", "prefer_dsp",
                  "propagate_dsp_preference", "initiation_interval",
                  "max_concurrency", "pipeline_kernel"} :
        key # "MaximumRegisters"
  OBVIOUS
<1>1. Lacks(p1) /\ Lacks(p2) /\ Lacks(p3) /\ Lacks(p4)
  BY <1>0, KeyLacks, Zenon
<1>2. Lacks(p5) /\ Lacks(p6) /\ Lacks(p7) /\ Lacks(p8)
  BY <1>0, KeyLacks, Zenon
<1>3. ReadFPGAMetadata(bf) = Merge(ms)
  BY Zenon DEF ReadFPGAMetadata
<1> HIDE DEF p1, p2, p3, p4, p5, p6, p7, p8
<1>4. \A j \in DOMAIN ms : Lacks(ms[j])
  BY <1>1, <1>2
<1> HIDE DEF ms
<1>. QED
  BY <1>3, <1>4, MergeLacks

LEMMA OCLLacks ==
  ASSUME NEW o, NEW strings, NEW bf
  PROVE  Lacks(ReadOCLMetadata(o, strings, bf))
<1> DEFINE ps == bf.params
           Found(decs) == \E p \in ToSet(ps) : \E d \in decs : HasDec(p, d)
           Location(p) == IF p.kind = "ptr" /\ HasDec(p, "BufferLocationINTEL")
                          THEN getDecoration(p, "BufferLocationINTEL").args[1] ELSE -1
           Aligned(p) == IF HasDec(p, "RuntimeAlignedINTEL") THEN 1 ELSE 0
           types == [j \in 1 .. Len(ps) |-> OCLTypeName(ps[j])]
           p1 == Key("kernel_arg_addr_space", [j \in 1 .. Len(ps) |-> AddrSpace(ps[j])])
           p2 == Key("kernel_arg_access_qual", [j \in 1 .. Len(ps) |-> AccessQual(ps[j])])
           p3 == Key("kernel_arg_type", FromString(o, strings, "kernel_arg_type", bf, types))
           p4 == Key("kernel_arg_type_qual",
                   FromString(o, strings, "kernel_arg_type_qual", bf,
                              [j \in 1 .. Len(ps) |-> QualOf(ps[j])]))
           p5 == Key("kernel_arg_base_type", types)
           p6 == Set(o.argNames, "kernel_arg_name", [j \in 1 .. Len(ps) |-> ps[j].name])
           p7 == Set(Found({"BufferLocationINTEL"}), "kernel_arg_buffer_location",
                   [j \in 1 .. Len(ps) |-> Location(ps[j])])
           p8 == Set(Found({"RuntimeAlignedINTEL"}), "kernel_arg_runtime_aligned",
                   [j \in 1 .. Len(ps) |-> Aligned(ps[j])])
           p9 == Key("spirv.ParameterDecorations", [j \in 1 .. Len(ps) |-> ps[j].decs])
           ms == <<p1, p2, p3, p4, p5, p6, p7, p8, p9>>
<1>0. \A key \in {"kernel_arg_addr_space", "kernel_arg_access_qual",
                  "kernel_arg_type", "kernel_arg_type_qual", "kernel_arg_base_type",
                  "kernel_arg_name", "kernel_arg_buffer_location",
                  "kernel_arg_runtime_aligned", "spirv.ParameterDecorations"} :
        key # "MaximumRegisters"
  OBVIOUS
<1>1. Lacks(p1) /\ Lacks(p2) /\ Lacks(p3) /\ Lacks(p4) /\ Lacks(p5)
  BY <1>0, KeyLacks, Zenon
<1>2. Lacks(p6) /\ Lacks(p7) /\ Lacks(p8) /\ Lacks(p9) /\ Lacks(<<>>)
  BY <1>0, KeyLacks, Zenon
<1>3. ReadOCLMetadata(o, strings, bf)
        = IF ~bf.kernel \/ HasDec(bf, "VectorComputeFunctionINTEL") THEN <<>> ELSE Merge(ms)
  BY Zenon DEF ReadOCLMetadata
<1> HIDE DEF p1, p2, p3, p4, p5, p6, p7, p8, p9
<1>4. \A j \in DOMAIN ms : Lacks(ms[j])
  BY <1>1, <1>2
<1> HIDE DEF ms
<1>. QED
  BY <1>2, <1>3, <1>4, MergeLacks

LEMMA MetadataRegisters ==
  ASSUME NEW o, NEW strings, NEW bf
  PROVE  Registers(Merge(<<IF bf.kernel THEN ReadModes(bf) ELSE <<>>, ReadFPGAMetadata(bf),
                           ReadOCLMetadata(o, strings, bf)>>))
<1> DEFINE x == IF bf.kernel THEN ReadModes(bf) ELSE <<>>
           y == ReadFPGAMetadata(bf)
           z == ReadOCLMetadata(o, strings, bf)
           ms == <<x, y, z>>
<1>1. Lacks(x) /\ Lacks(y) /\ Lacks(z)
  <2>1. Lacks(<<>>)
    BY DEF Lacks
  <2>. QED
    BY <2>1, ModesLack, FPGALacks, OCLLacks
<1> HIDE DEF x, y, z
<1>2. \A j \in DOMAIN ms : Lacks(ms[j])
  BY <1>1
<1> HIDE DEF ms
<1>3. Registers(Merge(ms))
  BY <1>2, MergeLacks DEF Lacks, Registers, Has
<1>. QED
  BY <1>3 DEF ms, x, y, z

-----------------------------------------------------------------------------
(* What a listed node adds to the modes of its function.                   *)

\* s becomes r when modes are added to function f, in the fields that count here.
Grows(s, r, f, modes) ==
  /\ {"funcs", "aux", "caps", "ctors"} \subseteq DOMAIN r
  /\ r.aux = s.aux /\ r.ctors = s.ctors
  /\ \A i \in DOMAIN s.funcs :
       /\ DOMAIN r.funcs[i] = DOMAIN s.funcs[i]
       /\ "kernel" \in DOMAIN s.funcs[i] => r.funcs[i].kernel = s.funcs[i].kernel
       /\ "modes" \in DOMAIN s.funcs[i] =>
            r.funcs[i].modes = IF i = f THEN s.funcs[i].modes \o modes ELSE s.funcs[i].modes

Shaped(s) == {"funcs", "aux", "caps", "ctors"} \subseteq DOMAIN s

LEMMA AddGrows ==
  ASSUME NEW s, Shaped(s), NEW f, NEW modes
  PROVE  Grows(s, AddModes(s, f, modes), f, modes)
<1> DEFINE x == s.funcs[f].modes \o modes
           more == UNION {ModeCaps(m.mode) : m \in ToSet(modes)}
           fs == [s.funcs EXCEPT ![f].modes = x]
           r == [s EXCEPT !.funcs = fs, !.caps = @ \cup more]
<1>1. AddModes(s, f, modes) = [s EXCEPT !.funcs[f].modes = @ \o modes, !.caps = @ \cup more]
  BY Zenon DEF AddModes
<1> HIDE DEF more
<1>2. AddModes(s, f, modes) = r
  BY <1>1
<1>3. ASSUME NEW i \in DOMAIN s.funcs
      PROVE  /\ DOMAIN fs[i] = DOMAIN s.funcs[i]
             /\ "kernel" \in DOMAIN s.funcs[i] => fs[i].kernel = s.funcs[i].kernel
             /\ "modes" \in DOMAIN s.funcs[i] =>
                  fs[i].modes = IF i = f THEN s.funcs[i].modes \o modes ELSE s.funcs[i].modes
  OBVIOUS
<1> HIDE DEF fs
<1>4. DOMAIN r = DOMAIN s /\ r.funcs = fs /\ r.aux = s.aux /\ r.ctors = s.ctors
  BY DEF Shaped
<1> HIDE DEF r
<1>5. Grows(s, r, f, modes)
  BY <1>3, <1>4 DEF Grows, Shaped
<1>. QED
  BY <1>2, <1>5

\* The other fields of a module in SPIR-V do not count.
Alike(r, t) ==
  /\ {"funcs", "aux", "caps", "ctors"} \subseteq DOMAIN t
  /\ t.funcs = r.funcs /\ t.aux = r.aux /\ t.ctors = r.ctors

LEMMA GrowsOn ==
  ASSUME NEW s, NEW r, NEW t, NEW f, NEW modes, Grows(s, r, f, modes), Alike(r, t)
  PROVE  Grows(s, t, f, modes)
BY DEF Grows, Alike

LEMMA GrowsNot ==
  ASSUME NEW s, Shaped(s), NEW f,
         \A i \in DOMAIN s.funcs : "modes" \in DOMAIN s.funcs[i] => IsList(s.funcs[i].modes)
  PROVE  Grows(s, s, f, <<>>)
<1>1. \A l : IsList(l) => l \o <<>> = l
  <2> SUFFICES ASSUME NEW l, IsList(l) PROVE l \o <<>> = l
    OBVIOUS
  <2> DEFINE S == {l[j] : j \in 1 .. Len(l)}
  <2>1. l \in Seq(S)
    BY ListIn
  <2> HIDE DEF S
  <2>. QED
    BY <2>1
<1>. QED
  BY <1>1 DEF Grows, Shaped

\* Whatever is listed, its modes say about contraction and poison what the node says.
Meant(n, modes) ==
  /\ IsList(modes) /\ Single(modes)
  /\ With(modes, Poison) => n.mode = Poison
  /\ With(modes, Off) => n.mode = Off
  /\ n.mode = Off => IF "float_controls2" \in opt.ext THEN AllWidths(modes)
                                                      ELSE With(modes, Off)

LEMMA MeantNone ==
  ASSUME NEW n, n.mode # Off
  PROVE  Meant(n, <<>>)
<1>1. IsList(<<>>)
  BY DEF IsList
<1>. QED
  BY <1>1 DEF Meant, Single, With

LEMMA MeantOne ==
  ASSUME NEW n, n.mode = Off => "float_controls2" \notin opt.ext
  PROVE  Meant(n, <<[mode |-> n.mode, args |-> n.args]>>)
<1> DEFINE x == [mode |-> n.mode, args |-> n.args]
<1>1. x.mode = n.mode
  OBVIOUS
<1> HIDE DEF x
<1>2. IsList(<<x>>) /\ Len(<<x>>) = 1 /\ <<x>>[1] = x
  BY ListSmall
<1>3. Single(<<x>>)
  BY <1>2 DEF Single
<1>4. \A mode : With(<<x>>, mode) <=> n.mode = mode
  BY <1>1, <1>2 DEF With
<1>5. Meant(n, <<x>>)
  BY <1>2, <1>3, <1>4 DEF Meant
<1>. QED
  BY <1>5 DEF x

LEMMA FastMathAre ==
  ASSUME NEW widths, IsList(widths), NEW flags
  PROVE  LET s == FastMathModes(widths, flags)
         IN  /\ IsList(s) /\ Single(s) /\ ~With(s, Poison) /\ ~With(s, Off)
             /\ Len(s) = Len(widths)
             /\ \A w \in 1 .. Len(widths) :
                  s[w] = [mode |-> "FPFastMathDefault", args |-> <<widths[w], flags>>]
<1> DEFINE s == FastMathModes(widths, flags)
<1>1. Len(widths) \in Nat /\ s = [j \in 1 .. Len(widths) |-> s[j]]
      /\ \A w \in 1 .. Len(widths) :
           s[w] = [mode |-> "FPFastMathDefault", args |-> <<widths[w], flags>>]
  BY DEF IsList, FastMathModes
<1>2. \A w \in 1 .. Len(widths) : s[w].mode = "FPFastMathDefault"
  BY <1>1
<1> HIDE DEF s
<1>3. IsList(s) /\ Len(s) = Len(widths)
  BY <1>1, ListFunction
<1>4. \A w \in 1 .. Len(s) : s[w].mode # Off /\ s[w].mode # Poison
  BY <1>2, <1>3 DEF Off, Poison
<1>5. Single(s) /\ ~With(s, Poison) /\ ~With(s, Off)
  BY <1>4 DEF Single, With
<1>. QED
  BY <1>1, <1>3, <1>5 DEF s

LEMMA MeantFastMath ==
  ASSUME NEW n, NEW widths, IsList(widths), NEW flags,
         n.mode = Off =>
           "float_controls2" \in opt.ext /\ widths = llvm.floats /\ flags = 0
  PROVE  Meant(n, FastMathModes(widths, flags))
<1> DEFINE s == FastMathModes(widths, flags)
<1>1. /\ IsList(s) /\ Single(s) /\ ~With(s, Poison) /\ ~With(s, Off)
      /\ Len(s) = Len(widths)
      /\ \A w \in 1 .. Len(widths) :
           s[w] = [mode |-> "FPFastMathDefault", args |-> <<widths[w], flags>>]
  BY FastMathAre
<1> HIDE DEF s
<1>2. n.mode = Off => AllWidths(s)
  BY <1>1 DEF AllWidths, FastMath
<1>3. Meant(n, s)
  BY <1>1, <1>2 DEF Meant
<1>. QED
  BY <1>3 DEF s

LEMMA ListedTypes ==
  ASSUME Program, Copied, LLVMTyped, SpvTyped, pc = "modes", at <= Len(llvm.nodes)
  PROVE  /\ at \in 1 .. Len(llvm.nodes) /\ Len(llvm.nodes) \in Nat
         /\ IsList(llvm.floats) /\ Shaped(spv)
         /\ DOMAIN spv.funcs = Funcs
         /\ \A i \in Funcs : "modes" \in DOMAIN spv.funcs[i] /\ IsList(spv.funcs[i].modes)
         /\ llvm.nodes[at].mode \in FloatModes => IsList(llvm.nodes[at].args)
<1>1. Len(llvm.nodes) \in Nat /\ at \in Nat \ {0} /\ IsList(llvm.floats)
  BY DEF LLVMTyped, ListsOK, IsList, Program
<1>2. at \in 1 .. Len(llvm.nodes)
  BY <1>1
<1>3. llvm.nodes[at].mode \in FloatModes => IsList(llvm.nodes[at].args)
  BY <1>2 DEF LLVMTyped, ListsOK
<1>4. WrittenTo = Funcs
  BY DEF WrittenTo, Late
<1>5. DOMAIN spv.funcs = Funcs
  BY CopyLength DEF Copied, Carries, Late, Funcs
<1>. QED
  BY <1>1, <1>2, <1>3, <1>4, <1>5 DEF SpvTyped, Shaped

\* A listed node is translated: its modes are added, unless that is an error.
LEMMA ModeStep ==
  ASSUME Program, Copied, LLVMTyped, SpvTyped,
         TransContractionOff \/ TransInitializer \/ TransPlainMode \/ TransGatedMode
           \/ TransFloatMode \/ TransFastMathDefault
  PROVE  /\ UNCHANGED <<opt, input, llvm, out, fpc>> /\ pc = "modes"
         /\ at \in 1 .. Len(llvm.nodes)
         /\ \/ pc' = "failed" /\ spv' = spv
            \/ /\ pc' = pc /\ at' = at + 1
               /\ \E modes : /\ Grows(spv, spv', llvm.nodes[at].f, modes)
                             /\ Meant(llvm.nodes[at], modes)
<1> DEFINE n == llvm.nodes[at]
           one == <<[mode |-> n.mode, args |-> n.args]>>
<1>1. /\ UNCHANGED <<opt, input, llvm, out, fpc>> /\ pc = "modes" /\ at <= Len(llvm.nodes)
      /\ \/ pc' = "failed" /\ spv' = spv
         \/ pc' = pc /\ at' = at + 1
  <2>1. CASE TransContractionOff
    BY <2>1 DEF TransContractionOff, AtMode, NextMode
  <2>2. CASE TransInitializer
    BY <2>2 DEF TransInitializer, AtMode, NextMode, Phase
  <2>3. CASE TransPlainMode
    BY <2>3 DEF TransPlainMode, AtMode, NextMode
  <2>4. CASE TransGatedMode
    BY <2>4 DEF TransGatedMode, AtMode, NextMode
  <2>5. CASE TransFloatMode
    BY <2>5 DEF TransFloatMode, AtMode, NextMode
  <2>6. CASE TransFastMathDefault
    BY <2>6 DEF TransFastMathDefault, AtMode, NextMode
  <2>. QED
    BY <2>1, <2>2, <2>3, <2>4, <2>5, <2>6
<1>2. /\ at \in 1 .. Len(llvm.nodes) /\ IsList(llvm.floats) /\ Shaped(spv)
      /\ \A i \in DOMAIN spv.funcs : IsList(spv.funcs[i].modes)
      /\ n.mode \in FloatModes => IsList(n.args)
  BY <1>1, ListedTypes
<1> DEFINE Added(s) == \E modes : Grows(spv, s, n.f, modes) /\ Meant(n, modes)
<1>3. n.mode # Off => Added(spv)
  BY <1>2, GrowsNot, MeantNone
<1>4. /\ AddMode(spv, n) = AddModes(spv, n.f, one)
      /\ Grows(spv, AddMode(spv, n), n.f, one)
  BY <1>2, AddGrows DEF AddMode
<1>5. (n.mode = Off => "float_controls2" \notin opt.ext) => Meant(n, one)
  BY MeantOne
<1>6. ASSUME NEW s, NEW t, NEW modes,
             Grows(spv, s, n.f, modes), Meant(n, modes), Alike(s, t)
      PROVE  Added(t)
  BY <1>6, GrowsOn
<1>7. ASSUME NEW t, n.mode = Off => "float_controls2" \notin opt.ext,
             t = AddMode(spv, n) \/ Alike(AddMode(spv, n), t)
      PROVE  Added(t)
  BY <1>4, <1>5, <1>6, <1>7
<1>8. ASSUME NEW widths, NEW flags, NEW t, IsList(widths),
             n.mode = Off => /\ "float_controls2" \in opt.ext
                             /\ widths = llvm.floats /\ flags = 0,
             Alike(AddModes(spv, n.f, FastMathModes(widths, flags)), t)
      PROVE  Added(t)
  <2> DEFINE modes == FastMathModes(widths, flags)
             s == AddModes(spv, n.f, modes)
  <2>1. Meant(n, modes)
    BY <1>8, MeantFastMath
  <2> HIDE DEF modes
  <2>2. Grows(spv, s, n.f, modes)
    BY <1>2, AddGrows
  <2>3. Alike(s, t)
    BY <1>8 DEF modes
  <2> HIDE DEF Added, s
  <2>. QED
    BY <1>6, <2>1, <2>2, <2>3
<1> HIDE DEF Added, one
<1>9. Added(spv') \/ pc' = "failed"
  <2> DEFINE s == AddMode(spv, n)
  <2>0. Shaped(s)
    BY <1>4 DEF Grows, Shaped
  <2>1. CASE TransContractionOff
    <3> DEFINE r == AddModes(spv, n.f, FastMathModes(llvm.floats, 0))
    <3>1. spv' = IF "float_controls2" \in opt.ext
                 THEN [r EXCEPT !.caps = @ \cup {"FloatControls2"},
                                !.exts = @ \cup {"float_controls2"}]
                 ELSE AddMode(spv, n)
      BY <2>1, Zenon DEF TransContractionOff
    <3>2. Shaped(r)
      BY <1>2, AddGrows DEF Grows, Shaped
    <3> HIDE DEF r
    <3>3. "float_controls2" \in opt.ext => Alike(r, spv')
      BY <3>1, <3>2 DEF Alike, Shaped
    <3>4. "float_controls2" \in opt.ext => Added(spv')
      BY <1>2, <1>8, <3>3 DEF r
    <3>. QED
      BY <1>7, <3>1, <3>4
  <2>2. CASE TransInitializer
    <3>1. n.mode # Off /\ (spv' = AddMode(spv, n) \/ pc' = "failed")
      BY <2>2 DEF TransInitializer, AtMode, Off, Phase
    <3>. QED
      BY <1>7, <3>1
  <2>3. CASE TransPlainMode
    <3>1. n.mode # Off /\ spv' = AddMode(spv, n)
      BY <2>3 DEF TransPlainMode, AtMode, PlainModes, Off
    <3>. QED
      BY <1>7, <3>1
  <2>4. CASE TransGatedMode
    <3>1. n.mode # Off
      BY <2>4 DEF TransGatedMode, AtMode, Gate, Off
    <3>2. spv' = spv \/ \E x : spv' = [s EXCEPT !.exts = x]
      BY <2>4 DEF TransGatedMode
    <3> HIDE DEF s
    <3>3. spv' = spv \/ Alike(s, spv')
      BY <2>0, <3>2 DEF Alike, Shaped
    <3>. QED
      BY <1>3, <1>7, <3>1, <3>3 DEF s
  <2>5. CASE TransFloatMode
    <3>1. n.mode # Off /\ n.mode \in FloatModes
      BY <2>5 DEF TransFloatMode, AtMode, FloatModes, Off
    <3> DEFINE r == AddModes(spv, n.f, FastMathModes(n.args, 0))
    <3>2. \/ spv' = spv
          \/ \E x : spv' = [r EXCEPT !.exts = x]
          \/ \E x : spv' = [s EXCEPT !.ver = x]
          \/ \E x : spv' = [s EXCEPT !.exts = x]
      BY <2>5 DEF TransFloatMode
    <3>3. Shaped(r)
      BY <1>2, AddGrows DEF Grows, Shaped
    <3> HIDE DEF s, r
    <3>4. spv' = spv \/ Alike(s, spv') \/ Alike(r, spv')
      BY <2>0, <3>2, <3>3 DEF Alike, Shaped
    <3>5. Alike(s, spv') => Added(spv')
      BY <1>7, <3>1 DEF s
    <3>6. Alike(r, spv') => Added(spv')
      BY <1>2, <1>8, <3>1 DEF r
    <3>. QED
      BY <1>3, <3>1, <3>4, <3>5, <3>6
  <2>6. CASE TransFastMathDefault
    <3> DEFINE r == AddModes(spv, n.f, FastMathModes(<<n.args[1]>>, n.args[2]))
    <3>1. n.mode # Off
      BY <2>6 DEF TransFastMathDefault, AtMode, Off
    <3>2. spv' = spv \/ \E x : spv' = [r EXCEPT !.exts = x]
      BY <2>6 DEF TransFastMathDefault
    <3>3. IsList(<<n.args[1]>>) /\ Shaped(r)
      BY <1>2, AddGrows, ListSmall DEF Grows, Shaped
    <3> HIDE DEF r
    <3>4. spv' = spv \/ Alike(r, spv')
      BY <3>2, <3>3 DEF Alike, Shaped
    <3>5. Alike(r, spv') => Added(spv')
      BY <1>8, <3>1, <3>3 DEF r
    <3>. QED
      BY <1>3, <3>1, <3>4, <3>5
  <2>. QED
    BY <2>1, <2>2, <2>3, <2>4, <2>5, <2>6
<1>. QED
  BY <1>1, <1>2, <1>9 DEF Added

-----------------------------------------------------------------------------
(* Every step keeps what is listed and what is declared.                   *)

LEMMA SettleModes ==
  ASSUME ContractInv, SettleInv,
         TransContractionOff \/ TransInitializer \/ TransPlainMode \/ TransGatedMode
           \/ TransFloatMode \/ TransFastMathDefault
  PROVE  SettleInv'
<1> DEFINE n == llvm.nodes[at]
<1>1. Program /\ Copied /\ LLVMTyped /\ SpvTyped
  BY DEF ContractInv, SettleInv
<1>2. /\ UNCHANGED <<opt, input, llvm, out, fpc>> /\ pc = "modes"
      /\ at \in 1 .. Len(llvm.nodes)
      /\ \/ pc' = "failed" /\ spv' = spv
         \/ /\ pc' = pc /\ at' = at + 1
            /\ \E modes : Grows(spv, spv', n.f, modes) /\ Meant(n, modes)
  BY <1>1, ModeStep
<1>3. LLVMTyped' /\ OutTyped' /\ NodesRead' /\ (Unsettled(input)' <=> Unsettled(input))
  BY <1>1, <1>2 DEF LLVMTyped, OutTyped, NodesRead, Reading, Funcs
<1>4. /\ Funcs' = Funcs /\ WrittenTo = Funcs /\ WrittenTo' = Funcs /\ DOMAIN spv.funcs = Funcs
      /\ Len(llvm.nodes) \in Nat
  BY <1>1, <1>2, ListedTypes DEF Funcs, WrittenTo, Late
<1>5. NodesMeant => NodesMeant'
  BY <1>2 DEF NodesMeant, ListedFor, OnePoison, DisableContraction, Undecided, Reading, Funcs
<1>6. CASE pc' = "failed" /\ spv' = spv
  <2>1. SpvTyped'
    BY <1>1, <1>2, <1>4, <1>6 DEF SpvTyped
  <2>2. ModesMeant'
    BY <1>6 DEF ModesMeant, Reading
  <2>. QED
    BY <1>3, <1>5, <2>1, <2>2 DEF SettleInv
<1>7. CASE pc' # "failed"
  <2>1. PICK modes : Grows(spv, spv', n.f, modes) /\ Meant(n, modes)
    BY <1>2, <1>7
  <2>2. pc' = "modes" /\ at' = at + 1
    BY <1>2, <1>7
  <2>3. \A i \in Funcs :
          /\ "modes" \in DOMAIN spv.funcs[i] /\ "kernel" \in DOMAIN spv.funcs[i]
          /\ IsList(Modes(i)) /\ spv.funcs[i].kernel = llvm.funcs[i].kernel
    BY <1>1, <1>2, <1>4 DEF SpvTyped, Modes
  <2>4. \A i \in Funcs :
          /\ DOMAIN spv'.funcs[i] = DOMAIN spv.funcs[i]
          /\ spv'.funcs[i].kernel = spv.funcs[i].kernel
          /\ Modes(i)' = IF i = n.f THEN Modes(i) \o modes ELSE Modes(i)
    BY <1>4, <2>1, <2>3 DEF Grows, Modes
  <2>5. IsList(modes)
    BY <2>1 DEF Meant
  <2>6. \A i \in Funcs : IsList(Modes(i)')
    <3> SUFFICES ASSUME NEW i \in Funcs PROVE IsList(Modes(i)')
      OBVIOUS
    <3>1. IsList(Modes(i) \o modes)
      BY <2>3, <2>5, ListJoin
    <3>. QED
      BY <2>3, <2>4, <3>1
  <2>7. SpvTyped'
    <3>1. /\ {"funcs", "aux", "caps", "ctors"} \subseteq DOMAIN spv'
          /\ spv'.ctors = spv.ctors /\ spv'.aux = spv.aux
      BY <2>1 DEF Grows
    <3>2. IsList(spv.ctors) /\ IsList(spv.aux) /\ \A j \in 1 .. Len(spv.aux) : Registers(spv.aux[j].md)
      BY <1>1, <1>2 DEF SpvTyped
    <3>. QED
      BY <1>2, <1>4, <2>3, <2>4, <2>6, <3>1, <3>2 DEF SpvTyped, Modes
  <2>8. \A i, mode : Before(i, mode)' <=> Before(i, mode) \/ (n.f = i /\ n.mode = mode)
    <3>1. \A j \in 1 .. Len(llvm.nodes) : j < at' <=> j < at \/ j = at
      BY <1>2, <1>4, <2>2
    <3>. QED
      BY <1>2, <3>1 DEF Before
  <2>9. ASSUME NodesMeant, ModesMeant, NEW i \in Funcs
        PROVE  /\ "float_controls2" \notin opt.ext => (With(Modes(i)', Off) <=> Before(i, Off)')
               /\ "float_controls2" \in opt.ext /\ Before(i, Off)' => AllWidths(Modes(i)')
               /\ Single(Modes(i)') /\ (With(Modes(i)', Poison) => Before(i, Poison)')
    <3>1. /\ "float_controls2" \notin opt.ext => (With(Modes(i), Off) <=> Before(i, Off))
          /\ "float_controls2" \in opt.ext /\ Before(i, Off) => AllWidths(Modes(i))
          /\ Single(Modes(i)) /\ (With(Modes(i), Poison) => Before(i, Poison))
      BY <1>2, <2>9 DEF ModesMeant
    <3>2. CASE i # n.f
      BY <2>4, <2>8, <3>1, <3>2
    <3>3. CASE i = n.f
      <4>1. Modes(i)' = Modes(i) \o modes /\ IsList(Modes(i))
        BY <2>3, <2>4, <3>3
      <4>2. \A mode : With(Modes(i)', mode) <=> With(Modes(i), mode) \/ With(modes, mode)
        BY <2>5, <4>1, ListedJoin
      <4>3. ~(With(Modes(i), Poison) /\ With(modes, Poison))
        <5> SUFFICES ASSUME With(Modes(i), Poison), With(modes, Poison) PROVE FALSE
          OBVIOUS
        <5>1. n.mode = Poison
          BY <2>1 DEF Meant
        <5>2. PICK j \in 1 .. Len(llvm.nodes) :
                j < at /\ llvm.nodes[j].f = i /\ llvm.nodes[j].mode = Poison
          BY <3>1 DEF Before
        <5>3. OnePoison(llvm.nodes)
          BY <2>9 DEF NodesMeant
        <5>4. j = at
          BY <1>2, <3>3, <5>1, <5>2, <5>3 DEF OnePoison
        <5>. QED
          BY <1>2, <1>4, <5>2, <5>4
      <4>4. Single(Modes(i)')
        BY <2>1, <2>5, <3>1, <4>1, <4>3, PoisonJoin DEF Meant
      <4>5. AllWidths(Modes(i)) \/ AllWidths(modes) => AllWidths(Modes(i)')
        BY <2>5, <4>1, WidthsJoin
      <4>6. /\ With(modes, Poison) => n.mode = Poison
            /\ With(modes, Off) => n.mode = Off
            /\ n.mode = Off => IF "float_controls2" \in opt.ext THEN AllWidths(modes)
                                                                ELSE With(modes, Off)
        BY <2>1 DEF Meant
      <4>. QED
        BY <2>8, <3>1, <3>3, <4>2, <4>4, <4>5, <4>6
    <3>. QED
      BY <3>2, <3>3
  <2>10. NodesMeant /\ ModesMeant => ModesMeant'
    <3>1. \A s : AllWidths(s)' <=> AllWidths(s)
      BY <1>2 DEF AllWidths
    <3>. QED
      BY <1>2, <1>4, <2>2, <2>9 DEF ModesMeant, Reading, AllWidths, Modes, With, Single
  <2>. QED
    BY <1>3, <1>5, <2>7, <2>10 DEF SettleInv
<1>. QED
  BY <1>2, <1>6, <1>7

LEMMA NodesSet ==
  ASSUME Program, LLVMTyped, NEW ns, llvm' = [llvm EXCEPT !.nodes = ns], IsList(ns),
         \A j \in 1 .. Len(ns) : ns[j].mode \in FloatModes => IsList(ns[j].args)
  PROVE  LLVMTyped' /\ llvm'.nodes = ns /\ llvm'.funcs = llvm.funcs /\ Funcs' = Funcs
<1>1. /\ DOMAIN llvm' = DOMAIN llvm /\ llvm'.nodes = ns /\ llvm'.funcs = llvm.funcs
      /\ llvm'.ctors = llvm.ctors /\ llvm'.floats = llvm.floats
  BY DEF LLVMTyped, ListsOK
<1>2. Funcs' = Funcs
  BY <1>1 DEF Funcs
<1>. QED
  BY <1>1, <1>2 DEF LLVMTyped, ListsOK

FloatArgs(s) == \A j \in 1 .. Len(s) : s[j].mode \in FloatModes => IsList(s[j].args)

\* Preprocessing lists ordinary nodes.
LEMMA SettlePreprocess ==
  ASSUME ContractInv, SettleInv, PreprocessModule \/ PreprocessKernel
  PROVE  SettleInv'
<1>1. Program /\ LLVMTyped /\ Len(llvm.funcs) \in Nat
  BY DEF ContractInv, SettleInv, Program, WellFormed
<1>2. IsList(llvm.nodes) /\ IsList(llvm.ctors) /\ FloatArgs(llvm.nodes)
  BY <1>1 DEF LLVMTyped, ListsOK, FloatArgs
<1>3. \E t, u : /\ Ordinary(t) /\ Ordinary(u)
                /\ llvm' = [llvm EXCEPT !.nodes = llvm.nodes \o t \o u]
  <2>1. CASE PreprocessModule
    <3> DEFINE Part(i) == If(llvm.funcs[i].kernel,
                             preprocessVectorComputeMetadata(i, llvm.funcs[i]))
               ss == [i \in 1 .. Len(llvm.funcs) |-> Part(i)]
               vc == FlattenSeq(ss)
               u == preprocessCXXStructorList(llvm.ctors)
    <3>1. llvm' = [llvm EXCEPT !.nodes = llvm.nodes \o vc \o u]
      BY <2>1, Zenon DEF PreprocessModule, Funcs
    <3>2. Ordinary(u)
      BY <1>2, StructorsOrdinary
    <3>3. \A i : Ordinary(Part(i))
      BY VectorComputeOrdinary, OrdinaryIf, Zenon
    <3> HIDE DEF Part, u
    <3>4. /\ ss = [i \in 1 .. Len(llvm.funcs) |-> ss[i]]
          /\ \A i \in 1 .. Len(llvm.funcs) : Ordinary(ss[i])
      BY <3>3
    <3> HIDE DEF ss
    <3>5. IsList(ss) /\ Len(ss) = Len(llvm.funcs)
      BY <1>1, <3>4, ListFunction
    <3>6. Ordinary(vc)
      BY <3>4, <3>5, OrdinaryFlatten
    <3> HIDE DEF vc
    <3>. QED
      BY <3>1, <3>2, <3>6
  <2>2. CASE PreprocessKernel
    <3> DEFINE t == If(llvm.funcs[at].kernel, KernelNodes(at, llvm.funcs[at]))
    <3>1. llvm' = [llvm EXCEPT !.nodes = llvm.nodes \o t]
      BY <2>2, Zenon DEF PreprocessKernel
    <3>2. Ordinary(t)
      BY KernelNodesOrdinary, OrdinaryIf, Zenon
    <3> HIDE DEF t
    <3>3. llvm.nodes \o t \o <<>> = llvm.nodes \o t
      <4>1. IsList(llvm.nodes \o t)
        BY <1>2, <3>2, ListJoin DEF Ordinary
      <4> DEFINE l == llvm.nodes \o t
                 S == {l[j] : j \in 1 .. Len(l)}
      <4>2. l \in Seq(S)
        BY <4>1, ListIn
      <4> HIDE DEF l, S
      <4>3. l \o <<>> = l
        BY <4>2
      <4>. QED
        BY <4>3 DEF l
    <3>. QED
      BY <3>1, <3>2, <3>3, OrdinaryNone
  <2>. QED
    BY <2>1, <2>2
<1>4. PICK t, u : /\ Ordinary(t) /\ Ordinary(u)
                  /\ llvm' = [llvm EXCEPT !.nodes = llvm.nodes \o t \o u]
  BY <1>3
<1> DEFINE a == llvm.nodes \o t
           ns == a \o u
<1>5. /\ IsList(a) /\ FloatArgs(a) /\ (OnePoison(llvm.nodes) => OnePoison(a))
      /\ \A i : ListedFor(a, i, Off) <=> ListedFor(llvm.nodes, i, Off)
  BY <1>2, <1>4, NodesAdd DEF FloatArgs
<1> HIDE DEF a
<1>6. /\ IsList(ns) /\ FloatArgs(ns) /\ (OnePoison(llvm.nodes) => OnePoison(ns))
      /\ \A i : ListedFor(ns, i, Off) <=> ListedFor(llvm.nodes, i, Off)
  BY <1>4, <1>5, NodesAdd DEF FloatArgs
<1>7. llvm' = [llvm EXCEPT !.nodes = ns]
  BY <1>4 DEF a
<1> HIDE DEF ns
<1>8. LLVMTyped' /\ llvm'.nodes = ns /\ Funcs' = Funcs
  BY <1>1, <1>6, <1>7, NodesSet DEF FloatArgs
<1>9. /\ input' = input /\ pc \in {"preprocess", "kernels"}
      /\ pc' \in {"kernels", "globals"}
  BY DEF PreprocessModule, PreprocessKernel, Phase, Advance
<1>10. SpvTyped' /\ OutTyped' /\ NodesRead' /\ ModesMeant'
  BY <1>9 DEF SpvTyped, OutTyped, NodesRead, ModesMeant, Reading
<1>11. NodesMeant => NodesMeant'
  BY <1>6, <1>8, <1>9 DEF NodesMeant, Undecided, Reading
<1>. QED
  BY <1>8, <1>9, <1>10, <1>11 DEF SettleInv, Unsettled

LEMMA SettleGlobals ==
  ASSUME ContractInv, SettleInv, TransGlobals
  PROVE  SettleInv'
<1>1. /\ UNCHANGED <<opt, input, llvm, out, fpc>> /\ pc = "globals" /\ pc' = "declare" /\ at' = 1
      /\ spv' = [NoSPIRV EXCEPT
                   !.ctors = If("function_pointers" \in opt.ext, llvm.ctors),
                   !.caps = IF llvm.freeze /\ "poison_freeze" \in opt.ext THEN {"PoisonFreezeKHR"} ELSE {}]
  BY DEF TransGlobals, Phase
<1>2. /\ {"funcs", "aux", "caps", "ctors"} \subseteq DOMAIN spv'
      /\ spv'.aux = <<>> /\ spv'.ctors = If("function_pointers" \in opt.ext, llvm.ctors)
  BY <1>1 DEF NoSPIRV
<1>3. LLVMTyped /\ LLVMTyped' /\ Funcs' = Funcs
  BY <1>1 DEF SettleInv, LLVMTyped, Funcs
<1>4. IsList(<<>>)
  BY DEF IsList
<1>5. WrittenTo' = {}
  BY <1>1 DEF WrittenTo
<1>6. SpvTyped'
  BY <1>2, <1>3, <1>4, <1>5 DEF SpvTyped, LLVMTyped, ListsOK, If
<1>7. OutTyped' /\ NodesRead' /\ ModesMeant'
  BY <1>1, <1>5 DEF OutTyped, NodesRead, ModesMeant, Reading
<1>8. NodesMeant => NodesMeant'
  BY <1>1, <1>3 DEF NodesMeant, Undecided, Reading, ListedFor, OnePoison
<1>. QED
  BY <1>1, <1>3, <1>6, <1>7, <1>8 DEF SettleInv, Unsettled

LEMMA RegisterModesAre ==
  ASSUME NEW o, NEW f, Registers(f.md)
  PROVE  LET s == RegisterModes(o, f)
         IN  IsList(s) /\ ~With(s, Off) /\ ~With(s, Poison)
<1> DEFINE s == RegisterModes(o, f)
           c == "maximum_registers" \in o.ext /\ Has(f.md, "MaximumRegisters")
           r == f.md["MaximumRegisters"]
           modes == [j \in 1 .. Len(r) |-> [mode |-> RegisterMode[r[j].kind],
                                            args |-> <<r[j].val>>]]
<1>1. s = IF c THEN modes ELSE <<>>
  BY Zenon DEF RegisterModes, If
<1>2. c => IsList(r) /\ \A j \in 1 .. Len(r) : r[j].kind \in DOMAIN RegisterMode
  BY DEF Registers
<1>3. c => /\ Len(r) \in Nat /\ modes = [j \in 1 .. Len(r) |-> modes[j]]
           /\ \A j \in 1 .. Len(r) : modes[j].mode = RegisterMode[r[j].kind]
  BY <1>2 DEF IsList
<1>4. \A k \in DOMAIN RegisterMode : RegisterMode[k] # Off /\ RegisterMode[k] # Poison
  BY DEF RegisterMode, Off, Poison
<1> HIDE DEF modes, r, c, s
<1>5. CASE c
  <2>1. IsList(modes) /\ Len(modes) = Len(r)
    BY <1>3, <1>5, ListFunction
  <2>. QED
    BY <1>1, <1>2, <1>3, <1>4, <1>5, <2>1 DEF With, s
<1>6. CASE ~c
  <2>1. IsList(<<>>)
    BY DEF IsList
  <2>. QED
    BY <1>1, <1>6, <2>1 DEF With, s
<1>. QED
  BY <1>5, <1>6

LEMMA SettleDeclare ==
  ASSUME ContractInv, SettleInv, TransFunctionDecl
  PROVE  SettleInv'
<1> DEFINE n == Len(llvm.funcs)
           f == llvm.funcs[at]
           bf == [name |-> f.name, kernel |-> f.kernel, decl |-> f.decl, avail |-> f.avail,
                  body |-> f.body, fcm |-> ControlMask(opt, f), modes |-> <<>>,
                  decs |-> AnnotationDecs(at) \o VectorComputeDecs(opt, f)
                             \o transFPGAFunctionMetadata(opt, f) \o UserSemanticDecs(f),
                  params |-> [j \in 1 .. Len(f.params) |->
                                [name |-> f.params[j].name, kind |-> f.params[j].kind,
                                 type |-> f.params[j].type, decs |-> ParamDecs(opt, f, j)]]]
           more == AuxData(opt, at, f)
           s == [spv EXCEPT !.funcs = Append(@, bf), !.aux = @ \o more]
           modes == RegisterModes(opt, f)
<1>1. /\ n \in Nat \ {0} /\ at \in 1 .. n /\ Carries(spv, llvm.funcs, at - 1) /\ pc = "declare"
      /\ LLVMTyped /\ SpvTyped
  BY DEF TransFunctionDecl, ContractInv, SettleInv, Program, Copied, WellFormed, Funcs
<1>2. spv' = AddModes(s, at, modes)
  BY Zenon DEF TransFunctionDecl
<1>3. /\ UNCHANGED <<opt, input, llvm, out, fpc>>
      /\ IF at < n THEN at' = at + 1 /\ pc' = "declare" ELSE at' = 1 /\ pc' = "bodies"
  BY <1>1 DEF TransFunctionDecl, Advance
<1>4. WrittenTo = 1 .. at - 1 /\ WrittenTo' = 1 .. at
  BY <1>1, <1>3 DEF WrittenTo, Funcs
<1>5. {"modes", "kernel"} \subseteq DOMAIN bf /\ bf.kernel = f.kernel /\ bf.modes = <<>>
  OBVIOUS
<1>6. Registers(f.md)
  BY <1>1 DEF LLVMTyped, Funcs
<1>7. IsList(more) /\ \A j \in 1 .. Len(more) : Registers(more[j].md)
  <2> DEFINE kinds == DOMAIN f.md \ {"spirv.Decorations", "spirv.ParameterDecorations"}
             md == [k \in kinds |-> f.md[k]]
             x == [f |-> at, attr |-> f.attr, md |-> md, avail |-> f.avail]
  <2>1. more = IF opt.aux THEN <<x>> ELSE <<>>
    BY Zenon DEF AuxData, If
  <2>2. x.md = md
    OBVIOUS
  <2>3. Registers(md)
    BY <1>6 DEF Registers, Has
  <2> HIDE DEF x, md
  <2>4. IsList(<<>>) /\ IsList(<<x>>) /\ Len(<<x>>) = 1 /\ <<x>>[1] = x
    BY ListSmall
  <2>. QED
    BY <2>1, <2>2, <2>3, <2>4
<1> HIDE DEF bf, more
<1>8. /\ Shaped(spv) /\ IsList(spv.ctors) /\ IsList(spv.aux)
      /\ \A j \in 1 .. Len(spv.aux) : Registers(spv.aux[j].md)
      /\ \A i \in 1 .. at - 1 : /\ {"modes", "kernel"} \subseteq DOMAIN spv.funcs[i]
                                /\ IsList(spv.funcs[i].modes)
                                /\ spv.funcs[i].kernel = llvm.funcs[i].kernel
  BY <1>1, <1>4 DEF SpvTyped, Shaped
<1>9. /\ Shaped(s) /\ s.aux = spv.aux \o more /\ s.ctors = spv.ctors
      /\ s.funcs = Append(spv.funcs, bf)
  BY <1>8 DEF Shaped
<1>10. /\ DOMAIN s.funcs = 1 .. at /\ s.funcs[at] = bf
       /\ \A i \in 1 .. at - 1 : s.funcs[i] = spv.funcs[i]
  <2> DEFINE fs == spv.funcs
             S == {fs[i] : i \in 1 .. at - 1} \cup {bf}
  <2>1. at - 1 \in Nat /\ fs = [i \in 1 .. at - 1 |-> fs[i]] /\ at - 1 + 1 = at
    BY <1>1 DEF Carries, Copy
  <2>2. fs \in [1 .. at - 1 -> S] /\ bf \in S
    BY <2>1
  <2> HIDE DEF S
  <2>3. fs \in Seq(S) /\ Len(fs) = at - 1
    BY <2>1, <2>2, SequenceOf
  <2>4. /\ Append(fs, bf) \in Seq(S) /\ Len(Append(fs, bf)) = at
        /\ \A i \in 1 .. at - 1 : Append(fs, bf)[i] = fs[i]
        /\ Append(fs, bf)[at] = bf
    BY <2>1, <2>2, <2>3, AppendProperties
  <2>. QED
    BY <1>9, <2>4, LenProperties
<1> HIDE DEF s
<1>11. Grows(s, spv', at, modes)
  BY <1>2, <1>9, AddGrows
<1>12. IsList(modes) /\ ~With(modes, Off) /\ ~With(modes, Poison)
  BY <1>6, RegisterModesAre
<1> HIDE DEF modes
<1>13. ASSUME NEW i \in 1 .. at
       PROVE  /\ {"modes", "kernel"} \subseteq DOMAIN spv'.funcs[i]
              /\ spv'.funcs[i].kernel = llvm.funcs[i].kernel
              /\ spv'.funcs[i].modes = IF i = at THEN <<>> \o modes ELSE spv.funcs[i].modes
  <2>1. CASE i = at
    BY <1>5, <1>10, <1>11, <2>1 DEF Grows
  <2>2. CASE i # at
    <3>1. i \in 1 .. at - 1
      BY <1>1, <2>2
    <3>. QED
      BY <1>8, <1>10, <1>11, <2>2, <3>1 DEF Grows
  <2>. QED
    BY <2>1, <2>2
<1>14. IsList(<<>> \o modes) /\ ~With(<<>> \o modes, Off) /\ ~With(<<>> \o modes, Poison)
  <2>1. IsList(<<>>) /\ ~With(<<>>, Off) /\ ~With(<<>>, Poison)
    BY DEF IsList, With
  <2>. QED
    BY <1>12, <2>1, ListJoin, ListedJoin
<1>15. \A i \in 1 .. at : i # at => i \in 1 .. at - 1
  BY <1>1
<1>16. SpvTyped'
  <2>1. /\ {"funcs", "aux", "caps", "ctors"} \subseteq DOMAIN spv'
        /\ spv'.ctors = spv.ctors /\ spv'.aux = spv.aux \o more
    BY <1>9, <1>11 DEF Grows
  <2>2. IsList(spv'.aux) /\ \A j \in 1 .. Len(spv'.aux) : Registers(spv'.aux[j].md)
    <3> DEFINE r == spv.aux \o more
    <3>1. /\ IsList(r) /\ Len(spv.aux) \in Nat
          /\ \A j \in 1 .. Len(spv.aux) : r[j] = spv.aux[j]
          /\ \A j \in 1 .. Len(more) : r[Len(spv.aux) + j] = more[j]
          /\ \A j \in 1 .. Len(r) : j \in 1 .. Len(spv.aux) \/ j - Len(spv.aux) \in 1 .. Len(more)
      BY <1>7, <1>8, ListJoin
    <3> HIDE DEF r
    <3>2. ASSUME NEW j \in 1 .. Len(r) PROVE Registers(r[j].md)
      <4>1. CASE j \in 1 .. Len(spv.aux)
        BY <1>8, <3>1, <4>1
      <4>2. CASE j - Len(spv.aux) \in 1 .. Len(more)
        <5>1. Len(spv.aux) + (j - Len(spv.aux)) = j
          BY <3>1
        <5>2. r[j] = more[j - Len(spv.aux)]
          BY <3>1, <4>2, <5>1
        <5>. QED
          BY <1>7, <4>2, <5>2
      <4>. QED
        BY <3>1, <4>1, <4>2
    <3>. QED
      BY <2>1, <3>1, <3>2 DEF r
  <2>3. \A i \in 1 .. at : IsList(spv'.funcs[i].modes)
    BY <1>8, <1>13, <1>14, <1>15
  <2>. QED
    BY <1>3, <1>4, <1>8, <1>13, <2>1, <2>2, <2>3 DEF SpvTyped
<1>17. ModesMeant => ModesMeant'
  <2> SUFFICES ASSUME ModesMeant, NEW i \in 1 .. at
               PROVE  ~With(Modes(i)', Off) /\ ~With(Modes(i)', Poison)
    BY <1>3, <1>4 DEF ModesMeant, Reading, With, Modes
  <2>1. CASE i = at
    BY <1>13, <1>14, <2>1 DEF Modes
  <2>2. CASE i # at
    <3>1. i \in 1 .. at - 1 /\ Modes(i)' = Modes(i)
      BY <1>13, <1>15, <2>2 DEF Modes
    <3>. QED
      BY <1>1, <1>4, <3>1 DEF ModesMeant
  <2>. QED
    BY <2>1, <2>2
<1>18. LLVMTyped' /\ OutTyped' /\ NodesRead' /\ (NodesMeant => NodesMeant')
  BY <1>1, <1>3 DEF LLVMTyped, OutTyped, NodesRead, NodesMeant, Reading, Funcs, Undecided,
     ListedFor, OnePoison
<1>. QED
  BY <1>3, <1>16, <1>17, <1>18 DEF SettleInv, Unsettled

\* Bodies: only FPContractMap changes, and nobody acts on it yet.
LEMMA SettleBodies ==
  ASSUME ContractInv, SettleInv,
         TransInstruction \/ FinishFunction \/ PropagateContract \/ NextFunction
  PROVE  SettleInv'
<1>1. /\ UNCHANGED <<opt, input, llvm, spv, out>> /\ pc \in {"bodies", "propagate"}
      /\ pc' \in {"bodies", "propagate", "ocl"}
  BY DEF TransInstruction, FinishFunction, PropagateContract, NextFunction, Phase
<1>2. WrittenTo = Funcs /\ WrittenTo' = Funcs /\ Funcs' = Funcs
  BY <1>1 DEF WrittenTo, Funcs, Late
<1>3. LLVMTyped' /\ SpvTyped' /\ OutTyped' /\ NodesRead'
  BY <1>1, <1>2 DEF SettleInv, LLVMTyped, SpvTyped, OutTyped, NodesRead, Reading
<1>4. NodesMeant => NodesMeant'
  BY <1>1, <1>2 DEF NodesMeant, Undecided, Reading, ListedFor, OnePoison
<1>5. ModesMeant => ModesMeant'
  BY <1>1, <1>2 DEF ModesMeant, Reading, With, Modes
<1>. QED
  BY <1>1, <1>3, <1>4, <1>5 DEF SettleInv, Unsettled

LEMMA SettleOCL ==
  ASSUME ContractInv, SettleInv, TransOCLMetadata
  PROVE  SettleInv'
<1>1. /\ UNCHANGED <<opt, input, llvm, out, fpc>> /\ pc = "ocl"
      /\ pc' = "ocl" \/ (pc' = "contract" /\ at' = 1)
  BY DEF TransOCLMetadata, Advance
<1>2. LLVMTyped /\ SpvTyped /\ Shaped(spv)
  BY <1>1 DEF SettleInv, SpvTyped, Shaped
<1>3. WrittenTo = Funcs /\ WrittenTo' = Funcs /\ Funcs' = Funcs /\ DOMAIN spv.funcs = Funcs
  <2>1. DOMAIN spv.funcs = Funcs
    BY <1>1, CopyLength DEF ContractInv, Copied, Carries, Late, Funcs
  <2>. QED
    BY <1>1, <2>1 DEF WrittenTo, Funcs, Late
<1> DEFINE f == llvm.funcs[at]
           Param(j) == [spv.funcs[at].params[j] EXCEPT
                          !.decs = AddDecs(@, OCLParamDecs(f, j)),
                          !.name = OCLParamName(f, j)]
           y == [j \in 1 .. Len(f.params) |-> Param(j)]
           fs == [spv.funcs EXCEPT ![at].params = y]
           x == spv.strings \o ArgStrings(opt, f)
<1>4. spv' = IF f.kernel THEN [spv EXCEPT !.strings = x, !.funcs[at].params = y] ELSE spv
  BY Zenon DEF TransOCLMetadata
<1> HIDE DEF x, y
<1>5. /\ Shaped(spv') /\ spv'.aux = spv.aux /\ spv'.ctors = spv.ctors
      /\ \A i \in Funcs :
           /\ DOMAIN spv'.funcs[i] = DOMAIN spv.funcs[i]
           /\ "modes" \in DOMAIN spv.funcs[i] => spv'.funcs[i].modes = spv.funcs[i].modes
           /\ "kernel" \in DOMAIN spv.funcs[i] => spv'.funcs[i].kernel = spv.funcs[i].kernel
  <2>1. CASE f.kernel
    <3>1. spv' = [spv EXCEPT !.strings = x, !.funcs = fs]
      BY <1>4, <2>1
    <3>2. \A i \in Funcs :
            /\ DOMAIN fs[i] = DOMAIN spv.funcs[i]
            /\ "modes" \in DOMAIN spv.funcs[i] => fs[i].modes = spv.funcs[i].modes
            /\ "kernel" \in DOMAIN spv.funcs[i] => fs[i].kernel = spv.funcs[i].kernel
      BY <1>3
    <3> HIDE DEF fs
    <3>3. Shaped(spv') /\ spv'.aux = spv.aux /\ spv'.ctors = spv.ctors /\ spv'.funcs = fs
      BY <1>2, <3>1 DEF Shaped
    <3>. QED
      BY <3>2, <3>3
  <2>2. CASE ~f.kernel
    BY <1>2, <1>4, <2>2
  <2>. QED
    BY <2>1, <2>2
<1>6. SpvTyped'
  BY <1>1, <1>2, <1>3, <1>5 DEF SpvTyped, Shaped
<1>7. \A i \in Funcs : Modes(i)' = Modes(i)
  BY <1>1, <1>2, <1>3, <1>5 DEF SpvTyped, Modes
<1>8. ModesMeant => ModesMeant'
  BY <1>1, <1>3, <1>7 DEF ModesMeant, Reading, With
<1>9. NodesMeant => NodesMeant'
  <2>1. \A i \in Funcs : ~(i < 1)
    BY DEF Funcs
  <2>. QED
    BY <1>1, <1>3, <2>1 DEF NodesMeant, Undecided, Reading, ListedFor, OnePoison
<1>10. LLVMTyped' /\ OutTyped' /\ NodesRead'
  BY <1>1, <1>2, <1>3 DEF LLVMTyped, OutTyped, NodesRead, Reading
<1>. QED
  BY <1>1, <1>6, <1>8, <1>9, <1>10 DEF SettleInv, Unsettled

LEMMA SettleContract ==
  ASSUME ContractInv, SettleInv, TransFPContract
  PROVE  SettleInv'
<1> DEFINE t == If(DisableContraction(at), <<Node(at, "ContractionOff", <<>>)>>)
           ns == llvm.nodes \o t
           len == Len(llvm.funcs)
<1>1. /\ UNCHANGED <<opt, input, spv, out, fpc>> /\ pc = "contract"
      /\ IF at < len THEN at' = at + 1 /\ pc' = "contract" ELSE at' = 1 /\ pc' = "modes"
      /\ llvm' = [llvm EXCEPT !.nodes = ns]
  BY DEF TransFPContract, Advance
<1>2. /\ Program /\ LLVMTyped /\ SpvTyped /\ IsList(llvm.nodes) /\ FloatArgs(llvm.nodes)
      /\ len \in Nat \ {0} /\ at \in Nat \ {0}
  BY DEF ContractInv, SettleInv, LLVMTyped, ListsOK, FloatArgs, Program, WellFormed
<1> DEFINE x == Node(at, "ContractionOff", <<>>)
<1>3. /\ IsList(t)
      /\ \A j \in 1 .. Len(t) : t[j].f = at /\ t[j].mode = Off
      /\ DisableContraction(at) => \E j \in 1 .. Len(t) : t[j].f = at /\ t[j].mode = Off
      /\ ~DisableContraction(at) => Len(t) = 0
  <2>1. x.f = at /\ x.mode = Off
    BY DEF Node, Off
  <2>2. t = IF DisableContraction(at) THEN <<x>> ELSE <<>>
    BY DEF If
  <2> HIDE DEF x, t
  <2>3. IsList(<<>>) /\ IsList(<<x>>) /\ Len(<<x>>) = 1 /\ <<x>>[1] = x
    BY ListSmall
  <2>. QED
    BY <2>1, <2>2, <2>3
<1> HIDE DEF t, x
<1>4. /\ IsList(ns)
      /\ \A i, mode : ListedFor(ns, i, mode) <=>
                        ListedFor(llvm.nodes, i, mode) \/ ListedFor(t, i, mode)
  BY <1>2, <1>3, ListJoin, ListedJoin
<1>5. \A i : ListedFor(t, i, Off) <=> i = at /\ DisableContraction(at)
  BY <1>3 DEF ListedFor
<1>6. OnePoison(llvm.nodes) => OnePoison(ns)
  <2>1. \A j \in 1 .. Len(t) : t[j].mode # Poison
    BY <1>3 DEF Off, Poison
  <2>2. OnePoison(t)
    BY <2>1 DEF OnePoison
  <2>. QED
    BY <1>2, <1>3, <2>1, <2>2, PoisonJoin
<1>7. FloatArgs(ns)
  <2>1. \A j \in 1 .. Len(t) : t[j].mode \notin FloatModes
    BY <1>3 DEF Off, FloatModes
  <2>2. /\ \A j \in 1 .. Len(llvm.nodes) : ns[j] = llvm.nodes[j]
        /\ \A j \in 1 .. Len(t) : ns[Len(llvm.nodes) + j] = t[j]
        /\ \A j \in 1 .. Len(ns) : j \in 1 .. Len(llvm.nodes) \/ j - Len(llvm.nodes) \in 1 .. Len(t)
        /\ Len(llvm.nodes) \in Nat
    BY <1>2, <1>3, ListJoin
  <2> HIDE DEF ns
  <2> SUFFICES ASSUME NEW j \in 1 .. Len(ns), ns[j].mode \in FloatModes PROVE IsList(ns[j].args)
    BY DEF FloatArgs
  <2>3. CASE j \in 1 .. Len(llvm.nodes)
    BY <1>2, <2>2, <2>3 DEF FloatArgs
  <2>4. CASE j - Len(llvm.nodes) \in 1 .. Len(t)
    <3>1. Len(llvm.nodes) + (j - Len(llvm.nodes)) = j
      BY <2>2
    <3>2. ns[j] = t[j - Len(llvm.nodes)]
      BY <2>2, <2>4, <3>1
    <3>. QED
      BY <2>1, <2>4, <3>2
  <2>. QED
    BY <2>2, <2>3, <2>4
<1> HIDE DEF ns
<1>8. LLVMTyped' /\ llvm'.nodes = ns /\ llvm'.funcs = llvm.funcs /\ Funcs' = Funcs
  BY <1>1, <1>2, <1>4, <1>7, NodesSet DEF FloatArgs
<1>9. \A i \in Funcs : DisableContraction(i)' <=> DisableContraction(i)
  BY <1>1, <1>8 DEF DisableContraction
<1>10. NodesMeant => NodesMeant'
  <2> SUFFICES ASSUME NodesMeant PROVE NodesMeant'
    OBVIOUS
  <2>1. OnePoison(ns)
    BY <1>6 DEF NodesMeant
  <2>2. \A i \in Funcs : ListedFor(ns, i, Off) <=> (i < at \/ i = at) /\ DisableContraction(i)
    BY <1>1, <1>4, <1>5 DEF NodesMeant
  <2>3. CASE at < len
    <3>1. \A i \in Funcs : i < at' <=> i < at \/ i = at
      BY <1>1, <1>2, <2>3 DEF Funcs
    <3>. QED
      BY <1>1, <1>8, <1>9, <2>1, <2>2, <2>3, <3>1 DEF NodesMeant, Undecided, Reading
  <2>4. CASE ~(at < len)
    <3>1. \A i \in Funcs : i < at \/ i = at
      BY <1>2, <2>4 DEF Funcs
    <3>. QED
      BY <1>1, <1>8, <1>9, <2>1, <2>2, <2>4, <3>1 DEF NodesMeant, Undecided, Reading
  <2>. QED
    BY <2>3, <2>4
<1>11. WrittenTo = Funcs /\ WrittenTo' = Funcs
  BY <1>1, <1>8 DEF WrittenTo, Late
<1>12. SpvTyped' /\ OutTyped' /\ NodesRead'
  BY <1>1, <1>2, <1>8, <1>11 DEF SpvTyped, OutTyped, NodesRead, Reading
<1>13. ModesMeant => ModesMeant'
  <2> SUFFICES ASSUME ModesMeant PROVE ModesMeant'
    OBVIOUS
  <2>1. \A i \in Funcs : ~With(Modes(i), Off) /\ ~With(Modes(i), Poison) /\ Modes(i)' = Modes(i)
    BY <1>1, <1>11 DEF ModesMeant, Modes
  <2>2. CASE at < len
    BY <1>1, <1>8, <1>11, <2>1, <2>2 DEF ModesMeant, Reading, With
  <2>3. CASE ~(at < len)
    <3>1. pc' = "modes" /\ at' = 1
      BY <1>1, <2>3
    <3>2. \A i, mode : ~Before(i, mode)'
      BY <3>1 DEF Before
    <3>3. \A i \in Funcs : Single(Modes(i)')
      BY <2>1 DEF Single, With
    <3>4. \A i \in Funcs : ~With(Modes(i)', Off) /\ ~With(Modes(i)', Poison)
      BY <2>1
    <3>5. \A i \in Funcs' :
            /\ "float_controls2" \notin opt'.ext => (With(Modes(i), Off)' <=> Before(i, Off)')
            /\ "float_controls2" \in opt'.ext /\ Before(i, Off)' => AllWidths(Modes(i))'
            /\ Single(Modes(i))' /\ (With(Modes(i), Poison)' => Before(i, Poison)')
      BY <1>8, <3>2, <3>3, <3>4 DEF With, Single
    <3>. QED
      BY <3>1, <3>5 DEF ModesMeant, Reading
  <2>. QED
    BY <2>2, <2>3
<1>. QED
  BY <1>1, <1>8, <1>10, <1>12, <1>13 DEF SettleInv, Unsettled

\* HasMode, for a list of modes.
LEMMA HasModeWith ==
  ASSUME NEW bf, IsList(bf.modes), NEW mode
  PROVE  HasMode(bf, mode) <=> With(bf.modes, mode)
<1>1. DOMAIN bf.modes = 1 .. Len(bf.modes)
  BY DEF IsList
<1>. QED
  BY <1>1 DEF HasMode, With, ToSet

\* The end of the writer: poison goes to the kernels that do not have it.
LEMMA SettlePoison ==
  ASSUME ContractInv, SettleInv, TransPoison
  PROVE  SettleInv'
<1> DEFINE n == Len(llvm.funcs)
           Lacking(bf) == bf.kernel /\ ~bf.decl /\ ~HasMode(bf, "ArithmeticPoisonKHR")
           Poisoned(bf) == IF bf.kernel /\ ~bf.decl /\ ~HasMode(bf, "ArithmeticPoisonKHR")
                           THEN [bf EXCEPT !.modes = Append(@, PoisonMode)] ELSE bf
           fs == [i \in Funcs |-> Poisoned(spv.funcs[i])]
           C == "PoisonFreezeKHR" \in spv.caps
<1>1. /\ UNCHANGED <<opt, input, llvm, fpc>> /\ pc = "modes" /\ pc' = "readFunctions" /\ at' = 1
      /\ at > Len(llvm.nodes)
      /\ out' = [llvm EXCEPT !.funcs = <<>>, !.nodes = <<>>, !.annots = <<>>,
                             !.ctors = spv.ctors, !.fpContract = FALSE]
  BY DEF TransPoison, Phase
<1>2. spv' = IF C THEN [spv EXCEPT !.funcs = fs] ELSE spv
  BY DEF TransPoison
<1>3. /\ Program /\ LLVMTyped /\ SpvTyped /\ Shaped(spv) /\ ListsOK(llvm)
      /\ at \in Nat /\ Len(llvm.nodes) \in Nat
  BY <1>1 DEF ContractInv, SettleInv, SpvTyped, Shaped, LLVMTyped, Program, ListsOK, IsList
<1>4. WrittenTo = Funcs /\ WrittenTo' = Funcs /\ Funcs' = Funcs /\ ReadTo' = {}
  BY <1>1 DEF WrittenTo, ReadTo, Funcs, Late
<1>5. Carries(spv, llvm.funcs, n)
  BY <1>1 DEF ContractInv, Copied, Late
<1>6. \A i \in Funcs : /\ {"modes", "kernel"} \subseteq DOMAIN spv.funcs[i]
                       /\ IsList(Modes(i)) /\ spv.funcs[i].kernel = llvm.funcs[i].kernel
                       /\ spv.funcs[i].decl = llvm.funcs[i].decl
  BY <1>1, <1>3, <1>4, <1>5 DEF SpvTyped, Modes, Carries, Copy, Funcs
<1>7. \A i \in Funcs : HasMode(spv.funcs[i], "ArithmeticPoisonKHR") <=> With(Modes(i), Poison)
  BY <1>6, HasModeWith DEF Modes, Poison
<1> DEFINE Gets(i) == /\ C /\ llvm.funcs[i].kernel /\ ~llvm.funcs[i].decl
                      /\ ~With(Modes(i), Poison)
<1>8. ASSUME NEW i \in Funcs
      PROVE  /\ {"modes", "kernel"} \subseteq DOMAIN spv'.funcs[i]
             /\ spv'.funcs[i].kernel = llvm.funcs[i].kernel
             /\ Modes(i)' = IF Gets(i) THEN Modes(i) \o <<PoisonMode>> ELSE Modes(i)
  <2>1. CASE ~C
    BY <1>2, <1>6, <2>1 DEF Modes
  <2>2. CASE C
    <3>1. spv'.funcs[i] = Poisoned(spv.funcs[i])
      BY <1>2, <1>3, <2>2 DEF Shaped
    <3>2. CASE Gets(i)
      <4>1. spv'.funcs[i] = [spv.funcs[i] EXCEPT !.modes = Append(@, PoisonMode)]
        BY <1>6, <1>7, <3>1, <3>2
      <4>2. Append(Modes(i), PoisonMode) = Modes(i) \o <<PoisonMode>>
        BY <1>6, ListAppend
      <4>3. spv'.funcs[i].modes = Append(Modes(i), PoisonMode)
        BY <1>6, <4>1 DEF Modes
      <4>. QED
        BY <1>6, <3>2, <4>1, <4>2, <4>3 DEF Modes
    <3>3. CASE ~Gets(i)
      <4>1. spv'.funcs[i] = spv.funcs[i]
        BY <1>6, <1>7, <2>2, <3>1, <3>3
      <4>. QED
        BY <1>6, <3>3, <4>1 DEF Modes
    <3>. QED
      BY <3>2, <3>3
  <2>. QED
    BY <2>1, <2>2
<1>9. Shaped(spv') /\ spv'.aux = spv.aux /\ spv'.ctors = spv.ctors /\ spv'.caps = spv.caps
  BY <1>2, <1>3 DEF Shaped
<1> DEFINE p == <<PoisonMode>>
<1>10. /\ IsList(p) /\ With(p, Poison) /\ ~With(p, Off) /\ Single(p)
  <2>1. PoisonMode.mode = Poison /\ Poison # Off
    BY DEF PoisonMode, Poison, Off
  <2>. QED
    BY <2>1, ListSmall DEF With, Single
<1> HIDE DEF p, Poisoned, fs
<1>11. \A i \in Funcs : IsList(Modes(i) \o p)
  BY <1>6, <1>10, ListJoin
<1>12. SpvTyped'
  <2>1. \A i \in Funcs : IsList(Modes(i)')
    BY <1>6, <1>8, <1>11 DEF p
  <2>. QED
    BY <1>1, <1>3, <1>4, <1>8, <1>9, <2>1 DEF SpvTyped, Shaped, Modes
<1>13. LLVMTyped' /\ OutTyped'
  <2>1. /\ {"funcs", "nodes", "ctors", "floats"} \subseteq DOMAIN out'
        /\ out'.nodes = <<>> /\ out'.ctors = spv.ctors /\ out'.floats = llvm.floats
    BY <1>1, <1>3 DEF ListsOK
  <2>2. IsList(<<>>) /\ Len(<<>>) = 0
    BY ListSmall
  <2>3. IsList(spv.ctors)
    BY <1>1, <1>3 DEF SpvTyped
  <2>4. ListsOK(out')
    BY <1>3, <2>1, <2>2, <2>3 DEF ListsOK
  <2>. QED
    BY <1>1, <1>3, <1>4, <2>4 DEF LLVMTyped, OutTyped
<1>14. NodesRead'
  <2>1. out'.nodes = <<>> /\ Len(<<>>) = 0
    BY <1>1, <1>3 DEF ListsOK
  <2>. QED
    BY <1>1, <2>1 DEF NodesRead, OnePoison, ListedFor
<1>15. \A i \in Funcs : DisableContraction(i)' <=> DisableContraction(i)
  BY <1>1 DEF DisableContraction
<1>16. NodesMeant => NodesMeant'
  BY <1>1, <1>4, <1>15 DEF NodesMeant, Undecided, Reading, ListedFor, OnePoison
<1>17. NodesMeant /\ ModesMeant => ModesMeant'
  <2> SUFFICES ASSUME NodesMeant, ModesMeant PROVE ModesMeant'
    OBVIOUS
  <2>1. \A i, mode : Before(i, mode) <=> ListedFor(llvm.nodes, i, mode)
    BY <1>1, <1>3 DEF Before, ListedFor
  <2>2. ASSUME NEW i \in Funcs
        PROVE  /\ "float_controls2" \notin opt.ext => (With(Modes(i)', Off) <=> DisableContraction(i))
               /\ "float_controls2" \in opt.ext /\ DisableContraction(i) => AllWidths(Modes(i)')
               /\ Single(Modes(i)')
               /\ C /\ llvm.funcs[i].kernel /\ ~llvm.funcs[i].decl => With(Modes(i)', Poison)
    <3>1. /\ "float_controls2" \notin opt.ext => (With(Modes(i), Off) <=> DisableContraction(i))
          /\ "float_controls2" \in opt.ext /\ DisableContraction(i) => AllWidths(Modes(i))
          /\ Single(Modes(i))
      BY <1>1, <2>1 DEF ModesMeant, NodesMeant
    <3>2. CASE Gets(i)
      <4>1. Modes(i)' = Modes(i) \o p
        BY <1>8, <3>2 DEF p
      <4>2. \A mode : With(Modes(i)', mode) <=> With(Modes(i), mode) \/ With(p, mode)
        BY <1>6, <1>10, <4>1, ListedJoin
      <4>3. Single(Modes(i)')
        BY <1>6, <1>10, <3>1, <3>2, <4>1, PoisonJoin
      <4>4. AllWidths(Modes(i)) => AllWidths(Modes(i)')
        BY <1>6, <1>10, <4>1, WidthsJoin
      <4>. QED
        BY <1>10, <3>1, <4>2, <4>3, <4>4
    <3>3. CASE ~Gets(i)
      <4>1. Modes(i)' = Modes(i)
        BY <1>8, <3>3
      <4>. QED
        BY <3>1, <3>3, <4>1
    <3>. QED
      BY <3>2, <3>3
  <2>3. \A s : AllWidths(s)' <=> AllWidths(s)
    BY <1>1 DEF AllWidths
  <2>4. C <=> "PoisonFreezeKHR" \in spv'.caps
    BY <1>9
  <2>. QED
    BY <1>1, <1>4, <1>15, <2>2, <2>4 DEF ModesMeant, Reading, AllWidths, Modes, With, Single
<1>. QED
  BY <1>1, <1>12, <1>13, <1>14, <1>16, <1>17 DEF SettleInv, Unsettled

\* What the writer left stays as it is while the module is read.
LEMMA ReaderKeeps ==
  ASSUME SettleInv, UNCHANGED <<opt, input, llvm, spv, fpc>>, pc \in Reading, pc' \in Reading,
         OutTyped', NodesRead => NodesRead'
  PROVE  SettleInv'
<1>1. WrittenTo = Funcs /\ WrittenTo' = Funcs /\ Funcs' = Funcs
  BY DEF WrittenTo, Funcs, Late, Reading
<1>2. LLVMTyped' /\ SpvTyped'
  BY <1>1 DEF SettleInv, LLVMTyped, SpvTyped, Reading
<1>3. \A i \in Funcs : DisableContraction(i)' <=> DisableContraction(i)
  BY DEF DisableContraction
<1>4. NodesMeant => NodesMeant'
  BY <1>1, <1>3 DEF NodesMeant, Undecided, Reading, ListedFor, OnePoison
<1>5. ModesMeant => ModesMeant'
  BY <1>1, <1>3 DEF ModesMeant, Reading, With, Modes, Single, AllWidths
<1>. QED
  BY <1>2, <1>4, <1>5 DEF SettleInv, Unsettled

LEMMA SettleReadFunction ==
  ASSUME ContractInv, SettleInv, ReadFunction
  PROVE  SettleInv'
<1> DEFINE n == Len(llvm.funcs)
           bf == spv.funcs[at]
           f == transFunctionAttrs(bf)
           sem == SelectSeq(bf.decs, LAMBDA d : d.dec = "UserSemantic")
           t == ReadFastMathNodes(at, bf)
           y == [j \in 1 .. Len(sem) |-> [f |-> at, word |-> sem[j].word]]
           fs == Append(out.funcs, f)
           ns == out.nodes \o t
<1>1. /\ pc = "readFunctions" /\ UNCHANGED <<opt, input, llvm, spv, fpc>>
      /\ out' = [out EXCEPT !.funcs = fs, !.nodes = ns, !.annots = @ \o y]
  BY Zenon DEF ReadFunction
<1>2. /\ n \in Nat \ {0} /\ at \in 1 .. n /\ Carries(out, llvm.funcs, at - 1)
      /\ Carries(spv, llvm.funcs, n)
  BY <1>1 DEF ContractInv, Program, WellFormed, Copied, Late, Funcs
<1>3. IF at < n THEN at' = at + 1 /\ pc' = pc ELSE at' = 1 /\ pc' = "readMetadata"
  BY <1>2, CopyLength DEF ReadFunction, Advance, Carries
<1>4. ReadTo = 1 .. at - 1 /\ ReadTo' = 1 .. at
  BY <1>1, <1>2, <1>3 DEF ReadTo, Funcs, Reading
<1>5. ListsOK(out) /\ \A i \in 1 .. at - 1 : "md" \in DOMAIN out.funcs[i] /\ Registers(out.funcs[i].md)
  BY <1>1, <1>4 DEF SettleInv, OutTyped, Reading
<1>6. IsList(bf.modes)
  BY <1>1, <1>2 DEF SettleInv, SpvTyped, WrittenTo, Late, Funcs
<1>7. Ordinary(t)
  BY <1>6, FastMathNodesOrdinary
<1>8. "md" \in DOMAIN f /\ Registers(f.md)
  <2>1. "md" \in DOMAIN f /\ f.md = <<>>
    BY DEF transFunctionAttrs
  <2>. QED
    BY <2>1 DEF Registers, Has
<1> HIDE DEF f, t, y
<1>9. /\ fs[at] = f /\ \A i \in 1 .. at - 1 : fs[i] = out.funcs[i]
  <2> DEFINE gs == out.funcs
             S == {gs[i] : i \in 1 .. at - 1} \cup {f}
  <2>1. at - 1 \in Nat /\ gs = [i \in 1 .. at - 1 |-> gs[i]] /\ at - 1 + 1 = at
    BY <1>2 DEF Carries, Copy
  <2>2. gs \in [1 .. at - 1 -> S] /\ f \in S
    BY <2>1
  <2> HIDE DEF S
  <2>3. gs \in Seq(S) /\ Len(gs) = at - 1
    BY <2>1, <2>2, SequenceOf
  <2>. QED
    BY <2>1, <2>2, <2>3, AppendProperties
<1>10. /\ IsList(ns) /\ FloatArgs(ns) /\ (OnePoison(out.nodes) => OnePoison(ns))
       /\ \A i : /\ ListedFor(ns, i, Off) <=> ListedFor(out.nodes, i, Off)
                 /\ ListedFor(ns, i, Poison) <=> ListedFor(out.nodes, i, Poison)
  <2>1. IsList(out.nodes) /\ FloatArgs(out.nodes)
    BY <1>5 DEF ListsOK, FloatArgs
  <2>. QED
    BY <1>7, <2>1, NodesAdd DEF FloatArgs
<1> HIDE DEF fs, ns
<1>11. /\ {"funcs", "nodes", "ctors", "floats"} \subseteq DOMAIN out'
       /\ out'.funcs = fs /\ out'.nodes = ns /\ out'.ctors = out.ctors
       /\ out'.floats = out.floats
  BY <1>1, <1>5 DEF ListsOK
<1>12. OutTyped'
  <2>1. ListsOK(out')
    BY <1>5, <1>10, <1>11 DEF ListsOK, FloatArgs
  <2>2. \A i \in 1 .. at : i \in 1 .. at - 1 \/ i = at
    BY <1>2
  <2>. QED
    BY <1>4, <1>5, <1>8, <1>9, <1>11, <2>1, <2>2 DEF OutTyped
<1>13. NodesRead => NodesRead'
  <2> SUFFICES ASSUME NodesRead PROVE NodesRead'
    OBVIOUS
  <2>1. /\ OnePoison(out.nodes) /\ \A i \in Funcs : ~ListedFor(out.nodes, i, Off)
        /\ \A i : ~ListedFor(out.nodes, i, Poison)
    BY <1>1 DEF NodesRead, Reading, ListedFor
  <2>2. /\ OnePoison(ns) /\ \A i \in Funcs : ~ListedFor(ns, i, Off)
        /\ \A i : ~ListedFor(ns, i, Poison)
    BY <1>10, <2>1
  <2>3. \A j \in 1 .. Len(ns) : ns[j].mode # Poison
    BY <2>2 DEF ListedFor
  <2>4. Funcs' = Funcs
    BY <1>1 DEF Funcs
  <2>. QED
    BY <1>11, <2>2, <2>3, <2>4 DEF NodesRead
<1>. QED
  BY <1>1, <1>3, <1>12, <1>13, ReaderKeeps DEF Reading

\* The metadata of one function: its node of poison is the first one for it.
LEMMA SettleReadMetadata ==
  ASSUME ContractInv, SettleInv, ReadMetadata
  PROVE  SettleInv'
<1> DEFINE bf == spv.funcs[at]
           x == Merge(<<IF bf.kernel THEN ReadModes(bf) ELSE <<>>, ReadFPGAMetadata(bf),
                        ReadOCLMetadata(opt, spv.strings, bf)>>)
           y == ReadVectorCompute(bf)
           Param(j) == [out.funcs[at].params[j] EXCEPT
                          !.vc = ReadVectorComputeParam(bf.params[j])]
           z == [j \in 1 .. Len(bf.params) |-> Param(j)]
           w == If(bf.kernel, ReadNodes(at, bf))
           f1 == [out.funcs EXCEPT ![at].md = x]
           f2 == [f1 EXCEPT ![at].attr = Merge(<<y, out.funcs[at].attr>>)]
           f3 == [f2 EXCEPT ![at].params = z]
           ns == out.nodes \o w
<1>1. out' = [out EXCEPT !.funcs[at].md = x, !.funcs[at].attr = Merge(<<y, @>>),
                         !.funcs[at].params = z, !.nodes = @ \o w]
  BY Zenon DEF ReadMetadata
<1>2. /\ pc = "readMetadata" /\ UNCHANGED <<opt, input, llvm, spv, fpc>>
      /\ \/ pc' = "readMetadata" /\ at' = at + 1
         \/ pc' = "readContract"
  BY DEF ReadMetadata, Advance
<1>3. Registers(x)
  BY MetadataRegisters
<1>4. \E s, t : /\ w = s \o t /\ Ordinary(s)
                /\ t = <<>> \/ \E args : t = <<Node(at, Poison, args)>>
  <2>1. CASE bf.kernel
    <3>1. w = ReadNodes(at, bf)
      BY <2>1 DEF If
    <3>. QED
      BY <3>1, ReadNodesAre
  <2>2. CASE ~bf.kernel
    <3>1. w = <<>>
      BY <2>2 DEF If
    <3>2. <<>> \o <<>> = <<>>
      OBVIOUS
    <3>. QED
      BY <3>1, <3>2, OrdinaryNone
  <2>. QED
    BY <2>1, <2>2
<1> HIDE DEF x, y, z, w
<1>5. out' = [out EXCEPT !.funcs = f3, !.nodes = ns]
  BY <1>1, ZenonT(60)
<1>6. /\ DOMAIN out.funcs = Funcs /\ ReadTo = Funcs /\ ReadTo' = Funcs /\ Funcs' = Funcs
      /\ at \in Nat
  BY <1>2, CopyLength DEF ContractInv, Copied, Carries, ReadTo, Reading, Program, Funcs
<1>7. ListsOK(out) /\ \A i \in Funcs : "md" \in DOMAIN out.funcs[i] /\ Registers(out.funcs[i].md)
  BY <1>2, <1>6 DEF SettleInv, OutTyped, Reading
<1>8. \A i \in Funcs : "md" \in DOMAIN f3[i] /\ f3[i].md = IF i = at THEN x ELSE out.funcs[i].md
  BY <1>6, <1>7
<1> HIDE DEF f3
<1>9. PICK s, t : /\ w = s \o t /\ Ordinary(s)
                  /\ t = <<>> \/ \E args : t = <<Node(at, Poison, args)>>
  BY <1>4
<1>10. IsList(t) /\ \A j \in 1 .. Len(t) : j = 1 /\ t[j].f = at /\ t[j].mode = Poison
  <2>1. CASE t = <<>>
    BY <2>1 DEF IsList
  <2>2. CASE t # <<>>
    <3>1. PICK args : t = <<Node(at, Poison, args)>>
      BY <1>9, <2>2
    <3> DEFINE u == Node(at, Poison, args)
    <3>2. u.f = at /\ u.mode = Poison
      BY DEF Node
    <3>3. t = <<u>>
      BY <3>1
    <3> HIDE DEF u
    <3>4. IsList(<<u>>) /\ Len(<<u>>) = 1 /\ <<u>>[1] = u
      BY ListSmall
    <3>. QED
      BY <3>2, <3>3, <3>4
  <2>. QED
    BY <2>1, <2>2
<1> DEFINE a == out.nodes \o s
<1>11. /\ IsList(a) /\ FloatArgs(a) /\ (OnePoison(out.nodes) => OnePoison(a))
       /\ \A i : /\ ListedFor(a, i, Off) <=> ListedFor(out.nodes, i, Off)
                 /\ ListedFor(a, i, Poison) <=> ListedFor(out.nodes, i, Poison)
  <2>1. IsList(out.nodes) /\ FloatArgs(out.nodes)
    BY <1>7 DEF ListsOK, FloatArgs
  <2>. QED
    BY <1>9, <2>1, NodesAdd DEF FloatArgs
<1>12. ns = a \o t
  <2> DEFINE o == out.nodes
             S == {o[j] : j \in 1 .. Len(o)} \cup {s[j] : j \in 1 .. Len(s)}
                    \cup {t[j] : j \in 1 .. Len(t)}
  <2>1. IsList(o) /\ IsList(s)
    BY <1>7, <1>9 DEF ListsOK, Ordinary
  <2>2. /\ \A j \in 1 .. Len(o) : o[j] \in S
        /\ \A j \in 1 .. Len(s) : s[j] \in S
        /\ \A j \in 1 .. Len(t) : t[j] \in S
    OBVIOUS
  <2> HIDE DEF S
  <2>3. o \in Seq(S) /\ s \in Seq(S) /\ t \in Seq(S)
    BY <1>10, <2>1, <2>2, ListIn
  <2> HIDE DEF o
  <2>4. o \o (s \o t) = (o \o s) \o t
    BY <2>3, ConcatAssociative
  <2>. QED
    BY <1>9, <2>4 DEF o
<1> HIDE DEF a, ns
<1>13. IsList(ns) /\ \A i, mode : ListedFor(ns, i, mode) <=> ListedFor(a, i, mode) \/ ListedFor(t, i, mode)
  BY <1>10, <1>11, <1>12, ListJoin, ListedJoin
<1>14. FloatArgs(ns)
  <2>1. \A j \in 1 .. Len(t) : t[j].mode \notin FloatModes
    BY <1>10 DEF Poison, FloatModes
  <2>2. /\ Len(a) \in Nat
        /\ \A j \in 1 .. Len(a) : ns[j] = a[j]
        /\ \A j \in 1 .. Len(t) : ns[Len(a) + j] = t[j]
        /\ \A j \in 1 .. Len(ns) : j \in 1 .. Len(a) \/ j - Len(a) \in 1 .. Len(t)
    BY <1>10, <1>11, <1>12, ListJoin
  <2> SUFFICES ASSUME NEW j \in 1 .. Len(ns), ns[j].mode \in FloatModes PROVE IsList(ns[j].args)
    BY DEF FloatArgs
  <2>3. CASE j \in 1 .. Len(a)
    BY <1>11, <2>2, <2>3 DEF FloatArgs
  <2>4. CASE j - Len(a) \in 1 .. Len(t)
    <3>1. Len(a) + (j - Len(a)) = j
      BY <2>2
    <3>2. ns[j] = t[j - Len(a)]
      BY <2>2, <2>4, <3>1
    <3>. QED
      BY <2>1, <2>4, <3>2
  <2>. QED
    BY <2>2, <2>3, <2>4
<1>15. /\ {"funcs", "nodes", "ctors", "floats"} \subseteq DOMAIN out'
       /\ out'.funcs = f3 /\ out'.nodes = ns /\ out'.ctors = out.ctors
       /\ out'.floats = out.floats
  BY <1>5, <1>7 DEF ListsOK
<1>16. OutTyped'
  <2>1. ListsOK(out')
    BY <1>7, <1>13, <1>14, <1>15 DEF ListsOK, FloatArgs
  <2>2. \A i \in Funcs : "md" \in DOMAIN out'.funcs[i] /\ Registers(out'.funcs[i].md)
    BY <1>3, <1>7, <1>8, <1>15
  <2>. QED
    BY <1>6, <2>1, <2>2 DEF OutTyped
<1>17. NodesRead => NodesRead'
  <2> SUFFICES ASSUME NodesRead PROVE NodesRead'
    OBVIOUS
  <2>1. /\ OnePoison(out.nodes) /\ \A i \in Funcs : ~ListedFor(out.nodes, i, Off)
        /\ \A i : ListedFor(out.nodes, i, Poison) => i \in 1 .. at - 1
    BY <1>2 DEF NodesRead, Reading, ListedFor
  <2>2. \A i : ListedFor(t, i, Poison) => i = at
    BY <1>10 DEF ListedFor
  <2>3. \A i : ~ListedFor(t, i, Off)
    <3>1. Poison # Off
      BY DEF Poison, Off
    <3>. QED
      BY <1>10, <3>1 DEF ListedFor
  <2>4. at \notin 1 .. at - 1 /\ \A i : i \in 1 .. at - 1 \/ i = at => i \in 1 .. at \/ i = at
    BY <1>6
  <2>5. OnePoison(ns)
    <3>1. \A j \in 1 .. Len(a), k \in 1 .. Len(t) :
            ~(a[j].mode = Poison /\ t[k].mode = Poison /\ a[j].f = t[k].f)
      <4> SUFFICES ASSUME NEW j \in 1 .. Len(a), NEW k \in 1 .. Len(t),
                          a[j].mode = Poison, a[j].f = at
                   PROVE  FALSE
        BY <1>10
      <4>1. ListedFor(a, at, Poison)
        BY DEF ListedFor
      <4>. QED
        BY <1>11, <2>1, <2>4, <4>1
    <3>2. OnePoison(t)
      BY <1>10 DEF OnePoison
    <3>. QED
      BY <1>10, <1>11, <1>12, <2>1, <3>1, <3>2, PoisonJoin
  <2>6. \A i \in Funcs : ~ListedFor(ns, i, Off)
    BY <1>11, <1>13, <2>1, <2>3
  <2>7. \A i : ListedFor(ns, i, Poison) => i \in 1 .. at - 1 \/ i = at
    BY <1>11, <1>13, <2>1, <2>2
  <2>8. \A j \in 1 .. Len(ns) : ns[j].mode = Poison => ns[j].f \in 1 .. at - 1 \/ ns[j].f = at
    BY <2>7 DEF ListedFor
  <2>9. at \in Nat \ {0}
    BY DEF ContractInv, Program
  <2>10. \A j \in 1 .. Len(ns) : ns[j].mode = Poison => ns[j].f \in 1 .. (at + 1) - 1
    BY <2>8, <2>9
  <2>. QED
    BY <1>2, <1>6, <1>15, <2>5, <2>6, <2>10 DEF NodesRead
<1>. QED
  BY <1>2, <1>16, <1>17, ReaderKeeps DEF Reading

LEMMA SettleReadContract ==
  ASSUME ContractInv, SettleInv, ReadContract
  PROVE  SettleInv'
<1> DEFINE Part(i) == If(spv.funcs[i].kernel /\ HasMode(spv.funcs[i], "Initializer"), <<i>>)
           ss == [i \in Funcs |-> Part(i)]
           x == FlattenSeq(ss)
           c == IF out.ctors = <<>> THEN x ELSE out.ctors
           y == \A i \in Funcs :
                  ~(spv.funcs[i].kernel /\ HasMode(spv.funcs[i], "ContractionOff"))
<1>1. out' = [out EXCEPT !.ctors = IF @ = <<>> THEN x ELSE @, !.fpContract = y]
  BY Zenon DEF ReadContract
<1>2. /\ pc = "readContract" /\ pc' = "readAux" /\ UNCHANGED <<opt, input, llvm, spv, fpc>>
  BY DEF ReadContract, Phase
<1>3. ReadTo = Funcs /\ ReadTo' = Funcs /\ Funcs' = Funcs /\ Len(llvm.funcs) \in Nat
  BY <1>2 DEF ReadTo, Reading, Funcs, ContractInv, Program, WellFormed
<1>4. ListsOK(out) /\ \A i \in Funcs : "md" \in DOMAIN out.funcs[i] /\ Registers(out.funcs[i].md)
  BY <1>2, <1>3 DEF SettleInv, OutTyped, Reading
<1>5. \A i : IsList(Part(i))
  <2>1. \A i : Part(i) = <<>> \/ Part(i) = <<i>>
    BY DEF If
  <2>2. \A i : IsList(<<>>) /\ IsList(<<i>>)
    BY ListSmall, Zenon
  <2> HIDE DEF Part
  <2>. QED
    BY <2>1, <2>2
<1> HIDE DEF Part
<1>6. ss = [i \in 1 .. Len(llvm.funcs) |-> ss[i]] /\ \A i \in 1 .. Len(llvm.funcs) : IsList(ss[i])
  BY <1>5 DEF Funcs
<1> HIDE DEF ss
<1>7. IsList(ss) /\ Len(ss) = Len(llvm.funcs)
  BY <1>3, <1>6, ListFunction
<1>8. IsList(x)
  BY <1>6, <1>7, ListFlatten
<1> HIDE DEF x, y
<1>9. IsList(c)
  BY <1>4, <1>8 DEF ListsOK
<1>10. out' = [out EXCEPT !.ctors = c, !.fpContract = y]
  BY <1>1
<1> HIDE DEF c
<1>11. /\ {"funcs", "nodes", "ctors", "floats"} \subseteq DOMAIN out'
       /\ out'.funcs = out.funcs /\ out'.nodes = out.nodes /\ out'.ctors = c
       /\ out'.floats = out.floats
  BY <1>4, <1>10 DEF ListsOK
<1>12. OutTyped'
  <2>1. ListsOK(out')
    BY <1>4, <1>9, <1>11 DEF ListsOK
  <2>. QED
    BY <1>3, <1>4, <1>11, <2>1 DEF OutTyped
<1>13. NodesRead => NodesRead'
  BY <1>2, <1>3, <1>11 DEF NodesRead, Reading
<1>. QED
  BY <1>2, <1>12, <1>13, ReaderKeeps DEF Reading

\* The metadata that auxiliary data restore is the metadata that was written.
LEMMA SettleReadAux ==
  ASSUME ContractInv, SettleInv, ReadAuxData
  PROVE  SettleInv'
<1> DEFINE a == spv.aux[at]
           g == out.funcs[a.f]
           md == Merge(<<g.md, a.md>>)
           h == [g EXCEPT !.attr = Merge(<<g.attr, a.attr>>), !.md = md,
                          !.avail = g.avail \/ a.avail]
           fs == [out.funcs EXCEPT ![a.f] = h]
<1>1. out' = IF opt.aux THEN [out EXCEPT !.funcs = fs] ELSE out
  BY Zenon DEF ReadAuxData
<1>2. /\ pc = "readAux" /\ pc' = "readAux" /\ UNCHANGED <<opt, input, llvm, spv, fpc>>
      /\ at <= Len(spv.aux)
  BY Zenon DEF ReadAuxData
<1>3. ReadTo = Funcs /\ ReadTo' = Funcs /\ Funcs' = Funcs /\ DOMAIN out.funcs = Funcs
  BY <1>2, CopyLength DEF ContractInv, Copied, Carries, ReadTo, Reading, Funcs
<1>4. ListsOK(out) /\ \A i \in Funcs : "md" \in DOMAIN out.funcs[i] /\ Registers(out.funcs[i].md)
  BY <1>2, <1>3 DEF SettleInv, OutTyped, Reading
<1>5. Registers(a.md)
  <2>1. at \in Nat \ {0} /\ Len(spv.aux) \in Nat
        /\ \A j \in 1 .. Len(spv.aux) : Registers(spv.aux[j].md)
    BY <1>2 DEF ContractInv, Program, SettleInv, SpvTyped, IsList
  <2>2. at \in 1 .. Len(spv.aux)
    BY <1>2, <2>1
  <2>. QED
    BY <2>1, <2>2
<1>6. a.f \in Funcs => Registers(md)
  <2> SUFFICES ASSUME a.f \in Funcs PROVE Registers(md)
    OBVIOUS
  <2> DEFINE p == g.md
             q == a.md
             ms == <<p, q>>
  <2>1. Registers(p) /\ Registers(q)
    BY <1>4, <1>5
  <2> HIDE DEF p, q
  <2>2. IsList(ms) /\ \A j \in 1 .. Len(ms) : Registers(ms[j])
    BY <2>1 DEF IsList
  <2>3. Registers(Merge(ms))
    BY <2>2, MergeRegisters
  <2>. QED
    BY <2>3, Zenon DEF ms, p, q
<1> HIDE DEF md
<1>7. \A i \in Funcs : "md" \in DOMAIN fs[i] /\ Registers(fs[i].md)
  <2>1. a.f \in Funcs => "md" \in DOMAIN h /\ h.md = md
    BY <1>4
  <2> HIDE DEF h
  <2>. QED
    BY <1>3, <1>4, <1>6, <2>1
<1> HIDE DEF fs
<1>8. /\ {"funcs", "nodes", "ctors", "floats"} \subseteq DOMAIN out'
      /\ out'.funcs = (IF opt.aux THEN fs ELSE out.funcs) /\ out'.nodes = out.nodes
      /\ out'.ctors = out.ctors /\ out'.floats = out.floats
  BY <1>1, <1>4 DEF ListsOK
<1>9. OutTyped'
  <2>1. ListsOK(out')
    BY <1>4, <1>8 DEF ListsOK
  <2>. QED
    BY <1>3, <1>4, <1>7, <1>8, <2>1 DEF OutTyped
<1>10. NodesRead => NodesRead'
  BY <1>2, <1>3, <1>8 DEF NodesRead, Reading
<1>. QED
  BY <1>2, <1>9, <1>10, ReaderKeeps DEF Reading

LEMMA SettleFinish ==
  ASSUME ContractInv, SettleInv, FinishReading
  PROVE  SettleInv'
<1>1. pc = "readAux" /\ pc' = "done" /\ UNCHANGED <<opt, input, llvm, spv, fpc, out>>
  BY DEF FinishReading, Phase
<1>2. ReadTo = Funcs /\ ReadTo' = Funcs /\ Funcs' = Funcs
  BY <1>1 DEF ReadTo, Reading, Funcs
<1>3. OutTyped' /\ (NodesRead => NodesRead')
  BY <1>1, <1>2 DEF SettleInv, OutTyped, NodesRead, Reading
<1>. QED
  BY <1>1, <1>3, ReaderKeeps DEF Reading

\* The module that was read is again one in which only the writer decides.
LEMMA SettleRewrite ==
  ASSUME ContractInv, SettleInv, Rewrite
  PROVE  SettleInv'
<1>1. pc = "done" /\ pc' = "preprocess" /\ llvm' = out /\ UNCHANGED <<opt, input>>
  BY DEF Rewrite, Phase
<1>2. Funcs' = Funcs
  BY RewriteStep
<1>3. ListsOK(out) /\ \A i \in Funcs : Registers(out.funcs[i].md)
  BY <1>1 DEF SettleInv, OutTyped, ReadTo, Reading
<1>4. LLVMTyped'
  BY <1>1, <1>2, <1>3 DEF LLVMTyped
<1>5. SpvTyped' /\ OutTyped' /\ NodesRead' /\ ModesMeant'
  BY <1>1 DEF SpvTyped, OutTyped, NodesRead, ModesMeant, Reading
<1>6. NodesRead => NodesMeant'
  BY <1>1, <1>2 DEF NodesRead, NodesMeant, Reading, Undecided
<1>. QED
  BY <1>1, <1>4, <1>5, <1>6 DEF SettleInv, Unsettled

-----------------------------------------------------------------------------
(* The modes of a module that was written.                                 *)

LEMMA SettleInit == Init => SettleInv
<1> SUFFICES ASSUME Init PROVE SettleInv
  OBVIOUS
<1>1. PICK c \in Cases : input = c.mod
  BY DEF Init
<1>2. llvm = input /\ pc = "preprocess"
  BY DEF Init
<1>3. ListsOK(input) /\ \A i \in 1 .. Len(input.funcs) : Registers(input.funcs[i].md)
  BY <1>1, CasesAssumption
<1>4. LLVMTyped
  BY <1>2, <1>3 DEF LLVMTyped, Funcs
<1>5. SpvTyped /\ OutTyped /\ NodesRead /\ ModesMeant
  BY <1>2 DEF SpvTyped, OutTyped, NodesRead, ModesMeant, Reading
<1>6. Unsettled(input) => NodesMeant
  BY <1>2 DEF Unsettled, NodesMeant, Reading, ListedFor
<1>. QED
  BY <1>4, <1>5, <1>6 DEF SettleInv

LEMMA SettleStep == ContractInv /\ SettleInv /\ [Next]_vars => SettleInv'
<1> SUFFICES ASSUME ContractInv, SettleInv, [Next]_vars PROVE SettleInv'
  OBVIOUS
<1>1. CASE UNCHANGED vars
  <2>1. UNCHANGED <<opt, input, llvm, spv, out, fpc, pc, at>>
    BY <1>1 DEF vars
  <2>2. Funcs' = Funcs /\ WrittenTo' = WrittenTo /\ ReadTo' = ReadTo
    BY <2>1 DEF Funcs, WrittenTo, ReadTo
  <2>3. LLVMTyped' /\ SpvTyped' /\ OutTyped'
    BY <2>1, <2>2 DEF SettleInv, LLVMTyped, SpvTyped, OutTyped
  <2>4. \A i \in Funcs : DisableContraction(i)' <=> DisableContraction(i)
    BY <2>1 DEF DisableContraction
  <2>5. (NodesMeant => NodesMeant') /\ (NodesRead => NodesRead')
    BY <2>1, <2>2, <2>4 DEF NodesMeant, NodesRead
  <2>6. \A i, mode : Before(i, mode)' <=> Before(i, mode)
    BY <2>1 DEF Before
  <2>7. \A i : Modes(i)' = Modes(i)
    BY <2>1 DEF Modes
  <2>8. \A s : AllWidths(s)' <=> AllWidths(s)
    BY <2>1 DEF AllWidths
  <2>9. ModesMeant => ModesMeant'
    BY <2>1, <2>2, <2>4, <2>6 DEF ModesMeant, Modes, With, Single, AllWidths
  <2>. QED
    BY <2>1, <2>3, <2>5, <2>9 DEF SettleInv, Unsettled
<1>2. CASE PreprocessModule \/ PreprocessKernel
  BY <1>2, SettlePreprocess
<1>3. CASE TransGlobals
  BY <1>3, SettleGlobals
<1>4. CASE TransFunctionDecl
  BY <1>4, SettleDeclare
<1>5. CASE TransInstruction \/ FinishFunction \/ PropagateContract \/ NextFunction
  BY <1>5, SettleBodies
<1>6. CASE TransOCLMetadata
  BY <1>6, SettleOCL
<1>7. CASE TransFPContract
  BY <1>7, SettleContract
<1>8. CASE TransContractionOff \/ TransInitializer \/ TransPlainMode \/ TransGatedMode
             \/ TransFloatMode \/ TransFastMathDefault
  BY <1>8, SettleModes
<1>9. CASE TransPoison
  BY <1>9, SettlePoison
<1>10. CASE ReadFunction
  BY <1>10, SettleReadFunction
<1>11. CASE ReadMetadata
  BY <1>11, SettleReadMetadata
<1>12. CASE ReadContract
  BY <1>12, SettleReadContract
<1>13. CASE ReadAuxData
  BY <1>13, SettleReadAux
<1>14. CASE FinishReading
  BY <1>14, SettleFinish
<1>15. CASE Rewrite
  BY <1>15, SettleRewrite
<1>. QED
  BY <1>1, <1>2, <1>3, <1>4, <1>5, <1>6, <1>7, <1>8, <1>9, <1>10, <1>11, <1>12, <1>13,
     <1>14, <1>15 DEF Next

\* At the end the nodes for contraction are those of the kernels that reach a reason.
LEMMA SettledModes ==
  ASSUME ContractInv, SettleInv, MarkedIffReached, Unsettled(input)
  PROVE  ModesSettled
<1> SUFFICES ASSUME pc = "done", NEW i \in Funcs, spv.funcs[i].kernel, ~spv.funcs[i].decl
             PROVE  LET bf == spv.funcs[i]
                        off == opt.contract = "Off" \/ (opt.contract = "On" /\ MayFuse(i))
                        Once(mode) == \E j \in DOMAIN bf.modes : \A k \in DOMAIN bf.modes :
                                        bf.modes[k].mode = mode <=> k = j
                    IN  /\ "float_controls2" \notin opt.ext =>
                             (HasMode(bf, "ContractionOff") <=> off)
                        /\ "float_controls2" \in opt.ext /\ off =>
                             \A w \in ToSet(llvm.floats) :
                               [mode |-> "FPFastMathDefault", args |-> <<w, 0>>] \in ToSet(bf.modes)
                        /\ "PoisonFreezeKHR" \in spv.caps => Once("ArithmeticPoisonKHR")
  BY DEF ModesSettled
<1> DEFINE off == opt.contract = "Off" \/ (opt.contract = "On" /\ MayFuse(i))
           s == spv.funcs[i].modes
<1>1. Marked(i) <=> MayFuse(i)
  BY DEF MarkedIffReached, Late
<1>2. llvm.funcs[i].decl = spv.funcs[i].decl
  BY DEF ContractInv, Copied, Carries, Copy, Late, Funcs
<1>3. IsList(s) /\ spv.funcs[i].kernel = llvm.funcs[i].kernel
  BY DEF SettleInv, SpvTyped, WrittenTo, Late
<1>4. off <=> DisableContraction(i)
  BY <1>1, <1>2, <1>3 DEF DisableContraction, Marked
<1>5. /\ "float_controls2" \notin opt.ext => (With(s, Off) <=> DisableContraction(i))
      /\ "float_controls2" \in opt.ext /\ DisableContraction(i) => AllWidths(s)
      /\ Single(s)
      /\ "PoisonFreezeKHR" \in spv.caps => With(s, Poison)
  BY <1>2, <1>3 DEF SettleInv, ModesMeant, Reading, Modes
<1>6. DOMAIN s = 1 .. Len(s) /\ DOMAIN llvm.floats = 1 .. Len(llvm.floats)
  BY <1>3 DEF IsList, SettleInv, LLVMTyped, ListsOK
<1>7. HasMode(spv.funcs[i], "ContractionOff") <=> With(s, Off)
  BY <1>3, HasModeWith DEF Off
<1>8. AllWidths(s) => \A w \in ToSet(llvm.floats) :
                        [mode |-> "FPFastMathDefault", args |-> <<w, 0>>] \in ToSet(s)
  <2> SUFFICES ASSUME AllWidths(s), NEW w \in ToSet(llvm.floats)
               PROVE  FastMath(w) \in ToSet(s)
    BY DEF FastMath
  <2>1. PICK v \in 1 .. Len(llvm.floats) : w = llvm.floats[v]
    BY <1>6 DEF ToSet
  <2>2. PICK k \in 1 .. Len(s) : s[k] = FastMath(w)
    BY <2>1 DEF AllWidths
  <2>. QED
    BY <1>6, <2>2 DEF ToSet
<1>9. With(s, Poison) => \E j \in DOMAIN s : \A k \in DOMAIN s :
                           s[k].mode = "ArithmeticPoisonKHR" <=> k = j
  <2> SUFFICES ASSUME With(s, Poison)
               PROVE  \E j \in DOMAIN s : \A k \in DOMAIN s :
                        s[k].mode = "ArithmeticPoisonKHR" <=> k = j
    OBVIOUS
  <2>1. PICK j \in DOMAIN s : s[j].mode = Poison
    BY <1>6 DEF With
  <2>2. \A k \in DOMAIN s : s[k].mode = Poison => k = j
    BY <1>5, <1>6, <2>1 DEF Single
  <2>. QED
    BY <2>1, <2>2 DEF Poison
<1>. QED
  BY <1>4, <1>5, <1>7, <1>8, <1>9

(* ModesSettled for every module, call graph, set of options and order of  *)
(* the functions, in both translations: the kernels without contraction    *)
(* are the ones the options and the reached bodies ask for, with           *)
(* SPV_KHR_float_controls2 for all float types, and poison is said once.   *)
(* Unsettled(input) says that the module that is translated does not list  *)
(* ContractionOff by itself, as metadata a producer wrote by hand could,   *)
(* and lists poison at most once for a function.  Preprocessing and the    *)
(* reader keep this, so the second translation needs no such hypothesis.   *)
THEOREM ModesAreSettled == Spec => [](Unsettled(input) => ModesSettled)
<1>1. Init => SettleInv
  BY SettleInit
<1>2. ContractInv /\ SettleInv /\ [Next]_vars => SettleInv'
  BY SettleStep
<1>3. ContractInv /\ SettleInv /\ MarkedIffReached => (Unsettled(input) => ModesSettled)
  BY SettledModes
<1>. QED
  BY <1>1, <1>2, <1>3, ContractionInvariant, ContractionExact, PTL DEF Spec
=============================================================================
