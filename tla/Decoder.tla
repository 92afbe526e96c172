------------------------------ MODULE Decoder -------------------------------
(***************************************************************************)
(* The parser of a SPIR-V stream: SPIRVModuleImpl::parseSPIRV and parseSPT,*)
(* SPIRVDecoder, SPIRVFunction::decode and decodeBB, over the formats that *)
(* the encoders of libSPIRV write.                                         *)
(*                                                                         *)
(* A behaviour starts from a module as the translator writes it: a         *)
(* preamble, one subject (an entry of any class, with every number of      *)
(* operands its vector may have) where such an entry stands, a neighbour   *)
(* behind it, and a function.  The stream may be cut, the user may not     *)
(* allow an extension of the module, and the header may not suit the       *)
(* reader.  A token is a word of the binary form or an item of the text    *)
(* form; it remembers the field that wrote it, which no decoder looks at.  *)
(***************************************************************************)
EXTENDS InstructionFormats, Integers

CONSTANTS
    Subjects,      \* the formats of the entries under test
    CutSubjects,   \* those whose binary streams are cut at every word
    MaxWordCount   \* the word count a header has room for

VARIABLES
    form,      \* "binary" or "text" (SPIRVUseTextFormat)
    asserts,   \* whether the build checks assertions
    header,    \* what the five words of the header are
    allowed,   \* the extensions the user allows
    subject,   \* the entry under test, as the writer was asked for it
    written,   \* the entries of the module: instances of formats
    stream,    \* the tokens behind the header
    cut,       \* how many tokens were cut from its end
    pos,       \* the next token
    scope,     \* the loop that reads: module, function, block; done, crashed
    valid,     \* isModuleValid()
    line,      \* CurrentLine: the index of the last OpLine, or 0
    out        \* the entries decoded so far

vars == <<form, asserts, header, allowed, subject, written, stream, cut, pos, scope, valid, line, out>>

-----------------------------------------------------------------------------
(* The encoder *)

IsText(field) == field.k = "text"

\* An entry: its format, the size of its vector, the words of its strings, and
\* the name an OpExtension holds.
Entry(f, len, str, name) == [f |-> f, len |-> len, str |-> str, name |-> name]
Strings(f) == Len(SelectSeq(f.enc, IsText))
Entries(formats) ==
    UNION {{Entry(f, len, str, "") : len \in f.lens, str \in 1..(IF Strings(f) > 0 THEN 2 ELSE 1)} :
           f \in formats}
The(formats) == LET f == CHOOSE f \in formats : TRUE
                IN  Entry(f, CHOOSE n \in f.lens : TRUE, 1, "")

\* What the constructor gave to setWordCount(); the header carries it.
WordCount(i) ==
    i.f.wc + i.f.grow * i.len + i.str * Strings(i.f)

Token(t, by, words) == [t |-> t, by |-> by, words |-> words]

\* SPIRVEncoder's operator<<: a string fills words and ends in a zero byte.
EncodeField(i, field, f) ==
    CASE field.k = "rest" -> [n \in 1..i.len |-> Token("num", field.n, 0)]
      [] field.k = "name" /\ f = "text" -> <<Token("name", field.n, 0)>>
      [] field.k = "text" /\ f = "text" -> <<Token("quoted", field.n, i.str)>>
      [] field.k = "text" /\ f = "binary" ->
            [n \in 1..i.str |-> Token(IF n = i.str THEN "end" ELSE "str", field.n, 0)]
      [] OTHER -> <<Token("num", field.n, 0)>>

Encode(i, f) ==
    <<[t |-> "head", by |-> i.f.op, words |-> WordCount(i), i |-> i]>>
    \o FlattenSeq([n \in DOMAIN i.f.enc |-> EncodeField(i, i.f.enc[n], f)])

EncodeAll(is, f) == FlattenSeq([n \in DOMAIN is |-> Encode(is[n], f)])

-----------------------------------------------------------------------------
(* The decoder of one entry: operator>> of the fields, in order.  A read   *)
(* past the end, or of a text item of another kind, fails the stream, and  *)
(* whatever is read after that changes nothing.                            *)

Wanted(field) ==
    CASE field.k = "name" -> "name" [] field.k = "text" -> "quoted" [] OTHER -> "num"

\* r: the next token, whether the stream is good, the words of the strings read,
\* what was read so far.
Read(n, r, field) ==
    LET tokens == r.at..(r.at + n - 1)
        fits == /\ r.at + n - 1 <= Len(stream)
                /\ form = "text" => \A q \in tokens : stream[q].t = Wanted(field)
        name == IF field.k = "rest" THEN "rest" ELSE field.n
    IN  IF r.ok /\ fits
        THEN [r EXCEPT !.at = @ + n,
                       !.got = @ \o [q \in 1..n |-> [n |-> name, by |-> stream[r.at + q - 1].by]]]
        ELSE [r EXCEPT !.ok = FALSE]

\* A binary string goes on to the word that holds its zero byte.
StringWords(at) ==
    LET ends == {q \in at..Len(stream) : stream[q].t # "str"}
    IN  (IF ends = {} THEN Len(stream) + 1 ELSE Min(ends)) - at + 1

ReadString(r, field) ==
    IF form = "binary"
    THEN LET n == StringWords(r.at) IN [Read(n, r, field) EXCEPT !.strs = @ + n]
    ELSE [Read(1, r, field) EXCEPT
            !.strs = @ + (IF r.at <= Len(stream) THEN stream[r.at].words ELSE 0)]

ReadField(r, field, f, wc) ==
    CASE field.k = "rest" -> Read(Max({0, wc - f.base - r.strs}), r, field)
      [] field.k = "text" -> ReadString(r, field)
      [] OTHER -> Read(1, r, field)

RECURSIVE ReadFields(_, _, _, _)
ReadFields(r, fields, f, wc) ==
    IF fields = <<>> THEN r
    ELSE CHOOSE all \in {ReadFields(one, Tail(fields), f, wc) :
                          one \in {ReadField(r, Head(fields), f, wc)}} : TRUE

Decode(f, wc, at) ==
    ReadFields([at |-> at, ok |-> TRUE, strs |-> 0, got |-> <<>>],
               IF form = "binary" THEN f.bin ELSE f.txt, f, wc)

-----------------------------------------------------------------------------
(* The entry whose header is at a position: the entry itself and, for a    *)
(* composite, the continued instructions behind it, which the decoder has  *)
(* to look for (getContinuedInstructions).  At the end of the stream the   *)
(* look ahead fails the stream and seekg() does not mend it.  A continued  *)
(* instruction that is cut is lost: getEntry() makes the module invalid    *)
(* and returns a null pointer, which is added to the module.               *)

IsHead(at) == at <= Len(stream) /\ stream[at].t = "head"

ContinuedOp(op) ==
    CASE op = "TypeStruct" -> "TypeStructContinuedINTEL"
      [] op = "ConstantComposite" -> "ConstantCompositeContinuedINTEL"
      [] op = "SpecConstantComposite" -> "SpecConstantCompositeContinuedINTEL"
      [] OTHER -> "none"

FollowedBy(op) ==
    IF op \in {ContinuedOp(o) : o \in {"TypeStruct", "ConstantComposite", "SpecConstantComposite"}}
    THEN op ELSE ContinuedOp(op)

Prepend(entry, more) == [more EXCEPT !.entries = <<entry>> \o @]

RECURSIVE EntriesAt(_, _)
EntriesAt(at, op) ==
    IF ~IsHead(at) \/ stream[at].by # op
    THEN [at |-> at, ok |-> at <= Len(stream), lost |-> FALSE, entries |-> <<>>]
    ELSE LET head == stream[at]
             entry(d) == [op |-> head.i.f.reads, got |-> d.got, line |-> line, at |-> at]
         IN  CHOOSE all \in UNION {
                 {Prepend(entry(d), more) :
                    more \in {IF d.ok /\ FollowedBy(op) # "none" THEN EntriesAt(d.at, FollowedBy(op))
                               ELSE [at |-> d.at, ok |-> d.ok, lost |-> ~d.ok /\ FollowedBy(op) = op,
                                     entries |-> <<>>]}} :
                 d \in {Decode(head.i.f, head.words, at + 1)}} : TRUE

AtEnd == pos > Len(stream)
Op == stream[pos].by
Here == EntriesAt(pos, Op)

\* After a failed read nothing more can be read.
Past(e) == IF e.ok THEN e.at ELSE Len(stream) + 1

\* Mutant: nobody compares the word count with what is left of the stream.
WordCountUnchecked == TRUE

\* validateWordCount: binary only, and only for the entries of the module loop.
WordCountFits == form = "text" \/ stream[pos].words - 1 <= Len(stream) - pos

-----------------------------------------------------------------------------
(* The module loop: parseSPIRV, parseSPT and parseAndCreateSPIRVEntry *)

\* The five words of the header are checked in order; the first wrong one ends
\* the parse.
ReadHeader ==
    /\ scope = "header"
    /\ valid' = (header = "good")
    /\ scope' = IF header = "good" THEN "module" ELSE "done"
    /\ UNCHANGED <<form, asserts, header, allowed, subject, written, stream, cut, pos, line, out>>

\* The next header cannot be read, or the module has become invalid.
Stop ==
    /\ scope = "module"
    /\ AtEnd \/ ~valid
    /\ scope' = "done"
    /\ UNCHANGED <<form, asserts, header, allowed, subject, written, stream, cut, pos, valid, line, out>>

ExtensionAllowed == Op = "Extension" => stream[pos].i.name \in allowed

ParseEntry ==
    /\ scope = "module"
    /\ valid /\ IsHead(pos) /\ Op # "Function"
    /\ LET here == Here IN
       /\ valid' = (WordCountFits /\ ExtensionAllowed /\ ~here.lost)
       /\ scope' = IF here.lost \/ (~here.ok /\ asserts) THEN "crashed" ELSE scope
       /\ out' = out \o here.entries
       /\ pos' = Past(here)
    /\ UNCHANGED <<form, asserts, header, allowed, subject, written, stream, cut, line>>

ParseFunction ==
    /\ scope = "module"
    /\ valid /\ IsHead(pos) /\ Op = "Function"
    /\ valid' = WordCountFits
    /\ scope' = "function"
    /\ LET here == Here IN
       /\ out' = out \o here.entries
       /\ pos' = Past(here)
    /\ UNCHANGED <<form, asserts, header, allowed, subject, written, stream, cut, line>>

-----------------------------------------------------------------------------
(* SPIRVFunction::decode and decodeBB, with SPIRVDecoder::getEntry *)

\* The function is the entry the module loop is parsing: when its decode()
\* returns on a failed stream the assertion behind it fails.
ReturnFailed == IF asserts THEN "crashed" ELSE "module"

\* The stream ends before OpFunctionEnd.
EndOfStream ==
    /\ scope \in {"function", "block"}
    /\ AtEnd
    /\ scope' = ReturnFailed
    /\ UNCHANGED <<form, asserts, header, allowed, subject, written, stream, cut, pos, valid, line, out>>

DecodeParameter ==
    /\ scope = "function"
    /\ IsHead(pos) /\ Op = "FunctionParameter"
    /\ LET here == Here IN
       /\ valid' = here.ok
       /\ scope' = IF here.ok THEN scope ELSE "crashed"
       /\ out' = out \o here.entries
       /\ pos' = Past(here)
    /\ UNCHANGED <<form, asserts, header, allowed, subject, written, stream, cut, line>>

DecodeLabel ==
    /\ scope \in {"function", "block"}
    /\ IsHead(pos) /\ Op = "Label"
    /\ LET here == Here IN
       /\ valid' = here.ok
       /\ scope' = IF here.ok THEN "block" ELSE ReturnFailed
       /\ out' = out \o here.entries
       /\ pos' = Past(here)
    /\ UNCHANGED <<form, asserts, header, allowed, subject, written, stream, cut, line>>

FunctionEnd ==
    /\ scope \in {"function", "block"}
    /\ IsHead(pos) /\ Op = "FunctionEnd"
    /\ scope' = "module"
    /\ pos' = pos + 1
    /\ out' = Append(out, [op |-> "FunctionEnd", got |-> <<>>, line |-> 0, at |-> pos])
    /\ UNCHANGED <<form, asserts, header, allowed, subject, written, stream, cut, valid, line>>

\* Mutant: the skipped instruction is not taken from the stream.
PeekNoLine ==
    /\ scope = "block"
    /\ IsHead(pos) /\ Op \in {"NoLine", "Nop"}
    /\ UNCHANGED vars

\* Skipped before getEntry() could reset the current line.
SkipNoLine ==
    /\ scope = "block"
    /\ IsHead(pos) /\ Op \in {"NoLine", "Nop"}
    /\ pos' = pos + 1
    /\ UNCHANGED <<form, asserts, header, allowed, subject, written, stream, cut, scope, valid, line, out>>

DecodeLine ==
    /\ scope = "block"
    /\ IsHead(pos) /\ Op = "Line"
    /\ LET here == Here IN
       /\ valid' = here.ok
       /\ scope' = IF here.ok THEN scope ELSE ReturnFailed
       /\ line' = IF here.ok THEN pos ELSE line
       /\ pos' = Past(here)
    /\ UNCHANGED <<form, asserts, header, allowed, subject, written, stream, cut, out>>

\* Mutant: the end of a block leaves the current line.
DecodeInstructionKeepLine ==
    /\ scope = "block"
    /\ IsHead(pos) /\ Op \notin {"Label", "FunctionEnd", "NoLine", "Nop", "Line"}
    /\ LET here == Here IN
       /\ valid' = here.ok
       /\ scope' = IF here.ok THEN scope ELSE ReturnFailed
       /\ out' = IF here.ok THEN out \o here.entries ELSE out
       /\ pos' = Past(here)
    /\ UNCHANGED <<form, asserts, header, allowed, subject, written, stream, cut, line>>

\* getEntry reports a stream that failed in the middle of the instruction.
DecodeInstruction ==
    /\ scope = "block"
    /\ IsHead(pos) /\ Op \notin {"Label", "FunctionEnd", "NoLine", "Nop", "Line"}
    /\ LET here == Here IN
       /\ valid' = here.ok
       /\ scope' = IF here.ok THEN scope ELSE ReturnFailed
       /\ line' = IF EndsBlock(stream[pos].i.f) THEN 0 ELSE line
       /\ out' = IF here.ok THEN out \o here.entries ELSE out
       /\ pos' = Past(here)
    /\ UNCHANGED <<form, asserts, header, allowed, subject, written, stream, cut>>

Finished == scope \in {"done", "crashed"} /\ UNCHANGED vars

-----------------------------------------------------------------------------
(* Modules as the writer encodes them *)

\* addExtension: one extension brings another one along.
ExtensionsAdded(ext) ==
    CASE ext = NoExt -> {}
      [] ext = "SPV_EXT_shader_atomic_float16_add" ->
            {ext, "SPV_EXT_shader_atomic_float_add"}
      [] OTHER -> {ext}

ContinuedFormats(op) == SPIRVContinuedInstINTELBase(ContinuedOp(op))

\* transType of a struct: as many elements as fit a word count, as many full
\* continued instructions as the quotient says, and one for the remainder.
StructParts(n, max) ==
    <<max>> \o [j \in 1..(n \div max - 1) |-> max] \o (IF n % max = 0 THEN <<>> ELSE <<n % max>>)

\* addCompositeConstant, addSpecConstantComposite: slices up to the last element.
ConstantParts(n, max) ==
    [j \in 1..((n + max - 1) \div max) |-> Min({max, n - (j - 1) * max})]

\* An entry as the writer adds it, with SPV_INTEL_long_composites allowed: a composite
\* that does not fit one instruction goes on in continued ones.
Parts(i) ==
    LET max == MaxWordCount - i.f.wc
        sizes == IF i.f.op = "TypeStruct" THEN StructParts(i.len, max)
                 ELSE ConstantParts(i.len, max)
    IN  IF ContinuedOp(i.f.op) = "none" \/ i.len <= max THEN <<i>>
        ELSE [n \in DOMAIN sizes |->
                [(IF n = 1 THEN i ELSE The(ContinuedFormats(i.f.op))) EXCEPT !.len = sizes[n]]]

Sized(i) ==
    IF ContinuedOp(i.f.op) = "none" THEN {i}
    ELSE {[i EXCEPT !.len = n] : n \in 0..(3 * MaxWordCount)}

Preamble(is) ==
    LET exts == SetToSeq(UNION {ExtensionsAdded(is[n].f.ext) : n \in DOMAIN is})
        caps == SetToSeq(UNION {is[n].f.caps : n \in DOMAIN is})
    IN  [n \in DOMAIN caps |-> The(SPIRVCapability)]
        \o [n \in DOMAIN exts |-> [The(SPIRVExtension) EXCEPT !.name = exts[n]]]
        \o <<The(SPIRVMemoryModel)>>

Function(block) ==
    <<The(SPIRVFunction), The(SPIRVFunctionParameter), The(SPIRVLabel)>>
    \o block \o <<The({Fixed("Return", 1, <<>>)}), The(SPIRVFunctionEnd)>>

Line == The(SPIRVLine)
NoLine == The({Fixed("NoLine", 1, <<>>)})
Label == The(SPIRVLabel)

\* The module around a subject of the module level, and around an instruction.
\* OpNoLine stands where no line is in force, or before the next OpLine: an
\* instruction right after one that ends a line is not among the inputs, for
\* decodeBB skips it there and the line stays (SkipNoLine).
Modules(i) ==
    IF i.f \in BlockEntries
    THEN LET rest == IF EndsBlock(i.f) THEN <<Label>> ELSE <<>>
         IN  {Preamble(<<i>>) \o Function(b \o rest) :
              b \in {<<NoLine, i>>, <<Line, i>> \o rest \o <<i>> \o rest \o <<NoLine, Line, i>>}}
    ELSE {Preamble(Parts(i)) \o Parts(i) \o Function(<<>>)}

Headers == {"good", "short", "magic", "unknown version", "version not allowed", "schema"}

Declared(is) == {is[n].name : n \in DOMAIN is} \ {""}

Init ==
    /\ \E i \in UNION {Sized(e) : e \in Entries(Subjects)} :
        /\ subject = i
        /\ written \in Modules(i)
        /\ form \in {"binary", "text"}
        /\ \/ /\ header = "good" /\ cut = 0 /\ asserts = TRUE
              /\ allowed \in {Declared(written), {}}
           \/ /\ i.f \in CutSubjects /\ form = "binary"
              /\ header = "good" /\ asserts \in BOOLEAN
              /\ cut \in 1..Len(EncodeAll(written, form))
              /\ allowed = Declared(written)
           \/ /\ i.f \in CutSubjects
              /\ header \in Headers \ {"good"} /\ cut = 0 /\ asserts = TRUE
              /\ allowed = Declared(written)
    /\ LET whole == EncodeAll(written, form)
       IN  stream = SubSeq(whole, 1, Len(whole) - cut)
    /\ pos = 1 /\ scope = "header" /\ valid = TRUE /\ line = 0 /\ out = <<>>

Next ==
    \/ ReadHeader \/ Stop \/ ParseEntry \/ ParseFunction
    \/ EndOfStream \/ DecodeParameter \/ DecodeLabel \/ FunctionEnd
    \/ SkipNoLine \/ DecodeLine \/ DecodeInstruction
    \/ Finished

\* A parse is one call: it runs until it returns.
Spec == Init /\ [][Next]_vars /\ WF_vars(Next)

-----------------------------------------------------------------------------
(* Properties *)

Over == scope \in {"done", "crashed"}

TypeOK ==
    /\ form \in {"binary", "text"} /\ asserts \in BOOLEAN /\ header \in Headers
    /\ pos \in 1..(Len(stream) + 1) /\ line \in 0..Len(stream)
    /\ scope \in {"header", "module", "function", "block", "done", "crashed"}
    /\ valid \in BOOLEAN

\* The instructions a composite is made of.
IsPart(op) ==
    ContinuedOp(subject.f.op) # "none" /\ op \in {subject.f.op, ContinuedOp(subject.f.op)}

\* The word count that a constructor computes is the number of words encode()
\* writes, no part of a composite exceeds the largest one, and
\* wherever a loop reads a header there is one: no decode() leaves words of its
\* instruction unread or reads words of the next one.
InStep ==
    /\ scope = "header" =>
        \A n \in DOMAIN written :
            /\ WordCount(written[n]) = Len(Encode(written[n], "binary"))
            /\ IsPart(written[n].f.op) => WordCount(written[n]) <= MaxWordCount
    /\ scope \in {"module", "function", "block"} /\ ~AtEnd => IsHead(pos)

Skipped(i) == i.f.op \in {"Line", "NoLine"}
InBlock(n) == \E k \in 1..n : written[k].f.op = "Label"
Kept == SelectSeq([n \in DOMAIN written |-> <<n, written[n]>>],
                  LAMBDA e : ~(Skipped(e[2]) /\ InBlock(e[1])))
\* The lines in force at a word: none from before its block or an OpNoLine.
LinesBefore(at) ==
    {q \in 1..(at - 1) :
        /\ IsHead(q) /\ stream[q].by = "Line"
        /\ \A z \in q..at : IsHead(z) => stream[z].by \notin {"Label", "NoLine"}}

\* What is read is what was written: the same entries, every word in the field
\* that wrote it, for either form.  The line of an entry, also in a stream that
\* was cut, is the nearest OpLine before it in its own block that no OpNoLine
\* ended: none is carried into the next block.  A composite has the elements it
\* was asked to have, over all its instructions.
ElementsRead ==
    Len(FlattenSeq([n \in DOMAIN out |->
        IF IsPart(out[n].op)
        THEN SelectSeq(out[n].got, LAMBDA g : g.n = "rest") ELSE <<>>]))
RoundTrip ==
    /\ scope = "done" /\ valid /\ cut = 0 =>
        LET kept == Kept
        IN  /\ Len(out) = Len(kept)
            /\ \A n \in DOMAIN out :
                  LET i == kept[n][2]
                      tokens == Tail(Encode(i, form))
                      got == out[n].got
                  IN  /\ out[n].op = i.f.op
                      /\ Len(got) = Len(tokens)
                      /\ \A k \in DOMAIN tokens :
                            got[k].by = tokens[k].by /\ got[k].n \in {"rest", tokens[k].by}
            /\ ContinuedOp(subject.f.op) # "none" => ElementsRead = subject.len
    /\ Over => \A n \in DOMAIN out :
        out[n].op # "FunctionEnd" =>
            out[n].line = Max({0} \cup LinesBefore(out[n].at))

Boundaries == {Len(EncodeAll(SubSeq(written, 1, n), form)) : n \in 0..Len(written)}

\* A whole module is accepted exactly when its header suits the reader and the
\* user allows the extensions it declares; a binary stream that ends inside an
\* instruction is never accepted.
AcceptedIffWhole ==
    /\ Over /\ cut = 0 =>
        (scope = "done" /\ valid <=> header = "good" /\ Declared(written) \subseteq allowed)
    /\ scope = "done" /\ cut > 0 /\ Len(stream) \notin Boundaries => ~valid

\* Every parse ends.
ParseEnds == <>Over

=============================================================================
