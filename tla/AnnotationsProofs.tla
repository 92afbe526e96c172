------------------------- MODULE AnnotationsProofs -------------------------
(***************************************************************************)
(* Proofs about Annotations, for modules of any size: the tables stay      *)
(* well-typed through reading, writing and reading again, every id has the *)
(* decorations and the name declared for it, operator<< writes every       *)
(* decoration as often as it was read, and what it writes reads back as it *)
(* was read first.                                                         *)
(***************************************************************************)
EXTENDS Annotations, SequenceFacts

-----------------------------------------------------------------------------
(* How often a sequence has an element.                                    *)

\* The positions of an element.
Places(m, d) == {k \in 1 .. Len(m) : m[k] = d}

LEMMA PlacesFinite ==
  ASSUME NEW T, NEW m \in Seq(T), NEW d
  PROVE  /\ IsFiniteSet(Places(m, d))
         /\ Occurrences(m, d) = Cardinality(Places(m, d)) /\ Occurrences(m, d) \in Nat
<1>1. IsFiniteSet(1 .. Len(m))
  BY FS_Interval
<1>2. IsFiniteSet(Places(m, d))
  BY <1>1, FS_Subset DEF Places
<1>3. Occurrences(m, d) = Cardinality(Places(m, d))
  BY Zenon DEF Occurrences, Places
<1>. QED
  BY <1>2, <1>3, FS_CardinalityType

LEMMA OccurrencesNone ==
  ASSUME NEW T, NEW m \in Seq(T), NEW d, d \notin T
  PROVE  Occurrences(m, d) = 0
<1>1. Places(m, d) = {}
  BY DEF Places
<1>. QED
  BY <1>1, PlacesFinite, FS_EmptySet

LEMMA OccurrencesAppend ==
  ASSUME NEW T, NEW m \in Seq(T), NEW x \in T, NEW d
  PROVE  Occurrences(Append(m, x), d) = Occurrences(m, d) + (IF x = d THEN 1 ELSE 0)
<1> DEFINE n == Len(m)
           a == Append(m, x)
<1>1. n \in Nat /\ a \in Seq(T) /\ Len(a) = n + 1 /\ a[n + 1] = x /\ \A i \in 1 .. n : a[i] = m[i]
  BY AppendProperties
<1> HIDE DEF n, a
<1>2. Places(m, d) = {k \in 1 .. n : m[k] = d} /\ n + 1 \notin Places(m, d)
  BY <1>1 DEF Places, n
<1>3. Places(a, d) = IF x = d THEN Places(m, d) \cup {n + 1} ELSE Places(m, d)
  BY <1>1, <1>2 DEF Places
<1>4. IsFiniteSet(Places(m, d)) /\ Occurrences(m, d) = Cardinality(Places(m, d))
       /\ Occurrences(m, d) \in Nat
  BY PlacesFinite
<1>5. Occurrences(a, d) = Cardinality(Places(a, d))
  BY <1>1, PlacesFinite
<1>6. CASE x = d
  <2>1. Cardinality(Places(m, d) \cup {n + 1}) = Cardinality(Places(m, d)) + 1
    BY <1>2, <1>4, FS_AddElement
  <2>. QED
    BY <1>3, <1>4, <1>5, <1>6, <2>1 DEF a
<1>7. CASE x # d
  BY <1>3, <1>4, <1>5, <1>7 DEF a
<1>. QED
  BY <1>6, <1>7

LEMMA OccurrencesConcat ==
  ASSUME NEW T, NEW a \in Seq(T), NEW b \in Seq(T), NEW d
  PROVE  Occurrences(a \o b, d) = Occurrences(a, d) + Occurrences(b, d)
<1> DEFINE n == Len(a)
           c == a \o b
           P == Places(a, d)
           Q == Places(b, d)
           R == {k \in (n + 1) .. (n + Len(b)) : b[k - n] = d}
           f == [k \in Q |-> n + k]
<1>1. /\ n \in Nat /\ Len(b) \in Nat /\ c \in Seq(T) /\ Len(c) = n + Len(b)
      /\ \A k \in 1 .. n : c[k] = a[k]
      /\ \A k \in (n + 1) .. (n + Len(b)) : c[k] = b[k - n]
  <2>1. n \in Nat /\ Len(b) \in Nat
    OBVIOUS
  <2>2. /\ c \in Seq(T) /\ Len(c) = n + Len(b)
        /\ \A k \in 1 .. (n + Len(b)) : c[k] = IF k <= n THEN a[k] ELSE b[k - n]
    BY ConcatProperties
  <2> HIDE DEF c, n
  <2>. QED
    BY <2>1, <2>2
<1>2. P \subseteq 1 .. n /\ Q \subseteq 1 .. Len(b)
  BY DEF Places
<1>3. \A k \in Q : n + k \in R
  <2>1. ASSUME NEW k \in Q PROVE n + k \in R
    <3>1. k \in 1 .. Len(b) /\ b[k] = d
      BY DEF Places
    <3>2. (n + k) - n = k /\ n + k \in (n + 1) .. (n + Len(b))
      BY <1>1, <3>1
    <3>. QED
      BY <3>1, <3>2
  <2>. QED
    BY <2>1
<1>4. \A r \in R : r - n \in Q /\ n + (r - n) = r
  BY <1>1 DEF Places
<1>5. f \in Bijection(Q, R)
  <2>1. f \in [Q -> R]
    BY <1>3
  <2>2. \A x, y \in Q : f[x] = f[y] => x = y
    BY <1>1, <1>2
  <2>3. \A r \in R : \E x \in Q : f[x] = r
    BY <1>4
  <2> HIDE DEF f, Q, R
  <2>4. f \in Injection(Q, R)
    BY <2>1, <2>2 DEF Injection, IsInjective
  <2>5. f \in Surjection(Q, R)
    BY <2>1, <2>3 DEF Surjection
  <2>. QED
    BY <2>4, <2>5 DEF Bijection
<1>6. Places(c, d) = P \cup R /\ P \cap R = {}
  <2>1. ASSUME NEW k \in 1 .. (n + Len(b))
        PROVE  c[k] = d <=> k \in P \cup R
    <3>1. CASE k <= n
      <4>1. k \in 1 .. n /\ k \notin R
        BY <1>1, <3>1
      <4>. QED
        BY <1>1, <4>1 DEF Places
    <3>2. CASE ~(k <= n)
      <4>1. k \in (n + 1) .. (n + Len(b)) /\ k \notin P
        BY <1>1, <1>2, <3>2
      <4>. QED
        BY <1>1, <4>1
    <3>. QED
      BY <3>1, <3>2
  <2>2. P \cup R \subseteq 1 .. (n + Len(b)) /\ P \cap R = {}
    BY <1>1, <1>2
  <2> HIDE DEF P, R, c, n
  <2>3. Places(c, d) = {k \in 1 .. (n + Len(b)) : c[k] = d}
    BY <1>1 DEF Places
  <2>. QED
    BY <2>1, <2>2, <2>3
<1>7. /\ IsFiniteSet(P) /\ Occurrences(a, d) = Cardinality(P)
      /\ IsFiniteSet(Q) /\ Occurrences(b, d) = Cardinality(Q)
      /\ Occurrences(c, d) = Cardinality(Places(c, d))
      /\ Cardinality(P) \in Nat /\ Cardinality(Q) \in Nat
  BY <1>1, PlacesFinite, FS_CardinalityType
<1> HIDE DEF P, Q, R, c, f, n
<1>8. IsFiniteSet(R) /\ Cardinality(R) = Cardinality(Q)
  BY <1>5, <1>7, FS_Bijection DEF ExistsBijection
<1>9. Cardinality(P \cup R) = Cardinality(P) + Cardinality(R)
  <2>1. Cardinality(P \cup R) = Cardinality(P) + Cardinality(R) - Cardinality(P \cap R)
    BY <1>7, <1>8, FS_Union
  <2>2. Cardinality(P \cap R) = 0
    BY <1>6, FS_EmptySet
  <2>. QED
    BY <1>7, <1>8, <2>1, <2>2
<1>. QED
  BY <1>6, <1>7, <1>8, <1>9 DEF c

-----------------------------------------------------------------------------
(* The invariant.                                                          *)

\* Instructions that say something, and those of some kinds.
Annotated == {x \in InstType : x.op \notin Definitions \cup {"GroupDecorate"} => x.ann \in Anns}
Of(ops) == {x \in Annotated : x.op \in ops}
Owned == [group : Of({"Group"}), decs : Seq(Of(Decorations))]

\* Each vector has instructions of its own kinds only.
Vectors ==
  /\ EntryPointVec \in Seq(Of({"EntryPoint"}))
  /\ DecorateVec \in Seq(Of(Decorations))
  /\ DecGroupVec \in Seq(Owned)
  /\ GroupDecVec \in Seq(Of({"GroupDecorate"}))
  /\ DefVec \in Seq(Of({"Function", "Def"}))

Reading ==
  /\ input \in Seq(Annotated)
  /\ pos \in 1 .. (Len(input) + 1)
  /\ round \in {1, 2}
  /\ firstRead \in [entries : [Ids -> EntryType], named : SUBSET Ids]

\* What SetToSeq will list is finite, and only entries with a name are listed.
Entries ==
  /\ IdEntryMap \in [Ids -> EntryType]
  /\ NamedId \subseteq Ids
  /\ IsFiniteSet(NamedId)
  /\ \A i \in Ids : IsFiniteSet(IdEntryMap[i].modes)
  /\ \A i \in Ids : IdEntryMap[i].kind = "none" => IdEntryMap[i] = Absent
  /\ \A i \in NamedId : IdEntryMap[i].name # NoName

TableInv == Reading /\ Vectors /\ Entries

-----------------------------------------------------------------------------
(* Entries.                                                                *)

LEMMA InstFacts ==
  ASSUME Reading, NEW ops, At(ops)
  PROVE  /\ Inst \in Annotated /\ Inst \in InstType /\ Inst.op \in ops /\ Inst \in Of(ops)
         /\ Inst.id \in Ids /\ Inst.targets \subseteq Ids
         /\ pos \in 1 .. Len(input) /\ Len(input) \in Nat
<1>1. pos \in 1 .. Len(input) /\ Inst.op \in ops /\ Inst = input[pos]
  BY DEF At, Inst
<1>2. input \in Seq(Annotated)
  BY DEF Reading
<1>3. input[pos] \in Annotated /\ Len(input) \in Nat
  BY <1>1, <1>2
<1>4. Inst \in Annotated
  BY <1>1, <1>3
<1> HIDE DEF Inst
<1>5. Inst \in InstType
  BY <1>4 DEF Annotated
<1>6. Inst.id \in Ids /\ Inst.targets \subseteq Ids
  BY <1>5 DEF InstType
<1>. QED
  BY <1>1, <1>3, <1>4, <1>5, <1>6 DEF Of

LEMMA Created ==
  ASSUME Entries, NEW i \in Ids
  PROVE  /\ GetOrCreate(i) \in EntryType
         /\ GetOrCreate(i).name = IdEntryMap[i].name
         /\ GetOrCreate(i).decs = IdEntryMap[i].decs
         /\ GetOrCreate(i).modes = IdEntryMap[i].modes
         /\ GetOrCreate(i).kind = IF IdEntryMap[i].kind = "none" THEN "forward"
                                  ELSE IdEntryMap[i].kind
<1>1. IdEntryMap[i] \in EntryType
  BY DEF Entries
<1>2. CASE IdEntryMap[i].kind = "none"
  <2>1. IdEntryMap[i] = Absent
    BY <1>2 DEF Entries
  <2>2. GetOrCreate(i) = [Absent EXCEPT !.kind = "forward"]
    BY <1>2 DEF GetOrCreate
  <2>. QED
    BY <1>2, <2>1, <2>2 DEF Absent, EntryType, EntryKinds
<1>3. CASE IdEntryMap[i].kind # "none"
  BY <1>1, <1>3 DEF GetOrCreate
<1>. QED
  BY <1>2, <1>3

Linked(ds) == {k \in 1 .. Len(ds) : ds[k].op = "Linkage"}

LEMMA DecoratedFacts ==
  ASSUME NEW e \in EntryType, NEW ds \in Seq(Of(Decorations))
  PROVE  /\ Decorated(e, ds) \in EntryType
         /\ Decorated(e, ds).kind = e.kind
         /\ Decorated(e, ds).modes = e.modes
         /\ Decorated(e, ds).decs = e.decs \cup ToSet(ds)
         /\ Linked(ds) = {} => Decorated(e, ds).name = e.name
         /\ e.name # NoName => Decorated(e, ds).name # NoName
<1> DEFINE nm == IF Linked(ds) = {} THEN e.name ELSE ds[Max(Linked(ds))].ann
           dd == e.decs \cup ToSet(ds)
<1>1. Decorated(e, ds) = [e EXCEPT !.decs = dd, !.name = nm]
  BY DEF Decorated, Linked
<1>2. \A k \in 1 .. Len(ds) : ds[k] \in InstType /\ ds[k].ann \in Anns
  <2>1. \A x \in Of(Decorations) : x \in InstType /\ x.ann \in Anns
    BY DEF Of, Annotated, Decorations, Definitions
  <2>. QED
    BY <2>1
<1>3. dd \subseteq InstType
  <2>1. ToSet(ds) = {ds[k] : k \in 1 .. Len(ds)}
    BY DEF ToSet
  <2>. QED
    BY <1>2, <2>1 DEF EntryType
<1>4. Linked(ds) # {} => nm \in Anns
  <2>1. ASSUME Linked(ds) # {} PROVE ds[Max(Linked(ds))].ann \in Anns
    <3>1. Linked(ds) \in SUBSET (1 .. Len(ds)) /\ Len(ds) \in Nat
      BY DEF Linked
    <3>2. Max(Linked(ds)) \in 1 .. Len(ds)
      BY <2>1, <3>1, GreatestBelow
    <3>. QED
      BY <1>2, <3>2
  <2>. QED
    BY <2>1
<1>5. nm \in Anns \cup {NoName}
  BY <1>4 DEF EntryType
<1>6. e.name # NoName => nm # NoName
  BY <1>4, NoNameAssumption
<1>7. Linked(ds) = {} => nm = e.name
  OBVIOUS
<1> HIDE DEF nm, dd
<1>8. /\ [e EXCEPT !.decs = dd, !.name = nm] \in EntryType
      /\ [e EXCEPT !.decs = dd, !.name = nm].kind = e.kind
      /\ [e EXCEPT !.decs = dd, !.name = nm].modes = e.modes
      /\ [e EXCEPT !.decs = dd, !.name = nm].decs = dd
      /\ [e EXCEPT !.decs = dd, !.name = nm].name = nm
  BY <1>3, <1>5 DEF EntryType
<1>9. dd = e.decs \cup ToSet(ds)
  BY DEF dd
<1>. QED
  BY <1>1, <1>6, <1>7, <1>8, <1>9

LEMMA DecoratedOnce ==
  ASSUME NEW e \in EntryType, NEW x \in Of(Decorations)
  PROVE  /\ <<x>> \in Seq(Of(Decorations)) /\ ToSet(<<x>>) = {x}
         /\ Decorated(e, <<x>>).name = IF x.op = "Linkage" THEN x.ann ELSE e.name
<1> DEFINE ds == <<x>>
<1>1. ds \in Seq(Of(Decorations)) /\ Len(ds) = 1 /\ ds[1] = x
  OBVIOUS
<1>2. ToSet(ds) = {x}
  <2>1. DOMAIN ds = {1}
    OBVIOUS
  <2> HIDE DEF ds
  <2>. QED
    BY <1>1, <2>1 DEF ToSet
<1>3. Linked(ds) = IF x.op = "Linkage" THEN {1} ELSE {}
  BY <1>1 DEF Linked
<1> HIDE DEF ds
<1>4. x.op # "Linkage" => Decorated(e, ds).name = e.name
  BY <1>1, <1>3, DecoratedFacts
<1>5. ASSUME x.op = "Linkage" PROVE Decorated(e, ds).name = x.ann
  <2>1. Linked(ds) = {1} /\ Linked(ds) \in SUBSET (1 .. 1) /\ Linked(ds) # {}
    BY <1>3, <1>5
  <2>2. Max(Linked(ds)) = 1
    <3>1. Max(Linked(ds)) \in Linked(ds)
      BY <2>1, GreatestBelow
    <3>. QED
      BY <2>1, <3>1
  <2> DEFINE nm == IF Linked(ds) = {} THEN e.name ELSE ds[Max(Linked(ds))].ann
             dd == e.decs \cup ToSet(ds)
  <2>3. Decorated(e, ds) = [e EXCEPT !.decs = dd, !.name = nm]
    BY DEF Decorated, Linked
  <2>4. nm = x.ann
    BY <1>1, <2>1, <2>2
  <2> HIDE DEF nm, dd
  <2>5. [e EXCEPT !.decs = dd, !.name = nm].name = nm
    BY DEF EntryType
  <2>. QED
    BY <2>3, <2>4, <2>5
<1>6. Decorated(e, ds).name = IF x.op = "Linkage" THEN x.ann ELSE e.name
  BY <1>4, <1>5
<1>. QED
  BY <1>1, <1>2, <1>6, Zenon DEF ds

LEMMA DefinedFacts ==
  ASSUME NEW e \in EntryType, NEW kind \in {"group", "function", "other"}
  PROVE  /\ Defined(e, kind) \in EntryType
         /\ Defined(e, kind).kind = kind
         /\ Defined(e, kind).name = e.name
         /\ Defined(e, kind).decs = e.decs
         /\ Defined(e, kind).modes = IF kind = "function" THEN e.modes ELSE {}
BY DEF Defined, EntryType, EntryKinds

LEMMA NamedFacts ==
  ASSUME NEW e \in EntryType, NEW a \in Anns \cup {NoName}
  PROVE  /\ [e EXCEPT !.name = a] \in EntryType
         /\ [e EXCEPT !.name = a].name = a
         /\ [e EXCEPT !.name = a].kind = e.kind
         /\ [e EXCEPT !.name = a].decs = e.decs
         /\ [e EXCEPT !.name = a].modes = e.modes
BY DEF EntryType

LEMMA ModeFacts ==
  ASSUME NEW e \in EntryType, NEW a \in Anns
  PROVE  /\ [e EXCEPT !.modes = @ \cup {a}] \in EntryType
         /\ [e EXCEPT !.modes = @ \cup {a}].name = e.name
         /\ [e EXCEPT !.modes = @ \cup {a}].kind = e.kind
         /\ [e EXCEPT !.modes = @ \cup {a}].decs = e.decs
         /\ [e EXCEPT !.modes = @ \cup {a}].modes = e.modes \cup {a}
BY DEF EntryType

-----------------------------------------------------------------------------
(* Every step keeps the tables well-typed.                                 *)

LEMMA EntriesSet ==
  ASSUME Entries, NEW i \in Ids, NEW e \in EntryType, e.kind # "none", IsFiniteSet(e.modes),
         IdEntryMap' = [IdEntryMap EXCEPT ![i] = e],
         NamedId' \in {NamedId, NamedId \cup {i}, NamedId \ {i}},
         i \in NamedId' => e.name # NoName
  PROVE  Entries'
<1>1. IdEntryMap' \in [Ids -> EntryType] /\ IdEntryMap'[i] = e
       /\ \A j \in Ids : j # i => IdEntryMap'[j] = IdEntryMap[j]
  BY DEF Entries
<1>2. NamedId' \subseteq Ids /\ \A j \in NamedId' : j # i => j \in NamedId
  BY DEF Entries
<1>3. IsFiniteSet(NamedId')
  BY FS_AddElement, FS_RemoveElement DEF Entries
<1>4. \A j \in Ids : IsFiniteSet(IdEntryMap'[j].modes)
  BY <1>1 DEF Entries
<1>5. \A j \in Ids : IdEntryMap'[j].kind = "none" => IdEntryMap'[j] = Absent
  BY <1>1 DEF Entries
<1>6. \A j \in NamedId' : IdEntryMap'[j].name # NoName
  BY <1>1, <1>2 DEF Entries
<1>7. Absent' = Absent /\ EntryType' = EntryType
  BY DEF Absent, EntryType, EntryKinds, InstType, Ops, Decorations, Definitions
<1>. QED
  BY <1>1, <1>2, <1>3, <1>4, <1>5, <1>6, <1>7 DEF Entries

LEMMA ReadingNext ==
  ASSUME Reading, pos \in 1 .. Len(input), Advance
  PROVE  Reading' /\ pos' = pos + 1 /\ input' = input
BY DEF Reading, Advance, Annotated, EntryType, EntryKinds, InstType, Ops, Decorations, Definitions

LEMMA NamedStep ==
  ASSUME TableInv, At({"Name", "EntryPoint"}), SetName
  PROVE  /\ Entries'
         /\ IdEntryMap[Inst.id].kind \in {"none", "forward"} /\ IdEntryMap'[Inst.id].kind = "forward"
         /\ IdEntryMap'[Inst.id].name = Inst.ann /\ Inst.ann \in Anns
         /\ IdEntryMap'[Inst.id].decs = IdEntryMap[Inst.id].decs
         /\ IdEntryMap'[Inst.id].modes = IdEntryMap[Inst.id].modes
         /\ \A j \in Ids : j # Inst.id => IdEntryMap'[j] = IdEntryMap[j]
         /\ NamedId' = NamedId \cup {Inst.id}
<1> DEFINE i == Inst.id
           a == Inst.ann
           e == [GetOrCreate(i) EXCEPT !.name = a]
<1>1. i \in Ids /\ a \in Anns
  <2>1. Inst \in Annotated /\ i \in Ids /\ Inst.op \in {"Name", "EntryPoint"}
    BY InstFacts DEF TableInv
  <2>. QED
    BY <2>1 DEF Annotated, Definitions
<1>2. IdEntryMap' = [IdEntryMap EXCEPT ![i] = e] /\ NamedId' = NamedId \cup {i}
      /\ IdEntryMap[i].kind \in {"none", "forward"}
  BY DEF SetName, OnForward
<1> HIDE DEF i, a
<1>3. GetOrCreate(i) \in EntryType /\ GetOrCreate(i).kind = "forward"
      /\ GetOrCreate(i).modes = IdEntryMap[i].modes /\ GetOrCreate(i).decs = IdEntryMap[i].decs
  BY <1>1, <1>2, Created DEF TableInv
<1>4. e \in EntryType /\ e.kind = "forward" /\ e.name = a /\ e.modes = IdEntryMap[i].modes
      /\ e.decs = IdEntryMap[i].decs
  BY <1>1, <1>3, NamedFacts
<1> HIDE DEF e
<1>5. IsFiniteSet(e.modes) /\ e.name # NoName
  BY <1>1, <1>4, NoNameAssumption DEF TableInv, Entries
<1>6. Entries'
  BY <1>1, <1>2, <1>4, <1>5, EntriesSet DEF TableInv
<1>7. IdEntryMap'[i] = e /\ \A j \in Ids : j # i => IdEntryMap'[j] = IdEntryMap[j]
  BY <1>1, <1>2 DEF TableInv, Entries
<1>. QED
  BY <1>1, <1>2, <1>4, <1>6, <1>7 DEF i, a

LEMMA ModeStep ==
  ASSUME TableInv, DecodeExecutionMode
  PROVE  /\ Entries'
         /\ IdEntryMap[Inst.id].kind \in {"none", "forward"} /\ IdEntryMap'[Inst.id].kind = "forward"
         /\ IdEntryMap'[Inst.id].name = IdEntryMap[Inst.id].name
         /\ IdEntryMap'[Inst.id].decs = IdEntryMap[Inst.id].decs
         /\ IdEntryMap'[Inst.id].modes = IdEntryMap[Inst.id].modes \cup {Inst.ann}
         /\ \A j \in Ids : j # Inst.id => IdEntryMap'[j] = IdEntryMap[j]
<1> DEFINE i == Inst.id
           a == Inst.ann
           e == [GetOrCreate(i) EXCEPT !.modes = @ \cup {a}]
<1>1. i \in Ids /\ a \in Anns
  <2>1. Inst \in Annotated /\ i \in Ids /\ Inst.op \in {"Mode"}
    BY InstFacts DEF TableInv, DecodeExecutionMode
  <2>. QED
    BY <2>1 DEF Annotated, Definitions
<1>2. IdEntryMap' = [IdEntryMap EXCEPT ![i] = e] /\ NamedId' = NamedId
      /\ IdEntryMap[i].kind \in {"none", "forward"}
  BY DEF DecodeExecutionMode, OnForward
<1> HIDE DEF i, a
<1>3. GetOrCreate(i) \in EntryType /\ GetOrCreate(i).kind = "forward"
      /\ GetOrCreate(i).name = IdEntryMap[i].name
      /\ GetOrCreate(i).modes = IdEntryMap[i].modes /\ GetOrCreate(i).decs = IdEntryMap[i].decs
  BY <1>1, <1>2, Created DEF TableInv
<1>4. e \in EntryType /\ e.kind = "forward" /\ e.name = IdEntryMap[i].name
      /\ e.modes = IdEntryMap[i].modes \cup {a} /\ e.decs = IdEntryMap[i].decs
  BY <1>1, <1>3, ModeFacts
<1> HIDE DEF e
<1>5. IsFiniteSet(IdEntryMap[i].modes) /\ (i \in NamedId => e.name # NoName)
  BY <1>1, <1>4 DEF TableInv, Entries
<1>6. IsFiniteSet(e.modes)
  BY <1>4, <1>5, FS_AddElement
<1>7. Entries'
  BY <1>1, <1>2, <1>4, <1>5, <1>6, EntriesSet DEF TableInv
<1>8. IdEntryMap'[i] = e /\ \A j \in Ids : j # i => IdEntryMap'[j] = IdEntryMap[j]
  BY <1>1, <1>2 DEF TableInv, Entries
<1>. QED
  BY <1>2, <1>4, <1>7, <1>8 DEF i, a

LEMMA DecorateStep ==
  ASSUME TableInv, DecodeDecorate
  PROVE  /\ Entries'
         /\ IdEntryMap[Inst.id].kind \in {"none", "forward"} /\ IdEntryMap'[Inst.id].kind = "forward"
         /\ IdEntryMap'[Inst.id].name = IF Inst.op = "Linkage" THEN Inst.ann
                                        ELSE IdEntryMap[Inst.id].name
         /\ IdEntryMap'[Inst.id].decs = IdEntryMap[Inst.id].decs \cup {Inst}
         /\ IdEntryMap'[Inst.id].modes = IdEntryMap[Inst.id].modes
         /\ \A j \in Ids : j # Inst.id => IdEntryMap'[j] = IdEntryMap[j]
<1> DEFINE i == Inst.id
           x == Inst
           g == GetOrCreate(i)
           e == Decorated(g, <<x>>)
<1>1. i \in Ids /\ x \in Of(Decorations)
  BY InstFacts DEF TableInv, DecodeDecorate
<1>2. IdEntryMap' = [IdEntryMap EXCEPT ![i] = e] /\ NamedId' = NamedId
      /\ IdEntryMap[i].kind \in {"none", "forward"}
  BY DEF DecodeDecorate, OnForward
<1> HIDE DEF i, x
<1>3. g \in EntryType /\ g.kind = "forward" /\ g.name = IdEntryMap[i].name
      /\ g.modes = IdEntryMap[i].modes /\ g.decs = IdEntryMap[i].decs
  BY <1>1, <1>2, Created DEF TableInv
<1> HIDE DEF g
<1>4. /\ <<x>> \in Seq(Of(Decorations)) /\ ToSet(<<x>>) = {x}
      /\ e.name = IF x.op = "Linkage" THEN x.ann ELSE g.name
  BY <1>1, <1>3, DecoratedOnce
<1> DEFINE ds == <<x>>
<1>5. e = Decorated(g, ds) /\ ds \in Seq(Of(Decorations)) /\ ToSet(ds) = {x}
  BY <1>4
<1> HIDE DEF e, ds
<1>6. /\ e \in EntryType /\ e.kind = "forward" /\ e.modes = IdEntryMap[i].modes
      /\ e.decs = IdEntryMap[i].decs \cup {x}
      /\ g.name # NoName => e.name # NoName
  BY <1>3, <1>5, DecoratedFacts
<1>7. IsFiniteSet(e.modes) /\ (i \in NamedId => e.name # NoName)
  BY <1>1, <1>3, <1>6 DEF TableInv, Entries
<1>8. Entries'
  BY <1>1, <1>2, <1>6, <1>7, EntriesSet DEF TableInv
<1>9. IdEntryMap'[i] = e /\ \A j \in Ids : j # i => IdEntryMap'[j] = IdEntryMap[j]
  BY <1>1, <1>2 DEF TableInv, Entries
<1>. QED
  BY <1>2, <1>3, <1>4, <1>6, <1>8, <1>9 DEF i, x

LEMMA DefineStep ==
  ASSUME TableInv, NEW kind \in {"group", "function", "other"}, NEW ops, At(ops), Define(kind)
  PROVE  /\ Entries'
         /\ IdEntryMap[Inst.id].kind \in {"none", "forward"}
         /\ IdEntryMap'[Inst.id].kind = kind
         /\ IdEntryMap'[Inst.id].name = IdEntryMap[Inst.id].name
         /\ IdEntryMap'[Inst.id].decs = IdEntryMap[Inst.id].decs
         /\ IdEntryMap'[Inst.id].modes = IF kind = "function" THEN IdEntryMap[Inst.id].modes ELSE {}
         /\ \A j \in Ids : j # Inst.id => IdEntryMap'[j] = IdEntryMap[j]
         /\ \A j \in Ids : j # Inst.id => (j \in NamedId' <=> j \in NamedId)
         /\ Inst.id \in NamedId' <=> IdEntryMap[Inst.id].name # NoName
<1> DEFINE i == Inst.id
           e == Defined(IdEntryMap[i], kind)
           old == IdEntryMap[i]
<1>1. i \in Ids
  BY InstFacts DEF TableInv
<1>2. /\ IdEntryMap' = [IdEntryMap EXCEPT ![i] = e]
      /\ IdEntryMap[i].kind \in {"none", "forward"}
      /\ NamedId' = CASE IdEntryMap[i].kind # "forward" -> NamedId
                      [] IdEntryMap[i].kind = "forward" /\ IdEntryMap[i].name = NoName
                           -> NamedId \ {i}
                      [] OTHER -> NamedId \cup {i}
  BY DEF Define, TakeName
<1> HIDE DEF i
<1>3. old \in EntryType /\ IsFiniteSet(old.modes) /\ (old.kind = "none" => old.name = NoName)
      /\ (i \in NamedId => old.name # NoName)
  BY <1>1 DEF TableInv, Entries, Absent
<1>4. /\ e \in EntryType /\ e.kind = kind /\ e.name = old.name /\ e.decs = old.decs
      /\ e.modes = IF kind = "function" THEN old.modes ELSE {}
  BY <1>3, DefinedFacts
<1>5. IsFiniteSet(e.modes)
  BY <1>3, <1>4, FS_EmptySet
<1> HIDE DEF e, old
<1>6. /\ NamedId' \in {NamedId, NamedId \cup {i}, NamedId \ {i}}
      /\ i \in NamedId' <=> old.name # NoName
  BY <1>2, <1>3 DEF old
<1>7. Entries'
  BY <1>1, <1>2, <1>4, <1>5, <1>6, EntriesSet DEF TableInv
<1>8. IdEntryMap'[i] = e /\ \A j \in Ids : j # i => IdEntryMap'[j] = IdEntryMap[j]
  BY <1>1, <1>2 DEF TableInv, Entries
<1>. QED
  BY <1>2, <1>4, <1>6, <1>7, <1>8 DEF i, old

\* The group an OpGroupDecorate names has an entry in DecGroupVec.
GroupsKnown ==
  \A i \in Ids : IdEntryMap[i].kind = "group" =>
    \E k \in 1 .. Len(DecGroupVec) : DecGroupVec[k].group.id = i

LEMMA GroupOwns ==
  ASSUME TableInv, GroupsKnown, NEW i \in Ids, IdEntryMap[i].kind = "group"
  PROVE  \E k \in 1 .. Len(DecGroupVec) : /\ DecGroupVec[k] \in Owned
                                          /\ DecGroupVec[k].group.id = i
                                          /\ GroupDecorations(i) = DecGroupVec[k].decs
                                          /\ GroupDecorations(i) \in Seq(Of(Decorations))
<1> DEFINE k == CHOOSE k \in 1 .. Len(DecGroupVec) : DecGroupVec[k].group.id = i
<1>1. k \in 1 .. Len(DecGroupVec) /\ DecGroupVec[k].group.id = i
  BY DEF GroupsKnown
<1>2. GroupDecorations(i) = DecGroupVec[k].decs
  BY DEF GroupDecorations
<1> HIDE DEF k
<1>3. DecGroupVec[k] \in Owned
  BY <1>1 DEF TableInv, Vectors
<1>4. DecGroupVec[k].decs \in Seq(Of(Decorations))
  BY <1>3 DEF Owned
<1>. QED
  BY <1>1, <1>2, <1>3, <1>4

LEMMA GroupDecorateStep ==
  ASSUME TableInv, GroupsKnown, DecodeGroupDecorate
  PROVE  /\ Entries' /\ IdEntryMap[Inst.id].kind = "group"
         /\ GroupDecorations(Inst.id) \in Seq(Of(Decorations))
         /\ \A j \in Ids \ Inst.targets : IdEntryMap'[j] = IdEntryMap[j]
         /\ \A j \in Inst.targets :
              /\ IdEntryMap'[j].kind = IF IdEntryMap[j].kind = "none" THEN "forward"
                                       ELSE IdEntryMap[j].kind
              /\ IdEntryMap'[j].decs = IdEntryMap[j].decs \cup ToSet(GroupDecorations(Inst.id))
              /\ IdEntryMap'[j].modes = IdEntryMap[j].modes
              /\ Linked(GroupDecorations(Inst.id)) = {} =>
                   IdEntryMap'[j].name = IdEntryMap[j].name
              /\ IdEntryMap[j].name # NoName => IdEntryMap'[j].name # NoName
<1> DEFINE i == Inst.id
           ts == Inst.targets
           ds == GroupDecorations(i)
<1>1. i \in Ids /\ ts \subseteq Ids
  BY InstFacts DEF TableInv, DecodeGroupDecorate
<1>2. /\ IdEntryMap[i].kind = "group" /\ NamedId' = NamedId
      /\ IdEntryMap' = [j \in Ids |-> IF j \in ts THEN Decorated(GetOrCreate(j), ds)
                                      ELSE IdEntryMap[j]]
  BY DEF DecodeGroupDecorate
<1> HIDE DEF i, ts
<1>3. ds \in Seq(Of(Decorations))
  BY <1>1, <1>2, GroupOwns
<1> HIDE DEF ds
<1>4. ASSUME NEW j \in ts
      PROVE  /\ IdEntryMap'[j] \in EntryType
             /\ IdEntryMap'[j].kind = IF IdEntryMap[j].kind = "none" THEN "forward"
                                      ELSE IdEntryMap[j].kind
             /\ IdEntryMap'[j].kind # "none"
             /\ IdEntryMap'[j].modes = IdEntryMap[j].modes
             /\ IdEntryMap'[j].decs = IdEntryMap[j].decs \cup ToSet(ds)
             /\ Linked(ds) = {} => IdEntryMap'[j].name = IdEntryMap[j].name
             /\ IdEntryMap[j].name # NoName => IdEntryMap'[j].name # NoName
  <2> DEFINE g == GetOrCreate(j)
             e == Decorated(g, ds)
  <2>1. j \in Ids
    BY <1>1, <1>4
  <2>2. IdEntryMap'[j] = e
    BY <1>2, <1>4, <2>1
  <2>3. /\ g \in EntryType /\ g.name = IdEntryMap[j].name
        /\ g.modes = IdEntryMap[j].modes /\ g.decs = IdEntryMap[j].decs
        /\ g.kind = IF IdEntryMap[j].kind = "none" THEN "forward" ELSE IdEntryMap[j].kind
    BY <2>1, Created DEF TableInv
  <2> HIDE DEF g
  <2>4. /\ e \in EntryType /\ e.kind = g.kind /\ e.modes = g.modes
        /\ e.decs = g.decs \cup ToSet(ds)
        /\ Linked(ds) = {} => e.name = g.name
        /\ g.name # NoName => e.name # NoName
    BY <1>3, <2>3, DecoratedFacts
  <2> HIDE DEF e
  <2>. QED
    BY <2>2, <2>3, <2>4
<1>5. \A j \in Ids \ ts : IdEntryMap'[j] = IdEntryMap[j]
  BY <1>2
<1>6. Entries'
  <2>1. IdEntryMap' \in [Ids -> EntryType]
    <3>1. \A j \in Ids : IdEntryMap'[j] \in EntryType
      BY <1>4, <1>5 DEF TableInv, Entries
    <3>2. IdEntryMap' = [j \in Ids |-> IdEntryMap'[j]]
      BY <1>2
    <3>. QED
      BY <3>1, <3>2
  <2>2. \A j \in Ids : IsFiniteSet(IdEntryMap'[j].modes)
    BY <1>4, <1>5 DEF TableInv, Entries
  <2>3. \A j \in Ids : IdEntryMap'[j].kind = "none" => IdEntryMap'[j] = Absent
    BY <1>4, <1>5 DEF TableInv, Entries
  <2>4. \A j \in NamedId' : IdEntryMap'[j].name # NoName
    BY <1>2, <1>4, <1>5 DEF TableInv, Entries
  <2>5. Absent' = Absent /\ EntryType' = EntryType
    BY DEF Absent, EntryType, EntryKinds, InstType, Ops, Decorations, Definitions
  <2>. QED
    BY <1>2, <2>1, <2>2, <2>3, <2>4, <2>5 DEF TableInv, Entries
<1>. QED
  BY <1>2, <1>3, <1>4, <1>5, <1>6 DEF i, ts, ds

-----------------------------------------------------------------------------
(* What the first n instructions of a module say about an id.              *)

DirectTo(m, n, i) == {m[k] : k \in {l \in 1 .. n : m[l].op \in Decorations /\ m[l].id = i}}
AppliedTo(m, n, i) ==
  {m[k].id : k \in {l \in 1 .. n : m[l].op = "GroupDecorate" /\ i \in m[l].targets}}
DeclaredTo(m, n, i) == DirectTo(m, n, i) \cup UNION {DirectTo(m, n, g) : g \in AppliedTo(m, n, i)}
NamingTo(m, n, i) ==
  {k \in 1 .. n : m[k].op \in {"Name", "EntryPoint", "Linkage"} /\ m[k].id = i}

\* Linkage is for symbols: no decoration group has one.
LinkageOnSymbols(m) ==
  \A i, j \in 1 .. Len(m) : m[i].op = "Linkage" /\ m[j].op = "Group" => m[i].id # m[j].id

\* Groups are known: those applied, those in DecGroupVec and the entries agree.
Known(m, n, E, gv) ==
  /\ \A k \in 1 .. n : m[k].op = "GroupDecorate" => E[m[k].id].kind = "group"
  /\ \A k \in 1 .. Len(gv) : /\ E[gv[k].group.id].kind = "group"
                             /\ \E l \in 1 .. n : m[l] = gv[k].group
  /\ \A i \in Ids : E[i].kind = "group" => \E k \in 1 .. Len(gv) : gv[k].group.id = i

\* DecorateVec has decorations behind the last group.
Pending(m, n, dv) ==
  \A q \in 1 .. Len(dv) : \E k \in 1 .. n : m[k] = dv[q] /\ \A l \in k .. n : m[l].op # "Group"

\* A group owns what is declared of it, and entries have what they should.
Own(m, n, E, dv, gv) ==
  /\ \A k \in 1 .. n : m[k].op \in Decorations =>
       E[m[k].id].kind = "group" \/ \E q \in 1 .. Len(dv) : dv[q] = m[k]
  /\ \A k \in 1 .. Len(gv) : ToSet(gv[k].decs) = DirectTo(m, n, gv[k].group.id)
  /\ \A i \in Ids : E[i].decs = DeclaredTo(m, n, i)

NameRead(m, n, E, named, i) ==
  /\ NamingTo(m, n, i) = {} => E[i].name = NoName
  /\ NamingTo(m, n, i) # {} =>
       \E k \in NamingTo(m, n, i) : E[i].name = m[k].ann /\ \A j \in NamingTo(m, n, i) : j <= k
  /\ NamingTo(m, n, i) # {} /\ E[i].kind \notin {"none", "forward"} => i \in named

NamesRead(m, n, E, named) == \A i \in Ids : NameRead(m, n, E, named, i)

ArriveInv ==
  /\ Known(input, pos - 1, IdEntryMap, DecGroupVec)
  /\ Pending(input, pos - 1, DecorateVec)
  /\ OwnGroups(input) => Own(input, pos - 1, IdEntryMap, DecorateVec, DecGroupVec)
  /\ OwnGroups(input) /\ LinkageOnSymbols(input) => NamesRead(input, pos - 1, IdEntryMap, NamedId)

\* Every decoration read is in a group or in DecorateVec, once.
CountInv ==
  \A d \in Of(Decorations) :
    Occurrences(WrittenGroups, d) + Occurrences(DecorateVec, d)
      = Cardinality({k \in 1 .. (pos - 1) : input[k] = d})

-----------------------------------------------------------------------------
(* Reading one more instruction, x.                                        *)

Grown(m, n, q, x) ==
  /\ \A i : x.op \in Decorations /\ x.id = i => DirectTo(m, q, i) = DirectTo(m, n, i) \cup {x}
  /\ \A i : ~(x.op \in Decorations /\ x.id = i) => DirectTo(m, q, i) = DirectTo(m, n, i)
  /\ \A i : x.op = "GroupDecorate" /\ i \in x.targets =>
              AppliedTo(m, q, i) = AppliedTo(m, n, i) \cup {x.id}
  /\ \A i : ~(x.op = "GroupDecorate" /\ i \in x.targets) =>
              AppliedTo(m, q, i) = AppliedTo(m, n, i)
  /\ \A i : x.op \in {"Name", "EntryPoint", "Linkage"} /\ x.id = i =>
              NamingTo(m, q, i) = NamingTo(m, n, i) \cup {q}
  /\ \A i : ~(x.op \in {"Name", "EntryPoint", "Linkage"} /\ x.id = i) =>
              NamingTo(m, q, i) = NamingTo(m, n, i)

LEMMA OneMore ==
  ASSUME NEW m, NEW n \in Nat, NEW q, q = n + 1, NEW x, m[q] = x
  PROVE  Grown(m, n, q, x)
<1>1. 1 .. q = (1 .. n) \cup {q}
  OBVIOUS
<1>2. ASSUME NEW i
      PROVE  /\ x.op \in Decorations /\ x.id = i => DirectTo(m, q, i) = DirectTo(m, n, i) \cup {x}
             /\ ~(x.op \in Decorations /\ x.id = i) => DirectTo(m, q, i) = DirectTo(m, n, i)
  BY <1>1 DEF DirectTo
<1>3. ASSUME NEW i
      PROVE  /\ x.op = "GroupDecorate" /\ i \in x.targets =>
                  AppliedTo(m, q, i) = AppliedTo(m, n, i) \cup {x.id}
             /\ ~(x.op = "GroupDecorate" /\ i \in x.targets) =>
                  AppliedTo(m, q, i) = AppliedTo(m, n, i)
  BY <1>1 DEF AppliedTo
<1>4. ASSUME NEW i
      PROVE  /\ x.op \in {"Name", "EntryPoint", "Linkage"} /\ x.id = i =>
                  NamingTo(m, q, i) = NamingTo(m, n, i) \cup {q}
             /\ ~(x.op \in {"Name", "EntryPoint", "Linkage"} /\ x.id = i) =>
                  NamingTo(m, q, i) = NamingTo(m, n, i)
  BY <1>1 DEF NamingTo
<1>. QED
  BY <1>2, <1>3, <1>4, Zenon DEF Grown

\* The same groups before and after.
SameGroups(E, F) == \A i \in Ids : F[i].kind = "group" <=> E[i].kind = "group"

LEMMA KnownMore ==
  ASSUME NEW m \in Seq(Annotated), NEW n \in Nat, n < Len(m), NEW E, NEW F, NEW gv \in Seq(Owned),
         Known(m, n, E, gv), SameGroups(E, F),
         m[n + 1].op = "GroupDecorate" => E[m[n + 1].id].kind = "group"
  PROVE  Known(m, n + 1, F, gv)
<1> DEFINE q == n + 1
<1>1. q \in 1 .. Len(m) /\ 1 .. q = (1 .. n) \cup {q} /\ 1 .. n \subseteq 1 .. Len(m)
  OBVIOUS
<1>2. m[q].op = "GroupDecorate" => E[m[q].id].kind = "group"
  OBVIOUS
<1> HIDE DEF q
<1>3. \A k \in 1 .. Len(m) : m[k].id \in Ids
  BY DEF Annotated, InstType
<1>4. \A k \in 1 .. Len(gv) : gv[k].group.id \in Ids
  <2>1. \A o \in Owned : o.group.id \in Ids
    BY DEF Owned, Of, Annotated, InstType
  <2>. QED
    BY <2>1
<1>5. ASSUME NEW k \in 1 .. q, m[k].op = "GroupDecorate" PROVE F[m[k].id].kind = "group"
  BY <1>1, <1>2, <1>3, <1>5 DEF Known, SameGroups
<1>6. ASSUME NEW k \in 1 .. Len(gv)
      PROVE  F[gv[k].group.id].kind = "group" /\ \E l \in 1 .. q : m[l] = gv[k].group
  BY <1>1, <1>4 DEF Known, SameGroups
<1>7. ASSUME NEW i \in Ids, F[i].kind = "group" PROVE \E k \in 1 .. Len(gv) : gv[k].group.id = i
  BY <1>7 DEF Known, SameGroups
<1>. QED
  BY <1>5, <1>6, <1>7 DEF Known, q

LEMMA PendingMore ==
  ASSUME NEW m, NEW n \in Nat, NEW dv, Pending(m, n, dv), m[n + 1].op # "Group"
  PROVE  Pending(m, n + 1, dv)
<1> DEFINE q == n + 1
<1>1. 1 .. q = (1 .. n) \cup {q} /\ m[q].op # "Group" /\ \A k \in 1 .. n : k .. q = (k .. n) \cup {q}
  OBVIOUS
<1> HIDE DEF q
<1>2. Pending(m, q, dv)
  BY <1>1 DEF Pending
<1>. QED
  BY <1>2 DEF q

\* An instruction that is no decoration, group or use of a group.
LEMMA OwnPlain ==
  ASSUME NEW m \in Seq(Annotated), NEW n \in Nat, n < Len(m), NEW E, NEW F,
         NEW dv, NEW gv \in Seq(Owned),
         m[n + 1].op \notin Decorations \cup {"GroupDecorate"},
         Own(m, n, E, dv, gv), SameGroups(E, F), \A i \in Ids : F[i].decs = E[i].decs
  PROVE  Own(m, n + 1, F, dv, gv)
<1> DEFINE q == n + 1
           x == m[q]
<1>0. q = n + 1 /\ m[q] = x
  OBVIOUS
<1>1. q \in 1 .. Len(m) /\ 1 .. q = (1 .. n) \cup {q} /\ 1 .. n \subseteq 1 .. Len(m)
  OBVIOUS
<1>2. x.op \notin Decorations /\ x.op # "GroupDecorate"
  OBVIOUS
<1>3. /\ \A i : DirectTo(m, q, i) = DirectTo(m, n, i)
      /\ \A i : AppliedTo(m, q, i) = AppliedTo(m, n, i)
  <2> HIDE DEF q, x
  <2>1. Grown(m, n, q, x)
    BY <1>0, OneMore
  <2>. QED
    BY <1>2, <2>1 DEF Grown
<1>4. \A k \in 1 .. Len(m) : m[k].id \in Ids
  BY DEF Annotated, InstType
<1> HIDE DEF q
<1>5. \A i : DeclaredTo(m, q, i) = DeclaredTo(m, n, i)
  BY <1>3 DEF DeclaredTo
<1>6. \A k \in 1 .. q : m[k].op \in Decorations =>
        F[m[k].id].kind = "group" \/ \E j \in 1 .. Len(dv) : dv[j] = m[k]
  BY <1>1, <1>2, <1>4 DEF Own, SameGroups
<1>7. \A k \in 1 .. Len(gv) : ToSet(gv[k].decs) = DirectTo(m, q, gv[k].group.id)
  BY <1>3 DEF Own
<1>8. \A i \in Ids : F[i].decs = DeclaredTo(m, q, i)
  BY <1>5 DEF Own
<1>. QED
  BY <1>6, <1>7, <1>8 DEF Own, q

\* addDecorate on an entry that is no group yet.
LEMMA OwnDecorate ==
  ASSUME NEW m \in Seq(Annotated), NEW n \in Nat, n < Len(m), NEW E, NEW F,
         NEW dv \in Seq(Of(Decorations)), NEW gv \in Seq(Owned), NEW x, x = m[n + 1],
         x.op \in Decorations, E[x.id].kind # "group",
         Known(m, n, E, gv), Own(m, n, E, dv, gv), SameGroups(E, F),
         F[x.id].decs = E[x.id].decs \cup {x},
         \A i \in Ids : i # x.id => F[i].decs = E[i].decs
  PROVE  Own(m, n + 1, F, Append(dv, x), gv)
<1> DEFINE q == n + 1
           dw == Append(dv, x)
<1>0. q = n + 1 /\ m[q] = x
  OBVIOUS
<1>1. q \in 1 .. Len(m) /\ 1 .. q = (1 .. n) \cup {q} /\ 1 .. n \subseteq 1 .. Len(m)
  OBVIOUS
<1>2. x \in Of(Decorations) /\ x.op # "GroupDecorate" /\ x.id \in Ids
  <2>1. x \in Annotated
    BY <1>1
  <2>. QED
    BY <2>1 DEF Of, Annotated, InstType, Decorations
<1>3. /\ DirectTo(m, q, x.id) = DirectTo(m, n, x.id) \cup {x}
      /\ \A i : x.id # i => DirectTo(m, q, i) = DirectTo(m, n, i)
      /\ \A i : AppliedTo(m, q, i) = AppliedTo(m, n, i)
  <2> HIDE DEF q
  <2>1. Grown(m, n, q, x)
    BY <1>0, OneMore
  <2>. QED
    BY <1>2, <2>1 DEF Grown
<1>4. m[q] = x /\ \A k \in 1 .. Len(m) : m[k].id \in Ids
  BY DEF Annotated, InstType
<1>5. /\ \A j \in 1 .. Len(dv) : j \in 1 .. Len(dw) /\ dw[j] = dv[j]
      /\ \E j \in 1 .. Len(dw) : dw[j] = x
  <2>1. /\ Len(dv) \in Nat /\ Len(dw) = Len(dv) + 1 /\ dw[Len(dv) + 1] = x
        /\ \A j \in 1 .. Len(dv) : dw[j] = dv[j]
    BY <1>2, AppendProperties
  <2> HIDE DEF dw
  <2>. QED
    BY <2>1
<1> HIDE DEF q, dw
<1>6. \A k \in 1 .. q : m[k].op \in Decorations =>
        F[m[k].id].kind = "group" \/ \E j \in 1 .. Len(dw) : dw[j] = m[k]
  <2>1. ASSUME NEW k \in 1 .. n, m[k].op \in Decorations, E[m[k].id].kind # "group"
        PROVE  \E j \in 1 .. Len(dw) : dw[j] = m[k]
    <3>1. PICK j \in 1 .. Len(dv) : dv[j] = m[k]
      BY <2>1 DEF Own
    <3>. QED
      BY <1>5, <3>1
  <2>2. \A k \in 1 .. n : m[k].id \in Ids
    BY <1>1, <1>4
  <2>. QED
    BY <1>1, <1>4, <1>5, <2>1, <2>2 DEF SameGroups
<1>7. \A k \in 1 .. Len(gv) : ToSet(gv[k].decs) = DirectTo(m, q, gv[k].group.id)
  <2>1. \A k \in 1 .. Len(gv) : gv[k].group.id # x.id
    BY DEF Known
  <2>2. \A k \in 1 .. Len(gv) : ToSet(gv[k].decs) = DirectTo(m, n, gv[k].group.id)
    BY DEF Own
  <2>. QED
    BY <1>3, <2>1, <2>2
<1>8. ASSUME NEW i \in Ids
      PROVE  /\ x.id = i => DeclaredTo(m, q, i) = DeclaredTo(m, n, i) \cup {x}
             /\ x.id # i => DeclaredTo(m, q, i) = DeclaredTo(m, n, i)
  <2>1. ASSUME NEW g \in AppliedTo(m, n, i) PROVE DirectTo(m, q, g) = DirectTo(m, n, g)
    <3>1. PICK k \in 1 .. n : m[k].op = "GroupDecorate" /\ m[k].id = g
      BY DEF AppliedTo
    <3>2. E[g].kind = "group"
      BY <3>1 DEF Known
    <3>. QED
      BY <1>3, <3>2
  <2>2. {DirectTo(m, q, g) : g \in AppliedTo(m, q, i)} = {DirectTo(m, n, g) : g \in AppliedTo(m, n, i)}
    BY <1>3, <2>1
  <2>. QED
    BY <1>3, <2>2 DEF DeclaredTo
<1>9. \A i \in Ids : F[i].decs = DeclaredTo(m, q, i)
  <2>1. \A i \in Ids : E[i].decs = DeclaredTo(m, n, i)
    BY DEF Own
  <2>. QED
    BY <1>2, <1>8, <2>1
<1>. QED
  BY <1>6, <1>7, <1>9 DEF Own, q, dw

LEMMA PendingDecorate ==
  ASSUME NEW m \in Seq(Annotated), NEW n \in Nat, n < Len(m),
         NEW dv \in Seq(Of(Decorations)), NEW x \in Of(Decorations), x = m[n + 1],
         Pending(m, n, dv)
  PROVE  Pending(m, n + 1, Append(dv, x))
<1> DEFINE q == n + 1
           dw == Append(dv, x)
<1>1. m[q] = x /\ x.op # "Group"
  BY DEF Of, Decorations
<1>2. q \in 1 .. q /\ q .. q = {q}
  OBVIOUS
<1>3. Pending(m, q, dv)
  BY <1>1, PendingMore
<1>4. /\ Len(dv) \in Nat /\ Len(dw) = Len(dv) + 1 /\ dw[Len(dv) + 1] = x
      /\ \A j \in 1 .. Len(dv) : dw[j] = dv[j]
  BY AppendProperties
<1> HIDE DEF q, dw
<1>5. ASSUME NEW j \in 1 .. Len(dw)
      PROVE  \E k \in 1 .. q : m[k] = dw[j] /\ \A l \in k .. q : m[l].op # "Group"
  <2>1. CASE j \in 1 .. Len(dv)
    BY <1>3, <1>4, <2>1 DEF Pending
  <2>2. CASE j \notin 1 .. Len(dv)
    <3>1. j = Len(dv) + 1
      BY <1>4, <2>2
    <3>. QED
      BY <1>1, <1>2, <1>4, <3>1
  <2>. QED
    BY <2>1, <2>2
<1>. QED
  BY <1>5 DEF Pending, q, dw

\* addDecorationGroup: the group takes all of DecorateVec.
Taken(gv, x, dv) == Append(gv, [group |-> x, decs |-> dv])

LEMMA TakenFacts ==
  ASSUME NEW dv \in Seq(Of(Decorations)), NEW gv \in Seq(Owned), NEW x \in Of({"Group"})
  PROVE  /\ Taken(gv, x, dv) \in Seq(Owned)
         /\ Len(Taken(gv, x, dv)) = Len(gv) + 1 /\ Len(gv) \in Nat
         /\ \A k \in 1 .. Len(gv) : Taken(gv, x, dv)[k] = gv[k]
         /\ Taken(gv, x, dv)[Len(gv) + 1].group = x
         /\ Taken(gv, x, dv)[Len(gv) + 1].decs = dv
<1> DEFINE o == [group |-> x, decs |-> dv]
<1>1. o \in Owned /\ o.group = x /\ o.decs = dv
  BY DEF Owned
<1> HIDE DEF o
<1>2. /\ Append(gv, o) \in Seq(Owned) /\ Len(Append(gv, o)) = Len(gv) + 1 /\ Len(gv) \in Nat
      /\ \A k \in 1 .. Len(gv) : Append(gv, o)[k] = gv[k]
      /\ Append(gv, o)[Len(gv) + 1] = o
  BY <1>1, AppendProperties
<1>3. Taken(gv, x, dv) = Append(gv, o)
  BY DEF Taken, o
<1>. QED
  BY <1>1, <1>2, <1>3

LEMMA KnownGroup ==
  ASSUME NEW m \in Seq(Annotated), NEW n \in Nat, n < Len(m), NEW E, NEW F,
         NEW dv \in Seq(Of(Decorations)), NEW gv \in Seq(Owned), NEW x, x = m[n + 1],
         x.op = "Group", F[x.id].kind = "group",
         \A i \in Ids : i # x.id => F[i].kind = E[i].kind,
         Known(m, n, E, gv)
  PROVE  Known(m, n + 1, F, Taken(gv, x, dv)) /\ x \in Of({"Group"})
<1> DEFINE q == n + 1
           gw == Taken(gv, x, dv)
<1>1. q \in 1 .. Len(m) /\ 1 .. q = (1 .. n) \cup {q} /\ 1 .. n \subseteq 1 .. Len(m) /\ m[q] = x
  OBVIOUS
<1>2. x \in Of({"Group"}) /\ x.id \in Ids
  <2>1. x \in Annotated
    BY <1>1
  <2>. QED
    BY <2>1 DEF Of, Annotated, InstType
<1>3. \A k \in 1 .. Len(m) : m[k].id \in Ids
  BY DEF Annotated, InstType
<1>4. \A k \in 1 .. Len(gv) : gv[k].group.id \in Ids
  <2>1. \A o \in Owned : o.group.id \in Ids
    BY DEF Owned, Of, Annotated, InstType
  <2>. QED
    BY <2>1
<1>5. /\ Len(gw) = Len(gv) + 1 /\ Len(gv) \in Nat
      /\ \A k \in 1 .. Len(gv) : gw[k] = gv[k]
      /\ gw[Len(gv) + 1].group = x
  BY <1>2, TakenFacts
<1> HIDE DEF q, gw
<1>6. \A i \in Ids : E[i].kind = "group" => F[i].kind = "group"
  OBVIOUS
<1>7. ASSUME NEW k \in 1 .. q, m[k].op = "GroupDecorate" PROVE F[m[k].id].kind = "group"
  <2>1. k \in 1 .. n
    BY <1>1, <1>7
  <2>2. m[k].id \in Ids /\ E[m[k].id].kind = "group"
    BY <1>1, <1>3, <1>7, <2>1 DEF Known
  <2>. QED
    BY <1>6, <2>2
<1>8. ASSUME NEW k \in 1 .. Len(gw)
      PROVE  F[gw[k].group.id].kind = "group" /\ \E l \in 1 .. q : m[l] = gw[k].group
  <2>1. CASE k \in 1 .. Len(gv)
    <3>1. E[gv[k].group.id].kind = "group" /\ \E l \in 1 .. n : m[l] = gv[k].group
      BY <2>1 DEF Known
    <3>. QED
      BY <1>1, <1>4, <1>5, <1>6, <2>1, <3>1
  <2>2. CASE k \notin 1 .. Len(gv)
    <3>1. k = Len(gv) + 1
      BY <1>5, <2>2
    <3>. QED
      BY <1>1, <1>5, <3>1
  <2>. QED
    BY <2>1, <2>2
<1>9. ASSUME NEW i \in Ids, F[i].kind = "group" PROVE \E k \in 1 .. Len(gw) : gw[k].group.id = i
  <2>1. CASE i = x.id
    <3>1. Len(gv) + 1 \in 1 .. Len(gw)
      BY <1>5
    <3>. QED
      BY <1>5, <2>1, <3>1
  <2>2. CASE i # x.id
    <3>1. PICK k \in 1 .. Len(gv) : gv[k].group.id = i
      BY <1>9, <2>2 DEF Known
    <3>2. k \in 1 .. Len(gw) /\ gw[k] = gv[k]
      BY <1>5
    <3>. QED
      BY <3>1, <3>2
  <2>. QED
    BY <2>1, <2>2
<1>. QED
  BY <1>2, <1>7, <1>8, <1>9 DEF Known, q, gw

LEMMA OwnGroup ==
  ASSUME NEW m \in Seq(Annotated), NEW n \in Nat, n < Len(m), NEW E, NEW F,
         NEW dv \in Seq(Of(Decorations)), NEW gv \in Seq(Owned), NEW x \in Of({"Group"}), x = m[n + 1],
         E[x.id].kind # "group", F[x.id].kind = "group",
         \A i \in Ids : i # x.id => F[i].kind = E[i].kind,
         \A i \in Ids : F[i].decs = E[i].decs,
         OwnGroups(m), Known(m, n, E, gv), Pending(m, n, dv), Own(m, n, E, dv, gv)
  PROVE  Own(m, n + 1, F, <<>>, Taken(gv, x, dv))
<1> DEFINE q == n + 1
           gw == Taken(gv, x, dv)
<1>0. q = n + 1 /\ m[q] = x
  OBVIOUS
<1>1. /\ q \in 1 .. Len(m) /\ 1 .. q = (1 .. n) \cup {q} /\ 1 .. n \subseteq 1 .. Len(m)
      /\ m[q] = x /\ q - 1 = n
  OBVIOUS
<1>2. x.id \in Ids /\ x.op = "Group" /\ x.op \notin Decorations /\ x.op # "GroupDecorate"
  BY DEF Of, Annotated, InstType, Decorations
<1>3. \A k \in 1 .. Len(m) : m[k].id \in Ids
  BY DEF Annotated, InstType
<1>4. /\ \A i : DirectTo(m, q, i) = DirectTo(m, n, i)
      /\ \A i : AppliedTo(m, q, i) = AppliedTo(m, n, i)
  <2> HIDE DEF q
  <2>1. Grown(m, n, q, x)
    BY <1>0, OneMore
  <2>. QED
    BY <1>2, <2>1 DEF Grown
<1>5. /\ Len(gw) = Len(gv) + 1 /\ Len(gv) \in Nat
      /\ \A k \in 1 .. Len(gv) : gw[k] = gv[k]
      /\ gw[Len(gv) + 1].group = x /\ gw[Len(gv) + 1].decs = dv
  BY TakenFacts
<1> HIDE DEF q, gw
\* All of DecorateVec is about the group ...
<1>6. \A j \in 1 .. Len(dv) : dv[j].id = x.id /\ \E k \in 1 .. n : m[k] = dv[j]
  <2>1. ASSUME NEW j \in 1 .. Len(dv)
        PROVE  dv[j].id = x.id /\ \E k \in 1 .. n : m[k] = dv[j]
    <3>1. PICK k \in 1 .. n : m[k] = dv[j] /\ \A l \in k .. n : m[l].op # "Group"
      BY DEF Pending
    <3>2. dv[j].op \in Decorations
      BY DEF Of
    <3>3. \A i \in 1 .. Len(m) : m[i].op = "Group" =>
            \A h \in 1 .. (i - 1) : m[h].op \in Decorations =>
              m[h].id = m[i].id \/ \E l \in h .. (i - 1) : m[l].op = "Group"
      BY DEF OwnGroups
    <3>4. \A h \in 1 .. n : m[h].op \in Decorations =>
              m[h].id = x.id \/ \E l \in h .. n : m[l].op = "Group"
      BY <1>1, <1>2, <3>3
    <3>. QED
      BY <3>1, <3>2, <3>4
  <2>. QED
    BY <2>1
\* ... and has all that is.
<1>7. ToSet(dv) = DirectTo(m, n, x.id)
  <2>1. ToSet(dv) = {dv[j] : j \in 1 .. Len(dv)}
    BY DEF ToSet
  <2>2. ASSUME NEW j \in 1 .. Len(dv) PROVE dv[j] \in DirectTo(m, n, x.id)
    <3>1. PICK k \in 1 .. n : m[k] = dv[j] /\ dv[j].id = x.id
      BY <1>6
    <3>2. dv[j].op \in Decorations
      BY DEF Of
    <3>. QED
      BY <3>1, <3>2 DEF DirectTo
  <2>3. ASSUME NEW y \in DirectTo(m, n, x.id) PROVE \E j \in 1 .. Len(dv) : dv[j] = y
    <3>1. PICK k \in 1 .. n : m[k] = y /\ m[k].op \in Decorations /\ m[k].id = x.id
      BY DEF DirectTo
    <3>. QED
      BY <3>1 DEF Own
  <2>. QED
    BY <2>1, <2>2, <2>3
<1>8. ASSUME NEW k \in 1 .. q, m[k].op \in Decorations PROVE F[m[k].id].kind = "group"
  <2>1. k \in 1 .. n /\ m[k].id \in Ids
    BY <1>1, <1>2, <1>3, <1>8
  <2>2. CASE E[m[k].id].kind = "group"
    BY <2>1, <2>2
  <2>3. CASE \E j \in 1 .. Len(dv) : dv[j] = m[k]
    BY <1>6, <2>3
  <2>. QED
    BY <1>8, <2>1, <2>2, <2>3 DEF Own
<1>9. ASSUME NEW k \in 1 .. Len(gw) PROVE ToSet(gw[k].decs) = DirectTo(m, q, gw[k].group.id)
  <2>1. CASE k \in 1 .. Len(gv)
    BY <1>4, <1>5, <2>1 DEF Own
  <2>2. CASE k \notin 1 .. Len(gv)
    <3>1. k = Len(gv) + 1
      BY <1>5, <2>2
    <3>. QED
      BY <1>4, <1>5, <1>7, <3>1
  <2>. QED
    BY <2>1, <2>2
<1>10. \A i \in Ids : F[i].decs = DeclaredTo(m, q, i)
  <2>1. \A i : DeclaredTo(m, q, i) = DeclaredTo(m, n, i)
    BY <1>4 DEF DeclaredTo
  <2>. QED
    BY <2>1 DEF Own
<1>. QED
  BY <1>8, <1>9, <1>10 DEF Own, q, gw

\* decorateTargets with what the group owns.
LEMMA OwnApply ==
  ASSUME NEW m \in Seq(Annotated), NEW n \in Nat, n < Len(m), NEW E, NEW F,
         NEW dv, NEW gv \in Seq(Owned), NEW x, x = m[n + 1],
         x.op = "GroupDecorate", SameGroups(E, F), Own(m, n, E, dv, gv),
         NEW k \in 1 .. Len(gv), gv[k].group.id = x.id,
         \A i \in x.targets : F[i].decs = E[i].decs \cup ToSet(gv[k].decs),
         \A i \in Ids \ x.targets : F[i].decs = E[i].decs
  PROVE  Own(m, n + 1, F, dv, gv)
<1> DEFINE q == n + 1
<1>0. q = n + 1 /\ m[q] = x
  OBVIOUS
<1>1. q \in 1 .. Len(m) /\ 1 .. q = (1 .. n) \cup {q} /\ 1 .. n \subseteq 1 .. Len(m) /\ m[q] = x
  OBVIOUS
<1>2. \A j \in 1 .. Len(m) : m[j].id \in Ids
  BY DEF Annotated, InstType
<1>3. /\ \A i : DirectTo(m, q, i) = DirectTo(m, n, i)
      /\ \A i : i \in x.targets => AppliedTo(m, q, i) = AppliedTo(m, n, i) \cup {x.id}
      /\ \A i : i \notin x.targets => AppliedTo(m, q, i) = AppliedTo(m, n, i)
  <2> HIDE DEF q
  <2>1. Grown(m, n, q, x)
    BY <1>0, OneMore
  <2>2. x.op \notin Decorations
    BY DEF Decorations
  <2>. QED
    BY <2>1, <2>2 DEF Grown
<1> HIDE DEF q
<1>4. \A j \in 1 .. q : m[j].op \in Decorations =>
        F[m[j].id].kind = "group" \/ \E h \in 1 .. Len(dv) : dv[h] = m[j]
  <2>1. x.op \notin Decorations
    BY DEF Decorations
  <2>. QED
    BY <1>1, <1>2, <2>1 DEF Own, SameGroups
<1>5. \A j \in 1 .. Len(gv) : ToSet(gv[j].decs) = DirectTo(m, q, gv[j].group.id)
  BY <1>3 DEF Own
<1>6. ASSUME NEW i \in Ids PROVE F[i].decs = DeclaredTo(m, q, i)
  <2>1. ToSet(gv[k].decs) = DirectTo(m, n, x.id) /\ E[i].decs = DeclaredTo(m, n, i)
    BY DEF Own
  <2>2. CASE i \in x.targets
    <3>1. AppliedTo(m, q, i) = AppliedTo(m, n, i) \cup {x.id}
      BY <1>3, <2>2
    <3>2. UNION {DirectTo(m, q, g) : g \in AppliedTo(m, q, i)}
            = (UNION {DirectTo(m, n, g) : g \in AppliedTo(m, n, i)}) \cup DirectTo(m, n, x.id)
      BY <1>3, <3>1
    <3>. QED
      BY <1>3, <2>1, <2>2, <3>2 DEF DeclaredTo
  <2>3. CASE i \notin x.targets
    <3>1. AppliedTo(m, q, i) = AppliedTo(m, n, i)
      BY <1>3, <2>3
    <3>2. UNION {DirectTo(m, q, g) : g \in AppliedTo(m, q, i)}
            = UNION {DirectTo(m, n, g) : g \in AppliedTo(m, n, i)}
      BY <1>3, <3>1
    <3>. QED
      BY <1>3, <2>1, <2>3, <3>2 DEF DeclaredTo
  <2>. QED
    BY <2>2, <2>3
<1>. QED
  BY <1>4, <1>5, <1>6 DEF Own, q

LEMMA NameKept ==
  ASSUME NEW m \in Seq(Annotated), NEW n \in Nat, n < Len(m), NEW q, q = n + 1, NEW x, m[q] = x,
         NEW E, NEW F, NEW old, NEW named, NEW i \in Ids,
         ~(x.op \in {"Name", "EntryPoint", "Linkage"} /\ x.id = i),
         F[i].name = E[i].name,
         F[i].kind \notin {"none", "forward"} =>
           \/ i \in named \/ F[i].name = NoName
           \/ E[i].kind \notin {"none", "forward"} /\ i \notin old,
         NameRead(m, n, E, old, i)
  PROVE  NameRead(m, q, F, named, i)
<1>1. NamingTo(m, q, i) = NamingTo(m, n, i)
  <2>1. Grown(m, n, q, x)
    BY OneMore
  <2>. QED
    BY <2>1 DEF Grown
<1> DEFINE N == NamingTo(m, n, i)
<1>2. \A k \in N : m[k].ann \in Anns
  <2>1. ASSUME NEW k \in N PROVE m[k].ann \in Anns
    <3>1. k \in 1 .. Len(m) /\ m[k].op \in {"Name", "EntryPoint", "Linkage"}
      BY DEF NamingTo
    <3>2. m[k] \in Annotated
      BY <3>1
    <3>. QED
      BY <3>1, <3>2 DEF Annotated, Definitions
  <2>. QED
    BY <2>1
<1>3. /\ N = {} => E[i].name = NoName
      /\ N # {} => \E k \in N : E[i].name = m[k].ann /\ \A j \in N : j <= k
      /\ N # {} /\ E[i].kind \notin {"none", "forward"} => i \in old
  BY DEF NameRead
<1> HIDE DEF N
<1>4. N # {} => E[i].name # NoName
  BY <1>2, <1>3, NoNameAssumption
<1>5. /\ N = {} => F[i].name = NoName
      /\ N # {} => \E k \in N : F[i].name = m[k].ann /\ \A j \in N : j <= k
      /\ N # {} /\ F[i].kind \notin {"none", "forward"} => i \in named
  BY <1>3, <1>4
<1>. QED
  BY <1>1, <1>5 DEF NameRead, N

LEMMA NameGiven ==
  ASSUME NEW m, NEW q \in Nat \ {0}, NEW F, NEW named,
         m[q].op \in {"Name", "EntryPoint", "Linkage"},
         F[m[q].id].name = m[q].ann, F[m[q].id].kind = "forward"
  PROVE  NameRead(m, q, F, named, m[q].id)
<1> DEFINE N == NamingTo(m, q, m[q].id)
<1>1. q \in N /\ \A j \in N : j <= q
  BY DEF NamingTo
<1> HIDE DEF N
<1>2. N # {} /\ F[m[q].id].name = m[q].ann /\ F[m[q].id].kind = "forward"
  BY <1>1
<1>. QED
  BY <1>1, <1>2 DEF NameRead, N

-----------------------------------------------------------------------------
(* The tables when a reading begins.                                       *)

Fresh ==
  /\ pos = 1
  /\ IdEntryMap = NoEntries
  /\ NamedId = {}
  /\ EntryPointVec = <<>> /\ DecorateVec = <<>> /\ DecGroupVec = <<>>
  /\ GroupDecVec = <<>> /\ DefVec = <<>>

LEMMA FreshTables ==
  ASSUME Fresh
  PROVE  Vectors /\ Entries
<1>1. Absent \in EntryType /\ IsFiniteSet(Absent.modes) /\ \A i \in Ids : NoEntries[i] = Absent
  BY FS_EmptySet DEF Absent, EntryType, EntryKinds, NoEntries
<1>2. NoEntries \in [Ids -> EntryType]
  BY <1>1 DEF NoEntries
<1>3. Vectors
  BY DEF Fresh, Vectors
<1>4. Entries
  BY <1>1, <1>2, FS_EmptySet DEF Fresh, Entries
<1>. QED
  BY <1>3, <1>4

LEMMA FreshArrive ==
  ASSUME Fresh
  PROVE  ArriveInv
<1>1. /\ pos - 1 = 0 /\ 1 .. 0 = {} /\ Len(<<>>) = 0
      /\ \A i \in Ids : /\ IdEntryMap[i].kind = "none" /\ IdEntryMap[i].name = NoName
                        /\ IdEntryMap[i].decs = {}
      /\ DecorateVec = <<>> /\ DecGroupVec = <<>>
  BY DEF Fresh, NoEntries, Absent
<1>2. \A i : /\ DirectTo(input, 0, i) = {} /\ AppliedTo(input, 0, i) = {}
             /\ NamingTo(input, 0, i) = {}
  BY <1>1 DEF DirectTo, AppliedTo, NamingTo
<1>3. \A i : DeclaredTo(input, 0, i) = {}
  BY <1>2 DEF DeclaredTo
<1>4. Known(input, 0, IdEntryMap, DecGroupVec)
  BY <1>1 DEF Known
<1>5. Pending(input, 0, DecorateVec)
  BY <1>1 DEF Pending
<1>6. Own(input, 0, IdEntryMap, DecorateVec, DecGroupVec)
  BY <1>1, <1>3 DEF Own
<1>7. NamesRead(input, 0, IdEntryMap, NamedId)
  BY <1>1, <1>2 DEF NamesRead, NameRead
<1>. QED
  BY <1>1, <1>4, <1>5, <1>6, <1>7 DEF ArriveInv

LEMMA FreshGroups ==
  ASSUME Fresh
  PROVE  WrittenGroups = <<>>
<1> DEFINE f == [k \in 1 .. Len(DecGroupVec) |->
                   Append(DecGroupVec[k].decs, DecGroupVec[k].group)]
<1>1. f \in [1 .. 0 -> {}]
  BY DEF Fresh
<1>2. WrittenGroups = FlattenSeq(f)
  BY DEF WrittenGroups
<1> HIDE DEF f
<1>3. f \in Seq({}) /\ Len(f) = 0
  BY <1>1
<1>4. f = <<>>
  BY <1>3
<1>. QED
  BY <1>2, <1>4, FlattenEmpty

LEMMA FreshCount ==
  ASSUME Fresh
  PROVE  CountInv
<1>1. DecorateVec = <<>> /\ DecGroupVec = <<>> /\ pos - 1 = 0
  BY DEF Fresh
<1>2. WrittenGroups = <<>>
  BY FreshGroups
<1>3. \A d : Occurrences(<<>>, d) = 0
  <2> DEFINE e == <<>>
  <2>1. e \in Seq({})
    OBVIOUS
  <2> HIDE DEF e
  <2>2. ASSUME NEW d PROVE Occurrences(e, d) = 0
    BY <2>1, OccurrencesNone
  <2>. QED
    BY <2>2 DEF e
<1>4. \A d : Cardinality({k \in 1 .. (pos - 1) : input[k] = d}) = 0
  <2>1. \A d : {k \in 1 .. (pos - 1) : input[k] = d} = {}
    BY <1>1
  <2>. QED
    BY <2>1, FS_EmptySet
<1>. QED
  BY <1>1, <1>2, <1>3, <1>4 DEF CountInv

-----------------------------------------------------------------------------
(* Every step of a reading keeps what has arrived.                         *)

LEMMA ArriveNext ==
  ASSUME Reading, pos \in 1 .. Len(input), input' = input, pos' = pos + 1,
         Known(input, pos, IdEntryMap', DecGroupVec'),
         Pending(input, pos, DecorateVec'),
         OwnGroups(input) => Own(input, pos, IdEntryMap', DecorateVec', DecGroupVec'),
         OwnGroups(input) /\ LinkageOnSymbols(input) =>
           NamesRead(input, pos, IdEntryMap', NamedId')
  PROVE  ArriveInv'
<1>1. pos' - 1 = pos /\ input' = input
  BY DEF Reading
<1>2. Known(input, pos - 1, IdEntryMap, DecGroupVec)' <=> Known(input, pos, IdEntryMap', DecGroupVec')
  BY <1>1 DEF Known
<1>3. Pending(input, pos - 1, DecorateVec)' <=> Pending(input, pos, DecorateVec')
  BY <1>1 DEF Pending
<1>4. Own(input, pos - 1, IdEntryMap, DecorateVec, DecGroupVec)'
        <=> Own(input, pos, IdEntryMap', DecorateVec', DecGroupVec')
  BY <1>1 DEF Own, DirectTo, DeclaredTo, AppliedTo, Decorations
<1>5. NamesRead(input, pos - 1, IdEntryMap, NamedId)' <=> NamesRead(input, pos, IdEntryMap', NamedId')
  BY <1>1 DEF NamesRead, NameRead, NamingTo
<1>6. (OwnGroups(input)' <=> OwnGroups(input)) /\ (LinkageOnSymbols(input)' <=> LinkageOnSymbols(input))
  BY <1>1 DEF OwnGroups, LinkageOnSymbols, Decorations
<1>. QED
  BY <1>2, <1>3, <1>4, <1>5, <1>6 DEF ArriveInv

\* The place read, as the lemmas above name it.
LEMMA Place ==
  ASSUME Reading, pos \in 1 .. Len(input)
  PROVE  /\ pos - 1 \in Nat /\ pos - 1 < Len(input) /\ pos = (pos - 1) + 1 /\ input[pos] = Inst
         /\ input[(pos - 1) + 1] = Inst /\ input \in Seq(Annotated)
BY DEF Reading, Inst

LEMMA TableNext ==
  ASSUME Reading, pos \in 1 .. Len(input), Advance, Vectors', Entries'
  PROVE  TableInv'
BY ReadingNext DEF TableInv

\* Names, entry points and modes.
LEMMA ArriveNamed ==
  ASSUME TableInv, ArriveInv, At({"Name", "EntryPoint"}), SetName, Advance,
         UNCHANGED <<DecorateVec, DecGroupVec>>
  PROVE  ArriveInv'
<1> DEFINE n == pos - 1
           x == Inst
<1>0. /\ input \in Seq(Annotated) /\ DecGroupVec \in Seq(Owned) /\ Reading
      /\ pos \in 1 .. Len(input) /\ x.op \in {"Name", "EntryPoint"} /\ x.id \in Ids
  BY InstFacts DEF TableInv, Reading, Vectors
<1>1. n \in Nat /\ n < Len(input) /\ pos = n + 1 /\ input[pos] = x /\ input[n + 1] = x
  BY <1>0, Place
<1>2. input' = input /\ pos' = pos + 1 /\ DecorateVec' = DecorateVec /\ DecGroupVec' = DecGroupVec
  BY DEF Advance
<1>3. /\ IdEntryMap'[x.id].kind = "forward" /\ IdEntryMap'[x.id].name = x.ann
      /\ IdEntryMap'[x.id].decs = IdEntryMap[x.id].decs
      /\ \A j \in Ids : j # x.id => IdEntryMap'[j] = IdEntryMap[j]
      /\ NamedId' = NamedId \cup {x.id}
  BY NamedStep
<1>4. IdEntryMap[x.id].kind # "group"
  BY DEF SetName, OnForward
<1> HIDE DEF n, x
<1>5. SameGroups(IdEntryMap, IdEntryMap') /\ \A i \in Ids : IdEntryMap'[i].decs = IdEntryMap[i].decs
  BY <1>3, <1>4 DEF SameGroups
<1>6. x.op \notin Decorations \cup {"GroupDecorate", "Group"}
  BY <1>0 DEF Decorations
<1>7. /\ Known(input, n, IdEntryMap, DecGroupVec) /\ Pending(input, n, DecorateVec)
      /\ OwnGroups(input) => Own(input, n, IdEntryMap, DecorateVec, DecGroupVec)
      /\ OwnGroups(input) /\ LinkageOnSymbols(input) => NamesRead(input, n, IdEntryMap, NamedId)
  BY DEF ArriveInv, n
<1>8. Known(input, n + 1, IdEntryMap', DecGroupVec)
  BY <1>0, <1>1, <1>5, <1>6, <1>7, KnownMore
<1>9. Pending(input, n + 1, DecorateVec)
  BY <1>1, <1>6, <1>7, PendingMore
<1>10. OwnGroups(input) => Own(input, n + 1, IdEntryMap', DecorateVec, DecGroupVec)
  BY <1>0, <1>1, <1>5, <1>6, <1>7, OwnPlain
<1>11. ASSUME NamesRead(input, n, IdEntryMap, NamedId)
       PROVE  NamesRead(input, pos, IdEntryMap', NamedId')
  <2>0. /\ x.op \in {"Name", "EntryPoint", "Linkage"} /\ pos \in Nat \ {0}
        /\ IdEntryMap'[x.id].name = x.ann /\ IdEntryMap'[x.id].kind = "forward"
    BY <1>0, <1>3
  <2>1. NameRead(input, pos, IdEntryMap', NamedId', x.id)
    <3>1. /\ input[pos].op \in {"Name", "EntryPoint", "Linkage"}
          /\ IdEntryMap'[input[pos].id].name = input[pos].ann
          /\ IdEntryMap'[input[pos].id].kind = "forward"
      BY <1>1, <2>0, Zenon
    <3>2. NameRead(input, pos, IdEntryMap', NamedId', input[pos].id)
      BY <2>0, <3>1, NameGiven
    <3>. QED
      BY <1>1, <3>2, Zenon
  <2>2. ASSUME NEW i \in Ids, i # x.id PROVE NameRead(input, pos, IdEntryMap', NamedId', i)
    <3>1. NameRead(input, n, IdEntryMap, NamedId, i) /\ IdEntryMap'[i] = IdEntryMap[i]
      BY <1>3, <1>11, <2>2 DEF NamesRead
    <3>2. i \in NamedId' \/ i \notin NamedId
      BY <1>3
    <3>. QED
      BY <1>0, <1>1, <2>2, <3>1, <3>2, NameKept
  <2>. QED
    BY <2>1, <2>2 DEF NamesRead
<1>12. /\ Known(input, pos, IdEntryMap', DecGroupVec') /\ Pending(input, pos, DecorateVec')
       /\ OwnGroups(input) => Own(input, pos, IdEntryMap', DecorateVec', DecGroupVec')
  BY <1>1, <1>2, <1>8, <1>9, <1>10
<1>. QED
  BY <1>0, <1>2, <1>7, <1>11, <1>12, ArriveNext

LEMMA ArriveMode ==
  ASSUME TableInv, ArriveInv, DecodeExecutionMode
  PROVE  ArriveInv'
<1> DEFINE n == pos - 1
           x == Inst
<1>0. /\ input \in Seq(Annotated) /\ DecGroupVec \in Seq(Owned) /\ Reading
      /\ pos \in 1 .. Len(input) /\ x.op = "Mode" /\ x.id \in Ids
  BY InstFacts DEF TableInv, Reading, Vectors, DecodeExecutionMode
<1>1. n \in Nat /\ n < Len(input) /\ pos = n + 1 /\ input[pos] = x /\ input[n + 1] = x
  BY <1>0, Place
<1>2. /\ input' = input /\ pos' = pos + 1 /\ DecorateVec' = DecorateVec /\ DecGroupVec' = DecGroupVec
      /\ NamedId' = NamedId
  BY DEF Advance, DecodeExecutionMode
<1>3. /\ IdEntryMap'[x.id].kind = "forward" /\ IdEntryMap'[x.id].name = IdEntryMap[x.id].name
      /\ IdEntryMap'[x.id].decs = IdEntryMap[x.id].decs
      /\ \A j \in Ids : j # x.id => IdEntryMap'[j] = IdEntryMap[j]
  BY ModeStep
<1>4. IdEntryMap[x.id].kind # "group"
  BY DEF DecodeExecutionMode, OnForward
<1> HIDE DEF n, x
<1>5. /\ SameGroups(IdEntryMap, IdEntryMap')
      /\ \A i \in Ids : IdEntryMap'[i].decs = IdEntryMap[i].decs
      /\ \A i \in Ids : IdEntryMap'[i].name = IdEntryMap[i].name
      /\ \A i \in Ids : IdEntryMap'[i].kind \notin {"none", "forward"} =>
                          IdEntryMap[i].kind \notin {"none", "forward"}
  BY <1>3, <1>4 DEF SameGroups
<1>6. x.op \notin Decorations \cup {"GroupDecorate", "Group", "Name", "EntryPoint", "Linkage"}
  BY <1>0 DEF Decorations
<1>7. /\ Known(input, n, IdEntryMap, DecGroupVec) /\ Pending(input, n, DecorateVec)
      /\ OwnGroups(input) => Own(input, n, IdEntryMap, DecorateVec, DecGroupVec)
      /\ OwnGroups(input) /\ LinkageOnSymbols(input) => NamesRead(input, n, IdEntryMap, NamedId)
  BY DEF ArriveInv, n
<1>8. Known(input, n + 1, IdEntryMap', DecGroupVec)
  BY <1>0, <1>1, <1>5, <1>6, <1>7, KnownMore
<1>9. Pending(input, n + 1, DecorateVec)
  BY <1>1, <1>6, <1>7, PendingMore
<1>10. OwnGroups(input) => Own(input, n + 1, IdEntryMap', DecorateVec, DecGroupVec)
  BY <1>0, <1>1, <1>5, <1>6, <1>7, OwnPlain
<1>11. ASSUME NamesRead(input, n, IdEntryMap, NamedId)
       PROVE  NamesRead(input, pos, IdEntryMap', NamedId')
  <2>1. ASSUME NEW i \in Ids PROVE NameRead(input, pos, IdEntryMap', NamedId', i)
    <3>1. NameRead(input, n, IdEntryMap, NamedId, i)
      BY <1>11 DEF NamesRead
    <3>. QED
      BY <1>0, <1>1, <1>2, <1>5, <1>6, <3>1, NameKept
  <2>. QED
    BY <2>1 DEF NamesRead
<1>12. /\ Known(input, pos, IdEntryMap', DecGroupVec') /\ Pending(input, pos, DecorateVec')
       /\ OwnGroups(input) => Own(input, pos, IdEntryMap', DecorateVec', DecGroupVec')
  BY <1>1, <1>2, <1>8, <1>9, <1>10
<1>. QED
  BY <1>0, <1>2, <1>7, <1>11, <1>12, ArriveNext

LEMMA ArriveDecorate ==
  ASSUME TableInv, ArriveInv, DecodeDecorate
  PROVE  ArriveInv'
<1> DEFINE n == pos - 1
           x == Inst
<1>0. /\ input \in Seq(Annotated) /\ DecGroupVec \in Seq(Owned) /\ Reading
      /\ DecorateVec \in Seq(Of(Decorations))
      /\ pos \in 1 .. Len(input) /\ x \in Of(Decorations) /\ x.op \in Decorations /\ x.id \in Ids
  BY InstFacts DEF TableInv, Reading, Vectors, DecodeDecorate
<1>1. n \in Nat /\ n < Len(input) /\ pos = n + 1 /\ input[pos] = x /\ input[n + 1] = x
  BY <1>0, Place
<1>2. /\ input' = input /\ pos' = pos + 1 /\ DecorateVec' = Append(DecorateVec, x)
      /\ DecGroupVec' = DecGroupVec /\ NamedId' = NamedId
  BY DEF Advance, DecodeDecorate
<1>3. /\ IdEntryMap'[x.id].kind = "forward"
      /\ IdEntryMap'[x.id].name = IF x.op = "Linkage" THEN x.ann ELSE IdEntryMap[x.id].name
      /\ IdEntryMap'[x.id].decs = IdEntryMap[x.id].decs \cup {x}
      /\ \A j \in Ids : j # x.id => IdEntryMap'[j] = IdEntryMap[j]
  BY DecorateStep
<1>4. IdEntryMap[x.id].kind # "group"
  BY DEF DecodeDecorate, OnForward
<1> HIDE DEF n, x
<1>5. /\ SameGroups(IdEntryMap, IdEntryMap')
      /\ \A i \in Ids : i # x.id => IdEntryMap'[i].decs = IdEntryMap[i].decs
      /\ \A i \in Ids : IdEntryMap'[i].kind \notin {"none", "forward"} =>
                          IdEntryMap[i].kind \notin {"none", "forward"}
  BY <1>3, <1>4 DEF SameGroups
<1>6. x.op \notin {"GroupDecorate", "Group", "Name", "EntryPoint"}
  BY <1>0 DEF Decorations
<1>7. /\ Known(input, n, IdEntryMap, DecGroupVec) /\ Pending(input, n, DecorateVec)
      /\ OwnGroups(input) => Own(input, n, IdEntryMap, DecorateVec, DecGroupVec)
      /\ OwnGroups(input) /\ LinkageOnSymbols(input) => NamesRead(input, n, IdEntryMap, NamedId)
  BY DEF ArriveInv, n
<1>8. Known(input, n + 1, IdEntryMap', DecGroupVec)
  BY <1>0, <1>1, <1>5, <1>6, <1>7, KnownMore
<1>9. Pending(input, n + 1, Append(DecorateVec, x))
  BY <1>0, <1>1, <1>7, PendingDecorate
<1>10. OwnGroups(input) => Own(input, n + 1, IdEntryMap', Append(DecorateVec, x), DecGroupVec)
  BY <1>0, <1>1, <1>3, <1>4, <1>5, <1>7, OwnDecorate
<1>11. ASSUME NamesRead(input, n, IdEntryMap, NamedId)
       PROVE  NamesRead(input, pos, IdEntryMap', NamedId')
  <2>1. ASSUME NEW i \in Ids, x.op = "Linkage" /\ x.id = i
        PROVE  NameRead(input, pos, IdEntryMap', NamedId', i)
    <3>0. /\ x.op \in {"Name", "EntryPoint", "Linkage"} /\ pos \in Nat \ {0}
          /\ IdEntryMap'[x.id].name = x.ann /\ IdEntryMap'[x.id].kind = "forward"
      BY <1>0, <1>3, <2>1
    <3>1. NameRead(input, pos, IdEntryMap', NamedId', x.id)
      <4>1. /\ input[pos].op \in {"Name", "EntryPoint", "Linkage"}
            /\ IdEntryMap'[input[pos].id].name = input[pos].ann
            /\ IdEntryMap'[input[pos].id].kind = "forward"
        BY <1>1, <3>0, Zenon
      <4>2. NameRead(input, pos, IdEntryMap', NamedId', input[pos].id)
        BY <3>0, <4>1, NameGiven
      <4>. QED
        BY <1>1, <4>2, Zenon
    <3>. QED
      BY <2>1, <3>1
  <2>2. ASSUME NEW i \in Ids, ~(x.op = "Linkage" /\ x.id = i)
        PROVE  NameRead(input, pos, IdEntryMap', NamedId', i)
    <3>1. NameRead(input, n, IdEntryMap, NamedId, i)
      BY <1>11 DEF NamesRead
    <3>2. IdEntryMap'[i].name = IdEntryMap[i].name
      BY <1>3, <2>2
    <3>3. ~(x.op \in {"Name", "EntryPoint", "Linkage"} /\ x.id = i)
      BY <1>6, <2>2
    <3>. QED
      BY <1>0, <1>1, <1>2, <1>5, <3>1, <3>2, <3>3, NameKept
  <2>. QED
    BY <2>1, <2>2 DEF NamesRead
<1>12. /\ Known(input, pos, IdEntryMap', DecGroupVec') /\ Pending(input, pos, DecorateVec')
       /\ OwnGroups(input) => Own(input, pos, IdEntryMap', DecorateVec', DecGroupVec')
  BY <1>1, <1>2, <1>8, <1>9, <1>10
<1>. QED
  BY <1>0, <1>2, <1>7, <1>11, <1>12, ArriveNext

\* Names when an entry is defined.
LEMMA NamesDefined ==
  ASSUME TableInv, NEW kind \in {"group", "function", "other"}, NEW ops, At(ops), Define(kind),
         ops \cap {"Name", "EntryPoint", "Linkage"} = {},
         NamesRead(input, pos - 1, IdEntryMap, NamedId)
  PROVE  NamesRead(input, pos, IdEntryMap', NamedId')
<1> DEFINE n == pos - 1
           x == Inst
<1>0. /\ input \in Seq(Annotated) /\ Reading /\ pos \in 1 .. Len(input)
      /\ x.op \in ops /\ x.id \in Ids
  BY InstFacts DEF TableInv, Reading
<1>1. n \in Nat /\ n < Len(input) /\ pos = n + 1 /\ input[pos] = x
  BY <1>0, Place
<1>2. /\ IdEntryMap'[x.id].name = IdEntryMap[x.id].name
      /\ \A j \in Ids : j # x.id => IdEntryMap'[j] = IdEntryMap[j]
      /\ \A j \in Ids : j # x.id => (j \in NamedId' <=> j \in NamedId)
      /\ x.id \in NamedId' <=> IdEntryMap[x.id].name # NoName
  BY DefineStep
<1> HIDE DEF n, x
<1>3. ASSUME NEW i \in Ids PROVE NameRead(input, pos, IdEntryMap', NamedId', i)
  <2>1. NameRead(input, n, IdEntryMap, NamedId, i)
    BY DEF NamesRead, n
  <2>2. IdEntryMap'[i].name = IdEntryMap[i].name
    BY <1>2
  <2>3. IdEntryMap'[i].kind \notin {"none", "forward"} =>
          \/ i \in NamedId' \/ IdEntryMap'[i].name = NoName
          \/ IdEntryMap[i].kind \notin {"none", "forward"} /\ i \notin NamedId
    BY <1>2
  <2>4. x.op \notin {"Name", "EntryPoint", "Linkage"}
    BY <1>0
  <2>. QED
    BY <1>0, <1>1, <2>1, <2>2, <2>3, <2>4, NameKept
<1>. QED
  BY <1>3 DEF NamesRead

LEMMA ArriveDefine ==
  ASSUME TableInv, ArriveInv, NEW kind \in {"function", "other"}, At({"Function", "Def"}), Define(kind),
         DecorateVec' = DecorateVec, DecGroupVec' = DecGroupVec
  PROVE  ArriveInv'
<1> DEFINE n == pos - 1
           x == Inst
<1>0. /\ input \in Seq(Annotated) /\ DecGroupVec \in Seq(Owned) /\ Reading
      /\ pos \in 1 .. Len(input) /\ x.op \in {"Function", "Def"} /\ x.id \in Ids
  BY InstFacts DEF TableInv, Reading, Vectors
<1>1. n \in Nat /\ n < Len(input) /\ pos = n + 1 /\ input[pos] = x /\ input[n + 1] = x
  BY <1>0, Place
<1>2. input' = input /\ pos' = pos + 1
  BY DEF Advance, Define
<1>3. /\ IdEntryMap[x.id].kind \in {"none", "forward"} /\ IdEntryMap'[x.id].kind = kind
      /\ IdEntryMap'[x.id].decs = IdEntryMap[x.id].decs
      /\ \A j \in Ids : j # x.id => IdEntryMap'[j] = IdEntryMap[j]
  BY DefineStep
<1> HIDE DEF n, x
<1>4. SameGroups(IdEntryMap, IdEntryMap') /\ \A i \in Ids : IdEntryMap'[i].decs = IdEntryMap[i].decs
  BY <1>3 DEF SameGroups
<1>5. x.op \notin Decorations \cup {"GroupDecorate", "Group"}
  BY <1>0 DEF Decorations
<1>6. /\ Known(input, n, IdEntryMap, DecGroupVec) /\ Pending(input, n, DecorateVec)
      /\ OwnGroups(input) => Own(input, n, IdEntryMap, DecorateVec, DecGroupVec)
      /\ OwnGroups(input) /\ LinkageOnSymbols(input) => NamesRead(input, n, IdEntryMap, NamedId)
  BY DEF ArriveInv, n
<1>7. Known(input, n + 1, IdEntryMap', DecGroupVec)
  BY <1>0, <1>1, <1>4, <1>5, <1>6, KnownMore
<1>8. Pending(input, n + 1, DecorateVec)
  BY <1>1, <1>5, <1>6, PendingMore
<1>9. OwnGroups(input) => Own(input, n + 1, IdEntryMap', DecorateVec, DecGroupVec)
  BY <1>0, <1>1, <1>4, <1>5, <1>6, OwnPlain
<1>10. OwnGroups(input) /\ LinkageOnSymbols(input) => NamesRead(input, pos, IdEntryMap', NamedId')
  <2>1. {"Function", "Def"} \cap {"Name", "EntryPoint", "Linkage"} = {}
    OBVIOUS
  <2>. QED
    BY <1>6, <2>1, NamesDefined DEF n
<1>11. /\ Known(input, pos, IdEntryMap', DecGroupVec') /\ Pending(input, pos, DecorateVec')
       /\ OwnGroups(input) => Own(input, pos, IdEntryMap', DecorateVec', DecGroupVec')
  BY <1>1, <1>7, <1>8, <1>9
<1>. QED
  BY <1>0, <1>2, <1>10, <1>11, ArriveNext

LEMMA ArriveGroup ==
  ASSUME TableInv, ArriveInv, DecodeGroup
  PROVE  ArriveInv'
<1> DEFINE n == pos - 1
           x == Inst
<1>0. /\ input \in Seq(Annotated) /\ DecGroupVec \in Seq(Owned) /\ Reading
      /\ DecorateVec \in Seq(Of(Decorations)) /\ x \in Of({"Group"})
      /\ pos \in 1 .. Len(input) /\ x.op = "Group" /\ x.id \in Ids
  BY InstFacts DEF TableInv, Reading, Vectors, DecodeGroup
<1>1. n \in Nat /\ n < Len(input) /\ pos = n + 1 /\ input[pos] = x /\ input[n + 1] = x
  BY <1>0, Place
<1>2. /\ input' = input /\ pos' = pos + 1 /\ DecorateVec' = <<>>
      /\ DecGroupVec' = Taken(DecGroupVec, x, DecorateVec)
  BY DEF Advance, Define, DecodeGroup, Taken
<1>3. /\ IdEntryMap[x.id].kind \in {"none", "forward"} /\ IdEntryMap'[x.id].kind = "group"
      /\ IdEntryMap'[x.id].decs = IdEntryMap[x.id].decs
      /\ \A j \in Ids : j # x.id => IdEntryMap'[j] = IdEntryMap[j]
  BY DefineStep DEF DecodeGroup
<1>4. OwnGroups(input) /\ LinkageOnSymbols(input) => NamesRead(input, pos, IdEntryMap', NamedId')
  <2>1. {"Group"} \cap {"Name", "EntryPoint", "Linkage"} = {}
    OBVIOUS
  <2>. QED
    BY <2>1, NamesDefined DEF DecodeGroup, ArriveInv
<1>5. /\ Known(input, n, IdEntryMap, DecGroupVec) /\ Pending(input, n, DecorateVec)
      /\ OwnGroups(input) => Own(input, n, IdEntryMap, DecorateVec, DecGroupVec)
  BY DEF ArriveInv
<1> HIDE DEF n, x
<1>6. /\ \A i \in Ids : i # x.id => IdEntryMap'[i].kind = IdEntryMap[i].kind
      /\ \A i \in Ids : IdEntryMap'[i].decs = IdEntryMap[i].decs
      /\ IdEntryMap[x.id].kind # "group"
  BY <1>3
<1>7. Known(input, n + 1, IdEntryMap', Taken(DecGroupVec, x, DecorateVec))
  BY <1>0, <1>1, <1>3, <1>5, <1>6, KnownGroup
<1>8. Pending(input, n + 1, <<>>)
  BY DEF Pending
<1>9. OwnGroups(input) => Own(input, n + 1, IdEntryMap', <<>>, Taken(DecGroupVec, x, DecorateVec))
  BY <1>0, <1>1, <1>3, <1>5, <1>6, OwnGroup
<1>10. /\ Known(input, pos, IdEntryMap', DecGroupVec') /\ Pending(input, pos, DecorateVec')
       /\ OwnGroups(input) => Own(input, pos, IdEntryMap', DecorateVec', DecGroupVec')
  BY <1>1, <1>2, <1>7, <1>8, <1>9
<1>. QED
  BY <1>0, <1>2, <1>4, <1>10, ArriveNext

LEMMA ArriveApply ==
  ASSUME TableInv, ArriveInv, DecodeGroupDecorate
  PROVE  ArriveInv'
<1> DEFINE n == pos - 1
           x == Inst
           ds == GroupDecorations(x.id)
<1>0. /\ input \in Seq(Annotated) /\ DecGroupVec \in Seq(Owned) /\ Reading
      /\ pos \in 1 .. Len(input) /\ x.op = "GroupDecorate" /\ x.id \in Ids /\ x.targets \subseteq Ids
  BY InstFacts DEF TableInv, Reading, Vectors, DecodeGroupDecorate
<1>1. n \in Nat /\ n < Len(input) /\ pos = n + 1 /\ input[pos] = x /\ input[n + 1] = x
  BY <1>0, Place
<1>2. /\ input' = input /\ pos' = pos + 1 /\ DecorateVec' = DecorateVec
      /\ DecGroupVec' = DecGroupVec /\ NamedId' = NamedId
  BY DEF Advance, DecodeGroupDecorate
<1>3. GroupsKnown
  BY DEF ArriveInv, Known, GroupsKnown
<1>4. /\ IdEntryMap[x.id].kind = "group" /\ ds \in Seq(Of(Decorations))
      /\ \A j \in Ids \ x.targets : IdEntryMap'[j] = IdEntryMap[j]
      /\ \A j \in x.targets :
           /\ IdEntryMap'[j].kind = IF IdEntryMap[j].kind = "none" THEN "forward"
                                    ELSE IdEntryMap[j].kind
           /\ IdEntryMap'[j].decs = IdEntryMap[j].decs \cup ToSet(ds)
           /\ Linked(ds) = {} => IdEntryMap'[j].name = IdEntryMap[j].name
  BY <1>3, GroupDecorateStep
<1>5. PICK k \in 1 .. Len(DecGroupVec) :
        DecGroupVec[k] \in Owned /\ DecGroupVec[k].group.id = x.id /\ ds = DecGroupVec[k].decs
  BY <1>0, <1>3, <1>4, GroupOwns
<1>6. /\ Known(input, n, IdEntryMap, DecGroupVec) /\ Pending(input, n, DecorateVec)
      /\ OwnGroups(input) => Own(input, n, IdEntryMap, DecorateVec, DecGroupVec)
      /\ OwnGroups(input) /\ LinkageOnSymbols(input) => NamesRead(input, n, IdEntryMap, NamedId)
  BY DEF ArriveInv
<1> HIDE DEF n, x, ds
<1>7. SameGroups(IdEntryMap, IdEntryMap')
  BY <1>4 DEF SameGroups
<1>8. Known(input, n + 1, IdEntryMap', DecGroupVec)
  BY <1>0, <1>1, <1>4, <1>6, <1>7, KnownMore
<1>9. Pending(input, n + 1, DecorateVec)
  BY <1>0, <1>1, <1>6, PendingMore
<1>10. ASSUME Own(input, n, IdEntryMap, DecorateVec, DecGroupVec)
       PROVE  Own(input, n + 1, IdEntryMap', DecorateVec, DecGroupVec)
  <2>1. /\ \A i \in x.targets : IdEntryMap'[i].decs = IdEntryMap[i].decs \cup ToSet(DecGroupVec[k].decs)
        /\ \A i \in Ids \ x.targets : IdEntryMap'[i].decs = IdEntryMap[i].decs
    BY <1>4, <1>5
  <2>. QED
    BY <1>0, <1>1, <1>5, <1>7, <1>10, <2>1, OwnApply
<1>11. ASSUME Own(input, n, IdEntryMap, DecorateVec, DecGroupVec), LinkageOnSymbols(input)
       PROVE  Linked(ds) = {}
  <2> SUFFICES ASSUME NEW h \in Linked(ds) PROVE FALSE
    OBVIOUS
  <2>1. h \in 1 .. Len(ds) /\ ds[h].op = "Linkage"
    BY DEF Linked
  <2>2. ds[h] \in ToSet(ds)
    BY <1>4, <2>1 DEF ToSet
  <2>3. ds[h] \in DirectTo(input, n, x.id)
    BY <1>5, <1>11, <2>2 DEF Own
  <2>4. PICK j \in 1 .. n : input[j] = ds[h] /\ input[j].id = x.id
    BY <2>3 DEF DirectTo
  <2>5. PICK l \in 1 .. n : input[l] = DecGroupVec[k].group
    BY <1>5, <1>6 DEF Known
  <2>6. DecGroupVec[k].group.op = "Group"
    BY <1>5 DEF Owned, Of
  <2>7. j \in 1 .. Len(input) /\ l \in 1 .. Len(input)
    BY <1>0, <1>1
  <2>. QED
    BY <1>5, <1>11, <2>1, <2>4, <2>5, <2>6, <2>7 DEF LinkageOnSymbols
<1>12. ASSUME NamesRead(input, n, IdEntryMap, NamedId), Linked(ds) = {}
       PROVE  NamesRead(input, pos, IdEntryMap', NamedId')
  <2>1. ASSUME NEW i \in Ids PROVE NameRead(input, pos, IdEntryMap', NamedId', i)
    <3>1. NameRead(input, n, IdEntryMap, NamedId, i)
      BY <1>12 DEF NamesRead
    <3>2. /\ IdEntryMap'[i].name = IdEntryMap[i].name
          /\ IdEntryMap'[i].kind \notin {"none", "forward"} =>
               IdEntryMap[i].kind \notin {"none", "forward"}
      BY <1>4, <1>12
    <3>. QED
      BY <1>0, <1>1, <1>2, <3>1, <3>2, NameKept
  <2>. QED
    BY <2>1 DEF NamesRead
<1>13. /\ Known(input, pos, IdEntryMap', DecGroupVec') /\ Pending(input, pos, DecorateVec')
       /\ OwnGroups(input) => Own(input, pos, IdEntryMap', DecorateVec', DecGroupVec')
  BY <1>1, <1>2, <1>6, <1>8, <1>9, <1>10
<1>14. OwnGroups(input) /\ LinkageOnSymbols(input) => NamesRead(input, pos, IdEntryMap', NamedId')
  BY <1>6, <1>11, <1>12
<1>. QED
  BY <1>0, <1>2, <1>13, <1>14, ArriveNext

-----------------------------------------------------------------------------
(* Every step of a reading keeps the tables well-typed.                    *)

LEMMA VectorsNext ==
  ASSUME EntryPointVec' \in Seq(Of({"EntryPoint"})),
         DecorateVec' \in Seq(Of(Decorations)),
         DecGroupVec' \in Seq(Owned),
         GroupDecVec' \in Seq(Of({"GroupDecorate"})),
         DefVec' \in Seq(Of({"Function", "Def"}))
  PROVE  Vectors'
BY DEF Vectors, Owned, Of, Annotated, InstType, Ops, Decorations, Definitions

\* Every instruction but an OpGroupDecorate of an unknown group.
Decode ==
  \/ DecodeName \/ DecodeEntryPoint \/ DecodeExecutionMode
  \/ DecodeDecorate \/ DecodeGroup \/ DecodeGroupDecorate
  \/ DecodeDef \/ DecodeFunction

LEMMA TableDecode ==
  ASSUME TableInv, GroupsKnown, Decode
  PROVE  TableInv' /\ pos \in 1 .. Len(input) /\ pos' = pos + 1 /\ input' = input
<1>0. Reading /\ Vectors
  BY DEF TableInv
<1>1. /\ EntryPointVec \in Seq(Of({"EntryPoint"})) /\ DecorateVec \in Seq(Of(Decorations))
      /\ DecGroupVec \in Seq(Owned) /\ GroupDecVec \in Seq(Of({"GroupDecorate"}))
      /\ DefVec \in Seq(Of({"Function", "Def"}))
  BY <1>0 DEF Vectors
<1>2. \A T : \A s \in Seq(T) : \A x \in T : Append(s, x) \in Seq(T)
  BY AppendProperties
<1>3. SUFFICES pos \in 1 .. Len(input) /\ Advance /\ Vectors' /\ Entries'
  BY <1>0, TableNext DEF Advance
<1>4. CASE DecodeName
  <2>1. At({"Name"}) /\ At({"Name", "EntryPoint"}) /\ SetName /\ Advance
    BY <1>4 DEF DecodeName, At
  <2>2. Vectors'
    BY <1>1, <1>4, VectorsNext DEF DecodeName
  <2>. QED
    BY <2>1, <2>2, NamedStep DEF At
<1>5. CASE DecodeEntryPoint
  <2>1. At({"EntryPoint"}) /\ At({"Name", "EntryPoint"}) /\ SetName /\ Advance
    BY <1>5 DEF DecodeEntryPoint, At
  <2>2. Inst \in Of({"EntryPoint"})
    BY <1>0, <2>1, InstFacts
  <2>3. EntryPointVec' \in Seq(Of({"EntryPoint"}))
    BY <1>1, <1>2, <1>5, <2>2 DEF DecodeEntryPoint
  <2>4. Vectors'
    BY <1>1, <1>5, <2>3, VectorsNext DEF DecodeEntryPoint
  <2>. QED
    BY <2>1, <2>4, NamedStep DEF At
<1>6. CASE DecodeExecutionMode
  <2>1. Vectors'
    BY <1>1, <1>6, VectorsNext DEF DecodeExecutionMode
  <2>2. Advance /\ pos \in 1 .. Len(input)
    BY <1>6 DEF DecodeExecutionMode, At
  <2>. QED
    BY <1>6, <2>1, <2>2, ModeStep
<1>7. CASE DecodeDecorate
  <2>1. At(Decorations) /\ Advance /\ pos \in 1 .. Len(input)
    BY <1>7 DEF DecodeDecorate, At
  <2>2. Inst \in Of(Decorations)
    BY <1>0, <2>1, InstFacts
  <2>3. DecorateVec' \in Seq(Of(Decorations))
    BY <1>1, <1>2, <1>7, <2>2 DEF DecodeDecorate
  <2>4. Vectors'
    BY <1>1, <1>7, <2>3, VectorsNext DEF DecodeDecorate
  <2>. QED
    BY <1>7, <2>1, <2>4, DecorateStep
<1>8. CASE DecodeGroup
  <2>1. At({"Group"}) /\ Define("group") /\ Advance /\ pos \in 1 .. Len(input)
    BY <1>8 DEF DecodeGroup, Define, At
  <2>2. Inst \in Of({"Group"})
    BY <1>0, <2>1, InstFacts
  <2>3. DecGroupVec' = Taken(DecGroupVec, Inst, DecorateVec)
    BY <1>8 DEF DecodeGroup, Taken
  <2>4. DecGroupVec' \in Seq(Owned)
    BY <1>1, <2>2, <2>3, TakenFacts
  <2>5. DecorateVec' = <<>> /\ UNCHANGED <<EntryPointVec, GroupDecVec, DefVec>>
    BY <1>8 DEF DecodeGroup
  <2>6. Vectors'
    BY <1>1, <2>4, <2>5, VectorsNext
  <2>. QED
    BY <2>1, <2>6, DefineStep
<1>9. CASE DecodeGroupDecorate
  <2>1. At({"GroupDecorate"}) /\ Advance /\ pos \in 1 .. Len(input)
    BY <1>9 DEF DecodeGroupDecorate, At
  <2>2. Inst \in Of({"GroupDecorate"})
    BY <1>0, <2>1, InstFacts
  <2>3. GroupDecVec' \in Seq(Of({"GroupDecorate"}))
    BY <1>1, <1>2, <1>9, <2>2 DEF DecodeGroupDecorate
  <2>4. Vectors'
    BY <1>1, <1>9, <2>3, VectorsNext DEF DecodeGroupDecorate
  <2>. QED
    BY <1>9, <2>1, <2>4, GroupDecorateStep
<1>10. ASSUME DecodeDef \/ DecodeFunction
       PROVE  pos \in 1 .. Len(input) /\ Advance /\ Vectors' /\ Entries'
  <2>1. /\ At({"Function", "Def"}) /\ Advance /\ pos \in 1 .. Len(input)
        /\ Define("other") \/ Define("function")
    BY <1>10 DEF DecodeDef, DecodeFunction, Define, At
  <2>2. Inst \in Of({"Function", "Def"})
    BY <1>0, <2>1, InstFacts
  <2>3. /\ DefVec' = Append(DefVec, Inst)
        /\ UNCHANGED <<EntryPointVec, DecorateVec, DecGroupVec, GroupDecVec>>
    BY <1>10 DEF DecodeDef, DecodeFunction
  <2>4. DefVec' \in Seq(Of({"Function", "Def"}))
    BY <1>1, <1>2, <2>2, <2>3
  <2>5. Vectors'
    BY <1>1, <2>3, <2>4, VectorsNext
  <2>. QED
    BY <2>1, <2>5, DefineStep
<1>. QED
  BY <1>4, <1>5, <1>6, <1>7, <1>8, <1>9, <1>10 DEF Decode

LEMMA ArriveDecode ==
  ASSUME TableInv, ArriveInv, Decode
  PROVE  ArriveInv'
<1>1. CASE DecodeName \/ DecodeEntryPoint
  <2>1. /\ At({"Name", "EntryPoint"}) /\ SetName /\ Advance
        /\ UNCHANGED <<DecorateVec, DecGroupVec>>
    BY <1>1 DEF DecodeName, DecodeEntryPoint, At
  <2>. QED
    BY <2>1, ArriveNamed
<1>2. CASE DecodeDef \/ DecodeFunction
  <2>1. PICK kind \in {"function", "other"} : Define(kind)
    BY <1>2 DEF DecodeDef, DecodeFunction
  <2>2. At({"Function", "Def"}) /\ DecorateVec' = DecorateVec /\ DecGroupVec' = DecGroupVec
    BY <1>2 DEF DecodeDef, DecodeFunction, At
  <2>. QED
    BY <2>1, <2>2, ArriveDefine
<1>. QED
  BY <1>1, <1>2, ArriveMode, ArriveDecorate, ArriveGroup, ArriveApply DEF Decode

-----------------------------------------------------------------------------
(* Every decoration read will be written once.                             *)

Decorating == Of(Decorations \cup {"Group"})
GroupRun(gv) == [k \in 1 .. Len(gv) |-> Append(gv[k].decs, gv[k].group)]
ReadAs(m, n, d) == {k \in 1 .. n : m[k] = d}

LEMMA GroupRunType ==
  ASSUME NEW gv \in Seq(Owned)
  PROVE  /\ GroupRun(gv) \in Seq(Seq(Decorating)) /\ Len(GroupRun(gv)) = Len(gv)
         /\ FlattenSeq(GroupRun(gv)) \in Seq(Decorating)
<1>1. ASSUME NEW o \in Owned PROVE Append(o.decs, o.group) \in Seq(Decorating)
  <2>1. o.decs \in Seq(Of(Decorations)) /\ o.group \in Of({"Group"})
    BY <1>1 DEF Owned
  <2>2. Of(Decorations) \subseteq Decorating /\ Of({"Group"}) \subseteq Decorating
    BY DEF Of, Decorating
  <2>3. o.decs \in Seq(Decorating) /\ o.group \in Decorating
    BY <2>1, <2>2
  <2>. QED
    BY <2>3, AppendProperties
<1>2. \A k \in 1 .. Len(gv) : gv[k] \in Owned
  OBVIOUS
<1>3. GroupRun(gv) \in Seq(Seq(Decorating)) /\ Len(GroupRun(gv)) = Len(gv)
  <2> DEFINE S == Seq(Decorating)
  <2>1. \A k \in 1 .. Len(gv) : Append(gv[k].decs, gv[k].group) \in S
    BY <1>1, <1>2
  <2> HIDE DEF S
  <2>2. GroupRun(gv) \in [1 .. Len(gv) -> S] /\ Len(gv) \in Nat
    BY <2>1 DEF GroupRun
  <2>. QED
    BY <2>2 DEF S
<1>. QED
  BY <1>3, FlattenType

LEMMA GroupRunTaken ==
  ASSUME NEW gv \in Seq(Owned), NEW dv \in Seq(Of(Decorations)), NEW x \in Of({"Group"})
  PROVE  FlattenSeq(GroupRun(Taken(gv, x, dv))) = FlattenSeq(GroupRun(gv)) \o Append(dv, x)
<1> DEFINE gw == Taken(gv, x, dv)
           s == Append(dv, x)
<1>1. /\ gw \in Seq(Owned) /\ Len(gw) = Len(gv) + 1 /\ Len(gv) \in Nat
      /\ \A k \in 1 .. Len(gv) : gw[k] = gv[k]
      /\ gw[Len(gv) + 1].group = x /\ gw[Len(gv) + 1].decs = dv
  BY TakenFacts
<1>2. s \in Seq(Decorating)
  <2>1. Of(Decorations) \subseteq Decorating /\ Of({"Group"}) \subseteq Decorating
    BY DEF Of, Decorating
  <2>2. dv \in Seq(Decorating) /\ x \in Decorating
    BY <2>1
  <2>. QED
    BY <2>2, AppendProperties
<1>3. GroupRun(gv) \in Seq(Seq(Decorating)) /\ Len(GroupRun(gv)) = Len(gv)
  BY GroupRunType
<1> HIDE DEF gw
<1>4. Len(GroupRun(gw)) = Len(gw) /\ GroupRun(gw) \in Seq(Seq(Decorating))
  BY <1>1, GroupRunType
<1>5. \A k \in 1 .. Len(gv) : GroupRun(gw)[k] = GroupRun(gv)[k]
  BY <1>1 DEF GroupRun
<1>6. GroupRun(gw)[Len(gv) + 1] = s
  BY <1>1 DEF GroupRun
<1> HIDE DEF s
<1>7. GroupRun(gw) = Append(GroupRun(gv), s)
  <2> DEFINE a == Append(GroupRun(gv), s)
  <2>1. /\ a \in Seq(Seq(Decorating)) /\ Len(a) = Len(gv) + 1 /\ a[Len(gv) + 1] = s
        /\ \A k \in 1 .. Len(gv) : a[k] = GroupRun(gv)[k]
    BY <1>2, <1>3, AppendProperties
  <2> HIDE DEF a
  <2>2. ASSUME NEW k \in 1 .. Len(a) PROVE a[k] = GroupRun(gw)[k]
    <3>1. k \in 1 .. Len(gv) \/ k = Len(gv) + 1
      BY <1>1, <2>1
    <3>. QED
      BY <1>5, <1>6, <2>1, <3>1
  <2>3. a = GroupRun(gw)
    BY <1>1, <1>4, <2>1, <2>2, SeqEqual
  <2>. QED
    BY <2>3 DEF a
<1>8. FlattenSeq(Append(GroupRun(gv), s)) = FlattenSeq(GroupRun(gv)) \o s
  BY <1>2, <1>3, FlattenAppend
<1>. QED
  BY <1>7, <1>8 DEF gw, s

\* What the vectors have of d, against the n instructions read.
Counted(m, n, gv, dv, d) ==
  Occurrences(FlattenSeq(GroupRun(gv)), d) + Occurrences(dv, d) = Cardinality(ReadAs(m, n, d))

LEMMA CountIs ==
  CountInv <=> \A d \in Of(Decorations) : Counted(input, pos - 1, DecGroupVec, DecorateVec, d)
BY Zenon DEF CountInv, Counted, WrittenGroups, GroupRun, ReadAs

LEMMA OneMoreRead ==
  ASSUME NEW m, NEW n \in Nat, NEW d
  PROVE  /\ IsFiniteSet(ReadAs(m, n, d)) /\ Cardinality(ReadAs(m, n, d)) \in Nat
         /\ m[n + 1] # d => ReadAs(m, n + 1, d) = ReadAs(m, n, d)
         /\ m[n + 1] = d => Cardinality(ReadAs(m, n + 1, d)) = Cardinality(ReadAs(m, n, d)) + 1
<1> DEFINE q == n + 1
<1>1. 1 .. q = (1 .. n) \cup {q} /\ q \notin 1 .. n
  OBVIOUS
<1> HIDE DEF q
<1>2. IsFiniteSet(1 .. n)
  BY FS_Interval
<1>3. IsFiniteSet(ReadAs(m, n, d))
  BY <1>2, FS_Subset DEF ReadAs
<1>4. Cardinality(ReadAs(m, n, d)) \in Nat
  BY <1>3, FS_CardinalityType
<1>5. m[q] # d => ReadAs(m, q, d) = ReadAs(m, n, d)
  BY <1>1 DEF ReadAs
<1>6. ASSUME m[q] = d PROVE Cardinality(ReadAs(m, q, d)) = Cardinality(ReadAs(m, n, d)) + 1
  <2>1. ReadAs(m, q, d) = ReadAs(m, n, d) \cup {q} /\ q \notin ReadAs(m, n, d)
    BY <1>1, <1>6 DEF ReadAs
  <2>. QED
    BY <1>3, <2>1, FS_AddElement
<1>. QED
  BY <1>3, <1>4, <1>5, <1>6 DEF q

LEMMA CountDecode ==
  ASSUME TableInv, CountInv, Decode
  PROVE  \A d \in Of(Decorations) : Counted(input, pos, DecGroupVec', DecorateVec', d)
<1> DEFINE n == pos - 1
           x == Inst
<1>0. Reading /\ pos \in 1 .. Len(input)
  BY DEF TableInv, Decode, DecodeName, DecodeEntryPoint, DecodeExecutionMode, DecodeDecorate,
         DecodeGroup, DecodeGroupDecorate, DecodeDef, DecodeFunction, At
<1>1. n \in Nat /\ pos = n + 1 /\ input[n + 1] = x
  BY <1>0, Place
<1>2. DecorateVec \in Seq(Of(Decorations)) /\ DecGroupVec \in Seq(Owned)
  BY DEF TableInv, Vectors
<1> SUFFICES ASSUME NEW d \in Of(Decorations)
             PROVE  Counted(input, pos, DecGroupVec', DecorateVec', d)
  OBVIOUS
<1>3. Counted(input, n, DecGroupVec, DecorateVec, d) /\ d.op \in Decorations
  BY CountIs DEF Of
<1>4. CASE x.op \notin Decorations /\ DecorateVec' = DecorateVec /\ DecGroupVec' = DecGroupVec
  <2> HIDE DEF n, x
  <2>1. input[n + 1] # d
    BY <1>1, <1>3, <1>4
  <2>2. ReadAs(input, n + 1, d) = ReadAs(input, n, d)
    BY <1>1, <2>1, OneMoreRead
  <2>3. ReadAs(input, pos, d) = ReadAs(input, n, d)
    BY <1>1, <2>2
  <2>. QED
    BY <1>3, <1>4, <2>3 DEF Counted
<1>5. CASE DecodeDecorate
  <2>1. x \in Of(Decorations)
    BY <1>0, <1>5, InstFacts DEF DecodeDecorate
  <2>2. DecorateVec' = Append(DecorateVec, x) /\ DecGroupVec' = DecGroupVec
    BY <1>5 DEF DecodeDecorate
  <2> HIDE DEF n, x
  <2>3. /\ Occurrences(DecorateVec', d) = Occurrences(DecorateVec, d) + (IF x = d THEN 1 ELSE 0)
        /\ Occurrences(DecorateVec, d) \in Nat
    BY <1>2, <2>1, <2>2, OccurrencesAppend, PlacesFinite
  <2>4. /\ Cardinality(ReadAs(input, n, d)) \in Nat
        /\ x # d => ReadAs(input, n + 1, d) = ReadAs(input, n, d)
        /\ x = d => Cardinality(ReadAs(input, n + 1, d)) = Cardinality(ReadAs(input, n, d)) + 1
    BY <1>1, OneMoreRead
  <2>5. Occurrences(FlattenSeq(GroupRun(DecGroupVec)), d) \in Nat
    BY <1>2, GroupRunType, PlacesFinite
  <2>6. Occurrences(FlattenSeq(GroupRun(DecGroupVec)), d) + Occurrences(DecorateVec, d)
          = Cardinality(ReadAs(input, n, d))
    BY <1>3 DEF Counted
  <2>7. Occurrences(FlattenSeq(GroupRun(DecGroupVec)), d) + Occurrences(DecorateVec', d)
          = Cardinality(ReadAs(input, n + 1, d))
    BY <2>3, <2>4, <2>5, <2>6
  <2>. QED
    BY <1>1, <2>2, <2>7 DEF Counted
<1>6. CASE DecodeGroup
  <2>1. x \in Of({"Group"}) /\ x.op \notin Decorations
    <3>1. x \in Of({"Group"}) /\ x.op \in {"Group"}
      BY <1>0, <1>6, InstFacts DEF DecodeGroup
    <3>. QED
      BY <3>1 DEF Decorations
  <2>2. DecGroupVec' = Taken(DecGroupVec, x, DecorateVec) /\ DecorateVec' = <<>>
    BY <1>6 DEF DecodeGroup, Taken
  <2> HIDE DEF n, x
  <2> DEFINE fl == FlattenSeq(GroupRun(DecGroupVec))
             a == Append(DecorateVec, x)
  <2>3. FlattenSeq(GroupRun(DecGroupVec')) = fl \o a
    BY <1>2, <2>1, <2>2, GroupRunTaken
  <2>4. fl \in Seq(Decorating)
    BY <1>2, GroupRunType
  <2>5. DecorateVec \in Seq(Decorating) /\ x \in Decorating /\ a \in Seq(Decorating)
    <3>1. Of(Decorations) \subseteq Decorating /\ Of({"Group"}) \subseteq Decorating
      BY DEF Of, Decorating
    <3>2. DecorateVec \in Seq(Decorating) /\ x \in Decorating
      BY <1>2, <2>1, <3>1
    <3>. QED
      BY <3>2, AppendProperties
  <2>6. x # d /\ input[n + 1] # d
    BY <1>1, <1>3, <2>1
  <2>7. Occurrences(a, d) = Occurrences(DecorateVec, d) + 0
    BY <2>5, <2>6, OccurrencesAppend
  <2>8. /\ Occurrences(DecorateVec, d) \in Nat /\ Occurrences(fl, d) \in Nat
    BY <2>4, <2>5, PlacesFinite
  <2> HIDE DEF fl, a
  <2>9. Occurrences(fl \o a, d) = Occurrences(fl, d) + Occurrences(a, d)
    BY <2>4, <2>5, OccurrencesConcat
  <2>10. Occurrences(DecorateVec', d) = 0
    <3> DEFINE e == <<>>
    <3>1. e \in Seq({}) /\ DecorateVec' = e
      BY <2>2
    <3> HIDE DEF e
    <3>. QED
      BY <3>1, OccurrencesNone
  <2>11. ReadAs(input, n + 1, d) = ReadAs(input, n, d)
    BY <1>1, <2>6, OneMoreRead
  <2>12. Occurrences(fl, d) + Occurrences(DecorateVec, d) = Cardinality(ReadAs(input, n, d))
    BY <1>3 DEF Counted, fl
  <2>13. Occurrences(fl \o a, d) + Occurrences(DecorateVec', d) = Cardinality(ReadAs(input, pos, d))
    BY <1>1, <2>7, <2>8, <2>9, <2>10, <2>11, <2>12
  <2>. QED
    BY <2>3, <2>13 DEF Counted
<1>7. DecodeName \/ DecodeEntryPoint \/ DecodeExecutionMode \/ DecodeGroupDecorate
        \/ DecodeDef \/ DecodeFunction
      => x.op \notin Decorations /\ DecorateVec' = DecorateVec /\ DecGroupVec' = DecGroupVec
  BY DEF DecodeName, DecodeEntryPoint, DecodeExecutionMode, DecodeGroupDecorate, DecodeDef,
         DecodeFunction, At, Decorations
<1>. QED
  BY <1>4, <1>5, <1>6, <1>7 DEF Decode

LEMMA CountNext ==
  ASSUME TableInv, GroupsKnown, CountInv, Decode
  PROVE  CountInv'
<1>1. pos' = pos + 1 /\ input' = input /\ pos \in 1 .. Len(input)
  BY TableDecode
<1>2. pos' - 1 = pos
  BY <1>1
<1>3. \A d \in Of(Decorations) : Counted(input, pos, DecGroupVec', DecorateVec', d)
  BY CountDecode
<1>4. Of(Decorations)' = Of(Decorations)
  BY DEF Of, Annotated, InstType, Ops, Decorations, Definitions
<1>5. WrittenGroups' = FlattenSeq(GroupRun(DecGroupVec'))
  BY Zenon DEF WrittenGroups, GroupRun
<1>6. \A d : Cardinality({k \in 1 .. (pos - 1) : input[k] = d})' = Cardinality(ReadAs(input, pos, d))
  BY <1>1, <1>2 DEF ReadAs
<1>. QED
  BY <1>3, <1>4, <1>5, <1>6 DEF CountInv, Counted

-----------------------------------------------------------------------------
(* What operator<< writes can be read.                                     *)

LEMMA ImageFinite ==
  ASSUME NEW S, IsFiniteSet(S), NEW f, f = [x \in S |-> f[x]], NEW T, T = {f[x] : x \in S}
  PROVE  IsFiniteSet(T)
<1>1. f \in Surjection(S, T)
  BY DEF Surjection
<1>. QED
  BY <1>1, FS_Surjection

LEMMA AnnotationOf ==
  ASSUME NEW op \in {"Mode", "Name"}, NEW i \in Ids, NEW a \in Anns
  PROVE  Annotation(op, i, a) \in Of({op})
BY DEF Annotation, Of, Annotated, InstType, Ops, Definitions

LEMMA ModesWritten ==
  ASSUME TableInv
  PROVE  WrittenModes \in Seq(Of({"Mode"}))
<1> DEFINE T == Of({"Mode"})
           modes(f) == {Annotation("Mode", f, a) : a \in IdEntryMap[f].modes}
           ss == [k \in 1 .. Len(EntryPointVec) |-> SetToSeq(modes(EntryPointVec[k].id))]
<1>1. ASSUME NEW f \in Ids PROVE SetToSeq(modes(f)) \in Seq(T)
  <2>1. IdEntryMap[f] \in EntryType /\ IsFiniteSet(IdEntryMap[f].modes)
    BY <1>1 DEF TableInv, Entries
  <2>2. IdEntryMap[f].modes \subseteq Anns
    BY <2>1 DEF EntryType
  <2>3. \A a \in IdEntryMap[f].modes : Annotation("Mode", f, a) \in T
    BY <2>2, AnnotationOf
  <2>4. modes(f) \subseteq T
    BY <2>3
  <2> DEFINE g == [a \in IdEntryMap[f].modes |-> Annotation("Mode", f, a)]
  <2>5. g = [a \in IdEntryMap[f].modes |-> g[a]]
        /\ modes(f) = {g[a] : a \in IdEntryMap[f].modes}
    OBVIOUS
  <2> HIDE DEF g, modes, T
  <2>6. IsFiniteSet(modes(f))
    BY <2>1, <2>5, ImageFinite
  <2>7. SetToSeq(modes(f)) \in Seq(modes(f))
    BY <2>6, Listed
  <2>. QED
    BY <2>4, <2>7, SeqMonotonic
<1>2. EntryPointVec \in Seq(Of({"EntryPoint"}))
  BY DEF TableInv, Vectors
<1>3. \A k \in 1 .. Len(EntryPointVec) : EntryPointVec[k].id \in Ids
  <2>1. \A x \in Of({"EntryPoint"}) : x.id \in Ids
    BY DEF Of, Annotated, InstType
  <2>. QED
    BY <1>2, <2>1
<1>4. WrittenModes = FlattenSeq(ss)
  BY DEF WrittenModes
<1>5. ss \in Seq(Seq(T))
  <2> DEFINE S == Seq(T)
  <2> HIDE DEF modes, T
  <2>1. \A k \in 1 .. Len(EntryPointVec) : SetToSeq(modes(EntryPointVec[k].id)) \in S
    BY <1>1, <1>3
  <2> HIDE DEF S
  <2>2. ss \in [1 .. Len(EntryPointVec) -> S] /\ Len(EntryPointVec) \in Nat
    BY <1>2, <2>1
  <2> HIDE DEF ss
  <2>. QED
    BY <2>2 DEF S
<1> HIDE DEF ss, T
<1>6. FlattenSeq(ss) \in Seq(T)
  BY <1>5, FlattenType
<1>. QED
  BY <1>4, <1>6 DEF T

LEMMA NamesWritten ==
  ASSUME TableInv
  PROVE  WrittenNames \in Seq(Of({"Name"}))
<1> DEFINE T == Of({"Name"})
           S == NamedId \ EntryPointIds
           g == [i \in S |-> Annotation("Name", i, IdEntryMap[i].name)]
           R == {g[i] : i \in S}
<1>1. IsFiniteSet(S)
  BY FS_Difference DEF TableInv, Entries
<1>2. \A i \in S : g[i] \in T
  <2>1. ASSUME NEW i \in S PROVE i \in Ids /\ IdEntryMap[i].name \in Anns
    <3>1. i \in Ids /\ IdEntryMap[i] \in EntryType /\ IdEntryMap[i].name # NoName
      BY DEF TableInv, Entries
    <3>. QED
      BY <3>1 DEF EntryType
  <2> HIDE DEF S
  <2>. QED
    BY <2>1, AnnotationOf
<1>3. WrittenNames = SetToSeq(R)
  BY DEF WrittenNames
<1>4. g = [i \in S |-> g[i]]
  OBVIOUS
<1> HIDE DEF S, g, T
<1>5. R \subseteq T
  BY <1>2
<1>6. IsFiniteSet(R)
  BY <1>1, <1>4, ImageFinite
<1> HIDE DEF R
<1>7. SetToSeq(R) \in Seq(R)
  BY <1>6, Listed
<1>. QED
  BY <1>3, <1>5, <1>7, SeqMonotonic DEF T

\* The sections of operator<<, each with its own kinds of instructions.
LEMMA WrittenSections ==
  ASSUME TableInv
  PROVE  /\ EntryPointVec \in Seq(Of({"EntryPoint"})) /\ WrittenModes \in Seq(Of({"Mode"}))
         /\ WrittenNames \in Seq(Of({"Name"})) /\ WrittenGroups \in Seq(Decorating)
         /\ DecorateVec \in Seq(Of(Decorations)) /\ GroupDecVec \in Seq(Of({"GroupDecorate"}))
         /\ DefVec \in Seq(Of({"Function", "Def"}))
<1>1. Vectors
  BY DEF TableInv
<1>2. WrittenGroups = FlattenSeq(GroupRun(DecGroupVec))
  BY Zenon DEF WrittenGroups, GroupRun
<1>3. WrittenGroups \in Seq(Decorating)
  BY <1>1, <1>2, GroupRunType DEF Vectors
<1>. QED
  BY <1>1, <1>3, ModesWritten, NamesWritten DEF Vectors

LEMMA Concatenated ==
  ASSUME NEW a \in Seq(Annotated), NEW b \in Seq(Annotated)
  PROVE  /\ a \o b \in Seq(Annotated)
         /\ \A d : Occurrences(a \o b, d) = Occurrences(a, d) + Occurrences(b, d)
         /\ \A d : Occurrences(a \o b, d) \in Nat /\ Occurrences(a, d) \in Nat /\ Occurrences(b, d) \in Nat
<1>1. a \o b \in Seq(Annotated)
  BY ConcatProperties
<1>. QED
  BY <1>1, OccurrencesConcat, PlacesFinite

LEMMA WrittenFacts ==
  ASSUME TableInv
  PROVE  /\ Written \in Seq(Annotated)
         /\ \A d \in Of(Decorations) :
              Occurrences(Written, d) = Occurrences(WrittenGroups, d) + Occurrences(DecorateVec, d)
<1> DEFINE e == EntryPointVec
           m == WrittenModes
           w == WrittenNames
           g == WrittenGroups
           v == DecorateVec
           u == GroupDecVec
           f == DefVec
<1>1. \A ops : Of(ops) \subseteq Annotated
  BY DEF Of
<1>2. /\ e \in Seq(Of({"EntryPoint"})) /\ m \in Seq(Of({"Mode"})) /\ w \in Seq(Of({"Name"}))
      /\ g \in Seq(Decorating) /\ v \in Seq(Of(Decorations)) /\ u \in Seq(Of({"GroupDecorate"}))
      /\ f \in Seq(Of({"Function", "Def"})) /\ Decorating \subseteq Annotated
  BY <1>1, WrittenSections DEF Decorating
<1>3. Written = (((((e \o m) \o w) \o g) \o v) \o u) \o f
  BY Zenon DEF Written
<1> HIDE DEF e, m, w, g, v, u, f
<1>4. /\ e \in Seq(Annotated) /\ m \in Seq(Annotated) /\ w \in Seq(Annotated) /\ g \in Seq(Annotated)
      /\ v \in Seq(Annotated) /\ u \in Seq(Annotated) /\ f \in Seq(Annotated)
  BY <1>1, <1>2, SeqMonotonic
<1> DEFINE s2 == e \o m
           s3 == s2 \o w
           s4 == s3 \o g
           s5 == s4 \o v
           s6 == s5 \o u
           s7 == s6 \o f
<1>5. s2 \in Seq(Annotated) /\ \A d : Occurrences(s2, d) = Occurrences(e, d) + Occurrences(m, d)
  BY <1>4, Concatenated
<1> HIDE DEF s2
<1>6. s3 \in Seq(Annotated) /\ \A d : Occurrences(s3, d) = Occurrences(s2, d) + Occurrences(w, d)
  BY <1>4, <1>5, Concatenated
<1> HIDE DEF s3
<1>7. s4 \in Seq(Annotated) /\ \A d : Occurrences(s4, d) = Occurrences(s3, d) + Occurrences(g, d)
  BY <1>4, <1>6, Concatenated
<1> HIDE DEF s4
<1>8. s5 \in Seq(Annotated) /\ \A d : Occurrences(s5, d) = Occurrences(s4, d) + Occurrences(v, d)
  BY <1>4, <1>7, Concatenated
<1> HIDE DEF s5
<1>9. s6 \in Seq(Annotated) /\ \A d : Occurrences(s6, d) = Occurrences(s5, d) + Occurrences(u, d)
  BY <1>4, <1>8, Concatenated
<1> HIDE DEF s6
<1>10. s7 \in Seq(Annotated) /\ \A d : Occurrences(s7, d) = Occurrences(s6, d) + Occurrences(f, d)
  BY <1>4, <1>9, Concatenated
<1>11. Written = s7
  BY <1>3 DEF s2, s3, s4, s5, s6
<1> HIDE DEF s7
<1>12. ASSUME NEW d \in Of(Decorations)
       PROVE  Occurrences(s7, d) = Occurrences(g, d) + Occurrences(v, d)
  <2>1. /\ d \notin Of({"EntryPoint"}) /\ d \notin Of({"Mode"}) /\ d \notin Of({"Name"})
        /\ d \notin Of({"GroupDecorate"}) /\ d \notin Of({"Function", "Def"})
    BY <1>12 DEF Of, Decorations
  <2>2. Occurrences(e, d) = 0 /\ Occurrences(m, d) = 0 /\ Occurrences(w, d) = 0
    BY <1>2, <2>1, OccurrencesNone
  <2>3. Occurrences(u, d) = 0 /\ Occurrences(f, d) = 0
    BY <1>2, <2>1, OccurrencesNone
  <2>4. Occurrences(g, d) \in Nat /\ Occurrences(v, d) \in Nat
    BY <1>4, PlacesFinite
  <2>5. Occurrences(s4, d) = Occurrences(g, d)
    BY <1>5, <1>6, <1>7, <2>2, <2>4
  <2>. QED
    BY <1>8, <1>9, <1>10, <2>3, <2>4, <2>5
<1>. QED
  BY <1>10, <1>11, <1>12 DEF g, v

-----------------------------------------------------------------------------
(* The theorems.                                                           *)

AnnotationInv == TableInv /\ ArriveInv /\ CountInv

LEMMA FreshInv ==
  ASSUME Fresh
  PROVE  Vectors /\ Entries /\ ArriveInv /\ CountInv
BY FreshTables, FreshArrive, FreshCount

LEMMA InitInv ==
  ASSUME Init
  PROVE  AnnotationInv
<1>1. Fresh
  BY DEF Init, Fresh
<1>2. input \in Seq(Annotated)
  <2>1. /\ input \in Seq(InstType)
        /\ \A i \in 1 .. Len(input) : input[i].op \notin Definitions \cup {"GroupDecorate"} => input[i].ann \in Anns
    BY ModulesAssumption DEF Init
  <2>2. \A i \in 1 .. Len(input) : input[i] \in Annotated
    BY <2>1 DEF Annotated
  <2>. QED
    BY <2>1, <2>2
<1>3. NoEntries \in [Ids -> EntryType]
  BY <1>1, FreshTables DEF Entries, Fresh
<1>4. Reading
  BY <1>2, <1>3 DEF Init, Reading
<1>. QED
  BY <1>1, <1>4, FreshInv DEF AnnotationInv, TableInv

LEMMA RereadInv ==
  ASSUME AnnotationInv, WriteAndReread
  PROVE  AnnotationInv'
<1>1. Fresh'
  BY DEF WriteAndReread, Fresh, NoEntries, Absent
<1>2. (Vectors /\ Entries /\ ArriveInv /\ CountInv)'
  BY <1>1, FreshInv, PTL
<1>3. Written \in Seq(Annotated) /\ IdEntryMap \in [Ids -> EntryType] /\ NamedId \subseteq Ids
  BY WrittenFacts DEF AnnotationInv, TableInv, Entries
<1>4. Reading'
  <2>1. /\ input' \in Seq(Annotated) /\ pos' = 1 /\ round' = 2
        /\ firstRead' = [entries |-> IdEntryMap, named |-> NamedId]
    BY <1>3 DEF WriteAndReread
  <2>2. Annotated' = Annotated /\ EntryType' = EntryType
    BY DEF Annotated, EntryType, EntryKinds, InstType, Ops, Decorations, Definitions
  <2>3. firstRead' \in [entries : [Ids -> EntryType], named : SUBSET Ids]
    BY <1>3, <2>1
  <2>4. pos' \in 1 .. (Len(input') + 1)
    BY <2>1
  <2>. QED
    BY <2>1, <2>2, <2>3, <2>4 DEF Reading
<1>. QED
  BY <1>2, <1>4 DEF AnnotationInv, TableInv

LEMMA StutterInv ==
  ASSUME AnnotationInv, UNCHANGED vars
  PROVE  AnnotationInv'
<1>1. /\ input' = input /\ pos' = pos /\ round' = round /\ IdEntryMap' = IdEntryMap
      /\ NamedId' = NamedId /\ EntryPointVec' = EntryPointVec /\ DecorateVec' = DecorateVec
      /\ DecGroupVec' = DecGroupVec /\ GroupDecVec' = GroupDecVec /\ DefVec' = DefVec
      /\ firstRead' = firstRead
  BY DEF vars, tables
<1>2. (Reading' <=> Reading) /\ (Entries' <=> Entries)
  BY <1>1 DEF Reading, Entries, Annotated, Absent, EntryType, EntryKinds, InstType, Ops, Decorations, Definitions
<1>3. Vectors' <=> Vectors
  BY <1>1 DEF Vectors, Owned, Of, Annotated, InstType, Ops, Decorations, Definitions
<1>4. ArriveInv' <=> ArriveInv
  BY <1>1 DEF ArriveInv, Known, Pending, Own, NamesRead, NameRead, NamingTo, DirectTo, DeclaredTo,
              AppliedTo, OwnGroups, LinkageOnSymbols, Decorations
<1>5. CountInv' <=> CountInv
  BY <1>1 DEF CountInv, WrittenGroups, Of, Annotated, InstType, Ops, Decorations, Definitions
<1>. QED
  BY <1>2, <1>3, <1>4, <1>5 DEF AnnotationInv, TableInv

LEMMA NextInv ==
  ASSUME AnnotationInv, [Next]_vars
  PROVE  AnnotationInv'
<1>1. CASE Decode
  <2>1. GroupsKnown
    BY DEF AnnotationInv, ArriveInv, Known, GroupsKnown
  <2>. QED
    BY <1>1, <2>1, TableDecode, ArriveDecode, CountNext DEF AnnotationInv
<1>2. CASE Finished \/ UNCHANGED vars
  BY <1>2, StutterInv DEF Finished
<1>. QED
  BY <1>1, <1>2, RereadInv DEF Next, Decode

(***************************************************************************)
(* Both readings keep the inductive invariant: each vector has             *)
(* instructions of its own kinds, groups and DecGroupVec agree,            *)
(* DecorateVec has what came behind the last group, every entry has what   *)
(* was declared and named so far, and every decoration read is in one      *)
(* group or in DecorateVec.                                                *)
(***************************************************************************)
THEOREM AnnotationsInvariant == Spec => []AnnotationInv
<1>1. Init => AnnotationInv
  BY InitInv
<1>2. AnnotationInv /\ [Next]_vars => AnnotationInv'
  BY NextInv
<1>. QED
  BY <1>1, <1>2, PTL DEF Spec

LEMMA TablesTyped ==
  ASSUME TableInv
  PROVE  TypeOK
<1>1. Annotated \subseteq InstType /\ \A ops : Of(ops) \subseteq InstType
  BY DEF Of, Annotated
<1>2. /\ input \in Seq(InstType) /\ EntryPointVec \in Seq(InstType) /\ DecorateVec \in Seq(InstType)
      /\ GroupDecVec \in Seq(InstType) /\ DefVec \in Seq(InstType)
  BY <1>1, SeqMonotonic DEF TableInv, Reading, Vectors
<1>3. DecGroupVec \in Seq([group : InstType, decs : Seq(InstType)])
  <2>1. \A s \in Seq(Of(Decorations)) : s \in Seq(InstType)
    BY <1>1, SeqMonotonic
  <2>2. Owned \subseteq [group : InstType, decs : Seq(InstType)]
    BY <1>1, <2>1 DEF Owned
  <2>. QED
    BY <2>2, SeqMonotonic DEF TableInv, Vectors
<1>. QED
  BY <1>2, <1>3 DEF TypeOK, TableInv, Reading, Entries

(***************************************************************************)
(* For modules of any size the tables keep their types while a module is   *)
(* read, written by operator<< and read again.                             *)
(***************************************************************************)
THEOREM AnnotationsTypeCorrect == Spec => []TypeOK
<1>1. AnnotationInv => TypeOK
  BY TablesTyped DEF AnnotationInv
<1>. QED
  BY <1>1, AnnotationsInvariant, PTL

LEMMA Arrived ==
  ASSUME AnnotationInv, LinkageOnSymbols(input)
  PROVE  AnnotationsArrive
<1> SUFFICES ASSUME OwnGroups(input), NEW i \in Ids
             PROVE  /\ IdEntryMap[i].decs = Declared(i)
                    /\ IdEntryMap[i].kind \notin {"none", "forward"} => NamedAsRead(i)
  BY DEF AnnotationsArrive
<1> DEFINE n == pos - 1
<1>1. /\ Own(input, n, IdEntryMap, DecorateVec, DecGroupVec)
      /\ NameRead(input, n, IdEntryMap, NamedId, i)
  BY DEF AnnotationInv, ArriveInv, NamesRead
<1>2. \A j : Direct(j) = DirectTo(input, n, j) /\ GroupsOn(j) = AppliedTo(input, n, j)
  BY Zenon DEF Direct, DirectTo, GroupsOn, AppliedTo, Read
<1>3. Declared(i) = DeclaredTo(input, n, i)
  BY <1>2 DEF Declared, DeclaredTo
<1>4. Naming(i) = NamingTo(input, n, i)
  BY Zenon DEF Naming, NamingTo, Read
<1> HIDE DEF n
<1>5. IdEntryMap[i].decs = Declared(i)
  BY <1>1, <1>3 DEF Own
<1>6. i \in NamedId => IdEntryMap[i].name # NoName
  BY DEF AnnotationInv, TableInv, Entries
<1>7. IdEntryMap[i].kind \notin {"none", "forward"} => NamedAsRead(i)
  BY <1>1, <1>4, <1>6 DEF NameRead, NamedAsRead
<1>. QED
  BY <1>5, <1>7

(***************************************************************************)
(* For modules of any size, with any number of ids, groups and forwards:   *)
(* whatever is read of a module, each id has exactly the decorations       *)
(* declared for it and each defined entry the last name given to its id.   *)
(* A linkage decoration names its target, so no group may have one.        *)
(***************************************************************************)
THEOREM AnnotationsArrived == Spec => [](LinkageOnSymbols(input) => AnnotationsArrive)
<1>1. AnnotationInv => (LinkageOnSymbols(input) => AnnotationsArrive)
  BY Arrived
<1>. QED
  BY <1>1, AnnotationsInvariant, PTL

LEMMA OnceWritten ==
  ASSUME AnnotationInv
  PROVE  WritesOnce
<1> SUFFICES ASSUME ReadOnce, NEW d \in ToSet(input), d.op \in Decorations
             PROVE  Occurrences(Written, d) = Occurrences(input, d)
  BY DEF WritesOnce
<1>1. TableInv /\ CountInv /\ input \in Seq(Annotated) /\ pos = Len(input) + 1
  BY DEF AnnotationInv, TableInv, Reading, ReadOnce
<1>2. d \in Of(Decorations)
  <2>1. d \in Annotated
    BY <1>1 DEF ToSet
  <2>. QED
    BY <2>1 DEF Of
<1>3. Occurrences(Written, d) = Occurrences(WrittenGroups, d) + Occurrences(DecorateVec, d)
  BY <1>1, <1>2, WrittenFacts
<1>4. Occurrences(WrittenGroups, d) + Occurrences(DecorateVec, d)
        = Cardinality({k \in 1 .. (pos - 1) : input[k] = d})
  BY <1>1, <1>2 DEF CountInv
<1>5. pos - 1 = Len(input)
  BY <1>1
<1>. QED
  BY <1>3, <1>4, <1>5 DEF Occurrences

(***************************************************************************)
(* For modules of any size operator<< writes every decoration exactly as   *)
(* often as it was read, with its group when one took it from DecorateVec, *)
(* and however often that group is applied.                                *)
(***************************************************************************)
THEOREM DecorationsWrittenOnce == Spec => []WritesOnce
<1>1. AnnotationInv => WritesOnce
  BY OnceWritten
<1>. QED
  BY <1>1, AnnotationsInvariant, PTL

-----------------------------------------------------------------------------
(* What a sequence of instructions says about an id.                       *)

\* Some instruction of these kinds is about i; the last one of a kind says a.
InLog(v, ops, i) == \E k \in 1 .. Len(v) : v[k].op \in ops /\ v[k].id = i
LastOf(v, op, i, a) ==
  \E k \in 1 .. Len(v) : /\ v[k].op = op /\ v[k].id = i /\ v[k].ann = a
                         /\ \A l \in (k + 1) .. Len(v) : ~(v[l].op = op /\ v[l].id = i)

\* The decorations of v that the group g takes, and those no group has taken.
NoGroup(v, j, k) == \A l \in j .. k : v[l].op # "Group"
Taking(v, g) ==
  {d \in Of(Decorations) : \E j, k \in 1 .. Len(v) :
     j < k /\ v[j] = d /\ v[k].op = "Group" /\ v[k].id = g /\ NoGroup(v, j, k - 1)}
Loose(v) == {d \in Of(Decorations) : \E j \in 1 .. Len(v) : v[j] = d /\ NoGroup(v, j, Len(v))}

Targeted(av, i) == \E k \in 1 .. Len(av) : i \in av[k].targets
DirectIn(v, i) == {d \in Of(Decorations) : d.id = i /\ \E k \in 1 .. Len(v) : v[k] = d}
GroupedIn(v, av, i) ==
  {d \in Of(Decorations) : \E k \in 1 .. Len(av) : i \in av[k].targets /\ d \in Taking(v, av[k].id)}

\* One instruction more.
LEMMA LogAppend ==
  ASSUME NEW v \in Seq(Annotated), NEW x \in Annotated, NEW w, w = Append(v, x)
  PROVE  /\ w \in Seq(Annotated) /\ Len(w) = Len(v) + 1 /\ Len(v) \in Nat /\ w[Len(v) + 1] = x
         /\ \A k \in 1 .. Len(v) : w[k] = v[k]
         /\ \A k : k \in 1 .. Len(w) <=> k \in 1 .. Len(v) \/ k = Len(v) + 1
<1>1. /\ w \in Seq(Annotated) /\ Len(w) = Len(v) + 1 /\ Len(v) \in Nat /\ w[Len(v) + 1] = x
      /\ \A k \in 1 .. Len(v) : w[k] = v[k]
  BY AppendProperties
<1>. QED
  BY <1>1

LEMMA InLogAppend ==
  ASSUME NEW v \in Seq(Annotated), NEW x \in Annotated, NEW ops, NEW i
  PROVE  InLog(Append(v, x), ops, i) <=> InLog(v, ops, i) \/ (x.op \in ops /\ x.id = i)
<1> DEFINE w == Append(v, x)
<1>1. /\ Len(w) = Len(v) + 1 /\ Len(v) \in Nat /\ w[Len(v) + 1] = x
      /\ \A k \in 1 .. Len(v) : w[k] = v[k]
      /\ \A k : k \in 1 .. Len(w) <=> k \in 1 .. Len(v) \/ k = Len(v) + 1
  BY LogAppend
<1> HIDE DEF w
<1>2. InLog(w, ops, i) <=> InLog(v, ops, i) \/ (x.op \in ops /\ x.id = i)
  BY <1>1 DEF InLog
<1>. QED
  BY <1>2 DEF w

LEMMA LastAppend ==
  ASSUME NEW v \in Seq(Annotated), NEW x \in Annotated, NEW op, NEW i, NEW a
  PROVE  /\ x.op = op /\ x.id = i => LastOf(Append(v, x), op, i, x.ann)
         /\ ~(x.op = op /\ x.id = i) /\ LastOf(v, op, i, a) => LastOf(Append(v, x), op, i, a)
<1> DEFINE w == Append(v, x)
           n == Len(v)
<1>1. /\ Len(w) = n + 1 /\ n \in Nat /\ w[n + 1] = x
      /\ \A k \in 1 .. n : w[k] = v[k]
  BY LogAppend
<1> HIDE DEF w, n
<1>2. ASSUME x.op = op, x.id = i PROVE LastOf(w, op, i, x.ann)
  <2>1. n + 1 \in 1 .. Len(w) /\ ((n + 1) + 1) .. Len(w) = {}
    BY <1>1
  <2>. QED
    BY <1>1, <1>2, <2>1 DEF LastOf
<1>3. ASSUME ~(x.op = op /\ x.id = i), LastOf(v, op, i, a) PROVE LastOf(w, op, i, a)
  <2>1. PICK k \in 1 .. n : /\ v[k].op = op /\ v[k].id = i /\ v[k].ann = a
                            /\ \A l \in (k + 1) .. n : ~(v[l].op = op /\ v[l].id = i)
    BY <1>3 DEF LastOf, n
  <2>2. k \in 1 .. Len(w) /\ w[k] = v[k]
    BY <1>1
  <2>3. ASSUME NEW l \in (k + 1) .. Len(w) PROVE ~(w[l].op = op /\ w[l].id = i)
    <3>1. CASE l = n + 1
      BY <1>1, <1>3, <3>1
    <3>2. CASE l # n + 1
      <4>1. l \in (k + 1) .. n /\ l \in 1 .. n
        BY <1>1, <2>1, <3>2
      <4>. QED
        BY <1>1, <2>1, <4>1
    <3>. QED
      BY <3>1, <3>2
  <2>. QED
    BY <2>1, <2>2, <2>3 DEF LastOf
<1>. QED
  BY <1>2, <1>3 DEF w

LEMMA LastUnique ==
  ASSUME NEW v \in Seq(Annotated), NEW op, NEW i, NEW a, NEW b, LastOf(v, op, i, a), LastOf(v, op, i, b)
  PROVE  a = b
<1>1. PICK k \in 1 .. Len(v) : /\ v[k].op = op /\ v[k].id = i /\ v[k].ann = a
                               /\ \A l \in (k + 1) .. Len(v) : ~(v[l].op = op /\ v[l].id = i)
  BY DEF LastOf
<1>2. PICK j \in 1 .. Len(v) : /\ v[j].op = op /\ v[j].id = i /\ v[j].ann = b
                               /\ \A l \in (j + 1) .. Len(v) : ~(v[l].op = op /\ v[l].id = i)
  BY DEF LastOf
<1>3. ~(j \in (k + 1) .. Len(v)) /\ ~(k \in (j + 1) .. Len(v))
  BY <1>1, <1>2
<1>4. j = k
  BY <1>3
<1>. QED
  BY <1>1, <1>2, <1>4

LEMMA DirectAppend ==
  ASSUME NEW v \in Seq(Annotated), NEW x \in Annotated, NEW i
  PROVE  /\ x.op \in Decorations /\ x.id = i => DirectIn(Append(v, x), i) = DirectIn(v, i) \cup {x}
         /\ ~(x.op \in Decorations /\ x.id = i) => DirectIn(Append(v, x), i) = DirectIn(v, i)
<1> DEFINE w == Append(v, x)
<1>1. /\ Len(v) \in Nat /\ w[Len(v) + 1] = x
      /\ \A k \in 1 .. Len(v) : w[k] = v[k]
      /\ \A k : k \in 1 .. Len(w) <=> k \in 1 .. Len(v) \/ k = Len(v) + 1
  BY LogAppend
<1> HIDE DEF w
<1>2. \A d : (\E k \in 1 .. Len(w) : w[k] = d) <=> d = x \/ \E k \in 1 .. Len(v) : v[k] = d
  BY <1>1
<1>3. x \in Of(Decorations) <=> x.op \in Decorations
  BY DEF Of
<1>4. /\ x.op \in Decorations /\ x.id = i => DirectIn(w, i) = DirectIn(v, i) \cup {x}
      /\ ~(x.op \in Decorations /\ x.id = i) => DirectIn(w, i) = DirectIn(v, i)
  BY <1>2, <1>3 DEF DirectIn
<1>. QED
  BY <1>4 DEF w

\* A decoration is loose until a group behind it takes all that is loose.
LEMMA TakingAppend ==
  ASSUME NEW v \in Seq(Annotated), NEW x \in Annotated, NEW g
  PROVE  /\ x.op = "Group" /\ x.id = g => Taking(Append(v, x), g) = Taking(v, g) \cup Loose(v)
         /\ ~(x.op = "Group" /\ x.id = g) => Taking(Append(v, x), g) = Taking(v, g)
<1> DEFINE w == Append(v, x)
           n == Len(v)
           From(u, d, j, k) == /\ j < k /\ u[j] = d /\ u[k].op = "Group" /\ u[k].id = g
                               /\ NoGroup(u, j, k - 1)
<1>1. /\ Len(w) = n + 1 /\ n \in Nat /\ w[n + 1] = x
      /\ \A k \in 1 .. n : w[k] = v[k]
  BY LogAppend
<1> HIDE DEF w, n
<1>2. \A u : Taking(u, g) = {d \in Of(Decorations) : \E j, k \in 1 .. Len(u) : From(u, d, j, k)}
  BY DEF Taking
<1>3. ASSUME NEW d, NEW j \in 1 .. n, NEW k \in 1 .. n PROVE From(w, d, j, k) <=> From(v, d, j, k)
  <2>1. \A l \in j .. (k - 1) : l \in 1 .. n
    BY <1>1
  <2>2. NoGroup(w, j, k - 1) <=> NoGroup(v, j, k - 1)
    BY <1>1, <2>1 DEF NoGroup
  <2>. QED
    BY <1>1, <2>2
<1>4. ASSUME NEW d, NEW j \in 1 .. n
      PROVE  From(w, d, j, n + 1) <=> /\ x.op = "Group" /\ x.id = g
                                      /\ v[j] = d /\ NoGroup(v, j, n)
  <2>1. j < n + 1 /\ (n + 1) - 1 = n /\ \A l \in j .. n : l \in 1 .. n
    BY <1>1
  <2>2. NoGroup(w, j, n) <=> NoGroup(v, j, n)
    BY <1>1, <2>1 DEF NoGroup
  <2>. QED
    BY <1>1, <2>1, <2>2
<1>5. \A d, k : k \in 1 .. (n + 1) => ~From(w, d, n + 1, k)
  BY <1>1
<1> HIDE DEF From
<1>6. \A k : k \in 1 .. Len(w) <=> k \in 1 .. n \/ k = n + 1
  BY <1>1
<1>7. ASSUME NEW d
      PROVE  (\E j, k \in 1 .. Len(w) : From(w, d, j, k)) <=>
               \/ \E j, k \in 1 .. Len(v) : From(v, d, j, k)
               \/ x.op = "Group" /\ x.id = g /\ \E j \in 1 .. Len(v) : v[j] = d /\ NoGroup(v, j, Len(v))
  <2>1. (\E j, k \in 1 .. Len(w) : From(w, d, j, k)) <=>
          (\E j, k \in 1 .. n : From(w, d, j, k)) \/ (\E j \in 1 .. n : From(w, d, j, n + 1))
    BY <1>1, <1>5, <1>6
  <2>2. (\E j, k \in 1 .. n : From(w, d, j, k)) <=> \E j, k \in 1 .. n : From(v, d, j, k)
    BY <1>3
  <2>3. (\E j \in 1 .. n : From(w, d, j, n + 1)) <=>
          x.op = "Group" /\ x.id = g /\ \E j \in 1 .. n : v[j] = d /\ NoGroup(v, j, n)
    BY <1>4
  <2>. QED
    BY <2>1, <2>2, <2>3 DEF n
<1>8. /\ x.op = "Group" /\ x.id = g => Taking(w, g) = Taking(v, g) \cup Loose(v)
      /\ ~(x.op = "Group" /\ x.id = g) => Taking(w, g) = Taking(v, g)
  BY <1>2, <1>7 DEF Loose
<1>. QED
  BY <1>8 DEF w

LEMMA LooseAppend ==
  ASSUME NEW v \in Seq(Annotated), NEW x \in Annotated
  PROVE  /\ x.op = "Group" => Loose(Append(v, x)) = {}
         /\ x.op \in Decorations => Loose(Append(v, x)) = Loose(v) \cup {x}
<1> DEFINE w == Append(v, x)
           n == Len(v)
<1>1. /\ Len(w) = n + 1 /\ n \in Nat /\ w[n + 1] = x
      /\ \A k \in 1 .. n : w[k] = v[k]
  BY LogAppend
<1> HIDE DEF w, n
<1>2. ASSUME NEW j \in 1 .. n
      PROVE  NoGroup(w, j, Len(w)) <=> NoGroup(v, j, n) /\ x.op # "Group"
  <2>1. \A l : l \in j .. Len(w) <=> l \in j .. n \/ l = n + 1
    BY <1>1
  <2>2. \A l \in j .. n : w[l] = v[l]
    BY <1>1
  <2>. QED
    BY <1>1, <2>1, <2>2 DEF NoGroup
<1>3. NoGroup(w, n + 1, Len(w)) <=> x.op # "Group"
  BY <1>1 DEF NoGroup
<1>4. \A k : k \in 1 .. Len(w) <=> k \in 1 .. n \/ k = n + 1
  BY <1>1
<1>5. ASSUME NEW d
      PROVE  (\E j \in 1 .. Len(w) : w[j] = d /\ NoGroup(w, j, Len(w))) <=>
               /\ x.op # "Group"
               /\ d = x \/ \E j \in 1 .. n : v[j] = d /\ NoGroup(v, j, n)
  BY <1>1, <1>2, <1>3, <1>4
<1>6. x.op \in Decorations => x \in Of(Decorations) /\ x.op # "Group"
  BY DEF Of, Decorations
<1>7. /\ x.op = "Group" => Loose(w) = {}
      /\ x.op \in Decorations => Loose(w) = Loose(v) \cup {x}
  BY <1>5, <1>6 DEF Loose, n
<1>. QED
  BY <1>7 DEF w

-----------------------------------------------------------------------------
(* The instructions each section of operator<< has so far, in the order    *)
(* they were read in.                                                      *)

DecLog == WrittenGroups \o DecorateVec
Grouping == Decorations \cup {"Group"}
Logged(v, ops, x) == IF x.op \in ops THEN Append(v, x) ELSE v

LEMMA LogTypes ==
  ASSUME TableInv
  PROVE  /\ EntryPointVec \in Seq(Of({"EntryPoint"})) /\ DecLog \in Seq(Decorating)
         /\ GroupDecVec \in Seq(Of({"GroupDecorate"})) /\ DefVec \in Seq(Of({"Function", "Def"}))
         /\ EntryPointVec \in Seq(Annotated) /\ DecLog \in Seq(Annotated)
         /\ GroupDecVec \in Seq(Annotated) /\ DefVec \in Seq(Annotated)
<1>1. \A ops : Of(ops) \subseteq Annotated
  BY DEF Of
<1>2. Decorating \subseteq Annotated /\ Of(Decorations) \subseteq Decorating
  BY <1>1 DEF Decorating, Of
<1>3. /\ EntryPointVec \in Seq(Of({"EntryPoint"})) /\ WrittenGroups \in Seq(Decorating)
      /\ DecorateVec \in Seq(Of(Decorations)) /\ GroupDecVec \in Seq(Of({"GroupDecorate"}))
      /\ DefVec \in Seq(Of({"Function", "Def"}))
  BY WrittenSections
<1>4. DecorateVec \in Seq(Decorating)
  BY <1>2, <1>3, SeqMonotonic
<1>5. DecLog \in Seq(Decorating)
  BY <1>3, <1>4, ConcatProperties DEF DecLog
<1>. QED
  BY <1>1, <1>2, <1>3, <1>5, SeqMonotonic

LEMMA ConcatAppend ==
  ASSUME NEW T, NEW a \in Seq(T), NEW b \in Seq(T), NEW x \in T
  PROVE  a \o Append(b, x) = Append(a \o b, x) /\ a \o <<>> = a
<1> DEFINE s == Append(b, x)
           c == a \o b
           l == a \o s
           r == Append(c, x)
<1>1. s \in Seq(T) /\ Len(s) = Len(b) + 1 /\ s[Len(b) + 1] = x /\ \A k \in 1 .. Len(b) : s[k] = b[k]
  BY AppendProperties
<1>2. /\ c \in Seq(T) /\ Len(c) = Len(a) + Len(b)
      /\ \A k \in 1 .. (Len(a) + Len(b)) : c[k] = IF k <= Len(a) THEN a[k] ELSE b[k - Len(a)]
  BY ConcatProperties
<1>3. Len(a) \in Nat /\ Len(b) \in Nat
  OBVIOUS
<1> HIDE DEF s, c
<1>4. /\ l \in Seq(T) /\ Len(l) = Len(a) + Len(s)
      /\ \A k \in 1 .. (Len(a) + Len(s)) : l[k] = IF k <= Len(a) THEN a[k] ELSE s[k - Len(a)]
  BY <1>1, ConcatProperties
<1>5. r \in Seq(T) /\ Len(r) = Len(c) + 1 /\ r[Len(c) + 1] = x /\ \A k \in 1 .. Len(c) : r[k] = c[k]
  <2>1. c \in Seq(T)
    BY <1>2
  <2>. QED
    BY <2>1, AppendProperties
<1> HIDE DEF l, r
<1>6. ASSUME NEW k \in 1 .. Len(l) PROVE l[k] = r[k]
  <2>1. CASE k <= Len(a)
    <3>1. /\ k \in 1 .. Len(c) /\ k \in 1 .. (Len(a) + Len(b)) /\ k \in 1 .. (Len(a) + Len(s))
      BY <1>1, <1>2, <1>3, <2>1
    <3>. QED
      BY <1>2, <1>4, <1>5, <2>1, <3>1
  <2>2. CASE Len(a) < k /\ k <= Len(a) + Len(b)
    <3>1. k - Len(a) \in 1 .. Len(b) /\ k \in 1 .. Len(c) /\ ~(k <= Len(a))
          /\ k \in 1 .. (Len(a) + Len(b)) /\ k \in 1 .. (Len(a) + Len(s))
      BY <1>1, <1>2, <1>3, <2>2
    <3>. QED
      BY <1>1, <1>2, <1>4, <1>5, <3>1
  <2>3. CASE k = Len(a) + Len(b) + 1
    <3>1. k - Len(a) = Len(b) + 1 /\ k = Len(c) + 1 /\ ~(k <= Len(a))
          /\ k \in 1 .. (Len(a) + Len(s))
      BY <1>1, <1>2, <1>3, <2>3
    <3>. QED
      BY <1>1, <1>4, <1>5, <3>1
  <2>. QED
    BY <1>1, <1>3, <1>4, <2>1, <2>2, <2>3
<1>7. l = r
  <2>1. l \in Seq(T) /\ r \in Seq(T) /\ Len(l) = Len(r)
    BY <1>1, <1>2, <1>3, <1>4, <1>5
  <2>. QED
    BY <1>6, <2>1, SeqEqual
<1>8. a \o <<>> = a
  OBVIOUS
<1>. QED
  BY <1>7, <1>8 DEF l, r, s, c

\* Each instruction is appended to the section it will be written in.
LEMMA LogsDecode ==
  ASSUME TableInv, Decode
  PROVE  /\ EntryPointVec' = Logged(EntryPointVec, {"EntryPoint"}, Inst)
         /\ DecLog' = Logged(DecLog, Grouping, Inst)
         /\ GroupDecVec' = Logged(GroupDecVec, {"GroupDecorate"}, Inst)
         /\ DefVec' = Logged(DefVec, {"Function", "Def"}, Inst)
         /\ Inst.op # "Group" => DecGroupVec' = DecGroupVec
<1>0. Reading
  BY DEF TableInv
<1>1. WrittenGroups = FlattenSeq(GroupRun(DecGroupVec))
      /\ WrittenGroups' = FlattenSeq(GroupRun(DecGroupVec'))
  BY Zenon DEF WrittenGroups, GroupRun
<1>2. DecLog' = WrittenGroups' \o DecorateVec' /\ DecLog = WrittenGroups \o DecorateVec
  BY DEF DecLog
<1>3. CASE DecodeDecorate
  <2>1. /\ At(Decorations) /\ DecorateVec' = Append(DecorateVec, Inst)
        /\ UNCHANGED <<EntryPointVec, DecGroupVec, GroupDecVec, DefVec>>
    BY <1>3 DEF DecodeDecorate
  <2>2. Inst.op \in Decorations /\ Inst \in Decorating
    BY <1>0, <2>1, InstFacts DEF Decorating, Of
  <2>3. WrittenGroups \in Seq(Decorating) /\ DecorateVec \in Seq(Decorating)
    <3>1. Of(Decorations) \subseteq Decorating
      BY DEF Of, Decorating
    <3>. QED
      BY <3>1, WrittenSections, SeqMonotonic
  <2> HIDE DEF Inst
  <2>4. DecLog' = Append(DecLog, Inst)
    BY <1>1, <1>2, <2>1, <2>2, <2>3, ConcatAppend
  <2>. QED
    BY <2>1, <2>2, <2>4 DEF Logged, Grouping, Decorations
<1>4. CASE DecodeGroup
  <2>1. /\ At({"Group"}) /\ DecGroupVec' = Taken(DecGroupVec, Inst, DecorateVec) /\ DecorateVec' = <<>>
        /\ UNCHANGED <<EntryPointVec, GroupDecVec, DefVec>>
    BY <1>4 DEF DecodeGroup, Taken
  <2>2. Inst.op = "Group" /\ Inst \in Of({"Group"}) /\ Inst \in Decorating
    BY <1>0, <2>1, InstFacts DEF Decorating, Of
  <2>3. /\ WrittenGroups \in Seq(Decorating) /\ DecorateVec \in Seq(Decorating)
        /\ DecorateVec \in Seq(Of(Decorations)) /\ DecGroupVec \in Seq(Owned)
    <3>1. Of(Decorations) \subseteq Decorating
      BY DEF Of, Decorating
    <3>. QED
      BY <3>1, WrittenSections, SeqMonotonic DEF TableInv, Vectors
  <2> HIDE DEF Inst
  <2>4. WrittenGroups' = WrittenGroups \o Append(DecorateVec, Inst)
    BY <1>1, <2>1, <2>2, <2>3, GroupRunTaken
  <2>5. WrittenGroups' = Append(DecLog, Inst)
    BY <1>2, <2>2, <2>3, <2>4, ConcatAppend
  <2>6. Append(DecLog, Inst) \in Seq(Decorating)
    <3>1. DecLog \in Seq(Decorating)
      BY LogTypes
    <3>. QED
      BY <2>2, <3>1, AppendProperties
  <2>7. DecLog' = Append(DecLog, Inst)
    BY <1>2, <2>1, <2>2, <2>5, <2>6, ConcatAppend
  <2>. QED
    BY <2>1, <2>2, <2>7 DEF Logged, Grouping, Decorations
<1>5. ASSUME Decode, ~DecodeDecorate, ~DecodeGroup
      PROVE  DecLog' = DecLog /\ DecGroupVec' = DecGroupVec
  <2>1. DecorateVec' = DecorateVec /\ DecGroupVec' = DecGroupVec
    BY <1>5 DEF Decode, DecodeName, DecodeEntryPoint, DecodeExecutionMode, DecodeGroupDecorate,
                DecodeDef, DecodeFunction
  <2>. QED
    BY <1>1, <1>2, <2>1
<1>6. CASE DecodeName \/ DecodeExecutionMode
  <2>1. /\ Inst.op \in {"Name", "Mode"} /\ ~DecodeDecorate /\ ~DecodeGroup
        /\ UNCHANGED <<EntryPointVec, GroupDecVec, DefVec>>
    BY <1>6 DEF DecodeName, DecodeExecutionMode, DecodeDecorate, DecodeGroup, At, Decorations
  <2> HIDE DEF Inst
  <2>. QED
    BY <1>5, <2>1 DEF Logged, Grouping, Decorations
<1>7. CASE DecodeEntryPoint
  <2>1. /\ Inst.op = "EntryPoint" /\ ~DecodeDecorate /\ ~DecodeGroup
        /\ EntryPointVec' = Append(EntryPointVec, Inst) /\ UNCHANGED <<GroupDecVec, DefVec>>
    BY <1>7 DEF DecodeEntryPoint, DecodeDecorate, DecodeGroup, At, Decorations
  <2> HIDE DEF Inst
  <2>. QED
    BY <1>5, <2>1 DEF Logged, Grouping, Decorations
<1>8. CASE DecodeGroupDecorate
  <2>1. /\ Inst.op = "GroupDecorate" /\ ~DecodeDecorate /\ ~DecodeGroup
        /\ GroupDecVec' = Append(GroupDecVec, Inst) /\ UNCHANGED <<EntryPointVec, DefVec>>
    BY <1>8 DEF DecodeGroupDecorate, DecodeDecorate, DecodeGroup, At, Decorations
  <2> HIDE DEF Inst
  <2>. QED
    BY <1>5, <2>1 DEF Logged, Grouping, Decorations
<1>9. CASE DecodeDef \/ DecodeFunction
  <2>1. /\ Inst.op \in {"Function", "Def"} /\ ~DecodeDecorate /\ ~DecodeGroup
        /\ DefVec' = Append(DefVec, Inst) /\ UNCHANGED <<EntryPointVec, GroupDecVec>>
    BY <1>9 DEF DecodeDef, DecodeFunction, DecodeDecorate, DecodeGroup, At, Decorations
  <2> HIDE DEF Inst
  <2>. QED
    BY <1>5, <2>1 DEF Logged, Grouping, Decorations
<1>. QED
  BY <1>3, <1>4, <1>6, <1>7, <1>8, <1>9 DEF Decode

-----------------------------------------------------------------------------
(* One more instruction x, in the section it belongs to.                   *)

LEMMA LoggedType ==
  ASSUME NEW v \in Seq(Annotated), NEW ops, NEW x \in Annotated
  PROVE  Logged(v, ops, x) \in Seq(Annotated)
BY AppendProperties DEF Logged

LEMMA LoggedIn ==
  ASSUME NEW v \in Seq(Annotated), NEW x \in Annotated, NEW all, NEW ops \in SUBSET all, NEW i
  PROVE  InLog(Logged(v, all, x), ops, i) <=> InLog(v, ops, i) \/ (x.op \in ops /\ x.id = i)
BY InLogAppend DEF Logged

LEMMA TargetedMore ==
  ASSUME NEW av \in Seq(Annotated), NEW x \in Annotated, NEW i
  PROVE  Targeted(Logged(av, {"GroupDecorate"}, x), i) <=>
           Targeted(av, i) \/ (x.op = "GroupDecorate" /\ i \in x.targets)
<1> DEFINE w == Append(av, x)
<1>1. /\ Len(w) = Len(av) + 1 /\ Len(av) \in Nat /\ w[Len(av) + 1] = x
      /\ \A k \in 1 .. Len(av) : w[k] = av[k]
      /\ \A k : k \in 1 .. Len(w) <=> k \in 1 .. Len(av) \/ k = Len(av) + 1
  BY LogAppend
<1> HIDE DEF w
<1>2. Targeted(w, i) <=> Targeted(av, i) \/ i \in x.targets
  BY <1>1 DEF Targeted
<1>. QED
  BY <1>2 DEF Logged, w

LEMMA DirectMore ==
  ASSUME NEW v \in Seq(Annotated), NEW x \in Annotated, NEW i
  PROVE  /\ x.op \in Decorations /\ x.id = i =>
              DirectIn(Logged(v, Grouping, x), i) = DirectIn(v, i) \cup {x}
         /\ ~(x.op \in Decorations /\ x.id = i) => DirectIn(Logged(v, Grouping, x), i) = DirectIn(v, i)
BY DirectAppend DEF Logged, Grouping

LEMMA TakingMore ==
  ASSUME NEW v \in Seq(Annotated), NEW x \in Annotated, NEW g, ~(x.op = "Group" /\ x.id = g)
  PROVE  Taking(Logged(v, Grouping, x), g) = Taking(v, g)
BY TakingAppend DEF Logged

\* What was applied stays as it is: a group is applied after it is complete.
LEMMA GroupedMore ==
  ASSUME NEW v \in Seq(Annotated), NEW av \in Seq(Annotated), NEW x \in Annotated, NEW i,
         x.op = "Group" => \A k \in 1 .. Len(av) : av[k].id # x.id
  PROVE  /\ x.op = "GroupDecorate" /\ i \in x.targets =>
              GroupedIn(Logged(v, Grouping, x), Logged(av, {"GroupDecorate"}, x), i)
                = GroupedIn(v, av, i) \cup Taking(v, x.id)
         /\ ~(x.op = "GroupDecorate" /\ i \in x.targets) =>
              GroupedIn(Logged(v, Grouping, x), Logged(av, {"GroupDecorate"}, x), i)
                = GroupedIn(v, av, i)
<1> DEFINE w == Logged(v, Grouping, x)
           aw == Append(av, x)
<1>1. \A k \in 1 .. Len(av) : Taking(w, av[k].id) = Taking(v, av[k].id)
  BY TakingMore
<1>2. x.op = "GroupDecorate" => w = v
  BY DEF Logged, Grouping, Decorations
<1>3. /\ Len(av) \in Nat /\ aw[Len(av) + 1] = x
      /\ \A k \in 1 .. Len(av) : aw[k] = av[k]
      /\ \A k : k \in 1 .. Len(aw) <=> k \in 1 .. Len(av) \/ k = Len(av) + 1
  BY LogAppend
<1> HIDE DEF w, aw
<1>4. GroupedIn(w, av, i) = GroupedIn(v, av, i)
  BY <1>1 DEF GroupedIn
<1>5. CASE x.op = "GroupDecorate"
  <2>1. \A d : d \in Taking(v, x.id) => d \in Of(Decorations)
    BY DEF Taking
  <2>2. GroupedIn(v, aw, i) = GroupedIn(v, av, i) \cup (IF i \in x.targets THEN Taking(v, x.id) ELSE {})
    BY <1>3, <2>1 DEF GroupedIn
  <2>3. Logged(av, {"GroupDecorate"}, x) = aw
    BY <1>5 DEF Logged, aw
  <2>. QED
    BY <1>2, <1>5, <2>2, <2>3 DEF w
<1>6. CASE x.op # "GroupDecorate"
  <2>1. Logged(av, {"GroupDecorate"}, x) = av
    BY <1>6 DEF Logged
  <2>. QED
    BY <1>4, <1>6, <2>1 DEF w
<1>. QED
  BY <1>5, <1>6

\* Whether an instruction is about an id, of these kinds.
About(x, ops, i) == x.op \in ops /\ x.id = i
Applies(x, i) == x.op = "GroupDecorate" /\ i \in x.targets

\* What each section says of i with x, against what it said before.
SaysMore(ev, v, av, fv, ew, w, aw, fw, x, i) ==
  /\ InLog(ew, {"EntryPoint"}, i) <=> InLog(ev, {"EntryPoint"}, i) \/ About(x, {"EntryPoint"}, i)
  /\ InLog(w, {"Group"}, i) <=> InLog(v, {"Group"}, i) \/ About(x, {"Group"}, i)
  /\ InLog(w, {"Linkage"}, i) <=> InLog(v, {"Linkage"}, i) \/ About(x, {"Linkage"}, i)
  /\ InLog(w, Decorations, i) <=> InLog(v, Decorations, i) \/ About(x, Decorations, i)
  /\ InLog(fw, {"Function"}, i) <=> InLog(fv, {"Function"}, i) \/ About(x, {"Function"}, i)
  /\ InLog(fw, {"Def"}, i) <=> InLog(fv, {"Def"}, i) \/ About(x, {"Def"}, i)
  /\ Targeted(aw, i) <=> Targeted(av, i) \/ Applies(x, i)
  /\ DirectIn(w, i) = IF About(x, Decorations, i) THEN DirectIn(v, i) \cup {x} ELSE DirectIn(v, i)
  /\ GroupedIn(w, aw, i) = IF Applies(x, i) THEN GroupedIn(v, av, i) \cup Taking(v, x.id)
                           ELSE GroupedIn(v, av, i)

LEMMA SectionsMore ==
  ASSUME NEW ev \in Seq(Annotated), NEW v \in Seq(Annotated), NEW av \in Seq(Annotated),
         NEW fv \in Seq(Annotated), NEW x \in Annotated, NEW i,
         x.op = "Group" => \A k \in 1 .. Len(av) : av[k].id # x.id
  PROVE  SaysMore(ev, v, av, fv, Logged(ev, {"EntryPoint"}, x), Logged(v, Grouping, x),
                  Logged(av, {"GroupDecorate"}, x), Logged(fv, {"Function", "Def"}, x), x, i)
<1> DEFINE ew == Logged(ev, {"EntryPoint"}, x)
           w == Logged(v, Grouping, x)
           aw == Logged(av, {"GroupDecorate"}, x)
           fw == Logged(fv, {"Function", "Def"}, x)
<1>1. {"Group"} \subseteq Grouping /\ {"Linkage"} \subseteq Grouping /\ Decorations \subseteq Grouping
  BY DEF Grouping, Decorations
<1>2. /\ InLog(ew, {"EntryPoint"}, i) <=> InLog(ev, {"EntryPoint"}, i) \/ About(x, {"EntryPoint"}, i)
      /\ InLog(fw, {"Function"}, i) <=> InLog(fv, {"Function"}, i) \/ About(x, {"Function"}, i)
      /\ InLog(fw, {"Def"}, i) <=> InLog(fv, {"Def"}, i) \/ About(x, {"Def"}, i)
  <2>1. {"EntryPoint"} \subseteq {"EntryPoint"} /\ {"Function"} \subseteq {"Function", "Def"}
        /\ {"Def"} \subseteq {"Function", "Def"}
    OBVIOUS
  <2>2. InLog(ew, {"EntryPoint"}, i) <=> InLog(ev, {"EntryPoint"}, i) \/ About(x, {"EntryPoint"}, i)
    BY <2>1, LoggedIn DEF About
  <2>3. InLog(fw, {"Function"}, i) <=> InLog(fv, {"Function"}, i) \/ About(x, {"Function"}, i)
    BY <2>1, LoggedIn DEF About
  <2>4. InLog(fw, {"Def"}, i) <=> InLog(fv, {"Def"}, i) \/ About(x, {"Def"}, i)
    BY <2>1, LoggedIn DEF About
  <2>. QED
    BY <2>2, <2>3, <2>4
<1>3. /\ InLog(w, {"Group"}, i) <=> InLog(v, {"Group"}, i) \/ About(x, {"Group"}, i)
      /\ InLog(w, {"Linkage"}, i) <=> InLog(v, {"Linkage"}, i) \/ About(x, {"Linkage"}, i)
      /\ InLog(w, Decorations, i) <=> InLog(v, Decorations, i) \/ About(x, Decorations, i)
  BY <1>1, LoggedIn DEF About
<1>4. Targeted(aw, i) <=> Targeted(av, i) \/ Applies(x, i)
  BY TargetedMore DEF Applies
<1>5. DirectIn(w, i) = IF About(x, Decorations, i) THEN DirectIn(v, i) \cup {x} ELSE DirectIn(v, i)
  <2>1. /\ About(x, Decorations, i) => DirectIn(w, i) = DirectIn(v, i) \cup {x}
        /\ ~About(x, Decorations, i) => DirectIn(w, i) = DirectIn(v, i)
    <3>1. /\ x.op \in Decorations /\ x.id = i => DirectIn(w, i) = DirectIn(v, i) \cup {x}
          /\ ~(x.op \in Decorations /\ x.id = i) => DirectIn(w, i) = DirectIn(v, i)
      BY DirectMore, ZenonT(40)
    <3> HIDE DEF w
    <3>. QED
      BY <3>1 DEF About
  <2>. QED
    BY <2>1, Zenon
<1>6. GroupedIn(w, aw, i) = IF Applies(x, i) THEN GroupedIn(v, av, i) \cup Taking(v, x.id)
                            ELSE GroupedIn(v, av, i)
  <2>1. /\ x.op = "GroupDecorate" /\ i \in x.targets =>
             GroupedIn(w, aw, i) = GroupedIn(v, av, i) \cup Taking(v, x.id)
        /\ ~(x.op = "GroupDecorate" /\ i \in x.targets) =>
             GroupedIn(w, aw, i) = GroupedIn(v, av, i)
    BY GroupedMore
  <2>. QED
    BY <2>1, Zenon DEF Applies
<1> HIDE DEF ew, w, aw, fw
<1>7. SaysMore(ev, v, av, fv, ew, w, aw, fw, x, i)
  BY <1>2, <1>3, <1>4, <1>5, <1>6 DEF SaysMore
<1>. QED
  BY <1>7 DEF ew, w, aw, fw

\* A linkage that no group has taken was not taken before either.
LEMMA LinkageLoose ==
  ASSUME NEW v \in Seq(Annotated), NEW x \in Annotated,
         NoLinkageInGroups(Logged(v, Grouping, x))
  PROVE  NoLinkageInGroups(v)
<1> DEFINE w == Append(v, x)
<1>1. /\ Len(w) = Len(v) + 1 /\ Len(v) \in Nat /\ w[Len(v) + 1] = x
      /\ \A k \in 1 .. Len(v) : w[k] = v[k]
      /\ \A k : k \in 1 .. Len(w) <=> k \in 1 .. Len(v) \/ k = Len(v) + 1
  BY LogAppend
<1> HIDE DEF w
<1>2. NoLinkageInGroups(w) => NoLinkageInGroups(v)
  BY <1>1 DEF NoLinkageInGroups
<1>. QED
  BY <1>2 DEF Logged, w

LEMMA NoneTaken ==
  ASSUME NEW v \in Seq(Annotated), NoLinkageInGroups(v), NEW g, NEW d \in Taking(v, g)
  PROVE  d.op # "Linkage"
<1>1. PICK j, k \in 1 .. Len(v) : j < k /\ v[j] = d /\ v[k].op = "Group"
  BY DEF Taking
<1>2. ~(k < j)
  BY <1>1
<1>. QED
  BY <1>1, <1>2 DEF NoLinkageInGroups

-----------------------------------------------------------------------------
(* The entry e of id i, and what the sections say about i.                 *)

EntryOf(e, named, ev, v, av, fv, i) ==
  /\ e.decs = DirectIn(v, i) \cup GroupedIn(v, av, i)
  /\ e.kind = "group" <=> InLog(v, {"Group"}, i)
  /\ e.kind = "function" <=> InLog(fv, {"Function"}, i)
  /\ e.kind = "other" <=> InLog(fv, {"Def"}, i)
  /\ e.kind \in {"none", "group", "other"} => e.modes = {}
  /\ e.kind = "forward" => i \in named \/ e.modes # {} \/ InLog(v, Decorations, i) \/ Targeted(av, i)
  /\ e.kind = "none" => ~(i \in named \/ InLog(v, Decorations, i) \/ Targeted(av, i))
  /\ InLog(ev, {"EntryPoint"}, i) => i \in named
  /\ InLog(v, {"Linkage"}, i) => e.name # NoName
  /\ InLog(v, {"Linkage"}, i) /\ e.kind \notin {"none", "forward"} => i \in named

\* A linkage decoration names its target behind what the entry points say.
NameOf(e, named, ev, v, i) ==
  /\ InLog(v, {"Linkage"}, i) => LastOf(v, "Linkage", i, e.name)
  /\ ~InLog(v, {"Linkage"}, i) /\ InLog(ev, {"EntryPoint"}, i) => LastOf(ev, "EntryPoint", i, e.name)
  /\ ~InLog(v, {"Linkage"}, i) /\ i \notin named => e.name = NoName

\* A group in DecGroupVec has what it took, DecorateVec what is still loose.
GroupLog(v, gv, dv, av) ==
  /\ \A k \in 1 .. Len(gv) : /\ InLog(v, {"Group"}, gv[k].group.id)
                             /\ ToSet(gv[k].decs) = Taking(v, gv[k].group.id)
  /\ ToSet(dv) = Loose(v)
  /\ \A k \in 1 .. Len(av) : InLog(v, {"Group"}, av[k].id)

KindOf(op) == IF op = "Group" THEN "group" ELSE IF op = "Function" THEN "function" ELSE "other"

\* What reading x does to the entry of i, and to its place in NamedId.
Reads(e, f, named, new, v, x, i) ==
  /\ ~Applies(x, i) /\ (x.op = "GroupDecorate" \/ x.id # i) => f = e /\ (i \in new <=> i \in named)
  /\ About(x, {"Name", "EntryPoint"}, i) =>
       /\ e.kind \in {"none", "forward"} /\ f.kind = "forward" /\ f.name = x.ann
       /\ f.decs = e.decs /\ f.modes = e.modes /\ i \in new
  /\ About(x, {"Mode"}, i) =>
       /\ e.kind \in {"none", "forward"} /\ f.kind = "forward" /\ f.name = e.name
       /\ f.decs = e.decs /\ f.modes = e.modes \cup {x.ann} /\ (i \in new <=> i \in named)
  /\ About(x, Decorations, i) =>
       /\ e.kind \in {"none", "forward"} /\ f.kind = "forward"
       /\ f.name = IF x.op = "Linkage" THEN x.ann ELSE e.name
       /\ f.decs = e.decs \cup {x} /\ f.modes = e.modes /\ (i \in new <=> i \in named)
  /\ About(x, Definitions, i) =>
       /\ e.kind \in {"none", "forward"} /\ f.kind = KindOf(x.op) /\ f.name = e.name
       /\ f.decs = e.decs /\ f.modes = IF x.op = "Function" THEN e.modes ELSE {}
       /\ i \in new <=> e.name # NoName
  /\ Applies(x, i) =>
       /\ f.kind = IF e.kind = "none" THEN "forward" ELSE e.kind
       /\ f.decs = e.decs \cup Taking(v, x.id) /\ f.modes = e.modes /\ (i \in new <=> i \in named)
       /\ NoLinkageInGroups(v) => f.name = e.name
       /\ e.name # NoName => f.name # NoName

LEMMA EntryMore ==
  ASSUME NEW ev, NEW v, NEW av, NEW fv, NEW ew, NEW w, NEW aw, NEW fw, NEW x \in Annotated, NEW i \in Ids,
         NEW e \in EntryType, NEW f \in EntryType, NEW named, NEW new,
         i \in named => e.name # NoName,
         SaysMore(ev, v, av, fv, ew, w, aw, fw, x, i), Reads(e, f, named, new, v, x, i),
         EntryOf(e, named, ev, v, av, fv, i)
  PROVE  EntryOf(f, new, ew, w, aw, fw, i)
<1>0. /\ x.op \in Ops /\ e.kind \in EntryKinds
      /\ x.op \in {"Name", "EntryPoint"} \cup Decorations => x.ann # NoName
  BY NoNameAssumption DEF Annotated, InstType, EntryType, Decorations, Definitions
<1>1. CASE ~Applies(x, i) /\ (x.op = "GroupDecorate" \/ x.id # i)
  <2>1. f = e /\ (i \in new <=> i \in named) /\ \A ops : About(x, ops, i) => "GroupDecorate" \in ops
    BY <1>1 DEF Reads, About
  <2>2. \A o \in Decorations \cup {"EntryPoint", "Group", "Linkage", "Function", "Def"} : o # "GroupDecorate"
    BY DEF Decorations
  <2>. QED
    BY <1>1, <2>1, <2>2 DEF SaysMore, EntryOf
<1>2. CASE About(x, {"Name", "EntryPoint"}, i)
  <2>1. /\ ~Applies(x, i) /\ ~About(x, Decorations, i) /\ ~About(x, {"Group"}, i) /\ ~About(x, {"Linkage"}, i)
        /\ ~About(x, {"Function"}, i) /\ ~About(x, {"Def"}, i) /\ x.ann # NoName
    BY <1>0, <1>2 DEF About, Applies, Decorations
  <2>. QED
    BY <1>2, <2>1 DEF SaysMore, EntryOf, Reads
<1>3. CASE About(x, {"Mode"}, i)
  <2>1. /\ ~Applies(x, i) /\ ~About(x, Decorations, i) /\ ~About(x, {"Group"}, i) /\ ~About(x, {"Linkage"}, i)
        /\ ~About(x, {"Function"}, i) /\ ~About(x, {"Def"}, i) /\ ~About(x, {"EntryPoint"}, i)
    BY <1>3 DEF About, Applies, Decorations
  <2>. QED
    BY <1>3, <2>1 DEF SaysMore, EntryOf, Reads
<1>4. CASE About(x, Decorations, i)
  <2>1. /\ ~Applies(x, i) /\ ~About(x, {"Group"}, i)
        /\ ~About(x, {"Function"}, i) /\ ~About(x, {"Def"}, i) /\ ~About(x, {"EntryPoint"}, i)
        /\ x.ann # NoName /\ (About(x, {"Linkage"}, i) <=> x.op = "Linkage")
    BY <1>0, <1>4 DEF About, Applies, Decorations
  <2>. QED
    BY <1>4, <2>1 DEF SaysMore, EntryOf, Reads
<1>5. CASE About(x, Definitions, i)
  <2>1. /\ ~Applies(x, i) /\ ~About(x, Decorations, i) /\ ~About(x, {"Linkage"}, i) /\ ~About(x, {"EntryPoint"}, i)
    BY <1>5 DEF About, Applies, Decorations, Definitions
  <2>2. /\ About(x, {"Group"}, i) <=> KindOf(x.op) = "group"
        /\ About(x, {"Function"}, i) <=> KindOf(x.op) = "function"
        /\ About(x, {"Def"}, i) <=> KindOf(x.op) = "other"
        /\ KindOf(x.op) \in {"group", "function", "other"}
        /\ x.op = "Function" <=> KindOf(x.op) = "function"
    BY <1>5 DEF About, Definitions, KindOf
  <2>. QED
    BY <1>5, <2>1, <2>2 DEF SaysMore, EntryOf, Reads
<1>6. CASE Applies(x, i)
  <2>1. /\ ~About(x, Decorations, i) /\ ~About(x, {"Group"}, i) /\ ~About(x, {"Linkage"}, i)
        /\ ~About(x, {"Function"}, i) /\ ~About(x, {"Def"}, i) /\ ~About(x, {"EntryPoint"}, i)
    BY <1>6 DEF About, Applies, Decorations
  <2>. QED
    BY <1>6, <2>1 DEF SaysMore, EntryOf, Reads
<1>7. \/ ~Applies(x, i) /\ (x.op = "GroupDecorate" \/ x.id # i)
      \/ About(x, {"Name", "EntryPoint"}, i) \/ About(x, {"Mode"}, i) \/ About(x, Decorations, i)
      \/ About(x, Definitions, i) \/ Applies(x, i)
  BY <1>0 DEF About, Ops
<1>. QED
  BY <1>1, <1>2, <1>3, <1>4, <1>5, <1>6, <1>7

LEMMA NameMore ==
  ASSUME NEW ev \in Seq(Annotated), NEW v \in Seq(Annotated), NEW av, NEW fv, NEW aw, NEW fw,
         NEW x \in Annotated, NEW i \in Ids,
         NEW e \in EntryType, NEW f \in EntryType, NEW named, NEW new,
         i \in named => e.name # NoName,
         SaysMore(ev, v, av, fv, Logged(ev, {"EntryPoint"}, x), Logged(v, Grouping, x), aw, fw, x, i),
         Reads(e, f, named, new, v, x, i), NoLinkageInGroups(v), NameOf(e, named, ev, v, i),
         About(x, {"Name", "EntryPoint"}, i) => ~InLog(v, {"Linkage"}, i),
         About(x, {"Name"}, i) => \A k \in 1 .. Len(ev) : ev[k].op = "EntryPoint" /\ ev[k].id = i => ev[k].ann = x.ann
  PROVE  NameOf(f, new, Logged(ev, {"EntryPoint"}, x), Logged(v, Grouping, x), i)
<1> DEFINE ew == Logged(ev, {"EntryPoint"}, x)
           w == Logged(v, Grouping, x)
<1>0. /\ x.op \in Ops
  BY DEF Annotated, InstType
<1>1. /\ ~About(x, {"EntryPoint"}, i) => \A a : LastOf(ev, "EntryPoint", i, a) => LastOf(ew, "EntryPoint", i, a)
      /\ About(x, {"EntryPoint"}, i) => LastOf(ew, "EntryPoint", i, x.ann)
  BY LastAppend DEF Logged, About
<1>2. /\ ~About(x, {"Linkage"}, i) => \A a : LastOf(v, "Linkage", i, a) => LastOf(w, "Linkage", i, a)
      /\ About(x, {"Linkage"}, i) => LastOf(w, "Linkage", i, x.ann)
  BY LastAppend DEF Logged, About, Grouping, Decorations
<1>3. /\ InLog(ew, {"EntryPoint"}, i) <=> InLog(ev, {"EntryPoint"}, i) \/ About(x, {"EntryPoint"}, i)
      /\ InLog(w, {"Linkage"}, i) <=> InLog(v, {"Linkage"}, i) \/ About(x, {"Linkage"}, i)
  BY DEF SaysMore
<1> HIDE DEF ew, w
<1>4. CASE ~Applies(x, i) /\ (x.op = "GroupDecorate" \/ x.id # i)
  <2>1. f = e /\ (i \in new <=> i \in named) /\ ~About(x, {"EntryPoint"}, i) /\ ~About(x, {"Linkage"}, i)
    BY <1>4 DEF Reads, About
  <2>. QED
    BY <1>1, <1>2, <1>3, <2>1 DEF NameOf, ew, w
<1>5. CASE About(x, {"Name", "EntryPoint"}, i)
  <2>1. /\ ~About(x, {"Linkage"}, i) /\ ~InLog(w, {"Linkage"}, i) /\ f.name = x.ann /\ i \in new
        /\ About(x, {"EntryPoint"}, i) \/ About(x, {"Name"}, i)
    BY <1>3, <1>5 DEF About, Reads
  <2>2. ASSUME InLog(ew, {"EntryPoint"}, i) PROVE LastOf(ew, "EntryPoint", i, x.ann)
    <3>1. CASE About(x, {"EntryPoint"}, i)
      BY <1>1, <3>1
    <3>2. CASE ~About(x, {"EntryPoint"}, i)
      <4>1. LastOf(ev, "EntryPoint", i, e.name)
        BY <1>3, <1>5, <2>2, <3>2 DEF NameOf
      <4>2. e.name = x.ann
        BY <2>1, <3>2, <4>1 DEF LastOf
      <4>. QED
        BY <1>1, <3>2, <4>1, <4>2
    <3>. QED
      BY <3>1, <3>2
  <2>. QED
    BY <2>1, <2>2 DEF NameOf, ew, w
<1>6. CASE About(x, {"Mode"}, i) \/ Applies(x, i)
  <2>1. /\ ~About(x, {"Linkage"}, i) /\ ~About(x, {"EntryPoint"}, i)
    BY <1>6 DEF About, Applies
  <2>2. f.name = e.name /\ (i \in new <=> i \in named)
    BY <1>6 DEF Reads
  <2>. QED
    BY <1>1, <1>2, <1>3, <2>1, <2>2 DEF NameOf, ew, w
<1>7. CASE About(x, Decorations, i)
  <2>1. ~About(x, {"EntryPoint"}, i) /\ (About(x, {"Linkage"}, i) <=> x.op = "Linkage")
    BY <1>7 DEF About, Decorations
  <2>2. f.name = (IF x.op = "Linkage" THEN x.ann ELSE e.name) /\ (i \in new <=> i \in named)
    BY <1>7 DEF Reads
  <2>. QED
    BY <1>1, <1>2, <1>3, <2>1, <2>2 DEF NameOf, ew, w
<1>8. CASE About(x, Definitions, i)
  <2>1. ~About(x, {"EntryPoint"}, i) /\ ~About(x, {"Linkage"}, i)
    BY <1>8 DEF About, Definitions
  <2>2. f.name = e.name /\ (i \in new <=> e.name # NoName)
    BY <1>8 DEF Reads
  <2>. QED
    BY <1>1, <1>2, <1>3, <2>1, <2>2 DEF NameOf, ew, w
<1>9. \/ ~Applies(x, i) /\ (x.op = "GroupDecorate" \/ x.id # i)
      \/ About(x, {"Name", "EntryPoint"}, i) \/ About(x, {"Mode"}, i) \/ About(x, Decorations, i)
      \/ About(x, Definitions, i) \/ Applies(x, i)
  BY <1>0 DEF About, Ops
<1>. QED
  BY <1>4, <1>5, <1>6, <1>7, <1>8, <1>9

-----------------------------------------------------------------------------
(* Every step of a reading, as it shows in the entry of one id.            *)

LEMMA GroupHasTaken ==
  ASSUME TableInv, GroupsKnown, GroupLog(DecLog, DecGroupVec, DecorateVec, GroupDecVec),
         NEW g \in Ids, IdEntryMap[g].kind = "group"
  PROVE  /\ ToSet(GroupDecorations(g)) = Taking(DecLog, g)
         /\ NoLinkageInGroups(DecLog) => Linked(GroupDecorations(g)) = {}
<1>1. PICK k \in 1 .. Len(DecGroupVec) : DecGroupVec[k].group.id = g
                                         /\ GroupDecorations(g) = DecGroupVec[k].decs
                                         /\ GroupDecorations(g) \in Seq(Of(Decorations))
  BY GroupOwns
<1>2. ToSet(GroupDecorations(g)) = Taking(DecLog, g)
  BY <1>1 DEF GroupLog
<1>3. ASSUME NoLinkageInGroups(DecLog) PROVE Linked(GroupDecorations(g)) = {}
  <2>1. DecLog \in Seq(Annotated)
    BY LogTypes
  <2> DEFINE ds == GroupDecorations(g)
  <2>2. \A q \in 1 .. Len(ds) : ds[q] \in Taking(DecLog, g)
    BY <1>2 DEF ToSet
  <2> HIDE DEF ds
  <2>3. \A q \in 1 .. Len(ds) : ds[q].op # "Linkage"
    BY <1>3, <2>1, <2>2, NoneTaken
  <2>. QED
    BY <2>3 DEF Linked, ds
<1>. QED
  BY <1>2, <1>3

LEMMA ReadsDecode ==
  ASSUME TableInv, GroupsKnown, GroupLog(DecLog, DecGroupVec, DecorateVec, GroupDecVec), Decode,
         NEW i \in Ids
  PROVE  Reads(IdEntryMap[i], IdEntryMap'[i], NamedId, NamedId', DecLog, Inst, i)
<1>1. CASE DecodeName \/ DecodeEntryPoint
  <2>1. At({"Name", "EntryPoint"}) /\ SetName /\ Inst.op \in {"Name", "EntryPoint"}
    BY <1>1 DEF DecodeName, DecodeEntryPoint, At
  <2>2. /\ IdEntryMap[Inst.id].kind \in {"none", "forward"} /\ IdEntryMap'[Inst.id].kind = "forward"
        /\ IdEntryMap'[Inst.id].name = Inst.ann
        /\ IdEntryMap'[Inst.id].decs = IdEntryMap[Inst.id].decs
        /\ IdEntryMap'[Inst.id].modes = IdEntryMap[Inst.id].modes
        /\ \A j \in Ids : j # Inst.id => IdEntryMap'[j] = IdEntryMap[j]
        /\ NamedId' = NamedId \cup {Inst.id}
    BY <2>1, NamedStep
  <2> HIDE DEF Inst
  <2>3. /\ ~Applies(Inst, i) /\ ~About(Inst, {"Mode"}, i) /\ ~About(Inst, Decorations, i)
        /\ ~About(Inst, Definitions, i) /\ Inst.op # "GroupDecorate"
    BY <2>1 DEF Applies, About, Decorations, Definitions
  <2>. QED
    BY <2>1, <2>2, <2>3 DEF Reads, About
<1>2. CASE DecodeExecutionMode
  <2>1. Inst.op = "Mode" /\ NamedId' = NamedId
    BY <1>2 DEF DecodeExecutionMode, At
  <2>2. /\ IdEntryMap[Inst.id].kind \in {"none", "forward"} /\ IdEntryMap'[Inst.id].kind = "forward"
        /\ IdEntryMap'[Inst.id].name = IdEntryMap[Inst.id].name
        /\ IdEntryMap'[Inst.id].decs = IdEntryMap[Inst.id].decs
        /\ IdEntryMap'[Inst.id].modes = IdEntryMap[Inst.id].modes \cup {Inst.ann}
        /\ \A j \in Ids : j # Inst.id => IdEntryMap'[j] = IdEntryMap[j]
    BY <1>2, ModeStep
  <2> HIDE DEF Inst
  <2>3. /\ ~Applies(Inst, i) /\ ~About(Inst, {"Name", "EntryPoint"}, i) /\ ~About(Inst, Decorations, i)
        /\ ~About(Inst, Definitions, i) /\ Inst.op # "GroupDecorate"
    BY <2>1 DEF Applies, About, Decorations, Definitions
  <2>. QED
    BY <2>1, <2>2, <2>3 DEF Reads, About
<1>3. CASE DecodeDecorate
  <2>1. Inst.op \in Decorations /\ NamedId' = NamedId
    BY <1>3 DEF DecodeDecorate, At
  <2>2. /\ IdEntryMap[Inst.id].kind \in {"none", "forward"} /\ IdEntryMap'[Inst.id].kind = "forward"
        /\ IdEntryMap'[Inst.id].name = IF Inst.op = "Linkage" THEN Inst.ann
                                       ELSE IdEntryMap[Inst.id].name
        /\ IdEntryMap'[Inst.id].decs = IdEntryMap[Inst.id].decs \cup {Inst}
        /\ IdEntryMap'[Inst.id].modes = IdEntryMap[Inst.id].modes
        /\ \A j \in Ids : j # Inst.id => IdEntryMap'[j] = IdEntryMap[j]
    BY <1>3, DecorateStep
  <2> HIDE DEF Inst
  <2>3. /\ ~Applies(Inst, i) /\ ~About(Inst, {"Name", "EntryPoint"}, i) /\ ~About(Inst, {"Mode"}, i)
        /\ ~About(Inst, Definitions, i) /\ Inst.op # "GroupDecorate"
    BY <2>1 DEF Applies, About, Decorations, Definitions
  <2>. QED
    BY <2>1, <2>2, <2>3 DEF Reads, About
<1>4. CASE DecodeGroup \/ DecodeDef \/ DecodeFunction
  <2>1. Inst.op \in Definitions /\ At(Definitions) /\ Define(KindOf(Inst.op))
    BY <1>4 DEF DecodeGroup, DecodeDef, DecodeFunction, At, Definitions, KindOf
  <2>2. KindOf(Inst.op) \in {"group", "function", "other"}
        /\ (KindOf(Inst.op) = "function" <=> Inst.op = "Function")
    BY DEF KindOf
  <2>3. /\ IdEntryMap[Inst.id].kind \in {"none", "forward"}
        /\ IdEntryMap'[Inst.id].kind = KindOf(Inst.op)
        /\ IdEntryMap'[Inst.id].name = IdEntryMap[Inst.id].name
        /\ IdEntryMap'[Inst.id].decs = IdEntryMap[Inst.id].decs
        /\ IdEntryMap'[Inst.id].modes = IF KindOf(Inst.op) = "function" THEN IdEntryMap[Inst.id].modes ELSE {}
        /\ \A j \in Ids : j # Inst.id => IdEntryMap'[j] = IdEntryMap[j]
        /\ \A j \in Ids : j # Inst.id => (j \in NamedId' <=> j \in NamedId)
        /\ Inst.id \in NamedId' <=> IdEntryMap[Inst.id].name # NoName
    BY <2>1, <2>2, DefineStep
  <2> HIDE DEF Inst
  <2>4. /\ ~Applies(Inst, i) /\ ~About(Inst, {"Name", "EntryPoint"}, i) /\ ~About(Inst, {"Mode"}, i)
        /\ ~About(Inst, Decorations, i) /\ Inst.op # "GroupDecorate"
    BY <2>1 DEF Applies, About, Decorations, Definitions
  <2>. QED
    BY <2>1, <2>2, <2>3, <2>4 DEF Reads, About
<1>5. CASE DecodeGroupDecorate
  <2>1. At({"GroupDecorate"}) /\ Inst.op = "GroupDecorate" /\ NamedId' = NamedId
    BY <1>5 DEF DecodeGroupDecorate, At
  <2>2. Inst.id \in Ids /\ Inst.targets \subseteq Ids
    BY <2>1, InstFacts DEF TableInv
  <2> DEFINE ds == GroupDecorations(Inst.id)
  <2>3. /\ IdEntryMap[Inst.id].kind = "group"
        /\ \A j \in Ids \ Inst.targets : IdEntryMap'[j] = IdEntryMap[j]
        /\ \A j \in Inst.targets :
              /\ IdEntryMap'[j].kind = IF IdEntryMap[j].kind = "none" THEN "forward"
                                       ELSE IdEntryMap[j].kind
              /\ IdEntryMap'[j].decs = IdEntryMap[j].decs \cup ToSet(ds)
              /\ IdEntryMap'[j].modes = IdEntryMap[j].modes
              /\ Linked(ds) = {} => IdEntryMap'[j].name = IdEntryMap[j].name
              /\ IdEntryMap[j].name # NoName => IdEntryMap'[j].name # NoName
    BY <1>5, GroupDecorateStep
  <2>4. ToSet(ds) = Taking(DecLog, Inst.id) /\ (NoLinkageInGroups(DecLog) => Linked(ds) = {})
    BY <2>2, <2>3, GroupHasTaken
  <2> HIDE DEF Inst, ds
  <2>5. /\ \A ops : About(Inst, ops, i) => "GroupDecorate" \in ops
        /\ "GroupDecorate" \notin Decorations /\ "GroupDecorate" \notin Definitions
        /\ (Applies(Inst, i) <=> i \in Inst.targets)
    BY <2>1 DEF About, Applies, Decorations, Definitions
  <2>. QED
    BY <2>1, <2>3, <2>4, <2>5 DEF Reads
<1>. QED
  BY <1>1, <1>2, <1>3, <1>4, <1>5 DEF Decode

LEMMA GroupLogDecode ==
  ASSUME TableInv, GroupsKnown, Decode,
         GroupLog(DecLog, DecGroupVec, DecorateVec, GroupDecVec),
         \A i \in Ids : IdEntryMap[i].kind = "group" <=> InLog(DecLog, {"Group"}, i)
  PROVE  /\ GroupLog(DecLog', DecGroupVec', DecorateVec', GroupDecVec')
         /\ Inst.op = "Group" => \A k \in 1 .. Len(GroupDecVec) : GroupDecVec[k].id # Inst.id
<1> DEFINE v == DecLog
           x == Inst
           w == Logged(v, Grouping, x)
           gv == DecGroupVec
           gw == DecGroupVec'
           dv == DecorateVec
           dw == DecorateVec'
           av == GroupDecVec
           aw == GroupDecVec'
<1>1. /\ DecLog' = w /\ aw = Logged(av, {"GroupDecorate"}, x)
      /\ x.op # "Group" => gw = gv
  BY LogsDecode
<1>2. x \in Annotated /\ x.id \in Ids
  <2>1. At(Ops)
    <3>1. pos \in 1 .. Len(input)
      BY TableDecode
    <3>2. input[pos] \in InstType
      BY <3>1 DEF TableInv, Reading, Annotated
    <3>. QED
      BY <3>1, <3>2 DEF At, Inst, InstType
  <2>. QED
    BY <2>1, InstFacts DEF TableInv
<1>3. v \in Seq(Annotated) /\ av \in Seq(Annotated) /\ gv \in Seq(Owned) /\ dv \in Seq(Of(Decorations))
  BY LogTypes DEF TableInv, Vectors
<1>4. /\ x.op = "Group" => /\ gw = Taken(gv, x, dv) /\ dw = <<>>
                           /\ IdEntryMap[x.id].kind # "group"
      /\ x.op \in Decorations => dw = Append(dv, x)
      /\ x.op \notin Grouping => dw = dv
      /\ x.op = "GroupDecorate" => IdEntryMap[x.id].kind = "group"
  BY DEF Decode, DecodeName, DecodeEntryPoint, DecodeExecutionMode, DecodeDecorate, DecodeGroup,
         DecodeGroupDecorate, DecodeDef, DecodeFunction, At, Define, Taken, Grouping, Decorations
<1>5. /\ \A k \in 1 .. Len(gv) : InLog(v, {"Group"}, gv[k].group.id) /\ ToSet(gv[k].decs) = Taking(v, gv[k].group.id)
      /\ ToSet(dv) = Loose(v) /\ \A k \in 1 .. Len(av) : InLog(v, {"Group"}, av[k].id)
  BY DEF GroupLog
<1>6. /\ x.op = "Group" => ~InLog(v, {"Group"}, x.id)
      /\ x.op = "GroupDecorate" => InLog(v, {"Group"}, x.id)
  BY <1>2, <1>4
<1> HIDE DEF v, x, w, gv, gw, dv, dw, av, aw
<1>7. \A i : InLog(w, {"Group"}, i) <=> InLog(v, {"Group"}, i) \/ (x.op = "Group" /\ x.id = i)
  <2>1. {"Group"} \subseteq Grouping
    BY DEF Grouping
  <2>2. \A i : InLog(w, {"Group"}, i) <=> InLog(v, {"Group"}, i) \/ (x.op \in {"Group"} /\ x.id = i)
    BY <1>2, <1>3, <2>1, LoggedIn DEF w
  <2>. QED
    BY <2>2
<1>8. \A g : InLog(v, {"Group"}, g) => Taking(w, g) = Taking(v, g)
  BY <1>2, <1>3, <1>6, TakingMore DEF w
<1>9. \A k \in 1 .. Len(gw) : InLog(w, {"Group"}, gw[k].group.id) /\ ToSet(gw[k].decs) = Taking(w, gw[k].group.id)
  <2>1. \A k \in 1 .. Len(gv) : InLog(w, {"Group"}, gv[k].group.id) /\ ToSet(gv[k].decs) = Taking(w, gv[k].group.id)
    BY <1>5, <1>7, <1>8
  <2>2. CASE x.op = "Group"
    <3>1. x \in Of({"Group"})
      BY <1>2, <2>2 DEF Of
    <3>2. /\ Len(gw) = Len(gv) + 1 /\ Len(gv) \in Nat
          /\ \A k \in 1 .. Len(gv) : gw[k] = gv[k]
          /\ gw[Len(gv) + 1].group = x /\ gw[Len(gv) + 1].decs = dv
      BY <1>3, <1>4, <2>2, <3>1, TakenFacts
    <3>3. w = Append(v, x)
      BY <2>2 DEF w, Logged, Grouping
    <3>4. Taking(w, x.id) = Taking(v, x.id) \cup Loose(v)
      BY <1>2, <1>3, <2>2, <3>3, TakingAppend
    <3>5. Taking(v, x.id) = {}
      BY <1>6, <2>2 DEF Taking, InLog
    <3>6. InLog(w, {"Group"}, x.id) /\ ToSet(dv) = Taking(w, x.id)
      BY <1>5, <1>7, <2>2, <3>4, <3>5
    <3>7. ASSUME NEW k \in 1 .. Len(gw)
          PROVE  InLog(w, {"Group"}, gw[k].group.id) /\ ToSet(gw[k].decs) = Taking(w, gw[k].group.id)
      <4>1. k \in 1 .. Len(gv) \/ k = Len(gv) + 1
        BY <3>2
      <4>. QED
        BY <2>1, <3>2, <3>6, <4>1
    <3>. QED
      BY <3>7
  <2>3. CASE x.op # "Group"
    BY <1>1, <2>1, <2>3
  <2>. QED
    BY <2>2, <2>3
<1>10. ToSet(dw) = Loose(w)
  <2>1. CASE x.op = "Group"
    <3>1. Loose(w) = {}
      BY <1>2, <1>3, <2>1, LooseAppend DEF w, Logged, Grouping
    <3>2. dw = <<>>
      BY <1>4, <2>1
    <3>. QED
      BY <3>1, <3>2 DEF ToSet
  <2>2. CASE x.op \in Decorations
    <3>1. Loose(w) = Loose(v) \cup {x}
      BY <1>2, <1>3, <2>2, LooseAppend DEF w, Logged, Grouping
    <3>2. dw = Append(dv, x) /\ x \in Of(Decorations)
      BY <1>2, <1>4, <2>2 DEF Of
    <3>3. ToSet(dw) = ToSet(dv) \cup {x}
      <4>1. /\ Len(dw) = Len(dv) + 1 /\ Len(dv) \in Nat /\ dw[Len(dv) + 1] = x
            /\ \A k \in 1 .. Len(dv) : dw[k] = dv[k]
        BY <1>3, <3>2, AppendProperties
      <4>2. \A k : k \in 1 .. Len(dw) <=> k \in 1 .. Len(dv) \/ k = Len(dv) + 1
        BY <4>1
      <4>. QED
        BY <4>1, <4>2 DEF ToSet
    <3>. QED
      BY <1>5, <3>1, <3>3
  <2>3. CASE x.op \notin Grouping
    BY <1>4, <1>5, <2>3 DEF w, Logged
  <2>. QED
    BY <2>1, <2>2, <2>3 DEF Grouping
<1>11. \A k \in 1 .. Len(aw) : InLog(w, {"Group"}, aw[k].id)
  <2>1. CASE x.op = "GroupDecorate"
    <3>1. aw = Append(av, x)
      BY <1>1, <2>1 DEF Logged
    <3>2. /\ Len(av) \in Nat /\ aw[Len(av) + 1] = x
          /\ \A k \in 1 .. Len(av) : aw[k] = av[k]
          /\ \A k : k \in 1 .. Len(aw) <=> k \in 1 .. Len(av) \/ k = Len(av) + 1
      BY <1>2, <1>3, <3>1, LogAppend
    <3>. QED
      BY <1>5, <1>6, <1>7, <2>1, <3>2
  <2>2. CASE x.op # "GroupDecorate"
    <3>1. aw = av
      BY <1>1, <2>2 DEF Logged
    <3>. QED
      BY <1>5, <1>7, <3>1
  <2>. QED
    BY <2>1, <2>2
<1>12. GroupLog(w, gw, dw, aw)
  BY <1>9, <1>10, <1>11 DEF GroupLog
<1>13. x.op = "Group" => \A k \in 1 .. Len(av) : av[k].id # x.id
  BY <1>5, <1>6
<1>. QED
  BY <1>1, <1>12, <1>13 DEF gw, dw, aw, av, x

-----------------------------------------------------------------------------
(* The sections of a module that operator<< wrote, and how far each has    *)
(* been read.                                                              *)

Within(q, o, v) == o < q /\ q <= o + Len(v)

\* v stands behind the first o instructions of m, and has all of these kinds.
SectionOf(m, o, v, ops) ==
  /\ o \in Nat /\ o + Len(v) <= Len(m)
  /\ \A k \in 1 .. Len(v) : m[o + k] = v[k]
  /\ \A q \in 1 .. Len(m) : m[q].op \in ops <=> Within(q, o, v)

Without(m, ops) == \A q \in 1 .. Len(m) : m[q].op \notin ops

\* w is what the first n instructions have of the section v.
Begun(n, o, v, w) ==
  /\ n <= o => Len(w) = 0
  /\ Within(n, o, v) => Len(w) = n - o
  /\ o + Len(v) < n => Len(w) = Len(v)
  /\ \A k \in 1 .. Len(w) : w[k] = v[k]

LEMMA ConcatPlaces ==
  ASSUME NEW a \in Seq(Annotated), NEW b \in Seq(Annotated), NEW c, c = a \o b
  PROVE  /\ c \in Seq(Annotated) /\ Len(c) = Len(a) + Len(b) /\ Len(a) \in Nat /\ Len(b) \in Nat
         /\ \A q \in 1 .. Len(a) : q \in 1 .. Len(c) /\ c[q] = a[q]
         /\ \A q \in 1 .. Len(b) : Len(a) + q \in 1 .. Len(c) /\ c[Len(a) + q] = b[q]
         /\ \A q \in 1 .. Len(c) : q \in 1 .. Len(a) \/ (q - Len(a) \in 1 .. Len(b) /\ q = Len(a) + (q - Len(a)))
<1>1. /\ c \in Seq(Annotated) /\ Len(c) = Len(a) + Len(b) /\ Len(a) \in Nat /\ Len(b) \in Nat
      /\ \A k \in 1 .. (Len(a) + Len(b)) : c[k] = IF k <= Len(a) THEN a[k] ELSE b[k - Len(a)]
  BY ConcatProperties
<1>2. \A q \in 1 .. Len(a) : q \in 1 .. Len(c) /\ c[q] = a[q]
  BY <1>1
<1>3. ASSUME NEW q \in 1 .. Len(b) PROVE Len(a) + q \in 1 .. Len(c) /\ c[Len(a) + q] = b[q]
  <2>1. Len(a) + q \in 1 .. (Len(a) + Len(b)) /\ ~(Len(a) + q <= Len(a)) /\ (Len(a) + q) - Len(a) = q
    BY <1>1
  <2>. QED
    BY <1>1, <2>1
<1>4. \A q \in 1 .. Len(c) : q \in 1 .. Len(a) \/ (q - Len(a) \in 1 .. Len(b) /\ q = Len(a) + (q - Len(a)))
  BY <1>1
<1>. QED
  BY <1>1, <1>2, <1>3, <1>4

LEMMA SectionLast ==
  ASSUME NEW a \in Seq(Annotated), NEW ops, Without(a, ops), NEW v \in Seq(Annotated),
         \A k \in 1 .. Len(v) : v[k].op \in ops
  PROVE  SectionOf(a \o v, Len(a), v, ops)
<1> DEFINE c == a \o v
<1>1. /\ Len(c) = Len(a) + Len(v) /\ Len(a) \in Nat /\ Len(v) \in Nat
      /\ \A q \in 1 .. Len(a) : q \in 1 .. Len(c) /\ c[q] = a[q]
      /\ \A q \in 1 .. Len(v) : Len(a) + q \in 1 .. Len(c) /\ c[Len(a) + q] = v[q]
      /\ \A q \in 1 .. Len(c) : q \in 1 .. Len(a) \/ (q - Len(a) \in 1 .. Len(v) /\ q = Len(a) + (q - Len(a)))
  BY ConcatPlaces
<1> HIDE DEF c
<1>2. ASSUME NEW q \in 1 .. Len(c) PROVE c[q].op \in ops <=> Within(q, Len(a), v)
  <2>1. CASE q \in 1 .. Len(a)
    <3>1. c[q].op \notin ops
      BY <1>1, <2>1 DEF Without
    <3>. QED
      BY <1>1, <2>1, <3>1 DEF Within
  <2>2. CASE q \notin 1 .. Len(a)
    <3>1. c[q].op \in ops
      BY <1>1, <2>2
    <3>. QED
      BY <1>1, <2>2, <3>1 DEF Within
  <2>. QED
    BY <2>1, <2>2
<1>3. SectionOf(c, Len(a), v, ops)
  BY <1>1, <1>2 DEF SectionOf
<1>. QED
  BY <1>3 DEF c

LEMMA SectionInside ==
  ASSUME NEW a \in Seq(Annotated), NEW b \in Seq(Annotated), NEW o, NEW v \in Seq(Annotated), NEW ops,
         SectionOf(a, o, v, ops), Without(b, ops)
  PROVE  SectionOf(a \o b, o, v, ops)
<1> DEFINE c == a \o b
<1>1. /\ Len(c) = Len(a) + Len(b) /\ Len(a) \in Nat /\ Len(b) \in Nat /\ Len(v) \in Nat
      /\ \A q \in 1 .. Len(a) : q \in 1 .. Len(c) /\ c[q] = a[q]
      /\ \A q \in 1 .. Len(b) : Len(a) + q \in 1 .. Len(c) /\ c[Len(a) + q] = b[q]
      /\ \A q \in 1 .. Len(c) : q \in 1 .. Len(a) \/ (q - Len(a) \in 1 .. Len(b) /\ q = Len(a) + (q - Len(a)))
  BY ConcatPlaces
<1> HIDE DEF c
<1>2. /\ o \in Nat /\ o + Len(v) <= Len(a)
      /\ \A k \in 1 .. Len(v) : a[o + k] = v[k]
      /\ \A q \in 1 .. Len(a) : a[q].op \in ops <=> Within(q, o, v)
  BY DEF SectionOf
<1>3. ASSUME NEW q \in 1 .. Len(c) PROVE c[q].op \in ops <=> Within(q, o, v)
  <2>1. CASE q \in 1 .. Len(a)
    BY <1>1, <1>2, <2>1
  <2>2. CASE q \notin 1 .. Len(a)
    <3>1. c[q].op \notin ops
      BY <1>1, <2>2 DEF Without
    <3>2. ~(q <= Len(a))
      BY <1>1, <2>2
    <3>. QED
      BY <1>1, <1>2, <3>1, <3>2 DEF Within
  <2>. QED
    BY <2>1, <2>2
<1>4. ASSUME NEW k \in 1 .. Len(v) PROVE c[o + k] = v[k]
  <2>1. o + k \in 1 .. Len(a)
    BY <1>1, <1>2
  <2>. QED
    BY <1>1, <1>2, <2>1
<1>5. SectionOf(c, o, v, ops)
  BY <1>1, <1>2, <1>3, <1>4 DEF SectionOf
<1>. QED
  BY <1>5 DEF c

LEMMA WithoutConcat ==
  ASSUME NEW a \in Seq(Annotated), NEW b \in Seq(Annotated), NEW ops, Without(a, ops), Without(b, ops)
  PROVE  Without(a \o b, ops)
<1> DEFINE c == a \o b
<1>1. /\ \A q \in 1 .. Len(a) : q \in 1 .. Len(c) /\ c[q] = a[q]
      /\ \A q \in 1 .. Len(b) : Len(a) + q \in 1 .. Len(c) /\ c[Len(a) + q] = b[q]
      /\ \A q \in 1 .. Len(c) : q \in 1 .. Len(a) \/ (q - Len(a) \in 1 .. Len(b) /\ q = Len(a) + (q - Len(a)))
  BY ConcatPlaces
<1> HIDE DEF c
<1>2. \A q \in 1 .. Len(c) : c[q].op \notin ops
  BY <1>1 DEF Without
<1>. QED
  BY <1>2 DEF Without, c

\* Six sections of kinds that exclude each other.
LEMMA SixSections ==
  ASSUME NEW a \in Seq(Of({"EntryPoint"})), NEW b \in Seq(Of({"Mode"})), NEW c \in Seq(Of({"Name"})),
         NEW d \in Seq(Decorating), NEW e \in Seq(Of({"GroupDecorate"})),
         NEW f \in Seq(Of({"Function", "Def"})), NEW m, m = ((((a \o b) \o c) \o d) \o e) \o f
  PROVE  /\ SectionOf(m, 0, a, {"EntryPoint"})
         /\ SectionOf(m, Len(a), b, {"Mode"})
         /\ \E p, q, r, s \in Nat :
              /\ SectionOf(m, p, c, {"Name"}) /\ SectionOf(m, q, d, Grouping)
              /\ SectionOf(m, r, e, {"GroupDecorate"}) /\ SectionOf(m, s, f, {"Function", "Def"})
              /\ p + Len(c) <= q /\ Len(a) <= q
         /\ m \in Seq(Annotated)
<1> DEFINE s2 == a \o b
           s3 == s2 \o c
           s4 == s3 \o d
           s5 == s4 \o e
           s6 == s5 \o f
<1>1. /\ a \in Seq(Annotated) /\ b \in Seq(Annotated) /\ c \in Seq(Annotated) /\ d \in Seq(Annotated)
      /\ e \in Seq(Annotated) /\ f \in Seq(Annotated)
  <2>1. \A ops : Of(ops) \subseteq Annotated
    BY DEF Of
  <2>2. Decorating \subseteq Annotated
    BY <2>1 DEF Decorating
  <2>. QED
    BY <2>1, <2>2, SeqMonotonic
<1>2. /\ \A k \in 1 .. Len(a) : a[k].op = "EntryPoint"
      /\ \A k \in 1 .. Len(b) : b[k].op = "Mode"
      /\ \A k \in 1 .. Len(c) : c[k].op = "Name"
  BY DEF Of
<1>3. /\ \A k \in 1 .. Len(d) : d[k].op \in Grouping
      /\ \A k \in 1 .. Len(e) : e[k].op = "GroupDecorate"
      /\ \A k \in 1 .. Len(f) : f[k].op \in {"Function", "Def"}
  BY DEF Of, Decorating, Grouping
<1>4. /\ Without(a, {"Mode"}) /\ Without(a, {"Name"}) /\ Without(a, Grouping)
      /\ Without(a, {"GroupDecorate"}) /\ Without(a, {"Function", "Def"})
  BY <1>2 DEF Without, Grouping, Decorations
<1>5. /\ Without(b, {"EntryPoint"}) /\ Without(b, {"Name"}) /\ Without(b, Grouping)
      /\ Without(b, {"GroupDecorate"}) /\ Without(b, {"Function", "Def"})
  BY <1>2 DEF Without, Grouping, Decorations
<1>6. /\ Without(c, {"EntryPoint"}) /\ Without(c, {"Mode"}) /\ Without(c, Grouping)
      /\ Without(c, {"GroupDecorate"}) /\ Without(c, {"Function", "Def"})
  BY <1>2 DEF Without, Grouping, Decorations
<1>7. /\ Without(d, {"EntryPoint"}) /\ Without(d, {"Mode"}) /\ Without(d, {"Name"})
      /\ Without(d, {"GroupDecorate"}) /\ Without(d, {"Function", "Def"})
  BY <1>3 DEF Without, Grouping, Decorations
<1>8. /\ Without(e, {"EntryPoint"}) /\ Without(e, {"Mode"}) /\ Without(e, {"Name"})
      /\ Without(e, Grouping) /\ Without(e, {"Function", "Def"})
  BY <1>3 DEF Without, Grouping, Decorations
<1>9. /\ Without(f, {"EntryPoint"}) /\ Without(f, {"Mode"}) /\ Without(f, {"Name"})
      /\ Without(f, Grouping) /\ Without(f, {"GroupDecorate"})
  BY <1>3 DEF Without, Grouping, Decorations
<1>10. /\ s2 \in Seq(Annotated) /\ Len(s2) = Len(a) + Len(b) /\ Len(a) \in Nat /\ Len(b) \in Nat
       /\ SectionOf(s2, Len(a), b, {"Mode"})
       /\ Without(s2, {"Name"}) /\ Without(s2, Grouping)
       /\ Without(s2, {"GroupDecorate"}) /\ Without(s2, {"Function", "Def"})
  <2>1. \A k \in 1 .. Len(b) : b[k].op \in {"Mode"}
    BY <1>2
  <2>2. SectionOf(s2, Len(a), b, {"Mode"})
    BY <1>1, <1>4, <2>1, SectionLast
  <2>. QED
    BY <1>1, <1>4, <1>5, <2>2, ConcatPlaces, WithoutConcat
<1>11. SectionOf(s2, 0, a, {"EntryPoint"})
  <2> DEFINE n == <<>>
  <2>1. n \in Seq(Annotated) /\ Len(n) = 0 /\ n \o a = a
    BY <1>1
  <2>2. Without(n, {"EntryPoint"})
    BY <2>1 DEF Without
  <2>3. \A k \in 1 .. Len(a) : a[k].op \in {"EntryPoint"}
    BY <1>2
  <2> HIDE DEF n
  <2>4. SectionOf(n \o a, Len(n), a, {"EntryPoint"})
    BY <1>1, <2>1, <2>2, <2>3, SectionLast
  <2>5. SectionOf(a, 0, a, {"EntryPoint"})
    BY <2>1, <2>4
  <2>. QED
    BY <1>1, <1>5, <2>5, SectionInside
<1> HIDE DEF s2
<1>12. /\ s3 \in Seq(Annotated) /\ Len(s3) = Len(s2) + Len(c) /\ Len(s2) \in Nat /\ Len(c) \in Nat
       /\ SectionOf(s3, Len(s2), c, {"Name"})
       /\ Without(s3, Grouping) /\ Without(s3, {"GroupDecorate"}) /\ Without(s3, {"Function", "Def"})
  <2>1. \A k \in 1 .. Len(c) : c[k].op \in {"Name"}
    BY <1>2
  <2>2. SectionOf(s3, Len(s2), c, {"Name"})
    BY <1>1, <1>10, <2>1, SectionLast
  <2>. QED
    BY <1>1, <1>10, <1>6, <2>2, ConcatPlaces, WithoutConcat
<1>13. SectionOf(s3, 0, a, {"EntryPoint"}) /\ SectionOf(s3, Len(a), b, {"Mode"})
  BY <1>1, <1>6, <1>10, <1>11, SectionInside
<1> HIDE DEF s3
<1>14. /\ s4 \in Seq(Annotated) /\ Len(s4) = Len(s3) + Len(d) /\ Len(s3) \in Nat /\ Len(d) \in Nat
       /\ SectionOf(s4, Len(s3), d, Grouping)
       /\ Without(s4, {"GroupDecorate"}) /\ Without(s4, {"Function", "Def"})
  <2>1. SectionOf(s4, Len(s3), d, Grouping)
    BY <1>1, <1>3, <1>12, SectionLast
  <2>. QED
    BY <1>1, <1>12, <1>7, <2>1, ConcatPlaces, WithoutConcat
<1>15. SectionOf(s4, 0, a, {"EntryPoint"}) /\ SectionOf(s4, Len(a), b, {"Mode"})
       /\ SectionOf(s4, Len(s2), c, {"Name"})
  BY <1>1, <1>7, <1>12, <1>13, SectionInside
<1> HIDE DEF s4
<1>16. /\ s5 \in Seq(Annotated) /\ Len(s5) = Len(s4) + Len(e) /\ Len(s4) \in Nat /\ Len(e) \in Nat
       /\ SectionOf(s5, Len(s4), e, {"GroupDecorate"}) /\ Without(s5, {"Function", "Def"})
  <2>1. \A k \in 1 .. Len(e) : e[k].op \in {"GroupDecorate"}
    BY <1>3
  <2>2. SectionOf(s5, Len(s4), e, {"GroupDecorate"})
    BY <1>1, <1>14, <2>1, SectionLast
  <2>. QED
    BY <1>1, <1>14, <1>8, <2>2, ConcatPlaces, WithoutConcat
<1>17. SectionOf(s5, 0, a, {"EntryPoint"}) /\ SectionOf(s5, Len(a), b, {"Mode"})
       /\ SectionOf(s5, Len(s2), c, {"Name"}) /\ SectionOf(s5, Len(s3), d, Grouping)
  BY <1>1, <1>8, <1>14, <1>15, SectionInside
<1> HIDE DEF s5
<1>18. /\ s6 \in Seq(Annotated) /\ Len(s5) \in Nat
       /\ SectionOf(s6, Len(s5), f, {"Function", "Def"})
  BY <1>1, <1>3, <1>16, SectionLast, ConcatPlaces
<1>19. SectionOf(s6, 0, a, {"EntryPoint"}) /\ SectionOf(s6, Len(a), b, {"Mode"})
       /\ SectionOf(s6, Len(s2), c, {"Name"}) /\ SectionOf(s6, Len(s3), d, Grouping)
       /\ SectionOf(s6, Len(s4), e, {"GroupDecorate"})
  BY <1>1, <1>9, <1>16, <1>17, SectionInside
<1>20. m = s6
  BY DEF s6, s5, s4, s3, s2
<1> HIDE DEF s6
<1>21. Len(s2) + Len(c) <= Len(s3) /\ Len(a) <= Len(s3)
  BY <1>10, <1>12
<1>. QED
  BY <1>10, <1>12, <1>14, <1>16, <1>18, <1>19, <1>20, <1>21

LEMMA BegunMore ==
  ASSUME NEW m \in Seq(Annotated), NEW n \in Nat, n < Len(m), NEW o, NEW v \in Seq(Annotated), NEW ops,
         NEW w \in Seq(Annotated), SectionOf(m, o, v, ops), Begun(n, o, v, w)
  PROVE  Begun(n + 1, o, v, Logged(w, ops, m[n + 1])) /\ Logged(w, ops, m[n + 1]) \in Seq(Annotated)
<1> DEFINE q == n + 1
           x == m[q]
           u == Logged(w, ops, x)
<1>1. q \in 1 .. Len(m) /\ x \in Annotated /\ Len(m) \in Nat /\ Len(v) \in Nat /\ Len(w) \in Nat
  OBVIOUS
<1>2. /\ o \in Nat /\ o + Len(v) <= Len(m)
      /\ \A k \in 1 .. Len(v) : m[o + k] = v[k]
      /\ x.op \in ops <=> Within(q, o, v)
  BY <1>1 DEF SectionOf
<1> HIDE DEF x, q
<1>3. u \in Seq(Annotated)
  BY <1>1, LoggedType
<1>4. CASE x.op \in ops
  <2>1. Within(q, o, v)
    BY <1>2, <1>4
  <2>2. Len(w) = n - o
    <3>1. n = o \/ Within(n, o, v)
      BY <1>1, <1>2, <2>1 DEF Within, q
    <3>2. CASE n = o
      BY <1>1, <1>2, <3>2 DEF Begun
    <3>3. CASE Within(n, o, v)
      BY <3>3 DEF Begun
    <3>. QED
      BY <3>1, <3>2, <3>3
  <2>3. u = Append(w, x)
    BY <1>4 DEF u, Logged
  <2>4. /\ Len(u) = Len(w) + 1 /\ u[Len(w) + 1] = x
        /\ \A k \in 1 .. Len(w) : u[k] = w[k]
    BY <1>1, <2>3, LogAppend
  <2>5. x = v[Len(w) + 1]
    <3>1. Len(w) + 1 \in 1 .. Len(v) /\ o + (Len(w) + 1) = q
      BY <1>1, <1>2, <2>1, <2>2 DEF Within, q
    <3>. QED
      BY <1>2, <3>1 DEF x
  <2> HIDE DEF u
  <2>6. ASSUME NEW k \in 1 .. Len(u) PROVE u[k] = v[k]
    <3>1. k \in 1 .. Len(w) \/ k = Len(w) + 1
      BY <1>1, <2>4
    <3>. QED
      BY <2>4, <2>5, <3>1 DEF Begun
  <2>7. Len(u) = q - o /\ ~(q <= o) /\ ~(o + Len(v) < q)
    BY <1>1, <1>2, <2>1, <2>2, <2>4 DEF Within, q
  <2>. QED
    BY <1>3, <2>6, <2>7 DEF Begun, u, x, q
<1>5. CASE x.op \notin ops
  <2>1. ~Within(q, o, v) /\ u = w
    BY <1>2, <1>5 DEF u, Logged
  <2>2. q <= o => n <= o
    BY <1>2 DEF q
  <2>3. o + Len(v) < q => Len(w) = Len(v)
    <3>1. ASSUME o + Len(v) < q PROVE Len(w) = Len(v)
      <4>1. CASE o + Len(v) < n
        BY <4>1 DEF Begun
      <4>2. CASE o + Len(v) = n /\ n # o
        <5>1. Within(n, o, v)
          BY <1>1, <1>2, <4>2 DEF Within
        <5>2. Len(w) = n - o
          BY <5>1 DEF Begun
        <5>. QED
          BY <1>1, <1>2, <4>2, <5>2
      <4>3. CASE n = o /\ Len(v) = 0
        BY <1>1, <1>2, <4>3 DEF Begun
      <4>4. o + Len(v) < n \/ (o + Len(v) = n /\ n # o) \/ (n = o /\ Len(v) = 0)
        <5>1. o \in Nat /\ Len(v) \in Nat /\ n \in Nat /\ o + Len(v) < n + 1
          BY <1>1, <1>2, <3>1 DEF q
        <5> DEFINE z == Len(v)
        <5> HIDE DEF z
        <5>2. o + z < n \/ (o + z = n /\ n # o) \/ (n = o /\ z = 0)
          BY <5>1 DEF z
        <5>. QED
          BY <5>2 DEF z
      <4>. QED
        BY <4>1, <4>2, <4>3, <4>4
    <3>. QED
      BY <3>1
  <2> HIDE DEF u
  <2>. QED
    BY <1>3, <2>1, <2>2, <2>3 DEF Begun, u, x, q
<1>. QED
  BY <1>4, <1>5

LEMMA BegunAll ==
  ASSUME NEW m \in Seq(Annotated), NEW o, NEW v \in Seq(Annotated), NEW ops,
         NEW w \in Seq(Annotated), SectionOf(m, o, v, ops), Begun(Len(m), o, v, w)
  PROVE  w = v
<1>1. o \in Nat /\ o + Len(v) <= Len(m) /\ Len(m) \in Nat /\ Len(v) \in Nat /\ Len(w) \in Nat
  BY DEF SectionOf
<1>2. Len(w) = Len(v)
  <2>1. CASE Len(m) <= o
    BY <1>1, <2>1 DEF Begun
  <2>2. CASE Within(Len(m), o, v)
    BY <1>1, <2>2 DEF Begun, Within
  <2>3. CASE o + Len(v) < Len(m)
    BY <2>3 DEF Begun
  <2>. QED
    BY <1>1, <2>1, <2>2, <2>3 DEF Within
<1>3. \A k \in 1 .. Len(w) : w[k] = v[k]
  BY DEF Begun
<1>. QED
  BY <1>2, <1>3, SeqEqual

LEMMA BegunPart ==
  ASSUME NEW n \in Nat, NEW o \in Nat, NEW v \in Seq(Annotated), NEW w \in Seq(Annotated), Begun(n, o, v, w)
  PROVE  /\ \A ops, i : InLog(w, ops, i) => InLog(v, ops, i)
         /\ NoLinkageInGroups(v) => NoLinkageInGroups(w)
<1>1. Len(w) <= Len(v) /\ Len(v) \in Nat /\ Len(w) \in Nat
  <2>1. n <= o \/ Within(n, o, v) \/ o + Len(v) < n
    BY DEF Within
  <2>. QED
    BY <2>1 DEF Begun, Within
<1>2. \A k \in 1 .. Len(w) : k \in 1 .. Len(v) /\ w[k] = v[k]
  BY <1>1 DEF Begun
<1>3. \A ops, i : InLog(w, ops, i) => InLog(v, ops, i)
  BY <1>2 DEF InLog
<1>4. NoLinkageInGroups(v) => NoLinkageInGroups(w)
  BY <1>2 DEF NoLinkageInGroups
<1>. QED
  BY <1>3, <1>4

-----------------------------------------------------------------------------
(* The names and modes that operator<< writes.                             *)

LEMMA EntryPointsOf ==
  ASSUME TableInv
  PROVE  /\ \A i : i \in EntryPointIds <=> InLog(EntryPointVec, {"EntryPoint"}, i)
         /\ \A k \in 1 .. Len(EntryPointVec) : EntryPointVec[k].id \in Ids
<1>1. EntryPointVec \in Seq(Of({"EntryPoint"}))
  BY LogTypes
<1>2. \A k \in 1 .. Len(EntryPointVec) : EntryPointVec[k].op = "EntryPoint" /\ EntryPointVec[k].id \in Ids
  BY <1>1 DEF Of, Annotated, InstType
<1>. QED
  BY <1>2 DEF EntryPointIds, InLog

LEMMA ModesListed ==
  ASSUME TableInv
  PROVE  /\ \A q \in 1 .. Len(WrittenModes) :
              /\ WrittenModes[q].id \in Ids /\ WrittenModes[q].ann \in IdEntryMap[WrittenModes[q].id].modes
         /\ \A i \in Ids : InLog(EntryPointVec, {"EntryPoint"}, i) =>
              \A a \in IdEntryMap[i].modes :
                \E q \in 1 .. Len(WrittenModes) : WrittenModes[q].id = i /\ WrittenModes[q].ann = a
<1> DEFINE modes(f) == {Annotation("Mode", f, a) : a \in IdEntryMap[f].modes}
           T == UNION {modes(f) : f \in Ids}
           ss == [k \in 1 .. Len(EntryPointVec) |-> SetToSeq(modes(EntryPointVec[k].id))]
<1>1. \A k \in 1 .. Len(EntryPointVec) : EntryPointVec[k].id \in Ids
  BY EntryPointsOf
<1>2. ASSUME NEW f \in Ids
      PROVE  /\ SetToSeq(modes(f)) \in Seq(T)
             /\ \A y \in modes(f) : \E q \in 1 .. Len(SetToSeq(modes(f))) : SetToSeq(modes(f))[q] = y
  <2>1. IsFiniteSet(IdEntryMap[f].modes)
    BY DEF TableInv, Entries
  <2> DEFINE g == [a \in IdEntryMap[f].modes |-> Annotation("Mode", f, a)]
  <2>2. g = [a \in IdEntryMap[f].modes |-> g[a]] /\ modes(f) = {g[a] : a \in IdEntryMap[f].modes}
    OBVIOUS
  <2>3. modes(f) \subseteq T
    OBVIOUS
  <2> HIDE DEF g, modes, T
  <2>4. IsFiniteSet(modes(f))
    BY <2>1, <2>2, ImageFinite
  <2>5. SetToSeq(modes(f)) \in Seq(modes(f))
        /\ \A y \in modes(f) : \E q \in 1 .. Len(SetToSeq(modes(f))) : SetToSeq(modes(f))[q] = y
    BY <2>4, Listed
  <2>. QED
    BY <2>3, <2>5, SeqMonotonic
<1>3. \A y \in T : y.id \in Ids /\ y.ann \in IdEntryMap[y.id].modes
  BY DEF Annotation
<1>4. \A f : \A a \in IdEntryMap[f].modes : Annotation("Mode", f, a) \in modes(f)
  OBVIOUS
<1>5. WrittenModes = FlattenSeq(ss)
  BY DEF WrittenModes
<1>6. ss \in Seq(Seq(T)) /\ Len(ss) = Len(EntryPointVec)
      /\ \A k \in 1 .. Len(EntryPointVec) : ss[k] = SetToSeq(modes(EntryPointVec[k].id))
  <2> DEFINE S == Seq(T)
  <2> HIDE DEF modes, T
  <2>1. \A k \in 1 .. Len(EntryPointVec) : SetToSeq(modes(EntryPointVec[k].id)) \in S
    BY <1>1, <1>2
  <2>2. Len(EntryPointVec) \in Nat
    BY LogTypes
  <2> HIDE DEF S
  <2>3. ss \in [1 .. Len(EntryPointVec) -> S]
        /\ \A k \in 1 .. Len(EntryPointVec) : ss[k] = SetToSeq(modes(EntryPointVec[k].id))
    BY <2>1
  <2> HIDE DEF ss
  <2>. QED
    BY <2>2, <2>3 DEF S
<1> HIDE DEF ss, T, modes
<1>7. FlattenSeq(ss) \in Seq(T)
  BY <1>6, FlattenType
<1>8. \A q \in 1 .. Len(WrittenModes) : WrittenModes[q] \in T
  BY <1>5, <1>7
<1>9. ASSUME NEW i \in Ids, InLog(EntryPointVec, {"EntryPoint"}, i), NEW a \in IdEntryMap[i].modes
      PROVE  \E q \in 1 .. Len(WrittenModes) : WrittenModes[q].id = i /\ WrittenModes[q].ann = a
  <2>1. PICK k \in 1 .. Len(EntryPointVec) : EntryPointVec[k].id = i
    BY <1>9 DEF InLog
  <2>2. ss[k] = SetToSeq(modes(i)) /\ k \in 1 .. Len(ss)
    BY <1>6, <2>1
  <2>3. Annotation("Mode", i, a) \in modes(i)
    BY <1>4
  <2>4. PICK p \in 1 .. Len(ss[k]) : ss[k][p] = Annotation("Mode", i, a)
    BY <1>2, <2>2, <2>3
  <2>5. PICK q \in 1 .. Len(FlattenSeq(ss)) : FlattenSeq(ss)[q] = ss[k][p]
    BY <1>6, <2>2, <2>4, FlattenHas
  <2>. QED
    BY <1>5, <2>4, <2>5 DEF Annotation
<1>. QED
  BY <1>3, <1>8, <1>9

LEMMA NamesListed ==
  ASSUME TableInv
  PROVE  /\ \A q \in 1 .. Len(WrittenNames) :
              /\ WrittenNames[q].id \in NamedId
              /\ ~InLog(EntryPointVec, {"EntryPoint"}, WrittenNames[q].id)
              /\ WrittenNames[q].ann = IdEntryMap[WrittenNames[q].id].name
         /\ \A i \in NamedId : ~InLog(EntryPointVec, {"EntryPoint"}, i) =>
              \E q \in 1 .. Len(WrittenNames) : WrittenNames[q].id = i
<1> DEFINE S == NamedId \ EntryPointIds
           g == [i \in S |-> Annotation("Name", i, IdEntryMap[i].name)]
           R == {g[i] : i \in S}
<1>1. IsFiniteSet(S)
  BY FS_Difference DEF TableInv, Entries
<1>2. WrittenNames = SetToSeq(R)
  BY DEF WrittenNames
<1>3. g = [i \in S |-> g[i]]
  OBVIOUS
<1>4. \A i \in S : g[i].id = i /\ g[i].ann = IdEntryMap[i].name
  BY DEF Annotation
<1>5. \A i : i \in S <=> i \in NamedId /\ ~InLog(EntryPointVec, {"EntryPoint"}, i)
  BY EntryPointsOf
<1> HIDE DEF S, g
<1>6. IsFiniteSet(R)
  BY <1>1, <1>3, ImageFinite
<1>7. \A y \in R : y.id \in S /\ y.ann = IdEntryMap[y.id].name
  BY <1>4
<1>8. \A i \in S : \E y \in R : y.id = i
  BY <1>4
<1> HIDE DEF R
<1>9. SetToSeq(R) \in Seq(R) /\ \A y \in R : \E q \in 1 .. Len(SetToSeq(R)) : SetToSeq(R)[q] = y
  BY <1>6, Listed
<1>10. /\ \A q \in 1 .. Len(WrittenNames) : WrittenNames[q] \in R
       /\ \A y \in R : \E q \in 1 .. Len(WrittenNames) : WrittenNames[q] = y
  BY <1>2, <1>9
<1>. QED
  BY <1>5, <1>7, <1>8, <1>10

-----------------------------------------------------------------------------
(* The invariant of both readings.                                         *)

(***************************************************************************)
(* Modules as SPIR-V orders them: names come before the linkage            *)
(* decorations of their ids; also, a mode belongs to an entry point, and   *)
(* OpName does not rename one.  Of other modules operator<< drops the mode *)
(* or writes the names in another order than they were read in.            *)
(***************************************************************************)
Regular(m) ==
  /\ \A i \in 1 .. Len(m) : m[i].op = "Mode" => InLog(m, {"EntryPoint"}, m[i].id)
  /\ \A i, j \in 1 .. Len(m) : m[i].id = m[j].id =>
       /\ m[i].op \in {"Name", "EntryPoint"} /\ m[j].op = "Linkage" => i < j
       /\ m[i].op = "Name" /\ m[j].op = "EntryPoint" => m[i].ann = m[j].ann

\* What the sections have, and where modes are, after n instructions of the first module.
FromInput(m, n, ev, v, X) ==
  /\ \A k \in 1 .. Len(ev) : \E q \in 1 .. n : m[q] = ev[k]
  /\ \A k \in 1 .. Len(v) : \E q \in 1 .. n : m[q] = v[k]
  /\ \A q \in 1 .. n : m[q].op = "EntryPoint" => InLog(ev, {"EntryPoint"}, m[q].id)
  /\ \A i \in Ids : X[i].modes # {} => \E q \in 1 .. n : m[q].op = "Mode" /\ m[q].id = i

\* What was written has what was read first (fr), section by section.
Rewritten(m, fr, ev, v, av, fv, p, r, s) ==
  /\ SectionOf(m, 0, ev, {"EntryPoint"}) /\ SectionOf(m, p, v, Grouping)
  /\ SectionOf(m, r, av, {"GroupDecorate"}) /\ SectionOf(m, s, fv, {"Function", "Def"})
  /\ \A q \in 1 .. Len(m) : m[q].op \in {"Name", "EntryPoint"} => q <= p
  /\ \A q \in 1 .. Len(m) : m[q].op = "Name" =>
       /\ m[q].id \in fr.named /\ ~InLog(ev, {"EntryPoint"}, m[q].id)
       /\ m[q].ann = fr.entries[m[q].id].name
  /\ \A i \in fr.named : ~InLog(ev, {"EntryPoint"}, i) =>
       \E q \in 1 .. Len(m) : m[q].op = "Name" /\ m[q].id = i
  /\ \A q \in 1 .. Len(m) : m[q].op = "Mode" => m[q].ann \in fr.entries[m[q].id].modes
  /\ \A i \in Ids : \A a \in fr.entries[i].modes :
       \E q \in 1 .. Len(m) : m[q].op = "Mode" /\ m[q].id = i /\ m[q].ann = a
  /\ \A i \in Ids : /\ EntryOf(fr.entries[i], fr.named, ev, v, av, fv, i)
                    /\ fr.entries[i].modes # {} => InLog(ev, {"EntryPoint"}, i)
  /\ NoLinkageInGroups(v) => \A i \in Ids : NameOf(fr.entries[i], fr.named, ev, v, i)

\* The entry e of the second reading after n instructions, and that of the first, g.
Compared(m, n, g, old, ev, w, e, named, i) ==
  /\ i \in named => i \in old
  /\ e.modes \subseteq g.modes
  /\ \A q \in 1 .. n : m[q].op = "Name" /\ m[q].id = i => i \in named
  /\ \A q \in 1 .. n : m[q].op = "Mode" /\ m[q].id = i =>
       e.kind # "none" /\ (e.kind \in {"forward", "function"} => m[q].ann \in e.modes)
  /\ ~InLog(w, {"Linkage"}, i) /\ i \in named /\ ~InLog(ev, {"EntryPoint"}, i) => e.name = g.name

Said ==
  /\ GroupLog(DecLog, DecGroupVec, DecorateVec, GroupDecVec)
  /\ \A i \in Ids : EntryOf(IdEntryMap[i], NamedId, EntryPointVec, DecLog, GroupDecVec, DefVec, i)
  /\ NoLinkageInGroups(DecLog) =>
       \A i \in Ids : NameOf(IdEntryMap[i], NamedId, EntryPointVec, DecLog, i)

Rereads(ev, v, av, fv, p, r, s) ==
  /\ Rewritten(input, firstRead, ev, v, av, fv, p, r, s)
  /\ Begun(pos - 1, 0, ev, EntryPointVec) /\ Begun(pos - 1, p, v, DecLog)
  /\ Begun(pos - 1, r, av, GroupDecVec) /\ Begun(pos - 1, s, fv, DefVec)
  /\ NoLinkageInGroups(v) => \A i \in Ids :
       Compared(input, pos - 1, firstRead.entries[i], firstRead.named, ev, DecLog, IdEntryMap[i], NamedId, i)

StableInv ==
  /\ Said
  /\ round = 1 => Regular(input) /\ FromInput(input, pos - 1, EntryPointVec, DecLog, IdEntryMap)
  /\ round = 2 => \E ev, v, av, fv \in Seq(Annotated) : \E p, r, s \in Nat : Rereads(ev, v, av, fv, p, r, s)

LEMMA SectionHas ==
  ASSUME NEW m \in Seq(Annotated), NEW o, NEW v \in Seq(Annotated), NEW all, NEW ops, ops \subseteq all,
         SectionOf(m, o, v, all), NEW q \in 1 .. Len(m), m[q].op \in ops
  PROVE  InLog(v, ops, m[q].id)
<1>1. Within(q, o, v) /\ o \in Nat /\ \A k \in 1 .. Len(v) : m[o + k] = v[k]
  BY DEF SectionOf
<1>2. q - o \in 1 .. Len(v) /\ o + (q - o) = q
  BY <1>1 DEF Within
<1>3. v[q - o] = m[q]
  BY <1>1, <1>2
<1>. QED
  BY <1>2, <1>3 DEF InLog

\* An OpName or OpEntryPoint is read before the linkage of its id.
LEMMA NamingFits ==
  ASSUME TableInv, StableInv, pos \in 1 .. Len(input), NEW i \in Ids,
         About(Inst, {"Name", "EntryPoint"}, i)
  PROVE  /\ ~InLog(DecLog, {"Linkage"}, i)
         /\ About(Inst, {"Name"}, i) =>
              \A k \in 1 .. Len(EntryPointVec) :
                EntryPointVec[k].op = "EntryPoint" /\ EntryPointVec[k].id = i => EntryPointVec[k].ann = Inst.ann
<1>1. /\ input \in Seq(Annotated) /\ Len(input) \in Nat /\ input[pos] = Inst /\ pos - 1 \in Nat
      /\ 1 .. (pos - 1) \subseteq 1 .. Len(input) /\ \A q \in 1 .. (pos - 1) : ~(pos < q)
  BY DEF TableInv, Reading, Inst
<1>2. Inst.op \in {"Name", "EntryPoint"} /\ Inst.id = i /\ (About(Inst, {"Name"}, i) => Inst.op = "Name")
  BY DEF About
<1> HIDE DEF Inst
<1>3. CASE round = 1
  <2>1. Regular(input) /\ FromInput(input, pos - 1, EntryPointVec, DecLog, IdEntryMap)
    BY <1>3 DEF StableInv
  <2>2. ~InLog(DecLog, {"Linkage"}, i)
    <3>1. SUFFICES ASSUME NEW k \in 1 .. Len(DecLog), DecLog[k].op = "Linkage", DecLog[k].id = i
                   PROVE  FALSE
      BY DEF InLog
    <3>2. PICK q \in 1 .. (pos - 1) : input[q] = DecLog[k]
      BY <2>1 DEF FromInput
    <3>3. pos < q
      BY <1>1, <1>2, <2>1, <3>1, <3>2 DEF Regular
    <3>. QED
      BY <1>1, <3>3
  <2>3. ASSUME Inst.op = "Name", NEW k \in 1 .. Len(EntryPointVec),
               EntryPointVec[k].op = "EntryPoint", EntryPointVec[k].id = i
        PROVE  EntryPointVec[k].ann = Inst.ann
    <3>1. PICK q \in 1 .. (pos - 1) : input[q] = EntryPointVec[k]
      BY <2>1 DEF FromInput
    <3>. QED
      BY <1>1, <1>2, <2>1, <2>3, <3>1 DEF Regular
  <2>. QED
    BY <1>2, <2>2, <2>3
<1>4. CASE round = 2
  <2>1. PICK ev, v, av, fv \in Seq(Annotated) : \E p, r, s \in Nat : Rereads(ev, v, av, fv, p, r, s)
    BY <1>4 DEF StableInv
  <2>2. PICK p, r, s \in Nat : Rereads(ev, v, av, fv, p, r, s)
    BY <2>1
  <2>3. /\ Rewritten(input, firstRead, ev, v, av, fv, p, r, s)
        /\ Begun(pos - 1, 0, ev, EntryPointVec) /\ Begun(pos - 1, p, v, DecLog)
    BY <2>2 DEF Rereads
  <2>4. pos <= p
    BY <1>1, <1>2, <2>3 DEF Rewritten
  <2>5. Len(DecLog) = 0
    BY <1>1, <2>3, <2>4 DEF Begun
  <2>6. ~InLog(DecLog, {"Linkage"}, i)
    BY <2>5 DEF InLog
  <2>7. EntryPointVec \in Seq(Annotated)
    BY LogTypes
  <2>8. ASSUME Inst.op = "Name" PROVE ~InLog(EntryPointVec, {"EntryPoint"}, i)
    <3>1. ~InLog(ev, {"EntryPoint"}, i)
      BY <1>1, <1>2, <2>3, <2>8 DEF Rewritten
    <3>2. 0 \in Nat
      OBVIOUS
    <3>3. InLog(EntryPointVec, {"EntryPoint"}, i) => InLog(ev, {"EntryPoint"}, i)
      BY <1>1, <2>3, <2>7, <3>2, BegunPart
    <3>. QED
      BY <3>1, <3>3
  <2>. QED
    BY <1>2, <2>6, <2>8 DEF InLog
<1>. QED
  BY <1>3, <1>4 DEF TableInv, Reading

\* One step of the first reading.
LEMMA FromInputMore ==
  ASSUME NEW m, NEW n \in Nat, NEW q, q = n + 1, NEW x \in Annotated, m[q] = x,
         NEW ev \in Seq(Annotated), NEW v \in Seq(Annotated), NEW X, NEW Y, NEW named, NEW new,
         FromInput(m, n, ev, v, X), \A i \in Ids : Reads(X[i], Y[i], named, new, v, x, i)
  PROVE  FromInput(m, q, Logged(ev, {"EntryPoint"}, x), Logged(v, Grouping, x), Y)
<1>1. \A k : k \in 1 .. q <=> k \in 1 .. n \/ k = q
  OBVIOUS
<1>2. ASSUME NEW u \in Seq(Annotated), NEW ops, \A k \in 1 .. Len(u) : \E l \in 1 .. n : m[l] = u[k]
      PROVE  \A k \in 1 .. Len(Logged(u, ops, x)) : \E l \in 1 .. q : m[l] = Logged(u, ops, x)[k]
  <2> DEFINE w == Append(u, x)
  <2>1. /\ w[Len(u) + 1] = x /\ \A k \in 1 .. Len(u) : w[k] = u[k]
        /\ \A k : k \in 1 .. Len(w) <=> k \in 1 .. Len(u) \/ k = Len(u) + 1
    BY LogAppend
  <2> HIDE DEF w
  <2>2. \A k \in 1 .. Len(w) : \E l \in 1 .. q : m[l] = w[k]
    BY <1>1, <1>2, <2>1
  <2>3. \A k \in 1 .. Len(u) : \E l \in 1 .. q : m[l] = u[k]
    BY <1>1, <1>2
  <2>. QED
    BY <2>2, <2>3 DEF Logged, w
<1>3. ASSUME NEW l \in 1 .. q, m[l].op = "EntryPoint"
      PROVE  InLog(Logged(ev, {"EntryPoint"}, x), {"EntryPoint"}, m[l].id)
  <2>1. InLog(ev, {"EntryPoint"}, m[l].id) \/ (x.op \in {"EntryPoint"} /\ x.id = m[l].id)
    BY <1>1, <1>3 DEF FromInput
  <2>. QED
    BY <2>1, LoggedIn
<1>4. ASSUME NEW i \in Ids, Y[i].modes # {} PROVE \E l \in 1 .. q : m[l].op = "Mode" /\ m[l].id = i
  <2>1. CASE About(x, {"Mode"}, i)
    BY <1>1, <2>1 DEF About
  <2>2. CASE ~About(x, {"Mode"}, i)
    <3>1. x.op \in Ops
      BY DEF Annotated, InstType
    <3>2. \/ ~Applies(x, i) /\ (x.op = "GroupDecorate" \/ x.id # i)
          \/ About(x, {"Name", "EntryPoint"}, i) \/ About(x, Decorations, i)
          \/ About(x, Definitions, i) \/ Applies(x, i)
      BY <2>2, <3>1 DEF About, Ops
    <3>3. X[i].modes # {}
      BY <1>4, <3>2 DEF Reads
    <3>. QED
      BY <1>1, <3>3 DEF FromInput
  <2>. QED
    BY <2>1, <2>2
<1>5. \A k \in 1 .. Len(Logged(ev, {"EntryPoint"}, x)) : \E l \in 1 .. q : m[l] = Logged(ev, {"EntryPoint"}, x)[k]
  BY <1>2 DEF FromInput
<1>6. \A k \in 1 .. Len(Logged(v, Grouping, x)) : \E l \in 1 .. q : m[l] = Logged(v, Grouping, x)[k]
  BY <1>2 DEF FromInput
<1> DEFINE ew == Logged(ev, {"EntryPoint"}, x)
           w == Logged(v, Grouping, x)
<1>7. /\ \A k \in 1 .. Len(ew) : \E l \in 1 .. q : m[l] = ew[k]
      /\ \A k \in 1 .. Len(w) : \E l \in 1 .. q : m[l] = w[k]
      /\ \A l \in 1 .. q : m[l].op = "EntryPoint" => InLog(ew, {"EntryPoint"}, m[l].id)
      /\ \A i \in Ids : Y[i].modes # {} => \E l \in 1 .. q : m[l].op = "Mode" /\ m[l].id = i
  BY <1>3, <1>4, <1>5, <1>6
<1> HIDE DEF ew, w
<1>8. FromInput(m, q, ew, w, Y)
  BY <1>7, Zenon DEF FromInput
<1>. QED
  BY <1>8 DEF ew, w

\* One step of the second reading, against what the first one ended with.
LEMMA CompareMore ==
  ASSUME NEW m \in Seq(Annotated), NEW n \in Nat, NEW q \in 1 .. Len(m), q = n + 1,
         NEW x \in Annotated, m[q] = x, NEW fr, NEW i \in Ids,
         NEW ev \in Seq(Annotated), NEW v \in Seq(Annotated), NEW av \in Seq(Annotated),
         NEW fv \in Seq(Annotated), NEW p, NEW r, NEW s, Rewritten(m, fr, ev, v, av, fv, p, r, s),
         NEW ec, NEW w, NEW ww, NEW e \in EntryType, NEW f \in EntryType, NEW named, NEW new,
         InLog(ww, {"Linkage"}, i) <=> InLog(w, {"Linkage"}, i) \/ About(x, {"Linkage"}, i),
         InLog(w, {"Linkage"}, i) => InLog(v, {"Linkage"}, i),
         NoLinkageInGroups(w), NameOf(e, named, ec, w, i), i \in named => e.name # NoName,
         Reads(e, f, named, new, w, x, i),
         Compared(m, n, fr.entries[i], fr.named, ev, w, e, named, i)
  PROVE  Compared(m, q, fr.entries[i], fr.named, ev, ww, f, new, i)
<1> DEFINE g == fr.entries[i]
           old == fr.named
<1>1. \A k : k \in 1 .. q <=> k \in 1 .. n \/ k = q
  OBVIOUS
<1>2. /\ About(x, {"Name"}, i) => i \in old /\ ~InLog(ev, {"EntryPoint"}, i) /\ x.ann = g.name
      /\ About(x, {"Mode"}, i) => x.ann \in g.modes
      /\ EntryOf(g, old, ev, v, av, fv, i)
  BY DEF Rewritten, About
<1>3. About(x, {"EntryPoint"}, i) => InLog(ev, {"EntryPoint"}, i)
  <2>1. SectionOf(m, 0, ev, {"EntryPoint"}) /\ {"EntryPoint"} \subseteq {"EntryPoint"}
    BY DEF Rewritten
  <2>. QED
    BY <2>1, SectionHas DEF About
<1>4. About(x, {"EntryPoint"}, i) => i \in old
  BY <1>2, <1>3 DEF EntryOf
<1>5. About(x, Definitions, i) => g.kind \in {"group", "function", "other"}
  <2>1. About(x, {"Group"}, i) => InLog(v, {"Group"}, i)
    <3>1. SectionOf(m, p, v, Grouping) /\ {"Group"} \subseteq Grouping
      BY DEF Rewritten, Grouping
    <3>. QED
      BY <3>1, SectionHas DEF About
  <2>2. SectionOf(m, s, fv, {"Function", "Def"})
    BY DEF Rewritten
  <2>3. About(x, {"Function"}, i) => InLog(fv, {"Function"}, i)
    BY <2>2, SectionHas DEF About
  <2>4. About(x, {"Def"}, i) => InLog(fv, {"Def"}, i)
    BY <2>2, SectionHas DEF About
  <2>. QED
    BY <1>2, <2>1, <2>3, <2>4 DEF EntryOf, About, Definitions
<1>6. /\ i \in named => i \in old
      /\ e.modes \subseteq g.modes
      /\ \A k \in 1 .. n : m[k].op = "Name" /\ m[k].id = i => i \in named
      /\ \A k \in 1 .. n : m[k].op = "Mode" /\ m[k].id = i =>
           e.kind # "none" /\ (e.kind \in {"forward", "function"} => m[k].ann \in e.modes)
      /\ ~InLog(w, {"Linkage"}, i) /\ i \in named /\ ~InLog(ev, {"EntryPoint"}, i) => e.name = g.name
  BY DEF Compared
<1>7. About(x, Definitions, i) /\ e.name # NoName => i \in named \/ InLog(w, {"Linkage"}, i)
  BY DEF NameOf
<1>8. x.op \in Ops
  BY DEF Annotated, InstType
<1> HIDE DEF g, old
<1>9. /\ i \in new => i \in old
      /\ i \in named => i \in new
      /\ About(x, {"Name"}, i) => i \in new
      /\ f.modes \subseteq g.modes
      /\ e.kind # "none" =>
           f.kind # "none" /\ (f.kind \in {"forward", "function"} => e.kind \in {"forward", "function"} /\ e.modes \subseteq f.modes)
      /\ About(x, {"Mode"}, i) => f.kind = "forward" /\ x.ann \in f.modes
      /\ ~InLog(ww, {"Linkage"}, i) /\ i \in new /\ ~InLog(ev, {"EntryPoint"}, i) => f.name = g.name
  <2>1. CASE ~Applies(x, i) /\ (x.op = "GroupDecorate" \/ x.id # i)
    <3>1. f = e /\ (i \in new <=> i \in named)
      BY <2>1 DEF Reads
    <3>2. ~About(x, {"Mode"}, i) /\ ~About(x, {"Name"}, i)
      BY <2>1 DEF About
    <3>. QED
      BY <1>6, <3>1, <3>2
  <2>2. CASE About(x, {"Name", "EntryPoint"}, i)
    <3>1. /\ e.kind \in {"none", "forward"} /\ f.kind = "forward" /\ f.name = x.ann
          /\ f.modes = e.modes /\ i \in new
      BY <2>2 DEF Reads
    <3>2. About(x, {"Name"}, i) \/ About(x, {"EntryPoint"}, i)
      BY <2>2 DEF About
    <3>3. ~About(x, {"Mode"}, i)
      BY <2>2 DEF About
    <3>. QED
      BY <1>2, <1>3, <1>4, <1>6, <3>1, <3>2, <3>3
  <2>3. CASE About(x, {"Mode"}, i)
    <3>1. /\ e.kind \in {"none", "forward"} /\ f.kind = "forward" /\ f.name = e.name
          /\ f.modes = e.modes \cup {x.ann} /\ (i \in new <=> i \in named)
      BY <2>3 DEF Reads
    <3>2. ~About(x, {"Name"}, i)
      BY <2>3 DEF About
    <3>. QED
      BY <1>2, <1>6, <2>3, <3>1, <3>2
  <2>4. CASE About(x, Decorations, i)
    <3>1. /\ e.kind \in {"none", "forward"} /\ f.kind = "forward"
          /\ x.op # "Linkage" => f.name = e.name
          /\ f.modes = e.modes /\ (i \in new <=> i \in named)
      BY <2>4 DEF Reads
    <3>2. ~About(x, {"Name"}, i) /\ ~About(x, {"Mode"}, i) /\ (x.op = "Linkage" => About(x, {"Linkage"}, i))
      BY <2>4 DEF About, Decorations
    <3>. QED
      BY <1>6, <3>1, <3>2
  <2>5. CASE About(x, Definitions, i)
    <3>1. /\ e.kind \in {"none", "forward"} /\ f.kind = KindOf(x.op) /\ f.name = e.name
          /\ f.modes = IF x.op = "Function" THEN e.modes ELSE {}
          /\ i \in new <=> e.name # NoName
      BY <2>5 DEF Reads
    <3>2. ~About(x, {"Name"}, i) /\ ~About(x, {"Mode"}, i)
      BY <2>5 DEF About, Definitions
    <3>3. InLog(v, {"Linkage"}, i) => i \in old
      BY <1>2, <1>5, <2>5 DEF EntryOf
    <3>4. /\ f.kind # "none"
          /\ f.kind \in {"forward", "function"} => f.modes = e.modes
      BY <2>5, <3>1 DEF KindOf, Definitions, About
    <3>5. f.modes \subseteq g.modes
      BY <1>6, <3>1
    <3>6. i \in new => i \in named \/ InLog(w, {"Linkage"}, i)
      BY <1>7, <2>5, <3>1
    <3>7. e.kind # "none" => e.kind \in {"forward", "function"}
      BY <3>1
    <3>8. (i \in new => i \in old) /\ (i \in named => i \in new)
      BY <1>6, <3>1, <3>3, <3>6
    <3>9. ~InLog(ww, {"Linkage"}, i) /\ i \in new /\ ~InLog(ev, {"EntryPoint"}, i) => f.name = g.name
      BY <1>6, <3>1, <3>6
    <3>. QED
      BY <3>2, <3>4, <3>5, <3>7, <3>8, <3>9
  <2>6. CASE Applies(x, i)
    <3>1. /\ f.kind = IF e.kind = "none" THEN "forward" ELSE e.kind
          /\ f.modes = e.modes /\ (i \in new <=> i \in named) /\ f.name = e.name
      BY <2>6 DEF Reads
    <3>2. ~About(x, {"Name"}, i) /\ ~About(x, {"Mode"}, i)
      BY <2>6 DEF About, Applies
    <3>. QED
      BY <1>6, <3>1, <3>2
  <2>. QED
    BY <1>8, <2>1, <2>2, <2>3, <2>4, <2>5, <2>6 DEF About, Ops
<1>10. \A k \in 1 .. q : m[k].op = "Name" /\ m[k].id = i => i \in new
  BY <1>1, <1>6, <1>9 DEF About
<1>11. ASSUME NEW k \in 1 .. q, m[k].op = "Mode", m[k].id = i
       PROVE  f.kind # "none" /\ (f.kind \in {"forward", "function"} => m[k].ann \in f.modes)
  <2>1. CASE k = q
    <3>1. About(x, {"Mode"}, i)
      BY <1>11, <2>1 DEF About
    <3>. QED
      BY <1>9, <2>1, <3>1
  <2>2. CASE k \in 1 .. n
    BY <1>6, <1>9, <1>11, <2>2
  <2>. QED
    BY <1>1, <2>1, <2>2
<1>12. Compared(m, q, g, old, ev, ww, f, new, i)
  BY <1>9, <1>10, <1>11 DEF Compared
<1>. QED
  BY <1>12 DEF g, old

-----------------------------------------------------------------------------
(* The invariant in the next state, as a statement about the new tables.   *)

LEMMA SaidNext ==
  ASSUME GroupLog(DecLog', DecGroupVec', DecorateVec', GroupDecVec'),
         \A i \in Ids : EntryOf(IdEntryMap'[i], NamedId', EntryPointVec', DecLog', GroupDecVec', DefVec', i),
         NoLinkageInGroups(DecLog') =>
           \A i \in Ids : NameOf(IdEntryMap'[i], NamedId', EntryPointVec', DecLog', i)
  PROVE  Said'
<1>1. GroupLog(DecLog, DecGroupVec, DecorateVec, GroupDecVec)' <=>
        GroupLog(DecLog', DecGroupVec', DecorateVec', GroupDecVec')
  BY DEF GroupLog, InLog, Taking, Loose, NoGroup, ToSet, Of, Annotated, InstType, Ops, Decorations, Definitions
<1>2. \A i \in Ids :
        EntryOf(IdEntryMap[i], NamedId, EntryPointVec, DecLog, GroupDecVec, DefVec, i)' <=>
        EntryOf(IdEntryMap'[i], NamedId', EntryPointVec', DecLog', GroupDecVec', DefVec', i)
  BY DEF EntryOf, InLog, Taking, Targeted, DirectIn, GroupedIn, NoGroup, Of, Annotated, InstType, Ops,
         Decorations, Definitions
<1>3. \A i \in Ids :
        NameOf(IdEntryMap[i], NamedId, EntryPointVec, DecLog, i)' <=>
        NameOf(IdEntryMap'[i], NamedId', EntryPointVec', DecLog', i)
  BY DEF NameOf, InLog, LastOf
<1>4. NoLinkageInGroups(DecLog)' <=> NoLinkageInGroups(DecLog')
  BY DEF NoLinkageInGroups
<1>. QED
  BY <1>1, <1>2, <1>3, <1>4 DEF Said

LEMMA FromInputNext ==
  ASSUME Regular(input'), FromInput(input', pos' - 1, EntryPointVec', DecLog', IdEntryMap')
  PROVE  Regular(input)' /\ FromInput(input, pos - 1, EntryPointVec, DecLog, IdEntryMap)'
<1>1. Regular(input)' <=> Regular(input')
  BY DEF Regular, InLog
<1>2. FromInput(input, pos - 1, EntryPointVec, DecLog, IdEntryMap)' <=>
        FromInput(input', pos' - 1, EntryPointVec', DecLog', IdEntryMap')
  BY DEF FromInput, InLog
<1>. QED
  BY <1>1, <1>2

LEMMA RereadsNext ==
  ASSUME NEW ev \in Seq(Annotated), NEW v \in Seq(Annotated), NEW av \in Seq(Annotated),
         NEW fv \in Seq(Annotated), NEW p \in Nat, NEW r \in Nat, NEW s \in Nat,
         Rewritten(input', firstRead', ev, v, av, fv, p, r, s),
         Begun(pos' - 1, 0, ev, EntryPointVec'), Begun(pos' - 1, p, v, DecLog'),
         Begun(pos' - 1, r, av, GroupDecVec'), Begun(pos' - 1, s, fv, DefVec'),
         NoLinkageInGroups(v) => \A i \in Ids :
           Compared(input', pos' - 1, firstRead'.entries[i], firstRead'.named, ev, DecLog', IdEntryMap'[i], NamedId', i)
  PROVE  Rereads(ev, v, av, fv, p, r, s)'
<1>1. Rewritten(input, firstRead, ev, v, av, fv, p, r, s)' <=>
        Rewritten(input', firstRead', ev, v, av, fv, p, r, s)
  <2>1. /\ SectionOf(input, 0, ev, {"EntryPoint"})' <=> SectionOf(input', 0, ev, {"EntryPoint"})
        /\ SectionOf(input, p, v, Grouping)' <=> SectionOf(input', p, v, Grouping)
        /\ SectionOf(input, r, av, {"GroupDecorate"})' <=> SectionOf(input', r, av, {"GroupDecorate"})
        /\ SectionOf(input, s, fv, {"Function", "Def"})' <=> SectionOf(input', s, fv, {"Function", "Def"})
    BY DEF SectionOf, Within, Grouping, Decorations
  <2>2. \A i \in Ids :
        EntryOf(firstRead.entries[i], firstRead.named, ev, v, av, fv, i)' <=>
        EntryOf(firstRead'.entries[i], firstRead'.named, ev, v, av, fv, i)
    BY DEF EntryOf
  <2>3. \A i \in Ids :
        NameOf(firstRead.entries[i], firstRead.named, ev, v, i)' <=>
        NameOf(firstRead'.entries[i], firstRead'.named, ev, v, i)
    BY DEF NameOf
  <2>. QED
    BY <2>1, <2>2, <2>3 DEF Rewritten
<1>2. /\ Begun(pos - 1, 0, ev, EntryPointVec)' <=> Begun(pos' - 1, 0, ev, EntryPointVec')
      /\ Begun(pos - 1, p, v, DecLog)' <=> Begun(pos' - 1, p, v, DecLog')
      /\ Begun(pos - 1, r, av, GroupDecVec)' <=> Begun(pos' - 1, r, av, GroupDecVec')
      /\ Begun(pos - 1, s, fv, DefVec)' <=> Begun(pos' - 1, s, fv, DefVec')
  BY DEF Begun, Within
<1>3. \A i \in Ids :
        Compared(input, pos - 1, firstRead.entries[i], firstRead.named, ev, DecLog, IdEntryMap[i], NamedId, i)' <=>
        Compared(input', pos' - 1, firstRead'.entries[i], firstRead'.named, ev, DecLog', IdEntryMap'[i], NamedId', i)
  BY DEF Compared, InLog
<1>. QED
  BY <1>1, <1>2, <1>3 DEF Rereads

-----------------------------------------------------------------------------
(* Every step keeps it.                                                    *)

LEMMA StableDecode ==
  ASSUME AnnotationInv, StableInv, Decode
  PROVE  StableInv'
<1> DEFINE x == Inst
           n == pos - 1
           E == IdEntryMap
           F == IdEntryMap'
           ew == Logged(EntryPointVec, {"EntryPoint"}, x)
           w == Logged(DecLog, Grouping, x)
           aw == Logged(GroupDecVec, {"GroupDecorate"}, x)
           fw == Logged(DefVec, {"Function", "Def"}, x)
<1>1. TableInv /\ GroupsKnown /\ GroupLog(DecLog, DecGroupVec, DecorateVec, GroupDecVec)
  BY DEF AnnotationInv, ArriveInv, Known, GroupsKnown, StableInv, Said
<1>2. TableInv' /\ pos \in 1 .. Len(input) /\ pos' = pos + 1 /\ input' = input
  BY <1>1, TableDecode
<1>3. round' = round /\ firstRead' = firstRead
  BY DEF Decode, DecodeName, DecodeEntryPoint, DecodeExecutionMode, DecodeDecorate, DecodeGroup,
         DecodeGroupDecorate, DecodeDef, DecodeFunction, Define, Advance
<1>4. /\ n \in Nat /\ n < Len(input) /\ pos = n + 1 /\ input[n + 1] = x /\ input[pos] = x
      /\ input \in Seq(Annotated) /\ pos' - 1 = pos
  BY <1>1, <1>2, Place DEF TableInv, Reading
<1>5. x \in Annotated
  BY <1>2, <1>4
<1>6. EntryPointVec' = ew /\ DecLog' = w /\ GroupDecVec' = aw /\ DefVec' = fw
  BY <1>1, LogsDecode
<1>7. /\ EntryPointVec \in Seq(Annotated) /\ DecLog \in Seq(Annotated)
      /\ GroupDecVec \in Seq(Annotated) /\ DefVec \in Seq(Annotated)
  BY <1>1, LogTypes
<1>8. \A i \in Ids : EntryOf(E[i], NamedId, EntryPointVec, DecLog, GroupDecVec, DefVec, i)
  BY DEF StableInv, Said
<1>9. \A i \in Ids : E[i].kind = "group" <=> InLog(DecLog, {"Group"}, i)
  BY <1>8 DEF EntryOf
<1>10. /\ GroupLog(DecLog', DecGroupVec', DecorateVec', GroupDecVec')
       /\ x.op = "Group" => \A k \in 1 .. Len(GroupDecVec) : GroupDecVec[k].id # x.id
  BY <1>1, <1>9, GroupLogDecode
<1>11. \A i \in Ids : Reads(E[i], F[i], NamedId, NamedId', DecLog, x, i)
  BY <1>1, ReadsDecode
<1>12. /\ \A i \in Ids : E[i] \in EntryType /\ F[i] \in EntryType
       /\ \A i \in Ids : i \in NamedId => E[i].name # NoName
  <2>1. EntryType' = EntryType
    BY DEF EntryType, EntryKinds, InstType, Ops, Decorations, Definitions
  <2>. QED
    BY <1>1, <1>2, <2>1 DEF TableInv, Entries
<1> HIDE DEF x, n, E, F
<1>13. \A i \in Ids : SaysMore(EntryPointVec, DecLog, GroupDecVec, DefVec, ew, w, aw, fw, x, i)
  BY <1>5, <1>7, <1>10, SectionsMore
<1>14. ASSUME NEW i \in Ids PROVE EntryOf(F[i], NamedId', ew, w, aw, fw, i)
  <2> HIDE DEF ew, w, aw, fw
  <2>. QED
    BY <1>5, <1>8, <1>11, <1>12, <1>13, EntryMore
<1>15. ASSUME NoLinkageInGroups(w), NEW i \in Ids PROVE NameOf(F[i], NamedId', ew, w, i)
  <2>1. NoLinkageInGroups(DecLog)
    BY <1>5, <1>7, <1>15, LinkageLoose
  <2>2. NameOf(E[i], NamedId, EntryPointVec, DecLog, i)
    BY <2>1 DEF StableInv, Said, E
  <2>3. /\ About(x, {"Name", "EntryPoint"}, i) => ~InLog(DecLog, {"Linkage"}, i)
        /\ About(x, {"Name"}, i) => About(x, {"Name", "EntryPoint"}, i)
    BY <1>1, <1>2, NamingFits DEF x, About
  <2>4. About(x, {"Name"}, i) => \A k \in 1 .. Len(EntryPointVec) :
          EntryPointVec[k].op = "EntryPoint" /\ EntryPointVec[k].id = i => EntryPointVec[k].ann = x.ann
    BY <1>1, <1>2, <2>3, NamingFits DEF x
  <2>5. SaysMore(EntryPointVec, DecLog, GroupDecVec, DefVec, ew, w, aw, fw, x, i)
    BY <1>13
  <2> HIDE DEF aw, fw
  <2>. QED
    BY <1>5, <1>7, <1>11, <1>12, <2>1, <2>2, <2>3, <2>4, <2>5, NameMore
<1>16. Said'
  <2>1. \A i \in Ids : EntryOf(F[i], NamedId', EntryPointVec', DecLog', GroupDecVec', DefVec', i)
    BY <1>6, <1>14
  <2>2. NoLinkageInGroups(DecLog') => \A i \in Ids : NameOf(F[i], NamedId', EntryPointVec', DecLog', i)
    BY <1>6, <1>15
  <2>. QED
    BY <1>10, <2>1, <2>2, SaidNext DEF F
<1>17. CASE round = 1
  <2>1. Regular(input) /\ FromInput(input, n, EntryPointVec, DecLog, E)
    BY <1>17 DEF StableInv, n, E
  <2>2. FromInput(input, pos, ew, w, F)
    BY <1>4, <1>5, <1>7, <1>11, <2>1, FromInputMore
  <2>3. Regular(input') /\ FromInput(input', pos' - 1, EntryPointVec', DecLog', F)
    BY <1>2, <1>4, <1>6, <2>1, <2>2
  <2>4. Regular(input)' /\ FromInput(input, pos - 1, EntryPointVec, DecLog, IdEntryMap)'
    BY <2>3, FromInputNext DEF F
  <2>. QED
    BY <1>3, <1>16, <1>17, <2>4 DEF StableInv
<1>18. CASE round = 2
  <2>1. PICK ev, v, av, fv \in Seq(Annotated) : \E p, r, s \in Nat : Rereads(ev, v, av, fv, p, r, s)
    BY <1>18 DEF StableInv
  <2>2. PICK p, r, s \in Nat : Rereads(ev, v, av, fv, p, r, s)
    BY <2>1
  <2>3. /\ Rewritten(input, firstRead, ev, v, av, fv, p, r, s)
        /\ Begun(n, 0, ev, EntryPointVec) /\ Begun(n, p, v, DecLog)
        /\ Begun(n, r, av, GroupDecVec) /\ Begun(n, s, fv, DefVec)
        /\ NoLinkageInGroups(v) => \A i \in Ids :
             Compared(input, n, firstRead.entries[i], firstRead.named, ev, DecLog, E[i], NamedId, i)
    BY <2>2 DEF Rereads, n, E
  <2>4. /\ SectionOf(input, 0, ev, {"EntryPoint"}) /\ SectionOf(input, p, v, Grouping)
        /\ SectionOf(input, r, av, {"GroupDecorate"}) /\ SectionOf(input, s, fv, {"Function", "Def"})
    BY <2>3 DEF Rewritten
  <2>5. Begun(pos, 0, ev, ew)
    <3>1. Begun(n + 1, 0, ev, Logged(EntryPointVec, {"EntryPoint"}, input[n + 1]))
      BY <1>4, <1>7, <2>3, <2>4, BegunMore
    <3>. QED
      BY <1>4, <3>1
  <2>6. Begun(pos, p, v, w)
    <3>1. Begun(n + 1, p, v, Logged(DecLog, Grouping, input[n + 1]))
      BY <1>4, <1>7, <2>3, <2>4, BegunMore
    <3>. QED
      BY <1>4, <3>1
  <2>7. Begun(pos, r, av, aw)
    <3>1. Begun(n + 1, r, av, Logged(GroupDecVec, {"GroupDecorate"}, input[n + 1]))
      BY <1>4, <1>7, <2>3, <2>4, BegunMore
    <3>. QED
      BY <1>4, <3>1
  <2>8. Begun(pos, s, fv, fw)
    <3>1. Begun(n + 1, s, fv, Logged(DefVec, {"Function", "Def"}, input[n + 1]))
      BY <1>4, <1>7, <2>3, <2>4, BegunMore
    <3>. QED
      BY <1>4, <3>1
  <2>9. ASSUME NoLinkageInGroups(v), NEW i \in Ids
        PROVE  Compared(input, pos, firstRead.entries[i], firstRead.named, ev, w, F[i], NamedId', i)
    <3>1. /\ InLog(DecLog, {"Linkage"}, i) => InLog(v, {"Linkage"}, i)
          /\ NoLinkageInGroups(DecLog)
      BY <1>4, <1>7, <2>3, <2>9, BegunPart
    <3>2. NameOf(E[i], NamedId, EntryPointVec, DecLog, i)
      BY <3>1 DEF StableInv, Said, E
    <3>3. InLog(w, {"Linkage"}, i) <=> InLog(DecLog, {"Linkage"}, i) \/ About(x, {"Linkage"}, i)
      BY <1>13 DEF SaysMore
    <3> HIDE DEF w
    <3>. QED
      BY <1>2, <1>4, <1>5, <1>11, <1>12, <2>3, <2>9, <3>1, <3>2, <3>3, CompareMore
  <2>10. Rereads(ev, v, av, fv, p, r, s)'
    <3>1. Rewritten(input', firstRead', ev, v, av, fv, p, r, s)
      BY <1>2, <1>3, <2>3
    <3>2. /\ Begun(pos' - 1, 0, ev, EntryPointVec') /\ Begun(pos' - 1, p, v, DecLog')
          /\ Begun(pos' - 1, r, av, GroupDecVec') /\ Begun(pos' - 1, s, fv, DefVec')
      BY <1>4, <1>6, <2>5, <2>6, <2>7, <2>8
    <3>3. NoLinkageInGroups(v) => \A i \in Ids :
            Compared(input', pos' - 1, firstRead'.entries[i], firstRead'.named, ev, DecLog', F[i], NamedId', i)
      BY <1>2, <1>3, <1>4, <1>6, <2>9
    <3>. QED
      BY <3>1, <3>2, <3>3, RereadsNext DEF F
  <2>11. Annotated' = Annotated
    BY DEF Annotated, InstType, Ops, Decorations, Definitions
  <2>12. \E a, b, c, d \in Seq(Annotated) : \E k, l, q \in Nat : Rereads(a, b, c, d, k, l, q)'
    BY <2>10
  <2>13. (\E a, b, c, d \in Seq(Annotated) : \E k, l, q \in Nat : Rereads(a, b, c, d, k, l, q))'
    BY <2>11, <2>12
  <2>14. round' = 2 /\ round' # 1
    BY <1>3, <1>18
  <2>. QED
    BY <1>16, <2>13, <2>14, Zenon DEF StableInv
<1>. QED
  BY <1>1, <1>17, <1>18 DEF TableInv, Reading

LEMMA FreshLogs ==
  ASSUME Fresh
  PROVE  /\ EntryPointVec = <<>> /\ DecLog = <<>> /\ GroupDecVec = <<>> /\ DefVec = <<>>
         /\ DecorateVec = <<>> /\ DecGroupVec = <<>> /\ NamedId = {} /\ pos - 1 = 0
         /\ \A i \in Ids : IdEntryMap[i] = Absent
<1>1. WrittenGroups = <<>>
  BY FreshGroups
<1>2. DecLog = <<>>
  BY <1>1 DEF DecLog, Fresh
<1>. QED
  BY <1>2 DEF Fresh, NoEntries

LEMMA FreshSaid ==
  ASSUME Fresh
  PROVE  Said /\ FromInput(input, pos - 1, EntryPointVec, DecLog, IdEntryMap)
<1> DEFINE o == <<>>
<1>1. /\ EntryPointVec = o /\ DecLog = o /\ GroupDecVec = o /\ DefVec = o
      /\ DecorateVec = o /\ DecGroupVec = o /\ NamedId = {} /\ pos - 1 = 0
      /\ \A i \in Ids : IdEntryMap[i] = Absent
  BY FreshLogs
<1>2. 1 .. Len(o) = {} /\ 1 .. 0 = {}
  OBVIOUS
<1> HIDE DEF o
<1>3. /\ \A ops, i : ~InLog(o, ops, i)
      /\ \A i : DirectIn(o, i) = {} /\ GroupedIn(o, o, i) = {} /\ ~Targeted(o, i)
      /\ Loose(o) = {} /\ ToSet(o) = {}
  BY <1>2 DEF InLog, DirectIn, GroupedIn, Targeted, Loose, ToSet
<1>4. /\ Absent.kind = "none" /\ Absent.name = NoName /\ Absent.decs = {} /\ Absent.modes = {}
  BY DEF Absent
<1>5. GroupLog(o, o, o, o)
  BY <1>2, <1>3 DEF GroupLog
<1>6. \A i \in Ids : EntryOf(Absent, {}, o, o, o, o, i)
  BY <1>3, <1>4 DEF EntryOf
<1>7. \A i \in Ids : NameOf(Absent, {}, o, o, i)
  BY <1>3, <1>4 DEF NameOf
<1>8. Said
  BY <1>1, <1>5, <1>6, <1>7 DEF Said
<1>9. FromInput(input, 0, o, o, IdEntryMap)
  BY <1>1, <1>2, <1>4 DEF FromInput
<1>. QED
  BY <1>1, <1>8, <1>9

\* Nothing has been read of any section yet.
LEMMA BegunNone ==
  ASSUME NEW o \in Nat, NEW v \in Seq(Annotated)
  PROVE  Begun(0, o, v, <<>>)
BY DEF Begun, Within

LEMMA ComparedNone ==
  ASSUME NEW m, NEW g, NEW old, NEW ev, NEW w, NEW i
  PROVE  Compared(m, 0, g, old, ev, w, Absent, {}, i)
<1>1. 1 .. 0 = {} /\ Absent.modes = {}
  BY DEF Absent
<1>. QED
  BY <1>1 DEF Compared

-----------------------------------------------------------------------------
(* What operator<< writes when the first reading has ended.                *)

LEMMA SectionPlaces ==
  ASSUME NEW m \in Seq(Annotated), NEW o, NEW v \in Seq(Annotated), NEW ops, SectionOf(m, o, v, ops)
  PROVE  /\ \A q \in 1 .. Len(m) : m[q].op \in ops =>
              \E k \in 1 .. Len(v) : m[q] = v[k] /\ q = o + k
         /\ \A k \in 1 .. Len(v) : o + k \in 1 .. Len(m) /\ m[o + k] = v[k] /\ v[k].op \in ops
<1>1. /\ o \in Nat /\ o + Len(v) <= Len(m) /\ Len(m) \in Nat /\ Len(v) \in Nat
      /\ \A k \in 1 .. Len(v) : m[o + k] = v[k]
      /\ \A q \in 1 .. Len(m) : m[q].op \in ops <=> Within(q, o, v)
  BY DEF SectionOf
<1>2. ASSUME NEW q \in 1 .. Len(m), m[q].op \in ops
      PROVE  \E k \in 1 .. Len(v) : m[q] = v[k] /\ q = o + k
  <2>1. q - o \in 1 .. Len(v) /\ o + (q - o) = q
    BY <1>1, <1>2 DEF Within
  <2>2. m[o + (q - o)] = v[q - o]
    BY <1>1, <2>1
  <2>. QED
    BY <2>1, <2>2
<1>3. ASSUME NEW k \in 1 .. Len(v)
      PROVE  o + k \in 1 .. Len(m) /\ m[o + k] = v[k] /\ v[k].op \in ops
  <2>1. o + k \in 1 .. Len(m) /\ Within(o + k, o, v)
    BY <1>1 DEF Within
  <2>2. m[o + k] = v[k] /\ m[o + k].op \in ops
    BY <1>1, <2>1
  <2>. QED
    BY <2>1, <2>2
<1>. QED
  BY <1>2, <1>3

\* Every mode is written, because an entry point has it.
LEMMA ModesOfEntryPoints ==
  ASSUME TableInv, StableInv, ReadOnce, NEW i \in Ids, IdEntryMap[i].modes # {}
  PROVE  InLog(EntryPointVec, {"EntryPoint"}, i)
<1>1. /\ Regular(input) /\ FromInput(input, pos - 1, EntryPointVec, DecLog, IdEntryMap)
      /\ pos - 1 = Len(input)
  BY DEF StableInv, ReadOnce, TableInv, Reading
<1>2. PICK q \in 1 .. Len(input) : input[q].op = "Mode" /\ input[q].id = i
  BY <1>1 DEF FromInput
<1>3. InLog(input, {"EntryPoint"}, i)
  BY <1>1, <1>2 DEF Regular
<1>4. PICK k \in 1 .. Len(input) : input[k].op = "EntryPoint" /\ input[k].id = i
  BY <1>3 DEF InLog
<1>. QED
  BY <1>1, <1>4 DEF FromInput

LEMMA WrittenInSections ==
  ASSUME TableInv
  PROVE  Written = ((((EntryPointVec \o WrittenModes) \o WrittenNames) \o DecLog) \o GroupDecVec) \o DefVec
<1> DEFINE a == (EntryPointVec \o WrittenModes) \o WrittenNames
           b == WrittenGroups
           c == DecorateVec
<1>1. Written = (((a \o b) \o c) \o GroupDecVec) \o DefVec
  BY Zenon DEF Written
<1>2. a \in Seq(Annotated) /\ b \in Seq(Annotated) /\ c \in Seq(Annotated)
  <2>1. \A ops : Of(ops) \subseteq Annotated
    BY DEF Of
  <2>2. /\ EntryPointVec \in Seq(Annotated) /\ WrittenModes \in Seq(Annotated)
        /\ WrittenNames \in Seq(Annotated) /\ b \in Seq(Annotated) /\ c \in Seq(Annotated)
    BY <2>1, WrittenSections, SeqMonotonic DEF Decorating
  <2>. QED
    BY <2>2, ConcatProperties
<1> HIDE DEF a
<1>3. (a \o b) \o c = a \o (b \o c)
  BY <1>2, ConcatAssociative
<1>. QED
  BY <1>1, <1>3 DEF a, DecLog

LEMMA WrittenRewrites ==
  ASSUME TableInv, StableInv, ReadOnce, NEW fr, fr.entries = IdEntryMap, fr.named = NamedId
  PROVE  \E p, r, s \in Nat : Rewritten(Written, fr, EntryPointVec, DecLog, GroupDecVec, DefVec, p, r, s)
<1> DEFINE m == Written
           a == EntryPointVec
           b == WrittenModes
           c == WrittenNames
           d == DecLog
           e == GroupDecVec
           f == DefVec
           E == IdEntryMap
<1>1. /\ a \in Seq(Of({"EntryPoint"})) /\ b \in Seq(Of({"Mode"})) /\ c \in Seq(Of({"Name"}))
      /\ d \in Seq(Decorating) /\ e \in Seq(Of({"GroupDecorate"})) /\ f \in Seq(Of({"Function", "Def"}))
      /\ m = ((((a \o b) \o c) \o d) \o e) \o f
  BY WrittenSections, LogTypes, WrittenInSections
<1>2. \A i \in Ids : EntryOf(E[i], NamedId, a, d, e, f, i)
  BY DEF StableInv, Said
<1>3. NoLinkageInGroups(d) => \A i \in Ids : NameOf(E[i], NamedId, a, d, i)
  BY DEF StableInv, Said
<1>4. \A i \in Ids : E[i].modes # {} => InLog(a, {"EntryPoint"}, i)
  BY ModesOfEntryPoints
<1>5. /\ \A q \in 1 .. Len(b) : b[q].id \in Ids /\ b[q].ann \in E[b[q].id].modes
      /\ \A i \in Ids : InLog(a, {"EntryPoint"}, i) =>
           \A z \in E[i].modes : \E q \in 1 .. Len(b) : b[q].id = i /\ b[q].ann = z
  BY ModesListed
<1>6. /\ \A q \in 1 .. Len(c) : /\ c[q].id \in NamedId /\ ~InLog(a, {"EntryPoint"}, c[q].id)
                                /\ c[q].ann = E[c[q].id].name
      /\ \A i \in NamedId : ~InLog(a, {"EntryPoint"}, i) => \E q \in 1 .. Len(c) : c[q].id = i
  BY NamesListed
<1>7. \A ops : \A v \in Seq(Of(ops)) : v \in Seq(Annotated)
  <2>1. \A ops : Of(ops) \subseteq Annotated
    BY DEF Of
  <2>. QED
    BY <2>1, SeqMonotonic
<1>8. fr.entries = E /\ fr.named = NamedId
  OBVIOUS
<1> HIDE DEF m, a, b, c, d, e, f, E
<1>9. /\ SectionOf(m, 0, a, {"EntryPoint"}) /\ SectionOf(m, Len(a), b, {"Mode"})
      /\ \E o, p, r, s \in Nat :
           /\ SectionOf(m, o, c, {"Name"}) /\ SectionOf(m, p, d, Grouping)
           /\ SectionOf(m, r, e, {"GroupDecorate"}) /\ SectionOf(m, s, f, {"Function", "Def"})
           /\ o + Len(c) <= p /\ Len(a) <= p
      /\ m \in Seq(Annotated)
  BY <1>1, SixSections, ZenonT(40)
<1>10. PICK o, p, r, s \in Nat :
           /\ SectionOf(m, o, c, {"Name"}) /\ SectionOf(m, p, d, Grouping)
           /\ SectionOf(m, r, e, {"GroupDecorate"}) /\ SectionOf(m, s, f, {"Function", "Def"})
           /\ o + Len(c) <= p /\ Len(a) <= p
  BY <1>9
<1>11. a \in Seq(Annotated) /\ b \in Seq(Annotated) /\ c \in Seq(Annotated)
  BY <1>1, <1>7
<1>12. Len(a) \in Nat /\ Len(b) \in Nat /\ Len(c) \in Nat /\ Len(m) \in Nat
  BY <1>9, <1>11
<1>13. /\ \A q \in 1 .. Len(m) : m[q].op = "EntryPoint" => \E k \in 1 .. Len(a) : m[q] = a[k] /\ q = 0 + k
       /\ \A k \in 1 .. Len(a) : 0 + k \in 1 .. Len(m) /\ m[0 + k] = a[k] /\ a[k].op = "EntryPoint"
  <2>1. SectionOf(m, 0, a, {"EntryPoint"})
    BY <1>9
  <2>2. /\ \A q \in 1 .. Len(m) : m[q].op \in {"EntryPoint"} => \E k \in 1 .. Len(a) : m[q] = a[k] /\ q = 0 + k
        /\ \A k \in 1 .. Len(a) : 0 + k \in 1 .. Len(m) /\ m[0 + k] = a[k] /\ a[k].op \in {"EntryPoint"}
    BY <1>9, <1>11, <2>1, SectionPlaces
  <2>. QED
    BY <2>2
<1>14. /\ \A q \in 1 .. Len(m) : m[q].op = "Mode" => \E k \in 1 .. Len(b) : m[q] = b[k] /\ q = Len(a) + k
       /\ \A k \in 1 .. Len(b) : Len(a) + k \in 1 .. Len(m) /\ m[Len(a) + k] = b[k] /\ b[k].op = "Mode"
  <2>1. SectionOf(m, Len(a), b, {"Mode"})
    BY <1>9
  <2>2. /\ \A q \in 1 .. Len(m) : m[q].op \in {"Mode"} => \E k \in 1 .. Len(b) : m[q] = b[k] /\ q = Len(a) + k
        /\ \A k \in 1 .. Len(b) : Len(a) + k \in 1 .. Len(m) /\ m[Len(a) + k] = b[k] /\ b[k].op \in {"Mode"}
    BY <1>9, <1>11, <2>1, SectionPlaces
  <2>. QED
    BY <2>2
<1>15. /\ \A q \in 1 .. Len(m) : m[q].op = "Name" => \E k \in 1 .. Len(c) : m[q] = c[k] /\ q = o + k
       /\ \A k \in 1 .. Len(c) : o + k \in 1 .. Len(m) /\ m[o + k] = c[k] /\ c[k].op = "Name"
  <2>1. SectionOf(m, o, c, {"Name"})
    BY <1>10
  <2>2. /\ \A q \in 1 .. Len(m) : m[q].op \in {"Name"} => \E k \in 1 .. Len(c) : m[q] = c[k] /\ q = o + k
        /\ \A k \in 1 .. Len(c) : o + k \in 1 .. Len(m) /\ m[o + k] = c[k] /\ c[k].op \in {"Name"}
    BY <1>9, <1>11, <2>1, SectionPlaces
  <2>. QED
    BY <2>2
<1>16. ASSUME NEW q \in 1 .. Len(m), m[q].op \in {"Name", "EntryPoint"} PROVE q <= p
  <2>1. CASE m[q].op = "Name"
    <3>1. PICK k \in 1 .. Len(c) : q = o + k
      BY <1>15, <2>1
    <3>. QED
      BY <1>10, <1>12, <3>1
  <2>2. CASE m[q].op = "EntryPoint"
    <3>1. PICK k \in 1 .. Len(a) : q = 0 + k
      BY <1>13, <2>2
    <3>. QED
      BY <1>10, <1>12, <3>1
  <2>. QED
    BY <1>16, <2>1, <2>2
<1>17. ASSUME NEW q \in 1 .. Len(m), m[q].op = "Name"
       PROVE  /\ m[q].id \in fr.named /\ ~InLog(a, {"EntryPoint"}, m[q].id)
              /\ m[q].ann = fr.entries[m[q].id].name
  BY <1>6, <1>8, <1>15, <1>17
<1>18. ASSUME NEW i \in fr.named, ~InLog(a, {"EntryPoint"}, i)
       PROVE  \E q \in 1 .. Len(m) : m[q].op = "Name" /\ m[q].id = i
  <2>1. PICK k \in 1 .. Len(c) : c[k].id = i
    BY <1>6, <1>8, <1>18
  <2>. QED
    BY <1>15, <2>1
<1>19. ASSUME NEW q \in 1 .. Len(m), m[q].op = "Mode" PROVE m[q].ann \in fr.entries[m[q].id].modes
  BY <1>5, <1>8, <1>14, <1>19
<1>20. ASSUME NEW i \in Ids, NEW z \in fr.entries[i].modes
       PROVE  \E q \in 1 .. Len(m) : m[q].op = "Mode" /\ m[q].id = i /\ m[q].ann = z
  <2>1. PICK k \in 1 .. Len(b) : b[k].id = i /\ b[k].ann = z
    BY <1>4, <1>5, <1>8, <1>20
  <2>. QED
    BY <1>14, <2>1
<1>21. Rewritten(m, fr, a, d, e, f, p, r, s)
  BY <1>2, <1>3, <1>4, <1>8, <1>9, <1>10, <1>16, <1>17, <1>18, <1>19, <1>20 DEF Rewritten
<1>. QED
  BY <1>10, <1>21 DEF m, a, d, e, f

LEMMA StableReread ==
  ASSUME AnnotationInv, StableInv, WriteAndReread
  PROVE  StableInv'
<1> DEFINE fr == [entries |-> IdEntryMap, named |-> NamedId]
           ev == EntryPointVec
           v == DecLog
           av == GroupDecVec
           fv == DefVec
<1>1. /\ TableInv /\ ReadOnce /\ firstRead' = fr /\ input' = Written /\ round' = 2 /\ round' # 1
  BY DEF AnnotationInv, WriteAndReread, ReadOnce
<1>2. Fresh'
  BY DEF WriteAndReread, Fresh, NoEntries, Absent
<1>3. (Said /\ FromInput(input, pos - 1, EntryPointVec, DecLog, IdEntryMap))'
  BY <1>2, FreshSaid, PTL
<1>4. /\ EntryPointVec' = <<>> /\ DecLog' = <<>> /\ GroupDecVec' = <<>> /\ DefVec' = <<>>
      /\ NamedId' = {} /\ pos' - 1 = 0 /\ \A i \in Ids : IdEntryMap'[i] = Absent
  <2>1. (/\ EntryPointVec = <<>> /\ DecLog = <<>> /\ GroupDecVec = <<>> /\ DefVec = <<>>
         /\ DecorateVec = <<>> /\ DecGroupVec = <<>> /\ NamedId = {} /\ pos - 1 = 0
         /\ \A i \in Ids : IdEntryMap[i] = Absent)'
    BY <1>2, FreshLogs, PTL
  <2>. QED
    BY <2>1 DEF Absent
<1>5. fr.entries = IdEntryMap /\ fr.named = NamedId
  OBVIOUS
<1>6. /\ ev \in Seq(Annotated) /\ v \in Seq(Annotated) /\ av \in Seq(Annotated) /\ fv \in Seq(Annotated)
  BY <1>1, LogTypes
<1> HIDE DEF fr
<1>7. PICK p, r, s \in Nat : Rewritten(Written, fr, ev, v, av, fv, p, r, s)
  BY <1>1, <1>5, WrittenRewrites
<1>8. \E a, b, c, d \in Seq(Annotated) : \E k, l, q \in Nat : Rereads(a, b, c, d, k, l, q)'
  <2>1. PICK a, b, c, d \in Seq(Annotated) : a = ev /\ b = v /\ c = av /\ d = fv
    BY <1>6
  <2>2. Rewritten(input', firstRead', a, b, c, d, p, r, s)
    BY <1>1, <1>7, <2>1
  <2> HIDE DEF ev, v, av, fv
  <2>3. /\ Begun(pos' - 1, 0, a, EntryPointVec') /\ Begun(pos' - 1, p, b, DecLog')
        /\ Begun(pos' - 1, r, c, GroupDecVec') /\ Begun(pos' - 1, s, d, DefVec')
    <3>1. Begun(0, 0, a, <<>>) /\ Begun(0, p, b, <<>>) /\ Begun(0, r, c, <<>>) /\ Begun(0, s, d, <<>>)
      BY BegunNone
    <3>. QED
      BY <1>4, <3>1
  <2>4. \A i \in Ids :
          Compared(input', pos' - 1, firstRead'.entries[i], firstRead'.named, a, DecLog', IdEntryMap'[i], NamedId', i)
    BY <1>4, ComparedNone
  <2>5. Rereads(a, b, c, d, p, r, s)'
    BY <2>2, <2>3, <2>4, RereadsNext
  <2>. QED
    BY <2>5
<1>9. Annotated' = Annotated
  BY DEF Annotated, InstType, Ops, Decorations, Definitions
<1>10. (\E a, b, c, d \in Seq(Annotated) : \E k, l, q \in Nat : Rereads(a, b, c, d, k, l, q))'
  BY <1>8, <1>9
<1>. QED
  BY <1>1, <1>3, <1>10, Zenon DEF StableInv

LEMMA StableStutter ==
  ASSUME StableInv, UNCHANGED vars
  PROVE  StableInv'
<1>1. /\ input' = input /\ pos' = pos /\ round' = round /\ IdEntryMap' = IdEntryMap
      /\ NamedId' = NamedId /\ EntryPointVec' = EntryPointVec /\ DecorateVec' = DecorateVec
      /\ DecGroupVec' = DecGroupVec /\ GroupDecVec' = GroupDecVec /\ DefVec' = DefVec
      /\ firstRead' = firstRead /\ pos' - 1 = pos - 1
  BY DEF vars, tables
<1>2. DecLog' = DecLog
  BY <1>1 DEF DecLog, WrittenGroups
<1>3. Said'
  BY <1>1, <1>2, SaidNext DEF StableInv, Said
<1>4. ASSUME round' = 1
      PROVE  Regular(input)' /\ FromInput(input, pos - 1, EntryPointVec, DecLog, IdEntryMap)'
  <2>1. Regular(input) /\ FromInput(input, pos - 1, EntryPointVec, DecLog, IdEntryMap)
    BY <1>1, <1>4 DEF StableInv
  <2>2. Regular(input') /\ FromInput(input', pos' - 1, EntryPointVec', DecLog', IdEntryMap')
    BY <1>1, <1>2, <2>1
  <2>. QED
    BY <2>2, FromInputNext
<1>5. ASSUME round' = 2
      PROVE  (\E a, b, c, d \in Seq(Annotated) : \E k, l, q \in Nat : Rereads(a, b, c, d, k, l, q))'
  <2>1. PICK a, b, c, d \in Seq(Annotated) : \E p, r, s \in Nat : Rereads(a, b, c, d, p, r, s)
    BY <1>1, <1>5 DEF StableInv
  <2>2. PICK p, r, s \in Nat : Rereads(a, b, c, d, p, r, s)
    BY <2>1
  <2>3. /\ Rewritten(input', firstRead', a, b, c, d, p, r, s)
        /\ Begun(pos' - 1, 0, a, EntryPointVec') /\ Begun(pos' - 1, p, b, DecLog')
        /\ Begun(pos' - 1, r, c, GroupDecVec') /\ Begun(pos' - 1, s, d, DefVec')
        /\ NoLinkageInGroups(b) => \A i \in Ids :
             Compared(input', pos' - 1, firstRead'.entries[i], firstRead'.named, a, DecLog', IdEntryMap'[i], NamedId', i)
    BY <1>1, <1>2, <2>2 DEF Rereads
  <2>4. Rereads(a, b, c, d, p, r, s)'
    BY <2>3, RereadsNext
  <2>5. Annotated' = Annotated
    BY DEF Annotated, InstType, Ops, Decorations, Definitions
  <2>6. \E k, l, q \in Nat : Rereads(a, b, c, d, k, l, q)'
    BY <2>4
  <2>. QED
    BY <2>5, <2>6
<1>. QED
  BY <1>3, <1>4, <1>5, Zenon DEF StableInv

LEMMA StableInit ==
  ASSUME Init, Regular(input)
  PROVE  StableInv
<1>1. Fresh /\ round = 1 /\ round # 2
  BY DEF Init, Fresh
<1>. QED
  BY <1>1, FreshSaid DEF StableInv

LEMMA StableNext ==
  ASSUME AnnotationInv, StableInv, [Next]_vars
  PROVE  StableInv'
<1>1. Decode \/ WriteAndReread \/ UNCHANGED vars
  BY DEF Next, Decode, Finished
<1>. QED
  BY <1>1, StableDecode, StableReread, StableStutter

-----------------------------------------------------------------------------
(* When both readings have ended.                                          *)

LEMMA EntryFields ==
  ASSUME NEW e \in EntryType, NEW g \in EntryType,
         e.kind = g.kind, e.name = g.name, e.decs = g.decs, e.modes = g.modes
  PROVE  e = g
BY DEF EntryType

\* What operator<< writes for the entry g of i.
WritesEntry(m, g, old, ev, i) ==
  /\ i \in old /\ ~InLog(ev, {"EntryPoint"}, i) =>
       \E q \in 1 .. Len(m) : m[q].op = "Name" /\ m[q].id = i
  /\ \A a \in g.modes : \E q \in 1 .. Len(m) : m[q].op = "Mode" /\ m[q].id = i /\ m[q].ann = a

\* The entries of i, e of the second reading and g of the first.
LEMMA EntriesAgree ==
  ASSUME NEW m \in Seq(Annotated), NEW ev \in Seq(Annotated), NEW v \in Seq(Annotated),
         NEW av \in Seq(Annotated), NEW fv \in Seq(Annotated), NEW i \in Ids,
         NEW e \in EntryType, NEW g \in EntryType, NEW named, NEW old,
         EntryOf(e, named, ev, v, av, fv, i), EntryOf(g, old, ev, v, av, fv, i),
         NameOf(e, named, ev, v, i), NameOf(g, old, ev, v, i),
         WritesEntry(m, g, old, ev, i), Compared(m, Len(m), g, old, ev, v, e, named, i)
  PROVE  e = g /\ (i \in named <=> i \in old)
<1>1. /\ i \in named => i \in old
      /\ e.modes \subseteq g.modes
      /\ \A q \in 1 .. Len(m) : m[q].op = "Name" /\ m[q].id = i => i \in named
      /\ \A q \in 1 .. Len(m) : m[q].op = "Mode" /\ m[q].id = i =>
           e.kind # "none" /\ (e.kind \in {"forward", "function"} => m[q].ann \in e.modes)
      /\ ~InLog(v, {"Linkage"}, i) /\ i \in named /\ ~InLog(ev, {"EntryPoint"}, i) => e.name = g.name
  BY DEF Compared
<1>2. /\ EntryOf(g, old, ev, v, av, fv, i)
      /\ i \in old /\ ~InLog(ev, {"EntryPoint"}, i) =>
           \E q \in 1 .. Len(m) : m[q].op = "Name" /\ m[q].id = i
      /\ \A a \in g.modes : \E q \in 1 .. Len(m) : m[q].op = "Mode" /\ m[q].id = i /\ m[q].ann = a
  BY DEF WritesEntry
<1>3. NameOf(g, old, ev, v, i)
  OBVIOUS
<1>4. i \in named <=> i \in old
  <2>1. InLog(ev, {"EntryPoint"}, i) => i \in named
    BY DEF EntryOf
  <2>. QED
    BY <1>1, <1>2, <2>1
<1>5. \A a \in g.modes : e.kind # "none" /\ (e.kind \in {"forward", "function"} => a \in e.modes)
  BY <1>1, <1>2
<1>6. e.kind \in EntryKinds /\ g.kind \in EntryKinds
  BY DEF EntryType
<1>7. /\ e.kind = "group" <=> g.kind = "group"
      /\ e.kind = "function" <=> g.kind = "function"
      /\ e.kind = "other" <=> g.kind = "other"
      /\ g.kind \in {"none", "group", "other"} => g.modes = {}
      /\ e.decs = g.decs
  BY <1>2 DEF EntryOf
<1>8. e.kind = "none" <=> g.kind = "none"
  <2>1. ASSUME g.kind = "none", e.kind = "forward" PROVE FALSE
    <3>1. ~(i \in old \/ InLog(v, Decorations, i) \/ Targeted(av, i)) /\ e.modes = {}
      BY <1>1, <1>2, <1>7, <2>1 DEF EntryOf
    <3>. QED
      BY <1>4, <2>1, <3>1 DEF EntryOf
  <2>2. ASSUME e.kind = "none", g.kind = "forward" PROVE FALSE
    <3>1. ~(i \in named \/ InLog(v, Decorations, i) \/ Targeted(av, i)) /\ g.modes = {}
      BY <1>5, <2>2 DEF EntryOf
    <3>. QED
      BY <1>2, <1>4, <2>2, <3>1 DEF EntryOf
  <2>. QED
    BY <1>6, <1>7, <2>1, <2>2 DEF EntryKinds
<1>9. e.kind = g.kind
  BY <1>6, <1>7, <1>8 DEF EntryKinds
<1>10. e.modes = g.modes
  <2>1. ASSUME NEW a \in g.modes PROVE a \in e.modes
    BY <1>5, <1>6, <1>7, <1>9, <2>1 DEF EntryKinds
  <2>. QED
    BY <1>1, <2>1
<1>11. e.name = g.name
  <2>1. CASE InLog(v, {"Linkage"}, i)
    <3>1. LastOf(v, "Linkage", i, e.name) /\ LastOf(v, "Linkage", i, g.name)
      BY <1>3, <2>1 DEF NameOf
    <3>. QED
      BY <3>1, LastUnique
  <2>2. CASE ~InLog(v, {"Linkage"}, i) /\ InLog(ev, {"EntryPoint"}, i)
    <3>1. LastOf(ev, "EntryPoint", i, e.name) /\ LastOf(ev, "EntryPoint", i, g.name)
      BY <1>3, <2>2 DEF NameOf
    <3>. QED
      BY <3>1, LastUnique
  <2>3. CASE ~InLog(v, {"Linkage"}, i) /\ ~InLog(ev, {"EntryPoint"}, i)
    <3>1. i \notin named => e.name = NoName /\ g.name = NoName
      BY <1>3, <1>4, <2>3 DEF NameOf
    <3>. QED
      BY <1>1, <2>3, <3>1
  <2>. QED
    BY <2>1, <2>2, <2>3
<1>12. e = g
  BY <1>7, <1>9, <1>10, <1>11, EntryFields
<1>. QED
  BY <1>4, <1>12

\* What the module may not have, its section of decorations has not either.
LEMMA SectionLinkage ==
  ASSUME NEW m \in Seq(Annotated), NEW o, NEW v \in Seq(Annotated), NEW ops, SectionOf(m, o, v, ops),
         NoLinkageInGroups(m)
  PROVE  NoLinkageInGroups(v)
<1> SUFFICES ASSUME NEW k \in 1 .. Len(v), NEW l \in 1 .. Len(v), v[k].op = "Linkage", v[l].op = "Group"
             PROVE  l < k
  BY DEF NoLinkageInGroups
<1>1. /\ o + k \in 1 .. Len(m) /\ m[o + k] = v[k]
      /\ o + l \in 1 .. Len(m) /\ m[o + l] = v[l] /\ o \in Nat
  BY SectionPlaces DEF SectionOf
<1>2. o + l < o + k
  BY <1>1 DEF NoLinkageInGroups
<1>. QED
  BY <1>1, <1>2

LEMMA RereadAsRead ==
  ASSUME AnnotationInv, StableInv
  PROVE  RewriteStable
<1> SUFFICES ASSUME ReadTwice, NoLinkageInGroups(input)
             PROVE  firstRead = [entries |-> IdEntryMap, named |-> NamedId]
  BY DEF RewriteStable
<1>1. /\ TableInv /\ round = 2 /\ pos - 1 = Len(input) /\ input \in Seq(Annotated)
      /\ firstRead \in [entries : [Ids -> EntryType], named : SUBSET Ids]
      /\ IdEntryMap \in [Ids -> EntryType] /\ NamedId \subseteq Ids
  BY DEF AnnotationInv, TableInv, Reading, Entries, ReadTwice
<1>2. PICK ev, v, av, fv \in Seq(Annotated) : \E p, r, s \in Nat : Rereads(ev, v, av, fv, p, r, s)
  BY <1>1 DEF StableInv
<1>3. PICK p, r, s \in Nat : Rereads(ev, v, av, fv, p, r, s)
  BY <1>2
<1>4. /\ Rewritten(input, firstRead, ev, v, av, fv, p, r, s)
      /\ Begun(Len(input), 0, ev, EntryPointVec) /\ Begun(Len(input), p, v, DecLog)
      /\ Begun(Len(input), r, av, GroupDecVec) /\ Begun(Len(input), s, fv, DefVec)
      /\ NoLinkageInGroups(v) => \A i \in Ids :
           Compared(input, Len(input), firstRead.entries[i], firstRead.named, ev, DecLog, IdEntryMap[i], NamedId, i)
  BY <1>1, <1>3 DEF Rereads
<1>5. /\ SectionOf(input, 0, ev, {"EntryPoint"}) /\ SectionOf(input, p, v, Grouping)
      /\ SectionOf(input, r, av, {"GroupDecorate"}) /\ SectionOf(input, s, fv, {"Function", "Def"})
  BY <1>4 DEF Rewritten
<1>6. /\ EntryPointVec \in Seq(Annotated) /\ DecLog \in Seq(Annotated)
      /\ GroupDecVec \in Seq(Annotated) /\ DefVec \in Seq(Annotated)
  BY <1>1, LogTypes
<1>7. EntryPointVec = ev /\ DecLog = v
  BY <1>1, <1>4, <1>5, <1>6, BegunAll
<1>8. GroupDecVec = av /\ DefVec = fv
  BY <1>1, <1>4, <1>5, <1>6, BegunAll
<1>9. NoLinkageInGroups(v)
  BY <1>1, <1>5, SectionLinkage
<1>10. ASSUME NEW i \in Ids
       PROVE  IdEntryMap[i] = firstRead.entries[i] /\ (i \in NamedId <=> i \in firstRead.named)
  <2>1. /\ EntryOf(IdEntryMap[i], NamedId, ev, v, av, fv, i) /\ NameOf(IdEntryMap[i], NamedId, ev, v, i)
    BY <1>7, <1>8, <1>9 DEF StableInv, Said
  <2>2. NameOf(firstRead.entries[i], firstRead.named, ev, v, i)
    BY <1>4, <1>9 DEF Rewritten
  <2>3. Compared(input, Len(input), firstRead.entries[i], firstRead.named, ev, v, IdEntryMap[i], NamedId, i)
    BY <1>4, <1>7, <1>9
  <2>4. IdEntryMap[i] \in EntryType /\ firstRead.entries[i] \in EntryType
    BY <1>1
  <2>5. /\ EntryOf(firstRead.entries[i], firstRead.named, ev, v, av, fv, i)
        /\ WritesEntry(input, firstRead.entries[i], firstRead.named, ev, i)
    BY <1>4 DEF Rewritten, WritesEntry
  <2>. QED
    BY <1>1, <2>1, <2>2, <2>3, <2>4, <2>5, EntriesAgree
<1>11. firstRead.entries \in [Ids -> EntryType] /\ firstRead.named \subseteq Ids
  BY <1>1
<1>12. firstRead.entries = IdEntryMap /\ firstRead.named = NamedId
  BY <1>1, <1>10, <1>11
<1>. QED
  BY <1>1, <1>12

(***************************************************************************)
(* For modules of any size, with any number of ids, groups and forwards:   *)
(* what operator<< writes reads back as it was read first, every entry     *)
(* with its kind, its name, its decorations and its modes and NamedId too. *)
(* operator<< writes modes per entry point and moves names before the      *)
(* decorations, so the module has to be ordered as SPIR-V orders it.       *)
(***************************************************************************)
THEOREM RewritesStable == Spec /\ Regular(input) => []RewriteStable
<1>1. Init /\ Regular(input) => StableInv
  BY StableInit
<1>2. AnnotationInv /\ StableInv /\ [Next]_vars => StableInv'
  BY StableNext
<1>3. AnnotationInv /\ StableInv => RewriteStable
  BY RereadAsRead
<1>. QED
  BY <1>1, <1>2, <1>3, AnnotationsInvariant, PTL DEF Spec
============================================================================
