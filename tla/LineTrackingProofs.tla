------------------------- MODULE LineTrackingProofs -------------------------
(***************************************************************************)
(* Proofs about LineTracking, for functions of any size.  The writer finds *)
(* the place for a DebugScope by searching the block of an instruction, so *)
(* what keeps blocks in order is that every instruction that has a value   *)
(* stays between the label of its block and the next label while variables *)
(* and scopes are inserted around it.                                      *)
(***************************************************************************)
EXTENDS LineTracking, SequenceTheorems, WellFoundedInduction, TLAPS

Values == {"inst", "var", "end"}

Plain == {"inst", "var", "Scope", "NoScope"}

\* j is the first instruction of the block of i.
IsStart(j, i) ==
  /\ j \in 1 .. i /\ StartsBlock(j)
  /\ \A k \in (j + 1) .. i : ~StartsBlock(k)

InBlock(s, k, m) ==
  k < m /\ s[k].op = "Label" /\ \A l \in (k + 1) .. m : s[l].op # "Label"

\* A value of i stands behind the label of its block.
Placed(s, i) ==
  \E k, m \in 1 .. Len(s) : /\ InBlock(s, k, m) /\ IsStart(s[k].src, i)
                            /\ IsValueOf(s[m], i)

\* The block of i is the last one, and has no terminator yet.
OpenAt(s, k, i) ==
  /\ k \in 1 .. Len(s) /\ s[k].op = "Label" /\ IsStart(s[k].src, i)
  /\ \A l \in (k + 1) .. Len(s) : s[l].op # "Label"

OpenBlock(s, i) == (\E k \in 1 .. Len(s) : OpenAt(s, k, i)) /\ s[Len(s)].op # "end"

LabelsDiffer(s) ==
  \A k, l \in 1 .. Len(s) :
    s[k].op = "Label" /\ s[l].op = "Label" /\ s[k].src = s[l].src => k = l

InOrderAt(s, k) ==
  /\ s[k].op = "end" => k = Len(s) \/ s[k + 1].op = "Label"
  /\ s[k].op = "merge" => k < Len(s) /\ s[k + 1].op = "end"

Ordered(s) == \A k \in 1 .. Len(s) : InOrderAt(s, k)

NoAlias == \A i \in Insts : fn.kind[i] # "alias"

-----------------------------------------------------------------------------
(* The inductive invariant, in parts.                                      *)

Labelled(s, i) == \E k \in 1 .. Len(s) : s[k].op = "Label" /\ IsStart(s[k].src, i)

\* The LLVM instruction has a SPIR-V value of its own.
Own(i) == fn.kind[i] \notin {"none", "alias"}

HasBlock(s, i) == Labelled(s, i) /\ (Own(i) => Placed(s, i))

Translating ==
  /\ pc \in 1 .. N + 1
  /\ \A k \in 1 .. Len(InstVec) : InstVec[k].op = "Label" => InstVec[k].src < pc
  /\ \A i \in 1 .. pc - 1 : HasBlock(InstVec, i)
  /\ pc \in Insts /\ ~StartsBlock(pc) => OpenBlock(InstVec, pc)
  /\ Ordered(InstVec)

LayoutInv ==
  /\ TypeOK
  /\ LabelsDiffer(InstVec)
  /\ NoAlias => Ordered(InstVec)
  /\ phase = "translate" => Translating
  /\ phase = "locate" => \A i \in Insts : HasBlock(InstVec, i)

-----------------------------------------------------------------------------
(* Insertion into a sequence.                                              *)

\* r is s with e at position p.
Inserted(s, r, p, e) ==
  /\ Len(s) \in Nat /\ p \in 1 .. Len(s) + 1 /\ Len(r) = Len(s) + 1
  /\ r[p] = e
  /\ \A k \in 1 .. Len(s) : IF k < p THEN r[k] = s[k] ELSE r[k + 1] = s[k]

LEMMA InsertAtInserts ==
  ASSUME NEW S, NEW s \in Seq(S), NEW e \in S, NEW p \in 1 .. Len(s) + 1
  PROVE  InsertAt(s, p, e) \in Seq(S) /\ Inserted(s, InsertAt(s, p, e), p, e)
<1> DEFINE n == Len(s)
           a == SubSeq(s, 1, p - 1)
           b == SubSeq(s, p, n)
           r == a \o <<e>> \o b
<1>1. n \in Nat /\ p \in Int /\ \A k \in 1 .. n : s[k] \in S
  OBVIOUS
<1>2. /\ a \in Seq(S) /\ Len(a) = p - 1
      /\ \A k \in 1 .. p - 1 : a[k] = s[k]
  <2>1. \A k \in 1 .. p - 1 : s[k] \in S
    BY <1>1
  <2>2. /\ a \in Seq(S)
        /\ Len(a) = IF 1 <= p - 1 THEN p - 1 - 1 + 1 ELSE 0
        /\ \A k \in 1 .. p - 1 - 1 + 1 : a[k] = s[1 + k - 1]
    BY <1>1, <2>1, SubSeqProperties
  <2> HIDE DEF a
  <2>. QED
    BY <1>1, <2>2
<1>3. /\ b \in Seq(S) /\ Len(b) = n - p + 1
      /\ \A k \in 1 .. n - p + 1 : b[k] = s[p + k - 1]
  <2>1. \A k \in p .. n : s[k] \in S
    BY <1>1
  <2>2. /\ b \in Seq(S)
        /\ Len(b) = IF p <= n THEN n - p + 1 ELSE 0
        /\ \A k \in 1 .. n - p + 1 : b[k] = s[p + k - 1]
    BY <1>1, <2>1, SubSeqProperties
  <2> HIDE DEF b
  <2>. QED
    BY <1>1, <2>2
<1> HIDE DEF a, b
<1> DEFINE c == a \o <<e>>
<1>4. /\ c \in Seq(S) /\ Len(c) = p /\ c[p] = e
      /\ \A k \in 1 .. p - 1 : c[k] = s[k]
  <2>1. <<e>> \in Seq(S) /\ Len(<<e>>) = 1 /\ <<e>>[1] = e
    OBVIOUS
  <2> DEFINE d == <<e>>
  <2> HIDE DEF d
  <2>2. /\ a \o d \in Seq(S) /\ Len(a \o d) = Len(a) + Len(d)
        /\ \A k \in 1 .. Len(a) + Len(d) :
             (a \o d)[k] = IF k <= Len(a) THEN a[k] ELSE d[k - Len(a)]
    BY <1>2, <2>1, ConcatProperties DEF d
  <2>3. Len(a) + Len(d) = p /\ Len(a) = p - 1 /\ d[1] = e /\ p - (p - 1) = 1
    BY <1>1, <1>2, <2>1 DEF d
  <2>4. c = a \o d
    BY DEF d
  <2> HIDE DEF c
  <2>5. c[p] = d[p - (p - 1)]
    BY <1>1, <2>2, <2>3, <2>4
  <2>6. ASSUME NEW k \in 1 .. p - 1 PROVE c[k] = s[k]
    <3>1. k \in 1 .. Len(a) + Len(d) /\ k <= Len(a)
      BY <1>1, <2>3
    <3>. QED
      BY <1>2, <2>2, <2>4, <3>1
  <2>. QED
    BY <2>2, <2>3, <2>4, <2>5, <2>6
<1>5. r = c \o b
  OBVIOUS
<1> HIDE DEF c, r
<1>6. /\ r \in Seq(S) /\ Len(r) = p + (n - p + 1)
      /\ \A k \in 1 .. p + (n - p + 1) : r[k] = IF k <= p THEN c[k] ELSE b[k - p]
  <2>1. /\ c \o b \in Seq(S) /\ Len(c \o b) = Len(c) + Len(b)
        /\ \A k \in 1 .. Len(c) + Len(b) :
             (c \o b)[k] = IF k <= Len(c) THEN c[k] ELSE b[k - Len(c)]
    BY <1>3, <1>4, ConcatProperties
  <2>2. Len(c) = p /\ Len(b) = n - p + 1
    BY <1>3, <1>4
  <2>. QED
    BY <1>5, <2>1, <2>2
<1>7. Len(r) = n + 1 /\ p + (n - p + 1) = n + 1
  BY <1>1, <1>6
<1>8. r[p] = e
  BY <1>1, <1>4, <1>6, <1>7
<1>9. ASSUME NEW k \in 1 .. n PROVE IF k < p THEN r[k] = s[k] ELSE r[k + 1] = s[k]
  <2>1. CASE k < p
    <3>1. k \in 1 .. p - 1 /\ k \in 1 .. n + 1 /\ k <= p
      BY <1>1, <2>1
    <3>2. r[k] = c[k]
      BY <1>6, <1>7, <3>1
    <3>. QED
      BY <1>4, <2>1, <3>1, <3>2
  <2>2. CASE ~(k < p)
    <3>1. k + 1 \in 1 .. n + 1 /\ ~(k + 1 <= p) /\ k + 1 - p \in 1 .. n - p + 1
          /\ p + (k + 1 - p) - 1 = k
      BY <1>1, <2>2
    <3>2. r[k + 1] = b[k + 1 - p]
      BY <1>6, <1>7, <3>1
    <3>3. b[k + 1 - p] = s[p + (k + 1 - p) - 1]
      BY <1>3, <3>1
    <3>. QED
      BY <2>2, <3>1, <3>2, <3>3
  <2>. QED
    BY <2>1, <2>2
<1>10. InsertAt(s, p, e) = r
  BY DEF InsertAt, r, a, b
<1>. QED
  BY <1>1, <1>6, <1>7, <1>8, <1>9, <1>10 DEF Inserted

LEMMA AppendInserts ==
  ASSUME NEW S, NEW s \in Seq(S), NEW e \in S
  PROVE  /\ Append(s, e) \in Seq(S)
         /\ Inserted(s, Append(s, e), Len(s) + 1, e)
<1>1. /\ Append(s, e) \in Seq(S) /\ Len(Append(s, e)) = Len(s) + 1
      /\ \A k \in 1 .. Len(s) : Append(s, e)[k] = s[k]
      /\ Append(s, e)[Len(s) + 1] = e
  BY AppendProperties
<1>2. Len(s) \in Nat /\ \A k \in 1 .. Len(s) : k < Len(s) + 1
  OBVIOUS
<1>. QED
  BY <1>1, <1>2 DEF Inserted

\* Where the entries of s are in r, and what the entries of r are.
Moved(p, k) == IF k < p THEN k ELSE k + 1

LEMMA MovedFacts ==
  ASSUME NEW s, NEW r, NEW p, NEW e, Inserted(s, r, p, e)
  PROVE  /\ \A k \in 1 .. Len(s) : Moved(p, k) \in 1 .. Len(r) /\ r[Moved(p, k)] = s[k]
                                   /\ Moved(p, k) # p
         /\ \A k, l \in 1 .. Len(s) : k < l => Moved(p, k) < Moved(p, l)
         /\ \A m \in 1 .. Len(r) : m = p \/ \E k \in 1 .. Len(s) : m = Moved(p, k)
<1>1. Len(s) \in Nat /\ p \in 1 .. Len(s) + 1 /\ Len(r) = Len(s) + 1
  BY DEF Inserted
<1>2. ASSUME NEW k \in 1 .. Len(s)
      PROVE  Moved(p, k) \in 1 .. Len(r) /\ r[Moved(p, k)] = s[k] /\ Moved(p, k) # p
  BY <1>1 DEF Inserted, Moved
<1>3. \A k, l \in 1 .. Len(s) : k < l => Moved(p, k) < Moved(p, l)
  BY <1>1 DEF Moved
<1>4. ASSUME NEW m \in 1 .. Len(r), m # p PROVE \E k \in 1 .. Len(s) : m = Moved(p, k)
  <2>1. CASE m < p
    <3>1. m \in 1 .. Len(s) /\ Moved(p, m) = m
      BY <1>1, <2>1 DEF Moved
    <3>. QED
      BY <3>1
  <2>2. CASE ~(m < p)
    <3>1. m - 1 \in 1 .. Len(s) /\ Moved(p, m - 1) = m
      BY <1>1, <1>4, <2>2 DEF Moved
    <3>. QED
      BY <3>1
  <2>. QED
    BY <2>1, <2>2
<1>. QED
  BY <1>2, <1>3, <1>4

\* Blocks, in positions, survive the insertion of anything but a label into them.
LEMMA InsertKeepsBlock ==
  ASSUME NEW s, NEW r, NEW p, NEW e, Inserted(s, r, p, e),
         NEW k \in 1 .. Len(s), NEW m \in 1 .. Len(s), InBlock(s, k, m),
         e.op # "Label" \/ p = Len(s) + 1
  PROVE  InBlock(r, Moved(p, k), Moved(p, m))
<1> DEFINE k1 == Moved(p, k)
           m1 == Moved(p, m)
<1>1. Len(s) \in Nat /\ p \in 1 .. Len(s) + 1 /\ Len(r) = Len(s) + 1 /\ r[p] = e
  BY DEF Inserted
<1>2. k1 < m1 /\ r[k1] = s[k] /\ k1 \in 1 .. Len(r) /\ m1 \in 1 .. Len(r)
  BY MovedFacts DEF InBlock
<1>3. ASSUME NEW l \in (k1 + 1) .. m1 PROVE r[l].op # "Label"
  <2>1. l \in 1 .. Len(r)
    BY <1>1, <1>2
  <2>2. CASE l = p
    <3>1. p # Len(s) + 1
      BY <1>1, <2>2 DEF Moved
    <3>. QED
      BY <1>1, <2>2, <3>1
  <2>3. CASE l # p
    <3>1. PICK j \in 1 .. Len(s) : l = Moved(p, j)
      BY <2>1, <2>3, MovedFacts
    <3>2. r[l] = s[j]
      BY <3>1, MovedFacts
    <3>3. j \in (k + 1) .. m
      BY <1>1, <3>1 DEF Moved
    <3>. QED
      BY <3>2, <3>3 DEF InBlock
  <2>. QED
    BY <2>2, <2>3
<1>. QED
  BY <1>2, <1>3 DEF InBlock

LEMMA InsertKeepsPlaced ==
  ASSUME NEW s, NEW r, NEW p, NEW e, Inserted(s, r, p, e), NEW i, Placed(s, i),
         e.op # "Label" \/ p = Len(s) + 1
  PROVE  Placed(r, i)
<1>1. PICK k, m \in 1 .. Len(s) : /\ InBlock(s, k, m) /\ IsStart(s[k].src, i)
                                  /\ IsValueOf(s[m], i)
  BY DEF Placed
<1> DEFINE k1 == Moved(p, k)
           m1 == Moved(p, m)
<1>2. InBlock(r, k1, m1)
  BY <1>1, InsertKeepsBlock
<1>3. k1 \in 1 .. Len(r) /\ m1 \in 1 .. Len(r) /\ r[k1] = s[k] /\ r[m1] = s[m]
  BY MovedFacts
<1> HIDE DEF k1, m1
<1>. QED
  BY <1>1, <1>2, <1>3 DEF Placed

LEMMA InsertKeepsLabels ==
  ASSUME NEW s, NEW r, NEW p, NEW e, Inserted(s, r, p, e), LabelsDiffer(s),
         e.op = "Label" =>
           \A k \in 1 .. Len(s) : s[k].op = "Label" => s[k].src # e.src
  PROVE  LabelsDiffer(r)
<1> SUFFICES ASSUME NEW k \in 1 .. Len(r), NEW l \in 1 .. Len(r), r[k].op = "Label",
                    r[l].op = "Label", r[k].src = r[l].src, k # l
             PROVE  FALSE
  BY DEF LabelsDiffer
<1>1. r[p] = e
  BY DEF Inserted
<1>2. CASE k = p
  <2>1. PICK b \in 1 .. Len(s) : l = Moved(p, b) /\ r[l] = s[b]
    BY <1>2, MovedFacts
  <2>. QED
    BY <1>1, <1>2, <2>1
<1>3. CASE l = p
  <2>1. PICK a \in 1 .. Len(s) : k = Moved(p, a) /\ r[k] = s[a]
    BY <1>3, MovedFacts
  <2>. QED
    BY <1>1, <1>3, <2>1
<1>4. CASE k # p /\ l # p
  <2>1. PICK a \in 1 .. Len(s) : k = Moved(p, a) /\ r[k] = s[a]
    BY <1>4, MovedFacts
  <2>2. PICK b \in 1 .. Len(s) : l = Moved(p, b) /\ r[l] = s[b]
    BY <1>4, MovedFacts
  <2>. QED
    BY <2>1, <2>2 DEF LabelsDiffer
<1>. QED
  BY <1>2, <1>3, <1>4

\* An instruction that ends nothing, not behind a terminator or a merge.
LEMMA InsertKeepsOrder ==
  ASSUME NEW s, NEW r, NEW p, NEW e, Inserted(s, r, p, e), Ordered(s),
         e.op \in Plain, p > 1 => s[p - 1].op \notin {"end", "merge"}
  PROVE  Ordered(r)
<1>1. Len(s) \in Nat /\ p \in 1 .. Len(s) + 1 /\ Len(r) = Len(s) + 1 /\ r[p] = e
  BY DEF Inserted
<1> SUFFICES ASSUME NEW m \in 1 .. Len(r) PROVE InOrderAt(r, m)
  BY DEF Ordered
<1>2. CASE m = p
  BY <1>1, <1>2 DEF InOrderAt, Plain
<1>3. CASE m # p
  <2>1. PICK k \in 1 .. Len(s) : m = Moved(p, k) /\ r[m] = s[k]
    BY <1>3, MovedFacts
  <2>2. InOrderAt(s, k)
    BY DEF Ordered
  <2>3. CASE k = p - 1
    <3>1. s[k].op \notin {"end", "merge"}
      BY <1>1, <2>3
    <3>. QED
      BY <2>1, <3>1 DEF InOrderAt
  <2>4. CASE k # p - 1
    <3>1. k = Len(s) => m = Len(r)
      BY <1>1, <2>1, <2>4 DEF Moved
    <3>2. k < Len(s) => k + 1 \in 1 .. Len(s) /\ m < Len(r) /\ Moved(p, k + 1) = m + 1
      BY <1>1, <2>1, <2>4 DEF Moved
    <3>3. k < Len(s) => r[m + 1] = s[k + 1]
      BY <3>2, MovedFacts
    <3>4. k < Len(s) \/ k = Len(s)
      BY <1>1
    <3>. QED
      BY <2>1, <2>2, <3>1, <3>2, <3>3, <3>4 DEF InOrderAt
  <2>. QED
    BY <2>3, <2>4
<1>. QED
  BY <1>2, <1>3

-----------------------------------------------------------------------------
(* What the searches of the writer find.                                   *)

LEMMA LeastExists ==
  ASSUME NEW T \in SUBSET Nat, T # {}
  PROVE  \E x \in T : \A y \in T : x <= y
<1>1. PICK x \in T : \A y \in T : ~(<<y, x>> \in OpToRel(<, Nat))
  BY NatLessThanWellFounded, WFMin, Zenon
<1>2. \A y \in T : ~(y < x)
  BY <1>1 DEF OpToRel
<1>3. \A y \in T : x <= y
  BY <1>2
<1>. QED
  BY <1>3

LEMMA StartUnique ==
  ASSUME NEW i \in Insts, NEW j, NEW l, IsStart(j, i), IsStart(l, i)
  PROVE  j = l
<1>1. j \in 1 .. i /\ l \in 1 .. i /\ i \in Nat
  BY SizeAssumption DEF IsStart, Insts
<1>2. ~(j < l)
  BY <1>1 DEF IsStart
<1>3. ~(l < j)
  BY <1>1 DEF IsStart
<1>. QED
  BY <1>1, <1>2, <1>3

LEMMA BlockStartIs ==
  ASSUME NEW i \in Insts, NEW j, IsStart(j, i)
  PROVE  BlockStart(i) = j
<1>1. \E a \in 1 .. i : StartsBlock(a) /\ \A k \in (a + 1) .. i : ~StartsBlock(k)
  BY DEF IsStart
<1>2. IsStart(BlockStart(i), i)
  BY <1>1 DEF BlockStart, IsStart
<1>. QED
  BY <1>2, StartUnique

LEMMA LabelAtIs ==
  ASSUME NEW s, NEW i \in Insts, LabelsDiffer(s), NEW k \in 1 .. Len(s),
         s[k].op = "Label", IsStart(s[k].src, i)
  PROVE  LabelAt(s, i) = k
<1>1. BlockStart(i) = s[k].src
  BY BlockStartIs
<1>2. /\ LabelAt(s, i) \in 1 .. Len(s) /\ s[LabelAt(s, i)].op = "Label"
      /\ s[LabelAt(s, i)].src = BlockStart(i)
  BY <1>1 DEF LabelAt
<1>. QED
  BY <1>1, <1>2 DEF LabelsDiffer

LEMMA VariablePointFacts ==
  ASSUME NEW s, Len(s) \in Nat, NEW first \in 1 .. Len(s), s[first].op = "Label"
  PROVE  LET p == VariableInsertionPoint(s, first)
         IN  /\ p \in (first + 1) .. (Len(s) + 1)
             /\ \A k \in first .. (p - 1) : s[k].op \in {"Label", "var"}
             /\ p <= Len(s) => s[p].op \notin {"Label", "var"}
<1> DEFINE T == {p \in first .. (Len(s) + 1) : p <= Len(s) => s[p].op \notin {"Label", "var"}}
<1>1. T \in SUBSET Nat /\ Len(s) + 1 \in T
  OBVIOUS
<1>2. PICK q \in T : \A y \in T : q <= y
  BY <1>1, LeastExists
<1>3. \A k \in first .. (q - 1) : s[k].op \in {"Label", "var"}
  <2> SUFFICES ASSUME NEW k \in first .. (q - 1) PROVE s[k].op \in {"Label", "var"}
    OBVIOUS
  <2>1. q \in Nat /\ q <= Len(s) + 1 /\ k < q /\ k \in first .. (Len(s) + 1) /\ k <= Len(s)
    OBVIOUS
  <2>2. k \notin T
    BY <1>2, <2>1
  <2>. QED
    BY <2>1, <2>2
<1>4. \E p \in first .. (Len(s) + 1) :
        /\ \A k \in first .. (p - 1) : s[k].op \in {"Label", "var"}
        /\ p <= Len(s) => s[p].op \notin {"Label", "var"}
  BY <1>3
<1> DEFINE p == VariableInsertionPoint(s, first)
<1>5. /\ p \in first .. (Len(s) + 1)
      /\ \A k \in first .. (p - 1) : s[k].op \in {"Label", "var"}
      /\ p <= Len(s) => s[p].op \notin {"Label", "var"}
  BY <1>4 DEF VariableInsertionPoint
<1> HIDE DEF p
<1>6. p # first
  BY <1>5
<1>7. p \in (first + 1) .. (Len(s) + 1)
  BY <1>5, <1>6
<1>. QED
  BY <1>5, <1>7 DEF p

LEMMA BlockEndFacts ==
  ASSUME NEW s, Len(s) \in Nat, NEW i, LabelAt(s, i) \in 1 .. Len(s)
  PROVE  /\ BlockEnd(s, i) \in LabelAt(s, i) .. Len(s)
         /\ BlockEnd(s, i) = Len(s) \/ s[BlockEnd(s, i) + 1].op = "Label"
         /\ \A m \in (LabelAt(s, i) + 1) .. BlockEnd(s, i) : s[m].op # "Label"
<1> DEFINE b == LabelAt(s, i)
<1> HIDE DEF b
<1> DEFINE T == {k \in b .. Len(s) : k = Len(s) \/ s[k + 1].op = "Label"}
<1>0. b \in 1 .. Len(s)
  BY DEF b
<1>1. T \in SUBSET Nat /\ Len(s) \in T
  BY <1>0
<1>2. PICK q \in T : \A y \in T : q <= y
  BY <1>1, LeastExists
<1>3. \A m \in (b + 1) .. q : s[m].op # "Label"
  <2> SUFFICES ASSUME NEW m \in (b + 1) .. q PROVE s[m].op # "Label"
    OBVIOUS
  <2>1. q \in Nat /\ m \in Nat /\ m - 1 < q /\ m - 1 \in b .. Len(s)
    BY <1>0
  <2>2. m - 1 \notin T
    BY <1>2, <2>1
  <2>. QED
    BY <2>1, <2>2
<1>4. \E k \in b .. Len(s) :
        /\ k = Len(s) \/ s[k + 1].op = "Label"
        /\ \A m \in (b + 1) .. k : s[m].op # "Label"
  BY <1>3
<1>. QED
  BY <1>4 DEF BlockEnd, b

\* find(V) stays behind the label of the block, and meets a value that is there.
LEMMA FindFacts ==
  ASSUME NEW s, Len(s) \in Nat, LabelsDiffer(s), pc \in Insts, Labelled(s, pc), NEW v
  PROVE  /\ Find(s, v) \in 2 .. (Len(s) + 1)
         /\ Placed(s, pc) => /\ Find(s, pc) \in 2 .. Len(s)
                             /\ IsValueOf(s[Find(s, pc)], pc)
<1>1. PICK k \in 1 .. Len(s) : s[k].op = "Label" /\ IsStart(s[k].src, pc)
  BY DEF Labelled
<1>2. LabelAt(s, pc) = k
  BY <1>1, LabelAtIs
<1> DEFINE b == BlockEnd(s, pc)
<1>3. /\ b \in k .. Len(s) /\ (b = Len(s) \/ s[b + 1].op = "Label")
      /\ \A m \in (k + 1) .. b : s[m].op # "Label"
  BY <1>2, BlockEndFacts
<1> HIDE DEF b
<1> DEFINE Here(u) == {m \in k .. b : IsValueOf(s[m], u)}
<1>4. \A u : Find(s, u) = IF Here(u) = {} THEN b + 1 ELSE CHOOSE m \in Here(u) : TRUE
  BY <1>2 DEF Find, b
<1>5. \A u : Here(u) # {} => Find(s, u) \in Here(u)
  BY <1>4
<1>6. ASSUME NEW u PROVE Find(s, u) \in 2 .. (Len(s) + 1)
  <2>1. CASE Here(u) = {}
    BY <1>3, <1>4, <2>1
  <2>2. CASE Here(u) # {}
    <3>1. Find(s, u) \in k .. b /\ IsValueOf(s[Find(s, u)], u)
      BY <1>5, <2>2
    <3>2. Find(s, u) # k
      BY <1>1, <3>1 DEF IsValueOf
    <3>. QED
      BY <1>3, <3>1, <3>2
  <2>. QED
    BY <2>1, <2>2
<1>7. ASSUME Placed(s, pc)
      PROVE  Find(s, pc) \in 2 .. Len(s) /\ IsValueOf(s[Find(s, pc)], pc)
  <2>1. PICK l, m \in 1 .. Len(s) : /\ InBlock(s, l, m) /\ IsStart(s[l].src, pc)
                                    /\ IsValueOf(s[m], pc)
    BY <1>7 DEF Placed
  <2>2. l = k
    BY <1>2, <2>1, LabelAtIs DEF InBlock
  <2>3. m \in k .. b
    <3>1. k < m /\ \A a \in (k + 1) .. m : s[a].op # "Label"
      BY <2>1, <2>2 DEF InBlock
    <3>2. ~(b < m)
      <4> SUFFICES ASSUME b < m PROVE FALSE
        OBVIOUS
      <4>1. b + 1 \in (k + 1) .. m /\ b # Len(s)
        BY <1>3
      <4>. QED
        BY <1>3, <3>1, <4>1
    <3>. QED
      BY <1>3, <3>1, <3>2
  <2>4. Here(pc) # {}
    BY <2>1, <2>3
  <2>5. Find(s, pc) \in k .. b /\ IsValueOf(s[Find(s, pc)], pc)
    BY <1>5, <2>4
  <2>6. Find(s, pc) # k
    BY <1>1, <2>5 DEF IsValueOf
  <2>. QED
    BY <1>3, <2>5, <2>6
<1>. QED
  BY <1>6, <1>7

-----------------------------------------------------------------------------
(* What an insertion and a change of line keep.                            *)

LEMMA InsertKeepsHasBlock ==
  ASSUME NEW s, NEW r, NEW p, NEW e, Inserted(s, r, p, e), NEW i, HasBlock(s, i),
         e.op # "Label" \/ p = Len(s) + 1
  PROVE  HasBlock(r, i)
<1>1. PICK k \in 1 .. Len(s) : s[k].op = "Label" /\ IsStart(s[k].src, i)
  BY DEF HasBlock, Labelled
<1>2. Moved(p, k) \in 1 .. Len(r) /\ r[Moved(p, k)] = s[k]
  BY MovedFacts
<1>3. Labelled(r, i)
  BY <1>1, <1>2 DEF Labelled
<1>4. Own(i) => Placed(r, i)
  BY InsertKeepsPlaced DEF HasBlock
<1>. QED
  BY <1>3, <1>4 DEF HasBlock

SameShape(s, r) ==
  /\ Len(s) \in Nat /\ Len(r) = Len(s)
  /\ \A k \in 1 .. Len(s) : r[k].op = s[k].op /\ r[k].src = s[k].src

LEMMA ShapeKeeps ==
  ASSUME NEW s, NEW r, SameShape(s, r)
  PROVE  /\ LabelsDiffer(s) => LabelsDiffer(r)
         /\ Ordered(s) => Ordered(r)
         /\ \A i : HasBlock(s, i) => HasBlock(r, i)
<1>1. Len(s) \in Nat /\ Len(r) = Len(s)
  BY DEF SameShape
<1>2. LabelsDiffer(s) => LabelsDiffer(r)
  BY <1>1 DEF SameShape, LabelsDiffer
<1>3. ASSUME Ordered(s), NEW k \in 1 .. Len(r) PROVE InOrderAt(r, k)
  <2>1. InOrderAt(s, k)
    BY <1>1, <1>3 DEF Ordered
  <2>2. k # Len(s) => k + 1 \in 1 .. Len(s)
    BY <1>1
  <2>. QED
    BY <1>1, <2>1, <2>2 DEF InOrderAt, SameShape
<1>4. ASSUME NEW i, HasBlock(s, i) PROVE HasBlock(r, i)
  <2>1. Labelled(r, i)
    BY <1>1, <1>4 DEF HasBlock, Labelled, SameShape
  <2>2. ASSUME Own(i) PROVE Placed(r, i)
    <3>1. PICK k, m \in 1 .. Len(s) : /\ InBlock(s, k, m) /\ IsStart(s[k].src, i)
                                      /\ IsValueOf(s[m], i)
      BY <1>4, <2>2 DEF HasBlock, Placed
    <3>2. InBlock(r, k, m)
      BY <1>1, <3>1 DEF InBlock, SameShape
    <3>3. IsStart(r[k].src, i) /\ IsValueOf(r[m], i)
      BY <3>1 DEF SameShape, IsValueOf
    <3>. QED
      BY <1>1, <3>2, <3>3 DEF Placed
  <2>. QED
    BY <2>1, <2>2 DEF HasBlock
<1>. QED
  BY <1>2, <1>3, <1>4 DEF Ordered

LEMMA SetLineShape ==
  ASSUME NEW s \in Seq(EntryType), NEW v, NEW l \in Lines \cup {NoLine}
  PROVE  SetLine(s, v, l) \in Seq(EntryType) /\ SameShape(s, SetLine(s, v, l))
<1> DEFINE Hit(k) == IF v \in Insts /\ fn.kind[v] = "loopterm"
                       THEN s[k].src = v /\ s[k].op = "merge" ELSE IsValueOf(s[k], v)
           F(k) == IF Hit(k) THEN [s[k] EXCEPT !.line = l] ELSE s[k]
           r == [k \in 1 .. Len(s) |-> F(k)]
<1>1. Len(s) \in Nat /\ \A k \in 1 .. Len(s) : s[k] \in EntryType
  OBVIOUS
<1>2. ASSUME NEW k \in 1 .. Len(s)
      PROVE  F(k) \in EntryType /\ F(k).op = s[k].op /\ F(k).src = s[k].src
  <2>1. s[k] \in EntryType
    BY <1>1
  <2>2. [s[k] EXCEPT !.line = l] \in EntryType
    BY <2>1 DEF EntryType
  <2>3. /\ [s[k] EXCEPT !.line = l].op = s[k].op
        /\ [s[k] EXCEPT !.line = l].src = s[k].src
    BY <2>1 DEF EntryType
  <2> HIDE DEF Hit
  <2>. QED
    BY <2>1, <2>2, <2>3
<1> HIDE DEF F
<1>3. r \in Seq(EntryType) /\ Len(r) = Len(s) /\ \A k \in 1 .. Len(s) : r[k] = F(k)
  BY <1>1, <1>2
<1>4. SetLine(s, v, l) = r
  BY DEF SetLine, F
<1> HIDE DEF r
<1>. QED
  BY <1>1, <1>2, <1>3, <1>4 DEF SameShape

\* addInstruction puts a DebugScope where the block stays in order.
LEMMA InsertBeforeKeeps ==
  ASSUME NEW s \in Seq(EntryType), LabelsDiffer(s), pc \in Insts, HasBlock(s, pc),
         NEW e \in EntryType, e.op \in Plain, NEW v
  PROVE  LET r == InsertBefore(s, e, v)
         IN  /\ r \in Seq(EntryType)
             /\ LabelsDiffer(r)
             /\ \A i : HasBlock(s, i) => HasBlock(r, i)
             /\ v = pc /\ Own(pc) /\ Ordered(s) => Ordered(r)
<1> DEFINE pos == Find(s, v)
           p == IF s[pos - 1].op = "merge" THEN pos - 1 ELSE pos
           r == InsertAt(s, p, e)
<1>1. Len(s) \in Nat /\ Labelled(s, pc)
  BY DEF HasBlock
<1>2. pos \in 2 .. (Len(s) + 1)
  BY <1>1, FindFacts
<1>3. v = pc /\ Own(pc) => pos \in 2 .. Len(s) /\ IsValueOf(s[pos], pc)
  BY <1>1, FindFacts DEF HasBlock
<1> HIDE DEF pos
<1>4. p \in 1 .. Len(s) + 1
  BY <1>1, <1>2
<1>5. r \in Seq(EntryType) /\ Inserted(s, r, p, e)
  BY <1>4, InsertAtInserts
<1>6. InsertBefore(s, e, v) = r
  BY DEF InsertBefore, pos
<1>7. ASSUME v = pc, Own(pc), Ordered(s), p > 1
      PROVE  s[p - 1].op \notin {"end", "merge"}
  <2>1. pos \in 2 .. Len(s) /\ s[pos].op \in Values
    BY <1>3, <1>7 DEF IsValueOf, Values
  <2>2. CASE s[pos - 1].op = "merge"
    <3>1. p = pos - 1 /\ pos - 2 \in 1 .. Len(s) /\ pos - 2 + 1 = pos - 1 /\ pos - 2 # Len(s)
      BY <1>1, <1>2, <1>7, <2>1, <2>2
    <3>2. InOrderAt(s, pos - 2)
      BY <1>7, <3>1 DEF Ordered
    <3>3. p - 1 = pos - 2
      BY <1>2, <3>1
    <3>. QED
      BY <2>2, <3>1, <3>2, <3>3 DEF InOrderAt
  <2>3. CASE s[pos - 1].op # "merge"
    <3>1. p = pos /\ pos - 1 \in 1 .. Len(s) /\ pos - 1 + 1 = pos /\ pos - 1 # Len(s)
      BY <1>1, <1>2, <2>1, <2>3
    <3>2. InOrderAt(s, pos - 1)
      BY <1>7, <3>1 DEF Ordered
    <3>. QED
      BY <2>1, <2>3, <3>1, <3>2 DEF InOrderAt, Values
  <2>. QED
    BY <2>2, <2>3
<1> HIDE DEF p, r
<1>8. e.op # "Label"
  BY DEF Plain
<1>9. LabelsDiffer(r)
  BY <1>5, <1>8, InsertKeepsLabels
<1>10. \A i : HasBlock(s, i) => HasBlock(r, i)
  BY <1>5, <1>8, InsertKeepsHasBlock
<1>11. v = pc /\ Own(pc) /\ Ordered(s) => Ordered(r)
  BY <1>5, <1>7, InsertKeepsOrder
<1>. QED
  BY <1>5, <1>6, <1>9, <1>10, <1>11

-----------------------------------------------------------------------------
(* transFunction.                                                          *)

LEMMA EntryFacts ==
  ASSUME NEW op \in {"Label", "inst", "var", "merge", "end", "Scope", "NoScope"},
         NEW i \in Insts, NEW scope \in Scopes \cup {NoScope}
  PROVE  /\ Entry(op, i, scope) \in EntryType /\ Entry(op, i, scope).op = op
         /\ Entry(op, i, scope).src = i
  BY DEF Entry, EntryType

LEMMA AppendKeepsOrder ==
  ASSUME NEW s, NEW r, NEW e, Inserted(s, r, Len(s) + 1, e), Ordered(s), e.op # "merge",
         e.op # "Label" /\ Len(s) > 0 => s[Len(s)].op # "end"
  PROVE  Ordered(r)
<1>1. /\ Len(s) \in Nat /\ Len(r) = Len(s) + 1 /\ r[Len(s) + 1] = e
      /\ \A k \in 1 .. Len(s) : r[k] = s[k]
  BY DEF Inserted
<1> SUFFICES ASSUME NEW k \in 1 .. Len(r) PROVE InOrderAt(r, k)
  BY DEF Ordered
<1>2. CASE k = Len(s) + 1
  BY <1>1, <1>2 DEF InOrderAt
<1>3. CASE k # Len(s) + 1
  <2>1. k \in 1 .. Len(s) /\ r[k] = s[k] /\ (k < Len(s) => r[k + 1] = s[k + 1])
    BY <1>1, <1>3
  <2>2. InOrderAt(s, k)
    BY <2>1 DEF Ordered
  <2>3. CASE k = Len(s)
    <3>1. s[k].op # "merge"
      BY <1>1, <2>2, <2>3 DEF InOrderAt
    <3>2. r[k + 1] = e /\ Len(s) > 0
      BY <1>1, <2>1, <2>3
    <3>. QED
      BY <2>1, <2>3, <3>1, <3>2 DEF InOrderAt
  <2>4. CASE k # Len(s)
    BY <1>1, <2>1, <2>2, <2>4 DEF InOrderAt
  <2>. QED
    BY <2>3, <2>4
<1>. QED
  BY <1>2, <1>3

\* OpLoopMerge and its branch at the end of a block.
LEMMA AppendMergeOrder ==
  ASSUME NEW s, NEW q, NEW r, NEW d, NEW e, Inserted(s, q, Len(s) + 1, d),
         Inserted(q, r, Len(q) + 1, e), Ordered(s), d.op = "merge", e.op = "end",
         Len(s) > 0 => s[Len(s)].op # "end"
  PROVE  Ordered(r)
<1>1. /\ Len(s) \in Nat /\ Len(q) = Len(s) + 1 /\ q[Len(s) + 1] = d
      /\ \A k \in 1 .. Len(s) : q[k] = s[k]
  BY DEF Inserted
<1>2. /\ Len(r) = Len(s) + 2 /\ r[Len(s) + 2] = e
      /\ \A k \in 1 .. Len(s) + 1 : r[k] = q[k]
  BY <1>1 DEF Inserted
<1> SUFFICES ASSUME NEW k \in 1 .. Len(r) PROVE InOrderAt(r, k)
  BY DEF Ordered
<1>3. CASE k > Len(s)
  <2>1. r[Len(s) + 1] = d
    BY <1>1, <1>2
  <2>2. k = Len(s) + 1 \/ k = Len(s) + 2
    BY <1>1, <1>2, <1>3
  <2>3. CASE k = Len(s) + 1
    BY <1>1, <1>2, <2>1, <2>3 DEF InOrderAt
  <2>4. CASE k = Len(s) + 2
    BY <1>1, <1>2, <2>1, <2>4 DEF InOrderAt
  <2>. QED
    BY <2>2, <2>3, <2>4
<1>4. CASE k <= Len(s)
  <2>1. k \in 1 .. Len(s) /\ r[k] = s[k] /\ (k < Len(s) => r[k + 1] = s[k + 1])
    BY <1>1, <1>2, <1>4
  <2>2. InOrderAt(s, k)
    BY <2>1 DEF Ordered
  <2>3. CASE k = Len(s)
    <3>1. s[k].op # "merge" /\ s[k].op # "end"
      BY <1>1, <2>1, <2>2, <2>3 DEF InOrderAt
    <3>. QED
      BY <2>1, <3>1 DEF InOrderAt
  <2>4. CASE k # Len(s)
    BY <1>1, <1>2, <2>1, <2>2, <2>4 DEF InOrderAt
  <2>. QED
    BY <2>3, <2>4
<1>. QED
  BY <1>1, <1>2, <1>3, <1>4

LEMMA InsertKeepsOpen ==
  ASSUME NEW s, NEW r, NEW p, NEW e, Inserted(s, r, p, e), NEW k, NEW i,
         OpenAt(s, k, i), k < p, e.op # "Label"
  PROVE  /\ OpenAt(r, k, i)
         /\ IsValueOf(e, i) => Placed(r, i)
         /\ r[Len(r)].op = "end" => s[Len(s)].op = "end" \/ e.op = "end"
<1>1. /\ Len(s) \in Nat /\ p \in 1 .. Len(s) + 1 /\ Len(r) = Len(s) + 1 /\ r[p] = e
      /\ \A j \in 1 .. Len(s) : IF j < p THEN r[j] = s[j] ELSE r[j + 1] = s[j]
  BY DEF Inserted
<1>2. k \in 1 .. Len(s) /\ r[k] = s[k] /\ k \in 1 .. Len(r)
  BY <1>1 DEF OpenAt
<1>3. ASSUME NEW l \in (k + 1) .. Len(r) PROVE r[l].op # "Label"
  <2>1. CASE l < p
    <3>1. l \in (k + 1) .. Len(s) /\ r[l] = s[l]
      BY <1>1, <1>2, <2>1
    <3>. QED
      BY <3>1 DEF OpenAt
  <2>2. CASE l = p
    BY <1>1, <2>2
  <2>3. CASE l > p
    <3>1. l - 1 \in (k + 1) .. Len(s) /\ l - 1 \in 1 .. Len(s) /\ ~(l - 1 < p)
          /\ l - 1 + 1 = l
      BY <1>1, <1>2, <2>3
    <3>2. r[l] = s[l - 1]
      BY <1>1, <3>1
    <3>. QED
      BY <3>1, <3>2 DEF OpenAt
  <2>. QED
    BY <1>1, <1>2, <2>1, <2>2, <2>3
<1>4. OpenAt(r, k, i)
  BY <1>2, <1>3 DEF OpenAt
<1>5. ASSUME IsValueOf(e, i) PROVE Placed(r, i)
  <2>1. p \in 1 .. Len(r) /\ \A l \in (k + 1) .. p : l \in (k + 1) .. Len(r)
    BY <1>1, <1>2
  <2>2. InBlock(r, k, p)
    BY <1>2, <1>3, <2>1 DEF InBlock, OpenAt
  <2>. QED
    BY <1>1, <1>2, <1>4, <1>5, <2>1, <2>2 DEF Placed, OpenAt
<1>6. r[Len(r)].op = "end" => s[Len(s)].op = "end" \/ e.op = "end"
  <2>1. CASE p = Len(s) + 1
    BY <1>1, <2>1
  <2>2. CASE p # Len(s) + 1
    <3>1. Len(s) \in 1 .. Len(s) /\ ~(Len(s) < p)
      BY <1>1, <1>2, <2>2
    <3>. QED
      BY <1>1, <3>1
  <2>. QED
    BY <2>1, <2>2
<1>. QED
  BY <1>4, <1>5, <1>6

\* What holds of the instructions once those up to n are translated.
Written(s, n) ==
  /\ s \in Seq(EntryType) /\ LabelsDiffer(s) /\ Ordered(s)
  /\ \A k \in 1 .. Len(s) : s[k].op = "Label" => s[k].src <= n
  /\ \A i \in 1 .. n : HasBlock(s, i)

LEMMA OpenedFacts ==
  ASSUME TypeOK, LabelsDiffer(InstVec), Translating, pc \in Insts
  PROVE  /\ Opened \in Seq(EntryType) /\ LabelsDiffer(Opened) /\ Ordered(Opened)
         /\ \A k \in 1 .. Len(Opened) : Opened[k].op = "Label" => Opened[k].src <= pc
         /\ \A i \in 1 .. pc - 1 : HasBlock(Opened, i)
         /\ OpenBlock(Opened, pc)
<1>0. /\ InstVec \in Seq(EntryType) /\ Len(InstVec) \in Nat /\ pc \in Nat
      /\ \A k \in 1 .. Len(InstVec) : InstVec[k] \in EntryType
      /\ \A k \in 1 .. Len(InstVec) : InstVec[k].src \in Nat
  <2>1. InstVec \in Seq(EntryType) /\ pc \in Nat
    BY DEF TypeOK
  <2>2. \A e \in EntryType : e.src \in Nat
    BY SizeAssumption DEF EntryType, Insts
  <2>. QED
    BY <2>1, <2>2
<1>1. CASE StartsBlock(pc)
  <2> DEFINE e == Entry("Label", pc, NoScope)
             r == Append(InstVec, e)
  <2>1. e \in EntryType /\ e.op = "Label" /\ e.src = pc
    BY EntryFacts
  <2> HIDE DEF e
  <2>2. r \in Seq(EntryType) /\ Inserted(InstVec, r, Len(InstVec) + 1, e)
    BY <1>0, <2>1, AppendInserts
  <2>3. Opened = r
    BY <1>1 DEF Opened, e
  <2> HIDE DEF r
  <2>4. /\ Len(r) = Len(InstVec) + 1 /\ r[Len(InstVec) + 1] = e
        /\ \A k \in 1 .. Len(InstVec) : r[k] = InstVec[k]
    BY <1>0, <2>2 DEF Inserted
  <2>5. \A k \in 1 .. Len(InstVec) : InstVec[k].op = "Label" => InstVec[k].src < pc
    BY DEF Translating
  <2>6. LabelsDiffer(r)
    BY <1>0, <2>1, <2>2, <2>5, InsertKeepsLabels
  <2>7. Ordered(r)
    BY <2>1, <2>2, AppendKeepsOrder DEF Translating
  <2>8. ASSUME NEW k \in 1 .. Len(r), r[k].op = "Label" PROVE r[k].src <= pc
    <3>1. k \in 1 .. Len(InstVec) \/ k = Len(InstVec) + 1
      BY <1>0, <2>4
    <3>. QED
      BY <1>0, <2>1, <2>4, <2>5, <2>8, <3>1
  <2>9. \A i \in 1 .. pc - 1 : HasBlock(r, i)
    BY <2>2, InsertKeepsHasBlock DEF Translating
  <2>10. IsStart(pc, pc)
    BY <1>0, <1>1 DEF IsStart, Insts
  <2>11. OpenAt(r, Len(InstVec) + 1, pc)
    BY <1>0, <2>1, <2>4, <2>10 DEF OpenAt
  <2>12. OpenBlock(r, pc)
    BY <1>0, <2>1, <2>4, <2>11 DEF OpenBlock
  <2>. QED
    BY <2>2, <2>3, <2>6, <2>7, <2>8, <2>9, <2>12
<1>2. CASE ~StartsBlock(pc)
  <2>1. Opened = InstVec
    BY <1>2 DEF Opened
  <2>2. \A k \in 1 .. Len(InstVec) : InstVec[k].op = "Label" => InstVec[k].src <= pc
    BY <1>0 DEF Translating
  <2>. QED
    BY <1>0, <1>2, <2>1, <2>2 DEF Translating
<1>. QED
  BY <1>1, <1>2

\* Translating an instruction in the block that is open.
LEMMA TranslateFacts ==
  ASSUME TypeOK, LabelsDiffer(InstVec), Translating, Translate
  PROVE  /\ Written(InstVec', pc)
         /\ fn.kind[pc] \notin Terminators => OpenBlock(InstVec', pc)
<1> DEFINE s == Opened
           r == InstVec'
           w == fn.kind[pc]
<1>0. pc \in Insts /\ pc \in Nat \ {0}
  BY DEF Translate, TypeOK
<1>1. /\ s \in Seq(EntryType) /\ LabelsDiffer(s) /\ Ordered(s)
      /\ \A k \in 1 .. Len(s) : s[k].op = "Label" => s[k].src <= pc
      /\ \A i \in 1 .. pc - 1 : HasBlock(s, i)
      /\ OpenBlock(s, pc)
  BY <1>0, OpenedFacts
<1>2. Len(s) \in Nat
  BY <1>1
<1>w. w \in Kinds
  BY <1>0 DEF TypeOK, FunctionType
<1>a. /\ w = "op" => r = Append(s, Entry("inst", pc, NoScope))
      /\ w = "alloca" => r = InsertAt(s, VariableInsertionPoint(s, LabelAt(s, pc)),
                                      Entry("var", pc, NoScope))
      /\ w = "term" => r = Append(s, Entry("end", pc, NoScope))
      /\ w = "loopterm" => r = s \o <<Entry("merge", pc, NoScope), Entry("end", pc, NoScope)>>
      /\ w \in {"alias", "none"} => r = s
  BY DEF Translate
<1>3. PICK k \in 1 .. Len(s) : OpenAt(s, k, pc)
  BY <1>1 DEF OpenBlock
<1>4. Len(s) > 0 /\ s[Len(s)].op # "end"
  BY <1>1, <1>2, <1>3 DEF OpenBlock
<1> HIDE DEF s, r, w
\* The instructions before pc keep their places.
<1> DEFINE Before(x) == /\ x \in Seq(EntryType) /\ LabelsDiffer(x)
                        /\ \A j \in 1 .. Len(x) : x[j].op = "Label" => x[j].src <= pc
                        /\ \A i \in 1 .. pc - 1 : HasBlock(x, i)
<1>5. Before(s)
  BY <1>1
<1>6. ASSUME NEW x, NEW y \in Seq(EntryType), NEW p, NEW e, Before(x),
             Inserted(x, y, p, e), e.op # "Label"
      PROVE  Before(y)
  <2>1. LabelsDiffer(y)
    BY <1>6, InsertKeepsLabels
  <2>2. \A i \in 1 .. pc - 1 : HasBlock(y, i)
    BY <1>6, InsertKeepsHasBlock
  <2>3. ASSUME NEW m \in 1 .. Len(y), y[m].op = "Label" PROVE y[m].src <= pc
    <3>1. m # p
      BY <1>6, <2>3 DEF Inserted
    <3>2. PICK j \in 1 .. Len(x) : m = Moved(p, j) /\ y[m] = x[j]
      BY <1>6, <3>1, MovedFacts
    <3>. QED
      BY <1>6, <2>3, <3>2
  <2>. QED
    BY <2>1, <2>2, <2>3
<1> HIDE DEF Before
<1>7. ASSUME Before(r), Ordered(r), OpenAt(r, k, pc), Own(pc) => Placed(r, pc)
      PROVE  Written(r, pc)
  <2>1. HasBlock(r, pc)
    BY <1>7 DEF HasBlock, Labelled, OpenAt
  <2>2. \A i \in 1 .. pc : i \in 1 .. pc - 1 \/ i = pc
    BY <1>0
  <2>. QED
    BY <1>7, <2>1, <2>2 DEF Before, Written
<1>8. CASE w = "op"
  <2> DEFINE e == Entry("inst", pc, NoScope)
  <2>1. e \in EntryType /\ e.op = "inst" /\ e.src = pc
    BY <1>0, EntryFacts
  <2> HIDE DEF e
  <2>2. r \in Seq(EntryType) /\ Inserted(s, r, Len(s) + 1, e)
    BY <1>1, <1>8, <1>a, <2>1, AppendInserts DEF e
  <2>3. Before(r)
    BY <1>5, <1>6, <2>1, <2>2
  <2>4. Ordered(r)
    BY <1>1, <1>4, <2>1, <2>2, AppendKeepsOrder
  <2>5. k < Len(s) + 1
    BY <1>2
  <2>6. OpenAt(r, k, pc) /\ Placed(r, pc) /\ r[Len(r)].op # "end"
    BY <1>3, <1>4, <2>1, <2>2, <2>5, InsertKeepsOpen DEF IsValueOf
  <2>. QED
    BY <1>7, <2>3, <2>4, <2>6 DEF OpenBlock, OpenAt, r
<1>9. CASE w = "alloca"
  <2> DEFINE e == Entry("var", pc, NoScope)
             p == VariableInsertionPoint(s, k)
  <2>1. e \in EntryType /\ e.op = "var" /\ e.src = pc
    BY <1>0, EntryFacts
  <2>2. LabelAt(s, pc) = k
    BY <1>0, <1>1, <1>3, LabelAtIs DEF OpenAt
  <2>3. p \in (k + 1) .. (Len(s) + 1) /\ \A j \in k .. (p - 1) : s[j].op \in {"Label", "var"}
    BY <1>2, <1>3, VariablePointFacts DEF OpenAt
  <2>4. r = InsertAt(s, p, e)
    BY <1>9, <1>a, <2>2
  <2> HIDE DEF e, p
  <2>5. p \in 1 .. Len(s) + 1 /\ k < p /\ p - 1 \in k .. (p - 1)
    BY <1>2, <2>3
  <2>6. r \in Seq(EntryType) /\ Inserted(s, r, p, e)
    BY <1>1, <2>1, <2>4, <2>5, InsertAtInserts
  <2>7. Before(r)
    BY <1>5, <1>6, <2>1, <2>6
  <2>8. s[p - 1].op \notin {"end", "merge"}
    BY <2>3, <2>5
  <2>9. Ordered(r)
    BY <1>1, <2>1, <2>6, <2>8, InsertKeepsOrder DEF Plain
  <2>10. OpenAt(r, k, pc) /\ Placed(r, pc) /\ r[Len(r)].op # "end"
    BY <1>3, <1>4, <2>1, <2>5, <2>6, InsertKeepsOpen DEF IsValueOf
  <2>. QED
    BY <1>7, <2>7, <2>9, <2>10 DEF OpenBlock, OpenAt, r
<1>10. CASE w = "term"
  <2> DEFINE e == Entry("end", pc, NoScope)
  <2>1. e \in EntryType /\ e.op = "end" /\ e.src = pc
    BY <1>0, EntryFacts
  <2> HIDE DEF e
  <2>2. r \in Seq(EntryType) /\ Inserted(s, r, Len(s) + 1, e)
    BY <1>1, <1>10, <1>a, <2>1, AppendInserts DEF e
  <2>3. Before(r)
    BY <1>5, <1>6, <2>1, <2>2
  <2>4. Ordered(r)
    BY <1>1, <1>4, <2>1, <2>2, AppendKeepsOrder
  <2>5. k < Len(s) + 1
    BY <1>2
  <2>6. OpenAt(r, k, pc) /\ Placed(r, pc)
    BY <1>3, <2>1, <2>2, <2>5, InsertKeepsOpen DEF IsValueOf
  <2>. QED
    BY <1>7, <1>10, <2>3, <2>4, <2>6 DEF Terminators, r, w
<1>11. CASE w = "loopterm"
  <2> DEFINE d == Entry("merge", pc, NoScope)
             e == Entry("end", pc, NoScope)
             q == Append(s, d)
  <2>1. /\ d \in EntryType /\ d.op = "merge" /\ d.src = pc
        /\ e \in EntryType /\ e.op = "end" /\ e.src = pc
    BY <1>0, EntryFacts
  <2> HIDE DEF d, e
  <2>2. q \in Seq(EntryType) /\ Inserted(s, q, Len(s) + 1, d)
    BY <1>1, <2>1, AppendInserts
  <2>3. s \o <<d, e>> = Append(q, e)
    BY <1>1, <2>1
  <2>4. r = Append(q, e)
    BY <1>11, <1>a, <2>3 DEF d, e
  <2> HIDE DEF q
  <2>5. r \in Seq(EntryType) /\ Inserted(q, r, Len(q) + 1, e)
    BY <2>1, <2>2, <2>4, AppendInserts
  <2>6. Before(q)
    BY <1>5, <1>6, <2>1, <2>2
  <2>7. Before(r)
    BY <1>6, <2>1, <2>5, <2>6
  <2>8. Ordered(r)
    BY <1>1, <1>4, <2>1, <2>2, <2>5, AppendMergeOrder
  <2>9. k < Len(s) + 1 /\ k < Len(q) + 1
    BY <1>2, <2>2 DEF Inserted
  <2>10. OpenAt(q, k, pc)
    BY <1>3, <2>1, <2>2, <2>9, InsertKeepsOpen
  <2>11. OpenAt(r, k, pc) /\ Placed(r, pc)
    BY <2>1, <2>5, <2>9, <2>10, InsertKeepsOpen DEF IsValueOf
  <2>. QED
    BY <1>7, <1>11, <2>7, <2>8, <2>11 DEF Terminators, r, w
<1>12. CASE w \in {"alias", "none"}
  <2>1. r = s /\ ~Own(pc)
    BY <1>12, <1>a DEF Own, w
  <2>. QED
    BY <1>1, <1>3, <1>5, <1>7, <2>1 DEF r
<1>. QED
  BY <1>w, <1>8, <1>9, <1>10, <1>11, <1>12 DEF Kinds

-----------------------------------------------------------------------------
(* The invariant is kept by every step.                                    *)

LEMMA SameFunction ==
  ASSUME fn' = fn
  PROVE  /\ \A i : HasBlock(InstVec, i)' <=> HasBlock(InstVec', i)
         /\ \A i : OpenBlock(InstVec, i)' <=> OpenBlock(InstVec', i)
         /\ \A i : StartsBlock(i)' <=> StartsBlock(i)
         /\ NoAlias' <=> NoAlias
  BY DEF HasBlock, Labelled, Own, Placed, OpenBlock, OpenAt, IsStart, StartsBlock,
         IsValueOf, InBlock, NoAlias

LEMMA TranslateKeeps ==
  ASSUME LayoutInv, Translate
  PROVE  LayoutInv'
<1> USE DEF LayoutInv
<1>1. TypeOK /\ Translating /\ pc \in Insts /\ pc \in Nat \ {0} /\ fn' = fn
  BY DEF Translate, TypeOK
<1>2. Written(InstVec', pc) /\ (fn.kind[pc] \notin Terminators => OpenBlock(InstVec', pc))
  BY <1>1, TranslateFacts
<1>3. pc' = pc + 1 /\ pc' \in 1 .. N + 1 /\ phase' = "translate"
  BY <1>1, SizeAssumption DEF Translate, Insts
<1>4. TypeOK'
  BY <1>1, <1>2, <1>3 DEF Translate, TypeOK, Written
<1>5. \A k \in 1 .. Len(InstVec') : InstVec'[k].op = "Label" => InstVec'[k].src < pc'
  <2>1. \A k \in 1 .. Len(InstVec') : InstVec'[k].op = "Label" => InstVec'[k].src <= pc
    BY <1>2 DEF Written
  <2>2. \A k \in 1 .. Len(InstVec') : InstVec'[k] \in EntryType
    BY <1>2 DEF Written
  <2>3. \A e \in EntryType : e.src \in Nat
    BY SizeAssumption DEF EntryType, Insts
  <2>. QED
    BY <1>1, <1>3, <2>1, <2>2, <2>3
<1>6. \A i \in 1 .. pc' - 1 : HasBlock(InstVec, i)'
  <2>1. pc' - 1 = pc
    BY <1>1, <1>3
  <2>. QED
    BY <1>1, <1>2, <2>1, SameFunction DEF Written
<1>7. ASSUME pc' \in Insts, ~StartsBlock(pc') PROVE OpenBlock(InstVec', pc')
  <2>1. fn.kind[pc] \notin Terminators
    BY <1>1, <1>3, <1>7 DEF StartsBlock
  <2>2. PICK k \in 1 .. Len(InstVec') : OpenAt(InstVec', k, pc)
    BY <1>2, <2>1 DEF OpenBlock
  <2>3. ASSUME NEW j, IsStart(j, pc) PROVE IsStart(j, pc + 1)
    <3>1. j \in 1 .. pc + 1 /\ StartsBlock(j)
      BY <1>1, <2>3 DEF IsStart
    <3>2. ASSUME NEW l \in (j + 1) .. (pc + 1) PROVE ~StartsBlock(l)
      <4>1. l \in (j + 1) .. pc \/ l = pc + 1
        BY <1>1, <3>1
      <4>. QED
        BY <1>3, <1>7, <2>3, <4>1 DEF IsStart
    <3>. QED
      BY <3>1, <3>2 DEF IsStart
  <2>4. OpenAt(InstVec', k, pc')
    BY <1>3, <2>2, <2>3 DEF OpenAt
  <2>. QED
    BY <1>2, <2>1, <2>4 DEF OpenBlock
<1>8. (pc \in Insts /\ ~StartsBlock(pc) => OpenBlock(InstVec, pc))'
  <2>1. StartsBlock(pc)' <=> StartsBlock(pc')
    BY <1>1 DEF StartsBlock
  <2>2. OpenBlock(InstVec, pc)' <=> OpenBlock(InstVec', pc')
    BY <1>1 DEF OpenBlock, OpenAt, IsStart, StartsBlock
  <2>3. (pc \in Insts)' <=> pc' \in Insts
    BY DEF Insts
  <2>. QED
    BY <1>7, <2>1, <2>2, <2>3
<1>9. Ordered(InstVec') /\ LabelsDiffer(InstVec')
  BY <1>2 DEF Written
<1>10. Ordered(InstVec)' /\ LabelsDiffer(InstVec)'
  BY <1>9 DEF Ordered, InOrderAt, LabelsDiffer
<1>11. Translating'
  BY <1>3, <1>5, <1>6, <1>8, <1>10 DEF Translating
<1>. QED
  BY <1>3, <1>4, <1>10, <1>11

\* A located instruction: the scope before it and the line on it.
LEMMA LocatedKeeps ==
  ASSUME LayoutInv, phase = "locate", pc \in Insts, fn.kind[pc] # "none",
         NEW s, NEW e \in EntryType, e.op \in Plain,
         s = InstVec \/ s = InsertBefore(InstVec, e, Value(pc)),
         NEW r, NEW l \in Lines \cup {NoLine}, r = s \/ r = SetLine(s, Value(pc), l)
  PROVE  /\ r \in Seq(EntryType) /\ LabelsDiffer(r)
         /\ NoAlias => Ordered(r)
         /\ \A i \in Insts : HasBlock(r, i)
<1>1. /\ InstVec \in Seq(EntryType) /\ LabelsDiffer(InstVec)
      /\ NoAlias => Ordered(InstVec)
      /\ \A i \in Insts : HasBlock(InstVec, i)
  BY DEF LayoutInv, TypeOK
<1>2. NoAlias => Value(pc) = pc /\ Own(pc)
  BY DEF NoAlias, Value, Own
<1>3. /\ s \in Seq(EntryType) /\ LabelsDiffer(s)
      /\ NoAlias => Ordered(s)
      /\ \A i \in Insts : HasBlock(s, i)
  <2>1. CASE s = InstVec
    BY <1>1, <2>1
  <2>2. CASE s = InsertBefore(InstVec, e, Value(pc))
    BY <1>1, <1>2, <2>2, InsertBeforeKeeps
  <2>. QED
    BY <2>1, <2>2
<1>4. CASE r = s
  BY <1>3, <1>4
<1>5. CASE r = SetLine(s, Value(pc), l)
  <2>1. r \in Seq(EntryType) /\ SameShape(s, r)
    BY <1>3, <1>5, SetLineShape
  <2>. QED
    BY <1>3, <2>1, ShapeKeeps
<1>. QED
  BY <1>4, <1>5

LEMMA LayoutPrimed ==
  ASSUME fn' = fn, LabelsDiffer(InstVec'), NoAlias => Ordered(InstVec')
  PROVE  LabelsDiffer(InstVec)' /\ (NoAlias => Ordered(InstVec))'
<1>1. LabelsDiffer(InstVec)'
  BY DEF LabelsDiffer
<1>2. Ordered(InstVec') => Ordered(InstVec)'
  BY DEF Ordered, InOrderAt
<1>. QED
  BY <1>1, <1>2, SameFunction

LEMMA NextLocalsTypes ==
  ASSUME pc \in Nat \ {0}, NEW scope \in Scopes \cup {NoScope},
         NEW line \in Lines \cup {NoLine}, NextLocals(scope, line)
  PROVE  /\ pc' \in Nat \ {0} /\ DbgScope' \in Scopes \cup {NoScope}
         /\ Line' \in Lines \cup {NoLine}
  BY DEF NextLocals

LEMMA LocateKeeps ==
  ASSUME LayoutInv, Skip \/ LocateNoLoc \/ Locate
  PROVE  LayoutInv'
<1>1. /\ TypeOK /\ phase = "locate" /\ pc \in Insts /\ fn' = fn /\ phase' = phase
      /\ CurrentLine' = CurrentLine /\ stream' = stream /\ read' = read
  BY DEF LayoutInv, Skip, LocateNoLoc, Locate
<1>2. /\ pc \in Nat \ {0} /\ DbgScope \in Scopes \cup {NoScope}
      /\ Line \in Lines \cup {NoLine} /\ fn.loc[pc] \in Locs
  BY <1>1 DEF TypeOK, FunctionType
<1> DEFINE Kept == /\ InstVec' \in Seq(EntryType) /\ LabelsDiffer(InstVec')
                   /\ NoAlias => Ordered(InstVec')
                   /\ \A i \in Insts : HasBlock(InstVec', i)
           Moves == /\ pc' \in Nat \ {0} /\ DbgScope' \in Scopes \cup {NoScope}
                    /\ Line' \in Lines \cup {NoLine}
<1>3. CASE Skip
  <2>1. Kept
    BY <1>1, <1>3 DEF Skip, LayoutInv, TypeOK
  <2>2. Moves
    BY <1>2, <1>3, NextLocalsTypes DEF Skip
  <2>. QED
    BY <1>1, <2>1, <2>2, LayoutPrimed, SameFunction DEF LayoutInv, TypeOK
<1>4. CASE LocateNoLoc
  <2> DEFINE e == Entry("NoScope", pc, NoScope)
  <2>1. e \in EntryType /\ e.op \in Plain
    BY <1>1, EntryFacts DEF Plain
  <2>2. fn.kind[pc] # "none" /\ (InstVec' = InstVec \/ InstVec' = InsertBefore(InstVec, e, Value(pc)))
    BY <1>4 DEF LocateNoLoc
  <2> HIDE DEF e
  <2>3. Kept
    BY <1>1, <1>2, <2>1, <2>2, LocatedKeeps
  <2>4. Moves
    BY <1>2, <1>4, NextLocalsTypes DEF LocateNoLoc
  <2>. QED
    BY <1>1, <2>3, <2>4, LayoutPrimed, SameFunction DEF LayoutInv, TypeOK
<1>5. CASE Locate
  <2> DEFINE loc == fn.loc[pc]
             e == Entry("Scope", pc, loc.scope)
             s == IF loc.scope = DbgScope THEN InstVec ELSE InsertBefore(InstVec, e, Value(pc))
  <2>1. loc.scope \in Scopes /\ loc.line \in Lines
    BY <1>2, <1>5 DEF Locate, Locs
  <2>2. /\ fn.kind[pc] # "none"
        /\ InstVec' = s \/ InstVec' = SetLine(s, Value(pc), loc.line)
        /\ NextLocals(loc.scope, loc.line)
    BY <1>5 DEF Locate
  <2> HIDE DEF loc
  <2>3. e \in EntryType /\ e.op \in Plain
    BY <1>1, <2>1, EntryFacts DEF Plain
  <2> HIDE DEF e
  <2>4. s = InstVec \/ s = InsertBefore(InstVec, e, Value(pc))
    OBVIOUS
  <2> HIDE DEF s
  <2>5. Kept
    BY <1>1, <2>1, <2>2, <2>3, <2>4, LocatedKeeps
  <2>6. Moves
    BY <1>2, <2>1, <2>2, NextLocalsTypes
  <2>. QED
    BY <1>1, <2>5, <2>6, LayoutPrimed, SameFunction DEF LayoutInv, TypeOK
<1>. QED
  BY <1>3, <1>4, <1>5

LEMMA ItemFacts ==
  /\ \A e \in EntryType : /\ e \in ItemType /\ e.op # "OpLine" /\ e.src \in Insts
                          /\ e.scope \in Scopes \cup {NoScope}
                          /\ e.line \in Lines \cup {NoLine}
  /\ \A l \in Lines : OpLine(l) \in ItemType
  /\ \A x \in ItemType : /\ x.line \in Lines \cup {NoLine}
                         /\ x.op # "OpLine" => x \in EntryType
                         /\ x.op = "OpLine" => x.line \in Lines
  BY DEF ItemType, EntryType, OpLine

\* The steps that only read the instructions.
LEMMA CodingTypes ==
  ASSUME TypeOK, EncodeEntry \/ DecodeLabel \/ DecodeLine \/ DecodeScope \/ DecodeEntry
  PROVE  TypeOK' /\ phase' = phase /\ phase \in {"encode", "decode"}
<1> DEFINE Location == [scope : Scopes \cup {NoScope}, line : Lines \cup {NoLine}]
<1>0. pc \in Nat \ {0} /\ InstVec \in Seq(EntryType) /\ stream \in Seq(ItemType)
      /\ DbgScope \in Scopes \cup {NoScope} /\ CurrentLine \in Lines \cup {NoLine}
      /\ read \in [Insts -> Location]
  BY DEF TypeOK
<1>1. CASE EncodeEntry
  <2> DEFINE e == InstVec[pc]
             new == e.line # NoLine /\ e.line # CurrentLine
             more == IF new THEN <<OpLine(e.line)>> ELSE <<>>
  <2>1. e \in EntryType
    BY <1>0, <1>1 DEF EncodeEntry
  <2>2. e \in ItemType /\ e.line \in Lines \cup {NoLine} /\ (new => e.line \in Lines)
    BY <2>1, ItemFacts
  <2>3. more \in Seq(ItemType)
    BY <2>2, ItemFacts
  <2>4. /\ stream' = stream \o more \o <<e>>
        /\ CurrentLine' \in {NoLine, e.line, CurrentLine}
        /\ pc' = pc + 1 /\ UNCHANGED <<fn, phase, DbgScope, Line, InstVec, read>>
        /\ phase = "encode"
    BY <1>1 DEF EncodeEntry
  <2> HIDE DEF more, e, new
  <2>5. stream' \in Seq(ItemType)
    BY <1>0, <2>2, <2>3, <2>4
  <2>6. CurrentLine' \in Lines \cup {NoLine}
    BY <1>0, <2>2, <2>4
  <2>. QED
    BY <2>4, <2>5, <2>6 DEF TypeOK
<1> DEFINE x == stream[pc]
<1>2. phase = "decode" /\ pc \in 1 .. Len(stream) => x \in ItemType
  BY <1>0
<1> HIDE DEF x
<1>3. CASE DecodeLabel
  BY <1>0, <1>3 DEF DecodeLabel, AtItem, TypeOK
<1>4. CASE DecodeLine
  <2>1. x.line \in Lines
    BY <1>2, <1>4, ItemFacts DEF DecodeLine, AtItem, x
  <2>. QED
    BY <1>4, <2>1 DEF DecodeLine, AtItem, TypeOK, x
<1>5. CASE DecodeScope
  <2>1. x.op # "OpLine" /\ x \in ItemType
    BY <1>2, <1>5 DEF DecodeScope, AtItem, x
  <2>2. x.scope \in Scopes \cup {NoScope}
    BY <2>1, ItemFacts
  <2>. QED
    BY <1>5, <2>2 DEF DecodeScope, AtItem, TypeOK, x
<1>6. CASE DecodeEntry
  <2>1. x.op # "OpLine" /\ x \in ItemType
    BY <1>2, <1>6 DEF DecodeEntry, AtItem, x
  <2>2. x.src \in Insts
    BY <2>1, ItemFacts
  <2>3. LocationOf(DbgScope, CurrentLine) \in Location
    BY <1>0 DEF LocationOf, NoLoc
  <2>4. read' \in [Insts -> Location]
    BY <1>0, <1>6, <2>2, <2>3 DEF DecodeEntry, x
  <2>5. CurrentLine' \in Lines \cup {NoLine}
    BY <1>0, <1>6 DEF DecodeEntry
  <2>. QED
    BY <1>0, <1>6, <2>4, <2>5 DEF DecodeEntry, AtItem, TypeOK
<1>. QED
  BY <1>1, <1>3, <1>4, <1>5, <1>6

LEMMA LayoutStep ==
  ASSUME LayoutInv, [Next]_vars
  PROVE  LayoutInv'
<1>1. CASE Translate
  BY <1>1, TranslateKeeps
<1>2. CASE StartLocate
  <2>1. fn' = fn /\ InstVec' = InstVec /\ phase' = "locate" /\ Translating /\ pc = N + 1
    BY <1>2 DEF StartLocate, LayoutInv
  <2>2. \A i \in Insts : i \in 1 .. pc - 1
    BY <2>1, SizeAssumption DEF Insts
  <2>3. \A i \in Insts : HasBlock(InstVec', i)
    BY <2>1, <2>2 DEF Translating
  <2>4. TypeOK'
    BY <1>2 DEF StartLocate, TypeOK, LayoutInv
  <2>. QED
    BY <2>1, <2>3, <2>4, LayoutPrimed, SameFunction DEF LayoutInv
<1>3. CASE Skip \/ LocateNoLoc \/ Locate
  BY <1>3, LocateKeeps
<1>4. CASE EncodeEntry \/ DecodeLabel \/ DecodeLine \/ DecodeScope \/ DecodeEntry
  <2>1. TypeOK' /\ phase' \in {"encode", "decode"}
    BY <1>4, CodingTypes DEF LayoutInv
  <2>2. fn' = fn /\ InstVec' = InstVec
    BY <1>4 DEF EncodeEntry, DecodeLabel, DecodeLine, DecodeScope, DecodeEntry
  <2>. QED
    BY <2>1, <2>2, LayoutPrimed DEF LayoutInv
<1>5. CASE StartEncode \/ StartDecode \/ EndDecode
  <2>1. fn' = fn /\ InstVec' = InstVec /\ phase' \in {"encode", "decode", "done"}
    BY <1>5 DEF StartEncode, StartDecode, EndDecode
  <2>2. TypeOK'
    BY <1>5 DEF StartEncode, StartDecode, EndDecode, TypeOK, LayoutInv
  <2>. QED
    BY <2>1, <2>2, LayoutPrimed DEF LayoutInv
<1>6. CASE UNCHANGED vars
  <2>1. fn' = fn /\ InstVec' = InstVec /\ phase' = phase /\ pc' = pc
    BY <1>6 DEF vars
  <2>2. TypeOK'
    BY <1>6 DEF vars, TypeOK, LayoutInv
  <2>3. Translating' <=> Translating
    BY <2>1 DEF Translating, HasBlock, Labelled, Own, Placed, OpenBlock, OpenAt, IsStart,
                StartsBlock, IsValueOf, InBlock, Ordered, InOrderAt
  <2>. QED
    BY <2>1, <2>2, <2>3, LayoutPrimed, SameFunction DEF LayoutInv
<1>. QED
  BY <1>1, <1>2, <1>3, <1>4, <1>5, <1>6 DEF Next, Finished

(***************************************************************************)
(* The state keeps its types, and every instruction that has a value stays *)
(* behind the label of its block, in every function: whatever its blocks,  *)
(* scopes and lines are, and with values that are other instructions'.     *)
(***************************************************************************)
THEOREM LayoutKept == Spec => []LayoutInv
<1>1. Init => LayoutInv
  <2> SUFFICES ASSUME Init PROVE LayoutInv
    OBVIOUS
  <2>1. TypeOK
    BY FunctionsAssumption DEF Init, TypeOK, NoLoc
  <2>2. InstVec = <<>> /\ pc = 1 /\ phase = "translate" /\ Len(InstVec) = 0
    BY DEF Init
  <2>3. LabelsDiffer(InstVec) /\ Ordered(InstVec)
    BY <2>2 DEF LabelsDiffer, Ordered
  <2>4. Translating
    BY <2>2, <2>3, SizeAssumption DEF Translating, StartsBlock
  <2>. QED
    BY <2>1, <2>2, <2>3, <2>4 DEF LayoutInv
<1>. QED
  BY <1>1, LayoutStep, PTL DEF Spec

(***************************************************************************)
(* Inserting a DebugScope before an instruction keeps the blocks in order: *)
(* nothing follows a terminator, and OpLoopMerge stays before its branch.  *)
(***************************************************************************)
THEOREM BlocksOrdered == Spec => []BlocksStayOrdered
<1>1. LayoutInv => BlocksStayOrdered
  BY DEF LayoutInv, NoAlias, Ordered, InOrderAt, BlocksStayOrdered
<1>. QED
  BY <1>1, LayoutKept, PTL

-----------------------------------------------------------------------------
(***************************************************************************)
(* Locations survive the round trip.  In a function whose instructions     *)
(* keep their order, the SPIR-V instructions are sorted by what they were  *)
(* translated from; transLocationInfo works along this order, so that what *)
(* is in force behind the entries it has passed is final.  The encoder and *)
(* the decoder follow what is in force entry by entry.                     *)
(***************************************************************************)
Scoping == {"Label", "Scope", "NoScope"}

Rank(op) == IF op = "Label" THEN 0
            ELSE IF op \in {"Scope", "NoScope"} THEN 1 ELSE IF op = "merge" THEN 2 ELSE 3

Key(e) == 4 * e.src + Rank(e.op)

Sorted(s) == \A k, l \in 1 .. Len(s) : k < l => Key(s[k]) < Key(s[l])

\* The entry is one that its LLVM instruction makes.
Fits(e) ==
  /\ e.op = "inst" => fn.kind[e.src] = "op"
  /\ e.op = "var" => fn.kind[e.src] = "alloca"
  /\ e.op = "end" => fn.kind[e.src] \in Terminators
  /\ e.op = "merge" => fn.kind[e.src] = "loopterm"
  /\ e.op = "Label" => StartsBlock(e.src) /\ e.scope = NoScope /\ e.line = NoLine
  /\ e.op = "NoScope" => e.scope = NoScope

Fresh(e) == e.op \notin {"Scope", "NoScope"} /\ e.line = NoLine

\* The scope and the line in force behind the first n entries.
ScopeAfter(s, n, scope) ==
  \E m \in 1 .. n : /\ s[m].op \in Scoping /\ s[m].scope = scope
                    /\ \A l \in (m + 1) .. n : s[l].op \notin Scoping

SetsLine(e) == e.op = "Label" \/ e.line # NoLine

LineAfter(s, n, line) ==
  \E m \in 1 .. n : /\ SetsLine(s[m]) /\ s[m].line = line
                    /\ \A l \in (m + 1) .. n : ~SetsLine(s[l])

GoodAt(s, k, i) ==
  /\ ScopeAfter(s, k, fn.loc[i].scope)
  /\ fn.loc[i] # NoLoc => LineAfter(s, k, fn.loc[i].line)

PrefixGood(s, n) == \A k \in 1 .. n : s[k].op \in Values => GoodAt(s, k, s[k].src)

HasMerge(s, i) == \E k \in 1 .. Len(s) : s[k].op = "merge" /\ s[k].src = i
HasValue(s, i) == \E k \in 1 .. Len(s) : s[k].op \in Values /\ s[k].src = i
HasLabel(s, i) == \E k \in 1 .. Len(s) : s[k].op = "Label" /\ s[k].src = i

HasEntries(s, i) ==
  /\ Own(i) => HasValue(s, i)
  /\ fn.kind[i] = "loopterm" => HasMerge(s, i)
  /\ StartsBlock(i) => HasLabel(s, i)

Complete(s) == \A i \in Insts : HasEntries(s, i)

Tidy(s) == Sorted(s) /\ \A k \in 1 .. Len(s) : Fits(s[k])

\* The first c entries are those with a key below q.
CutAt(s, q, c) ==
  /\ \A k \in 1 .. c : Key(s[k]) < q
  /\ \A k \in (c + 1) .. Len(s) : Key(s[k]) >= q

\* transLocationInfo is behind the first c entries, with its locals scope and line.
Stage(s, q, c, scope, line) ==
  /\ s \in Seq(EntryType) /\ Tidy(s) /\ Complete(s)
  /\ c \in 1 .. Len(s) /\ CutAt(s, q, c)
  /\ \A k \in (c + 1) .. Len(s) : Fresh(s[k])
  /\ PrefixGood(s, c) /\ ScopeAfter(s, c, scope) /\ LineAfter(s, c, line)

\* The line in force behind the first n items of the module as written.
LineRead(t, n, line) ==
  \E m \in 0 .. n :
    /\ IF m = 0 THEN line = NoLine
       ELSE \/ t[m].op = "OpLine" /\ line = t[m].line
            \/ t[m].op = "end" /\ line = NoLine
    /\ \A l \in (m + 1) .. n : t[l].op \notin {"OpLine", "end"}

GoodRead(t, n, i) ==
  /\ ScopeAfter(t, n, fn.loc[i].scope)
  /\ fn.loc[i] # NoLoc => LineRead(t, n - 1, fn.loc[i].line)

GoodStream(t) ==
  \A n \in 1 .. Len(t) : /\ t[n].op \in Values => GoodRead(t, n, t[n].src)
                         /\ t[n].op = "Label" => t[n].scope = NoScope

TranslatedSo ==
  /\ DbgScope = NoScope /\ Line = NoLine
  /\ Tidy(InstVec)
  /\ \A k \in 1 .. Len(InstVec) : InstVec[k].src < pc /\ Fresh(InstVec[k])
  /\ \A i \in 1 .. pc - 1 : HasEntries(InstVec, i)

LocatedSo ==
  /\ pc \in 1 .. N + 1
  /\ pc \in Insts => \E c \in 1 .. Len(InstVec) : Stage(InstVec, 4 * pc + 1, c, DbgScope, Line)
  /\ pc = N + 1 => Tidy(InstVec) /\ Complete(InstVec) /\ PrefixGood(InstVec, Len(InstVec))

EncodedSo ==
  /\ Tidy(InstVec) /\ Complete(InstVec) /\ PrefixGood(InstVec, Len(InstVec))
  /\ pc \in 1 .. Len(InstVec) + 1
  /\ GoodStream(stream)
  /\ \A k \in 1 .. pc - 1 : \E n \in 1 .. Len(stream) : stream[n] = InstVec[k]
  /\ \A scope : ScopeAfter(InstVec, pc - 1, scope) => ScopeAfter(stream, Len(stream), scope)
  /\ LineRead(stream, Len(stream), CurrentLine)
  /\ IF pc = 1 \/ InstVec[pc - 1].op = "end"
       THEN CurrentLine = NoLine
       ELSE \A line : LineAfter(InstVec, pc - 1, line) => line = CurrentLine

DecodedSo ==
  /\ GoodStream(stream)
  /\ \A i \in Insts : Own(i) => HasValue(stream, i)
  /\ pc \in 1 .. Len(stream) + 1
  /\ \A n \in 1 .. pc - 1 : stream[n].op \in Values =>
       read[stream[n].src] = fn.loc[stream[n].src]

\* What the decoder has in force, before it reads the item at pc.
Follows ==
  /\ \A scope : ScopeAfter(stream, pc - 1, scope) => scope = DbgScope
  /\ \A line : LineRead(stream, pc - 1, line) => line = CurrentLine

RoundInv ==
  InOrder(fn) =>
    /\ phase = "translate" => TranslatedSo
    /\ phase = "locate" => LocatedSo
    /\ phase \in {"translate", "locate"} => stream = <<>>
    /\ phase = "encode" => EncodedSo
    /\ phase = "decode" => DecodedSo /\ Follows
    /\ phase = "done" => DecodedSo /\ pc = Len(stream) + 1

LEMMA KeyFacts ==
  ASSUME NEW e \in EntryType
  PROVE  /\ e.src \in Nat /\ e.src \in Insts /\ Rank(e.op) \in 0 .. 3 /\ Key(e) \in Nat
         /\ Key(e) = 4 * e.src + Rank(e.op)
         /\ e.op = "Label" <=> Rank(e.op) = 0
         /\ e.op \in {"Scope", "NoScope"} <=> Rank(e.op) = 1
         /\ e.op = "merge" <=> Rank(e.op) = 2
         /\ e.op \in Values <=> Rank(e.op) = 3
<1>1. e.src \in Insts /\ e.op \in {"Label", "inst", "var", "merge", "end", "Scope", "NoScope"}
  BY DEF EntryType
<1>2. e.src \in Nat
  BY <1>1, SizeAssumption DEF Insts
<1>3. /\ Rank(e.op) \in 0 .. 3
      /\ e.op = "Label" <=> Rank(e.op) = 0
      /\ e.op \in {"Scope", "NoScope"} <=> Rank(e.op) = 1
      /\ e.op = "merge" <=> Rank(e.op) = 2
      /\ e.op \in Values <=> Rank(e.op) = 3
  BY <1>1 DEF Rank, Values
<1>. QED
  BY <1>1, <1>2, <1>3 DEF Key

\* Entries, as elements of a sequence.
LEMMA EntriesOf ==
  ASSUME NEW s \in Seq(EntryType)
  PROVE  Len(s) \in Nat /\ \A k \in 1 .. Len(s) : s[k] \in EntryType
  OBVIOUS

LEMMA SortedUnique ==
  ASSUME NEW s \in Seq(EntryType), Sorted(s), NEW k \in 1 .. Len(s), NEW l \in 1 .. Len(s)
  PROVE  /\ Key(s[k]) = Key(s[l]) => k = l
         /\ Key(s[k]) < Key(s[l]) => k < l
<1>1. Key(s[k]) \in Nat /\ Key(s[l]) \in Nat /\ k \in Nat /\ l \in Nat
  BY EntriesOf, KeyFacts
<1>2. k < l => Key(s[k]) < Key(s[l])
  BY DEF Sorted
<1>3. l < k => Key(s[l]) < Key(s[k])
  BY DEF Sorted
<1>. QED
  BY <1>1, <1>2, <1>3

\* What is in force depends on the entries so far.
LEMMA AfterPrefix ==
  ASSUME NEW s, NEW r, NEW n \in Nat, \A k \in 1 .. n : r[k] = s[k]
  PROVE  /\ \A scope : ScopeAfter(s, n, scope) => ScopeAfter(r, n, scope)
         /\ \A line : LineAfter(s, n, line) => LineAfter(r, n, line)
<1>1. ASSUME NEW scope, ScopeAfter(s, n, scope) PROVE ScopeAfter(r, n, scope)
  <2>1. PICK m \in 1 .. n : /\ s[m].op \in Scoping /\ s[m].scope = scope
                            /\ \A l \in (m + 1) .. n : s[l].op \notin Scoping
    BY <1>1 DEF ScopeAfter
  <2>2. \A l \in (m + 1) .. n : r[l] = s[l]
    OBVIOUS
  <2>. QED
    BY <2>1, <2>2 DEF ScopeAfter
<1>2. ASSUME NEW line, LineAfter(s, n, line) PROVE LineAfter(r, n, line)
  <2>1. PICK m \in 1 .. n : /\ SetsLine(s[m]) /\ s[m].line = line
                            /\ \A l \in (m + 1) .. n : ~SetsLine(s[l])
    BY <1>2 DEF LineAfter
  <2>2. \A l \in (m + 1) .. n : r[l] = s[l]
    OBVIOUS
  <2>. QED
    BY <2>1, <2>2 DEF LineAfter
<1>. QED
  BY <1>1, <1>2

LEMMA PrefixGoodKept ==
  ASSUME NEW s, NEW r, NEW n \in Nat, \A k \in 1 .. n : r[k] = s[k], PrefixGood(s, n)
  PROVE  PrefixGood(r, n)
<1> SUFFICES ASSUME NEW k \in 1 .. n, r[k].op \in Values PROVE GoodAt(r, k, r[k].src)
  BY DEF PrefixGood
<1>1. GoodAt(s, k, s[k].src) /\ r[k] = s[k]
  BY DEF PrefixGood
<1>2. k \in Nat /\ \A l \in 1 .. k : r[l] = s[l]
  OBVIOUS
<1>. QED
  BY <1>1, <1>2, AfterPrefix DEF GoodAt

LEMMA ScopeStep ==
  ASSUME NEW s, NEW n \in Nat, NEW scope
  PROVE  /\ s[n + 1].op \in Scoping =>
              (ScopeAfter(s, n + 1, scope) <=> scope = s[n + 1].scope)
         /\ s[n + 1].op \notin Scoping =>
              (ScopeAfter(s, n + 1, scope) <=> ScopeAfter(s, n, scope))
<1>1. ASSUME s[n + 1].op \in Scoping
      PROVE  ScopeAfter(s, n + 1, scope) <=> scope = s[n + 1].scope
  <2>1. n + 1 \in 1 .. n + 1 /\ \A l \in (n + 1 + 1) .. n + 1 : FALSE
    OBVIOUS
  <2>2. \A m \in 1 .. n + 1 : m = n + 1 \/ n + 1 \in (m + 1) .. n + 1
    OBVIOUS
  <2>. QED
    BY <1>1, <2>1, <2>2 DEF ScopeAfter
<1>2. ASSUME s[n + 1].op \notin Scoping, ScopeAfter(s, n + 1, scope)
      PROVE  ScopeAfter(s, n, scope)
  <2>1. PICK m \in 1 .. n + 1 : /\ s[m].op \in Scoping /\ s[m].scope = scope
                                /\ \A l \in (m + 1) .. n + 1 : s[l].op \notin Scoping
    BY <1>2 DEF ScopeAfter
  <2>2. m \in 1 .. n /\ \A l \in (m + 1) .. n : l \in (m + 1) .. n + 1
    BY <1>2, <2>1
  <2>. QED
    BY <2>1, <2>2 DEF ScopeAfter
<1>3. ASSUME s[n + 1].op \notin Scoping, ScopeAfter(s, n, scope)
      PROVE  ScopeAfter(s, n + 1, scope)
  <2>1. PICK m \in 1 .. n : /\ s[m].op \in Scoping /\ s[m].scope = scope
                            /\ \A l \in (m + 1) .. n : s[l].op \notin Scoping
    BY <1>3 DEF ScopeAfter
  <2>2. m \in 1 .. n + 1 /\ \A l \in (m + 1) .. n + 1 : l \in (m + 1) .. n \/ l = n + 1
    OBVIOUS
  <2>. QED
    BY <1>3, <2>1, <2>2 DEF ScopeAfter
<1>. QED
  BY <1>1, <1>2, <1>3

LEMMA LineStep ==
  ASSUME NEW s, NEW n \in Nat, NEW line
  PROVE  /\ SetsLine(s[n + 1]) => (LineAfter(s, n + 1, line) <=> line = s[n + 1].line)
         /\ ~SetsLine(s[n + 1]) => (LineAfter(s, n + 1, line) <=> LineAfter(s, n, line))
<1>1. ASSUME SetsLine(s[n + 1])
      PROVE  LineAfter(s, n + 1, line) <=> line = s[n + 1].line
  <2>1. n + 1 \in 1 .. n + 1 /\ \A l \in (n + 1 + 1) .. n + 1 : FALSE
    OBVIOUS
  <2>2. \A m \in 1 .. n + 1 : m = n + 1 \/ n + 1 \in (m + 1) .. n + 1
    OBVIOUS
  <2>. QED
    BY <1>1, <2>1, <2>2 DEF LineAfter
<1>2. ASSUME ~SetsLine(s[n + 1]), LineAfter(s, n + 1, line)
      PROVE  LineAfter(s, n, line)
  <2>1. PICK m \in 1 .. n + 1 : /\ SetsLine(s[m]) /\ s[m].line = line
                                /\ \A l \in (m + 1) .. n + 1 : ~SetsLine(s[l])
    BY <1>2 DEF LineAfter
  <2>2. m \in 1 .. n /\ \A l \in (m + 1) .. n : l \in (m + 1) .. n + 1
    BY <1>2, <2>1
  <2>. QED
    BY <2>1, <2>2 DEF LineAfter
<1>3. ASSUME ~SetsLine(s[n + 1]), LineAfter(s, n, line)
      PROVE  LineAfter(s, n + 1, line)
  <2>1. PICK m \in 1 .. n : /\ SetsLine(s[m]) /\ s[m].line = line
                            /\ \A l \in (m + 1) .. n : ~SetsLine(s[l])
    BY <1>3 DEF LineAfter
  <2>2. m \in 1 .. n + 1 /\ \A l \in (m + 1) .. n + 1 : l \in (m + 1) .. n \/ l = n + 1
    OBVIOUS
  <2>. QED
    BY <1>3, <2>1, <2>2 DEF LineAfter
<1>. QED
  BY <1>1, <1>2, <1>3

LEMMA PrefixGoodStep ==
  ASSUME NEW s, NEW n \in Nat, PrefixGood(s, n),
         s[n + 1].op \in Values => GoodAt(s, n + 1, s[n + 1].src)
  PROVE  PrefixGood(s, n + 1)
<1>1. \A k \in 1 .. n + 1 : k \in 1 .. n \/ k = n + 1
  OBVIOUS
<1>. QED
  BY <1>1 DEF PrefixGood

-----------------------------------------------------------------------------
(* transLocationInfo, along the sorted entries.                            *)

LEMMA InOrderKinds ==
  ASSUME InOrder(fn), TypeOK
  PROVE  /\ NoAlias
         /\ \A i \in Insts : Own(i) <=> fn.kind[i] # "none"
         /\ \A i \in Insts : fn.kind[i] \in Kinds /\ fn.loc[i] \in Locs
  BY DEF InOrder, NoAlias, Own, TypeOK, FunctionType

\* The entries of pc are the next ones.
LEMMA GroupFacts ==
  ASSUME pc \in Insts, Own(pc), NEW s, NEW c, NEW scope, NEW line,
         Stage(s, 4 * pc + 2, c, scope, line)
  PROVE  IF fn.kind[pc] = "loopterm"
         THEN /\ c + 2 \in 1 .. Len(s) /\ s[c + 1].op = "merge" /\ s[c + 1].src = pc
              /\ s[c + 2].op = "end" /\ s[c + 2].src = pc
         ELSE c + 1 \in 1 .. Len(s) /\ s[c + 1].op \in Values /\ s[c + 1].src = pc
<1>1. /\ s \in Seq(EntryType) /\ Sorted(s) /\ \A k \in 1 .. Len(s) : Fits(s[k])
      /\ c \in 1 .. Len(s) /\ HasEntries(s, pc)
      /\ \A k \in 1 .. c : Key(s[k]) < 4 * pc + 2
      /\ \A k \in (c + 1) .. Len(s) : Key(s[k]) >= 4 * pc + 2
  BY DEF Stage, Tidy, Complete, CutAt
<1>2. Len(s) \in Nat /\ c \in Nat /\ pc \in Nat /\ \A k \in 1 .. Len(s) : s[k] \in EntryType
  BY <1>1, EntriesOf, SizeAssumption DEF Insts
<1>3. PICK m \in 1 .. Len(s) : s[m].op \in Values /\ s[m].src = pc
  BY <1>1 DEF HasEntries, HasValue
<1>4. Key(s[m]) = 4 * pc + 3
  BY <1>2, <1>3, KeyFacts
<1>5. m > c
  BY <1>1, <1>2, <1>4
<1>6. CASE fn.kind[pc] # "loopterm"
  <2>1. ASSUME m # c + 1 PROVE FALSE
    <3>1. c + 1 \in 1 .. Len(s) /\ c + 1 < m /\ c + 1 \in (c + 1) .. Len(s)
      BY <1>2, <1>5, <2>1
    <3>2. Key(s[c + 1]) < 4 * pc + 3 /\ Key(s[c + 1]) >= 4 * pc + 2
      BY <1>1, <1>4, <3>1 DEF Sorted
    <3>3. s[c + 1].src = pc /\ s[c + 1].op = "merge"
      <4> DEFINE e == s[c + 1]
      <4>1. e \in EntryType
        BY <1>2, <3>1
      <4> HIDE DEF e
      <4>2. /\ e.src \in Nat /\ Rank(e.op) \in 0 .. 3 /\ Key(e) = 4 * e.src + Rank(e.op)
            /\ e.op = "merge" <=> Rank(e.op) = 2
        BY <4>1, KeyFacts
      <4>3. Key(e) < 4 * pc + 3 /\ Key(e) >= 4 * pc + 2
        BY <3>2, Zenon DEF e
      <4>4. pc \in Nat
        BY DEF Insts
      <4>5. e.src = pc /\ e.op = "merge"
        BY <4>2, <4>3, <4>4
      <4>. QED
        BY <4>5, Zenon DEF e
    <3>. QED
      BY <1>1, <1>6, <3>1, <3>3, SMTT(30) DEF Fits
  <2>. QED
    BY <1>3, <1>6, <2>1
<1>7. CASE fn.kind[pc] = "loopterm"
  <2>1. PICK h \in 1 .. Len(s) : s[h].op = "merge" /\ s[h].src = pc
    BY <1>1, <1>7 DEF HasEntries, HasMerge
  <2>2. Key(s[h]) = 4 * pc + 2
    BY <1>2, <2>1, KeyFacts
  <2>3. h > c
    BY <1>1, <1>2, <2>2
  <2>4. h = c + 1
    <3> SUFFICES ASSUME h # c + 1 PROVE FALSE
      OBVIOUS
    <3>1. c + 1 \in 1 .. Len(s) /\ c + 1 < h /\ c + 1 \in (c + 1) .. Len(s)
      BY <1>2, <2>3
    <3>2. Key(s[c + 1]) < 4 * pc + 2 /\ Key(s[c + 1]) >= 4 * pc + 2 /\ Key(s[c + 1]) \in Nat
      BY <1>1, <1>2, <2>2, <3>1, KeyFacts DEF Sorted
    <3>. QED
      BY <1>2, <3>2
  <2>5. h < m
    BY <1>1, <1>2, <1>4, <2>2, SortedUnique
  <2>6. m = c + 2
    <3> SUFFICES ASSUME m # c + 2 PROVE FALSE
      OBVIOUS
    <3>1. c + 2 \in 1 .. Len(s) /\ c + 2 < m /\ h < c + 2
      BY <1>2, <2>4, <2>5
    <3>2. Key(s[c + 2]) < 4 * pc + 3 /\ Key(s[c + 2]) > 4 * pc + 2 /\ Key(s[c + 2]) \in Nat
      BY <1>1, <1>2, <1>4, <2>2, <3>1, KeyFacts DEF Sorted
    <3>. QED
      BY <1>2, <3>2
  <2>7. s[m].op = "end"
    BY <1>1, <1>3, <1>7 DEF Fits, Values
  <2>. QED
    BY <1>3, <1>7, <2>1, <2>4, <2>6, <2>7
<1>. QED
  BY <1>6, <1>7

\* No scope was inserted for pc yet.
LEMMA StageUnscoped ==
  ASSUME pc \in Insts, NEW s, NEW c, NEW scope, NEW line,
         Stage(s, 4 * pc + 1, c, scope, line)
  PROVE  Stage(s, 4 * pc + 2, c, scope, line)
<1>1. /\ s \in Seq(EntryType) /\ c \in 1 .. Len(s)
      /\ \A k \in 1 .. c : Key(s[k]) < 4 * pc + 1
      /\ \A k \in (c + 1) .. Len(s) : Key(s[k]) >= 4 * pc + 1
      /\ \A k \in (c + 1) .. Len(s) : Fresh(s[k])
  BY DEF Stage, CutAt
<1>2. Len(s) \in Nat /\ c \in Nat /\ pc \in Nat /\ \A k \in 1 .. Len(s) : s[k] \in EntryType
  BY <1>1, EntriesOf, SizeAssumption DEF Insts
<1>3. ASSUME NEW k \in 1 .. c PROVE Key(s[k]) < 4 * pc + 2
  <2>1. Key(s[k]) \in Nat /\ Key(s[k]) < 4 * pc + 1
    BY <1>1, <1>2, KeyFacts
  <2>. QED
    BY <1>2, <2>1
<1>4. ASSUME NEW k \in (c + 1) .. Len(s) PROVE Key(s[k]) >= 4 * pc + 2
  <2>1. s[k] \in EntryType /\ Key(s[k]) >= 4 * pc + 1 /\ s[k].op \notin {"Scope", "NoScope"}
    BY <1>1, <1>2 DEF Fresh
  <2>. QED
    BY <1>2, <2>1, KeyFacts
<1>. QED
  BY <1>3, <1>4 DEF Stage, CutAt

LEMMA ScopeGoesBefore ==
  ASSUME pc \in Insts, Own(pc), NEW s, NEW c, NEW scope, NEW line,
         Stage(s, 4 * pc + 1, c, scope, line), LabelsDiffer(s), HasBlock(s, pc),
         NEW e \in EntryType
  PROVE  LET r == InsertBefore(s, e, pc)
         IN  r \in Seq(EntryType) /\ Inserted(s, r, c + 1, e)
<1> DEFINE pos == Find(s, pc)
           p == IF s[pos - 1].op = "merge" THEN pos - 1 ELSE pos
<1>0. Stage(s, 4 * pc + 2, c, scope, line)
  BY StageUnscoped
<1>1. /\ s \in Seq(EntryType) /\ Sorted(s) /\ \A k \in 1 .. Len(s) : Fits(s[k])
      /\ c \in 1 .. Len(s) /\ Complete(s)
      /\ \A k \in 1 .. c : Key(s[k]) < 4 * pc + 1
      /\ \A k \in (c + 1) .. Len(s) : Key(s[k]) >= 4 * pc + 1
  BY DEF Stage, Tidy, CutAt
<1>2. Len(s) \in Nat /\ c \in Nat /\ pc \in Nat /\ \A k \in 1 .. Len(s) : s[k] \in EntryType
  BY <1>1, EntriesOf, SizeAssumption DEF Insts
<1>3. pos \in 2 .. Len(s) /\ s[pos].op \in Values /\ s[pos].src = pc
  BY <1>2, FindFacts DEF HasBlock, IsValueOf, Values
<1> HIDE DEF pos
<1>4. pos \in 1 .. Len(s) /\ Key(s[pos]) = 4 * pc + 3
  BY <1>2, <1>3, KeyFacts
<1>5. CASE fn.kind[pc] = "loopterm"
  <2>1. /\ c + 2 \in 1 .. Len(s) /\ s[c + 1].op = "merge"
        /\ s[c + 2].op = "end" /\ s[c + 2].src = pc
    BY <1>0, <1>5, GroupFacts
  <2>2. Key(s[c + 2]) = 4 * pc + 3
    BY <1>2, <2>1, KeyFacts DEF Values
  <2>3. pos = c + 2
    BY <1>1, <1>4, <2>1, <2>2, SortedUnique
  <2>. QED
    BY <1>1, <1>2, <2>1, <2>3, InsertAtInserts DEF InsertBefore, pos
<1>6. CASE fn.kind[pc] # "loopterm"
  <2>1. c + 1 \in 1 .. Len(s) /\ s[c + 1].op \in Values /\ s[c + 1].src = pc
    BY <1>0, <1>6, GroupFacts
  <2>2. Key(s[c + 1]) = 4 * pc + 3
    BY <1>2, <2>1, KeyFacts
  <2>3. pos = c + 1
    BY <1>1, <1>4, <2>1, <2>2, SortedUnique
  <2>4. ASSUME s[c].op = "merge" PROVE FALSE
    <3> DEFINE i == s[c].src
    <3>1. i \in Insts /\ i \in Nat /\ Key(s[c]) = 4 * i + 2 /\ Key(s[c]) < 4 * pc + 1
      BY <1>1, <1>2, <2>4, KeyFacts
    <3>2. Own(i)
      BY <1>1, <2>4, <3>1 DEF Fits, Own
    <3>3. PICK v \in 1 .. Len(s) : s[v].op \in Values /\ s[v].src = i
      BY <1>1, <3>1, <3>2 DEF Complete, HasEntries, HasValue
    <3> HIDE DEF i
    <3>4. Key(s[v]) = 4 * i + 3
      BY <1>2, <3>1, <3>3, KeyFacts
    <3>5. c < v
      BY <1>1, <3>1, <3>4, SortedUnique
    <3>6. Key(s[v]) >= 4 * pc + 1
      BY <1>1, <1>2, <3>5
    <3>. QED
      BY <1>2, <3>1, <3>4, <3>6
  <2>5. p = c + 1
    BY <1>2, <2>3, <2>4
  <2>. QED
    BY <1>1, <1>2, <2>1, <2>5, InsertAtInserts DEF InsertBefore, pos
<1>. QED
  BY <1>5, <1>6

LEMMA InsertKeepsEntries ==
  ASSUME NEW s, NEW r, NEW p, NEW e, Inserted(s, r, p, e), NEW i
  PROVE  /\ HasValue(s, i) => HasValue(r, i)
         /\ HasMerge(s, i) => HasMerge(r, i)
         /\ HasLabel(s, i) => HasLabel(r, i)
         /\ HasEntries(s, i) => HasEntries(r, i)
<1>1. \A k \in 1 .. Len(s) : \E m \in 1 .. Len(r) : r[m] = s[k]
  BY MovedFacts
<1>2. /\ HasValue(s, i) => HasValue(r, i)
      /\ HasMerge(s, i) => HasMerge(r, i)
      /\ HasLabel(s, i) => HasLabel(r, i)
  BY <1>1 DEF HasValue, HasMerge, HasLabel
<1>. QED
  BY <1>2 DEF HasEntries

LEMMA InsertKeepsTidy ==
  ASSUME NEW s \in Seq(EntryType), NEW r \in Seq(EntryType), NEW e \in EntryType, Tidy(s),
         Fits(e), NEW c \in 0 .. Len(s), Inserted(s, r, c + 1, e),
         \A k \in 1 .. c : Key(s[k]) < Key(e),
         \A k \in (c + 1) .. Len(s) : Key(e) < Key(s[k])
  PROVE  Tidy(r)
<1>1. /\ Len(s) \in Nat /\ Len(r) = Len(s) + 1 /\ r[c + 1] = e
      /\ \A k \in 1 .. Len(s) : IF k < c + 1 THEN r[k] = s[k] ELSE r[k + 1] = s[k]
  BY DEF Inserted
<1>2. ASSUME NEW k \in 1 .. Len(r)
      PROVE  \/ k <= c /\ k \in 1 .. Len(s) /\ r[k] = s[k]
             \/ k = c + 1 /\ r[k] = e
             \/ k > c + 1 /\ k - 1 \in 1 .. Len(s) /\ k - 1 \in (c + 1) .. Len(s) /\ r[k] = s[k - 1]
  <2>1. CASE k <= c
    BY <1>1, <2>1
  <2>2. CASE k = c + 1
    BY <1>1, <2>2
  <2>3. CASE k > c + 1
    <3>1. k - 1 \in 1 .. Len(s) /\ k - 1 \in (c + 1) .. Len(s) /\ ~(k - 1 < c + 1)
          /\ k - 1 + 1 = k
      BY <1>1, <2>3
    <3>. QED
      BY <1>1, <2>3, <3>1
  <2>. QED
    BY <1>1, <2>1, <2>2, <2>3
<1>3. \A k \in 1 .. Len(r) : Fits(r[k])
  BY <1>2 DEF Tidy
<1>4. ASSUME NEW k \in 1 .. Len(r), NEW l \in 1 .. Len(r), k < l
      PROVE  Key(r[k]) < Key(r[l])
  <2>0. c \in Nat /\ Len(s) \in Nat /\ Key(e) \in Nat /\ \A j \in 1 .. Len(s) : Key(s[j]) \in Nat
    BY EntriesOf, KeyFacts
  <2>1. CASE k <= c
    <3>0. k \in 1 .. Len(s) /\ r[k] = s[k] /\ k \in 1 .. c
      BY <1>2, <2>1
    <3>1. CASE l <= c
      <4>1. l \in 1 .. Len(s) /\ r[l] = s[l]
        BY <1>2, <3>1
      <4>. QED
        BY <1>4, <3>0, <4>1 DEF Tidy, Sorted
    <3>2. CASE l = c + 1
      BY <1>1, <3>0, <3>2
    <3>3. CASE l > c + 1
      <4>1. l - 1 \in 1 .. Len(s) /\ l - 1 \in (c + 1) .. Len(s) /\ r[l] = s[l - 1]
        BY <1>2, <3>3
      <4>2. k < l - 1
        BY <2>0, <2>1, <3>3
      <4>. QED
        BY <3>0, <4>1, <4>2 DEF Tidy, Sorted
    <3>. QED
      BY <1>1, <2>0, <3>1, <3>2, <3>3
  <2>2. CASE k = c + 1
    <3>1. l - 1 \in (c + 1) .. Len(s) /\ r[l] = s[l - 1]
      BY <1>2, <1>4, <2>2
    <3>. QED
      BY <1>1, <2>2, <3>1
  <2>3. CASE k > c + 1
    <3>1. l > c + 1
      BY <1>4, <2>0, <2>3
    <3>2. k - 1 \in 1 .. Len(s) /\ r[k] = s[k - 1] /\ l - 1 \in 1 .. Len(s) /\ r[l] = s[l - 1]
      BY <1>2, <2>3, <3>1
    <3>3. k - 1 < l - 1
      BY <1>4
    <3>. QED
      BY <3>2, <3>3 DEF Tidy, Sorted
  <2>. QED
    BY <1>1, <2>0, <2>1, <2>2, <2>3
<1>. QED
  BY <1>3, <1>4 DEF Tidy, Sorted

LEMMA StageScoped ==
  ASSUME pc \in Insts, Own(pc), NEW s, NEW c, NEW scope, NEW line,
         Stage(s, 4 * pc + 1, c, scope, line), LabelsDiffer(s), HasBlock(s, pc),
         NEW e \in EntryType, e.op \in {"Scope", "NoScope"}, e.src = pc, e.line = NoLine,
         Fits(e)
  PROVE  Stage(InsertBefore(s, e, pc), 4 * pc + 2, c + 1, e.scope, line)
<1> DEFINE r == InsertBefore(s, e, pc)
<1>0. r \in Seq(EntryType) /\ Inserted(s, r, c + 1, e)
  BY ScopeGoesBefore
<1> HIDE DEF r
<1>1. /\ s \in Seq(EntryType) /\ Tidy(s) /\ Complete(s)
      /\ c \in 1 .. Len(s)
      /\ \A k \in 1 .. c : Key(s[k]) < 4 * pc + 1
      /\ \A k \in (c + 1) .. Len(s) : Key(s[k]) >= 4 * pc + 2
      /\ \A k \in (c + 1) .. Len(s) : Fresh(s[k])
      /\ PrefixGood(s, c) /\ LineAfter(s, c, line)
  BY StageUnscoped DEF Stage, CutAt
<1>2. Len(s) \in Nat /\ c \in Nat /\ pc \in Nat /\ \A k \in 1 .. Len(s) : Key(s[k]) \in Nat
  BY <1>1, EntriesOf, KeyFacts, SizeAssumption DEF Insts
<1>3. Key(e) = 4 * pc + 1
  BY <1>2, KeyFacts
<1>4. /\ Len(r) = Len(s) + 1 /\ r[c + 1] = e
      /\ \A k \in 1 .. c : r[k] = s[k]
      /\ \A k \in (c + 1) .. Len(s) : r[k + 1] = s[k]
  BY <1>0, <1>1, <1>2 DEF Inserted
<1>5. Tidy(r)
  <2>1. c \in 0 .. Len(s)
    BY <1>1
  <2>2. \A k \in 1 .. c : Key(s[k]) < Key(e)
    BY <1>1, <1>3
  <2>3. \A k \in (c + 1) .. Len(s) : Key(e) < Key(s[k])
    <3> SUFFICES ASSUME NEW k \in (c + 1) .. Len(s) PROVE Key(e) < Key(s[k])
      OBVIOUS
    <3>1. Key(s[k]) \in Nat /\ Key(s[k]) >= 4 * pc + 2
      BY <1>1, <1>2
    <3>. QED
      BY <1>2, <1>3, <3>1
  <2>. QED
    BY <1>0, <1>1, <2>1, <2>2, <2>3, InsertKeepsTidy
<1>6. Complete(r)
  BY <1>0, <1>1, InsertKeepsEntries DEF Complete
<1>7. ASSUME NEW k \in (c + 1 + 1) .. Len(r)
      PROVE  k - 1 \in (c + 1) .. Len(s) /\ r[k] = s[k - 1]
  <2>1. k - 1 \in (c + 1) .. Len(s) /\ k - 1 + 1 = k
    BY <1>2, <1>4
  <2>. QED
    BY <1>4, <2>1
<1>8. CutAt(r, 4 * pc + 2, c + 1)
  <2>1. ASSUME NEW k \in 1 .. c + 1 PROVE Key(r[k]) < 4 * pc + 2
    <3>1. CASE k = c + 1
      BY <1>2, <1>3, <1>4, <3>1
    <3>2. CASE k # c + 1
      <4>1. k \in 1 .. c /\ k \in 1 .. Len(s)
        BY <1>1, <1>2, <3>2
      <4>2. r[k] = s[k] /\ Key(s[k]) \in Nat /\ Key(s[k]) < 4 * pc + 1
        BY <1>1, <1>2, <1>4, <4>1
      <4>. QED
        BY <1>2, <4>2
    <3>. QED
      BY <3>1, <3>2
  <2>. QED
    BY <1>1, <1>7, <2>1 DEF CutAt
<1>9. \A k \in (c + 1 + 1) .. Len(r) : Fresh(r[k])
  BY <1>1, <1>7
<1>10. PrefixGood(r, c) /\ LineAfter(r, c, line)
  BY <1>1, <1>2, <1>4, PrefixGoodKept, AfterPrefix
<1>11. PrefixGood(r, c + 1)
  BY <1>2, <1>4, <1>10, PrefixGoodStep DEF Values
<1>12. ScopeAfter(r, c + 1, e.scope)
  BY <1>2, <1>4, ScopeStep DEF Scoping
<1>13. LineAfter(r, c + 1, line)
  BY <1>2, <1>4, <1>10, LineStep DEF SetsLine
<1>14. c + 1 \in 1 .. Len(r)
  BY <1>1, <1>2, <1>4
<1>. QED
  BY <1>0, <1>5, <1>6, <1>8, <1>9, <1>11, <1>12, <1>13, <1>14 DEF Stage, r

\* r is s, possibly with a line on the entry behind the first c.
Lined(s, r, c, before, line) ==
  /\ r \in Seq(EntryType) /\ Len(r) = Len(s)
  /\ \A k \in 1 .. Len(s) : k # c + 1 => r[k] = s[k]
  /\ r[c + 1].op = s[c + 1].op /\ r[c + 1].src = s[c + 1].src
  /\ IF r[c + 1].line = NoLine THEN line = before ELSE line = r[c + 1].line

LEMMA StageLined ==
  ASSUME pc \in Insts, Own(pc), NEW s, NEW r, NEW c, NEW before, NEW line,
         Stage(s, 4 * pc + 2, c, fn.loc[pc].scope, before), Lined(s, r, c, before, line),
         fn.loc[pc] # NoLoc => line = fn.loc[pc].line
  PROVE  \E d \in 1 .. Len(r) : Stage(r, 4 * pc + 4, d, fn.loc[pc].scope, line)
<1> DEFINE scope == fn.loc[pc].scope
<1>1. /\ s \in Seq(EntryType) /\ Tidy(s) /\ Complete(s)
      /\ c \in 1 .. Len(s)
      /\ \A k \in 1 .. c : Key(s[k]) < 4 * pc + 2
      /\ \A k \in (c + 1) .. Len(s) : Fresh(s[k])
      /\ PrefixGood(s, c) /\ ScopeAfter(s, c, scope) /\ LineAfter(s, c, before)
  BY DEF Stage, CutAt
<1>2. Len(s) \in Nat /\ c \in Nat /\ pc \in Nat
  BY <1>1, EntriesOf, SizeAssumption DEF Insts
<1>g. IF fn.kind[pc] = "loopterm"
      THEN /\ c + 2 \in 1 .. Len(s) /\ s[c + 1].op = "merge" /\ s[c + 1].src = pc
           /\ s[c + 2].op = "end" /\ s[c + 2].src = pc
      ELSE c + 1 \in 1 .. Len(s) /\ s[c + 1].op \in Values /\ s[c + 1].src = pc
  BY GroupFacts
<1>3. c + 1 \in 1 .. Len(s) /\ s[c + 1].op \in Values \cup {"merge"}
  BY <1>2, <1>g
<1>4. /\ r \in Seq(EntryType) /\ Len(r) = Len(s)
      /\ \A k \in 1 .. Len(s) : k # c + 1 => r[k] = s[k]
      /\ \A k \in 1 .. Len(s) : r[k].op = s[k].op /\ r[k].src = s[k].src
      /\ IF r[c + 1].line = NoLine THEN line = before ELSE line = r[c + 1].line
  BY DEF Lined
<1>5. \A k \in 1 .. c : r[k] = s[k] /\ k \in 1 .. Len(s)
  BY <1>1, <1>2, <1>4
<1>6. Tidy(r)
  <2>1. \A k \in 1 .. Len(s) : Key(r[k]) = Key(s[k])
    BY <1>4 DEF Key
  <2>2. Sorted(r)
    BY <1>1, <1>4, <2>1 DEF Tidy, Sorted
  <2>3. Fits(r[c + 1])
    <3>1. Fits(s[c + 1])
      BY <1>1, <1>3 DEF Tidy
    <3>. QED
      BY <1>3, <1>4, <3>1 DEF Fits, Values
  <2>4. \A k \in 1 .. Len(r) : Fits(r[k])
    BY <1>1, <1>4, <2>3 DEF Tidy
  <2>. QED
    BY <2>2, <2>4 DEF Tidy
<1>7. Complete(r)
  <2> SUFFICES ASSUME NEW i \in Insts PROVE HasEntries(r, i)
    BY DEF Complete
  <2>1. HasEntries(s, i)
    BY <1>1 DEF Complete
  <2>2. \A k \in 1 .. Len(s) : k \in 1 .. Len(r) /\ r[k].op = s[k].op /\ r[k].src = s[k].src
    BY <1>4
  <2>3. HasValue(s, i) => HasValue(r, i)
    BY <2>2 DEF HasValue
  <2>4. HasMerge(s, i) => HasMerge(r, i)
    BY <2>2 DEF HasMerge
  <2>5. HasLabel(s, i) => HasLabel(r, i)
    BY <2>2 DEF HasLabel
  <2>. QED
    BY <2>1, <2>3, <2>4, <2>5 DEF HasEntries
<1>8. PrefixGood(r, c) /\ ScopeAfter(r, c, scope) /\ LineAfter(r, c, before)
  BY <1>1, <1>2, <1>5, PrefixGoodKept, AfterPrefix
<1>9. ScopeAfter(r, c + 1, scope)
  BY <1>2, <1>3, <1>4, <1>8, ScopeStep DEF Scoping, Values
<1>10. LineAfter(r, c + 1, line)
  <2>1. r[c + 1].op # "Label"
    BY <1>3, <1>4 DEF Values
  <2>2. CASE r[c + 1].line = NoLine
    <3>1. ~SetsLine(r[c + 1]) /\ line = before
      BY <1>4, <2>1, <2>2 DEF SetsLine
    <3>. QED
      BY <1>2, <1>8, <3>1, LineStep
  <2>3. CASE r[c + 1].line # NoLine
    <3>1. SetsLine(r[c + 1]) /\ line = r[c + 1].line
      BY <1>4, <2>3 DEF SetsLine
    <3>. QED
      BY <1>2, <3>1, LineStep
  <2>. QED
    BY <2>2, <2>3
<1>11. ASSUME NEW k \in 1 .. Len(r), r[k].src = pc, ScopeAfter(r, k, scope), LineAfter(r, k, line)
       PROVE  GoodAt(r, k, r[k].src)
  BY <1>11 DEF GoodAt
<1>12. ASSUME NEW d \in 1 .. Len(r), r[d].op \in Values, r[d].src = pc, d > c
       PROVE  CutAt(r, 4 * pc + 4, d) /\ \A k \in (d + 1) .. Len(r) : Fresh(r[k])
  <2>0. \A k \in 1 .. Len(r) : Key(r[k]) \in Nat
    BY <1>4, EntriesOf, KeyFacts
  <2>1. Key(r[d]) = 4 * pc + 3
    BY <1>2, <1>4, <1>12, EntriesOf, KeyFacts
  <2>2. ASSUME NEW k \in 1 .. d PROVE Key(r[k]) < 4 * pc + 4
    <3>1. k \in 1 .. Len(r) /\ (k < d \/ k = d)
      BY <1>4
    <3>2. Key(r[k]) <= 4 * pc + 3
      BY <1>2, <1>6, <2>0, <2>1, <3>1 DEF Tidy, Sorted
    <3>. QED
      BY <1>2, <2>0, <3>1, <3>2
  <2>3. ASSUME NEW k \in (d + 1) .. Len(r) PROVE Key(r[k]) >= 4 * pc + 4 /\ Fresh(r[k])
    <3>1. k \in 1 .. Len(r) /\ d < k /\ k \in (c + 1) .. Len(s) /\ k # c + 1
      BY <1>2, <1>4, <1>12
    <3>2. Key(r[k]) > 4 * pc + 3
      BY <1>6, <2>1, <3>1 DEF Tidy, Sorted
    <3>3. Key(r[k]) >= 4 * pc + 4
      BY <1>2, <2>0, <3>1, <3>2
    <3>4. r[k] = s[k] /\ Fresh(s[k])
      BY <1>1, <1>4, <3>1
    <3>. QED
      BY <3>3, <3>4
  <2>. QED
    BY <2>2, <2>3 DEF CutAt
<1>13. CASE fn.kind[pc] = "loopterm"
  <2>1. /\ c + 2 \in 1 .. Len(r) /\ c + 2 \in (c + 1) .. Len(s) /\ c + 2 # c + 1 /\ c + 1 + 1 = c + 2
        /\ r[c + 1].op = "merge" /\ r[c + 2] = s[c + 2] /\ r[c + 2].op = "end" /\ r[c + 2].src = pc
    BY <1>2, <1>4, <1>13, <1>g
  <2>2. r[c + 2].line = NoLine
    BY <1>1, <2>1 DEF Fresh
  <2>3. PrefixGood(r, c + 1)
    BY <1>2, <1>8, <2>1, PrefixGoodStep DEF Values
  <2>4. ScopeAfter(r, c + 2, scope)
    BY <1>2, <1>9, <2>1, ScopeStep DEF Scoping
  <2>5. LineAfter(r, c + 2, line)
    BY <1>2, <1>10, <2>1, <2>2, LineStep DEF SetsLine
  <2>6. GoodAt(r, c + 2, r[c + 2].src)
    BY <1>11, <2>1, <2>4, <2>5
  <2>7. PrefixGood(r, c + 2)
    <3>1. c + 1 \in Nat
      BY <1>2
    <3>. QED
      BY <2>1, <2>3, <2>6, <3>1, PrefixGoodStep
  <2>8. CutAt(r, 4 * pc + 4, c + 2) /\ \A k \in (c + 2 + 1) .. Len(r) : Fresh(r[k])
    <3>1. c + 2 > c /\ r[c + 2].op \in Values
      BY <1>2, <2>1 DEF Values
    <3>. QED
      BY <1>12, <2>1, <3>1
  <2>9. Stage(r, 4 * pc + 4, c + 2, scope, line)
    BY <1>4, <1>6, <1>7, <2>1, <2>4, <2>5, <2>7, <2>8 DEF Stage
  <2>. QED
    BY <2>1, <2>9
<1>14. CASE fn.kind[pc] # "loopterm"
  <2>1. c + 1 \in 1 .. Len(r) /\ r[c + 1].op \in Values /\ r[c + 1].src = pc /\ c + 1 > c
    BY <1>2, <1>4, <1>14, <1>g
  <2>2. GoodAt(r, c + 1, r[c + 1].src)
    BY <1>9, <1>10, <1>11, <2>1
  <2>3. PrefixGood(r, c + 1)
    BY <1>2, <1>8, <2>2, PrefixGoodStep
  <2>4. CutAt(r, 4 * pc + 4, c + 1) /\ \A k \in (c + 1 + 1) .. Len(r) : Fresh(r[k])
    BY <1>12, <2>1
  <2>5. Stage(r, 4 * pc + 4, c + 1, scope, line)
    BY <1>4, <1>6, <1>7, <1>9, <1>10, <2>1, <2>3, <2>4 DEF Stage
  <2>. QED
    BY <2>1, <2>5
<1>. QED
  BY <1>13, <1>14

\* addLine meets the entry behind the first c, and no other.
LEMMA SetLineLined ==
  ASSUME pc \in Insts, Own(pc), NEW s, NEW c, NEW scope, NEW before, NEW line \in Lines,
         Stage(s, 4 * pc + 2, c, scope, before)
  PROVE  Lined(s, SetLine(s, pc, line), c, before, line)
<1> DEFINE r == SetLine(s, pc, line)
           Hit(k) == IF fn.kind[pc] = "loopterm"
                       THEN s[k].src = pc /\ s[k].op = "merge" ELSE IsValueOf(s[k], pc)
<1>1. /\ s \in Seq(EntryType) /\ Sorted(s) /\ c \in 1 .. Len(s)
  BY DEF Stage, Tidy
<1>2. Len(s) \in Nat /\ c \in Nat /\ pc \in Nat /\ \A k \in 1 .. Len(s) : s[k] \in EntryType
  BY <1>1, EntriesOf, SizeAssumption DEF Insts
<1>3. r \in Seq(EntryType) /\ SameShape(s, r)
  BY <1>1, SetLineShape
<1>4. \A k \in 1 .. Len(s) : r[k] = IF Hit(k) THEN [s[k] EXCEPT !.line = line] ELSE s[k]
  <2> DEFINE F == [k \in 1 .. Len(s) |-> IF Hit(k) THEN [s[k] EXCEPT !.line = line] ELSE s[k]]
  <2>1. r = F
    BY DEF SetLine
  <2> HIDE DEF Hit, r
  <2>. QED
    BY <2>1
<1> HIDE DEF r
<1>g. IF fn.kind[pc] = "loopterm"
      THEN /\ c + 2 \in 1 .. Len(s) /\ s[c + 1].op = "merge" /\ s[c + 1].src = pc
           /\ s[c + 2].op = "end" /\ s[c + 2].src = pc
      ELSE c + 1 \in 1 .. Len(s) /\ s[c + 1].op \in Values /\ s[c + 1].src = pc
  BY GroupFacts
<1>5. c + 1 \in 1 .. Len(s) /\ Hit(c + 1)
  BY <1>2, <1>g DEF IsValueOf, Values
<1>6. ASSUME NEW k \in 1 .. Len(s), Hit(k) PROVE k = c + 1
  <2>1. Key(s[k]) = Key(s[c + 1])
    <3>0. s[k] \in EntryType /\ s[c + 1] \in EntryType
      BY <1>2, <1>5
    <3>1. CASE fn.kind[pc] = "loopterm"
      BY <1>5, <1>6, <3>1 DEF Key
    <3>2. CASE fn.kind[pc] # "loopterm"
      BY <1>5, <1>6, <3>2 DEF Key, Rank, IsValueOf
    <3>. QED
      BY <3>1, <3>2
  <2>. QED
    BY <1>1, <1>5, <2>1, SortedUnique
<1>7. r[c + 1].line = line
  <2>1. r[c + 1] = [s[c + 1] EXCEPT !.line = line]
    BY <1>4, <1>5
  <2>2. s[c + 1] \in EntryType
    BY <1>2, <1>5
  <2>. QED
    BY <2>1, <2>2 DEF EntryType
<1>8. \A k \in 1 .. Len(s) : k # c + 1 => r[k] = s[k]
  BY <1>4, <1>6
<1>9. line # NoLine
  BY MarkersAssumption
<1>. QED
  BY <1>3, <1>5, <1>7, <1>8, <1>9 DEF Lined, SameShape, r

LEMMA StageSkipped ==
  ASSUME pc \in Insts, fn.kind[pc] = "none", NEW s, NEW c, NEW scope, NEW line,
         Stage(s, 4 * pc + 1, c, scope, line)
  PROVE  Stage(s, 4 * pc + 4, c, scope, line)
<1>0. Stage(s, 4 * pc + 2, c, scope, line)
  BY StageUnscoped
<1>1. /\ s \in Seq(EntryType) /\ c \in 1 .. Len(s) /\ \A k \in 1 .. Len(s) : Fits(s[k])
      /\ \A k \in 1 .. c : Key(s[k]) < 4 * pc + 2
      /\ \A k \in (c + 1) .. Len(s) : Key(s[k]) >= 4 * pc + 2
  BY <1>0 DEF Stage, Tidy, CutAt
<1>2. Len(s) \in Nat /\ c \in Nat /\ pc \in Nat /\ \A k \in 1 .. Len(s) : s[k] \in EntryType
  BY <1>1, EntriesOf, SizeAssumption DEF Insts
<1>3. ASSUME NEW k \in 1 .. c PROVE Key(s[k]) < 4 * pc + 4
  <2>1. Key(s[k]) \in Nat /\ Key(s[k]) < 4 * pc + 2
    BY <1>1, <1>2, KeyFacts
  <2>. QED
    BY <1>2, <2>1
<1>4. ASSUME NEW k \in (c + 1) .. Len(s) PROVE Key(s[k]) >= 4 * pc + 4
  <2>1. s[k] \in EntryType /\ Key(s[k]) >= 4 * pc + 2 /\ Fits(s[k])
    BY <1>1, <1>2
  <2>2. ~(s[k].src = pc /\ s[k].op \in Values \cup {"merge"})
    BY <2>1 DEF Fits, Values, Terminators
  <2> DEFINE e == s[k]
  <2>3. e \in EntryType /\ Key(e) >= 4 * pc + 2 /\ (e.src = pc => e.op \notin Values /\ e.op # "merge")
    BY <2>1, <2>2
  <2> HIDE DEF e
  <2>4. /\ e.src \in Nat /\ Rank(e.op) \in 0 .. 3 /\ Key(e) = 4 * e.src + Rank(e.op)
        /\ e.op = "merge" <=> Rank(e.op) = 2
        /\ e.op \in Values <=> Rank(e.op) = 3
    BY <2>3, KeyFacts
  <2>. QED
    BY <1>2, <2>3, <2>4, SMTT(40) DEF e
<1>. QED
  BY <1>0, <1>3, <1>4 DEF Stage, CutAt

\* Over the label of the next block, if there is one.
LEMMA StageNext ==
  ASSUME pc \in Insts, pc + 1 \in Insts, NEW s, NEW c, NEW scope, NEW line,
         Stage(s, 4 * pc + 4, c, scope, line)
  PROVE  IF fn.kind[pc] \in Terminators
         THEN \E d \in 1 .. Len(s) : Stage(s, 4 * (pc + 1) + 1, d, NoScope, NoLine)
         ELSE \E d \in 1 .. Len(s) : Stage(s, 4 * (pc + 1) + 1, d, scope, line)
<1>1. /\ s \in Seq(EntryType) /\ c \in 1 .. Len(s) /\ Sorted(s) /\ Complete(s)
      /\ \A k \in 1 .. Len(s) : Fits(s[k])
      /\ \A k \in 1 .. c : Key(s[k]) < 4 * pc + 4
      /\ \A k \in (c + 1) .. Len(s) : Key(s[k]) >= 4 * pc + 4
      /\ \A k \in (c + 1) .. Len(s) : Fresh(s[k])
      /\ PrefixGood(s, c)
  BY DEF Stage, Tidy, CutAt
<1>2. Len(s) \in Nat /\ c \in Nat /\ pc \in Nat \ {0} /\ \A k \in 1 .. Len(s) : s[k] \in EntryType
  BY <1>1, EntriesOf, SizeAssumption DEF Insts
<1>3. StartsBlock(pc + 1) <=> fn.kind[pc] \in Terminators
  <2> DEFINE q == pc + 1
  <2>1. q # 1 /\ q - 1 = pc
    BY <1>2
  <2> HIDE DEF q
  <2>2. StartsBlock(q) <=> fn.kind[pc] \in Terminators
    BY <2>1 DEF StartsBlock
  <2>. QED
    BY <2>2 DEF q
<1>4. CASE fn.kind[pc] \in Terminators
  <2>1. PICK b \in 1 .. Len(s) : s[b].op = "Label" /\ s[b].src = pc + 1
    BY <1>1, <1>3, <1>4 DEF Complete, HasEntries, HasLabel
  <2>2. Key(s[b]) = 4 * pc + 4
    BY <1>2, <2>1, KeyFacts
  <2>3. b > c
    BY <1>1, <1>2, <2>2
  <2>4. b = c + 1
    <3> SUFFICES ASSUME b # c + 1 PROVE FALSE
      OBVIOUS
    <3>1. c + 1 \in 1 .. Len(s) /\ c + 1 < b /\ c + 1 \in (c + 1) .. Len(s)
      BY <1>2, <2>3
    <3>2. Key(s[c + 1]) < 4 * pc + 4 /\ Key(s[c + 1]) >= 4 * pc + 4 /\ Key(s[c + 1]) \in Nat
      BY <1>1, <1>2, <2>2, <3>1, KeyFacts DEF Sorted
    <3>. QED
      BY <1>2, <3>2
  <2>5. s[c + 1].op = "Label" /\ s[c + 1].scope = NoScope /\ s[c + 1].line = NoLine
    BY <1>1, <2>1, <2>4 DEF Fits
  <2>6. PrefixGood(s, c + 1)
    BY <1>1, <1>2, <2>5, PrefixGoodStep DEF Values
  <2>7. ScopeAfter(s, c + 1, NoScope)
    BY <1>2, <2>5, ScopeStep DEF Scoping
  <2>8. LineAfter(s, c + 1, NoLine)
    <3>1. SetsLine(s[c + 1])
      BY <2>5 DEF SetsLine
    <3>. QED
      BY <1>2, <2>5, <3>1, LineStep
  <2>9. ASSUME NEW k \in 1 .. c + 1 PROVE Key(s[k]) < 4 * (pc + 1) + 1
    <3>1. k \in 1 .. c \/ k = c + 1
      BY <1>2
    <3>2. k \in 1 .. Len(s) /\ Key(s[k]) \in Nat
      BY <1>2, <2>4, KeyFacts
    <3>. QED
      BY <1>1, <1>2, <2>2, <2>4, <3>1, <3>2
  <2>10. ASSUME NEW k \in (c + 1 + 1) .. Len(s) PROVE Key(s[k]) >= 4 * (pc + 1) + 1
    <3>1. k \in 1 .. Len(s) /\ c + 1 < k
      BY <1>2
    <3>2. Key(s[k]) \in Nat /\ Key(s[k]) > 4 * pc + 4
      BY <1>1, <1>2, <2>2, <2>4, <3>1, KeyFacts DEF Sorted
    <3>. QED
      BY <1>2, <3>2
  <2>11. \A k \in (c + 1 + 1) .. Len(s) : Fresh(s[k])
    BY <1>1, <1>2
  <2>12. Stage(s, 4 * (pc + 1) + 1, c + 1, NoScope, NoLine)
    BY <2>4, <2>6, <2>7, <2>8, <2>9, <2>10, <2>11 DEF Stage, CutAt
  <2>. QED
    BY <1>4, <2>4, <2>12
<1>5. CASE fn.kind[pc] \notin Terminators
  <2>1. ASSUME NEW k \in 1 .. c PROVE Key(s[k]) < 4 * (pc + 1) + 1
    <3>1. k \in 1 .. Len(s) /\ Key(s[k]) \in Nat /\ Key(s[k]) < 4 * pc + 4
      BY <1>1, <1>2, KeyFacts
    <3>. QED
      BY <1>2, <3>1
  <2>2. ASSUME NEW k \in (c + 1) .. Len(s) PROVE Key(s[k]) >= 4 * (pc + 1) + 1
    <3>1. s[k] \in EntryType /\ Key(s[k]) >= 4 * pc + 4 /\ Fits(s[k])
      BY <1>1, <1>2
    <3>2. ~(s[k].src = pc + 1 /\ s[k].op = "Label")
      BY <1>3, <1>5, <3>1 DEF Fits
    <3>3. /\ s[k].src \in Nat /\ Rank(s[k].op) \in 0 .. 3
          /\ Key(s[k]) = 4 * s[k].src + Rank(s[k].op)
          /\ s[k].op = "Label" <=> Rank(s[k].op) = 0
      BY <3>1, KeyFacts
    <3>4. s[k].src > pc
      BY <1>2, <3>1, <3>3
    <3>5. s[k].src = pc + 1 => Rank(s[k].op) >= 1
      BY <3>2, <3>3
    <3>. QED
      BY <1>2, <3>3, <3>4, <3>5
  <2>3. Stage(s, 4 * (pc + 1) + 1, c, scope, line)
    BY <2>1, <2>2 DEF Stage, CutAt
  <2>. QED
    BY <1>1, <1>5, <2>3
<1>. QED
  BY <1>4, <1>5

LEMMA StageLast ==
  ASSUME pc \in Insts, pc = N, NEW s, NEW c, NEW scope, NEW line,
         Stage(s, 4 * pc + 4, c, scope, line)
  PROVE  c = Len(s)
<1>1. /\ s \in Seq(EntryType) /\ c \in 1 .. Len(s)
      /\ \A k \in (c + 1) .. Len(s) : Key(s[k]) >= 4 * pc + 4
  BY DEF Stage, CutAt
<1>2. Len(s) \in Nat /\ c \in Nat /\ N \in Nat /\ \A k \in 1 .. Len(s) : s[k] \in EntryType
  BY <1>1, EntriesOf, SizeAssumption
<1>3. ASSUME c # Len(s) PROVE FALSE
  <2>1. c + 1 \in (c + 1) .. Len(s) /\ c + 1 \in 1 .. Len(s)
    BY <1>1, <1>2, <1>3
  <2>2. Key(s[c + 1]) >= 4 * N + 4 /\ s[c + 1] \in EntryType
    BY <1>1, <1>2, <2>1
  <2>3. s[c + 1].src \in 1 .. N
    BY <2>2, KeyFacts DEF Insts
  <2>. QED
    BY <1>2, <2>2, <2>3, KeyFacts
<1>. QED
  BY <1>3

LEMMA SameEntries ==
  ASSUME fn' = fn
  PROVE  /\ Tidy(InstVec)' <=> Tidy(InstVec')
         /\ Complete(InstVec)' <=> Complete(InstVec')
         /\ \A i : HasEntries(InstVec, i)' <=> HasEntries(InstVec', i)
         /\ \A n : PrefixGood(InstVec, n)' <=> PrefixGood(InstVec', n)
<1>1. Tidy(InstVec)' <=> Tidy(InstVec')
  BY DEF Tidy, Sorted, Fits, StartsBlock, Key, Rank
<1>2. \A i : HasEntries(InstVec, i)' <=> HasEntries(InstVec', i)
  BY DEF HasEntries, HasValue, HasMerge, HasLabel, StartsBlock, Own
<1>3. Complete(InstVec)' <=> Complete(InstVec')
  BY <1>2 DEF Complete
<1>4. \A n : PrefixGood(InstVec, n)' <=> PrefixGood(InstVec', n)
  BY DEF PrefixGood, GoodAt, ScopeAfter, LineAfter, SetsLine
<1>. QED
  BY <1>1, <1>2, <1>3, <1>4

\* An instruction is located: what is in force behind its value is its own location.
LEMMA LocateStage ==
  ASSUME LayoutInv, InOrder(fn), Skip \/ LocateNoLoc \/ Locate, NEW c,
         Stage(InstVec, 4 * pc + 1, c, DbgScope, Line)
  PROVE  \E scope \in Scopes \cup {NoScope}, line \in Lines \cup {NoLine} :
           /\ NextLocals(scope, line)
           /\ \E d \in 1 .. Len(InstVec') : Stage(InstVec', 4 * pc + 4, d, scope, line)
<1>1. TypeOK /\ phase = "locate" /\ pc \in Insts
  BY DEF LayoutInv, Skip, LocateNoLoc, Locate
<1>2. /\ DbgScope \in Scopes \cup {NoScope} /\ Line \in Lines \cup {NoLine}
      /\ fn.loc[pc] \in Locs /\ LabelsDiffer(InstVec) /\ HasBlock(InstVec, pc)
      /\ c \in 1 .. Len(InstVec)
  BY <1>1 DEF TypeOK, FunctionType, LayoutInv, Stage
<1>3. Own(pc) <=> fn.kind[pc] # "none"
  BY <1>1, InOrderKinds
<1>4. fn.kind[pc] # "alias" /\ Value(pc) = pc
  BY <1>1 DEF InOrder, Value
<1>5. CASE Skip
  <2>1. fn.kind[pc] = "none" /\ InstVec' = InstVec /\ NextLocals(DbgScope, Line)
    BY <1>5 DEF Skip
  <2>2. Stage(InstVec, 4 * pc + 4, c, DbgScope, Line)
    BY <1>1, <2>1, StageSkipped
  <2>. QED
    BY <1>2, <2>1, <2>2
<1>6. CASE LocateNoLoc
  <2> DEFINE e == Entry("NoScope", pc, NoScope)
             s == IF DbgScope = NoScope THEN InstVec ELSE InsertBefore(InstVec, e, pc)
  <2>1. /\ Own(pc) /\ fn.loc[pc] = NoLoc /\ fn.loc[pc].scope = NoScope
        /\ InstVec' = s /\ NextLocals(NoScope, Line)
    BY <1>3, <1>4, <1>6 DEF LocateNoLoc, NoLoc
  <2>2. \E b : Stage(s, 4 * pc + 2, b, NoScope, Line)
    <3>1. CASE DbgScope = NoScope
      BY <1>1, <3>1, StageUnscoped
    <3>2. CASE DbgScope # NoScope
      <4>1. /\ e \in EntryType /\ e.op = "NoScope" /\ e.src = pc /\ e.line = NoLine
            /\ e.scope = NoScope
        BY <1>1, EntryFacts DEF Entry
      <4>2. Fits(e)
        BY <4>1 DEF Fits
      <4>3. s = InsertBefore(InstVec, e, pc)
        BY <3>2
      <4> HIDE DEF e, s
      <4>4. Stage(s, 4 * pc + 2, c + 1, NoScope, Line)
        BY <1>1, <1>2, <2>1, <4>1, <4>2, <4>3, StageScoped
      <4>. QED
        BY <4>4
    <3>. QED
      BY <3>1, <3>2
  <2> HIDE DEF s
  <2>3. PICK b : Stage(s, 4 * pc + 2, b, NoScope, Line)
    BY <2>2
  <2>4. Lined(s, s, b, Line, Line)
    <3>1. s \in Seq(EntryType) /\ b \in 1 .. Len(s) /\ \A k \in (b + 1) .. Len(s) : Fresh(s[k])
      BY <2>3 DEF Stage
    <3>2. b + 1 \in (b + 1) .. Len(s)
      <4>1. IF fn.kind[pc] = "loopterm" THEN b + 2 \in 1 .. Len(s) ELSE b + 1 \in 1 .. Len(s)
        BY <1>1, <2>1, <2>3, GroupFacts
      <4>. QED
        BY <3>1, <4>1
    <3>3. s[b + 1].line = NoLine
      BY <3>1, <3>2 DEF Fresh
    <3>. QED
      BY <3>1, <3>3 DEF Lined
  <2>5. \E d \in 1 .. Len(s) : Stage(s, 4 * pc + 4, d, NoScope, Line)
    BY <1>1, <2>1, <2>3, <2>4, StageLined
  <2>. QED
    BY <1>2, <2>1, <2>5
<1>7. CASE Locate
  <2> DEFINE loc == fn.loc[pc]
             e == Entry("Scope", pc, loc.scope)
             s == IF loc.scope = DbgScope THEN InstVec ELSE InsertBefore(InstVec, e, pc)
             r == IF loc.line = Line THEN s ELSE SetLine(s, pc, loc.line)
  <2>1. /\ Own(pc) /\ loc # NoLoc
        /\ InstVec' = r /\ NextLocals(loc.scope, loc.line)
    BY <1>3, <1>4, <1>7 DEF Locate
  <2>2. loc.scope \in Scopes /\ loc.line \in Lines
    BY <1>2, <2>1 DEF Locs
  <2> HIDE DEF loc
  <2>3. \E b : Stage(s, 4 * pc + 2, b, loc.scope, Line)
    <3>1. CASE loc.scope = DbgScope
      BY <1>1, <3>1, StageUnscoped
    <3>2. CASE loc.scope # DbgScope
      <4>1. /\ e \in EntryType /\ e.op = "Scope" /\ e.src = pc /\ e.line = NoLine
            /\ e.scope = loc.scope
        BY <1>1, <2>2, EntryFacts DEF Entry
      <4>2. Fits(e)
        BY <4>1 DEF Fits
      <4>3. s = InsertBefore(InstVec, e, pc)
        BY <3>2
      <4> HIDE DEF e, s
      <4>4. Stage(s, 4 * pc + 2, c + 1, loc.scope, Line)
        BY <1>1, <1>2, <2>1, <4>1, <4>2, <4>3, StageScoped
      <4>. QED
        BY <4>4
    <3>. QED
      BY <3>1, <3>2
  <2> HIDE DEF s
  <2>4. PICK b : Stage(s, 4 * pc + 2, b, loc.scope, Line)
    BY <2>3
  <2>5. Lined(s, r, b, Line, loc.line)
    <3>1. CASE loc.line = Line
      <4>1. s \in Seq(EntryType) /\ b \in 1 .. Len(s) /\ \A k \in (b + 1) .. Len(s) : Fresh(s[k])
        BY <2>4 DEF Stage
      <4>2. b + 1 \in (b + 1) .. Len(s)
        <5>1. IF fn.kind[pc] = "loopterm" THEN b + 2 \in 1 .. Len(s) ELSE b + 1 \in 1 .. Len(s)
          BY <1>1, <2>1, <2>4, GroupFacts
        <5>. QED
          BY <4>1, <5>1
      <4>3. s[b + 1].line = NoLine /\ r = s
        BY <3>1, <4>1, <4>2 DEF Fresh
      <4>. QED
        BY <3>1, <4>1, <4>3 DEF Lined
    <3>2. CASE loc.line # Line
      <4>1. r = SetLine(s, pc, loc.line)
        BY <3>2
      <4>. QED
        BY <1>1, <2>1, <2>2, <2>4, <4>1, SetLineLined
    <3>. QED
      BY <3>1, <3>2
  <2> HIDE DEF r
  <2>6. \E d \in 1 .. Len(r) : Stage(r, 4 * pc + 4, d, loc.scope, loc.line)
    BY <1>1, <2>1, <2>4, <2>5, StageLined DEF loc
  <2>. QED
    BY <2>1, <2>2, <2>6
<1>. QED
  BY <1>5, <1>6, <1>7

LEMMA LocateRounds ==
  ASSUME LayoutInv, InOrder(fn), LocatedSo, Skip \/ LocateNoLoc \/ Locate
  PROVE  LocatedSo'
<1>1. pc \in Insts /\ fn' = fn /\ N \in Nat
  BY SizeAssumption DEF Skip, LocateNoLoc, Locate
<1>2. PICK c \in 1 .. Len(InstVec) : Stage(InstVec, 4 * pc + 1, c, DbgScope, Line)
  BY <1>1 DEF LocatedSo
<1>3. PICK scope \in Scopes \cup {NoScope}, line \in Lines \cup {NoLine} :
           /\ NextLocals(scope, line)
           /\ \E d \in 1 .. Len(InstVec') : Stage(InstVec', 4 * pc + 4, d, scope, line)
  BY <1>2, LocateStage
<1>4. PICK d \in 1 .. Len(InstVec') : Stage(InstVec', 4 * pc + 4, d, scope, line)
  BY <1>3
<1>5. /\ pc' = pc + 1
      /\ IF fn.kind[pc] \in Terminators THEN DbgScope' = NoScope /\ Line' = NoLine
         ELSE DbgScope' = scope /\ Line' = line
  BY <1>3 DEF NextLocals
<1>6. pc' \in 1 .. N + 1
  BY <1>1, <1>5 DEF Insts
<1>7. ASSUME pc' \in Insts
      PROVE  \E b \in 1 .. Len(InstVec') : Stage(InstVec', 4 * pc' + 1, b, DbgScope', Line')
  BY <1>1, <1>4, <1>5, <1>7, StageNext
<1>8. ASSUME pc' = N + 1
      PROVE  Tidy(InstVec') /\ Complete(InstVec') /\ PrefixGood(InstVec', Len(InstVec'))
  <2>1. pc = N
    BY <1>1, <1>5, <1>8 DEF Insts
  <2>2. d = Len(InstVec')
    BY <1>1, <1>4, <2>1, StageLast
  <2>. QED
    BY <1>4, <2>2 DEF Stage
<1>9. PrefixGood(InstVec', Len(InstVec')) => PrefixGood(InstVec, Len(InstVec))'
  BY <1>1 DEF PrefixGood, GoodAt, ScopeAfter, LineAfter, SetsLine
<1>10. ASSUME pc' \in Insts
       PROVE  (\E b \in 1 .. Len(InstVec) : Stage(InstVec, 4 * pc + 1, b, DbgScope, Line))'
  <2>1. PICK b \in 1 .. Len(InstVec') : Stage(InstVec', 4 * pc' + 1, b, DbgScope', Line')
    BY <1>7, <1>10
  <2>2. Stage(InstVec, 4 * pc + 1, b, DbgScope, Line)'
    <3>1. Tidy(InstVec') /\ Complete(InstVec') /\ PrefixGood(InstVec', b)
      BY <2>1 DEF Stage
    <3>2. Tidy(InstVec)' /\ Complete(InstVec)' /\ PrefixGood(InstVec, b)'
      BY <1>1, <3>1, SameEntries
    <3>. QED
      BY <2>1, <3>2 DEF Stage, EntryType, CutAt, Key, Rank, Fresh, ScopeAfter, LineAfter, SetsLine
  <2>. QED
    BY <2>2
<1>. QED
  BY <1>1, <1>6, <1>8, <1>9, <1>10, SameEntries DEF LocatedSo

-----------------------------------------------------------------------------
(* transFunction keeps the order of the LLVM instructions.                 *)

\* Up to the entries with a key below q, only the instructions before pc and
\* the label of pc are there.
SortedSoFar(s, q) ==
  /\ s \in Seq(EntryType) /\ Tidy(s)
  /\ \A k \in 1 .. Len(s) : Key(s[k]) < q /\ Fresh(s[k])
  /\ \A i \in 1 .. pc - 1 : HasEntries(s, i)

LEMMA AppendSorted ==
  ASSUME NEW s, NEW q \in Nat, SortedSoFar(s, q), NEW r \in Seq(EntryType), NEW e \in EntryType,
         Inserted(s, r, Len(s) + 1, e), Fits(e), Fresh(e), q <= Key(e)
  PROVE  SortedSoFar(r, Key(e) + 1)
<1>1. /\ s \in Seq(EntryType) /\ Tidy(s)
      /\ \A k \in 1 .. Len(s) : Key(s[k]) < q /\ Fresh(s[k])
  BY DEF SortedSoFar
<1>2. Len(s) \in Nat /\ Key(e) \in Nat /\ \A k \in 1 .. Len(s) : Key(s[k]) \in Nat
  BY <1>1, EntriesOf, KeyFacts
<1>3. \A k \in 1 .. Len(s) : Key(s[k]) < Key(e)
  BY <1>1, <1>2
<1>4. Tidy(r)
  <2>1. Len(s) \in 0 .. Len(s) /\ \A k \in (Len(s) + 1) .. Len(s) : FALSE
    BY <1>2
  <2>. QED
    BY <1>1, <1>3, <2>1, InsertKeepsTidy
<1>5. ASSUME NEW k \in 1 .. Len(r) PROVE Key(r[k]) < Key(e) + 1 /\ Fresh(r[k])
  <2>1. \/ k \in 1 .. Len(s) /\ r[k] = s[k]
        \/ r[k] = e
    BY <1>2 DEF Inserted
  <2>. QED
    BY <1>1, <1>2, <1>3, <2>1
<1>6. \A i \in 1 .. pc - 1 : HasEntries(r, i)
  BY InsertKeepsEntries DEF SortedSoFar
<1>. QED
  BY <1>4, <1>5, <1>6 DEF SortedSoFar

\* An alloca comes behind all that its block holds so far.
LEMMA VariableLast ==
  ASSUME InOrder(fn), pc \in Insts, fn.kind[pc] = "alloca", NEW s, SortedSoFar(s, 4 * pc + 1),
         NEW k \in 1 .. Len(s), OpenAt(s, k, pc)
  PROVE  VariableInsertionPoint(s, k) = Len(s) + 1
<1> DEFINE p == VariableInsertionPoint(s, k)
           j == s[p].src
<1>1. /\ s \in Seq(EntryType) /\ Sorted(s)
      /\ \A l \in 1 .. Len(s) : Key(s[l]) < 4 * pc + 1 /\ Fresh(s[l]) /\ Fits(s[l])
  BY DEF SortedSoFar, Tidy
<1>2. Len(s) \in Nat /\ pc \in Nat /\ \A l \in 1 .. Len(s) : s[l] \in EntryType
  BY <1>1, EntriesOf, SizeAssumption DEF Insts
<1>3. s[k].op = "Label" /\ IsStart(s[k].src, pc)
  BY DEF OpenAt
<1>4. p \in (k + 1) .. (Len(s) + 1) /\ (p <= Len(s) => s[p].op \notin {"Label", "var"})
  BY <1>2, <1>3, VariablePointFacts
<1> HIDE DEF p
<1> SUFFICES ASSUME p # Len(s) + 1 PROVE FALSE
  BY DEF p
<1>5. p \in 1 .. Len(s) /\ k < p /\ s[p] \in EntryType /\ s[p].op \notin {"Label", "var"}
  BY <1>2, <1>4
<1>6. s[p].op \in {"inst", "merge", "end"}
  BY <1>1, <1>5 DEF Fresh, EntryType
<1>7. j \in Insts /\ j \in Nat /\ fn.kind[j] \notin {"alloca", "none"}
  BY <1>1, <1>5, <1>6, KeyFacts DEF Fits, Terminators
<1>8. Key(s[k]) < Key(s[p]) /\ Key(s[p]) < 4 * pc + 1
  BY <1>1, <1>5 DEF Sorted
<1>9. s[k].src <= j /\ s[k].src \in Nat
  <2>1. /\ s[k].src \in Nat /\ Key(s[k]) = 4 * s[k].src + Rank(s[k].op) /\ Rank(s[k].op) = 0
        /\ Key(s[p]) = 4 * j + Rank(s[p].op) /\ Rank(s[p].op) \in 0 .. 3
    BY <1>2, <1>3, <1>5, KeyFacts
  <2> HIDE DEF j
  <2>. QED
    BY <1>7, <1>8, <2>1
<1>10. j < pc
  <2>1. Key(s[p]) = 4 * j + Rank(s[p].op) /\ Rank(s[p].op) \in 1 .. 3
    BY <1>5, KeyFacts
  <2>. QED
    BY <1>2, <1>7, <1>8, <2>1
<1> HIDE DEF j
<1>11. ASSUME NEW l \in j .. (pc - 1) PROVE fn.kind[l] \notin Terminators
  <2> DEFINE m == l + 1
  <2>1. m \in (s[k].src + 1) .. pc /\ m - 1 = l
    BY <1>2, <1>7, <1>9
  <2> HIDE DEF m
  <2>2. ~StartsBlock(m)
    BY <1>3, <2>1 DEF IsStart
  <2>. QED
    BY <2>1, <2>2 DEF StartsBlock
<1>12. j \in 1 .. (pc - 1)
  BY <1>2, <1>7, <1>10 DEF Insts
<1>. QED
  BY <1>7, <1>11, <1>12 DEF InOrder

LEMMA OpenedSorted ==
  ASSUME LayoutInv, TranslatedSo, Translate
  PROVE  SortedSoFar(Opened, 4 * pc + 1) /\ (StartsBlock(pc) => HasLabel(Opened, pc))
<1>1. TypeOK /\ pc \in Insts /\ pc \in Nat /\ InstVec \in Seq(EntryType)
  BY SizeAssumption DEF LayoutInv, TypeOK, Translate, Insts
<1>2. ASSUME NEW k \in 1 .. Len(InstVec) PROVE Key(InstVec[k]) < 4 * pc
  <2>1. InstVec[k] \in EntryType /\ InstVec[k].src < pc
    BY <1>1, EntriesOf DEF TranslatedSo
  <2>2. /\ InstVec[k].src \in Nat /\ Rank(InstVec[k].op) \in 0 .. 3
        /\ Key(InstVec[k]) = 4 * InstVec[k].src + Rank(InstVec[k].op)
    BY <2>1, KeyFacts
  <2>. QED
    BY <1>1, <2>1, <2>2
<1>3. SortedSoFar(InstVec, 4 * pc)
  BY <1>1, <1>2 DEF SortedSoFar, TranslatedSo
<1>4. CASE StartsBlock(pc)
  <2> DEFINE e == Entry("Label", pc, NoScope)
             r == Append(InstVec, e)
  <2>1. /\ e \in EntryType /\ e.op = "Label" /\ e.src = pc /\ e.line = NoLine
        /\ e.scope = NoScope
    BY <1>1, EntryFacts DEF Entry
  <2> HIDE DEF e
  <2>2. r \in Seq(EntryType) /\ Inserted(InstVec, r, Len(InstVec) + 1, e)
    BY <1>1, <2>1, AppendInserts
  <2>3. Opened = r
    BY <1>4 DEF Opened, e
  <2> HIDE DEF r
  <2>4. Fits(e) /\ Fresh(e)
    BY <1>4, <2>1 DEF Fits, Fresh
  <2>5. Key(e) = 4 * pc /\ 4 * pc \in Nat /\ 4 * pc <= Key(e)
    BY <1>1, <2>1, KeyFacts
  <2>6. SortedSoFar(r, Key(e) + 1)
    BY <1>3, <2>1, <2>2, <2>4, <2>5, AppendSorted
  <2>7. HasLabel(r, pc)
    <3>1. Len(InstVec) + 1 \in 1 .. Len(r) /\ r[Len(InstVec) + 1] = e
      BY <1>1, <2>2 DEF Inserted
    <3>. QED
      BY <2>1, <3>1 DEF HasLabel
  <2>. QED
    BY <2>3, <2>5, <2>6, <2>7
<1>5. CASE ~StartsBlock(pc)
  <2>1. Opened = InstVec
    BY <1>5 DEF Opened
  <2>2. ASSUME NEW k \in 1 .. Len(InstVec) PROVE Key(InstVec[k]) < 4 * pc + 1
    <3>1. Key(InstVec[k]) \in Nat
      BY <1>1, EntriesOf, KeyFacts
    <3>. QED
      BY <1>1, <1>2, <3>1
  <2>. QED
    BY <1>3, <1>5, <2>1, <2>2 DEF SortedSoFar
<1>. QED
  BY <1>4, <1>5

\* One value appended, behind what SortedSoFar holds.
LEMMA AppendValue ==
  ASSUME pc \in Insts, NEW s, NEW q \in Nat, q <= 4 * pc + 3, SortedSoFar(s, q),
         NEW op \in Values, NEW r \in Seq(EntryType), Fits(Entry(op, pc, NoScope)),
         Inserted(s, r, Len(s) + 1, Entry(op, pc, NoScope))
  PROVE  SortedSoFar(r, 4 * pc + 4) /\ HasValue(r, pc)
<1> DEFINE e == Entry(op, pc, NoScope)
<1>0. pc \in Nat
  BY SizeAssumption DEF Insts
<1>1. e \in EntryType /\ e.op = op /\ e.src = pc /\ e.line = NoLine
  BY EntryFacts DEF Values, Entry
<1>i. Inserted(s, r, Len(s) + 1, e) /\ Fits(e)
  OBVIOUS
<1> HIDE DEF e
<1>2. Key(e) = 4 * pc + 3 /\ q <= Key(e)
  BY <1>0, <1>1, KeyFacts
<1>3. Fresh(e)
  BY <1>1 DEF Fresh, Values
<1>4. SortedSoFar(r, Key(e) + 1)
  BY <1>1, <1>2, <1>3, <1>i, AppendSorted
<1>5. Key(e) + 1 = 4 * pc + 4
  BY <1>0, <1>2
<1>6. Len(s) + 1 \in 1 .. Len(r) /\ r[Len(s) + 1] = e
  BY <1>i DEF Inserted
<1>. QED
  BY <1>1, <1>4, <1>5, <1>6 DEF HasValue

LEMMA TranslateSorted ==
  ASSUME LayoutInv, InOrder(fn), TranslatedSo, Translate
  PROVE  /\ SortedSoFar(InstVec', 4 * pc + 4)
         /\ HasEntries(InstVec', pc)
<1> DEFINE s == Opened
           r == InstVec'
           w == fn.kind[pc]
<1>1. /\ TypeOK /\ pc \in Insts /\ pc \in Nat /\ Translating /\ LabelsDiffer(InstVec)
      /\ w \in Kinds
  BY SizeAssumption DEF LayoutInv, TypeOK, FunctionType, Translate, Insts
<1>2. SortedSoFar(s, 4 * pc + 1) /\ (StartsBlock(pc) => HasLabel(s, pc))
  BY OpenedSorted
<1>3. s \in Seq(EntryType) /\ LabelsDiffer(s) /\ OpenBlock(s, pc) /\ Len(s) \in Nat
  BY <1>1, OpenedFacts
<1>a. /\ w = "op" => r = Append(s, Entry("inst", pc, NoScope))
      /\ w = "alloca" => r = InsertAt(s, VariableInsertionPoint(s, LabelAt(s, pc)),
                                      Entry("var", pc, NoScope))
      /\ w = "term" => r = Append(s, Entry("end", pc, NoScope))
      /\ w = "loopterm" => r = s \o <<Entry("merge", pc, NoScope), Entry("end", pc, NoScope)>>
      /\ w \in {"alias", "none"} => r = s
  BY DEF Translate
<1> HIDE DEF s, r
<1>4. ASSUME NEW op \in Values, Fits(Entry(op, pc, NoScope)), w # "loopterm", r \in Seq(EntryType),
             Inserted(s, r, Len(s) + 1, Entry(op, pc, NoScope))
      PROVE  SortedSoFar(r, 4 * pc + 4) /\ HasEntries(r, pc)
  <2>1. 4 * pc + 1 \in Nat /\ 4 * pc + 1 <= 4 * pc + 3
    BY <1>1
  <2>2. SortedSoFar(r, 4 * pc + 4) /\ HasValue(r, pc)
    BY <1>1, <1>2, <1>4, <2>1, AppendValue
  <2>3. HasLabel(s, pc) => HasLabel(r, pc)
    BY <1>4, InsertKeepsEntries
  <2>. QED
    BY <1>2, <1>4, <2>2, <2>3 DEF HasEntries
<1>5. /\ w = "op" => Fits(Entry("inst", pc, NoScope))
      /\ w = "alloca" => Fits(Entry("var", pc, NoScope))
      /\ w \in Terminators => Fits(Entry("end", pc, NoScope))
  BY DEF Fits, Entry
<1>6. /\ Entry("inst", pc, NoScope) \in EntryType /\ Entry("var", pc, NoScope) \in EntryType
      /\ Entry("end", pc, NoScope) \in EntryType
  BY <1>1, EntryFacts
<1>7. CASE w = "op"
  <2>1. r \in Seq(EntryType) /\ Inserted(s, r, Len(s) + 1, Entry("inst", pc, NoScope))
    BY <1>3, <1>6, <1>7, <1>a, AppendInserts
  <2>. QED
    BY <1>4, <1>5, <1>7, <2>1 DEF Values, r
<1>8. CASE w = "alloca"
  <2>1. PICK k \in 1 .. Len(s) : OpenAt(s, k, pc)
    BY <1>3 DEF OpenBlock
  <2>2. LabelAt(s, pc) = k
    BY <1>1, <1>3, <2>1, LabelAtIs DEF OpenAt
  <2>3. VariableInsertionPoint(s, k) = Len(s) + 1
    BY <1>1, <1>2, <1>8, <2>1, VariableLast
  <2>4. r = InsertAt(s, Len(s) + 1, Entry("var", pc, NoScope)) /\ Len(s) + 1 \in 1 .. Len(s) + 1
    BY <1>3, <1>8, <1>a, <2>2, <2>3
  <2>5. r \in Seq(EntryType) /\ Inserted(s, r, Len(s) + 1, Entry("var", pc, NoScope))
    BY <1>3, <1>6, <2>4, InsertAtInserts
  <2>. QED
    BY <1>4, <1>5, <1>8, <2>5 DEF Values, r
<1>9. CASE w = "term"
  <2>1. r \in Seq(EntryType) /\ Inserted(s, r, Len(s) + 1, Entry("end", pc, NoScope))
    BY <1>3, <1>6, <1>9, <1>a, AppendInserts
  <2>. QED
    BY <1>4, <1>5, <1>9, <2>1 DEF Values, Terminators, r
<1>10. CASE w = "loopterm"
  <2> DEFINE d == Entry("merge", pc, NoScope)
             q == Append(s, d)
  <2>1. d \in EntryType /\ d.op = "merge" /\ d.src = pc /\ d.line = NoLine
    BY <1>1, EntryFacts DEF Entry
  <2>2. s \o <<d, Entry("end", pc, NoScope)>> = Append(q, Entry("end", pc, NoScope))
    BY <1>3, <1>6, <2>1
  <2> HIDE DEF d
  <2>3. q \in Seq(EntryType) /\ Inserted(s, q, Len(s) + 1, d)
    BY <1>3, <2>1, AppendInserts
  <2>4. r = Append(q, Entry("end", pc, NoScope))
    BY <1>10, <1>a, <2>2 DEF d
  <2> HIDE DEF q
  <2>5. r \in Seq(EntryType) /\ Inserted(q, r, Len(q) + 1, Entry("end", pc, NoScope))
    BY <1>6, <2>3, <2>4, AppendInserts
  <2>6. Key(d) = 4 * pc + 2 /\ 4 * pc + 1 \in Nat /\ 4 * pc + 1 <= Key(d) /\ Key(d) + 1 = 4 * pc + 3
    BY <1>1, <2>1, KeyFacts
  <2>7. Fits(d) /\ Fresh(d)
    BY <1>10, <2>1 DEF Fits, Fresh
  <2>8. SortedSoFar(q, 4 * pc + 3)
    BY <1>2, <2>1, <2>3, <2>6, <2>7, AppendSorted
  <2>9. HasMerge(q, pc)
    <3>1. Len(s) + 1 \in 1 .. Len(q) /\ q[Len(s) + 1] = d
      BY <1>3, <2>3 DEF Inserted
    <3>. QED
      BY <2>1, <3>1 DEF HasMerge
  <2>10. 4 * pc + 3 \in Nat /\ 4 * pc + 3 <= 4 * pc + 3 /\ "end" \in Values
    BY <1>1 DEF Values
  <2>11. SortedSoFar(r, 4 * pc + 4) /\ HasValue(r, pc)
    BY <1>1, <1>5, <1>10, <2>5, <2>8, <2>10, AppendValue DEF Terminators
  <2>12. /\ HasMerge(r, pc)
         /\ HasLabel(s, pc) => HasLabel(r, pc)
    BY <2>3, <2>5, <2>9, InsertKeepsEntries
  <2>. QED
    BY <1>2, <2>11, <2>12 DEF HasEntries, r
<1>11. CASE w \in {"alias", "none"}
  <2>1. r = s /\ ~Own(pc) /\ w # "loopterm"
    BY <1>11, <1>a DEF Own
  <2>2. ASSUME NEW k \in 1 .. Len(s) PROVE Key(s[k]) < 4 * pc + 4
    <3>1. Key(s[k]) \in Nat /\ Key(s[k]) < 4 * pc + 1
      BY <1>2, <1>3, EntriesOf, KeyFacts DEF SortedSoFar
    <3>. QED
      BY <1>1, <3>1
  <2>3. SortedSoFar(s, 4 * pc + 4)
    BY <1>2, <2>2 DEF SortedSoFar
  <2>. QED
    BY <1>2, <2>1, <2>3 DEF HasEntries, r
<1>. QED
  BY <1>1, <1>7, <1>8, <1>9, <1>10, <1>11 DEF Kinds

LEMMA TranslateRounds ==
  ASSUME LayoutInv, InOrder(fn), TranslatedSo, Translate
  PROVE  TranslatedSo'
<1>1. /\ SortedSoFar(InstVec', 4 * pc + 4) /\ HasEntries(InstVec', pc)
  BY TranslateSorted
<1>2. /\ pc \in Nat \ {0} /\ pc' = pc + 1 /\ fn' = fn /\ DbgScope' = DbgScope /\ Line' = Line
  BY DEF LayoutInv, TypeOK, Translate
<1>3. ASSUME NEW k \in 1 .. Len(InstVec') PROVE InstVec'[k].src < pc' /\ Fresh(InstVec'[k])
  <2>1. InstVec'[k] \in EntryType /\ Key(InstVec'[k]) < 4 * pc + 4 /\ Fresh(InstVec'[k])
    BY <1>1, EntriesOf DEF SortedSoFar
  <2>2. /\ InstVec'[k].src \in Nat /\ Rank(InstVec'[k].op) \in 0 .. 3
        /\ Key(InstVec'[k]) = 4 * InstVec'[k].src + Rank(InstVec'[k].op)
    BY <2>1, KeyFacts
  <2>. QED
    BY <1>2, <2>1, <2>2
<1>4. ASSUME NEW i \in 1 .. pc' - 1 PROVE HasEntries(InstVec, i)'
  <2>1. i \in 1 .. pc - 1 \/ i = pc
    BY <1>2
  <2>2. HasEntries(InstVec', i)
    BY <1>1, <2>1 DEF SortedSoFar
  <2>. QED
    BY <1>2, <2>2, SameEntries
<1>5. Tidy(InstVec)'
  BY <1>1, <1>2, SameEntries DEF SortedSoFar
<1>. QED
  BY <1>2, <1>3, <1>4, <1>5 DEF TranslatedSo, Fresh

LEMMA StartLocateRounds ==
  ASSUME LayoutInv, InOrder(fn), TranslatedSo, StartLocate
  PROVE  LocatedSo'
<1>1. /\ InstVec \in Seq(EntryType) /\ pc = N + 1 /\ pc' = 1 /\ fn' = fn /\ InstVec' = InstVec
      /\ DbgScope' = NoScope /\ Line' = NoLine /\ N \in Nat
  BY SizeAssumption DEF LayoutInv, TypeOK, StartLocate, TranslatedSo
<1>2. Len(InstVec) \in Nat /\ \A k \in 1 .. Len(InstVec) : InstVec[k] \in EntryType
  BY <1>1, EntriesOf
<1>3. Tidy(InstVec) /\ Complete(InstVec)
  <2>1. \A i \in Insts : i \in 1 .. pc - 1
    BY <1>1 DEF Insts
  <2>. QED
    BY <2>1 DEF TranslatedSo, Complete
<1>4. ASSUME N = 0 PROVE Len(InstVec) = 0
  <2>1. Insts = {}
    BY <1>4 DEF Insts
  <2>2. \A k \in 1 .. Len(InstVec) : FALSE
    BY <1>2, <2>1 DEF EntryType
  <2>. QED
    BY <1>2, <2>2
<1>5. ASSUME N # 0 PROVE Stage(InstVec, 4 * 1 + 1, 1, NoScope, NoLine) /\ 1 \in 1 .. Len(InstVec)
  <2>1. 1 \in Insts
    BY <1>1, <1>5 DEF Insts
  <2>2. PICK b \in 1 .. Len(InstVec) : InstVec[b].op = "Label" /\ InstVec[b].src = 1
    BY <1>3, <2>1 DEF Complete, HasEntries, StartsBlock, HasLabel
  <2>3. Key(InstVec[b]) = 4
    BY <1>2, <2>2, KeyFacts
  <2>4. ASSUME NEW k \in 1 .. Len(InstVec) PROVE Key(InstVec[k]) >= 4 /\ Key(InstVec[k]) \in Nat
    <3>1. InstVec[k].src \in 1 .. N
      BY <1>2, KeyFacts DEF Insts
    <3>. QED
      BY <1>2, <3>1, KeyFacts
  <2>5. b = 1
    <3> SUFFICES ASSUME b # 1 PROVE FALSE
      OBVIOUS
    <3>1. 1 \in 1 .. Len(InstVec) /\ 1 < b
      BY <1>2
    <3>2. Key(InstVec[1]) < Key(InstVec[b])
      BY <1>3, <3>1 DEF Tidy, Sorted
    <3>. QED
      BY <2>3, <2>4, <3>1, <3>2
  <2>6. InstVec[1].op = "Label" /\ InstVec[1].scope = NoScope /\ InstVec[1].line = NoLine
    BY <1>3, <2>2, <2>5 DEF Tidy, Fits
  <2>7. CutAt(InstVec, 4 * 1 + 1, 1)
    <3>1. ASSUME NEW k \in (1 + 1) .. Len(InstVec) PROVE Key(InstVec[k]) >= 4 * 1 + 1
      <4>1. k \in 1 .. Len(InstVec) /\ 1 < k
        BY <1>2
      <4>2. Key(InstVec[1]) < Key(InstVec[k])
        BY <1>3, <2>5, <4>1 DEF Tidy, Sorted
      <4>. QED
        BY <2>3, <2>4, <2>5, <4>1, <4>2
    <3>. QED
      BY <2>3, <2>5, <3>1 DEF CutAt
  <2>8. PrefixGood(InstVec, 1)
    BY <2>6 DEF PrefixGood, Values
  <2>9. ScopeAfter(InstVec, 1, NoScope) /\ LineAfter(InstVec, 1, NoLine)
    BY <2>6 DEF ScopeAfter, LineAfter, SetsLine, Scoping
  <2>10. \A k \in (1 + 1) .. Len(InstVec) : Fresh(InstVec[k])
    BY <1>2 DEF TranslatedSo
  <2>. QED
    BY <1>1, <1>3, <2>5, <2>7, <2>8, <2>9, <2>10 DEF Stage
<1>6. pc' \in 1 .. N + 1
  BY <1>1
<1>7. Tidy(InstVec)' /\ Complete(InstVec)'
  BY <1>1, <1>3, SameEntries
<1>8. CASE N = 0
  <2>1. Len(InstVec') = 0
    BY <1>1, <1>4, <1>8
  <2>2. PrefixGood(InstVec, Len(InstVec))'
    BY <2>1 DEF PrefixGood
  <2>3. ~(pc' \in Insts)
    BY <1>1, <1>8 DEF Insts
  <2>. QED
    BY <1>6, <1>7, <2>2, <2>3 DEF LocatedSo
<1>9. CASE N # 0
  <2>1. Stage(InstVec, 4 * 1 + 1, 1, NoScope, NoLine) /\ 1 \in 1 .. Len(InstVec)
    BY <1>5, <1>9
  <2>2. PrefixGood(InstVec, 1)'
    BY <1>1, <2>1, SameEntries DEF Stage
  <2>3. Stage(InstVec, 4 * pc + 1, 1, DbgScope, Line)'
    BY <1>1, <1>7, <2>1, <2>2 DEF Stage, EntryType, CutAt, Key, Rank, Fresh, ScopeAfter, LineAfter, SetsLine
  <2>4. pc' # N + 1
    BY <1>1, <1>9
  <2>. QED
    BY <1>1, <1>6, <2>1, <2>3, <2>4 DEF LocatedSo
<1>. QED
  BY <1>8, <1>9

-----------------------------------------------------------------------------
(* operator<< and decodeBB follow what is in force.                        *)

LEMMA LabelAfterEnd ==
  ASSUME NEW s \in Seq(EntryType), Tidy(s), Complete(s), NEW k \in 1 .. Len(s), k # 1,
         s[k].op = "Label"
  PROVE  s[k - 1].op = "end"
<1> DEFINE i == s[k].src
<1>1. Len(s) \in Nat /\ \A l \in 1 .. Len(s) : s[l] \in EntryType /\ Key(s[l]) \in Nat
  BY EntriesOf, KeyFacts
<1>2. i \in 1 .. N /\ N \in Nat /\ Key(s[k]) = 4 * i /\ StartsBlock(i)
  BY <1>1, KeyFacts, SizeAssumption DEF Insts, Tidy, Fits
<1>3. k - 1 \in 1 .. Len(s) /\ Key(s[k - 1]) < Key(s[k])
  BY <1>1 DEF Tidy, Sorted
<1> HIDE DEF i
<1>4. i # 1
  <2> SUFFICES ASSUME i = 1 PROVE FALSE
    OBVIOUS
  <2>1. s[k - 1].src \in 1 .. N
    BY <1>1, <1>3, KeyFacts DEF Insts
  <2> DEFINE d == s[k - 1]
  <2>0. d \in EntryType /\ Key(d) < 4
    BY <1>1, <1>2, <1>3
  <2>2. Key(d) = 4 * d.src + Rank(d.op) /\ Rank(d.op) \in 0 .. 3 /\ d.src \in 1 .. N
    BY <2>0, <2>1, KeyFacts
  <2> HIDE DEF d
  <2>. QED
    BY <1>2, <2>0, <2>2
<1>5. i - 1 \in Insts /\ fn.kind[i - 1] \in Terminators
  BY <1>2, <1>4 DEF Insts, StartsBlock
<1>6. PICK m \in 1 .. Len(s) : s[m].op \in Values /\ s[m].src = i - 1
  BY <1>5 DEF Complete, HasEntries, HasValue, Own, Terminators
<1>7. Key(s[m]) = 4 * i - 1
  <2>1. Key(s[m]) = 4 * s[m].src + Rank(s[m].op) /\ Rank(s[m].op) = 3
    BY <1>1, <1>6, KeyFacts
  <2>. QED
    BY <1>2, <1>6, <2>1
<1>8. m < k
  <2>1. Key(s[m]) < Key(s[k])
    BY <1>2, <1>7
  <2>. QED
    BY <2>1, SortedUnique DEF Tidy
<1>9. m = k - 1
  <2> SUFFICES ASSUME m # k - 1 PROVE FALSE
    OBVIOUS
  <2>1. m < k - 1
    BY <1>8
  <2>2. Key(s[m]) < Key(s[k - 1])
    BY <1>3, <2>1 DEF Tidy, Sorted
  <2>. QED
    BY <1>1, <1>2, <1>3, <1>7, <2>2
<1>10. s[m].op = "end"
  <2>1. Fits(s[m])
    BY DEF Tidy
  <2>. QED
    BY <1>5, <1>6, <2>1 DEF Fits, Values, Terminators
<1>. QED
  BY <1>9, <1>10

LEMMA ReadPrefix ==
  ASSUME NEW t, NEW u, NEW n \in Nat, \A k \in 1 .. n : u[k] = t[k], NEW line, LineRead(t, n, line)
  PROVE  LineRead(u, n, line)
<1>1. PICK m \in 0 .. n :
        /\ IF m = 0 THEN line = NoLine
           ELSE \/ t[m].op = "OpLine" /\ line = t[m].line
                \/ t[m].op = "end" /\ line = NoLine
        /\ \A l \in (m + 1) .. n : t[l].op \notin {"OpLine", "end"}
  BY DEF LineRead
<1>2. m # 0 => u[m] = t[m]
  OBVIOUS
<1>3. \A l \in (m + 1) .. n : u[l] = t[l]
  OBVIOUS
<1>. QED
  BY <1>1, <1>2, <1>3 DEF LineRead

LEMMA ReadStep ==
  ASSUME NEW t, NEW n \in Nat, NEW line
  PROVE  /\ t[n + 1].op = "OpLine" => (LineRead(t, n + 1, line) <=> line = t[n + 1].line)
         /\ t[n + 1].op = "end" => (LineRead(t, n + 1, line) <=> line = NoLine)
         /\ t[n + 1].op \notin {"OpLine", "end"} =>
              (LineRead(t, n + 1, line) <=> LineRead(t, n, line))
<1> DEFINE At(m) == IF m = 0 THEN line = NoLine
                    ELSE \/ t[m].op = "OpLine" /\ line = t[m].line
                         \/ t[m].op = "end" /\ line = NoLine
<1>0. \A k : LineRead(t, k, line) <=>
        \E m \in 0 .. k : At(m) /\ \A l \in (m + 1) .. k : t[l].op \notin {"OpLine", "end"}
  BY DEF LineRead
<1>1. n + 1 # 0 /\ n + 1 \in 0 .. n + 1 /\ \A l \in (n + 1 + 1) .. n + 1 : FALSE
  OBVIOUS
<1>2. \A m \in 0 .. n + 1 : m = n + 1 \/ n + 1 \in (m + 1) .. n + 1
  OBVIOUS
<1>3. At(n + 1) <=> \/ t[n + 1].op = "OpLine" /\ line = t[n + 1].line
                    \/ t[n + 1].op = "end" /\ line = NoLine
  BY <1>1
<1> HIDE DEF At
<1>4. ASSUME t[n + 1].op \in {"OpLine", "end"}
      PROVE  LineRead(t, n + 1, line) <=> At(n + 1)
  BY <1>0, <1>1, <1>2, <1>4
<1>5. ASSUME t[n + 1].op \notin {"OpLine", "end"}, LineRead(t, n + 1, line)
      PROVE  LineRead(t, n, line)
  <2>1. PICK m \in 0 .. n + 1 : At(m) /\ \A l \in (m + 1) .. n + 1 : t[l].op \notin {"OpLine", "end"}
    BY <1>0, <1>5
  <2>2. m # n + 1
    BY <1>3, <1>5, <2>1
  <2>3. m \in 0 .. n /\ \A l \in (m + 1) .. n : l \in (m + 1) .. n + 1
    BY <2>2
  <2>. QED
    BY <1>0, <2>1, <2>3
<1>6. ASSUME t[n + 1].op \notin {"OpLine", "end"}, LineRead(t, n, line)
      PROVE  LineRead(t, n + 1, line)
  <2>1. PICK m \in 0 .. n : At(m) /\ \A l \in (m + 1) .. n : t[l].op \notin {"OpLine", "end"}
    BY <1>0, <1>6
  <2>2. m \in 0 .. n + 1 /\ \A l \in (m + 1) .. n + 1 : l \in (m + 1) .. n \/ l = n + 1
    OBVIOUS
  <2>. QED
    BY <1>0, <1>6, <2>1, <2>2
<1>. QED
  BY <1>3, <1>4, <1>5, <1>6

\* Writing one more item leaves what the items so far read.
LEMMA AppendStream ==
  ASSUME NEW t, NEW u, NEW n \in Nat, n = Len(t), Len(u) = n + 1, \A k \in 1 .. n : u[k] = t[k],
         GoodStream(t), u[n + 1].op \in Values => GoodRead(u, n + 1, u[n + 1].src),
         u[n + 1].op = "Label" => u[n + 1].scope = NoScope
  PROVE  GoodStream(u)
<1> SUFFICES ASSUME NEW k \in 1 .. Len(u)
             PROVE  /\ u[k].op \in Values => GoodRead(u, k, u[k].src)
                    /\ u[k].op = "Label" => u[k].scope = NoScope
  BY DEF GoodStream
<1>1. CASE k = n + 1
  BY <1>1
<1>2. CASE k # n + 1
  <2>1. /\ k \in 1 .. n /\ k \in Nat /\ k - 1 \in Nat /\ u[k] = t[k]
        /\ \A l \in 1 .. k : u[l] = t[l]
        /\ \A l \in 1 .. (k - 1) : u[l] = t[l]
    BY <1>2
  <2>2. /\ t[k].op \in Values => GoodRead(t, k, t[k].src)
        /\ t[k].op = "Label" => t[k].scope = NoScope
    BY <2>1 DEF GoodStream
  <2>3. ASSUME GoodRead(t, k, t[k].src) PROVE GoodRead(u, k, t[k].src)
    BY <2>1, <2>3, AfterPrefix, ReadPrefix DEF GoodRead
  <2>. QED
    BY <2>1, <2>2, <2>3
<1>. QED
  BY <1>1, <1>2

\* The line an entry is written under.
LEMMA EncodeLine ==
  ASSUME LayoutInv, InOrder(fn), EncodedSo, pc \in 1 .. Len(InstVec),
         NEW line, LineAfter(InstVec, pc, line)
  PROVE  LET e   == InstVec[pc]
             new == e.line # NoLine /\ e.line # CurrentLine
         IN  line = IF new THEN e.line ELSE CurrentLine
<1> DEFINE e == InstVec[pc]
           n == pc - 1
<1>1. /\ InstVec \in Seq(EntryType) /\ Tidy(InstVec) /\ Complete(InstVec) /\ Ordered(InstVec)
      /\ IF pc = 1 \/ InstVec[n].op = "end" THEN CurrentLine = NoLine
         ELSE \A l : LineAfter(InstVec, n, l) => l = CurrentLine
  BY InOrderKinds DEF EncodedSo, LayoutInv, TypeOK
<1>2. Len(InstVec) \in Nat /\ n \in Nat /\ n + 1 = pc
  BY <1>1
<1>3. Fits(e)
  BY <1>1 DEF Tidy
<1> HIDE DEF n
<1>4. /\ SetsLine(e) => (LineAfter(InstVec, pc, line) <=> line = e.line)
      /\ ~SetsLine(e) => (LineAfter(InstVec, pc, line) <=> LineAfter(InstVec, n, line))
  <2>1. /\ SetsLine(InstVec[n + 1]) => (LineAfter(InstVec, n + 1, line) <=> line = InstVec[n + 1].line)
        /\ ~SetsLine(InstVec[n + 1]) => (LineAfter(InstVec, n + 1, line) <=> LineAfter(InstVec, n, line))
    BY <1>2, LineStep
  <2>. QED
    BY <1>2, <2>1
<1>5. CASE e.op = "Label"
  <2>1. line = NoLine /\ e.line = NoLine
    BY <1>3, <1>4, <1>5 DEF Fits, SetsLine
  <2>2. pc = 1 \/ InstVec[n].op = "end"
    <3>1. pc # 1 => InstVec[pc - 1].op = "end"
      BY <1>1, <1>5, LabelAfterEnd
    <3>. QED
      BY <3>1 DEF n
  <2>. QED
    BY <1>1, <2>1, <2>2
<1>6. CASE e.op # "Label" /\ e.line # NoLine
  BY <1>4, <1>6 DEF SetsLine
<1>7. CASE e.op # "Label" /\ e.line = NoLine
  <2>1. LineAfter(InstVec, n, line)
    BY <1>4, <1>7 DEF SetsLine
  <2>2. pc # 1
    BY <1>2, <2>1 DEF LineAfter
  <2>3. InstVec[n].op # "end"
    <3>1. n \in 1 .. Len(InstVec) /\ n # Len(InstVec)
      BY <1>1, <1>2, <2>2
    <3>2. InOrderAt(InstVec, n)
      BY <1>1, <3>1 DEF Ordered
    <3>. QED
      BY <1>2, <1>7, <3>1, <3>2 DEF InOrderAt
  <2>. QED
    BY <1>1, <1>7, <2>1, <2>2, <2>3
<1>. QED
  BY <1>5, <1>6, <1>7

LEMMA SameStream ==
  ASSUME fn' = fn
  PROVE  GoodStream(stream)' <=> GoodStream(stream')
  BY DEF GoodStream, GoodRead, ScopeAfter, LineRead

LEMMA EncodeRounds ==
  ASSUME LayoutInv, InOrder(fn), EncodedSo, EncodeEntry
  PROVE  EncodedSo'
<1> DEFINE e == InstVec[pc]
           new == e.line # NoLine /\ e.line # CurrentLine
           more == IF new THEN <<OpLine(e.line)>> ELSE <<>>
           L == IF new THEN e.line ELSE CurrentLine
           t == stream \o more
           u == stream'
           n == Len(t)
           b == pc - 1
<1>1. /\ InstVec \in Seq(EntryType) /\ stream \in Seq(ItemType) /\ pc \in Nat \ {0}
      /\ pc \in 1 .. Len(InstVec)
      /\ Tidy(InstVec) /\ PrefixGood(InstVec, Len(InstVec)) /\ GoodStream(stream)
      /\ LineRead(stream, Len(stream), CurrentLine)
      /\ \A k \in 1 .. b : \E m \in 1 .. Len(stream) : stream[m] = InstVec[k]
      /\ \A scope : ScopeAfter(InstVec, b, scope) => ScopeAfter(stream, Len(stream), scope)
  BY DEF LayoutInv, TypeOK, EncodedSo, EncodeEntry
<1>2. /\ u = t \o <<e>> /\ pc' = pc + 1 /\ fn' = fn /\ InstVec' = InstVec
      /\ CurrentLine' = IF e.op = "end" THEN NoLine ELSE L
  BY DEF EncodeEntry
<1>3. /\ e \in EntryType /\ e \in ItemType /\ e.op # "OpLine" /\ Fits(e)
      /\ new => e.line \in Lines
  BY <1>1, ItemFacts DEF Tidy
<1>4. Len(stream) \in Nat /\ Len(InstVec) \in Nat /\ b \in Nat /\ b + 1 = pc
  BY <1>1
<1>5. \A line : LineAfter(InstVec, pc, line) => line = L
  BY <1>1, EncodeLine
<1> HIDE DEF b, e
\* The OpLine, if one is written.
<1>6. /\ t \in Seq(ItemType) /\ n \in Nat /\ GoodStream(t)
      /\ LineRead(t, n, L)
      /\ \A k \in 1 .. b : \E m \in 1 .. n : t[m] = InstVec[k]
      /\ \A scope : ScopeAfter(InstVec, b, scope) => ScopeAfter(t, n, scope)
  <2>1. CASE ~new
    <3>1. t = stream /\ L = CurrentLine
      BY <1>1, <2>1
    <3> HIDE DEF t, L
    <3>. QED
      BY <1>1, <1>4, <3>1
  <2>2. CASE new
    <3> DEFINE x == OpLine(e.line)
               a == Len(stream)
    <3>1. x \in ItemType /\ x.op = "OpLine" /\ x.line = e.line
      BY <1>3, <2>2, ItemFacts DEF OpLine
    <3> HIDE DEF x
    <3>2. t = Append(stream, x) /\ L = e.line
      BY <1>1, <2>2, <3>1 DEF x
    <3>3. /\ t \in Seq(ItemType) /\ n = a + 1 /\ \A k \in 1 .. a : t[k] = stream[k]
          /\ t[a + 1] = x
      BY <1>1, <3>1, <3>2, AppendProperties
    <3> HIDE DEF t, L, new
    <3>4. GoodStream(t)
      <4>1. t[a + 1].op \notin Values /\ t[a + 1].op # "Label"
        BY <3>1, <3>3 DEF Values
      <4>. QED
        BY <1>1, <1>4, <3>3, <4>1, AppendStream
    <3>5. LineRead(t, n, L)
      <4>1. LineRead(t, a + 1, L)
        <5>1. a \in Nat /\ t[a + 1].op = "OpLine" /\ t[a + 1].line = L
          BY <1>4, <3>1, <3>2, <3>3
        <5> HIDE DEF a
        <5>. QED
          BY <5>1, ReadStep
      <4>. QED
        BY <3>3, <4>1
    <3>6. \A k \in 1 .. b : \E m \in 1 .. n : t[m] = InstVec[k]
      <4>1. \A m \in 1 .. Len(stream) : m \in 1 .. n
        BY <1>4, <3>3
      <4>. QED
        BY <1>1, <3>3, <4>1
    <3>7. ASSUME NEW scope, ScopeAfter(InstVec, b, scope) PROVE ScopeAfter(t, n, scope)
      <4>1. ScopeAfter(t, a, scope)
        BY <1>1, <1>4, <3>3, <3>7, AfterPrefix
      <4>2. ScopeAfter(t, a + 1, scope)
        BY <1>4, <3>1, <3>3, <4>1, ScopeStep DEF Scoping
      <4>. QED
        BY <3>3, <4>2
    <3>. QED
      BY <1>4, <3>3, <3>4, <3>5, <3>6, <3>7
  <2>. QED
    BY <2>1, <2>2
<1>7. /\ u \in Seq(ItemType) /\ Len(u) = n + 1 /\ u[n + 1] = e
      /\ \A k \in 1 .. n : u[k] = t[k]
  <2>1. u = Append(t, e)
    BY <1>2, <1>3, <1>6
  <2> HIDE DEF t
  <2>. QED
    BY <1>3, <1>6, <2>1, AppendProperties
<1> HIDE DEF t, L, new, u, n
\* The entry.
<1>8. ASSUME NEW scope, ScopeAfter(InstVec, pc, scope) PROVE ScopeAfter(u, n + 1, scope)
  <2>1. ScopeAfter(InstVec, b + 1, scope) /\ InstVec[b + 1] = e
    BY <1>4, <1>8 DEF e
  <2>2. CASE e.op \in Scoping
    <3>1. scope = e.scope
      BY <1>4, <2>1, <2>2, ScopeStep
    <3>2. n \in Nat /\ u[n + 1].op \in Scoping /\ scope = u[n + 1].scope
      BY <1>6, <1>7, <2>2, <3>1
    <3>. QED
      BY <3>2, ScopeStep
  <2>3. CASE e.op \notin Scoping
    <3>1. ScopeAfter(InstVec, b, scope)
      BY <1>4, <2>1, <2>3, ScopeStep
    <3>2. ScopeAfter(u, n, scope)
      BY <1>6, <1>7, <3>1, AfterPrefix
    <3>. QED
      BY <1>6, <1>7, <2>3, <3>2, ScopeStep
  <2>. QED
    BY <2>2, <2>3
<1>9. LineRead(u, n, L)
  BY <1>6, <1>7, ReadPrefix
<1>10. ASSUME e.op \in Values PROVE GoodRead(u, n + 1, e.src)
  <2>1. GoodAt(InstVec, pc, e.src)
    BY <1>1, <1>10 DEF PrefixGood, e
  <2> DEFINE loc == fn.loc[e.src]
             q == n + 1
  <2>2. q - 1 = n
    BY <1>6
  <2> HIDE DEF q
  <2>3. ScopeAfter(InstVec, pc, loc.scope) /\ (loc # NoLoc => LineAfter(InstVec, pc, loc.line))
    BY <2>1 DEF GoodAt
  <2>4. ScopeAfter(u, q, loc.scope)
    BY <1>8, <2>3 DEF q
  <2>5. loc # NoLoc => LineRead(u, q - 1, loc.line)
    BY <1>5, <1>9, <2>2, <2>3
  <2>6. GoodRead(u, q, e.src)
    BY <2>4, <2>5 DEF GoodRead
  <2>. QED
    BY <2>6 DEF q
<1>11. GoodStream(u)
  <2>1. e.op = "Label" => e.scope = NoScope
    BY <1>3 DEF Fits
  <2>2. n = Len(t)
    BY DEF n
  <2>. QED
    BY <1>6, <1>7, <1>10, <2>1, <2>2, AppendStream
<1>12. LineRead(u, Len(u), CurrentLine')
  <2>1. LineRead(u, n + 1, CurrentLine')
    <3>1. CASE e.op = "end"
      BY <1>2, <1>6, <1>7, <3>1, ReadStep
    <3>2. CASE e.op # "end"
      BY <1>2, <1>3, <1>6, <1>7, <1>9, <3>2, ReadStep
    <3>. QED
      BY <3>1, <3>2
  <2>. QED
    BY <1>7, <2>1
<1>13. ASSUME NEW k \in 1 .. pc' - 1 PROVE \E m \in 1 .. Len(u) : u[m] = InstVec[k]
  <2>1. CASE k = pc
    <3>1. n + 1 \in 1 .. Len(u) /\ u[n + 1] = InstVec[k]
      BY <1>6, <1>7, <2>1 DEF e
    <3>. QED
      BY <3>1
  <2>2. CASE k # pc
    <3>1. k \in 1 .. b
      BY <1>2, <1>4, <2>2
    <3>2. PICK m \in 1 .. n : t[m] = InstVec[k]
      BY <1>6, <3>1
    <3>3. m \in 1 .. Len(u) /\ u[m] = InstVec[k]
      BY <1>6, <1>7, <3>2
    <3>. QED
      BY <3>3
  <2>. QED
    BY <2>1, <2>2
<1>14. IF pc' = 1 \/ InstVec[pc' - 1].op = "end"
         THEN CurrentLine' = NoLine
         ELSE \A line : LineAfter(InstVec, pc' - 1, line) => line = CurrentLine'
  <2>1. pc' # 1 /\ pc' - 1 = pc
    BY <1>1, <1>2
  <2>2. e.op = "end" => CurrentLine' = NoLine
    BY <1>2
  <2>3. e.op # "end" => CurrentLine' = L
    BY <1>2
  <2>. QED
    BY <1>5, <2>1, <2>2, <2>3 DEF e
<1>15. pc' \in 1 .. Len(InstVec) + 1 /\ pc' - 1 = pc
  BY <1>1, <1>2, <1>4
<1>16. \A scope : ScopeAfter(InstVec, pc' - 1, scope) => ScopeAfter(u, Len(u), scope)
  BY <1>7, <1>8, <1>15
<1>17. Tidy(InstVec)' /\ Complete(InstVec)' /\ GoodStream(stream)'
  BY <1>2, <1>11, SameEntries, SameStream DEF EncodedSo, u
<1>18. PrefixGood(InstVec, Len(InstVec))'
  <2>1. PrefixGood(InstVec', Len(InstVec')) /\ fn' = fn
    BY <1>1, <1>2
  <2>. QED
    BY <2>1 DEF PrefixGood, GoodAt, ScopeAfter, LineAfter, SetsLine
<1>19. /\ pc' \in 1 .. Len(InstVec') + 1
       /\ \A k \in 1 .. pc' - 1 : \E m \in 1 .. Len(stream') : stream'[m] = InstVec'[k]
       /\ LineRead(stream', Len(stream'), CurrentLine')
  BY <1>2, <1>12, <1>13, <1>15 DEF u
<1>20. \A scope : ScopeAfter(InstVec', pc' - 1, scope) => ScopeAfter(stream', Len(stream'), scope)
  BY <1>2, <1>16 DEF u
<1>21. (\A scope : ScopeAfter(InstVec, pc - 1, scope) => ScopeAfter(stream, Len(stream), scope))'
  BY <1>20 DEF ScopeAfter
<1>22. LineRead(stream, Len(stream), CurrentLine)'
  BY <1>19 DEF LineRead
<1>23. (IF pc = 1 \/ InstVec[pc - 1].op = "end" THEN CurrentLine = NoLine
        ELSE \A line : LineAfter(InstVec, pc - 1, line) => line = CurrentLine)'
  BY <1>2, <1>14 DEF LineAfter, SetsLine
<1>. QED
  BY <1>17, <1>18, <1>19, <1>21, <1>22, <1>23 DEF EncodedSo

\* decodeBB and getEntry: the item at pc is read.
DecodeItem == DecodeLabel \/ DecodeLine \/ DecodeScope \/ DecodeEntry

LEMMA DecodeFollows ==
  ASSUME LayoutInv, DecodedSo, Follows, DecodeItem
  PROVE  Follows' /\ pc' \in 1 .. Len(stream) + 1
<1> DEFINE x == stream[pc]
           b == pc - 1
<1>1. /\ stream \in Seq(ItemType) /\ pc \in Nat \ {0} /\ pc \in 1 .. Len(stream) /\ GoodStream(stream)
      /\ pc' = pc + 1 /\ stream' = stream /\ x \in ItemType
  BY DEF LayoutInv, TypeOK, DecodedSo, DecodeItem, DecodeLabel, DecodeLine, DecodeScope, DecodeEntry,
         AtItem
<1>2. Len(stream) \in Nat /\ b \in Nat /\ b + 1 = pc /\ pc' - 1 = pc
  BY <1>1
<1>3. /\ \A scope : ScopeAfter(stream, b, scope) => scope = DbgScope
      /\ \A line : LineRead(stream, b, line) => line = CurrentLine
  BY DEF Follows
<1>4. /\ x.op \in Scoping => DbgScope' = x.scope
      /\ x.op \notin Scoping => DbgScope' = DbgScope
      /\ x.op = "OpLine" => CurrentLine' = x.line
      /\ x.op = "end" => CurrentLine' = NoLine
      /\ x.op \notin {"OpLine", "end"} => CurrentLine' = CurrentLine
  <2>1. x.op = "Label" => x.scope = NoScope
    BY <1>1 DEF GoodStream
  <2>. QED
    BY <2>1 DEF DecodeItem, DecodeLabel, DecodeLine, DecodeScope, DecodeEntry, AtItem, Scoping
<1> HIDE DEF b
<1>5. ASSUME NEW scope, ScopeAfter(stream, pc, scope) PROVE scope = DbgScope'
  <2>1. ScopeAfter(stream, b + 1, scope) /\ stream[b + 1] = x
    BY <1>2, <1>5
  <2> HIDE DEF x
  <2>2. CASE x.op \in Scoping
    BY <1>2, <1>4, <2>1, <2>2, ScopeStep
  <2>3. CASE x.op \notin Scoping
    BY <1>2, <1>3, <1>4, <2>1, <2>3, ScopeStep
  <2>. QED
    BY <2>2, <2>3
<1>6. ASSUME NEW line, LineRead(stream, pc, line) PROVE line = CurrentLine'
  <2>1. LineRead(stream, b + 1, line) /\ stream[b + 1] = x
    BY <1>2, <1>6
  <2> HIDE DEF x
  <2>2. CASE x.op = "OpLine"
    BY <1>2, <1>4, <2>1, <2>2, ReadStep
  <2>3. CASE x.op = "end"
    BY <1>2, <1>4, <2>1, <2>3, ReadStep
  <2>4. CASE x.op \notin {"OpLine", "end"}
    BY <1>2, <1>3, <1>4, <2>1, <2>4, ReadStep
  <2>. QED
    BY <2>2, <2>3, <2>4
<1>7. (\A scope : ScopeAfter(stream, pc - 1, scope) => scope = DbgScope)'
  <2>1. ASSUME NEW scope PROVE ScopeAfter(stream, pc - 1, scope)' <=> ScopeAfter(stream, pc, scope)
    BY <1>1, <1>2 DEF ScopeAfter
  <2>. QED
    BY <1>5, <2>1, Zenon
<1>8. (\A line : LineRead(stream, pc - 1, line) => line = CurrentLine)'
  <2>1. ASSUME NEW line PROVE LineRead(stream, pc - 1, line)' <=> LineRead(stream, pc, line)
    BY <1>1, <1>2 DEF LineRead
  <2>. QED
    BY <1>6, <2>1, Zenon
<1>9. pc' \in 1 .. Len(stream) + 1
  BY <1>1, <1>2
<1>. QED
  BY <1>7, <1>8, <1>9 DEF Follows

LEMMA DecodeRounds ==
  ASSUME LayoutInv, DecodedSo, Follows, DecodeItem
  PROVE  DecodedSo'
<1> DEFINE x == stream[pc]
           b == pc - 1
<1>1. /\ stream \in Seq(ItemType) /\ pc \in Nat \ {0} /\ pc \in 1 .. Len(stream) /\ GoodStream(stream)
      /\ pc' = pc + 1 /\ stream' = stream /\ fn' = fn /\ x \in ItemType /\ fn \in FunctionType
      /\ read \in [Insts -> [scope : Scopes \cup {NoScope}, line : Lines \cup {NoLine}]]
  BY DEF LayoutInv, TypeOK, DecodedSo, DecodeItem, DecodeLabel, DecodeLine, DecodeScope, DecodeEntry,
         AtItem
<1>2. Len(stream) \in Nat /\ b \in Nat /\ b + 1 = pc
  BY <1>1
<1>3. ASSUME x.op \in Values
      PROVE  /\ x.src \in Insts
             /\ read' = [read EXCEPT ![x.src] = fn.loc[x.src]]
  <2> DEFINE loc == fn.loc[x.src]
  <2>1. x.src \in Insts
    BY <1>1, <1>3, ItemFacts DEF Values
  <2>2. loc \in Locs
    BY <1>1, <2>1 DEF FunctionType
  <2>3. read' = [read EXCEPT ![x.src] = LocationOf(DbgScope, CurrentLine)]
    BY <1>3 DEF DecodeItem, DecodeLabel, DecodeLine, DecodeScope, DecodeEntry, AtItem, Values
  <2>4. ScopeAfter(stream, pc, loc.scope) /\ (loc # NoLoc => LineRead(stream, pc - 1, loc.line))
    BY <1>1, <1>3 DEF GoodStream, GoodRead
  <2>5. ScopeAfter(stream, b, loc.scope)
    <3>1. ScopeAfter(stream, b + 1, loc.scope) /\ stream[b + 1].op \notin Scoping
      BY <1>2, <1>3, <2>4 DEF Values, Scoping
    <3> HIDE DEF b
    <3>. QED
      BY <1>2, <3>1, ScopeStep
  <2>6. loc.scope = DbgScope /\ (loc # NoLoc => loc.line = CurrentLine)
    BY <2>4, <2>5 DEF Follows
  <2> HIDE DEF loc
  <2>7. CASE loc = NoLoc
    <3>1. loc.scope = NoScope
      BY <2>7 DEF NoLoc
    <3>. QED
      BY <2>1, <2>3, <2>6, <2>7, <3>1 DEF LocationOf, loc
  <2>8. CASE loc # NoLoc
    <3>1. loc.scope \in Scopes /\ loc = [scope |-> loc.scope, line |-> loc.line]
      BY <2>2, <2>8 DEF Locs
    <3>2. loc.scope # NoScope
      BY <3>1, MarkersAssumption
    <3>3. LocationOf(DbgScope, CurrentLine) = loc
      BY <2>6, <2>8, <3>1, <3>2 DEF LocationOf
    <3>. QED
      BY <2>1, <2>3, <3>3 DEF loc
  <2>. QED
    BY <2>7, <2>8
<1>4. x.op \notin Values => read' = read
  BY DEF DecodeItem, DecodeLabel, DecodeLine, DecodeScope, DecodeEntry, AtItem, Values
<1>5. ASSUME NEW n \in 1 .. pc, stream[n].op \in Values
      PROVE  read'[stream[n].src] = fn.loc[stream[n].src]
  <2>0. stream[n] \in ItemType /\ stream[n].src \in Insts
    <3>1. stream[n] \in ItemType
      BY <1>1
    <3>. QED
      BY <1>5, <3>1, ItemFacts DEF Values
  <2>1. CASE n = pc
    BY <1>1, <1>3, <1>5, <2>1
  <2>2. CASE n # pc
    <3>1. n \in 1 .. pc - 1
      BY <1>1, <2>2
    <3>2. read[stream[n].src] = fn.loc[stream[n].src]
      BY <1>5, <3>1 DEF DecodedSo
    <3> HIDE DEF x
    <3>. QED
      BY <1>1, <1>3, <1>4, <2>0, <3>2
  <2>. QED
    BY <2>1, <2>2
<1>6. GoodStream(stream)'
  BY <1>1, SameStream
<1>7. (\A i \in Insts : Own(i) => HasValue(stream, i))'
  BY <1>1 DEF DecodedSo, Own, HasValue
<1>8. (\A n \in 1 .. pc - 1 : stream[n].op \in Values =>
         read[stream[n].src] = fn.loc[stream[n].src])'
  <2>1. pc' - 1 = pc
    BY <1>1
  <2>. QED
    BY <1>1, <1>5, <2>1
<1>9. (pc \in 1 .. Len(stream) + 1)'
  BY <1>1, DecodeFollows
<1>. QED
  BY <1>6, <1>7, <1>8, <1>9 DEF DecodedSo

LEMMA StartDecodeRounds ==
  ASSUME LayoutInv, EncodedSo, StartDecode
  PROVE  DecodedSo' /\ Follows'
<1>1. /\ stream \in Seq(ItemType) /\ InstVec \in Seq(EntryType) /\ pc = Len(InstVec) + 1 /\ pc' = 1
      /\ stream' = stream /\ fn' = fn /\ DbgScope' = NoScope /\ CurrentLine' = NoLine
  BY DEF LayoutInv, TypeOK, StartDecode
<1>2. Len(stream) \in Nat /\ Len(InstVec) \in Nat
  BY <1>1
<1>3. ASSUME NEW i \in Insts, Own(i) PROVE HasValue(stream, i)
  <2>1. PICK k \in 1 .. Len(InstVec) : InstVec[k].op \in Values /\ InstVec[k].src = i
    BY <1>3 DEF EncodedSo, Complete, HasEntries, HasValue
  <2>2. k \in 1 .. pc - 1
    BY <1>1, <1>2
  <2>3. PICK n \in 1 .. Len(stream) : stream[n] = InstVec[k]
    BY <2>2 DEF EncodedSo
  <2>. QED
    BY <2>1, <2>3 DEF HasValue
<1>4. (\A i \in Insts : Own(i) => HasValue(stream, i))'
  BY <1>1, <1>3 DEF Own, HasValue
<1>5. GoodStream(stream)'
  BY <1>1, SameStream DEF EncodedSo
<1>6. pc' \in 1 .. Len(stream') + 1 /\ pc' - 1 = 0
  BY <1>1, <1>2
<1>7. (\A n \in 1 .. pc - 1 : stream[n].op \in Values =>
         read[stream[n].src] = fn.loc[stream[n].src])'
  BY <1>6
<1>8. (\A scope : ScopeAfter(stream, pc - 1, scope) => scope = DbgScope)'
  BY <1>6 DEF ScopeAfter
<1>9. (\A line : LineRead(stream, pc - 1, line) => line = CurrentLine)'
  BY <1>1, <1>6 DEF LineRead
<1>. QED
  BY <1>4, <1>5, <1>6, <1>7, <1>8, <1>9 DEF DecodedSo, Follows

LEMMA StartEncodeRounds ==
  ASSUME LayoutInv, LocatedSo, stream = <<>>, StartEncode
  PROVE  EncodedSo'
<1>1. /\ InstVec \in Seq(EntryType) /\ pc = N + 1 /\ pc' = 1 /\ stream' = <<>> /\ fn' = fn
      /\ InstVec' = InstVec /\ CurrentLine' = NoLine
  BY DEF LayoutInv, TypeOK, StartEncode
<1>2. Len(InstVec') \in Nat /\ Len(stream') = 0 /\ pc' \in 1 .. Len(InstVec') + 1 /\ pc' - 1 = 0
  BY <1>1
<1>3. Tidy(InstVec)' /\ Complete(InstVec)'
  BY <1>1, SameEntries DEF LocatedSo
<1>4. PrefixGood(InstVec, Len(InstVec))'
  <2>1. PrefixGood(InstVec', Len(InstVec')) /\ fn' = fn
    BY <1>1 DEF LocatedSo
  <2>. QED
    BY <2>1 DEF PrefixGood, GoodAt, ScopeAfter, LineAfter, SetsLine
<1>5. GoodStream(stream)'
  BY <1>2 DEF GoodStream
<1>6. (\A k \in 1 .. pc - 1 : \E n \in 1 .. Len(stream) : stream[n] = InstVec[k])'
  BY <1>2
<1>7. (\A scope : ScopeAfter(InstVec, pc - 1, scope) => ScopeAfter(stream, Len(stream), scope))'
  BY <1>2 DEF ScopeAfter
<1>8. LineRead(stream, Len(stream), CurrentLine)'
  <2>1. LineRead(stream', 0, NoLine)
    BY DEF LineRead
  <2>2. LineRead(stream', Len(stream'), CurrentLine')
    BY <1>1, <1>2, <2>1
  <2>. QED
    BY <2>2 DEF LineRead
<1>. QED
  BY <1>1, <1>2, <1>3, <1>4, <1>5, <1>6, <1>7, <1>8 DEF EncodedSo

LEMMA RoundStep ==
  ASSUME LayoutInv, RoundInv, [Next]_vars
  PROVE  RoundInv'
<1>1. fn' = fn
  BY DEF Next, Translate, StartLocate, Skip, LocateNoLoc, Locate, StartEncode, EncodeEntry,
         StartDecode, DecodeLabel, DecodeLine, DecodeScope, DecodeEntry, EndDecode, Finished, vars
<1>2. InOrder(fn)' <=> InOrder(fn)
  BY <1>1 DEF InOrder
<1> SUFFICES ASSUME InOrder(fn)
             PROVE  RoundInv'
  BY <1>2 DEF RoundInv
<1>3. CASE Translate
  <2>1. TranslatedSo /\ stream = <<>> /\ phase' = "translate" /\ stream' = stream
    BY <1>3 DEF RoundInv, Translate
  <2>2. TranslatedSo'
    BY <1>3, <2>1, TranslateRounds
  <2>. QED
    BY <2>1, <2>2 DEF RoundInv
<1>4. CASE StartLocate
  <2>1. TranslatedSo /\ stream = <<>> /\ phase' = "locate" /\ stream' = stream
    BY <1>4 DEF RoundInv, StartLocate
  <2>2. LocatedSo'
    BY <1>4, <2>1, StartLocateRounds
  <2>. QED
    BY <2>1, <2>2 DEF RoundInv
<1>5. CASE Skip \/ LocateNoLoc \/ Locate
  <2>1. LocatedSo /\ stream = <<>> /\ phase' = "locate" /\ stream' = stream
    BY <1>5 DEF RoundInv, Skip, LocateNoLoc, Locate
  <2>2. LocatedSo'
    BY <1>5, <2>1, LocateRounds
  <2>. QED
    BY <2>1, <2>2 DEF RoundInv
<1>6. CASE StartEncode
  <2>1. LocatedSo /\ stream = <<>> /\ phase' = "encode"
    BY <1>6 DEF RoundInv, StartEncode
  <2>2. EncodedSo'
    BY <1>6, <2>1, StartEncodeRounds
  <2>. QED
    BY <2>1, <2>2 DEF RoundInv
<1>7. CASE EncodeEntry
  <2>1. EncodedSo /\ phase' = "encode"
    BY <1>7 DEF RoundInv, EncodeEntry
  <2>2. EncodedSo'
    BY <1>7, <2>1, EncodeRounds
  <2>. QED
    BY <2>1, <2>2 DEF RoundInv
<1>8. CASE StartDecode
  <2>1. EncodedSo /\ phase' = "decode"
    BY <1>8 DEF RoundInv, StartDecode
  <2>2. DecodedSo' /\ Follows'
    BY <1>8, <2>1, StartDecodeRounds
  <2>. QED
    BY <2>1, <2>2 DEF RoundInv
<1>9. CASE DecodeItem
  <2>1. DecodedSo /\ Follows /\ phase' = "decode"
    BY <1>9 DEF RoundInv, DecodeItem, DecodeLabel, DecodeLine, DecodeScope, DecodeEntry, AtItem
  <2>2. DecodedSo' /\ Follows'
    BY <1>9, <2>1, DecodeRounds, DecodeFollows
  <2>. QED
    BY <2>1, <2>2 DEF RoundInv
<1>10. CASE EndDecode
  <2>1. DecodedSo /\ phase' = "done" /\ pc' = Len(stream') + 1
    BY <1>10 DEF RoundInv, EndDecode
  <2>2. DecodedSo'
    <3>1. pc' = pc /\ stream' = stream /\ read' = read
      BY <1>10 DEF EndDecode
    <3>2. GoodStream(stream)'
      BY <1>1, <2>1, <3>1, SameStream DEF DecodedSo
    <3>. QED
      BY <1>1, <2>1, <3>1, <3>2 DEF DecodedSo, Own, HasValue
  <2>. QED
    BY <2>1, <2>2 DEF RoundInv
<1>11. CASE UNCHANGED vars
  <2>1. /\ phase' = phase /\ pc' = pc /\ stream' = stream /\ read' = read /\ InstVec' = InstVec
        /\ DbgScope' = DbgScope /\ Line' = Line /\ CurrentLine' = CurrentLine
    BY <1>11 DEF vars
  <2>2. TranslatedSo' <=> TranslatedSo
    BY <1>1, <2>1 DEF TranslatedSo, Tidy, Sorted, Fits, StartsBlock, Key, Rank, Fresh, HasEntries,
                      HasValue, HasMerge, HasLabel, Own
  <2>3. LocatedSo' <=> LocatedSo
    BY <1>1, <2>1 DEF LocatedSo, Stage, Tidy, Sorted, Fits, StartsBlock, Key, Rank, Fresh, Complete,
                      HasEntries, HasValue, HasMerge, HasLabel, Own, CutAt, PrefixGood, GoodAt,
                      ScopeAfter, LineAfter, SetsLine, EntryType
  <2>4. EncodedSo' <=> EncodedSo
    BY <1>1, <2>1 DEF EncodedSo, Tidy, Sorted, Fits, StartsBlock, Key, Rank, Complete,
                      HasEntries, HasValue, HasMerge, HasLabel, Own, PrefixGood, GoodAt,
                      ScopeAfter, LineAfter, SetsLine, GoodStream, GoodRead, LineRead
  <2>5. (DecodedSo' <=> DecodedSo) /\ (Follows' <=> Follows)
    BY <1>1, <2>1 DEF DecodedSo, Follows, GoodStream, GoodRead, LineRead, ScopeAfter, HasValue, Own
  <2>. QED
    BY <2>1, <2>2, <2>3, <2>4, <2>5 DEF RoundInv
<1>. QED
  BY <1>3, <1>4, <1>5, <1>6, <1>7, <1>8, <1>9, <1>10, <1>11 DEF Next, Finished, DecodeItem

(***************************************************************************)
(* Every instruction of a function whose instructions keep their order is  *)
(* read back with the scope and the line it had: for functions of any size *)
(* with any blocks, scopes and lines.                                      *)
(***************************************************************************)
THEOREM LocationsRoundTrip == Spec => []RoundTrip
<1>1. Init => RoundInv
  <2> SUFFICES ASSUME Init, InOrder(fn) PROVE TranslatedSo /\ stream = <<>> /\ phase = "translate"
    BY DEF RoundInv
  <2>1. /\ InstVec = <<>> /\ Len(InstVec) = 0 /\ pc = 1 /\ phase = "translate" /\ stream = <<>>
        /\ DbgScope = NoScope /\ Line = NoLine
    BY DEF Init
  <2>. QED
    BY <2>1 DEF TranslatedSo, Tidy, Sorted
<1>2. LayoutInv /\ RoundInv => RoundTrip
  <2> SUFFICES ASSUME LayoutInv, RoundInv, phase = "done", InOrder(fn), NEW i \in Insts,
                      fn.kind[i] \notin {"none", "alias"}
               PROVE  read[i] = fn.loc[i]
    BY DEF RoundTrip, SamePlaces
  <2>1. DecodedSo /\ pc = Len(stream) + 1 /\ Len(stream) \in Nat
    BY DEF RoundInv, LayoutInv, TypeOK
  <2>2. PICK n \in 1 .. Len(stream) : stream[n].op \in Values /\ stream[n].src = i
    BY <2>1 DEF DecodedSo, Own, HasValue
  <2>3. n \in 1 .. pc - 1
    BY <2>1
  <2>. QED
    BY <2>1, <2>2, <2>3 DEF DecodedSo
<1>3. LayoutInv /\ RoundInv /\ [Next]_vars => RoundInv'
  BY RoundStep
<1>. QED
  BY <1>1, <1>2, <1>3, LayoutKept, PTL DEF Spec
=============================================================================
