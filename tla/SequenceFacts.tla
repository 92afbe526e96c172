--------------------------- MODULE SequenceFacts ---------------------------
(***************************************************************************)
(* Facts about numbers and sequences that the proofs of several modules    *)
(* need: induction over the naturals, stated about a set of numbers, and   *)
(* with it what FlattenSeq, a recursive function, computes.                *)
(***************************************************************************)
EXTENDS Integers, SequencesExt, FiniteSetTheorems, SequenceTheorems,
        WellFoundedInduction, TLAPS

-----------------------------------------------------------------------------
(* Induction over the natural numbers, as a fact about sets.               *)

LEMMA LeastNatural ==
  ASSUME NEW T \in SUBSET Nat, T # {}
  PROVE  \E x \in T : \A y \in T : x <= y
<1> DEFINE R == {ss \in Nat \X Nat : ss[1] < ss[2]}
<1>1. IsWellFoundedOn(R, Nat)
  BY NatLessThanWellFounded, Zenon DEF OpToRel
<1> HIDE DEF R
<1>2. PICK x \in T : \A y \in T : ~(<<y, x>> \in R)
  BY <1>1, WFMin, Zenon
<1>3. \A y \in T : <<y, x>> \in R <=> y < x
  BY DEF R
<1>4. \A y \in T : ~(y < x)
  BY <1>2, <1>3, Zenon
<1>. QED
  BY <1>4

LEMMA InductionOnSets ==
  ASSUME NEW S, 0 \in S, \A n \in Nat : n \in S => n + 1 \in S
  PROVE  Nat \subseteq S
<1> SUFFICES ASSUME Nat \ S # {} PROVE FALSE
  OBVIOUS
<1>1. PICK x \in Nat \ S : \A y \in Nat \ S : x <= y
  BY LeastNatural
<1>2. x # 0
  BY <1>1
<1>3. x - 1 \in Nat /\ x - 1 < x
  BY <1>1, <1>2
<1>4. x - 1 \in S
  BY <1>1, <1>3
<1>5. (x - 1) + 1 = x
  BY <1>1
<1>. QED
  BY <1>1, <1>3, <1>4, <1>5

LEMMA GreatestBelow ==
  ASSUME NEW n \in Nat, NEW T \in SUBSET (1 .. n), T # {}
  PROVE  Max(T) \in T /\ \A y \in T : y <= Max(T)
<1> DEFINE U == {m \in Nat : \E x \in T : m = n - x}
<1>1. U # {}
  <2>1. PICK x \in T : TRUE
    OBVIOUS
  <2>2. n - x \in U
    BY <2>1
  <2>. QED
    BY <2>2
<1>2. PICK m \in U : \A k \in U : m <= k
  BY <1>1, LeastNatural
<1>3. PICK x \in T : m = n - x
  BY <1>2
<1>4. \A y \in T : x >= y
  <2>1. ASSUME NEW y \in T PROVE x >= y
    <3>1. n - y \in U
      BY <2>1
    <3>2. m <= n - y
      BY <1>2, <3>1
    <3>. QED
      BY <1>3, <3>2
  <2>. QED
    BY <2>1
<1>5. Max(T) \in T /\ \A y \in T : Max(T) >= y
  BY <1>3, <1>4 DEF Max
<1>6. \A y \in T : y \in Nat
  OBVIOUS
<1>. QED
  BY <1>5, <1>6

-----------------------------------------------------------------------------
(* FlattenSeq: what a recursive function computes.                         *)

Flattens(f, ss, n) == f = [i \in 1 .. n |-> IF i = 1 THEN ss[i] ELSE f[i - 1] \o ss[i]]

LEMMA FlattensExists ==
  ASSUME NEW ss
  PROVE  \A n \in Nat : \E f : Flattens(f, ss, n)
<1> DEFINE S == {n \in Nat : \E f : Flattens(f, ss, n)}
<1>1. 0 \in S
  <2>1. Flattens(<<>>, ss, 0)
    BY DEF Flattens
  <2>. QED
    BY <2>1
<1>2. ASSUME NEW n \in Nat, n \in S PROVE n + 1 \in S
  <2>1. PICK f : Flattens(f, ss, n)
    BY <1>2
  <2> DEFINE g == [i \in 1 .. n + 1 |-> IF i <= n THEN f[i]
                                        ELSE IF i = 1 THEN ss[i] ELSE f[i - 1] \o ss[i]]
  <2>2. ASSUME NEW i \in 1 .. n + 1
        PROVE  g[i] = IF i = 1 THEN ss[i] ELSE g[i - 1] \o ss[i]
    <3>1. CASE i = 1
      BY <2>1, <3>1 DEF Flattens
    <3>2. CASE i # 1
      <4>1. i - 1 \in 1 .. n
        BY <3>2
      <4>2. g[i - 1] = f[i - 1]
        BY <4>1
      <4> HIDE DEF g
      <4>3. g[i] = f[i - 1] \o ss[i]
        <5>1. CASE i <= n
          <6>1. i \in 1 .. n
            BY <5>1
          <6>2. f[i] = IF i = 1 THEN ss[i] ELSE f[i - 1] \o ss[i]
            BY <2>1, <6>1 DEF Flattens
          <6>3. g[i] = f[i]
            BY <5>1 DEF g
          <6>. QED
            BY <3>2, <6>2, <6>3, Zenon
        <5>2. CASE ~(i <= n)
          <6>1. g[i] = IF i <= n THEN f[i] ELSE IF i = 1 THEN ss[i] ELSE f[i - 1] \o ss[i]
            BY Zenon DEF g
          <6>. QED
            BY <3>2, <5>2, <6>1, Zenon
        <5>. QED
          BY <5>1, <5>2
      <4>. QED
        BY <3>2, <4>2, <4>3
    <3>. QED
      BY <3>1, <3>2
  <2>3. DOMAIN g = 1 .. n + 1 /\ g = [i \in 1 .. n + 1 |-> g[i]]
    OBVIOUS
  <2> HIDE DEF g
  <2>4. Flattens(g, ss, n + 1)
    BY <2>2, <2>3 DEF Flattens
  <2>. QED
    BY <2>4
<1> HIDE DEF S
<1>3. Nat \subseteq S
  BY <1>1, <1>2, InductionOnSets
<1>. QED
  BY <1>3 DEF S

\* All functions that flatten a prefix agree on it.
LEMMA FlattensAgree ==
  ASSUME NEW ss, NEW tt, NEW m \in Nat, NEW n \in Nat, m <= n, NEW f, NEW g,
         Flattens(f, ss, m), Flattens(g, tt, n), \A i \in 1 .. m : ss[i] = tt[i]
  PROVE  \A i \in 1 .. m : f[i] = g[i]
<1> DEFINE S == {k \in Nat : k \in 1 .. m => f[k] = g[k]}
<1>1. 0 \in S
  OBVIOUS
<1>2. ASSUME NEW k \in Nat, k \in S PROVE k + 1 \in S
  <2> SUFFICES ASSUME k + 1 \in 1 .. m PROVE f[k + 1] = g[k + 1]
    OBVIOUS
  <2> DEFINE q == k + 1
  <2>1. q \in 1 .. m /\ q \in 1 .. n /\ q - 1 = k /\ (q # 1 => k \in 1 .. m)
    OBVIOUS
  <2> HIDE DEF q
  <2>2. f[q] = IF q = 1 THEN ss[q] ELSE f[q - 1] \o ss[q]
    BY <2>1 DEF Flattens
  <2>3. g[q] = IF q = 1 THEN tt[q] ELSE g[q - 1] \o tt[q]
    BY <2>1 DEF Flattens
  <2>4. f[q] = g[q]
    BY <1>2, <2>1, <2>2, <2>3
  <2>. QED
    BY <2>4 DEF q
<1> HIDE DEF S
<1>3. Nat \subseteq S
  BY <1>1, <1>2, InductionOnSets
<1>. QED
  BY <1>3 DEF S

LEMMA FlattenIs ==
  ASSUME NEW ss, Len(ss) \in Nat \ {0}
  PROVE  \E f : Flattens(f, ss, Len(ss)) /\ FlattenSeq(ss) = f[Len(ss)]
<1> DEFINE f == CHOOSE h : Flattens(h, ss, Len(ss))
<1>1. \E h : Flattens(h, ss, Len(ss))
  BY FlattensExists
<1>2. Flattens(f, ss, Len(ss))
  BY <1>1
<1>3. FlattenSeq(ss) = f[Len(ss)]
  BY DEF FlattenSeq, Flattens
<1>. QED
  BY <1>2, <1>3

LEMMA FlattenEmpty ==
  FlattenSeq(<<>>) = <<>>
BY DEF FlattenSeq

LEMMA FlattenType ==
  ASSUME NEW T, NEW ss \in Seq(Seq(T))
  PROVE  FlattenSeq(ss) \in Seq(T)
<1> DEFINE n == Len(ss)
<1>1. n \in Nat /\ \A i \in 1 .. n : ss[i] \in Seq(T)
  OBVIOUS
<1>2. CASE n = 0
  <2>1. ss = <<>>
    BY <1>2
  <2>2. FlattenSeq(ss) = <<>>
    BY <2>1, FlattenEmpty
  <2>. QED
    BY <2>2
<1>3. CASE n # 0
  <2>1. PICK f : Flattens(f, ss, n) /\ FlattenSeq(ss) = f[n]
    BY <1>1, <1>3, FlattenIs
  <2> DEFINE S == {k \in Nat : k \in 1 .. n => f[k] \in Seq(T)}
  <2> HIDE DEF n
  <2>2. 0 \in S
    OBVIOUS
  <2>3. ASSUME NEW k \in Nat, k \in S PROVE k + 1 \in S
    <3> SUFFICES ASSUME k + 1 \in 1 .. n PROVE f[k + 1] \in Seq(T)
      OBVIOUS
    <3> DEFINE q == k + 1
    <3>1. q \in 1 .. n /\ q - 1 = k /\ (q # 1 => k \in 1 .. n)
      BY <1>1
    <3> HIDE DEF q
    <3>2. f[q] = IF q = 1 THEN ss[q] ELSE f[q - 1] \o ss[q]
      BY <2>1, <3>1 DEF Flattens
    <3>3. ss[q] \in Seq(T)
      BY <1>1, <3>1
    <3>4. f[q] \in Seq(T)
      <4>1. CASE q = 1
        BY <3>2, <3>3, <4>1
      <4>2. CASE q # 1
        <5>1. f[k] \in Seq(T)
          BY <2>3, <3>1, <4>2
        <5>2. f[q] = f[k] \o ss[q]
          BY <3>1, <3>2, <4>2
        <5>. QED
          BY <3>3, <5>1, <5>2, ConcatProperties
      <4>. QED
        BY <4>1, <4>2
    <3>. QED
      BY <3>4 DEF q
  <2> HIDE DEF S
  <2>4. Nat \subseteq S
    BY <2>2, <2>3, InductionOnSets
  <2>5. f[n] \in Seq(T)
    BY <1>1, <1>3, <2>4 DEF S
  <2>. QED
    BY <2>1, <2>5
<1>. QED
  BY <1>2, <1>3

LEMMA FlattenAppend ==
  ASSUME NEW T, NEW ss \in Seq(Seq(T)), NEW s \in Seq(T)
  PROVE  FlattenSeq(Append(ss, s)) = FlattenSeq(ss) \o s
<1> DEFINE n == Len(ss)
           tt == Append(ss, s)
           q == n + 1
<1>1. n \in Nat /\ q \in Nat \ {0} /\ q - 1 = n /\ n <= q
  OBVIOUS
<1>2. Len(tt) = q /\ tt[q] = s /\ \A i \in 1 .. n : ss[i] = tt[i]
  BY AppendProperties
<1> HIDE DEF q, n, tt
<1>3. PICK g : Flattens(g, tt, q) /\ FlattenSeq(tt) = g[q]
  <2>1. Len(tt) \in Nat \ {0}
    BY <1>1, <1>2
  <2>2. \E f : Flattens(f, tt, Len(tt)) /\ FlattenSeq(tt) = f[Len(tt)]
    BY <2>1, FlattenIs
  <2>. QED
    BY <1>2, <2>2
<1>4. q \in 1 .. q
  BY <1>1
<1>5. g[q] = IF q = 1 THEN s ELSE g[n] \o s
  <2>1. g[q] = IF q = 1 THEN tt[q] ELSE g[q - 1] \o tt[q]
    BY <1>3, <1>4 DEF Flattens
  <2>. QED
    BY <1>1, <1>2, <2>1
<1>6. CASE n = 0
  <2>1. ss = <<>> /\ q = 1
    BY <1>6 DEF n, q
  <2>2. FlattenSeq(ss) = <<>>
    BY <2>1, FlattenEmpty
  <2>3. <<>> \o s = s
    OBVIOUS
  <2>. QED
    BY <1>3, <1>5, <2>1, <2>2, <2>3 DEF tt
<1>7. CASE n # 0
  <2>1. PICK f : Flattens(f, ss, n) /\ FlattenSeq(ss) = f[n]
    <3>1. n \in Nat \ {0}
      BY <1>1, <1>7
    <3>. QED
      BY <3>1, FlattenIs DEF n
  <2>2. \A i \in 1 .. n : f[i] = g[i]
    BY <1>1, <1>2, <1>3, <2>1, FlattensAgree
  <2>3. f[n] = g[n] /\ q # 1
    BY <1>1, <1>7, <2>2
  <2>. QED
    BY <1>3, <1>5, <2>1, <2>3 DEF tt
<1>. QED
  BY <1>6, <1>7

\* An element of one of the sequences is in the flattened one.
LEMMA FlattenHas ==
  ASSUME NEW T, NEW ss \in Seq(Seq(T)), NEW j \in 1 .. Len(ss), NEW p \in 1 .. Len(ss[j])
  PROVE  \E q \in 1 .. Len(FlattenSeq(ss)) : FlattenSeq(ss)[q] = ss[j][p]
<1> DEFINE n == Len(ss)
           x == ss[j][p]
           Has(s) == \E q \in 1 .. Len(s) : s[q] = x
<1>1. n \in Nat \ {0} /\ \A i \in 1 .. n : ss[i] \in Seq(T)
  OBVIOUS
<1>2. Has(ss[j]) /\ j \in 1 .. n
  OBVIOUS
<1>3. ASSUME NEW s \in Seq(T), NEW t \in Seq(T), Has(s) \/ Has(t) PROVE Has(s \o t)
  <2> DEFINE c == s \o t
  <2>1. /\ Len(c) = Len(s) + Len(t) /\ Len(s) \in Nat /\ Len(t) \in Nat
        /\ \A k \in 1 .. (Len(s) + Len(t)) : c[k] = IF k <= Len(s) THEN s[k] ELSE t[k - Len(s)]
    BY ConcatProperties
  <2> HIDE DEF c
  <2>2. CASE Has(s)
    <3>1. PICK q \in 1 .. Len(s) : s[q] = x
      BY <2>2
    <3>2. q \in 1 .. Len(c) /\ c[q] = s[q]
      BY <2>1
    <3>. QED
      BY <3>1, <3>2 DEF c
  <2>3. CASE Has(t)
    <3>1. PICK q \in 1 .. Len(t) : t[q] = x
      BY <2>3
    <3>2. Len(s) + q \in 1 .. (Len(s) + Len(t)) /\ ~(Len(s) + q <= Len(s)) /\ (Len(s) + q) - Len(s) = q
      BY <2>1
    <3>3. Len(s) + q \in 1 .. Len(c) /\ c[Len(s) + q] = x
      BY <2>1, <3>1, <3>2
    <3>. QED
      BY <3>3 DEF c
  <2>. QED
    BY <1>3, <2>2, <2>3
<1>4. PICK f : Flattens(f, ss, n) /\ FlattenSeq(ss) = f[n]
  BY <1>1, FlattenIs
<1> DEFINE S == {k \in Nat : k \in 1 .. n => f[k] \in Seq(T) /\ (j <= k => Has(f[k]))}
<1> HIDE DEF n, x, Has
<1>5. 0 \in S
  OBVIOUS
<1>6. ASSUME NEW k \in Nat, k \in S PROVE k + 1 \in S
  <2> SUFFICES ASSUME k + 1 \in 1 .. n PROVE f[k + 1] \in Seq(T) /\ (j <= k + 1 => Has(f[k + 1]))
    OBVIOUS
  <2> DEFINE q == k + 1
  <2>1. q \in 1 .. n /\ q - 1 = k /\ (q # 1 => k \in 1 .. n) /\ (j <= q => j <= k \/ j = q)
    BY <1>1, <1>2
  <2>2. (q = 1 /\ j <= q) => j = q
    BY <1>2
  <2> HIDE DEF q
  <2>3. f[q] = IF q = 1 THEN ss[q] ELSE f[q - 1] \o ss[q]
    BY <1>4, <2>1 DEF Flattens
  <2>4. ss[q] \in Seq(T) /\ (j = q => Has(ss[q]))
    BY <1>1, <1>2, <2>1
  <2>5. CASE q = 1
    BY <2>2, <2>3, <2>4, <2>5 DEF q
  <2>6. CASE q # 1
    <3>1. f[k] \in Seq(T) /\ (j <= k => Has(f[k]))
      BY <1>6, <2>1, <2>6
    <3>2. f[q] = f[k] \o ss[q]
      BY <2>1, <2>3, <2>6
    <3>3. f[q] \in Seq(T)
      BY <2>4, <3>1, <3>2, ConcatProperties
    <3>4. j <= q => Has(f[q])
      BY <1>3, <2>1, <2>4, <3>1, <3>2
    <3>. QED
      BY <3>3, <3>4 DEF q
  <2>. QED
    BY <2>5, <2>6
<1> HIDE DEF S
<1>7. Nat \subseteq S
  BY <1>5, <1>6, InductionOnSets
<1>8. Has(f[n])
  BY <1>1, <1>2, <1>7 DEF S
<1>. QED
  BY <1>4, <1>8 DEF Has, x

-----------------------------------------------------------------------------
(* Sequences made of functions and of sets.                                *)

LEMMA SequenceOf ==
  ASSUME NEW n \in Nat, NEW S, NEW s \in [1 .. n -> S]
  PROVE  s \in Seq(S) /\ Len(s) = n
OBVIOUS

\* SetToSeq lists every element, and nothing else.
LEMMA Listed ==
  ASSUME NEW S, IsFiniteSet(S)
  PROVE  /\ SetToSeq(S) \in Seq(S)
         /\ \A x \in S : \E i \in 1 .. Len(SetToSeq(S)) : SetToSeq(S)[i] = x
<1> DEFINE n == Cardinality(S)
           s == SetToSeq(S)
<1>1. n \in Nat /\ \E f : f \in Bijection(1 .. n, S)
  BY FS_CardinalityType DEF ExistsBijection
<1>2. PICK f : f \in Bijection(1 .. n, S)
  BY <1>1
<1>3. f \in [1 .. n -> S] /\ IsInjective(f)
  BY <1>2 DEF Bijection, Injection
<1>4. s \in [1 .. n -> S] /\ IsInjective(s)
  BY <1>3 DEF SetToSeq
<1>5. s \in Injection(1 .. n, S)
  BY <1>4 DEF Injection
<1>6. IsFiniteSet(1 .. n) /\ Cardinality(1 .. n) = n
  BY <1>1, FS_Interval
<1>7. s \in Surjection(1 .. n, S)
  BY <1>5, <1>6, FS_Injection
<1>8. s \in Seq(S) /\ Len(s) = n
  BY <1>1, <1>4, SequenceOf
<1>9. \A x \in S : \E i \in 1 .. n : s[i] = x
  BY <1>7 DEF Surjection
<1>. QED
  BY <1>8, <1>9
=============================================================================
