--------------------------- MODULE IndexerProofs ---------------------------
(***************************************************************************)
(* The indexer implements Catalog, and what the items of the merged index  *)
(* say is what the documents say: for any raw data, any number of zones    *)
(* and any moment at which the memory is found full.                       *)
(*                                                                         *)
(* What splitByZones, addTokenPosting and getFullPosting make of a text is *)
(* followed first, operator by operator: the recursive functions of the    *)
(* model are shown to exist and to do one element more at every step, and  *)
(* NatSets turns that into what they do for all.  Then the entries of a    *)
(* document are added, kept when the file grows, read and sorted for an    *)
(* item; the invariant says where the words are at every place in cook.    *)
(* The merge is that of MergeIndexesProofs, whose invariant it keeps; that *)
(* gives an item to every token of every raw index, and one only to those  *)
(* that no raw index ends with while one behind it has them.               *)
(***************************************************************************)
EXTENDS Indexer, FiniteSetTheorems, WellFoundedInduction, TLAPS

-----------------------------------------------------------------------------
(* Sequences: what is computed from the front to the back.                 *)

\* Induction over the numbers, for a set: where 0 is and every successor of a
\* member, all are.
LEMMA NatSets ==
  ASSUME NEW S, 0 \in S, \A n \in Nat : n \in S => n + 1 \in S
  PROVE  Nat \subseteq S
<1> DEFINE T == Nat \ S
<1>1. ASSUME T # {} PROVE FALSE
  <2>1. IsWellFoundedOn(OpToRel(<, Nat), Nat)
    BY NatLessThanWellFounded
  <2>2. PICK x \in T : \A y \in T : ~(<<y, x>> \in OpToRel(<, Nat))
    <3>1. T \in SUBSET Nat
      OBVIOUS
    <3> HIDE DEF T
    <3> QED
      BY <1>1, <2>1, <3>1, WFMin
  <2>3. x \in Nat /\ x # 0 /\ x \notin S
    OBVIOUS
  <2>4. x - 1 \in Nat /\ x - 1 < x /\ (x - 1) + 1 = x
    BY <2>3
  <2>5. x - 1 \in S
    BY <2>2, <2>4 DEF OpToRel
  <2> QED
    BY <2>3, <2>4, <2>5
<1> QED
  BY <1>1

\* The first n of the sequences of ss, one behind the other.
Flattens(ss, fl) == fl = [i \in 1 .. Len(ss) |-> IF i = 1 THEN ss[i] ELSE fl[i - 1] \o ss[i]]

\* FlattenSeq is what its recursion says.
LEMMA FlattenRecursion ==
  ASSUME NEW ss, Len(ss) \in Nat \ {0}
  PROVE  \E fl : Flattens(ss, fl) /\ FlattenSeq(ss) = fl[Len(ss)]
<1> DEFINE F(n, fl) == fl = [i \in 1 .. n |-> IF i = 1 THEN ss[i] ELSE fl[i - 1] \o ss[i]]
           S == {n \in Nat : \E fl : F(n, fl)}
<1>1. 0 \in S
  <2> DEFINE g == [i \in 1 .. 0 |-> 0]
  <2>1. F(0, g)
    OBVIOUS
  <2> QED
    BY <2>1
<1>2. ASSUME NEW n \in Nat, n \in S PROVE n + 1 \in S
  <2>1. PICK fl : F(n, fl)
    BY <1>2
  <2> DEFINE g == [i \in 1 .. n + 1 |-> IF i = 1 THEN ss[i] ELSE fl[i - 1] \o ss[i]]
  <2>2. \A i \in 1 .. n : g[i] = fl[i]
    <3>1. \A i \in 1 .. n : fl[i] = IF i = 1 THEN ss[i] ELSE fl[i - 1] \o ss[i]
      BY <2>1
    <3> QED
      BY <3>1
  <2>3. \A i \in 1 .. n + 1 : i # 1 => i - 1 \in 1 .. n
    OBVIOUS
  <2>4. g = [i \in 1 .. n + 1 |-> IF i = 1 THEN ss[i] ELSE g[i - 1] \o ss[i]]
    <3>1. \A i \in 1 .. n + 1 : i # 1 => g[i - 1] = fl[i - 1]
      BY <2>2, <2>3
    <3> QED
      BY <3>1
  <2>5. F(n + 1, g)
    BY <2>4
  <2> HIDE DEF g, F
  <2> QED
    BY <2>5
<1>3. \E fl : Flattens(ss, fl)
  <2>1. Nat \subseteq S
    <3> HIDE DEF S
    <3> QED
      BY <1>1, <1>2, NatSets
  <2> QED
    BY <2>1 DEF Flattens
<1>4. Flattens(ss, CHOOSE fl : Flattens(ss, fl))
  BY <1>3
<1>5. FlattenSeq(ss) = (CHOOSE fl : Flattens(ss, fl))[Len(ss)]
  BY DEF FlattenSeq, Flattens
<1> QED
  BY <1>4, <1>5

\* g adds up the sizes s.
Sums(s, g) == g = [k \in 0 .. Len(s) |-> IF k = 0 THEN 0 ELSE g[k - 1] + s[k]]

\* There is a function that adds up sizes as Total does.
LEMMA TotalRecursion ==
  ASSUME NEW s, Len(s) \in Nat
  PROVE  \E g : Sums(s, g) /\ \A n : Total(s, n) = g[n]
<1> DEFINE F(n, g) == g = [k \in 0 .. n |-> IF k = 0 THEN 0 ELSE g[k - 1] + s[k]]
           S == {n \in Nat : \E g : F(n, g)}
<1>1. 0 \in S
  <2> DEFINE g == [k \in 0 .. 0 |-> 0]
  <2>1. F(0, g)
    OBVIOUS
  <2> HIDE DEF g
  <2> QED
    BY <2>1
<1>2. ASSUME NEW n \in Nat, n \in S PROVE n + 1 \in S
  <2>1. PICK f : F(n, f)
    BY <1>2
  <2> DEFINE g == [k \in 0 .. n + 1 |-> IF k = 0 THEN 0 ELSE f[k - 1] + s[k]]
  <2>2. \A k \in 0 .. n : g[k] = f[k]
    <3>1. \A k \in 0 .. n : f[k] = IF k = 0 THEN 0 ELSE f[k - 1] + s[k]
      BY <2>1
    <3> QED
      BY <3>1
  <2>3. \A k \in 0 .. n + 1 : k # 0 => k - 1 \in 0 .. n
    OBVIOUS
  <2>4. g = [k \in 0 .. n + 1 |-> IF k = 0 THEN 0 ELSE g[k - 1] + s[k]]
    <3>1. \A k \in 0 .. n + 1 : k # 0 => g[k - 1] = f[k - 1]
      BY <2>2, <2>3
    <3> QED
      BY <3>1
  <2>5. F(n + 1, g)
    BY <2>4
  <2> HIDE DEF g
  <2> QED
    BY <2>5
<1>3. \E g : Sums(s, g)
  <2>1. Nat \subseteq S
    <3> HIDE DEF S
    <3> QED
      BY <1>1, <1>2, NatSets
  <2> QED
    BY <2>1 DEF Sums
<1>4. Sums(s, CHOOSE g : Sums(s, g))
  BY <1>3
<1>5. \A n : Total(s, n) = (CHOOSE g : Sums(s, g))[n]
  BY DEF Total, Sums
<1> QED
  BY <1>4, <1>5

\* Total adds one size after the other and never shrinks.
LEMMA TotalFacts ==
  ASSUME NEW s \in Seq(Nat)
  PROVE  /\ Total(s, 0) = 0
         /\ \A k \in 1 .. Len(s) : Total(s, k) = Total(s, k - 1) + s[k]
         /\ \A k \in 0 .. Len(s) : Total(s, k) \in Nat
         /\ \A k \in 0 .. Len(s) : \A j \in 0 .. k : Total(s, j) <= Total(s, k)
<1>1. PICK g : Sums(s, g) /\ \A n : Total(s, n) = g[n]
  BY TotalRecursion
<1>2. \A k \in 0 .. Len(s) : g[k] = IF k = 0 THEN 0 ELSE g[k - 1] + s[k]
  BY <1>1 DEF Sums
<1>3. g[0] = 0 /\ \A k \in 1 .. Len(s) : g[k] = g[k - 1] + s[k]
  BY <1>2
<1> DEFINE S == {k \in Nat : k <= Len(s) => g[k] \in Nat /\ \A j \in 0 .. k : g[j] \in Nat /\ g[j] <= g[k]}
<1>4. 0 \in S
  BY <1>3
<1>5. ASSUME NEW k \in Nat, k \in S PROVE k + 1 \in S
  <2>1. SUFFICES ASSUME k + 1 <= Len(s) PROVE g[k + 1] \in Nat /\ \A j \in 0 .. k + 1 : g[j] \in Nat /\ g[j] <= g[k + 1]
    OBVIOUS
  <2>2. k + 1 \in 1 .. Len(s) /\ (k + 1) - 1 = k /\ s[k + 1] \in Nat
    BY <2>1
  <2>3. g[k + 1] = g[k] + s[k + 1]
    BY <1>3, <2>2
  <2>4. g[k] \in Nat /\ \A j \in 0 .. k : g[j] \in Nat /\ g[j] <= g[k]
    BY <1>5, <2>1
  <2> QED
    BY <2>2, <2>3, <2>4
<1>6. Nat \subseteq S
  <2> HIDE DEF S
  <2> QED
    BY <1>4, <1>5, NatSets
<1>7. \A k \in 0 .. Len(s) : g[k] \in Nat /\ \A j \in 0 .. k : g[j] <= g[k]
  BY <1>6
<1> QED
  BY <1>1, <1>3, <1>7

\* A function over 1 .. n is a sequence of length n.
LEMMA FunctionIsSeq ==
  ASSUME NEW X, NEW n \in Nat, NEW f \in [1 .. n -> X]
  PROVE  f \in Seq(X) /\ Len(f) = n /\ DOMAIN f = 1 .. n
OBVIOUS

\* The lengths of the parts.
Lengths(ss) == [k \in 1 .. Len(ss) |-> Len(ss[k])]

\* The i-th of ss[k] comes behind all of ss[1], ..., ss[k - 1].
Follows(ss, n, flat) ==
  /\ Len(flat) = Total(Lengths(ss), n)
  /\ \A k \in 1 .. n : \A i \in 1 .. Len(ss[k]) :
       /\ Total(Lengths(ss), k - 1) + i \in DOMAIN flat
       /\ flat[Total(Lengths(ss), k - 1) + i] = ss[k][i]

\* The lengths of sequences are numbers.
LEMMA LengthsType ==
  ASSUME NEW X, NEW ss \in Seq(Seq(X))
  PROVE  /\ Lengths(ss) \in Seq(Nat) /\ Len(Lengths(ss)) = Len(ss) /\ Len(ss) \in Nat
         /\ \A k \in 1 .. Len(ss) : /\ ss[k] \in Seq(X) /\ Len(ss[k]) \in Nat
                                    /\ Lengths(ss)[k] = Len(ss[k])
<1>1. Len(ss) \in Nat /\ \A k \in 1 .. Len(ss) : ss[k] \in Seq(X) /\ Len(ss[k]) \in Nat
  OBVIOUS
<1>2. Lengths(ss) \in [1 .. Len(ss) -> Nat]
  BY <1>1 DEF Lengths
<1>3. Lengths(ss) \in Seq(Nat) /\ Len(Lengths(ss)) = Len(ss)
  BY <1>1, <1>2, FunctionIsSeq
<1> QED
  BY <1>1, <1>3 DEF Lengths

\* FlattenSeq has every element of every part, the parts in their order.
LEMMA FlattenFacts ==
  ASSUME NEW X, NEW ss \in Seq(Seq(X))
  PROVE  FlattenSeq(ss) \in Seq(X) /\ Follows(ss, Len(ss), FlattenSeq(ss))
<1> DEFINE L == Lengths(ss)
<1>1. /\ L \in Seq(Nat) /\ Len(L) = Len(ss) /\ Len(ss) \in Nat
      /\ \A k \in 1 .. Len(ss) : ss[k] \in Seq(X) /\ Len(ss[k]) \in Nat /\ L[k] = Len(ss[k])
  BY LengthsType
<1> HIDE DEF L
<1>2. /\ Total(L, 0) = 0
      /\ \A k \in 1 .. Len(ss) : Total(L, k) = Total(L, k - 1) + Len(ss[k])
      /\ \A k \in 0 .. Len(ss) : Total(L, k) \in Nat
  BY <1>1, TotalFacts
<1>3. CASE Len(ss) = 0
  <2>1. FlattenSeq(ss) = <<>> /\ ss = <<>> /\ <<>> \in Seq(X) /\ Len(<<>>) = 0
    BY <1>3 DEF FlattenSeq
  <2> QED
    BY <1>2, <1>3, <2>1 DEF Follows, L
<1>4. CASE Len(ss) # 0
  <2>1. PICK fl : Flattens(ss, fl) /\ FlattenSeq(ss) = fl[Len(ss)]
    BY <1>1, <1>4, FlattenRecursion
  <2>2. \A n \in 1 .. Len(ss) : fl[n] = IF n = 1 THEN ss[n] ELSE fl[n - 1] \o ss[n]
    BY <2>1 DEF Flattens
  <2> DEFINE Good(n, f) == /\ f \in Seq(X) /\ Len(f) = Total(L, n)
                           /\ \A k \in 1 .. n : \A i \in 1 .. Len(ss[k]) :
                                /\ Total(L, k - 1) + i \in DOMAIN f
                                /\ f[Total(L, k - 1) + i] = ss[k][i]
             S == {n \in Nat : n \in 1 .. Len(ss) => Good(n, fl[n])}
  <2>3. 0 \in S
    OBVIOUS
  <2>4. ASSUME NEW n \in Nat, n \in S PROVE n + 1 \in S
    <3>1. SUFFICES ASSUME n + 1 \in 1 .. Len(ss) PROVE Good(n + 1, fl[n + 1])
      <4> HIDE DEF Good
      <4> QED
        OBVIOUS
    <3> DEFINE s == ss[n + 1]
    <3>2. s \in Seq(X) /\ Total(L, n + 1) = Total(L, n) + Len(s) /\ Total(L, n) \in Nat /\ Len(s) \in Nat
      BY <1>1, <1>2, <3>1
    <3>3. CASE n = 0
      <4>1. fl[1] = s
        BY <2>2, <3>1, <3>3
      <4> QED
        BY <1>2, <3>2, <3>3, <4>1
    <3>4. CASE n # 0
      <4>1. n \in 1 .. Len(ss) /\ Good(n, fl[n])
        BY <2>4, <3>1, <3>4
      <4>2. fl[n + 1] = fl[n] \o s
        <5>1. (n + 1) - 1 = n /\ n + 1 # 1
          BY <3>4
        <5> QED
          BY <2>2, <3>1, <5>1
      <4> DEFINE f == fl[n]
      <4>3. f \in Seq(X) /\ Len(f) = Total(L, n)
        BY <4>1
      <4> HIDE DEF f, s
      <4>4. /\ f \o s \in Seq(X) /\ Len(f \o s) = Len(f) + Len(s)
            /\ \A j \in 1 .. Len(f) : (f \o s)[j] = f[j]
            /\ \A j \in 1 .. Len(s) : (f \o s)[Len(f) + j] = s[j]
            /\ DOMAIN (f \o s) = 1 .. Len(f) + Len(s) /\ DOMAIN f = 1 .. Len(f)
        BY <3>2, <4>3
      <4> DEFINE g == f \o s
      <4>5. /\ g \in Seq(X) /\ Len(g) = Len(f) + Len(s)
            /\ \A j \in DOMAIN f : g[j] = f[j] /\ j \in DOMAIN g
            /\ \A j \in 1 .. Len(s) : g[Len(f) + j] = s[j] /\ Len(f) + j \in DOMAIN g
        BY <3>2, <4>3, <4>4
      <4> HIDE DEF g
      <4>6. ASSUME NEW k \in 1 .. n + 1, NEW i \in 1 .. Len(ss[k])
            PROVE  Total(L, k - 1) + i \in DOMAIN g /\ g[Total(L, k - 1) + i] = ss[k][i]
        <5>1. CASE k \in 1 .. n
          <6>1. Total(L, k - 1) + i \in DOMAIN f /\ f[Total(L, k - 1) + i] = ss[k][i]
            BY <4>1, <5>1 DEF f
          <6> QED
            BY <4>5, <6>1
        <5>2. CASE k = n + 1
          <6>1. (n + 1) - 1 = n
            OBVIOUS
          <6>2. Total(L, k - 1) = Len(f) /\ ss[k] = s
            BY <4>3, <5>2, <6>1 DEF s
          <6> QED
            BY <4>5, <6>2
        <5> QED
          BY <5>1, <5>2
      <4>7. g = fl[n + 1]
        BY <4>2 DEF g, f
      <4>8. g \in Seq(X) /\ Len(g) = Total(L, n + 1)
        BY <3>2, <4>3, <4>5
      <4> QED
        BY <4>6, <4>7, <4>8
    <3> QED
      BY <3>3, <3>4
  <2>5. Nat \subseteq S
    <3> HIDE DEF S
    <3> QED
      BY <2>3, <2>4, NatSets
  <2>6. Good(Len(ss), fl[Len(ss)])
    BY <1>1, <1>4, <2>5
  <2> QED
    BY <2>1, <2>6 DEF Follows, L
<1> QED
  BY <1>3, <1>4

\* A number up to the total falls into one of the parts.
LEMMA TotalCovers ==
  ASSUME NEW s \in Seq(Nat)
  PROVE  \A n \in 0 .. Len(s) : \A p \in 1 .. Total(s, n) :
           \E k \in 1 .. n : p - Total(s, k - 1) \in 1 .. s[k]
<1>1. /\ Len(s) \in Nat /\ Total(s, 0) = 0
      /\ \A k \in 1 .. Len(s) : Total(s, k) = Total(s, k - 1) + s[k] /\ s[k] \in Nat
      /\ \A k \in 0 .. Len(s) : Total(s, k) \in Nat
  BY TotalFacts
<1> DEFINE Covered(n) == \A p \in 1 .. Total(s, n) : \E k \in 1 .. n : p - Total(s, k - 1) \in 1 .. s[k]
           S == {n \in Nat : n <= Len(s) => Covered(n)}
<1>2. 0 \in S
  BY <1>1
<1>3. ASSUME NEW n \in Nat, n \in S PROVE n + 1 \in S
  <2>1. SUFFICES ASSUME n + 1 <= Len(s), NEW p \in 1 .. Total(s, n + 1)
                 PROVE  \E k \in 1 .. n + 1 : p - Total(s, k - 1) \in 1 .. s[k]
    OBVIOUS
  <2>2. /\ n + 1 \in 1 .. Len(s) /\ n \in 0 .. Len(s) /\ n + 1 \in 0 .. Len(s) /\ (n + 1) - 1 = n
    BY <1>1, <2>1
  <2>3. Total(s, n + 1) = Total(s, n) + s[n + 1] /\ s[n + 1] \in Nat /\ Total(s, n) \in Nat /\ p \in Nat
    BY <1>1, <2>2
  <2>4. CASE p <= Total(s, n)
    <3>1. p \in 1 .. Total(s, n)
      BY <2>3, <2>4
    <3>2. PICK k \in 1 .. n : p - Total(s, k - 1) \in 1 .. s[k]
      BY <1>1, <1>3, <2>2, <3>1
    <3> QED
      BY <3>2
  <2>5. CASE p > Total(s, n)
    <3>1. p - Total(s, n) \in 1 .. s[n + 1]
      BY <2>3, <2>5
    <3> QED
      BY <2>2, <3>1
  <2> QED
    BY <2>3, <2>4, <2>5
<1>4. Nat \subseteq S
  <2> HIDE DEF S
  <2> QED
    BY <1>2, <1>3, NatSets
<1> QED
  BY <1>1, <1>4

\* What is in the flattened sequence is in one of its parts.
LEMMA FlattenRange ==
  ASSUME NEW X, NEW ss \in Seq(Seq(X))
  PROVE  \A x : x \in Range(FlattenSeq(ss)) <=> \E k \in 1 .. Len(ss) : x \in Range(ss[k])
<1> DEFINE flat == FlattenSeq(ss)
           L == Lengths(ss)
<1>1. flat \in Seq(X) /\ Follows(ss, Len(ss), flat)
  BY FlattenFacts
<1>2. L \in Seq(Nat) /\ Len(L) = Len(ss) /\ Len(ss) \in Nat
      /\ \A k \in 1 .. Len(ss) : ss[k] \in Seq(X) /\ L[k] = Len(ss[k])
  BY LengthsType
<1>3. /\ Len(flat) = Total(L, Len(ss))
      /\ \A k \in 1 .. Len(ss) : \A i \in 1 .. Len(ss[k]) :
           /\ Total(L, k - 1) + i \in DOMAIN flat
           /\ flat[Total(L, k - 1) + i] = ss[k][i]
  BY <1>1 DEF Follows
<1>4. Total(L, 0) = 0 /\ \A k \in 0 .. Len(ss) : Total(L, k) \in Nat
  BY <1>2, TotalFacts
<1>5. DOMAIN flat = 1 .. Len(flat) /\ \A k \in 1 .. Len(ss) : DOMAIN ss[k] = 1 .. Len(ss[k])
  BY <1>1, <1>2
<1> HIDE DEF flat, L
<1>6. ASSUME NEW p \in DOMAIN flat PROVE \E k \in 1 .. Len(ss) : flat[p] \in Range(ss[k])
  <2>1. Len(ss) \in 0 .. Len(L) /\ p \in 1 .. Total(L, Len(ss))
    BY <1>2, <1>3, <1>5
  <2>2. PICK k \in 1 .. Len(ss) : p - Total(L, k - 1) \in 1 .. L[k]
    BY <1>2, <2>1, TotalCovers
  <2>3. Total(L, k - 1) \in Nat /\ p \in Nat
    BY <1>2, <1>4, <2>1
  <2>4. Total(L, k - 1) + (p - Total(L, k - 1)) = p
    BY <2>3
  <2>5. flat[p] = ss[k][p - Total(L, k - 1)]
    BY <1>2, <1>3, <2>2, <2>4
  <2> QED
    BY <1>2, <1>5, <2>2, <2>5 DEF Range
<1>7. ASSUME NEW k \in 1 .. Len(ss), NEW i \in DOMAIN ss[k] PROVE ss[k][i] \in Range(flat)
  BY <1>3, <1>5 DEF Range
<1> QED
  BY <1>6, <1>7 DEF Range, flat

\* A part more is put behind the flattened sequence.
LEMMA FlattenAppend ==
  ASSUME NEW X, NEW ss \in Seq(Seq(X)), NEW s \in Seq(X)
  PROVE  FlattenSeq(Append(ss, s)) = FlattenSeq(ss) \o s
<1> DEFINE tt == Append(ss, s)
           n == Len(ss)
<1>1. /\ n \in Nat /\ Len(tt) = n + 1 /\ tt[n + 1] = s /\ \A k \in 1 .. n : tt[k] = ss[k]
  OBVIOUS
<1> HIDE DEF tt, n
<1>2. PICK gl : Flattens(tt, gl) /\ FlattenSeq(tt) = gl[n + 1]
  BY <1>1, FlattenRecursion
<1>3. \A k \in 1 .. n + 1 : gl[k] = IF k = 1 THEN tt[k] ELSE gl[k - 1] \o tt[k]
  BY <1>1, <1>2 DEF Flattens
<1>4. CASE n = 0
  <2>1. gl[1] = s
    BY <1>1, <1>3, <1>4
  <2>2. FlattenSeq(ss) = <<>>
    BY <1>4 DEF FlattenSeq, n
  <2>3. <<>> \o s = s
    OBVIOUS
  <2> QED
    BY <1>2, <1>4, <2>1, <2>2, <2>3 DEF tt
<1>5. CASE n # 0
  <2>1. PICK fl : Flattens(ss, fl) /\ FlattenSeq(ss) = fl[n]
    BY <1>1, <1>5, FlattenRecursion DEF n
  <2>2. \A k \in 1 .. n : fl[k] = IF k = 1 THEN ss[k] ELSE fl[k - 1] \o ss[k]
    BY <2>1 DEF Flattens, n
  <2> DEFINE S == {k \in Nat : k \in 1 .. n => fl[k] = gl[k]}
  <2>3. 0 \in S
    OBVIOUS
  <2>4. ASSUME NEW k \in Nat, k \in S PROVE k + 1 \in S
    <3>1. SUFFICES ASSUME k + 1 \in 1 .. n PROVE fl[k + 1] = gl[k + 1]
      OBVIOUS
    <3>2. k + 1 \in 1 .. n + 1 /\ tt[k + 1] = ss[k + 1] /\ (k + 1) - 1 = k
      BY <1>1, <3>1
    <3>3. CASE k = 0
      <4>1. fl[1] = ss[1] /\ gl[1] = tt[1]
        BY <1>3, <2>2, <3>1, <3>2, <3>3
      <4> QED
        BY <3>2, <3>3, <4>1
    <3>4. CASE k # 0
      <4>1. k \in 1 .. n /\ k + 1 # 1
        BY <1>1, <3>1, <3>4
      <4>2. fl[k + 1] = fl[k] \o ss[k + 1]
        BY <2>2, <3>1, <3>2, <4>1
      <4>3. gl[k + 1] = gl[k] \o tt[k + 1]
        BY <1>3, <3>2, <4>1
      <4> QED
        BY <2>4, <3>2, <4>1, <4>2, <4>3
    <3> QED
      BY <3>3, <3>4
  <2>5. Nat \subseteq S
    <3> HIDE DEF S
    <3> QED
      BY <2>3, <2>4, NatSets
  <2>6. fl[n] = gl[n]
    BY <1>1, <1>5, <2>5
  <2>7. n + 1 \in 1 .. n + 1 /\ n + 1 # 1 /\ (n + 1) - 1 = n
    <3>1. n \in Nat
      BY <1>1
    <3> QED
      BY <1>5, <3>1
  <2>8. gl[n + 1] = gl[n] \o s
    BY <1>1, <1>3, <2>7
  <2> QED
    BY <1>2, <2>1, <2>6, <2>8 DEF tt
<1> QED
  BY <1>4, <1>5

-----------------------------------------------------------------------------
(* The words of a document, its zones behind each other.                   *)

\* The texts of an item as a sequence.
Texts(item) == [z \in 1 .. Zones |-> item.text[z]]

\* The text of every zone is a sequence of words.
LEMMA TextFacts ==
  ASSUME NEW item \in Items
  PROVE  /\ Texts(item) \in Seq(Seq(Words)) /\ Len(Texts(item)) = Zones /\ Zones \in Nat \ {0}
         /\ wordsCnt(item) = Lengths(Texts(item)) /\ wordsCnt(item) \in Seq(Nat)
         /\ Len(wordsCnt(item)) = Zones
         /\ \A z \in 1 .. Zones : /\ Texts(item)[z] = item.text[z] /\ item.text[z] \in Seq(Words)
                                  /\ wordsCnt(item)[z] = Len(item.text[z])
                                  /\ Len(item.text[z]) \in Nat
                                  /\ DOMAIN item.text[z] = 1 .. Len(item.text[z])
<1>1. item.text \in [1 .. Zones -> Seq(Words)] /\ Zones \in Nat \ {0}
  BY ItemsAssumption, ZonesAssumption DEF Item
<1>2. Texts(item) \in [1 .. Zones -> Seq(Words)]
  BY <1>1 DEF Texts
<1>3. Texts(item) \in Seq(Seq(Words)) /\ Len(Texts(item)) = Zones
  BY <1>1, <1>2, FunctionIsSeq
<1>4. \A z \in 1 .. Zones : Texts(item)[z] = item.text[z] /\ item.text[z] \in Seq(Words)
  BY <1>1 DEF Texts
<1>5. wordsCnt(item) = Lengths(Texts(item))
  BY <1>3, <1>4 DEF wordsCnt, Lengths
<1>6. wordsCnt(item) \in Seq(Nat) /\ Len(wordsCnt(item)) = Zones
  BY <1>3, <1>5, LengthsType
<1>7. \A z \in 1 .. Zones : /\ wordsCnt(item)[z] = Len(item.text[z])
                            /\ Len(item.text[z]) \in Nat
                            /\ DOMAIN item.text[z] = 1 .. Len(item.text[z])
  BY <1>4 DEF wordsCnt
<1> QED
  BY <1>1, <1>3, <1>4, <1>5, <1>6, <1>7

\* Where zones begin: one behind the other, the last ends with the document.
LEMMA OffsetFacts ==
  ASSUME NEW item \in Items
  PROVE  LET O(z) == Offset(wordsCnt(item), z)
         IN /\ O(1) = 0
            /\ \A z \in 1 .. Zones : O(z) \in Nat /\ O(z + 1) \in Nat /\ O(z + 1) = O(z) + Len(item.text[z])
            /\ \A y, z \in 1 .. Zones : y < z => O(y + 1) <= O(z)
            /\ O(Zones + 1) = Total(wordsCnt(item), Zones)
<1> DEFINE W == wordsCnt(item)
<1>1. /\ W \in Seq(Nat) /\ Len(W) = Zones /\ Zones \in Nat \ {0}
      /\ \A z \in 1 .. Zones : W[z] = Len(item.text[z])
  BY TextFacts
<1> HIDE DEF W
<1>2. /\ Total(W, 0) = 0
      /\ \A k \in 1 .. Zones : Total(W, k) = Total(W, k - 1) + W[k]
      /\ \A k \in 0 .. Zones : Total(W, k) \in Nat
      /\ \A k \in 0 .. Zones : \A j \in 0 .. k : Total(W, j) <= Total(W, k)
  BY <1>1, TotalFacts
<1>3. Offset(W, 1) = 0 /\ Offset(W, Zones + 1) = Total(W, Zones)
  <2>1. 1 - 1 = 0 /\ (Zones + 1) - 1 = Zones
    BY <1>1
  <2> QED
    BY <1>2, <2>1 DEF Offset
<1>4. ASSUME NEW z \in 1 .. Zones
      PROVE  Offset(W, z) \in Nat /\ Offset(W, z + 1) \in Nat /\ Offset(W, z + 1) = Offset(W, z) + W[z]
  <2>1. (z + 1) - 1 = z /\ z - 1 \in 0 .. Zones /\ z \in 0 .. Zones
    BY <1>1
  <2> QED
    BY <1>2, <2>1 DEF Offset
<1>5. ASSUME NEW y \in 1 .. Zones, NEW z \in 1 .. Zones, y < z PROVE Offset(W, y + 1) <= Offset(W, z)
  <2>1. (y + 1) - 1 = y /\ z - 1 \in 0 .. Zones /\ y \in 0 .. z - 1
    BY <1>1, <1>5
  <2> QED
    BY <1>2, <2>1 DEF Offset
<1> QED
  BY <1>1, <1>3, <1>4, <1>5 DEF W

\* AllWords has the words of every zone from where the zone begins.
LEMMA WordsFacts ==
  ASSUME NEW item \in Items
  PROVE  /\ AllWords(item) \in Seq(Words) /\ Len(AllWords(item)) = Total(wordsCnt(item), Zones)
         /\ \A z \in 1 .. Zones : \A i \in 1 .. Len(item.text[z]) :
              /\ Offset(wordsCnt(item), z) + i \in DOMAIN AllWords(item)
              /\ AllWords(item)[Offset(wordsCnt(item), z) + i] = item.text[z][i]
<1>1. AllWords(item) = FlattenSeq(Texts(item))
  BY DEF AllWords, Texts
<1>2. FlattenSeq(Texts(item)) \in Seq(Words) /\ Follows(Texts(item), Zones, FlattenSeq(Texts(item)))
  BY TextFacts, FlattenFacts
<1> QED
  BY <1>1, <1>2, TextFacts DEF Follows, Offset

\* found collects the places of tok as Posting does.
Postings(words, tok, found) ==
  found = [n \in 0 .. Len(words) |->
             IF n = 0 THEN <<>>
             ELSE IF words[n] = tok THEN Append(found[n - 1], n - 1) ELSE found[n - 1]]

\* There is a function that collects places as Posting does.
LEMMA PostingRecursion ==
  ASSUME NEW words, Len(words) \in Nat, NEW tok
  PROVE  \E found : Postings(words, tok, found)
<1> DEFINE F(m, f) == f = [n \in 0 .. m |->
                             IF n = 0 THEN <<>>
                             ELSE IF words[n] = tok THEN Append(f[n - 1], n - 1) ELSE f[n - 1]]
           S == {m \in Nat : \E f : F(m, f)}
<1>1. 0 \in S
  <2> DEFINE g == [n \in 0 .. 0 |-> <<>>]
  <2>1. F(0, g)
    OBVIOUS
  <2> HIDE DEF g, F
  <2> QED
    BY <2>1
<1>2. ASSUME NEW m \in Nat, m \in S PROVE m + 1 \in S
  <2>1. PICK f : F(m, f)
    BY <1>2
  <2> DEFINE g == [n \in 0 .. m + 1 |->
                     IF n = 0 THEN <<>>
                     ELSE IF words[n] = tok THEN Append(f[n - 1], n - 1) ELSE f[n - 1]]
  <2>2. \A n \in 0 .. m : g[n] = f[n]
    <3>1. \A n \in 0 .. m : f[n] = IF n = 0 THEN <<>>
                                   ELSE IF words[n] = tok THEN Append(f[n - 1], n - 1) ELSE f[n - 1]
      BY <2>1
    <3> QED
      BY <3>1
  <2>3. \A n \in 0 .. m + 1 : n # 0 => n - 1 \in 0 .. m
    OBVIOUS
  <2>4. g = [n \in 0 .. m + 1 |->
               IF n = 0 THEN <<>>
               ELSE IF words[n] = tok THEN Append(g[n - 1], n - 1) ELSE g[n - 1]]
    <3>1. \A n \in 0 .. m + 1 : n # 0 => g[n - 1] = f[n - 1]
      BY <2>2, <2>3
    <3> QED
      BY <3>1
  <2>5. F(m + 1, g)
    BY <2>4
  <2> HIDE DEF g, F
  <2> QED
    BY <2>5
<1>3. Nat \subseteq S
  <2> HIDE DEF S
  <2> QED
    BY <1>1, <1>2, NatSets
<1> QED
  BY <1>3 DEF Postings

\* P has the places of tok among the first n words, ascending.
PlacesOf(words, tok, n, P) ==
  /\ P \in Seq(Nat)
  /\ \A i, j \in 1 .. Len(P) : i < j => P[i] < P[j]
  /\ \A i \in 1 .. Len(P) : P[i] < n /\ words[P[i] + 1] = tok
  /\ \A p \in Nat : p < n /\ words[p + 1] = tok => \E i \in 1 .. Len(P) : P[i] = p

\* A word more is a place more exactly when it is the token.
LEMMA OnePlaceMore ==
  ASSUME NEW words, NEW tok, NEW n \in Nat, NEW P, PlacesOf(words, tok, n, P)
  PROVE  PlacesOf(words, tok, n + 1, IF words[n + 1] = tok THEN Append(P, n) ELSE P)
<1>1. /\ P \in Seq(Nat) /\ Len(P) \in Nat
      /\ \A i \in 1 .. Len(P) : P[i] \in Nat
  BY DEF PlacesOf
<1>2. CASE words[n + 1] = tok
  <2> DEFINE Q == Append(P, n)
  <2>1. /\ Q \in Seq(Nat) /\ Len(Q) = Len(P) + 1 /\ Q[Len(P) + 1] = n
        /\ \A i \in 1 .. Len(P) : Q[i] = P[i]
    BY <1>1
  <2> HIDE DEF Q
  <2>2. \A i \in 1 .. Len(Q) : i \in 1 .. Len(P) \/ i = Len(P) + 1
    BY <1>1, <2>1
  <2>3. ASSUME NEW i \in 1 .. Len(Q) PROVE Q[i] < n + 1 /\ words[Q[i] + 1] = tok
    <3>1. CASE i \in 1 .. Len(P)
      <4>1. Q[i] = P[i] /\ P[i] \in Nat /\ P[i] < n /\ words[P[i] + 1] = tok
        BY <1>1, <2>1, <3>1 DEF PlacesOf
      <4> QED
        BY <4>1
    <3>2. CASE i = Len(P) + 1
      BY <1>2, <2>1, <3>2
    <3> QED
      BY <2>2, <3>1, <3>2
  <2>4. ASSUME NEW i \in 1 .. Len(Q), NEW j \in 1 .. Len(Q), i < j PROVE Q[i] < Q[j]
    <3>1. i \in 1 .. Len(P) /\ Q[i] = P[i] /\ P[i] < n
      BY <1>1, <2>1, <2>4 DEF PlacesOf
    <3>2. CASE j \in 1 .. Len(P)
      BY <2>1, <2>4, <3>1, <3>2 DEF PlacesOf
    <3>3. CASE j = Len(P) + 1
      BY <2>1, <3>1, <3>3
    <3> QED
      BY <2>2, <3>2, <3>3
  <2>5. ASSUME NEW p \in Nat, p < n + 1, words[p + 1] = tok PROVE \E i \in 1 .. Len(Q) : Q[i] = p
    <3>1. CASE p = n
      <4>1. Len(P) + 1 \in 1 .. Len(Q)
        BY <1>1, <2>1
      <4> QED
        BY <2>1, <3>1, <4>1
    <3>2. CASE p < n
      <4>1. PICK i \in 1 .. Len(P) : P[i] = p
        BY <2>5, <3>2 DEF PlacesOf
      <4>2. i \in 1 .. Len(Q) /\ Q[i] = p
        BY <1>1, <2>1, <4>1
      <4> QED
        BY <4>2
    <3> QED
      BY <2>5, <3>1, <3>2
  <2>6. PlacesOf(words, tok, n + 1, Q)
    BY <2>1, <2>3, <2>4, <2>5 DEF PlacesOf
  <2> QED
    BY <1>2, <2>6 DEF Q
<1>3. CASE words[n + 1] # tok
  <2>1. ASSUME NEW p \in Nat, p < n + 1, words[p + 1] = tok PROVE p < n
    BY <1>3, <2>1
  <2>2. \A i \in 1 .. Len(P) : P[i] < n + 1 /\ words[P[i] + 1] = tok
    BY <1>1 DEF PlacesOf
  <2>3. PlacesOf(words, tok, n + 1, P)
    BY <1>1, <2>1, <2>2 DEF PlacesOf
  <2> QED
    BY <1>3, <2>3
<1> QED
  BY <1>2, <1>3

\* The posting of a token has the places where it is in all words, ascending.
LEMMA PostingFacts ==
  ASSUME NEW item \in Items, NEW tok
  PROVE  LET P == Posting(item, tok)
             words == AllWords(item)
         IN /\ P \in Seq(Nat) /\ Len(P) \in Nat
            /\ \A i, j \in 1 .. Len(P) : i < j => P[i] < P[j]
            /\ \A p : p \in Range(P) <=> p \in Nat /\ p + 1 \in 1 .. Len(words) /\ words[p + 1] = tok
<1> DEFINE words == AllWords(item)
<1>1. words \in Seq(Words) /\ Len(words) \in Nat
  BY WordsFacts
<1>2. PICK found : Postings(words, tok, found) /\ Posting(item, tok) = found[Len(words)]
  <2>1. Postings(words, tok, CHOOSE f : Postings(words, tok, f))
    BY <1>1, PostingRecursion
  <2>2. Posting(item, tok) = (CHOOSE f : Postings(words, tok, f))[Len(words)]
    BY DEF Posting, Postings
  <2> QED
    BY <2>1, <2>2
<1> HIDE DEF words
<1>3. /\ found[0] = <<>>
      /\ \A n \in Nat : n + 1 <= Len(words) =>
           found[n + 1] = IF words[n + 1] = tok THEN Append(found[n], n) ELSE found[n]
  <2>1. \A n \in 0 .. Len(words) :
          found[n] = IF n = 0 THEN <<>>
                     ELSE IF words[n] = tok THEN Append(found[n - 1], n - 1) ELSE found[n - 1]
    BY <1>2 DEF Postings
  <2>2. \A n \in Nat : (n + 1) - 1 = n /\ n + 1 # 0
    OBVIOUS
  <2>3. \A n \in Nat : n + 1 <= Len(words) => n + 1 \in 0 .. Len(words)
    BY <1>1
  <2> QED
    BY <1>1, <2>1, <2>2, <2>3
<1> DEFINE S == {n \in Nat : n <= Len(words) => PlacesOf(words, tok, n, found[n])}
<1>4. 0 \in S
  <2>1. PlacesOf(words, tok, 0, <<>>)
    BY DEF PlacesOf
  <2> QED
    BY <1>3, <2>1
<1>5. ASSUME NEW n \in Nat, n \in S PROVE n + 1 \in S
  <2>1. ASSUME n + 1 <= Len(words) PROVE PlacesOf(words, tok, n + 1, found[n + 1])
    <3>1. n <= Len(words)
      BY <1>1, <2>1
    <3>2. PlacesOf(words, tok, n, found[n])
      BY <1>5, <3>1
    <3> QED
      BY <1>3, <2>1, <3>2, OnePlaceMore
  <2> QED
    BY <2>1
<1>6. Nat \subseteq S
  <2> HIDE DEF S
  <2> QED
    BY <1>4, <1>5, NatSets
<1>7. PlacesOf(words, tok, Len(words), Posting(item, tok))
  BY <1>1, <1>2, <1>6
<1> DEFINE P == Posting(item, tok)
<1> HIDE DEF P
<1>8. PlacesOf(words, tok, Len(words), P)
  BY <1>7 DEF P
<1>9. P \in Seq(Nat) /\ Len(P) \in Nat /\ DOMAIN P = 1 .. Len(P) /\ \A i \in 1 .. Len(P) : P[i] \in Nat
  BY <1>8 DEF PlacesOf
<1>10. ASSUME NEW p PROVE p \in Range(P) <=> p \in Nat /\ p + 1 \in 1 .. Len(words) /\ words[p + 1] = tok
  <2>1. \A q \in Nat : q < Len(words) <=> q + 1 \in 1 .. Len(words)
    BY <1>1
  <2>2. ASSUME p \in Range(P) PROVE p \in Nat /\ p + 1 \in 1 .. Len(words) /\ words[p + 1] = tok
    <3>1. PICK i \in 1 .. Len(P) : p = P[i]
      BY <1>9, <2>2 DEF Range
    <3> QED
      BY <1>8, <1>9, <2>1, <3>1 DEF PlacesOf
  <2>3. ASSUME p \in Nat, p + 1 \in 1 .. Len(words), words[p + 1] = tok PROVE p \in Range(P)
    <3>1. \E i \in 1 .. Len(P) : P[i] = p
      BY <1>8, <2>1, <2>3 DEF PlacesOf
    <3> QED
      BY <1>9, <3>1 DEF Range
  <2> QED
    BY <2>2, <2>3
<1>11. \A i, j \in 1 .. Len(P) : i < j => P[i] < P[j]
  BY <1>8 DEF PlacesOf
<1> QED
  BY <1>9, <1>10, <1>11 DEF P, words

-----------------------------------------------------------------------------
(* splitByZones: the parts of a posting stand in the order of the zones.   *)

\* Min of a set of numbers is its least member.
LEMMA MinFacts ==
  ASSUME NEW S \in SUBSET Nat, S # {}
  PROVE  Min(S) \in S /\ \A y \in S : Min(S) <= y
<1>1. \E x \in S : \A y \in S : x <= y
  <2>1. IsWellFoundedOn(OpToRel(<, Nat), Nat)
    BY NatLessThanWellFounded
  <2>2. PICK x \in S : \A y \in S : ~ (<<y, x>> \in OpToRel(<, Nat))
    BY <2>1, WFMin
  <2>3. \A y \in S : ~ (y < x)
    BY <2>2 DEF OpToRel
  <2> QED
    BY <2>3
<1> QED
  BY <1>1 DEF Min

\* The rank of zone z among the zones S.
Rank(S, z) == Cardinality({y \in S : y <= z})

\* The zones of a posting have ranks from 1 without a gap: getFullPosting finds
\* the size of a part by the rank of its zone.
LEMMA RankFacts ==
  ASSUME NEW S \in SUBSET Nat, IsFiniteSet(S)
  PROVE  /\ Cardinality(S) \in Nat
         /\ \A z \in S : Rank(S, z) \in 1 .. Cardinality(S)
         /\ \A y, z \in S : y < z => Rank(S, y) < Rank(S, z)
         /\ \A z \in S : (\A y \in S : y <= z) => Rank(S, z) = Cardinality(S)
<1> DEFINE B(z) == {y \in S : y <= z}
<1>1. \A z : IsFiniteSet(B(z)) /\ Cardinality(B(z)) \in Nat /\ Cardinality(B(z)) <= Cardinality(S)
  BY FS_Subset, FS_CardinalityType
<1>2. Cardinality(S) \in Nat
  BY FS_CardinalityType
<1>3. ASSUME NEW z \in S PROVE Rank(S, z) \in 1 .. Cardinality(S)
  <2>1. B(z) # {}
    OBVIOUS
  <2>2. Cardinality(B(z)) # 0
    BY <1>1, <2>1, FS_EmptySet
  <2> QED
    BY <1>1, <1>2, <2>2 DEF Rank
<1>4. ASSUME NEW y \in S, NEW z \in S, y < z PROVE Rank(S, y) < Rank(S, z)
  <2>1. \A x \in Nat : x <= y => x <= z
    BY <1>4
  <2>2. B(y) \in SUBSET B(z) /\ z \in B(z) /\ z \notin B(y)
    <3>1. y \in Nat /\ z \in Nat /\ z <= z /\ ~ (z <= y)
      BY <1>4
    <3>2. \A x \in B(y) : x \in B(z)
      BY <2>1
    <3> QED
      BY <3>1, <3>2
  <2>3. Cardinality(B(y)) <= Cardinality(B(z)) /\ Cardinality(B(y)) # Cardinality(B(z))
    BY <1>1, <2>2, FS_Subset
  <2>4. Cardinality(B(y)) < Cardinality(B(z))
    BY <1>1, <2>3
  <2> QED
    BY <2>4 DEF Rank
<1>5. ASSUME NEW z \in S, \A y \in S : y <= z PROVE Rank(S, z) = Cardinality(S)
  <2>1. B(z) = S
    BY <1>5
  <2> QED
    BY <2>1 DEF Rank
<1> QED
  BY <1>2, <1>3, <1>4, <1>5

\* A zone behind all others has the next rank and leaves the other ranks alone.
LEMMA RankGrows ==
  ASSUME NEW S \in SUBSET Nat, IsFiniteSet(S), NEW m \in Nat, \A y \in S : y < m
  PROVE  LET T == S \cup {m}
         IN /\ IsFiniteSet(T) /\ T \in SUBSET Nat /\ Cardinality(T) = Cardinality(S) + 1
            /\ Rank(T, m) = Cardinality(S) + 1
            /\ \A z \in S : Rank(T, z) = Rank(S, z)
<1> DEFINE T == S \cup {m}
<1>1. m \notin S
  OBVIOUS
<1>2. IsFiniteSet(T) /\ Cardinality(T) = Cardinality(S) + 1 /\ T \in SUBSET Nat
  BY <1>1, FS_AddElement
<1>3. Rank(T, m) = Cardinality(S) + 1
  <2>1. \A y \in T : y <= m
    OBVIOUS
  <2> QED
    BY <1>2, <2>1, RankFacts
<1>4. ASSUME NEW z \in S PROVE Rank(T, z) = Rank(S, z)
  <2>1. {y \in T : y <= z} = {y \in S : y <= z}
    OBVIOUS
  <2> QED
    BY <2>1 DEF Rank
<1> QED
  BY <1>2, <1>3, <1>4

\* Position p is in zone z, by the lengths W of the zones.
InZone(W, p, z) == z \in 1 .. Zones /\ Offset(W, z) <= p /\ p < Offset(W, z + 1)

\* A position is in one zone.
LEMMA OneZone ==
  ASSUME NEW item \in Items, NEW p \in Nat, NEW y, NEW z,
         InZone(wordsCnt(item), p, y), InZone(wordsCnt(item), p, z)
  PROVE  y = z
<1> DEFINE W == wordsCnt(item)
<1>1. y \in 1 .. Zones /\ z \in 1 .. Zones /\ Zones \in Nat
  BY TextFacts DEF InZone
<1>2. /\ Offset(W, y) \in Nat /\ Offset(W, y + 1) \in Nat /\ Offset(W, z) \in Nat /\ Offset(W, z + 1) \in Nat
      /\ y < z => Offset(W, y + 1) <= Offset(W, z)
      /\ z < y => Offset(W, z + 1) <= Offset(W, y)
  BY <1>1, OffsetFacts
<1>3. Offset(W, y) <= p /\ p < Offset(W, y + 1) /\ Offset(W, z) <= p /\ p < Offset(W, z + 1)
  BY DEF InZone
<1> HIDE DEF W
<1> QED
  BY <1>1, <1>2, <1>3

\* Where splitByZones stops behind zones that are over.
LEMMA NextZone ==
  ASSUME NEW item \in Items, NEW val \in Nat, val < Offset(wordsCnt(item), Zones + 1),
         NEW zi \in 1 .. Zones, Offset(wordsCnt(item), zi) <= val
  PROVE  LET m == Min({z \in zi .. Zones : val < Offset(wordsCnt(item), z + 1)})
         IN m \in 1 .. Zones /\ zi <= m /\ InZone(wordsCnt(item), val, m)
<1> DEFINE W == wordsCnt(item)
           S == {z \in zi .. Zones : val < Offset(W, z + 1)}
           m == Min(S)
<1>1. Zones \in Nat /\ \A z \in 1 .. Zones : Offset(W, z) \in Nat /\ Offset(W, z + 1) \in Nat
  BY TextFacts, OffsetFacts
<1>2. S \in SUBSET Nat /\ Zones \in S
  BY <1>1
<1> HIDE DEF W
<1>3. m \in S /\ \A y \in S : m <= y
  BY <1>2, MinFacts
<1>4. m \in zi .. Zones /\ m \in 1 .. Zones /\ val < Offset(W, m + 1)
  BY <1>1, <1>3
<1> HIDE DEF m
<1>5. Offset(W, m) <= val
  <2>1. CASE m = zi
    BY <2>1 DEF W
  <2>2. CASE m # zi
    <3>1. m - 1 \in zi .. Zones /\ (m - 1) + 1 = m /\ ~ (m <= m - 1)
      BY <1>1, <1>4, <2>2
    <3>2. m - 1 \notin S
      BY <1>3, <3>1
    <3>3. ~ (val < Offset(W, m))
      BY <3>1, <3>2
    <3> QED
      BY <1>1, <1>4, <3>3
  <2> QED
    BY <2>1, <2>2
<1>6. InZone(W, val, m) /\ zi <= m
  BY <1>1, <1>4, <1>5 DEF InZone
<1> QED
  BY <1>4, <1>6 DEF W, m

\* part has the first n of the positions P that are in zone z, from its beginning.
HasValues(W, P, n, z, part) ==
  \A v : v \in Range(part) <=> v \in Nat /\ \E i \in 1 .. n : InZone(W, P[i], z) /\ P[i] = Offset(W, z) + v

\* s is what splitByZones has made of the first n of the positions.
SplitTo(W, P, n, s) ==
  /\ s.zi \in 1 .. Zones /\ s.split \in Seq(Seq(Nat))
  /\ s.inZone = {z \in 1 .. Zones : \E i \in 1 .. n : InZone(W, P[i], z)}
  /\ Len(s.split) = Cardinality(s.inZone)
  /\ IF n = 0 THEN s.zi = 1 ELSE InZone(W, P[n], s.zi)
  /\ \A z \in s.inZone : z <= s.zi
  /\ \A k \in 1 .. Len(s.split) : s.split[k] # <<>>
  /\ \A z \in s.inZone : HasValues(W, P, n, z, s.split[Rank(s.inZone, z)])

\* What Append adds and what it leaves.
LEMMA AppendFacts ==
  ASSUME NEW X, NEW s \in Seq(X), NEW x \in X
  PROVE  /\ Append(s, x) \in Seq(X) /\ Len(Append(s, x)) = Len(s) + 1
         /\ Append(s, x)[Len(s) + 1] = x
         /\ \A k \in 1 .. Len(s) : Append(s, x)[k] = s[k]
OBVIOUS

\* Append adds one member.
LEMMA AppendRange ==
  ASSUME NEW X, NEW s \in Seq(X), NEW x \in X
  PROVE  Range(Append(s, x)) = Range(s) \cup {x}
<1>1. /\ Len(Append(s, x)) = Len(s) + 1
      /\ Append(s, x)[Len(s) + 1] = x /\ Len(s) \in Nat
      /\ DOMAIN s = 1 .. Len(s) /\ DOMAIN Append(s, x) = 1 .. Len(s) + 1
      /\ \A k \in 1 .. Len(s) : Append(s, x)[k] = s[k]
  OBVIOUS
<1> DEFINE a == Append(s, x)
<1> HIDE DEF a
<1>2. \A k \in 1 .. Len(s) + 1 : k \in 1 .. Len(s) \/ k = Len(s) + 1
  BY <1>1
<1>3. \A k \in 1 .. Len(s) : k \in 1 .. Len(s) + 1
  BY <1>1
<1>4. Len(s) + 1 \in 1 .. Len(s) + 1
  BY <1>1
<1>5. Range(a) = Range(s) \cup {x}
  BY <1>1, <1>2, <1>3, <1>4 DEF Range, a
<1> QED
  BY <1>5 DEF a

\* One position more.
LEMMA ValuesGrow ==
  ASSUME NEW W, NEW P, NEW n \in Nat, NEW z, NEW part, HasValues(W, P, n, z, part)
  PROVE  /\ ~ InZone(W, P[n + 1], z) => HasValues(W, P, n + 1, z, part)
         /\ \A next : \A v \in Nat :
              /\ InZone(W, P[n + 1], z) /\ P[n + 1] = Offset(W, z) + v /\ Offset(W, z) \in Nat
              /\ Range(next) = Range(part) \cup {v}
              => HasValues(W, P, n + 1, z, next)
<1>1. \A i \in 1 .. n + 1 : i \in 1 .. n \/ i = n + 1
  OBVIOUS
<1>2. \A i \in 1 .. n : i \in 1 .. n + 1
  OBVIOUS
<1>3. n + 1 \in 1 .. n + 1
  OBVIOUS
<1>4. ASSUME ~ InZone(W, P[n + 1], z) PROVE HasValues(W, P, n + 1, z, part)
  BY <1>1, <1>2, <1>4 DEF HasValues
<1>5. ASSUME NEW next, NEW v \in Nat, InZone(W, P[n + 1], z), P[n + 1] = Offset(W, z) + v, Offset(W, z) \in Nat,
             Range(next) = Range(part) \cup {v}
      PROVE  HasValues(W, P, n + 1, z, next)
  <2>1. ASSUME NEW u \in Range(next)
        PROVE  u \in Nat /\ \E i \in 1 .. n + 1 : InZone(W, P[i], z) /\ P[i] = Offset(W, z) + u
    <3>1. CASE u = v
      BY <1>3, <1>5, <3>1
    <3>2. CASE u \in Range(part)
      BY <1>2, <3>2 DEF HasValues
    <3> QED
      BY <1>5, <3>1, <3>2
  <2>2. ASSUME NEW u \in Nat, NEW i \in 1 .. n + 1, InZone(W, P[i], z), P[i] = Offset(W, z) + u
        PROVE  u \in Range(next)
    <3>1. CASE i \in 1 .. n
      <4>1. u \in Range(part)
        BY <2>2, <3>1 DEF HasValues
      <4> QED
        BY <1>5, <4>1
    <3>2. CASE i = n + 1
      <4>1. Offset(W, z) + u = Offset(W, z) + v
        BY <1>5, <2>2, <3>2
      <4>2. u = v
        BY <1>5, <4>1
      <4> QED
        BY <1>5, <4>2
    <3> QED
      BY <1>1, <3>1, <3>2
  <2> QED
    BY <2>1, <2>2 DEF HasValues
<1> QED
  BY <1>4, <1>5

\* Of no position there is no value in any zone.
LEMMA NoValues ==
  ASSUME NEW W, NEW P, NEW n, NEW z, NEW part,
         \A i \in 1 .. n : ~ InZone(W, P[i], z), \A v : v \notin Range(part)
  PROVE  HasValues(W, P, n, z, part)
BY DEF HasValues

\* An appended number makes the part longer and not empty.
LEMMA AppendNumber ==
  ASSUME NEW p \in Seq(Nat), NEW v \in Nat
  PROVE  Append(p, v) \in Seq(Nat) /\ Append(p, v) # <<>> /\ Range(Append(p, v)) = Range(p) \cup {v}
<1>1. Append(p, v) \in Seq(Nat) /\ Append(p, v) # <<>>
  <2>1. PICK a : a = Append(p, v)
    OBVIOUS
  <2>2. a \in Seq(Nat) /\ Len(a) = Len(p) + 1 /\ Len(p) \in Nat
    BY <2>1
  <2>3. Len(<<>>) = 0 /\ Len(a) # 0
    BY <2>2
  <2> QED
    BY <2>1, <2>2, <2>3
<1>2. Range(Append(p, v)) = Range(p) \cup {v}
  BY AppendRange
<1> QED
  BY <1>1, <1>2

\* The l-th part of ss gains v.
PartPut(tt, ss, l, v) == tt = [ss EXCEPT ![l] = Append(ss[l], v)]

\* All that the proofs need of PartPut.
PartAfter(tt, ss, l, v) ==
  /\ tt \in Seq(Seq(Nat)) /\ Len(tt) = Len(ss)
  /\ tt[l] # <<>> /\ Range(tt[l]) = Range(ss[l]) \cup {v}
  /\ \A k \in 1 .. Len(ss) : k # l => tt[k] = ss[k]

\* The last part gains a value, the others stay.
LEMMA PartGrows ==
  ASSUME NEW ss \in Seq(Seq(Nat)), NEW l \in 1 .. Len(ss), NEW v \in Nat,
         NEW tt, PartPut(tt, ss, l, v)
  PROVE  PartAfter(tt, ss, l, v)
<1>1. PICK p : p = ss[l]
  OBVIOUS
<1>2. p \in Seq(Nat)
  BY <1>1
<1>3. Append(p, v) \in Seq(Nat) /\ Append(p, v) # <<>> /\ Range(Append(p, v)) = Range(p) \cup {v}
  BY <1>2, AppendNumber
<1>4. PICK q : q = Append(p, v)
  OBVIOUS
<1>5. tt = [ss EXCEPT ![l] = q] /\ q \in Seq(Nat)
  BY <1>1, <1>3, <1>4 DEF PartPut
<1>6. /\ tt \in Seq(Seq(Nat)) /\ Len(tt) = Len(ss) /\ tt[l] = q
      /\ \A k \in 1 .. Len(ss) : k # l => tt[k] = ss[k]
  BY <1>5
<1> QED
  BY <1>1, <1>3, <1>4, <1>6 DEF PartAfter

\* An iteration of splitByZones takes one position to its zone.
LEMMA PutValueFacts ==
  ASSUME NEW item \in Items, NEW P \in Seq(Nat), \A i, j \in 1 .. Len(P) : i < j => P[i] < P[j],
         NEW n \in Nat, n + 1 <= Len(P), P[n + 1] < Offset(wordsCnt(item), Zones + 1),
         NEW s, SplitTo(wordsCnt(item), P, n, s)
  PROVE  SplitTo(wordsCnt(item), P, n + 1, PutValue(s, P[n + 1], wordsCnt(item)))
<1> DEFINE W == wordsCnt(item)
           val == P[n + 1]
           m == Min({z \in s.zi .. Zones : val < Offset(W, z + 1)})
           v == ZonePosition(val, W, m)
           next == PutValue(s, val, W)
           S == s.inZone
           T == next.inZone
<1>1. /\ Len(P) \in Nat /\ n + 1 \in 1 .. Len(P) /\ n \in 0 .. Len(P) /\ val \in Nat /\ Zones \in Nat
      /\ n # 0 => n \in 1 .. Len(P) /\ P[n] \in Nat /\ P[n] < val
  BY TextFacts
<1>2. Offset(W, s.zi) <= val /\ s.zi \in 1 .. Zones
  <2>1. s.zi \in 1 .. Zones
    BY DEF SplitTo
  <2>2. CASE n = 0
    <3>1. s.zi = 1 /\ Offset(W, 1) = 0
      BY <2>2, OffsetFacts DEF SplitTo
    <3> QED
      BY <1>1, <2>1, <3>1
  <2>3. CASE n # 0
    <3>1. Offset(W, s.zi) <= P[n] /\ Offset(W, s.zi) \in Nat
      BY <2>1, <2>3, OffsetFacts DEF SplitTo, InZone
    <3> QED
      BY <1>1, <2>1, <2>3, <3>1
  <2> QED
    BY <2>2, <2>3
<1>3. m \in 1 .. Zones /\ s.zi <= m /\ InZone(W, val, m)
  BY <1>1, <1>2, NextZone
<1>4. next = [zi |-> m, inZone |-> S \cup {m},
              split |-> IF isNewZone(s, m) THEN Append(s.split, <<v>>)
                        ELSE [s.split EXCEPT ![Len(s.split)] = Append(@, v)]]
  BY DEF PutValue
<1> HIDE DEF m
<1>5. Offset(W, m) \in Nat /\ v \in Nat /\ val = Offset(W, m) + v
  <2>1. Offset(W, m) \in Nat /\ Offset(W, m) <= val
    BY <1>3, OffsetFacts DEF InZone
  <2> QED
    BY <1>1, <2>1 DEF ZonePosition
<1>6. /\ S \in SUBSET (1 .. Zones) /\ S \in SUBSET Nat /\ IsFiniteSet(S)
      /\ \A z \in S : z <= s.zi
      /\ S = {z \in 1 .. Zones : \E i \in 1 .. n : InZone(W, P[i], z)}
  <2>1. S = {z \in 1 .. Zones : \E i \in 1 .. n : InZone(W, P[i], z)} /\ \A z \in S : z <= s.zi
    BY DEF SplitTo
  <2>2. S \in SUBSET (1 .. Zones)
    BY <2>1
  <2>3. IsFiniteSet(1 .. Zones) /\ (1 .. Zones) \subseteq Nat
    <3>1. IsFiniteSet(1 .. Zones)
      BY <1>1, FS_Interval
    <3> QED
      BY <3>1
  <2>4. IsFiniteSet(S) /\ S \in SUBSET Nat
    BY <2>2, <2>3, FS_Subset
  <2> QED
    BY <2>1, <2>2, <2>4
<1> HIDE DEF v, next, val
<1>7. s.split \in Seq(Seq(Nat)) /\ Len(s.split) \in Nat /\ Len(s.split) = Cardinality(S)
  BY DEF SplitTo
<1>8. /\ \A k \in 1 .. Len(s.split) : s.split[k] # <<>> /\ s.split[k] \in Seq(Nat)
      /\ \A z \in S : HasValues(W, P, n, z, s.split[Rank(S, z)]) /\ Rank(S, z) \in 1 .. Len(s.split)
  <2>1. \A z \in S : Rank(S, z) \in 1 .. Cardinality(S)
    BY <1>6, RankFacts
  <2>2. \A k \in 1 .. Len(s.split) : s.split[k] \in Seq(Nat)
    BY <1>7
  <2> QED
    BY <1>7, <2>1, <2>2 DEF SplitTo
<1>9. T = {z \in 1 .. Zones : \E i \in 1 .. n + 1 : InZone(W, P[i], z)}
  <2>1. T = S \cup {m}
    BY <1>4
  <2>2. \A z : InZone(W, val, z) => z = m
    BY <1>1, <1>3, OneZone
  <2>3. \A z \in 1 .. Zones : (\E i \in 1 .. n + 1 : InZone(W, P[i], z)) <=>
                              (\E i \in 1 .. n : InZone(W, P[i], z)) \/ InZone(W, val, z)
    <3>1. \A i \in 1 .. n + 1 : i \in 1 .. n \/ i = n + 1
      BY <1>1
    <3>2. n + 1 \in 1 .. n + 1 /\ \A i \in 1 .. n : i \in 1 .. n + 1
      BY <1>1
    <3> QED
      BY <3>1, <3>2 DEF val
  <2> QED
    BY <1>3, <1>6, <2>1, <2>2, <2>3
<1>10. \A z \in S : z # m => HasValues(W, P, n + 1, z, s.split[Rank(S, z)])
  <2>1. \A z : InZone(W, val, z) => z = m
    BY <1>1, <1>3, OneZone
  <2> QED
    BY <1>8, <2>1, ValuesGrow DEF val
<1>11. /\ next.zi = m /\ InZone(W, P[n + 1], next.zi) /\ n + 1 # 0
       /\ T = S \cup {m} /\ \A z \in T : z <= next.zi
  <2>1. \A z \in S : z <= m
    <3>1. s.zi \in Nat /\ m \in Nat /\ s.zi <= m
      BY <1>1, <1>2, <1>3
    <3>2. \A z \in Nat : z <= s.zi => z <= m
      BY <3>1
    <3> QED
      BY <1>6, <3>2
  <2>2. next.zi = m /\ T = S \cup {m}
    BY <1>4
  <2>3. m \in Nat /\ m <= m
    BY <1>1, <1>3
  <2> QED
    BY <1>1, <1>3, <2>1, <2>2, <2>3 DEF val
<1>12. CASE isNewZone(s, m)
  <2>1. \A y \in S : y < m
    <3>1. CASE m # s.zi
      <4>1. s.zi \in Nat /\ m \in Nat /\ s.zi < m
        BY <1>1, <1>2, <1>3, <3>1
      <4>2. \A z \in Nat : z <= s.zi => z < m
        BY <4>1
      <4> QED
        BY <1>6, <4>2
    <3>2. CASE s.split = <<>>
      <4>1. Cardinality(S) = 0
        BY <1>7, <3>2
      <4>2. S = {}
        BY <1>6, <4>1, FS_EmptySet
      <4> QED
        BY <4>2
    <3> QED
      BY <1>12, <3>1, <3>2 DEF isNewZone
  <2>2. next.split = Append(s.split, <<v>>)
    BY <1>4, <1>12
  <2>3. <<v>> \in Seq(Nat) /\ <<v>> # <<>> /\ Range(<<v>>) = {v}
    <3>1. DOMAIN <<v>> = {1} /\ <<v>>[1] = v
      OBVIOUS
    <3>2. <<v>> \in Seq(Nat) /\ <<v>> # <<>>
      BY <1>5
    <3> QED
      BY <3>1, <3>2 DEF Range
  <2>4. /\ next.split \in Seq(Seq(Nat)) /\ Len(next.split) = Len(s.split) + 1
        /\ next.split[Len(s.split) + 1] = <<v>>
        /\ \A k \in 1 .. Len(s.split) : next.split[k] = s.split[k]
    BY <1>7, <2>2, <2>3, AppendFacts
  <2>5. /\ Cardinality(T) = Cardinality(S) + 1 /\ Rank(T, m) = Cardinality(S) + 1
        /\ \A z \in S : Rank(T, z) = Rank(S, z)
    <3>1. m \in Nat /\ S \in SUBSET Nat /\ IsFiniteSet(S)
      BY <1>1, <1>3, <1>6
    <3>2. /\ Cardinality(S \cup {m}) = Cardinality(S) + 1 /\ Rank(S \cup {m}, m) = Cardinality(S) + 1
          /\ \A z \in S : Rank(S \cup {m}, z) = Rank(S, z)
      BY <2>1, <3>1, RankGrows
    <3> QED
      BY <1>11, <3>2
  <2>6. \A k \in 1 .. Len(next.split) : next.split[k] # <<>>
    <3>1. \A k \in 1 .. Len(next.split) : k \in 1 .. Len(s.split) \/ k = Len(s.split) + 1
      BY <1>7, <2>4
    <3> QED
      BY <1>8, <2>3, <2>4, <3>1
  <2>7. ASSUME NEW z \in T PROVE HasValues(W, P, n + 1, z, next.split[Rank(T, z)])
    <3>1. CASE z = m
      <4>1. next.split[Rank(T, z)] = <<v>>
        BY <1>7, <2>4, <2>5, <3>1
      <4>2. \A i \in 1 .. n : ~ InZone(W, P[i], m)
        <5>1. m \notin S
          <6>1. m \in Nat
            BY <1>1, <1>3
          <6> QED
            BY <2>1, <6>1
        <5> QED
          BY <1>3, <1>6, <5>1
      <4>3. Range(<<>>) = {}
        BY DEF Range
      <4>4. HasValues(W, P, n, m, <<>>)
        BY <4>2, <4>3, NoValues
      <4>5. Range(<<v>>) = Range(<<>>) \cup {v}
        BY <2>3, <4>3
      <4>6. HasValues(W, P, n + 1, m, <<v>>)
        BY <1>3, <1>5, <4>4, <4>5, ValuesGrow DEF val
      <4> QED
        BY <3>1, <4>1, <4>6
    <3>2. CASE z # m
      <4>1. z \in S /\ Rank(T, z) = Rank(S, z)
        BY <1>11, <2>5, <3>2
      <4>2. next.split[Rank(T, z)] = s.split[Rank(S, z)]
        BY <1>8, <2>4, <4>1
      <4> QED
        BY <1>10, <3>2, <4>1, <4>2
    <3> QED
      BY <3>1, <3>2
  <2>8. next.zi \in 1 .. Zones /\ Len(next.split) = Cardinality(T)
    BY <1>3, <1>7, <1>11, <2>4, <2>5
  <2>9. SplitTo(W, P, n + 1, next)
    BY <1>9, <1>11, <2>4, <2>6, <2>7, <2>8 DEF SplitTo
  <2> QED
    BY <2>9 DEF next, val
<1>13. CASE ~ isNewZone(s, m)
  <2>1. m = s.zi /\ s.split # <<>>
    BY <1>13 DEF isNewZone
  <2>2. Len(s.split) # 0
    BY <1>7, <2>1
  <2>3. n # 0
    <3>1. CASE n = 0
      <4>1. \A i : i \notin 1 .. n
        BY <3>1
      <4>2. S = {}
        BY <1>6, <4>1
      <4>3. Cardinality(S) = 0
        BY <4>2, FS_EmptySet
      <4> QED
        BY <1>7, <2>2, <4>3
    <3> QED
      BY <3>1
  <2>4. m \in S
    <3>1. InZone(W, P[n], m) /\ n \in 1 .. n
      BY <1>1, <2>1, <2>3 DEF SplitTo
    <3> QED
      BY <1>3, <1>6, <3>1
  <2>5. T = S /\ Rank(S, m) = Len(s.split)
    <3>1. \A y \in S : y <= m
      BY <1>6, <2>1
    <3> QED
      BY <1>6, <1>7, <1>11, <2>4, <3>1, RankFacts
  <2> DEFINE l == Len(s.split)
  <2>6. l \in 1 .. Len(s.split) /\ s.split[l] \in Seq(Nat)
    BY <1>7, <2>2
  <2>7. next.split = [s.split EXCEPT ![l] = Append(s.split[l], v)]
    BY <1>4, <1>13
  <2>8. /\ next.split \in Seq(Seq(Nat)) /\ Len(next.split) = Len(s.split)
        /\ next.split[l] # <<>> /\ Range(next.split[l]) = Range(s.split[l]) \cup {v}
        /\ \A k \in 1 .. Len(s.split) : k # l => next.split[k] = s.split[k]
    <3>1. PICK ss : ss = s.split
      OBVIOUS
    <3>2. PICK k : k = l
      OBVIOUS
    <3>3. ss \in Seq(Seq(Nat)) /\ k \in 1 .. Len(ss)
      BY <1>7, <2>6, <3>1, <3>2
    <3>4. PICK tt : tt = next.split
      OBVIOUS
    <3>5. PartPut(tt, ss, k, v)
      BY <2>7, <3>1, <3>2, <3>4 DEF PartPut
    <3> HIDE DEF l
    <3>6. PartAfter(tt, ss, k, v)
      <4>1. ss \in Seq(Seq(Nat))
        BY <3>3
      <4>2. k \in 1 .. Len(ss)
        BY <3>3
      <4>3. v \in Nat
        BY <1>5
      <4> QED
        BY <4>1, <4>2, <4>3, <3>5, PartGrows
    <3> QED
      BY <3>1, <3>2, <3>4, <3>6 DEF PartAfter
  <2>9. \A k \in 1 .. Len(next.split) : next.split[k] # <<>>
    BY <1>8, <2>8
  <2>10. ASSUME NEW z \in T PROVE HasValues(W, P, n + 1, z, next.split[Rank(T, z)])
    <3>1. CASE z = m
      <4>1. next.split[Rank(T, z)] = next.split[l]
        BY <2>5, <3>1
      <4>2. HasValues(W, P, n, m, s.split[l])
        BY <1>8, <2>4, <2>5
      <4>3. HasValues(W, P, n + 1, m, next.split[l])
        BY <1>3, <1>5, <2>8, <4>2, ValuesGrow DEF val
      <4> QED
        BY <3>1, <4>1, <4>3
    <3>2. CASE z # m
      <4>1. z \in S /\ m \in Nat /\ z \in Nat /\ z <= m
        <5>1. z \in S
          BY <2>5
        <5>2. m \in Nat /\ z \in Nat
          BY <1>1, <1>3, <1>6, <5>1
        <5> QED
          BY <1>6, <2>1, <5>1, <5>2
      <4>2. z < m
        BY <3>2, <4>1
      <4>3. Rank(S, z) # l /\ Rank(S, z) \in 1 .. Len(s.split)
        <5>1. Rank(S, z) < Rank(S, m)
          BY <1>6, <2>4, <4>1, <4>2, RankFacts
        <5> QED
          BY <1>7, <1>8, <2>5, <4>1, <5>1
      <4>4. next.split[Rank(T, z)] = s.split[Rank(S, z)]
        BY <2>5, <2>8, <4>3
      <4> QED
        BY <1>10, <3>2, <4>1, <4>4
    <3> QED
      BY <3>1, <3>2
  <2>11. next.zi \in 1 .. Zones /\ Len(next.split) = Cardinality(T)
    BY <1>3, <1>7, <1>11, <2>5, <2>8
  <2>12. SplitTo(W, P, n + 1, next)
    BY <1>9, <1>11, <2>8, <2>9, <2>10, <2>11 DEF SplitTo
  <2> QED
    BY <2>12 DEF next, val
<1> QED
  BY <1>12, <1>13

\* Before the first position.
FirstPart == [zi |-> 1, inZone |-> {}, split |-> <<>>]

\* parts splits as splitByZones does.
Splits(posting, zwCnt, parts) ==
  parts = [n \in 0 .. Len(posting) |->
             IF n = 0 THEN FirstPart ELSE PutValue(parts[n - 1], posting[n], zwCnt)]

\* There is a function that splits a posting as splitByZones does.
LEMMA SplitRecursion ==
  ASSUME NEW posting, Len(posting) \in Nat, NEW zwCnt
  PROVE  \E parts : Splits(posting, zwCnt, parts)
<1> DEFINE F(m, f) == f = [n \in 0 .. m |->
                             IF n = 0 THEN FirstPart ELSE PutValue(f[n - 1], posting[n], zwCnt)]
           S == {m \in Nat : \E f : F(m, f)}
<1>1. 0 \in S
  <2> DEFINE g == [n \in 0 .. 0 |-> FirstPart]
  <2>1. F(0, g)
    OBVIOUS
  <2> HIDE DEF g, F
  <2> QED
    BY <2>1
<1>2. ASSUME NEW m \in Nat, m \in S PROVE m + 1 \in S
  <2>1. PICK f : F(m, f)
    BY <1>2
  <2> DEFINE g == [n \in 0 .. m + 1 |->
                     IF n = 0 THEN FirstPart ELSE PutValue(f[n - 1], posting[n], zwCnt)]
  <2>2. \A n \in 0 .. m : g[n] = f[n]
    <3>1. \A n \in 0 .. m : f[n] = IF n = 0 THEN FirstPart ELSE PutValue(f[n - 1], posting[n], zwCnt)
      BY <2>1
    <3> QED
      BY <3>1
  <2>3. \A n \in 0 .. m + 1 : n # 0 => n - 1 \in 0 .. m
    OBVIOUS
  <2>4. g = [n \in 0 .. m + 1 |->
               IF n = 0 THEN FirstPart ELSE PutValue(g[n - 1], posting[n], zwCnt)]
    <3>1. \A n \in 0 .. m + 1 : n # 0 => g[n - 1] = f[n - 1]
      BY <2>2, <2>3
    <3> QED
      BY <3>1
  <2>5. F(m + 1, g)
    BY <2>4
  <2> HIDE DEF g, F
  <2> QED
    BY <2>5
<1>3. Nat \subseteq S
  <2> HIDE DEF S
  <2> QED
    BY <1>1, <1>2, NatSets
<1> QED
  BY <1>3 DEF Splits

\* After any number of positions splitByZones has them split by zones.
LEMMA SplitsTo ==
  ASSUME NEW item \in Items, NEW P \in Seq(Nat), \A i, j \in 1 .. Len(P) : i < j => P[i] < P[j],
         \A i \in 1 .. Len(P) : P[i] < Offset(wordsCnt(item), Zones + 1)
  PROVE  SplitTo(wordsCnt(item), P, Len(P), splitByZones(P, wordsCnt(item)))
<1> DEFINE W == wordsCnt(item)
<1>1. Len(P) \in Nat
  OBVIOUS
<1>2. PICK parts : Splits(P, W, parts) /\ splitByZones(P, W) = parts[Len(P)]
  <2>1. Splits(P, W, CHOOSE f : Splits(P, W, f))
    BY <1>1, SplitRecursion
  <2>2. splitByZones(P, W) = (CHOOSE f : Splits(P, W, f))[Len(P)]
    BY DEF splitByZones, Splits, FirstPart
  <2> QED
    BY <2>1, <2>2
<1> HIDE DEF W
<1>3. /\ parts[0] = FirstPart
      /\ \A n \in Nat : n + 1 <= Len(P) => parts[n + 1] = PutValue(parts[n], P[n + 1], W)
  <2>1. \A n \in 0 .. Len(P) :
          parts[n] = IF n = 0 THEN FirstPart ELSE PutValue(parts[n - 1], P[n], W)
    BY <1>2 DEF Splits
  <2>2. \A n \in Nat : (n + 1) - 1 = n /\ n + 1 # 0
    OBVIOUS
  <2>3. \A n \in Nat : n + 1 <= Len(P) => n + 1 \in 0 .. Len(P)
    BY <1>1
  <2> QED
    BY <1>1, <2>1, <2>2, <2>3
<1> DEFINE S == {n \in Nat : n <= Len(P) => SplitTo(W, P, n, parts[n])}
<1>4. 0 \in S
  <2>1. FirstPart.zi = 1 /\ FirstPart.inZone = {} /\ FirstPart.split = <<>>
    BY DEF FirstPart
  <2>2. Len(<<>>) = 0 /\ <<>> \in Seq(Seq(Nat)) /\ Cardinality({}) = 0
    BY FS_EmptySet
  <2>3. 1 \in 1 .. Zones
    BY TextFacts
  <2>4. \A i : i \notin 1 .. 0
    OBVIOUS
  <2>5. {z \in 1 .. Zones : \E i \in 1 .. 0 : InZone(W, P[i], z)} = {}
    BY <2>4
  <2>6. SplitTo(W, P, 0, FirstPart)
    BY <2>1, <2>2, <2>3, <2>4, <2>5 DEF SplitTo
  <2> QED
    BY <1>3, <2>6
<1>5. ASSUME NEW n \in Nat, n \in S PROVE n + 1 \in S
  <2>1. ASSUME n + 1 <= Len(P) PROVE SplitTo(W, P, n + 1, parts[n + 1])
    <3>1. n <= Len(P) /\ n + 1 \in 1 .. Len(P)
      BY <1>1, <2>1
    <3>2. SplitTo(W, P, n, parts[n])
      BY <1>5, <3>1
    <3>3. PICK s : s = parts[n]
      OBVIOUS
    <3>4. SplitTo(W, P, n + 1, PutValue(s, P[n + 1], W))
      BY <2>1, <3>1, <3>2, <3>3, PutValueFacts DEF W
    <3> QED
      BY <1>3, <2>1, <3>3, <3>4
  <2> QED
    BY <2>1
<1>6. Nat \subseteq S
  <2> HIDE DEF S
  <2> QED
    BY <1>4, <1>5, NatSets
<1> QED
  BY <1>1, <1>2, <1>6 DEF W

\* Where tok is in zone z of the item.
IsAt(item, tok, z, v) == v \in Nat /\ v + 1 \in 1 .. Len(item.text[z]) /\ item.text[z][v + 1] = tok

\* A token is in a zone where its posting says, shifted by where the zone begins.
LEMMA PlacesInZone ==
  ASSUME NEW item \in Items, NEW tok, NEW z \in 1 .. Zones
  PROVE  LET P == Posting(item, tok)
             W == wordsCnt(item)
         IN /\ \A p \in Range(P) : InZone(W, p, z) =>
                 \E v \in Nat : p = Offset(W, z) + v /\ IsAt(item, tok, z, v)
            /\ \A v : IsAt(item, tok, z, v) =>
                 Offset(W, z) + v \in Range(P) /\ InZone(W, Offset(W, z) + v, z)
<1> DEFINE P == Posting(item, tok)
           W == wordsCnt(item)
           words == AllWords(item)
           O == Offset(W, z)
           t == item.text[z]
<1>1. /\ O \in Nat /\ Offset(W, z + 1) \in Nat /\ Offset(W, z + 1) = O + Len(t) /\ Len(t) \in Nat
      /\ DOMAIN words = 1 .. Len(words) /\ Len(words) \in Nat
      /\ \A i \in 1 .. Len(t) : O + i \in DOMAIN words /\ words[O + i] = t[i]
  <2>1. O \in Nat /\ Offset(W, z + 1) \in Nat /\ Offset(W, z + 1) = O + Len(t)
    BY OffsetFacts
  <2>2. Len(t) \in Nat
    BY TextFacts
  <2>3. words \in Seq(Words) /\ \A i \in 1 .. Len(t) : O + i \in DOMAIN words /\ words[O + i] = t[i]
    BY WordsFacts
  <2>4. DOMAIN words = 1 .. Len(words) /\ Len(words) \in Nat
    BY <2>3
  <2> QED
    BY <2>1, <2>2, <2>3, <2>4
<1>2. \A p : p \in Range(P) <=> p \in Nat /\ p + 1 \in 1 .. Len(words) /\ words[p + 1] = tok
  BY PostingFacts
<1> HIDE DEF P, words, O, t
<1>3. ASSUME NEW p \in Range(P), InZone(W, p, z)
      PROVE  \E v \in Nat : p = O + v /\ IsAt(item, tok, z, v)
  <2>1. p \in Nat /\ O <= p /\ p < Offset(W, z + 1) /\ words[p + 1] = tok
    BY <1>2, <1>3 DEF InZone, O
  <2>2. PICK v \in Nat : p = O + v /\ v + 1 \in 1 .. Len(t) /\ O + (v + 1) = p + 1
    <3>1. p \in Nat /\ O \in Nat /\ O <= p /\ Len(t) \in Nat /\ p < O + Len(t)
      BY <1>1, <2>1
    <3>2. PICK d \in Nat : d = p - O
      BY <3>1
    <3>3. p = O + d /\ d < Len(t) /\ d + 1 \in 1 .. Len(t) /\ O + (d + 1) = p + 1
      BY <3>1, <3>2
    <3> QED
      BY <3>3
  <2>3. t[v + 1] = tok
    BY <1>1, <2>1, <2>2
  <2> QED
    BY <2>2, <2>3 DEF IsAt, t
<1>4. ASSUME NEW v, IsAt(item, tok, z, v) PROVE O + v \in Range(P) /\ InZone(W, O + v, z)
  <2>1. v \in Nat /\ v + 1 \in 1 .. Len(t) /\ t[v + 1] = tok
    BY <1>4 DEF IsAt, t
  <2>2. O + v \in Nat /\ O + (v + 1) = (O + v) + 1 /\ O <= O + v /\ O + v < Offset(W, z + 1)
    <3>1. v \in Nat /\ O \in Nat /\ Len(t) \in Nat /\ v + 1 <= Len(t) /\ Offset(W, z + 1) = O + Len(t)
      BY <1>1, <2>1
    <3> QED
      BY <3>1
  <2>3. (O + v) + 1 \in 1 .. Len(words) /\ words[(O + v) + 1] = tok
    BY <1>1, <2>1, <2>2
  <2> QED
    BY <1>2, <2>2, <2>3 DEF InZone, O
<1> QED
  BY <1>3, <1>4 DEF P, O

\* What splitByZones makes of a posting.
IsSplit(item, tok, s) ==
  /\ s.split \in Seq(Seq(Nat)) /\ Len(s.split) = Cardinality(s.inZone)
  /\ s.inZone = {z \in 1 .. Zones : \E v : IsAt(item, tok, z, v)}
  /\ \A k \in 1 .. Len(s.split) : s.split[k] # <<>>
  /\ \A z \in s.inZone : /\ Rank(s.inZone, z) \in 1 .. Len(s.split)
                         /\ \A v : v \in Range(s.split[Rank(s.inZone, z)]) <=> IsAt(item, tok, z, v)

\* splitByZones of a posting has a part for every zone the token is in, with the
\* places in that zone: no zone is lost at a boundary or behind an empty zone.
LEMMA SplitFacts ==
  ASSUME NEW item \in Items, NEW tok
  PROVE  IsSplit(item, tok, splitByZones(Posting(item, tok), wordsCnt(item)))
<1> DEFINE P == Posting(item, tok)
           W == wordsCnt(item)
           s == splitByZones(P, W)
           n == Len(P)
<1>1. /\ P \in Seq(Nat) /\ n \in Nat /\ \A i, j \in 1 .. n : i < j => P[i] < P[j]
      /\ \A p : p \in Range(P) <=> p \in Nat /\ p + 1 \in 1 .. Len(AllWords(item)) /\ AllWords(item)[p + 1] = tok
  BY PostingFacts
<1>2. DOMAIN P = 1 .. n /\ \A p : p \in Range(P) <=> \E i \in 1 .. n : P[i] = p
  BY <1>1 DEF Range
<1>3. \A i \in 1 .. n : P[i] < Offset(W, Zones + 1)
  <2>1. Len(AllWords(item)) = Offset(W, Zones + 1) /\ Offset(W, Zones + 1) \in Nat
    BY WordsFacts, OffsetFacts, TextFacts
  <2>2. \A i \in 1 .. n : P[i] \in Nat /\ P[i] + 1 \in 1 .. Len(AllWords(item))
    BY <1>1, <1>2
  <2> QED
    BY <2>1, <2>2
<1>4. SplitTo(W, P, n, s)
  BY <1>1, <1>3, SplitsTo
<1>5. \A z \in 1 .. Zones :
        /\ Offset(W, z) \in Nat
        /\ \A p \in Range(P) : InZone(W, p, z) => \E v \in Nat : p = Offset(W, z) + v /\ IsAt(item, tok, z, v)
        /\ \A v : IsAt(item, tok, z, v) => Offset(W, z) + v \in Range(P) /\ InZone(W, Offset(W, z) + v, z)
  BY OffsetFacts, PlacesInZone
<1> HIDE DEF P, W, s, n
<1>6. s.inZone = {z \in 1 .. Zones : \E v : IsAt(item, tok, z, v)}
  <2>1. \A z \in 1 .. Zones : (\E i \in 1 .. n : InZone(W, P[i], z)) <=> \E v : IsAt(item, tok, z, v)
    BY <1>2, <1>5
  <2>2. s.inZone = {z \in 1 .. Zones : \E i \in 1 .. n : InZone(W, P[i], z)}
    BY <1>4 DEF SplitTo
  <2> QED
    BY <2>1, <2>2
<1>7. /\ s.split \in Seq(Seq(Nat)) /\ Len(s.split) = Cardinality(s.inZone)
      /\ \A k \in 1 .. Len(s.split) : s.split[k] # <<>>
  BY <1>4 DEF SplitTo
<1>8. ASSUME NEW z \in s.inZone PROVE Rank(s.inZone, z) \in 1 .. Len(s.split)
  <2>1. Zones \in Nat
    BY TextFacts
  <2>2. IsFiniteSet(1 .. Zones) /\ 1 .. Zones \in SUBSET Nat
    BY <2>1, FS_Interval
  <2>3. s.inZone \in SUBSET (1 .. Zones)
    BY <1>6
  <2>4. IsFiniteSet(s.inZone) /\ s.inZone \in SUBSET Nat
    BY <2>2, <2>3, FS_Subset
  <2>5. Rank(s.inZone, z) \in 1 .. Cardinality(s.inZone)
    BY <2>4, RankFacts
  <2> QED
    BY <1>7, <2>5
<1>9. ASSUME NEW z \in s.inZone, NEW v
      PROVE  v \in Range(s.split[Rank(s.inZone, z)]) <=> IsAt(item, tok, z, v)
  <2>1. z \in 1 .. Zones
    BY <1>6
  <2>2. v \in Range(s.split[Rank(s.inZone, z)]) <=>
          v \in Nat /\ \E i \in 1 .. n : InZone(W, P[i], z) /\ P[i] = Offset(W, z) + v
    BY <1>4 DEF SplitTo, HasValues
  <2>3. ASSUME v \in Nat, NEW i \in 1 .. n, InZone(W, P[i], z), P[i] = Offset(W, z) + v
        PROVE  IsAt(item, tok, z, v)
    <3>1. PICK u \in Nat : P[i] = Offset(W, z) + u /\ IsAt(item, tok, z, u)
      BY <1>2, <1>5, <2>1, <2>3
    <3>2. Offset(W, z) \in Nat
      BY <1>5, <2>1
    <3>3. u = v
      BY <2>3, <3>1, <3>2
    <3> QED
      BY <3>1, <3>3
  <2>4. ASSUME IsAt(item, tok, z, v)
        PROVE  v \in Nat /\ \E i \in 1 .. n : InZone(W, P[i], z) /\ P[i] = Offset(W, z) + v
    <3>1. v \in Nat
      BY <2>4 DEF IsAt
    <3> QED
      BY <1>2, <1>5, <2>1, <2>4, <3>1
  <2> QED
    BY <2>2, <2>3, <2>4
<1> QED
  BY <1>6, <1>7, <1>8, <1>9 DEF IsSplit, P, W, s

-----------------------------------------------------------------------------
(* What an entry says is read from the file, which only grows.             *)

\* FullPosting of zone z, from file F.
PartIn(F, e, z) ==
  IF z \notin e.inZone THEN <<>>
  ELSE SubSeq(F, e.postingOffset + Total(e.postingSizes, Rank(e.inZone, z) - 1) + 1,
                 e.postingOffset + Total(e.postingSizes, Rank(e.inZone, z) - 1)
                   + e.postingSizes[Rank(e.inZone, z)])

\* The entry has a size for each of its zones and lies inside the file F.
Fits(e, F) == /\ e \in Entry /\ Len(e.postingSizes) = Cardinality(e.inZone)
              /\ e.postingOffset + Total(e.postingSizes, Len(e.postingSizes)) <= Len(F)

\* File G begins with file F.
Extends(G, F) == Len(F) <= Len(G) /\ \A p \in 1 .. Len(F) : G[p] = F[p]

\* What SubSeq takes out.
LEMMA SubSeqFacts ==
  ASSUME NEW X, NEW F \in Seq(X), NEW a \in Nat, NEW n \in Nat, a + n <= Len(F)
  PROVE  /\ SubSeq(F, a + 1, a + n) = [i \in 1 .. n |-> F[a + i]]
         /\ \A x : x \in Range(SubSeq(F, a + 1, a + n)) <=> \E i \in 1 .. n : x = F[a + i]
<1>1. SubSeq(F, a + 1, a + n) = [i \in 1 .. n |-> F[a + i]]
  <2>1. \A i \in 1 .. n : a + i \in 1 .. Len(F)
    OBVIOUS
  <2>2. /\ Len(SubSeq(F, a + 1, a + n)) = n
        /\ \A i \in 1 .. n : SubSeq(F, a + 1, a + n)[i] = F[a + i]
        /\ SubSeq(F, a + 1, a + n) \in Seq(X)
    BY SMTT(30)
  <2> DEFINE s == SubSeq(F, a + 1, a + n)
             t == [i \in 1 .. n |-> F[a + i]]
  <2>3. t \in [1 .. n -> X]
    BY <2>1
  <2>4. t \in Seq(X) /\ Len(t) = n
    BY <2>3, FunctionIsSeq
  <2>5. DOMAIN s = 1 .. n /\ s = [i \in 1 .. n |-> s[i]]
    BY <2>2
  <2> QED
    BY <2>2, <2>5
<1> QED
  BY <1>1 DEF Range

\* The part of a zone lies inside the file.
LEMMA EntryFacts ==
  ASSUME NEW e \in Entry, Len(e.postingSizes) = Cardinality(e.inZone)
  PROVE  /\ e.postingOffset \in Nat /\ e.docIdOffset \in Nat
         /\ e.postingSizes \in Seq(Nat) /\ Len(e.postingSizes) \in Nat
         /\ e.inZone \in SUBSET (1 .. Zones) /\ IsFiniteSet(e.inZone)
         /\ \A z \in e.inZone : Rank(e.inZone, z) \in 1 .. Len(e.postingSizes)
         /\ \A k \in 1 .. Len(e.postingSizes) :
              /\ e.postingSizes[k] \in Nat /\ Total(e.postingSizes, k - 1) \in Nat
              /\ Total(e.postingSizes, k - 1) + e.postingSizes[k] <= Total(e.postingSizes, Len(e.postingSizes))
         /\ Total(e.postingSizes, Len(e.postingSizes)) \in Nat
<1>1. /\ e.postingOffset \in Nat /\ e.docIdOffset \in Nat
      /\ e.postingSizes \in Seq(Nat \ {0}) /\ e.inZone \in SUBSET (1 .. Zones)
  BY DEF Entry
<1> DEFINE sizes == e.postingSizes
           S == e.inZone
<1>2. sizes \in Seq(Nat) /\ Len(sizes) \in Nat
  BY <1>1
<1>3. IsFiniteSet(S) /\ S \in SUBSET Nat
  <2>1. Zones \in Nat
    BY ZonesAssumption
  <2>2. IsFiniteSet(1 .. Zones)
    BY <2>1, FS_Interval
  <2>3. 1 .. Zones \in SUBSET Nat
    BY <2>1
  <2> QED
    BY <1>1, <2>2, <2>3, FS_Subset
<1>4. \A z \in S : Rank(S, z) \in 1 .. Len(sizes)
  BY <1>3, RankFacts
<1> HIDE DEF sizes
<1>5. ASSUME NEW k \in 1 .. Len(sizes)
      PROVE  /\ sizes[k] \in Nat /\ Total(sizes, k - 1) \in Nat
             /\ Total(sizes, k - 1) + sizes[k] <= Total(sizes, Len(sizes))
  <2>1. k - 1 \in 0 .. Len(sizes) /\ k \in 0 .. Len(sizes) /\ Len(sizes) \in 0 .. Len(sizes)
    BY <1>2
  <2>2. Total(sizes, k) = Total(sizes, k - 1) + sizes[k] /\ Total(sizes, k - 1) \in Nat
    BY <1>2, <2>1, TotalFacts
  <2>3. Total(sizes, k) <= Total(sizes, Len(sizes))
    BY <1>2, <2>1, TotalFacts
  <2>4. sizes[k] \in Nat
    BY <1>2
  <2> QED
    BY <2>2, <2>3, <2>4
<1>6. Total(sizes, Len(sizes)) \in Nat
  <2>1. Len(sizes) \in 0 .. Len(sizes)
    BY <1>2
  <2> QED
    BY <1>2, <2>1, TotalFacts
<1> QED
  BY <1>1, <1>2, <1>3, <1>4, <1>5, <1>6 DEF sizes

\* What an entry says stays when the file grows.
LEMMA FitsGrows ==
  ASSUME NEW F \in Seq(Nat), NEW G \in Seq(Nat), Extends(G, F), NEW e, Fits(e, F)
  PROVE  Fits(e, G) /\ \A z : PartIn(G, e, z) = PartIn(F, e, z)
<1>1. /\ e \in Entry /\ Len(e.postingSizes) = Cardinality(e.inZone)
      /\ e.postingOffset + Total(e.postingSizes, Len(e.postingSizes)) <= Len(F)
      /\ Len(F) <= Len(G) /\ Len(F) \in Nat /\ Len(G) \in Nat
      /\ \A p \in 1 .. Len(F) : G[p] = F[p]
  BY DEF Fits, Extends
<1>2. Fits(e, G)
  <2>1. e.postingOffset \in Nat /\ Total(e.postingSizes, Len(e.postingSizes)) \in Nat
    BY <1>1, EntryFacts
  <2>2. e.postingOffset + Total(e.postingSizes, Len(e.postingSizes)) <= Len(G)
    BY <1>1, <2>1
  <2> QED
    BY <1>1, <2>2 DEF Fits
<1>3. ASSUME NEW z PROVE PartIn(G, e, z) = PartIn(F, e, z)
  <2>1. CASE z \notin e.inZone
    BY <2>1 DEF PartIn
  <2>2. CASE z \in e.inZone
    <3> DEFINE k == Rank(e.inZone, z)
               a == e.postingOffset + Total(e.postingSizes, k - 1)
               n == e.postingSizes[k]
    <3>1. a \in Nat /\ n \in Nat /\ a + n <= Len(F)
      <4>1. k \in 1 .. Len(e.postingSizes)
        BY <1>1, <2>2, EntryFacts
      <4> HIDE DEF k
      <4>2. /\ n \in Nat /\ Total(e.postingSizes, k - 1) \in Nat /\ e.postingOffset \in Nat
            /\ Total(e.postingSizes, k - 1) + n <= Total(e.postingSizes, Len(e.postingSizes))
            /\ Total(e.postingSizes, Len(e.postingSizes)) \in Nat
        BY <1>1, <4>1, EntryFacts
      <4> QED
        BY <1>1, <4>2
    <3> HIDE DEF k, a, n
    <3>2. a + n <= Len(G) /\ \A i \in 1 .. n : a + i \in 1 .. Len(F)
      BY <1>1, <3>1
    <3>3. /\ SubSeq(F, a + 1, a + n) = [i \in 1 .. n |-> F[a + i]]
          /\ SubSeq(G, a + 1, a + n) = [i \in 1 .. n |-> G[a + i]]
      BY <3>1, <3>2, SubSeqFacts
    <3>4. SubSeq(G, a + 1, a + n) = SubSeq(F, a + 1, a + n)
      BY <1>1, <3>2, <3>3
    <3> QED
      BY <2>2, <3>4 DEF PartIn, k, a, n
  <2> QED
    BY <2>1, <2>2
<1> QED
  BY <1>2, <1>3

\* e says where tok is in the item, which is document d.
IsEntry(e, F, item, tok, d) ==
  /\ Fits(e, F) /\ e.docIdOffset = d
  /\ \A z \in 1 .. Zones : \A v : v \in Range(PartIn(F, e, z)) <=> IsAt(item, tok, z, v)

\* Two sequences, one behind the other.
LEMMA JoinFacts ==
  ASSUME NEW X, NEW s \in Seq(X), NEW t \in Seq(X)
  PROVE  /\ s \o t \in Seq(X) /\ Len(s \o t) = Len(s) + Len(t)
         /\ \A i \in 1 .. Len(s) : (s \o t)[i] = s[i]
         /\ \A i \in 1 .. Len(t) : (s \o t)[Len(s) + i] = t[i]
<1>1. s \o t \in Seq(X) /\ Len(s \o t) = Len(s) + Len(t) /\ Len(s) \in Nat /\ Len(t) \in Nat
  OBVIOUS
<1>2. \A i \in 1 .. Len(s) : (s \o t)[i] = s[i]
  OBVIOUS
<1>3. ASSUME NEW i \in 1 .. Len(t) PROVE (s \o t)[Len(s) + i] = t[i]
  OBVIOUS
<1> QED
  BY <1>1, <1>2, <1>3

\* The parts of a posting written behind a file make an entry.
LEMMA EntryWritten ==
  ASSUME NEW item \in Items, NEW tok, NEW parts, IsSplit(item, tok, parts),
         NEW F \in Seq(Nat), NEW d \in Nat, NEW e,
         e = [docIdOffset |-> d, postingOffset |-> Len(F), inZone |-> parts.inZone,
              postingSizes |-> [k \in DOMAIN parts.split |-> Len(parts.split[k])]]
  PROVE  IsEntry(e, F \o FlattenSeq(parts.split), item, tok, d)
<1> DEFINE ss == parts.split
           S == parts.inZone
           L == Lengths(ss)
           flat == FlattenSeq(ss)
           G == F \o flat
<1>1. /\ ss \in Seq(Seq(Nat)) /\ Len(ss) = Cardinality(S)
      /\ S = {z \in 1 .. Zones : \E v : IsAt(item, tok, z, v)}
      /\ \A k \in 1 .. Len(ss) : ss[k] # <<>>
      /\ \A z \in S : /\ Rank(S, z) \in 1 .. Len(ss)
                      /\ \A v : v \in Range(ss[Rank(S, z)]) <=> IsAt(item, tok, z, v)
  BY DEF IsSplit
<1>2. /\ e.docIdOffset = d /\ e.postingOffset = Len(F) /\ e.inZone = S
      /\ e.postingSizes = [k \in DOMAIN ss |-> Len(ss[k])]
      /\ e = [docIdOffset |-> d, postingOffset |-> Len(F), inZone |-> S, postingSizes |-> e.postingSizes]
  OBVIOUS
<1> HIDE DEF ss, S
<1>3. /\ L \in Seq(Nat) /\ Len(L) = Len(ss) /\ Len(ss) \in Nat /\ DOMAIN ss = 1 .. Len(ss)
      /\ \A k \in 1 .. Len(ss) : ss[k] \in Seq(Nat) /\ Len(ss[k]) \in Nat /\ L[k] = Len(ss[k])
  <2>1. DOMAIN ss = 1 .. Len(ss)
    BY <1>1
  <2> QED
    BY <1>1, <2>1, LengthsType
<1>4. e.postingSizes = L
  BY <1>2, <1>3 DEF Lengths
<1>5. flat \in Seq(Nat) /\ Follows(ss, Len(ss), flat)
  BY <1>1, FlattenFacts
<1>6. /\ Len(flat) = Total(L, Len(ss)) /\ Len(flat) \in Nat
      /\ \A k \in 1 .. Len(ss) : \A i \in 1 .. Len(ss[k]) :
           /\ Total(L, k - 1) + i \in DOMAIN flat
           /\ flat[Total(L, k - 1) + i] = ss[k][i]
  BY <1>5 DEF Follows
<1> HIDE DEF L, flat
<1>7. /\ G \in Seq(Nat) /\ Len(G) = Len(F) + Len(flat) /\ Len(F) \in Nat
      /\ \A i \in 1 .. Len(flat) : G[Len(F) + i] = flat[i]
  BY <1>5, JoinFacts
<1> HIDE DEF G
<1>8. Fits(e, G)
  <2>1. \A k \in 1 .. Len(ss) : L[k] \in Nat \ {0}
    <3>1. ASSUME NEW k \in 1 .. Len(ss) PROVE Len(ss[k]) # 0
      <4>1. PICK s : s = ss[k]
        OBVIOUS
      <4>2. s \in Seq(Nat) /\ s # <<>>
        BY <1>1, <1>3, <4>1
      <4>3. Len(s) # 0
        BY <4>2
      <4> QED
        BY <4>1, <4>3
    <3> QED
      BY <1>3, <3>1
  <2>2. L \in Seq(Nat \ {0})
    <3>1. L \in [1 .. Len(ss) -> Nat \ {0}]
      <4>1. L = [k \in 1 .. Len(ss) |-> L[k]]
        BY <1>3
      <4> QED
        BY <2>1, <4>1
    <3> QED
      BY <1>3, <3>1, FunctionIsSeq
  <2>3. S \in SUBSET (1 .. Zones)
    BY <1>1
  <2>4. e \in Entry
    BY <1>2, <1>4, <1>7, <2>2, <2>3 DEF Entry
  <2>5. Len(e.postingSizes) = Cardinality(e.inZone)
    BY <1>1, <1>2, <1>3, <1>4
  <2>6. e.postingOffset + Total(e.postingSizes, Len(e.postingSizes)) <= Len(G)
    <3>1. Total(e.postingSizes, Len(e.postingSizes)) = Len(flat)
      BY <1>3, <1>4, <1>6
    <3>2. Len(G) = e.postingOffset + Len(flat) /\ Len(G) \in Nat
      BY <1>2, <1>7
    <3> QED
      BY <3>1, <3>2
  <2> QED
    BY <2>4, <2>5, <2>6 DEF Fits
<1>9. ASSUME NEW z \in 1 .. Zones, NEW v PROVE v \in Range(PartIn(G, e, z)) <=> IsAt(item, tok, z, v)
  <2>1. CASE z \notin S
    <3>1. PartIn(G, e, z) = <<>> /\ Range(<<>>) = {}
      BY <1>2, <2>1 DEF PartIn, Range
    <3> QED
      BY <1>1, <2>1, <3>1
  <2>2. CASE z \in S
    <3> DEFINE k == Rank(S, z)
               a == Len(F) + Total(L, k - 1)
               n == L[k]
    <3>1. k \in 1 .. Len(ss)
      BY <1>1, <2>2
    <3>2. PartIn(G, e, z) = SubSeq(G, a + 1, a + n)
      BY <1>2, <1>4, <2>2 DEF PartIn
    <3> HIDE DEF k
    <3>3. n \in Nat /\ Total(L, k - 1) \in Nat /\ Total(L, k - 1) + n <= Len(flat)
      <4>1. e \in Entry /\ Len(e.postingSizes) = Cardinality(e.inZone)
        BY <1>8 DEF Fits
      <4>2. /\ n \in Nat /\ Total(L, k - 1) \in Nat
            /\ Total(L, k - 1) + n <= Total(L, Len(L))
        BY <1>3, <1>4, <3>1, <4>1, EntryFacts
      <4> QED
        BY <1>3, <1>6, <4>2
    <3>4. a \in Nat /\ a + n <= Len(G)
      BY <1>6, <1>7, <3>3
    <3>5. \A x : x \in Range(SubSeq(G, a + 1, a + n)) <=> \E i \in 1 .. n : x = G[a + i]
      <4> HIDE DEF a, n
      <4>1. a \in Nat /\ n \in Nat
        BY <3>3, <3>4
      <4>2. G \in Seq(Nat) /\ a + n <= Len(G)
        BY <1>7, <3>4
      <4> QED
        BY <4>1, <4>2, SubSeqFacts
    <3>6. \A i \in 1 .. n : G[a + i] = ss[k][i]
      <4> SUFFICES ASSUME NEW i \in 1 .. n PROVE G[a + i] = ss[k][i]
        OBVIOUS
      <4>1. Total(L, k - 1) + i \in 1 .. Len(flat) /\ flat[Total(L, k - 1) + i] = ss[k][i]
        <5>1. n = Len(ss[k]) /\ DOMAIN flat = 1 .. Len(flat)
          BY <1>3, <1>5, <3>1
        <5> QED
          BY <1>6, <3>1, <5>1
      <4>2. G[Len(F) + (Total(L, k - 1) + i)] = ss[k][i]
        BY <1>7, <4>1
      <4>3. Len(F) + (Total(L, k - 1) + i) = a + i
        BY <1>7, <3>3
      <4> QED
        BY <4>2, <4>3
    <3>7. \A x : x \in Range(ss[k]) <=> \E i \in 1 .. n : x = ss[k][i]
      <4>1. DOMAIN ss[k] = 1 .. n
        BY <1>3, <3>1
      <4> QED
        BY <4>1, SMTT(30) DEF Range
    <3>8. Range(PartIn(G, e, z)) = Range(ss[k])
      <4> HIDE DEF a, n
      <4>1. \A x : (\E i \in 1 .. n : x = G[a + i]) <=> (\E i \in 1 .. n : x = ss[k][i])
        BY <3>6
      <4>2. \A x : x \in Range(PartIn(G, e, z)) <=> x \in Range(ss[k])
        BY <3>2, <3>5, <3>7, <4>1
      <4> QED
        BY <4>2
    <3> QED
      BY <1>1, <2>2, <3>8 DEF k
  <2> QED
    BY <2>1, <2>2
<1> QED
  BY <1>2, <1>8, <1>9 DEF IsEntry, G, flat, ss

\* next is s with an entry for tok, read from the longer file.
EntryAdded(next, s, item, tok, d) ==
  /\ next.file \in Seq(Nat) /\ next.size = Len(next.file) /\ Extends(next.file, s.file)
  /\ \E e : /\ IsEntry(e, next.file, item, tok, d)
            /\ next.inv = [s.inv EXCEPT ![tok] = Append(s.inv[tok], e)]

\* AddEntry leaves all other tokens and all that was written.
LEMMA AddEntryFacts ==
  ASSUME NEW item \in Items, NEW tok, NEW s, s.file \in Seq(Nat), s.size = Len(s.file), Len(docStore) \in Nat
  PROVE  EntryAdded(AddEntry(s, item, tok), s, item, tok, Len(docStore))
<1> DEFINE parts == splitByZones(Posting(item, tok), wordsCnt(item))
           flat == FlattenSeq(parts.split)
           e == [docIdOffset |-> NextDoc, postingOffset |-> s.size, inZone |-> parts.inZone,
                 postingSizes |-> [k \in DOMAIN parts.split |-> Len(parts.split[k])]]
           next == AddEntry(s, item, tok)
<1>1. IsSplit(item, tok, parts)
  BY SplitFacts
<1>2. /\ next.inv = [s.inv EXCEPT ![tok] = Append(s.inv[tok], e)]
      /\ next.file = s.file \o flat /\ next.size = s.size + Len(flat)
  BY DEF AddEntry
<1> HIDE DEF parts, next
<1>3. flat \in Seq(Nat)
  <2>1. parts.split \in Seq(Seq(Nat))
    BY <1>1 DEF IsSplit
  <2> QED
    BY <2>1, FlattenFacts
<1>4. IsEntry(e, next.file, item, tok, Len(docStore))
  BY <1>1, <1>2, EntryWritten DEF NextDoc
<1> HIDE DEF flat, e
<1>5. next.file \in Seq(Nat) /\ next.size = Len(next.file) /\ Extends(next.file, s.file)
  <2>1. PICK F : F = s.file
    OBVIOUS
  <2>2. F \in Seq(Nat) /\ s.size = Len(F) /\ Len(F) \in Nat /\ Len(flat) \in Nat
    BY <1>3, <2>1
  <2>3. /\ next.file \in Seq(Nat) /\ Len(next.file) = Len(F) + Len(flat)
        /\ \A i \in 1 .. Len(F) : next.file[i] = F[i]
    BY <1>2, <1>3, <2>1, <2>2, JoinFacts
  <2> QED
    BY <1>2, <2>1, <2>2, <2>3 DEF Extends
<1> QED
  BY <1>2, <1>4, <1>5 DEF EntryAdded, next

-----------------------------------------------------------------------------
(* _extractTextZones: whatever the order of its tokens, a document gets an *)
(* entry for every token it has.                                           *)

\* An entry stays the entry of its token when the file grows.
LEMMA EntryGrows ==
  ASSUME NEW F \in Seq(Nat), NEW G \in Seq(Nat), Extends(G, F),
         NEW e, NEW item, NEW tok, NEW d, IsEntry(e, F, item, tok, d)
  PROVE  IsEntry(e, G, item, tok, d)
<1>1. Fits(e, F) /\ e.docIdOffset = d
  BY DEF IsEntry
<1>2. Fits(e, G) /\ \A z : PartIn(G, e, z) = PartIn(F, e, z)
  BY <1>1, FitsGrows
<1> QED
  BY <1>1, <1>2 DEF IsEntry

\* A file extended twice is extended.
LEMMA ExtendsOn ==
  ASSUME NEW F \in Seq(Nat), NEW G \in Seq(Nat), NEW H \in Seq(Nat), Extends(G, F), Extends(H, G)
  PROVE  Extends(H, F)
<1>1. Len(F) \in Nat /\ Len(G) \in Nat /\ Len(H) \in Nat /\ Len(F) <= Len(G) /\ Len(G) <= Len(H)
  BY DEF Extends
<1>2. Len(F) <= Len(H) /\ \A p \in 1 .. Len(F) : p \in 1 .. Len(G)
  BY <1>1
<1>3. (\A p \in 1 .. Len(F) : G[p] = F[p]) /\ (\A p \in 1 .. Len(G) : H[p] = G[p])
  BY DEF Extends
<1>4. \A p \in 1 .. Len(F) : H[p] = F[p]
  <2> TAKE p \in 1 .. Len(F)
  <2>1. p \in 1 .. Len(G)
    BY <1>2
  <2>2. G[p] = F[p] /\ H[p] = G[p]
    BY <1>3, <2>1
  <2> QED
    BY <2>2
<1> QED
  BY <1>2, <1>4 DEF Extends

\* The tokens a document has.
TokensOf(item) == {t \in Tokens : Posting(item, t) # <<>>}

\* A document has finitely many tokens.
LEMMA TokensFinite ==
  ASSUME NEW item \in Items
  PROVE  IsFiniteSet(TokensOf(item)) /\ Cardinality(TokensOf(item)) \in Nat
<1> DEFINE words == AllWords(item)
<1>1. words \in Seq(Words) /\ Len(words) \in Nat /\ DOMAIN words = 1 .. Len(words)
  BY WordsFacts
<1>2. IsFiniteSet(Range(words))
  <2>1. IsFiniteSet(1 .. Len(words))
    BY <1>1, FS_Interval
  <2> DEFINE R == Range(words)
             D == 1 .. Len(words)
  <2>2. words \in Surjection(D, R)
    BY <1>1 DEF Surjection, Range
  <2> HIDE DEF R, D, words
  <2>3. IsFiniteSet(R)
    BY <2>1, <2>2, FS_Surjection DEF D
  <2> QED
    BY <2>3 DEF R, words
<1>3. ASSUME NEW t \in TokensOf(item) PROVE t \in Range(words)
  <2>1. PICK P : P = Posting(item, t)
    OBVIOUS
  <2>2. P # <<>>
    BY <1>3, <2>1 DEF TokensOf
  <2>3. /\ P \in Seq(Nat)
        /\ \A p : p \in Range(P) <=> p \in Nat /\ p + 1 \in 1 .. Len(words) /\ words[p + 1] = t
    BY <2>1, PostingFacts
  <2>4. 1 \in DOMAIN P
    BY <2>2, <2>3
  <2>5. P[1] \in Range(P)
    BY <2>4 DEF Range
  <2>6. P[1] + 1 \in DOMAIN words /\ words[P[1] + 1] = t
    BY <1>1, <2>3, <2>5
  <2> QED
    BY <2>6 DEF Range
<1> HIDE DEF words
<1>4. TokensOf(item) \in SUBSET Range(words)
  BY <1>3
<1>5. IsFiniteSet(TokensOf(item))
  BY <1>2, <1>4, FS_Subset
<1> QED
  BY <1>5, FS_CardinalityType

\* A sequence of all of a finite set has each once.
LEMMA AllOnce ==
  ASSUME NEW S, IsFiniteSet(S), NEW f \in SetToSeqs(S)
  PROVE  /\ f \in Seq(S) /\ Len(f) = Cardinality(S) /\ Cardinality(S) \in Nat
         /\ \A i, j \in 1 .. Len(f) : i # j => f[i] # f[j]
         /\ \A x \in S : \E i \in 1 .. Len(f) : f[i] = x
<1> DEFINE n == Cardinality(S)
           D == 1 .. n
<1>1. n \in Nat
  BY FS_CardinalityType
<1>2. f \in [D -> S] /\ \A i, j \in D : i # j => f[i] # f[j]
  BY DEF SetToSeqs
<1> HIDE DEF n
<1>3. f \in Seq(S) /\ Len(f) = n
  BY <1>1, <1>2, FunctionIsSeq
<1>4. IsFiniteSet(D) /\ Cardinality(D) = n
  <2>1. Cardinality(1 .. n) = IF 1 > n THEN 0 ELSE n - 1 + 1
    BY <1>1, FS_Interval
  <2>2. IsFiniteSet(1 .. n)
    BY <1>1, FS_Interval
  <2> QED
    BY <1>1, <2>1, <2>2
<1> HIDE DEF D
<1>5. f \in Injection(D, S)
  BY <1>2 DEF Injection, IsInjective
<1>6. f \in Surjection(D, S)
  BY <1>4, <1>5, FS_Injection DEF n
<1>7. \A x \in S : \E i \in D : f[i] = x
  BY <1>6 DEF Surjection
<1> QED
  BY <1>1, <1>2, <1>3, <1>7 DEF D, n

\* Index, file and counter before the item.
StartOfItem == [inv |-> _invIdx, file |-> postings, size |-> _commonSize]

\* s adds entries as ExtractTextZones does.
Extracts(item, order, s) ==
  s = [n \in 0 .. Len(order) |-> IF n = 0 THEN StartOfItem ELSE AddEntry(s[n - 1], item, order[n])]

\* There is a function that adds entries as ExtractTextZones does.
LEMMA ExtractRecursion ==
  ASSUME NEW item, NEW order, Len(order) \in Nat
  PROVE  \E s : Extracts(item, order, s)
<1> DEFINE F(m, f) == f = [n \in 0 .. m |->
                             IF n = 0 THEN StartOfItem ELSE AddEntry(f[n - 1], item, order[n])]
           S == {m \in Nat : \E f : F(m, f)}
<1>1. 0 \in S
  <2> DEFINE g == [n \in 0 .. 0 |-> StartOfItem]
  <2>1. F(0, g)
    OBVIOUS
  <2> HIDE DEF g, F
  <2> QED
    BY <2>1
<1>2. ASSUME NEW m \in Nat, m \in S PROVE m + 1 \in S
  <2>1. PICK f : F(m, f)
    BY <1>2
  <2> DEFINE g == [n \in 0 .. m + 1 |->
                     IF n = 0 THEN StartOfItem ELSE AddEntry(f[n - 1], item, order[n])]
  <2>2. \A n \in 0 .. m : g[n] = f[n]
    <3>1. \A n \in 0 .. m : f[n] = IF n = 0 THEN StartOfItem ELSE AddEntry(f[n - 1], item, order[n])
      BY <2>1
    <3> QED
      BY <3>1
  <2>3. \A n \in 0 .. m + 1 : n # 0 => n - 1 \in 0 .. m
    OBVIOUS
  <2>4. g = [n \in 0 .. m + 1 |->
               IF n = 0 THEN StartOfItem ELSE AddEntry(g[n - 1], item, order[n])]
    <3>1. \A n \in 0 .. m + 1 : n # 0 => g[n - 1] = f[n - 1]
      BY <2>2, <2>3
    <3> QED
      BY <3>1
  <2>5. F(m + 1, g)
    BY <2>4
  <2> HIDE DEF g, F
  <2> QED
    BY <2>5
<1>3. Nat \subseteq S
  <2> HIDE DEF S
  <2> QED
    BY <1>1, <1>2, NatSets
<1> QED
  BY <1>3 DEF Extracts

\* The entries of token t after some of the tokens of the item.
TokenDone(inv, F, item, t) ==
  \E e : IsEntry(e, F, item, t, Len(docStore)) /\ inv[t] = Append(_invIdx[t], e)

\* s is what the first n tokens of the order make of index and file.
ItemPart(item, order, n, s) ==
  /\ s.file \in Seq(Nat) /\ s.size = Len(s.file) /\ Extends(s.file, postings)
  /\ s.inv \in [Tokens -> Seq(Entry)]
  /\ \A t \in Tokens : IF \E k \in 1 .. n : order[k] = t THEN TokenDone(s.inv, s.file, item, t)
                       ELSE s.inv[t] = _invIdx[t]

\* A token more of the item is a token done.
LEMMA ItemPartGrows ==
  ASSUME NEW item \in Items, Len(docStore) \in Nat, postings \in Seq(Nat), _invIdx \in IndexType,
         NEW order \in Seq(Tokens), \A i, j \in 1 .. Len(order) : i # j => order[i] # order[j],
         NEW n \in Nat, n + 1 <= Len(order), NEW s, ItemPart(item, order, n, s),
         NEW next, EntryAdded(next, s, item, order[n + 1], Len(docStore))
  PROVE  ItemPart(item, order, n + 1, next)
<1>1. Len(order) \in Nat /\ n + 1 \in 1 .. Len(order) /\ n \in 0 .. Len(order)
  OBVIOUS
<1>2. PICK tok \in Tokens : tok = order[n + 1]
  BY <1>1
<1>3. PICK e : /\ IsEntry(e, next.file, item, tok, Len(docStore))
               /\ next.inv = [s.inv EXCEPT ![tok] = Append(s.inv[tok], e)]
  BY <1>2 DEF EntryAdded
<1>4. /\ next.file \in Seq(Nat) /\ next.size = Len(next.file) /\ Extends(next.file, s.file)
      /\ s.file \in Seq(Nat) /\ Extends(s.file, postings) /\ s.inv \in [Tokens -> Seq(Entry)]
  BY DEF EntryAdded, ItemPart
<1>5. Extends(next.file, postings)
  BY <1>4, ExtendsOn
<1>6. e \in Entry
  BY <1>3 DEF IsEntry, Fits
<1>7. next.inv \in [Tokens -> Seq(Entry)]
  <2>1. s.inv[tok] \in Seq(Entry)
    BY <1>4
  <2>2. Append(s.inv[tok], e) \in Seq(Entry)
    BY <1>6, <2>1, AppendFacts
  <2> QED
    BY <1>3, <1>4, <2>2
<1>8. /\ next.inv[tok] = Append(s.inv[tok], e)
      /\ \A t \in Tokens : t # tok => next.inv[t] = s.inv[t]
  BY <1>3, <1>4
<1>9. \A k \in 1 .. n : order[k] # tok
  <2>1. \A k \in 1 .. n : k \in 1 .. Len(order) /\ k # n + 1
    BY <1>1
  <2> QED
    BY <1>1, <1>2, <2>1
<1>10. ASSUME NEW t \in Tokens
       PROVE  IF \E k \in 1 .. n + 1 : order[k] = t THEN TokenDone(next.inv, next.file, item, t)
              ELSE next.inv[t] = _invIdx[t]
  <2>1. CASE t = tok
    <3>1. s.inv[t] = _invIdx[t]
      BY <1>9, <2>1 DEF ItemPart
    <3>2. TokenDone(next.inv, next.file, item, t)
      BY <1>3, <1>8, <2>1, <3>1 DEF TokenDone
    <3>3. n + 1 \in 1 .. n + 1 /\ order[n + 1] = t
      BY <1>2, <2>1
    <3> QED
      BY <3>2, <3>3
  <2>2. CASE t # tok
    <3>1. (\E k \in 1 .. n + 1 : order[k] = t) <=> (\E k \in 1 .. n : order[k] = t)
      <4>1. \A k \in 1 .. n + 1 : k \in 1 .. n \/ k = n + 1
        BY <1>1
      <4>2. \A k \in 1 .. n : k \in 1 .. n + 1
        BY <1>1
      <4> QED
        BY <1>2, <2>2, <4>1, <4>2
    <3>2. next.inv[t] = s.inv[t]
      BY <1>8, <2>2
    <3>3. TokenDone(s.inv, s.file, item, t) => TokenDone(next.inv, next.file, item, t)
      BY <1>4, <3>2, EntryGrows DEF TokenDone
    <3> QED
      BY <3>1, <3>2, <3>3 DEF ItemPart
  <2> QED
    BY <2>1, <2>2
<1> QED
  BY <1>4, <1>5, <1>7, <1>10 DEF ItemPart

\* What _extractTextZones makes of index and postings file.
ItemAdded(inv, F, size, item) ==
  /\ F \in Seq(Nat) /\ size = Len(F) /\ Extends(F, postings) /\ inv \in IndexType
  /\ \A t \in Tokens : \/ TokenDone(inv, F, item, t)
                       \/ /\ inv[t] = _invIdx[t]
                          /\ \A z \in 1 .. Zones : \A v : ~ IsAt(item, t, z, v)

\* When ExtractTextZones is through, in whatever order, every token of the item
\* has its entry and every other its old ones.
LEMMA ExtractFacts ==
  ASSUME NEW item \in Items, Len(docStore) \in Nat, postings \in Seq(Nat), _commonSize = Len(postings),
         _invIdx \in IndexType, ExtractTextZones(item)
  PROVE  ItemAdded(_invIdx', postings', _commonSize', item)
<1>1. PICK order \in SetToSeqs(TokensOf(item)) :
        LET s[n \in 0 .. Len(order)] ==
              IF n = 0 THEN StartOfItem ELSE AddEntry(s[n - 1], item, order[n])
            last == s[Len(order)]
        IN _invIdx' = last.inv /\ postings' = last.file /\ _commonSize' = last.size
  BY DEF ExtractTextZones, StartOfItem, TokensOf
<1>2. /\ order \in Seq(TokensOf(item)) /\ Len(order) \in Nat
      /\ \A i, j \in 1 .. Len(order) : i # j => order[i] # order[j]
      /\ \A t \in TokensOf(item) : \E i \in 1 .. Len(order) : order[i] = t
  BY <1>1, TokensFinite, AllOnce
<1>3. PICK s : /\ Extracts(item, order, s)
               /\ _invIdx' = s[Len(order)].inv /\ postings' = s[Len(order)].file
               /\ _commonSize' = s[Len(order)].size
  <2>1. Extracts(item, order, CHOOSE f : Extracts(item, order, f))
    BY <1>2, ExtractRecursion
  <2> DEFINE last == (CHOOSE f : Extracts(item, order, f))[Len(order)]
  <2>2. _invIdx' = last.inv /\ postings' = last.file /\ _commonSize' = last.size
    BY <1>1 DEF Extracts
  <2> QED
    BY <2>1, <2>2
<1>4. /\ s[0] = StartOfItem
      /\ \A n \in Nat : n + 1 <= Len(order) => s[n + 1] = AddEntry(s[n], item, order[n + 1])
  <2>1. \A n \in 0 .. Len(order) :
          s[n] = IF n = 0 THEN StartOfItem ELSE AddEntry(s[n - 1], item, order[n])
    BY <1>3 DEF Extracts
  <2>2. \A n \in Nat : (n + 1) - 1 = n /\ n + 1 # 0
    OBVIOUS
  <2>3. \A n \in Nat : n + 1 <= Len(order) => n + 1 \in 0 .. Len(order)
    BY <1>2
  <2> QED
    BY <1>2, <2>1, <2>2, <2>3
<1>5. order \in Seq(Tokens)
  BY <1>2 DEF TokensOf
<1> DEFINE S == {n \in Nat : n <= Len(order) => ItemPart(item, order, n, s[n])}
<1>6. 0 \in S
  <2>1. StartOfItem.inv = _invIdx /\ StartOfItem.file = postings /\ StartOfItem.size = _commonSize
    BY DEF StartOfItem
  <2>2. Extends(postings, postings)
    BY DEF Extends
  <2>3. \A k : k \notin 1 .. 0
    OBVIOUS
  <2>4. ItemPart(item, order, 0, StartOfItem)
    BY <2>1, <2>2, <2>3 DEF ItemPart, IndexType
  <2> QED
    BY <1>4, <2>4
<1>7. ASSUME NEW n \in Nat, n \in S PROVE n + 1 \in S
  <2>1. ASSUME n + 1 <= Len(order) PROVE ItemPart(item, order, n + 1, s[n + 1])
    <3>1. PICK before : before = s[n]
      OBVIOUS
    <3>2. ItemPart(item, order, n, before)
      BY <1>2, <1>7, <2>1, <3>1
    <3>3. before.file \in Seq(Nat) /\ before.size = Len(before.file)
      BY <3>2 DEF ItemPart
    <3>4. EntryAdded(AddEntry(before, item, order[n + 1]), before, item, order[n + 1], Len(docStore))
      BY <3>3, AddEntryFacts
    <3>5. ItemPart(item, order, n + 1, AddEntry(before, item, order[n + 1]))
      BY <1>2, <1>5, <2>1, <3>2, <3>4, ItemPartGrows
    <3> QED
      BY <1>4, <2>1, <3>1, <3>5
  <2> QED
    BY <2>1
<1>8. Nat \subseteq S
  <2> HIDE DEF S
  <2> QED
    BY <1>6, <1>7, NatSets
<1>9. ItemPart(item, order, Len(order), s[Len(order)])
  BY <1>2, <1>8
<1>10. /\ postings' \in Seq(Nat) /\ _commonSize' = Len(postings') /\ Extends(postings', postings)
       /\ _invIdx' \in [Tokens -> Seq(Entry)]
       /\ \A t \in Tokens : IF \E k \in 1 .. Len(order) : order[k] = t THEN TokenDone(_invIdx', postings', item, t)
                            ELSE _invIdx'[t] = _invIdx[t]
  BY <1>3, <1>9 DEF ItemPart
<1>11. ASSUME NEW t \in Tokens, ~ \E k \in 1 .. Len(order) : order[k] = t
       PROVE  \A z \in 1 .. Zones : \A v : ~ IsAt(item, t, z, v)
  <2>1. Posting(item, t) = <<>>
    BY <1>2, <1>11 DEF TokensOf
  <2>2. Range(Posting(item, t)) = {}
    BY <2>1 DEF Range
  <2> QED
    BY <2>2, PlacesInZone
<1> QED
  BY <1>10, <1>11 DEF ItemAdded, IndexType

-----------------------------------------------------------------------------
(* The words that an index says are where.                                 *)

\* A word at its place.
Word(d, t, z, v) == [doc |-> d, tok |-> t, zone |-> z, pos |-> v]

\* The words that an entry of token t says are where.
SaysOf(e, t, F) == UNION {{Word(e.docIdOffset, t, z, v) : v \in Range(PartIn(F, e, z))} : z \in 1 .. Zones}

\* The words that an index says are where.
Says(idx, F) == UNION {UNION {SaysOf(e, t, F) : e \in Range(idx[t])} : t \in Tokens}

\* Entry k of token t says word x, of zone z.
SaidAt(idx, F, x, t, k, z, v) ==
  /\ t \in Tokens /\ k \in DOMAIN idx[t] /\ z \in 1 .. Zones /\ v \in Range(PartIn(F, idx[t][k], z))
  /\ x = Word(idx[t][k].docIdOffset, t, z, v)

\* A word is said by an index exactly when one of its entries says it.
LEMMA SaysMembers ==
  ASSUME NEW idx, NEW F, NEW x
  PROVE  x \in Says(idx, F) <=> \E t, k, z, v : SaidAt(idx, F, x, t, k, z, v)
<1>1. ASSUME x \in Says(idx, F) PROVE \E t, k, z, v : SaidAt(idx, F, x, t, k, z, v)
  <2>1. PICK t \in Tokens : x \in UNION {SaysOf(e, t, F) : e \in Range(idx[t])}
    BY <1>1 DEF Says
  <2>2. PICK e \in Range(idx[t]) : x \in SaysOf(e, t, F)
    BY <2>1
  <2>3. PICK z \in 1 .. Zones : x \in {Word(e.docIdOffset, t, z, v) : v \in Range(PartIn(F, e, z))}
    BY <2>2 DEF SaysOf
  <2>4. PICK v \in Range(PartIn(F, e, z)) : x = Word(e.docIdOffset, t, z, v)
    BY <2>3
  <2>5. PICK k \in DOMAIN idx[t] : e = idx[t][k]
    BY <2>2 DEF Range
  <2>6. SaidAt(idx, F, x, t, k, z, v)
    BY <2>1, <2>3, <2>4, <2>5 DEF SaidAt
  <2> QED
    BY <2>6
<1>2. ASSUME NEW t, NEW k, NEW z, NEW v, SaidAt(idx, F, x, t, k, z, v) PROVE x \in Says(idx, F)
  <2>1. PICK e : e = idx[t][k]
    OBVIOUS
  <2>2. /\ t \in Tokens /\ k \in DOMAIN idx[t] /\ z \in 1 .. Zones /\ v \in Range(PartIn(F, e, z))
        /\ x = Word(e.docIdOffset, t, z, v)
    BY <1>2, <2>1 DEF SaidAt
  <2>3. e \in Range(idx[t])
    BY <2>1, <2>2 DEF Range
  <2>4. x \in SaysOf(e, t, F)
    BY <2>2 DEF SaysOf
  <2>5. x \in UNION {SaysOf(f, t, F) : f \in Range(idx[t])}
    BY <2>3, <2>4
  <2> QED
    BY <2>2, <2>5 DEF Says
<1> QED
  BY <1>1, <1>2

\* What a reader finds in an index is what its entries say of the postings file.
LEMMA FoundSays == /\ \A e, t : FoundIn(e, t) = SaysOf(e, t, postings)
                   /\ \A idx : Found(idx) = Says(idx, postings)
<1>1. \A e : \A z \in 1 .. Zones : FullPosting(e)[z] = PartIn(postings, e, z)
  BY DEF FullPosting, PartIn, Rank
<1>2. \A e, t : FoundIn(e, t) = SaysOf(e, t, postings)
  BY <1>1 DEF FoundIn, SaysOf, Word
<1>3. \A idx : Found(idx) = Says(idx, postings)
  BY <1>2 DEF Found, Says
<1> QED
  BY <1>2, <1>3

\* The occurrences of an item are the places of its tokens.
LEMMA WordsOf ==
  ASSUME NEW item \in Items, NEW d
  PROVE  \A x : x \in Shown!Occurrences(item, d) <=>
           \E t \in Tokens : \E z \in 1 .. Zones : \E v : IsAt(item, t, z, v) /\ x = Word(d, t, z, v)
<1>1. \A x : x \in Shown!Occurrences(item, d) <=>
        \E z \in 1 .. Zones : \E k \in DOMAIN item.text[z] :
          item.text[z][k] # BadWord /\ x = Word(d, item.text[z][k], z, k - 1)
  BY DEF Shown!Occurrences, Word
<1>2. \A z \in 1 .. Zones : /\ DOMAIN item.text[z] = 1 .. Len(item.text[z]) /\ Len(item.text[z]) \in Nat
                            /\ \A k \in DOMAIN item.text[z] : item.text[z][k] \in Words
  BY TextFacts
<1>3. ASSUME NEW z \in 1 .. Zones, NEW k \in DOMAIN item.text[z], item.text[z][k] # BadWord
      PROVE  item.text[z][k] \in Tokens /\ IsAt(item, item.text[z][k], z, k - 1)
  <2>1. k \in 1 .. Len(item.text[z]) /\ Len(item.text[z]) \in Nat
    BY <1>2
  <2>2. k - 1 \in Nat /\ (k - 1) + 1 = k
    BY <2>1
  <2> QED
    BY <1>2, <1>3, <2>1, <2>2 DEF Tokens, IsAt
<1>4. ASSUME NEW t \in Tokens, NEW z \in 1 .. Zones, NEW v, IsAt(item, t, z, v)
      PROVE  \E k \in DOMAIN item.text[z] : item.text[z][k] # BadWord /\ item.text[z][k] = t /\ v = k - 1
  <2>1. v \in Nat /\ v + 1 \in 1 .. Len(item.text[z]) /\ item.text[z][v + 1] = t
    BY <1>4 DEF IsAt
  <2>2. (v + 1) - 1 = v /\ v + 1 \in DOMAIN item.text[z] /\ t # BadWord
    BY <1>2, <2>1 DEF Tokens
  <2> QED
    BY <2>1, <2>2
<1> QED
  BY <1>1, <1>3, <1>4

\* Every entry of the index fits the file.
IndexFits(idx, F) == idx \in IndexType /\ \A t \in Tokens : \A k \in DOMAIN idx[t] : Fits(idx[t][k], F)

\* An index says the same when the postings file grows.
LEMMA SaysKept ==
  ASSUME NEW F \in Seq(Nat), NEW G \in Seq(Nat), Extends(G, F), NEW idx, IndexFits(idx, F)
  PROVE  IndexFits(idx, G) /\ Says(idx, G) = Says(idx, F)
<1>1. \A t \in Tokens : \A k \in DOMAIN idx[t] :
        Fits(idx[t][k], G) /\ \A z : PartIn(G, idx[t][k], z) = PartIn(F, idx[t][k], z)
  BY FitsGrows DEF IndexFits
<1>2. IndexFits(idx, G)
  BY <1>1 DEF IndexFits
<1>3. \A x, t, k, z, v : SaidAt(idx, G, x, t, k, z, v) <=> SaidAt(idx, F, x, t, k, z, v)
  BY <1>1, ZenonT(40) DEF SaidAt
<1>4. \A x : x \in Says(idx, G) <=> x \in Says(idx, F)
  BY <1>3, SaysMembers
<1> QED
  BY <1>2, <1>4

\* A document adds its words.
LEMMA SaysGrows ==
  ASSUME NEW item \in Items, postings \in Seq(Nat), IndexFits(_invIdx, postings),
         NEW inv, NEW F, NEW size, ItemAdded(inv, F, size, item)
  PROVE  /\ IndexFits(inv, F)
         /\ Says(inv, F) = Says(_invIdx, postings) \cup Shown!Occurrences(item, Len(docStore))
<1> DEFINE d == Len(docStore)
<1>1. F \in Seq(Nat) /\ Extends(F, postings) /\ inv \in IndexType /\ _invIdx \in IndexType
  BY DEF ItemAdded, IndexFits
<1>2. IndexFits(_invIdx, F) /\ Says(_invIdx, F) = Says(_invIdx, postings)
  BY <1>1, SaysKept
<1>3. ASSUME NEW t \in Tokens
      PROVE  \/ \E e : IsEntry(e, F, item, t, d) /\ inv[t] = Append(_invIdx[t], e)
             \/ inv[t] = _invIdx[t] /\ \A z \in 1 .. Zones : \A v : ~ IsAt(item, t, z, v)
  BY DEF ItemAdded, TokenDone
<1>4. ASSUME NEW t \in Tokens, NEW e, IsEntry(e, F, item, t, d), inv[t] = Append(_invIdx[t], e)
      PROVE  /\ DOMAIN inv[t] = DOMAIN _invIdx[t] \cup {Len(_invIdx[t]) + 1}
             /\ inv[t][Len(_invIdx[t]) + 1] = e
             /\ \A k \in DOMAIN _invIdx[t] : inv[t][k] = _invIdx[t][k]
  <2>1. PICK s : s = _invIdx[t]
    OBVIOUS
  <2>2. s \in Seq(Entry) /\ e \in Entry
    BY <1>1, <1>4, <2>1 DEF IndexType, IsEntry, Fits
  <2>3. PICK a : a = Append(s, e)
    OBVIOUS
  <2>4. /\ a \in Seq(Entry) /\ Len(a) = Len(s) + 1 /\ a[Len(s) + 1] = e
        /\ \A k \in 1 .. Len(s) : a[k] = s[k]
    BY <2>2, <2>3, AppendFacts
  <2>5. DOMAIN s = 1 .. Len(s) /\ DOMAIN a = 1 .. Len(s) + 1 /\ Len(s) \in Nat
    BY <2>2, <2>4
  <2>6. DOMAIN a = DOMAIN s \cup {Len(s) + 1}
    BY <2>5
  <2> QED
    BY <1>4, <2>1, <2>3, <2>4, <2>5, <2>6
<1>5. IndexFits(inv, F)
  <2>1. ASSUME NEW t \in Tokens, NEW k \in DOMAIN inv[t] PROVE Fits(inv[t][k], F)
    <3>1. CASE inv[t] = _invIdx[t]
      BY <1>2, <2>1, <3>1 DEF IndexFits
    <3>2. ASSUME NEW e, IsEntry(e, F, item, t, d), inv[t] = Append(_invIdx[t], e) PROVE Fits(inv[t][k], F)
      <4>1. Fits(e, F)
        BY <3>2 DEF IsEntry
      <4> QED
        BY <1>2, <1>4, <2>1, <3>2, <4>1 DEF IndexFits
    <3> QED
      BY <1>3, <3>1, <3>2
  <2> QED
    BY <1>1, <2>1 DEF IndexFits
<1>6. ASSUME NEW x \in Says(inv, F)
      PROVE  x \in Says(_invIdx, F) \/ x \in Shown!Occurrences(item, d)
  <2>1. PICK t, k, z, v : SaidAt(inv, F, x, t, k, z, v)
    BY <1>6, SaysMembers
  <2>2. t \in Tokens /\ k \in DOMAIN inv[t] /\ z \in 1 .. Zones
    BY <2>1 DEF SaidAt
  <2>4. v \in Range(PartIn(F, inv[t][k], z)) /\ x = Word(inv[t][k].docIdOffset, t, z, v)
    BY <2>1 DEF SaidAt
  <2>5. ASSUME k \in DOMAIN _invIdx[t], inv[t][k] = _invIdx[t][k] PROVE x \in Says(_invIdx, F)
    <3>1. SaidAt(_invIdx, F, x, t, k, z, v)
      BY <2>2, <2>4, <2>5 DEF SaidAt
    <3> QED
      BY <3>1, SaysMembers
  <2>6. ASSUME NEW e, IsEntry(e, F, item, t, d), inv[t][k] = e PROVE x \in Shown!Occurrences(item, d)
    <3>1. IsAt(item, t, z, v) /\ x = Word(d, t, z, v)
      BY <2>2, <2>4, <2>6 DEF IsEntry
    <3> QED
      BY <2>2, <3>1, WordsOf
  <2>7. CASE inv[t] = _invIdx[t]
    BY <2>2, <2>5, <2>7
  <2>8. ASSUME NEW e, IsEntry(e, F, item, t, d), inv[t] = Append(_invIdx[t], e)
        PROVE  x \in Says(_invIdx, F) \/ x \in Shown!Occurrences(item, d)
    BY <1>4, <2>2, <2>5, <2>6, <2>8
  <2> QED
    BY <1>3, <2>2, <2>7, <2>8
<1>7. ASSUME NEW x \in Says(_invIdx, F) PROVE x \in Says(inv, F)
  <2>1. PICK t, k, z, v : SaidAt(_invIdx, F, x, t, k, z, v)
    BY <1>7, SaysMembers
  <2>2. t \in Tokens /\ k \in DOMAIN _invIdx[t]
    BY <2>1 DEF SaidAt
  <2>3. k \in DOMAIN inv[t] /\ inv[t][k] = _invIdx[t][k]
    BY <1>3, <1>4, <2>2
  <2>4. SaidAt(inv, F, x, t, k, z, v)
    BY <2>1, <2>3 DEF SaidAt
  <2> QED
    BY <2>4, SaysMembers
<1>8. ASSUME NEW x \in Shown!Occurrences(item, d) PROVE x \in Says(inv, F)
  <2>1. PICK t \in Tokens : \E z \in 1 .. Zones : \E v : IsAt(item, t, z, v) /\ x = Word(d, t, z, v)
    BY <1>8, WordsOf
  <2>2. PICK z \in 1 .. Zones : \E v : IsAt(item, t, z, v) /\ x = Word(d, t, z, v)
    BY <2>1
  <2>3. PICK v : IsAt(item, t, z, v) /\ x = Word(d, t, z, v)
    BY <2>2
  <2>4. PICK e : IsEntry(e, F, item, t, d) /\ inv[t] = Append(_invIdx[t], e)
    BY <1>3, <2>3
  <2>5. PICK k \in DOMAIN inv[t] : inv[t][k] = e
    BY <1>4, <2>4
  <2>6. SaidAt(inv, F, x, t, k, z, v)
    BY <2>3, <2>4, <2>5 DEF IsEntry, SaidAt
  <2> QED
    BY <2>6, SaysMembers
<1> QED
  BY <1>2, <1>5, <1>6, <1>7, <1>8

-----------------------------------------------------------------------------
(* The merge.                                                              *)

\* std::sort by document keeps the entries and has them ascend, when no document
\* has two.
LEMMA SortedFacts ==
  ASSUME NEW es \in Seq(Entry), DocsAscend(es)
  PROVE  Sorted(es) \in Seq(Entry) /\ Range(Sorted(es)) = Range(es) /\ DocsAscend(Sorted(es))
<1> DEFINE n == Len(es)
           D == 1 .. n
           Taken(order) == [k \in D |-> es[order[k]]]
           InOrder(s) == \A i, j \in DOMAIN s : i < j => ~ (s[j].docIdOffset < s[i].docIdOffset)
           s == Sorted(es)
<1>1. n \in Nat /\ DOMAIN es = D /\ \A i \in D : es[i] \in Entry /\ es[i].docIdOffset \in Nat
  <2>1. n \in Nat /\ DOMAIN es = D /\ \A i \in D : es[i] \in Entry
    OBVIOUS
  <2> QED
    BY <2>1 DEF Entry
<1>2. IsFiniteSet(D) /\ Cardinality(D) = n
  <2>1. Cardinality(1 .. n) = IF 1 > n THEN 0 ELSE n - 1 + 1
    BY <1>1, FS_Interval
  <2>2. IsFiniteSet(1 .. n)
    BY <1>1, FS_Interval
  <2> QED
    BY <1>1, <2>1, <2>2
<1>3. \A i, j \in D : i < j => es[i].docIdOffset < es[j].docIdOffset
  BY <1>1 DEF DocsAscend
<1> HIDE DEF n
<1>4. \E p \in {Taken(order) : order \in SetToSeqs(D)} : InOrder(p)
  <2> DEFINE id == [k \in D |-> k]
  <2>1. id \in SetToSeqs(D)
    BY <1>2 DEF SetToSeqs
  <2>2. Taken(id) = es
    <3>1. \A k \in D : Taken(id)[k] = es[k]
      OBVIOUS
    <3>2. Taken(id) = [k \in D |-> es[k]] /\ es = [k \in D |-> es[k]]
      BY <1>1
    <3> QED
      BY <3>2
  <2>3. InOrder(es)
    BY <1>1, <1>3
  <2> HIDE DEF id, InOrder
  <2>4. Taken(id) \in {Taken(order) : order \in SetToSeqs(D)}
    BY <2>1
  <2> QED
    BY <2>2, <2>3, <2>4
<1>5. s = CHOOSE p \in {Taken(order) : order \in SetToSeqs(D)} : InOrder(p)
  BY <1>1 DEF Sorted
<1> HIDE DEF s, InOrder
<1>6. s \in {Taken(order) : order \in SetToSeqs(D)} /\ InOrder(s)
  BY <1>4, <1>5
<1>7. PICK order \in SetToSeqs(D) : s = Taken(order)
  BY <1>6
<1>8. /\ DOMAIN order = D /\ \A k \in D : order[k] \in D
      /\ \A i, j \in D : i # j => order[i] # order[j]
      /\ \A k \in D : \E i \in D : order[i] = k
  <2>1. /\ order \in Seq(D) /\ Len(order) = n
        /\ \A i, j \in 1 .. Len(order) : i # j => order[i] # order[j]
        /\ \A x \in D : \E i \in 1 .. Len(order) : order[i] = x
    BY <1>2, AllOnce, ZenonT(40)
  <2>2. DOMAIN order = 1 .. Len(order) /\ 1 .. Len(order) = D
    BY <2>1
  <2>3. \A k \in DOMAIN order : order[k] \in D
    BY <2>1
  <2> HIDE DEF D
  <2> QED
    BY <2>1, <2>2, <2>3
<1>9. /\ DOMAIN s = D /\ \A k \in D : s[k] = es[order[k]] /\ s[k] \in Entry
      /\ \A k \in D : s[k].docIdOffset \in Nat
  BY <1>1, <1>7, <1>8
<1>10. s \in Seq(Entry)
  <2>1. s \in [D -> Entry]
    <3>1. s = [k \in D |-> s[k]]
      BY <1>7
    <3> QED
      BY <1>9, <3>1
  <2> QED
    BY <1>1, <2>1, FunctionIsSeq
<1>11. Range(s) = Range(es)
  <2>1. ASSUME NEW k \in D PROVE s[k] \in Range(es)
    BY <1>1, <1>8, <1>9 DEF Range
  <2>2. ASSUME NEW k \in D PROVE es[k] \in Range(s)
    <3>1. PICK i \in D : order[i] = k
      BY <1>8
    <3>2. s[i] = es[k]
      BY <1>9, <3>1
    <3> QED
      BY <1>9, <3>2 DEF Range
  <2> QED
    BY <1>1, <1>9, <2>1, <2>2 DEF Range
<1>12. ASSUME NEW i \in D, NEW j \in D, i < j PROVE s[i].docIdOffset < s[j].docIdOffset
  <2>1. ~ (s[j].docIdOffset < s[i].docIdOffset)
    BY <1>6, <1>9, <1>12 DEF InOrder
  <2>2. order[i] \in D /\ order[j] \in D /\ order[i] # order[j]
    BY <1>1, <1>8, <1>12
  <2>3. s[i].docIdOffset # s[j].docIdOffset
    <3>1. PICK k \in D, l \in D : k = order[i] /\ l = order[j]
      BY <2>2
    <3>2. k \in Nat /\ l \in Nat /\ k # l
      BY <1>1, <2>2, <3>1
    <3>3. es[k].docIdOffset # es[l].docIdOffset
      BY <1>1, <1>3, <3>2
    <3> QED
      BY <1>9, <3>1, <3>3
  <2>4. s[i].docIdOffset \in Nat /\ s[j].docIdOffset \in Nat
    BY <1>9
  <2> QED
    BY <2>1, <2>3, <2>4
<1>13. DocsAscend(s)
  BY <1>9, <1>12 DEF DocsAscend
<1> QED
  BY <1>10, <1>11, <1>13 DEF s

\* Collected(t) of the raw indexes raws.
CollectedOf(raws, t) == FlattenSeq([f \in DOMAIN raws |-> raws[f][t]])

\* What is collected of a token is what the raw indexes have of it.
LEMMA CollectedFacts ==
  ASSUME NEW raws \in Seq(IndexType), NEW t \in Tokens
  PROVE  /\ CollectedOf(raws, t) \in Seq(Entry)
         /\ \A e : e \in Range(CollectedOf(raws, t)) <=> \E f \in DOMAIN raws : e \in Range(raws[f][t])
<1> DEFINE n == Len(raws)
           ss == [f \in DOMAIN raws |-> raws[f][t]]
<1>1. n \in Nat /\ DOMAIN raws = 1 .. n /\ \A f \in 1 .. n : raws[f] \in IndexType
  OBVIOUS
<1>2. \A f \in 1 .. n : raws[f][t] \in Seq(Entry)
  BY <1>1 DEF IndexType
<1>3. ss \in [1 .. n -> Seq(Entry)] /\ \A f \in 1 .. n : ss[f] = raws[f][t]
  BY <1>1, <1>2
<1> HIDE DEF ss, n
<1>4. ss \in Seq(Seq(Entry)) /\ Len(ss) = n
  BY <1>1, <1>3, FunctionIsSeq
<1>5. FlattenSeq(ss) \in Seq(Entry)
  BY <1>4, FlattenFacts
<1>6. \A e : e \in Range(FlattenSeq(ss)) <=> \E k \in 1 .. Len(ss) : e \in Range(ss[k])
  BY <1>4, FlattenRange
<1> QED
  BY <1>1, <1>3, <1>4, <1>5, <1>6 DEF CollectedOf, ss

\* A raw index more adds its entries behind all others.
LEMMA CollectedAppend ==
  ASSUME NEW raws \in Seq(IndexType), NEW idx \in IndexType, NEW t \in Tokens
  PROVE  CollectedOf(Append(raws, idx), t) = CollectedOf(raws, t) \o idx[t]
<1> DEFINE n == Len(raws)
           more == Append(raws, idx)
           ss == [f \in DOMAIN raws |-> raws[f][t]]
           tt == [f \in DOMAIN more |-> more[f][t]]
<1>1. n \in Nat /\ DOMAIN raws = 1 .. n /\ \A f \in 1 .. n : raws[f] \in IndexType
  OBVIOUS
<1>2. DOMAIN more = 1 .. n + 1 /\ more[n + 1] = idx /\ \A f \in 1 .. n : more[f] = raws[f]
  <2>1. more \in Seq(IndexType) /\ Len(more) = n + 1 /\ more[n + 1] = idx /\ \A f \in 1 .. n : more[f] = raws[f]
    BY AppendFacts
  <2> QED
    BY <2>1
<1>3. idx[t] \in Seq(Entry) /\ \A f \in 1 .. n : raws[f][t] \in Seq(Entry)
  BY <1>1 DEF IndexType
<1> HIDE DEF n, more
<1>4. ss \in [1 .. n -> Seq(Entry)]
  BY <1>1, <1>3
<1>5. ss \in Seq(Seq(Entry)) /\ Len(ss) = n
  BY <1>1, <1>4, FunctionIsSeq
<1>6. tt = Append(ss, idx[t])
  <2>1. n + 1 \in 1 .. n + 1 /\ \A f \in 1 .. n + 1 : f \in 1 .. n \/ f = n + 1
    BY <1>1
  <2>2. /\ DOMAIN tt = 1 .. n + 1 /\ tt[n + 1] = idx[t]
        /\ \A f \in 1 .. n : tt[f] = ss[f]
    BY <1>1, <1>2, <2>1
  <2>3. PICK a : a = Append(ss, idx[t])
    OBVIOUS
  <2>4. /\ a \in Seq(Seq(Entry)) /\ Len(a) = n + 1 /\ a[n + 1] = idx[t] /\ \A f \in 1 .. n : a[f] = ss[f]
    BY <1>3, <1>5, <2>3, AppendFacts
  <2>5. DOMAIN a = 1 .. n + 1
    BY <2>4
  <2>6. a = [f \in 1 .. n + 1 |-> a[f]] /\ tt = [f \in 1 .. n + 1 |-> tt[f]]
    <3>1. a \in [1 .. n + 1 -> Seq(Entry)]
      BY <2>4, <2>5
    <3> QED
      BY <1>2, <3>1
  <2>7. \A f \in 1 .. n + 1 : a[f] = tt[f]
    BY <2>1, <2>2, <2>4
  <2> HIDE DEF tt
  <2> QED
    BY <2>3, <2>6, <2>7
<1> HIDE DEF ss, tt
<1>7. FlattenSeq(tt) = FlattenSeq(ss) \o idx[t]
  BY <1>3, <1>5, <1>6, FlattenAppend
<1> QED
  BY <1>7 DEF CollectedOf, ss, tt, more

\* Every entry of a part comes before those of the parts behind it, and before those
\* behind it in its own.
Parted(ss) ==
  \A k, l \in 1 .. Len(ss) : \A i \in 1 .. Len(ss[k]), j \in 1 .. Len(ss[l]) :
    k < l \/ (k = l /\ i < j) => ss[k][i].docIdOffset < ss[l][j].docIdOffset

\* Parts put behind each other ascend exactly when they do, one behind the other.
LEMMA FlattenOrder ==
  ASSUME NEW ss \in Seq(Seq(Entry))
  PROVE  DocsAscend(FlattenSeq(ss)) <=> Parted(ss)
<1> DEFINE flat == FlattenSeq(ss)
           L == Lengths(ss)
           T(n) == Total(L, n)
<1>1. flat \in Seq(Entry) /\ Follows(ss, Len(ss), flat)
  BY FlattenFacts
<1>2. /\ L \in Seq(Nat) /\ Len(L) = Len(ss) /\ Len(ss) \in Nat
      /\ \A k \in 1 .. Len(ss) : Len(ss[k]) \in Nat /\ L[k] = Len(ss[k])
  BY LengthsType
<1>3. /\ Len(flat) = T(Len(ss)) /\ DOMAIN flat = 1 .. T(Len(ss))
      /\ \A k \in 1 .. Len(ss) : \A i \in 1 .. Len(ss[k]) : T(k - 1) + i \in DOMAIN flat /\ flat[T(k - 1) + i] = ss[k][i]
  BY <1>1 DEF Follows
<1> HIDE DEF flat, L
<1>4. /\ \A k \in 1 .. Len(ss) : T(k) = T(k - 1) + Len(ss[k])
      /\ \A k \in 0 .. Len(ss) : T(k) \in Nat
      /\ \A k \in 0 .. Len(ss) : \A j \in 0 .. k : T(j) <= T(k)
  BY <1>2, TotalFacts
<1>5. ASSUME NEW p \in DOMAIN flat PROVE \E k \in 1 .. Len(ss) : p - T(k - 1) \in 1 .. Len(ss[k])
  <2>1. \E k \in 1 .. Len(ss) : p - T(k - 1) \in 1 .. L[k]
    BY <1>2, <1>3, <1>5, TotalCovers
  <2> QED
    BY <1>2, <2>1
<1> HIDE DEF T
<1>6. ASSUME NEW k \in 1 .. Len(ss), NEW l \in 1 .. Len(ss), k < l PROVE T(k) <= T(l - 1)
  <2>1. l - 1 \in 0 .. Len(ss) /\ k \in 0 .. l - 1
    BY <1>2, <1>6
  <2> QED
    BY <1>4, <2>1
<1>7. \A k \in 1 .. Len(ss) : T(k) \in Nat /\ T(k - 1) \in Nat
  <2>1. \A k \in 1 .. Len(ss) : k \in 0 .. Len(ss) /\ k - 1 \in 0 .. Len(ss)
    BY <1>2
  <2> QED
    BY <1>4, <2>1
<1>8. ASSUME DocsAscend(flat) PROVE Parted(ss)
  <2> SUFFICES ASSUME NEW k \in 1 .. Len(ss), NEW l \in 1 .. Len(ss), NEW i \in 1 .. Len(ss[k]), NEW j \in 1 .. Len(ss[l]),
                      k < l \/ (k = l /\ i < j)
               PROVE  ss[k][i].docIdOffset < ss[l][j].docIdOffset
    BY DEF Parted
  <2>1. T(k - 1) + i < T(l - 1) + j
    <3>1. /\ T(k - 1) \in Nat /\ T(l - 1) \in Nat /\ Len(ss[k]) \in Nat /\ Len(ss[l]) \in Nat
          /\ T(k) = T(k - 1) + Len(ss[k])
      BY <1>2, <1>4, <1>7
    <3>2. CASE k < l
      <4>1. T(k) <= T(l - 1)
        BY <1>6, <3>2
      <4> QED
        BY <3>1, <4>1, SMTT(30)
    <3>3. CASE k = l /\ i < j
      BY <3>1, <3>3
    <3> QED
      BY <3>2, <3>3
  <2>2. PICK p \in DOMAIN flat, q \in DOMAIN flat :
          p = T(k - 1) + i /\ q = T(l - 1) + j /\ flat[p] = ss[k][i] /\ flat[q] = ss[l][j]
    BY <1>3
  <2> QED
    BY <1>8, <2>1, <2>2 DEF DocsAscend
<1>9. ASSUME Parted(ss) PROVE DocsAscend(flat)
  <2> SUFFICES ASSUME NEW p \in DOMAIN flat, NEW q \in DOMAIN flat, p < q
               PROVE  flat[p].docIdOffset < flat[q].docIdOffset
    BY DEF DocsAscend
  <2>1. PICK k \in 1 .. Len(ss) : p - T(k - 1) \in 1 .. Len(ss[k])
    BY <1>5
  <2>2. PICK l \in 1 .. Len(ss) : q - T(l - 1) \in 1 .. Len(ss[l])
    BY <1>5
  <2>3. /\ T(k - 1) \in Nat /\ T(l - 1) \in Nat /\ k \in Nat /\ l \in Nat
        /\ T(l) = T(l - 1) + Len(ss[l]) /\ Len(ss[l]) \in Nat
    BY <1>2, <1>4, <1>7
  <2>4. p \in Nat /\ q \in Nat
    BY <1>1
  <2>5. T(k - 1) + (p - T(k - 1)) = p /\ T(l - 1) + (q - T(l - 1)) = q
    BY <2>3, <2>4
  <2>6. flat[p] = ss[k][p - T(k - 1)] /\ flat[q] = ss[l][q - T(l - 1)]
    <3>1. /\ flat[T(k - 1) + (p - T(k - 1))] = ss[k][p - T(k - 1)]
          /\ flat[T(l - 1) + (q - T(l - 1))] = ss[l][q - T(l - 1)]
      BY <1>3, <2>1, <2>2
    <3> QED
      BY <2>5, <3>1
  <2>7. k < l \/ (k = l /\ p - T(k - 1) < q - T(l - 1))
    <3>1. ASSUME l < k PROVE FALSE
      <4>1. T(l) <= T(k - 1)
        BY <1>6, <3>1
      <4>2. T(k - 1) < p
        <5> DEFINE x == p - T(k - 1)
        <5>1. 1 <= x
          BY <2>1, <2>3, <2>4
        <5> QED
          BY <2>3, <2>4, <5>1
      <4>3. q <= T(l)
        <5> DEFINE x == q - T(l - 1)
        <5>1. x <= Len(ss[l])
          BY <2>2, <2>3, <2>4
        <5> QED
          BY <2>3, <2>4, <5>1
      <4> QED
        BY <2>3, <2>4, <4>1, <4>2, <4>3
    <3>2. k = l => p - T(k - 1) < q - T(l - 1)
      BY <2>3, <2>4
    <3> QED
      BY <2>3, <3>1, <3>2
  <2> QED
    BY <1>9, <2>1, <2>2, <2>6, <2>7 DEF Parted
<1> QED
  BY <1>8, <1>9 DEF flat

\* Leaving parts out keeps the order.
LEMMA PartsLeftOut ==
  ASSUME NEW ss \in Seq(Seq(Entry)), NEW tt \in Seq(Seq(Entry)), Len(tt) = Len(ss),
         \A k \in 1 .. Len(ss) : tt[k] = ss[k] \/ tt[k] = <<>>, DocsAscend(FlattenSeq(ss))
  PROVE  DocsAscend(FlattenSeq(tt))
<1>1. Parted(ss)
  BY FlattenOrder
<1>2. \A k \in 1 .. Len(tt) : \A i \in 1 .. Len(tt[k]) : k \in 1 .. Len(ss) /\ tt[k] = ss[k] /\ i \in 1 .. Len(ss[k])
  OBVIOUS
<1>3. Parted(tt)
  BY <1>1, <1>2 DEF Parted
<1> QED
  BY <1>3, FlattenOrder

\* All that is said by the indexes raws.
SaidBy(raws, F) == UNION {Says(idx, F) : idx \in Range(raws)}

-----------------------------------------------------------------------------
(* The documents of a dump.                                                *)

\* kept keeps items as Documents does.
Keeps(items, kept) ==
  kept = [k \in 0 .. Len(items) |->
            IF k = 0 THEN <<>>
            ELSE IF items[k].translated THEN kept[k - 1] ELSE Append(kept[k - 1], items[k])]

\* There is a function that keeps items as Documents does.
LEMMA KeepRecursion ==
  ASSUME NEW items, Len(items) \in Nat
  PROVE  \E kept : Keeps(items, kept)
<1> DEFINE F(m, f) == f = [k \in 0 .. m |->
                             IF k = 0 THEN <<>>
                             ELSE IF items[k].translated THEN f[k - 1] ELSE Append(f[k - 1], items[k])]
           S == {m \in Nat : \E f : F(m, f)}
<1>1. 0 \in S
  <2> DEFINE g == [k \in 0 .. 0 |-> <<>>]
  <2>1. F(0, g)
    OBVIOUS
  <2> HIDE DEF g, F
  <2> QED
    BY <2>1
<1>2. ASSUME NEW m \in Nat, m \in S PROVE m + 1 \in S
  <2>1. PICK f : F(m, f)
    BY <1>2
  <2> DEFINE g == [k \in 0 .. m + 1 |->
                     IF k = 0 THEN <<>>
                     ELSE IF items[k].translated THEN f[k - 1] ELSE Append(f[k - 1], items[k])]
  <2>2. \A k \in 0 .. m : g[k] = f[k]
    <3>1. \A k \in 0 .. m : f[k] = IF k = 0 THEN <<>>
                                   ELSE IF items[k].translated THEN f[k - 1] ELSE Append(f[k - 1], items[k])
      BY <2>1
    <3> QED
      BY <3>1
  <2>3. \A k \in 0 .. m + 1 : k # 0 => k - 1 \in 0 .. m
    OBVIOUS
  <2>4. g = [k \in 0 .. m + 1 |->
               IF k = 0 THEN <<>>
               ELSE IF items[k].translated THEN g[k - 1] ELSE Append(g[k - 1], items[k])]
    <3>1. \A k \in 0 .. m + 1 : k # 0 => g[k - 1] = f[k - 1]
      BY <2>2, <2>3
    <3> QED
      BY <3>1
  <2>5. F(m + 1, g)
    BY <2>4
  <2> HIDE DEF g, F
  <2> QED
    BY <2>5
<1>3. Nat \subseteq S
  <2> HIDE DEF S
  <2> QED
    BY <1>1, <1>2, NatSets
<1> QED
  BY <1>3 DEF Keeps

\* The items kept of the first n.
KeptOf(items, n) == (CHOOSE kept : Keeps(items, kept))[n]

\* Documents takes the items of the dump that are kept.
LEMMA DocumentsKept == \A n : Documents(n) = KeptOf(dump, n)
BY DEF Documents, KeptOf, Keeps

\* An item that is not translated is kept, one more at a time.
LEMMA KeptFacts ==
  ASSUME NEW items \in Seq(Items)
  PROVE  /\ KeptOf(items, 0) = <<>>
         /\ \A n \in 0 .. Len(items) : KeptOf(items, n) \in Seq(Items)
         /\ \A n \in Nat : n + 1 <= Len(items) =>
              KeptOf(items, n + 1) = IF items[n + 1].translated THEN KeptOf(items, n)
                                     ELSE Append(KeptOf(items, n), items[n + 1])
<1>1. Len(items) \in Nat
  OBVIOUS
<1>2. PICK kept : Keeps(items, kept) /\ \A n : KeptOf(items, n) = kept[n]
  <2>1. Keeps(items, CHOOSE kept : Keeps(items, kept))
    BY <1>1, KeepRecursion
  <2> QED
    BY <2>1 DEF KeptOf
<1>3. /\ kept[0] = <<>>
      /\ \A n \in Nat : n + 1 <= Len(items) =>
           kept[n + 1] = IF items[n + 1].translated THEN kept[n] ELSE Append(kept[n], items[n + 1])
  <2>1. \A k \in 0 .. Len(items) :
          kept[k] = IF k = 0 THEN <<>>
                    ELSE IF items[k].translated THEN kept[k - 1] ELSE Append(kept[k - 1], items[k])
    BY <1>2 DEF Keeps
  <2>2. \A n \in Nat : (n + 1) - 1 = n /\ n + 1 # 0
    OBVIOUS
  <2>3. \A n \in Nat : n + 1 <= Len(items) => n + 1 \in 0 .. Len(items)
    BY <1>1
  <2> QED
    BY <1>1, <2>1, <2>2, <2>3
<1> DEFINE S == {n \in Nat : n <= Len(items) => kept[n] \in Seq(Items)}
<1>4. 0 \in S
  <2>1. <<>> \in Seq(Items)
    OBVIOUS
  <2> QED
    BY <1>3, <2>1
<1>5. ASSUME NEW n \in Nat, n \in S PROVE n + 1 \in S
  <2>1. ASSUME n + 1 <= Len(items) PROVE kept[n + 1] \in Seq(Items)
    <3>1. kept[n] \in Seq(Items) /\ n + 1 \in 1 .. Len(items)
      BY <1>1, <1>5, <2>1
    <3>2. items[n + 1] \in Items
      BY <3>1
    <3>3. Append(kept[n], items[n + 1]) \in Seq(Items)
      BY <3>1, <3>2, AppendFacts
    <3> QED
      BY <1>3, <2>1, <3>1, <3>3
  <2> QED
    BY <2>1
<1>6. Nat \subseteq S
  <2> HIDE DEF S
  <2> QED
    BY <1>4, <1>5, NatSets
<1>7. \A n \in 0 .. Len(items) : kept[n] \in Seq(Items)
  BY <1>1, <1>6
<1> QED
  BY <1>2, <1>3, <1>7

\* The ids of documents.
IdsOf(kept) == [d \in DOMAIN kept |-> kept[d].docId]

\* The words of documents.
WordsIn(kept) == UNION {Shown!Occurrences(kept[d], d - 1) : d \in DOMAIN kept}

\* A document more adds its id and its words, under the number of the documents
\* before it.
LEMMA OneDocumentMore ==
  ASSUME NEW kept \in Seq(Items), NEW item \in Items
  PROVE  /\ IdsOf(kept) \in Seq(Nat) /\ Len(IdsOf(kept)) = Len(kept)
         /\ IdsOf(Append(kept, item)) = Append(IdsOf(kept), item.docId)
         /\ WordsIn(Append(kept, item)) = WordsIn(kept) \cup Shown!Occurrences(item, Len(kept))
<1> DEFINE n == Len(kept)
           more == Append(kept, item)
<1>1. n \in Nat /\ DOMAIN kept = 1 .. n /\ \A d \in 1 .. n : kept[d] \in Items
  OBVIOUS
<1>2. DOMAIN more = 1 .. n + 1 /\ more[n + 1] = item /\ \A d \in 1 .. n : more[d] = kept[d]
  <2>1. more \in Seq(Items) /\ Len(more) = n + 1 /\ more[n + 1] = item /\ \A d \in 1 .. n : more[d] = kept[d]
    BY AppendFacts
  <2> QED
    BY <2>1
<1> HIDE DEF n, more
<1>3. n + 1 \in 1 .. n + 1 /\ (n + 1) - 1 = n /\ \A d \in 1 .. n + 1 : d \in 1 .. n \/ d = n + 1
  BY <1>1
<1>4. \A d \in 1 .. n : d \in 1 .. n + 1
  BY <1>1
<1>5. item.docId \in Nat /\ \A d \in 1 .. n : kept[d].docId \in Nat
  BY <1>1, ItemsAssumption DEF Item
<1>6. IdsOf(kept) \in Seq(Nat) /\ Len(IdsOf(kept)) = n
  <2>1. IdsOf(kept) \in [1 .. n -> Nat]
    BY <1>1, <1>5 DEF IdsOf
  <2> QED
    BY <1>1, <2>1, FunctionIsSeq
<1>7. IdsOf(more) = Append(IdsOf(kept), item.docId)
  <2>1. PICK ids : ids = IdsOf(kept)
    OBVIOUS
  <2>2. PICK a : a = Append(ids, item.docId)
    OBVIOUS
  <2>3. ids \in Seq(Nat) /\ Len(ids) = n /\ \A d \in 1 .. n : ids[d] = kept[d].docId
    BY <1>1, <1>6, <2>1 DEF IdsOf
  <2>4. a \in Seq(Nat) /\ Len(a) = n + 1 /\ a[n + 1] = item.docId /\ \A d \in 1 .. n : a[d] = ids[d]
    BY <1>5, <2>2, <2>3, AppendFacts
  <2>5. a = [d \in 1 .. n + 1 |-> a[d]]
    BY <2>4
  <2>6. \A d \in 1 .. n + 1 : a[d] = more[d].docId
    BY <1>2, <1>3, <2>3, <2>4
  <2>7. IdsOf(more) = [d \in 1 .. n + 1 |-> more[d].docId]
    BY <1>2 DEF IdsOf
  <2> QED
    BY <2>1, <2>2, <2>5, <2>6, <2>7
<1>8. WordsIn(more) = WordsIn(kept) \cup Shown!Occurrences(item, n)
  <2>1. \A d \in 1 .. n : Shown!Occurrences(more[d], d - 1) = Shown!Occurrences(kept[d], d - 1)
    BY <1>2
  <2>2. Shown!Occurrences(more[n + 1], (n + 1) - 1) = Shown!Occurrences(item, n)
    BY <1>2, <1>3
  <2> DEFINE O(m, d) == Shown!Occurrences(m[d], d - 1)
  <2>3. /\ WordsIn(more) = UNION {O(more, d) : d \in 1 .. n + 1}
        /\ WordsIn(kept) = UNION {O(kept, d) : d \in 1 .. n}
    BY <1>1, <1>2 DEF WordsIn
  <2>4. O(more, n + 1) = Shown!Occurrences(item, n) /\ \A d \in 1 .. n : O(more, d) = O(kept, d)
    BY <2>1, <2>2
  <2> HIDE DEF O
  <2> QED
    BY <1>3, <1>4, <2>3, <2>4
<1> QED
  BY <1>6, <1>7, <1>8 DEF n, more

-----------------------------------------------------------------------------
(* The types, and what the place in cook says about the state: how many    *)
(* items are done with, that the index in memory has been flushed, and     *)
(* which files there are.                                                  *)

\* How many items are done with.
Done == IF pc \in {"item", "flush", "abort", "aborted"} THEN itemsCnt - 1 ELSE itemsCnt

\* What the place in cook says about the state.
PlaceInv ==
  /\ pc \in {"item", "flush", "abort", "aborted"} => itemsCnt > 0
  /\ pc \in {"last", "merge", "merging", "wild", "done"} => itemsCnt = Len(dump)
  /\ pc \in {"merge", "merging", "wild", "done", "aborted"} => _invIdx = EmptyIndex
  /\ IF pc = "done" THEN docFile = docStore ELSE docFile = None

\* The entries in memory and in the raw indexes fit the postings file.
FitsInv == /\ IndexFits(_invIdx, postings)
           /\ \A f \in DOMAIN rawFiles : IndexFits(rawFiles[f], postings)

\* The types of all but the indexes.
TypeInv ==
  /\ dump \in Seq(Items) /\ itemsCnt \in 0 .. Len(dump)
  /\ pc \in {"check", "item", "flush", "last", "abort", "aborted", "merge", "merging", "wild", "done"}
  /\ docStore \in Seq(Nat) /\ postings \in Seq(Nat) /\ _commonSize = Len(postings)
  /\ rawFiles \in Seq(IndexType)
  /\ zonesForSave \in [Saved -> Seq(Words)]
  /\ DOMAIN docDB \subseteq Nat /\ Range(docDB) \subseteq [Saved -> Seq(Words)]

\* The empty index fits any file and says nothing.
LEMMA EmptyFits == \A F : IndexFits(EmptyIndex, F) /\ Says(EmptyIndex, F) = {}
<1>1. \A t \in Tokens : EmptyIndex[t] = <<>> /\ DOMAIN EmptyIndex[t] = {}
  BY DEF EmptyIndex
<1>2. EmptyIndex \in IndexType
  BY DEF EmptyIndex, IndexType
<1>3. \A F : \A x : x \notin Says(EmptyIndex, F)
  <2>1. \A F, x, t, k, z, v : ~ SaidAt(EmptyIndex, F, x, t, k, z, v)
    BY <1>1 DEF SaidAt
  <2> QED
    BY <2>1, SaysMembers
<1> QED
  BY <1>1, <1>2, <1>3 DEF IndexFits

\* The item at work is one of the dump.
LEMMA CurrentItem ==
  ASSUME TypeInv, itemsCnt > 0
  PROVE  /\ current \in Items /\ current.docId \in Nat /\ itemsCnt \in Nat /\ itemsCnt \in 1 .. Len(dump)
         /\ Len(docStore) \in Nat
<1>1. itemsCnt \in 1 .. Len(dump) /\ itemsCnt \in Nat
  BY DEF TypeInv
<1>2. current \in Items
  BY <1>1 DEF TypeInv, current
<1>3. Len(docStore) \in Nat
  BY DEF TypeInv
<1> QED
  BY <1>1, <1>2, <1>3, ItemsAssumption DEF Item

\* At the start the types, the place and the entries are right.
LEMMA InitTypeInv == Init => TypeInv /\ PlaceInv /\ FitsInv
<1> SUFFICES ASSUME Init PROVE TypeInv /\ PlaceInv /\ FitsInv
  OBVIOUS
<1>1. dump \in Seq(Items) /\ Len(dump) \in Nat
  BY DumpsAssumption DEF Init
<1>2. zonesForSave \in [Saved -> Seq(Words)]
  BY DEF Init, NoText
<1>3. DOMAIN docDB = {} /\ Range(docDB) = {}
  BY DEF Init, Range
<1>4. TypeInv
  BY <1>1, <1>2, <1>3 DEF TypeInv, Init
<1>5. PlaceInv
  BY DEF PlaceInv, Init
<1>6. FitsInv
  BY EmptyFits DEF FitsInv, Init
<1> QED
  BY <1>4, <1>5, <1>6

\* The texts to save are texts.
LEMMA ForSaveType ==
  ASSUME NEW item \in Items, zonesForSave \in [Saved -> Seq(Words)]
  PROVE  ForSave(item) \in [Saved -> Seq(Words)]
<1>1. \A z \in Saved : item.text[z] \in Seq(Words)
  BY TextFacts, SavedAssumption
<1> QED
  BY <1>1 DEF ForSave

\* The work on a document, its faulty form included.
LEMMA AddsItem ==
  ASSUME TypeInv, PlaceInv, FitsInv, Document \/ LateFault
  PROVE  /\ current \in Items /\ ItemAdded(_invIdx', postings', _commonSize', current)
         /\ itemsCnt > 0 /\ Len(docStore) \in Nat
<1>1. pc = "item" /\ ExtractTextZones(current)
  BY DEF Document, LateFault
<1>2. itemsCnt > 0
  BY <1>1 DEF PlaceInv
<1>3. current \in Items /\ Len(docStore) \in Nat
  BY <1>2, CurrentItem
<1>4. ItemAdded(_invIdx', postings', _commonSize', current)
  BY <1>1, <1>3, ExtractFacts DEF TypeInv, FitsInv, IndexFits
<1> QED
  BY <1>2, <1>3, <1>4

\* Every step keeps every entry inside the postings file, with a size for each of
\* its zones: the entries are written before a flush takes them away.
LEMMA NextFitsInv == TypeInv /\ PlaceInv /\ FitsInv /\ [Next]_vars => FitsInv'
<1> SUFFICES ASSUME TypeInv, PlaceInv, FitsInv, [Next]_vars PROVE FitsInv'
  OBVIOUS
<1>1. ASSUME UNCHANGED <<_invIdx, postings, rawFiles>> PROVE FitsInv'
  BY <1>1 DEF FitsInv
<1>2. ASSUME Document \/ LateFault PROVE FitsInv'
  <2>1. current \in Items /\ ItemAdded(_invIdx', postings', _commonSize', current)
    BY <1>2, AddsItem
  <2>2. postings' \in Seq(Nat) /\ Extends(postings', postings) /\ postings \in Seq(Nat)
    BY <2>1 DEF ItemAdded, TypeInv
  <2>3. IndexFits(_invIdx', postings')
    BY <2>1, <2>2, SaysGrows DEF FitsInv
  <2>4. rawFiles' = rawFiles /\ \A f \in DOMAIN rawFiles : IndexFits(rawFiles[f], postings')
    BY <1>2, <2>2, SaysKept DEF FitsInv, Document, LateFault
  <2> QED
    BY <2>3, <2>4 DEF FitsInv
<1>3. ASSUME Flush PROVE FitsInv'
  <2>1. /\ rawFiles' = Append(rawFiles, _invIdx) /\ _invIdx' = EmptyIndex /\ postings' = postings
        /\ rawFiles \in Seq(IndexType) /\ _invIdx \in IndexType
    BY <1>3 DEF Flush, TypeInv, FitsInv, IndexFits
  <2>2. /\ rawFiles' \in Seq(IndexType) /\ Len(rawFiles') = Len(rawFiles) + 1
        /\ rawFiles'[Len(rawFiles) + 1] = _invIdx
        /\ \A f \in 1 .. Len(rawFiles) : rawFiles'[f] = rawFiles[f]
    BY <2>1, AppendFacts
  <2>3. /\ DOMAIN rawFiles = 1 .. Len(rawFiles) /\ Len(rawFiles) \in Nat
        /\ DOMAIN rawFiles' = 1 .. Len(rawFiles) + 1
    BY <2>1, <2>2
  <2>4. \A f \in DOMAIN rawFiles' : f \in DOMAIN rawFiles \/ f = Len(rawFiles) + 1
    BY <2>3
  <2>5. \A f \in DOMAIN rawFiles' : IndexFits(rawFiles'[f], postings)
    BY <2>2, <2>3, <2>4 DEF FitsInv
  <2> QED
    BY <2>1, <2>5, EmptyFits DEF FitsInv
<1> QED
  BY <1>1, <1>2, <1>3 DEF Next, NextItem, AllItems, Translated, EarlyFault, StartMerge, MergeStep, WildMerge, Exit, vars,
     inMemory, onDisk

-----------------------------------------------------------------------------
(* The entries of a token are in the order of the documents.               *)

\* The entries ascend, and all are of one of the first n documents.
Ascends(s, n) == DocsAscend(s) /\ \A i \in DOMAIN s : s[i].docIdOffset < n

\* An entry of the next document keeps the order.
LEMMA AscendsAppend ==
  ASSUME NEW n \in Nat, NEW s \in Seq(Entry), Ascends(s, n), NEW e \in Entry, e.docIdOffset = n
  PROVE  Ascends(Append(s, e), n + 1)
<1>1. PICK a : a = Append(s, e)
  OBVIOUS
<1>2. a \in Seq(Entry) /\ Len(a) = Len(s) + 1 /\ a[Len(s) + 1] = e /\ \A i \in 1 .. Len(s) : a[i] = s[i]
  BY <1>1, AppendFacts
<1>3. DOMAIN s = 1 .. Len(s) /\ DOMAIN a = 1 .. Len(s) + 1 /\ Len(s) \in Nat
  BY <1>2
<1>4. \A i \in DOMAIN s : s[i].docIdOffset \in Nat /\ s[i].docIdOffset < n
  <2>1. \A i \in DOMAIN s : s[i] \in Entry
    BY <1>3
  <2> QED
    BY <2>1 DEF Ascends, Entry
<1>5. \A i \in DOMAIN a : i \in DOMAIN s \/ i = Len(s) + 1
  BY <1>3
<1>6. \A i \in DOMAIN a : a[i].docIdOffset < n + 1
  BY <1>2, <1>3, <1>4, <1>5
<1>7. ASSUME NEW i \in DOMAIN a, NEW j \in DOMAIN a, i < j PROVE a[i].docIdOffset < a[j].docIdOffset
  <2>1. i \in DOMAIN s
    BY <1>3, <1>7
  <2>2. CASE j = Len(s) + 1
    BY <1>2, <1>3, <1>4, <2>1, <2>2
  <2>3. CASE j \in DOMAIN s
    BY <1>2, <1>3, <1>7, <2>1, <2>3 DEF Ascends, DocsAscend
  <2> QED
    BY <1>5, <2>2, <2>3
<1> QED
  BY <1>1, <1>6, <1>7 DEF Ascends, DocsAscend

\* The order stays when a document is met without an entry.
LEMMA AscendsLater ==
  ASSUME NEW n \in Nat, NEW s \in Seq(Entry), Ascends(s, n)
  PROVE  Ascends(s, n + 1)
<1>1. \A i \in DOMAIN s : s[i].docIdOffset \in Nat /\ s[i].docIdOffset < n
  <2>1. \A i \in DOMAIN s : s[i] \in Entry
    OBVIOUS
  <2> QED
    BY <2>1 DEF Ascends, Entry
<1> QED
  BY <1>1 DEF Ascends

\* Appending to the second of two sequences appends to both.
LEMMA JoinAppend ==
  ASSUME NEW X, NEW s \in Seq(X), NEW t \in Seq(X), NEW x \in X
  PROVE  s \o Append(t, x) = Append(s \o t, x)
OBVIOUS

\* Nothing behind a sequence leaves it.
LEMMA JoinNothing ==
  ASSUME NEW X, NEW s \in Seq(X)
  PROVE  s \o <<>> = s
OBVIOUS

\* All entries of t so far.
EntriesSoFar(raws, idx, t) == CollectedOf(raws, t) \o idx[t]

\* All entries of a token are entries.
LEMMA EntriesType ==
  ASSUME NEW raws \in Seq(IndexType), NEW idx \in IndexType, NEW t \in Tokens
  PROVE  EntriesSoFar(raws, idx, t) \in Seq(Entry)
<1>1. CollectedOf(raws, t) \in Seq(Entry) /\ idx[t] \in Seq(Entry)
  BY CollectedFacts DEF IndexType
<1> QED
  BY <1>1, JoinFacts DEF EntriesSoFar

\* A flush leaves them as they are.
LEMMA EntriesFlushed ==
  ASSUME NEW raws \in Seq(IndexType), NEW idx \in IndexType, NEW t \in Tokens
  PROVE  EntriesSoFar(Append(raws, idx), EmptyIndex, t) = EntriesSoFar(raws, idx, t)
<1>1. CollectedOf(Append(raws, idx), t) = EntriesSoFar(raws, idx, t)
  BY CollectedAppend DEF EntriesSoFar
<1>2. EmptyIndex[t] = <<>>
  BY DEF EmptyIndex
<1> QED
  BY <1>1, <1>2, EntriesType, JoinNothing DEF EntriesSoFar

\* How many documents have entries: a faulty item may have some too.
Met == IF pc \in {"abort", "aborted"} THEN Len(docStore) + 1 ELSE Len(docStore)

\* The entries of a token ascend, those in raw indexes before those in memory.
OrderInv == \A t \in Tokens : Ascends(EntriesSoFar(rawFiles, _invIdx, t), Met)

\* At the start no token has an entry.
LEMMA InitOrderInv == Init => OrderInv
<1> SUFFICES ASSUME Init PROVE OrderInv
  OBVIOUS
<1>1. ASSUME NEW t \in Tokens PROVE EntriesSoFar(rawFiles, _invIdx, t) = <<>>
  <2>1. rawFiles \in Seq(IndexType) /\ DOMAIN rawFiles = {}
    BY DEF Init
  <2>2. CollectedOf(rawFiles, t) \in Seq(Entry) /\ Range(CollectedOf(rawFiles, t)) = {}
    BY <2>1, CollectedFacts
  <2>3. CollectedOf(rawFiles, t) = <<>>
    <3>1. PICK s : s = CollectedOf(rawFiles, t)
      OBVIOUS
    <3>2. s \in Seq(Entry) /\ DOMAIN s = {}
      BY <2>2, <3>1 DEF Range
    <3>3. Len(s) = 0
      BY <3>2
    <3>4. s = <<>>
      BY <3>2, <3>3
    <3> QED
      BY <3>1, <3>4
  <2>4. _invIdx[t] = <<>>
    BY DEF Init, EmptyIndex
  <2> QED
    BY <2>2, <2>3, <2>4, JoinNothing DEF EntriesSoFar
<1>2. DocsAscend(<<>>) /\ DOMAIN <<>> = {}
  BY DEF DocsAscend
<1> QED
  BY <1>1, <1>2 DEF OrderInv, Ascends, Init

\* Every step keeps the entries of a token ascending, over raw indexes and memory:
\* a document is counted when its entries are made, also when it is faulty.
LEMMA NextOrderInv == TypeInv /\ PlaceInv /\ FitsInv /\ OrderInv /\ [Next]_vars => OrderInv'
<1> SUFFICES ASSUME TypeInv, PlaceInv, FitsInv, OrderInv, [Next]_vars PROVE OrderInv'
  OBVIOUS
<1>1. /\ rawFiles \in Seq(IndexType) /\ _invIdx \in IndexType /\ Len(docStore) \in Nat
      /\ \A t \in Tokens : EntriesSoFar(rawFiles, _invIdx, t) \in Seq(Entry)
  <2>1. rawFiles \in Seq(IndexType) /\ _invIdx \in IndexType /\ Len(docStore) \in Nat
    BY DEF TypeInv, FitsInv, IndexFits
  <2> QED
    BY <2>1, EntriesType
<1>2. CASE UNCHANGED <<rawFiles, _invIdx, Met>>
  BY <1>2 DEF OrderInv
<1>3. CASE Document \/ LateFault
  <2>1. /\ pc = "item" /\ Met = Len(docStore) /\ Met' = Len(docStore) + 1 /\ rawFiles' = rawFiles
    <3>1. CASE Document
      <4>1. docStore' = Append(docStore, current.docId) /\ current.docId \in Nat /\ docStore \in Seq(Nat)
        BY <3>1, CurrentItem, AddsItem DEF Document, TypeInv
      <4>2. Len(docStore') = Len(docStore) + 1
        BY <4>1
      <4> QED
        BY <3>1, <4>2 DEF Document, Met
    <3>2. CASE LateFault
      BY <3>2 DEF LateFault, Met
    <3> QED
      BY <1>3, <3>1, <3>2
  <2>2. ItemAdded(_invIdx', postings', _commonSize', current)
    BY <1>3, AddsItem
  <2>3. ASSUME NEW t \in Tokens PROVE Ascends(EntriesSoFar(rawFiles', _invIdx', t), Met')
    <3>1. \/ \E e : e \in Entry /\ e.docIdOffset = Len(docStore) /\ _invIdx'[t] = Append(_invIdx[t], e)
          \/ _invIdx'[t] = _invIdx[t]
      BY <2>2 DEF ItemAdded, TokenDone, IsEntry, Fits
    <3>2. EntriesSoFar(rawFiles, _invIdx, t) \in Seq(Entry) /\ Ascends(EntriesSoFar(rawFiles, _invIdx, t), Len(docStore))
      BY <1>1, <2>1 DEF OrderInv
    <3>3. CASE _invIdx'[t] = _invIdx[t]
      <4>1. EntriesSoFar(rawFiles', _invIdx', t) = EntriesSoFar(rawFiles, _invIdx, t)
        BY <2>1, <3>3 DEF EntriesSoFar
      <4> QED
        BY <1>1, <2>1, <3>2, <4>1, AscendsLater
    <3>4. ASSUME NEW e \in Entry, e.docIdOffset = Len(docStore), _invIdx'[t] = Append(_invIdx[t], e)
          PROVE  Ascends(EntriesSoFar(rawFiles', _invIdx', t), Met')
      <4>1. CollectedOf(rawFiles, t) \in Seq(Entry) /\ _invIdx[t] \in Seq(Entry)
        BY <1>1, CollectedFacts DEF IndexType
      <4>2. CollectedOf(rawFiles, t) \o Append(_invIdx[t], e) = Append(CollectedOf(rawFiles, t) \o _invIdx[t], e)
        BY <3>4, <4>1, JoinAppend
      <4>3. EntriesSoFar(rawFiles', _invIdx', t) = Append(EntriesSoFar(rawFiles, _invIdx, t), e)
        BY <2>1, <3>4, <4>2 DEF EntriesSoFar
      <4> QED
        BY <1>1, <2>1, <3>2, <3>4, <4>3, AscendsAppend
    <3> QED
      BY <3>1, <3>3, <3>4
  <2> QED
    BY <2>1, <2>3 DEF OrderInv
<1>4. CASE EarlyFault
  <2>1. /\ UNCHANGED <<rawFiles, _invIdx>> /\ Met = Len(docStore) /\ Met' = Len(docStore) + 1
    BY <1>4 DEF EarlyFault, Met, inMemory, onDisk
  <2> QED
    BY <1>1, <2>1, AscendsLater DEF OrderInv
<1>5. CASE Flush
  <2>1. /\ rawFiles' = Append(rawFiles, _invIdx) /\ _invIdx' = EmptyIndex /\ Met' = Met
    BY <1>5 DEF Flush, Met
  <2>2. \A t \in Tokens : EntriesSoFar(rawFiles', _invIdx', t) = EntriesSoFar(rawFiles, _invIdx, t)
    BY <1>1, <2>1, EntriesFlushed
  <2> QED
    BY <2>1, <2>2 DEF OrderInv
<1>7. CASE NextItem \/ AllItems \/ Translated \/ StartMerge \/ MergeStep \/ WildMerge \/ Exit
  <2>1. UNCHANGED <<rawFiles, _invIdx, docStore>>
    BY <1>7 DEF NextItem, AllItems, Translated, StartMerge, MergeStep, WildMerge, Exit, inMemory, onDisk
  <2>2. Met' = Met
    BY <1>7, <2>1 DEF NextItem, AllItems, Translated, StartMerge, MergeStep, WildMerge, Exit, Met
  <2> QED
    BY <1>2, <2>1, <2>2
<1>8. CASE UNCHANGED vars
  BY <1>2, <1>8 DEF vars, inMemory, onDisk, Met
<1> QED
  BY <1>3, <1>4, <1>5, <1>7, <1>8 DEF Next

\* Every step keeps what the place in cook says.
LEMMA NextPlaceInv == TypeInv /\ PlaceInv /\ FitsInv /\ OrderInv /\ [Next]_vars => PlaceInv'
<1> SUFFICES ASSUME TypeInv, PlaceInv, FitsInv, OrderInv, [Next]_vars PROVE PlaceInv'
  OBVIOUS
<1>1. CASE NextItem
  BY <1>1 DEF NextItem, PlaceInv, TypeInv, inMemory, onDisk
<1>2. CASE AllItems \/ Translated \/ EarlyFault \/ WildMerge
  BY <1>2 DEF AllItems, Translated, EarlyFault, WildMerge, PlaceInv, inMemory, onDisk
<1>3. CASE Document
  BY <1>3 DEF Document, PlaceInv
<1>4. CASE LateFault
  BY <1>4 DEF LateFault, PlaceInv
<1>5. CASE Flush
  BY <1>5 DEF Flush, PlaceInv
<1>6. CASE StartMerge \/ MergeStep
  BY <1>6 DEF StartMerge, MergeStep, PlaceInv, inMemory, onDisk
<1>7. CASE Exit
  BY <1>7 DEF Exit, PlaceInv, inMemory
<1>8. CASE UNCHANGED vars
  BY <1>8 DEF vars, PlaceInv, inMemory, onDisk
<1> QED
  BY <1>1, <1>2, <1>3, <1>4, <1>5, <1>6, <1>7, <1>8 DEF Next

\* Every step keeps the types.
LEMMA NextTypeInv == TypeInv /\ PlaceInv /\ FitsInv /\ [Next]_vars => TypeInv'
<1> SUFFICES ASSUME TypeInv, PlaceInv, FitsInv, [Next]_vars PROVE TypeInv'
  OBVIOUS
<1>1. CASE NextItem
  BY <1>1 DEF NextItem, TypeInv, inMemory, onDisk
<1>2. CASE AllItems \/ Translated \/ EarlyFault \/ WildMerge
  BY <1>2 DEF AllItems, Translated, EarlyFault, WildMerge, TypeInv, inMemory, onDisk
<1>3. CASE Document \/ LateFault
  <2>1. /\ current \in Items /\ ItemAdded(_invIdx', postings', _commonSize', current)
        /\ current.docId \in Nat /\ pc' \in {"check", "abort"}
        /\ UNCHANGED <<dump, itemsCnt, rawFiles>> /\ zonesForSave' = ForSave(current)
    BY <1>3, AddsItem, CurrentItem DEF Document, LateFault
  <2>2. postings' \in Seq(Nat) /\ _commonSize' = Len(postings')
    BY <2>1 DEF ItemAdded
  <2>3. zonesForSave' \in [Saved -> Seq(Words)]
    BY <2>1, ForSaveType DEF TypeInv
  <2>4. docStore' \in Seq(Nat)
    <3>1. docStore' = Append(docStore, current.docId) \/ docStore' = docStore
      BY <1>3 DEF Document, LateFault
    <3> QED
      <4>1. docStore \in Seq(Nat) /\ Append(docStore, current.docId) \in Seq(Nat)
        BY <2>1, AppendFacts DEF TypeInv
      <4> QED
        BY <3>1, <4>1
  <2>5. DOMAIN docDB' \subseteq Nat /\ Range(docDB') \subseteq [Saved -> Seq(Words)]
    <3>1. CASE Document
      <4>1. /\ DOMAIN docDB' = DOMAIN docDB \cup {current.docId}
            /\ \A id \in DOMAIN docDB' : docDB'[id] = zonesForSave' \/ (id \in DOMAIN docDB /\ docDB'[id] = docDB[id])
        BY <3>1 DEF Document
      <4> QED
        BY <2>1, <2>3, <4>1 DEF TypeInv, Range
    <3>2. CASE LateFault
      BY <3>2 DEF LateFault, TypeInv
    <3> QED
      BY <1>3, <3>1, <3>2
  <2> QED
    BY <2>1, <2>2, <2>3, <2>4, <2>5 DEF TypeInv
<1>4. CASE Flush
  <2>1. rawFiles' \in Seq(IndexType)
    BY <1>4, AppendFacts DEF Flush, TypeInv, FitsInv, IndexFits
  <2> QED
    BY <1>4, <2>1 DEF Flush, TypeInv
<1>5. CASE StartMerge \/ MergeStep \/ Exit
  BY <1>5 DEF StartMerge, MergeStep, Exit, TypeInv, inMemory, onDisk
<1>6. CASE UNCHANGED vars
  BY <1>6 DEF vars, TypeInv, inMemory, onDisk
<1> QED
  BY <1>1, <1>2, <1>3, <1>4, <1>5, <1>6 DEF Next

-----------------------------------------------------------------------------
(* The tokens of a raw index.                                              *)

Scan == INSTANCE MergeIndexesProofs WITH
          raw <- RawTokens, it <- itIdx, entries <- collected, out <- merged, pc <- mergePc

\* The merge of the indexer is the one MergeIndexesProofs is about.
LEMMA SameMerge ==
  /\ Merge!Next => Scan!Next
  /\ \A t : Merge!Divided(t) <=> Scan!Divided(t)
  /\ Scan!TypeOK => Merge!TypeOK
<1>1. Merge!FindMin => Scan!FindMin
  BY DEF Merge!FindMin, Scan!FindMin, Merge!MinToken, Scan!MinToken, Merge!Min, Scan!Min, Merge!curTok, Scan!curTok
<1>2. Merge!OtherToken => Scan!OtherToken
  BY DEF Merge!OtherToken, Scan!OtherToken, Merge!AtIndex, Scan!AtIndex, Merge!curTok, Scan!curTok
<1>3. Merge!ReadToken => Scan!ReadToken
  BY DEF Merge!ReadToken, Scan!ReadToken, Merge!AtIndex, Scan!AtIndex, Merge!curTok, Scan!curTok,
         Merge!Read, Scan!Read, Merge!HasNext, Scan!HasNext
<1>4. Merge!ReadLastToken => Scan!ReadLastToken
  BY DEF Merge!ReadLastToken, Scan!ReadLastToken, Merge!AtIndex, Scan!AtIndex, Merge!curTok, Scan!curTok,
         Merge!Read, Scan!Read, Merge!HasNext, Scan!HasNext, Merge!RemoveAt, Scan!RemoveAt
<1>5. Merge!WriteItem \/ Merge!Rename => Scan!WriteItem \/ Scan!Rename
  BY DEF Merge!WriteItem, Scan!WriteItem, Merge!Rename, Scan!Rename
<1>6. \A t : Merge!Divided(t) <=> Scan!Divided(t)
  BY DEF Merge!Divided, Scan!Divided, Merge!Files, Scan!Files, Merge!Last, Scan!Last, Merge!Range, Scan!Range,
         Merge!Repeats, Scan!Repeats
<1>7. Scan!TypeOK => Merge!TypeOK
  BY DEF Merge!TypeOK, Scan!TypeOK, Merge!Files, Scan!Files, Merge!Places, Scan!Places, Merge!MergedItems, Scan!MergedItems
<1> QED
  BY <1>1, <1>2, <1>3, <1>4, <1>5, <1>6, <1>7 DEF Merge!Next, Scan!Next

\* The tokens of an index in their order: each once, and all of them.
LEMMA MapOrderFacts ==
  ASSUME NEW idx
  PROVE  /\ MapOrder(idx) \in Seq(Tokens)
         /\ \A k \in DOMAIN MapOrder(idx) : MapOrder(idx)[k] \in TokensIn(idx)
         /\ \A j, k \in DOMAIN MapOrder(idx) : j < k => MapOrder(idx)[j] < MapOrder(idx)[k]
         /\ \A t \in TokensIn(idx) : \E k \in DOMAIN MapOrder(idx) : MapOrder(idx)[k] = t
<1> DEFINE S == TokensIn(idx)
           n == Cardinality(S)
           D == 1 .. n
           rank == [t \in S |-> Rank(S, t)]
           s == MapOrder(idx)
<1>1. S \in SUBSET Nat /\ S \subseteq Tokens /\ IsFiniteSet(S)
  BY WordsAssumption, FS_Subset DEF TokensIn
<1>2. s = [k \in D |-> CHOOSE t \in S : Rank(S, t) = k]
  BY DEF MapOrder, Rank
<1> HIDE DEF S, s
<1>3. /\ n \in Nat /\ \A t \in S : Rank(S, t) \in D
      /\ \A t, u \in S : t < u => Rank(S, t) < Rank(S, u)
  BY <1>1, RankFacts
<1>4. IsFiniteSet(D) /\ Cardinality(D) = n
  <2>1. Cardinality(1 .. n) = IF 1 > n THEN 0 ELSE n - 1 + 1
    BY <1>3, FS_Interval
  <2>2. IsFiniteSet(1 .. n)
    BY <1>3, FS_Interval
  <2> QED
    BY <1>3, <2>1, <2>2
<1> HIDE DEF n
<1>5. \A t, u \in S : Rank(S, t) = Rank(S, u) => t = u
  <2>1. \A t, u \in S : t \in Nat /\ u \in Nat /\ Rank(S, t) \in Nat /\ Rank(S, u) \in Nat
    BY <1>1, <1>3
  <2> QED
    BY <1>3, <2>1
<1> HIDE DEF D
<1>6. rank \in Injection(S, D)
  BY <1>3, <1>5 DEF Injection, IsInjective
<1>7. rank \in Surjection(S, D)
  BY <1>1, <1>4, <1>6, FS_Injection DEF n
<1>8. \A k \in D : \E t \in S : Rank(S, t) = k
  BY <1>7 DEF Surjection
<1>9. \A k \in D : s[k] \in S /\ Rank(S, s[k]) = k
  BY <1>2, <1>8
<1>10. s \in Seq(Tokens) /\ DOMAIN s = D
  <2>1. s \in [1 .. n -> Tokens]
    <3>1. \A k \in D : s[k] \in Tokens
      BY <1>1, <1>9
    <3>2. s = [k \in D |-> s[k]]
      BY <1>2
    <3>3. s \in [D -> Tokens]
      BY <3>1, <3>2
    <3> QED
      BY <3>3 DEF D
  <2> QED
    BY <1>3, <2>1, FunctionIsSeq DEF D
<1>11. ASSUME NEW j \in D, NEW k \in D, j < k PROVE s[j] < s[k]
  <2>1. j \in Nat /\ k \in Nat /\ s[j] \in Nat /\ s[k] \in Nat
    <3>1. j \in Nat /\ k \in Nat
      BY <1>3 DEF D
    <3> QED
      BY <1>1, <1>9, <3>1
  <2>2. ~ (s[k] < s[j]) /\ s[j] # s[k]
    <3>1. Rank(S, s[j]) = j /\ Rank(S, s[k]) = k /\ s[j] \in S /\ s[k] \in S
      BY <1>9
    <3> QED
      BY <1>3, <1>11, <2>1, <3>1
  <2> QED
    BY <2>1, <2>2
<1>12. ASSUME NEW t \in S PROVE \E k \in D : s[k] = t
  <2>1. Rank(S, t) \in D /\ s[Rank(S, t)] \in S /\ Rank(S, s[Rank(S, t)]) = Rank(S, t)
    BY <1>3, <1>9
  <2> QED
    BY <1>5, <2>1
<1> QED
  BY <1>9, <1>10, <1>11, <1>12 DEF S, s

\* Raw indexes with tokens are what the merge can read, and no token is in one twice.
LEMMA RawTokensFacts ==
  ASSUME rawFiles \in Seq(IndexType), EmptyIndex \notin Range(rawFiles)
  PROVE  RawTokens \in Scan!RawIndexes
<1> DEFINE n == Len(rawFiles)
<1>1. n \in Nat /\ DOMAIN rawFiles = 1 .. n
  OBVIOUS
<1>2. ASSUME NEW f \in 1 .. n
      PROVE  /\ RawTokens[f] \in Scan!RawIndex
             /\ \A t \in Tokens : ~ Scan!Repeats(RawTokens[f], t)
  <2> DEFINE s == MapOrder(rawFiles[f])
  <2>1. RawTokens[f] = s
    BY <1>1, <1>2 DEF RawTokens
  <2>2. /\ s \in Seq(Tokens)
        /\ \A j, k \in DOMAIN s : j < k => s[j] < s[k]
        /\ \A t \in TokensIn(rawFiles[f]) : \E k \in DOMAIN s : s[k] = t
    BY MapOrderFacts
  <2>3. TokensIn(rawFiles[f]) # {}
    <3>1. rawFiles[f] \in IndexType /\ rawFiles[f] # EmptyIndex
      BY <1>1, <1>2 DEF Range
    <3>2. ASSUME TokensIn(rawFiles[f]) = {} PROVE rawFiles[f] = EmptyIndex
      <4>1. \A t \in Tokens : rawFiles[f][t] = <<>>
        BY <3>2 DEF TokensIn
      <4>2. rawFiles[f] = [t \in Tokens |-> rawFiles[f][t]]
        BY <3>1 DEF IndexType
      <4> QED
        BY <4>1, <4>2 DEF EmptyIndex
    <3> QED
      BY <3>1, <3>2
  <2> HIDE DEF s
  <2>4. s # <<>>
    BY <2>2, <2>3
  <2>5. \A j, k \in DOMAIN s : j \in Nat /\ k \in Nat /\ s[j] \in Nat /\ s[k] \in Nat
    <3>1. \A k \in DOMAIN s : k \in Nat /\ s[k] \in Tokens
      BY <2>2
    <3> QED
      BY <3>1, WordsAssumption
  <2>6. Scan!Ascending(s)
    BY <2>2, <2>5 DEF Scan!Ascending
  <2>7. \A t \in Tokens : ~ Scan!Repeats(s, t)
    <3>1. ASSUME NEW j \in DOMAIN s, NEW k \in DOMAIN s, j # k PROVE s[j] # s[k]
      <4>1. j < k \/ k < j
        BY <2>5, <3>1
      <4> QED
        BY <2>2, <2>5, <4>1
    <3> QED
      BY <3>1 DEF Scan!Repeats
  <2> QED
    BY <2>1, <2>2, <2>4, <2>6, <2>7 DEF Scan!RawIndex
<1>3. RawTokens \in Seq(Scan!RawIndex) /\ DOMAIN RawTokens = 1 .. n
  <2>1. RawTokens \in [1 .. n -> Scan!RawIndex]
    BY <1>1, <1>2 DEF RawTokens
  <2> QED
    BY <1>1, <2>1, FunctionIsSeq
<1> QED
  BY <1>2, <1>3 DEF Scan!RawIndexes

-----------------------------------------------------------------------------
(* The merge keeps its own invariant, and what it leads to.                *)

\* Before the merge begins.
NotYet == mergePc = "off" /\ itIdx = 1 /\ min = 0 /\ collected = {} /\ merged = <<>>

\* The merge has begun, or not yet.
MergingInv ==
  /\ IF pc \in {"merging", "done"} THEN Scan!IInv ELSE NotYet
  /\ pc = "done" => mergePc = "done"

\* Where the merge begins its invariant holds.
Begins == RawTokens \in Scan!RawIndexes /\ Scan!Opened => Scan!IInv

LEMMA BeginsNow == Begins
<1>1. Tokens \subseteq Nat
  BY WordsAssumption
<1> QED
  BY <1>1, Scan!InitHolds DEF Begins

\* Every step keeps it: the raw indexes are left alone.
LEMMA NextMergingInv == TypeInv /\ MergingInv /\ Begins' /\ [Next]_vars => MergingInv'
<1> SUFFICES ASSUME TypeInv, MergingInv, Begins', [Next]_vars PROVE MergingInv'
  OBVIOUS
<1>0. Tokens \subseteq Nat
  BY WordsAssumption
<1>1. CASE StartMerge
  <2>1. /\ pc = "merge" /\ pc' = "merging" /\ rawFiles' = rawFiles /\ NotYet
        /\ EmptyIndex \notin Range(rawFiles)
    BY <1>1 DEF StartMerge, onDisk, MergingInv
  <2>2. RawTokens' = RawTokens /\ DOMAIN RawTokens = DOMAIN rawFiles
    BY <2>1 DEF RawTokens
  <2>3. Scan!Opened'
    BY <1>1, <2>1, <2>2 DEF StartMerge, NotYet, Scan!Opened, Scan!Files
  <2>4. RawTokens \in Scan!RawIndexes
    BY <2>1, RawTokensFacts DEF TypeInv
  <2> QED
    BY <2>1, <2>2, <2>3, <2>4 DEF Begins, MergingInv
<1>2. CASE MergeStep
  <2>1. pc = "merging" /\ pc' = "merging" /\ Scan!Next /\ Scan!IInv
    BY <1>2, SameMerge DEF MergeStep, MergingInv
  <2>2. Scan!IInv'
    BY <1>0, <2>1, Scan!InvKeeps
  <2> QED
    BY <2>1, <2>2 DEF MergingInv
<1>3. CASE Exit \/ UNCHANGED vars
  <2>1. UNCHANGED Scan!vars
    <3>1. rawFiles' = rawFiles /\ UNCHANGED merge
      BY <1>3 DEF Exit, vars, onDisk
    <3> QED
      BY <3>1 DEF Scan!vars, RawTokens, merge
  <2>2. Scan!IInv => Scan!IInv'
    BY <1>0, <2>1, Scan!InvKeeps
  <2>3. mergePc' = mergePc
    BY <1>3 DEF Exit, vars, merge
  <2> QED
    <3>1. UNCHANGED merge
      BY <1>3 DEF Exit, vars
    <3> QED
      BY <1>3, <2>2, <2>3, <3>1 DEF Exit, vars, merge, NotYet, MergingInv
<1>4. CASE NextItem \/ AllItems \/ Translated \/ Document \/ EarlyFault \/ LateFault \/ Flush \/ WildMerge
  <2>1. pc \notin {"merging", "done"} /\ pc' \notin {"merging", "done"} /\ UNCHANGED merge
    BY <1>4 DEF NextItem, AllItems, Translated, Document, EarlyFault, LateFault, Flush, WildMerge, merge
  <2> QED
    BY <2>1 DEF MergingInv, NotYet, merge
<1> QED
  BY <1>1, <1>2, <1>3, <1>4 DEF Next

-----------------------------------------------------------------------------
(* The documents of the items that are done with.                          *)

\* The documents of the items done with.
KeptNow == KeptOf(dump, Done)

\* The document store has their ids.
StoreInv == docStore = IdsOf(KeptNow)

\* All words that the indexes raws and idx say are where.
SaidAll(idx, raws, F) == Says(idx, F) \cup SaidBy(raws, F)

\* What is said is what is in them.
ContentInv == pc \notin {"abort", "aborted"} => SaidAll(_invIdx, rawFiles, postings) = WordsIn(KeptNow)

\* The items done with are items of the dump.
LEMMA DoneNow ==
  ASSUME TypeInv, PlaceInv
  PROVE  Done \in 0 .. Len(dump) /\ Done \in Nat /\ KeptNow \in Seq(Items)
<1>1. Done \in 0 .. Len(dump) /\ Done \in Nat
  BY DEF TypeInv, PlaceInv, Done
<1> QED
  BY <1>1, KeptFacts DEF TypeInv, KeptNow

\* Only a document is added to those that are kept.
LEMMA NextKept ==
  ASSUME TypeInv, PlaceInv, [Next]_vars
  PROVE  /\ dump' = dump
         /\ Document => /\ Done' = Done + 1 /\ current = dump[Done'] /\ ~ dump[Done'].translated
                        /\ KeptNow' = Append(KeptNow, current)
         /\ Translated => Done' = Done + 1 /\ dump[Done'].translated
         /\ ~ Document /\ ~ Translated => Done' = Done
         /\ ~ Document => KeptNow' = KeptNow
<1>1. dump' = dump /\ dump \in Seq(Items) /\ itemsCnt \in Nat /\ itemsCnt \in 0 .. Len(dump)
  BY DEF Next, NextItem, AllItems, Translated, Document, EarlyFault, LateFault, Flush, StartMerge, MergeStep, WildMerge, Exit, vars,
     TypeInv
<1>2. ASSUME pc = "item", pc' = "check", itemsCnt' = itemsCnt
      PROVE  Done' = Done + 1 /\ Done' = itemsCnt /\ Done \in Nat /\ Done + 1 <= Len(dump)
  BY <1>1, <1>2 DEF Done, PlaceInv
<1>3. CASE Document
  <2>1. /\ Done' = Done + 1 /\ Done' = itemsCnt /\ Done \in Nat /\ Done + 1 <= Len(dump)
        /\ current = dump[Done'] /\ ~ current.translated
    BY <1>2, <1>3 DEF Document, current
  <2>2. KeptOf(dump, Done + 1) = Append(KeptOf(dump, Done), dump[Done + 1])
    BY <1>1, <2>1, KeptFacts
  <2>3. KeptNow' = Append(KeptNow, current)
    BY <1>1, <2>1, <2>2 DEF KeptNow
  <2> QED
    BY <1>1, <1>3, <2>1, <2>3 DEF Document, Translated
<1>4. CASE Translated
  <2>1. /\ Done' = Done + 1 /\ Done' = itemsCnt /\ Done \in Nat /\ Done + 1 <= Len(dump)
        /\ dump[Done + 1].translated
    BY <1>2, <1>4 DEF Translated, current
  <2>2. KeptOf(dump, Done + 1) = KeptOf(dump, Done)
    BY <1>1, <2>1, KeptFacts
  <2>3. KeptNow' = KeptNow
    BY <1>1, <2>1, <2>2 DEF KeptNow
  <2> QED
    BY <1>1, <1>4, <2>1, <2>3 DEF Document, Translated
<1>5. CASE ~ Document /\ ~ Translated
  <2>1. Done' = Done
    <3>1. CASE NextItem
      <4>1. itemsCnt' = itemsCnt + 1 /\ pc = "check" /\ pc' \in {"item", "flush"} /\ (itemsCnt + 1) - 1 = itemsCnt
        BY <1>1, <3>1 DEF NextItem
      <4> QED
        BY <4>1 DEF Done
    <3>2. CASE AllItems \/ EarlyFault \/ LateFault \/ Flush \/ StartMerge \/ MergeStep \/ WildMerge \/ Exit
      BY <3>2 DEF AllItems, EarlyFault, LateFault, Flush, StartMerge, MergeStep, WildMerge, Exit, Done
    <3>3. CASE UNCHANGED vars
      BY <3>3 DEF vars, Done
    <3> QED
      BY <1>5, <3>1, <3>2, <3>3 DEF Next
  <2> QED
    BY <1>1, <1>5, <2>1 DEF KeptNow
<1> QED
  BY <1>1, <1>3, <1>4, <1>5

\* At the start no document is stored and nothing said.
LEMMA InitContentInv == Init => StoreInv /\ ContentInv
<1> SUFFICES ASSUME Init PROVE StoreInv /\ ContentInv
  OBVIOUS
<1>1. dump \in Seq(Items) /\ Done = 0
  BY DumpsAssumption DEF Init, Done
<1>2. KeptNow = <<>>
  BY <1>1, KeptFacts DEF KeptNow
<1>3. IdsOf(KeptNow) = <<>>
  <2>1. IdsOf(<<>>) = [d \in {} |-> <<>>[d].docId] /\ DOMAIN <<>> = {}
    BY DEF IdsOf
  <2>2. PICK s : s = [d \in {} |-> <<>>[d].docId]
    OBVIOUS
  <2>3. s \in [1 .. 0 -> Nat]
    BY <2>2
  <2>4. s \in Seq(Nat) /\ Len(s) = 0
    BY <2>3, FunctionIsSeq
  <2>5. s = <<>>
    BY <2>4
  <2> QED
    BY <1>2, <2>1, <2>2, <2>5
<1>4. WordsIn(KeptNow) = {}
  BY <1>2 DEF WordsIn
<1>5. SaidAll(_invIdx, rawFiles, postings) = {}
  <2>1. Range(rawFiles) = {}
    BY DEF Init, Range
  <2> QED
    BY <2>1, EmptyFits DEF Init, SaidAll, SaidBy
<1> QED
  BY <1>3, <1>4, <1>5 DEF StoreInv, ContentInv, Init

\* What an action does to all that is said.
LEMMA NextSaid ==
  ASSUME TypeInv, PlaceInv, FitsInv, [Next]_vars
  PROVE  /\ Document \/ LateFault =>
              SaidAll(_invIdx', rawFiles', postings')
                = SaidAll(_invIdx, rawFiles, postings) \cup Shown!Occurrences(current, Len(docStore))
         /\ ~ Document /\ ~ LateFault =>
              SaidAll(_invIdx', rawFiles', postings') = SaidAll(_invIdx, rawFiles, postings)
<1>1. CASE Document \/ LateFault
  <2>1. current \in Items /\ ItemAdded(_invIdx', postings', _commonSize', current) /\ rawFiles' = rawFiles
    BY <1>1, AddsItem DEF Document, LateFault
  <2>2. postings' \in Seq(Nat) /\ Extends(postings', postings) /\ postings \in Seq(Nat) /\ IndexFits(_invIdx, postings)
    BY <2>1 DEF ItemAdded, TypeInv, FitsInv
  <2>3. Says(_invIdx', postings') = Says(_invIdx, postings) \cup Shown!Occurrences(current, Len(docStore))
    BY <2>1, <2>2, SaysGrows
  <2>4. \A f \in DOMAIN rawFiles : Says(rawFiles[f], postings') = Says(rawFiles[f], postings)
    BY <2>2, SaysKept DEF FitsInv
  <2>5. \A idx \in Range(rawFiles) : Says(idx, postings') = Says(idx, postings)
    BY <2>4 DEF Range
  <2>6. SaidBy(rawFiles, postings') = SaidBy(rawFiles, postings)
    BY <2>5 DEF SaidBy
  <2>7. SaidAll(_invIdx', rawFiles', postings')
          = SaidAll(_invIdx, rawFiles, postings) \cup Shown!Occurrences(current, Len(docStore))
    BY <2>1, <2>3, <2>6 DEF SaidAll
  <2> QED
    BY <1>1, <2>7
<1>2. CASE ~ Document /\ ~ LateFault
  <2>1. CASE Flush
    <3>1. /\ rawFiles' = Append(rawFiles, _invIdx) /\ _invIdx' = EmptyIndex /\ postings' = postings
          /\ rawFiles \in Seq(IndexType) /\ _invIdx \in IndexType
      BY <2>1 DEF Flush, TypeInv, FitsInv, IndexFits
    <3>2. Range(rawFiles') = Range(rawFiles) \cup {_invIdx}
      BY <3>1, AppendRange
    <3>3. \A x : x \in SaidBy(rawFiles', postings) <=> x \in SaidBy(rawFiles, postings) \/ x \in Says(_invIdx, postings)
      BY <3>2 DEF SaidBy
    <3>4. Says(_invIdx', postings') = {}
      BY <3>1, EmptyFits
    <3> QED
      BY <1>2, <3>1, <3>3, <3>4 DEF SaidAll
  <2>2. CASE ~ Flush
    <3>1. UNCHANGED <<_invIdx, rawFiles, postings>>
      BY <1>2, <2>2 DEF Next, NextItem, AllItems, Translated, EarlyFault, StartMerge, MergeStep, WildMerge, Exit, vars, inMemory, onDisk
    <3> QED
      BY <1>2, <3>1
  <2> QED
    BY <2>1, <2>2
<1> QED
  BY <1>1, <1>2

\* Every step keeps the document store and all that is said equal to the documents
\* of the items done with.
LEMMA NextContentInv ==
  TypeInv /\ PlaceInv /\ FitsInv /\ OrderInv /\ StoreInv /\ ContentInv /\ [Next]_vars => StoreInv' /\ ContentInv'
<1> SUFFICES ASSUME TypeInv, PlaceInv, FitsInv, OrderInv, StoreInv, ContentInv, [Next]_vars
             PROVE  StoreInv' /\ ContentInv'
  OBVIOUS
<1>1. CASE Document
  <2>1. KeptNow' = Append(KeptNow, current) /\ KeptNow \in Seq(Items) /\ current \in Items
    BY <1>1, NextKept, DoneNow, AddsItem
  <2>2. /\ IdsOf(KeptNow') = Append(IdsOf(KeptNow), current.docId) /\ Len(IdsOf(KeptNow)) = Len(KeptNow)
        /\ WordsIn(KeptNow') = WordsIn(KeptNow) \cup Shown!Occurrences(current, Len(KeptNow))
    BY <2>1, OneDocumentMore
  <2>3. docStore' = Append(docStore, current.docId) /\ pc = "item" /\ pc' = "check"
    BY <1>1 DEF Document
  <2>4. SaidAll(_invIdx', rawFiles', postings')
          = SaidAll(_invIdx, rawFiles, postings) \cup Shown!Occurrences(current, Len(docStore))
    BY <1>1, NextSaid
  <2>5. StoreInv'
    BY <2>2, <2>3 DEF StoreInv
  <2>6. SaidAll(_invIdx', rawFiles', postings') = WordsIn(KeptNow')
    BY <2>2, <2>3, <2>4 DEF StoreInv, ContentInv
  <2> QED
    BY <2>3, <2>5, <2>6 DEF ContentInv
<1>2. CASE ~ Document
  <2>1. KeptNow' = KeptNow /\ docStore' = docStore
    BY <1>2, NextKept DEF Next, NextItem, AllItems, Translated, EarlyFault, LateFault, Flush, StartMerge, MergeStep, WildMerge, Exit,
       vars, inMemory
  <2>2. StoreInv'
    BY <2>1 DEF StoreInv
  <2>3. CASE LateFault
    <3>1. pc' = "abort"
      BY <2>3 DEF LateFault
    <3> QED
      BY <2>2, <3>1 DEF ContentInv
  <2>4. CASE ~ LateFault
    <3>1. SaidAll(_invIdx', rawFiles', postings') = SaidAll(_invIdx, rawFiles, postings)
      BY <1>2, <2>4, NextSaid
    <3>2. pc' \notin {"abort", "aborted"} => pc \notin {"abort", "aborted"}
      BY <1>2, <2>4 DEF Next, NextItem, AllItems, Translated, EarlyFault, Flush, StartMerge, MergeStep, WildMerge, Exit, vars
    <3> QED
      BY <2>1, <2>2, <3>1, <3>2 DEF ContentInv
  <2> QED
    BY <2>3, <2>4
<1> QED
  BY <1>1, <1>2

-----------------------------------------------------------------------------
(* The merged index.                                                       *)

\* Of the entries of token t those of the raw indexes in which t was at a place of P.
PartsRead(P, t) == [f \in DOMAIN rawFiles |-> IF \E place \in P : place[1] = f THEN rawFiles[f][t] ELSE <<>>]

\* The first of two sequences ascends where both do.
LEMMA FrontAscends ==
  ASSUME NEW s \in Seq(Entry), NEW t \in Seq(Entry), DocsAscend(s \o t)
  PROVE  DocsAscend(s)
<1>1. \A i \in DOMAIN s : i \in DOMAIN (s \o t) /\ (s \o t)[i] = s[i]
  OBVIOUS
<1> QED
  BY <1>1 DEF DocsAscend

\* The entries read for a token ascend in the order of the raw indexes, and are
\* those that these have of it.
LEMMA PartsReadFacts ==
  ASSUME TypeInv, FitsInv, OrderInv, NEW t \in Tokens, NEW P
  PROVE  /\ FlattenSeq(PartsRead(P, t)) \in Seq(Entry) /\ DocsAscend(FlattenSeq(PartsRead(P, t)))
         /\ \A e : e \in Range(FlattenSeq(PartsRead(P, t))) <=>
              \E f \in DOMAIN rawFiles : (\E place \in P : place[1] = f) /\ e \in Range(rawFiles[f][t])
<1> DEFINE n == Len(rawFiles)
           ss == [f \in DOMAIN rawFiles |-> rawFiles[f][t]]
           tt == PartsRead(P, t)
<1>1. n \in Nat /\ DOMAIN rawFiles = 1 .. n /\ rawFiles \in Seq(IndexType) /\ _invIdx \in IndexType
  BY DEF TypeInv, FitsInv, IndexFits
<1>2. \A f \in 1 .. n : rawFiles[f][t] \in Seq(Entry)
  BY <1>1 DEF IndexType
<1>3. /\ ss \in [1 .. n -> Seq(Entry)] /\ tt \in [1 .. n -> Seq(Entry)]
      /\ \A f \in 1 .. n : ss[f] = rawFiles[f][t]
      /\ \A f \in 1 .. n : tt[f] = IF \E place \in P : place[1] = f THEN rawFiles[f][t] ELSE <<>>
  BY <1>1, <1>2 DEF PartsRead
<1> HIDE DEF ss, tt, n
<1>4. ss \in Seq(Seq(Entry)) /\ Len(ss) = n /\ tt \in Seq(Seq(Entry)) /\ Len(tt) = n
  BY <1>1, <1>3, FunctionIsSeq
<1>5. DocsAscend(FlattenSeq(ss))
  <2>1. FlattenSeq(ss) = CollectedOf(rawFiles, t)
    BY DEF CollectedOf, ss
  <2>2. CollectedOf(rawFiles, t) \in Seq(Entry) /\ _invIdx[t] \in Seq(Entry)
    BY <1>1, CollectedFacts DEF IndexType
  <2>3. DocsAscend(CollectedOf(rawFiles, t) \o _invIdx[t])
    BY DEF OrderInv, Ascends, EntriesSoFar
  <2> QED
    BY <2>1, <2>2, <2>3, FrontAscends
<1>6. FlattenSeq(tt) \in Seq(Entry) /\ DocsAscend(FlattenSeq(tt))
  BY <1>3, <1>4, <1>5, FlattenFacts, PartsLeftOut
<1>7. \A e : e \in Range(FlattenSeq(tt)) <=> \E f \in 1 .. n : e \in Range(tt[f])
  BY <1>4, FlattenRange
<1>8. \A e : e \notin Range(<<>>)
  BY DEF Range
<1> QED
  BY <1>1, <1>3, <1>6, <1>7, <1>8, ZenonT(40) DEF tt

\* An item of the merged index has the entries that were read for it, in the order
\* of their documents.
LEMMA EntriesOfFacts ==
  ASSUME TypeInv, FitsInv, OrderInv, NEW item, item.token \in Tokens
  PROVE  /\ EntriesOf(item) \in Seq(Entry) /\ DocsAscend(EntriesOf(item))
         /\ \A e : e \in Range(EntriesOf(item)) <=>
              \E f \in DOMAIN rawFiles : (\E place \in item.places : place[1] = f) /\ e \in Range(rawFiles[f][item.token])
<1> DEFINE es == FlattenSeq(PartsRead(item.places, item.token))
<1>1. /\ es \in Seq(Entry) /\ DocsAscend(es)
      /\ \A e : e \in Range(es) <=>
           \E f \in DOMAIN rawFiles : (\E place \in item.places : place[1] = f) /\ e \in Range(rawFiles[f][item.token])
  BY PartsReadFacts
<1>2. EntriesOf(item) = Sorted(es)
  BY DEF EntriesOf, PartsRead
<1> HIDE DEF es
<1>3. Sorted(es) \in Seq(Entry) /\ Range(Sorted(es)) = Range(es) /\ DocsAscend(Sorted(es))
  BY <1>1, SortedFacts
<1> QED
  BY <1>1, <1>2, <1>3

\* What has been read of raw index f for token t is in item i.
ReadFor(i, f, t) == merged[i].token = t /\ \E place \in merged[i].places : place[1] = f

\* When the merge is done every token of every raw index has been read for an item,
\* and a token that is not divided has one item.
LEMMA MergedFacts ==
  ASSUME TypeInv, MergingInv, mergePc = "done"
  PROVE  /\ Len(merged) \in Nat /\ DOMAIN merged = 1 .. Len(merged)
         /\ \A i \in DOMAIN merged : merged[i].token \in Tokens
         /\ \A f \in DOMAIN rawFiles : \A t \in TokensIn(rawFiles[f]) : \E i \in DOMAIN merged : ReadFor(i, f, t)
         /\ \A i, j \in DOMAIN merged : merged[i].token = merged[j].token /\ ~ Scan!Divided(merged[i].token) => i = j
<1>1. Scan!IInv
  BY DEF MergingInv, NotYet
<1>2. Scan!TypeOK /\ Scan!ListInv /\ Scan!PlacesInv /\ Scan!ApartInv
  BY <1>1 DEF Scan!IInv, Scan!MergeInv
<1>3. merged \in Seq(Scan!MergedItems)
  BY <1>2 DEF Scan!TypeOK
<1>4. Len(merged) \in Nat /\ DOMAIN merged = 1 .. Len(merged) /\ \A i \in DOMAIN merged : merged[i] \in Scan!MergedItems
  BY <1>3
<1>5. \A i \in DOMAIN merged : merged[i].token \in Tokens
  BY <1>4 DEF Scan!MergedItems
<1>6. ASSUME NEW f \in DOMAIN rawFiles, NEW t \in TokensIn(rawFiles[f])
      PROVE  \E i \in DOMAIN merged : ReadFor(i, f, t)
  <2>1. RawTokens[f] = MapOrder(rawFiles[f]) /\ f \in Scan!Files
    BY DEF RawTokens, Scan!Files
  <2>2. PICK p \in DOMAIN MapOrder(rawFiles[f]) : MapOrder(rawFiles[f])[p] = t
    BY MapOrderFacts
  <2>3. p \in 1 .. Len(RawTokens[f]) /\ Len(RawTokens[f]) \in Nat /\ RawTokens[f][p] = t
    <3>1. MapOrder(rawFiles[f]) \in Seq(Tokens)
      BY MapOrderFacts
    <3> QED
      BY <2>1, <2>2, <3>1
  <2>4. pos[f] = Len(RawTokens[f]) + 1 /\ collected = {}
    BY <1>2, <2>1 DEF Scan!ListInv, Scan!PlacesInv
  <2>5. Scan!PlaceInv(f, p)
    BY <1>2, <2>1, <2>3 DEF Scan!PlacesInv
  <2>6. p < pos[f]
    BY <2>3, <2>4
  <2>7. PICK i \in DOMAIN merged : Scan!InItem(i, f, p)
    BY <2>4, <2>5, <2>6 DEF Scan!PlaceInv
  <2>8. merged[i].token = t /\ <<f, p>> \in merged[i].places /\ <<f, p>>[1] = f
    BY <2>3, <2>5, <2>7 DEF Scan!PlaceInv, Scan!InItem
  <2> QED
    BY <2>8 DEF ReadFor
<1>7. ASSUME NEW i \in DOMAIN merged, NEW j \in DOMAIN merged, merged[i].token = merged[j].token,
             ~ Scan!Divided(merged[i].token)
      PROVE  i = j
  <2>1. i \in Nat /\ j \in Nat
    BY <1>4
  <2>2. ~ (i < j) /\ ~ (j < i)
    BY <1>2, <1>7 DEF Scan!ApartInv
  <2> QED
    BY <2>1, <2>2
<1> QED
  BY <1>4, <1>5, <1>6, <1>7

\* The index is the items written, each with its entries.
LEMMA IndexFacts ==
  ASSUME TypeInv, FitsInv, OrderInv, MergingInv, mergePc = "done"
  PROVE  /\ index \in IndexFile /\ index # None /\ DOMAIN index = DOMAIN merged
         /\ \A i \in DOMAIN index : index[i].token = merged[i].token /\ index[i].entries = EntriesOf(merged[i])
<1>1. index = [i \in DOMAIN merged |-> [token |-> merged[i].token, entries |-> EntriesOf(merged[i])]]
  BY DEF index
<1>2. /\ Len(merged) \in Nat /\ DOMAIN merged = 1 .. Len(merged)
      /\ \A i \in DOMAIN merged : merged[i].token \in Tokens
  BY MergedFacts
<1>3. \A i \in DOMAIN merged : EntriesOf(merged[i]) \in Seq(Entry)
  BY <1>2, EntriesOfFacts
<1>4. index \in [1 .. Len(merged) -> [token : Tokens, entries : Seq(Entry)]]
  BY <1>1, <1>2, <1>3
<1>5. index \in IndexFile
  BY <1>2, <1>4, FunctionIsSeq DEF IndexFile
<1> QED
  BY <1>1, <1>5, NoneAssumption

\* The items of the merged index say what the raw indexes say, and all of it.
LEMMA IndexSays ==
  ASSUME TypeInv, PlaceInv, FitsInv, OrderInv, MergingInv, mergePc = "done"
  PROVE  FoundInItems(index) = SaidAll(_invIdx, rawFiles, postings)
<1> DEFINE All == SaidAll(_invIdx, rawFiles, postings)
<1>1. /\ DOMAIN index = DOMAIN merged
      /\ \A i \in DOMAIN index : /\ index[i].token = merged[i].token /\ index[i].entries = EntriesOf(merged[i])
                                 /\ merged[i].token \in Tokens
  BY IndexFacts, MergedFacts
<1>2. \A x : x \in All <=> \E f \in DOMAIN rawFiles : x \in Says(rawFiles[f], postings)
  <2>1. _invIdx = EmptyIndex
    BY DEF PlaceInv, MergingInv, NotYet
  <2>2. All = SaidBy(rawFiles, postings)
    BY <2>1, EmptyFits DEF SaidAll
  <2> QED
    BY <2>2 DEF SaidBy, Range
<1> HIDE DEF All
<1>3. ASSUME NEW x, x \in FoundInItems(index) PROVE x \in All
  <2>1. PICK item \in Range(index) : x \in UNION {FoundIn(e, item.token) : e \in Range(item.entries)}
    BY <1>3 DEF FoundInItems
  <2>2. PICK i \in DOMAIN index : item = index[i]
    BY <2>1 DEF Range
  <2>3. PICK t \in Tokens : t = merged[i].token
    BY <1>1, <2>2
  <2>4. PICK e \in Range(EntriesOf(merged[i])) : x \in FoundIn(e, t)
    BY <1>1, <2>1, <2>2, <2>3
  <2>5. PICK f \in DOMAIN rawFiles : e \in Range(rawFiles[f][t])
    BY <2>3, <2>4, EntriesOfFacts
  <2>6. x \in SaysOf(e, t, postings)
    BY <2>4, FoundSays
  <2>7. x \in Says(rawFiles[f], postings)
    <3>1. x \in UNION {SaysOf(d, t, postings) : d \in Range(rawFiles[f][t])}
      BY <2>5, <2>6
    <3> QED
      BY <3>1 DEF Says
  <2> QED
    BY <1>2, <2>7
<1>4. ASSUME NEW x, x \in All PROVE x \in FoundInItems(index)
  <2>1. PICK f \in DOMAIN rawFiles : x \in Says(rawFiles[f], postings)
    BY <1>2, <1>4
  <2>2. PICK t \in Tokens : x \in UNION {SaysOf(d, t, postings) : d \in Range(rawFiles[f][t])}
    BY <2>1 DEF Says
  <2>3. PICK e \in Range(rawFiles[f][t]) : x \in SaysOf(e, t, postings)
    BY <2>2
  <2>4. t \in TokensIn(rawFiles[f])
    BY <2>3 DEF TokensIn, Range
  <2>5. PICK i \in DOMAIN merged : ReadFor(i, f, t)
    BY <2>4, MergedFacts
  <2>6. e \in Range(EntriesOf(merged[i])) /\ merged[i].token = t
    BY <2>3, <2>5, EntriesOfFacts DEF ReadFor
  <2>7. x \in FoundIn(e, t)
    BY <2>3, FoundSays
  <2>8. PICK item \in Range(index) : item = index[i]
    BY <1>1, <2>5 DEF Range
  <2>9. x \in UNION {FoundIn(d, item.token) : d \in Range(item.entries)}
    BY <1>1, <2>6, <2>7, <2>8
  <2> QED
    BY <2>9 DEF FoundInItems
<1> QED
  BY <1>3, <1>4 DEF All

\* What is found has the token it is found by.
LEMMA FoundToken == \A e, t, x : x \in FoundIn(e, t) => x.tok = t
  BY DEF FoundIn

\* A search finds nothing but what an item says, and all of that but for tokens that
\* are divided.
LEMMA SearchFinds ==
  ASSUME TypeInv, FitsInv, OrderInv, MergingInv, mergePc = "done"
  PROVE  /\ Found(AsRead(index)) \subseteq FoundInItems(index)
         /\ \A x \in FoundInItems(index) : x \in Found(AsRead(index)) \/ Scan!Divided(x.tok)
<1>1. /\ DOMAIN index \subseteq Nat
      /\ \A i \in DOMAIN index : index[i].token \in Tokens
      /\ \A i, j \in DOMAIN index : index[i].token = index[j].token /\ ~ Scan!Divided(index[i].token) => i = j
  BY IndexFacts, MergedFacts
<1>2. ASSUME NEW t, ItemsOf(index, t) # {}
      PROVE  Min(ItemsOf(index, t)) \in DOMAIN index /\ index[Min(ItemsOf(index, t))].token = t
  <2>1. ItemsOf(index, t) \in SUBSET Nat
    BY <1>1 DEF ItemsOf
  <2>2. Min(ItemsOf(index, t)) \in ItemsOf(index, t)
    BY <1>2, <2>1, MinFacts
  <2> QED
    BY <2>2 DEF ItemsOf
<1>3. ASSUME NEW x, x \in Found(AsRead(index)) PROVE x \in FoundInItems(index)
  <2>1. PICK t \in Tokens : x \in UNION {FoundIn(e, t) : e \in Range(AsRead(index)[t])}
    BY <1>3 DEF Found
  <2>2. PICK e \in Range(AsRead(index)[t]) : x \in FoundIn(e, t)
    BY <2>1
  <2>3. ItemsOf(index, t) # {}
    <3>1. ASSUME ItemsOf(index, t) = {} PROVE FALSE
      <4>1. AsRead(index)[t] = <<>>
        BY <3>1 DEF AsRead
      <4> QED
        BY <2>2, <4>1 DEF Range
    <3> QED
      BY <3>1
  <2>4. PICK m \in DOMAIN index : m = Min(ItemsOf(index, t)) /\ index[m].token = t
    BY <1>2, <2>3
  <2>5. AsRead(index)[t] = index[m].entries
    BY <2>3, <2>4 DEF AsRead
  <2>6. PICK item \in Range(index) : item = index[m]
    BY <2>4 DEF Range
  <2>7. x \in UNION {FoundIn(d, item.token) : d \in Range(item.entries)}
    BY <2>2, <2>4, <2>5, <2>6
  <2> QED
    BY <2>7 DEF FoundInItems
<1>4. ASSUME NEW x \in FoundInItems(index), ~ Scan!Divided(x.tok) PROVE x \in Found(AsRead(index))
  <2>1. PICK item \in Range(index) : x \in UNION {FoundIn(e, item.token) : e \in Range(item.entries)}
    BY <1>4 DEF FoundInItems
  <2>2. PICK e \in Range(item.entries) : x \in FoundIn(e, item.token)
    BY <2>1
  <2>3. PICK i \in DOMAIN index : item = index[i]
    BY <2>1 DEF Range
  <2>4. PICK t \in Tokens : t = index[i].token
    BY <1>1, <2>3
  <2>5. x.tok = t
    BY <2>2, <2>3, <2>4, FoundToken
  <2>6. ItemsOf(index, t) # {}
    BY <2>3, <2>4 DEF ItemsOf
  <2>7. Min(ItemsOf(index, t)) = i
    BY <1>1, <1>2, <1>4, <2>3, <2>4, <2>5, <2>6
  <2>8. AsRead(index)[t] = index[i].entries
    BY <2>6, <2>7 DEF AsRead
  <2>9. x \in UNION {FoundIn(d, t) : d \in Range(AsRead(index)[t])}
    BY <2>2, <2>3, <2>4, <2>8
  <2> QED
    BY <2>9 DEF Found
<1> QED
  BY <1>3, <1>4

-----------------------------------------------------------------------------
(* The texts saved.                                                        *)

\* The texts of the item are those saved under its id.
SavedAs(db, item) ==
  /\ item.docId \in DOMAIN db
  /\ \A z \in Saved : item.text[z] # <<>> => db[item.docId][z] = item.text[z]

\* Item i is a document, and none up to n has its id after it.
LastOf(i, n) ==
  ~ dump[i].translated /\ \A j \in i + 1 .. n : ~ dump[j].translated => dump[j].docId # dump[i].docId

\* TextsOwn of the items done with, at every place in cook.
TextsInv == \A i \in 1 .. Done : LastOf(i, Done) => SavedAs(docDB, dump[i])

\* Every step keeps the texts saved: a document replaces the text of its own id
\* only.
LEMMA NextTextsInv == TypeInv /\ PlaceInv /\ FitsInv /\ TextsInv /\ [Next]_vars => TextsInv'
<1> SUFFICES ASSUME TypeInv, PlaceInv, FitsInv, TextsInv, [Next]_vars PROVE TextsInv'
  OBVIOUS
<1>1. Done \in Nat /\ dump' = dump
  BY DoneNow, NextKept
<1>2. ASSUME Done' = Done + 1, NEW i \in 1 .. Done', LastOf(i, Done') PROVE i \in 1 .. Done => LastOf(i, Done)
  <2>1. \A j \in i + 1 .. Done : j \in i + 1 .. Done'
    BY <1>1, <1>2
  <2> QED
    BY <1>1, <1>2, <2>1 DEF LastOf
<1>3. CASE Document
  <2>1. Done' = Done + 1 /\ current = dump[Done'] /\ current \in Items
    BY <1>3, NextKept, AddsItem
  <2>2. /\ DOMAIN docDB' = DOMAIN docDB \cup {current.docId} /\ docDB'[current.docId] = ForSave(current)
        /\ \A id \in DOMAIN docDB : id # current.docId => docDB'[id] = docDB[id]
    BY <1>3 DEF Document
  <2>3. ASSUME NEW i \in 1 .. Done', LastOf(i, Done') PROVE SavedAs(docDB', dump[i])
    <3>1. CASE i = Done'
      BY <2>1, <2>2, <3>1 DEF SavedAs, ForSave
    <3>2. CASE i # Done'
      <4>1. i \in 1 .. Done /\ Done' \in i + 1 .. Done'
        BY <1>1, <2>1, <3>2
      <4>2. SavedAs(docDB, dump[i])
        BY <1>2, <2>1, <2>3, <4>1 DEF TextsInv
      <4>3. dump[i].docId # current.docId
        BY <1>3, <2>1, <2>3, <4>1 DEF LastOf, Document
      <4> QED
        BY <2>2, <4>2, <4>3 DEF SavedAs
    <3> QED
      BY <3>1, <3>2
  <2> QED
    BY <1>1, <2>3 DEF TextsInv, LastOf
<1>4. CASE Translated
  <2>1. Done' = Done + 1 /\ dump[Done'].translated /\ docDB' = docDB
    BY <1>4, NextKept DEF Translated, onDisk
  <2>2. ASSUME NEW i \in 1 .. Done', LastOf(i, Done') PROVE SavedAs(docDB, dump[i])
    <3>1. i # Done'
      BY <2>1, <2>2 DEF LastOf
    <3>2. i \in 1 .. Done
      BY <1>1, <2>1, <3>1
    <3> QED
      BY <1>2, <2>1, <2>2, <3>2 DEF TextsInv
  <2> QED
    BY <1>1, <2>1, <2>2 DEF TextsInv, LastOf
<1>5. CASE ~ Document /\ ~ Translated
  <2>1. Done' = Done
    BY <1>5, NextKept
  <2>2. docDB' = docDB
    BY <1>5 DEF Next, NextItem, AllItems, EarlyFault, LateFault, Flush, StartMerge, MergeStep, WildMerge, Exit, vars, onDisk
  <2> QED
    BY <1>1, <2>1, <2>2 DEF TextsInv, LastOf
<1> QED
  BY <1>3, <1>4, <1>5

-----------------------------------------------------------------------------
(* The invariant of the indexer, and what follows from it.                 *)

\* All of it is inductive together.
IndexerInv == TypeInv /\ PlaceInv /\ FitsInv /\ OrderInv /\ StoreInv /\ ContentInv /\ TextsInv /\ MergingInv

\* The invariant is inductive; where the merge begins that of the merge does.
LEMMA IndexerInvHolds == Spec => []IndexerInv
<1>1. Init => IndexerInv
  <2>1. Init => TextsInv
    BY DEF Init, TextsInv, Done
  <2>2. Init => MergingInv
    BY DEF Init, MergingInv, NotYet
  <2> QED
    BY <2>1, <2>2, InitTypeInv, InitOrderInv, InitContentInv DEF IndexerInv
<1>2. IndexerInv /\ Begins' /\ [Next]_vars => IndexerInv'
  BY NextTypeInv, NextPlaceInv, NextFitsInv, NextOrderInv, NextContentInv, NextTextsInv, NextMergingInv DEF IndexerInv
<1>3. Begins
  BY BeginsNow
<1> QED
  BY <1>1, <1>2, <1>3, PTL DEF Spec

\* There is an index when the merge is done.
LEMMA IndexThere == index # None => mergePc = "done"
  BY DEF index

\* The types of the indexer: the counter that the offsets of entries come from is
\* always the size of the postings file, and an entry has a size for each of its
\* zones, for any dump, number of zones up to 8 and interval of the memory checks.
THEOREM IndexerTypeOK == Spec => []TypeOK
<1>1. IndexerInv => TypeOK
  <2> SUFFICES ASSUME IndexerInv PROVE TypeOK
    OBVIOUS
  <2>1. TypeInv /\ PlaceInv /\ FitsInv /\ OrderInv /\ MergingInv
    BY DEF IndexerInv
  <2>2. /\ _invIdx \in IndexType
        /\ \A t \in Tokens : \A k \in DOMAIN _invIdx[t] :
             Len(_invIdx[t][k].postingSizes) = Cardinality(_invIdx[t][k].inZone)
    BY <2>1 DEF FitsInv, IndexFits, Fits
  <2>3. docFile \in Seq(Nat) \cup {None} /\ (pc = "item" => itemsCnt > 0)
    BY <2>1 DEF PlaceInv, TypeInv
  <2>4. index \in IndexFile \cup {None}
    BY <2>1, IndexThere, IndexFacts
  <2>5. mergePc # "off" => Merge!TypeOK
    BY <2>1, SameMerge DEF MergingInv, NotYet, Scan!IInv, Scan!MergeInv
  <2> HIDE DEF index
  <2> QED
    BY <2>1, <2>2, <2>3, <2>4, <2>5 DEF TypeOK, TypeInv
<1> QED
  BY <1>1, IndexerInvHolds, PTL

\* A document has one entry for a token, in one raw index or in memory, and the
\* entries of every item of the merged index ascend by document, however often the
\* memory was flushed between them and wherever the merge divides a token.
THEOREM EntriesAscend == Spec => []OneEntryEach
<1>1. IndexerInv => OneEntryEach
  <2> SUFFICES ASSUME IndexerInv PROVE OneEntryEach
    OBVIOUS
  <2>1. \A t \in Tokens : DocsAscend(Collected(t) \o _invIdx[t])
    BY DEF IndexerInv, OrderInv, Ascends, EntriesSoFar, CollectedOf, Collected
  <2>2. ASSUME index # None, NEW item \in Range(index) PROVE DocsAscend(item.entries)
    <3>1. TypeInv /\ FitsInv /\ OrderInv /\ MergingInv /\ mergePc = "done"
      BY <2>2, IndexThere DEF IndexerInv
    <3>2. PICK i \in DOMAIN index : item = index[i]
      BY <2>2 DEF Range
    <3>3. i \in DOMAIN merged /\ item.entries = EntriesOf(merged[i]) /\ merged[i].token \in Tokens
      BY <3>1, <3>2, IndexFacts, MergedFacts
    <3> QED
      BY <3>1, <3>3, EntriesOfFacts
  <2> QED
    BY <2>1, <2>2 DEF OneEntryEach
<1> QED
  BY <1>1, IndexerInvHolds, PTL

\* The texts saved for a document are its own, and of the last document where an
\* id comes twice.
THEOREM TextsAreOwn == Spec => []TextsOwn
<1>1. IndexerInv => TextsOwn
  <2> SUFFICES ASSUME IndexerInv, pc = "check", NEW i \in 1 .. itemsCnt, LastOf(i, itemsCnt)
               PROVE  SavedAs(docDB, dump[i])
    BY DEF TextsOwn, LastOf, SavedAs
  <2>1. Done = itemsCnt
    BY DEF Done
  <2> QED
    BY <2>1 DEF IndexerInv, TextsInv
<1> QED
  BY <1>1, IndexerInvHolds, PTL

\* When the indexer has ended well the index has every word of every document not
\* passed over, at its place and under the number the document store has it, and
\* nothing else.  A search finds them, but for what the second item of a token has,
\* where a raw index ended with that token and one flushed later had it.
THEOREM FinishedIndexUsable == Spec => []IndexUsable
<1>1. IndexerInv => IndexUsable
  <2> SUFFICES ASSUME IndexerInv, pc = "done"
               PROVE  LET kept == Documents(Len(dump))
                      IN /\ docFile = IdsOf(kept)
                         /\ FoundInItems(index) = WordsIn(kept)
                         /\ Found(AsRead(index)) \subseteq WordsIn(kept)
                         /\ \A w \in WordsIn(kept) : w \in Found(AsRead(index)) \/ Merge!Divided(w.tok)
    BY DEF IndexUsable, IdsOf, WordsIn
  <2>1. TypeInv /\ PlaceInv /\ FitsInv /\ OrderInv /\ StoreInv /\ ContentInv /\ MergingInv /\ mergePc = "done"
    BY DEF IndexerInv, MergingInv
  <2>2. Done = Len(dump) /\ docFile = docStore
    BY <2>1 DEF Done, PlaceInv
  <2>3. Documents(Len(dump)) = KeptNow
    BY <2>2, DocumentsKept DEF KeptNow
  <2>4. FoundInItems(index) = WordsIn(KeptNow)
    BY <2>1, IndexSays DEF ContentInv
  <2>5. /\ Found(AsRead(index)) \subseteq FoundInItems(index)
        /\ \A w \in FoundInItems(index) : w \in Found(AsRead(index)) \/ Merge!Divided(w.tok)
    BY <2>1, SearchFinds, SameMerge
  <2> QED
    BY <2>1, <2>2, <2>3, <2>4, <2>5 DEF StoreInv
<1> QED
  BY <1>1, IndexerInvHolds, PTL

-----------------------------------------------------------------------------
(* The catalog.                                                            *)

\* What the catalog calls content,
Content == Found(_invIdx) \cup UNION {Found(idx) : idx \in Range(rawFiles)}
\* and what it calls published.
Published == IF index = None THEN None ELSE FoundInItems(index)

\* As the entries say it, with the file.
Said == /\ Content = SaidAll(_invIdx, rawFiles, postings)
        /\ IndexerInv => Published = IF mergePc # "done" THEN None ELSE SaidAll(_invIdx, rawFiles, postings)

\* What a reader finds is what the entries say.
LEMMA SaidNow == Said
<1>1. Content = SaidAll(_invIdx, rawFiles, postings)
  BY FoundSays DEF Content, SaidAll, SaidBy
<1>2. CASE mergePc # "done"
  BY <1>1, <1>2, IndexThere DEF Said, Published
<1>3. CASE mergePc = "done"
  BY <1>1, <1>3, IndexFacts, IndexSays DEF Said, Published, IndexerInv
<1> QED
  BY <1>2, <1>3

\* The indexer begins as the catalog does.
LEMMA InitCatalog == Init => Shown!Init
<1> SUFFICES ASSUME Init PROVE docStore = <<>> /\ Content = {} /\ Published = None
  BY DEF Shown!Init, Content, Published
<1>1. SaidAll(_invIdx, rawFiles, postings) = {}
  <2>1. Range(rawFiles) = {}
    BY DEF Init, Range
  <2> QED
    BY <2>1, EmptyFits DEF Init, SaidAll, SaidBy
<1>2. index = None
  BY IndexThere DEF Init
<1> QED
  BY <1>1, <1>2, SaidNow DEF Said, Init, Published

\* A document is an Add, a late fault a Fail, the end of the merge publishes, and
\* every other step, a flush among them, is none of the catalog's business.
LEMMA CatalogStep ==
  IndexerInv /\ IndexerInv' /\ Said /\ Said' /\ [Next]_vars => [Shown!Next]_<<docStore, Content, Published>>
<1> SUFFICES ASSUME IndexerInv, IndexerInv', Said, Said', [Next]_vars
             PROVE  Shown!Next \/ UNCHANGED <<docStore, Content, Published>>
  OBVIOUS
<1>1. TypeInv /\ PlaceInv /\ FitsInv /\ OrderInv /\ MergingInv
  BY DEF IndexerInv
<1>2. /\ Content = SaidAll(_invIdx, rawFiles, postings) /\ Content' = SaidAll(_invIdx', rawFiles', postings')
      /\ Published = IF mergePc # "done" THEN None ELSE Content
      /\ Published' = IF mergePc' # "done" THEN None ELSE Content'
  BY DEF Said
<1>3. CASE Document \/ LateFault
  <2>1. current \in Items /\ Content' = Content \cup Shown!Occurrences(current, Len(docStore))
    BY <1>1, <1>2, <1>3, AddsItem, NextSaid
  <2>2. Published' = Published
    <3>1. pc = "item" /\ mergePc' = mergePc
      BY <1>3 DEF Document, LateFault, merge
    <3>2. mergePc # "done"
      BY <1>1, <3>1 DEF MergingInv, NotYet
    <3> QED
      BY <1>2, <3>1, <3>2
  <2>3. CASE Document
    <3>1. docStore' = Append(docStore, current.docId)
      BY <2>3 DEF Document
    <3>2. Shown!Add(current)
      BY <2>1, <2>2, <3>1 DEF Shown!Add, Content, Published
    <3> QED
      BY <2>1, <3>2 DEF Shown!Next
  <2>4. CASE LateFault
    <3>1. docStore' = docStore
      BY <2>4 DEF LateFault
    <3>2. Shown!Fail(current)
      BY <2>1, <2>2, <3>1 DEF Shown!Fail, Content, Published
    <3> QED
      BY <2>1, <3>2 DEF Shown!Next
  <2> QED
    BY <1>3, <2>3, <2>4
<1>4. CASE ~ Document /\ ~ LateFault
  <2>1. docStore' = docStore /\ Content' = Content
    <3>1. docStore' = docStore
      BY <1>4 DEF Next, NextItem, AllItems, Translated, EarlyFault, Flush, StartMerge, MergeStep, WildMerge, Exit, vars, inMemory
    <3> QED
      BY <1>1, <1>2, <1>4, <3>1, NextSaid
  <2>2. CASE Published' = Published
    BY <2>1, <2>2
  <2>3. CASE Published' # Published
    <3>1. mergePc' = "done" /\ mergePc # "done"
      <4>1. mergePc = "done" => mergePc' = "done"
        <5>1. ASSUME mergePc = "done" PROVE ~ StartMerge /\ ~ MergeStep
          BY <1>1, <5>1 DEF StartMerge, MergeStep, MergingInv, NotYet, Merge!Next, Merge!FindMin, Merge!OtherToken, Merge!ReadToken,
                 Merge!ReadLastToken, Merge!WriteItem, Merge!Rename, Merge!AtIndex
        <5> QED
          BY <1>4, <5>1 DEF Next, NextItem, AllItems, Translated, EarlyFault, Flush, WildMerge, Exit, vars, merge
      <4> QED
        BY <1>2, <2>1, <2>3, <4>1
    <3>2. Published' = Content
      BY <1>2, <2>1, <3>1
    <3>3. Shown!Publish
      BY <2>1, <3>2 DEF Shown!Publish, Content, Published
    <3> QED
      BY <3>3 DEF Shown!Next
  <2> QED
    BY <2>2, <2>3
<1> QED
  BY <1>3, <1>4

\* The indexer implements the catalog: splitting postings by zones, flushing raw
\* indexes and merging them, tokens divided or not, show as nothing but documents
\* added whole and items published that say all of them.
THEOREM IndexerImplementsCatalog == Spec => ImplementsCatalog
<1>1. IndexerInv /\ IndexerInv' /\ Said /\ Said' /\ [Next]_vars => [Shown!Next]_<<docStore, Content, Published>>
  BY CatalogStep
<1>2. Init => Shown!Init
  BY InitCatalog
<1>3. Said
  BY SaidNow
<1> QED
  BY <1>1, <1>2, <1>3, IndexerInvHolds, PTL DEF Spec, ImplementsCatalog, Shown!Spec, Content, Published
=============================================================================
