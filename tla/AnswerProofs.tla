---------------------------- MODULE AnswerProofs ----------------------------
(***************************************************************************)
(* Ranks are sums over windows, a phrase in the title comes first, and the *)
(* snippets mark and show what they should: for any collection of          *)
(* documents, any queries and stopwords, any size of window, of draft, of  *)
(* page and of snippets.                                                   *)
(*                                                                         *)
(* The ranker is followed position by position: what get_positions_for_zone*)
(* has merged, and what the two iterators of get_rank have counted.  Both  *)
(* are compared with sets, the occurrences and the windows, so that the    *)
(* rank is a sum in any order.  The phrase needs more: that words in a row *)
(* give tokens in a row, that such a title is found, and that five         *)
(* occurrences cannot add up to what one full window is worth.  The        *)
(* snippets need nothing of the steps; there the work is in the recursion  *)
(* of get_selections.                                                      *)
(***************************************************************************)
EXTENDS Answer, FiniteSetTheorems, WellFoundedInduction, TLAPS

-----------------------------------------------------------------------------
(* Sequences: what is computed from the front to the back.                 *)

\* Induction over the numbers, for a set: where 0 is and every successor of a
\* member, all are.
LEMMA NatSets ==
  ASSUME NEW S, 0 \in S, \A n \in Nat : n \in S => n + 1 \in S
  PROVE  Nat \subseteq S
<1> DEFINE T == Nat \ S
<1>1. ASSUME T # {} PROVE FALSE
  <2>1. IsWellFoundedOn(OpToRel(<, Nat), Nat)
    BY NatLessThanWellFounded
  <2>2. PICK x \in T : \A y \in T : ~(<<y, x>> \in OpToRel(<, Nat))
    <3>1. T \in SUBSET Nat
      OBVIOUS
    <3> HIDE DEF T
    <3> QED
      BY <1>1, <2>1, <3>1, WFMin
  <2>3. x \in Nat /\ x # 0 /\ x \notin S
    OBVIOUS
  <2>4. x - 1 \in Nat /\ x - 1 < x /\ (x - 1) + 1 = x
    BY <2>3
  <2>5. x - 1 \in S
    BY <2>2, <2>4 DEF OpToRel
  <2> QED
    BY <2>3, <2>4, <2>5
<1> QED
  BY <1>1

-----------------------------------------------------------------------------
(* Sums over sets.                                                         *)

\* What entries within size places of each other count.
BonusOf(n, size) == IF n >= size THEN 1000 * size ELSE 200 * n

\* The entries with an occurrence in a stretch of the text.
EntriesIn(occ, from, to) == {x.entry : x \in {o \in occ : o.pos \in from .. to}}

\* What a window is worth.
WorthBy(occ, w, size) == BonusOf(Cardinality(EntriesIn(occ, w[1], w[2])), size)

\* What the windows of S are worth together.
SumBy(occ, size, S) == MapThenSumSet(LAMBDA w : WorthBy(occ, w, size), S)

\* The member MapThenSumSet takes next.
SomeOf(s) == CHOOSE x \in s : TRUE

\* it has the sum of every part of S.
SumIter(occ, size, S, it) ==
  it = [s \in SUBSET S |-> IF s = {} THEN 0 ELSE WorthBy(occ, SomeOf(s), size) + it[s \ {SomeOf(s)}]]

\* The sum is what its recursion says.
LEMMA SumByIter == \A occ, size, S : SumBy(occ, size, S) = (CHOOSE it : SumIter(occ, size, S, it))[S]
BY DEF SumBy, MapThenSumSet, MapThenFoldSet, SumIter, SomeOf

\* There is a next one as long as there are any.
LEMMA SomeOfIn == \A s : s # {} => SomeOf(s) \in s
BY DEF SomeOf

\* One less leaves one less.
LEMMA OneLess ==
  ASSUME NEW S, IsFiniteSet(S), NEW s \in SUBSET S, NEW x \in s
  PROVE  /\ IsFiniteSet(s) /\ Cardinality(s) \in Nat \ {0} /\ IsFiniteSet(s \ {x})
         /\ Cardinality(s \ {x}) = Cardinality(s) - 1 /\ Cardinality(s \ {x}) \in Nat
<1>1. IsFiniteSet(s)
  BY FS_Subset
<1>2. Cardinality(s) \in Nat /\ (Cardinality(s) = 0 <=> s = {})
  BY <1>1, FS_CardinalityType, FS_EmptySet
<1>3. IsFiniteSet(s \ {x}) /\ Cardinality(s \ {x}) = Cardinality(s) - 1
  BY <1>1, FS_RemoveElement
<1> QED
  BY <1>1, <1>2, <1>3

\* A function with the recursion of the sum exists.
LEMMA SumRecursion ==
  ASSUME NEW S, IsFiniteSet(S), NEW occ, NEW size
  PROVE  \E it : SumIter(occ, size, S, it)
<1> DEFINE Upto(m) == {s \in SUBSET S : Cardinality(s) <= m}
           W(x) == WorthBy(occ, x, size)
           F(m, f) == f = [s \in Upto(m) |-> IF s = {} THEN 0 ELSE W(SomeOf(s)) + f[s \ {SomeOf(s)}]]
           N == {m \in Nat : \E f : F(m, f)}
<1> HIDE DEF W
<1>1. \A s \in SUBSET S : Cardinality(s) \in Nat /\ (Cardinality(s) = 0 <=> s = {})
  BY FS_Subset, FS_CardinalityType, FS_EmptySet
<1>2. \A s \in SUBSET S : s # {} => /\ s \ {SomeOf(s)} \in SUBSET S
                                    /\ Cardinality(s \ {SomeOf(s)}) = Cardinality(s) - 1
  BY SomeOfIn, OneLess
<1>3. 0 \in N
  <2>1. \A s \in Upto(0) : s = {}
    BY <1>1
  <2> DEFINE g == [s \in Upto(0) |-> 0]
  <2>2. F(0, g)
    BY <2>1
  <2> HIDE DEF F, g
  <2> QED
    BY <2>2
<1>4. ASSUME NEW m \in Nat, m \in N PROVE m + 1 \in N
  <2>1. PICK f : F(m, f)
    BY <1>4
  <2> DEFINE g == [s \in Upto(m + 1) |-> IF s = {} THEN 0 ELSE W(SomeOf(s)) + f[s \ {SomeOf(s)}]]
  <2>2. \A s \in Upto(m) : s \in Upto(m + 1)
    BY <1>1
  <2>3. \A s \in Upto(m + 1) : s # {} => s \ {SomeOf(s)} \in Upto(m)
    BY <1>1, <1>2
  <2>4. \A s \in Upto(m) : g[s] = f[s]
    <3>1. \A s \in Upto(m) : f[s] = IF s = {} THEN 0 ELSE W(SomeOf(s)) + f[s \ {SomeOf(s)}]
      BY <2>1
    <3> QED
      BY <2>2, <3>1
  <2> HIDE DEF Upto
  <2>5. F(m + 1, g)
    <3>1. \A s \in Upto(m + 1) : s # {} => g[s \ {SomeOf(s)}] = f[s \ {SomeOf(s)}]
      BY <2>3, <2>4
    <3> QED
      BY <3>1
  <2> HIDE DEF F, g
  <2> QED
    BY <2>5
<1>5. Nat \subseteq N
  <2> HIDE DEF N
  <2> QED
    BY <1>3, <1>4, NatSets
<1>6. Cardinality(S) \in Nat
  BY FS_CardinalityType
<1>7. PICK it : F(Cardinality(S), it)
  BY <1>5, <1>6
<1>8. \A s \in SUBSET S : Cardinality(s) <= Cardinality(S)
  BY FS_Subset
<1>9. Upto(Cardinality(S)) = SUBSET S
  BY <1>8
<1> HIDE DEF Upto
<1>10. SumIter(occ, size, S, it)
  BY <1>7, <1>9 DEF SumIter, W
<1> QED
  BY <1>10

\* The sum does not depend on the member that is taken first.
LEMMA SumOrder ==
  ASSUME NEW S, IsFiniteSet(S), NEW occ, NEW size,
         \A x \in S : WorthBy(occ, x, size) \in Nat,
         NEW it, SumIter(occ, size, S, it)
  PROVE  \A s \in SUBSET S : /\ it[s] \in Nat
                             /\ \A x \in s : it[s] = WorthBy(occ, x, size) + it[s \ {x}]
<1> DEFINE W(x) == WorthBy(occ, x, size)
           Good(s) == it[s] \in Nat /\ \A x \in s : it[s] = W(x) + it[s \ {x}]
           N == {n \in Nat : \A s \in SUBSET S : Cardinality(s) <= n => Good(s)}
<1>1. \A s \in SUBSET S : it[s] = IF s = {} THEN 0 ELSE W(SomeOf(s)) + it[s \ {SomeOf(s)}]
  BY DEF SumIter
<1>2. \A x \in S : W(x) \in Nat
  OBVIOUS
<1> HIDE DEF W
<1>3. \A s \in SUBSET S : Cardinality(s) \in Nat /\ (Cardinality(s) = 0 <=> s = {})
  BY FS_Subset, FS_CardinalityType, FS_EmptySet
<1>4. \A s \in SUBSET S : \A x \in s : s \ {x} \in SUBSET S /\ Cardinality(s \ {x}) = Cardinality(s) - 1
  BY OneLess
<1>5. 0 \in N
  <2>1. ASSUME NEW s \in SUBSET S, Cardinality(s) <= 0 PROVE Good(s)
    <3>1. s = {}
      BY <1>3, <2>1
    <3>2. it[s] = 0
      BY <1>1, <3>1
    <3> QED
      BY <3>1, <3>2
  <2> HIDE DEF Good
  <2> QED
    BY <2>1
<1>6. ASSUME NEW n \in Nat, n \in N PROVE n + 1 \in N
  <2>1. ASSUME NEW s \in SUBSET S, Cardinality(s) <= n + 1 PROVE Good(s)
    <3>1. CASE s = {}
      <4>1. it[s] = 0
        BY <1>1, <3>1
      <4> QED
        BY <3>1, <4>1
    <3>2. CASE s # {}
      <4> DEFINE y == SomeOf(s)
      <4>1. y \in s /\ y \in S
        BY <3>2, SomeOfIn
      <4>2. it[s] = W(y) + it[s \ {y}]
        BY <1>1, <3>2
      <4> HIDE DEF y
      <4>3. \A x \in s : s \ {x} \in SUBSET S /\ Cardinality(s \ {x}) <= n
        BY <1>3, <1>4, <2>1
      <4>4. \A x \in s : Good(s \ {x})
        <5> HIDE DEF Good
        <5> QED
          BY <1>6, <4>3
      <4>5. it[s \ {y}] \in Nat /\ W(y) \in Nat
        BY <1>2, <4>1, <4>4
      <4>6. ASSUME NEW x \in s PROVE it[s] = W(x) + it[s \ {x}]
        <5>1. CASE x = y
          BY <4>2, <5>1
        <5>2. CASE x # y
          <6>1. x \in s \ {y} /\ y \in s \ {x} /\ (s \ {y}) \ {x} = (s \ {x}) \ {y}
            BY <4>1, <5>2
          <6> DEFINE r == (s \ {x}) \ {y}
          <6>2. it[s \ {y}] = W(x) + it[r] /\ it[s \ {x}] = W(y) + it[r]
            BY <4>1, <4>4, <6>1
          <6>3. it[r] \in Nat
            <7>1. r \in SUBSET S /\ Cardinality(r) <= n
              <8>1. s \ {x} \in SUBSET S /\ Cardinality(s \ {x}) <= n /\ Cardinality(s \ {x}) \in Nat
                BY <1>3, <4>3
              <8>2. r \in SUBSET S /\ Cardinality(r) = Cardinality(s \ {x}) - 1
                BY <1>4, <6>1, <8>1
              <8> HIDE DEF r
              <8> QED
                BY <8>1, <8>2
            <7> HIDE DEF r
            <7> QED
              BY <1>6, <7>1
          <6>4. W(x) \in Nat
            BY <1>2
          <6> HIDE DEF r
          <6> QED
            BY <4>2, <4>5, <6>2, <6>3, <6>4
        <5> QED
          BY <5>1, <5>2
      <4>7. it[s] \in Nat
        BY <4>2, <4>5
      <4> QED
        BY <4>6, <4>7
    <3> HIDE DEF Good
    <3> QED
      BY <3>1, <3>2
  <2> HIDE DEF Good
  <2> QED
    BY <2>1
<1>7. Nat \subseteq N
  <2> HIDE DEF N
  <2> QED
    BY <1>5, <1>6, NatSets
<1>8. \A s \in SUBSET S : Good(s)
  <2> HIDE DEF Good
  <2> QED
    BY <1>3, <1>7
<1> QED
  BY <1>8 DEF W

\* The sums of a part of S are those of S.
LEMMA SumUnique ==
  ASSUME NEW S, IsFiniteSet(S), NEW T \in SUBSET S, NEW occ, NEW size,
         NEW it, SumIter(occ, size, S, it), NEW jt, SumIter(occ, size, T, jt)
  PROVE  \A s \in SUBSET T : it[s] = jt[s]
<1> DEFINE W(x) == WorthBy(occ, x, size)
           N == {n \in Nat : \A s \in SUBSET T : Cardinality(s) <= n => it[s] = jt[s]}
<1>1. /\ \A s \in SUBSET S : it[s] = IF s = {} THEN 0 ELSE W(SomeOf(s)) + it[s \ {SomeOf(s)}]
      /\ \A s \in SUBSET T : jt[s] = IF s = {} THEN 0 ELSE W(SomeOf(s)) + jt[s \ {SomeOf(s)}]
  BY DEF SumIter
<1> HIDE DEF W
<1>2. \A s \in SUBSET T : s \in SUBSET S /\ Cardinality(s) \in Nat /\ (Cardinality(s) = 0 <=> s = {})
  BY FS_Subset, FS_CardinalityType, FS_EmptySet
<1>3. \A s \in SUBSET T : s # {} => /\ s \ {SomeOf(s)} \in SUBSET T
                                    /\ Cardinality(s \ {SomeOf(s)}) = Cardinality(s) - 1
  BY <1>2, SomeOfIn, OneLess
<1>4. 0 \in N
  <2>1. ASSUME NEW s \in SUBSET T, Cardinality(s) <= 0 PROVE it[s] = jt[s]
    <3>1. s = {}
      BY <1>2, <2>1
    <3> QED
      BY <1>1, <1>2, <3>1
  <2> QED
    BY <2>1
<1>5. ASSUME NEW n \in Nat, n \in N PROVE n + 1 \in N
  <2>1. ASSUME NEW s \in SUBSET T, Cardinality(s) <= n + 1 PROVE it[s] = jt[s]
    <3>1. CASE s = {}
      BY <1>1, <1>2, <3>1
    <3>2. CASE s # {}
      <4> DEFINE r == s \ {SomeOf(s)}
      <4>1. r \in SUBSET T /\ Cardinality(r) <= n
        BY <1>2, <1>3, <2>1, <3>2
      <4>2. it[s] = W(SomeOf(s)) + it[r] /\ jt[s] = W(SomeOf(s)) + jt[r]
        BY <1>1, <1>2, <3>2
      <4> HIDE DEF r
      <4>3. it[r] = jt[r]
        BY <1>5, <4>1
      <4> QED
        BY <4>2, <4>3
    <3> QED
      BY <3>1, <3>2
  <2> QED
    BY <2>1
<1>6. Nat \subseteq N
  <2> HIDE DEF N
  <2> QED
    BY <1>4, <1>5, NatSets
<1> QED
  BY <1>2, <1>6

\* Nothing is worth nothing.
LEMMA SumEmpty == \A occ, size : SumBy(occ, size, {}) = 0
<1> TAKE occ, size
<1>1. PICK it : SumIter(occ, size, {}, it)
  BY SumRecursion, FS_EmptySet
<1> DEFINE jt == CHOOSE f : SumIter(occ, size, {}, f)
<1>2. SumIter(occ, size, {}, jt)
  BY <1>1
<1>3. SumBy(occ, size, {}) = jt[{}]
  BY SumByIter
<1> HIDE DEF jt
<1> QED
  BY <1>2, <1>3 DEF SumIter

\* Any member can be taken out of a sum.
LEMMA SumAdd ==
  ASSUME NEW S, IsFiniteSet(S), NEW occ, NEW size,
         \A x \in S : WorthBy(occ, x, size) \in Nat
  PROVE  /\ SumBy(occ, size, S) \in Nat
         /\ \A x \in S : SumBy(occ, size, S) = WorthBy(occ, x, size) + SumBy(occ, size, S \ {x})
<1> DEFINE it == CHOOSE f : SumIter(occ, size, S, f)
<1>1. SumIter(occ, size, S, it)
  BY SumRecursion
<1>2. SumBy(occ, size, S) = it[S]
  BY SumByIter
<1> HIDE DEF it
<1>3. \A s \in SUBSET S : /\ it[s] \in Nat
                          /\ \A x \in s : it[s] = WorthBy(occ, x, size) + it[s \ {x}]
  BY <1>1, SumOrder
<1>4. ASSUME NEW x \in S
      PROVE  SumBy(occ, size, S) = WorthBy(occ, x, size) + SumBy(occ, size, S \ {x})
  <2> DEFINE T == S \ {x}
             jt == CHOOSE f : SumIter(occ, size, T, f)
  <2>1. T \in SUBSET S /\ IsFiniteSet(T)
    BY FS_Subset
  <2> HIDE DEF T
  <2>2. SumIter(occ, size, T, jt)
    BY <2>1, SumRecursion
  <2>3. SumBy(occ, size, T) = jt[T]
    BY SumByIter
  <2> HIDE DEF jt
  <2>4. it[T] = jt[T]
    BY <1>1, <2>1, <2>2, SumUnique
  <2>5. it[S] = WorthBy(occ, x, size) + it[T]
    BY <1>3 DEF T
  <2> QED
    BY <1>2, <2>3, <2>4, <2>5 DEF T
<1> QED
  BY <1>2, <1>3, <1>4

-----------------------------------------------------------------------------
(* A window slides over a list.                                            *)

\* The windows of Answer, for any occurrences and size.
WindowsOf(occ, size) ==
  {<<v[1].pos, v[2].pos>> : v \in
     {w \in occ \X occ :
        /\ w[1].pos <= w[2].pos /\ w[2].pos - w[1].pos < size
        /\ \A x \in occ : x.pos < w[1].pos => w[2].pos - x.pos >= size
        /\ \A y \in occ : y.pos > w[2].pos => y.pos - w[1].pos >= size}}

\* The occurrences of m entries.
Items(m) == [pos : Nat, entry : 1 .. m]

\* L has the occurrences occ of m entries in the order of their positions.
Lists(L, occ, m) ==
  /\ L \in Seq(Items(m))
  /\ \A n \in 1 .. Len(L) : L[n] \in occ
  /\ \A o \in occ : \E n \in 1 .. Len(L) : L[n] = o
  /\ \A b \in 1 .. Len(L) : \A a \in 1 .. b : L[a].pos <= L[b].pos

\* Less than a window lies between the a-th and the b-th.
Near(L, size, a, b) == L[b].pos - L[a].pos < size

\* A stretch that no occurrence to either side fits into.
IsWindow(L, size, a, b) ==
  /\ L[a].pos <= L[b].pos /\ Near(L, size, a, b)
  /\ \A n \in 1 .. Len(L) : L[n].pos < L[a].pos => ~Near(L, size, n, b)
  /\ \A n \in 1 .. Len(L) : L[n].pos > L[b].pos => ~Near(L, size, a, n)

\* A stretch of the list is a window.
Stretch(L, size, w, a, b) == IsWindow(L, size, a, b) /\ w = <<L[a].pos, L[b].pos>>

\* What is in a list.
LEMMA ListFacts ==
  ASSUME NEW m \in Nat, NEW L, NEW occ, Lists(L, occ, m)
  PROVE  /\ Len(L) \in Nat
         /\ \A n \in 1 .. Len(L) : L[n].pos \in Nat /\ L[n].entry \in 1 .. m
         /\ \A b \in 1 .. Len(L) : \A a \in 1 .. b : L[a].pos <= L[b].pos
         /\ occ \subseteq Items(m)
<1>1. L \in Seq(Items(m))
  BY DEF Lists
<1>2. \A n \in 1 .. Len(L) : L[n] \in Items(m)
  BY <1>1
<1>3. \A n \in 1 .. Len(L) : L[n].pos \in Nat /\ L[n].entry \in 1 .. m
  BY <1>2 DEF Items
<1>4. occ \subseteq Items(m)
  BY <1>2 DEF Lists
<1> QED
  BY <1>1, <1>3, <1>4 DEF Lists

\* What is a window apart is not closer.
LEMMA Apart == \A a, b, size \in Nat : b - a >= size <=> ~(b - a < size)
OBVIOUS

\* A stretch of the list that nothing fits into is a window.
LEMMA WindowAt ==
  ASSUME NEW m \in Nat, NEW L, NEW occ, Lists(L, occ, m), NEW size \in Nat,
         NEW a \in 1 .. Len(L), NEW b \in 1 .. Len(L), IsWindow(L, size, a, b)
  PROVE  <<L[a].pos, L[b].pos>> \in WindowsOf(occ, size)
<1>1. /\ \A n \in 1 .. Len(L) : L[n].pos \in Nat
      /\ \A o \in occ : \E n \in 1 .. Len(L) : L[n] = o
      /\ L[a] \in occ /\ L[b] \in occ
  BY ListFacts DEF Lists
<1> DEFINE v == <<L[a], L[b]>>
<1>2. v \in occ \X occ /\ v[1] = L[a] /\ v[2] = L[b]
  BY <1>1
<1> HIDE DEF v
<1>3. v[1].pos <= v[2].pos /\ v[2].pos - v[1].pos < size
  BY <1>2 DEF IsWindow, Near
<1>4. ASSUME NEW x \in occ, x.pos < v[1].pos PROVE v[2].pos - x.pos >= size
  <2>1. PICK n \in 1 .. Len(L) : L[n] = x
    BY <1>1
  <2>2. ~Near(L, size, n, b)
    BY <1>2, <1>4, <2>1 DEF IsWindow
  <2>3. L[b].pos - L[n].pos >= size
    BY <1>1, <2>2, Apart DEF Near
  <2> QED
    BY <1>2, <2>1, <2>3
<1>5. ASSUME NEW y \in occ, y.pos > v[2].pos PROVE y.pos - v[1].pos >= size
  <2>1. PICK n \in 1 .. Len(L) : L[n] = y
    BY <1>1
  <2>2. ~Near(L, size, a, n)
    BY <1>2, <1>5, <2>1 DEF IsWindow
  <2>3. L[n].pos - L[a].pos >= size
    BY <1>1, <2>2, Apart DEF Near
  <2> QED
    BY <1>2, <2>1, <2>3
<1>6. <<v[1].pos, v[2].pos>> \in WindowsOf(occ, size)
  BY <1>2, <1>3, <1>4, <1>5 DEF WindowsOf
<1> QED
  BY <1>2, <1>6

\* Every window is a stretch of the list.
LEMMA WindowIs ==
  ASSUME NEW m \in Nat, NEW L, NEW occ, Lists(L, occ, m), NEW size \in Nat,
         NEW w \in WindowsOf(occ, size)
  PROVE  \E a \in 1 .. Len(L) : \E b \in 1 .. Len(L) : Stretch(L, size, w, a, b)
<1>1. PICK v \in occ \X occ :
        /\ v[1].pos <= v[2].pos /\ v[2].pos - v[1].pos < size
        /\ \A x \in occ : x.pos < v[1].pos => v[2].pos - x.pos >= size
        /\ \A y \in occ : y.pos > v[2].pos => y.pos - v[1].pos >= size
        /\ w = <<v[1].pos, v[2].pos>>
  BY DEF WindowsOf
<1>2. /\ \A n \in 1 .. Len(L) : L[n].pos \in Nat /\ L[n] \in occ
      /\ \A o \in occ : \E n \in 1 .. Len(L) : L[n] = o
  BY ListFacts DEF Lists
<1>3. v[1] \in occ /\ v[2] \in occ
  OBVIOUS
<1>4. PICK a \in 1 .. Len(L) : L[a] = v[1]
  BY <1>2, <1>3
<1>5. PICK b \in 1 .. Len(L) : L[b] = v[2]
  BY <1>2, <1>3
<1>6. L[a].pos <= L[b].pos /\ Near(L, size, a, b)
  BY <1>1, <1>4, <1>5 DEF Near
<1>7. ASSUME NEW n \in 1 .. Len(L), L[n].pos < L[a].pos PROVE ~Near(L, size, n, b)
  <2>1. L[n] \in occ /\ L[n].pos < v[1].pos
    BY <1>2, <1>4, <1>7
  <2>2. v[2].pos - L[n].pos >= size
    BY <1>1, <2>1
  <2>3. L[b].pos - L[n].pos >= size /\ L[b].pos \in Nat /\ L[n].pos \in Nat
    BY <1>2, <1>5, <2>2
  <2>4. ~(L[b].pos - L[n].pos < size)
    BY <2>3, Apart
  <2> QED
    BY <2>4 DEF Near
<1>8. ASSUME NEW n \in 1 .. Len(L), L[n].pos > L[b].pos PROVE ~Near(L, size, a, n)
  <2>1. L[n] \in occ /\ L[n].pos > v[2].pos
    BY <1>2, <1>5, <1>8
  <2>2. L[n].pos - v[1].pos >= size
    BY <1>1, <2>1
  <2>3. L[n].pos - L[a].pos >= size /\ L[a].pos \in Nat /\ L[n].pos \in Nat
    BY <1>2, <1>4, <2>2
  <2>4. ~(L[n].pos - L[a].pos < size)
    BY <2>3, Apart
  <2> QED
    BY <2>4 DEF Near
<1>9. IsWindow(L, size, a, b)
  BY <1>6, <1>7, <1>8 DEF IsWindow
<1>10. Stretch(L, size, w, a, b)
  BY <1>1, <1>4, <1>5, <1>9 DEF Stretch
<1> QED
  BY <1>10

\* What a window is worth is a number.
LEMMA WorthType ==
  ASSUME NEW m \in Nat, NEW occ, occ \subseteq Items(m), NEW size \in Nat
  PROVE  \A w : WorthBy(occ, w, size) \in Nat
<1> TAKE w
<1> DEFINE E == EntriesIn(occ, w[1], w[2])
<1>1. E \subseteq 1 .. m
  BY DEF EntriesIn, Items
<1> HIDE DEF E
<1>2. IsFiniteSet(1 .. m)
  BY FS_Interval
<1>3. Cardinality(E) \in Nat
  BY <1>1, <1>2, FS_Subset, FS_CardinalityType
<1>4. \A n \in Nat : BonusOf(n, size) \in Nat
  BY DEF BonusOf
<1> QED
  BY <1>3, <1>4 DEF WorthBy, E

\* There are finitely many windows.
LEMMA WindowsFinite ==
  ASSUME NEW m \in Nat, NEW L, NEW occ, Lists(L, occ, m), NEW size \in Nat
  PROVE  IsFiniteSet(WindowsOf(occ, size))
<1>1. Len(L) \in Nat /\ \A n \in 1 .. Len(L) : L[n].pos \in Nat
  BY ListFacts
<1>2. CASE Len(L) = 0
  <2>1. \A w \in WindowsOf(occ, size) : FALSE
    <3>1. \A w \in WindowsOf(occ, size) : \E a \in 1 .. Len(L) : TRUE
      BY WindowIs
    <3> QED
      BY <1>2, <3>1
  <2>2. WindowsOf(occ, size) = {}
    BY <2>1
  <2> QED
    BY <2>2, FS_EmptySet
<1>3. CASE Len(L) # 0
  <2> DEFINE M == L[Len(L)].pos
  <2>1. M \in Nat /\ \A n \in 1 .. Len(L) : L[n].pos <= M
    <3>1. Len(L) \in 1 .. Len(L) /\ \A n \in 1 .. Len(L) : n \in 1 .. Len(L)
      BY <1>1, <1>3
    <3>2. \A n \in 1 .. Len(L) : L[n].pos <= L[Len(L)].pos
      BY <3>1, ListFacts
    <3> QED
      BY <1>1, <3>1, <3>2
  <2>2. \A n \in 1 .. Len(L) : L[n].pos \in 0 .. M
    BY <1>1, <2>1
  <2> HIDE DEF M
  <2>3. WindowsOf(occ, size) \subseteq (0 .. M) \X (0 .. M)
    <3> SUFFICES ASSUME NEW w \in WindowsOf(occ, size) PROVE w \in (0 .. M) \X (0 .. M)
      OBVIOUS
    <3>1. PICK a \in 1 .. Len(L) : \E b \in 1 .. Len(L) : Stretch(L, size, w, a, b)
      BY WindowIs
    <3>2. PICK b \in 1 .. Len(L) : Stretch(L, size, w, a, b)
      BY <3>1
    <3>3. w = <<L[a].pos, L[b].pos>>
      BY <3>2 DEF Stretch
    <3> QED
      BY <2>2, <3>3
  <2>4. IsFiniteSet(0 .. M)
    <3>1. 0 \in Int /\ M \in Int
      BY <2>1
    <3> QED
      BY <3>1, FS_Interval
  <2>5. IsFiniteSet((0 .. M) \X (0 .. M))
    BY <2>4, FS_Product
  <2> QED
    BY <2>3, <2>5, FS_Subset
<1> QED
  BY <1>2, <1>3

-----------------------------------------------------------------------------
(* The two ends of the window.                                             *)

\* The windows that begin before p, and those that begin at p at the latest.
BegunBefore(occ, size, p) == {w \in WindowsOf(occ, size) : w[1] < p}
BegunUntil(occ, size, p) == {w \in WindowsOf(occ, size) : w[1] <= p}

\* calculate_bonus of the stretch.
Bonus(L, size, from, to) == BonusOf(Cardinality({L[n].entry : n \in from .. to - 1}), size)

\* The window in hand has not been counted; all that begin before it have.
Inside(L, occ, size, s, e, r) ==
  /\ s = 1 \/ ~Near(L, size, s - 1, e)
  /\ r = SumBy(occ, size, BegunBefore(occ, size, L[s].pos))

\* The window in hand is empty or too long; what begins before it has been counted.
Outside(L, occ, size, s, e, r) ==
  /\ s > 1 /\ Near(L, size, s - 1, e - 1)
  /\ r = SumBy(occ, size, BegunUntil(occ, size, L[s - 1].pos))

\* What get_rank has counted with its iterators at s and before e.
Slides(L, occ, size, s, e, r) ==
  /\ s \in 1 .. e /\ e \in 1 .. Len(L) + 1
  /\ e <= Len(L) /\ Near(L, size, s, e) => Inside(L, occ, size, s, e, r)
  /\ e <= Len(L) /\ ~Near(L, size, s, e) => Outside(L, occ, size, s, e, r)
  /\ e > Len(L) => r = SumBy(occ, size, WindowsOf(occ, size))

\* At first nothing has been counted.
LEMMA SlideStart ==
  ASSUME NEW m \in Nat, NEW L, NEW occ, Lists(L, occ, m), NEW size \in Nat,
         Len(L) > 0 => size > 0
  PROVE  Slides(L, occ, size, 1, 1, 0)
<1>1. Len(L) \in Nat /\ \A n \in 1 .. Len(L) : L[n].pos \in Nat
  BY ListFacts
<1>2. CASE Len(L) = 0
  <2>1. \A w \in WindowsOf(occ, size) : FALSE
    <3>1. \A w \in WindowsOf(occ, size) : \E a \in 1 .. Len(L) : TRUE
      BY WindowIs
    <3> QED
      BY <1>2, <3>1
  <2>2. WindowsOf(occ, size) = {}
    BY <2>1
  <2>3. SumBy(occ, size, WindowsOf(occ, size)) = 0
    BY <2>2, SumEmpty
  <2> QED
    BY <1>2, <2>3 DEF Slides
<1>3. CASE Len(L) # 0
  <2>1. 1 \in 1 .. Len(L) /\ \A n \in 1 .. Len(L) : L[1].pos <= L[n].pos
    <3>1. 1 \in 1 .. Len(L) /\ \A n \in 1 .. Len(L) : 1 \in 1 .. n
      BY <1>1, <1>3
    <3> QED
      BY <3>1, ListFacts
  <2>2. Near(L, size, 1, 1)
    BY <1>1, <1>3, <2>1 DEF Near
  <2>3. ASSUME NEW w \in WindowsOf(occ, size), w[1] < L[1].pos PROVE FALSE
    <3>1. PICK a \in 1 .. Len(L) : \E b \in 1 .. Len(L) : Stretch(L, size, w, a, b)
      BY WindowIs
    <3>2. PICK b \in 1 .. Len(L) : Stretch(L, size, w, a, b)
      BY <3>1
    <3>3. w[1] = L[a].pos
      BY <3>2 DEF Stretch
    <3> QED
      BY <1>1, <2>1, <2>3, <3>3
  <2>4. BegunBefore(occ, size, L[1].pos) = {}
    BY <2>3 DEF BegunBefore
  <2>5. SumBy(occ, size, BegunBefore(occ, size, L[1].pos)) = 0
    BY <2>4, SumEmpty
  <2> QED
    BY <1>1, <1>3, <2>2, <2>5 DEF Slides, Inside
<1> QED
  BY <1>2, <1>3

\* Where the window begins now, none begins that ends before the last position.
LEMMA NoneBetween ==
  ASSUME NEW m \in Nat, NEW L, NEW occ, Lists(L, occ, m), NEW size \in Nat,
         NEW s \in 1 .. Len(L), NEW e \in 1 .. Len(L), s > 1, s < e,
         ~Near(L, size, s, e), Near(L, size, s - 1, e - 1)
  PROVE  BegunUntil(occ, size, L[s - 1].pos) = BegunUntil(occ, size, L[s].pos)
<1>1. /\ Len(L) \in Nat /\ \A n \in 1 .. Len(L) : L[n].pos \in Nat
      /\ \A b \in 1 .. Len(L) : \A a \in 1 .. b : L[a].pos <= L[b].pos
  BY ListFacts
<1> DEFINE p == L[s - 1].pos
           q == L[s].pos
<1>2. s - 1 \in 1 .. Len(L) /\ e - 1 \in 1 .. Len(L) /\ s - 1 \in 1 .. s
  BY <1>1
<1>3. p \in Nat /\ q \in Nat /\ p <= q
  BY <1>1, <1>2
<1>4. L[e].pos - q >= size /\ L[e - 1].pos - p < size /\ L[e].pos \in Nat /\ L[e - 1].pos \in Nat
  BY <1>1, <1>2 DEF Near
<1>5. ASSUME NEW w \in WindowsOf(occ, size), w[1] <= q PROVE w[1] <= p
  <2>1. PICK a \in 1 .. Len(L) : \E b \in 1 .. Len(L) : Stretch(L, size, w, a, b)
    BY WindowIs
  <2>2. PICK b \in 1 .. Len(L) : Stretch(L, size, w, a, b)
    BY <2>1
  <2>3. w[1] = L[a].pos /\ IsWindow(L, size, a, b)
    BY <2>2 DEF Stretch
  <2>4. L[a].pos \in Nat /\ L[b].pos \in Nat
    BY <1>1
  <2>5. SUFFICES ASSUME L[a].pos > p PROVE FALSE
    BY <1>3, <2>3, <2>4
  <2>6. L[a].pos = q
    <3>1. ~(a <= s - 1)
      <4>1. SUFFICES ASSUME a <= s - 1 PROVE FALSE
        OBVIOUS
      <4>2. a \in 1 .. s - 1
        BY <1>2, <4>1
      <4>3. L[a].pos <= p
        BY <1>1, <1>2, <4>2
      <4> QED
        BY <1>3, <2>4, <2>5, <4>3, SMTT(30)
    <3>2. s \in 1 .. a
      BY <3>1
    <3>3. q <= L[a].pos
      BY <1>1, <3>2
    <3> QED
      BY <1>3, <1>5, <2>3, <2>4, <3>3, SMTT(30)
  <2>7. ~(b >= e)
    <3>1. SUFFICES ASSUME b >= e PROVE FALSE
      OBVIOUS
    <3>2. e \in 1 .. b
      BY <3>1
    <3>3. L[e].pos <= L[b].pos
      BY <1>1, <3>2
    <3>4. L[b].pos - L[a].pos < size
      BY <2>3 DEF IsWindow, Near
    <3> HIDE DEF p, q
    <3> QED
      BY <1>3, <1>4, <2>4, <2>6, <3>3, <3>4, SMTT(30)
  <2>8. b \in 1 .. e - 1
    BY <2>7
  <2>9. L[b].pos <= L[e - 1].pos
    BY <1>1, <1>2, <2>8
  <2>10. ~Near(L, size, s - 1, b)
    BY <1>2, <2>3, <2>5 DEF IsWindow
  <2>11. L[b].pos - p >= size
    BY <1>3, <2>4, <2>10, SMTT(30) DEF Near
  <2> HIDE DEF p, q
  <2> QED
    BY <1>3, <1>4, <2>4, <2>9, <2>11, SMTT(30)
<1>6. ASSUME NEW w \in WindowsOf(occ, size), w[1] <= p PROVE w[1] <= q
  <2>1. PICK a \in 1 .. Len(L) : \E b \in 1 .. Len(L) : Stretch(L, size, w, a, b)
    BY WindowIs
  <2>2. w[1] \in Nat
    BY <1>1, <2>1 DEF Stretch
  <2> HIDE DEF p, q
  <2> QED
    BY <1>3, <1>6, <2>2
<1> QED
  BY <1>5, <1>6 DEF BegunUntil

\* What begins before the next position, begins at this one at the latest.
LEMMA UntilBefore ==
  ASSUME NEW m \in Nat, NEW L, NEW occ, Lists(L, occ, m), NEW size \in Nat,
         NEW s \in 1 .. Len(L), s + 1 <= Len(L), L[s].pos < L[s + 1].pos
  PROVE  BegunUntil(occ, size, L[s].pos) = BegunBefore(occ, size, L[s + 1].pos)
<1>1. /\ Len(L) \in Nat /\ \A n \in 1 .. Len(L) : L[n].pos \in Nat
      /\ \A b \in 1 .. Len(L) : \A a \in 1 .. b : L[a].pos <= L[b].pos
  BY ListFacts
<1>2. s + 1 \in 1 .. Len(L)
  BY <1>1
<1>3. ASSUME NEW w \in WindowsOf(occ, size) PROVE w[1] <= L[s].pos <=> w[1] < L[s + 1].pos
  <2>1. PICK a \in 1 .. Len(L) : \E b \in 1 .. Len(L) : Stretch(L, size, w, a, b)
    BY WindowIs
  <2>2. w[1] = L[a].pos
    BY <2>1 DEF Stretch
  <2>3. CASE a <= s
    <3>1. a \in 1 .. s
      BY <2>3
    <3>2. L[a].pos <= L[s].pos
      BY <1>1, <3>1
    <3> QED
      BY <1>1, <1>2, <2>2, <3>2
  <2>4. CASE a > s
    <3>1. s + 1 \in 1 .. a
      BY <2>4
    <3>2. L[s + 1].pos <= L[a].pos
      BY <1>1, <3>1
    <3> QED
      BY <1>1, <1>2, <2>2, <3>2
  <2> QED
    BY <2>3, <2>4
<1> QED
  BY <1>3 DEF BegunUntil, BegunBefore

\* The stretch cannot be continued to either side.
Full(L, size, s, e) ==
  /\ s \in 1 .. e /\ e \in 1 .. Len(L) /\ Near(L, size, s, e)
  /\ s = 1 \/ ~Near(L, size, s - 1, e)
  /\ e = Len(L) \/ ~Near(L, size, s, e + 1)

\* What is further away than a window of its size is beyond its end.
LEMMA Further ==
  ASSUME NEW a \in Nat, NEW b \in Nat, NEW c \in Nat, NEW d \in Nat, NEW size \in Nat, c - b < size
  PROVE  /\ c - a >= size /\ d <= a => d < b /\ c - d >= size
         /\ a - b >= size /\ a <= d => d > c /\ d - b >= size
OBVIOUS

\* What is further away than a full stretch reaches does not fit.
LEMMA FullSides ==
  ASSUME NEW m \in Nat, NEW L, NEW occ, Lists(L, occ, m), NEW size \in Nat,
         NEW s \in Nat, NEW e \in Nat, Full(L, size, s, e)
  PROVE  /\ s \in 1 .. Len(L) /\ e \in 1 .. Len(L)
         /\ L[s].pos \in Nat /\ L[e].pos \in Nat /\ L[s].pos <= L[e].pos
         /\ \A n \in 1 .. s - 1 : L[n].pos \in Nat /\ L[n].pos < L[s].pos /\ ~Near(L, size, n, e)
         /\ \A n \in e + 1 .. Len(L) : L[n].pos \in Nat /\ L[n].pos > L[e].pos /\ ~Near(L, size, s, n)
<1>1. /\ Len(L) \in Nat /\ \A n \in 1 .. Len(L) : L[n].pos \in Nat
      /\ \A b \in 1 .. Len(L) : \A a \in 1 .. b : L[a].pos <= L[b].pos
  BY ListFacts
<1>2. s \in 1 .. e /\ e \in 1 .. Len(L) /\ s \in 1 .. Len(L) /\ L[e].pos - L[s].pos < size
  BY <1>1 DEF Full, Near
<1>3. L[s].pos \in Nat /\ L[e].pos \in Nat /\ L[s].pos <= L[e].pos
  BY <1>1, <1>2
<1>4. ASSUME NEW n \in 1 .. s - 1
      PROVE  L[n].pos \in Nat /\ L[n].pos < L[s].pos /\ ~Near(L, size, n, e)
  <2>1. s - 1 \in 1 .. Len(L) /\ n \in 1 .. Len(L) /\ s # 1
    BY <1>1, <1>2
  <2>2. L[n].pos <= L[s - 1].pos /\ L[n].pos \in Nat /\ L[s - 1].pos \in Nat
    BY <1>1, <2>1
  <2>3. ~Near(L, size, s - 1, e)
    BY <2>1 DEF Full
  <2>4. L[e].pos - L[s - 1].pos >= size
    BY <1>3, <2>2, <2>3 DEF Near
  <2> DEFINE a == L[s - 1].pos
             b == L[s].pos
             c == L[e].pos
             d == L[n].pos
  <2>5. a \in Nat /\ b \in Nat /\ c \in Nat /\ d \in Nat /\ c - b < size /\ c - a >= size /\ d <= a
    BY <1>2, <1>3, <2>2, <2>4
  <2> HIDE DEF a, b, c, d
  <2>6. d < b /\ c - d >= size
    BY <2>5, Further
  <2>7. L[n].pos < L[s].pos /\ L[e].pos - L[n].pos >= size
    BY <2>6 DEF a, b, c, d
  <2> QED
    BY <1>3, <2>2, <2>7 DEF Near
<1>5. ASSUME NEW n \in e + 1 .. Len(L)
      PROVE  L[n].pos \in Nat /\ L[n].pos > L[e].pos /\ ~Near(L, size, s, n)
  <2>1. e + 1 \in 1 .. n /\ n \in 1 .. Len(L) /\ e + 1 \in 1 .. Len(L) /\ e # Len(L)
    BY <1>1, <1>2
  <2>2. L[e + 1].pos <= L[n].pos /\ L[n].pos \in Nat /\ L[e + 1].pos \in Nat
    BY <1>1, <2>1
  <2>3. ~Near(L, size, s, e + 1)
    BY <2>1 DEF Full
  <2>4. L[e + 1].pos - L[s].pos >= size
    BY <1>3, <2>2, <2>3 DEF Near
  <2> DEFINE a == L[e + 1].pos
             b == L[s].pos
             c == L[e].pos
             d == L[n].pos
  <2>5. a \in Nat /\ b \in Nat /\ c \in Nat /\ d \in Nat /\ c - b < size /\ a - b >= size /\ a <= d
    BY <1>2, <1>3, <2>2, <2>4
  <2> HIDE DEF a, b, c, d
  <2>6. d > c /\ d - b >= size
    BY <2>5, Further
  <2>7. L[n].pos > L[e].pos /\ L[n].pos - L[s].pos >= size
    BY <2>6 DEF a, b, c, d
  <2> QED
    BY <1>3, <2>2, <2>7 DEF Near
<1> QED
  BY <1>2, <1>3, <1>4, <1>5

\* A full stretch is a window.
LEMMA FullIsWindow ==
  ASSUME NEW m \in Nat, NEW L, NEW occ, Lists(L, occ, m), NEW size \in Nat,
         NEW s \in Nat, NEW e \in Nat, Full(L, size, s, e)
  PROVE  <<L[s].pos, L[e].pos>> \in WindowsOf(occ, size)
<1>1. /\ Len(L) \in Nat /\ \A n \in 1 .. Len(L) : L[n].pos \in Nat
      /\ \A b \in 1 .. Len(L) : \A a \in 1 .. b : L[a].pos <= L[b].pos
  BY ListFacts
<1>2. /\ s \in 1 .. Len(L) /\ e \in 1 .. Len(L)
      /\ L[s].pos \in Nat /\ L[e].pos \in Nat /\ L[s].pos <= L[e].pos
      /\ \A n \in 1 .. s - 1 : ~Near(L, size, n, e)
      /\ \A n \in e + 1 .. Len(L) : ~Near(L, size, s, n)
  BY FullSides
<1>3. Near(L, size, s, e)
  BY DEF Full
<1>4. ASSUME NEW n \in 1 .. Len(L), L[n].pos < L[s].pos PROVE ~Near(L, size, n, e)
  <2>1. ~(s \in 1 .. n)
    BY <1>1, <1>2, <1>4
  <2>2. n \in 1 .. s - 1
    BY <1>2, <2>1
  <2> QED
    BY <1>2, <2>2
<1>5. ASSUME NEW n \in 1 .. Len(L), L[n].pos > L[e].pos PROVE ~Near(L, size, s, n)
  <2>1. ~(n \in 1 .. e)
    BY <1>1, <1>2, <1>5
  <2>2. n \in e + 1 .. Len(L)
    BY <1>2, <2>1
  <2> QED
    BY <1>2, <2>2
<1>6. IsWindow(L, size, s, e)
  BY <1>2, <1>3, <1>4, <1>5 DEF IsWindow
<1> QED
  BY <1>2, <1>6, WindowAt

\* No other window begins where this one does.
LEMMA FullIsOnly ==
  ASSUME NEW m \in Nat, NEW L, NEW occ, Lists(L, occ, m), NEW size \in Nat,
         NEW s \in Nat, NEW e \in Nat, Full(L, size, s, e),
         NEW w \in WindowsOf(occ, size), w[1] = L[s].pos
  PROVE  w = <<L[s].pos, L[e].pos>>
<1>1. /\ Len(L) \in Nat /\ \A n \in 1 .. Len(L) : L[n].pos \in Nat
      /\ \A b \in 1 .. Len(L) : \A a \in 1 .. b : L[a].pos <= L[b].pos
  BY ListFacts
<1>2. /\ s \in 1 .. Len(L) /\ e \in 1 .. Len(L)
      /\ L[s].pos \in Nat /\ L[e].pos \in Nat
      /\ \A n \in e + 1 .. Len(L) : ~Near(L, size, s, n)
  BY FullSides
<1>3. Near(L, size, s, e)
  BY DEF Full
<1>4. PICK a \in 1 .. Len(L) : \E b \in 1 .. Len(L) : Stretch(L, size, w, a, b)
  BY WindowIs
<1>5. PICK b \in 1 .. Len(L) : Stretch(L, size, w, a, b)
  BY <1>4
<1>6. w = <<L[a].pos, L[b].pos>> /\ w[1] = L[a].pos /\ IsWindow(L, size, a, b)
  BY <1>5 DEF Stretch
<1>7. L[a].pos = L[s].pos /\ L[b].pos \in Nat /\ Near(L, size, a, b)
  BY <1>1, <1>6 DEF IsWindow
<1>8. Near(L, size, s, b)
  BY <1>7 DEF Near
<1>9. b \in 1 .. e
  <2>1. ~(b \in e + 1 .. Len(L))
    BY <1>2, <1>8
  <2> QED
    BY <1>2, <2>1
<1>10. L[b].pos <= L[e].pos
  BY <1>1, <1>2, <1>9
<1>11. ~(L[e].pos > L[b].pos)
  <2>1. SUFFICES ASSUME L[e].pos > L[b].pos PROVE FALSE
    OBVIOUS
  <2>2. ~Near(L, size, a, e)
    BY <1>2, <1>6, <2>1 DEF IsWindow
  <2> QED
    BY <1>3, <1>7, <2>2 DEF Near
<1>12. L[b].pos = L[e].pos
  BY <1>2, <1>7, <1>10, <1>11
<1> QED
  BY <1>6, <1>7, <1>12

\* calculate_bonus of a full stretch is what the window is worth.
LEMMA FullWorth ==
  ASSUME NEW m \in Nat, NEW L, NEW occ, Lists(L, occ, m), NEW size \in Nat,
         NEW s \in Nat, NEW e \in Nat, Full(L, size, s, e)
  PROVE  WorthBy(occ, <<L[s].pos, L[e].pos>>, size) = Bonus(L, size, s, e + 1)
<1>1. /\ Len(L) \in Nat /\ \A n \in 1 .. Len(L) : L[n].pos \in Nat
      /\ \A b \in 1 .. Len(L) : \A a \in 1 .. b : L[a].pos <= L[b].pos
  BY ListFacts
<1>2. /\ s \in 1 .. Len(L) /\ e \in 1 .. Len(L)
      /\ L[s].pos \in Nat /\ L[e].pos \in Nat
      /\ \A n \in 1 .. s - 1 : L[n].pos < L[s].pos
      /\ \A n \in e + 1 .. Len(L) : L[n].pos > L[e].pos
  BY FullSides
<1> DEFINE I == {L[n].entry : n \in s .. (e + 1) - 1}
           J == EntriesIn(occ, L[s].pos, L[e].pos)
<1>3. (e + 1) - 1 = e
  OBVIOUS
<1>4. ASSUME NEW x \in J PROVE x \in I
  <2>1. PICK o \in occ : x = o.entry /\ o.pos \in L[s].pos .. L[e].pos
    BY DEF EntriesIn
  <2>2. PICK n \in 1 .. Len(L) : L[n] = o
    BY DEF Lists
  <2>3. ~(n \in 1 .. s - 1) /\ ~(n \in e + 1 .. Len(L))
    BY <1>1, <1>2, <2>1, <2>2
  <2>4. n \in s .. e
    BY <1>2, <2>3
  <2> QED
    BY <1>3, <2>1, <2>2, <2>4
<1>5. ASSUME NEW x \in I PROVE x \in J
  <2>1. PICK n \in s .. e : x = L[n].entry
    BY <1>3
  <2>2. n \in 1 .. Len(L) /\ s \in 1 .. n /\ n \in 1 .. e
    BY <1>2
  <2>3. L[s].pos <= L[n].pos /\ L[n].pos <= L[e].pos /\ L[n].pos \in Nat
    BY <1>1, <1>2, <2>2
  <2>4. L[n] \in occ /\ L[n].pos \in L[s].pos .. L[e].pos
    BY <1>2, <2>2, <2>3 DEF Lists
  <2> QED
    BY <2>1, <2>4 DEF EntriesIn
<1>6. I = J
  <2> HIDE DEF I, J
  <2> QED
    BY <1>4, <1>5
<1>7. Bonus(L, size, s, e + 1) = BonusOf(Cardinality(I), size)
  BY DEF Bonus
<1> DEFINE w == <<L[s].pos, L[e].pos>>
<1>8. w[1] = L[s].pos /\ w[2] = L[e].pos
  OBVIOUS
<1> HIDE DEF w
<1>9. WorthBy(occ, w, size) = BonusOf(Cardinality(J), size)
  BY <1>8 DEF WorthBy
<1> QED
  BY <1>6, <1>7, <1>9 DEF w

\* Counting a full stretch counts the windows that begin with it.
LEMMA FullCounts ==
  ASSUME NEW m \in Nat, NEW L, NEW occ, Lists(L, occ, m), NEW size \in Nat,
         NEW s \in Nat, NEW e \in Nat, Full(L, size, s, e)
  PROVE  SumBy(occ, size, BegunUntil(occ, size, L[s].pos))
           = SumBy(occ, size, BegunBefore(occ, size, L[s].pos)) + Bonus(L, size, s, e + 1)
<1> DEFINE w == <<L[s].pos, L[e].pos>>
           U == BegunUntil(occ, size, L[s].pos)
           B == BegunBefore(occ, size, L[s].pos)
<1>1. /\ Len(L) \in Nat /\ \A n \in 1 .. Len(L) : L[n].pos \in Nat
      /\ s \in 1 .. Len(L) /\ L[s].pos \in Nat
  BY ListFacts, FullSides
<1>2. w \in U
  <2>1. w \in WindowsOf(occ, size) /\ w[1] = L[s].pos
    BY FullIsWindow
  <2> HIDE DEF w
  <2> QED
    BY <1>1, <2>1 DEF BegunUntil
<1>3. U \ {w} = B
  <2>1. ASSUME NEW v \in WindowsOf(occ, size) PROVE v[1] \in Nat
    <3>1. PICK a \in 1 .. Len(L) : \E b \in 1 .. Len(L) : Stretch(L, size, v, a, b)
      BY <2>1, WindowIs
    <3>2. v[1] = L[a].pos
      BY <3>1 DEF Stretch
    <3> QED
      BY <1>1, <3>2
  <2>2. ASSUME NEW v \in WindowsOf(occ, size) PROVE v[1] = L[s].pos => v = w
    BY <2>2, FullIsOnly
  <2>3. w[1] = L[s].pos
    OBVIOUS
  <2>4. ASSUME NEW v \in WindowsOf(occ, size) PROVE v \in U \ {w} <=> v \in B
    <3>1. v \in U <=> v[1] <= L[s].pos
      BY DEF BegunUntil
    <3>2. v \in B <=> v[1] < L[s].pos
      BY DEF BegunBefore
    <3>3. v[1] = L[s].pos <=> v = w
      BY <2>2, <2>3
    <3> HIDE DEF U, B, w
    <3> QED
      BY <1>1, <2>1, <3>1, <3>2, <3>3
  <2>5. U \subseteq WindowsOf(occ, size) /\ B \subseteq WindowsOf(occ, size)
    BY DEF BegunUntil, BegunBefore
  <2> HIDE DEF U, B, w
  <2> QED
    BY <2>4, <2>5
<1>4. IsFiniteSet(U) /\ IsFiniteSet(B)
  <2>1. IsFiniteSet(WindowsOf(occ, size))
    BY WindowsFinite
  <2>2. U \subseteq WindowsOf(occ, size) /\ B \subseteq WindowsOf(occ, size)
    BY DEF BegunUntil, BegunBefore
  <2> HIDE DEF U, B
  <2> QED
    BY <2>1, <2>2, FS_Subset
<1>5. \A x : WorthBy(occ, x, size) \in Nat
  BY ListFacts, WorthType
<1>6. WorthBy(occ, w, size) = Bonus(L, size, s, e + 1)
  BY FullWorth
<1> HIDE DEF U, B, w
<1>7. SumBy(occ, size, U) = WorthBy(occ, w, size) + SumBy(occ, size, U \ {w})
  BY <1>2, <1>4, <1>5, SumAdd
<1>8. SumBy(occ, size, B) \in Nat
  BY <1>4, <1>5, SumAdd
<1>9. WorthBy(occ, w, size) \in Nat
  BY <1>5
<1>10. SumBy(occ, size, U) = SumBy(occ, size, B) + Bonus(L, size, s, e + 1)
  BY <1>3, <1>6, <1>7, <1>8, <1>9
<1> QED
  BY <1>10 DEF U, B

\* The end moves on and the window with it, inside or outside as it falls.
LEMMA SlideOn ==
  ASSUME NEW m \in Nat, NEW L, NEW occ, Lists(L, occ, m), NEW size \in Nat,
         NEW s \in Nat, NEW e \in 1 .. Len(L), s \in 1 .. e - 1,
         ~Near(L, size, s, e), Near(L, size, s, e - 1),
         NEW r, r = SumBy(occ, size, BegunUntil(occ, size, L[s].pos))
  PROVE  Slides(L, occ, size, s + 1, e, r)
<1>1. /\ Len(L) \in Nat /\ \A n \in 1 .. Len(L) : L[n].pos \in Nat
  BY ListFacts
<1>2. /\ (s + 1) - 1 = s /\ s + 1 \in 1 .. e /\ e \in 1 .. Len(L) + 1 /\ e <= Len(L) /\ s + 1 > 1 /\ ~(e > Len(L))
      /\ s \in 1 .. Len(L) /\ s + 1 \in 1 .. Len(L) /\ s + 1 <= Len(L)
  BY <1>1
<1>3. CASE Near(L, size, s + 1, e)
  <2>1. L[s].pos < L[s + 1].pos
    <3>1. L[s].pos \in Nat /\ L[s + 1].pos \in Nat /\ L[e].pos \in Nat
      BY <1>1, <1>2
    <3> DEFINE a == L[s].pos
               b == L[s + 1].pos
               c == L[e].pos
    <3>2. a \in Nat /\ b \in Nat /\ c \in Nat /\ ~(c - a < size) /\ c - b < size
      BY <1>3, <3>1 DEF Near
    <3> HIDE DEF a, b, c
    <3>3. a < b
      BY <3>2
    <3> QED
      BY <3>3 DEF a, b
  <2>2. BegunUntil(occ, size, L[s].pos) = BegunBefore(occ, size, L[s + 1].pos)
    BY <1>2, <2>1, UntilBefore
  <2>3. Inside(L, occ, size, s + 1, e, r)
    BY <1>2, <2>2 DEF Inside
  <2> QED
    BY <1>2, <1>3, <2>3 DEF Slides
<1>4. CASE ~Near(L, size, s + 1, e)
  <2>1. Outside(L, occ, size, s + 1, e, r)
    BY <1>2 DEF Outside
  <2> QED
    BY <1>2, <1>4, <2>1 DEF Slides
<1> QED
  BY <1>3, <1>4

\* The end moves on: the stretch grows, or is full and is counted.
LEMMA SlideGrow ==
  ASSUME NEW m \in Nat, NEW L, NEW occ, Lists(L, occ, m), NEW size \in Nat,
         NEW s \in Nat, NEW e \in Nat, NEW r, Slides(L, occ, size, s, e, r),
         e <= Len(L), Near(L, size, s, e)
  PROVE  /\ e + 1 <= Len(L) /\ Near(L, size, s, e + 1) => Slides(L, occ, size, s, e + 1, r)
         /\ e + 1 <= Len(L) /\ ~Near(L, size, s, e + 1) =>
              Slides(L, occ, size, s + 1, e + 1, r + Bonus(L, size, s, e + 1))
         /\ e + 1 > Len(L) => Slides(L, occ, size, s, e + 1, r + Bonus(L, size, s, e + 1))
<1>1. /\ Len(L) \in Nat /\ \A n \in 1 .. Len(L) : L[n].pos \in Nat
      /\ \A b \in 1 .. Len(L) : \A a \in 1 .. b : L[a].pos <= L[b].pos
  BY ListFacts
<1>2. s \in 1 .. e /\ e \in 1 .. Len(L) /\ Inside(L, occ, size, s, e, r) /\ s \in 1 .. Len(L)
  BY <1>1 DEF Slides
<1>3. s = 1 \/ ~Near(L, size, s - 1, e)
  BY <1>2 DEF Inside
<1>4. Full(L, size, s, e) => r + Bonus(L, size, s, e + 1) = SumBy(occ, size, BegunUntil(occ, size, L[s].pos))
  <2>1. r = SumBy(occ, size, BegunBefore(occ, size, L[s].pos))
    BY <1>2 DEF Inside
  <2> QED
    BY <2>1, FullCounts
<1>5. ASSUME e + 1 <= Len(L), Near(L, size, s, e + 1)
      PROVE  Slides(L, occ, size, s, e + 1, r)
  <2>1. s \in 1 .. e + 1 /\ e + 1 \in 1 .. Len(L) + 1 /\ e + 1 \in 1 .. Len(L) /\ e \in 1 .. e + 1 /\ ~(e + 1 > Len(L))
    BY <1>1, <1>2, <1>5
  <2>2. s # 1 => ~Near(L, size, s - 1, e + 1)
    <3> SUFFICES ASSUME s # 1 PROVE ~Near(L, size, s - 1, e + 1)
      OBVIOUS
    <3>1. s - 1 \in 1 .. Len(L)
      BY <1>1, <1>2
    <3> DEFINE a == L[s - 1].pos
               b == L[e].pos
               c == L[e + 1].pos
    <3>2. a \in Nat /\ b \in Nat /\ c \in Nat /\ b <= c
      BY <1>1, <1>2, <2>1, <3>1
    <3>3. ~(b - a < size)
      BY <1>3 DEF Near
    <3> HIDE DEF a, b, c
    <3>4. ~(c - a < size)
      BY <3>2, <3>3
    <3> QED
      BY <3>4 DEF Near, a, c
  <2>3. Inside(L, occ, size, s, e + 1, r)
    BY <1>2, <2>2 DEF Inside
  <2> QED
    BY <1>5, <2>1, <2>3 DEF Slides
<1>6. ASSUME e + 1 <= Len(L), ~Near(L, size, s, e + 1)
      PROVE  Slides(L, occ, size, s + 1, e + 1, r + Bonus(L, size, s, e + 1))
  <2>1. Full(L, size, s, e)
    BY <1>2, <1>3, <1>6 DEF Full
  <2>2. e + 1 \in 1 .. Len(L) /\ (e + 1) - 1 = e /\ e + 1 \in Nat /\ s \in 1 .. (e + 1) - 1
    BY <1>1, <1>2, <1>6
  <2>3. Near(L, size, s, (e + 1) - 1)
    BY <2>2
  <2> DEFINE f == e + 1
             q == r + Bonus(L, size, s, f)
  <2>4. q = SumBy(occ, size, BegunUntil(occ, size, L[s].pos))
    BY <1>4, <2>1
  <2> HIDE DEF q
  <2>5. f \in 1 .. Len(L) /\ s \in 1 .. f - 1 /\ ~Near(L, size, s, f) /\ Near(L, size, s, f - 1)
    BY <1>6, <2>2, <2>3
  <2> HIDE DEF f
  <2>6. Slides(L, occ, size, s + 1, f, q)
    BY <2>4, <2>5, SlideOn
  <2> QED
    BY <2>6 DEF f, q
<1>7. ASSUME e + 1 > Len(L)
      PROVE  Slides(L, occ, size, s, e + 1, r + Bonus(L, size, s, e + 1))
  <2>1. e = Len(L) /\ s \in 1 .. e + 1 /\ e + 1 \in 1 .. Len(L) + 1 /\ ~(e + 1 <= Len(L))
    BY <1>1, <1>2, <1>7
  <2>2. Full(L, size, s, e)
    BY <1>2, <1>3, <2>1 DEF Full
  <2>3. ASSUME NEW w \in WindowsOf(occ, size) PROVE w[1] <= L[s].pos
    <3>1. PICK a \in 1 .. Len(L) : \E b \in 1 .. Len(L) : Stretch(L, size, w, a, b)
      BY <2>3, WindowIs
    <3>2. PICK b \in 1 .. Len(L) : Stretch(L, size, w, a, b)
      BY <3>1
    <3>3. w[1] = L[a].pos /\ IsWindow(L, size, a, b)
      BY <3>2 DEF Stretch
    <3>4. SUFFICES ASSUME L[s].pos < L[a].pos PROVE FALSE
      BY <1>1, <1>2, <3>3
    <3>5. ~Near(L, size, s, b)
      BY <1>2, <3>3, <3>4 DEF IsWindow
    <3>6. b \in 1 .. e
      BY <2>1
    <3>7. L[b].pos <= L[e].pos /\ L[b].pos \in Nat /\ L[e].pos \in Nat /\ L[s].pos \in Nat
      BY <1>1, <1>2, <3>6
    <3> QED
      BY <3>5, <3>7 DEF Near
  <2>4. BegunUntil(occ, size, L[s].pos) = WindowsOf(occ, size)
    BY <2>3 DEF BegunUntil
  <2> DEFINE q == r + Bonus(L, size, s, e + 1)
  <2>5. q = SumBy(occ, size, WindowsOf(occ, size))
    BY <1>4, <2>2, <2>4
  <2> HIDE DEF q
  <2>6. Slides(L, occ, size, s, e + 1, q)
    BY <2>1, <2>5 DEF Slides
  <2> QED
    BY <2>6 DEF q
<1> QED
  BY <1>5, <1>6, <1>7

\* The start moves on.
LEMMA SlideShrink ==
  ASSUME NEW m \in Nat, NEW L, NEW occ, Lists(L, occ, m), NEW size \in Nat \ {0},
         NEW s \in Nat, NEW e \in Nat, NEW r, Slides(L, occ, size, s, e, r),
         e <= Len(L), ~Near(L, size, s, e)
  PROVE  Slides(L, occ, size, s + 1, e, r)
<1>1. /\ Len(L) \in Nat /\ \A n \in 1 .. Len(L) : L[n].pos \in Nat
      /\ \A b \in 1 .. Len(L) : \A a \in 1 .. b : L[a].pos <= L[b].pos
  BY ListFacts
<1>2. s \in 1 .. e /\ e \in 1 .. Len(L) /\ Outside(L, occ, size, s, e, r) /\ s \in 1 .. Len(L)
  BY <1>1 DEF Slides
<1>3. s > 1 /\ Near(L, size, s - 1, e - 1) /\ r = SumBy(occ, size, BegunUntil(occ, size, L[s - 1].pos))
  BY <1>2 DEF Outside
<1>4. s # e
  <2>1. SUFFICES ASSUME s = e PROVE FALSE
    OBVIOUS
  <2>2. L[e].pos - L[s].pos = 0
    BY <1>1, <1>2, <2>1
  <2> QED
    BY <2>2 DEF Near
<1>5. s \in 1 .. e - 1 /\ s < e /\ s - 1 \in 1 .. s /\ s - 1 \in 1 .. Len(L) /\ e - 1 \in 1 .. Len(L)
  BY <1>1, <1>2, <1>3, <1>4
<1>6. BegunUntil(occ, size, L[s - 1].pos) = BegunUntil(occ, size, L[s].pos)
  BY <1>2, <1>3, <1>5, NoneBetween
<1>7. Near(L, size, s, e - 1)
  <2> DEFINE a == L[s - 1].pos
             b == L[s].pos
             c == L[e - 1].pos
  <2>1. a \in Nat /\ b \in Nat /\ c \in Nat /\ a <= b
    BY <1>1, <1>2, <1>5
  <2>2. c - a < size
    BY <1>3 DEF Near
  <2> HIDE DEF a, b, c
  <2>3. c - b < size
    BY <2>1, <2>2
  <2> QED
    BY <2>3 DEF Near, b, c
<1> QED
  BY <1>2, <1>3, <1>5, <1>6, <1>7, SlideOn

-----------------------------------------------------------------------------
(* The lists of the entries become one.                                    *)

\* Positions as a posting has them.
Ascends(s) == s \in Seq(Nat) /\ \A b \in 1 .. Len(s) : \A a \in 1 .. b : s[a] <= s[b]

\* P has the postings of m entries in every zone.
Posts(P, m) ==
  /\ DOMAIN P = 1 .. m /\ Len(P) = m
  /\ \A e \in 1 .. m : \A z \in TextZones : Ascends(P[e][z])

\* The n-th occurrence of entry e.
Mine(P, z, e, n) == [pos |-> P[e][z][n], entry |-> e]

\* The occurrences of Answer, for any postings.
OccOf(P, z) == UNION {{[pos |-> P[e][z][n], entry |-> e] : n \in DOMAIN P[e][z]} : e \in DOMAIN P}

\* Entry j is at its q-th position, behind the n-th of e.
Passed(j, q, e, n) == e < j \/ (e = j /\ n < q)

\* The occurrences of the entries before j, and those of j before q.
Merged(P, z, j, q) == {o \in OccOf(P, z) : \E e \in DOMAIN P : \E n \in DOMAIN P[e][z] :
                          o = Mine(P, z, e, n) /\ Passed(j, q, e, n)}

\* What get_positions_for_zone has merged when entry j is at its q-th position.
Merges(P, z, m, j, L, it, q) ==
  /\ Lists(L, Merged(P, z, j, q), m)
  /\ it \in 1 .. Len(L) + 1
  /\ j \in 1 .. m + 1 /\ q \in Nat \ {0}
  /\ j > m => q = 1
  /\ j \in 1 .. m /\ q <= Len(P[j][z]) => \A n \in 1 .. it - 1 : L[n].pos <= P[j][z][q]

\* Occurrences are items, one for every position of every entry.
LEMMA OccIn ==
  ASSUME NEW m \in Nat, NEW P, Posts(P, m), NEW z \in TextZones
  PROVE  /\ \A o : o \in OccOf(P, z) <=> \E e \in 1 .. m : \E n \in 1 .. Len(P[e][z]) : o = Mine(P, z, e, n)
         /\ \A e \in 1 .. m : /\ Len(P[e][z]) \in Nat /\ DOMAIN P[e][z] = 1 .. Len(P[e][z])
                              /\ \A n \in 1 .. Len(P[e][z]) : P[e][z][n] \in Nat /\ Mine(P, z, e, n) \in Items(m)
<1>1. DOMAIN P = 1 .. m /\ \A e \in 1 .. m : P[e][z] \in Seq(Nat)
  BY DEF Posts, Ascends
<1>2. \A e \in 1 .. m : Len(P[e][z]) \in Nat /\ DOMAIN P[e][z] = 1 .. Len(P[e][z])
                        /\ \A n \in 1 .. Len(P[e][z]) : P[e][z][n] \in Nat
  BY <1>1
<1>3. \A e \in 1 .. m : \A n \in 1 .. Len(P[e][z]) : Mine(P, z, e, n) \in Items(m)
  BY <1>2 DEF Mine, Items
<1>4. \A o : o \in OccOf(P, z) <=> \E e \in 1 .. m : \E n \in 1 .. Len(P[e][z]) : o = Mine(P, z, e, n)
  BY <1>1, <1>2 DEF OccOf, Mine
<1> QED
  BY <1>2, <1>3, <1>4

\* What is merged are the positions passed.
LEMMA MergedIn ==
  ASSUME NEW m \in Nat, NEW P, Posts(P, m), NEW z \in TextZones
  PROVE  \A j, q : \A o : o \in Merged(P, z, j, q) <=>
           \E e \in 1 .. m : \E n \in 1 .. Len(P[e][z]) : o = Mine(P, z, e, n) /\ Passed(j, q, e, n)
<1>1. /\ \A o : o \in OccOf(P, z) <=> \E e \in 1 .. m : \E n \in 1 .. Len(P[e][z]) : o = Mine(P, z, e, n)
      /\ \A e \in 1 .. m : DOMAIN P[e][z] = 1 .. Len(P[e][z])
  BY OccIn
<1>2. DOMAIN P = 1 .. m
  BY DEF Posts
<1> QED
  BY <1>1, <1>2 DEF Merged

\* At first nothing is merged.
LEMMA MergedNone ==
  ASSUME NEW m \in Nat, NEW P, Posts(P, m), NEW z \in TextZones
  PROVE  Merged(P, z, 1, 1) = {}
<1>1. \A e \in 1 .. m : \A n \in 1 .. Len(P[e][z]) : ~Passed(1, 1, e, n)
  BY OccIn DEF Passed
<1> QED
  BY <1>1, MergedIn

\* A position more is one occurrence more.
LEMMA MergedOne ==
  ASSUME NEW m \in Nat, NEW P, Posts(P, m), NEW z \in TextZones,
         NEW j \in 1 .. m, NEW q \in 1 .. Len(P[j][z])
  PROVE  Merged(P, z, j, q + 1) = Merged(P, z, j, q) \cup {Mine(P, z, j, q)}
<1>1. /\ \A e \in 1 .. m : Len(P[e][z]) \in Nat
  BY OccIn
<1>2. ASSUME NEW e \in 1 .. m, NEW n \in 1 .. Len(P[e][z])
      PROVE  Passed(j, q + 1, e, n) <=> Passed(j, q, e, n) \/ (e = j /\ n = q)
  <2>1. e \in Nat /\ n \in Nat /\ q \in Nat
    BY <1>1
  <2> QED
    BY <2>1 DEF Passed
<1>3. ASSUME NEW o PROVE o \in Merged(P, z, j, q + 1) <=> o \in Merged(P, z, j, q) \/ o = Mine(P, z, j, q)
  <2>1. o \in Merged(P, z, j, q + 1) <=>
           \E e \in 1 .. m : \E n \in 1 .. Len(P[e][z]) : o = Mine(P, z, e, n) /\ Passed(j, q + 1, e, n)
    BY MergedIn
  <2>2. o \in Merged(P, z, j, q) <=>
           \E e \in 1 .. m : \E n \in 1 .. Len(P[e][z]) : o = Mine(P, z, e, n) /\ Passed(j, q, e, n)
    BY MergedIn
  <2> QED
    BY <1>2, <2>1, <2>2
<1> QED
  BY <1>3

\* An entry that is used up leaves the next one at its start.
LEMMA MergedNext ==
  ASSUME NEW m \in Nat, NEW P, Posts(P, m), NEW z \in TextZones,
         NEW j \in 1 .. m, NEW q \in Nat, q > Len(P[j][z])
  PROVE  Merged(P, z, j + 1, 1) = Merged(P, z, j, q)
<1>1. /\ \A e \in 1 .. m : Len(P[e][z]) \in Nat
  BY OccIn
<1>2. ASSUME NEW e \in 1 .. m, NEW n \in 1 .. Len(P[e][z])
      PROVE  Passed(j + 1, 1, e, n) <=> Passed(j, q, e, n)
  <2>1. e \in Nat /\ n \in Nat /\ j \in Nat /\ n >= 1
    BY <1>1
  <2>2. e = j => n < q
    BY <1>1, <2>1
  <2> QED
    BY <2>1, <2>2 DEF Passed
<1>3. ASSUME NEW o PROVE o \in Merged(P, z, j + 1, 1) <=> o \in Merged(P, z, j, q)
  <2>1. o \in Merged(P, z, j + 1, 1) <=>
           \E e \in 1 .. m : \E n \in 1 .. Len(P[e][z]) : o = Mine(P, z, e, n) /\ Passed(j + 1, 1, e, n)
    BY MergedIn
  <2>2. o \in Merged(P, z, j, q) <=>
           \E e \in 1 .. m : \E n \in 1 .. Len(P[e][z]) : o = Mine(P, z, e, n) /\ Passed(j, q, e, n)
    BY MergedIn
  <2> QED
    BY <1>2, <2>1, <2>2
<1> QED
  BY <1>3

\* Behind the last entry, all occurrences are merged.
LEMMA MergedAll ==
  ASSUME NEW m \in Nat, NEW P, Posts(P, m), NEW z \in TextZones, NEW j \in Nat, j > m, NEW q
  PROVE  Merged(P, z, j, q) = OccOf(P, z)
<1>1. ASSUME NEW e \in 1 .. m, NEW n PROVE Passed(j, q, e, n)
  <2>1. e < j
    OBVIOUS
  <2> QED
    BY <2>1 DEF Passed
<1>2. ASSUME NEW o PROVE o \in Merged(P, z, j, q) <=> o \in OccOf(P, z)
  <2>1. o \in Merged(P, z, j, q) <=>
           \E e \in 1 .. m : \E n \in 1 .. Len(P[e][z]) : o = Mine(P, z, e, n) /\ Passed(j, q, e, n)
    BY MergedIn
  <2>2. o \in OccOf(P, z) <=> \E e \in 1 .. m : \E n \in 1 .. Len(P[e][z]) : o = Mine(P, z, e, n)
    BY OccIn
  <2> QED
    BY <1>1, <2>1, <2>2
<1> QED
  BY <1>2

\* What an insertion does to a list.
LEMMA InsertFacts ==
  ASSUME NEW S, NEW L \in Seq(S), NEW p \in 1 .. Len(L) + 1, NEW x \in S
  PROVE  /\ InsertAt(L, p, x) \in Seq(S) /\ Len(InsertAt(L, p, x)) = Len(L) + 1
         /\ \A n \in 1 .. p - 1 : InsertAt(L, p, x)[n] = L[n] /\ n \in 1 .. Len(L)
         /\ InsertAt(L, p, x)[p] = x
         /\ \A n \in p + 1 .. Len(L) + 1 : InsertAt(L, p, x)[n] = L[n - 1] /\ n - 1 \in 1 .. Len(L)
<1> DEFINE A == SubSeq(L, 1, p - 1)
           B == SubSeq(L, p, Len(L))
<1>1. A \in Seq(S) /\ Len(A) = p - 1 /\ \A n \in 1 .. p - 1 : A[n] = L[n]
  OBVIOUS
<1>2. B \in Seq(S) /\ Len(B) = Len(L) - p + 1 /\ \A n \in 1 .. Len(L) - p + 1 : B[n] = L[p + n - 1]
  OBVIOUS
<1>3. Len(L) \in Nat /\ p \in Nat
  OBVIOUS
<1> HIDE DEF A, B
<1> DEFINE C == A \o <<x>>
<1>4. C \in Seq(S) /\ Len(C) = p /\ (\A n \in 1 .. p - 1 : C[n] = A[n]) /\ C[p] = x
  BY <1>1, <1>3
<1> HIDE DEF C
<1> DEFINE D == C \o B
<1>5. /\ D \in Seq(S) /\ Len(D) = Len(L) + 1
      /\ \A n \in 1 .. p : D[n] = C[n]
      /\ \A n \in p + 1 .. Len(L) + 1 : D[n] = B[n - p]
  <2>1. /\ D \in Seq(S) /\ Len(D) = Len(C) + Len(B)
        /\ \A n \in 1 .. Len(C) + Len(B) : D[n] = IF n <= Len(C) THEN C[n] ELSE B[n - Len(C)]
    <3>1. C \in Seq(S) /\ B \in Seq(S)
      BY <1>2, <1>4
    <3> QED
      BY <3>1
  <2> HIDE DEF D
  <2>2. Len(C) = p /\ Len(C) + Len(B) = Len(L) + 1
    BY <1>2, <1>3, <1>4
  <2>3. \A n \in 1 .. p : n \in 1 .. Len(L) + 1 /\ n <= p
    BY <1>3
  <2>4. \A n \in p + 1 .. Len(L) + 1 : n \in 1 .. Len(L) + 1 /\ ~(n <= p)
    BY <1>3
  <2> QED
    BY <2>1, <2>2, <2>3, <2>4
<1> HIDE DEF D
<1>6. InsertAt(L, p, x) = D
  BY DEF InsertAt, D, C, A, B
<1>7. \A n \in 1 .. p - 1 : D[n] = L[n] /\ n \in 1 .. Len(L)
  BY <1>1, <1>3, <1>4, <1>5
<1>8. D[p] = x
  BY <1>3, <1>4, <1>5
<1>9. ASSUME NEW n \in p + 1 .. Len(L) + 1 PROVE D[n] = L[n - 1] /\ n - 1 \in 1 .. Len(L)
  <2>1. n - p \in 1 .. Len(L) - p + 1 /\ p + (n - p) - 1 = n - 1 /\ n - 1 \in 1 .. Len(L)
    BY <1>3
  <2> QED
    BY <1>2, <1>5, <2>1
<1> QED
  BY <1>5, <1>6, <1>7, <1>8, <1>9

\* get_positions_for_zone begins.
LEMMA MergeBegin ==
  ASSUME NEW m \in Nat, NEW P, Posts(P, m), NEW z \in TextZones
  PROVE  Merges(P, z, m, 1, <<>>, 1, 1)
<1>1. Merged(P, z, 1, 1) = {}
  BY MergedNone
<1>2. <<>> \in Seq(Items(m)) /\ Len(<<>>) = 0
  OBVIOUS
<1>3. Lists(<<>>, {}, m)
  BY <1>2 DEF Lists
<1>4. 1 \in 1 .. Len(<<>>) + 1 /\ 1 \in 1 .. m + 1 /\ 1 \in Nat \ {0} /\ \A n \in 1 .. 1 - 1 : FALSE
  BY <1>2
<1> QED
  BY <1>1, <1>3, <1>4 DEF Merges

\* The iterator of the list passes a smaller position.
LEMMA MergeSkips ==
  ASSUME NEW m \in Nat, NEW P, Posts(P, m), NEW z \in TextZones,
         NEW j, NEW L, NEW t, NEW q, Merges(P, z, m, j, L, t, q),
         j <= m, t <= Len(L), P[j][z][q] > L[t].pos, q <= Len(P[j][z])
  PROVE  Merges(P, z, m, j, L, t + 1, q)
<1>1. /\ Lists(L, Merged(P, z, j, q), m) /\ t \in 1 .. Len(L) + 1 /\ j \in 1 .. m /\ q \in Nat \ {0}
      /\ \A n \in 1 .. t - 1 : L[n].pos <= P[j][z][q]
  BY DEF Merges
<1>2. Len(L) \in Nat /\ \A n \in 1 .. Len(L) : L[n].pos \in Nat
  BY <1>1, ListFacts
<1>3. P[j][z][q] \in Nat
  <2>1. q \in 1 .. Len(P[j][z])
    BY <1>1, OccIn
  <2> QED
    BY <1>1, <2>1, OccIn
<1>4. t \in 1 .. Len(L) /\ t + 1 \in 1 .. Len(L) + 1
  BY <1>1, <1>2
<1>5. ASSUME NEW n \in 1 .. (t + 1) - 1 PROVE L[n].pos <= P[j][z][q]
  <2>1. CASE n = t
    BY <1>2, <1>3, <1>4, <2>1
  <2>2. CASE n # t
    <3>1. n \in 1 .. t - 1
      BY <1>4, <2>2
    <3> QED
      BY <1>1, <3>1
  <2> QED
    BY <2>1, <2>2
<1> QED
  BY <1>1, <1>4, <1>5 DEF Merges

\* A position is inserted in front of the first that is not less.
LEMMA MergePuts ==
  ASSUME NEW m \in Nat, NEW P, Posts(P, m), NEW z \in TextZones,
         NEW j, NEW L, NEW t, NEW q, Merges(P, z, m, j, L, t, q),
         j <= m, t <= Len(L) => P[j][z][q] <= L[t].pos, q <= Len(P[j][z])
  PROVE  Merges(P, z, m, j, InsertAt(L, t, Mine(P, z, j, q)), t + 1, q + 1)
<1> DEFINE x == Mine(P, z, j, q)
           K == InsertAt(L, t, x)
           M == Merged(P, z, j, q)
           N == Merged(P, z, j, q + 1)
<1>1. /\ Lists(L, M, m) /\ t \in 1 .. Len(L) + 1 /\ j \in 1 .. m /\ q \in Nat \ {0}
      /\ \A n \in 1 .. t - 1 : L[n].pos <= P[j][z][q]
  BY DEF Merges
<1>2. /\ Len(L) \in Nat /\ \A n \in 1 .. Len(L) : L[n].pos \in Nat
      /\ \A b \in 1 .. Len(L) : \A a \in 1 .. b : L[a].pos <= L[b].pos
  BY <1>1, ListFacts
<1>3. /\ q \in 1 .. Len(P[j][z]) /\ Len(P[j][z]) \in Nat /\ P[j][z][q] \in Nat /\ x \in Items(m)
      /\ x.pos = P[j][z][q]
  <2>1. q \in 1 .. Len(P[j][z]) /\ Len(P[j][z]) \in Nat
    BY <1>1, OccIn
  <2>2. x.pos = P[j][z][q]
    BY DEF Mine
  <2> QED
    BY <1>1, <2>1, <2>2, OccIn
<1>4. N = M \cup {x}
  BY <1>1, <1>3, MergedOne
<1>5. L \in Seq(Items(m)) /\ t \in 1 .. Len(L) + 1 /\ t \in Nat
  BY <1>1, <1>2 DEF Lists
<1> HIDE DEF x, M, N
<1>6. /\ K \in Seq(Items(m)) /\ Len(K) = Len(L) + 1
      /\ \A n \in 1 .. t - 1 : K[n] = L[n] /\ n \in 1 .. Len(L)
      /\ K[t] = x
      /\ \A n \in t + 1 .. Len(L) + 1 : K[n] = L[n - 1] /\ n - 1 \in 1 .. Len(L)
  BY <1>3, <1>5, InsertFacts
<1> HIDE DEF K
<1>7. \A n \in 1 .. Len(K) : n \in 1 .. t - 1 \/ n = t \/ n \in t + 1 .. Len(L) + 1
  BY <1>2, <1>5, <1>6
<1>8. \A n \in 1 .. Len(L) : L[n] \in M
  BY <1>1 DEF Lists
<1>9. \A n \in 1 .. Len(K) : K[n] \in N
  BY <1>4, <1>6, <1>7, <1>8
<1>10. ASSUME NEW o \in N PROVE \E n \in 1 .. Len(K) : K[n] = o
  <2>1. CASE o = x
    <3>1. t \in 1 .. Len(K)
      BY <1>2, <1>5, <1>6
    <3> QED
      BY <1>6, <2>1, <3>1
  <2>2. CASE o # x
    <3>1. o \in M
      BY <1>4, <2>2
    <3>2. PICK n \in 1 .. Len(L) : L[n] = o
      BY <1>1, <3>1 DEF Lists
    <3>3. CASE n < t
      <4>1. n \in 1 .. t - 1 /\ n \in 1 .. Len(K)
        BY <1>2, <1>5, <1>6, <3>3
      <4> QED
        BY <1>6, <3>2, <4>1
    <3>4. CASE n >= t
      <4>1. n + 1 \in t + 1 .. Len(L) + 1 /\ n + 1 \in 1 .. Len(K) /\ (n + 1) - 1 = n
        BY <1>2, <1>5, <1>6, <3>4
      <4>2. K[n + 1] = L[n]
        BY <1>6, <4>1
      <4> QED
        BY <3>2, <4>1, <4>2
    <3> QED
      BY <1>5, <3>3, <3>4
  <2> QED
    BY <2>1, <2>2
<1>11. ASSUME NEW n \in 1 .. Len(L), t <= n PROVE x.pos <= L[n].pos
  <2>1. t \in 1 .. n /\ t \in 1 .. Len(L)
    BY <1>2, <1>5, <1>11
  <2>2. x.pos <= L[t].pos /\ L[t].pos <= L[n].pos
    BY <1>2, <1>3, <2>1
  <2> QED
    BY <1>2, <1>3, <2>1, <2>2
<1>12. ASSUME NEW b \in 1 .. Len(K), NEW a \in 1 .. b PROVE K[a].pos <= K[b].pos
  <2>1. a \in 1 .. Len(K)
    BY <1>2, <1>6
  <2>2. CASE b \in 1 .. t - 1
    <3>1. a \in 1 .. t - 1
      BY <1>5, <2>2
    <3> QED
      BY <1>2, <1>6, <2>2, <3>1
  <2>3. CASE b = t
    <3>1. CASE a = t
      BY <1>3, <1>6, <2>3, <3>1
    <3>2. CASE a # t
      <4>1. a \in 1 .. t - 1
        BY <1>5, <2>3, <3>2
      <4> QED
        BY <1>1, <1>3, <1>6, <2>3, <4>1
    <3> QED
      BY <3>1, <3>2
  <2>4. CASE b \in t + 1 .. Len(L) + 1
    <3>1. K[b] = L[b - 1] /\ b - 1 \in 1 .. Len(L) /\ t <= b - 1
      BY <1>2, <1>5, <1>6, <2>4
    <3>2. CASE a \in 1 .. t - 1
      <4>1. K[a] = L[a] /\ a \in 1 .. b - 1
        BY <1>2, <1>5, <1>6, <3>1, <3>2
      <4> QED
        BY <1>2, <3>1, <4>1
    <3>3. CASE a = t
      BY <1>6, <1>11, <3>1, <3>3
    <3>4. CASE a \in t + 1 .. Len(L) + 1
      <4>1. K[a] = L[a - 1] /\ a - 1 \in 1 .. b - 1
        BY <1>2, <1>5, <1>6, <3>1, <3>4
      <4> QED
        BY <1>2, <3>1, <4>1
    <3> QED
      BY <1>7, <2>1, <3>2, <3>3, <3>4
  <2> QED
    BY <1>7, <2>2, <2>3, <2>4
<1>13. Lists(K, N, m)
  BY <1>6, <1>9, <1>10, <1>12 DEF Lists
<1>14. t + 1 \in 1 .. Len(K) + 1 /\ q + 1 \in Nat \ {0} /\ j \in 1 .. m + 1
  BY <1>1, <1>2, <1>5, <1>6
<1>15. ASSUME q + 1 <= Len(P[j][z]), NEW n \in 1 .. (t + 1) - 1 PROVE K[n].pos <= P[j][z][q + 1]
  <2>1. q + 1 \in 1 .. Len(P[j][z]) /\ q \in 1 .. q + 1
    BY <1>3, <1>15
  <2>2. P[j][z][q] <= P[j][z][q + 1] /\ P[j][z][q + 1] \in Nat
    <3> DEFINE s == P[j][z]
    <3>1. Ascends(s)
      BY <1>1 DEF Posts
    <3>2. q + 1 \in 1 .. Len(s) /\ q \in 1 .. q + 1
      BY <2>1
    <3> HIDE DEF s
    <3>3. s \in Seq(Nat) /\ \A b \in 1 .. Len(s) : \A a \in 1 .. b : s[a] <= s[b]
      BY <3>1 DEF Ascends
    <3>4. s[q] <= s[q + 1]
      BY <3>2, <3>3
    <3>5. s[q + 1] \in Nat
      BY <3>2, <3>3
    <3> QED
      BY <3>4, <3>5 DEF s
  <2>3. CASE n = t
    <3>1. K[n].pos = P[j][z][q] /\ P[j][z][q] \in Nat
      BY <1>3, <1>6, <2>3
    <3> HIDE DEF K
    <3> QED
      BY <2>2, <3>1
  <2>4. CASE n # t
    <3>1. n \in 1 .. t - 1
      BY <1>5, <2>4
    <3>2. K[n] = L[n] /\ n \in 1 .. Len(L) /\ L[n].pos \in Nat
      BY <1>2, <1>6, <3>1
    <3>3. L[n].pos <= P[j][z][q]
      BY <1>1, <3>1
    <3>4. P[j][z][q] \in Nat
      BY <1>3
    <3> DEFINE u == L[n].pos
               y == P[j][z][q]
               v == P[j][z][q + 1]
    <3>5. K[n].pos = u /\ u \in Nat /\ y \in Nat /\ v \in Nat /\ u <= y /\ y <= v
      BY <2>2, <3>2, <3>3, <3>4
    <3> HIDE DEF K, u, y, v
    <3>6. K[n].pos <= v
      BY <3>5
    <3> QED
      BY <3>6 DEF v
  <2> QED
    BY <2>3, <2>4
<1>16. ~(j > m)
  BY <1>1
<1>17. Merges(P, z, m, j, K, t + 1, q + 1)
  BY <1>13, <1>14, <1>15, <1>16 DEF Merges, N
<1> QED
  BY <1>17 DEF K, x

\* The next entry starts again at the front of the list.
LEMMA MergeGoesOn ==
  ASSUME NEW m \in Nat, NEW P, Posts(P, m), NEW z \in TextZones,
         NEW j, NEW L, NEW t, NEW q, Merges(P, z, m, j, L, t, q),
         j <= m, q > Len(P[j][z])
  PROVE  Merges(P, z, m, j + 1, L, 1, 1)
<1>1. Lists(L, Merged(P, z, j, q), m) /\ j \in 1 .. m /\ q \in Nat
  BY DEF Merges
<1>2. Merged(P, z, j + 1, 1) = Merged(P, z, j, q)
  BY <1>1, MergedNext
<1>3. Len(L) \in Nat
  BY <1>1, ListFacts
<1>4. 1 \in 1 .. Len(L) + 1 /\ j + 1 \in 1 .. m + 1 /\ 1 \in Nat \ {0} /\ \A n \in 1 .. 1 - 1 : FALSE
  BY <1>1, <1>3
<1> QED
  BY <1>1, <1>2, <1>4 DEF Merges

\* The list has all occurrences when there are no more entries.
LEMMA MergeEnds ==
  ASSUME NEW m \in Nat, NEW P, Posts(P, m), NEW z \in TextZones,
         NEW j, NEW L, NEW t, NEW q, Merges(P, z, m, j, L, t, q), j > m
  PROVE  Lists(L, OccOf(P, z), m)
<1>1. Lists(L, Merged(P, z, j, q), m) /\ j \in Nat
  BY DEF Merges
<1> QED
  BY <1>1, MergedAll

-----------------------------------------------------------------------------
(* The documents and the places of a word, upwards; orders of a sequence.  *)

\* up has the numbers of S up to every number.
Climbs(S, n, up) ==
  up = [m \in 0 .. n |-> IF m = 0 THEN <<>> ELSE IF m \in S THEN Append(up[m - 1], m) ELSE up[m - 1]]

\* Upwards is what its recursion says.
LEMMA UpwardsRecursion ==
  ASSUME NEW S, NEW n \in Nat
  PROVE  \E up : Climbs(S, n, up) /\ Upwards(S, n) = up[n]
<1> DEFINE T == {l \in Nat : \E up : Climbs(S, l, up)}
<1>1. 0 \in T
  <2> DEFINE g == [m \in 0 .. 0 |-> <<>>]
  <2>1. Climbs(S, 0, g)
    BY DEF Climbs
  <2> HIDE DEF g
  <2> QED
    BY <2>1
<1>2. ASSUME NEW l \in Nat, l \in T PROVE l + 1 \in T
  <2>1. PICK f : Climbs(S, l, f)
    BY <1>2
  <2> DEFINE g == [m \in 0 .. l + 1 |-> IF m = 0 THEN <<>> ELSE IF m \in S THEN Append(f[m - 1], m) ELSE f[m - 1]]
  <2>2. \A m \in 0 .. l : g[m] = f[m]
    <3>1. \A m \in 0 .. l : f[m] = IF m = 0 THEN <<>> ELSE IF m \in S THEN Append(f[m - 1], m) ELSE f[m - 1]
      BY <2>1 DEF Climbs
    <3> QED
      BY <3>1
  <2>3. \A m \in 0 .. l + 1 : m # 0 => m - 1 \in 0 .. l
    OBVIOUS
  <2>4. \A m \in 0 .. l + 1 : m # 0 => g[m - 1] = f[m - 1]
    BY <2>2, <2>3
  <2>5. Climbs(S, l + 1, g)
    BY <2>4 DEF Climbs
  <2> HIDE DEF g
  <2> QED
    BY <2>5
<1>3. \E up : Climbs(S, n, up)
  <2>1. Nat \subseteq T
    <3> HIDE DEF T
    <3> QED
      BY <1>1, <1>2, NatSets
  <2> QED
    BY <2>1
<1>4. Climbs(S, n, CHOOSE up : Climbs(S, n, up))
  BY <1>3
<1>5. Upwards(S, n) = (CHOOSE up : Climbs(S, n, up))[n]
  BY DEF Upwards, Climbs
<1> QED
  BY <1>4, <1>5

\* s has the numbers 1 .. n of S in their order.
Upward(S, n, s) ==
  /\ s \in Seq(1 .. n)
  /\ \A a \in 1 .. Len(s) : s[a] \in S
  /\ \A b \in 1 .. Len(s) : \A a \in 1 .. b - 1 : s[a] < s[b]
  /\ \A x \in S : x \in 1 .. n => \E a \in 1 .. Len(s) : s[a] = x

\* The next number is appended or is not in S.
LEMMA UpwardStep ==
  ASSUME NEW S, NEW n \in Nat, NEW s, Upward(S, n, s)
  PROVE  /\ n + 1 \in S => Upward(S, n + 1, Append(s, n + 1))
         /\ n + 1 \notin S => Upward(S, n + 1, s)
<1>1. s \in Seq(1 .. n) /\ Len(s) \in Nat /\ \A a \in 1 .. Len(s) : s[a] \in 1 .. n
  BY DEF Upward
<1>2. \A x \in 1 .. n : x \in 1 .. n + 1 /\ x < n + 1
  OBVIOUS
<1>3. s \in Seq(1 .. n + 1)
  BY <1>1, <1>2
<1>4. \A x \in 1 .. n + 1 : x = n + 1 \/ x \in 1 .. n
  OBVIOUS
<1>5. ASSUME n + 1 \notin S PROVE Upward(S, n + 1, s)
  <2>1. \A x \in S : x \in 1 .. n + 1 => x \in 1 .. n
    BY <1>4, <1>5
  <2> QED
    BY <1>3, <2>1 DEF Upward
<1>6. ASSUME n + 1 \in S PROVE Upward(S, n + 1, Append(s, n + 1))
  <2> DEFINE t == Append(s, n + 1)
  <2>1. /\ t \in Seq(1 .. n + 1) /\ Len(t) = Len(s) + 1 /\ t[Len(s) + 1] = n + 1
        /\ \A a \in 1 .. Len(s) : t[a] = s[a]
    BY <1>1, <1>3
  <2> HIDE DEF t
  <2>2. \A a \in 1 .. Len(t) : a \in 1 .. Len(s) \/ a = Len(s) + 1
    BY <1>1, <2>1
  <2>3. \A a \in 1 .. Len(t) : t[a] \in S
    <3>1. \A a \in 1 .. Len(s) : s[a] \in S
      BY DEF Upward
    <3> QED
      BY <1>6, <2>1, <2>2, <3>1
  <2>4. ASSUME NEW b \in 1 .. Len(t), NEW a \in 1 .. b - 1 PROVE t[a] < t[b]
    <3>1. a \in 1 .. Len(s)
      BY <1>1, <2>1
    <3>2. CASE b \in 1 .. Len(s)
      <4>1. s[a] < s[b]
        BY <3>2 DEF Upward
      <4> QED
        BY <2>1, <3>1, <3>2, <4>1
    <3>3. CASE b = Len(s) + 1
      <4>1. t[b] = n + 1 /\ t[a] = s[a] /\ s[a] \in 1 .. n
        BY <1>1, <2>1, <3>1, <3>3
      <4> QED
        BY <4>1
    <3> QED
      BY <2>2, <3>2, <3>3
  <2>5. ASSUME NEW x \in S, x \in 1 .. n + 1 PROVE \E a \in 1 .. Len(t) : t[a] = x
    <3>1. CASE x = n + 1
      <4>1. Len(s) + 1 \in 1 .. Len(t)
        BY <1>1, <2>1
      <4> QED
        BY <2>1, <3>1, <4>1
    <3>2. CASE x \in 1 .. n
      <4>1. PICK a \in 1 .. Len(s) : s[a] = x
        BY <3>2 DEF Upward
      <4>2. a \in 1 .. Len(t)
        BY <1>1, <2>1
      <4> QED
        BY <2>1, <4>1, <4>2
    <3> QED
      BY <1>4, <2>5, <3>1, <3>2
  <2>6. Upward(S, n + 1, t)
    BY <2>1, <2>3, <2>4, <2>5 DEF Upward
  <2> QED
    BY <2>6 DEF t
<1> QED
  BY <1>5, <1>6

\* Upwards gives the numbers of S in their order.
LEMMA UpwardsFacts ==
  ASSUME NEW S, NEW n \in Nat
  PROVE  Upward(S, n, Upwards(S, n))
<1>1. PICK up : Climbs(S, n, up) /\ Upwards(S, n) = up[n]
  BY UpwardsRecursion
<1>2. \A m \in 0 .. n : up[m] = IF m = 0 THEN <<>> ELSE IF m \in S THEN Append(up[m - 1], m) ELSE up[m - 1]
  BY <1>1 DEF Climbs
<1> DEFINE T == {m \in Nat : m <= n => Upward(S, m, up[m])}
<1>3. 0 \in T
  <2>1. up[0] = <<>>
    BY <1>2
  <2>2. <<>> \in Seq(1 .. 0) /\ Len(<<>>) = 0 /\ \A x : ~(x \in 1 .. 0)
    OBVIOUS
  <2>3. Upward(S, 0, <<>>)
    BY <2>2 DEF Upward
  <2> QED
    BY <2>1, <2>3
<1>4. ASSUME NEW m \in Nat, m \in T PROVE m + 1 \in T
  <2>1. SUFFICES ASSUME m + 1 <= n PROVE Upward(S, m + 1, up[m + 1])
    OBVIOUS
  <2>2. m + 1 \in 0 .. n /\ m + 1 # 0 /\ (m + 1) - 1 = m
    BY <2>1
  <2>3. up[m + 1] = IF m + 1 \in S THEN Append(up[m], m + 1) ELSE up[m]
    BY <1>2, <2>2
  <2>4. Upward(S, m, up[m])
    BY <1>4, <2>1
  <2> QED
    BY <2>3, <2>4, UpwardStep
<1>5. Nat \subseteq T
  <2> HIDE DEF T
  <2> QED
    BY <1>3, <1>4, NatSets
<1> QED
  BY <1>1, <1>5

\* Every order of a sequence has an element of it at every place.
LEMMA OrdersFacts ==
  ASSUME NEW X, NEW s \in Seq(X), NEW t \in Orders(s)
  PROVE  /\ t \in Seq(X) /\ Len(t) = Len(s) /\ Len(s) \in Nat
         /\ \E p : /\ \A n \in 1 .. Len(s) : p[n] \in 1 .. Len(s) /\ t[n] = s[p[n]]
                   /\ \A m \in 1 .. Len(s) : \A n \in 1 .. Len(s) : p[m] = p[n] => m = n
<1>1. PICK p \in SetToSeqs(DOMAIN s) : t = [n \in DOMAIN s |-> s[p[n]]]
  BY DEF Orders
<1>2. DOMAIN s = 1 .. Len(s) /\ Len(s) \in Nat
  OBVIOUS
<1>3. Cardinality(1 .. Len(s)) = Len(s)
  <2>1. 1 \in Int /\ Len(s) \in Int
    BY <1>2
  <2>2. Cardinality(1 .. Len(s)) = IF 1 > Len(s) THEN 0 ELSE Len(s) - 1 + 1
    BY <2>1, FS_Interval
  <2> QED
    BY <1>2, <2>2
<1>4. /\ p \in [1 .. Len(s) -> 1 .. Len(s)]
      /\ \A m \in 1 .. Len(s) : \A n \in 1 .. Len(s) : m # n => p[m] # p[n]
  BY <1>1, <1>2, <1>3 DEF SetToSeqs
<1>5. \A n \in 1 .. Len(s) : p[n] \in 1 .. Len(s) /\ s[p[n]] \in X /\ t[n] = s[p[n]]
  BY <1>1, <1>2, <1>4
<1>6. t \in [1 .. Len(s) -> X]
  BY <1>1, <1>2, <1>5
<1>7. t \in Seq(X) /\ Len(t) = Len(s)
  BY <1>2, <1>6
<1> QED
  BY <1>2, <1>4, <1>5, <1>7


-----------------------------------------------------------------------------
(* The tokens of a query and of a text.                                    *)

\* The first n of the sequences of ss, one behind the other.
Flattens(ss, fl) == fl = [j \in 1 .. Len(ss) |-> IF j = 1 THEN ss[j] ELSE fl[j - 1] \o ss[j]]

\* FlattenSeq is what its recursion says.
LEMMA FlattenRecursion ==
  ASSUME NEW ss, Len(ss) \in Nat \ {0}
  PROVE  \E fl : Flattens(ss, fl) /\ FlattenSeq(ss) = fl[Len(ss)]
<1> DEFINE F(n, fl) == fl = [j \in 1 .. n |-> IF j = 1 THEN ss[j] ELSE fl[j - 1] \o ss[j]]
           S == {n \in Nat : \E fl : F(n, fl)}
<1>1. 0 \in S
  <2> DEFINE g == [j \in 1 .. 0 |-> 0]
  <2>1. F(0, g)
    OBVIOUS
  <2> QED
    BY <2>1
<1>2. ASSUME NEW n \in Nat, n \in S PROVE n + 1 \in S
  <2>1. PICK fl : F(n, fl)
    BY <1>2
  <2> DEFINE g == [j \in 1 .. n + 1 |-> IF j = 1 THEN ss[j] ELSE fl[j - 1] \o ss[j]]
  <2>2. \A j \in 1 .. n : g[j] = fl[j]
    <3>1. \A j \in 1 .. n : fl[j] = IF j = 1 THEN ss[j] ELSE fl[j - 1] \o ss[j]
      BY <2>1
    <3> QED
      BY <3>1
  <2>3. \A j \in 1 .. n + 1 : j # 1 => j - 1 \in 1 .. n
    OBVIOUS
  <2>4. g = [j \in 1 .. n + 1 |-> IF j = 1 THEN ss[j] ELSE g[j - 1] \o ss[j]]
    <3>1. \A j \in 1 .. n + 1 : j # 1 => g[j - 1] = fl[j - 1]
      BY <2>2, <2>3
    <3> QED
      BY <3>1
  <2>5. F(n + 1, g)
    BY <2>4
  <2> HIDE DEF g, F
  <2> QED
    BY <2>5
<1>3. \E fl : Flattens(ss, fl)
  <2>1. Nat \subseteq S
    <3> HIDE DEF S
    <3> QED
      BY <1>1, <1>2, NatSets
  <2> QED
    BY <2>1 DEF Flattens
<1>4. Flattens(ss, CHOOSE fl : Flattens(ss, fl))
  BY <1>3
<1>5. FlattenSeq(ss) = (CHOOSE fl : Flattens(ss, fl))[Len(ss)]
  BY DEF FlattenSeq, Flattens
<1> QED
  BY <1>4, <1>5


\* The parts one behind the other, up to every part.
Appends(X, ss, fl) ==
  /\ fl[1] = ss[1] /\ FlattenSeq(ss) = fl[Len(ss)]
  /\ \A n \in 1 .. Len(ss) : fl[n] \in Seq(X)
  /\ \A n \in 1 .. Len(ss) - 1 : fl[n + 1] = fl[n] \o ss[n + 1]

\* A function that appends part after part has the parts in order.
LEMMA FlattenAppends ==
  ASSUME NEW X, NEW ss \in Seq(Seq(X)), ss # <<>>
  PROVE  \E fl : Appends(X, ss, fl)
<1>1. Len(ss) \in Nat \ {0} /\ \A n \in 1 .. Len(ss) : ss[n] \in Seq(X)
  OBVIOUS
<1>2. PICK fl : Flattens(ss, fl) /\ FlattenSeq(ss) = fl[Len(ss)]
  BY <1>1, FlattenRecursion
<1>3. \A n \in 1 .. Len(ss) : fl[n] = IF n = 1 THEN ss[n] ELSE fl[n - 1] \o ss[n]
  BY <1>2 DEF Flattens
<1>4. fl[1] = ss[1]
  BY <1>1, <1>3
<1>5. ASSUME NEW n \in 1 .. Len(ss) - 1 PROVE fl[n + 1] = fl[n] \o ss[n + 1]
  <2>1. n + 1 \in 1 .. Len(ss) /\ n + 1 # 1 /\ (n + 1) - 1 = n
    BY <1>1
  <2> QED
    BY <1>3, <2>1
<1> DEFINE S == {n \in Nat : n \in 1 .. Len(ss) => fl[n] \in Seq(X)}
<1>6. 0 \in S
  OBVIOUS
<1>7. ASSUME NEW n \in Nat, n \in S PROVE n + 1 \in S
  <2>1. SUFFICES ASSUME n + 1 \in 1 .. Len(ss) PROVE fl[n + 1] \in Seq(X)
    OBVIOUS
  <2>2. CASE n = 0
    BY <1>1, <1>4, <2>2
  <2>3. CASE n # 0
    <3>1. n \in 1 .. Len(ss) - 1 /\ n \in 1 .. Len(ss) /\ ss[n + 1] \in Seq(X)
      BY <1>1, <2>1, <2>3
    <3>2. fl[n] \in Seq(X) /\ fl[n + 1] = fl[n] \o ss[n + 1]
      BY <1>5, <1>7, <3>1
    <3> QED
      BY <3>1, <3>2
  <2> QED
    BY <2>2, <2>3
<1>8. Nat \subseteq S
  <2> HIDE DEF S
  <2> QED
    BY <1>6, <1>7, NatSets
<1>9. \A n \in 1 .. Len(ss) : fl[n] \in Seq(X)
  BY <1>8
<1>10. Appends(X, ss, fl)
  BY <1>2, <1>4, <1>5, <1>9 DEF Appends
<1> QED
  BY <1>10

\* Sequences one behind the other are a sequence.
LEMMA FlattenType ==
  ASSUME NEW X, NEW ss \in Seq(Seq(X))
  PROVE  FlattenSeq(ss) \in Seq(X)
<1>1. CASE ss = <<>>
  <2>1. FlattenSeq(ss) = <<>> /\ <<>> \in Seq(X)
    BY <1>1 DEF FlattenSeq
  <2> QED
    BY <2>1
<1>2. CASE ss # <<>>
  <2>1. PICK fl : Appends(X, ss, fl)
    BY <1>2, FlattenAppends
  <2>2. Len(ss) \in 1 .. Len(ss)
    BY <1>2
  <2> QED
    BY <2>1, <2>2 DEF Appends
<1> QED
  BY <1>1, <1>2

\* What words and tokens there are.
Words == {stem[f] : f \in Forms}

Tokens == {<<w>> : w \in Words}
            \cup {<<last2[l], w>> : l \in Words, w \in Words}
            \cup {<<w, first2[r]>> : r \in Words, w \in Words}

\* Stemming keeps the number of words.
LEMMA StemmedType ==
  ASSUME NEW forms \in Seq(Forms)
  PROVE  stemmed(forms) \in Seq(Words) /\ Len(stemmed(forms)) = Len(forms)
<1>1. DOMAIN forms = 1 .. Len(forms) /\ Len(forms) \in Nat
      /\ \A n \in 1 .. Len(forms) : forms[n] \in Forms
  OBVIOUS
<1>2. \A n \in 1 .. Len(forms) : stem[forms[n]] \in Words
  BY <1>1 DEF Words
<1>3. stemmed(forms) \in [1 .. Len(forms) -> Words]
  BY <1>1, <1>2 DEF stemmed
<1> QED
  BY <1>1, <1>3

\* The bigrams with the word before and the word behind.
LeftOf(s, n) == IF n > 1 THEN <<make_L_bigram(s[n - 1], s[n])>> ELSE <<>>
RightOf(s, n) == IF n < Len(s) THEN <<make_R_bigram(s[n], s[n + 1])>> ELSE <<>>

\* A stopword is its bigrams with its neighbours, any other word is itself.
LEMMA TokensAtSides ==
  ASSUME NEW s \in Seq(Words), NEW n \in 1 .. Len(s)
  PROVE  /\ LeftOf(s, n) \in Seq(Tokens) /\ RightOf(s, n) \in Seq(Tokens) /\ <<<<s[n]>>>> \in Seq(Tokens)
         /\ TokensAt(s, n) = IF s[n] \in stopwords THEN LeftOf(s, n) \o RightOf(s, n) ELSE <<<<s[n]>>>>
<1>1. s[n] \in Words /\ Len(s) \in Nat /\ n \in Nat
  OBVIOUS
<1>2. <<s[n]>> \in Tokens
  BY <1>1 DEF Tokens
<1>3. n > 1 => make_L_bigram(s[n - 1], s[n]) \in Tokens
  <2>1. SUFFICES ASSUME n > 1 PROVE make_L_bigram(s[n - 1], s[n]) \in Tokens
    OBVIOUS
  <2>2. s[n - 1] \in Words
    BY <2>1
  <2> QED
    BY <1>1, <2>2 DEF make_L_bigram, Tokens
<1>4. n < Len(s) => make_R_bigram(s[n], s[n + 1]) \in Tokens
  <2>1. SUFFICES ASSUME n < Len(s) PROVE make_R_bigram(s[n], s[n + 1]) \in Tokens
    OBVIOUS
  <2>2. s[n + 1] \in Words
    BY <1>1, <2>1
  <2> QED
    BY <1>1, <2>2 DEF make_R_bigram, Tokens
<1>5. \A x \in Tokens : <<x>> \in Seq(Tokens)
  OBVIOUS
<1>6. <<>> \in Seq(Tokens)
  OBVIOUS
<1>7. LeftOf(s, n) \in Seq(Tokens) /\ RightOf(s, n) \in Seq(Tokens) /\ <<<<s[n]>>>> \in Seq(Tokens)
  BY <1>2, <1>3, <1>4, <1>5, <1>6 DEF LeftOf, RightOf
<1>8. TokensAt(s, n) = IF s[n] \in stopwords THEN LeftOf(s, n) \o RightOf(s, n) ELSE <<<<s[n]>>>>
  BY DEF TokensAt, LeftOf, RightOf
<1> QED
  BY <1>7, <1>8

\* A word gives tokens.
LEMMA TokensAtType ==
  ASSUME NEW s \in Seq(Words), NEW n \in 1 .. Len(s)
  PROVE  TokensAt(s, n) \in Seq(Tokens)
<1>1. \A a, b \in Seq(Tokens) : a \o b \in Seq(Tokens)
  OBVIOUS
<1> QED
  BY <1>1, TokensAtSides

\* A text gives tokens.
LEMMA BigramsType ==
  ASSUME NEW s \in Seq(Words)
  PROVE  bigram2vec(s) \in Seq(Tokens)
<1> DEFINE ss == [n \in DOMAIN s |-> TokensAt(s, n)]
<1>1. DOMAIN s = 1 .. Len(s) /\ Len(s) \in Nat
  OBVIOUS
<1>2. ss \in [1 .. Len(s) -> Seq(Tokens)]
  BY <1>1, TokensAtType
<1>3. ss \in Seq(Seq(Tokens))
  BY <1>1, <1>2
<1>4. bigram2vec(s) = FlattenSeq(ss)
  BY DEF bigram2vec
<1> HIDE DEF ss
<1> QED
  BY <1>3, <1>4, FlattenType

\* The tokens of a request.
WordsOf(r) == LET words == stemmed(r.query) IN SubSeq(words, 1, Smaller(Len(words), MAX_TOKEN_CNT))
TokensOf(r) == bigram2vec(WordsOf(r))

\* A request gives tokens.
LEMMA TokensFacts ==
  ASSUME NEW r \in Requests
  PROVE  /\ WordsOf(r) \in Seq(Words)
         /\ TokensOf(r) \in Seq(Tokens) /\ Len(TokensOf(r)) \in Nat
         /\ DOMAIN TokensOf(r) = 1 .. Len(TokensOf(r))
<1>1. r.query \in Seq(Forms)
  BY RequestsAssumption
<1> DEFINE ws_ == stemmed(r.query)
           n == Smaller(Len(ws_), MAX_TOKEN_CNT)
<1>2. ws_ \in Seq(Words) /\ Len(ws_) \in Nat
  BY <1>1, StemmedType
<1> HIDE DEF ws_
<1>3. n \in 0 .. Len(ws_)
  BY <1>2, TokenCntAssumption DEF Smaller
<1> HIDE DEF n
<1>4. SubSeq(ws_, 1, n) \in Seq(Words)
  BY <1>2, <1>3
<1>5. WordsOf(r) \in Seq(Words)
  BY <1>4 DEF WordsOf, ws_, n
<1>6. TokensOf(r) \in Seq(Tokens)
  BY <1>5, BigramsType DEF TokensOf
<1> QED
  BY <1>5, <1>6

\* The number of tokens of a request, and the size of its windows.
Cnt(r) == Len(TokensOf(r))
Size(r) == Smaller(Cnt(r), MAX_WINDOW_SIZE)

\* A phrase of the subtitles.
Line == [text : Seq(Chunks), time : Nat]

\* What a collection has of a document.
LEMMA CorpusFacts ==
  ASSUME NEW c \in Corpora
  PROVE  /\ c \in Seq(Document) /\ Len(c) \in Nat /\ DOMAIN c = 1 .. Len(c)
         /\ \A d \in 1 .. Len(c) : /\ c[d].title \in Seq(Forms) /\ c[d].desc \in Seq(Forms)
                                   /\ c[d].lines \in Seq(Line)
                                   /\ c[d].views \in Nat
<1>1. c \in Seq(Document)
  BY CorporaAssumption
<1>2. \A d \in 1 .. Len(c) : c[d] \in Document
  BY <1>1
<1>3. Len(c) \in Nat /\ DOMAIN c = 1 .. Len(c)
  BY <1>1
<1>4. ASSUME NEW x \in Document
      PROVE  /\ x.title \in Seq(Forms) /\ x.desc \in Seq(Forms)
             /\ x.lines \in Seq(Line) /\ x.views \in Nat
  BY <1>4 DEF Document, Line
<1> QED
  BY <1>1, <1>2, <1>3, <1>4

\* A phrase gives word forms.
LEMMA TokenizedType ==
  ASSUME NEW t \in Seq(Chunks)
  PROVE  Tokenized(t) \in Seq(Forms)
<1> DEFINE ss == [n \in DOMAIN t |-> terms[t[n]]]
<1>1. DOMAIN t = 1 .. Len(t) /\ Len(t) \in Nat /\ \A n \in 1 .. Len(t) : t[n] \in Chunks
  OBVIOUS
<1>2. \A n \in 1 .. Len(t) : terms[t[n]] \in Seq(Forms)
  BY <1>1, TermsAssumption
<1>3. ss \in [1 .. Len(t) -> Seq(Forms)]
  BY <1>1, <1>2
<1>4. ss \in Seq(Seq(Forms))
  BY <1>1, <1>3
<1>5. Tokenized(t) = FlattenSeq(ss)
  BY DEF Tokenized
<1> HIDE DEF ss
<1> QED
  BY <1>4, <1>5, FlattenType

\* A zone has a text.
LEMMA TextType ==
  ASSUME corpus \in Corpora, NEW d \in 1 .. Len(corpus), NEW z \in TextZones
  PROVE  Text(d, z) \in Seq(Forms)
<1>1. /\ corpus[d].title \in Seq(Forms) /\ corpus[d].desc \in Seq(Forms)
      /\ corpus[d].lines \in Seq(Line)
  BY CorpusFacts
<1> DEFINE lines == corpus[d].lines
           ss == [n \in DOMAIN lines |-> Tokenized(lines[n].text)]
<1>2. DOMAIN lines = 1 .. Len(lines) /\ Len(lines) \in Nat
      /\ \A n \in 1 .. Len(lines) : Tokenized(lines[n].text) \in Seq(Forms)
  <2>1. lines \in Seq(Line)
    BY <1>1
  <2> HIDE DEF lines
  <2>2. \A n \in 1 .. Len(lines) : lines[n] \in Line
    BY <2>1
  <2>3. \A x \in Line : x.text \in Seq(Chunks)
    BY DEF Line
  <2>4. DOMAIN lines = 1 .. Len(lines) /\ Len(lines) \in Nat
    BY <2>1
  <2> QED
    BY <2>2, <2>3, <2>4, TokenizedType
<1>3. Subtitles(d) = FlattenSeq(ss)
  BY DEF Subtitles
<1> HIDE DEF lines
<1>4. ss \in [1 .. Len(lines) -> Seq(Forms)]
  BY <1>2
<1>5. ss \in Seq(Seq(Forms))
  BY <1>2, <1>4
<1> HIDE DEF ss
<1>6. Subtitles(d) \in Seq(Forms)
  BY <1>3, <1>5, FlattenType
<1> QED
  BY <1>1, <1>6 DEF Text

\* A zone is indexed as tokens.
LEMMA IndexedType ==
  ASSUME corpus \in Corpora, NEW d \in 1 .. Len(corpus), NEW z \in TextZones
  PROVE  Indexed(d, z) \in Seq(Tokens)
BY TextType, StemmedType, BigramsType DEF Indexed

\* The positions of a token ascend.
LEMMA PositionsType ==
  ASSUME NEW s \in Seq(Tokens), NEW token
  PROVE  Ascends(PositionsOf(s, token))
<1> DEFINE S == {m \in DOMAIN s : s[m] = token}
           up == Upwards(S, Len(s))
           p == [n \in DOMAIN up |-> up[n] - 1]
<1>1. Len(s) \in Nat
  OBVIOUS
<1>2. Upward(S, Len(s), up)
  BY <1>1, UpwardsFacts
<1>3. PositionsOf(s, token) = p
  BY DEF PositionsOf
<1> HIDE DEF up, S
<1>4. /\ up \in Seq(1 .. Len(s)) /\ DOMAIN up = 1 .. Len(up) /\ Len(up) \in Nat
      /\ \A b \in 1 .. Len(up) : \A a \in 1 .. b - 1 : up[a] < up[b]
  BY <1>2 DEF Upward
<1>5. \A n \in 1 .. Len(up) : up[n] \in Nat /\ up[n] - 1 \in Nat
  BY <1>1, <1>4
<1>6. p \in [1 .. Len(up) -> Nat]
  BY <1>4, <1>5
<1>7. p \in Seq(Nat) /\ Len(p) = Len(up) /\ \A n \in 1 .. Len(up) : p[n] = up[n] - 1
  BY <1>4, <1>6
<1> HIDE DEF p
<1>8. ASSUME NEW b \in 1 .. Len(p), NEW a \in 1 .. b PROVE p[a] <= p[b]
  <2>1. a \in 1 .. Len(up) /\ b \in 1 .. Len(up)
    BY <1>4, <1>7
  <2>2. CASE a = b
    BY <1>5, <1>7, <2>1, <2>2
  <2>3. CASE a # b
    <3>1. a \in 1 .. b - 1
      BY <1>4, <1>7, <2>3
    <3>2. up[a] < up[b]
      BY <1>4, <2>1, <3>1
    <3> QED
      BY <1>5, <1>7, <2>1, <3>2
  <2> QED
    BY <2>2, <2>3
<1>9. Ascends(p)
  BY <1>7, <1>8 DEF Ascends
<1> QED
  BY <1>3, <1>9

\* The tokens in hand are those of the request.
LEMMA TokensAre == tokens = TokensOf(request) /\ norm_words = WordsOf(request)
BY DEF tokens, norm_words, TokensOf, WordsOf

\* The entries found are postings of the tokens of the request.
LEMMA EntriesType ==
  ASSUME request \in Requests, NEW ix, \A z \in TextZones : ix[z] \in Seq(Tokens)
  PROVE  Posts(Entries(ix), Cnt(request))
<1> DEFINE P == Entries(ix)
           m == Cnt(request)
<1>1. m \in Nat /\ DOMAIN tokens = 1 .. m
  BY TokensFacts, TokensAre DEF Cnt
<1>2. P = [e \in DOMAIN tokens |-> [z \in TextZones |-> PositionsOf(ix[z], tokens[e])]]
  BY DEF Entries
<1> HIDE DEF P, m
<1>3. DOMAIN P = 1 .. m /\ \A e \in 1 .. m : \A z \in TextZones : P[e][z] = PositionsOf(ix[z], tokens[e])
  BY <1>1, <1>2
<1>4. Len(P) = m
  <2>1. P = [e \in 1 .. m |-> P[e]]
    BY <1>2, <1>3
  <2> QED
    BY <1>1, <2>1
<1>5. \A e \in 1 .. m : \A z \in TextZones : Ascends(P[e][z])
  BY <1>3, PositionsType
<1>6. Posts(P, m)
  BY <1>3, <1>4, <1>5 DEF Posts
<1> QED
  BY <1>6 DEF P, m

-----------------------------------------------------------------------------
(* The invariant.                                                          *)

\* The rank of a zone: what its windows are worth together.
RankOf(P, z, size) == SumBy(OccOf(P, z), size, WindowsOf(OccOf(P, z), size))

\* The ranks listed for a document are its own.
Right(ps, size, r) ==
  r.title = 5 * RankOf(ps[r.doc], TITLE, size) /\ r.subs = RankOf(ps[r.doc], SUB, size)

\* What docid_by_rank can have of a collection.
RankItem(c) == [doc : 1 .. Len(c), title : Nat, subs : Nat]

\* What an answer can have of a document.
Answers(r, c) ==
  UNION {{[doc |-> d, snippets |-> s] : s \in get_snippets(r.query, c[d].lines)} : d \in 1 .. Len(c)}

\* What does not change while a query is served.
InvFixed == corpus \in Corpora /\ request \in Requests

\* The ranker works while the listener waits for it.
InvStage ==
  /\ pc \in {"recv", "rank", "answer"}
  /\ rPc \in {"idle", "draft", "crash", "merge", "window", "ranked"}
  /\ pc = "recv" <=> rPc = "idle"
  /\ pc = "answer" => rPc = "ranked"

\* The documents found and kept, none of them twice.
InvDocs ==
  /\ entries_by_docs \in Seq(1 .. Len(corpus)) /\ IsInjective(entries_by_docs)
  /\ entries_by_doc_res \in Seq(1 .. Len(corpus)) /\ IsInjective(entries_by_doc_res)
  /\ \A n \in 1 .. Len(entries_by_doc_res) :
       \E m \in 1 .. Len(entries_by_docs) : entries_by_doc_res[n] = entries_by_docs[m]
  /\ rPc \in {"idle", "draft", "crash"} => entries_by_doc_res = <<>>

\* Found documents have postings of every token.
InvPostings == rPc # "idle" => \A d \in 1 .. Len(corpus) : Posts(postings[d], Cnt(request))

\* The locals of the ranker are where they can be.
InvPlaces ==
  /\ k \in 1 .. Len(entries_by_doc_res) + 1 /\ zone \in {TITLE, SUB}
  /\ i \in 1 .. Cnt(request) + 1 /\ positions \in Seq(Items(Cnt(request)))
  /\ it_list \in 1 .. Len(positions) + 1 /\ entry_pos \in Nat \ {0}
  /\ result \in Nat /\ rank_title \in Nat /\ start_w \in Nat /\ end_w \in Nat

\* While it merges, get_positions_for_zone has merged what it has passed.
InvMerge ==
  rPc = "merge" /\ k <= Len(entries_by_doc_res) =>
    Merges(postings[entries_by_doc_res[k]], zone, Cnt(request), i, positions, it_list, entry_pos)

\* While its window slides, get_rank has counted what it has passed.
InvWindow ==
  rPc = "window" =>
    LET occ == OccOf(postings[entries_by_doc_res[k]], zone)
    IN /\ k <= Len(entries_by_doc_res)
       /\ Lists(positions, occ, Cnt(request))
       /\ Slides(positions, occ, Size(request), start_w, end_w, result)

\* The ranks listed, and that of the title in hand, are right.
InvRanks ==
  /\ docid_by_rank \in Seq(RankItem(corpus))
  /\ \A n \in 1 .. Len(docid_by_rank) : Right(postings, Size(request), docid_by_rank[n])
  /\ rPc \in {"idle", "draft", "crash"} => docid_by_rank = <<>>
  /\ rPc \in {"merge", "window"} /\ zone = SUB =>
       /\ k <= Len(entries_by_doc_res)
       /\ rank_title = 5 * RankOf(postings[entries_by_doc_res[k]], TITLE, Size(request))

\* What has been answered are documents with snippets of theirs.
InvAnswer == answer \in Seq(Answers(request, corpus))

\* The inductive invariant.
IInv == /\ InvFixed /\ InvStage /\ InvDocs /\ InvPostings /\ InvPlaces
        /\ InvMerge /\ InvWindow /\ InvRanks /\ InvAnswer

\* The zones are three.
LEMMA Zones == TITLE \in TextZones /\ SUB \in TextZones /\ TITLE # SUB /\ DESC \in TextZones
BY DEF TITLE, SUB, DESC, TextZones

\* A query with tokens has windows of one position at least.
LEMMA CntType == \A r \in Requests : Cnt(r) \in Nat /\ Size(r) \in Nat /\ (Cnt(r) > 0 => Size(r) > 0)
<1> TAKE r \in Requests
<1>1. Cnt(r) \in Nat
  BY TokensFacts DEF Cnt
<1> QED
  BY <1>1, WindowAssumption DEF Size, Smaller

\* The empty sequence is of any type.
LEMMA EmptySeq == \A S : <<>> \in Seq(S) /\ Len(<<>>) = 0
OBVIOUS

\* The empty sequence has no element twice.
LEMMA EmptyOnce == IsInjective(<<>>) /\ ~(\E n : n \in 1 .. Len(<<>>))
<1>1. DOMAIN <<>> = {}
  <2>1. DOMAIN <<>> = 1 .. Len(<<>>)
    OBVIOUS
  <2> QED
    BY <2>1, EmptySeq
<1>2. IsInjective(<<>>)
  BY <1>1 DEF IsInjective
<1>3. ~(\E n : n \in 1 .. Len(<<>>))
  BY EmptySeq
<1> QED
  BY <1>2, <1>3

\* The document and the zone in hand.
LEMMA InHand ==
  ASSUME IInv, rPc # "idle", k <= Len(entries_by_doc_res)
  PROVE  /\ entries_by_doc_res[k] \in 1 .. Len(corpus) /\ k \in 1 .. Len(entries_by_doc_res)
         /\ Posts(entries, Cnt(request)) /\ zone \in TextZones
         /\ Len(entries) = Cnt(request) /\ window_size = Size(request)
         /\ Cnt(request) \in Nat /\ Size(request) \in Nat /\ Len(entries_by_doc_res) \in Nat /\ k \in Nat
<1>1. /\ entries_by_doc_res \in Seq(1 .. Len(corpus)) /\ k \in 1 .. Len(entries_by_doc_res) + 1
      /\ zone \in {TITLE, SUB}
  BY DEF IInv, InvDocs, InvPlaces
<1>2. k \in 1 .. Len(entries_by_doc_res) /\ Len(entries_by_doc_res) \in Nat
  BY <1>1
<1>3. entries_by_doc_res[k] \in 1 .. Len(corpus)
  BY <1>1, <1>2
<1>4. Posts(entries, Cnt(request))
  BY <1>3 DEF IInv, InvPostings, entries
<1>5. Len(entries) = Cnt(request)
  BY <1>4 DEF Posts
<1>6. window_size = Size(request)
  BY <1>5 DEF window_size, Size
<1>7. request \in Requests
  BY DEF IInv, InvFixed
<1> QED
  BY <1>1, <1>2, <1>3, <1>4, <1>5, <1>6, <1>7, Zones, CntType

\* Occurrences in the terms of this module.
LEMMA OccIs == \A d, z : Occurrences(d, z) = OccOf(postings[d], z)
BY DEF Occurrences, OccOf

\* The reference rank in the terms of this module.
LEMMA RankIs ==
  ASSUME request \in Requests
  PROVE  \A d, z : ReferenceRank(d, z) = RankOf(postings[d], z, Size(request))
<1> TAKE d, z
<1> DEFINE occ == OccOf(postings[d], z)
<1>1. ws = Size(request)
  BY TokensAre DEF ws, Size, Cnt
<1>2. Windows(occ) = WindowsOf(occ, ws)
  BY DEF Windows, WindowsOf
<1>3. Occurrences(d, z) = occ
  BY OccIs
<1> HIDE DEF occ
<1>4. MapThenSumSet(LAMBDA w : Worth(occ, w), Windows(occ)) = SumBy(occ, ws, Windows(occ))
  BY DEF SumBy, Worth, WorthBy, BonusOf, EntriesIn, MapThenSumSet, MapThenFoldSet
<1>5. ReferenceRank(d, z) = SumBy(occ, ws, WindowsOf(occ, ws))
  BY <1>2, <1>3, <1>4 DEF ReferenceRank
<1> QED
  BY <1>1, <1>5 DEF RankOf, occ

\* The invariant holds before the first query.
LEMMA InitInv == Init => IInv
<1> SUFFICES ASSUME Init PROVE IInv
  OBVIOUS
<1>1. /\ corpus \in Corpora /\ request \in Requests /\ pc = "recv" /\ answer = <<>>
      /\ rPc = "idle" /\ entries_by_docs = <<>> /\ entries_by_doc_res = <<>>
      /\ k = 1 /\ zone = TITLE /\ i = 1 /\ positions = <<>> /\ it_list = 1 /\ entry_pos = 1
      /\ start_w = 1 /\ end_w = 1 /\ result = 0 /\ rank_title = 0 /\ docid_by_rank = <<>>
  BY DEF Init
<1>2. Cnt(request) \in Nat
  BY <1>1, CntType
<1>3. InvFixed /\ InvStage
  BY <1>1 DEF InvFixed, InvStage
<1>4. InvDocs
  <2>1. entries_by_docs \in Seq(1 .. Len(corpus)) /\ entries_by_doc_res \in Seq(1 .. Len(corpus))
    BY <1>1, EmptySeq
  <2>2. IsInjective(entries_by_docs) /\ IsInjective(entries_by_doc_res)
    BY <1>1, EmptyOnce
  <2> QED
    BY <1>1, <2>1, <2>2, EmptyOnce DEF InvDocs
<1>5. InvPostings /\ InvMerge /\ InvWindow
  BY <1>1 DEF InvPostings, InvMerge, InvWindow
<1>6. InvPlaces
  <2>1. 1 \in 1 .. Len(<<>>) + 1 /\ 1 \in 1 .. Cnt(request) + 1 /\ 1 \in Nat \ {0}
    BY <1>2, EmptySeq
  <2> QED
    BY <1>1, <2>1, EmptySeq DEF InvPlaces
<1>7. InvRanks
  <2>1. ~(\E n : n \in 1 .. Len(<<>>))
    BY EmptySeq
  <2> QED
    BY <1>1, <2>1, EmptySeq DEF InvRanks
<1>8. InvAnswer
  BY <1>1, EmptySeq DEF InvAnswer
<1> QED
  BY <1>3, <1>4, <1>5, <1>6, <1>7, <1>8 DEF IInv

-----------------------------------------------------------------------------
(* Every step keeps the invariant.                                         *)

\* Numbers in their order are in it once.
LEMMA UpwardOnce ==
  ASSUME NEW S, NEW n \in Nat, NEW s, Upward(S, n, s)
  PROVE  s \in Seq(1 .. n) /\ IsInjective(s)
<1>1. s \in Seq(1 .. n) /\ DOMAIN s = 1 .. Len(s) /\ Len(s) \in Nat /\ \A a \in 1 .. Len(s) : s[a] \in Nat
  BY DEF Upward
<1>2. \A b \in 1 .. Len(s) : \A a \in 1 .. b - 1 : s[a] < s[b]
  BY DEF Upward
<1>3. ASSUME NEW a \in DOMAIN s, NEW b \in DOMAIN s, s[a] = s[b] PROVE a = b
  <2>1. a \in 1 .. Len(s) /\ b \in 1 .. Len(s) /\ s[a] \in Nat
    BY <1>1
  <2>2. ~(a \in 1 .. b - 1)
    BY <1>2, <1>3, <2>1
  <2>3. ~(b \in 1 .. a - 1)
    BY <1>2, <1>3, <2>1
  <2> QED
    BY <2>1, <2>2, <2>3
<1> QED
  BY <1>1, <1>3 DEF IsInjective

\* A search keeps the invariant.
LEMMA SearchKeeps == ASSUME IInv, Search PROVE IInv'
<1> DEFINE ix == [d \in DOMAIN corpus |-> [z \in TextZones |-> Indexed(d, z)]]
           entriesOf == [d \in DOMAIN corpus |-> Entries(ix[d])]
           F == FoundIn(entriesOf)
<1>1. /\ pc = "recv" /\ pc' = "rank" /\ rPc' = "draft"
      /\ entries_by_docs' = Upwards(F, Len(corpus)) /\ postings' = entriesOf
      /\ corpus' = corpus /\ request' = request /\ answer' = answer
      /\ entries_by_doc_res' = entries_by_doc_res /\ k' = k /\ zone' = zone
      /\ i' = i /\ positions' = positions /\ it_list' = it_list /\ entry_pos' = entry_pos
      /\ start_w' = start_w /\ end_w' = end_w /\ result' = result
      /\ rank_title' = rank_title /\ docid_by_rank' = docid_by_rank
  BY DEF Search, mergeVars, windowVars
<1>2. /\ corpus \in Corpora /\ request \in Requests /\ rPc = "idle"
      /\ entries_by_doc_res = <<>> /\ docid_by_rank = <<>>
  BY <1>1 DEF IInv, InvFixed, InvStage, InvDocs, InvRanks
<1>3. InvFixed' /\ InvStage' /\ InvMerge' /\ InvWindow'
  BY <1>1, <1>2 DEF InvFixed, InvStage, InvMerge, InvWindow
<1>4. Len(corpus) \in Nat /\ DOMAIN corpus = 1 .. Len(corpus)
  BY <1>2, CorpusFacts
<1>5. ASSUME NEW d \in 1 .. Len(corpus) PROVE Posts(entriesOf[d], Cnt(request))
  <2>1. \A z \in TextZones : ix[d][z] \in Seq(Tokens)
    BY <1>2, <1>4, IndexedType
  <2>2. entriesOf[d] = Entries(ix[d])
    BY <1>4
  <2> HIDE DEF ix, entriesOf
  <2> QED
    BY <1>2, <2>1, <2>2, EntriesType
<1> HIDE DEF entriesOf, F
<1>6. InvPostings'
  BY <1>1, <1>5 DEF InvPostings
<1>7. InvDocs'
  <2>1. Upwards(F, Len(corpus)) \in Seq(1 .. Len(corpus)) /\ IsInjective(Upwards(F, Len(corpus)))
    BY <1>4, UpwardsFacts, UpwardOnce
  <2>2. <<>> \in Seq(1 .. Len(corpus)) /\ IsInjective(<<>>) /\ ~(\E n : n \in 1 .. Len(<<>>))
    BY EmptySeq, EmptyOnce
  <2> QED
    BY <1>1, <1>2, <2>1, <2>2 DEF InvDocs
<1>8. InvPlaces' /\ InvAnswer'
  BY <1>1 DEF IInv, InvPlaces, InvAnswer
<1>9. InvRanks'
  <2>1. <<>> \in Seq(RankItem(corpus)) /\ ~(\E n : n \in 1 .. Len(<<>>))
    BY EmptySeq, EmptyOnce
  <2> QED
    BY <1>1, <1>2, <2>1 DEF InvRanks
<1> QED
  BY <1>3, <1>6, <1>7, <1>8, <1>9 DEF IInv

\* A division by zero keeps the invariant.
LEMMA CrashKeeps ==
  ASSUME IInv, pc = "rank", DivideByZero, UNCHANGED <<corpus, request, pc, answer>>
  PROVE  IInv'
<1>1. /\ rPc = "draft" /\ rPc' = "crash" /\ corpus' = corpus /\ request' = request /\ pc' = pc /\ answer' = answer
      /\ entries_by_docs' = entries_by_docs /\ postings' = postings
      /\ entries_by_doc_res' = entries_by_doc_res /\ k' = k /\ zone' = zone
      /\ i' = i /\ positions' = positions /\ it_list' = it_list /\ entry_pos' = entry_pos
      /\ start_w' = start_w /\ end_w' = end_w /\ result' = result
      /\ rank_title' = rank_title /\ docid_by_rank' = docid_by_rank
  BY DEF DivideByZero, foundVars, mergeVars, windowVars
<1>2. InvFixed' /\ InvStage' /\ InvMerge' /\ InvWindow'
  BY <1>1 DEF IInv, InvFixed, InvStage, InvMerge, InvWindow
<1>3. InvDocs' /\ InvPostings'
  BY <1>1 DEF IInv, InvDocs, InvPostings
<1>4. InvPlaces' /\ InvAnswer'
  BY <1>1 DEF IInv, InvPlaces, InvAnswer
<1>5. InvRanks'
  BY <1>1 DEF IInv, InvRanks
<1> QED
  BY <1>2, <1>3, <1>4, <1>5 DEF IInv


\* u has elements of s, none of them twice.
Drafted(N, s, u) ==
  /\ u \in Seq(N) /\ IsInjective(u)
  /\ \A n \in 1 .. Len(u) : \E m \in 1 .. Len(s) : u[n] = s[m]

\* What the draft keeps are documents that were found, none of them twice.
LEMMA DraftFacts ==
  ASSUME NEW N, NEW s \in Seq(N), IsInjective(s), NEW t \in Orders(s), NEW c \in Nat
  PROVE  Drafted(N, s, SubSeq(t, 1, Smaller(Len(t), c)))
<1>1. t \in Seq(N) /\ Len(t) = Len(s) /\ Len(s) \in Nat /\ DOMAIN s = 1 .. Len(s)
  BY OrdersFacts
<1>2. PICK p : /\ \A n \in 1 .. Len(s) : p[n] \in 1 .. Len(s) /\ t[n] = s[p[n]]
               /\ \A m \in 1 .. Len(s) : \A n \in 1 .. Len(s) : p[m] = p[n] => m = n
  BY OrdersFacts
<1> DEFINE l == Smaller(Len(t), c)
           u == SubSeq(t, 1, l)
<1>3. l \in 0 .. Len(s)
  BY <1>1 DEF Smaller
<1> HIDE DEF l
<1>4. u \in Seq(N) /\ Len(u) = l /\ DOMAIN u = 1 .. l /\ \A n \in 1 .. l : u[n] = t[n] /\ n \in 1 .. Len(s)
  BY <1>1, <1>3
<1> HIDE DEF u
<1>5. \A n \in 1 .. l : \E m \in 1 .. Len(s) : u[n] = s[m]
  BY <1>2, <1>4
<1>6. ASSUME NEW a \in DOMAIN u, NEW b \in DOMAIN u, u[a] = u[b] PROVE a = b
  <2>1. a \in 1 .. Len(s) /\ b \in 1 .. Len(s) /\ s[p[a]] = s[p[b]]
    BY <1>2, <1>4, <1>6
  <2>2. p[a] = p[b]
    BY <1>1, <1>2, <2>1 DEF IsInjective
  <2> QED
    BY <1>2, <2>1, <2>2
<1>7. IsInjective(u)
  BY <1>6 DEF IsInjective
<1>8. Drafted(N, s, u)
  BY <1>4, <1>5, <1>7 DEF Drafted
<1> QED
  BY <1>8 DEF u, l

\* The draft ranking keeps the invariant.
LEMMA DraftKeeps ==
  ASSUME IInv, pc = "rank", DraftRanking, UNCHANGED <<corpus, request, pc, answer>>
  PROVE  IInv'
<1>1. /\ rPc = "draft" /\ rPc' = "merge" /\ corpus' = corpus /\ request' = request /\ pc' = pc /\ answer' = answer
      /\ entries_by_docs' = entries_by_docs /\ postings' = postings
      /\ k' = 1 /\ zone' = TITLE
      /\ i' = 1 /\ positions' = <<>> /\ it_list' = 1 /\ entry_pos' = 1
      /\ start_w' = start_w /\ end_w' = end_w /\ result' = result
      /\ rank_title' = rank_title /\ docid_by_rank' = docid_by_rank
  BY DEF DraftRanking, foundVars, windowVars, FirstEntry
<1>2. \E s \in Orders(entries_by_docs) : entries_by_doc_res' = SubSeq(s, 1, Smaller(Len(s), MAX_DRAFT_DOCS))
  <2>1. PICK idfs \in IdfSums :
          \E s \in Sorted(entries_by_docs, LAMBDA d, e : get_draft_rank(d, idfs) > get_draft_rank(e, idfs)) :
            entries_by_doc_res' = SubSeq(s, 1, Smaller(Len(s), MAX_DRAFT_DOCS))
    BY DEF DraftRanking
  <2>2. PICK s \in Sorted(entries_by_docs, LAMBDA d, e : get_draft_rank(d, idfs) > get_draft_rank(e, idfs)) :
          entries_by_doc_res' = SubSeq(s, 1, Smaller(Len(s), MAX_DRAFT_DOCS))
    BY <2>1
  <2>3. s \in Orders(entries_by_docs)
    BY <2>2 DEF Sorted
  <2> QED
    BY <2>2, <2>3
<1>3. PICK s \in Orders(entries_by_docs) : entries_by_doc_res' = SubSeq(s, 1, Smaller(Len(s), MAX_DRAFT_DOCS))
  BY <1>2
<1>4. /\ corpus \in Corpora /\ request \in Requests /\ docid_by_rank = <<>>
      /\ entries_by_docs \in Seq(1 .. Len(corpus)) /\ IsInjective(entries_by_docs)
      /\ \A d \in 1 .. Len(corpus) : Posts(postings[d], Cnt(request))
  BY <1>1 DEF IInv, InvFixed, InvDocs, InvRanks, InvPostings
<1>5. MAX_DRAFT_DOCS \in Nat
  BY DraftAssumption
<1>6. /\ entries_by_doc_res' \in Seq(1 .. Len(corpus)) /\ IsInjective(entries_by_doc_res')
      /\ \A n \in 1 .. Len(entries_by_doc_res') :
           \E m \in 1 .. Len(entries_by_docs) : entries_by_doc_res'[n] = entries_by_docs[m]
  <2> DEFINE N == 1 .. Len(corpus)
             u == SubSeq(s, 1, Smaller(Len(s), MAX_DRAFT_DOCS))
  <2>1. entries_by_docs \in Seq(N)
    BY <1>4
  <2> HIDE DEF N
  <2>2. /\ u \in Seq(N) /\ IsInjective(u)
        /\ \A n \in 1 .. Len(u) : \E m \in 1 .. Len(entries_by_docs) : u[n] = entries_by_docs[m]
    <3> DEFINE g == entries_by_docs
               c == MAX_DRAFT_DOCS
    <3>1. g \in Seq(N) /\ IsInjective(g) /\ s \in Orders(g) /\ c \in Nat
      BY <1>3, <1>4, <1>5, <2>1
    <3> HIDE DEF g, c
    <3>2. Drafted(N, g, SubSeq(s, 1, Smaller(Len(s), c)))
      BY <3>1, DraftFacts
    <3> QED
      BY <3>2 DEF Drafted, g, c
  <2>3. entries_by_doc_res' = u
    BY <1>3
  <2> HIDE DEF u
  <2> QED
    BY <2>2, <2>3 DEF N
<1>7. InvFixed' /\ InvStage' /\ InvWindow' /\ InvPostings' /\ InvDocs' /\ InvAnswer'
  <2>1. InvFixed' /\ InvStage' /\ InvWindow'
    BY <1>1 DEF IInv, InvFixed, InvStage, InvWindow
  <2>2. InvDocs'
    BY <1>1, <1>4, <1>6 DEF InvDocs
  <2>3. InvPostings' /\ InvAnswer'
    BY <1>1, <1>4 DEF IInv, InvPostings, InvAnswer
  <2> QED
    BY <2>1, <2>2, <2>3
<1>8. InvPlaces'
  <2>1. Len(entries_by_doc_res') \in Nat /\ Cnt(request) \in Nat
    BY <1>4, <1>6, CntType
  <2>2. 1 \in 1 .. Len(entries_by_doc_res') + 1 /\ 1 \in 1 .. Cnt(request) + 1 /\ 1 \in 1 .. Len(<<>>) + 1
        /\ 1 \in Nat \ {0} /\ <<>> \in Seq(Items(Cnt(request)))
    BY <2>1, EmptySeq
  <2>3. result \in Nat /\ rank_title \in Nat /\ start_w \in Nat /\ end_w \in Nat
    BY DEF IInv, InvPlaces
  <2> QED
    BY <1>1, <2>2, <2>3 DEF InvPlaces
<1>9. InvMerge'
  <2> SUFFICES ASSUME 1 <= Len(entries_by_doc_res')
               PROVE  Merges(postings[entries_by_doc_res'[1]], TITLE, Cnt(request), 1, <<>>, 1, 1)
    BY <1>1 DEF InvMerge
  <2>1. entries_by_doc_res'[1] \in 1 .. Len(corpus)
    <3>1. 1 \in 1 .. Len(entries_by_doc_res')
      BY <1>6
    <3> QED
      BY <1>6, <3>1
  <2>2. Posts(postings[entries_by_doc_res'[1]], Cnt(request)) /\ Cnt(request) \in Nat
    BY <1>4, <2>1, CntType
  <2> QED
    BY <2>2, Zones, MergeBegin
<1>10. InvRanks'
  <2>1. <<>> \in Seq(RankItem(corpus)) /\ ~(\E n : n \in 1 .. Len(<<>>))
    BY EmptySeq, EmptyOnce
  <2> QED
    BY <1>1, <1>4, <2>1, Zones DEF InvRanks
<1> QED
  BY <1>7, <1>8, <1>9, <1>10 DEF IInv

\* What no step over positions changes.
Still == UNCHANGED <<corpus, request, pc, answer, foundVars, entries_by_doc_res, k, zone, rank_title, docid_by_rank>>

\* The same, one by one.
LEMMA StillFacts ==
  ASSUME Still
  PROVE  /\ corpus' = corpus /\ request' = request /\ pc' = pc /\ answer' = answer
         /\ entries_by_docs' = entries_by_docs /\ postings' = postings
         /\ entries_by_doc_res' = entries_by_doc_res /\ k' = k /\ zone' = zone
         /\ rank_title' = rank_title /\ docid_by_rank' = docid_by_rank
BY DEF Still, foundVars

\* A step of get_positions_for_zone keeps the invariant when it keeps its part.
LEMMA MergeStepKeeps ==
  ASSUME IInv, rPc = "merge", rPc' = "merge", k <= Len(entries_by_doc_res), Still, UNCHANGED windowVars,
         Merges(entries, zone, Cnt(request), i', positions', it_list', entry_pos')
  PROVE  IInv'
<1>1. /\ corpus' = corpus /\ request' = request /\ pc' = pc /\ answer' = answer
      /\ entries_by_docs' = entries_by_docs /\ postings' = postings
      /\ entries_by_doc_res' = entries_by_doc_res /\ k' = k /\ zone' = zone
      /\ rank_title' = rank_title /\ docid_by_rank' = docid_by_rank
      /\ start_w' = start_w /\ end_w' = end_w /\ result' = result
  BY StillFacts DEF windowVars
<1>2. InvFixed' /\ InvStage' /\ InvWindow'
  BY <1>1 DEF IInv, InvFixed, InvStage, InvWindow
<1>3. InvDocs' /\ InvPostings' /\ InvAnswer'
  BY <1>1 DEF IInv, InvDocs, InvPostings, InvAnswer
<1>4. InvPlaces'
  <2>1. /\ positions' \in Seq(Items(Cnt(request))) /\ it_list' \in 1 .. Len(positions') + 1
        /\ i' \in 1 .. Cnt(request) + 1 /\ entry_pos' \in Nat \ {0}
    BY DEF Merges, Lists
  <2> QED
    BY <1>1, <2>1 DEF IInv, InvPlaces
<1>5. InvMerge'
  BY <1>1 DEF InvMerge, entries
<1>6. InvRanks'
  BY <1>1 DEF IInv, InvRanks
<1> QED
  BY <1>2, <1>3, <1>4, <1>5, <1>6 DEF IInv

\* A step of get_rank keeps the invariant when it keeps its part.
LEMMA WindowStepKeeps ==
  ASSUME IInv, rPc \in {"merge", "window"}, rPc' = "window", k <= Len(entries_by_doc_res),
         Still, UNCHANGED mergeVars,
         Lists(positions, OccOf(entries, zone), Cnt(request)),
         Slides(positions, OccOf(entries, zone), Size(request), start_w', end_w', result'),
         start_w' \in Nat, end_w' \in Nat, result' \in Nat
  PROVE  IInv'
<1>1. /\ corpus' = corpus /\ request' = request /\ pc' = pc /\ answer' = answer
      /\ entries_by_docs' = entries_by_docs /\ postings' = postings
      /\ entries_by_doc_res' = entries_by_doc_res /\ k' = k /\ zone' = zone
      /\ rank_title' = rank_title /\ docid_by_rank' = docid_by_rank
      /\ i' = i /\ positions' = positions /\ it_list' = it_list /\ entry_pos' = entry_pos
  BY StillFacts DEF mergeVars
<1>2. InvFixed' /\ InvStage' /\ InvMerge'
  BY <1>1 DEF IInv, InvFixed, InvStage, InvMerge
<1>3. InvDocs' /\ InvPostings' /\ InvAnswer'
  BY <1>1 DEF IInv, InvDocs, InvPostings, InvAnswer
<1>4. InvPlaces'
  BY <1>1 DEF IInv, InvPlaces
<1>5. InvWindow'
  BY <1>1 DEF InvWindow, entries
<1>6. InvRanks'
  BY <1>1 DEF IInv, InvRanks
<1> QED
  BY <1>2, <1>3, <1>4, <1>5, <1>6 DEF IInv

\* A smaller position is passed.
LEMMA AdvanceKeeps ==
  ASSUME IInv, pc = "rank", MergeAdvance, UNCHANGED <<corpus, request, pc, answer>>
  PROVE  IInv'
<1>1. /\ rPc = "merge" /\ k <= Len(entries_by_doc_res) /\ i <= Len(entries)
      /\ rPc' = "merge" /\ Still /\ UNCHANGED windowVars
      /\ entry_pos <= Len(entries[i][zone]) /\ it_list <= Len(positions)
      /\ entries[i][zone][entry_pos] > positions[it_list].pos
      /\ it_list' = it_list + 1 /\ i' = i /\ positions' = positions /\ entry_pos' = entry_pos
  BY DEF MergeAdvance, Merging, Ranking, posting, Still
<1>2. /\ Posts(entries, Cnt(request)) /\ zone \in TextZones /\ Len(entries) = Cnt(request) /\ Cnt(request) \in Nat
  BY <1>1, InHand
<1>3. Merges(entries, zone, Cnt(request), i, positions, it_list, entry_pos)
  BY <1>1 DEF IInv, InvMerge, entries
<1>4. Merges(entries, zone, Cnt(request), i, positions, it_list + 1, entry_pos)
  BY <1>1, <1>2, <1>3, MergeSkips
<1> QED
  BY <1>1, <1>4, MergeStepKeeps

\* A position is inserted.
LEMMA InsertKeeps ==
  ASSUME IInv, pc = "rank", MergeInsert, UNCHANGED <<corpus, request, pc, answer>>
  PROVE  IInv'
<1>1. /\ rPc = "merge" /\ k <= Len(entries_by_doc_res) /\ i <= Len(entries)
      /\ rPc' = "merge" /\ Still /\ UNCHANGED windowVars
      /\ entry_pos <= Len(entries[i][zone])
      /\ it_list <= Len(positions) => entries[i][zone][entry_pos] <= positions[it_list].pos
      /\ positions' = InsertAt(positions, it_list, [pos |-> entries[i][zone][entry_pos], entry |-> i])
      /\ it_list' = it_list + 1 /\ i' = i /\ entry_pos' = entry_pos + 1
  BY DEF MergeInsert, Merging, Ranking, posting, Still
<1>2. /\ Posts(entries, Cnt(request)) /\ zone \in TextZones /\ Len(entries) = Cnt(request) /\ Cnt(request) \in Nat
  BY <1>1, InHand
<1>3. Merges(entries, zone, Cnt(request), i, positions, it_list, entry_pos)
  BY <1>1 DEF IInv, InvMerge, entries
<1>4. Merges(entries, zone, Cnt(request), i, InsertAt(positions, it_list, Mine(entries, zone, i, entry_pos)),
             it_list + 1, entry_pos + 1)
  BY <1>1, <1>2, <1>3, MergePuts
<1>5. positions' = InsertAt(positions, it_list, Mine(entries, zone, i, entry_pos))
  BY <1>1 DEF Mine
<1> QED
  BY <1>1, <1>4, <1>5, MergeStepKeeps

\* An entry has been merged.
LEMMA EntryKeeps ==
  ASSUME IInv, pc = "rank", EntryMerged, UNCHANGED <<corpus, request, pc, answer>>
  PROVE  IInv'
<1>1. /\ rPc = "merge" /\ k <= Len(entries_by_doc_res) /\ i <= Len(entries)
      /\ rPc' = "merge" /\ Still /\ UNCHANGED windowVars
      /\ entry_pos > Len(entries[i][zone])
      /\ it_list' = 1 /\ i' = i + 1 /\ entry_pos' = 1 /\ positions' = positions
  BY DEF EntryMerged, Merging, Ranking, posting, Still
<1>2. /\ Posts(entries, Cnt(request)) /\ zone \in TextZones /\ Len(entries) = Cnt(request) /\ Cnt(request) \in Nat
  BY <1>1, InHand
<1>3. Merges(entries, zone, Cnt(request), i, positions, it_list, entry_pos)
  BY <1>1 DEF IInv, InvMerge, entries
<1>4. Merges(entries, zone, Cnt(request), i + 1, positions, 1, 1)
  BY <1>1, <1>2, <1>3, MergeGoesOn
<1> QED
  BY <1>1, <1>4, MergeStepKeeps

\* A list with something in it is of a query with a token.
LEMMA SizeOfList ==
  ASSUME NEW r \in Requests, NEW L, NEW occ, Lists(L, occ, Cnt(r))
  PROVE  Len(L) \in Nat /\ (Len(L) > 0 => Size(r) \in Nat \ {0})
<1>1. Cnt(r) \in Nat /\ Size(r) \in Nat /\ (Cnt(r) > 0 => Size(r) > 0)
  BY CntType
<1>2. Len(L) \in Nat /\ \A n \in 1 .. Len(L) : L[n].entry \in 1 .. Cnt(r)
  BY <1>1, ListFacts
<1>3. Len(L) > 0 => Cnt(r) > 0
  <2>1. SUFFICES ASSUME Len(L) > 0 PROVE Cnt(r) > 0
    OBVIOUS
  <2>2. 1 \in 1 .. Len(L)
    BY <1>2, <2>1
  <2>3. L[1].entry \in 1 .. Cnt(r)
    BY <1>2, <2>2
  <2> QED
    BY <1>1, <2>3
<1> QED
  BY <1>1, <1>2, <1>3

\* A zone has been merged, and its window starts.
LEMMA ZoneKeeps ==
  ASSUME IInv, pc = "rank", ZoneMerged, UNCHANGED <<corpus, request, pc, answer>>
  PROVE  IInv'
<1>1. /\ rPc = "merge" /\ k <= Len(entries_by_doc_res) /\ i > Len(entries)
      /\ rPc' = "window" /\ Still /\ UNCHANGED mergeVars
      /\ start_w' = 1 /\ end_w' = 1 /\ result' = 0
  BY DEF ZoneMerged, Ranking, FirstWindow, Still
<1>2. /\ Posts(entries, Cnt(request)) /\ zone \in TextZones /\ Len(entries) = Cnt(request)
      /\ Cnt(request) \in Nat /\ Size(request) \in Nat
  BY <1>1, InHand
<1>3. Merges(entries, zone, Cnt(request), i, positions, it_list, entry_pos)
  BY <1>1 DEF IInv, InvMerge, entries
<1>4. Lists(positions, OccOf(entries, zone), Cnt(request))
  BY <1>1, <1>2, <1>3, MergeEnds
<1>5. request \in Requests
  BY DEF IInv, InvFixed
<1>6. Len(positions) > 0 => Size(request) > 0
  BY <1>4, <1>5, SizeOfList
<1>7. Slides(positions, OccOf(entries, zone), Size(request), 1, 1, 0)
  BY <1>2, <1>4, <1>6, SlideStart
<1> QED
  BY <1>1, <1>4, <1>7, WindowStepKeeps

\* What the invariant says of the window.
LEMMA WindowInHand ==
  ASSUME IInv, rPc = "window"
  PROVE  /\ k <= Len(entries_by_doc_res)
         /\ Lists(positions, OccOf(entries, zone), Cnt(request))
         /\ Slides(positions, OccOf(entries, zone), Size(request), start_w, end_w, result)
         /\ window_size = Size(request) /\ Size(request) \in Nat /\ Cnt(request) \in Nat
         /\ start_w \in Nat /\ end_w \in Nat /\ result \in Nat
         /\ Len(positions) \in Nat /\ (Len(positions) > 0 => Size(request) \in Nat \ {0})
<1>1. /\ k <= Len(entries_by_doc_res)
      /\ Lists(positions, OccOf(entries, zone), Cnt(request))
      /\ Slides(positions, OccOf(entries, zone), Size(request), start_w, end_w, result)
  BY DEF IInv, InvWindow, entries
<1>2. window_size = Size(request) /\ Size(request) \in Nat /\ Cnt(request) \in Nat
  BY <1>1, InHand
<1>3. start_w \in Nat /\ end_w \in Nat /\ result \in Nat /\ request \in Requests
  BY DEF IInv, InvPlaces, InvFixed
<1>4. Len(positions) \in Nat /\ (Len(positions) > 0 => Size(request) \in Nat \ {0})
  BY <1>1, <1>3, SizeOfList
<1> QED
  BY <1>1, <1>2, <1>3, <1>4

\* A bonus is a number.
LEMMA BonusType ==
  ASSUME NEW m \in Nat, NEW size \in Nat, NEW L, NEW occ, Lists(L, occ, m),
         NEW s \in Nat \ {0}, NEW e \in Nat, e <= Len(L) + 1
  PROVE  Bonus(L, size, s, e) \in Nat
<1> DEFINE E == {L[n].entry : n \in s .. e - 1}
<1>1. Len(L) \in Nat /\ \A n \in 1 .. Len(L) : L[n].entry \in 1 .. m
  BY ListFacts
<1>2. \A n \in s .. e - 1 : n \in 1 .. Len(L)
  BY <1>1
<1>3. E \subseteq 1 .. m
  BY <1>1, <1>2
<1> HIDE DEF E
<1>4. IsFiniteSet(1 .. m)
  BY FS_Interval
<1>5. Cardinality(E) \in Nat
  BY <1>3, <1>4, FS_Subset, FS_CardinalityType
<1>6. \A n \in Nat : BonusOf(n, size) \in Nat
  BY DEF BonusOf
<1> QED
  BY <1>5, <1>6 DEF Bonus, E

\* The end of the window moves on.
LEMMA GrowKeeps ==
  ASSUME IInv, pc = "rank", Grow, UNCHANGED <<corpus, request, pc, answer>>
  PROVE  IInv'
<1> DEFINE L == positions
           occ == OccOf(entries, zone)
           size == Size(request)
           b == Bonus(positions, size, start_w, end_w + 1)
<1>1. /\ rPc = "window" /\ rPc' = "window" /\ Still /\ UNCHANGED mergeVars
      /\ end_w <= Len(positions) /\ Fits(start_w, end_w) /\ end_w' = end_w + 1
  BY DEF Grow, Still
<1>2. /\ k <= Len(entries_by_doc_res)
      /\ Lists(L, occ, Cnt(request)) /\ Slides(L, occ, size, start_w, end_w, result)
      /\ window_size = size /\ size \in Nat /\ Cnt(request) \in Nat
      /\ start_w \in Nat /\ end_w \in Nat /\ result \in Nat /\ Len(L) \in Nat
  BY <1>1, WindowInHand
<1>3. \A f, t : Fits(f, t) <=> Near(L, size, f, t)
  BY <1>2 DEF Fits, Near
<1>4. calculate_bonus(start_w, end_w + 1) = b
  BY <1>2 DEF calculate_bonus, Bonus, BonusOf
<1>5. b \in Nat
  <2>1. start_w \in Nat \ {0} /\ end_w + 1 \in Nat /\ end_w + 1 <= Len(L) + 1
    BY <1>1, <1>2 DEF Slides
  <2> QED
    BY <1>2, <2>1, BonusType
<1> HIDE DEF occ, size, b
<1>6. /\ end_w + 1 <= Len(L) /\ Near(L, size, start_w, end_w + 1) => Slides(L, occ, size, start_w, end_w + 1, result)
      /\ end_w + 1 <= Len(L) /\ ~Near(L, size, start_w, end_w + 1) =>
           Slides(L, occ, size, start_w + 1, end_w + 1, result + b)
      /\ end_w + 1 > Len(L) => Slides(L, occ, size, start_w, end_w + 1, result + b)
  <2>1. Near(L, size, start_w, end_w)
    BY <1>1, <1>3
  <2> QED
    BY <1>1, <1>2, <2>1, SlideGrow DEF b
<1>7. \/ /\ end_w + 1 <= Len(L) /\ Near(L, size, start_w, end_w + 1)
         /\ start_w' = start_w /\ result' = result
      \/ /\ end_w + 1 <= Len(L) /\ ~Near(L, size, start_w, end_w + 1)
         /\ result' = result + b /\ start_w' = start_w + 1
      \/ /\ end_w + 1 > Len(L) /\ result' = result + b /\ start_w' = start_w
  BY <1>1, <1>3, <1>4 DEF Grow
<1>8. Slides(L, occ, size, start_w', end_w', result')
  BY <1>1, <1>6, <1>7
<1>9. start_w' \in Nat /\ end_w' \in Nat /\ result' \in Nat
  BY <1>1, <1>2, <1>5, <1>7
<1> QED
  BY <1>1, <1>2, <1>8, <1>9, WindowStepKeeps DEF occ, size

\* The start of the window moves on.
LEMMA ShrinkKeeps ==
  ASSUME IInv, pc = "rank", Shrink, UNCHANGED <<corpus, request, pc, answer>>
  PROVE  IInv'
<1>1. /\ rPc = "window" /\ rPc' = "window" /\ Still /\ UNCHANGED mergeVars
      /\ end_w <= Len(positions) /\ ~Fits(start_w, end_w)
      /\ start_w' = start_w + 1 /\ end_w' = end_w /\ result' = result
  BY DEF Shrink, Still
<1>2. /\ k <= Len(entries_by_doc_res)
      /\ Lists(positions, OccOf(entries, zone), Cnt(request))
      /\ Slides(positions, OccOf(entries, zone), Size(request), start_w, end_w, result)
      /\ window_size = Size(request) /\ Cnt(request) \in Nat
      /\ start_w \in Nat /\ end_w \in Nat /\ result \in Nat
      /\ Len(positions) \in Nat /\ (Len(positions) > 0 => Size(request) \in Nat \ {0})
  BY <1>1, WindowInHand
<1>3. ~Near(positions, Size(request), start_w, end_w)
  BY <1>1, <1>2 DEF Fits, Near
<1>4. Size(request) \in Nat \ {0}
  <2>1. end_w >= 1
    BY <1>2 DEF Slides
  <2> QED
    BY <1>1, <1>2, <2>1
<1>5. Slides(positions, OccOf(entries, zone), Size(request), start_w + 1, end_w, result)
  BY <1>1, <1>2, <1>3, <1>4, SlideShrink
<1> QED
  BY <1>1, <1>2, <1>5, WindowStepKeeps

\* The merge of any document and zone can start.
LEMMA MergeStarts ==
  ASSUME InvFixed, InvPostings, InvDocs, rPc # "idle",
         NEW n \in 1 .. Len(entries_by_doc_res), NEW z \in TextZones
  PROVE  Merges(postings[entries_by_doc_res[n]], z, Cnt(request), 1, <<>>, 1, 1)
<1>1. entries_by_doc_res[n] \in 1 .. Len(corpus)
  BY DEF InvDocs
<1>2. Posts(postings[entries_by_doc_res[n]], Cnt(request)) /\ Cnt(request) \in Nat
  BY <1>1, CntType DEF InvPostings, InvFixed
<1> QED
  BY <1>2, MergeBegin

\* What appending does to a sequence.
LEMMA AppendFacts ==
  ASSUME NEW S, NEW s \in Seq(S), NEW x \in S
  PROVE  /\ Append(s, x) \in Seq(S) /\ Len(Append(s, x)) = Len(s) + 1 /\ Len(s) \in Nat
         /\ Append(s, x)[Len(s) + 1] = x /\ \A n \in 1 .. Len(s) : Append(s, x)[n] = s[n]
OBVIOUS

\* A zone has its rank, which is that of all of its windows.
LEMMA ZoneRankedKeeps ==
  ASSUME IInv, pc = "rank", ZoneRanked, UNCHANGED <<corpus, request, pc, answer>>
  PROVE  IInv'
<1> DEFINE d == entries_by_doc_res[k]
           size == Size(request)
<1>1. /\ rPc = "window" /\ rPc' = "merge" /\ end_w > Len(positions)
      /\ corpus' = corpus /\ request' = request /\ pc' = pc /\ answer' = answer
      /\ entries_by_docs' = entries_by_docs /\ postings' = postings /\ entries_by_doc_res' = entries_by_doc_res
      /\ i' = 1 /\ positions' = <<>> /\ it_list' = 1 /\ entry_pos' = 1
      /\ start_w' = start_w /\ end_w' = end_w /\ result' = result
      /\ \/ /\ zone = TITLE /\ zone' = SUB /\ rank_title' = 5 * result
            /\ k' = k /\ docid_by_rank' = docid_by_rank
         \/ /\ zone = SUB /\ zone' = TITLE /\ k' = k + 1 /\ rank_title' = rank_title
            /\ docid_by_rank' = Append(docid_by_rank, [doc |-> d, title |-> rank_title, subs |-> result])
  BY DEF ZoneRanked, foundVars, windowVars, FirstEntry
<1>2. /\ k <= Len(entries_by_doc_res) /\ result \in Nat
      /\ Slides(positions, OccOf(entries, zone), size, start_w, end_w, result)
      /\ size \in Nat /\ Cnt(request) \in Nat /\ Len(positions) \in Nat /\ end_w \in Nat
  BY <1>1, WindowInHand
<1>3. /\ d \in 1 .. Len(corpus) /\ k \in 1 .. Len(entries_by_doc_res) /\ Len(entries_by_doc_res) \in Nat /\ k \in Nat
  BY <1>1, <1>2, InHand
<1>4. result = RankOf(postings[d], zone, size)
  <2>1. result = SumBy(OccOf(entries, zone), size, WindowsOf(OccOf(entries, zone), size))
    BY <1>1, <1>2 DEF Slides
  <2> QED
    BY <2>1 DEF RankOf, entries
<1>5. /\ docid_by_rank \in Seq(RankItem(corpus))
      /\ \A n \in 1 .. Len(docid_by_rank) : Right(postings, size, docid_by_rank[n])
      /\ zone = SUB => rank_title = 5 * RankOf(postings[d], TITLE, size)
      /\ rank_title \in Nat /\ zone \in {TITLE, SUB}
  BY <1>1 DEF IInv, InvRanks, InvPlaces
<1>6. InvFixed' /\ InvStage' /\ InvWindow'
  BY <1>1 DEF IInv, InvFixed, InvStage, InvWindow
<1>7. InvDocs' /\ InvPostings' /\ InvAnswer'
  BY <1>1 DEF IInv, InvDocs, InvPostings, InvAnswer
<1>8. k' \in 1 .. Len(entries_by_doc_res) + 1 /\ zone' \in {TITLE, SUB} /\ rank_title' \in Nat
  BY <1>1, <1>2, <1>3, <1>5, SMTT(30)
<1>9. InvPlaces'
  <2>1. 1 \in 1 .. Cnt(request) + 1 /\ 1 \in 1 .. Len(<<>>) + 1
        /\ 1 \in Nat \ {0} /\ <<>> \in Seq(Items(Cnt(request)))
    BY <1>2, EmptySeq
  <2>2. start_w \in Nat
    BY DEF IInv, InvPlaces
  <2> QED
    BY <1>1, <1>2, <1>8, <2>1, <2>2 DEF InvPlaces
<1>10. InvMerge'
  <2> SUFFICES ASSUME k' <= Len(entries_by_doc_res)
               PROVE  Merges(postings[entries_by_doc_res[k']], zone', Cnt(request), 1, <<>>, 1, 1)
    BY <1>1 DEF InvMerge
  <2>1. k' \in 1 .. Len(entries_by_doc_res) /\ zone' \in TextZones
    BY <1>3, <1>8, Zones
  <2>2. InvFixed /\ InvPostings /\ InvDocs /\ rPc # "idle"
    BY <1>1 DEF IInv
  <2> QED
    BY <2>1, <2>2, MergeStarts
<1>11. InvRanks'
  <2>1. CASE zone = TITLE
    <3>1. /\ zone' = SUB /\ rank_title' = 5 * result /\ k' = k /\ docid_by_rank' = docid_by_rank
      BY <1>1, <2>1, Zones
    <3>2. rank_title' = 5 * RankOf(postings[d], TITLE, size)
      BY <1>4, <2>1, <3>1
    <3> QED
      BY <1>1, <1>2, <1>5, <3>1, <3>2 DEF InvRanks
  <2>2. CASE zone = SUB
    <3> DEFINE x == [doc |-> d, title |-> rank_title, subs |-> result]
    <3>1. zone' = TITLE /\ docid_by_rank' = Append(docid_by_rank, x)
      BY <1>1, <2>2, Zones
    <3>2. x \in RankItem(corpus)
      BY <1>2, <1>3, <1>5 DEF RankItem
    <3>3. Right(postings, size, x)
      BY <1>4, <1>5, <2>2 DEF Right
    <3> HIDE DEF x
    <3>4. /\ docid_by_rank' \in Seq(RankItem(corpus)) /\ Len(docid_by_rank') = Len(docid_by_rank) + 1
          /\ Len(docid_by_rank) \in Nat /\ docid_by_rank'[Len(docid_by_rank) + 1] = x
          /\ \A n \in 1 .. Len(docid_by_rank) : docid_by_rank'[n] = docid_by_rank[n]
      BY <1>5, <3>1, <3>2, AppendFacts
    <3>5. ASSUME NEW n \in 1 .. Len(docid_by_rank') PROVE Right(postings, size, docid_by_rank'[n])
      <4>1. n \in 1 .. Len(docid_by_rank) \/ n = Len(docid_by_rank) + 1
        BY <3>4
      <4> QED
        BY <1>5, <3>3, <3>4, <4>1
    <3> HIDE DEF size
    <3> QED
      BY <1>1, <3>1, <3>4, <3>5, Zones DEF InvRanks, size
  <2> QED
    BY <1>5, <2>1, <2>2
<1> QED
  BY <1>6, <1>7, <1>9, <1>10, <1>11 DEF IInv

\* A sequence in another order has the elements it had.
LEMMA OrdersKeep ==
  ASSUME NEW X, NEW s \in Seq(X), NEW t \in Orders(s)
  PROVE  t \in Seq(X) /\ \A n \in 1 .. Len(t) : \E m \in 1 .. Len(s) : t[n] = s[m]
BY OrdersFacts

\* The last sort keeps the ranks.
LEMMA SortKeeps ==
  ASSUME IInv, pc = "rank", SortByRank, UNCHANGED <<corpus, request, pc, answer>>
  PROVE  IInv'
<1>1. /\ rPc = "merge" /\ rPc' = "ranked"
      /\ corpus' = corpus /\ request' = request /\ pc' = pc /\ answer' = answer
      /\ entries_by_docs' = entries_by_docs /\ postings' = postings /\ entries_by_doc_res' = entries_by_doc_res
      /\ k' = k /\ zone' = zone
      /\ i' = i /\ positions' = positions /\ it_list' = it_list /\ entry_pos' = entry_pos
      /\ start_w' = start_w /\ end_w' = end_w /\ result' = result /\ rank_title' = rank_title
  BY DEF SortByRank, foundVars, mergeVars, windowVars
<1>2. docid_by_rank' = docid_by_rank \/ docid_by_rank' \in Orders(docid_by_rank)
  BY DEF SortByRank, Sorted
<1>3. InvFixed' /\ InvStage' /\ InvWindow' /\ InvMerge'
  BY <1>1 DEF IInv, InvFixed, InvStage, InvWindow, InvMerge
<1>4. InvDocs' /\ InvPostings' /\ InvAnswer'
  BY <1>1 DEF IInv, InvDocs, InvPostings, InvAnswer
<1>5. InvPlaces'
  BY <1>1 DEF IInv, InvPlaces
<1>6. InvRanks'
  <2>1. /\ docid_by_rank \in Seq(RankItem(corpus))
        /\ \A n \in 1 .. Len(docid_by_rank) : Right(postings, Size(request), docid_by_rank[n])
    BY DEF IInv, InvRanks
  <2>2. /\ docid_by_rank' \in Seq(RankItem(corpus))
        /\ \A n \in 1 .. Len(docid_by_rank') : \E m \in 1 .. Len(docid_by_rank) : docid_by_rank'[n] = docid_by_rank[m]
    BY <1>2, <2>1, OrdersKeep
  <2>3. \A n \in 1 .. Len(docid_by_rank') : Right(postings, Size(request), docid_by_rank'[n])
    BY <2>1, <2>2
  <2> QED
    BY <1>1, <2>2, <2>3 DEF InvRanks
<1> QED
  BY <1>3, <1>4, <1>5, <1>6 DEF IInv

\* The ranking is handed over.
LEMMA RankedKeeps == ASSUME IInv, Ranked PROVE IInv'
<1>1. /\ rPc = "ranked" /\ rPc' = rPc /\ pc = "rank" /\ pc' = "answer"
      /\ corpus' = corpus /\ request' = request /\ answer' = answer
      /\ entries_by_docs' = entries_by_docs /\ postings' = postings /\ entries_by_doc_res' = entries_by_doc_res
      /\ k' = k /\ zone' = zone
      /\ i' = i /\ positions' = positions /\ it_list' = it_list /\ entry_pos' = entry_pos
      /\ start_w' = start_w /\ end_w' = end_w /\ result' = result /\ rank_title' = rank_title
      /\ docid_by_rank' = docid_by_rank
  BY DEF Ranked, rankVars, foundVars, mergeVars, windowVars
<1>2. InvFixed' /\ InvStage' /\ InvWindow' /\ InvMerge'
  BY <1>1 DEF IInv, InvFixed, InvStage, InvWindow, InvMerge
<1>3. InvDocs' /\ InvPostings' /\ InvAnswer'
  BY <1>1 DEF IInv, InvDocs, InvPostings, InvAnswer
<1>4. InvPlaces' /\ InvRanks'
  BY <1>1 DEF IInv, InvPlaces, InvRanks
<1> QED
  BY <1>2, <1>3, <1>4 DEF IInv

\* A document with snippets of its own can be answered.
LEMMA AnswersHave ==
  ASSUME NEW r, NEW c, NEW d \in 1 .. Len(c), NEW s \in get_snippets(r.query, c[d].lines)
  PROVE  [doc |-> d, snippets |-> s] \in Answers(r, c)
<1> DEFINE S(j) == {[doc |-> j, snippets |-> t] : t \in get_snippets(r.query, c[j].lines)}
<1>1. [doc |-> d, snippets |-> s] \in S(d)
  OBVIOUS
<1>2. Answers(r, c) = UNION {S(j) : j \in 1 .. Len(c)}
  BY DEF Answers
<1> HIDE DEF S
<1> QED
  BY <1>1, <1>2

\* A document is answered.
LEMMA XmlKeeps == ASSUME IInv, MakeXml PROVE IInv'
<1>1. /\ rPc' = rPc /\ pc' = pc
      /\ corpus' = corpus /\ request' = request
      /\ entries_by_docs' = entries_by_docs /\ postings' = postings /\ entries_by_doc_res' = entries_by_doc_res
      /\ k' = k /\ zone' = zone
      /\ i' = i /\ positions' = positions /\ it_list' = it_list /\ entry_pos' = entry_pos
      /\ start_w' = start_w /\ end_w' = end_w /\ result' = result /\ rank_title' = rank_title
      /\ docid_by_rank' = docid_by_rank
  BY DEF MakeXml, rankVars, foundVars, mergeVars, windowVars
<1>2. InvFixed' /\ InvStage' /\ InvWindow' /\ InvMerge'
  BY <1>1 DEF IInv, InvFixed, InvStage, InvWindow, InvMerge
<1>3. InvDocs' /\ InvPostings'
  BY <1>1 DEF IInv, InvDocs, InvPostings
<1>4. InvPlaces' /\ InvRanks'
  BY <1>1 DEF IInv, InvPlaces, InvRanks
<1>5. InvAnswer'
  <2> DEFINE A == Answers(request, corpus)
             n == Next_i
             d == docid_by_rank[n].doc
  <2>1. answer \in Seq(A) /\ docid_by_rank \in Seq(RankItem(corpus)) /\ request \in Requests
    BY DEF IInv, InvAnswer, InvRanks, InvFixed
  <2>2. n \in 1 .. Len(docid_by_rank)
    <3>1. request.startDoc \in Nat /\ Len(answer) \in Nat /\ Len(docid_by_rank) \in Nat
      BY <2>1, RequestsAssumption
    <3>2. ~(Next_i > Len(docid_by_rank))
      BY DEF MakeXml, PageDone
    <3> QED
      BY <3>1, <3>2 DEF Next_i
  <2>3. d \in 1 .. Len(corpus)
    <3> HIDE DEF n
    <3>1. docid_by_rank[n] \in RankItem(corpus)
      BY <2>1, <2>2
    <3> QED
      BY <3>1 DEF RankItem
  <2>4. PICK s \in get_snippets(request.query, corpus[d].lines) : answer' = Append(answer, [doc |-> d, snippets |-> s])
    BY DEF MakeXml
  <2>5. [doc |-> d, snippets |-> s] \in A
    <3> HIDE DEF d, A
    <3>1. s \in get_snippets(request.query, corpus[d].lines)
      BY <2>4 DEF d
    <3>2. [doc |-> d, snippets |-> s] \in Answers(request, corpus)
      BY <2>3, <3>1, AnswersHave
    <3> QED
      BY <3>2 DEF A
  <2>6. answer' \in Seq(A)
    <3> HIDE DEF A, d
    <3> QED
      BY <2>1, <2>4, <2>5, AppendFacts
  <2> QED
    BY <1>1, <2>6 DEF InvAnswer
<1> QED
  BY <1>2, <1>3, <1>4, <1>5 DEF IInv

\* The next query finds nothing of the last one.
LEMMA RecvKeeps == ASSUME IInv, Recv PROVE IInv'
<1>1. /\ rPc' = "idle" /\ pc' = "recv" /\ corpus' = corpus /\ request' \in Requests /\ answer' = <<>>
      /\ entries_by_docs' = <<>> /\ entries_by_doc_res' = <<>>
      /\ k' = 1 /\ zone' = TITLE /\ i' = 1 /\ positions' = <<>> /\ it_list' = 1 /\ entry_pos' = 1
      /\ start_w' = 1 /\ end_w' = 1 /\ result' = 0 /\ rank_title' = 0 /\ docid_by_rank' = <<>>
  BY DEF Recv, Idle
<1>2. Cnt(request') \in Nat
  BY <1>1, CntType
<1>3. InvFixed' /\ InvStage'
  BY <1>1 DEF IInv, InvFixed, InvStage
<1>4. InvDocs'
  <2>1. entries_by_docs' \in Seq(1 .. Len(corpus')) /\ entries_by_doc_res' \in Seq(1 .. Len(corpus'))
    BY <1>1, EmptySeq
  <2>2. IsInjective(entries_by_docs') /\ IsInjective(entries_by_doc_res')
    BY <1>1, EmptyOnce
  <2> QED
    BY <1>1, <2>1, <2>2, EmptyOnce DEF InvDocs
<1>5. InvPostings' /\ InvMerge' /\ InvWindow'
  BY <1>1 DEF InvPostings, InvMerge, InvWindow
<1>6. InvPlaces'
  <2>1. 1 \in 1 .. Len(<<>>) + 1 /\ 1 \in 1 .. Cnt(request') + 1 /\ 1 \in Nat \ {0}
    BY <1>2, EmptySeq
  <2> QED
    BY <1>1, <2>1, EmptySeq DEF InvPlaces
<1>7. InvRanks'
  BY <1>1, EmptySeq, EmptyOnce DEF InvRanks
<1>8. InvAnswer'
  BY <1>1, EmptySeq DEF InvAnswer
<1> QED
  BY <1>3, <1>4, <1>5, <1>6, <1>7, <1>8 DEF IInv

\* A stutter keeps the invariant.
LEMMA NothingKeeps == ASSUME IInv, UNCHANGED vars PROVE IInv'
<1>1. /\ rPc' = rPc /\ pc' = pc
      /\ corpus' = corpus /\ request' = request /\ answer' = answer
      /\ entries_by_docs' = entries_by_docs /\ postings' = postings /\ entries_by_doc_res' = entries_by_doc_res
      /\ k' = k /\ zone' = zone
      /\ i' = i /\ positions' = positions /\ it_list' = it_list /\ entry_pos' = entry_pos
      /\ start_w' = start_w /\ end_w' = end_w /\ result' = result /\ rank_title' = rank_title
      /\ docid_by_rank' = docid_by_rank
  BY DEF vars, rankVars, foundVars, mergeVars, windowVars
<1>2. InvFixed' /\ InvStage' /\ InvWindow' /\ InvMerge'
  BY <1>1 DEF IInv, InvFixed, InvStage, InvWindow, InvMerge
<1>3. InvDocs' /\ InvPostings' /\ InvAnswer'
  BY <1>1 DEF IInv, InvDocs, InvPostings, InvAnswer
<1>4. InvPlaces' /\ InvRanks'
  BY <1>1 DEF IInv, InvPlaces, InvRanks
<1> QED
  BY <1>2, <1>3, <1>4 DEF IInv

\* Every step keeps the invariant.
LEMMA NextKeeps == IInv /\ [Next]_vars => IInv'
<1> SUFFICES ASSUME IInv, [Next]_vars PROVE IInv'
  OBVIOUS
<1>1. CASE Search
  BY <1>1, SearchKeeps
<1>2. CASE RankOn
  <2>1. pc = "rank" /\ Rank /\ UNCHANGED <<corpus, request, pc, answer>>
    BY <1>2 DEF RankOn
  <2> QED
    BY <2>1, CrashKeeps, DraftKeeps, AdvanceKeeps, InsertKeeps, EntryKeeps, ZoneKeeps, GrowKeeps, ShrinkKeeps,
       ZoneRankedKeeps, SortKeeps DEF Rank
<1>3. CASE Ranked
  BY <1>3, RankedKeeps
<1>4. CASE MakeXml
  BY <1>4, XmlKeeps
<1>5. CASE Recv
  BY <1>5, RecvKeeps
<1>6. CASE UNCHANGED vars
  BY <1>6, NothingKeeps
<1> QED
  BY <1>1, <1>2, <1>3, <1>4, <1>5, <1>6 DEF Next

\* The invariant always holds.
LEMMA Invariant == Spec => []IInv
BY InitInv, NextKeeps, PTL DEF Spec

\* The invariant says what the type invariant says.
LEMMA InvTypeOK == IInv => TypeOK
<1> SUFFICES ASSUME IInv PROVE TypeOK
  OBVIOUS
<1>1. corpus \in Corpora /\ request \in Requests /\ pc \in {"recv", "rank", "answer"}
      /\ rPc \in {"idle", "draft", "crash", "merge", "window", "ranked"}
  BY DEF IInv, InvFixed, InvStage
<1>2. DOMAIN corpus = 1 .. Len(corpus) /\ Len(corpus) \in Nat
  BY <1>1, CorpusFacts
<1>3. DOMAIN tokens = 1 .. Cnt(request) /\ Len(tokens) = Cnt(request) /\ Cnt(request) \in Nat
  BY <1>1, TokensFacts, TokensAre DEF Cnt
<1>4. /\ IsInjective(entries_by_docs) /\ Range(entries_by_docs) \subseteq DOMAIN corpus
      /\ IsInjective(entries_by_doc_res) /\ Range(entries_by_doc_res) \subseteq Range(entries_by_docs)
  <2>1. /\ entries_by_docs \in Seq(1 .. Len(corpus)) /\ entries_by_doc_res \in Seq(1 .. Len(corpus))
        /\ IsInjective(entries_by_docs) /\ IsInjective(entries_by_doc_res)
        /\ \A n \in 1 .. Len(entries_by_doc_res) :
             \E m \in 1 .. Len(entries_by_docs) : entries_by_doc_res[n] = entries_by_docs[m]
    BY DEF IInv, InvDocs
  <2>2. DOMAIN entries_by_docs = 1 .. Len(entries_by_docs) /\ DOMAIN entries_by_doc_res = 1 .. Len(entries_by_doc_res)
        /\ \A n \in 1 .. Len(entries_by_docs) : entries_by_docs[n] \in 1 .. Len(corpus)
    BY <2>1
  <2> QED
    BY <1>2, <2>1, <2>2 DEF Range
<1>5. /\ k \in 1 .. Len(entries_by_doc_res) + 1 /\ zone \in {TITLE, SUB}
      /\ i \in 1 .. Len(tokens) + 1
      /\ it_list \in 1 .. Len(positions) + 1 /\ entry_pos \in Nat \ {0}
      /\ result \in Nat /\ rank_title \in Nat
  BY <1>3 DEF IInv, InvPlaces
<1>6. \A n \in DOMAIN positions : positions[n].pos \in Nat /\ positions[n].entry \in DOMAIN tokens
  <2>1. positions \in Seq(Items(Cnt(request)))
    BY DEF IInv, InvPlaces
  <2>2. \A n \in DOMAIN positions : positions[n] \in Items(Cnt(request))
    BY <2>1
  <2>3. \A x \in Items(Cnt(request)) : x.pos \in Nat /\ x.entry \in 1 .. Cnt(request)
    BY DEF Items
  <2> QED
    BY <1>3, <2>2, <2>3
<1>7. rPc = "window" => start_w \in 1 .. end_w /\ end_w \in 1 .. Len(positions) + 1
  BY WindowInHand DEF Slides
<1>8. \A n \in DOMAIN docid_by_rank :
        docid_by_rank[n].doc \in DOMAIN corpus /\ docid_by_rank[n].title \in Nat /\ docid_by_rank[n].subs \in Nat
  <2>1. docid_by_rank \in Seq(RankItem(corpus))
    BY DEF IInv, InvRanks
  <2>2. \A n \in DOMAIN docid_by_rank : docid_by_rank[n] \in RankItem(corpus)
    BY <2>1
  <2>3. \A x \in RankItem(corpus) : x.doc \in 1 .. Len(corpus) /\ x.title \in Nat /\ x.subs \in Nat
    BY DEF RankItem
  <2> QED
    BY <1>2, <2>2, <2>3
<1>9. \A n \in DOMAIN answer : answer[n].doc \in DOMAIN corpus
  <2>1. answer \in Seq(Answers(request, corpus))
    BY DEF IInv, InvAnswer
  <2>2. \A n \in DOMAIN answer : answer[n] \in Answers(request, corpus)
    BY <2>1
  <2>3. \A x \in Answers(request, corpus) : x.doc \in 1 .. Len(corpus)
    BY DEF Answers
  <2> QED
    BY <1>2, <2>2, <2>3
<1> QED
  BY <1>1, <1>4, <1>5, <1>6, <1>7, <1>8, <1>9 DEF TypeOK

\* The invariant says that the ranks are sums.
LEMMA InvWindowsCounted == IInv => WindowsCounted
<1> SUFFICES ASSUME IInv, NEW n \in DOMAIN docid_by_rank
             PROVE  /\ docid_by_rank[n].title = 5 * ReferenceRank(docid_by_rank[n].doc, TITLE)
                    /\ docid_by_rank[n].subs = ReferenceRank(docid_by_rank[n].doc, SUB)
  BY DEF WindowsCounted
<1>1. request \in Requests
  BY DEF IInv, InvFixed
<1>2. DOMAIN docid_by_rank = 1 .. Len(docid_by_rank)
  BY DEF IInv, InvRanks
<1>3. Right(postings, Size(request), docid_by_rank[n])
  BY <1>2 DEF IInv, InvRanks
<1> QED
  BY <1>1, <1>3, RankIs DEF Right


-----------------------------------------------------------------------------
(* A query in a row in a text has its tokens in a row in the text's.       *)

\* a stands in b behind the first p.
Sits(a, b, p) == /\ p \in Nat /\ p + Len(a) <= Len(b)
                 /\ \A j \in 1 .. Len(a) : b[p + j] = a[j]

\* s, and behind it t.
ConcatFacts(s, t) ==
  /\ Len(s) \in Nat /\ Len(t) \in Nat /\ Len(s \o t) = Len(s) + Len(t)
  /\ \A j \in 1 .. Len(s) : (s \o t)[j] = s[j]
  /\ \A j \in 1 .. Len(t) : (s \o t)[Len(s) + j] = t[j]

\* What is where in two sequences, one behind the other.
LEMMA Concat ==
  ASSUME NEW X, NEW s \in Seq(X), NEW t \in Seq(X)
  PROVE  s \o t \in Seq(X) /\ ConcatFacts(s, t)
<1>1. /\ s \o t \in Seq(X) /\ Len(s) \in Nat /\ Len(t) \in Nat /\ Len(s \o t) = Len(s) + Len(t)
      /\ \A j \in 1 .. Len(s) : (s \o t)[j] = s[j]
  OBVIOUS
<1>2. ASSUME NEW j \in 1 .. Len(t) PROVE (s \o t)[Len(s) + j] = t[j]
  OBVIOUS
<1> QED
  BY <1>1, <1>2 DEF ConcatFacts

\* What sits in a sequence sits in a longer one.
LEMMA SitsMore ==
  ASSUME NEW X, NEW a \in Seq(X), NEW b \in Seq(X), NEW e \in Seq(X), NEW p, Sits(a, b, p)
  PROVE  Sits(a, b \o e, p)
<1> DEFINE c == b \o e
<1>1. Len(b) \in Nat /\ Len(e) \in Nat /\ Len(c) = Len(b) + Len(e) /\ \A j \in 1 .. Len(b) : c[j] = b[j]
  BY Concat DEF ConcatFacts
<1>2. Len(a) \in Nat /\ p \in Nat /\ p + Len(a) <= Len(b)
  BY DEF Sits
<1> HIDE DEF c
<1>3. ASSUME NEW j \in 1 .. Len(a) PROVE c[p + j] = a[j]
  <2>1. p + j \in 1 .. Len(b)
    BY <1>1, <1>2
  <2> QED
    BY <1>1, <2>1 DEF Sits
<1>4. Sits(a, c, p)
  BY <1>1, <1>2, <1>3 DEF Sits
<1> QED
  BY <1>4 DEF c

\* At the end.
SitsLast(a, b, p) == Sits(a, b, p) /\ p + Len(a) = Len(b)

\* What comes last sits at the end.
LEMMA SitsBehind ==
  ASSUME NEW X, NEW a \in Seq(X), NEW b \in Seq(X)
  PROVE  SitsLast(a, b \o a, Len(b))
<1> DEFINE c == b \o a
<1>1. /\ Len(b) \in Nat /\ Len(a) \in Nat /\ Len(c) = Len(b) + Len(a)
      /\ \A j \in 1 .. Len(a) : c[Len(b) + j] = a[j]
  BY Concat DEF ConcatFacts
<1> HIDE DEF c
<1>2. SitsLast(a, c, Len(b))
  BY <1>1 DEF Sits, SitsLast
<1> QED
  BY <1>2 DEF c

\* What sits at the end goes on with the same.
LEMMA SitsOn ==
  ASSUME NEW X, NEW a \in Seq(X), NEW b \in Seq(X), NEW p \in Nat, SitsLast(a, b, p),
         NEW c \in Seq(X)
  PROVE  SitsLast(a \o c, b \o c, p)
<1> DEFINE f == a \o c
           g == b \o c
<1>1. /\ Len(a) \in Nat /\ Len(c) \in Nat /\ Len(f) = Len(a) + Len(c)
      /\ \A j \in 1 .. Len(a) : f[j] = a[j]
      /\ \A j \in 1 .. Len(c) : f[Len(a) + j] = c[j]
  BY Concat DEF ConcatFacts
<1>2. /\ Len(b) \in Nat /\ Len(g) = Len(b) + Len(c)
      /\ \A j \in 1 .. Len(b) : g[j] = b[j]
      /\ \A j \in 1 .. Len(c) : g[Len(b) + j] = c[j]
  BY Concat DEF ConcatFacts
<1>3. p \in Nat /\ p + Len(a) = Len(b) /\ \A j \in 1 .. Len(a) : b[p + j] = a[j]
  BY DEF SitsLast, Sits
<1> HIDE DEF f, g
<1> DEFINE la == Len(a)
           lb == Len(b)
           lc == Len(c)
<1>4. la \in Nat /\ lb \in Nat /\ lc \in Nat /\ p + la = lb /\ Len(f) = la + lc /\ Len(g) = lb + lc
  BY <1>1, <1>2, <1>3
<1>5. /\ \A j \in 1 .. la : f[j] = a[j] /\ b[p + j] = a[j]
      /\ \A j \in 1 .. lc : f[la + j] = c[j] /\ g[lb + j] = c[j]
      /\ \A j \in 1 .. lb : g[j] = b[j]
  BY <1>1, <1>2, <1>3
<1> HIDE DEF la, lb, lc
<1>6. ASSUME NEW j \in 1 .. Len(f) PROVE g[p + j] = f[j]
  <2>1. j \in Nat /\ j >= 1 /\ j <= la + lc
    BY <1>4
  <2>2. CASE j <= la
    <3>1. j \in 1 .. la /\ p + j \in 1 .. lb
      BY <1>4, <2>1, <2>2
    <3> QED
      BY <1>5, <3>1
  <2>3. CASE j > la
    <3> DEFINE l == j - la
    <3>1. l \in 1 .. lc /\ j = la + l /\ p + j = lb + l
      BY <1>4, <2>1, <2>3
    <3> HIDE DEF l
    <3> QED
      BY <1>5, <3>1
  <2> QED
    BY <1>4, <2>1, <2>2, <2>3
<1>7. p + Len(f) = Len(g) /\ p + Len(f) <= Len(g)
  BY <1>4
<1>8. SitsLast(f, g, p)
  BY <1>3, <1>6, <1>7 DEF SitsLast, Sits
<1> QED
  BY <1>8 DEF f, g

\* It does not matter which two of three sequences are joined first.
LEMMA ConcatThree ==
  ASSUME NEW X, NEW a \in Seq(X), NEW b \in Seq(X), NEW c \in Seq(X)
  PROVE  (a \o b) \o c = a \o (b \o c)
<1> DEFINE l == (a \o b) \o c
           r == a \o (b \o c)
<1>1. /\ a \o b \in Seq(X) /\ b \o c \in Seq(X)
      /\ Len(a) \in Nat /\ Len(b) \in Nat /\ Len(c) \in Nat
      /\ Len(a \o b) = Len(a) + Len(b) /\ Len(b \o c) = Len(b) + Len(c)
  BY Concat DEF ConcatFacts
<1>2. l \in Seq(X) /\ r \in Seq(X) /\ Len(l) = Len(a) + Len(b) + Len(c) /\ Len(r) = Len(a) + Len(b) + Len(c)
  BY <1>1
<1>3. ASSUME NEW j \in 1 .. Len(a) + Len(b) + Len(c) PROVE l[j] = r[j]
  BY <1>1
<1> HIDE DEF l, r
<1>4. l = r
  BY <1>1, <1>2, <1>3
<1> QED
  BY <1>4 DEF l, r

\* The empty sequence adds nothing.
LEMMA AppendNothing ==
  ASSUME NEW X, NEW s \in Seq(X)
  PROVE  <<>> \o s = s /\ s \o <<>> = s
OBVIOUS

\* The words of q are in a row in s.
Runs(q, s, off) ==
  /\ q \in Seq(Words) /\ s \in Seq(Words)
  /\ off \in Nat /\ off + Len(q) <= Len(s)
  /\ \A n \in 1 .. Len(q) : s[off + n] = q[n]

\* A word of a row has the neighbours it has in the query, unless it is at an end.
LEMMA RunsAt ==
  ASSUME NEW q, NEW s, NEW off, Runs(q, s, off), NEW n \in 1 .. Len(q)
  PROVE  /\ Len(q) \in Nat /\ Len(s) \in Nat /\ off \in Nat /\ n \in Nat
         /\ off + n \in 1 .. Len(s) /\ s[off + n] = q[n] /\ off + Len(q) <= Len(s)
         /\ n > 1 => LeftOf(s, off + n) = LeftOf(q, n)
         /\ n < Len(q) => RightOf(s, off + n) = RightOf(q, n)
<1>1. Len(q) \in Nat /\ Len(s) \in Nat /\ off \in Nat /\ n \in Nat /\ off + n \in 1 .. Len(s) /\ s[off + n] = q[n]
      /\ off + Len(q) <= Len(s)
  BY DEF Runs
<1>2. ASSUME n > 1 PROVE LeftOf(s, off + n) = LeftOf(q, n)
  <2>1. n - 1 \in 1 .. Len(q) /\ off + (n - 1) = (off + n) - 1 /\ off + n > 1
    BY <1>1, <1>2
  <2>2. s[(off + n) - 1] = q[n - 1]
    BY <2>1 DEF Runs
  <2> QED
    BY <1>1, <1>2, <2>1, <2>2 DEF LeftOf
<1>3. ASSUME n < Len(q) PROVE RightOf(s, off + n) = RightOf(q, n)
  <2>1. n + 1 \in 1 .. Len(q) /\ off + (n + 1) = (off + n) + 1 /\ off + n < Len(s)
    BY <1>1, <1>3
  <2>2. s[off + (n + 1)] = q[n + 1]
    BY <2>1 DEF Runs
  <2>3. s[(off + n) + 1] = q[n + 1]
    BY <2>1, <2>2
  <2> QED
    BY <1>1, <1>3, <2>1, <2>3 DEF RightOf
<1> QED
  BY <1>1, <1>2, <1>3

\* A word inside of the row gives the same tokens.
LEMMA RunsInside ==
  ASSUME NEW q, NEW s, NEW off, Runs(q, s, off), NEW n \in 1 .. Len(q), n > 1, n < Len(q)
  PROVE  TokensAt(s, off + n) = TokensAt(q, n)
<1>1. q \in Seq(Words) /\ s \in Seq(Words)
  BY DEF Runs
<1>2. /\ off + n \in 1 .. Len(s) /\ s[off + n] = q[n]
      /\ LeftOf(s, off + n) = LeftOf(q, n) /\ RightOf(s, off + n) = RightOf(q, n)
  BY RunsAt
<1>3. TokensAt(q, n) = IF q[n] \in stopwords THEN LeftOf(q, n) \o RightOf(q, n) ELSE <<<<q[n]>>>>
  BY <1>1, TokensAtSides
<1> DEFINE m == off + n
<1>4. TokensAt(s, m) = IF s[m] \in stopwords THEN LeftOf(s, m) \o RightOf(s, m) ELSE <<<<s[m]>>>>
  BY <1>1, <1>2, TokensAtSides
<1> QED
  BY <1>2, <1>3, <1>4

\* The first word of the row gives the same tokens, and perhaps one before them.
LEMMA RunsFirst ==
  ASSUME NEW q, NEW s, NEW off, Runs(q, s, off), 1 \in 1 .. Len(q),
         Len(q) > 1 \/ TokensAt(q, 1) # <<>>
  PROVE  \E x \in Seq(Tokens) : TokensAt(s, off + 1) = x \o TokensAt(q, 1)
<1>1. q \in Seq(Words) /\ s \in Seq(Words)
  BY DEF Runs
<1>2. /\ Len(q) \in Nat /\ off + 1 \in 1 .. Len(s) /\ s[off + 1] = q[1]
      /\ 1 < Len(q) => RightOf(s, off + 1) = RightOf(q, 1)
  BY RunsAt
<1> DEFINE m == off + 1
<1>3. /\ LeftOf(s, m) \in Seq(Tokens)
      /\ TokensAt(s, m) = IF s[m] \in stopwords THEN LeftOf(s, m) \o RightOf(s, m) ELSE <<<<s[m]>>>>
  BY <1>1, <1>2, TokensAtSides
<1>4. /\ RightOf(q, 1) \in Seq(Tokens) /\ <<<<q[1]>>>> \in Seq(Tokens)
      /\ TokensAt(q, 1) = IF q[1] \in stopwords THEN LeftOf(q, 1) \o RightOf(q, 1) ELSE <<<<q[1]>>>>
  BY <1>1, TokensAtSides
<1>5. LeftOf(q, 1) = <<>>
  BY DEF LeftOf
<1>6. <<>> \o RightOf(q, 1) = RightOf(q, 1) /\ <<>> \o <<<<q[1]>>>> = <<<<q[1]>>>> /\ <<>> \in Seq(Tokens)
  BY <1>4, AppendNothing, EmptySeq
<1> HIDE DEF m
<1>7. CASE q[1] \notin stopwords
  <2>1. TokensAt(s, m) = <<<<q[1]>>>> /\ TokensAt(q, 1) = <<<<q[1]>>>>
    BY <1>2, <1>3, <1>4, <1>7 DEF m
  <2> QED
    BY <1>6, <2>1 DEF m
<1>8. CASE q[1] \in stopwords
  <2>1. TokensAt(q, 1) = RightOf(q, 1)
    BY <1>4, <1>5, <1>6, <1>8
  <2>2. Len(q) > 1
    <3>1. SUFFICES ASSUME ~(Len(q) > 1) PROVE FALSE
      OBVIOUS
    <3>2. RightOf(q, 1) = <<>>
      BY <1>2, <3>1 DEF RightOf
    <3> QED
      BY <2>1, <3>1, <3>2
  <2>3. TokensAt(s, m) = LeftOf(s, m) \o RightOf(q, 1)
    BY <1>2, <1>3, <1>8, <2>2 DEF m
  <2> QED
    BY <1>3, <2>1, <2>3 DEF m
<1> QED
  BY <1>7, <1>8

\* The last word of the row gives the same tokens, and perhaps one behind them.
LEMMA RunsLast ==
  ASSUME NEW q, NEW s, NEW off, Runs(q, s, off), Len(q) > 1, Len(q) \in 1 .. Len(q)
  PROVE  \E y \in Seq(Tokens) : TokensAt(s, off + Len(q)) = TokensAt(q, Len(q)) \o y
<1> DEFINE n == Len(q)
           m == off + n
<1>1. q \in Seq(Words) /\ s \in Seq(Words)
  BY DEF Runs
<1>2. /\ n \in Nat /\ m \in 1 .. Len(s) /\ s[m] = q[n]
      /\ LeftOf(s, m) = LeftOf(q, n)
  BY RunsAt
<1>3. /\ RightOf(s, m) \in Seq(Tokens)
      /\ TokensAt(s, m) = IF s[m] \in stopwords THEN LeftOf(s, m) \o RightOf(s, m) ELSE <<<<s[m]>>>>
  BY <1>1, <1>2, TokensAtSides
<1>4. /\ LeftOf(q, n) \in Seq(Tokens) /\ <<<<q[n]>>>> \in Seq(Tokens)
      /\ TokensAt(q, n) = IF q[n] \in stopwords THEN LeftOf(q, n) \o RightOf(q, n) ELSE <<<<q[n]>>>>
  BY <1>1, TokensAtSides
<1>5. RightOf(q, n) = <<>>
  BY <1>2 DEF RightOf
<1>6. LeftOf(q, n) \o <<>> = LeftOf(q, n) /\ <<<<q[n]>>>> \o <<>> = <<<<q[n]>>>> /\ <<>> \in Seq(Tokens)
  BY <1>4, AppendNothing, EmptySeq
<1>7. CASE q[n] \notin stopwords
  <2>1. TokensAt(s, m) = <<<<q[n]>>>> /\ TokensAt(q, n) = <<<<q[n]>>>>
    BY <1>2, <1>3, <1>4, <1>7
  <2> QED
    BY <1>6, <2>1
<1>8. CASE q[n] \in stopwords
  <2>1. TokensAt(q, n) = LeftOf(q, n)
    BY <1>4, <1>5, <1>6, <1>8
  <2>2. TokensAt(s, m) = LeftOf(q, n) \o RightOf(s, m)
    BY <1>2, <1>3, <1>8
  <2> QED
    BY <1>3, <2>1, <2>2
<1> QED
  BY <1>7, <1>8

\* The tokens of every word.
Parts(s) == [n \in DOMAIN s |-> TokensAt(s, n)]

\* bigram2vec puts the tokens of the words one behind the other.
LEMMA PartsFacts ==
  ASSUME NEW s \in Seq(Words)
  PROVE  /\ Parts(s) \in Seq(Seq(Tokens)) /\ Len(Parts(s)) = Len(s) /\ Len(s) \in Nat
         /\ \A n \in 1 .. Len(s) : Parts(s)[n] = TokensAt(s, n) /\ TokensAt(s, n) \in Seq(Tokens)
         /\ bigram2vec(s) = FlattenSeq(Parts(s))
<1>1. DOMAIN s = 1 .. Len(s) /\ Len(s) \in Nat
  OBVIOUS
<1>2. \A n \in 1 .. Len(s) : TokensAt(s, n) \in Seq(Tokens)
  BY TokensAtType
<1>3. Parts(s) \in [1 .. Len(s) -> Seq(Tokens)]
  BY <1>1, <1>2 DEF Parts
<1>4. Parts(s) \in Seq(Seq(Tokens)) /\ Len(Parts(s)) = Len(s)
  BY <1>1, <1>3
<1>5. \A n \in 1 .. Len(s) : Parts(s)[n] = TokensAt(s, n)
  BY <1>1 DEF Parts
<1>6. bigram2vec(s) = FlattenSeq(Parts(s))
  BY DEF bigram2vec, Parts
<1> QED
  BY <1>1, <1>2, <1>4, <1>5, <1>6

\* fl has the tokens of the first words of s, up to every word.
Grows(s, fl) ==
  /\ fl[1] = TokensAt(s, 1) /\ bigram2vec(s) = fl[Len(s)]
  /\ \A n \in 1 .. Len(s) : fl[n] \in Seq(Tokens)
  /\ \A n \in 1 .. Len(s) - 1 : fl[n + 1] = fl[n] \o TokensAt(s, n + 1)

\* There are tokens up to every word, and all of them are those of the text.
LEMMA GrowsFacts ==
  ASSUME NEW s \in Seq(Words), Len(s) > 0
  PROVE  \E fl : Grows(s, fl)
<1>1. /\ Parts(s) \in Seq(Seq(Tokens)) /\ Len(Parts(s)) = Len(s) /\ Len(s) \in Nat
      /\ \A n \in 1 .. Len(s) : Parts(s)[n] = TokensAt(s, n)
      /\ bigram2vec(s) = FlattenSeq(Parts(s))
  BY PartsFacts
<1>2. Parts(s) # <<>>
  BY <1>1
<1>3. PICK fl : Appends(Tokens, Parts(s), fl)
  BY <1>1, <1>2, FlattenAppends
<1>4. /\ fl[1] = Parts(s)[1] /\ bigram2vec(s) = fl[Len(s)]
      /\ \A n \in 1 .. Len(s) : fl[n] \in Seq(Tokens)
      /\ \A n \in 1 .. Len(s) - 1 : fl[n + 1] = fl[n] \o Parts(s)[n + 1]
  BY <1>1, <1>3 DEF Appends
<1>5. 1 \in 1 .. Len(s) /\ \A n \in 1 .. Len(s) - 1 : n + 1 \in 1 .. Len(s)
  BY <1>1
<1>6. Grows(s, fl)
  BY <1>1, <1>4, <1>5 DEF Grows
<1> QED
  BY <1>6

\* Joining is associative, for tokens.
LEMMA ConcatTokens == \A a, b, c \in Seq(Tokens) : (a \o b) \o c = a \o (b \o c)
<1> TAKE a, b, c \in Seq(Tokens)
<1> QED
  BY ConcatThree

\* Up to the first word of q.
LEMMA FirstSits ==
  ASSUME NEW q, NEW s, NEW off, Runs(q, s, off), Len(q) > 0, Len(q) > 1 \/ TokensAt(q, 1) # <<>>,
         NEW fq, Grows(q, fq), NEW fs, Grows(s, fs)
  PROVE  \E p \in Nat : SitsLast(fq[1], fs[off + 1], p)
<1>1. q \in Seq(Words) /\ s \in Seq(Words) /\ off \in Nat /\ Len(q) \in Nat /\ Len(s) \in Nat
      /\ off + Len(q) <= Len(s)
  BY DEF Runs
<1>2. 1 \in 1 .. Len(q) /\ off + 1 \in 1 .. Len(s)
  BY <1>1
<1>3. PICK x \in Seq(Tokens) : TokensAt(s, off + 1) = x \o TokensAt(q, 1)
  BY <1>2, RunsFirst
<1> DEFINE t == TokensAt(q, 1)
<1>4. t \in Seq(Tokens) /\ fq[1] = t
  BY <1>1, <1>2, TokensAtType DEF Grows
<1> HIDE DEF t
<1>5. \E y \in Seq(Tokens) : fs[off + 1] = y \o t
  <2>1. CASE off = 0
    <3>1. off + 1 = 1
      BY <2>1
    <3>2. fs[off + 1] = x \o t
      BY <1>3, <3>1 DEF Grows, t
    <3> QED
      BY <3>2
  <2>2. CASE off # 0
    <3>1. off \in 1 .. Len(s) - 1 /\ off \in 1 .. Len(s)
      BY <1>1, <1>2, <2>2
    <3>2. fs[off] \in Seq(Tokens) /\ fs[off + 1] = fs[off] \o (x \o t)
      BY <1>3, <3>1 DEF Grows, t
    <3>3. (fs[off] \o x) \o t = fs[off] \o (x \o t)
      BY <1>3, <1>4, <3>2, ConcatTokens, Zenon
    <3>4. fs[off] \o x \in Seq(Tokens)
      BY <1>3, <3>2
    <3> QED
      BY <3>2, <3>3, <3>4
  <2> QED
    BY <2>1, <2>2
<1>6. PICK y \in Seq(Tokens) : fs[off + 1] = y \o t
  BY <1>5
<1>7. SitsLast(t, y \o t, Len(y)) /\ Len(y) \in Nat
  BY <1>4, SitsBehind
<1> QED
  BY <1>4, <1>6, <1>7

\* Up to all but the last word of q.
LEMMA InnerSits ==
  ASSUME NEW q, NEW s, NEW off, Runs(q, s, off), Len(q) > 1,
         NEW fq, Grows(q, fq), NEW fs, Grows(s, fs), NEW p \in Nat, SitsLast(fq[1], fs[off + 1], p)
  PROVE  \A n \in 1 .. Len(q) - 1 : SitsLast(fq[n], fs[off + n], p)
<1>1. q \in Seq(Words) /\ s \in Seq(Words) /\ off \in Nat /\ Len(q) \in Nat /\ Len(s) \in Nat
      /\ off + Len(q) <= Len(s)
  BY DEF Runs
<1> DEFINE S == {n \in Nat : n \in 1 .. Len(q) - 1 => SitsLast(fq[n], fs[off + n], p)}
<1>2. 0 \in S
  OBVIOUS
<1>3. ASSUME NEW n \in Nat, n \in S PROVE n + 1 \in S
  <2>1. SUFFICES ASSUME n + 1 \in 1 .. Len(q) - 1 PROVE SitsLast(fq[n + 1], fs[off + (n + 1)], p)
    OBVIOUS
  <2>2. CASE n = 0
    BY <2>2
  <2>3. CASE n # 0
    <3> DEFINE l == off + n
    <3>1. /\ n \in 1 .. Len(q) - 1 /\ n \in 1 .. Len(q) /\ n + 1 \in 1 .. Len(q) /\ n + 1 > 1 /\ n + 1 < Len(q)
          /\ l \in 1 .. Len(s) - 1 /\ l \in 1 .. Len(s) /\ off + (n + 1) = l + 1
      BY <1>1, <2>1, <2>3
    <3>2. SitsLast(fq[n], fs[l], p)
      BY <1>3, <3>1
    <3>3. TokensAt(s, l + 1) = TokensAt(q, n + 1)
      <4>1. TokensAt(s, off + (n + 1)) = TokensAt(q, n + 1)
        BY <3>1, RunsInside
      <4> QED
        BY <3>1, <4>1
    <3> DEFINE c == TokensAt(q, n + 1)
    <3>4. c \in Seq(Tokens)
      BY <1>1, <3>1, TokensAtType
    <3>5. fq[n] \in Seq(Tokens) /\ fs[l] \in Seq(Tokens) /\ fq[n + 1] = fq[n] \o c /\ fs[l + 1] = fs[l] \o c
      BY <3>1, <3>3 DEF Grows
    <3> HIDE DEF c
    <3>6. SitsLast(fq[n] \o c, fs[l] \o c, p)
      BY <3>2, <3>4, <3>5, SitsOn
    <3> QED
      BY <3>1, <3>5, <3>6
  <2> QED
    BY <2>2, <2>3
<1>4. Nat \subseteq S
  <2> HIDE DEF S
  <2> QED
    BY <1>2, <1>3, NatSets
<1> QED
  BY <1>1, <1>4

\* Up to the last word of q.
LEMMA LastSits ==
  ASSUME NEW q, NEW s, NEW off, Runs(q, s, off), Len(q) > 1,
         NEW fq, Grows(q, fq), NEW fs, Grows(s, fs), NEW p \in Nat, SitsLast(fq[1], fs[off + 1], p)
  PROVE  Sits(bigram2vec(q), fs[off + Len(q)], p)
<1>1. q \in Seq(Words) /\ s \in Seq(Words) /\ off \in Nat /\ Len(q) \in Nat /\ Len(s) \in Nat
      /\ off + Len(q) <= Len(s)
  BY DEF Runs
<1> DEFINE n == Len(q) - 1
           l == off + n
<1>2. n \in 1 .. Len(q) - 1 /\ n \in 1 .. Len(q) /\ n + 1 = Len(q) /\ Len(q) \in 1 .. Len(q)
      /\ l \in 1 .. Len(s) - 1 /\ l \in 1 .. Len(s) /\ l + 1 = off + Len(q)
  BY <1>1
<1>3. SitsLast(fq[n], fs[l], p)
  BY <1>2, InnerSits
<1>4. PICK y \in Seq(Tokens) : TokensAt(s, off + Len(q)) = TokensAt(q, Len(q)) \o y
  BY <1>2, RunsLast
<1> DEFINE c == TokensAt(q, Len(q))
<1>5. c \in Seq(Tokens)
  BY <1>1, <1>2, TokensAtType
<1>6. fq[n] \in Seq(Tokens) /\ fs[l] \in Seq(Tokens) /\ fq[n + 1] = fq[n] \o TokensAt(q, n + 1)
      /\ fs[l + 1] = fs[l] \o TokensAt(s, l + 1) /\ bigram2vec(q) = fq[Len(q)]
  BY <1>2 DEF Grows
<1>7. bigram2vec(q) = fq[n] \o c /\ fs[off + Len(q)] = fs[l] \o (c \o y)
  BY <1>2, <1>4, <1>6
<1> HIDE DEF c, n, l
<1>8. SitsLast(fq[n] \o c, fs[l] \o c, p)
  BY <1>3, <1>5, <1>6, SitsOn
<1>9. (fs[l] \o c) \o y = fs[l] \o (c \o y)
  BY <1>4, <1>5, <1>6, ConcatTokens, Zenon
<1> DEFINE a == fq[n] \o c
           b == fs[l] \o c
<1>10. a \in Seq(Tokens) /\ b \in Seq(Tokens) /\ Sits(a, b, p)
  BY <1>5, <1>6, <1>8 DEF SitsLast
<1> HIDE DEF a, b
<1>11. Sits(a, b \o y, p)
  BY <1>10, SitsMore
<1> QED
  BY <1>7, <1>9, <1>11 DEF a, b

\* Words in a row give tokens in a row.
LEMMA RunsTokens ==
  ASSUME NEW q, NEW s, NEW off, Runs(q, s, off), bigram2vec(q) # <<>>
  PROVE  \E p : Sits(bigram2vec(q), bigram2vec(s), p)
<1>1. q \in Seq(Words) /\ s \in Seq(Words) /\ off \in Nat /\ Len(q) \in Nat /\ Len(s) \in Nat
      /\ off + Len(q) <= Len(s)
  BY DEF Runs
<1>2. Len(q) > 0
  <2>1. SUFFICES ASSUME Len(q) = 0 PROVE FALSE
    BY <1>1
  <2>2. Parts(q) = <<>>
    <3>1. Parts(q) \in Seq(Seq(Tokens)) /\ Len(Parts(q)) = 0
      BY <1>1, <2>1, PartsFacts
    <3> QED
      BY <3>1
  <2>3. bigram2vec(q) = <<>>
    BY <1>1, <2>2, PartsFacts DEF FlattenSeq
  <2> QED
    BY <2>3
<1>3. PICK fq : Grows(q, fq)
  BY <1>1, <1>2, GrowsFacts
<1>4. PICK fs : Grows(s, fs)
  <2>1. Len(s) > 0
    BY <1>1, <1>2
  <2> QED
    BY <1>1, <2>1, GrowsFacts
<1>5. Len(q) > 1 \/ TokensAt(q, 1) # <<>>
  <2>1. SUFFICES ASSUME ~(Len(q) > 1) PROVE TokensAt(q, 1) # <<>>
    OBVIOUS
  <2>2. \A n \in Nat : n > 0 /\ ~(n > 1) => n = 1
    OBVIOUS
  <2>3. Len(q) = 1
    BY <1>1, <1>2, <2>1, <2>2
  <2>4. bigram2vec(q) = fq[1] /\ fq[1] = TokensAt(q, 1)
    BY <1>3, <2>3 DEF Grows
  <2> QED
    BY <2>4
<1>6. PICK p \in Nat : SitsLast(fq[1], fs[off + 1], p)
  BY <1>2, <1>3, <1>4, <1>5, FirstSits
<1> DEFINE b == bigram2vec(q)
           S == {n \in Nat : off + Len(q) + n <= Len(s) => Sits(b, fs[off + Len(q) + n], p)}
<1>7. Sits(b, fs[off + Len(q)], p)
  <2>1. CASE Len(q) > 1
    BY <1>3, <1>4, <1>6, <2>1, LastSits
  <2>2. CASE ~(Len(q) > 1)
    <3>1. \A n \in Nat : n > 0 /\ ~(n > 1) => n = 1
      OBVIOUS
    <3>2. Len(q) = 1
      BY <1>1, <1>2, <2>2, <3>1
    <3>3. b = fq[Len(q)]
      BY <1>3 DEF Grows
    <3> QED
      BY <1>6, <3>2, <3>3 DEF SitsLast
  <2> QED
    BY <2>1, <2>2
<1>8. b \in Seq(Tokens)
  BY <1>1, BigramsType
<1> HIDE DEF b
<1>9. 0 \in S
  BY <1>1, <1>7
<1>10. ASSUME NEW n \in Nat, n \in S PROVE n + 1 \in S
  <2>1. SUFFICES ASSUME off + Len(q) + (n + 1) <= Len(s) PROVE Sits(b, fs[off + Len(q) + (n + 1)], p)
    OBVIOUS
  <2> DEFINE l == off + Len(q) + n
  <2>2. l \in 1 .. Len(s) - 1 /\ l \in 1 .. Len(s) /\ l + 1 \in 1 .. Len(s) /\ off + Len(q) + (n + 1) = l + 1 /\ l <= Len(s)
    BY <1>1, <1>2, <2>1
  <2>3. Sits(b, fs[l], p)
    BY <1>10, <2>2
  <2>4. fs[l] \in Seq(Tokens) /\ fs[l + 1] = fs[l] \o TokensAt(s, l + 1)
    BY <1>4, <2>2 DEF Grows
  <2>5. TokensAt(s, l + 1) \in Seq(Tokens)
    BY <1>1, <2>2, TokensAtType
  <2> HIDE DEF l
  <2>6. Sits(b, fs[l] \o TokensAt(s, l + 1), p)
    BY <1>8, <2>3, <2>4, <2>5, SitsMore
  <2> QED
    BY <2>2, <2>4, <2>6
<1>11. Nat \subseteq S
  <2> HIDE DEF S
  <2> QED
    BY <1>9, <1>10, NatSets
<1>12. Sits(b, fs[Len(s)], p)
  <2> DEFINE n == Len(s) - (off + Len(q))
  <2>1. n \in Nat /\ off + Len(q) + n = Len(s) /\ off + Len(q) + n <= Len(s)
    BY <1>1
  <2>2. n \in S
    BY <1>11, <2>1
  <2> HIDE DEF n
  <2> QED
    BY <2>1, <2>2
<1>13. fs[Len(s)] = bigram2vec(s)
  BY <1>4 DEF Grows
<1> QED
  BY <1>12, <1>13 DEF b

-----------------------------------------------------------------------------
(* What another order keeps, and what sums are at least and at most.       *)

\* Another order has every element.
LEMMA OrdersAll ==
  ASSUME NEW X, NEW s \in Seq(X), NEW t \in Orders(s)
  PROVE  \A m \in 1 .. Len(s) : \E n \in 1 .. Len(t) : t[n] = s[m]
<1>1. t \in Seq(X) /\ Len(t) = Len(s) /\ Len(s) \in Nat
  BY OrdersFacts
<1>2. PICK p : /\ \A n \in 1 .. Len(s) : p[n] \in 1 .. Len(s) /\ t[n] = s[p[n]]
               /\ \A m \in 1 .. Len(s) : \A n \in 1 .. Len(s) : p[m] = p[n] => m = n
  BY OrdersFacts
<1> DEFINE D == 1 .. Len(s)
           f == [n \in D |-> p[n]]
<1>3. IsFiniteSet(D)
  <2>1. 1 \in Int /\ Len(s) \in Int
    BY <1>1
  <2> QED
    BY <2>1, FS_Interval
<1>4. f \in [D -> D] /\ \A n \in D : f[n] = p[n]
  BY <1>2
<1> HIDE DEF f
<1>5. f \in Injection(D, D)
  BY <1>2, <1>4 DEF Injection, IsInjective
<1> HIDE DEF D
<1>6. f \in Surjection(D, D)
  BY <1>3, <1>5, FS_Injection
<1>7. ASSUME NEW m \in 1 .. Len(s) PROVE \E n \in 1 .. Len(t) : t[n] = s[m]
  <2>1. PICK n \in D : f[n] = m
    BY <1>6 DEF Surjection, D
  <2>2. n \in 1 .. Len(t) /\ n \in 1 .. Len(s) /\ p[n] = m
    BY <1>1, <1>4, <2>1 DEF D
  <2> QED
    BY <1>2, <2>2
<1> QED
  BY <1>7

\* A draft of no more than MAX_DRAFT_DOCS documents drops none.
LEMMA DraftAll ==
  ASSUME NEW N, NEW s \in Seq(N), NEW t \in Orders(s), NEW c \in Nat, Len(s) <= c
  PROVE  \A m \in 1 .. Len(s) :
           \E n \in 1 .. Len(SubSeq(t, 1, Smaller(Len(t), c))) : SubSeq(t, 1, Smaller(Len(t), c))[n] = s[m]
<1>1. t \in Seq(N) /\ Len(t) = Len(s) /\ Len(s) \in Nat
  BY OrdersFacts
<1>2. Smaller(Len(t), c) = Len(t)
  BY <1>1 DEF Smaller
<1>3. SubSeq(t, 1, Len(t)) = t
  BY <1>1
<1> QED
  BY <1>2, <1>3, OrdersAll

\* A sum is at least each of its parts.
LEMMA SumAtLeast ==
  ASSUME NEW S, IsFiniteSet(S), NEW occ, NEW size,
         \A x \in S : WorthBy(occ, x, size) \in Nat, NEW w \in S
  PROVE  SumBy(occ, size, S) >= WorthBy(occ, w, size)
<1> DEFINE T == S \ {w}
<1>1. IsFiniteSet(T) /\ \A x \in T : WorthBy(occ, x, size) \in Nat
  BY FS_Subset
<1>2. SumBy(occ, size, S) = WorthBy(occ, w, size) + SumBy(occ, size, T)
  BY SumAdd
<1> HIDE DEF T
<1>3. SumBy(occ, size, T) \in Nat
  BY <1>1, SumAdd
<1>4. WorthBy(occ, w, size) \in Nat
  OBVIOUS
<1> QED
  BY <1>2, <1>3, <1>4

\* A sum is at most the largest part as often as there are parts.
LEMMA SumAtMost ==
  ASSUME NEW S, IsFiniteSet(S), NEW occ, NEW size,
         \A x \in S : WorthBy(occ, x, size) \in Nat,
         NEW b \in Nat, \A x \in S : WorthBy(occ, x, size) <= b
  PROVE  SumBy(occ, size, S) <= b * Cardinality(S)
<1> DEFINE N == {n \in Nat : \A s \in SUBSET S : Cardinality(s) = n => SumBy(occ, size, s) <= b * n}
<1>1. \A s \in SUBSET S : IsFiniteSet(s) /\ Cardinality(s) \in Nat /\ (Cardinality(s) = 0 <=> s = {})
  BY FS_Subset, FS_CardinalityType, FS_EmptySet
<1>2. 0 \in N
  <2>1. b * 0 = 0
    OBVIOUS
  <2>2. \A s \in SUBSET S : Cardinality(s) = 0 => SumBy(occ, size, s) = 0
    BY <1>1, SumEmpty
  <2> QED
    BY <2>1, <2>2
<1>3. ASSUME NEW n \in Nat, n \in N PROVE n + 1 \in N
  <2>1. SUFFICES ASSUME NEW s \in SUBSET S, Cardinality(s) = n + 1
                 PROVE  SumBy(occ, size, s) <= b * (n + 1)
    OBVIOUS
  <2>2. s # {}
    BY <1>1, <2>1
  <2>3. PICK x \in s : TRUE
    BY <2>2
  <2> DEFINE r == s \ {x}
  <2>4. r \in SUBSET S /\ Cardinality(r) = n
    <3>1. Cardinality(s \ {x}) = Cardinality(s) - 1
      BY <1>1, <2>3, OneLess
    <3> QED
      BY <2>1, <2>3, <3>1
  <2>5. SumBy(occ, size, s) = WorthBy(occ, x, size) + SumBy(occ, size, r)
    BY <1>1, <2>3, SumAdd
  <2>6. SumBy(occ, size, r) \in Nat
    BY <1>1, <2>4, SumAdd
  <2> HIDE DEF r
  <2>7. SumBy(occ, size, r) <= b * n
    BY <1>3, <2>4
  <2>8. WorthBy(occ, x, size) \in Nat /\ WorthBy(occ, x, size) <= b
    BY <2>3
  <2>9. b * (n + 1) = b * n + b /\ b * n \in Nat
    OBVIOUS
  <2> HIDE DEF N
  <2> QED
    BY <2>5, <2>6, <2>7, <2>8, <2>9
<1>4. Nat \subseteq N
  <2> HIDE DEF N
  <2> QED
    BY <1>2, <1>3, NatSets
<1>5. Cardinality(S) \in Nat /\ S \in SUBSET S
  BY <1>1
<1> QED
  BY <1>4, <1>5

\* There are finitely many occurrences.
LEMMA OccFinite ==
  ASSUME NEW m \in Nat, NEW P, Posts(P, m), NEW z \in TextZones, NEW b \in Nat,
         \A e \in 1 .. m : \A n \in 1 .. Len(P[e][z]) : P[e][z][n] <= b
  PROVE  IsFiniteSet(OccOf(P, z))
<1> DEFINE occ == OccOf(P, z)
           T == (0 .. b) \X (1 .. m)
           f == [o \in occ |-> <<o.pos, o.entry>>]
<1>1. \A o \in occ : o \in Items(m) /\ o.pos \in 0 .. b /\ o.entry \in 1 .. m
  <2> SUFFICES ASSUME NEW o \in occ PROVE o \in Items(m) /\ o.pos \in 0 .. b /\ o.entry \in 1 .. m
    OBVIOUS
  <2>1. PICK e \in 1 .. m : \E n \in 1 .. Len(P[e][z]) : o = Mine(P, z, e, n)
    BY OccIn
  <2>2. PICK n \in 1 .. Len(P[e][z]) : o = Mine(P, z, e, n)
    BY <2>1
  <2>3. P[e][z][n] \in Nat /\ Mine(P, z, e, n) \in Items(m) /\ P[e][z][n] <= b
    BY OccIn
  <2>4. o.pos = P[e][z][n] /\ o.entry = e
    BY <2>2 DEF Mine
  <2> QED
    BY <2>2, <2>3, <2>4
<1>2. IsFiniteSet(T)
  <2>1. IsFiniteSet(0 .. b) /\ IsFiniteSet(1 .. m)
    <3>1. 0 \in Int /\ 1 \in Int /\ b \in Int /\ m \in Int
      OBVIOUS
    <3> QED
      BY <3>1, FS_Interval
  <2> QED
    BY <2>1, FS_Product
<1> HIDE DEF occ
<1>3. f \in [occ -> T]
  BY <1>1
<1>4. ASSUME NEW x \in occ, NEW y \in occ, f[x] = f[y] PROVE x = y
  <2>1. x.pos = y.pos /\ x.entry = y.entry
    BY <1>4
  <2> QED
    BY <1>1, <2>1 DEF Items
<1> HIDE DEF f, T
<1>5. f \in Injection(occ, T)
  BY <1>3, <1>4 DEF Injection, IsInjective
<1>6. IsFiniteSet(occ)
  BY <1>2, <1>5, FS_Injection
<1> QED
  BY <1>6 DEF occ

\* A window begins and ends with an occurrence.
LEMMA WindowFacts ==
  ASSUME NEW m \in Nat, NEW occ, occ \subseteq Items(m), NEW size \in Nat,
         NEW w \in WindowsOf(occ, size)
  PROVE  \E x, y \in occ : /\ w = <<x.pos, y.pos>> /\ x.pos \in Nat /\ y.pos \in Nat
                           /\ y.pos - x.pos < size
                           /\ \A o \in occ : o.pos > y.pos => o.pos - x.pos >= size
<1>1. PICK v \in occ \X occ :
        /\ v[1].pos <= v[2].pos /\ v[2].pos - v[1].pos < size
        /\ \A x \in occ : x.pos < v[1].pos => v[2].pos - x.pos >= size
        /\ \A y \in occ : y.pos > v[2].pos => y.pos - v[1].pos >= size
        /\ w = <<v[1].pos, v[2].pos>>
  BY DEF WindowsOf
<1>2. v[1] \in occ /\ v[2] \in occ
  OBVIOUS
<1>3. v[1].pos \in Nat /\ v[2].pos \in Nat
  BY <1>2 DEF Items
<1> QED
  BY <1>1, <1>2, <1>3

\* No two windows begin at the same place.
LEMMA WindowsFew ==
  ASSUME NEW m \in Nat, NEW occ, occ \subseteq Items(m), NEW size \in Nat, IsFiniteSet(occ)
  PROVE  /\ IsFiniteSet(WindowsOf(occ, size))
         /\ Cardinality(WindowsOf(occ, size)) <= Cardinality(occ)
<1> DEFINE W == WindowsOf(occ, size)
           f == [w \in W |-> CHOOSE o \in occ : o.pos = w[1]]
<1>1. \A w \in W : \E o \in occ : o.pos = w[1]
  BY WindowFacts
<1>2. f \in [W -> occ] /\ \A w \in W : f[w].pos = w[1]
  BY <1>1
<1>3. ASSUME NEW w \in W, NEW u \in W, w[1] = u[1] PROVE w = u
  <2>1. PICK x \in occ, y \in occ : /\ w = <<x.pos, y.pos>> /\ x.pos \in Nat /\ y.pos \in Nat
                                    /\ y.pos - x.pos < size
                                    /\ \A o \in occ : o.pos > y.pos => o.pos - x.pos >= size
    BY WindowFacts
  <2>2. PICK p \in occ, q \in occ : /\ u = <<p.pos, q.pos>> /\ p.pos \in Nat /\ q.pos \in Nat
                                    /\ q.pos - p.pos < size
                                    /\ \A o \in occ : o.pos > q.pos => o.pos - p.pos >= size
    BY WindowFacts
  <2>3. x.pos = p.pos
    BY <1>3, <2>1, <2>2
  <2>4. ~(q.pos > y.pos) /\ ~(y.pos > q.pos)
    BY <2>1, <2>2, <2>3
  <2>5. y.pos = q.pos
    BY <2>1, <2>2, <2>4
  <2> QED
    BY <2>1, <2>2, <2>3, <2>5
<1> HIDE DEF f, W
<1>4. f \in Injection(W, occ)
  <2>1. \A w \in W : \A u \in W : f[w] = f[u] => w = u
    BY <1>2, <1>3
  <2>2. DOMAIN f = W
    BY <1>2
  <2> QED
    BY <1>2, <2>1, <2>2 DEF Injection, IsInjective
<1>5. IsFiniteSet(W) /\ Cardinality(W) <= Cardinality(occ)
  BY <1>4, FS_Injection
<1> QED
  BY <1>5 DEF W

\* Entry e stands e - 1 places behind the p-th.
InPlace(P, m, p) == \A e \in 1 .. m : \E n \in 1 .. Len(P[e][TITLE]) : P[e][TITLE][n] = p + (e - 1)

\* Occurrences are items.
LEMMA OccItems ==
  ASSUME NEW m \in Nat, NEW P, Posts(P, m), NEW z \in TextZones
  PROVE  OccOf(P, z) \subseteq Items(m)
<1> SUFFICES ASSUME NEW o \in OccOf(P, z) PROVE o \in Items(m)
  OBVIOUS
<1>1. PICK e \in 1 .. m : \E n \in 1 .. Len(P[e][z]) : o = Mine(P, z, e, n)
  BY OccIn
<1>2. PICK n \in 1 .. Len(P[e][z]) : o = Mine(P, z, e, n)
  BY <1>1
<1> QED
  BY <1>2, OccIn

\* Where the query stands in its order there is a window.
LEMMA PhraseWindow ==
  ASSUME NEW m \in Nat \ {0}, NEW P, Posts(P, m), NEW p \in Nat, InPlace(P, m, p),
         NEW size \in 1 .. m
  PROVE  <<p, p + (size - 1)>> \in WindowsOf(OccOf(P, TITLE), size)
<1> DEFINE occ == OccOf(P, TITLE)
<1>1. m \in Nat /\ size \in Nat /\ size >= 1 /\ size <= m /\ TITLE \in TextZones
  BY Zones
<1>2. ASSUME NEW e \in 1 .. m PROVE \E o \in occ : o.pos = p + (e - 1) /\ o.entry = e
  <2>1. PICK n \in 1 .. Len(P[e][TITLE]) : P[e][TITLE][n] = p + (e - 1)
    BY DEF InPlace
  <2>2. Mine(P, TITLE, e, n) \in occ
    BY <1>1, OccIn
  <2>3. Mine(P, TITLE, e, n).pos = p + (e - 1) /\ Mine(P, TITLE, e, n).entry = e
    BY <2>1 DEF Mine
  <2> QED
    BY <2>2, <2>3
<1>3. PICK x \in occ : x.pos = p + (1 - 1)
  <2>1. 1 \in 1 .. m
    BY <1>1
  <2> QED
    BY <1>2, <2>1
<1>4. PICK y \in occ : y.pos = p + (size - 1)
  BY <1>1, <1>2
<1>5. \A o \in occ : o.pos \in Nat
  BY <1>1, OccItems DEF Items
<1> HIDE DEF occ
<1> DEFINE v == <<x, y>>
<1>6. v \in occ \X occ /\ v[1].pos = p /\ v[2].pos = p + (size - 1)
  BY <1>3, <1>4
<1> HIDE DEF v
<1>7. /\ v[1].pos <= v[2].pos /\ v[2].pos - v[1].pos < size
      /\ \A o \in occ : o.pos < v[1].pos => v[2].pos - o.pos >= size
      /\ \A o \in occ : o.pos > v[2].pos => o.pos - v[1].pos >= size
  BY <1>1, <1>5, <1>6
<1>8. <<v[1].pos, v[2].pos>> \in WindowsOf(occ, size)
  BY <1>6, <1>7 DEF WindowsOf
<1> QED
  BY <1>6, <1>8 DEF occ

\* That window has as many different entries as it can have.
LEMMA PhraseWorth ==
  ASSUME NEW m \in Nat \ {0}, NEW P, Posts(P, m), NEW p \in Nat, InPlace(P, m, p),
         NEW size \in 1 .. m
  PROVE  WorthBy(OccOf(P, TITLE), <<p, p + (size - 1)>>, size) = 1000 * size
<1> DEFINE occ == OccOf(P, TITLE)
           E == EntriesIn(occ, p, p + (size - 1))
<1>1. m \in Nat /\ size \in Nat /\ size >= 1 /\ size <= m /\ TITLE \in TextZones
  BY Zones
<1>2. ASSUME NEW e \in 1 .. size PROVE e \in E
  <2>1. e \in 1 .. m
    BY <1>1
  <2>2. PICK n \in 1 .. Len(P[e][TITLE]) : P[e][TITLE][n] = p + (e - 1)
    BY <2>1 DEF InPlace
  <2> DEFINE o == Mine(P, TITLE, e, n)
  <2>3. o \in occ
    BY <1>1, <2>1, OccIn
  <2>4. o.pos = p + (e - 1) /\ o.entry = e
    BY <2>2 DEF Mine
  <2>5. o.pos \in p .. p + (size - 1)
    BY <1>1, <2>4
  <2> HIDE DEF o, occ
  <2> QED
    BY <2>3, <2>4, <2>5 DEF EntriesIn
<1>3. E \subseteq 1 .. m
  <2>1. \A o \in occ : o.entry \in 1 .. m
    BY <1>1, OccItems DEF Items
  <2> HIDE DEF occ
  <2> QED
    BY <2>1 DEF EntriesIn
<1> HIDE DEF E
<1>4. IsFiniteSet(1 .. m) /\ IsFiniteSet(1 .. size) /\ Cardinality(1 .. size) = size
  <2>1. 1 \in Int /\ m \in Int /\ size \in Int
    BY <1>1
  <2>2. Cardinality(1 .. size) = IF 1 > size THEN 0 ELSE size - 1 + 1
    BY <2>1, FS_Interval
  <2> QED
    BY <1>1, <2>1, <2>2, FS_Interval
<1>5. IsFiniteSet(E) /\ Cardinality(E) \in Nat /\ size <= Cardinality(E)
  <2>1. IsFiniteSet(E)
    BY <1>3, <1>4, FS_Subset
  <2>2. 1 .. size \in SUBSET E
    BY <1>2
  <2>3. Cardinality(1 .. size) <= Cardinality(E)
    BY <2>1, <2>2, FS_Subset
  <2> QED
    BY <1>4, <2>1, <2>3, FS_CardinalityType
<1>6. BonusOf(Cardinality(E), size) = 1000 * size
  BY <1>1, <1>5 DEF BonusOf
<1>7. WorthBy(occ, <<p, p + (size - 1)>>, size) = BonusOf(Cardinality(E), size)
  BY DEF WorthBy, E
<1> QED
  BY <1>6, <1>7

\* A title with the phrase has the rank of a full window at least.
LEMMA PhraseRank ==
  ASSUME NEW m \in Nat \ {0}, NEW P, Posts(P, m), NEW p \in Nat, InPlace(P, m, p),
         NEW size \in 1 .. m, IsFiniteSet(OccOf(P, TITLE))
  PROVE  RankOf(P, TITLE, size) >= 1000 * size /\ RankOf(P, TITLE, size) \in Nat
<1> DEFINE occ == OccOf(P, TITLE)
           W == WindowsOf(occ, size)
           w == <<p, p + (size - 1)>>
<1>1. m \in Nat /\ size \in Nat /\ TITLE \in TextZones
  BY Zones
<1>2. occ \subseteq Items(m)
  BY <1>1, OccItems
<1>3. w \in W /\ WorthBy(occ, w, size) = 1000 * size
  BY PhraseWindow, PhraseWorth
<1> HIDE DEF occ, w
<1>4. IsFiniteSet(W)
  BY <1>1, <1>2, WindowsFew DEF occ
<1>5. \A x \in W : WorthBy(occ, x, size) \in Nat
  BY <1>1, <1>2, WorthType
<1> HIDE DEF W
<1>6. SumBy(occ, size, W) >= WorthBy(occ, w, size) /\ SumBy(occ, size, W) \in Nat
  BY <1>3, <1>4, <1>5, SumAtLeast, SumAdd
<1> QED
  BY <1>3, <1>6 DEF RankOf, W, occ

\* Five occurrences that make no full window rank below one that does.
LEMMA PoorRank ==
  ASSUME NEW m \in Nat \ {0}, NEW P, Posts(P, m), NEW size \in 1 .. m,
         IsFiniteSet(OccOf(P, TITLE)), Cardinality(OccOf(P, TITLE)) <= 5,
         \A w \in WindowsOf(OccOf(P, TITLE), size) : WorthBy(OccOf(P, TITLE), w, size) < 1000 * size
  PROVE  RankOf(P, TITLE, size) < 1000 * size /\ RankOf(P, TITLE, size) \in Nat
<1> DEFINE occ == OccOf(P, TITLE)
           W == WindowsOf(occ, size)
           b == 200 * (size - 1)
<1>1. m \in Nat /\ size \in Nat /\ size >= 1 /\ TITLE \in TextZones
  BY Zones
<1>2. occ \subseteq Items(m)
  BY <1>1, OccItems
<1> HIDE DEF occ
<1>3. IsFiniteSet(W) /\ Cardinality(W) <= Cardinality(occ) /\ Cardinality(W) \in Nat /\ Cardinality(occ) \in Nat
  BY <1>1, <1>2, WindowsFew, FS_CardinalityType DEF occ
<1>4. \A w \in W : WorthBy(occ, w, size) \in Nat
  BY <1>1, <1>2, WorthType
<1>5. ASSUME NEW w \in W PROVE WorthBy(occ, w, size) <= b
  <2> DEFINE E == EntriesIn(occ, w[1], w[2])
  <2>1. WorthBy(occ, w, size) < 1000 * size
    BY <1>5 DEF occ
  <2>2. E \subseteq 1 .. m
    BY <1>2 DEF EntriesIn, Items
  <2> HIDE DEF E
  <2>3. IsFiniteSet(1 .. m)
    <3>1. 1 \in Int /\ m \in Int
      BY <1>1
    <3> QED
      BY <3>1, FS_Interval
  <2>4. Cardinality(E) \in Nat
    BY <2>2, <2>3, FS_Subset, FS_CardinalityType
  <2>5. WorthBy(occ, w, size) = BonusOf(Cardinality(E), size)
    BY DEF WorthBy, E
  <2>6. \A n \in Nat : BonusOf(n, size) < 1000 * size => BonusOf(n, size) <= b
    BY <1>1 DEF BonusOf
  <2> QED
    BY <2>1, <2>4, <2>5, <2>6
<1>6. b \in Nat
  BY <1>1
<1> HIDE DEF W, b
<1>7. SumBy(occ, size, W) <= b * Cardinality(W) /\ SumBy(occ, size, W) \in Nat
  BY <1>3, <1>4, <1>5, <1>6, SumAtMost, SumAdd
<1>8. Cardinality(W) <= 5
  BY <1>3 DEF occ
<1>9. \A n \in Nat : n <= 5 => b * n <= b * 5
  <2> TAKE n \in Nat
  <2> HAVE n <= 5
  <2>1. n \in {0, 1, 2, 3, 4, 5}
    OBVIOUS
  <2> QED
    BY <1>6, <2>1
<1>10. b * 5 < 1000 * size /\ b * Cardinality(W) <= b * 5 /\ b * Cardinality(W) \in Nat
  <2>1. b * 5 < 1000 * size
    BY <1>1 DEF b
  <2>2. b * Cardinality(W) \in Nat
    BY <1>3, <1>6
  <2> QED
    BY <1>3, <1>8, <1>9, <2>1, <2>2
<1>11. SumBy(occ, size, W) < 1000 * size
  BY <1>1, <1>6, <1>7, <1>10
<1> QED
  BY <1>7, <1>11 DEF RankOf, W, occ

-----------------------------------------------------------------------------
(* What has the phrase is found, and kept, and put before the others.      *)

\* A title as it was indexed.
TitleTokens(title) == bigram2vec(stemmed(title))

\* Every token of the query that is in the title is in the postings.
TitlePosts(P, title, toks) ==
  /\ \A e \in 1 .. Len(toks) : \A q \in 1 .. Len(TitleTokens(title)) :
       TitleTokens(title)[q] = toks[e] => \E n \in 1 .. Len(P[e][TITLE]) : P[e][TITLE][n] = q - 1
  /\ \A e \in 1 .. Len(toks) : \A n \in 1 .. Len(P[e][TITLE]) : P[e][TITLE][n] <= Len(TitleTokens(title))

\* Every token of the query is in the title.
HasAll(P, m) == \A e \in 1 .. m : P[e][TITLE] # <<>>

\* No document is listed behind one it should be ahead of.
Sorts(s, size) == \A n \in 1 .. Len(s) : \A m \in 1 .. n - 1 : ~Ahead(s[n], s[m], size)

\* What has all tokens in its title was found, with all of its places.
InvFound ==
  rPc # "idle" =>
    \A d \in 1 .. Len(corpus) :
      /\ TitlePosts(postings[d], corpus[d].title, TokensOf(request))
      /\ Cnt(request) > 0 /\ HasAll(postings[d], Cnt(request)) =>
           \E n \in 1 .. Len(entries_by_docs) : entries_by_docs[n] = d

\* The draft keeps all documents or has too many.
InvDraft ==
  rPc \in {"merge", "window", "ranked"} =>
    \/ \A m \in 1 .. Len(entries_by_docs) :
         \E n \in 1 .. Len(entries_by_doc_res) : entries_by_doc_res[n] = entries_by_docs[m]
    \/ Len(entries_by_docs) > MAX_DRAFT_DOCS

\* What has been ranked so far, and all of it in order in the end.
InvListed ==
  /\ rPc \in {"merge", "window"} =>
       /\ Len(docid_by_rank) = k - 1
       /\ \A n \in 1 .. Len(docid_by_rank) : docid_by_rank[n].doc = entries_by_doc_res[n]
  /\ rPc = "ranked" =>
       /\ \A n \in 1 .. Len(entries_by_doc_res) :
            \E m \in 1 .. Len(docid_by_rank) : docid_by_rank[m].doc = entries_by_doc_res[n]
       /\ Sorts(docid_by_rank, Size(request))

\* What the phrase needs beside IInv.
PInv == InvFound /\ InvDraft /\ InvListed

\* A length is a number.
LEMMA LenNat == \A S : \A s \in Seq(S) : Len(s) \in Nat
OBVIOUS

\* Nothing is claimed before the first query.
LEMMA InitPhrase == Init => PInv
BY DEF Init, PInv, InvFound, InvDraft, InvListed

\* Every place of a token is among its positions.
LEMMA PositionsHave ==
  ASSUME NEW s \in Seq(Tokens), NEW token
  PROVE  /\ \A q \in 1 .. Len(s) : s[q] = token =>
              \E n \in 1 .. Len(PositionsOf(s, token)) : PositionsOf(s, token)[n] = q - 1
         /\ \A n \in 1 .. Len(PositionsOf(s, token)) : PositionsOf(s, token)[n] <= Len(s)
<1> DEFINE S == {m \in DOMAIN s : s[m] = token}
           up == Upwards(S, Len(s))
           p == [n \in DOMAIN up |-> up[n] - 1]
<1>1. Len(s) \in Nat /\ DOMAIN s = 1 .. Len(s)
  OBVIOUS
<1>2. Upward(S, Len(s), up)
  BY <1>1, UpwardsFacts
<1>3. PositionsOf(s, token) = p
  BY DEF PositionsOf
<1>4. \A q \in 1 .. Len(s) : s[q] = token => q \in S
  BY <1>1
<1> HIDE DEF up, S
<1>5. /\ up \in Seq(1 .. Len(s)) /\ DOMAIN up = 1 .. Len(up) /\ Len(up) \in Nat
      /\ \A n \in 1 .. Len(up) : up[n] \in 1 .. Len(s)
      /\ \A x \in S : x \in 1 .. Len(s) => \E n \in 1 .. Len(up) : up[n] = x
  BY <1>2 DEF Upward
<1>6. p \in [1 .. Len(up) -> Int]
  BY <1>1, <1>5
<1>7. Len(p) = Len(up) /\ \A n \in 1 .. Len(up) : p[n] = up[n] - 1
  BY <1>5, <1>6
<1> HIDE DEF p
<1>8. \A q \in 1 .. Len(s) : s[q] = token => \E n \in 1 .. Len(p) : p[n] = q - 1
  BY <1>4, <1>5, <1>7
<1>9. \A n \in 1 .. Len(p) : p[n] <= Len(s)
  BY <1>1, <1>5, <1>7
<1> QED
  BY <1>3, <1>8, <1>9

\* A search finds what has every token in its title.
LEMMA SearchFinds == ASSUME IInv, PInv, Search PROVE PInv'
<1> DEFINE ix == [d \in DOMAIN corpus |-> [z \in TextZones |-> Indexed(d, z)]]
           entriesOf == [d \in DOMAIN corpus |-> Entries(ix[d])]
           F == FoundIn(entriesOf)
<1>1. /\ rPc' = "draft" /\ corpus' = corpus /\ request' = request
      /\ entries_by_docs' = Upwards(F, Len(corpus)) /\ postings' = entriesOf
  BY DEF Search
<1>2. corpus \in Corpora /\ request \in Requests
  BY DEF IInv, InvFixed
<1>3. /\ Len(corpus) \in Nat /\ DOMAIN corpus = 1 .. Len(corpus)
      /\ DOMAIN tokens = 1 .. Cnt(request) /\ tokens = TokensOf(request) /\ Cnt(request) \in Nat
      /\ Len(TokensOf(request)) = Cnt(request) /\ TokensOf(request) \in Seq(Tokens)
  BY <1>2, CorpusFacts, TokensFacts, TokensAre DEF Cnt
<1>4. ASSUME NEW d \in 1 .. Len(corpus), NEW e \in 1 .. Cnt(request)
      PROVE  entriesOf[d][e][TITLE] = PositionsOf(TitleTokens(corpus[d].title), tokens[e])
  <2>1. ix[d][TITLE] = TitleTokens(corpus[d].title)
    BY <1>3, Zones DEF Indexed, Text, TitleTokens
  <2>2. entriesOf[d] = Entries(ix[d])
    BY <1>3
  <2> HIDE DEF ix, entriesOf
  <2>3. Entries(ix[d])[e][TITLE] = PositionsOf(ix[d][TITLE], tokens[e])
    BY <1>3, Zones DEF Entries
  <2> QED
    BY <2>1, <2>2, <2>3
<1> HIDE DEF entriesOf, ix
<1>5. ASSUME NEW d \in 1 .. Len(corpus)
      PROVE  TitlePosts(entriesOf[d], corpus[d].title, TokensOf(request))
  <2>1. TitleTokens(corpus[d].title) \in Seq(Tokens)
    <3>1. corpus[d].title \in Seq(Forms)
      BY <1>2, CorpusFacts
    <3> QED
      BY <3>1, StemmedType, BigramsType DEF TitleTokens
  <2> DEFINE s == TitleTokens(corpus[d].title)
  <2>2. ASSUME NEW e \in 1 .. Cnt(request)
        PROVE  /\ \A q \in 1 .. Len(s) : s[q] = tokens[e] =>
                    \E n \in 1 .. Len(entriesOf[d][e][TITLE]) : entriesOf[d][e][TITLE][n] = q - 1
               /\ \A n \in 1 .. Len(entriesOf[d][e][TITLE]) : entriesOf[d][e][TITLE][n] <= Len(s)
    <3>1. entriesOf[d][e][TITLE] = PositionsOf(s, tokens[e])
      BY <1>4
    <3>2. s \in Seq(Tokens)
      BY <2>1
    <3> HIDE DEF s
    <3> QED
      BY <3>1, <3>2, PositionsHave
  <2> QED
    BY <1>3, <2>2 DEF TitlePosts
<1>6. ASSUME NEW d \in 1 .. Len(corpus), Cnt(request) > 0, HasAll(entriesOf[d], Cnt(request))
      PROVE  \E n \in 1 .. Len(Upwards(F, Len(corpus))) : Upwards(F, Len(corpus))[n] = d
  <2>1. tokens # <<>>
    <3>1. Len(tokens) > 0
      BY <1>3, <1>6
    <3> QED
      BY <3>1, EmptySeq
  <2>2. d \in F
    BY <1>3, <1>6, <2>1, Zones DEF FoundIn, HasAll
  <2>3. Upward(F, Len(corpus), Upwards(F, Len(corpus)))
    BY <1>3, UpwardsFacts
  <2> HIDE DEF F
  <2> QED
    BY <2>2, <2>3 DEF Upward
<1> HIDE DEF F
<1>7. InvFound'
  BY <1>1, <1>5, <1>6 DEF InvFound
<1>8. InvDraft' /\ InvListed'
  BY <1>1 DEF InvDraft, InvListed
<1> QED
  BY <1>7, <1>8 DEF PInv

\* What was found, kept and ranked stays.
Quiet == UNCHANGED <<corpus, request, entries_by_docs, postings, entries_by_doc_res, k, docid_by_rank>>

\* Steps over positions keep what was found.
LEMMA QuietKeeps ==
  ASSUME PInv, Quiet, \/ rPc' = rPc
                      \/ rPc \in {"merge", "window"} /\ rPc' \in {"merge", "window"}
  PROVE  PInv'
<1>1. /\ corpus' = corpus /\ request' = request /\ entries_by_docs' = entries_by_docs /\ postings' = postings
      /\ entries_by_doc_res' = entries_by_doc_res /\ k' = k /\ docid_by_rank' = docid_by_rank
  BY DEF Quiet
<1>2. InvFound'
  BY <1>1 DEF PInv, InvFound
<1>3. InvDraft'
  BY <1>1 DEF PInv, InvDraft
<1>4. InvListed'
  BY <1>1 DEF PInv, InvListed
<1> QED
  BY <1>2, <1>3, <1>4 DEF PInv

\* A division by zero leaves nothing to show.
LEMMA CrashFinds ==
  ASSUME PInv, DivideByZero, UNCHANGED <<corpus, request, pc, answer>>
  PROVE  PInv'
<1>1. /\ rPc = "draft" /\ rPc' = "crash" /\ corpus' = corpus /\ request' = request
      /\ entries_by_docs' = entries_by_docs /\ postings' = postings
  BY DEF DivideByZero, foundVars
<1>2. InvFound'
  BY <1>1 DEF PInv, InvFound
<1>3. InvDraft' /\ InvListed'
  BY <1>1 DEF InvDraft, InvListed
<1> QED
  BY <1>2, <1>3 DEF PInv

\* The draft drops nothing unless there is too much.
LEMMA DraftFinds ==
  ASSUME IInv, PInv, DraftRanking, UNCHANGED <<corpus, request, pc, answer>>
  PROVE  PInv'
<1>1. /\ rPc = "draft" /\ rPc' = "merge" /\ corpus' = corpus /\ request' = request
      /\ entries_by_docs' = entries_by_docs /\ postings' = postings /\ k' = 1
      /\ docid_by_rank' = docid_by_rank
  BY DEF DraftRanking, foundVars
<1>2. \E s \in Orders(entries_by_docs) : entries_by_doc_res' = SubSeq(s, 1, Smaller(Len(s), MAX_DRAFT_DOCS))
  <2>1. PICK idfs \in IdfSums :
          \E s \in Sorted(entries_by_docs, LAMBDA d, e : get_draft_rank(d, idfs) > get_draft_rank(e, idfs)) :
            entries_by_doc_res' = SubSeq(s, 1, Smaller(Len(s), MAX_DRAFT_DOCS))
    BY DEF DraftRanking
  <2>2. PICK s \in Sorted(entries_by_docs, LAMBDA d, e : get_draft_rank(d, idfs) > get_draft_rank(e, idfs)) :
          entries_by_doc_res' = SubSeq(s, 1, Smaller(Len(s), MAX_DRAFT_DOCS))
    BY <2>1
  <2>3. s \in Orders(entries_by_docs)
    BY <2>2 DEF Sorted
  <2> QED
    BY <2>2, <2>3
<1>3. PICK s \in Orders(entries_by_docs) : entries_by_doc_res' = SubSeq(s, 1, Smaller(Len(s), MAX_DRAFT_DOCS))
  BY <1>2
<1>4. /\ docid_by_rank = <<>> /\ entries_by_docs \in Seq(1 .. Len(corpus)) /\ MAX_DRAFT_DOCS \in Nat
  BY <1>1, DraftAssumption DEF IInv, InvRanks, InvDocs
<1>5. Len(entries_by_docs) \in Nat
  BY <1>4, LenNat
<1>6. Len(entries_by_docs) <= MAX_DRAFT_DOCS =>
        \A m \in 1 .. Len(entries_by_docs) :
          \E n \in 1 .. Len(entries_by_doc_res') : entries_by_doc_res'[n] = entries_by_docs[m]
  <2> SUFFICES ASSUME Len(entries_by_docs) <= MAX_DRAFT_DOCS
               PROVE  \A m \in 1 .. Len(entries_by_docs) :
                        \E n \in 1 .. Len(entries_by_doc_res') : entries_by_doc_res'[n] = entries_by_docs[m]
    OBVIOUS
  <2> DEFINE N == 1 .. Len(corpus)
             u == SubSeq(s, 1, Smaller(Len(s), MAX_DRAFT_DOCS))
  <2>1. entries_by_docs \in Seq(N) /\ entries_by_doc_res' = u
    BY <1>3, <1>4
  <2> HIDE DEF N
  <2>2. \A m \in 1 .. Len(entries_by_docs) : \E n \in 1 .. Len(u) : u[n] = entries_by_docs[m]
    BY <1>4, <2>1, DraftAll
  <2> HIDE DEF u
  <2> QED
    BY <2>1, <2>2
<1>7. InvDraft'
  <2>1. Len(entries_by_docs) <= MAX_DRAFT_DOCS \/ Len(entries_by_docs) > MAX_DRAFT_DOCS
    <3>1. MAX_DRAFT_DOCS \in Nat
      BY <1>4
    <3> QED
      BY <1>5, <3>1
  <2> QED
    BY <1>1, <1>6, <2>1 DEF InvDraft
<1>8. InvFound'
  BY <1>1 DEF PInv, InvFound
<1>9. InvListed'
  <2>1. 0 = 1 - 1
    OBVIOUS
  <2>2. Len(<<>>) = 1 - 1 /\ ~(\E n : n \in 1 .. Len(<<>>))
    BY <2>1, EmptyOnce, EmptySeq, Zenon
  <2> QED
    BY <1>1, <1>4, <2>2 DEF InvListed
<1> QED
  BY <1>7, <1>8, <1>9 DEF PInv

\* A document that has been ranked is listed.
LEMMA ZoneRankedFinds ==
  ASSUME IInv, PInv, ZoneRanked, UNCHANGED <<corpus, request, pc, answer>>
  PROVE  PInv'
<1> DEFINE r == [doc |-> entries_by_doc_res[k], title |-> rank_title, subs |-> result]
<1>1. /\ rPc = "window" /\ rPc' = "merge" /\ corpus' = corpus /\ request' = request
      /\ entries_by_docs' = entries_by_docs /\ postings' = postings
      /\ entries_by_doc_res' = entries_by_doc_res
      /\ \/ k' = k /\ docid_by_rank' = docid_by_rank
         \/ k' = k + 1 /\ docid_by_rank' = Append(docid_by_rank, r)
  BY DEF ZoneRanked, foundVars
<1>2. /\ Len(docid_by_rank) = k - 1 /\ k \in Nat /\ r.doc = entries_by_doc_res[k]
      /\ \A n \in 1 .. Len(docid_by_rank) : docid_by_rank[n].doc = entries_by_doc_res[n]
  <2>1. k \in 1 .. Len(entries_by_doc_res) + 1 /\ entries_by_doc_res \in Seq(1 .. Len(corpus))
    BY DEF IInv, InvPlaces, InvDocs
  <2>2. k \in Nat
    BY <2>1
  <2> QED
    BY <1>1, <2>2 DEF PInv, InvListed
<1>3. docid_by_rank \in Seq(RankItem(corpus))
  BY DEF IInv, InvRanks
<1> DEFINE l == Append(docid_by_rank, r)
<1>4. Len(l) = k /\ l[k] = r /\ \A n \in 1 .. k - 1 : l[n] = docid_by_rank[n]
  BY <1>2, <1>3
<1> HIDE DEF l, r
<1>5. Len(l) = (k + 1) - 1 /\ \A n \in 1 .. Len(l) : l[n].doc = entries_by_doc_res[n]
  <2>1. \A n \in 1 .. k : n = k \/ n \in 1 .. k - 1
    BY <1>2
  <2>2. Len(l) = (k + 1) - 1
    BY <1>2, <1>4
  <2> QED
    BY <1>2, <1>4, <2>1, <2>2
<1>6. InvListed'
  BY <1>1, <1>2, <1>5 DEF InvListed, l
<1>7. InvFound' /\ InvDraft'
  BY <1>1 DEF PInv, InvFound, InvDraft
<1> QED
  BY <1>6, <1>7 DEF PInv

\* What a sort by Ahead leaves behind.
LEMMA SortOrders ==
  ASSUME NEW s, NEW size, NEW t \in Sorted(s, LAMBDA x, y : Ahead(x, y, size))
  PROVE  t \in Orders(s) /\ \A m, n \in DOMAIN t : m < n => ~Ahead(t[n], t[m], size)
BY DEF Sorted

\* The last sort lists all documents, none ahead of its better.
LEMMA SortFinds ==
  ASSUME IInv, PInv, SortByRank, UNCHANGED <<corpus, request, pc, answer>>
  PROVE  PInv'
<1> DEFINE scale == Smaller(Len(postings[docid_by_rank[1].doc]), MAX_WINDOW_SIZE)
<1>1. /\ rPc = "merge" /\ rPc' = "ranked" /\ ~(k <= Len(entries_by_doc_res))
      /\ corpus' = corpus /\ request' = request
      /\ entries_by_docs' = entries_by_docs /\ postings' = postings
      /\ entries_by_doc_res' = entries_by_doc_res
      /\ IF docid_by_rank = <<>> THEN docid_by_rank' = docid_by_rank
         ELSE docid_by_rank' \in Sorted(docid_by_rank, LAMBDA x, y : Ahead(x, y, scale))
  BY DEF SortByRank, foundVars, Ranking
<1>2. /\ docid_by_rank \in Seq(RankItem(corpus)) /\ entries_by_doc_res \in Seq(1 .. Len(corpus))
      /\ k \in 1 .. Len(entries_by_doc_res) + 1
  BY DEF IInv, InvRanks, InvDocs, InvPlaces
<1>3. /\ Len(docid_by_rank) = k - 1
      /\ \A n \in 1 .. Len(docid_by_rank) : docid_by_rank[n].doc = entries_by_doc_res[n]
  BY <1>1 DEF PInv, InvListed
<1>4. Len(docid_by_rank) = Len(entries_by_doc_res) /\ Len(docid_by_rank) \in Nat
  <2> DEFINE a == Len(entries_by_doc_res)
             b == Len(docid_by_rank)
  <2>1. a \in Nat /\ b \in Nat
    BY <1>2, LenNat
  <2>2. ~(k <= a) /\ k \in 1 .. a + 1 /\ b = k - 1
    BY <1>1, <1>2, <1>3
  <2> HIDE DEF a, b
  <2>3. a = b
    BY <2>1, <2>2
  <2> QED
    BY <2>1, <2>3 DEF a, b
<1>5. docid_by_rank # <<>> => scale = Size(request)
  <2> SUFFICES ASSUME docid_by_rank # <<>> PROVE scale = Size(request)
    OBVIOUS
  <2>1. docid_by_rank[1] \in RankItem(corpus)
    BY <1>2
  <2>2. docid_by_rank[1].doc \in 1 .. Len(corpus)
    BY <2>1 DEF RankItem
  <2>3. Posts(postings[docid_by_rank[1].doc], Cnt(request))
    BY <1>1, <2>2 DEF IInv, InvPostings
  <2> QED
    BY <2>3 DEF Posts, Size
<1>6. Sorts(docid_by_rank', Size(request))
  <2>1. CASE docid_by_rank = <<>>
    <3>1. docid_by_rank' = <<>> /\ ~(\E n : n \in 1 .. Len(<<>>))
      BY <1>1, <2>1, EmptyOnce
    <3> QED
      BY <3>1 DEF Sorts
  <2>2. CASE docid_by_rank # <<>>
    <3> DEFINE t == docid_by_rank'
    <3>1. t \in Orders(docid_by_rank) /\ \A m, n \in DOMAIN t : m < n => ~Ahead(t[n], t[m], scale)
      BY <1>1, <2>2, SortOrders
    <3>2. t \in Seq(RankItem(corpus))
      BY <1>2, <3>1, OrdersKeep
    <3> HIDE DEF t, scale
    <3>3. DOMAIN t = 1 .. Len(t) /\ Len(t) \in Nat
      BY <3>2
    <3>4. \A n \in 1 .. Len(t) : \A m \in 1 .. n - 1 : m \in DOMAIN t /\ n \in DOMAIN t /\ m < n
      BY <3>3
    <3>5. Sorts(t, scale)
      BY <3>1, <3>4 DEF Sorts
    <3> QED
      BY <1>5, <2>2, <3>5 DEF t
  <2> QED
    BY <2>1, <2>2
<1>7. \A m \in 1 .. Len(docid_by_rank) : \E n \in 1 .. Len(docid_by_rank') : docid_by_rank'[n] = docid_by_rank[m]
  <2>1. CASE docid_by_rank' = docid_by_rank
    BY <2>1
  <2>2. CASE docid_by_rank' \in Orders(docid_by_rank)
    BY <1>2, <2>2, OrdersAll
  <2>3. docid_by_rank' = docid_by_rank \/ docid_by_rank' \in Orders(docid_by_rank)
    BY <1>1 DEF Sorted
  <2> QED
    BY <2>1, <2>2, <2>3
<1>8. \A n \in 1 .. Len(entries_by_doc_res) :
        \E m \in 1 .. Len(docid_by_rank') : docid_by_rank'[m].doc = entries_by_doc_res[n]
  BY <1>3, <1>4, <1>7
<1>9. InvListed'
  BY <1>1, <1>6, <1>8 DEF InvListed
<1>10. InvFound' /\ InvDraft'
  BY <1>1 DEF PInv, InvFound, InvDraft
<1> QED
  BY <1>9, <1>10 DEF PInv

\* Nothing is claimed before the next query.
LEMMA RecvFinds == ASSUME Recv PROVE PInv'
BY DEF Recv, Idle, PInv, InvFound, InvDraft, InvListed

\* Every step keeps what the phrase needs.
LEMMA PhraseKeeps == IInv /\ PInv /\ [Next]_vars => PInv'
<1> SUFFICES ASSUME IInv, PInv, [Next]_vars PROVE PInv'
  OBVIOUS
<1>1. CASE Search
  BY <1>1, SearchFinds
<1>2. CASE RankOn
  <2>1. Rank /\ UNCHANGED <<corpus, request, pc, answer>>
    BY <1>2 DEF RankOn
  <2>2. CASE MergeAdvance \/ MergeInsert \/ EntryMerged \/ ZoneMerged
    <3>1. Quiet /\ rPc = "merge" /\ rPc' \in {"merge", "window"}
      BY <2>1, <2>2 DEF MergeAdvance, MergeInsert, EntryMerged, ZoneMerged, Merging, Quiet, foundVars
    <3> QED
      BY <3>1, QuietKeeps
  <2>3. CASE Grow \/ Shrink
    <3>1. Quiet /\ rPc' = rPc
      BY <2>1, <2>3 DEF Grow, Shrink, Quiet, foundVars
    <3> QED
      BY <3>1, QuietKeeps
  <2> QED
    BY <2>1, <2>2, <2>3, CrashFinds, DraftFinds, ZoneRankedFinds, SortFinds DEF Rank
<1>3. CASE Ranked \/ MakeXml \/ UNCHANGED vars
  <2>1. Quiet /\ rPc' = rPc
    BY <1>3 DEF Ranked, MakeXml, vars, rankVars, foundVars, Quiet
  <2> QED
    BY <2>1, QuietKeeps
<1>4. CASE Recv
  BY <1>4, RecvFinds
<1> QED
  BY <1>1, <1>2, <1>3, <1>4 DEF Next

\* It always holds.
LEMMA PhraseInvariant == Spec => []PInv
BY InitPhrase, PhraseKeeps, Invariant, PTL DEF Spec

\* The words of the query in a row are its tokens in their places.
LEMMA RowInPlace ==
  ASSUME IInv, PInv, rPc # "idle", NEW d \in 1 .. Len(corpus), InARow(d), tokens # <<>>
  PROVE  \E p \in Nat : InPlace(postings[d], Cnt(request), p)
<1>1. corpus \in Corpora /\ request \in Requests
  BY DEF IInv, InvFixed
<1>2. corpus[d].title \in Seq(Forms)
  BY <1>1, CorpusFacts
<1> DEFINE s == stemmed(corpus[d].title)
           q == norm_words
<1>3. s \in Seq(Words) /\ q \in Seq(Words) /\ q = WordsOf(request) /\ tokens = bigram2vec(q)
      /\ tokens = TokensOf(request)
  BY <1>1, <1>2, StemmedType, TokensFacts, TokensAre DEF tokens
<1>4. \E off \in 0 .. Len(s) - Len(q) : \A n \in DOMAIN q : s[off + n] = q[n]
  BY DEF InARow
<1> HIDE DEF s, q
<1>5. PICK off \in 0 .. Len(s) - Len(q) : \A n \in DOMAIN q : s[off + n] = q[n]
  BY <1>4
<1>6. Len(s) \in Nat /\ Len(q) \in Nat /\ DOMAIN q = 1 .. Len(q)
  BY <1>3
<1>7. off \in Nat /\ off + Len(q) <= Len(s)
  BY <1>5, <1>6
<1>8. Runs(q, s, off)
  BY <1>3, <1>5, <1>6, <1>7 DEF Runs
<1>9. PICK p : Sits(bigram2vec(q), bigram2vec(s), p)
  BY <1>3, <1>8, RunsTokens
<1> DEFINE T == TitleTokens(corpus[d].title)
           toks == TokensOf(request)
<1>10. T = bigram2vec(s) /\ toks = bigram2vec(q)
  BY <1>3 DEF TitleTokens, s
<1>11. /\ p \in Nat /\ p + Len(toks) <= Len(T) /\ Len(toks) = Cnt(request) /\ Cnt(request) \in Nat
       /\ \A e \in 1 .. Len(toks) : T[p + e] = toks[e]
  BY <1>1, <1>9, <1>10, TokensFacts DEF Sits, Cnt
<1>12. Len(T) \in Nat
  BY <1>3, <1>10, BigramsType, LenNat
<1>13. TitlePosts(postings[d], corpus[d].title, toks)
  BY DEF PInv, InvFound
<1>14. \A e \in 1 .. Len(toks) : \A m \in 1 .. Len(T) :
         T[m] = toks[e] => \E n \in 1 .. Len(postings[d][e][TITLE]) : postings[d][e][TITLE][n] = m - 1
  BY <1>13 DEF TitlePosts
<1> HIDE DEF T, toks
<1>15. ASSUME NEW e \in 1 .. Cnt(request)
       PROVE  \E n \in 1 .. Len(postings[d][e][TITLE]) : postings[d][e][TITLE][n] = p + (e - 1)
  <2>1. p + e \in 1 .. Len(T) /\ (p + e) - 1 = p + (e - 1) /\ e \in 1 .. Len(toks)
    BY <1>11, <1>12
  <2>2. T[p + e] = toks[e]
    BY <1>11, <2>1
  <2>3. \E n \in 1 .. Len(postings[d][e][TITLE]) : postings[d][e][TITLE][n] = (p + e) - 1
    BY <1>14, <2>1, <2>2
  <2> QED
    BY <2>1, <2>3
<1> QED
  BY <1>11, <1>15 DEF InPlace

\* In the terms of the ranker.
LEMMA PoorIs ==
  ASSUME request \in Requests, NEW d, Poor(d)
  PROVE  /\ Cardinality(OccOf(postings[d], TITLE)) <= 5
         /\ \A w \in WindowsOf(OccOf(postings[d], TITLE), Size(request)) :
              WorthBy(OccOf(postings[d], TITLE), w, Size(request)) < 1000 * Size(request)
<1> DEFINE occ == OccOf(postings[d], TITLE)
<1>1. Occurrences(d, TITLE) = occ
  BY OccIs
<1>2. Cardinality(occ) <= 5 /\ \A w \in Windows(occ) : Worth(occ, w) < 1000 * ws
  BY <1>1 DEF Poor
<1> HIDE DEF occ
<1>3. ws = Size(request)
  BY TokensAre DEF ws, Size, Cnt
<1>4. Windows(occ) = WindowsOf(occ, ws)
  BY DEF Windows, WindowsOf
<1>5. \A w : Worth(occ, w) = WorthBy(occ, w, ws)
  BY DEF Worth, WorthBy, BonusOf, EntriesIn
<1> QED
  BY <1>2, <1>3, <1>4, <1>5 DEF occ

\* A title has finitely many occurrences.
LEMMA TitleFinite ==
  ASSUME IInv, PInv, rPc # "idle", NEW d \in 1 .. Len(corpus)
  PROVE  IsFiniteSet(OccOf(postings[d], TITLE))
<1>1. corpus \in Corpora /\ request \in Requests
  BY DEF IInv, InvFixed
<1> DEFINE b == Len(TitleTokens(corpus[d].title))
<1>2. b \in Nat
  <2>1. corpus[d].title \in Seq(Forms)
    BY <1>1, CorpusFacts
  <2> QED
    BY <2>1, StemmedType, BigramsType, LenNat DEF TitleTokens
<1>3. Posts(postings[d], Cnt(request)) /\ Cnt(request) \in Nat
  BY <1>1, CntType DEF IInv, InvPostings
<1>4. TitlePosts(postings[d], corpus[d].title, TokensOf(request)) /\ Len(TokensOf(request)) = Cnt(request)
  BY DEF PInv, InvFound, Cnt
<1>5. \A e \in 1 .. Cnt(request) : \A n \in 1 .. Len(postings[d][e][TITLE]) : postings[d][e][TITLE][n] <= b
  BY <1>4 DEF TitlePosts
<1> HIDE DEF b
<1> QED
  BY <1>2, <1>3, <1>5, Zones, OccFinite

\* Both invariants put the phrase first: its band is that of full windows.
LEMMA InvPhraseFirst == IInv /\ PInv => PhraseFirst
<1> SUFFICES ASSUME IInv, PInv, pc = "answer", tokens # <<>>, NEW d \in DOMAIN corpus, InARow(d)
             PROVE  \/ \E n \in DOMAIN docid_by_rank :
                         /\ docid_by_rank[n].doc = d
                         /\ \A m \in 1 .. n - 1 : ~Poor(docid_by_rank[m].doc)
                    \/ /\ Len(entries_by_docs) > MAX_DRAFT_DOCS
                       /\ d \in Range(entries_by_docs) \ Range(entries_by_doc_res)
  BY DEF PhraseFirst
<1> DEFINE P == postings[d]
           c == Cnt(request)
           size == Size(request)
<1>1. corpus \in Corpora /\ request \in Requests /\ rPc = "ranked"
  BY DEF IInv, InvFixed, InvStage
<1>2. DOMAIN corpus = 1 .. Len(corpus)
  BY <1>1, CorpusFacts
<1>3. c \in Nat \ {0} /\ size \in 1 .. c
  <2>1. c \in Nat /\ size = Smaller(c, MAX_WINDOW_SIZE) /\ tokens \in Seq(Tokens) /\ Len(tokens) = c
    BY <1>1, TokensFacts, TokensAre, CntType DEF Size, Cnt
  <2>2. c # 0
    BY <2>1
  <2> HIDE DEF c, size
  <2> QED
    BY <2>1, <2>2, WindowAssumption DEF Smaller
<1>4. PICK p \in Nat : InPlace(P, c, p)
  BY <1>1, <1>2, RowInPlace
<1>5. /\ docid_by_rank \in Seq(RankItem(corpus))
      /\ \A n \in 1 .. Len(docid_by_rank) : Right(postings, size, docid_by_rank[n])
      /\ \A n \in 1 .. Len(entries_by_doc_res) :
            \E m \in 1 .. Len(docid_by_rank) : docid_by_rank[m].doc = entries_by_doc_res[n]
      /\ Sorts(docid_by_rank, size)
  BY <1>1 DEF IInv, InvRanks, PInv, InvListed
<1>6. PICK a \in 1 .. Len(entries_by_docs) : entries_by_docs[a] = d
  <2>1. \A e \in 1 .. c : P[e][TITLE] # <<>>
    <3>1. \A e \in 1 .. c : \E n : n \in 1 .. Len(P[e][TITLE])
      BY <1>4 DEF InPlace
    <3> QED
      BY <3>1, EmptyOnce
  <2>2. HasAll(P, c) /\ c > 0
    BY <1>3, <2>1 DEF HasAll
  <2> QED
    BY <1>1, <1>2, <2>2 DEF PInv, InvFound
<1>7. CASE \E m \in 1 .. Len(entries_by_doc_res) : entries_by_doc_res[m] = d
  <2>1. PICK n \in 1 .. Len(docid_by_rank) : docid_by_rank[n].doc = d
    BY <1>5, <1>7
  <2>2. Band(docid_by_rank[n].title, size) = 1
    <3>1. Posts(P, c) /\ IsFiniteSet(OccOf(P, TITLE))
      BY <1>1, <1>2, TitleFinite DEF IInv, InvPostings
    <3>2. RankOf(P, TITLE, size) >= 1000 * size /\ RankOf(P, TITLE, size) \in Nat
      BY <1>3, <1>4, <3>1, PhraseRank
    <3>3. docid_by_rank[n].title = 5 * RankOf(P, TITLE, size)
      BY <1>5, <2>1 DEF Right
    <3> DEFINE x == RankOf(P, TITLE, size)
    <3> HIDE DEF x
    <3>4. size \in Nat /\ x \in Nat /\ x >= 1000 * size
      BY <1>3, <3>2 DEF x
    <3>5. 5 * x >= 5000 * size
      BY <3>4
    <3> QED
      BY <3>3, <3>5 DEF Band, x
  <2>3. ASSUME NEW m \in 1 .. n - 1, Poor(docid_by_rank[m].doc) PROVE FALSE
    <3>1. m \in 1 .. Len(docid_by_rank) /\ Len(docid_by_rank) \in Nat
      BY <1>5, LenNat
    <3> DEFINE e == docid_by_rank[m].doc
               Q == postings[e]
               y == RankOf(Q, TITLE, size)
    <3>2. e \in 1 .. Len(corpus) /\ docid_by_rank[m].title \in Nat
      <4>1. docid_by_rank[m] \in RankItem(corpus)
        BY <1>5, <3>1
      <4> QED
        BY <4>1 DEF RankItem
    <3>3. Posts(Q, c) /\ IsFiniteSet(OccOf(Q, TITLE))
      BY <1>1, <3>2, TitleFinite DEF IInv, InvPostings
    <3>4. /\ Cardinality(OccOf(Q, TITLE)) <= 5
          /\ \A w \in WindowsOf(OccOf(Q, TITLE), size) : WorthBy(OccOf(Q, TITLE), w, size) < 1000 * size
      BY <1>1, <2>3, PoorIs, ZenonT(40)
    <3>5. docid_by_rank[m].title = 5 * y
      BY <1>5, <3>1 DEF Right
    <3> HIDE DEF Q, c, size
    <3>6. y < 1000 * size /\ y \in Nat
      BY <1>3, <3>3, <3>4, PoorRank
    <3>7. ~Ahead(docid_by_rank[n], docid_by_rank[m], size)
      BY <1>5 DEF Sorts
    <3>8. Band(docid_by_rank[m].title, size) > 1
      <4>1. y \in Nat
        BY <3>6
      <4> DEFINE x == docid_by_rank[m].title
      <4>2. x = 5 * y /\ y < 1000 * size /\ size \in Nat
        BY <1>3, <3>5, <3>6
      <4> HIDE DEF x, y
      <4>3. x < 5000 * size
        BY <4>1, <4>2
      <4> QED
        BY <4>1, <4>2, <4>3 DEF Band, x
    <3> QED
      BY <2>2, <3>7, <3>8 DEF Ahead
  <2>4. n \in DOMAIN docid_by_rank
    BY <1>5
  <2> QED
    BY <2>1, <2>3, <2>4
<1>8. CASE ~(\E m \in 1 .. Len(entries_by_doc_res) : entries_by_doc_res[m] = d)
  <2>1. Len(entries_by_docs) > MAX_DRAFT_DOCS
    BY <1>1, <1>6, <1>8 DEF PInv, InvDraft
  <2>2. DOMAIN entries_by_docs = 1 .. Len(entries_by_docs)
        /\ DOMAIN entries_by_doc_res = 1 .. Len(entries_by_doc_res)
    BY DEF IInv, InvDocs
  <2>3. d \in Range(entries_by_docs) \ Range(entries_by_doc_res)
    BY <1>6, <1>8, <2>2 DEF Range
  <2> QED
    BY <2>1, <2>3
<1> QED
  BY <1>7, <1>8

-----------------------------------------------------------------------------
(* The selections of a text.                                               *)

\* The largest of some numbers below a bound.
LEMMA MaxFacts ==
  ASSUME NEW b \in Nat, NEW S, S \subseteq 0 .. b, S # {}
  PROVE  Max(S) \in S /\ \A x \in S : x <= Max(S)
<1> DEFINE N == {n \in Nat : \A T : T \subseteq 0 .. n /\ T # {} => \E m \in T : \A x \in T : m >= x}
<1>1. 0 \in N
  <2> SUFFICES ASSUME NEW T, T \subseteq 0 .. 0, T # {} PROVE \E m \in T : \A x \in T : m >= x
    OBVIOUS
  <2>1. \A x \in T : x = 0
    OBVIOUS
  <2>2. PICK m \in T : TRUE
    OBVIOUS
  <2>3. \A x \in T : m >= x
    BY <2>1
  <2> QED
    BY <2>3
<1>2. ASSUME NEW n \in Nat, n \in N PROVE n + 1 \in N
  <2> SUFFICES ASSUME NEW T, T \subseteq 0 .. n + 1, T # {} PROVE \E m \in T : \A x \in T : m >= x
    OBVIOUS
  <2>1. CASE n + 1 \in T
    <3>1. \A x \in T : n + 1 >= x
      OBVIOUS
    <3> QED
      BY <2>1, <3>1
  <2>2. CASE n + 1 \notin T
    <3>1. T \subseteq 0 .. n
      BY <2>2
    <3> QED
      BY <1>2, <3>1
  <2> QED
    BY <2>1, <2>2
<1>3. Nat \subseteq N
  <2> HIDE DEF N
  <2> QED
    BY <1>1, <1>2, NatSets
<1>4. \E m \in S : \A x \in S : m >= x
  BY <1>3
<1>5. Max(S) \in S /\ \A x \in S : Max(S) >= x
  BY <1>4 DEF Max
<1>6. \A x \in S : x \in Nat
  OBVIOUS
<1>7. \A x, y \in Nat : x >= y => y <= x
  OBVIOUS
<1> QED
  BY <1>5, <1>6, <1>7

\* What is in a piece of a sequence.
LEMMA PieceFacts ==
  ASSUME NEW X, NEW s \in Seq(X), NEW a \in Nat \ {0}, NEW size \in Nat \ {0}, a + size - 1 <= Len(s)
  PROVE  /\ SubSeq(s, a, a + size - 1) \in Seq(X) /\ Len(SubSeq(s, a, a + size - 1)) = size
         /\ \A j \in 0 .. size - 1 : SubSeq(s, a, a + size - 1)[j + 1] = s[a + j]
<1> DEFINE e == a + size - 1
<1>1. Len(s) \in Nat /\ e \in Nat /\ e <= Len(s) /\ e >= a
  OBVIOUS
<1>2. SubSeq(s, a, e) \in Seq(X) /\ Len(SubSeq(s, a, e)) = e - a + 1
  BY <1>1
<1>3. \A n \in 1 .. e - a + 1 : SubSeq(s, a, e)[n] = s[a + n - 1]
  BY <1>1
<1>4. \A j \in 0 .. size - 1 : j + 1 \in 1 .. e - a + 1 /\ a + (j + 1) - 1 = a + j
  OBVIOUS
<1>5. \A j \in 0 .. size - 1 : SubSeq(s, a, e)[j + 1] = s[a + j]
  BY <1>3, <1>4
<1>6. e - a + 1 = size
  OBVIOUS
<1> QED
  BY <1>2, <1>5, <1>6

\* The words of t from p on are those of q from a on.
Same(q, t, a, p, size) == \A j \in 0 .. size - 1 : q[a + j] = t[p + j]

\* Pieces are equal when their words are.
LEMMA PieceSame ==
  ASSUME NEW X, NEW q \in Seq(X), NEW t \in Seq(X), NEW a \in Nat \ {0}, NEW p \in Nat \ {0},
         NEW size \in Nat \ {0}, a + size - 1 <= Len(q), p + size - 1 <= Len(t)
  PROVE  SubSeq(q, a, a + size - 1) = SubSeq(t, p, p + size - 1) <=> Same(q, t, a, p, size)
<1> DEFINE f == SubSeq(q, a, a + size - 1)
           g == SubSeq(t, p, p + size - 1)
<1>1. f \in Seq(X) /\ Len(f) = size /\ \A j \in 0 .. size - 1 : f[j + 1] = q[a + j]
  BY PieceFacts
<1>2. g \in Seq(X) /\ Len(g) = size /\ \A j \in 0 .. size - 1 : g[j + 1] = t[p + j]
  BY PieceFacts
<1> HIDE DEF f, g
<1>3. f = g => Same(q, t, a, p, size)
  BY <1>1, <1>2 DEF Same
<1>4. ASSUME Same(q, t, a, p, size) PROVE f = g
  <2>1. \A n \in 1 .. size : f[n] = g[n]
    <3> TAKE n \in 1 .. size
    <3>1. n - 1 \in 0 .. size - 1 /\ (n - 1) + 1 = n
      OBVIOUS
    <3>2. f[(n - 1) + 1] = g[(n - 1) + 1]
      BY <1>1, <1>2, <1>4, <3>1 DEF Same
    <3> QED
      BY <3>1, <3>2
  <2> QED
    BY <1>1, <1>2, <2>1
<1> QED
  BY <1>3, <1>4 DEF f, g

\* A part of the query is a row of its words.
LEMMA PartIs ==
  ASSUME NEW X, NEW q \in Seq(X), NEW t \in Seq(X), NEW p \in 1 .. Len(t), NEW size \in Nat \ {0}
  PROVE  PartAt(q, t, p, size) <=>
           p + size - 1 <= Len(t) /\ \E a \in 1 .. Len(q) - size + 1 : Same(q, t, a, p, size)
<1>1. Len(q) \in Nat /\ Len(t) \in Nat
  BY LenNat
<1>2. ASSUME NEW a \in 1 .. Len(q) - size + 1, p + size - 1 <= Len(t)
      PROVE  SubSeq(q, a, a + size - 1) = SubSeq(t, p, p + size - 1) <=> Same(q, t, a, p, size)
  <2>1. a \in Nat \ {0} /\ p \in Nat \ {0} /\ a + size - 1 <= Len(q)
    BY <1>1
  <2> QED
    BY <1>2, <2>1, PieceSame
<1> QED
  BY <1>2 DEF PartAt

\* The size of the selection that begins at word p, if one does.
Long(q, t, p) == Max({0} \cup Sizes(q, t, p))

\* It is the longest part of the query there, and none when the word is not in it.
LEMMA LongFacts ==
  ASSUME NEW X, NEW q \in Seq(X), NEW t \in Seq(X), NEW p \in 1 .. Len(t)
  PROVE  /\ Long(q, t, p) \in Nat
         /\ Long(q, t, p) > 0 => PartAt(q, t, p, Long(q, t, p))
         /\ \A size \in Nat \ {0} : PartAt(q, t, p, size) => size <= Long(q, t, p) /\ size <= Len(q)
         /\ ~PartAt(q, t, p, Long(q, t, p) + 1)
         /\ t[p] \in Range(q) <=> Long(q, t, p) > 0
<1> DEFINE S == {0} \cup Sizes(q, t, p)
           l == Long(q, t, p)
<1>1. Len(q) \in Nat /\ Len(t) \in Nat /\ DOMAIN q = 1 .. Len(q)
  BY LenNat
<1>2. S \subseteq 0 .. Len(q) /\ S # {}
  BY <1>1 DEF Sizes
<1>3. l \in S /\ \A x \in S : x <= l
  BY <1>1, <1>2, MaxFacts DEF Long
<1>4. l \in Nat /\ (l > 0 => PartAt(q, t, p, l))
  BY <1>2, <1>3 DEF Sizes
<1> HIDE DEF l
<1>5. ASSUME NEW size \in Nat \ {0}, PartAt(q, t, p, size) PROVE size <= l /\ size <= Len(q)
  <2>1. size <= Len(q)
    <3>1. \E a \in 1 .. Len(q) - size + 1 : TRUE
      BY <1>5 DEF PartAt
    <3> QED
      BY <1>1, <3>1
  <2>2. size \in S
    BY <1>1, <1>5, <2>1 DEF Sizes
  <2> QED
    BY <1>3, <2>1, <2>2
<1>6. ~PartAt(q, t, p, l + 1)
  <2>1. l + 1 \in Nat \ {0} /\ ~(l + 1 <= l)
    BY <1>4
  <2> QED
    BY <1>5, <2>1
<1>7. ASSUME t[p] \in Range(q) PROVE l > 0
  <2>1. PICK a \in 1 .. Len(q) : q[a] = t[p]
    BY <1>1, <1>7 DEF Range
  <2>2. a \in 1 .. Len(q) - 1 + 1 /\ p + 1 - 1 <= Len(t) /\ a + 0 = a /\ p + 0 = p
    BY <1>1
  <2>3. Same(q, t, a, p, 1)
    <3>1. \A j \in 0 .. 1 - 1 : j = 0
      OBVIOUS
    <3> QED
      BY <2>1, <2>2, <3>1 DEF Same
  <2>4. PartAt(q, t, p, 1)
    BY <2>2, <2>3, PartIs
  <2>5. 1 <= l
    BY <1>5, <2>4
  <2> QED
    BY <1>4, <2>5
<1>8. ASSUME l > 0 PROVE t[p] \in Range(q)
  <2>1. PICK a \in 1 .. Len(q) - l + 1 : Same(q, t, a, p, l)
    <3>1. l \in Nat \ {0} /\ PartAt(q, t, p, l)
      BY <1>4, <1>8
    <3> QED
      BY <3>1, PartIs
  <2>2. 0 \in 0 .. l - 1 /\ a + 0 = a /\ p + 0 = p /\ a \in 1 .. Len(q)
    BY <1>1, <1>4, <1>8
  <2>3. q[a] = t[p]
    BY <2>1, <2>2 DEF Same
  <2> QED
    BY <1>1, <2>2, <2>3 DEF Range
<1> QED
  BY <1>4, <1>5, <1>6, <1>7, <1>8 DEF l

\* What is selected from word p on.
Walks(q, t, f) ==
  f = [p \in 1 .. Len(t) + 1 |->
         IF p > Len(t) THEN <<>>
         ELSE IF [r \in DOMAIN t |-> Max({0} \cup Sizes(q, t, r))][p] = 0 THEN f[p + 1]
         ELSE <<[start |-> p, size |-> [r \in DOMAIN t |-> Max({0} \cup Sizes(q, t, r))][p]]>>
                \o f[p + [r \in DOMAIN t |-> Max({0} \cup Sizes(q, t, r))][p]]]

\* A selection does not reach beyond the text.
LEMMA WalkFacts ==
  ASSUME NEW X, NEW q \in Seq(X), NEW t \in Seq(X)
  PROVE  \A p \in 1 .. Len(t) : /\ [r \in DOMAIN t |-> Max({0} \cup Sizes(q, t, r))][p] = Long(q, t, p)
                                /\ Long(q, t, p) \in Nat /\ p + Long(q, t, p) <= Len(t) + 1
<1> TAKE p \in 1 .. Len(t)
<1>1. DOMAIN t = 1 .. Len(t) /\ Len(t) \in Nat /\ p \in Nat
  OBVIOUS
<1>2. [r \in DOMAIN t |-> Max({0} \cup Sizes(q, t, r))][p] = Long(q, t, p)
  BY <1>1 DEF Long
<1> DEFINE l == Long(q, t, p)
<1>3. l \in Nat /\ (l > 0 => PartAt(q, t, p, l))
  BY LongFacts
<1>4. l > 0 => p + l - 1 <= Len(t)
  BY <1>3 DEF PartAt
<1> HIDE DEF l
<1>5. p + l <= Len(t) + 1
  BY <1>1, <1>3, <1>4
<1> QED
  BY <1>2, <1>3, <1>5 DEF l

\* get_selections is what its recursion says.
LEMMA SelectionsRecursion ==
  ASSUME NEW X, NEW q \in Seq(X), NEW t \in Seq(X)
  PROVE  \E f : Walks(q, t, f) /\ get_selections(q, t) = f[1]
<1> DEFINE l(p) == [r \in DOMAIN t |-> Max({0} \cup Sizes(q, t, r))][p]
           last == Len(t)
           F(n, f) == f = [p \in last + 1 - n .. last + 1 |->
                             IF p > last THEN <<>> ELSE IF l(p) = 0 THEN f[p + 1]
                             ELSE <<[start |-> p, size |-> l(p)]>> \o f[p + l(p)]]
           N == {n \in Nat : n <= last => \E f : F(n, f)}
<1>1. last \in Nat /\ \A p \in 1 .. last : l(p) \in Nat /\ p + l(p) <= last + 1
  BY LenNat, WalkFacts, ZenonT(40)
<1> HIDE DEF l
<1>2. 0 \in N
  <2> DEFINE g == [p \in last + 1 - 0 .. last + 1 |-> <<>>]
  <2>1. \A p \in last + 1 - 0 .. last + 1 : p > last
    BY <1>1
  <2>2. F(0, g)
    BY <2>1
  <2> HIDE DEF F, g
  <2> QED
    BY <2>2
<1>3. ASSUME NEW n \in Nat, n \in N PROVE n + 1 \in N
  <2>1. SUFFICES ASSUME n + 1 <= last PROVE \E f : F(n + 1, f)
    OBVIOUS
  <2>2. n <= last
    BY <1>1, <2>1
  <2>3. \E f : F(n, f)
    <3> HIDE DEF F, last
    <3> QED
      BY <1>3, <2>2
  <2>4. PICK f : F(n, f)
    BY <2>3
  <2> HIDE DEF last
  <2> DEFINE from == last + 1 - n
             to == last + 1 - (n + 1)
             g == [p \in to .. last + 1 |->
                     IF p > last THEN <<>> ELSE IF l(p) = 0 THEN f[p + 1]
                     ELSE <<[start |-> p, size |-> l(p)]>> \o f[p + l(p)]]
  <2>5. from \in 1 .. last + 1 /\ to \in 1 .. last /\ from = to + 1
    BY <1>1, <2>1
  <2>6. \A p \in from .. last + 1 : f[p] = IF p > last THEN <<>> ELSE IF l(p) = 0 THEN f[p + 1]
                                           ELSE <<[start |-> p, size |-> l(p)]>> \o f[p + l(p)]
    BY <2>4
  <2>7. \A p \in from .. last + 1 : p \in to .. last + 1
    BY <2>5
  <2>8. \A p \in from .. last + 1 : g[p] = f[p]
    BY <2>6, <2>7
  <2>9. \A p \in to .. last + 1 : p <= last =>
          /\ p + 1 \in from .. last + 1
          /\ l(p) # 0 => p + l(p) \in from .. last + 1
    <3> TAKE p \in to .. last + 1
    <3> HAVE p <= last
    <3>1. p \in 1 .. last /\ p >= to
      BY <1>1, <2>5
    <3>2. l(p) \in Nat /\ p + l(p) <= last + 1
      BY <1>1, <3>1
    <3> QED
      BY <1>1, <2>5, <3>1, <3>2
  <2>10. \A p \in to .. last + 1 : ~(p > last) => /\ g[p + 1] = f[p + 1]
                                                  /\ l(p) # 0 => g[p + l(p)] = f[p + l(p)]
    <3> TAKE p \in to .. last + 1
    <3> HAVE ~(p > last)
    <3>1. p <= last
      BY <1>1, <2>5
    <3> HIDE DEF g, from, to
    <3> QED
      BY <2>8, <2>9, <3>1
  <2>11. F(n + 1, g)
    BY <2>10
  <2> HIDE DEF F, g
  <2> QED
    BY <2>11
<1>4. \E f : Walks(q, t, f)
  <2>1. Nat \subseteq N
    <3> HIDE DEF N
    <3> QED
      BY <1>2, <1>3, NatSets
  <2>2. \E f : F(last, f)
    <3>1. last \in N /\ last <= last
      <4> HIDE DEF N
      <4> QED
        BY <1>1, <2>1
    <3> HIDE DEF F, last
    <3> QED
      BY <3>1
  <2>3. PICK f : F(last, f)
    BY <2>2
  <2>4. last + 1 - last = 1
    BY <1>1
  <2> QED
    BY <2>3, <2>4, ZenonT(40) DEF Walks, l
<1>5. Walks(q, t, CHOOSE f : Walks(q, t, f))
  BY <1>4
<1>6. get_selections(q, t) = (CHOOSE f : Walks(q, t, f))[1]
  BY DEF get_selections, Walks
<1> QED
  BY <1>5, <1>6

\* What a selection has.
Selection == [start : Nat, size : Nat]

\* s are the selections from word p on.
Selects(q, t, p, s) ==
  /\ s \in Seq(Selection)
  /\ \A n \in 1 .. Len(s) : /\ s[n].start \in p .. Len(t) /\ s[n].size = Long(q, t, s[n].start)
                            /\ s[n].size > 0
  /\ \A x \in p .. Len(t) : t[x] \in Range(q) => \E n \in 1 .. Len(s) : Covers(s[n], x)
  /\ \A n \in 1 .. Len(s) : \A x : Covers(s[n], x) => x \in p .. Len(t) /\ t[x] \in Range(q)
  /\ \A n \in 1 .. Len(s) : \A m \in 1 .. Len(s) : \A x : Covers(s[n], x) /\ Covers(s[m], x) => n = m

\* The words of a selection are words of the query.
LEMMA PartIn ==
  ASSUME NEW X, NEW q \in Seq(X), NEW t \in Seq(X), NEW p \in 1 .. Len(t), Long(q, t, p) > 0,
         NEW x \in p .. p + Long(q, t, p) - 1
  PROVE  x \in p .. Len(t) /\ t[x] \in Range(q)
<1> DEFINE l == Long(q, t, p)
<1>1. Len(q) \in Nat /\ Len(t) \in Nat /\ DOMAIN q = 1 .. Len(q)
  BY LenNat
<1>2. l \in Nat \ {0} /\ PartAt(q, t, p, l)
  BY LongFacts
<1> HIDE DEF l
<1>3. p + l - 1 <= Len(t) /\ \E a \in 1 .. Len(q) - l + 1 : Same(q, t, a, p, l)
  BY <1>2, PartIs
<1>4. PICK a \in 1 .. Len(q) - l + 1 : Same(q, t, a, p, l)
  BY <1>3
<1>5. x \in p .. p + l - 1
  BY DEF l
<1>6. x - p \in 0 .. l - 1 /\ p + (x - p) = x /\ a + (x - p) \in 1 .. Len(q) /\ x \in p .. Len(t)
  BY <1>1, <1>2, <1>3, <1>5
<1>7. q[a + (x - p)] = t[x]
  BY <1>4, <1>6 DEF Same
<1> QED
  BY <1>1, <1>6, <1>7 DEF Range

\* Behind the text nothing is selected.
LEMMA SelectsEnd ==
  ASSUME NEW X, NEW q \in Seq(X), NEW t \in Seq(X), NEW p \in Nat, p > Len(t)
  PROVE  Selects(q, t, p, <<>>)
<1>1. \A x : ~(x \in p .. Len(t))
  BY LenNat
<1>2. <<>> \in Seq(Selection) /\ \A n : ~(n \in 1 .. Len(<<>>))
  BY EmptySeq, EmptyOnce
<1> QED
  BY <1>1, <1>2 DEF Selects

\* A word that is not in the query is passed over.
LEMMA SelectsSkip ==
  ASSUME NEW X, NEW q \in Seq(X), NEW t \in Seq(X), NEW p \in 1 .. Len(t), Long(q, t, p) = 0,
         NEW s, Selects(q, t, p + 1, s)
  PROVE  Selects(q, t, p, s)
<1>1. Len(t) \in Nat /\ p \in Nat
  BY LenNat
<1>2. t[p] \notin Range(q)
  BY LongFacts
<1>3. \A x \in p .. Len(t) : x = p \/ x \in p + 1 .. Len(t)
  BY <1>1
<1>4. \A x \in p + 1 .. Len(t) : x \in p .. Len(t)
  BY <1>1
<1> QED
  BY <1>2, <1>3, <1>4 DEF Selects

\* A selection is put in front of those behind it.
LEMMA SelectsPut ==
  ASSUME NEW X, NEW q \in Seq(X), NEW t \in Seq(X), NEW p \in 1 .. Len(t), Long(q, t, p) > 0,
         NEW s, Selects(q, t, p + Long(q, t, p), s)
  PROVE  Selects(q, t, p, <<[start |-> p, size |-> Long(q, t, p)]>> \o s)
<1> DEFINE l == Long(q, t, p)
           r == [start |-> p, size |-> l]
           c == <<r>> \o s
<1>1. Len(t) \in Nat /\ p \in Nat /\ l \in Nat \ {0}
  BY LenNat, LongFacts
<1>2. \A x \in p .. p + l - 1 : x \in p .. Len(t) /\ t[x] \in Range(q)
  BY PartIn
<1>3. /\ s \in Seq(Selection)
      /\ \A n \in 1 .. Len(s) : /\ s[n].start \in p + l .. Len(t) /\ s[n].size = Long(q, t, s[n].start)
                                /\ s[n].size > 0
      /\ \A x \in p + l .. Len(t) : t[x] \in Range(q) => \E n \in 1 .. Len(s) : Covers(s[n], x)
      /\ \A n \in 1 .. Len(s) : \A x : Covers(s[n], x) => x \in p + l .. Len(t) /\ t[x] \in Range(q)
      /\ \A n \in 1 .. Len(s) : \A m \in 1 .. Len(s) : \A x : Covers(s[n], x) /\ Covers(s[m], x) => n = m
  BY DEF Selects
<1>4. r \in Selection /\ r.start = p /\ r.size = l
  BY <1>1 DEF Selection
<1> HIDE DEF r
<1>5. /\ c \in Seq(Selection) /\ Len(s) \in Nat /\ Len(c) = Len(s) + 1 /\ c[1] = r
      /\ \A n \in 1 .. Len(s) : c[n + 1] = s[n]
  <2>1. <<r>> \in Seq(Selection) /\ Len(<<r>>) = 1 /\ <<r>>[1] = r
    BY <1>4
  <2>2. c \in Seq(Selection) /\ ConcatFacts(<<r>>, s)
    BY <1>3, <2>1, Concat
  <2>3. Len(s) \in Nat /\ Len(c) = 1 + Len(s) /\ (\A j \in 1 .. 1 : c[j] = r) /\ \A j \in 1 .. Len(s) : c[1 + j] = s[j]
    BY <2>1, <2>2 DEF ConcatFacts
  <2>4. \A j \in 1 .. Len(s) : 1 + j = j + 1
    BY <2>3
  <2>5. 1 \in 1 .. 1 /\ 1 + Len(s) = Len(s) + 1
    BY <2>3
  <2> QED
    BY <2>2, <2>3, <2>4, <2>5
<1> HIDE DEF c, l
<1>6. \A n \in 1 .. Len(c) : n = 1 \/ (n - 1 \in 1 .. Len(s) /\ c[n] = s[n - 1] /\ n \in Int)
  <2> TAKE n \in 1 .. Len(c)
  <2>1. n = 1 \/ (n - 1 \in 1 .. Len(s) /\ (n - 1) + 1 = n /\ n \in Int)
    BY <1>5
  <2> QED
    BY <1>5, <2>1
<1>7. \A x \in p + l .. Len(t) : x \in p .. Len(t) /\ ~(x \in p .. p + l - 1)
  BY <1>1
<1>8. \A x \in p .. Len(t) : x \in p .. p + l - 1 \/ x \in p + l .. Len(t)
  BY <1>1
<1>9. \A x : Covers(r, x) <=> x \in p .. p + l - 1
  BY <1>4 DEF Covers
<1>10. p \in p .. p + l - 1
  BY <1>1
<1>11. \A n \in 1 .. Len(c) : c[n].start \in p .. Len(t) /\ c[n].size = Long(q, t, c[n].start) /\ c[n].size > 0
  <2> TAKE n \in 1 .. Len(c)
  <2>1. CASE n = 1
    BY <1>1, <1>2, <1>4, <1>5, <1>10, <2>1 DEF l
  <2>2. CASE n - 1 \in 1 .. Len(s) /\ c[n] = s[n - 1]
    BY <1>3, <1>7, <2>2
  <2> QED
    BY <1>6, <2>1, <2>2
<1>12. ASSUME NEW x \in p .. Len(t), t[x] \in Range(q) PROVE \E n \in 1 .. Len(c) : Covers(c[n], x)
  <2>1. CASE x \in p .. p + l - 1
    <3>1. 1 \in 1 .. Len(c)
      BY <1>5
    <3> QED
      BY <1>5, <1>9, <2>1, <3>1
  <2>2. CASE x \in p + l .. Len(t)
    <3>1. PICK n \in 1 .. Len(s) : Covers(s[n], x)
      BY <1>3, <1>12, <2>2
    <3>2. n + 1 \in 1 .. Len(c)
      BY <1>5
    <3> QED
      BY <1>5, <3>1, <3>2
  <2> QED
    BY <1>8, <2>1, <2>2
<1>13. ASSUME NEW n \in 1 .. Len(c), NEW x, Covers(c[n], x) PROVE x \in p .. Len(t) /\ t[x] \in Range(q)
  <2>1. CASE n = 1
    BY <1>2, <1>5, <1>9, <1>13, <2>1
  <2>2. CASE n - 1 \in 1 .. Len(s) /\ c[n] = s[n - 1]
    BY <1>3, <1>7, <1>13, <2>2
  <2> QED
    BY <1>6, <2>1, <2>2
<1>14. ASSUME NEW n \in 1 .. Len(c), NEW m \in 1 .. Len(c), NEW x, Covers(c[n], x), Covers(c[m], x) PROVE n = m
  <2>1. \A j \in 1 .. Len(c) : Covers(c[j], x) =>
          (j = 1 /\ x \in p .. p + l - 1)
          \/ (j - 1 \in 1 .. Len(s) /\ Covers(s[j - 1], x) /\ x \in p + l .. Len(t) /\ j \in Int)
    <3> TAKE j \in 1 .. Len(c)
    <3> HAVE Covers(c[j], x)
    <3>1. CASE j = 1
      BY <1>5, <1>9, <3>1
    <3>2. CASE j - 1 \in 1 .. Len(s) /\ c[j] = s[j - 1] /\ j \in Int
      BY <1>3, <3>2
    <3> QED
      BY <1>6, <3>1, <3>2
  <2>2. CASE x \in p + l .. Len(t)
    <3>1. /\ n - 1 \in 1 .. Len(s) /\ Covers(s[n - 1], x) /\ n \in Int
          /\ m - 1 \in 1 .. Len(s) /\ Covers(s[m - 1], x) /\ m \in Int
      BY <1>7, <1>14, <2>1, <2>2
    <3>2. n - 1 = m - 1
      BY <1>3, <3>1
    <3> QED
      BY <3>1, <3>2
  <2>3. CASE ~(x \in p + l .. Len(t))
    BY <1>14, <2>1, <2>3
  <2> QED
    BY <2>2, <2>3
<1>15. Selects(q, t, p, c)
  BY <1>5, <1>11, <1>12, <1>13, <1>14 DEF Selects
<1> QED
  BY <1>15 DEF c, r, l

\* get_selections selects the words of the query, each once and as long as it can.
LEMMA SelectionsAre ==
  ASSUME NEW X, NEW q \in Seq(X), NEW t \in Seq(X)
  PROVE  Selects(q, t, 1, get_selections(q, t))
<1> DEFINE last == Len(t)
<1>1. PICK f : Walks(q, t, f) /\ get_selections(q, t) = f[1]
  BY SelectionsRecursion
<1>2. last \in Nat /\ \A p \in 1 .. last : Long(q, t, p) \in Nat /\ p + Long(q, t, p) <= last + 1
  BY LenNat, WalkFacts
<1>3. \A p \in 1 .. last + 1 : p > last => f[p] = <<>>
  BY <1>1 DEF Walks
<1>4. ASSUME NEW p \in 1 .. last
      PROVE  /\ Long(q, t, p) = 0 => f[p] = f[p + 1]
             /\ Long(q, t, p) # 0 => f[p] = <<[start |-> p, size |-> Long(q, t, p)]>> \o f[p + Long(q, t, p)]
  <2> DEFINE l == [r \in DOMAIN t |-> Max({0} \cup Sizes(q, t, r))][p]
  <2>1. p \in 1 .. last + 1 /\ ~(p > last)
    BY <1>2
  <2>2. f[p] = IF p > last THEN <<>> ELSE IF l = 0 THEN f[p + 1] ELSE <<[start |-> p, size |-> l]>> \o f[p + l]
    BY <1>1, <2>1 DEF Walks
  <2>3. l = Long(q, t, p)
    BY WalkFacts
  <2> HIDE DEF l
  <2> QED
    BY <2>1, <2>2, <2>3
<1> HIDE DEF last
<1> DEFINE N == {n \in Nat : \A p \in 1 .. last + 1 : p + n > last => Selects(q, t, p, f[p])}
<1>5. 0 \in N
  <2> SUFFICES ASSUME NEW p \in 1 .. last + 1, p + 0 > last PROVE Selects(q, t, p, f[p])
    OBVIOUS
  <2>1. p \in Nat /\ p > last
    BY <1>2
  <2> QED
    BY <1>3, <2>1, SelectsEnd DEF last
<1>6. ASSUME NEW n \in Nat, n \in N PROVE n + 1 \in N
  <2>1. SUFFICES ASSUME NEW p \in 1 .. last + 1, p + (n + 1) > last PROVE Selects(q, t, p, f[p])
    OBVIOUS
  <2>2. p \in Nat /\ p > 0
    BY <1>2
  <2>3. CASE p > last
    BY <1>3, <2>2, <2>3, SelectsEnd DEF last
  <2>4. CASE p <= last
    <3>1. p \in 1 .. last
      BY <1>2, <2>2, <2>4
    <3> DEFINE l == Long(q, t, p)
    <3>2. l \in Nat /\ p + l <= last + 1
      BY <1>2, <3>1
    <3>3. CASE l = 0
      <4>1. p + 1 \in 1 .. last + 1 /\ (p + 1) + n > last
        BY <1>2, <2>1, <3>1
      <4>2. Selects(q, t, p + 1, f[p + 1])
        BY <1>6, <4>1
      <4> QED
        BY <1>4, <3>1, <3>3, <4>2, SelectsSkip DEF last
    <3>4. CASE l # 0
      <4>1. p + l \in 1 .. last + 1 /\ (p + l) + n > last /\ l > 0
        <5> HIDE DEF l
        <5> QED
          BY <1>2, <2>1, <3>1, <3>2, <3>4
      <4>2. Selects(q, t, p + l, f[p + l])
        BY <1>6, <4>1
      <4>3. f[p] = <<[start |-> p, size |-> Long(q, t, p)]>> \o f[p + Long(q, t, p)]
        BY <1>4, <3>1, <3>4
      <4>4. Selects(q, t, p + Long(q, t, p), f[p + Long(q, t, p)]) /\ p \in 1 .. Len(t) /\ Long(q, t, p) > 0
        BY <3>1, <4>1, <4>2 DEF last
      <4>5. Selects(q, t, p, <<[start |-> p, size |-> Long(q, t, p)]>> \o f[p + Long(q, t, p)])
        BY <4>4, SelectsPut
      <4> QED
        BY <4>3, <4>5
    <3> QED
      BY <3>3, <3>4
  <2> QED
    BY <1>2, <2>2, <2>3, <2>4
<1>7. Nat \subseteq N
  <2> HIDE DEF N
  <2> QED
    BY <1>5, <1>6, NatSets
<1>8. Selects(q, t, 1, f[1])
  <2>1. last \in N /\ 1 \in 1 .. last + 1 /\ 1 + last > last
    <3> HIDE DEF N
    <3> QED
      BY <1>2, <1>7
  <2> QED
    BY <2>1
<1> QED
  BY <1>1, <1>8

\* The selections of one text mark the query.
Marks(q, s) ==
  /\ \A p \in DOMAIN s.text :
       Cardinality({n \in DOMAIN s.selections : Covers(s.selections[n], p)})
         = IF s.text[p] \in Range(q) THEN 1 ELSE 0
  /\ \A n \in DOMAIN s.selections :
       LET sel == s.selections[n]
       IN /\ PartAt(q, s.text, sel.start, sel.size)
          /\ ~PartAt(q, s.text, sel.start, sel.size + 1)

\* The selections mark the query.
LEMMA SelectionsDo ==
  ASSUME NEW X, NEW q \in Seq(X), NEW s, s.text \in Seq(X), s.selections = get_selections(q, s.text)
  PROVE  Marks(q, s)
<1> DEFINE t == s.text
           c == s.selections
<1>1. t \in Seq(X) /\ Selects(q, t, 1, c)
  BY SelectionsAre
<1> HIDE DEF t, c
<1>2. /\ c \in Seq(Selection)
      /\ \A n \in 1 .. Len(c) : c[n].start \in 1 .. Len(t) /\ c[n].size = Long(q, t, c[n].start) /\ c[n].size > 0
      /\ \A x \in 1 .. Len(t) : t[x] \in Range(q) => \E n \in 1 .. Len(c) : Covers(c[n], x)
      /\ \A n \in 1 .. Len(c) : \A x : Covers(c[n], x) => x \in 1 .. Len(t) /\ t[x] \in Range(q)
      /\ \A n \in 1 .. Len(c) : \A m \in 1 .. Len(c) : \A x : Covers(c[n], x) /\ Covers(c[m], x) => n = m
  BY <1>1 DEF Selects
<1>3. DOMAIN t = 1 .. Len(t) /\ DOMAIN c = 1 .. Len(c)
  BY <1>1, <1>2
<1>4. ASSUME NEW p \in DOMAIN t
      PROVE  Cardinality({n \in DOMAIN c : Covers(c[n], p)}) = IF t[p] \in Range(q) THEN 1 ELSE 0
  <2> DEFINE H == {n \in DOMAIN c : Covers(c[n], p)}
  <2>1. CASE t[p] \in Range(q)
    <3>1. PICK n \in 1 .. Len(c) : Covers(c[n], p)
      BY <1>2, <1>3, <2>1
    <3>2. H = {n}
      BY <1>2, <1>3, <3>1
    <3> HIDE DEF H
    <3>3. Cardinality(H) = 1
      BY <3>2, FS_Singleton
    <3> QED
      BY <2>1, <3>3 DEF H
  <2>2. CASE t[p] \notin Range(q)
    <3>1. H = {}
      BY <1>2, <1>3, <2>2
    <3> HIDE DEF H
    <3>2. Cardinality(H) = 0
      BY <3>1, FS_EmptySet
    <3> QED
      BY <2>2, <3>2 DEF H
  <2> QED
    BY <2>1, <2>2
<1>5. ASSUME NEW n \in DOMAIN c
      PROVE  PartAt(q, t, c[n].start, c[n].size) /\ ~PartAt(q, t, c[n].start, c[n].size + 1)
  <2>1. c[n].start \in 1 .. Len(t) /\ c[n].size = Long(q, t, c[n].start) /\ c[n].size > 0
    BY <1>2, <1>3
  <2> QED
    BY <1>1, <2>1, LongFacts
<1>6. /\ \A p \in DOMAIN s.text :
           Cardinality({n \in DOMAIN s.selections : Covers(s.selections[n], p)})
             = IF s.text[p] \in Range(q) THEN 1 ELSE 0
      /\ \A n \in DOMAIN s.selections :
           /\ PartAt(q, s.text, s.selections[n].start, s.selections[n].size)
           /\ ~PartAt(q, s.text, s.selections[n].start, s.selections[n].size + 1)
  BY <1>4, <1>5 DEF t, c
<1> QED
  BY <1>6 DEF Marks

\* The phrases of a document with their selections, and the one without text.
LEMMA MarkedFacts ==
  ASSUME NEW q, NEW lines \in Seq(Line)
  PROVE  /\ DOMAIN Marked(q, lines) = 1 .. Len(lines) + 1 /\ Len(lines) \in Nat
         /\ Len(Marked(q, lines)) = Len(lines) + 1
         /\ \A j \in 1 .. Len(lines) + 1 :
              /\ Marked(q, lines)[j].text \in Seq(Chunks)
              /\ Marked(q, lines)[j].selections = get_selections(q, Marked(q, lines)[j].text)
         /\ \A j \in 1 .. Len(lines) : Marked(q, lines)[j].text = lines[j].text
                                       /\ Marked(q, lines)[j].time = lines[j].time
<1> DEFINE last == [text |-> <<>>, time |-> 0]
           ph == getPhrases(lines)
           all == Marked(q, lines)
<1>1. last \in Line
  BY EmptySeq DEF Line
<1>2. ph = Append(lines, last)
  BY DEF getPhrases
<1>3. /\ ph \in Seq(Line) /\ Len(lines) \in Nat /\ Len(ph) = Len(lines) + 1 /\ DOMAIN ph = 1 .. Len(lines) + 1
      /\ \A j \in 1 .. Len(lines) : ph[j] = lines[j]
  BY <1>1, <1>2
<1> HIDE DEF ph, last
<1>4. \A j \in 1 .. Len(lines) + 1 : ph[j] \in Line /\ ph[j].text \in Seq(Chunks)
  <2>1. \A x \in Line : x.text \in Seq(Chunks)
    BY DEF Line
  <2> QED
    BY <1>3, <2>1
<1>5. all = [n \in 1 .. Len(lines) + 1 |-> [text |-> ph[n].text, time |-> ph[n].time,
                                            selections |-> get_selections(q, ph[n].text)]]
  BY <1>3 DEF Marked, ph
<1>6. \A j \in 1 .. Len(lines) + 1 :
        all[j].text = ph[j].text /\ all[j].time = ph[j].time /\ all[j].selections = get_selections(q, ph[j].text)
  BY <1>5
<1>7. DOMAIN all = 1 .. Len(lines) + 1 /\ Len(all) = Len(lines) + 1
  BY <1>3, <1>5
<1>8. \A j \in 1 .. Len(lines) : j \in 1 .. Len(lines) + 1
  BY <1>3
<1> HIDE DEF all
<1>9. \A j \in 1 .. Len(lines) + 1 : all[j].text \in Seq(Chunks) /\ all[j].selections = get_selections(q, all[j].text)
  BY <1>4, <1>6
<1>10. \A j \in 1 .. Len(lines) : all[j].text = lines[j].text /\ all[j].time = lines[j].time
  BY <1>3, <1>6, <1>8
<1> QED
  BY <1>3, <1>7, <1>9, <1>10 DEF all

\* sn are the phrases S of a document, in the order o.
Shows(all, S, o, sn) ==
  /\ sn = [n \in DOMAIN o |-> all[o[n]]]
  /\ DOMAIN o = 1 .. Cardinality(S) /\ \A n \in DOMAIN o : o[n] \in S
  /\ \A m, n \in DOMAIN o : m < n => all[o[m]].time <= all[o[n]].time
  /\ \A m, n \in DOMAIN o : m # n => o[m] # o[n]

\* Snippets are a choice of the phrases, in order of time.
LEMMA SnippetsAre ==
  ASSUME NEW q, NEW lines, NEW sn \in get_snippets(q, lines)
  PROVE  \E S \in Chosen(q, lines) : \E o : Shows(Marked(q, lines), S, o, sn)
<1> DEFINE all == Marked(q, lines)
<1>1. \E S \in Chosen(q, lines) : \E o \in InOrderOfTime(all, S) : sn = [n \in DOMAIN o |-> all[o[n]]]
  BY DEF get_snippets
<1> HIDE DEF all
<1>2. PICK S \in Chosen(q, lines) : \E o \in InOrderOfTime(all, S) : sn = [n \in DOMAIN o |-> all[o[n]]]
  BY <1>1
<1>3. PICK o \in InOrderOfTime(all, S) : sn = [n \in DOMAIN o |-> all[o[n]]]
  BY <1>2
<1>4. o \in SetToSeqs(S) /\ \A m, n \in DOMAIN o : m < n => all[o[m]].time <= all[o[n]].time
  BY <1>3 DEF InOrderOfTime
<1>5. o \in [1 .. Cardinality(S) -> S] /\ \A m, n \in 1 .. Cardinality(S) : m # n => o[m] # o[n]
  BY <1>4 DEF SetToSeqs
<1>6. Shows(all, S, o, sn)
  BY <1>3, <1>4, <1>5 DEF Shows
<1> QED
  BY <1>2, <1>6 DEF all

\* No phrase left out ranks above one that was chosen.
LEMMA ChosenFacts ==
  ASSUME NEW q, NEW lines \in Seq(Line), NEW S \in Chosen(q, lines)
  PROVE  /\ S \subseteq 1 .. Len(lines) + 1 /\ IsFiniteSet(S)
         /\ \A n \in S : \A m \in (1 .. Len(lines) + 1) \ S :
              ~snippet_ranker(Marked(q, lines)[m], Marked(q, lines)[n], q)
<1> DEFINE all == Marked(q, lines)
<1>1. DOMAIN all = 1 .. Len(lines) + 1 /\ Len(lines) \in Nat
  BY MarkedFacts
<1> HIDE DEF all
<1>2. S \in SUBSET DOMAIN all /\ \A n \in S, m \in DOMAIN all \ S : ~snippet_ranker(all[m], all[n], q)
  BY DEF Chosen, kSubset, all
<1>3. IsFiniteSet(1 .. Len(lines) + 1)
  <2>1. 1 \in Int /\ Len(lines) + 1 \in Int
    BY <1>1
  <2> QED
    BY <2>1, FS_Interval
<1> QED
  BY <1>1, <1>2, <1>3, FS_Subset DEF all

\* A query can be looked for in a phrase.
LEMMA FormsAreChunks ==
  ASSUME NEW q \in Seq(Forms)
  PROVE  q \in Seq(Chunks)
<1>1. Forms \subseteq Chunks
  BY TermsAssumption
<1> QED
  BY <1>1

\* What an answer has of its document.
LEMMA AnswerIs ==
  ASSUME IInv, NEW n \in DOMAIN answer
  PROVE  /\ answer[n].doc \in 1 .. Len(corpus) /\ corpus \in Corpora /\ request.query \in Seq(Chunks)
         /\ corpus[answer[n].doc].lines \in Seq(Line)
         /\ answer[n].snippets \in get_snippets(request.query, corpus[answer[n].doc].lines)
<1>1. corpus \in Corpora /\ request \in Requests /\ answer \in Seq(Answers(request, corpus))
  BY DEF IInv, InvFixed, InvAnswer
<1>2. answer[n] \in Answers(request, corpus)
  BY <1>1
<1>3. PICK d \in 1 .. Len(corpus) : \E s \in get_snippets(request.query, corpus[d].lines) :
                                      answer[n] = [doc |-> d, snippets |-> s]
  BY <1>2 DEF Answers
<1>4. answer[n].doc = d /\ answer[n].snippets \in get_snippets(request.query, corpus[d].lines)
  BY <1>3
<1>5. request.query \in Seq(Forms) /\ corpus[d].lines \in Seq(Line)
  BY <1>1, CorpusFacts, RequestsAssumption
<1>6. request.query \in Seq(Chunks)
  BY <1>5, FormsAreChunks
<1> QED
  BY <1>1, <1>4, <1>5, <1>6

\* The invariant says that selections mark the query.
LEMMA InvSelectionsMark == IInv => SelectionsMark
<1> SUFFICES ASSUME IInv, NEW s \in Snips PROVE Marks(request.query, s)
  BY DEF SelectionsMark, Marks
<1>1. PICK n \in DOMAIN answer : s \in Range(answer[n].snippets)
  BY DEF Snips
<1> DEFINE q == request.query
           lines == corpus[answer[n].doc].lines
           all == Marked(q, lines)
           sn == answer[n].snippets
<1>2. q \in Seq(Chunks) /\ lines \in Seq(Line) /\ sn \in get_snippets(q, lines)
  BY AnswerIs
<1> HIDE DEF q, lines
<1>3. PICK S \in Chosen(q, lines) : \E o : Shows(all, S, o, sn)
  BY <1>2, SnippetsAre
<1>4. PICK o : Shows(all, S, o, sn)
  BY <1>3
<1>5. PICK j \in DOMAIN o : s = all[o[j]] /\ o[j] \in S
  BY <1>1, <1>4 DEF Shows, Range
<1>6. o[j] \in 1 .. Len(lines) + 1
  BY <1>2, <1>5, ChosenFacts
<1>7. s.text \in Seq(Chunks) /\ s.selections = get_selections(q, s.text)
  BY <1>2, <1>5, <1>6, MarkedFacts
<1> QED
  BY <1>2, <1>7, SelectionsDo DEF q

\* The size of the longest part of q that is anywhere in t.
PartOf(q, t) == Max({0} \cup {size \in 1 .. Len(q) : \E p \in DOMAIN t : PartAt(q, t, p, size)})

\* It is a part, and none is longer.
LEMMA PartOfFacts ==
  ASSUME NEW X, NEW q \in Seq(X), NEW t \in Seq(X)
  PROVE  /\ PartOf(q, t) \in Nat /\ PartOf(q, t) <= Len(q)
         /\ \A p \in 1 .. Len(t) : \A size \in Nat \ {0} : PartAt(q, t, p, size) => size <= PartOf(q, t)
         /\ PartOf(q, t) > 0 => \E p \in 1 .. Len(t) : PartAt(q, t, p, PartOf(q, t))
<1> DEFINE S == {0} \cup {size \in 1 .. Len(q) : \E p \in DOMAIN t : PartAt(q, t, p, size)}
           l == PartOf(q, t)
<1>1. Len(q) \in Nat /\ DOMAIN t = 1 .. Len(t)
  BY LenNat
<1>2. S \subseteq 0 .. Len(q) /\ S # {}
  BY <1>1
<1>3. l \in S /\ \A x \in S : x <= l
  BY <1>1, <1>2, MaxFacts DEF PartOf
<1> HIDE DEF l
<1>4. l \in Nat /\ l <= Len(q)
  BY <1>1, <1>2, <1>3
<1>5. ASSUME NEW p \in 1 .. Len(t), NEW size \in Nat \ {0}, PartAt(q, t, p, size) PROVE size <= l
  <2>1. size <= Len(q)
    BY <1>5, LongFacts
  <2>2. size \in S
    BY <1>1, <1>5, <2>1
  <2> QED
    BY <1>3, <2>2
<1>6. ASSUME l > 0 PROVE \E p \in 1 .. Len(t) : PartAt(q, t, p, l)
  BY <1>1, <1>3, <1>6
<1> QED
  BY <1>4, <1>5, <1>6 DEF l

\* Two parts that meet are one, if no word is twice in the query.
LEMMA PartsMeet ==
  ASSUME NEW X, NEW q \in Seq(X), NEW t \in Seq(X), IsInjective(q),
         NEW st \in 1 .. Len(t), NEW size \in Nat \ {0}, PartAt(q, t, st, size),
         NEW p \in 1 .. Len(t), NEW l \in Nat \ {0}, PartAt(q, t, p, l),
         st < p, p <= st + size - 1
  PROVE  PartAt(q, t, st, (p - st) + l)
<1>1. Len(q) \in Nat /\ Len(t) \in Nat /\ DOMAIN q = 1 .. Len(q)
  BY LenNat
<1>2. st + size - 1 <= Len(t) /\ \E a \in 1 .. Len(q) - size + 1 : Same(q, t, a, st, size)
  BY PartIs
<1>3. p + l - 1 <= Len(t) /\ \E b \in 1 .. Len(q) - l + 1 : Same(q, t, b, p, l)
  BY PartIs
<1>4. PICK a \in 1 .. Len(q) - size + 1 : Same(q, t, a, st, size)
  BY <1>2
<1>5. PICK b \in 1 .. Len(q) - l + 1 : Same(q, t, b, p, l)
  BY <1>3
<1> DEFINE g == p - st
           m == g + l
<1>6. /\ g \in Nat \ {0} /\ g \in 0 .. size - 1 /\ st + g = p /\ a + g \in 1 .. Len(q) /\ b \in 1 .. Len(q)
      /\ 0 \in 0 .. l - 1 /\ b + 0 = b /\ p + 0 = p
  BY <1>1
<1>7. q[a + g] = t[st + g] /\ q[b + 0] = t[p + 0]
  BY <1>4, <1>5, <1>6 DEF Same
<1>8. q[a + g] = q[b]
  BY <1>6, <1>7
<1>9. a + g = b
  BY <1>1, <1>6, <1>8 DEF IsInjective
<1>10. m \in Nat \ {0} /\ st + m - 1 <= Len(t) /\ a \in 1 .. Len(q) - m + 1
  BY <1>1, <1>3, <1>6, <1>9
<1>11. Same(q, t, a, st, m)
  <2> SUFFICES ASSUME NEW j \in 0 .. m - 1 PROVE q[a + j] = t[st + j]
    BY DEF Same
  <2>1. CASE j < g
    <3>1. j \in 0 .. size - 1
      BY <1>6, <2>1
    <3> QED
      BY <1>4, <3>1 DEF Same
  <2>2. CASE ~(j < g)
    <3>1. j - g \in 0 .. l - 1 /\ b + (j - g) = a + j /\ p + (j - g) = st + j
      BY <1>6, <1>9, <2>2
    <3>2. q[b + (j - g)] = t[p + (j - g)]
      BY <1>5, <3>1 DEF Same
    <3> QED
      BY <3>1, <3>2
  <2> QED
    BY <2>1, <2>2
<1> HIDE DEF m
<1>12. PartAt(q, t, st, m)
  BY <1>10, <1>11, PartIs
<1> QED
  BY <1>12 DEF m

\* The longest part of q in a text is selected, if no word is twice in q.
LEMMA LongestSelected ==
  ASSUME NEW X, NEW q \in Seq(X), NEW t \in Seq(X), NEW c, c = get_selections(q, t)
  PROVE  /\ c \in Seq(Selection) /\ \A n \in 1 .. Len(c) : c[n].size <= PartOf(q, t)
         /\ IsInjective(q) /\ PartOf(q, t) > 0 => \E n \in 1 .. Len(c) : c[n].size = PartOf(q, t)
<1> DEFINE l == PartOf(q, t)
<1>1. /\ c \in Seq(Selection)
      /\ \A n \in 1 .. Len(c) : c[n].start \in 1 .. Len(t) /\ c[n].size = Long(q, t, c[n].start) /\ c[n].size > 0
      /\ \A x \in 1 .. Len(t) : t[x] \in Range(q) => \E n \in 1 .. Len(c) : Covers(c[n], x)
  <2>1. Selects(q, t, 1, c)
    BY SelectionsAre
  <2>2. Len(t) \in Nat /\ 1 .. Len(t) = {x \in 1 .. Len(t) : x >= 1}
    BY LenNat
  <2> QED
    BY <2>1, <2>2 DEF Selects
<1>2. /\ l \in Nat
      /\ \A p \in 1 .. Len(t) : \A size \in Nat \ {0} : PartAt(q, t, p, size) => size <= l
      /\ l > 0 => \E p \in 1 .. Len(t) : PartAt(q, t, p, l)
  BY PartOfFacts
<1> HIDE DEF l
<1>3. \A n \in 1 .. Len(c) : c[n].size \in Nat \ {0} /\ PartAt(q, t, c[n].start, c[n].size)
  <2> TAKE n \in 1 .. Len(c)
  <2>1. Long(q, t, c[n].start) \in Nat /\ PartAt(q, t, c[n].start, Long(q, t, c[n].start))
    BY <1>1, LongFacts
  <2>2. \A x \in Nat : x > 0 => x \in Nat \ {0}
    OBVIOUS
  <2> QED
    BY <1>1, <2>1, <2>2
<1>4. \A n \in 1 .. Len(c) : c[n].size <= l
  BY <1>1, <1>2, <1>3
<1>5. ASSUME IsInjective(q), l > 0 PROVE \E n \in 1 .. Len(c) : c[n].size = l
  <2>1. PICK p \in 1 .. Len(t) : PartAt(q, t, p, l)
    BY <1>2, <1>5
  <2>2. l \in Nat \ {0} /\ Len(t) \in Nat
    BY <1>2, <1>5, LenNat
  <2>3. l <= Long(q, t, p) /\ Long(q, t, p) \in Nat
    BY <2>1, <2>2, LongFacts
  <2>4. t[p] \in Range(q)
    <3>1. Long(q, t, p) > 0
      BY <2>2, <2>3
    <3> QED
      BY <3>1, LongFacts
  <2>5. PICK n \in 1 .. Len(c) : Covers(c[n], p)
    BY <1>1, <2>4
  <2> DEFINE st == c[n].start
             size == c[n].size
  <2>6. st \in 1 .. Len(t) /\ size \in Nat \ {0} /\ PartAt(q, t, st, size) /\ size <= l /\ size = Long(q, t, st)
        /\ p \in st .. st + size - 1
    BY <1>1, <1>3, <1>4, <2>5 DEF Covers
  <2> HIDE DEF st, size
  <2>7. st = p
    <3> SUFFICES ASSUME st # p PROVE FALSE
      OBVIOUS
    <3>1. st < p /\ p <= st + size - 1 /\ (p - st) + l \in Nat \ {0} /\ ~((p - st) + l <= l)
      BY <2>2, <2>6
    <3>2. PartAt(q, t, st, (p - st) + l)
      BY <1>5, <2>1, <2>2, <2>6, <3>1, PartsMeet
    <3> QED
      BY <1>2, <2>6, <3>1, <3>2
  <2>8. size = l
    BY <2>2, <2>3, <2>6, <2>7
  <2> QED
    BY <2>8 DEF size
<1> QED
  BY <1>1, <1>4, <1>5 DEF l

\* The statistic of a size is not 0 when a selection has that size.
LEMMA StatisticFacts ==
  ASSUME NEW c \in Seq(Selection), NEW size
  PROVE  /\ Statistic(c, size) \in Nat
         /\ Statistic(c, size) > 0 <=> \E n \in 1 .. Len(c) : c[n].size = size
<1> DEFINE S == {n \in DOMAIN c : c[n].size = size}
<1>1. DOMAIN c = 1 .. Len(c) /\ Len(c) \in Nat
  OBVIOUS
<1>2. IsFiniteSet(DOMAIN c)
  <2>1. 1 \in Int /\ Len(c) \in Int
    BY <1>1
  <2> QED
    BY <1>1, <2>1, FS_Interval
<1>3. S \subseteq DOMAIN c
  OBVIOUS
<1>4. S # {} <=> \E n \in 1 .. Len(c) : c[n].size = size
  BY <1>1
<1> HIDE DEF S
<1>5. Cardinality(S) \in Nat /\ (Cardinality(S) = 0 <=> S = {})
  BY <1>2, <1>3, FS_Subset, FS_CardinalityType, FS_EmptySet
<1>6. Cardinality(S) > 0 <=> S # {}
  BY <1>5
<1> QED
  BY <1>4, <1>5, <1>6 DEF Statistic, S

\* A phrase with a longer part of the query ranks above.
LEMMA LongerFirst ==
  ASSUME NEW X, NEW q \in Seq(X), IsInjective(q), NEW a, a.text \in Seq(X), a.selections = get_selections(q, a.text),
         NEW b, b.text \in Seq(X), b.selections = get_selections(q, b.text),
         PartOf(q, a.text) > PartOf(q, b.text)
  PROVE  snippet_ranker(a, b, q)
<1> DEFINE x == PartOf(q, a.text)
           y == PartOf(q, b.text)
           c == a.selections
           e == b.selections
<1>1. x \in Nat /\ y \in Nat /\ x <= Len(q) /\ x > y /\ Len(q) \in Nat /\ DOMAIN q = 1 .. Len(q)
  BY PartOfFacts, LenNat
<1>2. /\ c \in Seq(Selection) /\ \A n \in 1 .. Len(c) : c[n].size <= x
      /\ x > 0 => \E n \in 1 .. Len(c) : c[n].size = x
  <2> DEFINE v == a.text
  <2>1. v \in Seq(X) /\ c = get_selections(q, v) /\ x = PartOf(q, v)
    OBVIOUS
  <2> HIDE DEF v, c, x
  <2> QED
    BY <2>1, LongestSelected
<1>3. e \in Seq(Selection) /\ \A n \in 1 .. Len(e) : e[n].size <= y
  <2> DEFINE v == b.text
  <2>1. v \in Seq(X) /\ e = get_selections(q, v) /\ y = PartOf(q, v)
    OBVIOUS
  <2> HIDE DEF v, e, y
  <2> QED
    BY <2>1, LongestSelected
<1> HIDE DEF x, y, c, e
<1>4. x \in DOMAIN q
  BY <1>1
<1>5. \A n \in 1 .. Len(c) : c[n].size \in Nat
  <2>1. \A n \in 1 .. Len(c) : c[n] \in Selection
    BY <1>2
  <2>2. \A r \in Selection : r.size \in Nat
    BY DEF Selection
  <2> QED
    BY <2>1, <2>2
<1>6. \A n \in 1 .. Len(e) : e[n].size \in Nat
  <2>1. \A n \in 1 .. Len(e) : e[n] \in Selection
    BY <1>3
  <2>2. \A r \in Selection : r.size \in Nat
    BY DEF Selection
  <2> QED
    BY <2>1, <2>2
<1>7. \A size \in Nat : size >= x => ~(\E n \in 1 .. Len(e) : e[n].size = size)
  BY <1>1, <1>3, <1>6
<1>8. \A size \in Nat : size > x => ~(\E n \in 1 .. Len(c) : c[n].size = size)
  BY <1>1, <1>2, <1>5
<1>9. Statistic(c, x) > 0 /\ Statistic(c, x) \in Nat
  BY <1>1, <1>2, StatisticFacts
<1>10. \A size \in Nat : size >= x => Statistic(e, size) = 0
  <2> TAKE size \in Nat
  <2> HAVE size >= x
  <2>1. Statistic(e, size) \in Nat /\ ~(Statistic(e, size) > 0)
    BY <1>3, <1>7, StatisticFacts
  <2> QED
    BY <2>1
<1>11. \A size \in Nat : size > x => Statistic(c, size) = 0
  <2> TAKE size \in Nat
  <2> HAVE size > x
  <2>1. Statistic(c, size) \in Nat /\ ~(Statistic(c, size) > 0)
    BY <1>2, <1>8, StatisticFacts
  <2> QED
    BY <2>1
<1>12. Statistic(c, x) > Statistic(e, x)
  <2>1. Statistic(e, x) = 0
    BY <1>1, <1>10
  <2> QED
    BY <1>9, <2>1
<1>13. \A longer \in x + 1 .. Len(q) : Statistic(c, longer) = Statistic(e, longer)
  <2> TAKE longer \in x + 1 .. Len(q)
  <2>1. longer \in Nat /\ longer > x /\ longer >= x
    BY <1>1
  <2> QED
    BY <1>10, <1>11, <2>1
<1> QED
  BY <1>4, <1>12, <1>13 DEF snippet_ranker, c, e

\* All phrases chosen are shown.
LEMMA ShowsAll ==
  ASSUME NEW all, NEW S, IsFiniteSet(S), NEW o, NEW sn, Shows(all, S, o, sn)
  PROVE  \A x \in S : \E n \in DOMAIN o : o[n] = x
<1> DEFINE D == 1 .. Cardinality(S)
           f == [n \in D |-> o[n]]
<1>1. Cardinality(S) \in Nat
  BY FS_CardinalityType
<1>2. IsFiniteSet(D) /\ Cardinality(D) = Cardinality(S)
  <2> DEFINE l == Cardinality(S)
  <2>1. 1 \in Int /\ l \in Int
    BY <1>1
  <2> HIDE DEF l
  <2>2. IsFiniteSet(1 .. l) /\ Cardinality(1 .. l) = IF 1 > l THEN 0 ELSE l - 1 + 1
    BY <2>1, FS_Interval
  <2>3. l \in Nat
    BY <1>1 DEF l
  <2>4. Cardinality(1 .. l) = l
    BY <2>2, <2>3
  <2> QED
    BY <2>2, <2>4 DEF l
<1>3. DOMAIN o = D /\ (\A n \in D : o[n] \in S) /\ \A m, n \in D : m # n => o[m] # o[n]
  BY DEF Shows
<1> HIDE DEF D
<1>4. f \in [D -> S] /\ \A n \in D : f[n] = o[n]
  BY <1>3
<1> HIDE DEF f
<1>5. f \in Injection(D, S)
  BY <1>3, <1>4 DEF Injection, IsInjective
<1>6. f \in Surjection(D, S)
  BY <1>2, <1>5, FS_Injection
<1> QED
  BY <1>3, <1>4, <1>6 DEF Surjection

\* The invariant says that the best phrases are shown.
LEMMA InvBestSnippets == IInv => BestSnippets
<1> SUFFICES ASSUME IInv, NEW n \in DOMAIN answer
             PROVE  /\ \A a, b \in DOMAIN answer[n].snippets :
                         a < b => answer[n].snippets[a].time <= answer[n].snippets[b].time
                    /\ IsInjective(request.query) =>
                         \A line \in Range(corpus[answer[n].doc].lines) :
                           \/ \E s \in Range(answer[n].snippets) : s.text = line.text /\ s.time = line.time
                           \/ \A s \in Range(answer[n].snippets) : LongestPart(line.text) <= LongestPart(s.text)
  BY DEF BestSnippets
<1> DEFINE q == request.query
           lines == corpus[answer[n].doc].lines
           sn == answer[n].snippets
<1>1. q \in Seq(Chunks) /\ lines \in Seq(Line) /\ sn \in get_snippets(q, lines)
  BY AnswerIs
<1>2. \A t : LongestPart(t) = PartOf(q, t)
  BY DEF LongestPart, PartOf
<1> HIDE DEF q, lines, sn
<1> DEFINE all == Marked(q, lines)
<1>3. PICK S \in Chosen(q, lines) : \E o : Shows(all, S, o, sn)
  BY <1>1, SnippetsAre
<1>4. PICK o : Shows(all, S, o, sn)
  BY <1>3
<1>5. /\ DOMAIN all = 1 .. Len(lines) + 1 /\ Len(lines) \in Nat /\ DOMAIN lines = 1 .. Len(lines)
      /\ \A j \in 1 .. Len(lines) + 1 : all[j].text \in Seq(Chunks) /\ all[j].selections = get_selections(q, all[j].text)
      /\ \A j \in 1 .. Len(lines) : all[j].text = lines[j].text /\ all[j].time = lines[j].time
  BY <1>1, MarkedFacts
<1>6. /\ S \subseteq 1 .. Len(lines) + 1 /\ IsFiniteSet(S)
      /\ \A l \in S : \A m \in (1 .. Len(lines) + 1) \ S : ~snippet_ranker(all[m], all[l], q)
  BY <1>1, ChosenFacts
<1> HIDE DEF all
<1>7. \A x \in S : \E m \in DOMAIN o : o[m] = x
  BY <1>4, <1>6, ShowsAll
<1>8. /\ sn = [m \in DOMAIN o |-> all[o[m]]] /\ \A m \in DOMAIN o : o[m] \in S
      /\ \A a, b \in DOMAIN o : a < b => all[o[a]].time <= all[o[b]].time
  BY <1>4 DEF Shows
<1>9. \A a, b \in DOMAIN sn : a < b => sn[a].time <= sn[b].time
  BY <1>8
<1>10. ASSUME IsInjective(q), NEW line \in Range(lines)
       PROVE  \/ \E s \in Range(sn) : s.text = line.text /\ s.time = line.time
              \/ \A s \in Range(sn) : LongestPart(line.text) <= LongestPart(s.text)
  <2>1. PICK j \in 1 .. Len(lines) : line = lines[j]
    BY <1>5 DEF Range
  <2>2. j \in 1 .. Len(lines) + 1 /\ all[j].text = line.text /\ all[j].time = line.time
    BY <1>5, <2>1
  <2>3. CASE j \in S
    <3>1. PICK m \in DOMAIN o : o[m] = j
      BY <1>7, <2>3
    <3>2. sn[m] = all[j] /\ sn[m] \in Range(sn)
      BY <1>8, <3>1 DEF Range
    <3> QED
      BY <2>2, <3>2
  <2>4. CASE j \notin S
    <3> SUFFICES ASSUME NEW s \in Range(sn) PROVE LongestPart(line.text) <= LongestPart(s.text)
      OBVIOUS
    <3>1. PICK m \in DOMAIN o : s = all[o[m]]
      BY <1>8 DEF Range
    <3>2. o[m] \in S /\ o[m] \in 1 .. Len(lines) + 1
      BY <1>6, <1>8
    <3>3. ~snippet_ranker(all[j], s, q)
      BY <1>6, <2>2, <2>4, <3>1, <3>2
    <3>4. /\ all[j].text \in Seq(Chunks) /\ all[j].selections = get_selections(q, all[j].text)
          /\ s.text \in Seq(Chunks) /\ s.selections = get_selections(q, s.text)
      BY <1>5, <2>2, <3>1, <3>2
    <3>5. ~(PartOf(q, all[j].text) > PartOf(q, s.text))
      BY <1>1, <1>10, <3>3, <3>4, LongerFirst
    <3>6. PartOf(q, all[j].text) \in Nat /\ PartOf(q, s.text) \in Nat
      BY <1>1, <3>4, PartOfFacts
    <3>7. PartOf(q, all[j].text) <= PartOf(q, s.text)
      BY <3>5, <3>6
    <3> QED
      BY <1>2, <2>2, <3>7
  <2> QED
    BY <2>3, <2>4
<1> QED
  BY <1>9, <1>10 DEF q, lines, sn

-----------------------------------------------------------------------------
(* The theorems.                                                           *)

\* Every reachable state is well typed: the iterators of get_rank stay a window
\* within the list of positions, and no document is found or kept twice.
THEOREM AnswerTypeOK == Spec => []TypeOK
BY Invariant, InvTypeOK, PTL

\* The rank of a zone is what its windows are worth, each counted once, however
\* get_positions_for_zone has merged the entries and get_rank has moved over them.
THEOREM RanksAreSums == Spec => []WindowsCounted
BY Invariant, InvWindowsCounted, PTL

\* A document with the words of the query in a row in its title is listed ahead
\* of every one with next to nothing of them there, unless the draft dropped it.
THEOREM PhraseIsFirst == Spec => []PhraseFirst
BY Invariant, PhraseInvariant, InvPhraseFirst, PTL

\* get_selections selects every word of the query that stands between blanks in a
\* snippet, once and in a part as long as it can be; for any tokenizer.
THEOREM SelectionsAreMarked == Spec => []SelectionsMark
BY Invariant, InvSelectionsMark, PTL

\* get_snippets shows the phrases with the longest parts of the query between
\* blanks, in order of time, if no word is twice in the query.
THEOREM SnippetsAreBest == Spec => []BestSnippets
BY Invariant, InvBestSnippets, PTL
=============================================================================
