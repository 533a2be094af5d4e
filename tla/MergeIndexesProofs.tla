------------------------- MODULE MergeIndexesProofs -------------------------
(***************************************************************************)
(* The merge of the indexes loses nothing, writes nothing twice and never  *)
(* descends, for any number of files, tokens and items, although its scan  *)
(* passes indexes over.                                                    *)
(*                                                                         *)
(* ListInv: the list holds the files not read to their end, each once.     *)
(* PlacesInv says where every place of a file is: not read, read for the   *)
(* token in hand, or in one item of that token.  OrderInv: what has been   *)
(* written is at most the token in hand, and that is at most what any      *)
(* index of the list still has, passed over or not.  ApartInv: the list is *)
(* in the order of the files, so that an index passed over stands behind   *)
(* the one erased, and a token gets a second item only if both have it.    *)
(***************************************************************************)
EXTENDS MergeIndexes, FiniteSetTheorems, WellFoundedInduction, TLAPS

-----------------------------------------------------------------------------
(* Lemmas on the operators the merge is built from.                        *)

Less == {ss \in Nat \X Nat : ss[1] < ss[2]}

\* No sequence of naturals descends for ever.
LEMMA LessWellFounded == IsWellFoundedOn(Less, Nat)
<1>1. OpToRel(<, Nat) = Less
  BY Zenon DEF OpToRel, Less
<1> QED
  BY NatLessThanWellFounded, <1>1, Zenon

\* What Min returns of a set of naturals is its least element.
LEMMA MinIsLeast ==
  ASSUME NEW S, S \subseteq Nat, S # {}
  PROVE  Min(S) \in S /\ \A y \in S : Min(S) <= y
<1>1. \E x \in S : \A y \in S : ~(<<y, x>> \in Less)
  BY LessWellFounded, WFMin, Zenon
<1>2. PICK x \in S : \A y \in S : ~(<<y, x>> \in Less)
  BY <1>1
<1>3. \A y \in S : x <= y
  <2> TAKE y \in S
  <2>1. x \in Nat /\ y \in Nat /\ ~(<<y, x>> \in Less)
    BY <1>2
  <2> QED
    BY <2>1 DEF Less
<1> QED
  BY <1>3 DEF Min

\* RemoveAt closes the gap.
LEMMA RemoveAtLemma ==
  ASSUME NEW T, NEW s \in Seq(T), NEW i \in 1 .. Len(s)
  PROVE  /\ RemoveAt(s, i) \in Seq(T)
         /\ Len(RemoveAt(s, i)) = Len(s) - 1
         /\ \A j \in 1 .. Len(s) - 1 : RemoveAt(s, i)[j] = IF j < i THEN s[j] ELSE s[j + 1]
<1> DEFINE a == SubSeq(s, 1, i - 1)
           b == SubSeq(s, i + 1, Len(s))
<1>1. a \in Seq(T) /\ Len(a) = i - 1 /\ \A j \in 1 .. i - 1 : a[j] = s[j]
  OBVIOUS
<1>2. b \in Seq(T) /\ Len(b) = Len(s) - i /\ \A j \in 1 .. Len(s) - i : b[j] = s[i + j]
  OBVIOUS
<1>3. RemoveAt(s, i) = a \o b
  BY DEF RemoveAt
<1>4. a \o b \in Seq(T) /\ Len(a \o b) = Len(a) + Len(b)
  BY <1>1, <1>2
<1> HIDE DEF a, b
<1>6. ASSUME NEW j \in 1 .. Len(s) - 1
      PROVE  (a \o b)[j] = IF j < i THEN s[j] ELSE s[j + 1]
  <2>1. CASE j < i
    <3>1. (a \o b)[j] = a[j]
      BY <2>1, <1>1, <1>2
    <3> QED
      BY <3>1, <2>1, <1>1
  <2>2. CASE ~(j < i)
    <3>1. (a \o b)[j] = b[j - Len(a)]
      BY <2>2, <1>1, <1>2
    <3>2. j - (i - 1) \in 1 .. Len(s) - i /\ i + (j - (i - 1)) = j + 1
      BY <2>2
    <3> QED
      BY <3>1, <3>2, <2>2, <1>1, <1>2
  <2> QED
    BY <2>1, <2>2
<1> QED
  BY <1>1, <1>2, <1>3, <1>4, <1>6

-----------------------------------------------------------------------------
(* The inductive invariant.                                                *)

ListInv ==
  /\ \A i, j \in DOMAIN indexes : i # j => indexes[i] # indexes[j]
  /\ \A f \in Files : \/ pos[f] = Len(raw[f]) + 1
                      \/ \E i \in DOMAIN indexes : indexes[i] = f
  /\ raw \in RawIndexes
  /\ pc = "scan" => min \in Tokens
  /\ pc = "done" => indexes = <<>>

InItem(i, f, p) == <<f, p>> \in out[i].places

PlaceInv(f, p) ==
  /\ <<f, p>> \in entries => p < pos[f] /\ min = raw[f][p]
  /\ \A i \in DOMAIN out :
       InItem(i, f, p) => p < pos[f] /\ out[i].token = raw[f][p] /\ <<f, p>> \notin entries
  /\ \A i, j \in DOMAIN out : InItem(i, f, p) /\ InItem(j, f, p) => i = j
  /\ p < pos[f] => <<f, p>> \in entries \/ \E i \in DOMAIN out : InItem(i, f, p)

PlacesInv ==
  /\ pc # "scan" => entries = {}
  /\ \A f \in Files : \A p \in 1 .. Len(raw[f]) : PlaceInv(f, p)

\* The tokens of the items do not descend.
Ordered == \A i, j \in DOMAIN out : i < j => out[i].token <= out[j].token

OrderInv ==
  /\ Ordered
  /\ pc = "scan" => /\ \A k \in DOMAIN indexes : min <= curTok(indexes[k])
                    /\ \A i \in DOMAIN out : out[i].token <= min
  /\ pc = "min" => \A i \in DOMAIN out, k \in DOMAIN indexes : out[i].token <= curTok(indexes[k])

MergeInv == TypeOK /\ ListInv /\ PlacesInv /\ OrderInv

\* What the raw indexes are, one by one.
LEMMA RawFacts ==
  ASSUME NEW r \in RawIndexes
  PROVE  /\ r \in Seq(Seq(Tokens))
         /\ \A f \in DOMAIN r : r[f] \in Seq(Tokens) /\ r[f] # <<>> /\ Ascending(r[f]) /\ 1 \in DOMAIN r[f]
         /\ \A f \in DOMAIN r : \A t \in Tokens : Repeats(r[f], t) => f = 1
<1>1. r \in Seq(RawIndex)
  BY DEF RawIndexes
<1>2. \A s \in RawIndex : s \in Seq(Tokens) /\ s # <<>> /\ Ascending(s) /\ 1 \in DOMAIN s
  BY DEF RawIndex
<1>3. RawIndex \subseteq Seq(Tokens)
  BY DEF RawIndex
<1> QED
  BY <1>1, <1>2, <1>3 DEF RawIndexes

\* The files stay the same.
LEMMA SameFiles == raw' = raw => Files' = Files /\ Places' = Places /\ MergedItems' = MergedItems
  BY DEF Files, Places, MergedItems

\* The invariant holds of every choice of raw indexes.
LEMMA OpenedHolds == raw \in RawIndexes /\ Opened => MergeInv
<1> SUFFICES ASSUME raw \in RawIndexes, Opened PROVE MergeInv
  OBVIOUS
<1>1. \A f \in Files : raw[f] \in Seq(Tokens) /\ 1 \in DOMAIN raw[f]
  BY RawFacts DEF Files
<1>2. raw \in Seq(Seq(Tokens)) /\ Files = 1 .. Len(raw) /\ Len(raw) \in Nat
  BY RawFacts DEF Files
<1>3. /\ pos = [f \in Files |-> 1] /\ indexes = [f \in Files |-> f]
      /\ it = 1 /\ min = 0 /\ entries = {} /\ out = <<>> /\ pc = "min"
  BY DEF Opened
<1>4. indexes \in Seq(Files) /\ DOMAIN indexes = Files /\ \A f \in Files : indexes[f] = f
  BY <1>2, <1>3
<1>6. TypeOK
  BY <1>1, <1>2, <1>3, <1>4 DEF TypeOK, Places
<1>7. ListInv
  BY <1>3, <1>4 DEF ListInv
<1>8. PlacesInv
  BY <1>3 DEF PlacesInv, PlaceInv
<1>9. OrderInv
  BY <1>3 DEF OrderInv, Ordered
<1> QED
  BY <1>6, <1>7, <1>8, <1>9 DEF MergeInv

\* Tokens are naturals, those the indexes stand at as well.
LEMMA TokenTypes ==
  ASSUME TypeOK
  PROVE  /\ \A f \in Files : \A p \in 1 .. Len(raw[f]) : raw[f][p] \in Tokens /\ raw[f][p] \in Nat
         /\ \A k \in DOMAIN indexes : /\ indexes[k] \in Files
                                      /\ curTok(indexes[k]) \in Tokens
                                      /\ curTok(indexes[k]) \in Nat
         /\ \A i \in DOMAIN out : out[i].token \in Nat
<1>1. \A f \in Files : raw[f] \in Seq(Tokens)
  BY DEF TypeOK
<1>2. \A f \in Files : \A p \in 1 .. Len(raw[f]) : raw[f][p] \in Tokens
  BY <1>1
<1>3. \A k \in DOMAIN indexes : indexes[k] \in Files /\ pos[indexes[k]] \in 1 .. Len(raw[indexes[k]])
  BY <1>1 DEF TypeOK
<1>4. \A i \in DOMAIN out : out[i] \in MergedItems
  BY DEF TypeOK
<1> QED
  BY <1>2, <1>3, <1>4, TokensAssumption DEF curTok, MergedItems

-----------------------------------------------------------------------------
(* Every action keeps the invariant.                                       *)

LEMMA FindMinKeeps == MergeInv /\ FindMin => MergeInv'
<1> SUFFICES ASSUME MergeInv, FindMin PROVE MergeInv'
  OBVIOUS
<1> DEFINE S == {curTok(indexes[i]) : i \in DOMAIN indexes}
<1>1. TypeOK /\ ListInv /\ PlacesInv /\ OrderInv /\ indexes # <<>> /\ pc = "min"
  BY DEF MergeInv, FindMin
<1>2. S \subseteq Nat /\ S # {} /\ S \subseteq Tokens
  <2>1. indexes \in Seq(Files)
    BY <1>1 DEF TypeOK
  <2>2. 1 \in DOMAIN indexes
    BY <2>1, <1>1
  <2> QED
    BY <2>2, <1>1, TokenTypes
<1>3. min' = Min(S)
  BY DEF FindMin, MinToken
<1>4. min' \in S /\ \A y \in S : min' <= y
  BY <1>2, <1>3, MinIsLeast
<1>5. /\ UNCHANGED <<raw, pos, indexes, entries, out>>
      /\ it' = 1 /\ pc' = "scan" /\ entries = {}
  BY <1>1 DEF FindMin, PlacesInv
<1>6. TypeOK'
  BY <1>1, <1>2, <1>4, <1>5, SameFiles DEF TypeOK, MergedItems
<1>7. ListInv'
  BY <1>1, <1>2, <1>4, <1>5, SameFiles DEF ListInv
<1>8. PlacesInv'
  BY <1>1, <1>5, SameFiles DEF PlacesInv, PlaceInv, InItem
<1>9. OrderInv'
  <2>1. \A k \in DOMAIN indexes : min' <= curTok(indexes[k])
    BY <1>4
  <2>2. \A i \in DOMAIN out : out[i].token <= min'
    BY <1>1, <1>4 DEF OrderInv
  <2> QED
    BY <1>1, <1>5, <2>1, <2>2 DEF OrderInv, Ordered, curTok
<1> QED
  BY <1>6, <1>7, <1>8, <1>9 DEF MergeInv

LEMMA OtherTokenKeeps == MergeInv /\ OtherToken => MergeInv'
<1> SUFFICES ASSUME MergeInv, OtherToken PROVE MergeInv'
  OBVIOUS
<1>1. /\ TypeOK /\ ListInv /\ PlacesInv /\ OrderInv
      /\ UNCHANGED <<raw, pos, indexes, min, entries, out, pc>> /\ it' = it + 1
  BY DEF MergeInv, OtherToken
<1>2. TypeOK'
  BY <1>1, SameFiles DEF TypeOK
<1>3. ListInv'
  BY <1>1, SameFiles DEF ListInv
<1>4. PlacesInv'
  BY <1>1, SameFiles DEF PlacesInv, PlaceInv, InItem
<1>5. OrderInv'
  BY <1>1 DEF OrderInv, Ordered, curTok
<1> QED
  BY <1>2, <1>3, <1>4, <1>5 DEF MergeInv

\* Reading a token of the round puts one place among the entries in hand.
LEMMA ReadKeepsPlaces ==
  ASSUME MergeInv, AtIndex, Read(indexes[it])
  PROVE  PlacesInv' /\ raw' = raw /\ out' = out /\ min' = min /\ pc' = pc /\ pc = "scan"
<1> DEFINE g == indexes[it]
<1>1. /\ TypeOK /\ PlacesInv /\ pc = "scan"
      /\ entries' = entries \cup {<<g, pos[g]>>}
      /\ pos' = [pos EXCEPT ![g] = @ + 1]
      /\ UNCHANGED <<raw, min, out, pc>>
      /\ raw[g][pos[g]] = min
  BY DEF MergeInv, AtIndex, Read, curTok
<1>2. it \in DOMAIN indexes /\ g \in Files
  BY <1>1 DEF AtIndex, TypeOK
<1>3. ASSUME NEW f \in Files, NEW p \in 1 .. Len(raw[f])
      PROVE  PlaceInv(f, p)'
  <2>1. PlaceInv(f, p)
    BY <1>1, <1>3 DEF PlacesInv
  <2>2. pos[f] \in Nat /\ pos[g] \in Nat /\ p \in Nat
    BY <1>1, <1>2 DEF TypeOK
  <2>3. CASE f = g /\ p = pos[g]
    <3>1. pos'[f] = p + 1 /\ <<f, p>> \in entries'
      BY <1>1, <1>2, <2>3 DEF TypeOK
    <3>2. \A i \in DOMAIN out : ~InItem(i, f, p)
      BY <2>1, <2>2, <2>3 DEF PlaceInv
    <3> QED
      BY <1>1, <2>2, <2>3, <3>1, <3>2 DEF PlaceInv, InItem
  <2>4. CASE ~(f = g /\ p = pos[g])
    <3>1. (<<f, p>> \in entries' <=> <<f, p>> \in entries)
      BY <1>1, <2>4
    <3>2. (p < pos'[f] <=> p < pos[f])
      BY <1>1, <1>2, <2>2, <2>4 DEF TypeOK
    <3> QED
      BY <1>1, <2>1, <3>1, <3>2 DEF PlaceInv, InItem
  <2> QED
    BY <2>3, <2>4
<1> QED
  BY <1>1, <1>3, SameFiles DEF PlacesInv

LEMMA ReadTokenKeeps == MergeInv /\ ReadToken => MergeInv'
<1> SUFFICES ASSUME MergeInv, ReadToken PROVE MergeInv'
  OBVIOUS
<1> DEFINE g == indexes[it]
<1>1. /\ TypeOK /\ ListInv /\ OrderInv /\ pc = "scan"
      /\ HasNext(g) /\ Read(g) /\ AtIndex
      /\ it' = it + 1 /\ indexes' = indexes
  BY DEF MergeInv, ReadToken, AtIndex
<1>2. PlacesInv' /\ raw' = raw /\ out' = out /\ min' = min /\ pc' = pc
  BY <1>1, ReadKeepsPlaces
<1>3. /\ it \in DOMAIN indexes /\ g \in Files /\ pos[g] \in Nat \ {0}
      /\ raw[g] \in Seq(Tokens) /\ Len(raw[g]) \in Nat
  BY <1>1 DEF AtIndex, TypeOK
<1>4. pos' = [pos EXCEPT ![g] = pos[g] + 1] /\ entries' = entries \cup {<<g, pos[g]>>}
  BY <1>1 DEF Read
<1>5. pos[g] \in DOMAIN raw[g] /\ pos[g] + 1 \in DOMAIN raw[g]
  BY <1>1, <1>3 DEF TypeOK, HasNext
<1>6. TypeOK'
  <2>1. pos' \in [Files -> Nat \ {0}]
    BY <1>1, <1>3, <1>4 DEF TypeOK
  <2>2. ASSUME NEW k \in DOMAIN indexes PROVE pos'[indexes[k]] \in DOMAIN raw[indexes[k]]
    BY <1>1, <1>3, <1>4, <1>5 DEF TypeOK
  <2>3. entries' \subseteq Places
    BY <1>1, <1>3, <1>4 DEF TypeOK, Places
  <2>4. raw \in [Files -> Seq(Tokens)] /\ out \in Seq(MergedItems) /\ min \in Tokens \cup {0} /\ pc \in {"min", "scan", "done"}
    BY <1>1 DEF TypeOK
  <2>5. indexes' \in Seq(Files) /\ it' \in Nat \ {0}
    BY <1>1 DEF TypeOK
  <2>6. \A k \in DOMAIN indexes' : pos'[indexes'[k]] \in DOMAIN raw'[indexes'[k]]
    BY <1>1, <1>2, <2>2
  <2> QED
    BY <1>2, <2>1, <2>3, <2>4, <2>5, <2>6, SameFiles DEF TypeOK
<1>7. ListInv'
  <2>1. ASSUME NEW f \in Files
        PROVE  pos'[f] = Len(raw[f]) + 1 \/ \E i \in DOMAIN indexes : indexes[i] = f
    BY <1>1, <1>3, <1>4 DEF ListInv, TypeOK
  <2> QED
    BY <1>1, <1>2, <2>1, SameFiles DEF ListInv
<1>8. OrderInv'
  <2>1. ASSUME NEW k \in DOMAIN indexes PROVE min <= raw[indexes[k]][pos'[indexes[k]]]
    <3>1. min <= curTok(indexes[k]) /\ curTok(indexes[k]) \in Nat /\ min \in Nat
      BY <1>1, TokenTypes, TokensAssumption DEF OrderInv, ListInv
    <3>2. CASE indexes[k] = g
      <4>1. pos'[indexes[k]] = pos[g] + 1
        BY <1>1, <1>3, <1>4, <3>2 DEF TypeOK
      <4>2. raw[g][pos[g]] <= raw[g][pos[g] + 1]
        BY <1>1, <1>3, <1>5, RawFacts DEF ListInv, Files, Ascending
      <4>3. raw[g][pos[g]] = min
        BY <1>1 DEF Read, curTok
      <4> QED
        BY <3>2, <4>1, <4>2, <4>3
    <3>3. CASE indexes[k] # g
      <4>1. pos'[indexes[k]] = pos[indexes[k]]
        BY <1>1, <1>3, <1>4, <3>3 DEF TypeOK
      <4> QED
        BY <3>1, <4>1 DEF curTok
    <3> QED
      BY <3>2, <3>3
  <2> QED
    BY <1>1, <1>2, <2>1 DEF OrderInv, Ordered, curTok
<1> QED
  BY <1>2, <1>6, <1>7, <1>8 DEF MergeInv

LEMMA ReadLastTokenKeeps == MergeInv /\ ReadLastToken => MergeInv'
<1> SUFFICES ASSUME MergeInv, ReadLastToken PROVE MergeInv'
  OBVIOUS
<1> DEFINE g == indexes[it]
<1>1. /\ TypeOK /\ ListInv /\ OrderInv /\ pc = "scan"
      /\ ~HasNext(g) /\ Read(g) /\ AtIndex
      /\ indexes' = RemoveAt(indexes, it)
      /\ it' = IF it = Len(indexes) THEN 1 ELSE it + 1
  BY DEF MergeInv, ReadLastToken, AtIndex
<1>2. PlacesInv' /\ raw' = raw /\ out' = out /\ min' = min /\ pc' = pc
  BY <1>1, ReadKeepsPlaces
<1>3. /\ it \in 1 .. Len(indexes) /\ g \in Files /\ pos[g] \in Nat \ {0}
      /\ raw[g] \in Seq(Tokens) /\ Len(raw[g]) \in Nat /\ indexes \in Seq(Files)
  BY <1>1 DEF AtIndex, TypeOK
<1>4. pos' = [pos EXCEPT ![g] = pos[g] + 1] /\ entries' = entries \cup {<<g, pos[g]>>}
  BY <1>1 DEF Read
<1>5. pos[g] = Len(raw[g])
  BY <1>1, <1>3 DEF TypeOK, HasNext
<1>6. /\ indexes' \in Seq(Files) /\ Len(indexes') = Len(indexes) - 1
      /\ \A j \in 1 .. Len(indexes) - 1 :
           indexes'[j] = IF j < it THEN indexes[j] ELSE indexes[j + 1]
  BY <1>1, <1>3, RemoveAtLemma
<1>7. ASSUME NEW k \in DOMAIN indexes'
      PROVE  /\ k \in 1 .. Len(indexes) - 1
             /\ indexes'[k] # g
             /\ \E j \in DOMAIN indexes : indexes'[k] = indexes[j]
  <2>1. k \in 1 .. Len(indexes) - 1
    BY <1>6
  <2>2. CASE k < it
    BY <1>1, <1>3, <1>6, <2>1, <2>2, SMTT(30) DEF ListInv
  <2>3. CASE ~(k < it)
    <3>1. k + 1 \in DOMAIN indexes /\ k + 1 # it /\ indexes'[k] = indexes[k + 1]
      BY <1>3, <1>6, <2>1, <2>3
    <3> QED
      BY <1>1, <1>3, <2>1, <3>1 DEF ListInv
  <2> QED
    BY <2>2, <2>3
<1>8. TypeOK'
  <2>1. pos' \in [Files -> Nat \ {0}]
    BY <1>1, <1>3, <1>4 DEF TypeOK
  <2>2. ASSUME NEW k \in DOMAIN indexes' PROVE pos'[indexes'[k]] \in DOMAIN raw[indexes'[k]]
    <3>1. PICK j \in DOMAIN indexes : indexes'[k] = indexes[j]
      BY <1>7
    <3>2. indexes[j] \in Files /\ indexes[j] # g
      BY <1>3, <1>7, <3>1
    <3>3. pos'[indexes[j]] = pos[indexes[j]]
      BY <1>1, <1>3, <1>4, <3>2 DEF TypeOK
    <3> QED
      BY <1>1, <3>1, <3>3 DEF TypeOK
  <2>3. entries' \subseteq Places
    BY <1>1, <1>3, <1>4 DEF TypeOK, Places
  <2>4. it' \in Nat \ {0}
    BY <1>1, <1>3
  <2> QED
    BY <1>1, <1>2, <1>6, <2>1, <2>2, <2>3, <2>4, SameFiles DEF TypeOK
<1>9. ListInv'
  <2>1. ASSUME NEW i \in DOMAIN indexes', NEW j \in DOMAIN indexes', i # j
        PROVE  indexes'[i] # indexes'[j]
    <3> DEFINE old(k) == IF k < it THEN k ELSE k + 1
    <3>1. /\ i \in 1 .. Len(indexes) - 1 /\ j \in 1 .. Len(indexes) - 1
      BY <1>7
    <3>2. /\ old(i) \in DOMAIN indexes /\ old(j) \in DOMAIN indexes /\ old(i) # old(j)
      BY <1>3, <2>1, <3>1
    <3>3. indexes'[i] = indexes[old(i)] /\ indexes'[j] = indexes[old(j)]
      BY <1>6, <3>1
    <3> QED
      BY <1>1, <3>2, <3>3 DEF ListInv
  <2>2. ASSUME NEW f \in Files
        PROVE  pos'[f] = Len(raw[f]) + 1 \/ \E i \in DOMAIN indexes' : indexes'[i] = f
    <3>1. CASE f = g
      BY <1>1, <1>3, <1>4, <1>5, <3>1 DEF TypeOK
    <3>2. CASE f # g
      <4>1. pos'[f] = pos[f]
        BY <1>1, <1>3, <1>4, <3>2 DEF TypeOK
      <4>2. CASE pos[f] = Len(raw[f]) + 1
        BY <4>1, <4>2
      <4>3. CASE \E i \in DOMAIN indexes : indexes[i] = f
        <5>1. PICK i \in 1 .. Len(indexes) : indexes[i] = f
          BY <1>3, <4>3
        <5>2. i # it
          BY <3>2, <5>1
        <5>3. CASE i < it
          <6>1. i \in 1 .. Len(indexes) - 1
            BY <1>3, <5>3
          <6> QED
            BY <1>6, <5>1, <5>3, <6>1
        <5>4. CASE i > it
          <6>1. i - 1 \in 1 .. Len(indexes) - 1 /\ ~(i - 1 < it) /\ (i - 1) + 1 = i
            BY <1>3, <5>4
          <6> QED
            BY <1>6, <5>1, <6>1
        <5> QED
          BY <1>3, <5>2, <5>3, <5>4
      <4> QED
        BY <1>1, <4>2, <4>3 DEF ListInv
    <3> QED
      BY <3>1, <3>2
  <2> QED
    BY <1>1, <1>2, <2>1, <2>2, SameFiles DEF ListInv
<1>10. OrderInv'
  <2>1. ASSUME NEW k \in DOMAIN indexes' PROVE min <= raw[indexes'[k]][pos'[indexes'[k]]]
    <3>1. PICK j \in DOMAIN indexes : indexes'[k] = indexes[j]
      BY <1>7
    <3>2. indexes[j] \in Files /\ indexes[j] # g
      BY <1>3, <1>7, <3>1
    <3>3. pos'[indexes[j]] = pos[indexes[j]]
      BY <1>1, <1>3, <1>4, <3>2 DEF TypeOK
    <3> QED
      BY <1>1, <3>1, <3>3 DEF OrderInv, curTok
  <2> QED
    BY <1>1, <1>2, <2>1 DEF OrderInv, Ordered, curTok
<1> QED
  BY <1>2, <1>8, <1>9, <1>10 DEF MergeInv

\* The item takes the entries in hand with it.
LEMMA WritingKeeps == MergeInv /\ WriteItem => MergeInv'
<1> SUFFICES ASSUME MergeInv, WriteItem PROVE MergeInv'
  OBVIOUS
<1> DEFINE item == [token |-> min, places |-> entries]
<1>1. /\ TypeOK /\ ListInv /\ PlacesInv /\ OrderInv /\ pc = "scan"
      /\ out' = Append(out, item) /\ entries' = {} /\ pc' = "min"
      /\ UNCHANGED <<raw, pos, indexes, it, min>>
  BY DEF MergeInv, WriteItem
<1>2. item \in MergedItems /\ out \in Seq(MergedItems)
  BY <1>1 DEF TypeOK, ListInv, MergedItems
<1>3. /\ out' \in Seq(MergedItems) /\ Len(out') = Len(out) + 1 /\ Len(out) \in Nat
      /\ DOMAIN out' = 1 .. Len(out) + 1
      /\ \A i \in 1 .. Len(out) : out'[i] = out[i]
      /\ out'[Len(out) + 1] = item
  BY <1>1, <1>2
<1>4. TypeOK'
  BY <1>1, <1>3, SameFiles DEF TypeOK
<1>5. ListInv'
  BY <1>1, SameFiles DEF ListInv
<1>6. PlacesInv'
  <2>1. ASSUME NEW f \in Files, NEW p \in 1 .. Len(raw[f])
        PROVE  PlaceInv(f, p)'
    <3>1. PlaceInv(f, p)
      BY <1>1, <2>1 DEF PlacesInv
    <3>2. \A i \in DOMAIN out : <<f, p>> \in out'[i].places <=> <<f, p>> \in out[i].places
      <4>1. \A i \in DOMAIN out : out'[i] = out[i]
        BY <1>2, <1>3
      <4> HIDE DEF item
      <4> QED
        BY <4>1
    <3>3. <<f, p>> \in out'[Len(out) + 1].places <=> <<f, p>> \in entries
      <4>1. out'[Len(out) + 1].places = entries
        BY <1>3
      <4> HIDE DEF item
      <4> QED
        BY <4>1
    <3>4. \A i \in DOMAIN out' : i \in DOMAIN out \/ i = Len(out) + 1
      BY <1>2, <1>3
    <3>5. ASSUME NEW i \in DOMAIN out', <<f, p>> \in out'[i].places
          PROVE  p < pos[f] /\ out'[i].token = raw[f][p]
      <4>1. CASE i \in DOMAIN out
        <5>1. out'[i] = out[i]
          BY <1>2, <1>3, <4>1
        <5>2. p < pos[f] /\ out[i].token = raw[f][p]
          BY <3>1, <3>5, <4>1, <5>1 DEF PlaceInv, InItem
        <5> QED
          BY <5>1, <5>2
      <4>2. CASE i = Len(out) + 1
        BY <1>3, <3>1, <3>3, <3>5, <4>2 DEF PlaceInv, InItem
      <4> QED
        BY <3>4, <4>1, <4>2
    <3>6. ASSUME NEW i \in DOMAIN out', NEW j \in DOMAIN out', <<f, p>> \in out'[i].places, <<f, p>> \in out'[j].places
          PROVE  i = j
      BY <3>1, <3>2, <3>3, <3>4, <3>6 DEF PlaceInv, InItem
    <3>7. p < pos[f] => \E i \in DOMAIN out' : <<f, p>> \in out'[i].places
      <4>1. \A i \in DOMAIN out : i \in DOMAIN out'
        BY <1>2, <1>3
      <4>2. Len(out) + 1 \in DOMAIN out'
        BY <1>3
      <4> QED
        BY <3>1, <3>2, <3>3, <4>1, <4>2 DEF PlaceInv, InItem
    <3> QED
      BY <1>1, <3>5, <3>6, <3>7 DEF PlaceInv, InItem
  <2> QED
    BY <1>1, <2>1, SameFiles DEF PlacesInv
<1>7. OrderInv'
  <2>1. \A i \in DOMAIN out' : out'[i].token <= min
    <3>1. min \in Nat
      BY <1>1, TokensAssumption DEF ListInv
    <3> QED
      BY <1>1, <1>2, <1>3, <3>1 DEF OrderInv
  <2>2. ASSUME NEW i \in DOMAIN out', NEW j \in DOMAIN out', i < j
        PROVE  out'[i].token <= out'[j].token
    <3>1. CASE j = Len(out) + 1
      BY <1>3, <2>1, <3>1
    <3>2. CASE j # Len(out) + 1
      <4>1. i \in 1 .. Len(out) /\ j \in 1 .. Len(out)
        BY <1>3, <2>2, <3>2
      <4> QED
        BY <1>1, <1>2, <1>3, <2>2, <4>1 DEF OrderInv, Ordered
    <3> QED
      BY <3>1, <3>2
  <2>3. ASSUME NEW i \in DOMAIN out', NEW k \in DOMAIN indexes
        PROVE  out'[i].token <= curTok(indexes[k])
    <3>1. out'[i].token <= min /\ min <= curTok(indexes[k])
      BY <1>1, <2>1 DEF OrderInv
    <3>2. out'[i].token \in Nat /\ min \in Nat /\ curTok(indexes[k]) \in Nat
      <4>1. out'[i] \in MergedItems
        BY <1>3
      <4>2. min \in Nat
        BY <1>1, TokensAssumption DEF ListInv
      <4> QED
        BY <1>1, <4>1, <4>2, TokenTypes, TokensAssumption DEF MergedItems
    <3> QED
      BY <3>1, <3>2
  <2> QED
    BY <1>1, <2>2, <2>3 DEF OrderInv, Ordered, curTok
<1> QED
  BY <1>4, <1>5, <1>6, <1>7 DEF MergeInv

LEMMA RenameKeeps == MergeInv /\ Rename => MergeInv'
<1> SUFFICES ASSUME MergeInv, Rename PROVE MergeInv'
  OBVIOUS
<1>1. /\ TypeOK /\ ListInv /\ PlacesInv /\ OrderInv /\ pc = "min" /\ indexes = <<>>
      /\ UNCHANGED <<raw, pos, indexes, it, min, entries, out>> /\ pc' = "done"
  BY DEF MergeInv, Rename
<1>2. TypeOK'
  BY <1>1, SameFiles DEF TypeOK
<1>3. ListInv'
  BY <1>1, SameFiles DEF ListInv
<1>4. PlacesInv'
  BY <1>1, SameFiles DEF PlacesInv, PlaceInv, InItem
<1>5. OrderInv'
  BY <1>1 DEF OrderInv, Ordered
<1> QED
  BY <1>2, <1>3, <1>4, <1>5 DEF MergeInv

LEMMA StutterKeeps == MergeInv /\ UNCHANGED vars => MergeInv'
<1> SUFFICES ASSUME MergeInv, UNCHANGED vars PROVE MergeInv'
  OBVIOUS
<1> USE DEF vars
<1>1. TypeOK'
  BY SameFiles DEF MergeInv, TypeOK
<1>2. ListInv'
  BY SameFiles DEF MergeInv, ListInv
<1>3. PlacesInv'
  BY SameFiles DEF MergeInv, PlacesInv, PlaceInv, InItem
<1>4. OrderInv'
  BY DEF MergeInv, OrderInv, Ordered, curTok
<1> QED
  BY <1>1, <1>2, <1>3, <1>4 DEF MergeInv

\* A step of the merge keeps it.
LEMMA StepKeeps == MergeInv /\ [Next]_vars => MergeInv'
  BY FindMinKeeps, OtherTokenKeeps, ReadTokenKeeps, ReadLastTokenKeeps, WritingKeeps,
     RenameKeeps, StutterKeeps DEF Next

-----------------------------------------------------------------------------
(* Where a token comes twice.                                              *)

InOrder == \A i, j \in DOMAIN indexes : i < j => indexes[i] < indexes[j]

ApartInv ==
  /\ InOrder
  /\ \A i, j \in DOMAIN out : i < j /\ ~Divided(out[i].token) => out[i].token # out[j].token
  /\ pc = "scan" =>
       /\ \A i \in DOMAIN out : ~Divided(out[i].token) => out[i].token # min
       /\ ~Divided(min) => \A k \in DOMAIN indexes : k < it => curTok(indexes[k]) # min
  /\ pc = "min" => \A i \in DOMAIN out, k \in DOMAIN indexes :
                     ~Divided(out[i].token) => out[i].token # curTok(indexes[k])

IInv == MergeInv /\ ApartInv

LEMMA OpenedApart == raw \in RawIndexes /\ Opened => ApartInv
  BY RawFacts DEF Opened, ApartInv, InOrder

\* Where an index stands behind a token that no file has twice, it is at a greater one.
LEMMA NextIsGreater ==
  ASSUME MergeInv, NEW f \in Files, NEW p \in 1 .. Len(raw[f]), NEW q \in 1 .. Len(raw[f]), p < q,
         ~Divided(raw[f][p])
  PROVE  raw[f][p] # raw[f][q]
  BY TokenTypes DEF MergeInv, Divided, Repeats

LEMMA FindMinApart == IInv /\ FindMin => ApartInv'
<1> SUFFICES ASSUME IInv, FindMin PROVE ApartInv'
  OBVIOUS
<1>1. /\ MergeInv /\ ApartInv /\ pc = "min" /\ indexes # <<>> /\ TypeOK
      /\ UNCHANGED <<raw, pos, indexes, entries, out>> /\ it' = 1 /\ pc' = "scan"
      /\ min' = MinToken
  BY DEF IInv, MergeInv, FindMin
<1>2. \E k \in DOMAIN indexes : min' = curTok(indexes[k])
  <2> DEFINE S == {curTok(indexes[i]) : i \in DOMAIN indexes}
  <2>0. 1 \in DOMAIN indexes
    BY <1>1 DEF TypeOK
  <2>1. S \subseteq Nat /\ S # {}
    BY <1>1, <2>0, TokenTypes
  <2> HIDE DEF S
  <2>2. Min(S) \in S
    BY <2>1, MinIsLeast
  <2> QED
    BY <1>1, <2>2 DEF MinToken, S
<1>3. \A t : Divided(t)' = Divided(t)
  BY <1>1, SameFiles DEF Divided, Repeats
<1> QED
  BY <1>1, <1>2, <1>3 DEF ApartInv, InOrder, TypeOK, curTok

LEMMA OtherTokenApart == IInv /\ OtherToken => ApartInv'
<1> SUFFICES ASSUME IInv, OtherToken PROVE ApartInv'
  OBVIOUS
<1>1. /\ MergeInv /\ ApartInv /\ TypeOK /\ pc = "scan" /\ it <= Len(indexes) /\ curTok(indexes[it]) # min
      /\ UNCHANGED <<raw, pos, indexes, min, entries, out, pc>> /\ it' = it + 1
  BY DEF IInv, MergeInv, OtherToken, AtIndex
<1>2. \A t : Divided(t)' = Divided(t)
  BY <1>1, SameFiles DEF Divided, Repeats
<1>3. \A k \in DOMAIN indexes : k < it' => k < it \/ k = it
  BY <1>1 DEF TypeOK
<1> QED
  BY <1>1, <1>2, <1>3 DEF ApartInv, InOrder, curTok

LEMMA ReadTokenApart == IInv /\ ReadToken => ApartInv'
<1> SUFFICES ASSUME IInv, ReadToken PROVE ApartInv'
  OBVIOUS
<1> DEFINE g == indexes[it]
<1>1. /\ MergeInv /\ ApartInv /\ TypeOK /\ pc = "scan" /\ it \in DOMAIN indexes /\ g \in Files
      /\ HasNext(g) /\ raw[g][pos[g]] = min /\ pos' = [pos EXCEPT ![g] = @ + 1]
      /\ UNCHANGED <<raw, min, out, pc, indexes>> /\ it' = it + 1
  BY DEF IInv, MergeInv, ReadToken, Read, AtIndex, curTok, TypeOK
<1>2. \A t : Divided(t)' = Divided(t)
  BY <1>1, SameFiles DEF Divided, Repeats
<1>3. \A k \in DOMAIN indexes : k # it => indexes[k] # g /\ pos'[indexes[k]] = pos[indexes[k]]
  BY <1>1 DEF TypeOK, MergeInv, ListInv
<1>4. ~Divided(min) => raw[g][pos'[g]] # min
  <2>1. /\ pos[g] \in 1 .. Len(raw[g]) /\ pos[g] + 1 \in 1 .. Len(raw[g]) /\ pos[g] < pos[g] + 1
        /\ pos'[g] = pos[g] + 1
    BY <1>1 DEF TypeOK, HasNext
  <2> QED
    BY <1>1, <2>1, NextIsGreater
<1>5. \A k \in DOMAIN indexes : k < it' => k < it \/ k = it
  <2>1. it \in Nat /\ indexes \in Seq(Files) /\ it' = it + 1
    BY <1>1 DEF TypeOK
  <2>2. \A k \in DOMAIN indexes : k \in Nat
    BY <2>1
  <2> QED
    BY <2>1, <2>2
<1>6. ASSUME ~Divided(min), NEW k \in DOMAIN indexes, k < it' PROVE raw[indexes[k]][pos'[indexes[k]]] # min
  <2>1. CASE k = it
    BY <1>4, <1>6, <2>1
  <2>2. CASE k # it
    BY <1>1, <1>3, <1>5, <1>6, <2>2 DEF ApartInv, curTok
  <2> QED
    BY <2>1, <2>2
<1> QED
  BY <1>1, <1>2, <1>6 DEF ApartInv, InOrder, curTok

\* The index passed over stands behind the erased one and has another token.
LEMMA ReadLastTokenApart == IInv /\ ReadLastToken => ApartInv'
<1> SUFFICES ASSUME IInv, ReadLastToken PROVE ApartInv'
  OBVIOUS
<1> DEFINE g == indexes[it]
           old(k) == IF k < it THEN k ELSE k + 1
<1>1. /\ MergeInv /\ ApartInv /\ TypeOK /\ pc = "scan" /\ it \in 1 .. Len(indexes) /\ g \in Files
      /\ ~HasNext(g) /\ raw[g][pos[g]] = min /\ pos' = [pos EXCEPT ![g] = @ + 1]
      /\ UNCHANGED <<raw, min, out, pc>>
      /\ indexes' = RemoveAt(indexes, it) /\ it' = IF it = Len(indexes) THEN 1 ELSE it + 1
  BY DEF IInv, MergeInv, ReadLastToken, Read, AtIndex, curTok, TypeOK
<1>2. \A t : Divided(t)' = Divided(t)
  BY <1>1, SameFiles DEF Divided, Repeats
<1>3. /\ indexes \in Seq(Files) /\ Len(indexes) \in Nat /\ DOMAIN indexes' = 1 .. Len(indexes) - 1
      /\ \A k \in 1 .. Len(indexes) - 1 : indexes'[k] = indexes[old(k)] /\ old(k) \in DOMAIN indexes /\ old(k) # it
  <2>1. indexes \in Seq(Files)
    BY <1>1 DEF TypeOK
  <2>2. /\ indexes' \in Seq(Files) /\ Len(indexes') = Len(indexes) - 1
        /\ \A j \in 1 .. Len(indexes) - 1 : indexes'[j] = IF j < it THEN indexes[j] ELSE indexes[j + 1]
    BY <1>1, <2>1, RemoveAtLemma
  <2> QED
    BY <1>1, <2>1, <2>2
<1>4. ASSUME NEW k \in DOMAIN indexes'
      PROVE  /\ indexes'[k] = indexes[old(k)] /\ old(k) \in DOMAIN indexes /\ old(k) # it
             /\ indexes[old(k)] \in Files /\ pos'[indexes[old(k)]] = pos[indexes[old(k)]]
  <2>1. old(k) \in DOMAIN indexes /\ old(k) # it /\ indexes'[k] = indexes[old(k)]
    BY <1>3
  <2>2. indexes[old(k)] \in Files /\ indexes[old(k)] # g
    BY <1>1, <1>3, <2>1 DEF MergeInv, ListInv
  <2> QED
    BY <1>1, <2>1, <2>2 DEF TypeOK
<1>5. InOrder'
  <2>1. ASSUME NEW j \in DOMAIN indexes', NEW k \in DOMAIN indexes', j < k
        PROVE  old(j) < old(k)
    BY <1>1, <1>3, <2>1
  <2> QED
    BY <1>1, <1>4, <2>1 DEF ApartInv, InOrder
<1>6. ASSUME ~Divided(min), NEW k \in DOMAIN indexes', k < it' PROVE raw[indexes'[k]][pos'[indexes'[k]]] # min
  <2>1. raw[indexes'[k]][pos'[indexes'[k]]] = curTok(indexes[old(k)])
    BY <1>4 DEF curTok
  <2>2. CASE k < it
    BY <1>1, <1>4, <1>6, <2>1, <2>2 DEF ApartInv
  <2>3. CASE ~(k < it)
    <3>1. k = it /\ old(k) = it + 1 /\ it < old(k)
      BY <1>1, <1>3, <1>6, <2>3
    <3>2. g < indexes[old(k)]
      BY <1>1, <1>4, <3>1 DEF ApartInv, InOrder
    <3>3. Last(raw[g]) = min
      BY <1>1 DEF TypeOK, HasNext, Last
    <3>4. min \notin Range(raw[indexes[old(k)]])
      BY <1>1, <1>4, <1>6, <3>2, <3>3 DEF Divided
    <3>5. pos[indexes[old(k)]] \in DOMAIN raw[indexes[old(k)]]
      BY <1>1, <1>4 DEF TypeOK
    <3> QED
      BY <2>1, <3>4, <3>5 DEF Range, curTok
  <2> QED
    BY <2>2, <2>3
<1> QED
  BY <1>1, <1>2, <1>5, <1>6 DEF ApartInv, curTok

\* What has been passed over or read in this round stands at a greater token.
LEMMA WriteItemApart == IInv /\ WriteItem => ApartInv'
<1> SUFFICES ASSUME IInv, WriteItem PROVE ApartInv'
  OBVIOUS
<1> DEFINE item == [token |-> min, places |-> entries]
<1>1. /\ MergeInv /\ ApartInv /\ TypeOK /\ pc = "scan" /\ it > Len(indexes)
      /\ out' = Append(out, item) /\ pc' = "min" /\ UNCHANGED <<raw, pos, indexes, it, min>>
  BY DEF IInv, MergeInv, WriteItem
<1>2. \A t : Divided(t)' = Divided(t)
  BY <1>1, SameFiles DEF Divided, Repeats
<1>3. /\ \A i \in DOMAIN out' : i \in 1 .. Len(out) \/ i = Len(out) + 1
      /\ \A i \in 1 .. Len(out) : out'[i].token = out[i].token /\ i \in DOMAIN out
      /\ out'[Len(out) + 1].token = min
      /\ Len(out) \in Nat
  <2>1. /\ Len(out') = Len(out) + 1 /\ Len(out) \in Nat /\ DOMAIN out' = 1 .. Len(out) + 1
        /\ DOMAIN out = 1 .. Len(out)
        /\ \A i \in 1 .. Len(out) : out'[i] = out[i]
        /\ out'[Len(out) + 1] = item
    BY <1>1 DEF TypeOK
  <2> QED
    BY <2>1
<1>4. \A k \in DOMAIN indexes : ~Divided(min) => min # curTok(indexes[k])
  <2>1. \A k \in DOMAIN indexes : k < it
    BY <1>1 DEF TypeOK
  <2> QED
    BY <1>1, <2>1 DEF ApartInv
<1>5. ASSUME NEW i \in DOMAIN out', NEW k \in DOMAIN indexes, ~Divided(out'[i].token)
      PROVE  out'[i].token # curTok(indexes[k])
  <2>1. CASE i = Len(out) + 1
    BY <1>3, <1>4, <1>5, <2>1
  <2>2. CASE i \in 1 .. Len(out)
    <3>1. out[i].token # min /\ out[i].token <= min /\ min <= curTok(indexes[k])
      BY <1>1, <1>3, <1>5, <2>2 DEF ApartInv, MergeInv, OrderInv
    <3>2. out[i].token \in Nat /\ min \in Nat /\ curTok(indexes[k]) \in Nat
      BY <1>1, <1>3, <2>2, TokenTypes, TokensAssumption DEF MergeInv, ListInv
    <3> QED
      BY <1>3, <2>2, <3>1, <3>2
  <2> QED
    BY <1>3, <2>1, <2>2
<1>6. ASSUME NEW i \in DOMAIN out', NEW j \in DOMAIN out', i < j, ~Divided(out'[i].token)
      PROVE  out'[i].token # out'[j].token
  <2>1. i \in 1 .. Len(out)
    BY <1>3, <1>6
  <2>2. CASE j = Len(out) + 1
    BY <1>1, <1>3, <1>6, <2>1, <2>2 DEF ApartInv
  <2>3. CASE j \in 1 .. Len(out)
    BY <1>1, <1>3, <1>6, <2>1, <2>3 DEF ApartInv
  <2> QED
    BY <1>3, <2>2, <2>3
<1> QED
  BY <1>1, <1>2, <1>5, <1>6 DEF ApartInv, InOrder, curTok

\* A step of the merge keeps the whole invariant.
LEMMA InvKeeps == IInv /\ [Next]_vars => IInv'
<1> SUFFICES ASSUME IInv, [Next]_vars PROVE ApartInv'
  BY StepKeeps DEF IInv
<1>1. CASE Rename \/ UNCHANGED vars
  <2>1. UNCHANGED <<raw, pos, indexes, it, min, out>> /\ (pc' = "done" \/ pc' = pc) /\ ApartInv
    BY <1>1 DEF Rename, vars, IInv
  <2>2. \A t : Divided(t)' = Divided(t)
    BY <2>1, SameFiles DEF Divided, Repeats
  <2> QED
    BY <2>1, <2>2 DEF ApartInv, InOrder, curTok
<1> QED
  BY <1>1, FindMinApart, OtherTokenApart, ReadTokenApart, ReadLastTokenApart, WriteItemApart DEF Next

\* It holds when the files have been opened.
LEMMA InitHolds == raw \in RawIndexes /\ Opened => IInv
  BY OpenedHolds, OpenedApart DEF IInv

(* The inductive invariant holds in every reachable state of the merge, for  *)
(* any raw indexes.                                                          *)
THEOREM MergeInvariance == Spec => []IInv
<1>1. Init => IInv
  BY InitHolds DEF Init
<1> QED
  BY <1>1, InvKeeps, PTL DEF Spec

-----------------------------------------------------------------------------
(* What follows from it.                                                   *)

(* Every state of _mergeIndexes is well typed, and every index in the list   *)
(* has a token to read.                                                      *)
THEOREM MergeTypeOK == Spec => []TypeOK
<1>1. IInv => TypeOK
  BY DEF IInv, MergeInv
<1> QED
  BY <1>1, MergeInvariance, PTL

(* Every entry of every raw index is in one item of the merged index, that   *)
(* of its token, or about to be written, as soon as it has been read; and in *)
(* the end all have been.                                                    *)
THEOREM MergeLosesNothing == Spec => []NothingLost
<1>1. ASSUME IInv PROVE NothingLost
  <2>1. TypeOK /\ ListInv /\ PlacesInv
    BY <1>1 DEF IInv, MergeInv
  <2>2. pc = "done" => \A f \in Files : pos[f] = Len(raw[f]) + 1
    BY <2>1 DEF ListInv
  <2>3. ASSUME NEW f \in Files, NEW p \in 1 .. Len(raw[f])
        PROVE  LET Holders == {i \in DOMAIN out : <<f, p>> \in out[i].places}
               IN /\ \A i \in Holders : out[i].token = raw[f][p]
                  /\ <<f, p>> \in entries => min = raw[f][p]
                  /\ Cardinality(Holders) + (IF <<f, p>> \in entries THEN 1 ELSE 0)
                       = IF p < pos[f] THEN 1 ELSE 0
    <3> DEFINE Holders == {i \in DOMAIN out : <<f, p>> \in out[i].places}
    <3>1. PlaceInv(f, p)
      BY <2>1, <2>3 DEF PlacesInv
    <3>2. /\ \A i \in Holders : out[i].token = raw[f][p]
          /\ <<f, p>> \in entries => min = raw[f][p]
      BY <3>1 DEF PlaceInv, InItem
    <3>3. CASE Holders = {}
      <4>1. Cardinality(Holders) = 0
        BY <3>3, FS_EmptySet
      <4>2. <<f, p>> \in entries <=> p < pos[f]
        BY <3>1, <3>3 DEF PlaceInv, InItem
      <4> QED
        BY <3>2, <4>1, <4>2
    <3>4. ASSUME NEW i \in Holders
          PROVE  Cardinality(Holders) = 1 /\ <<f, p>> \notin entries /\ p < pos[f]
      <4>1. Holders = {i}
        BY <3>1, <3>4 DEF PlaceInv, InItem
      <4>2. Cardinality(Holders) = 1
        BY <4>1, FS_Singleton
      <4> QED
        BY <3>1, <3>4, <4>2 DEF PlaceInv, InItem
    <3> HIDE DEF Holders
    <3> QED
      BY <3>2, <3>3, <3>4 DEF Holders
  <2> QED
    BY <2>2, <2>3 DEF NothingLost
<1> QED
  BY <1>1, MergeInvariance, PTL

(* The tokens of the merged index never descend, though the scan passes      *)
(* indexes over and their tokens come in a later round; and a token that has *)
(* a second item is the last of a file with one behind it that has it, or is *)
(* twice in a file.                                                          *)
THEOREM MergeNeverDescends == Spec => []NeverDescends
<1>1. ASSUME IInv PROVE NeverDescends
  <2>1. TypeOK /\ Ordered /\ ApartInv
    BY <1>1 DEF IInv, MergeInv, OrderInv
  <2>2. \A i \in DOMAIN out : out[i].token \in Nat
    BY <2>1, TokenTypes
  <2> QED
    BY <2>1, <2>2 DEF Ordered, ApartInv, NeverDescends
<1> QED
  BY <1>1, MergeInvariance, PTL
=============================================================================
