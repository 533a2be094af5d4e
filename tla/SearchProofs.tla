---------------------------- MODULE SearchProofs ----------------------------
(***************************************************************************)
(* The search finds the documents that have every token of the query, for  *)
(* every index, query and stride.                                          *)
(*                                                                         *)
(* FindsMatching speaks of finished searches only.  SInv adds what holds   *)
(* before: the lists read are those of the tokens, the rows between two    *)
(* lists are the documents of the lists so far (RowsFor), the rows of a    *)
(* list half read have every common document before the cursors            *)
(* (Covered), and a jump leaves only smaller documents behind (JumpInv).   *)
(***************************************************************************)
EXTENDS Search, TLAPS

Cursor == {"compare", "stride", "walk", "land"}
InJump == {"stride", "walk", "land"}

\* The documents of the first m tokens.
CommonDocs(m) == {d \in Docs : \A k \in 1 .. m : d \in DocsOf(tokens[k])}

ListFor(list, tok) ==
  /\ list \in Seq(Entries)
  /\ \A j \in DOMAIN list : list[j].posting = tok
  /\ \A i, j \in DOMAIN list : i < j => list[i].docIdOffset < list[j].docIdOffset
  /\ \A j \in DOMAIN list : list[j].docIdOffset \in DocsOf(tok)
  /\ \A d \in DocsOf(tok) : \E j \in DOMAIN list : list[j].docIdOffset = d

InputInv == \A k \in DOMAIN input : k \in DOMAIN tokens /\ ListFor(input[k], tokens[k])

RowFor(row, m) ==
  /\ row \in Seq(Entries) /\ Len(row) = m
  /\ \A k \in 1 .. m : /\ row[k].docIdOffset = row[1].docIdOffset
                       /\ row[k].posting = tokens[k]

\* Rows of the first m tokens, each with a document that has them all.
RowsShape(rows, m) ==
  /\ rows \in Seq(Seq(Entries))
  /\ \A r \in DOMAIN rows : RowFor(rows[r], m) /\ rows[r][1].docIdOffset \in CommonDocs(m)
  /\ \A r, s \in DOMAIN rows : r < s => rows[r][1].docIdOffset < rows[s][1].docIdOffset

\* ... and all of these documents.
RowsFor(rows, m) ==
  /\ RowsShape(rows, m)
  /\ \A d \in CommonDocs(m) : \E r \in DOMAIN rows : rows[r][1].docIdOffset = d

\* Rows of a list half read: what is behind the cursors is complete.
Covered(rows) ==
  /\ RowsShape(rows, n)
  /\ \A r \in DOMAIN rows : /\ rows[r][1].docIdOffset < doc1(i1)
                            /\ rows[r][1].docIdOffset < doc2(i2)
  /\ \A d \in CommonDocs(n) : \/ \E r \in DOMAIN rows : rows[r][1].docIdOffset = d
                              \/ d >= doc1(i1) /\ d >= doc2(i2)

JumpInv ==
  /\ pos \in 1 .. Size(side)
  /\ \A p \in 1 .. pos - 1 : doc(side, p) < target
  /\ pc = "stride" => pos <= next_pos
  /\ pc = "walk" => next_pos \in pos .. Size(side) /\ doc(side, next_pos) >= target
  /\ pc = "land" /\ doc(side, pos) < target => doc(side, Size(side)) < target

SInv ==
  /\ TypeOK
  /\ InputInv
  /\ pc = "find" => n <= Len(tokens) + 1 /\ Len(input) = n - 1 /\ output = <<>>
  /\ pc \in {"next"} \cup Cursor => n \in 2 .. Len(input) + 1 /\ Len(input) = Len(tokens)
  /\ pc \in {"next"} \cup Cursor => RowsFor(common, n - 1)
  /\ pc \in Cursor => Covered(res)
  /\ pc \in InJump => JumpInv
  /\ pc = "done" => output \in Seq(Seq(Entries))
  /\ FindsMatching
  /\ RowsAligned

-----------------------------------------------------------------------------
USE DEF Cursor, InJump

LEMMA Parity == \A k \in Nat : (k + 1) % 2 = 0 <=> k % 2 # 0
BY SMT

LEMMA DocsAreNat == Docs \subseteq Nat /\ step \in Nat \ {0}
BY TokensAssumption, StepAssumption

\* What only depends on the query, the lists and the rows, and they stay.
LEMMA SameRows ==
  ASSUME SInv, UNCHANGED <<_invIdx, tokens, n, input, output, tmp>>
  PROVE  /\ InputInv'
         /\ \A rows, m : RowsShape(rows, m)' <=> RowsShape(rows, m)
         /\ common' = common /\ res' = res /\ entries' = entries
         /\ RowsFor(common, n - 1)' <=> RowsFor(common, n - 1)
         /\ \A rows : i1' = i1 /\ i2' = i2 => (Covered(rows)' <=> Covered(rows))
<1>1. common' = common /\ res' = res /\ entries' = entries
  BY DEF common, res, entries, IntoTmp
<1>2. \A tok : DocsOf(tok)' = DocsOf(tok)
  BY DEF DocsOf
<1>3. \A m : CommonDocs(m)' = CommonDocs(m)
  BY DEF CommonDocs, DocsOf
<1>4. InputInv'
  <2>1. \A list, tok : ListFor(list, tok)' <=> ListFor(list, tok)
    BY <1>2 DEF ListFor
  <2>2. \A k \in DOMAIN input : ListFor(input[k], tokens[k])' <=> ListFor(input[k], tokens[k])
    BY DEF ListFor, DocsOf
  <2> QED BY <2>2 DEF SInv, InputInv
<1>5. \A rows, m : RowsShape(rows, m)' <=> RowsShape(rows, m)
  <2>1. \A row, m : RowFor(row, m)' <=> RowFor(row, m)
    BY DEF RowFor
  <2> TAKE rows, m
  <2> QED BY <1>3, <2>1 DEF RowsShape
<1>6. RowsFor(common, n - 1)' <=> RowsFor(common, n - 1)
  BY <1>1, <1>3, <1>5 DEF RowsFor
<1>7. \A rows : i1' = i1 /\ i2' = i2 => (Covered(rows)' <=> Covered(rows))
  BY <1>1, <1>3, <1>5 DEF Covered, doc1, doc2
<1> QED BY <1>1, <1>4, <1>5, <1>6, <1>7

\* What only depends on the index and the query.
LEMMA SameQuery ==
  ASSUME UNCHANGED <<_invIdx, tokens>>
  PROVE  /\ \A list, tok : ListFor(list, tok)' <=> ListFor(list, tok)
         /\ \A m : CommonDocs(m)' = CommonDocs(m)
         /\ \A rows, m : RowsShape(rows, m)' <=> RowsShape(rows, m)
         /\ \A rows, m : RowsFor(rows, m)' <=> RowsFor(rows, m)
<1>1. \A m : CommonDocs(m)' = CommonDocs(m)
  BY DEF CommonDocs, DocsOf
<1>2. \A row, m : RowFor(row, m)' <=> RowFor(row, m)
  BY DEF RowFor
<1>3. \A rows, m : RowsShape(rows, m)' <=> RowsShape(rows, m)
  <2> TAKE rows, m
  <2> QED BY <1>1, <1>2 DEF RowsShape
<1>4. \A rows, m : RowsFor(rows, m)' <=> RowsFor(rows, m)
  <2> TAKE rows, m
  <2> QED BY <1>1, <1>3 DEF RowsFor
<1>5. \A list, tok : ListFor(list, tok)' <=> ListFor(list, tok)
  <2>1. \A tok : DocsOf(tok)' = DocsOf(tok)
    BY DEF DocsOf
  <2> QED BY <2>1 DEF ListFor
<1> QED BY <1>1, <1>3, <1>4, <1>5

\* The documents of either side are numbers, in order.
LEMMA SidesAscend ==
  ASSUME SInv, pc \in Cursor \/ (pc = "next" /\ n <= Len(input))
  PROVE  /\ \A i \in 1 .. Len(common) : doc1(i) \in Docs /\ doc1(i) \in Nat
         /\ \A i \in 1 .. Len(entries) : doc2(i) \in Docs /\ doc2(i) \in Nat
         /\ \A i, j \in 1 .. Len(common) : i < j => doc1(i) < doc1(j)
         /\ \A i, j \in 1 .. Len(entries) : i < j => doc2(i) < doc2(j)
         /\ Len(common) \in Nat /\ Len(entries) \in Nat
         /\ \A i \in 1 .. Len(common) : doc1(i) \in CommonDocs(n - 1)
         /\ \A i \in 1 .. Len(entries) : doc2(i) \in DocsOf(tokens[n])
<1>1. n \in 2 .. Len(input) /\ input \in Seq(Seq(Entries))
  BY DEF SInv, TypeOK
<1>2. ListFor(entries, tokens[n])
  BY <1>1 DEF SInv, InputInv, entries
<1>3. RowsShape(common, n - 1)
  BY DEF SInv, RowsFor
<1>d. DOMAIN entries = 1 .. Len(entries) /\ DOMAIN common = 1 .. Len(common)
  BY <1>2, <1>3 DEF ListFor, RowsShape
<1>4. \A i \in 1 .. Len(entries) : doc2(i) \in Docs
  BY <1>d, <1>2 DEF ListFor, doc2, DocsOf
<1>5. \A i \in 1 .. Len(common) : doc1(i) \in Docs /\ doc1(i) \in CommonDocs(n - 1)
  BY <1>3 DEF RowsShape, doc1, CommonDocs
<1>6. \A i, j \in 1 .. Len(common) : i < j => doc1(i) < doc1(j)
  BY <1>d, <1>3 DEF RowsShape, doc1
<1>7. \A i, j \in 1 .. Len(entries) : i < j => doc2(i) < doc2(j)
  BY <1>2 DEF ListFor, doc2
<1>8. \A i \in 1 .. Len(entries) : doc2(i) \in DocsOf(tokens[n])
  BY <1>2 DEF ListFor, doc2
<1>9. Len(common) \in Nat /\ Len(entries) \in Nat
  BY <1>2, <1>3 DEF ListFor, RowsShape
<1> QED BY <1>4, <1>5, <1>6, <1>7, <1>8, <1>9, DocsAreNat

\* A document of the first n tokens is on both sides.
LEMMA OnBothSides ==
  ASSUME SInv, pc \in Cursor \/ (pc = "next" /\ n <= Len(input)), NEW d \in CommonDocs(n)
  PROVE  /\ d \in Nat /\ d \in CommonDocs(n - 1) /\ d \in DocsOf(tokens[n])
         /\ \E q \in 1 .. Len(common) : doc1(q) = d
         /\ \E q \in 1 .. Len(entries) : doc2(q) = d
<1>1. n \in 2 .. Len(input) /\ n \in Nat /\ input \in Seq(Seq(Entries))
  BY DEF SInv, TypeOK
<1>2. d \in Nat /\ d \in CommonDocs(n - 1) /\ d \in DocsOf(tokens[n])
  BY <1>1, DocsAreNat DEF CommonDocs
<1>3. ListFor(entries, tokens[n])
  BY <1>1 DEF SInv, InputInv, entries
<1>4. RowsFor(common, n - 1)
  BY DEF SInv
<1>d. DOMAIN entries = 1 .. Len(entries) /\ DOMAIN common = 1 .. Len(common)
  BY <1>3, <1>4 DEF ListFor, RowsFor, RowsShape
<1>5. \E q \in 1 .. Len(common) : doc1(q) = d
  BY <1>2, <1>4, <1>d DEF RowsFor, doc1
<1>6. \E q \in 1 .. Len(entries) : doc2(q) = d
  BY <1>2, <1>3, <1>d DEF ListFor, doc2
<1> QED BY <1>2, <1>5, <1>6

-----------------------------------------------------------------------------
(* The jump.                                                               *)

\* The index, the query and the rows stay: what is left to show of a step.
LEMMA RowsStay ==
  ASSUME SInv, UNCHANGED <<_invIdx, tokens, n, input, output, tmp>>,
         pc \in Cursor, pc' \in Cursor,
         i1' \in 1 .. Len(common), i2' \in 1 .. Len(entries), side' \in {1, 2},
         pos' \in Nat \ {0}, next_pos' \in Nat \ {0},
         Covered(res)',
         pc' \in InJump => JumpInv',
         pc' = "walk" => next_pos' \in 1 .. Size(side)'
  PROVE  SInv'
<1>1. /\ InputInv'
      /\ common' = common /\ res' = res /\ entries' = entries
      /\ RowsFor(common, n - 1)'
  BY SameRows DEF SInv
<1>2. TypeOK'
  <2>1. IsIndex(_invIdx)' /\ (tokens \in Queries)' /\ (n \in Nat \ {0})'
    BY DEF SInv, TypeOK, IsIndex, StrictlyAscending
  <2>2. (input \in Seq(Seq(Entries)))' /\ (output \in Seq(Seq(Entries)))' /\ (tmp \in Seq(Seq(Entries)))'
    BY DEF SInv, TypeOK, Entries
  <2>3. i1' \in Nat \ {0} /\ i2' \in Nat \ {0}
    BY SidesAscend
  <2>4. n' \in 2 .. Len(input') /\ i1' \in 1 .. Len(common') /\ i2' \in 1 .. Len(entries')
    BY <1>1 DEF SInv, TypeOK
  <2>5. pc' \in InJump => pos' \in 1 .. Size(side)'
    BY DEF JumpInv
  <2> QED BY <2>1, <2>2, <2>3, <2>4, <2>5 DEF TypeOK
<1>3. pc' # "done" /\ pc' # "find" /\ pc' # "next"
  OBVIOUS
<1>4. n' \in 2 .. Len(input') + 1 /\ Len(input') = Len(tokens')
  BY DEF SInv
<1>5. FindsMatching' /\ RowsAligned'
  BY <1>3 DEF FindsMatching, RowsAligned
<1> QED BY <1>1, <1>2, <1>3, <1>4, <1>5 DEF SInv

LEMMA BehindKeeps ==
  ASSUME SInv, Behind
  PROVE  SInv'
<1>1. pc \in Cursor /\ pc' = "stride"
      /\ UNCHANGED <<_invIdx, tokens, n, input, output, tmp, i1, i2>>
  BY DEF Behind, Jump
<1>2. common' = common /\ entries' = entries /\ Covered(res)'
  BY <1>1, SameRows DEF SInv
<1>3. /\ i1 \in 1 .. Len(common) /\ i2 \in 1 .. Len(entries)
      /\ Len(common) \in Nat /\ Len(entries) \in Nat /\ step \in Nat \ {0}
  BY <1>1, SidesAscend, DocsAreNat DEF SInv, TypeOK
<1>4. CASE doc1(i1) < doc2(i2) /\ Jump(1, i1)
  <2>1. side' = 1 /\ pos' = i1 /\ next_pos' = Least(i1 + step, Len(common)) /\ i1 <= next_pos'
    BY <1>3, <1>4 DEF Jump, Size, Least
  <2>2. \A p \in 1 .. i1 - 1 : doc1(p) < doc2(i2)
    <3> TAKE p \in 1 .. i1 - 1
    <3>1. doc1(p) < doc1(i1)
      BY <1>1, <1>3, SidesAscend
    <3>2. doc1(p) \in Nat /\ doc1(i1) \in Nat /\ doc2(i2) \in Nat
      BY <1>1, <1>3, SidesAscend
    <3> QED BY <3>1, <3>2, <1>4
  <2>3. JumpInv'
    BY <1>1, <1>2, <1>3, <2>1, <2>2 DEF JumpInv, doc, doc1, doc2, Size, target
  <2>4. pos' \in Nat \ {0} /\ next_pos' \in Nat \ {0}
    BY <1>3, <2>1 DEF Least
  <2> QED BY <1>1, <1>2, <1>3, <2>1, <2>3, <2>4, RowsStay
<1>5. CASE doc1(i1) > doc2(i2) /\ Jump(2, i2)
  <2>1. side' = 2 /\ pos' = i2 /\ next_pos' = Least(i2 + step, Len(entries)) /\ i2 <= next_pos'
    BY <1>3, <1>5 DEF Jump, Size, Least
  <2>2. \A p \in 1 .. i2 - 1 : doc2(p) < doc1(i1)
    <3> TAKE p \in 1 .. i2 - 1
    <3>1. doc2(p) < doc2(i2)
      BY <1>1, <1>3, SidesAscend
    <3>2. doc2(p) \in Nat /\ doc1(i1) \in Nat /\ doc2(i2) \in Nat
      BY <1>1, <1>3, SidesAscend
    <3> QED BY <3>1, <3>2, <1>5
  <2>3. JumpInv'
    BY <1>1, <1>2, <1>3, <2>1, <2>2 DEF JumpInv, doc, doc1, doc2, Size, target
  <2>4. pos' \in Nat \ {0} /\ next_pos' \in Nat \ {0}
    BY <1>3, <2>1 DEF Least
  <2> QED BY <1>1, <1>2, <1>3, <2>1, <2>3, <2>4, RowsStay
<1> QED BY <1>4, <1>5 DEF Behind

\* The other end of the jump is a document, the side's documents are in order.
LEMMA JumpSides ==
  ASSUME SInv, pc \in InJump
  PROVE  /\ i1 \in 1 .. Len(common) /\ i2 \in 1 .. Len(entries) /\ side \in {1, 2}
         /\ Size(side) \in Nat /\ target \in Nat
         /\ pos \in 1 .. Size(side) /\ next_pos \in Nat \ {0} /\ step \in Nat \ {0}
         /\ \A p \in 1 .. Size(side) : doc(side, p) \in Nat
         /\ \A p, q \in 1 .. Size(side) : p < q => doc(side, p) < doc(side, q)
<1>1. /\ i1 \in 1 .. Len(common) /\ i2 \in 1 .. Len(entries) /\ side \in {1, 2}
      /\ next_pos \in Nat \ {0} /\ step \in Nat \ {0}
  BY DocsAreNat DEF SInv, TypeOK
<1>2. pos \in 1 .. Size(side)
  BY DEF SInv, JumpInv
<1>3. Size(side) \in Nat /\ target \in Nat
  BY <1>1, SidesAscend DEF Size, target
<1>4. \A p \in 1 .. Size(side) : doc(side, p) \in Nat
  BY <1>1, SidesAscend DEF Size, doc
<1>5. \A p, q \in 1 .. Size(side) : p < q => doc(side, p) < doc(side, q)
  BY <1>1, SidesAscend DEF Size, doc
<1> QED BY <1>1, <1>2, <1>3, <1>4, <1>5

\* The rows, the cursors and the jumping side stay.
LEMMA JumpStays ==
  ASSUME SInv, UNCHANGED <<_invIdx, tokens, n, input, output, tmp, i1, i2, side>>,
         pc \in InJump
  PROVE  /\ Covered(res)'
         /\ target' = target /\ Size(side)' = Size(side)
         /\ \A p : doc(side, p)' = doc(side, p)
<1>1. common' = common /\ res' = res /\ entries' = entries /\ Covered(res)'
  BY SameRows DEF SInv
<1> QED BY <1>1 DEF target, Size, doc, doc1, doc2

\* A step of the jump that only moves pos and next_pos.
LEMMA JumpMoves ==
  ASSUME SInv, UNCHANGED <<_invIdx, tokens, n, input, output, tmp, i1, i2, side>>,
         pc \in InJump, pc' \in InJump,
         pos' \in 1 .. Size(side), next_pos' \in Nat \ {0},
         \A p \in 1 .. pos' - 1 : doc(side, p) < target,
         pc' = "stride" => pos' <= next_pos',
         pc' = "walk" => next_pos' \in pos' .. Size(side) /\ doc(side, next_pos') >= target,
         pc' = "land" /\ doc(side, pos') < target => doc(side, Size(side)) < target
  PROVE  SInv'
<1>1. /\ Covered(res)'
      /\ target' = target /\ Size(side)' = Size(side)
      /\ common' = common /\ entries' = entries
      /\ \A p : doc(side, p)' = doc(side, p)
  BY JumpStays, SameRows
<1>2. JumpInv'
  BY <1>1 DEF JumpInv, doc, doc1, doc2, Size
<1>3. pc' = "walk" => next_pos' \in 1 .. Size(side)'
  BY <1>1, JumpSides
<1> QED BY <1>1, <1>2, <1>3, JumpSides, RowsStay

LEMMA StrideKeeps ==
  ASSUME SInv, Stride
  PROVE  SInv'
<1>1. /\ pc = "stride" /\ pc' = "stride"
      /\ UNCHANGED <<_invIdx, tokens, n, input, output, tmp, i1, i2, side>>
      /\ pos' = next_pos /\ next_pos' = next_pos + step
      /\ next_pos <= Size(side) /\ doc(side, next_pos) <= target
  BY DEF Stride, CanStride
<1>2. pos' \in 1 .. Size(side) /\ next_pos' \in Nat \ {0} /\ pos' <= next_pos'
  BY <1>1, JumpSides
<1>3. \A p \in 1 .. pos' - 1 : doc(side, p) < target
  <2> TAKE p \in 1 .. pos' - 1
  <2>1. p \in 1 .. Size(side) /\ next_pos \in 1 .. Size(side) /\ p < next_pos
    BY <1>1, <1>2, JumpSides
  <2>2. doc(side, p) < doc(side, next_pos) /\ doc(side, p) \in Nat /\ doc(side, next_pos) \in Nat
    BY <1>1, <2>1, JumpSides
  <2> QED BY <1>1, <2>2, JumpSides
<1> QED BY <1>1, <1>2, <1>3, JumpMoves

LEMMA StrideDoneKeeps ==
  ASSUME SInv, StrideDone
  PROVE  SInv'
<1>1. /\ pc = "stride" /\ pc' \in {"walk", "land"}
      /\ UNCHANGED <<_invIdx, tokens, n, input, output, tmp, i1, i2, side, pos>>
      /\ ~CanStride
      /\ next_pos' = Least(next_pos, Size(side))
      /\ pc' = "walk" <=> doc(side, next_pos') >= target
  BY DEF StrideDone
<1>2. /\ pos \in 1 .. Size(side) /\ pos <= next_pos
      /\ \A p \in 1 .. pos - 1 : doc(side, p) < target
  BY <1>1, JumpSides DEF SInv, JumpInv
<1>3. next_pos' \in pos .. Size(side) /\ next_pos' \in Nat \ {0}
  BY <1>1, <1>2, JumpSides DEF Least
<1>4. CASE doc(side, next_pos') >= target
  BY <1>1, <1>2, <1>3, <1>4, JumpMoves
<1>5. CASE doc(side, next_pos') < target
  \* Only the last element can be below the target after a stride that failed.
  <2>1. next_pos' = Size(side)
    BY <1>1, <1>3, <1>5, JumpSides DEF CanStride, Least
  <2>2. doc(side, Size(side)) < target
    BY <1>5, <2>1
  <2>3. pc' = "land"
    BY <1>1, <1>3, <1>5, JumpSides
  <2> QED BY <1>1, <1>2, <1>3, <2>2, <2>3, JumpMoves
<1>6. doc(side, next_pos') >= target \/ doc(side, next_pos') < target
  BY <1>1, <1>3, JumpSides
<1> QED BY <1>4, <1>5, <1>6

LEMMA WalkKeeps ==
  ASSUME SInv, Walk
  PROVE  SInv'
<1>1. /\ pc = "walk" /\ pc' = "walk"
      /\ UNCHANGED <<_invIdx, tokens, n, input, output, tmp, i1, i2, side, next_pos>>
      /\ pos' = pos + 1 /\ pos < next_pos /\ doc(side, pos) < target
  BY DEF Walk
<1>2. /\ next_pos \in pos .. Size(side) /\ doc(side, next_pos) >= target
      /\ \A p \in 1 .. pos - 1 : doc(side, p) < target
  BY <1>1 DEF SInv, JumpInv
<1>3. pos' \in 1 .. Size(side) /\ next_pos' \in pos' .. Size(side) /\ next_pos' \in Nat \ {0}
  BY <1>1, <1>2, JumpSides
<1>4. \A p \in 1 .. pos' - 1 : doc(side, p) < target
  BY <1>1, <1>2, JumpSides
<1> QED BY <1>1, <1>2, <1>3, <1>4, JumpMoves

LEMMA WalkDoneKeeps ==
  ASSUME SInv, WalkDone
  PROVE  SInv'
<1>1. /\ pc = "walk" /\ pc' = "land"
      /\ UNCHANGED <<_invIdx, tokens, n, input, output, tmp, i1, i2, side, pos, next_pos>>
      /\ ~(pos < next_pos /\ doc(side, pos) < target)
  BY DEF WalkDone, cursorVars
<1>2. /\ next_pos \in pos .. Size(side) /\ doc(side, next_pos) >= target
      /\ \A p \in 1 .. pos - 1 : doc(side, p) < target
  BY <1>1 DEF SInv, JumpInv
<1>3. ~(doc(side, pos) < target)
  BY <1>1, <1>2, JumpSides
<1> QED BY <1>1, <1>2, <1>3, JumpSides, JumpMoves

\* Landing is the one step that moves a cursor: no common document is jumped.
LEMMA LandKeeps ==
  ASSUME SInv, Land
  PROVE  SInv'
<1>1. /\ pc = "land" /\ pc' = "compare"
      /\ UNCHANGED <<_invIdx, tokens, n, input, output, tmp, side, pos, next_pos>>
      /\ doc(side, pos) >= target
      /\ IF side = 1 THEN i1' = pos /\ i2' = i2 ELSE i2' = pos /\ i1' = i1
  BY DEF Land
<1>2. \A p \in 1 .. pos - 1 : doc(side, p) < target
  BY <1>1 DEF SInv, JumpInv
<1>3. i1' \in 1 .. Len(common) /\ i2' \in 1 .. Len(entries)
  BY <1>1, JumpSides DEF Size
<1>4. /\ common' = common /\ entries' = entries /\ res' = res
      /\ RowsShape(res, n)' <=> RowsShape(res, n)
  BY <1>1, SameRows
<1>5. Covered(res)'
  <2>1. CASE side = 1
    <3>1. i1' = pos /\ i2' = i2 /\ doc1(pos) >= doc2(i2) /\ \A p \in 1 .. pos - 1 : doc1(p) < doc2(i2)
      BY <1>1, <1>2, <2>1 DEF doc, target
    <3>2. /\ pos \in 1 .. Len(common) /\ i2 \in 1 .. Len(entries) /\ Len(common) \in Nat
          /\ doc1(pos) \in Nat /\ doc2(i2) \in Nat
      BY <1>1, <2>1, JumpSides, SidesAscend DEF Size
    <3>3. \A r \in DOMAIN res : res[r][1].docIdOffset < doc1(pos) /\ res[r][1].docIdOffset < doc2(i2)
      <4> TAKE r \in DOMAIN res
      <4>1. res[r][1].docIdOffset < doc2(i2) /\ res[r][1].docIdOffset \in Nat
        BY <1>1, DocsAreNat DEF SInv, Covered, RowsShape, CommonDocs
      <4> QED BY <3>1, <3>2, <4>1
    <3>4. ASSUME NEW d \in CommonDocs(n)
          PROVE  \/ \E r \in DOMAIN res : res[r][1].docIdOffset = d
                 \/ d >= doc1(pos) /\ d >= doc2(i2)
      <4>1. PICK q \in 1 .. Len(common) : doc1(q) = d
        BY <1>1, OnBothSides
      <4>2. CASE d >= doc2(i2)
        <5>1. d \in Nat /\ q >= pos
          BY <1>1, <3>1, <3>2, <4>1, <4>2, SidesAscend
        <5>2. q = pos \/ doc1(q) > doc1(pos)
          BY <1>1, <3>2, <5>1, SidesAscend
        <5> QED BY <3>2, <4>1, <4>2, <5>1, <5>2
      <4> QED BY <1>1, <4>2 DEF SInv, Covered
    <3> QED BY <1>1, <1>4, <3>1, <3>3, <3>4, SameRows DEF SInv, Covered, doc1, doc2, CommonDocs, DocsOf
  <2>2. CASE side = 2
    <3>1. i2' = pos /\ i1' = i1 /\ doc2(pos) >= doc1(i1) /\ \A p \in 1 .. pos - 1 : doc2(p) < doc1(i1)
      BY <1>1, <1>2, <2>2 DEF doc, target
    <3>2. /\ pos \in 1 .. Len(entries) /\ i1 \in 1 .. Len(common) /\ Len(entries) \in Nat
          /\ doc2(pos) \in Nat /\ doc1(i1) \in Nat
      BY <1>1, <2>2, JumpSides, SidesAscend DEF Size
    <3>3. \A r \in DOMAIN res : res[r][1].docIdOffset < doc1(i1) /\ res[r][1].docIdOffset < doc2(pos)
      <4> TAKE r \in DOMAIN res
      <4>1. res[r][1].docIdOffset < doc1(i1) /\ res[r][1].docIdOffset \in Nat
        BY <1>1, DocsAreNat DEF SInv, Covered, RowsShape, CommonDocs
      <4> QED BY <3>1, <3>2, <4>1
    <3>4. ASSUME NEW d \in CommonDocs(n)
          PROVE  \/ \E r \in DOMAIN res : res[r][1].docIdOffset = d
                 \/ d >= doc1(i1) /\ d >= doc2(pos)
      <4>1. PICK q \in 1 .. Len(entries) : doc2(q) = d
        BY <1>1, OnBothSides
      <4>2. CASE d >= doc1(i1)
        <5>1. d \in Nat /\ q >= pos
          BY <1>1, <3>1, <3>2, <4>1, <4>2, SidesAscend
        <5>2. q = pos \/ doc2(q) > doc2(pos)
          BY <1>1, <3>2, <5>1, SidesAscend
        <5> QED BY <3>2, <4>1, <4>2, <5>1, <5>2
      <4> QED BY <1>1, <4>2 DEF SInv, Covered
    <3> QED BY <1>1, <1>4, <3>1, <3>3, <3>4, SameRows DEF SInv, Covered, doc1, doc2, CommonDocs, DocsOf
  <2> QED BY <1>1, <2>1, <2>2, JumpSides
<1> QED BY <1>1, <1>3, <1>4, <1>5, JumpSides, RowsStay

-----------------------------------------------------------------------------
(* The rows.                                                               *)

\* The next list of the two that take turns.
LEMMA TakingTurns ==
  ASSUME n \in Nat, n' = n + 1
  PROVE  common' = IF IntoTmp THEN tmp' ELSE output'
BY Parity DEF common, IntoTmp

\* The list is done and the rows are complete.
LEMMA ListIsDone ==
  ASSUME SInv, UNCHANGED <<_invIdx, tokens, input>>, n \in 2 .. Len(input),
         n' = n + 1, pc' = "next",
         Len(input) = Len(tokens),
         output' \in Seq(Seq(Entries)), tmp' \in Seq(Seq(Entries)),
         i1' \in Nat \ {0}, i2' \in Nat \ {0}, side' \in {1, 2},
         pos' \in Nat \ {0}, next_pos' \in Nat \ {0},
         NEW rows, rows = IF IntoTmp THEN tmp' ELSE output', RowsFor(rows, n)
  PROVE  SInv'
<1>1. n \in Nat /\ n' - 1 = n /\ n' \in 2 .. Len(input) + 1
  BY DEF SInv, TypeOK
<1>2. common' = rows
  BY <1>1, TakingTurns
<1>3. TypeOK'
  <2>1. IsIndex(_invIdx)' /\ (tokens \in Queries)' /\ (n \in Nat \ {0})'
    BY <1>1 DEF SInv, TypeOK, IsIndex, StrictlyAscending
  <2>2. (input \in Seq(Seq(Entries)))' /\ (output \in Seq(Seq(Entries)))' /\ (tmp \in Seq(Seq(Entries)))'
    BY DEF SInv, TypeOK, Entries
  <2> QED BY <2>1, <2>2 DEF TypeOK
<1>4. InputInv'
  <2>1. \A k \in DOMAIN input : ListFor(input[k], tokens[k])' <=> ListFor(input[k], tokens[k])
    BY DEF ListFor, DocsOf
  <2> QED BY <2>1 DEF SInv, InputInv
<1>5. RowsFor(common, n - 1)'
  <2>1. \A rr, m : RowsFor(rr, m)' <=> RowsFor(rr, m)
    BY SameQuery
  <2> QED BY <1>1, <1>2, <2>1
<1>6. FindsMatching' /\ RowsAligned'
  BY DEF FindsMatching, RowsAligned
<1> QED BY <1>1, <1>3, <1>4, <1>5, <1>6 DEF SInv

\* The jump found the side's end: no document is left in common.
LEMMA NoMoreElementsKeeps ==
  ASSUME SInv, NoMoreElements
  PROVE  SInv'
<1>1. /\ pc = "land" /\ n' = n + 1 /\ pc' = "next" /\ doc(side, pos) < target
      /\ UNCHANGED <<_invIdx, tokens, input, output, tmp, i1, i2, side, pos, next_pos>>
  BY DEF NoMoreElements, ListDone, cursorVars
<1>2. doc(side, Size(side)) < target
  BY <1>1 DEF SInv, JumpInv
<1>3. ASSUME NEW d \in CommonDocs(n)
      PROVE  \E r \in DOMAIN res : res[r][1].docIdOffset = d
  <2>1. \E q \in 1 .. Size(side) : doc(side, q) = d
    BY <1>1, OnBothSides, JumpSides DEF Size, doc
  <2>2. d < target
    <3>1. PICK q \in 1 .. Size(side) : doc(side, q) = d
      BY <2>1
    <3>2. q = Size(side) \/ doc(side, q) < doc(side, Size(side))
      BY <1>1, JumpSides
    <3>3. doc(side, Size(side)) \in Nat /\ d \in Nat
      BY <1>1, <3>1, JumpSides
    <3> QED BY <1>1, <1>2, <3>1, <3>2, <3>3, JumpSides
  <2>3. ~(d >= doc1(i1) /\ d >= doc2(i2))
    BY <1>1, <2>2, JumpSides, OnBothSides DEF target
  <2> QED BY <1>1, <2>3 DEF SInv, Covered
<1>4. RowsFor(res, n)
  BY <1>1, <1>3 DEF SInv, Covered, RowsFor
<1>5. /\ n \in 2 .. Len(input) /\ Len(input) = Len(tokens)
      /\ output \in Seq(Seq(Entries)) /\ tmp \in Seq(Seq(Entries))
      /\ i1 \in Nat \ {0} /\ i2 \in Nat \ {0} /\ side \in {1, 2}
      /\ pos \in Nat \ {0} /\ next_pos \in Nat \ {0}
  BY <1>1 DEF SInv, TypeOK
<1>6. res = IF IntoTmp THEN tmp' ELSE output'
  BY <1>1 DEF res
<1>7. output' \in Seq(Seq(Entries)) /\ tmp' \in Seq(Seq(Entries))
  BY <1>1, <1>5
<1> QED BY <1>1, <1>4, <1>5, <1>6, <1>7, ListIsDone

LEMMA MatchKeeps ==
  ASSUME SInv, Match
  PROVE  SInv'
<1> DEFINE row == Append(common[i1], entries[i2])
<1> DEFINE rows == Append(res, row)
<1>1. /\ pc = "compare" /\ doc1(i1) = doc2(i2)
      /\ SetRes(rows)
      /\ i1' = i1 + 1 /\ i2' = i2 + 1
      /\ UNCHANGED <<_invIdx, tokens, input, side, pos, next_pos>>
  BY DEF Match
<1>2. /\ i1 \in 1 .. Len(common) /\ i2 \in 1 .. Len(entries) /\ n \in 2 .. Len(input)
      /\ n \in Nat /\ Len(common) \in Nat /\ Len(entries) \in Nat /\ Len(input) = Len(tokens)
      /\ input \in Seq(Seq(Entries)) /\ doc1(i1) \in Nat /\ doc1(i1) \in Docs
  BY <1>1, SidesAscend DEF SInv, TypeOK
<1>3. RowFor(common[i1], n - 1) /\ doc1(i1) \in CommonDocs(n - 1)
  <2>1. RowsShape(common, n - 1)
    BY <1>1 DEF SInv, RowsFor
  <2>2. DOMAIN common = 1 .. Len(common)
    BY <2>1 DEF RowsShape
  <2> QED BY <1>2, <2>1, <2>2 DEF RowsShape, doc1
<1>4. entries[i2] \in Entries /\ entries[i2].posting = tokens[n] /\ doc2(i2) \in DocsOf(tokens[n])
  <2>1. ListFor(entries, tokens[n])
    BY <1>2 DEF SInv, InputInv, entries
  <2> QED BY <1>2, <2>1 DEF ListFor, doc2
<1>5. RowFor(row, n) /\ row[1].docIdOffset = doc1(i1)
  <2>1. /\ common[i1] \in Seq(Entries) /\ Len(common[i1]) = n - 1
        /\ \A k \in 1 .. n - 1 : /\ common[i1][k].docIdOffset = doc1(i1)
                                 /\ common[i1][k].posting = tokens[k]
    BY <1>3 DEF RowFor, doc1
  <2>2. row \in Seq(Entries) /\ Len(row) = n /\ row[n] = entries[i2]
        /\ \A k \in 1 .. n - 1 : row[k] = common[i1][k]
    BY <1>2, <1>4, <2>1
  <2>3. \A k \in 1 .. n : row[k].docIdOffset = doc1(i1) /\ row[k].posting = tokens[k]
    <3> TAKE k \in 1 .. n
    <3>1. CASE k = n
      BY <1>1, <1>4, <2>2, <3>1 DEF doc2
    <3>2. CASE k # n
      <4>1. k \in 1 .. n - 1
        BY <1>2, <3>2
      <4> QED BY <2>1, <2>2, <4>1
    <3> QED BY <3>1, <3>2
  <2>4. 1 \in 1 .. n
    BY <1>2
  <2>5. row[1].docIdOffset = doc1(i1)
    BY <2>3, <2>4
  <2> HIDE DEF row, rows
  <2> QED BY <2>2, <2>3, <2>5 DEF RowFor
<1>6. doc1(i1) \in CommonDocs(n)
  BY <1>1, <1>2, <1>3, <1>4 DEF CommonDocs
<1>r. /\ res \in Seq(Seq(Entries)) /\ Len(res) \in Nat /\ row \in Seq(Entries)
      /\ rows \in Seq(Seq(Entries)) /\ DOMAIN res = 1 .. Len(res)
      /\ DOMAIN rows = 1 .. Len(res) + 1
      /\ rows[Len(res) + 1] = row /\ \A r \in 1 .. Len(res) : rows[r] = res[r]
  <2>1. res \in Seq(Seq(Entries)) /\ row \in Seq(Entries)
    BY <1>1, <1>5 DEF SInv, Covered, RowsShape, RowFor
  <2> QED BY <2>1
<1> HIDE DEF row, rows
<1>o. /\ RowsShape(res, n)
      /\ \A r \in 1 .. Len(res) : /\ res[r][1].docIdOffset < doc1(i1)
                                   /\ res[r][1].docIdOffset \in Nat
  BY <1>1, <1>r, DocsAreNat DEF SInv, Covered, RowsShape, CommonDocs
<1>7. RowsShape(rows, n)
  <2>1. \A r \in DOMAIN rows : RowFor(rows[r], n) /\ rows[r][1].docIdOffset \in CommonDocs(n)
    <3> TAKE r \in DOMAIN rows
    <3>1. r \in 1 .. Len(res) \/ r = Len(res) + 1
      BY <1>r
    <3> QED BY <1>o, <1>r, <1>5, <1>6, <3>1 DEF RowsShape
  <2>2. \A r, s \in DOMAIN rows : r < s => rows[r][1].docIdOffset < rows[s][1].docIdOffset
    <3> TAKE r, s \in DOMAIN rows
    <3> HAVE r < s
    <3>1. r \in 1 .. Len(res) /\ (s \in 1 .. Len(res) \/ s = Len(res) + 1)
      BY <1>r
    <3> QED BY <1>o, <1>r, <1>5, <3>1 DEF RowsShape
  <2> QED BY <1>r, <2>1, <2>2 DEF RowsShape
<1>8. ASSUME NEW d \in CommonDocs(n),
             ~ \E r \in DOMAIN rows : rows[r][1].docIdOffset = d
      PROVE  /\ \E q \in 1 .. Len(common) : doc1(q) = d /\ q > i1
             /\ \E q \in 1 .. Len(entries) : doc2(q) = d /\ q > i2
  <2>1. d # doc1(i1)
    <3>1. Len(res) + 1 \in DOMAIN rows /\ rows[Len(res) + 1][1].docIdOffset = doc1(i1)
      BY <1>r, <1>5
    <3> QED BY <1>8, <3>1
  <2>2. ~ \E r \in DOMAIN res : res[r][1].docIdOffset = d
    BY <1>r, <1>8
  <2>3. d >= doc1(i1) /\ d \in Nat
    BY <1>1, <2>2, OnBothSides DEF SInv, Covered
  <2>4. PICK q \in 1 .. Len(common) : doc1(q) = d
    BY <1>1, OnBothSides
  <2>5. PICK p \in 1 .. Len(entries) : doc2(p) = d
    BY <1>1, OnBothSides
  <2>6. q > i1
    <3>1. q < i1 => doc1(q) < doc1(i1)
      BY <1>1, <1>2, SidesAscend
    <3> QED BY <1>2, <2>1, <2>3, <2>4, <3>1
  <2>7. p > i2
    BY <1>1, <1>2, <2>1, <2>3, <2>5, SidesAscend, SMTT(30)
  <2> QED BY <2>4, <2>5, <2>6, <2>7
<1>s. /\ rows = IF IntoTmp THEN tmp' ELSE output'
      /\ common = IF IntoTmp THEN output' ELSE tmp'
      /\ output' \in Seq(Seq(Entries)) /\ tmp' \in Seq(Seq(Entries))
  BY <1>1, <1>r DEF SetRes, common, SInv, TypeOK
<1>t. /\ i1' \in Nat \ {0} /\ i2' \in Nat \ {0} /\ side' \in {1, 2}
      /\ pos' \in Nat \ {0} /\ next_pos' \in Nat \ {0}
  BY <1>1, <1>2 DEF SInv, TypeOK
<1>9. CASE i1' > Len(common) \/ i2' > Len(entries)
  <2>1. n' = n + 1 /\ pc' = "next"
    BY <1>9 DEF Match, ListDone
  <2>2. \A d \in CommonDocs(n) : \E r \in DOMAIN rows : rows[r][1].docIdOffset = d
    BY <1>1, <1>2, <1>8, <1>9
  <2>3. RowsFor(rows, n)
    BY <1>7, <2>2 DEF RowsFor
  <2> QED BY <1>1, <1>2, <1>s, <1>t, <2>1, <2>3, ListIsDone
<1>10. CASE ~(i1' > Len(common) \/ i2' > Len(entries))
  <2>1. n' = n /\ pc' = pc
    BY <1>10 DEF Match
  <2>2. common' = common /\ res' = rows /\ entries' = entries
    BY <1>1, <1>s, <2>1 DEF common, res, entries, IntoTmp
  <2>3. i1' \in 1 .. Len(common) /\ i2' \in 1 .. Len(entries)
    BY <1>1, <1>2, <1>10
  <2>4. doc1(i1) < doc1(i1') /\ doc2(i2) < doc2(i2') /\ doc1(i1') \in Nat /\ doc2(i2') \in Nat
    BY <1>1, <1>2, <2>3, SidesAscend
  <2>5. \A r \in DOMAIN rows : /\ rows[r][1].docIdOffset < doc1(i1')
                                /\ rows[r][1].docIdOffset < doc2(i2')
    <3> TAKE r \in DOMAIN rows
    <3>1. r \in 1 .. Len(res) \/ r = Len(res) + 1
      BY <1>r
    <3>2. rows[r][1].docIdOffset <= doc1(i1) /\ rows[r][1].docIdOffset \in Nat
      <4>1. CASE r \in 1 .. Len(res)
        <5>1. rows[r] = res[r]
          BY <1>r, <4>1
        <5>2. res[r][1].docIdOffset < doc1(i1) /\ res[r][1].docIdOffset \in Nat
          BY <1>o, <4>1
        <5>3. doc1(i1) \in Nat
          BY <1>2
        <5> QED BY <5>1, <5>2, <5>3
      <4>2. CASE r = Len(res) + 1
        <5>1. rows[r][1].docIdOffset = doc1(i1)
          BY <1>r, <1>5, <4>2
        <5>2. doc1(i1) \in Nat
          BY <1>2
        <5> QED BY <5>1, <5>2
      <4> QED BY <3>1, <4>1, <4>2
    <3> QED BY <1>1, <1>2, <2>4, <3>2
  <2>6. ASSUME NEW d \in CommonDocs(n)
        PROVE  \/ \E r \in DOMAIN rows : rows[r][1].docIdOffset = d
               \/ d >= doc1(i1') /\ d >= doc2(i2')
    <3>1. CASE ~ \E r \in DOMAIN rows : rows[r][1].docIdOffset = d
      <4>1. PICK q \in 1 .. Len(common) : doc1(q) = d /\ q > i1
        BY <1>8, <3>1
      <4>2. PICK p \in 1 .. Len(entries) : doc2(p) = d /\ p > i2
        BY <1>8, <3>1
      <4>3. q = i1' \/ doc1(i1') < doc1(q)
        BY <1>1, <1>2, <2>3, <4>1, SidesAscend
      <4>4. p = i2' \/ doc2(i2') < doc2(p)
        BY <1>1, <1>2, <2>3, <4>2, SidesAscend
      <4> QED BY <1>1, <2>4, <4>1, <4>2, <4>3, <4>4, OnBothSides
    <3> QED BY <3>1
  <2>7. \A m : CommonDocs(m)' = CommonDocs(m)
    BY <1>1, SameQuery
  <2>8. \A rr, m : RowsShape(rr, m)' <=> RowsShape(rr, m)
    BY <1>1, SameQuery
  <2>9. RowsFor(common, n - 1)'
    <3>1. \A rr, m : RowsFor(rr, m)' <=> RowsFor(rr, m)
      BY <1>1, SameQuery
    <3> QED BY <1>1, <2>1, <2>2, <3>1 DEF SInv
  <2>10. Covered(res)'
    <3>1. RowsShape(res, n)'
      BY <1>7, <2>1, <2>2, <2>8
    <3> QED BY <2>1, <2>2, <2>5, <2>6, <2>7, <3>1 DEF Covered, doc1, doc2
  <2>11. TypeOK'
    <3>1. IsIndex(_invIdx)' /\ (tokens \in Queries)' /\ (n \in Nat \ {0})'
      BY <1>1, <2>1 DEF SInv, TypeOK, IsIndex, StrictlyAscending
    <3>2. (input \in Seq(Seq(Entries)))' /\ (output \in Seq(Seq(Entries)))' /\ (tmp \in Seq(Seq(Entries)))'
      BY <1>1, <1>2, <1>s DEF Entries
    <3> QED BY <1>1, <1>2, <1>t, <2>1, <2>2, <2>3, <3>1, <3>2 DEF TypeOK
  <2>12. InputInv'
    <3>1. \A k \in DOMAIN input : ListFor(input[k], tokens[k])' <=> ListFor(input[k], tokens[k])
      BY <1>1 DEF ListFor, DocsOf
    <3> QED BY <1>1, <3>1 DEF SInv, InputInv
  <2>13. FindsMatching' /\ RowsAligned'
    BY <1>1, <2>1 DEF FindsMatching, RowsAligned
  <2> QED BY <1>1, <1>2, <2>1, <2>9, <2>10, <2>11, <2>12, <2>13 DEF SInv
<1> QED BY <1>9, <1>10

-----------------------------------------------------------------------------
(* The lists of the tokens, the first rows and the last.                   *)

LEMMA ItemsTyped ==
  ASSUME IsIndex(_invIdx)
  PROVE  /\ DOMAIN _invIdx = 1 .. Len(_invIdx) /\ Len(_invIdx) \in Nat
         /\ \A i \in DOMAIN _invIdx :
              /\ _invIdx[i] \in [tokId : Tokens, docs : Seq(Docs)]
              /\ _invIdx[i].tokId \in Nat
<1> DEFINE Items == [tokId : Tokens, docs : Seq(Docs)]
<1>1. _invIdx \in Seq(Items)
  BY DEF IsIndex
<1>2. \A i \in Items : i.tokId \in Nat
  BY TokensAssumption
<1> HIDE DEF Items
<1>3. /\ DOMAIN _invIdx = 1 .. Len(_invIdx) /\ Len(_invIdx) \in Nat
      /\ \A i \in DOMAIN _invIdx : _invIdx[i] \in Items
  BY <1>1
<1> QED BY <1>2, <1>3 DEF Items

LEMMA FindTokenKeeps ==
  ASSUME SInv, FindToken
  PROVE  SInv'
<1>1. PICK p \in DOMAIN _invIdx : Item(p).tokId = tokens[n] /\ input' = Append(input, EntriesOf(Item(p)))
  BY DEF FindToken
<1>2. /\ pc = "find" /\ n <= Len(tokens) /\ n' = n + 1
      /\ UNCHANGED <<_invIdx, tokens, pc, output, tmp, i1, i2, side, pos, next_pos>>
  BY DEF FindToken, cursorVars
<1>3. /\ IsIndex(_invIdx) /\ tokens \in Seq(Tokens) /\ n \in Nat \ {0} /\ Len(tokens) \in Nat
      /\ input \in Seq(Seq(Entries)) /\ Len(input) = n - 1
  BY <1>2, QueriesAssumption DEF SInv, TypeOK
<1> DEFINE item == Item(p)
<1> DEFINE list == EntriesOf(item)
<1>4. /\ item.tokId = tokens[n] /\ item.docs \in Seq(Docs) /\ item.tokId \in Tokens
      /\ \A i, j \in DOMAIN item.docs : i < j => item.docs[i] < item.docs[j]
      /\ \A i \in DOMAIN _invIdx : _invIdx[i].tokId = tokens[n] => i = p
  <2>1. item \in [tokId : Tokens, docs : Seq(Docs)] /\ StrictlyAscending(item.docs)
    BY <1>3, ItemsTyped DEF IsIndex, Item
  <2>2. ASSUME NEW i \in DOMAIN _invIdx, _invIdx[i].tokId = tokens[n]
        PROVE  i = p
    <3>1. i \in Nat /\ p \in Nat /\ _invIdx[i].tokId \in Nat /\ _invIdx[p].tokId \in Nat
      BY <1>3, ItemsTyped
    <3>2. (i < p => _invIdx[i].tokId < _invIdx[p].tokId) /\ (p < i => _invIdx[p].tokId < _invIdx[i].tokId)
      BY <1>3 DEF IsIndex
    <3> QED BY <1>1, <2>2, <3>1, <3>2 DEF Item
  <2> QED BY <1>1, <2>1, <2>2 DEF StrictlyAscending
<1>5. \A d : d \in DocsOf(tokens[n]) <=> d \in Docs /\ \E k \in DOMAIN item.docs : item.docs[k] = d
  BY <1>1, <1>4 DEF DocsOf, Item
<1>6. ListFor(list, tokens[n])
  <2>1. /\ DOMAIN list = DOMAIN item.docs
        /\ \A j \in DOMAIN list : list[j].docIdOffset = item.docs[j]
        /\ \A j \in DOMAIN list : list[j].posting = tokens[n]
    BY <1>4 DEF EntriesOf, EntryOf
  <2>2. \A j \in DOMAIN list : item.docs[j] \in Docs
    BY <1>4, <2>1
  <2>3. list \in Seq(Entries)
    <3>1. \A j \in DOMAIN item.docs : EntryOf(item, item.docs[j]) \in Entries
      BY <1>4, <2>1, <2>2 DEF EntryOf, Entries
    <3>2. DOMAIN item.docs = 1 .. Len(item.docs) /\ Len(item.docs) \in Nat
      BY <1>4
    <3>3. list \in [1 .. Len(item.docs) -> Entries]
      BY <3>1, <3>2 DEF EntriesOf
    <3> QED BY <3>2, <3>3
  <2> QED BY <1>4, <1>5, <2>1, <2>2, <2>3 DEF ListFor
<1> HIDE DEF list, item
<1>7. /\ input' \in Seq(Seq(Entries)) /\ Len(input') = n
      /\ input'[n] = list /\ \A k \in 1 .. n - 1 : input'[k] = input[k]
  <2>1. list \in Seq(Entries) /\ input' = Append(input, list)
    BY <1>1, <1>6 DEF ListFor, list, item
  <2> QED BY <1>3, <2>1
<1>8. InputInv'
  <2>1. ASSUME NEW k \in 1 .. n
        PROVE  k \in DOMAIN tokens /\ ListFor(input'[k], tokens[k])
    <3>1. CASE k = n
      BY <1>2, <1>3, <1>6, <1>7, <3>1
    <3>2. CASE k # n
      <4>1. k \in DOMAIN input
        BY <1>3, <3>2
      <4> QED BY <1>3, <1>7, <3>2, <4>1 DEF SInv, InputInv
    <3> QED BY <3>1, <3>2
  <2>2. DOMAIN input' = 1 .. n
    BY <1>7
  <2>3. \A l, tok : ListFor(l, tok)' <=> ListFor(l, tok)
    <3>1. \A tok : DocsOf(tok)' = DocsOf(tok)
      BY <1>2 DEF DocsOf
    <3> QED BY <3>1 DEF ListFor
  <2> QED BY <1>2, <2>1, <2>2, <2>3 DEF InputInv
<1>9. TypeOK'
  <2>1. IsIndex(_invIdx)' /\ (tokens \in Queries)' /\ (n \in Nat \ {0})'
    BY <1>2, <1>3 DEF SInv, TypeOK, IsIndex, StrictlyAscending
  <2>2. (output \in Seq(Seq(Entries)))' /\ (tmp \in Seq(Seq(Entries)))' /\ (input \in Seq(Seq(Entries)))'
    BY <1>2, <1>7 DEF SInv, TypeOK, Entries
  <2> QED BY <1>2, <2>1, <2>2 DEF SInv, TypeOK
<1>10. FindsMatching' /\ RowsAligned'
  BY <1>2 DEF FindsMatching, RowsAligned
<1> QED BY <1>2, <1>3, <1>7, <1>8, <1>9, <1>10 DEF SInv

\* Before an intersection only the lists and the rows have a type to keep.
LEMMA ListsStay ==
  ASSUME SInv, UNCHANGED <<_invIdx, tokens, input, i1, i2, side, pos, next_pos>>,
         n' \in Nat \ {0}, pc' \in {"find", "wild", "next", "done"},
         output' \in Seq(Seq(Entries)), tmp' \in Seq(Seq(Entries))
  PROVE  TypeOK' /\ InputInv' /\ (output \in Seq(Seq(Entries)))'
<1>1. IsIndex(_invIdx)' /\ (tokens \in Queries)' /\ (n \in Nat \ {0})'
  BY DEF SInv, TypeOK, IsIndex, StrictlyAscending
<1>2. (input \in Seq(Seq(Entries)))' /\ (output \in Seq(Seq(Entries)))' /\ (tmp \in Seq(Seq(Entries)))'
  BY DEF SInv, TypeOK, Entries
<1>3. TypeOK'
  BY <1>1, <1>2 DEF SInv, TypeOK
<1>4. InputInv'
  <2>1. \A k \in DOMAIN input : ListFor(input[k], tokens[k])' <=> ListFor(input[k], tokens[k])
    BY DEF ListFor, DocsOf
  <2> QED BY <2>1 DEF SInv, InputInv
<1> QED BY <1>2, <1>3, <1>4

\* A token that no item holds is in no document.
LEMMA NoSuchTokenKeeps ==
  ASSUME SInv, NoSuchToken
  PROVE  SInv'
<1>1. PICK p \in 1 .. Len(_invIdx) + 1 :
        LowerBound(p, tokens[n]) /\ (p \in DOMAIN _invIdx => Item(p).tokId # tokens[n])
  BY DEF NoSuchToken
<1>2. /\ pc = "find" /\ pc' = "done" /\ n <= Len(tokens)
      /\ UNCHANGED <<_invIdx, tokens, n, input, output, tmp, i1, i2, side, pos, next_pos>>
  BY DEF NoSuchToken, cursorVars
<1>3. /\ IsIndex(_invIdx) /\ tokens \in Seq(Tokens) /\ n \in Nat \ {0} /\ Len(tokens) \in Nat
      /\ output = <<>>
  BY <1>2, QueriesAssumption DEF SInv, TypeOK
<1>4. n \in DOMAIN tokens
  BY <1>2, <1>3
<1>5. ASSUME NEW i \in DOMAIN _invIdx, _invIdx[i].tokId = tokens[n]
      PROVE  FALSE
  <2>2. _invIdx[i].tokId \in Nat /\ i \in 1 .. Len(_invIdx) /\ DOMAIN _invIdx = 1 .. Len(_invIdx) /\ Len(_invIdx) \in Nat
    BY <1>3, ItemsTyped
  <2>3. ~(i < p) /\ p \in DOMAIN _invIdx
    BY <1>1, <1>5, <2>2 DEF LowerBound, Item
  <2>4. p # i
    BY <1>1, <1>5, <2>3 DEF Item
  <2>5. p < i
    BY <2>2, <2>3, <2>4
  <2>6. _invIdx[p].tokId < tokens[n]
    BY <1>3, <1>5, <2>3, <2>5 DEF IsIndex
  <2>7. p < p
    BY <1>1, <2>3, <2>6 DEF LowerBound, Item
  <2> QED BY <2>3, <2>2, <2>7
<1>6. Matching' = {} /\ tokens' # <<>>
  <2>1. DocsOf(tokens[n]) = {}
    BY <1>5 DEF DocsOf
  <2>2. DocsOf(tokens[n])' = {}
    BY <1>2, <2>1 DEF DocsOf
  <2>3. tokens' # <<>> /\ n' \in DOMAIN tokens'
    BY <1>2, <1>3, <1>4
  <2> QED BY <2>2, <2>3 DEF Matching
<1>7. FindsMatching' /\ RowsAligned'
  BY <1>2, <1>3, <1>6 DEF FindsMatching, RowsAligned, RowDocs
<1>8. n' \in Nat \ {0} /\ output' \in Seq(Seq(Entries)) /\ tmp' \in Seq(Seq(Entries))
  BY <1>2, <1>3 DEF SInv, TypeOK
<1>9. TypeOK' /\ InputInv' /\ (output \in Seq(Seq(Entries)))'
  BY <1>2, <1>8, ListsStay
<1> QED BY <1>2, <1>7, <1>9 DEF SInv

LEMMA WildTokenKeeps ==
  ASSUME SInv, WildToken
  PROVE  SInv'
<1>1. /\ pc' = "wild"
      /\ UNCHANGED <<_invIdx, tokens, n, input, output, tmp, i1, i2, side, pos, next_pos>>
  BY DEF WildToken, cursorVars
<1>2. n' \in Nat \ {0} /\ output' \in Seq(Seq(Entries)) /\ tmp' \in Seq(Seq(Entries))
  BY <1>1 DEF SInv, TypeOK
<1>3. TypeOK' /\ InputInv'
  BY <1>1, <1>2, ListsStay
<1> QED BY <1>1, <1>3 DEF SInv, FindsMatching, RowsAligned

\* Only a query of no token has no list when all tokens are found.
LEMMA FirstRowsKeeps ==
  ASSUME SInv, FirstRows
  PROVE  SInv'
<1>1. /\ pc = "find" /\ n > Len(tokens)
      /\ UNCHANGED <<_invIdx, tokens, input, tmp, i1, i2, side, pos, next_pos>>
  BY DEF FirstRows, cursorVars
<1>2. /\ tokens \in Seq(Tokens) /\ Len(tokens) \in Nat /\ n \in Nat \ {0} /\ n = Len(tokens) + 1
      /\ input \in Seq(Seq(Entries)) /\ Len(input) = Len(tokens) /\ output = <<>>
      /\ tmp \in Seq(Seq(Entries))
  BY <1>1, QueriesAssumption DEF SInv, TypeOK
<1>3. CASE input = <<>>
  <2>1. pc' = "done" /\ UNCHANGED <<n, output>>
    BY <1>3 DEF FirstRows
  <2>2. tokens' = <<>> /\ output' = <<>>
    BY <1>1, <1>2, <1>3, <2>1
  <2>3. FindsMatching' /\ RowsAligned'
    BY <2>2 DEF FindsMatching, RowsAligned, RowDocs
  <2>4. TypeOK' /\ InputInv' /\ (output \in Seq(Seq(Entries)))'
    BY <1>1, <1>2, <2>1, ListsStay
  <2> QED BY <2>1, <2>3, <2>4 DEF SInv
<1>4. CASE input # <<>>
  <2> DEFINE list == input[1]
  <2> DEFINE rows == [k \in DOMAIN list |-> <<list[k]>>]
  <2>1. pc' = "next" /\ n' = 2 /\ output' = rows
    BY <1>4 DEF FirstRows
  <2>2. 1 \in DOMAIN input /\ Len(input) >= 1
    BY <1>2, <1>4
  <2>3. ListFor(list, tokens[1]) /\ list \in Seq(Entries) /\ DOMAIN list = 1 .. Len(list) /\ Len(list) \in Nat
    <3>1. ListFor(list, tokens[1])
      BY <2>2 DEF SInv, InputInv
    <3> QED BY <3>1 DEF ListFor
  <2>4. /\ DOMAIN rows = DOMAIN list /\ \A k \in DOMAIN rows : rows[k][1] = list[k]
        /\ \A k \in DOMAIN rows : rows[k] \in Seq(Entries) /\ Len(rows[k]) = 1
    BY <2>3
  <2>5. rows \in Seq(Seq(Entries))
    <3>1. rows \in [1 .. Len(list) -> Seq(Entries)]
      BY <2>3, <2>4
    <3> QED BY <2>3, <3>1
  <2> HIDE DEF rows
  <2>6. \A d : d \in CommonDocs(1) <=> d \in DocsOf(tokens[1])
    BY DEF CommonDocs, DocsOf
  <2>7. RowsFor(rows, 1)
    <3>1. \A r \in DOMAIN rows : RowFor(rows[r], 1) /\ rows[r][1].docIdOffset \in CommonDocs(1)
      BY <2>3, <2>4, <2>6 DEF RowFor, ListFor
    <3>2. \A r, s \in DOMAIN rows : r < s => rows[r][1].docIdOffset < rows[s][1].docIdOffset
      BY <2>3, <2>4, SMTT(30) DEF ListFor
    <3>3. \A d \in CommonDocs(1) : \E r \in DOMAIN rows : rows[r][1].docIdOffset = d
      BY <2>3, <2>4, <2>6 DEF ListFor
    <3> QED BY <2>5, <3>1, <3>2, <3>3 DEF RowsFor, RowsShape
  <2>8. TypeOK' /\ InputInv'
    BY <1>1, <1>2, <2>1, <2>5, ListsStay
  <2>9. RowsFor(common, n - 1)'
    <3>1. \A rr, m : RowsFor(rr, m)' <=> RowsFor(rr, m)
      BY <1>1, SameQuery
    <3>2. common' = rows /\ n' - 1 = 1
      BY <2>1 DEF common, IntoTmp
    <3> QED BY <2>7, <3>1, <3>2
  <2> QED BY <1>1, <1>2, <2>1, <2>2, <2>8, <2>9 DEF SInv, FindsMatching, RowsAligned
<1> QED BY <1>3, <1>4

LEMMA NextListKeeps ==
  ASSUME SInv, NextList
  PROVE  SInv'
<1>1. /\ pc = "next" /\ n <= Len(input) /\ SetRes(<<>>) /\ i1' = 1 /\ i2' = 1
      /\ UNCHANGED <<_invIdx, tokens, input, side, pos, next_pos>>
  BY DEF NextList
<1>2. /\ n \in 2 .. Len(input) /\ n \in Nat \ {0} /\ Len(input) = Len(tokens)
      /\ output \in Seq(Seq(Entries)) /\ tmp \in Seq(Seq(Entries)) /\ input \in Seq(Seq(Entries))
      /\ side \in {1, 2} /\ pos \in Nat \ {0} /\ next_pos \in Nat \ {0}
      /\ RowsFor(common, n - 1)
  BY <1>1 DEF SInv, TypeOK
<1>3. /\ <<>> = IF IntoTmp THEN tmp' ELSE output'
      /\ common = IF IntoTmp THEN output' ELSE tmp'
      /\ output' \in Seq(Seq(Entries)) /\ tmp' \in Seq(Seq(Entries))
  <2>1. <<>> \in Seq(Seq(Entries))
    OBVIOUS
  <2>2. CASE IntoTmp
    BY <1>1, <1>2, <2>1, <2>2 DEF SetRes, common
  <2>3. CASE ~IntoTmp
    BY <1>1, <1>2, <2>1, <2>3 DEF SetRes, common
  <2> QED BY <2>2, <2>3
<1>4. RowsShape(<<>>, n)
  BY DEF RowsShape
<1>5. CASE common = <<>> \/ entries = <<>>
  <2>1. n' = n + 1 /\ pc' = "next"
    BY <1>1, <1>5 DEF NextList
  <2>2. \A d \in CommonDocs(n) : FALSE
    <3> TAKE d \in CommonDocs(n)
    <3>1. (\E q \in 1 .. Len(common) : doc1(q) = d) /\ (\E q \in 1 .. Len(entries) : doc2(q) = d)
      BY <1>1, OnBothSides
    <3> QED BY <1>5, <3>1
  <2>3. RowsFor(<<>>, n)
    BY <1>4, <2>2 DEF RowsFor
  <2>4. i1' \in Nat \ {0} /\ i2' \in Nat \ {0}
    BY <1>1
  <2> QED BY <1>1, <1>2, <1>3, <2>1, <2>3, <2>4, ListIsDone
<1>6. CASE common # <<>> /\ entries # <<>>
  <2>1. n' = n /\ pc' = "compare"
    BY <1>1, <1>6 DEF NextList
  <2>2. common' = common /\ res' = <<>> /\ entries' = entries
    BY <1>1, <1>3, <2>1 DEF common, res, entries, IntoTmp
  <2>3. 1 \in 1 .. Len(common) /\ 1 \in 1 .. Len(entries) /\ Len(common) \in Nat /\ Len(entries) \in Nat
    <3>1. common \in Seq(Seq(Entries))
      BY <1>2 DEF RowsFor, RowsShape
    <3>2. entries \in Seq(Entries)
      BY <1>2 DEF entries
    <3> QED BY <1>6, <3>1, <3>2
  <2>4. \A d \in CommonDocs(n) : d >= doc1(1) /\ d >= doc2(1)
    <3> TAKE d \in CommonDocs(n)
    <3>1. PICK q \in 1 .. Len(common) : doc1(q) = d
      BY <1>1, OnBothSides
    <3>2. PICK p \in 1 .. Len(entries) : doc2(p) = d
      BY <1>1, OnBothSides
    <3>3. doc1(1) \in Nat /\ doc2(1) \in Nat /\ d \in Nat
      BY <1>1, <2>3, <3>1, SidesAscend
    <3>4. (q = 1 \/ doc1(1) < doc1(q)) /\ (p = 1 \/ doc2(1) < doc2(p))
      BY <1>1, <2>3, <3>1, <3>2, SidesAscend
    <3> QED BY <3>1, <3>2, <3>3, <3>4
  <2>5. Covered(res)'
    <3>1. /\ \A m : CommonDocs(m)' = CommonDocs(m)
          /\ \A rr, m : RowsShape(rr, m)' <=> RowsShape(rr, m)
      BY <1>1, SameQuery
    <3>2. RowsShape(res, n)'
      BY <1>4, <2>1, <2>2, <3>1
    <3> QED BY <1>1, <2>1, <2>2, <2>4, <3>1, <3>2 DEF Covered, doc1, doc2
  <2>6. RowsFor(common, n - 1)'
    <3>1. \A rr, m : RowsFor(rr, m)' <=> RowsFor(rr, m)
      BY <1>1, SameQuery
    <3> QED BY <1>2, <2>1, <2>2, <3>1
  <2>7. TypeOK'
    <3>1. IsIndex(_invIdx)' /\ (tokens \in Queries)' /\ (n \in Nat \ {0})'
      BY <1>1, <2>1 DEF SInv, TypeOK, IsIndex, StrictlyAscending
    <3>2. (input \in Seq(Seq(Entries)))' /\ (output \in Seq(Seq(Entries)))' /\ (tmp \in Seq(Seq(Entries)))'
      BY <1>1, <1>2, <1>3 DEF Entries
    <3> QED BY <1>1, <1>2, <2>1, <2>2, <2>3, <3>1, <3>2 DEF TypeOK
  <2>8. InputInv'
    <3>1. \A k \in DOMAIN input : ListFor(input[k], tokens[k])' <=> ListFor(input[k], tokens[k])
      BY <1>1 DEF ListFor, DocsOf
    <3> QED BY <1>1, <3>1 DEF SInv, InputInv
  <2> QED BY <1>1, <1>2, <2>1, <2>5, <2>6, <2>7, <2>8 DEF SInv, FindsMatching, RowsAligned
<1> QED BY <1>5, <1>6

\* The rows of the last list are the answer, in whichever of the two they are.
LEMMA LastListKeeps ==
  ASSUME SInv, LastList
  PROVE  SInv'
<1>1. /\ pc = "next" /\ n > Len(input) /\ pc' = "done"
      /\ output' = IF Len(input) % 2 = 0 THEN tmp ELSE output
      /\ UNCHANGED <<_invIdx, tokens, n, input, tmp, i1, i2, side, pos, next_pos>>
  BY DEF LastList, cursorVars
<1>2. /\ n = Len(tokens) + 1 /\ Len(input) = Len(tokens) /\ n \in Nat \ {0} /\ n >= 2
      /\ tokens \in Seq(Tokens) /\ Len(tokens) \in Nat /\ RowsFor(common, n - 1)
      /\ tmp \in Seq(Seq(Entries))
  BY <1>1, QueriesAssumption DEF SInv, TypeOK
<1>3. output' = common
  <2>1. n % 2 = 0 <=> Len(input) % 2 # 0
    BY <1>2, Parity
  <2> QED BY <1>1, <2>1 DEF common, IntoTmp
<1>4. RowsFor(output', Len(tokens))
  BY <1>2, <1>3
<1>5. /\ output' \in Seq(Seq(Entries))
      /\ \A r \in DOMAIN output' : /\ RowFor(output'[r], Len(tokens))
                                    /\ output'[r][1].docIdOffset \in CommonDocs(Len(tokens))
      /\ \A r, s \in DOMAIN output' : r < s => output'[r][1].docIdOffset < output'[s][1].docIdOffset
      /\ \A d \in CommonDocs(Len(tokens)) : \E r \in DOMAIN output' : output'[r][1].docIdOffset = d
  BY <1>4 DEF RowsFor, RowsShape
<1>6. Matching' = CommonDocs(Len(tokens)) /\ tokens' # <<>> /\ DOMAIN tokens = 1 .. Len(tokens)
  <2>1. DOMAIN tokens = 1 .. Len(tokens) /\ tokens' # <<>>
    BY <1>1, <1>2
  <2>2. Matching = CommonDocs(Len(tokens))
    BY <2>1 DEF Matching, CommonDocs
  <2>3. Matching' = Matching
    BY <1>1 DEF Matching, DocsOf
  <2> QED BY <2>1, <2>2, <2>3
<1>7. FindsMatching'
  <2>1. RowDocs(output)' = CommonDocs(Len(tokens))
    <3>1. \A d : d \in RowDocs(output)' <=> \E r \in DOMAIN output' : output'[r][1].docIdOffset = d
      BY DEF RowDocs
    <3> QED BY <1>5, <3>1
  <2> QED BY <1>5, <1>6, <2>1 DEF FindsMatching
<1>8. RowsAligned'
  <2>1. ASSUME NEW r \in DOMAIN output', NEW k \in DOMAIN tokens
        PROVE  output'[r][k] = [docIdOffset |-> output'[r][1].docIdOffset, posting |-> tokens[k]]
    <3>1. /\ output'[r] \in Seq(Entries) /\ Len(output'[r]) = Len(tokens)
          /\ output'[r][k].docIdOffset = output'[r][1].docIdOffset
          /\ output'[r][k].posting = tokens[k]
      BY <1>5, <1>6 DEF RowFor
    <3>2. output'[r][k] \in Entries
      BY <1>2, <1>6, <3>1
    <3> QED BY <3>1, <3>2 DEF Entries
  <2>2. \A r \in DOMAIN output' : Len(output'[r]) = Len(tokens)
    BY <1>5 DEF RowFor
  <2> QED BY <1>1, <2>1, <2>2 DEF RowsAligned
<1>9. TypeOK' /\ InputInv' /\ (output \in Seq(Seq(Entries)))'
  BY <1>1, <1>2, <1>5, ListsStay
<1> QED BY <1>1, <1>7, <1>8, <1>9 DEF SInv

-----------------------------------------------------------------------------
LEMMA InitSInv == Init => SInv
<1> SUFFICES ASSUME Init PROVE SInv
  OBVIOUS
<1>1. TypeOK
  BY IndexesAssumption DEF Init, TypeOK
<1>2. tokens \in Seq(Tokens) /\ Len(tokens) \in Nat
  BY QueriesAssumption DEF Init
<1> QED BY <1>1, <1>2 DEF Init, SInv, InputInv, FindsMatching, RowsAligned

LEMMA StutterKeeps ==
  ASSUME SInv, UNCHANGED vars
  PROVE  SInv'
<1>1. UNCHANGED <<_invIdx, tokens, pc, n, input, output, tmp, i1, i2, side, pos, next_pos>>
  BY DEF vars, cursorVars
<1>2. /\ InputInv' /\ common' = common /\ res' = res /\ entries' = entries
      /\ RowsFor(common, n - 1)' <=> RowsFor(common, n - 1)
      /\ Covered(res)' <=> Covered(res)
  BY <1>1, SameRows
<1>3. TypeOK'
  BY <1>1, <1>2 DEF SInv, TypeOK, IsIndex, StrictlyAscending, Size, Entries
<1>4. pc \in InJump => JumpInv'
  BY <1>1, <1>2 DEF SInv, JumpInv, Size, doc, doc1, doc2, target
<1>5. FindsMatching' /\ RowsAligned'
  <2>1. Matching' = Matching
    BY <1>1 DEF Matching, DocsOf
  <2>2. RowDocs(output)' = RowDocs(output)
    BY <1>1 DEF RowDocs
  <2> QED BY <1>1, <2>1, <2>2 DEF SInv, FindsMatching, RowsAligned
<1> QED BY <1>1, <1>2, <1>3, <1>4, <1>5 DEF SInv

LEMMA NextSInv ==
  ASSUME SInv, [Next]_vars
  PROVE  SInv'
<1>1. CASE Find
  BY <1>1, FindTokenKeeps, NoSuchTokenKeeps, WildTokenKeeps DEF Find
<1>2. CASE Intersect
  BY <1>2, FirstRowsKeeps, NextListKeeps, LastListKeeps, MatchKeeps, BehindKeeps DEF Intersect
<1>3. CASE Jumping
  BY <1>3, StrideKeeps, StrideDoneKeeps, WalkKeeps, WalkDoneKeeps, NoMoreElementsKeeps, LandKeeps
  DEF Jumping
<1>4. CASE UNCHANGED vars
  BY <1>4, StutterKeeps
<1> QED BY <1>1, <1>2, <1>3, <1>4 DEF Next

(* The inductive invariant holds of every search (searcher.cpp:15-31).      *)
THEOREM SearchInv == Spec => []SInv
<1>1. Init => SInv
  BY InitSInv
<1>2. SInv /\ [Next]_vars => SInv'
  BY NextSInv
<1> QED BY <1>1, <1>2, PTL DEF Spec

(* Every cursor, of the intersection and of its jumps, stays on a row or an  *)
(* entry that exists (index_struct.cpp:425-480).                             *)
THEOREM SearchTypeOK == Spec => []TypeOK
<1>1. SInv => TypeOK
  BY DEF SInv
<1> QED BY <1>1, SearchInv, PTL

(* For every index, query and stride a finished search has found the         *)
(* documents with all tokens of the query, each once and in order.           *)
THEOREM SearchFindsMatching == Spec => []FindsMatching
<1>1. SInv => FindsMatching
  BY DEF SInv
<1> QED BY <1>1, SearchInv, PTL

(* The k-th entry of every row is the document's for the k-th token of the   *)
(* query, whatever the number of lists (index_struct.cpp:490-514).           *)
THEOREM SearchRowsAligned == Spec => []RowsAligned
<1>1. SInv => RowsAligned
  BY DEF SInv
<1> QED BY <1>1, SearchInv, PTL
=============================================================================
