------------------------------- MODULE Search -------------------------------
(***************************************************************************)
(* Searcher::search up to the ranking: every token of the query is looked  *)
(* up in the inverted index (InvertIndex::findTknIdx, getEntries), and the *)
(* lists of entries, sorted by document, are intersected one after the     *)
(* other (intersectEntries, intersectMore, jump).  One step is one         *)
(* iteration of a loop.  Positions count from 1 where the code's count     *)
(* from 0.                                                                 *)
(***************************************************************************)
EXTENDS Naturals, Sequences, FiniteSets

CONSTANTS Tokens,    \* hashes of words
          Docs,      \* offsets in the document store
          Indexes,   \* the inverted indexes a search can meet
          Queries,   \* the token sequences it can be asked for
          step       \* of the jumps: 100 in intersectEntries

StrictlyAscending(s) == \A i, j \in DOMAIN s : i < j => s[i] < s[j]

\* An index is a sequence of items in the order of their tokens, an item holds a
\* token and the documents of its entries in order (the sort of _mergeIndexes).
IsIndex(idx) ==
  /\ idx \in Seq([tokId : Tokens, docs : Seq(Docs)])
  /\ \A i, j \in DOMAIN idx : i < j => idx[i].tokId < idx[j].tokId
  /\ \A i \in DOMAIN idx : idx[i].docs # <<>> /\ StrictlyAscending(idx[i].docs)

ASSUME TokensAssumption == Tokens \subseteq Nat /\ Docs \subseteq Nat
ASSUME IndexesAssumption == \A idx \in Indexes : IsIndex(idx)
ASSUME QueriesAssumption == Queries \subseteq Seq(Tokens)
ASSUME StepAssumption == step \in Nat \ {0}

VARIABLES
  _invIdx, tokens,      \* the index and the query
  pc,
  n,                    \* token or list in turn
  input,                \* per token found: its entries, entries_by_token
  output, tmp,          \* rows of entries, one row per document; intersectEntries
                        \*   fills them in turn
  i1, i2,               \* intersectMore: positions in the rows and the entries
  side,                 \* which of them the jump moves
  pos, next_pos         \* its locals

cursorVars == <<i1, i2, side, pos, next_pos>>
vars == <<_invIdx, tokens, pc, n, input, output, tmp, cursorVars>>

\* What is left of an Entry: its document, and which posting of it is meant.
EntryOf(item, d) == [docIdOffset |-> d, posting |-> item.tokId]

EntriesOf(item) == [k \in DOMAIN item.docs |-> EntryOf(item, item.docs[k])]

Init == /\ _invIdx \in Indexes /\ tokens \in Queries
        /\ pc = "find" /\ n = 1
        /\ input = <<>> /\ output = <<>> /\ tmp = <<>>
        /\ i1 = 1 /\ i2 = 1 /\ side = 1 /\ pos = 1 /\ next_pos = 1

-----------------------------------------------------------------------------
(* findTknIdx and getEntries for one token after the other.                *)

Item(i) == _invIdx[i]

\* std::lower_bound on the items: p - 1 items are below tok, the rest is not.
LowerBound(p, tok) ==
  /\ p \in 1 .. Len(_invIdx) + 1
  /\ \A i \in DOMAIN _invIdx : Item(i).tokId < tok <=> i < p

FindToken ==
  /\ pc = "find" /\ n <= Len(tokens)
  /\ \E p \in DOMAIN _invIdx :
       /\ LowerBound(p, tokens[n])
       /\ Item(p).tokId = tokens[n]
       /\ input' = Append(input, EntriesOf(Item(p)))
  /\ n' = n + 1
  /\ UNCHANGED <<_invIdx, tokens, pc, output, tmp, cursorVars>>

\* search returns at the first token the index does not have.
NoSuchToken ==
  /\ pc = "find" /\ n <= Len(tokens)
  /\ \E p \in 1 .. Len(_invIdx) + 1 :
       /\ LowerBound(p, tokens[n])
       /\ p \in DOMAIN _invIdx => Item(p).tokId # tokens[n]
  /\ pc' = "done"
  /\ UNCHANGED <<_invIdx, tokens, n, input, output, tmp, cursorVars>>

\* lower_bound answered the end, and the memory behind the last item happens to
\* hold the token: what getEntries reads then is anything.
WildToken ==
  /\ pc = "find" /\ n <= Len(tokens)
  /\ LowerBound(Len(_invIdx) + 1, tokens[n])
  /\ pc' = "wild"
  /\ UNCHANGED <<_invIdx, tokens, n, input, output, tmp, cursorVars>>

-----------------------------------------------------------------------------
(* intersectEntries.                                                       *)

\* An empty input is returned as it came; of any other the first list makes the
\* first rows.
FirstRows ==
  /\ pc = "find" /\ n > Len(tokens)
  /\ \/ /\ input = <<>> /\ pc' = "done"
        /\ UNCHANGED <<n, output>>
     \/ /\ input # <<>> /\ pc' = "next"
        /\ output' = [k \in DOMAIN input[1] |-> <<input[1][k]>>]
        /\ n' = 2
  /\ UNCHANGED <<_invIdx, tokens, input, tmp, cursorVars>>

\* List n of the input and the rows of the lists before it; rows of even lists
\* go to tmp, those of odd ones to output.
IntoTmp == n % 2 = 0
common == IF IntoTmp THEN output ELSE tmp
res == IF IntoTmp THEN tmp ELSE output
entries == input[n]

SetRes(rows) == IF IntoTmp THEN tmp' = rows /\ UNCHANGED output
                           ELSE output' = rows /\ UNCHANGED tmp

NextList ==
  /\ pc = "next" /\ n <= Len(input)
  /\ SetRes(<<>>)
  /\ i1' = 1 /\ i2' = 1
  /\ \/ /\ common = <<>> \/ entries = <<>>
        /\ n' = n + 1 /\ UNCHANGED pc
     \/ /\ common # <<>> /\ entries # <<>>
        /\ pc' = "compare" /\ UNCHANGED n
  /\ UNCHANGED <<_invIdx, tokens, input, side, pos, next_pos>>

LastList ==
  /\ pc = "next" /\ n > Len(input)
  /\ output' = IF Len(input) % 2 = 0 THEN tmp ELSE output
  /\ pc' = "done"
  /\ UNCHANGED <<_invIdx, tokens, n, input, tmp, cursorVars>>

-----------------------------------------------------------------------------
(* intersectMore: v1 are the first entries of the rows, v2 the entries.    *)

doc1(i) == common[i][1].docIdOffset
doc2(i) == entries[i].docIdOffset

Size(s) == IF s = 1 THEN Len(common) ELSE Len(entries)
doc(s, i) == IF s = 1 THEN doc1(i) ELSE doc2(i)

\* The document the other side waits at.
target == IF side = 1 THEN doc2(i2) ELSE doc1(i1)

Least(x, y) == IF x < y THEN x ELSE y

ListDone == n' = n + 1 /\ pc' = "next"

\* Slip: the entry of the row is repeated instead of the list's.
MatchRepeats ==
  /\ pc = "compare" /\ doc1(i1) = doc2(i2)
  /\ SetRes(Append(res, Append(common[i1], common[i1][1])))
  /\ i1' = i1 + 1 /\ i2' = i2 + 1
  /\ IF i1' > Len(common) \/ i2' > Len(entries) THEN ListDone ELSE UNCHANGED <<n, pc>>
  /\ UNCHANGED <<_invIdx, tokens, input, side, pos, next_pos>>

\* Slip: only the rows are looked at for an end.
MatchPastEnd ==
  /\ pc = "compare" /\ doc1(i1) = doc2(i2)
  /\ SetRes(Append(res, Append(common[i1], entries[i2])))
  /\ i1' = i1 + 1 /\ i2' = i2 + 1
  /\ IF i1' > Len(common) THEN ListDone ELSE UNCHANGED <<n, pc>>
  /\ UNCHANGED <<_invIdx, tokens, input, side, pos, next_pos>>

Match ==
  /\ pc = "compare" /\ doc1(i1) = doc2(i2)
  /\ SetRes(Append(res, Append(common[i1], entries[i2])))
  /\ i1' = i1 + 1 /\ i2' = i2 + 1
  /\ IF i1' > Len(common) \/ i2' > Len(entries) THEN ListDone ELSE UNCHANGED <<n, pc>>
  /\ UNCHANGED <<_invIdx, tokens, input, side, pos, next_pos>>

\* The side that is behind jumps.
Jump(s, from) ==
  /\ side' = s
  /\ pos' = from
  /\ next_pos' = Least(from + step, Size(s))
  /\ pc' = "stride"
  /\ UNCHANGED <<_invIdx, tokens, n, input, output, tmp, i1, i2>>

Behind == /\ pc = "compare"
          /\ \/ doc1(i1) < doc2(i2) /\ Jump(1, i1)
             \/ doc1(i1) > doc2(i2) /\ Jump(2, i2)

-----------------------------------------------------------------------------
(* jump: strides while the target is not passed, then single steps.        *)

CanStride == next_pos <= Size(side) /\ doc(side, next_pos) <= target

Stride ==
  /\ pc = "stride" /\ CanStride
  /\ pos' = next_pos
  /\ next_pos' = next_pos + step
  /\ UNCHANGED <<_invIdx, tokens, pc, n, input, output, tmp, i1, i2, side>>

StrideDone ==
  /\ pc = "stride" /\ ~CanStride
  /\ next_pos' = Least(next_pos, Size(side))
  /\ pc' = IF doc(side, next_pos') >= target THEN "walk" ELSE "land"
  /\ UNCHANGED <<_invIdx, tokens, n, input, output, tmp, i1, i2, side, pos>>

\* Slip: the walk goes on behind the target.
WalkTooFar ==
  /\ pc = "walk" /\ pos < next_pos /\ doc(side, pos) <= target
  /\ pos' = pos + 1
  /\ UNCHANGED <<_invIdx, tokens, pc, n, input, output, tmp, i1, i2, side, next_pos>>

Walk ==
  /\ pc = "walk" /\ pos < next_pos /\ doc(side, pos) < target
  /\ pos' = pos + 1
  /\ UNCHANGED <<_invIdx, tokens, pc, n, input, output, tmp, i1, i2, side, next_pos>>

WalkDone ==
  /\ pc = "walk" /\ ~(pos < next_pos /\ doc(side, pos) < target)
  /\ pc' = "land"
  /\ UNCHANGED <<_invIdx, tokens, n, input, output, tmp, cursorVars>>

\* throw NoMoreElements.
NoMoreElements ==
  /\ pc = "land" /\ doc(side, pos) < target
  /\ ListDone
  /\ UNCHANGED <<_invIdx, tokens, input, output, tmp, cursorVars>>

\* Slip: what jump returns is not stored.
LandStays ==
  /\ pc = "land" /\ doc(side, pos) >= target
  /\ pc' = "compare"
  /\ UNCHANGED <<_invIdx, tokens, n, input, output, tmp, cursorVars>>

Land ==
  /\ pc = "land" /\ doc(side, pos) >= target
  /\ IF side = 1 THEN i1' = pos /\ UNCHANGED i2 ELSE i2' = pos /\ UNCHANGED i1
  /\ pc' = "compare"
  /\ UNCHANGED <<_invIdx, tokens, n, input, output, tmp, side, pos, next_pos>>

-----------------------------------------------------------------------------
Find == FindToken \/ NoSuchToken \/ WildToken
Intersect == FirstRows \/ NextList \/ LastList \/ Match \/ Behind
Jumping == Stride \/ StrideDone \/ Walk \/ WalkDone \/ NoMoreElements \/ Land

Next == Find \/ Intersect \/ Jumping

Spec == Init /\ [][Next]_vars

\* A query is answered by one thread, and no step of it blocks.
FairSpec == Spec /\ WF_vars(Next)

-----------------------------------------------------------------------------
Entries == [docIdOffset : Docs, posting : Tokens]

(* The type invariant; in the middle of an intersection the two cursors and  *)
(* the jump's stay on rows and entries that exist.                           *)
TypeOK ==
  /\ IsIndex(_invIdx) /\ tokens \in Queries
  /\ pc \in {"find", "wild", "next", "compare", "stride", "walk", "land", "done"}
  /\ n \in Nat \ {0}
  /\ input \in Seq(Seq(Entries))
  /\ output \in Seq(Seq(Entries)) /\ tmp \in Seq(Seq(Entries))
  /\ i1 \in Nat \ {0} /\ i2 \in Nat \ {0} /\ side \in {1, 2}
  /\ pos \in Nat \ {0} /\ next_pos \in Nat \ {0}
  /\ pc \in {"compare", "stride", "walk", "land"} =>
       n \in 2 .. Len(input) /\ i1 \in 1 .. Len(common) /\ i2 \in 1 .. Len(entries)
  /\ pc \in {"stride", "walk", "land"} => pos \in 1 .. Size(side)
  /\ pc = "walk" => next_pos \in 1 .. Size(side)

DocsOf(tok) == {d \in Docs : \E i \in DOMAIN _invIdx :
                  _invIdx[i].tokId = tok /\ \E k \in DOMAIN _invIdx[i].docs : _invIdx[i].docs[k] = d}

\* The documents that have every token of the query.
Matching == {d \in Docs : \A k \in DOMAIN tokens : d \in DocsOf(tokens[k])}

RowDocs(rows) == {rows[r][1].docIdOffset : r \in DOMAIN rows}

(* A finished search has found the documents that have all tokens of the     *)
(* query and no others, whatever strides the jumps took; each is found once, *)
(* in the order of the document store.  A query of no token finds nothing.   *)
FindsMatching ==
  pc = "done" =>
    /\ RowDocs(output) = IF tokens = <<>> THEN {} ELSE Matching
    /\ \A r, s \in DOMAIN output : r < s => output[r][1].docIdOffset < output[s][1].docIdOffset

(* The entries of a row are of one document, the k-th that of the query's    *)
(* k-th token: the ranker multiplies it with the k-th idf.                   *)
RowsAligned ==
  pc = "done" =>
    \A r \in DOMAIN output :
      /\ Len(output[r]) = Len(tokens)
      /\ \A k \in DOMAIN tokens : output[r][k] = [docIdOffset |-> output[r][1].docIdOffset,
                                                  posting |-> tokens[k]]

(* Every search ends, the loop of intersectMore ("while (42)") included.     *)
SearchEnds == <>(pc \in {"done", "wild"})
=============================================================================
