---------------------------- MODULE MergeIndexes ----------------------------
(***************************************************************************)
(* Indexer::_mergeIndexes (indexer.cpp): the inverted index of the last    *)
(* run and the raw indexes flushed since are merged into the new inverted  *)
(* index.  An index is a file of items, each a token with its entries;     *)
(* only the token matters to the merge, and the entries behind it are      *)
(* named by the place they are read at, <<file, position>>.                *)
(***************************************************************************)
EXTENDS Naturals, Sequences, FiniteSets, FiniteSetsExt, SequencesExt

CONSTANT Tokens  \* token ids

ASSUME TokensAssumption == Tokens \subseteq Nat

VARIABLES
  raw,       \* the tokens of every file, in the order their paths are found
  pos,       \* per file: position in raw of RawIndex::curTok
  indexes,   \* std::list of the files not read to their end
  it,        \* position of itIdx in indexes; past the end, indexes.end()
  min,       \* the token looked for in this round
  entries,   \* the places whose entries have been read for min
  out,       \* the items written: a token and the places of its entries
  pc

vars == <<raw, pos, indexes, it, min, entries, out, pc>>

Files == DOMAIN raw
Places == Files \X (Nat \ {0})

Ascending(s) == \A i, j \in DOMAIN s : i < j => s[i] <= s[j]
Repeats(s, t) == \E i, j \in DOMAIN s : i # j /\ s[i] = t /\ s[j] = t

\* A flush of an empty _invIdx is left out: RawIndex reads an uninitialized curTok
\* then.
RawIndex == {s \in Seq(Tokens) : s # <<>> /\ Ascending(s)}

\* std::map keeps the tokens of one flush apart and in order; the first file may
\* be the index an earlier merge wrote, where a token may repeat (TokensAscend
\* below).
RawIndexes == {r \in Seq(RawIndex) : \A f \in DOMAIN r : \A t \in Tokens : Repeats(r[f], t) => f = 1}

\* Every file is open and its first token read.
Opened == /\ pos = [f \in Files |-> 1]
          /\ indexes = [f \in Files |-> f]
          /\ it = 1 /\ min = 0
          /\ entries = {} /\ out = <<>>
          /\ pc = "min"

Init == raw \in RawIndexes /\ Opened

curTok(f) == raw[f][pos[f]]

\* Slip: the front of the list, as if it were sorted by its tokens.
MinOfFront == curTok(Head(indexes))

\* std::min over the indexes, before the scan.
MinToken == Min({curTok(indexes[i]) : i \in DOMAIN indexes})

\* Slip: one token more, _size counted down after the test instead of in it.
HasNextLate(f) == pos[f] <= Len(raw[f])

\* What RawIndex::readNextToken returns.
HasNext(f) == pos[f] < Len(raw[f])

FindMin ==
  /\ pc = "min" /\ indexes # <<>>
  /\ min' = MinToken
  /\ it' = 1
  /\ pc' = "scan"
  /\ UNCHANGED <<raw, pos, indexes, entries, out>>

AtIndex == pc = "scan" /\ it <= Len(indexes)

\* Slip: a continue before ++itIdx.
OtherTokenStays ==
  /\ AtIndex /\ curTok(indexes[it]) # min
  /\ UNCHANGED vars

OtherToken ==
  /\ AtIndex /\ curTok(indexes[it]) # min
  /\ it' = it + 1
  /\ UNCHANGED <<raw, pos, indexes, min, entries, out, pc>>

\* readTokEntries, then readNextToken.
Read(f) ==
  /\ curTok(f) = min
  /\ entries' = entries \cup {<<f, pos[f]>>}
  /\ pos' = [pos EXCEPT ![f] = @ + 1]
  /\ UNCHANGED <<raw, min, out, pc>>

ReadToken ==
  /\ AtIndex /\ HasNext(indexes[it])
  /\ Read(indexes[it])
  /\ it' = it + 1
  /\ UNCHANGED indexes

\* The index is at its end and erased.  erase returns the index behind it, and
\* the loop's ++itIdx then passes that one over.  Behind the last index there is
\* only end(), and ++ of it is begin(): undefined by the standard, and what the
\* circular list of libstdc++ does.
ReadLastToken ==
  /\ AtIndex /\ ~HasNext(indexes[it])
  /\ Read(indexes[it])
  /\ indexes' = RemoveAt(indexes, it)
  /\ it' = IF it = Len(indexes) THEN 1 ELSE it + 1

\* Slip: entries.clear() is missing.
WriteItemKeeps ==
  /\ pc = "scan" /\ it > Len(indexes)
  /\ out' = Append(out, [token |-> min, places |-> entries])
  /\ pc' = "min"
  /\ UNCHANGED <<raw, pos, indexes, it, min, entries>>

WriteItem ==
  /\ pc = "scan" /\ it > Len(indexes)
  /\ out' = Append(out, [token |-> min, places |-> entries])
  /\ entries' = {}
  /\ pc' = "min"
  /\ UNCHANGED <<raw, pos, indexes, it, min>>

Rename ==
  /\ pc = "min" /\ indexes = <<>>
  /\ pc' = "done"
  /\ UNCHANGED <<raw, pos, indexes, it, min, entries, out>>

Next == FindMin \/ OtherToken \/ ReadToken \/ ReadLastToken \/ WriteItem \/ Rename

Spec == Init /\ [][Next]_vars

\* One thread, and no call of it blocks.
Fairness == WF_vars(Next)

FairSpec == Spec /\ Fairness

-----------------------------------------------------------------------------
MergedItems == [token : Tokens, places : SUBSET Places]

(* The type invariant; an index still in the list has a token to read.        *)
TypeOK ==
  /\ raw \in [Files -> Seq(Tokens)]
  /\ pos \in [Files -> Nat \ {0}]
  /\ indexes \in Seq(Files)
  /\ \A i \in DOMAIN indexes : pos[indexes[i]] \in DOMAIN raw[indexes[i]]
  /\ it \in Nat \ {0}
  /\ min \in Tokens \cup {0}
  /\ entries \subseteq Places
  /\ out \in Seq(MergedItems)
  /\ pc \in {"min", "scan", "done"}

(* What an index has for a token is in one item of the merged index and no    *)
(* more, as soon as it has been read, or about to be written there; the item  *)
(* is one of that token; no item holds what was not read; and in the end      *)
(* every file has been read.                                                  *)
NothingLost ==
  /\ pc = "done" => \A f \in Files : pos[f] = Len(raw[f]) + 1
  /\ \A f \in Files : \A p \in 1 .. Len(raw[f]) :
       LET Holders == {i \in DOMAIN out : <<f, p>> \in out[i].places}
       IN /\ \A i \in Holders : out[i].token = raw[f][p]
          /\ <<f, p>> \in entries => min = raw[f][p]
          /\ Cardinality(Holders) + (IF <<f, p>> \in entries THEN 1 ELSE 0)
               = IF p < pos[f] THEN 1 ELSE 0

\* A token that a file ends with and one behind it has, or that a file has twice.
Divided(t) ==
  \/ \E f, g \in Files : f < g /\ Last(raw[f]) = t /\ t \in Range(raw[g])
  \/ \E f \in Files : Repeats(raw[f], t)

(* The tokens of the merged index never descend, whatever indexes the scan   *)
(* passes over: the lower_bound of InvertIndex::findTknIdx stays sound.  And *)
(* a token has a second item for no other reason than that a file ended with *)
(* it and one behind that had it too, or that a file had it twice.           *)
NeverDescends ==
  \A i, j \in DOMAIN out :
    i < j => \/ out[i].token < out[j].token
             \/ out[i].token = out[j].token /\ Divided(out[i].token)

(* The merge ends, although an iterator runs past the end of the list.       *)
MergeEnds == <>(pc = "done")

(* The check that InvertIndex::configure once made (index_struct.cpp:307):   *)
(* the tokens of the inverted index strictly ascend.  findTknIdx reads only  *)
(* the first item of a token, so that a second one is never found.           *)
TokensAscend == \A i, j \in DOMAIN out : i < j => out[i].token < out[j].token
=============================================================================
