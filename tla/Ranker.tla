------------------------------- MODULE Ranker -------------------------------
(***************************************************************************)
(* The ranker (ranker.cpp): of the documents that were found the draft     *)
(* ranking keeps some; for every one of these and two of its zones the     *)
(* positions of the query's tokens are merged into one list, over which a  *)
(* window slides; then the documents are put in order.  One step of the    *)
(* loops over positions is a step here, every other function one step.     *)
(* Ranks are exact numbers, scaled so that they are integers: those of the *)
(* windows by the size of the window, where the code has floats.           *)
(***************************************************************************)
EXTENDS Integers, Sequences, FiniteSets, SequencesExt, FiniteSetsExt

CONSTANTS MAX_WINDOW_SIZE,   \* 10
          MAX_DRAFT_DOCS,    \* 200
          IdfSums,           \* sums of the idfs of a query, logarithms in the code
          WordsUnit          \* a multiple of the word counts: the unit of the tf

ASSUME WindowAssumption == MAX_WINDOW_SIZE \in Nat \ {0}
ASSUME DraftAssumption == MAX_DRAFT_DOCS \in Nat \ {0}
ASSUME IdfAssumption == IdfSums \subseteq Int
ASSUME UnitAssumption == WordsUnit \in Nat \ {0}

TITLE == 1
DESC == 2
SUB == 3
TextZones == {TITLE, DESC, SUB}

VARIABLES
  rPc,
  entries_by_docs,     \* the documents found, in the order of the store
  postings,            \* document -> entry -> zone -> positions, ascending
  words_cnt, views,    \* document -> zone -> tokens, document -> views
  entries_by_doc_res,  \* the documents of the draft
  k, zone,             \* the document and the zone in hand
  i,                   \* the entry in hand
  positions,           \* the merged list: pairs of a position and an entry
  it_list, entry_pos,  \* iterators
  start_w, end_w, result,    \* get_rank
  rank_title,
  docid_by_rank        \* documents with their ranks

foundVars == <<entries_by_docs, postings, words_cnt, views>>
mergeVars == <<i, positions, it_list, entry_pos>>
windowVars == <<start_w, end_w, result>>
rankVars == <<rPc, foundVars, entries_by_doc_res, k, zone, mergeVars, windowVars,
              rank_title, docid_by_rank>>

FirstEntry == i' = 1 /\ positions' = <<>> /\ it_list' = 1 /\ entry_pos' = 1
FirstWindow == start_w' = 1 /\ end_w' = 1 /\ result' = 0

-----------------------------------------------------------------------------
(* draft_ranking.                                                          *)

doc(n) == entries_by_docs[n]
Has(d, e, z) == postings[d][e][z] # <<>>

\* getZonesTf of the first entry: those of the others are appended behind it, where
\* get_draft_rank does not look.  Of every zone it takes the size of the first zone
\* the entry has.
FirstZone(d) == Min({z \in TextZones : Has(d, 1, z)})
Tf(d, z) ==
  IF Has(d, 1, z) THEN (Len(postings[d][1][FirstZone(d)]) * WordsUnit) \div words_cnt[d][z] ELSE 0

max_views == Max({views[doc(n)] : n \in DOMAIN entries_by_docs})

\* In units of 1 / (5 * WordsUnit).  The quotient of the views is one of integers.
get_draft_rank(d, idfs) ==
  idfs * (5 * Tf(d, TITLE) + Tf(d, DESC) + 25 * Tf(d, SUB))
    + 5 * WordsUnit * (views[d] \div max_views)

Orders(s) == {[n \in DOMAIN s |-> s[p[n]]] : p \in SetToSeqs(DOMAIN s)}

\* The orders std::sort may leave a sequence in.
Sorted(s, Before(_, _)) ==
  {t \in Orders(s) : \A m, n \in DOMAIN t : m < n => ~Before(t[n], t[m])}

Smaller(x, y) == IF x < y THEN x ELSE y

\* No views in all documents: an integer is divided by zero.
DivideByZero ==
  /\ rPc = "draft" /\ entries_by_docs # <<>> /\ max_views = 0
  /\ rPc' = "crash"
  /\ UNCHANGED <<foundVars, entries_by_doc_res, k, zone, mergeVars, windowVars,
                 rank_title, docid_by_rank>>

DraftRanking ==
  /\ rPc = "draft" /\ (entries_by_docs # <<>> => max_views > 0)
  /\ \E idfs \in IdfSums :
       \E s \in Sorted(entries_by_docs,
                       LAMBDA d, e : get_draft_rank(d, idfs) > get_draft_rank(e, idfs)) :
         entries_by_doc_res' = SubSeq(s, 1, Smaller(Len(s), MAX_DRAFT_DOCS))
  /\ rPc' = "merge" /\ k' = 1 /\ zone' = TITLE
  /\ FirstEntry
  /\ UNCHANGED <<foundVars, windowVars, rank_title, docid_by_rank>>

-----------------------------------------------------------------------------
(* get_positions_for_zone.                                                 *)

Ranking == k <= Len(entries_by_doc_res)
entries == postings[entries_by_doc_res[k]]
posting == entries[i][zone]

Merging == rPc = "merge" /\ Ranking /\ i <= Len(entries)

MergeAdvance ==
  /\ Merging /\ entry_pos <= Len(posting)
  /\ it_list <= Len(positions) /\ posting[entry_pos] > positions[it_list].pos
  /\ it_list' = it_list + 1
  /\ UNCHANGED <<rPc, foundVars, entries_by_doc_res, k, zone, i, positions, entry_pos,
                 windowVars, rank_title, docid_by_rank>>

\* Before the first one that is not less, or at the end.
MergeInsert ==
  /\ Merging /\ entry_pos <= Len(posting)
  /\ it_list <= Len(positions) => posting[entry_pos] <= positions[it_list].pos
  /\ positions' = InsertAt(positions, it_list, [pos |-> posting[entry_pos], entry |-> i])
  /\ it_list' = it_list + 1
  /\ entry_pos' = entry_pos + 1
  /\ UNCHANGED <<rPc, foundVars, entries_by_doc_res, k, zone, i, windowVars, rank_title, docid_by_rank>>

EntryMerged ==
  /\ Merging /\ entry_pos > Len(posting)
  /\ i' = i + 1 /\ it_list' = 1 /\ entry_pos' = 1
  /\ UNCHANGED <<rPc, foundVars, entries_by_doc_res, k, zone, positions, windowVars,
                 rank_title, docid_by_rank>>

ZoneMerged ==
  /\ rPc = "merge" /\ Ranking /\ i > Len(entries)
  /\ rPc' = "window"
  /\ FirstWindow
  /\ UNCHANGED <<foundVars, entries_by_doc_res, k, zone, mergeVars, rank_title, docid_by_rank>>

-----------------------------------------------------------------------------
(* get_rank: the window has the positions from start_w to before end_w.    *)

window_size == Smaller(Len(entries), MAX_WINDOW_SIZE)

Fits(from, to) == positions[to].pos - positions[from].pos < window_size

\* Scaled by window_size.
calculate_bonus(from, to) ==
  LET wordsId == Cardinality({positions[n].entry : n \in from .. to - 1})
  IN IF wordsId >= window_size THEN 1000 * window_size ELSE 200 * wordsId

\* Slip: the last window is not counted.
GrowToEnd ==
  /\ rPc = "window" /\ end_w <= Len(positions) /\ Fits(start_w, end_w)
  /\ end_w' = end_w + 1
  /\ IF end_w' <= Len(positions) /\ ~Fits(start_w, end_w')
       THEN /\ result' = result + calculate_bonus(start_w, end_w')
            /\ start_w' = start_w + 1
       ELSE UNCHANGED <<start_w, result>>
  /\ UNCHANGED <<rPc, foundVars, entries_by_doc_res, k, zone, mergeVars, rank_title, docid_by_rank>>

Grow ==
  /\ rPc = "window" /\ end_w <= Len(positions) /\ Fits(start_w, end_w)
  /\ end_w' = end_w + 1
  /\ \/ /\ end_w' <= Len(positions) /\ Fits(start_w, end_w')
        /\ UNCHANGED <<start_w, result>>
     \/ /\ end_w' <= Len(positions) /\ ~Fits(start_w, end_w')
        /\ result' = result + calculate_bonus(start_w, end_w')
        /\ start_w' = start_w + 1
     \/ /\ end_w' > Len(positions)
        /\ result' = result + calculate_bonus(start_w, end_w')
        /\ UNCHANGED start_w
  /\ UNCHANGED <<rPc, foundVars, entries_by_doc_res, k, zone, mergeVars, rank_title, docid_by_rank>>

\* Slip: the window may shrink to nothing and less.
ShrinkAlways ==
  /\ rPc = "window" /\ end_w <= Len(positions) /\ start_w <= end_w
  /\ start_w' = start_w + 1
  /\ UNCHANGED <<rPc, foundVars, entries_by_doc_res, k, zone, mergeVars, end_w, result,
                 rank_title, docid_by_rank>>

Shrink ==
  /\ rPc = "window" /\ end_w <= Len(positions) /\ ~Fits(start_w, end_w)
  /\ start_w' = start_w + 1
  /\ UNCHANGED <<rPc, foundVars, entries_by_doc_res, k, zone, mergeVars, end_w, result,
                 rank_title, docid_by_rank>>

-----------------------------------------------------------------------------
(* get_doc_rank: first the title, whose rank counts five times, then the   *)
(* subtitles; the description is left out.                                 *)

ZoneRanked ==
  /\ rPc = "window" /\ end_w > Len(positions)
  /\ \/ /\ zone = TITLE
        /\ zone' = SUB /\ rank_title' = 5 * result
        /\ UNCHANGED <<k, docid_by_rank>>
     \/ /\ zone = SUB
        /\ zone' = TITLE /\ k' = k + 1
        /\ docid_by_rank' = Append(docid_by_rank, [doc |-> entries_by_doc_res[k],
                                                   title |-> rank_title, subs |-> result])
        /\ UNCHANGED rank_title
  /\ rPc' = "merge"
  /\ FirstEntry
  /\ UNCHANGED <<foundVars, entries_by_doc_res, windowVars>>

\* Slip: a title that holds everything once is not enough.
BandAbove(title, scale) ==
  IF title > 5000 * scale THEN 1 ELSE IF title > 500 * scale THEN 2 ELSE 3

\* get_list_of_sorted_docid_by_rank: three bands by the rank of the title, each in
\* the order of the subtitles.
Band(title, scale) == IF title >= 5000 * scale THEN 1 ELSE IF title >= 500 * scale THEN 2 ELSE 3

Ahead(x, y, scale) ==
  \/ Band(x.title, scale) < Band(y.title, scale)
  \/ Band(x.title, scale) = Band(y.title, scale) /\ x.subs > y.subs

SortByRank ==
  /\ rPc = "merge" /\ ~Ranking
  /\ rPc' = "ranked"
  /\ IF docid_by_rank = <<>> THEN UNCHANGED docid_by_rank
     ELSE LET scale == Smaller(Len(postings[docid_by_rank[1].doc]), MAX_WINDOW_SIZE)
          IN docid_by_rank' \in Sorted(docid_by_rank, LAMBDA x, y : Ahead(x, y, scale))
  /\ UNCHANGED <<foundVars, entries_by_doc_res, k, zone, mergeVars, windowVars, rank_title>>

Rank == \/ DivideByZero \/ DraftRanking
        \/ MergeAdvance \/ MergeInsert \/ EntryMerged \/ ZoneMerged
        \/ Grow \/ Shrink \/ ZoneRanked \/ SortByRank
=============================================================================
