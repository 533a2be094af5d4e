------------------------------ MODULE Snippets ------------------------------
(***************************************************************************)
(* Searcher::get_snippets: in every phrase of the subtitles the parts of   *)
(* the query are looked for and marked, and the phrases with the longest   *)
(* parts become the snippets of the document.  A part is searched for with *)
(* a blank in front of it and behind it: a phrase is the sequence of what  *)
(* stands between its blanks, words with their signs, and a selection goes *)
(* from one of these over a number of them.  The words of the query have   *)
(* no signs: the tokenizer has cut them off.                               *)
(***************************************************************************)
EXTENDS Integers, Sequences, FiniteSets, SequencesExt, FiniteSetsExt

CONSTANT snippets_num    \* 3

\* A part of the query of this size starts behind blank p of the text.
PartAt(tokens, text, p, size) ==
  /\ p + size - 1 <= Len(text)
  /\ \E start \in 1 .. Len(tokens) - size + 1 :
       SubSeq(tokens, start, start + size - 1) = SubSeq(text, p, p + size - 1)

Sizes(tokens, text, p) == {size \in 1 .. Len(tokens) : PartAt(tokens, text, p, size)}

\* Slip: what starts inside a selection is selected too.
get_selectionsOverlapping(tokens, text) ==
  LET longest == [p \in DOMAIN text |-> Max({0} \cup Sizes(tokens, text, p))]
      from[p \in 1 .. Len(text) + 1] ==
        IF p > Len(text) THEN <<>>
        ELSE IF longest[p] = 0 THEN from[p + 1]
        ELSE <<[start |-> p, size |-> longest[p]]>> \o from[p + 1]
  IN from[1]

\* The longest part at the first word where one starts, and on behind it.
get_selections(tokens, text) ==
  LET longest == [p \in DOMAIN text |-> Max({0} \cup Sizes(tokens, text, p))]
      from[p \in 1 .. Len(text) + 1] ==
        IF p > Len(text) THEN <<>>
        ELSE IF longest[p] = 0 THEN from[p + 1]
        ELSE <<[start |-> p, size |-> longest[p]]>> \o from[p + longest[p]]
  IN from[1]

\* How many selections have this size.
Statistic(selections, size) == Cardinality({n \in DOMAIN selections : selections[n].size = size})

\* Slip: the shortest selections count first.
snippet_rankerShort(s1, s2, tokens) ==
  \E size \in DOMAIN tokens :
    /\ Statistic(s1.selections, size) > Statistic(s2.selections, size)
    /\ \A shorter \in 1 .. size - 1 :
         Statistic(s1.selections, shorter) = Statistic(s2.selections, shorter)

snippet_ranker(s1, s2, tokens) ==
  \E size \in DOMAIN tokens :
    /\ Statistic(s1.selections, size) > Statistic(s2.selections, size)
    /\ \A longer \in size + 1 .. Len(tokens) :
         Statistic(s1.selections, longer) = Statistic(s2.selections, longer)

\* RawDoc::getPhrases: the attempt to read a line behind the last one leaves a phrase
\* without text.
getPhrases(lines) == Append(lines, [text |-> <<>>, time |-> 0])

Marked(tokens, lines) ==
  LET phrases == getPhrases(lines)
  IN [n \in DOMAIN phrases |-> [text |-> phrases[n].text, time |-> phrases[n].time,
                                selections |-> get_selections(tokens, phrases[n].text)]]

\* The choices get_snippets has: std::sort leaves equal phrases in any order, twice.
Chosen(tokens, lines) ==
  LET all == Marked(tokens, lines)
      num == IF Len(all) < snippets_num THEN Len(all) ELSE snippets_num
  IN {S \in kSubset(num, DOMAIN all) :
        \A n \in S, m \in DOMAIN all \ S : ~snippet_ranker(all[m], all[n], tokens)}

InOrderOfTime(all, S) ==
  {s \in SetToSeqs(S) : \A m, n \in DOMAIN s : m < n => all[s[m]].time <= all[s[n]].time}

\* The possible answers for a document.
get_snippets(tokens, lines) ==
  LET all == Marked(tokens, lines)
  IN UNION {{[n \in DOMAIN s |-> all[s[n]]] : s \in InOrderOfTime(all, S)} : S \in Chosen(tokens, lines)}
=============================================================================
