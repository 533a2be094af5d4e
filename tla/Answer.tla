------------------------------- MODULE Answer -------------------------------
(***************************************************************************)
(* The listener answers a query (main.cpp of listener, launcher.cpp): the  *)
(* query is made into tokens, the documents that have all of them are      *)
(* found, ranked and put in order, and those of the page asked for are     *)
(* answered with their snippets.  One client is served at a time, and      *)
(* nothing of a query is left for the next one.                            *)
(***************************************************************************)
EXTENDS Bigramer, Ranker, Snippets

CONSTANTS MAX_TOKEN_CNT,   \* 10
          terms,           \* chunk -> the word forms the tokenizer makes of it
          stem,            \* word form -> word
          Corpora,         \* collections of documents: title, desc, lines, views
          Requests         \* the query and the page of it a client asks for

ASSUME TokenCntAssumption == MAX_TOKEN_CNT \in Nat \ {0}

Forms == DOMAIN stem

\* What stands between the blanks of a line, in small letters: a word form, or one
\* with signs around it, several with signs between them, or signs alone.
Chunks == DOMAIN terms

ASSUME TermsAssumption == /\ terms \in [Chunks -> Seq(Forms)]
                          /\ Forms \subseteq Chunks
                          /\ \A form \in Forms : terms[form] = <<form>>

\* Titles, descriptions and queries are read through the tokenizer only, so that the
\* forms it makes of them stand for them; the lines are searched as they are too.
Document == [title : Seq(Forms), desc : Seq(Forms), views : Nat,
             lines : Seq([text : Seq(Chunks), time : Nat])]

ASSUME CorporaAssumption == Corpora \subseteq Seq(Document)
ASSUME RequestsAssumption == Requests \subseteq [query : Seq(Forms), startDoc : Nat, endDoc : Nat]

VARIABLES corpus, request,
          pc,          \* recv, rank, or answer
          answer       \* documents of the page with their snippets

vars == <<corpus, request, pc, answer, rankVars>>

Idle == /\ rPc' = "idle" /\ entries_by_docs' = <<>> /\ postings' = <<>>
        /\ words_cnt' = <<>> /\ views' = <<>> /\ entries_by_doc_res' = <<>>
        /\ k' = 1 /\ zone' = TITLE /\ i' = 1 /\ positions' = <<>>
        /\ it_list' = 1 /\ entry_pos' = 1 /\ start_w' = 1 /\ end_w' = 1
        /\ result' = 0 /\ rank_title' = 0 /\ docid_by_rank' = <<>>

Init == /\ corpus \in Corpora /\ request \in Requests
        /\ pc = "recv" /\ answer = <<>>
        /\ rPc = "idle" /\ entries_by_docs = <<>> /\ postings = <<>>
        /\ words_cnt = <<>> /\ views = <<>> /\ entries_by_doc_res = <<>>
        /\ k = 1 /\ zone = TITLE /\ i = 1 /\ positions = <<>>
        /\ it_list = 1 /\ entry_pos = 1 /\ start_w = 1 /\ end_w = 1
        /\ result = 0 /\ rank_title = 0 /\ docid_by_rank = <<>>

-----------------------------------------------------------------------------
(* launch_searcher.                                                        *)

stemmed(forms) == [n \in DOMAIN forms |-> stem[forms[n]]]

norm_words == LET words == stemmed(request.query)
              IN SubSeq(words, 1, Smaller(Len(words), MAX_TOKEN_CNT))

tokens == bigram2vec(norm_words)

\* The text of a zone as it was indexed.
Tokenized(text) == FlattenSeq([n \in DOMAIN text |-> terms[text[n]]])
Subtitles(d) == FlattenSeq([n \in DOMAIN corpus[d].lines |-> Tokenized(corpus[d].lines[n].text)])
Text(d, z) == IF z = TITLE THEN corpus[d].title ELSE IF z = DESC THEN corpus[d].desc ELSE Subtitles(d)
Indexed(d, z) == bigram2vec(stemmed(Text(d, z)))

\* Those of 1 .. n that are in S, ascending.
Upwards(S, n) ==
  LET up[m \in 0 .. n] == IF m = 0 THEN <<>> ELSE IF m \in S THEN Append(up[m - 1], m) ELSE up[m - 1]
  IN up[n]

PositionsOf(indexed, token) ==
  LET at == Upwards({m \in DOMAIN indexed : indexed[m] = token}, Len(indexed))
  IN [n \in DOMAIN at |-> at[n] - 1]

\* What the index has to say: an entry for every token of the query.
Entries(indexed) == [e \in DOMAIN tokens |-> [z \in TextZones |-> PositionsOf(indexed[z], tokens[e])]]

\* Documents with every token, in the order of the store; a query without tokens has none.
FoundIn(entriesOf) ==
  {d \in DOMAIN corpus : tokens # <<>> /\ \A e \in DOMAIN tokens : \E z \in TextZones : entriesOf[d][e][z] # <<>>}

Search ==
  /\ pc = "recv" /\ pc' = "rank" /\ rPc' = "draft"
  /\ LET indexed == [d \in DOMAIN corpus |-> [z \in TextZones |-> Indexed(d, z)]]
         entriesOf == [d \in DOMAIN corpus |-> Entries(indexed[d])]
     IN /\ entries_by_docs' = Upwards(FoundIn(entriesOf), Len(corpus))
        /\ postings' = entriesOf
        /\ words_cnt' = [d \in DOMAIN corpus |-> [z \in TextZones |-> Len(indexed[d][z])]]
  /\ views' = [d \in DOMAIN corpus |-> corpus[d].views]
  /\ UNCHANGED <<corpus, request, answer, entries_by_doc_res, k, zone, mergeVars, windowVars,
                 rank_title, docid_by_rank>>

RankOn == pc = "rank" /\ Rank /\ UNCHANGED <<corpus, request, pc, answer>>

Ranked == /\ pc = "rank" /\ rPc = "ranked" /\ pc' = "answer"
          /\ UNCHANGED <<corpus, request, answer, rankVars>>

-----------------------------------------------------------------------------
(* MakeXml: the documents from startDoc on, endDoc of them.                *)

Next_i == request.startDoc + Len(answer) + 1
PageDone == Len(answer) >= request.endDoc \/ Next_i > Len(docid_by_rank)

MakeXml ==
  /\ pc = "answer" /\ ~PageDone
  /\ LET d == docid_by_rank[Next_i].doc
     IN \E snippets \in get_snippets(request.query, corpus[d].lines) :
          answer' = Append(answer, [doc |-> d, snippets |-> snippets])
  /\ UNCHANGED <<corpus, request, pc, rankVars>>

\* send, and recv of the next query, of this client or of the next one.
Recv ==
  /\ pc = "answer" /\ PageDone
  /\ request' \in Requests
  /\ pc' = "recv" /\ answer' = <<>>
  /\ Idle
  /\ UNCHANGED corpus

Next == Search \/ RankOn \/ Ranked \/ MakeXml \/ Recv

Spec == Init /\ [][Next]_vars

-----------------------------------------------------------------------------
(* The type invariant; the window stays a window, within the list.         *)
TypeOK ==
  /\ corpus \in Corpora /\ request \in Requests
  /\ pc \in {"recv", "rank", "answer"}
  /\ rPc \in {"idle", "draft", "crash", "merge", "window", "ranked"}
  /\ IsInjective(entries_by_docs) /\ Range(entries_by_docs) \subseteq DOMAIN corpus
  /\ IsInjective(entries_by_doc_res) /\ Range(entries_by_doc_res) \subseteq Range(entries_by_docs)
  /\ k \in 1 .. Len(entries_by_doc_res) + 1 /\ zone \in {TITLE, SUB}
  /\ i \in 1 .. Len(tokens) + 1
  /\ \A n \in DOMAIN positions : positions[n].pos \in Nat /\ positions[n].entry \in DOMAIN tokens
  /\ it_list \in 1 .. Len(positions) + 1 /\ entry_pos \in Nat \ {0}
  /\ rPc = "window" => start_w \in 1 .. end_w /\ end_w \in 1 .. Len(positions) + 1
  /\ result \in Nat /\ rank_title \in Nat
  /\ \A n \in DOMAIN docid_by_rank :
       docid_by_rank[n].doc \in DOMAIN corpus /\ docid_by_rank[n].title \in Nat /\ docid_by_rank[n].subs \in Nat
  /\ \A n \in DOMAIN answer : answer[n].doc \in DOMAIN corpus

-----------------------------------------------------------------------------
(* All occurrences of the query's tokens in a zone of a document.          *)
Occurrences(d, z) ==
  UNION {{[pos |-> postings[d][e][z][n], entry |-> e] : n \in DOMAIN postings[d][e][z]} :
           e \in DOMAIN postings[d]}

ws == Smaller(Len(tokens), MAX_WINDOW_SIZE)

\* Stretches of the text from an occurrence to one that is less than a window away,
\* none of which is part of another.
Windows(occ) ==
  {<<v[1].pos, v[2].pos>> : v \in
     {w \in occ \X occ :
        /\ w[1].pos <= w[2].pos /\ w[2].pos - w[1].pos < ws
        /\ \A x \in occ : x.pos < w[1].pos => w[2].pos - x.pos >= ws
        /\ \A y \in occ : y.pos > w[2].pos => y.pos - w[1].pos >= ws}}

Worth(occ, window) ==
  LET ids == Cardinality({x.entry : x \in {o \in occ : o.pos \in window[1] .. window[2]}})
  IN IF ids >= ws THEN 1000 * ws ELSE 200 * ids

ReferenceRank(d, z) ==
  LET occ == Occurrences(d, z) IN MapThenSumSet(LAMBDA w : Worth(occ, w), Windows(occ))

(* The rank of a zone is the sum of what its windows are worth, each counted *)
(* once and none forgotten at either end of the text, however the list was   *)
(* merged and the two ends of the window moved over it.                      *)
WindowsCounted ==
  \A n \in DOMAIN docid_by_rank :
    LET r == docid_by_rank[n]
    IN r.title = 5 * ReferenceRank(r.doc, TITLE) /\ r.subs = ReferenceRank(r.doc, SUB)

InARow(d) ==
  LET title == stemmed(corpus[d].title)
  IN \E off \in 0 .. Len(title) - Len(norm_words) :
       \A n \in DOMAIN norm_words : title[off + n] = norm_words[n]

\* Next to nothing of the query is in the title.
Poor(d) == LET occ == Occurrences(d, TITLE)
           IN Cardinality(occ) <= 5 /\ \A w \in Windows(occ) : Worth(occ, w) < 1000 * ws

(* A document that has the words of the query in its title, in a row, is     *)
(* found, though its stopwords were indexed with other neighbours, and is    *)
(* ahead of every document whose title has five of the query's tokens or     *)
(* less and not all of them close together - unless the draft ranking, which *)
(* looks at something else, has dropped it.                                  *)
PhraseFirst ==
  pc = "answer" /\ tokens # <<>> =>
    \A d \in DOMAIN corpus :
      InARow(d) =>
        \/ \E n \in DOMAIN docid_by_rank :
             /\ docid_by_rank[n].doc = d
             /\ \A m \in 1 .. n - 1 : ~Poor(docid_by_rank[m].doc)
        \/ Len(entries_by_docs) > MAX_DRAFT_DOCS /\ d \in Range(entries_by_docs) \ Range(entries_by_doc_res)

Covers(selection, p) == p \in selection.start .. selection.start + selection.size - 1

Snips == UNION {Range(answer[n].snippets) : n \in DOMAIN answer}

(* The selections of a snippet do not overlap, every one is a part of the    *)
(* query that cannot be continued, and every word of the query is selected   *)
(* wherever it stands between blanks - and nowhere else: a word with a sign  *)
(* next to it is in the index, where the tokenizer has cut the sign off, but *)
(* the line is searched with it.                                             *)
SelectionsMark ==
  \A s \in Snips :
    /\ \A p \in DOMAIN s.text :
         Cardinality({n \in DOMAIN s.selections : Covers(s.selections[n], p)})
           = IF s.text[p] \in Range(request.query) THEN 1 ELSE 0
    /\ \A n \in DOMAIN s.selections :
         LET sel == s.selections[n]
         IN /\ PartAt(request.query, s.text, sel.start, sel.size)
            /\ ~PartAt(request.query, s.text, sel.start, sel.size + 1)

LongestPart(text) == Max({0} \cup {size \in 1 .. Len(request.query) : \E p \in DOMAIN text :
                                       PartAt(request.query, text, p, size)})

(* The snippets follow each other in time, and no phrase that is left out    *)
(* has a longer part of the query between blanks than one that is shown, if  *)
(* no word is twice in the query.  (A word that is makes the first selection *)
(* end where a longer one would begin.)                                      *)
BestSnippets ==
  \A n \in DOMAIN answer :
    LET shown == answer[n].snippets
        lines == corpus[answer[n].doc].lines
    IN /\ \A a, b \in DOMAIN shown : a < b => shown[a].time <= shown[b].time
       /\ IsInjective(request.query) =>
            \A line \in Range(lines) :
              \/ \E s \in Range(shown) : s.text = line.text /\ s.time = line.time
              \/ \A s \in Range(shown) : LongestPart(line.text) <= LongestPart(s.text)
=============================================================================
