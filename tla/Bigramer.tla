------------------------------ MODULE Bigramer ------------------------------
(***************************************************************************)
(* BigRamer::bigram2vec: a stopword is not a token, it makes two with the  *)
(* characters of its neighbours that it is next to.  Texts and queries go  *)
(* through the same function.                                              *)
(***************************************************************************)
EXTENDS Naturals, Sequences, SequencesExt

CONSTANTS stopwords,
          last2, first2    \* word -> its last, its first two characters

make_L_bigram(left_word, word) == <<last2[left_word], word>>
make_R_bigram(word, right_word) == <<word, first2[right_word]>>

TokensAt(a_words, k) ==
  LET word == a_words[k]
      left == IF k > 1 THEN <<make_L_bigram(a_words[k - 1], word)>> ELSE <<>>
      right == IF k < Len(a_words) THEN <<make_R_bigram(word, a_words[k + 1])>> ELSE <<>>
  IN IF word \in stopwords THEN left \o right ELSE <<<<word>>>>

bigram2vec(a_words) == FlattenSeq([k \in DOMAIN a_words |-> TokensAt(a_words, k)])
=============================================================================
