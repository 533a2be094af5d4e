------------------------------ MODULE MCAnswer ------------------------------
(***************************************************************************)
(* Three words, one of them a stopword and one with two forms; collections *)
(* of up to three documents, more than the draft ranking keeps, with       *)
(* titles longer than a window; queries longer than are cut off, with a    *)
(* word twice, of a stopword alone; lines with signs beside, between and   *)
(* without words.                                                          *)
(***************************************************************************)
EXTENDS Answer

MCStopwords == {"the"}
MCStem == [cat |-> "cat", cats |-> "cat", the |-> "the", dog |-> "dog"]
MCTerms == [chunk \in DOMAIN MCStem \cup {"cat,", "dog-cats", "-"} |->
              CASE chunk = "cat," -> <<"cat">> [] chunk = "dog-cats" -> <<"dog", "cats">> [] chunk = "-" -> <<>>
                [] OTHER -> <<chunk>>]
MCLast2 == [cat |-> "at", the |-> "he", dog |-> "og"]
MCFirst2 == [cat |-> "ca", the |-> "th", dog |-> "do"]

Doc(title, desc, lines, views_) ==
  [title |-> title, desc |-> desc, views |-> views_,
   lines |-> [n \in DOMAIN lines |-> [text |-> lines[n], time |-> n]]]

MCPool ==
  {Doc(<<"the", "cats">>, <<>>, <<<<"dog">>, <<"the", "cats", "the", "dog">>, <<"cat">>>>, 0),
   Doc(<<"dog", "the", "cat", "dog">>, <<>>, <<<<"dog", "the", "cat">>>>, 1),
   Doc(<<"cat", "dog", "dog", "the", "cat", "dog">>, <<"the", "cat">>, <<>>, 2),
   Doc(<<"dog", "cat", "dog">>, <<"the", "dog">>,
       <<<<"the", "cat">>, <<"cats", "the", "dog", "cats">>, <<"dog">>, <<"the", "the", "dog">>>>, 0),
   Doc(<<>>, <<>>, <<<<"cat", "the", "dog">>, <<"dog-cats", "-", "cats">>, <<"the", "cat,", "the", "dog">>>>, 1)}

Large == {Doc(<<"the", "dog">>, <<>>, <<<<"cat">>>>, 3),
          Doc(<<"cat", "cat", "cat", "dog", "the", "dog">>, <<>>, <<>>, 3)}

Texts == UNION {[1 .. n -> {"the", "cat", "dog"}] : n \in 0 .. 4}
AnyDocs == {Doc(text, <<>>, <<text>>, 1) : text \in Texts}

MCCorpora == {<<a, b>> : a \in AnyDocs \cup Large, b \in MCPool}
             \cup {<<a, b, c>> : a \in Large, b \in MCPool, c \in Large}

MCQueries == {<<"the", "cat">>, <<"cats">>, <<"dog", "the">>, <<"the", "dog", "the", "cat">>, <<"the">>,
              <<"cat", "dog", "cat">>, <<"cat", "the", "the", "dog">>, <<"cat", "dog">>}

MCRequests == [query : MCQueries, startDoc : {0}, endDoc : {2}] \cup
              [query : {<<"cats">>}, startDoc : {1}, endDoc : {1, 2}]
=============================================================================
