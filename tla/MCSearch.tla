------------------------------ MODULE MCSearch ------------------------------
(***************************************************************************)
(* Indexes of up to three tokens over three documents, and of two tokens   *)
(* over six documents, long enough for several strides of two; queries of *)
(* none to three tokens, known and unknown, one of them twice.             *)
(***************************************************************************)
EXTENDS Search

MCTokens == 0..4
MCDocs == 0..5

Sorted(S) == [k \in 1 .. Cardinality(S) |-> CHOOSE x \in S : Cardinality({y \in S : y < x}) = k - 1]
Items(t, docs) == {<<[tokId |-> t, docs |-> Sorted(S)]>> : S \in SUBSET docs \ {{}}}

MCIndexes == {a \o b \o c : a \in Items(1, 0..2) \cup {<<>>}, b \in Items(2, 0..2), c \in Items(3, 0..2)}
              \cup {a \o b : a \in Items(1, MCDocs), b \in Items(2, MCDocs)}
              \cup {<<>>}

MCQueries == {<<>>, <<0>>, <<4, 1>>, <<1, 2>>, <<2, 2>>, <<3, 1, 2>>}
=============================================================================
