----------------------------- MODULE MCIndexer -----------------------------
(***************************************************************************)
(* Up to four items over two words: words in one zone and in all, zones    *)
(* without words in front, in the middle and at the end, a document twice, *)
(* a translated one, and both faults.  The check for memory comes every    *)
(* second item.                                                            *)
(***************************************************************************)
EXTENDS Indexer

CONSTANTS a, b

MCWords == {a, b, BadWord}

MCItem(id, t1, t2, t3, translated, fault) ==
  [docId |-> id, text |-> <<t1, t2, t3>>, translated |-> translated, fault |-> fault]

MCGood == {MCItem(1, <<a, b>>, <<b, BadWord, a>>, <<a, b, b>>, FALSE, "none"),
           MCItem(2, <<b>>, <<>>, <<BadWord, b, a>>, FALSE, "none"),
           MCItem(3, <<BadWord>>, <<a>>, <<>>, FALSE, "none"),
           MCItem(2, <<a, BadWord>>, <<>>, <<>>, FALSE, "none"),
           MCItem(4, <<a>>, <<>>, <<b>>, TRUE, "none")}

MCItems == MCGood \cup {MCItem(5, <<b, a>>, <<a>>, <<b>>, FALSE, "early"),
                        MCItem(6, <<a, b>>, <<>>, <<a>>, FALSE, "late")}

MCDumps == SeqOf(MCItems, 3) \cup {s \o <<i>> : s \in SeqOf(MCGood, 3), i \in MCItems}
=============================================================================
