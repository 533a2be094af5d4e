--------------------------- MODULE MCMergeIndexes ---------------------------
(* Every choice of three raw indexes over three tokens: an index can end    *)
(* first, in the middle and last of those that share a token.               *)
EXTENDS MergeIndexes

CONSTANTS N,        \* bound: index files
          MaxItems  \* bound: items of one file

MCTokens == 1..3

Short == {s \in SeqOf(Tokens, MaxItems) : s \in RawIndex}
MCRawIndexes == {r \in [1 .. N -> Short] : r \in RawIndexes}

MCInit == raw \in MCRawIndexes /\ Opened

MCSpec == MCInit /\ [][Next]_vars
MCFairSpec == MCSpec /\ Fairness
=============================================================================
