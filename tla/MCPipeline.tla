----------------------------- MODULE MCPipeline -----------------------------
(***************************************************************************)
(* Two videos of different quality and two days.                           *)
(***************************************************************************)
EXTENDS Pipeline, TLC

CONSTANTS v1, v2, hd, sd

MCVideos == {v1, v2}
MCQuality == v1 :> hd @@ v2 :> sd

\* The videos are exchanged together with their qualities.
MCSymmetry ==
  {p \in Permutations({v1, v2, hd, sd}) :
     {p[v1], p[v2]} = MCVideos /\ (p[v1] = v1 <=> p[hd] = hd)}

Happens(counts) == [e \in Events |-> IF e \in DOMAIN counts THEN counts[e] ELSE 0]
MCBudgets == {Happens([start |-> 2, crash |-> 1, convert |-> 1]),
              Happens([start |-> 2, crash |-> 1, reload |-> 2]),
              Happens([start |-> 1, reload |-> 2, convert |-> 1]),
              Happens([start |-> 2, convert |-> 2, kill |-> 1]),
              Happens([start |-> 2, convert |-> 2, ctrlC |-> 1]),
              Happens([start |-> 2, convert |-> 1, sameSecond |-> 1])}
=============================================================================
