------------------------------ MODULE MCSpider ------------------------------
(***************************************************************************)
(* A crawl of four videos: the seed a links to b, c and itself, b links    *)
(* back to a and on to d; c has too few words and d no subtitles.          *)
(***************************************************************************)
EXTENDS Spider, TLC

CONSTANTS a, b, c, d, w1, w2, w3

MCTasks == {a, b, c, d}
MCCrc == a :> 1 @@ b :> 2 @@ c :> 3 @@ d :> 4 @@ Finish :> 5
MCUIds == 1..5
MCRelated == a :> <<a, b, c>> @@ b :> <<a, d>> @@ c :> <<>> @@ d :> <<>>
MCWordy == {a, b, d}
MCNoSubs == {d}
MCSeeds == <<a>>
MCWorkers == {w1, w2}

\* One identity more than the pool may have threads.
SpareWorkers == {w1, w2, w3}
SpareSymmetry == Permutations(SpareWorkers)

OneProxy == {1}

\* Signals arrive while the main thread waits for a result, and between two steps
\* of the handling of one, but not inside the loops of putWorkersInOrder.
MCSignalPoints == {"run"} \X {"get", "commit", "flush", "put", "check"}
\* ... and while a handler waits for the workers to end.
NestedSignalPoints == MCSignalPoints \cup {<<"int", "join">>}

\* Budgets: a stop and a crash, or a reload, a stop and a dying worker, each with a
\* failing fetch; and those of the runs that show a single thing.
Happens(set) == [e \in Events |-> IF e \in set THEN 1 ELSE 0]
CrawlBudgets == {Happens({"term", "crash", "fail"}), Happens({"int", "term", "fail", "death"})}
LivenessBudget == {Happens({"int", "term", "fail"})}
BothBudget == {Happens({"int", "term"})}
IntBudget == {Happens({"int"})}
TermBudget == {Happens({"term"})}
=============================================================================
