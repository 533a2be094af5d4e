------------------------------- MODULE Crawl -------------------------------
(***************************************************************************)
(* The life of a uid, whatever threads, queues, signals and restarts lie   *)
(* behind it: what the spider as a whole promises about every video.       *)
(***************************************************************************)

CONSTANT UIds

VARIABLE status

Statuses ==
  {"unknown",     \* nobody has seen the video, or the process has forgotten it
   "waiting",     \* a task for it is queued, or set aside by a signal handler
   "fetching",    \* one worker works on it
   "answered",    \* its result is on the way to the uid store
   "committed",   \* handled for good, in memory
   "durable",     \* handled for good, on disk
   "given up"}    \* refused until the process is started again

TypeOK == status \in [UIds -> Statuses]

Init == status = [u \in UIds |-> "unknown"]

Move(u, from, to) == status[u] = from /\ status' = [status EXCEPT ![u] = to]

Discover(u) == Move(u, "unknown", "waiting")
Take(u) == Move(u, "waiting", "fetching")
Retry(u) == Move(u, "fetching", "waiting")      \* no proxy gave the page
Answer(u) == Move(u, "fetching", "answered")
Commit(u) == Move(u, "answered", "committed")
GiveUp(u) == \/ Move(u, "fetching", "given up")  \* the page has no subtitles
             \/ Move(u, "answered", "given up")  \* its subtitles are too short
             \/ Move(u, "waiting", "given up")   \* dropped by a proxy reload

Flush == status' = [u \in UIds |-> IF status[u] = "committed" THEN "durable" ELSE status[u]]

\* The process ends: what is not on disk is forgotten.
Forget == status' = [u \in UIds |-> IF status[u] = "durable" THEN "durable" ELSE "unknown"]

Next == \/ \E u \in UIds : \/ Discover(u) \/ Take(u) \/ Retry(u)
                           \/ Answer(u) \/ Commit(u) \/ GiveUp(u)
        \/ Flush
        \/ Forget

(* Every uid goes through one life at a time: it is worked on by one worker  *)
(* at most, it is committed only after it was answered, nothing committed is *)
(* ever handed out again, and nothing on disk is ever forgotten.             *)
Spec == Init /\ [][Next]_status
=============================================================================
