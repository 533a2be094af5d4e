---------------------------- MODULE SpiderProofs ----------------------------
(***************************************************************************)
(* The spider process, for every crawl, pool and budget: its type, and     *)
(* that whatever threads, signals and crashes do to it, its uid store is   *)
(* used as UidsStorage demands and a video has one owner.                  *)
(*                                                                         *)
(* TypeOK is not inductive: Related[data] and the saved page have a type   *)
(* only because no poison pill gets as far as a commit or a fetch.         *)
(***************************************************************************)
EXTENDS Spider, FiniteSetTheorems, TLAPS

TypeInv == /\ TypeOK
           /\ pc["run"] = "commit" => data \in Tasks
           /\ \A w \in Workers : wpc[w] \in {"fetch", "save"} => wtask[w] \in Tasks

LEMMA ConstantFacts ==
  /\ IsFiniteSet(Workers)
  /\ \A S \in SUBSET Workers : Cardinality(S) \in Nat
  /\ Finish \in Strings /\ Tasks \subseteq Strings
  /\ \A s \in Strings : crc[s] \in UIds
  /\ \A t \in Tasks : Related[t] \in Seq(Strings)
  /\ Seeds \in Seq(Strings)
<1>1. \A S \in SUBSET Workers : Cardinality(S) \in Nat
  BY ConfigAssumption, FS_Subset, FS_CardinalityType
<1>2. ASSUME NEW q \in Seq(Tasks) PROVE q \in Seq(Strings)
  BY DEF Strings
<1> QED BY <1>1, <1>2, ConfigAssumption, CrcAssumption, PagesAssumption DEF Strings

LEMMA InitTypeInv == Init => TypeInv
<1> SUFFICES ASSUME Init PROVE TypeInv
  OBVIOUS
<1>1. 0 \in 0 .. CheckPeriod - 1
  BY ConfigAssumption
<1> QED BY <1>1, ConstantFacts, ConfigAssumption
        DEF Init, TypeInv, TypeOK, Frames, Labels, uids!Init, uids!StorageTypeOK

\* What the steps of putWorkersInOrder's callers have in common.
LEMMA PutInOrderType ==
  ASSUME TypeInv, NEW f \in Frames, NEW cnt \in Nat, NEW label \in OrderLabels,
         PutInOrder(f, cnt, label)
  PROVE  /\ workers' \subseteq Workers
         /\ excess' \in [Frames -> Int]
         /\ pc' \in [Frames -> Labels]
         /\ pc'["run"] = "commit" => pc["run"] = "commit"
<1>1. workers' \subseteq Workers
  BY DEF PutInOrder, TypeInv, TypeOK
<1>2. Cardinality(workers') - cnt \in Int
  BY <1>1, ConstantFacts
<1>3. pc' = [pc EXCEPT ![f] = label] /\ label \in Labels /\ label # "commit"
  BY DEF PutInOrder, Goto, OrderLabels, Labels
<1> QED BY <1>1, <1>2, <1>3 DEF PutInOrder, TypeInv, TypeOK

LEMMA DownType ==
  ASSUME TypeInv, Down, happened' \in [Events -> Nat]
  PROVE  TypeInv'
<1>1. 0 \in 0 .. CheckPeriod - 1
  BY ConfigAssumption
<1>2. \A f \in Frames : <<>> \in Seq(Strings)
  OBVIOUS
<1>3. uids!StorageTypeOK'
  BY DEF Down, uids!Forget, TypeInv, TypeOK, uids!StorageTypeOK
<1>4. /\ tasks_file' \in Seq(Strings) /\ saved' \subseteq Tasks
      /\ wpc' = [w \in Workers |-> "none"] /\ wtask' \in [Workers -> Strings]
      /\ pc' = [f \in Frames |-> "exited"] /\ pc' \in [Frames -> Labels]
  BY ConstantFacts DEF Down, TypeInv, TypeOK, fileVars, Labels
<1>5. pc'["run"] # "commit"
  BY <1>4 DEF Frames
<1> QED BY <1>1, <1>2, <1>3, <1>4, <1>5, ConstantFacts DEF Down, TypeInv, TypeOK

LEMMA MainTypeInv ==
  ASSUME TypeInv, Main
  PROVE  TypeInv'
<1> USE DEF TypeInv, TypeOK, uids!StorageTypeOK, fileVars, uidVars, queueVars, threadVars,
            poolVars, frameVars, loopVars, At, Running, Goto
<1>1. \A q \in Seq(Strings) : q # <<>> => Head(q) \in Strings /\ Tail(q) \in Seq(Strings)
  OBVIOUS
<1>2. /\ "run" \in Frames /\ "int" \in Frames /\ "term" \in Frames
      /\ \A f \in Seq(Frames) : f # <<>> => Tail(f) \in Seq(Frames)
  BY DEF Frames
<1>3. /\ {"load", "get", "commit", "flush", "put", "saving", "check", "order", "exited",
          "empty", "drain", "kill", "join", "restart"} \subseteq Labels
  BY DEF Labels
<1>4. CASE Start
  <2>1. WorkersCnt \in Nat /\ kSubset(WorkersCnt, Workers) \subseteq SUBSET Workers
    BY ConfigAssumption DEF kSubset
  <2>2. <<"run">> \in Seq(Frames)
    BY <1>2
  <2>3. workers' \subseteq Workers /\ wpc' \in [Workers -> {"none", "get"}]
    BY <1>4, <2>1 DEF Start
  <2> QED BY <1>2, <1>3, <1>4, <2>1, <2>2, <2>3 DEF Start
<1>5. CASE LoadProxies
  BY <1>2, <1>3, <1>5, ConfigAssumption DEF LoadProxies
<1>6. CASE GetResult
  <2>1. data' \in Strings /\ results_queue' \in Seq(Strings)
    BY <1>1, <1>6 DEF GetResult
  <2>2. pc'["run"] = "commit" => data' \in Tasks
    BY <1>6, PagesAssumption DEF GetResult
  <2> QED BY <1>2, <1>3, <1>6, <2>1, <2>2 DEF GetResult
<1>7. CASE Commit
  <2>1. data \in Tasks /\ Related[data] \in Seq(Strings)
    BY <1>7, ConstantFacts DEF Commit
  <2>2. crc[data] \in UIds
    BY <2>1, ConstantFacts
  <2> QED BY <1>2, <1>3, <1>7, <2>1, <2>2 DEF Commit, uids!Commit
<1>8. CASE CommitFlush
  BY <1>2, <1>3, <1>8 DEF CommitFlush, uids!FlushToDisk
<1>9. CASE SetTasksDone
  BY <1>2, <1>3, <1>9 DEF SetTasksDone
<1>10. CASE Saving
  BY <1>2, <1>3, <1>10 DEF Saving, uids!FlushToDisk
<1>11. CASE CheckWorkers
  <2>1. handled' \in 0 .. CheckPeriod - 1
    BY <1>11, ConfigAssumption DEF CheckWorkers
  <2>2. CASE PutInOrder("run", workers_cnt, "order")
    BY <1>2, <1>11, <2>1, <2>2, PutInOrderType DEF CheckWorkers, OrderLabels
  <2>3. CASE Goto("run", IF data = Finish THEN "exited" ELSE "get") /\ UNCHANGED <<workers, excess>>
    BY <1>2, <1>3, <1>11, <2>1, <2>3 DEF CheckWorkers
  <2> QED BY <1>11, <2>2, <2>3 DEF CheckWorkers
<1>12. ASSUME NEW f \in Frames, SetTask(f) PROVE TypeInv'
  <2>1. todo[f] \in Seq(Strings) /\ todo[f] # <<>>
    BY <1>12 DEF SetTask
  <2>2. Head(todo[f]) \in Strings /\ todo' \in [Frames -> Seq(Strings)]
    BY <1>1, <1>12, <2>1 DEF SetTask
  <2>3. crc[Head(todo[f])] \in UIds
    BY <2>2, ConstantFacts
  <2>4. CASE uids!Add(crc[Head(todo[f])]) /\ tasks_queue' = Append(tasks_queue, Head(todo[f]))
    <3>1. proc_uids' \subseteq UIds /\ ram_uids' \subseteq UIds /\ hdd_uids' \subseteq UIds
      BY <1>12, <2>3, <2>4 DEF SetTask, uids!Add
    <3>2. tasks_queue' \in Seq(Strings)
      BY <2>2, <2>4
    <3> QED BY <1>12, <2>2, <3>1, <3>2 DEF SetTask
  <2>5. CASE UNCHANGED <<uidVars, tasks_queue>>
    BY <1>12, <2>2, <2>5 DEF SetTask
  <2> QED BY <1>12, <2>4, <2>5 DEF SetTask
<1>13. ASSUME NEW f \in Frames, Pill(f) PROVE TypeInv'
  BY <1>13, ConstantFacts DEF Pill
<1>14. ASSUME NEW f \in Frames, Spawn(f) PROVE TypeInv'
  BY <1>14 DEF Spawn
<1>15. ASSUME NEW f \in Frames, InOrderDone(f) PROVE TypeInv'
  BY <1>2, <1>3, <1>15 DEF InOrderDone, InOrder
<1>16. ASSUME NEW f \in {"int", "term"}, NotEmpty(f) PROVE TypeInv'
  BY <1>2, <1>3, <1>16 DEF NotEmpty
<1>17. ASSUME NEW f \in {"int", "term"}, Drain(f) PROVE TypeInv'
  <2>1. Head(tasks_queue) \in Strings /\ Tail(tasks_queue) \in Seq(Strings)
    BY <1>1, <1>17 DEF Drain
  <2>2. f \in Frames /\ Append(drained[f], Head(tasks_queue)) \in Seq(Strings)
    BY <1>2, <2>1
  <2>3. drained' \in [Frames -> Seq(Strings)]
    BY <1>17, <2>2 DEF Drain
  <2>4. pc' \in [Frames -> Labels] /\ (pc'["run"] = "commit" => pc["run"] = "commit")
    BY <1>2, <1>3, <1>17 DEF Drain
  <2> QED BY <1>17, <2>1, <2>3, <2>4 DEF Drain
<1>18. ASSUME NEW f \in {"int", "term"}, Kill(f) PROVE TypeInv'
  BY <1>2, <1>18, PutInOrderType DEF Kill, OrderLabels
<1>19. CASE TermReturn
  <2>1. results_queue' \in Seq(Strings)
    BY <1>19, ConstantFacts DEF TermReturn
  <2>2. stack' \in Seq(Frames)
    BY <1>2, <1>19 DEF TermReturn, Joined
  <2>3. pc' \in [Frames -> Labels] /\ (pc'["run"] = "commit" => pc["run"] = "commit")
    BY <1>2, <1>3, <1>19 DEF TermReturn
  <2> QED BY <1>19, <2>1, <2>2, <2>3 DEF TermReturn
<1>20. CASE Reload
  <2>1. proxies' \in Nat
    BY <1>20, ConfigAssumption DEF Reload
  <2>2. <<>> \in Seq(Strings) /\ drained["int"] \in Seq(Strings)
    BY <1>2
  <2>3. todo' \in [Frames -> Seq(Strings)] /\ drained' \in [Frames -> Seq(Strings)]
    BY <1>2, <1>20, <2>2 DEF Reload
  <2>4. pc' \in [Frames -> Labels] /\ (pc'["run"] = "commit" => pc["run"] = "commit")
    BY <1>2, <1>3, <1>20 DEF Reload
  <2> QED BY <1>20, <2>1, <2>3, <2>4 DEF Reload
<1>21. CASE Restart
  BY <1>2, <1>21, PutInOrderType DEF Restart, OrderLabels
<1>22. CASE Exit
  BY <1>22, DownType DEF Exit
<1> QED BY <1>4, <1>5, <1>6, <1>7, <1>8, <1>9, <1>10, <1>11, <1>12, <1>13, <1>14, <1>15, <1>16,
           <1>17, <1>18, <1>19, <1>20, <1>21, <1>22 DEF Main

LEMMA WorkerTypeInv ==
  ASSUME TypeInv, NEW w \in Workers, Worker(w) \/ SaveFails(w)
  PROVE  TypeInv'
<1> USE DEF TypeInv, TypeOK, uids!StorageTypeOK, fileVars, uidVars, queueVars, poolVars,
            frameVars, loopVars
<1>1. CASE Take(w)
  <2>1. Head(tasks_queue) \in Strings /\ Tail(tasks_queue) \in Seq(Strings)
    BY <1>1 DEF Take
  <2> QED BY <1>1, <2>1 DEF Take
<1>2. CASE NextProxy(w)
  <2>1. wtask[w] # Finish => wtask[w] \in Tasks
    BY DEF Strings
  <2> QED BY <1>2, <2>1 DEF NextProxy
<1>3. CASE FetchOk(w)
  BY <1>3 DEF FetchOk
<1>4. CASE FetchBad(w)
  BY <1>4, ConstantFacts DEF FetchBad
<1>5. ASSUME NEW e \in Events, Spend(e) PROVE happened' \in [Events -> Nat]
  BY <1>5 DEF Spend
<1>6. "fail" \in Events /\ "death" \in Events
  BY DEF Events
<1>7. CASE FetchFail(w)
  BY <1>5, <1>6, <1>7, ConstantFacts DEF FetchFail
<1>8. CASE Save(w)
  BY <1>8, ConstantFacts DEF Save
<1>9. CASE SaveFails(w)
  BY <1>5, <1>6, <1>9, ConstantFacts DEF SaveFails
<1> QED BY <1>1, <1>2, <1>3, <1>4, <1>7, <1>8, <1>9 DEF Worker, Fetch

LEMMA SignalTypeInv ==
  ASSUME TypeInv, SIGINT \/ SIGTERM
  PROVE  TypeInv'
<1> USE DEF TypeInv, TypeOK, uids!StorageTypeOK, fileVars, uidVars, queueVars, threadVars,
            poolVars, loopVars
<1>1. ASSUME NEW f \in {"int", "term"}, Interrupt(f)
      PROVE  /\ happened' \in [Events -> Nat]
             /\ stack' \in Seq(Frames)
             /\ pc' \in [Frames -> Labels]
             /\ drained' \in [Frames -> Seq(Strings)]
             /\ pc'["run"] = "commit" => pc["run"] = "commit"
  <2>1. f \in Frames /\ f \in Events /\ "run" \in Frames /\ f # "run" /\ "empty" \in Labels
    BY DEF Frames, Events, Labels
  <2>2. happened' \in [Events -> Nat]
    BY <1>1, <2>1, SMTT(30) DEF Interrupt, Spend
  <2>3. stack' \in Seq(Frames)
    <3>1. <<f>> \in Seq(Frames) /\ stack' = <<f>> \o stack
      BY <1>1, <2>1 DEF Interrupt
    <3> QED BY <3>1
  <2>4. drained' \in [Frames -> Seq(Strings)]
    BY <1>1, <2>1 DEF Interrupt
  <2> QED BY <1>1, <2>1, <2>2, <2>3, <2>4 DEF Interrupt, Goto
<1>2. CASE SIGINT
  BY <1>1, <1>2 DEF SIGINT
<1>3. CASE SIGTERM
  BY <1>1, <1>3 DEF SIGTERM
<1> QED BY <1>2, <1>3

LEMMA NextTypeInv == TypeInv /\ [Next]_vars => TypeInv'
<1> SUFFICES ASSUME TypeInv, [Next]_vars PROVE TypeInv'
  OBVIOUS
<1>1. CASE UNCHANGED vars
  BY <1>1 DEF vars, TypeInv, TypeOK, uids!StorageTypeOK, fileVars, uidVars, queueVars,
              threadVars, poolVars, frameVars, loopVars
<1>2. CASE Crash
  <2>1. happened \in [Events -> Nat] /\ "crash" \in Events
    BY DEF TypeInv, TypeOK, Events
  <2>2. Spend("crash") /\ Down
    BY <1>2 DEF Crash
  <2>3. happened' \in [Events -> Nat]
    BY <2>1, <2>2 DEF Spend
  <2> QED BY <2>2, <2>3, DownType
<1> QED BY <1>1, <1>2, MainTypeInv, WorkerTypeInv, SignalTypeInv DEF Next

(* Every variable of the spider keeps its type; what run() hands to         *)
(* uids.commit is always a video and never a poison pill.                   *)
THEOREM TypeCorrect == Spec => []TypeOK
<1>1. TypeInv => TypeOK
  BY DEF TypeInv
<1> QED BY <1>1, InitTypeInv, NextTypeInv, PTL DEF Spec

-----------------------------------------------------------------------------
(* The uid store.                                                          *)

LEMMA StepUsesStorage == TypeInv /\ [Next]_vars => [uids!Next]_(uids!storageVars)
<1> SUFFICES ASSUME TypeInv, [Next]_vars PROVE uids!Next \/ UNCHANGED uidVars
  BY DEF uids!storageVars, uidVars
<1>1. CASE UNCHANGED vars
  BY <1>1 DEF vars
<1>2. CASE Main
  <2>1. ASSUME NEW f \in Frames, SetTask(f) PROVE uids!Next \/ UNCHANGED uidVars
    <3>1. crc[Head(todo[f])] \in UIds
      <4>1. todo[f] \in Seq(Strings) /\ todo[f] # <<>>
        BY <2>1 DEF SetTask, TypeInv, TypeOK
      <4>2. Head(todo[f]) \in Strings
        BY <4>1
      <4> QED BY <4>2, ConstantFacts
    <3> QED BY <2>1, <3>1 DEF SetTask, uids!Next
  <2>2. CASE Commit
    <3>1. data \in Tasks
      BY <2>2 DEF Commit, At, TypeInv
    <3>2. crc[data] \in UIds
      BY <3>1, ConstantFacts
    <3> QED BY <2>2, <3>2 DEF Commit, uids!Next
  <2>3. CASE CommitFlush \/ Saving
    BY <2>3 DEF CommitFlush, Saving, uids!Next
  <2>4. CASE Exit
    BY <2>4 DEF Exit, Down, uids!Next
  <2>5. CASE Start \/ LoadProxies \/ GetResult \/ SetTasksDone \/ CheckWorkers
    BY <2>5 DEF Start, LoadProxies, GetResult, SetTasksDone, CheckWorkers
  <2>6. ASSUME NEW f \in Frames, Pill(f) \/ Spawn(f) \/ InOrderDone(f) PROVE UNCHANGED uidVars
    BY <2>6 DEF Pill, Spawn, InOrderDone
  <2>7. ASSUME NEW f \in {"int", "term"}, NotEmpty(f) \/ Drain(f) \/ Kill(f)
        PROVE  UNCHANGED uidVars
    BY <2>7 DEF NotEmpty, Drain, Kill
  <2>8. CASE TermReturn \/ Reload \/ Restart
    BY <2>8 DEF TermReturn, Reload, Restart
  <2> QED BY <1>2, <2>1, <2>2, <2>3, <2>4, <2>5, <2>6, <2>7, <2>8 DEF Main
<1>3. ASSUME NEW w \in Workers, Worker(w) \/ SaveFails(w) PROVE UNCHANGED uidVars
  BY <1>3 DEF Worker, Fetch, Take, NextProxy, FetchOk, FetchBad, FetchFail, Save, SaveFails
<1>4. CASE SIGINT \/ SIGTERM
  BY <1>4 DEF SIGINT, SIGTERM
<1>5. CASE Crash
  BY <1>5 DEF Crash, Down, uids!Next
<1> QED BY <1>1, <1>2, <1>3, <1>4, <1>5 DEF Next

(* The spider uses the uid store as a UidsStorage: only videos it has added *)
(* are committed, and a crash or an exit leaves what is on disk.            *)
THEOREM UsesStorage == Spec => uids!Spec
<1>1. Init => uids!Init
  BY DEF Init
<1> QED BY <1>1, StepUsesStorage, InitTypeInv, NextTypeInv, PTL DEF Spec, uids!Spec

(* In every state of the spider a uid is in process, committed in memory or *)
(* committed on disk, and never two of them.                                *)
THEOREM StorePartition == Spec => []uids!Partition
<1>1. uids!Init => uids!Partition
  BY DEF uids!Init, uids!Partition
<1>2. uids!Partition /\ [uids!Next]_(uids!storageVars) => uids!Partition'
  BY DEF uids!Partition, uids!Next, uids!storageVars, uids!Add, uids!Contains, uids!Commit,
         uids!FlushToDisk, uids!Forget
<1> QED BY <1>1, <1>2, UsesStorage, PTL DEF uids!Spec

-----------------------------------------------------------------------------
(* One owner.  The places a video can be at are told apart by a kind and   *)
(* an index; the count of OneOwner is taken apart into them.  Owned is the *)
(* invariant: one place per uid, since it is uids that a commit takes out  *)
(* of the store, and two videos may share one.                             *)

Kinds == {"queue", "int", "term", "back", "worker", "results", "data"}

Holds(k, i, t) ==
  \/ k = "queue" /\ i \in DOMAIN tasks_queue /\ tasks_queue[i] = t
  \/ k = "int" /\ i \in DOMAIN drained["int"] /\ drained["int"][i] = t
  \/ k = "term" /\ i \in DOMAIN drained["term"] /\ drained["term"][i] = t
  \/ k = "back" /\ i \in DOMAIN todo["int"] /\ todo["int"][i] = t
  \/ k = "worker" /\ i \in Workers /\ HoldsTask(i) /\ wtask[i] = t
  \/ k = "results" /\ i \in DOMAIN results_queue /\ results_queue[i] = t
  \/ k = "data" /\ i = 1 /\ stack # <<>> /\ pc["run"] = "commit" /\ data = t

Owned ==
  /\ \A t \in Tasks : \A k, i : Holds(k, i, t) => crc[t] \in proc_uids
  /\ \A s, t \in Tasks : \A k, i, m, j :
       Holds(k, i, s) /\ Holds(m, j, t) /\ crc[s] = crc[t] => k = m /\ i = j

OInv == TypeInv /\ Owned

\* Nothing moves, though some places may be left.
LEMMA StayOwned ==
  ASSUME Owned, proc_uids \subseteq proc_uids',
         \A t \in Tasks : \A k, i : Holds(k, i, t)' => Holds(k, i, t)
  PROVE  Owned'
<1>1. ASSUME NEW t \in Tasks, NEW k, NEW i, Holds(k, i, t)' PROVE crc[t] \in proc_uids'
  BY <1>1 DEF Owned
<1>2. ASSUME NEW s \in Tasks, NEW t \in Tasks, NEW k, NEW i, NEW m, NEW j,
             Holds(k, i, s)', Holds(m, j, t)', crc[s] = crc[t]
      PROVE  k = m /\ i = j
  BY <1>2 DEF Owned
<1> QED
  BY <1>1, <1>2 DEF Owned

\* The places are those of these variables.
LEMMA SamePlaces ==
  ASSUME Owned,
         UNCHANGED <<tasks_queue, drained, todo, wpc, wtask, results_queue, data, proc_uids>>,
         pc'["run"] = "commit" => pc["run"] = "commit",
         stack' # <<>> => stack # <<>>
  PROVE  Owned'
<1>1. ASSUME NEW t \in Tasks, NEW k, NEW i, Holds(k, i, t)' PROVE Holds(k, i, t)
  BY <1>1 DEF Holds, HoldsTask
<1> QED
  BY <1>1, StayOwned

LEMMA TailFacts ==
  ASSUME NEW S, NEW q \in Seq(S), q # <<>>
  PROVE  /\ 1 \in DOMAIN q /\ Head(q) = q[1]
         /\ \A i \in DOMAIN Tail(q) : i \in Nat \ {0} /\ i + 1 \in DOMAIN q /\ Tail(q)[i] = q[i + 1]
<1>1. Len(q) \in Nat \ {0} /\ DOMAIN q = 1 .. Len(q)
  OBVIOUS
<1>2. DOMAIN Tail(q) = 1 .. Len(q) - 1
  BY <1>1
<1> QED
  BY <1>1, <1>2

LEMMA AppendFacts ==
  \A q \in Seq(Strings), x \in Strings :
    \A i \in DOMAIN Append(q, x) : \/ i \in DOMAIN q /\ Append(q, x)[i] = q[i]
                                   \/ i = Len(q) + 1 /\ Append(q, x)[i] = x
<1> SUFFICES ASSUME NEW q \in Seq(Strings), NEW x \in Strings, NEW i \in DOMAIN Append(q, x)
             PROVE  \/ i \in DOMAIN q /\ Append(q, x)[i] = q[i]
                    \/ i = Len(q) + 1 /\ Append(q, x)[i] = x
  OBVIOUS
<1>1. DOMAIN q = 1 .. Len(q) /\ DOMAIN Append(q, x) = 1 .. Len(q) + 1 /\ Len(q) \in Nat
  OBVIOUS
<1>2. CASE i = Len(q) + 1
  BY <1>2
<1>3. CASE i # Len(q) + 1
  BY <1>1, <1>3
<1> QED
  BY <1>2, <1>3

\* A worker takes the first task of the queue.
LEMMA TakeOwned ==
  ASSUME OInv, NEW w \in Workers, Take(w)
  PROVE  Owned'
<1> DEFINE ok(k, i) == IF k = "worker" /\ i = w THEN "queue" ELSE k
           oi(k, i) == IF k = "worker" /\ i = w THEN 1 ELSE IF k = "queue" THEN i + 1 ELSE i
<1>1. /\ TypeInv /\ Owned
      /\ tasks_queue \in Seq(Strings) /\ tasks_queue # <<>>
      /\ tasks_queue' = Tail(tasks_queue)
      /\ wpc' = [wpc EXCEPT ![w] = "proxy"]
      /\ wtask' = [wtask EXCEPT ![w] = Head(tasks_queue)]
      /\ UNCHANGED <<drained, todo, stack, pc, results_queue, data, proc_uids>>
      /\ wpc \in [Workers -> {"none", "get", "proxy", "fetch", "save"}] /\ wtask \in [Workers -> Strings]
  BY DEF OInv, Take, TypeInv, TypeOK, frameVars, loopVars, uidVars
<1>2. /\ 1 \in DOMAIN tasks_queue /\ Head(tasks_queue) = tasks_queue[1]
      /\ \A i \in DOMAIN tasks_queue' : /\ i \in Nat \ {0} /\ i + 1 \in DOMAIN tasks_queue
                                        /\ tasks_queue'[i] = tasks_queue[i + 1]
  BY <1>1, TailFacts
<1>3. ASSUME NEW t \in Tasks, NEW k, NEW i, Holds(k, i, t)'
      PROVE  /\ Holds(ok(k, i), oi(k, i), t)
             /\ k = "queue" => i \in Nat \ {0}
  <2>1. CASE k = "queue"
    BY <1>2, <1>3, <2>1 DEF Holds
  <2>2. CASE k = "worker" /\ i = w
    <3>1. wtask'[w] = t
      BY <1>3, <2>2 DEF Holds
    <3>2. tasks_queue[1] = t
      BY <1>1, <1>2, <3>1
    <3> QED
      BY <1>2, <2>2, <3>2 DEF Holds
  <2>3. CASE k = "worker" /\ i # w
    BY <1>1, <1>3, <2>3 DEF Holds, HoldsTask
  <2>4. CASE k # "worker" /\ k # "queue"
    BY <1>1, <1>3, <2>4 DEF Holds
  <2> QED
    BY <2>1, <2>2, <2>3, <2>4
<1>4. ASSUME NEW t \in Tasks, NEW k, NEW i, Holds(k, i, t)' PROVE crc[t] \in proc_uids'
  BY <1>1, <1>3, <1>4 DEF Owned
<1>5. ASSUME NEW s \in Tasks, NEW t \in Tasks, NEW k, NEW i, NEW m, NEW j,
             Holds(k, i, s)', Holds(m, j, t)', crc[s] = crc[t]
      PROVE  k = m /\ i = j
  <2>1. ok(k, i) = ok(m, j) /\ oi(k, i) = oi(m, j)
    <3>1. Holds(ok(k, i), oi(k, i), s) /\ Holds(ok(m, j), oi(m, j), t)
      BY <1>3, <1>5
    <3> HIDE DEF ok, oi
    <3> QED
      BY <1>1, <1>5, <3>1 DEF Owned
  <2>2. (k = "queue" => i \in Nat \ {0}) /\ (m = "queue" => j \in Nat \ {0})
    BY <1>3, <1>5
  <2> QED
    BY <2>1, <2>2
<1> QED
  BY <1>4, <1>5 DEF Owned

\* A handler takes the first task of the queue into its hands.
LEMMA DrainOwned ==
  ASSUME OInv, NEW f \in {"int", "term"}, Drain(f)
  PROVE  Owned'
<1> DEFINE end == Len(drained[f]) + 1
           ok(k, i) == IF k = f /\ i = end THEN "queue" ELSE k
           oi(k, i) == IF k = f /\ i = end THEN 1 ELSE IF k = "queue" THEN i + 1 ELSE i
           own(k, i) == k = "queue" => i \in Nat \ {0}
<1>1. /\ TypeInv /\ Owned
      /\ tasks_queue \in Seq(Strings) /\ tasks_queue # <<>>
      /\ tasks_queue' = Tail(tasks_queue)
      /\ drained' = [drained EXCEPT ![f] = Append(@, Head(tasks_queue))]
      /\ drained \in [Frames -> Seq(Strings)] /\ f \in Frames
      /\ pc' = [pc EXCEPT ![f] = "empty"] /\ pc \in [Frames -> Labels]
      /\ UNCHANGED <<todo, stack, wpc, wtask, results_queue, data, proc_uids>>
  BY DEF OInv, Drain, TypeInv, TypeOK, Goto, threadVars, loopVars, uidVars, Frames
<1>2. /\ 1 \in DOMAIN tasks_queue /\ Head(tasks_queue) = tasks_queue[1]
      /\ \A i \in DOMAIN tasks_queue' : /\ i \in Nat \ {0} /\ i + 1 \in DOMAIN tasks_queue
                                        /\ tasks_queue'[i] = tasks_queue[i + 1]
  BY <1>1, TailFacts
<1>6. \A i \in DOMAIN drained'[f] : \/ i \in DOMAIN drained[f] /\ drained'[f][i] = drained[f][i]
                                    \/ i = end /\ drained'[f][i] = Head(tasks_queue)
  <2>1. Head(tasks_queue) \in Strings /\ drained[f] \in Seq(Strings)
    BY <1>1
  <2> DEFINE longer == Append(drained[f], Head(tasks_queue))
  <2>2. drained'[f] = longer
    BY <1>1
  <2>3. \A i \in DOMAIN longer : \/ i \in DOMAIN drained[f] /\ longer[i] = drained[f][i]
                                 \/ i = end /\ longer[i] = Head(tasks_queue)
    BY <2>1, AppendFacts
  <2> HIDE DEF end, longer
  <2> QED
    BY <2>2, <2>3
<1>7. end \notin DOMAIN drained[f]
  BY <1>1
<1>3. ASSUME NEW t \in Tasks, NEW k, NEW i, Holds(k, i, t)'
      PROVE  Holds(ok(k, i), oi(k, i), t) /\ own(k, i)
  <2> HIDE DEF end
  <2>1. CASE k = "queue"
    BY <1>2, <1>3, <2>1 DEF Holds
  <2>2. CASE k = f /\ i = end
    <3>1. drained'[f][i] = t /\ i \in DOMAIN drained'[f]
      BY <1>3, <2>2 DEF Holds
    <3>2. tasks_queue[1] = t
      BY <1>2, <1>6, <1>7, <2>2, <3>1
    <3> QED
      BY <1>2, <2>2, <3>2 DEF Holds
  <2>3. CASE k = f /\ i # end
    <3>1. drained'[f][i] = t /\ i \in DOMAIN drained'[f]
      BY <1>3, <2>3 DEF Holds
    <3>2. i \in DOMAIN drained[f] /\ drained[f][i] = t
      BY <1>6, <2>3, <3>1
    <3> QED
      BY <2>3, <3>2 DEF Holds
  <2>4. CASE k # f /\ k # "queue"
    <3>1. /\ "run" \in Frames /\ pc'["run"] = pc["run"]
          /\ k \in {"int", "term"} => drained'[k] = drained[k]
      BY <1>1, <2>4 DEF Frames
    <3> QED
      BY <1>1, <1>3, <2>4, <3>1 DEF Holds, HoldsTask
  <2> QED
    BY <2>1, <2>2, <2>3, <2>4
<1>4. ASSUME NEW t \in Tasks, NEW k, NEW i, Holds(k, i, t)' PROVE crc[t] \in proc_uids'
  BY <1>1, <1>3, <1>4 DEF Owned
<1>5. ASSUME NEW s \in Tasks, NEW t \in Tasks, NEW k, NEW i, NEW m, NEW j,
             Holds(k, i, s)', Holds(m, j, t)', crc[s] = crc[t]
      PROVE  k = m /\ i = j
  <2>1. ok(k, i) = ok(m, j) /\ oi(k, i) = oi(m, j)
    <3>1. Holds(ok(k, i), oi(k, i), s) /\ Holds(ok(m, j), oi(m, j), t)
      BY <1>3, <1>5
    <3> HIDE DEF ok, oi
    <3> QED
      BY <1>1, <1>5, <3>1 DEF Owned
  <2>2. own(k, i) /\ own(m, j)
    BY <1>3, <1>5
  <2> QED
    BY <2>1, <2>2
<1> QED
  BY <1>4, <1>5 DEF Owned

\* handleSIGINT hands its tasks to setTasks.
LEMMA ReloadOwned ==
  ASSUME OInv, Reload
  PROVE  Owned'
<1> DEFINE ok(k, i) == IF k = "back" THEN "int" ELSE k
           oi(k, i) == i
           own(k, i) == k # "int"
<1>1. /\ TypeInv /\ Owned
      /\ todo' = [todo EXCEPT !["int"] = drained["int"]] /\ todo \in [Frames -> Seq(Strings)]
      /\ drained' = [drained EXCEPT !["int"] = <<>>] /\ drained \in [Frames -> Seq(Strings)]
      /\ pc' = [pc EXCEPT !["int"] = "put"] /\ pc \in [Frames -> Labels]
      /\ UNCHANGED <<tasks_queue, stack, wpc, wtask, results_queue, data, proc_uids>>
  BY DEF OInv, Reload, TypeInv, TypeOK, Goto, threadVars, loopVars, uidVars
<1>2. /\ todo'["int"] = drained["int"]
      /\ drained'["int"] = <<>> /\ drained'["term"] = drained["term"]
      /\ pc'["run"] = pc["run"]
  BY <1>1 DEF Frames
<1>6. DOMAIN <<>> = {}
  OBVIOUS
<1>3. ASSUME NEW t \in Tasks, NEW k, NEW i, Holds(k, i, t)'
      PROVE  Holds(ok(k, i), oi(k, i), t) /\ own(k, i)
  <2>1. k # "int"
    BY <1>2, <1>3, <1>6 DEF Holds
  <2>2. CASE k = "back"
    BY <1>2, <1>3, <2>2 DEF Holds
  <2>3. CASE k # "back"
    BY <1>1, <1>2, <1>3, <2>1, <2>3 DEF Holds, HoldsTask
  <2> QED
    BY <2>1, <2>2, <2>3
<1>4. ASSUME NEW t \in Tasks, NEW k, NEW i, Holds(k, i, t)' PROVE crc[t] \in proc_uids'
  BY <1>1, <1>3, <1>4 DEF Owned
<1>5. ASSUME NEW s \in Tasks, NEW t \in Tasks, NEW k, NEW i, NEW m, NEW j,
             Holds(k, i, s)', Holds(m, j, t)', crc[s] = crc[t]
      PROVE  k = m /\ i = j
  <2>1. ok(k, i) = ok(m, j) /\ oi(k, i) = oi(m, j)
    <3>1. Holds(ok(k, i), oi(k, i), s) /\ Holds(ok(m, j), oi(m, j), t)
      BY <1>3, <1>5
    <3> HIDE DEF ok, oi
    <3> QED
      BY <1>1, <1>5, <3>1 DEF Owned
  <2>2. own(k, i) /\ own(m, j)
    BY <1>3, <1>5
  <2> QED
    BY <2>1, <2>2
<1> QED
  BY <1>4, <1>5 DEF Owned

\* run() takes the first result.
LEMMA GetResultOwned ==
  ASSUME OInv, GetResult
  PROVE  Owned'
<1> DEFINE ok(k, i) == IF k = "data" THEN "results" ELSE k
           oi(k, i) == IF k = "results" THEN i + 1 ELSE i
           own(k, i) == (k = "results" => i \in Nat \ {0}) /\ (k = "data" => i = 1)
<1>1. /\ TypeInv /\ Owned
      /\ results_queue \in Seq(Strings) /\ results_queue # <<>>
      /\ results_queue' = Tail(results_queue) /\ data' = Head(results_queue)
      /\ pc["run"] = "get"
      /\ UNCHANGED <<tasks_queue, drained, todo, stack, wpc, wtask, proc_uids>>
  BY DEF OInv, GetResult, At, TypeInv, TypeOK, threadVars, uidVars
<1>2. /\ 1 \in DOMAIN results_queue /\ Head(results_queue) = results_queue[1]
      /\ \A i \in DOMAIN results_queue' : /\ i \in Nat \ {0} /\ i + 1 \in DOMAIN results_queue
                                          /\ results_queue'[i] = results_queue[i + 1]
  BY <1>1, TailFacts
<1>3. ASSUME NEW t \in Tasks, NEW k, NEW i, Holds(k, i, t)'
      PROVE  Holds(ok(k, i), oi(k, i), t) /\ own(k, i)
  <2>1. CASE k = "results"
    BY <1>2, <1>3, <2>1 DEF Holds
  <2>2. CASE k = "data"
    <3>1. i = 1 /\ data' = t
      BY <1>3, <2>2 DEF Holds
    <3> QED
      BY <1>1, <1>2, <2>2, <3>1 DEF Holds
  <2>3. CASE k # "results" /\ k # "data"
    BY <1>1, <1>3, <2>3 DEF Holds, HoldsTask
  <2> QED
    BY <2>1, <2>2, <2>3
<1>4. ASSUME NEW t \in Tasks, NEW k, NEW i, Holds(k, i, t)' PROVE crc[t] \in proc_uids'
  BY <1>1, <1>3, <1>4 DEF Owned
<1>5. ASSUME NEW s \in Tasks, NEW t \in Tasks, NEW k, NEW i, NEW m, NEW j,
             Holds(k, i, s)', Holds(m, j, t)', crc[s] = crc[t]
      PROVE  k = m /\ i = j
  <2>1. ok(k, i) = ok(m, j) /\ oi(k, i) = oi(m, j)
    <3>1. Holds(ok(k, i), oi(k, i), s) /\ Holds(ok(m, j), oi(m, j), t)
      BY <1>3, <1>5
    <3> HIDE DEF ok, oi
    <3> QED
      BY <1>1, <1>5, <3>1 DEF Owned
  <2>2. own(k, i) /\ own(m, j)
    BY <1>3, <1>5
  <2> QED
    BY <2>1, <2>2
<1> QED
  BY <1>4, <1>5 DEF Owned

\* A worker hands over its result, and is about to save the page.
LEMMA FetchOkOwned ==
  ASSUME OInv, NEW w \in Workers, FetchOk(w)
  PROVE  Owned'
<1> DEFINE end == Len(results_queue) + 1
           ok(k, i) == IF k = "results" /\ i = end THEN "worker" ELSE k
           oi(k, i) == IF k = "results" /\ i = end THEN w ELSE i
           own(k, i) == k = "worker" => i # w
<1>1. /\ TypeInv /\ Owned
      /\ results_queue \in Seq(Strings) /\ wtask[w] \in Strings /\ wtask[w] \in Tasks
      /\ results_queue' = Append(results_queue, wtask[w])
      /\ wpc[w] = "fetch" /\ wpc' = [wpc EXCEPT ![w] = "save"]
      /\ wpc \in [Workers -> {"none", "get", "proxy", "fetch", "save"}]
      /\ \A v \in Workers : v # w => wtask'[v] = wtask[v]
      /\ UNCHANGED <<tasks_queue, drained, todo, stack, pc, data, proc_uids>>
  BY ConstantFacts DEF OInv, FetchOk, TypeInv, TypeOK, frameVars, loopVars, uidVars
<1>2. \A i \in DOMAIN results_queue' : \/ i \in DOMAIN results_queue /\ results_queue'[i] = results_queue[i]
                                       \/ i = end /\ results_queue'[i] = wtask[w]
  <2> DEFINE longer == Append(results_queue, wtask[w])
  <2>1. \A i \in DOMAIN longer : \/ i \in DOMAIN results_queue /\ longer[i] = results_queue[i]
                                 \/ i = end /\ longer[i] = wtask[w]
    BY <1>1, AppendFacts
  <2>2. results_queue' = longer
    BY <1>1
  <2> HIDE DEF end, longer
  <2> QED
    BY <2>1, <2>2
<1>6. end \notin DOMAIN results_queue
  BY <1>1
<1>7. wpc'[w] = "save" /\ \A v \in Workers : v # w => wpc'[v] = wpc[v]
  BY <1>1
<1>3. ASSUME NEW t \in Tasks, NEW k, NEW i, Holds(k, i, t)'
      PROVE  Holds(ok(k, i), oi(k, i), t) /\ own(k, i)
  <2> HIDE DEF end
  <2>1. CASE k = "results" /\ i = end
    <3>1. results_queue'[i] = t /\ i \in DOMAIN results_queue'
      BY <1>3, <2>1 DEF Holds
    <3>2. wtask[w] = t /\ t # Finish
      BY <1>2, <1>6, <2>1, <3>1, CrcAssumption
    <3> QED
      BY <1>1, <2>1, <3>2 DEF Holds, HoldsTask
  <2>2. CASE k = "results" /\ i # end
    BY <1>2, <1>3, <2>2 DEF Holds
  <2>3. CASE k = "worker"
    <3>1. i \in Workers /\ HoldsTask(i)' /\ wtask'[i] = t
      BY <1>3, <2>3 DEF Holds
    <3>2. i # w
      BY <1>7, <3>1 DEF HoldsTask
    <3> QED
      BY <1>1, <1>7, <2>3, <3>1, <3>2 DEF Holds, HoldsTask
  <2>4. CASE k # "results" /\ k # "worker"
    BY <1>1, <1>3, <2>4 DEF Holds
  <2> QED
    BY <2>1, <2>2, <2>3, <2>4
<1>4. ASSUME NEW t \in Tasks, NEW k, NEW i, Holds(k, i, t)' PROVE crc[t] \in proc_uids'
  BY <1>1, <1>3, <1>4 DEF Owned
<1>5. ASSUME NEW s \in Tasks, NEW t \in Tasks, NEW k, NEW i, NEW m, NEW j,
             Holds(k, i, s)', Holds(m, j, t)', crc[s] = crc[t]
      PROVE  k = m /\ i = j
  <2>1. ok(k, i) = ok(m, j) /\ oi(k, i) = oi(m, j)
    <3>1. Holds(ok(k, i), oi(k, i), s) /\ Holds(ok(m, j), oi(m, j), t)
      BY <1>3, <1>5
    <3> HIDE DEF ok, oi
    <3> QED
      BY <1>1, <1>5, <3>1 DEF Owned
  <2>2. own(k, i) /\ own(m, j)
    BY <1>3, <1>5
  <2> QED
    BY <2>1, <2>2
<1> QED
  BY <1>4, <1>5 DEF Owned

\* No proxy answered: a worker puts its task back.
LEMMA FetchFailOwned ==
  ASSUME OInv, NEW w \in Workers, FetchFail(w)
  PROVE  Owned'
<1> DEFINE end == Len(tasks_queue) + 1
           ok(k, i) == IF k = "queue" /\ i = end THEN "worker" ELSE k
           oi(k, i) == IF k = "queue" /\ i = end THEN w ELSE i
           own(k, i) == k = "worker" => i # w
<1>1. /\ TypeInv /\ Owned
      /\ tasks_queue \in Seq(Strings) /\ wtask[w] \in Strings /\ wtask[w] \in Tasks
      /\ tasks_queue' = Append(tasks_queue, wtask[w])
      /\ wpc[w] = "fetch" /\ wpc' = [wpc EXCEPT ![w] = "get"]
      /\ wpc \in [Workers -> {"none", "get", "proxy", "fetch", "save"}]
      /\ \A v \in Workers : v # w => wtask'[v] = wtask[v]
      /\ UNCHANGED <<results_queue, drained, todo, stack, pc, data, proc_uids>>
  BY ConstantFacts DEF OInv, FetchFail, TypeInv, TypeOK, frameVars, loopVars, uidVars
<1>2. \A i \in DOMAIN tasks_queue' : \/ i \in DOMAIN tasks_queue /\ tasks_queue'[i] = tasks_queue[i]
                                     \/ i = end /\ tasks_queue'[i] = wtask[w]
  <2> DEFINE longer == Append(tasks_queue, wtask[w])
  <2>1. \A i \in DOMAIN longer : \/ i \in DOMAIN tasks_queue /\ longer[i] = tasks_queue[i]
                                 \/ i = end /\ longer[i] = wtask[w]
    BY <1>1, AppendFacts
  <2>2. tasks_queue' = longer
    BY <1>1
  <2> HIDE DEF end, longer
  <2> QED
    BY <2>1, <2>2
<1>6. end \notin DOMAIN tasks_queue
  BY <1>1
<1>7. wpc'[w] = "get" /\ \A v \in Workers : v # w => wpc'[v] = wpc[v]
  BY <1>1
<1>3. ASSUME NEW t \in Tasks, NEW k, NEW i, Holds(k, i, t)'
      PROVE  Holds(ok(k, i), oi(k, i), t) /\ own(k, i)
  <2> HIDE DEF end
  <2>1. CASE k = "queue" /\ i = end
    <3>1. tasks_queue'[i] = t /\ i \in DOMAIN tasks_queue'
      BY <1>3, <2>1 DEF Holds
    <3>2. wtask[w] = t /\ t # Finish
      BY <1>2, <1>6, <2>1, <3>1, CrcAssumption
    <3> QED
      BY <1>1, <2>1, <3>2 DEF Holds, HoldsTask
  <2>2. CASE k = "queue" /\ i # end
    BY <1>2, <1>3, <2>2 DEF Holds
  <2>3. CASE k = "worker"
    <3>1. i \in Workers /\ HoldsTask(i)' /\ wtask'[i] = t
      BY <1>3, <2>3 DEF Holds
    <3>2. i # w
      BY <1>7, <3>1 DEF HoldsTask
    <3> QED
      BY <1>1, <1>7, <2>3, <3>1, <3>2 DEF Holds, HoldsTask
  <2>4. CASE k # "queue" /\ k # "worker"
    BY <1>1, <1>3, <2>4 DEF Holds
  <2> QED
    BY <2>1, <2>2, <2>3, <2>4
<1>4. ASSUME NEW t \in Tasks, NEW k, NEW i, Holds(k, i, t)' PROVE crc[t] \in proc_uids'
  BY <1>1, <1>3, <1>4 DEF Owned
<1>5. ASSUME NEW s \in Tasks, NEW t \in Tasks, NEW k, NEW i, NEW m, NEW j,
             Holds(k, i, s)', Holds(m, j, t)', crc[s] = crc[t]
      PROVE  k = m /\ i = j
  <2>1. ok(k, i) = ok(m, j) /\ oi(k, i) = oi(m, j)
    <3>1. Holds(ok(k, i), oi(k, i), s) /\ Holds(ok(m, j), oi(m, j), t)
      BY <1>3, <1>5
    <3> HIDE DEF ok, oi
    <3> QED
      BY <1>1, <1>5, <3>1 DEF Owned
  <2>2. own(k, i) /\ own(m, j)
    BY <1>3, <1>5
  <2> QED
    BY <2>1, <2>2
<1> QED
  BY <1>4, <1>5 DEF Owned

\* setTasks queues a task only when its uid is new, so that no place holds it.
LEMMA SetTaskOwned ==
  ASSUME OInv, NEW f \in Frames, SetTask(f)
  PROVE  Owned'
<1> DEFINE head == Head(todo[f])
           end == Len(tasks_queue) + 1
           oi(k, i) == IF k = "back" /\ f = "int" THEN i + 1 ELSE i
           fresh(k, i) == k = "queue" /\ i = end
<1>1. /\ TypeInv /\ Owned
      /\ tasks_queue \in Seq(Strings)
      /\ todo \in [Frames -> Seq(Strings)] /\ todo[f] \in Seq(Strings) /\ todo[f] # <<>>
      /\ todo' = [todo EXCEPT ![f] = Tail(todo[f])]
      /\ UNCHANGED <<drained, stack, pc, wpc, wtask, results_queue, data>>
  BY DEF OInv, SetTask, TypeInv, TypeOK, threadVars, loopVars
<1>2. /\ head \in Strings
      /\ \/ tasks_queue' = Append(tasks_queue, head) /\ uids!Add(crc[head])
         \/ UNCHANGED <<tasks_queue, proc_uids>>
  BY <1>1 DEF SetTask, uidVars
<1>6. \A i \in DOMAIN todo'["int"] : /\ i \in Nat \ {0}
                                     /\ oi("back", i) \in DOMAIN todo["int"]
                                     /\ todo'["int"][i] = todo["int"][oi("back", i)]
  <2>1. "int" \in Frames /\ todo["int"] \in Seq(Strings)
    BY <1>1 DEF Frames
  <2>2. CASE f = "int"
    <3>1. todo'["int"] = Tail(todo["int"]) /\ todo["int"] # <<>>
      BY <1>1, <2>1, <2>2
    <3> QED
      BY <2>1, <2>2, <3>1, TailFacts
  <2>3. CASE f # "int"
    <3>1. todo'["int"] = todo["int"] /\ DOMAIN todo["int"] = 1 .. Len(todo["int"])
      BY <1>1, <2>1, <2>3
    <3>2. Len(todo["int"]) \in Nat
      BY <2>1
    <3> QED
      BY <2>3, <3>1, <3>2
  <2> QED
    BY <2>2, <2>3
<1>7. \A i \in DOMAIN tasks_queue' :
         \/ i \in DOMAIN tasks_queue /\ tasks_queue'[i] = tasks_queue[i]
         \/ i = end /\ tasks_queue'[i] = head /\ uids!Add(crc[head])
  <2> DEFINE longer == Append(tasks_queue, head)
  <2>1. \A i \in DOMAIN longer : \/ i \in DOMAIN tasks_queue /\ longer[i] = tasks_queue[i]
                                 \/ i = end /\ longer[i] = head
    BY <1>1, <1>2, AppendFacts
  <2>2. (tasks_queue' = longer /\ uids!Add(crc[head])) \/ tasks_queue' = tasks_queue
    BY <1>2
  <2> HIDE DEF end, longer, head
  <2> QED
    BY <2>1, <2>2
<1>8. end \notin DOMAIN tasks_queue
  BY <1>1
<1>9. proc_uids \subseteq proc_uids'
  BY <1>2 DEF uids!Add
<1> HIDE DEF head, end
<1>3. ASSUME NEW t \in Tasks, NEW k, NEW i, Holds(k, i, t)', ~fresh(k, i)
      PROVE  Holds(k, oi(k, i), t) /\ (k = "back" => i \in Nat \ {0})
  <2>1. CASE k = "queue"
    BY <1>3, <1>7, <2>1 DEF Holds
  <2>2. CASE k = "back"
    BY <1>3, <1>6, <2>2 DEF Holds
  <2>3. CASE k # "queue" /\ k # "back"
    BY <1>1, <1>3, <2>3 DEF Holds, HoldsTask
  <2> QED
    BY <2>1, <2>2, <2>3
<1>10. ASSUME NEW t \in Tasks, NEW k, NEW i, Holds(k, i, t)', fresh(k, i)
       PROVE  crc[t] \notin proc_uids /\ crc[t] \in proc_uids'
  <2>1. i = end /\ i \in DOMAIN tasks_queue' /\ tasks_queue'[i] = t
    BY <1>10 DEF Holds
  <2>2. head = t /\ uids!Add(crc[head])
    BY <1>7, <1>8, <2>1
  <2> QED
    BY <2>2 DEF uids!Add, uids!Contains
<1>11. ASSUME NEW t \in Tasks, NEW k, NEW i, Holds(k, i, t)', ~fresh(k, i)
       PROVE  crc[t] \in proc_uids
  <2>1. Holds(k, oi(k, i), t)
    BY <1>3, <1>11
  <2> HIDE DEF oi
  <2> QED
    BY <1>1, <2>1 DEF Owned
<1>4. ASSUME NEW t \in Tasks, NEW k, NEW i, Holds(k, i, t)' PROVE crc[t] \in proc_uids'
  BY <1>4, <1>9, <1>10, <1>11
<1>5. ASSUME NEW s \in Tasks, NEW t \in Tasks, NEW k, NEW i, NEW m, NEW j,
             Holds(k, i, s)', Holds(m, j, t)', crc[s] = crc[t]
      PROVE  k = m /\ i = j
  <2>1. CASE fresh(k, i) /\ fresh(m, j)
    BY <2>1
  <2>2. CASE fresh(k, i) # fresh(m, j)
    BY <1>5, <1>10, <1>11, <2>2
  <2>3. CASE ~fresh(k, i) /\ ~fresh(m, j)
    <3>1. /\ Holds(k, oi(k, i), s) /\ (k = "back" => i \in Nat \ {0})
          /\ Holds(m, oi(m, j), t) /\ (m = "back" => j \in Nat \ {0})
      BY <1>3, <1>5, <2>3
    <3>2. k = m /\ oi(k, i) = oi(m, j)
      <4> HIDE DEF oi
      <4> QED
        BY <1>1, <1>5, <3>1 DEF Owned
    <3> QED
      BY <3>1, <3>2
  <2> QED
    BY <2>1, <2>2, <2>3
<1> QED
  BY <1>4, <1>5 DEF Owned

\* A commit takes out of the store the uid of the result in hand, and no other place
\* holds a video of that uid.
LEMMA CommitOwned ==
  ASSUME OInv, Commit
  PROVE  Owned'
<1>1. /\ TypeInv /\ Owned
      /\ data \in Tasks /\ pc["run"] = "commit" /\ stack # <<>>
      /\ proc_uids' = proc_uids \ {crc[data]}
      /\ UNCHANGED <<tasks_queue, drained, stack, wpc, wtask, results_queue, data>>
  BY DEF OInv, Commit, At, Running, TypeInv, uids!Commit, queueVars, threadVars, loopVars
<1>2. todo'["int"] = todo["int"] /\ pc'["run"] # "commit"
  BY DEF OInv, Commit, Goto, TypeInv, TypeOK, Frames
<1>3. Holds("data", 1, data)
  BY <1>1 DEF Holds
<1>4. ASSUME NEW t \in Tasks, NEW k, NEW i, Holds(k, i, t)'
      PROVE  Holds(k, i, t) /\ k # "data"
  BY <1>1, <1>2, <1>4 DEF Holds, HoldsTask
<1>5. ASSUME NEW t \in Tasks, NEW k, NEW i, Holds(k, i, t)'
      PROVE  crc[t] \in proc_uids'
  <2>1. crc[t] \in proc_uids
    BY <1>1, <1>4, <1>5 DEF Owned
  <2>2. crc[t] # crc[data]
    BY <1>1, <1>3, <1>4, <1>5 DEF Owned
  <2> QED
    BY <1>1, <2>1, <2>2
<1>6. ASSUME NEW s \in Tasks, NEW t \in Tasks, NEW k, NEW i, NEW m, NEW j,
             Holds(k, i, s)', Holds(m, j, t)', crc[s] = crc[t]
      PROVE  k = m /\ i = j
  BY <1>1, <1>4, <1>6 DEF Owned
<1> QED
  BY <1>5, <1>6 DEF Owned

\* A poison pill is no video.
LEMMA PillOwned ==
  ASSUME OInv, UNCHANGED <<drained, todo, wpc, wtask, data, proc_uids>>,
         \/ tasks_queue' = Append(tasks_queue, Finish) /\ UNCHANGED results_queue
         \/ results_queue' = Append(results_queue, Finish) /\ UNCHANGED tasks_queue,
         pc'["run"] = "commit" => pc["run"] = "commit",
         stack' # <<>> => stack # <<>>
  PROVE  Owned'
<1>1. /\ Owned /\ tasks_queue \in Seq(Strings) /\ results_queue \in Seq(Strings)
      /\ Finish \in Strings /\ Finish \notin Tasks
  BY CrcAssumption, ConstantFacts DEF OInv, TypeInv, TypeOK
<1>2. ASSUME NEW t \in Tasks, NEW k, NEW i, Holds(k, i, t)' PROVE Holds(k, i, t)
  <2> DEFINE longer(q) == Append(q, Finish)
  <2>1. \A q \in Seq(Strings) : \A j \in DOMAIN longer(q) :
           longer(q)[j] = t => j \in DOMAIN q /\ q[j] = t
    BY <1>1, AppendFacts
  <2>2. /\ tasks_queue' \in {tasks_queue, longer(tasks_queue)}
        /\ results_queue' \in {results_queue, longer(results_queue)}
    OBVIOUS
  <2> HIDE DEF longer
  <2>3. CASE k \in {"queue", "results"}
    BY <1>1, <1>2, <2>1, <2>2, <2>3 DEF Holds
  <2>4. CASE k \notin {"queue", "results"}
    BY <1>2, <2>4 DEF Holds, HoldsTask
  <2> QED
    BY <2>3, <2>4
<1> QED
  BY <1>1, <1>2, StayOwned

\* With the process everything ends that a video could be at.
LEMMA DownOwned ==
  ASSUME TypeInv, Down
  PROVE  Owned'
<1>1. ASSUME NEW t \in Tasks, NEW k, NEW i PROVE ~Holds(k, i, t)'
  <2>1. DOMAIN <<>> = {}
    OBVIOUS
  <2>2. /\ tasks_queue' = <<>> /\ results_queue' = <<>> /\ stack' = <<>>
        /\ drained'["int"] = <<>> /\ drained'["term"] = <<>> /\ todo'["int"] = <<>>
        /\ \A w \in Workers : wpc'[w] = "none"
    BY DEF Down, Frames
  <2> QED
    BY <2>1, <2>2 DEF Holds, HoldsTask
<1> QED
  BY <1>1 DEF Owned

LEMMA MainOwned ==
  ASSUME OInv, Main
  PROVE  Owned'
<1> USE DEF At, Running, Goto
<1>1. TypeInv /\ Owned /\ pc \in [Frames -> Labels] /\ {"run", "int", "term"} = Frames
  BY DEF OInv, TypeInv, TypeOK, Frames
<1>2. CASE Start
  <2>1. /\ UNCHANGED <<tasks_queue, drained, results_queue, data, proc_uids>>
        /\ pc' = [pc EXCEPT !["run"] = "load"]
        /\ \A w \in Workers : wpc'[w] \in {"get", "none"}
        /\ todo' = [todo EXCEPT !["run"] = tasks_file]
    BY <1>2 DEF Start, queueVars, uidVars, loopVars
  <2>2. pc'["run"] # "commit" /\ todo'["int"] = todo["int"]
    BY <1>1, <2>1 DEF TypeInv, TypeOK
  <2>3. ASSUME NEW t \in Tasks, NEW k, NEW i, Holds(k, i, t)' PROVE Holds(k, i, t)
    BY <2>1, <2>2, <2>3 DEF Holds, HoldsTask
  <2> QED
    BY <1>1, <2>1, <2>3, StayOwned
<1>3. CASE LoadProxies \/ SetTasksDone
  <2>1. /\ UNCHANGED <<tasks_queue, drained, todo, wpc, wtask, results_queue, data, proc_uids, stack>>
        /\ pc'["run"] # "commit"
    BY <1>1, <1>3 DEF LoadProxies, SetTasksDone, uidVars, queueVars, threadVars, loopVars
  <2> QED
    BY <1>1, <2>1, SamePlaces
<1>4. CASE CommitFlush \/ Saving
  <2>1. /\ UNCHANGED <<tasks_queue, drained, todo, wpc, wtask, results_queue, data, stack>>
        /\ UNCHANGED proc_uids
        /\ pc'["run"] # "commit"
    BY <1>1, <1>4 DEF CommitFlush, Saving, uids!FlushToDisk, uidVars, queueVars, threadVars, loopVars
  <2> QED
    BY <1>1, <2>1, SamePlaces
<1>5. CASE CheckWorkers
  <2>1. /\ UNCHANGED <<tasks_queue, drained, todo, wpc, wtask, results_queue, data, proc_uids, stack>>
        /\ pc'["run"] # "commit"
    BY <1>1, <1>5 DEF CheckWorkers, PutInOrder, uidVars, queueVars, threadVars
  <2> QED
    BY <1>1, <2>1, SamePlaces
<1>6. ASSUME NEW f \in Frames, Pill(f) PROVE Owned'
  <2>1. /\ tasks_queue' = Append(tasks_queue, Finish)
        /\ UNCHANGED <<drained, todo, wpc, wtask, results_queue, data, proc_uids, pc, stack>>
    BY <1>6 DEF Pill, uidVars, threadVars, loopVars
  <2> QED
    BY <2>1, PillOwned
<1>7. ASSUME NEW f \in Frames, Spawn(f) PROVE Owned'
  <2>1. /\ UNCHANGED <<tasks_queue, drained, todo, wtask, results_queue, data, proc_uids, pc, stack>>
        /\ \E w \in Workers : wpc' = [wpc EXCEPT ![w] = "get"]
        /\ wpc \in [Workers -> {"none", "get", "proxy", "fetch", "save"}]
    BY <1>1, <1>7 DEF Spawn, uidVars, queueVars, loopVars, TypeInv, TypeOK
  <2>2. \A w \in Workers : wpc'[w] = wpc[w] \/ wpc'[w] = "get"
    BY <2>1
  <2>3. ASSUME NEW t \in Tasks, NEW k, NEW i, Holds(k, i, t)' PROVE Holds(k, i, t)
    BY <2>1, <2>2, <2>3 DEF Holds, HoldsTask
  <2> QED
    BY <1>1, <2>1, <2>3, StayOwned
<1>8. ASSUME NEW f \in Frames, InOrderDone(f) PROVE Owned'
  <2>1. /\ UNCHANGED <<tasks_queue, drained, todo, wpc, wtask, results_queue, data, proc_uids>>
        /\ pc'["run"] = "commit" => pc["run"] = "commit"
        /\ stack # <<>>
    BY <1>1, <1>8 DEF InOrderDone, InOrder, uidVars, queueVars, threadVars, loopVars
  <2> QED
    BY <1>1, <2>1, SamePlaces
<1>9. ASSUME NEW f \in {"int", "term"}, NotEmpty(f) \/ Kill(f) PROVE Owned'
  <2>1. /\ UNCHANGED <<tasks_queue, drained, todo, wpc, wtask, results_queue, data, proc_uids, stack>>
        /\ pc'["run"] = pc["run"]
    BY <1>1, <1>9 DEF NotEmpty, Kill, PutInOrder, uidVars, queueVars, threadVars, loopVars
  <2> QED
    BY <1>1, <2>1, SamePlaces
<1>10. CASE TermReturn
  <2>1. /\ results_queue' = Append(results_queue, Finish)
        /\ UNCHANGED <<drained, todo, wpc, wtask, tasks_queue, data, proc_uids>>
        /\ pc'["run"] = pc["run"]
        /\ stack # <<>>
    BY <1>1, <1>10 DEF TermReturn, Joined, uidVars, threadVars, loopVars
  <2> QED
    BY <2>1, PillOwned
<1>11. CASE Restart
  <2>1. /\ UNCHANGED <<tasks_queue, drained, todo, wpc, wtask, results_queue, data, proc_uids, stack>>
        /\ pc'["run"] = pc["run"]
    BY <1>1, <1>11 DEF Restart, PutInOrder, uidVars, queueVars, threadVars, loopVars
  <2> QED
    BY <1>1, <2>1, SamePlaces
<1>12. CASE Exit
  BY <1>1, <1>12, DownOwned DEF Exit
<1> QED
  BY <1>2, <1>3, <1>4, <1>5, <1>6, <1>7, <1>8, <1>9, <1>10, <1>11, <1>12, GetResultOwned,
     CommitOwned, SetTaskOwned, DrainOwned, ReloadOwned DEF Main

LEMMA WorkerOwned ==
  ASSUME OInv, NEW w \in Workers, Worker(w) \/ SaveFails(w)
  PROVE  Owned'
<1>1. /\ TypeInv /\ Owned
      /\ wpc \in [Workers -> {"none", "get", "proxy", "fetch", "save"}]
      /\ wtask \in [Workers -> Strings]
  BY DEF OInv, TypeInv, TypeOK
<1>2. CASE NextProxy(w)
  <2>1. /\ UNCHANGED <<tasks_queue, drained, todo, wtask, results_queue, data, proc_uids, pc, stack>>
        /\ wpc[w] = "proxy"
        /\ \A v \in Workers : v # w => wpc'[v] = wpc[v]
    BY <1>1, <1>2 DEF NextProxy, uidVars, queueVars, frameVars, loopVars
  <2>2. ASSUME NEW t \in Tasks, NEW k, NEW i, Holds(k, i, t)' PROVE Holds(k, i, t)
    BY <2>1, <2>2 DEF Holds, HoldsTask
  <2> QED
    BY <1>1, <2>1, <2>2, StayOwned
<1>3. CASE FetchBad(w) \/ Save(w) \/ SaveFails(w)
  <2>1. /\ UNCHANGED <<tasks_queue, drained, todo, results_queue, data, proc_uids, pc, stack>>
        /\ wtask' = [wtask EXCEPT ![w] = Finish]
        /\ \/ wpc' = [wpc EXCEPT ![w] = "get"]
           \/ wpc' = [wpc EXCEPT ![w] = "none"]
    BY <1>3 DEF FetchBad, Save, SaveFails, uidVars, queueVars, frameVars, loopVars
  <2>2. \A v \in Workers : \/ wtask'[v] = wtask[v] /\ wpc'[v] = wpc[v]
                           \/ wtask'[v] = Finish
    BY <1>1, <2>1
  <2>3. ASSUME NEW t \in Tasks, NEW k, NEW i, Holds(k, i, t)' PROVE Holds(k, i, t)
    BY <2>1, <2>2, <2>3 DEF Holds, HoldsTask
  <2> QED
    BY <1>1, <2>1, <2>3, StayOwned
<1> QED
  BY <1>2, <1>3, TakeOwned, FetchOkOwned, FetchFailOwned DEF Worker, Fetch

LEMMA SignalOwned ==
  ASSUME OInv, SIGINT \/ SIGTERM
  PROVE  Owned'
<1>1. TypeInv /\ Owned /\ drained \in [Frames -> Seq(Strings)] /\ pc \in [Frames -> Labels]
  BY DEF OInv, TypeInv, TypeOK
<1>2. PICK f \in {"int", "term"} : Interrupt(f)
  BY DEF SIGINT, SIGTERM
<1>3. /\ UNCHANGED <<tasks_queue, todo, wpc, wtask, results_queue, data, proc_uids>>
      /\ drained' = [drained EXCEPT ![f] = <<>>]
      /\ pc' = [pc EXCEPT ![f] = "empty"]
      /\ stack # <<>>
  BY <1>2 DEF SIGINT, SIGTERM, Interrupt, Goto, uidVars, queueVars, threadVars, loopVars
<1>4. /\ pc'["run"] = pc["run"]
      /\ \A g \in {"int", "term"} : drained'[g] = drained[g] \/ drained'[g] = <<>>
  BY <1>1, <1>3 DEF Frames
<1>5. DOMAIN <<>> = {}
  OBVIOUS
<1>6. ASSUME NEW t \in Tasks, NEW k, NEW i, Holds(k, i, t)' PROVE Holds(k, i, t)
  BY <1>3, <1>4, <1>5, <1>6 DEF Holds, HoldsTask
<1> QED
  BY <1>1, <1>3, <1>6, StayOwned

LEMMA NextOwned == OInv /\ [Next]_vars => OInv'
<1> SUFFICES ASSUME OInv, [Next]_vars PROVE Owned'
  BY NextTypeInv DEF OInv
<1>1. CASE UNCHANGED vars
  <2>1. /\ UNCHANGED <<tasks_queue, drained, todo, wpc, wtask, results_queue, data, proc_uids>>
        /\ UNCHANGED <<pc, stack>> /\ Owned
    BY <1>1 DEF OInv, vars, uidVars, queueVars, threadVars, frameVars, loopVars
  <2> QED
    BY <2>1, SamePlaces
<1>2. CASE Crash
  BY <1>2, DownOwned DEF Crash, OInv
<1> QED
  BY <1>1, <1>2, MainOwned, WorkerOwned, SignalOwned DEF Next

LEMMA InitOwned == Init => OInv
<1> SUFFICES ASSUME Init PROVE Owned
  BY InitTypeInv DEF OInv
<1>1. DOMAIN <<>> = {}
  OBVIOUS
<1>2. ASSUME NEW t \in Tasks, NEW k, NEW i PROVE ~Holds(k, i, t)
  BY <1>1 DEF Init, Holds, HoldsTask, Frames
<1> QED
  BY <1>2 DEF Owned

LEMMA JoinedFacts ==
  ASSUME NEW p \in Seq(Strings), NEW q \in Seq(Strings)
  PROVE  /\ p \o q \in Seq(Strings) /\ Len(p \o q) = Len(p) + Len(q)
         /\ \A i \in DOMAIN (p \o q) :
               /\ i \in Nat
               /\ \/ i \in DOMAIN p /\ (p \o q)[i] = p[i]
                  \/ i - Len(p) \in DOMAIN q /\ (p \o q)[i] = q[i - Len(p)]
<1>1. /\ p \o q \in Seq(Strings) /\ Len(p \o q) = Len(p) + Len(q)
      /\ DOMAIN (p \o q) = 1 .. Len(p) + Len(q)
      /\ DOMAIN p = 1 .. Len(p) /\ DOMAIN q = 1 .. Len(q)
      /\ Len(p) \in Nat /\ Len(q) \in Nat
  OBVIOUS
<1>2. ASSUME NEW i \in DOMAIN (p \o q)
      PROVE  \/ i \in DOMAIN p /\ (p \o q)[i] = p[i]
             \/ i - Len(p) \in DOMAIN q /\ (p \o q)[i] = q[i - Len(p)]
  <2>1. CASE i <= Len(p)
    BY <1>1, <1>2, <2>1
  <2>2. CASE i > Len(p)
    BY <1>1, <1>2, <2>2
  <2> QED
    BY <1>1, <1>2, <2>1, <2>2
<1> QED
  BY <1>1, <1>2

\* A position of WaitingTasks stands for a place.
LEMMA WaitingPlaces ==
  ASSUME TypeInv, NEW t \in Tasks, NEW i \in DOMAIN WaitingTasks, WaitingTasks[i] = t
  PROVE  /\ i \in Nat
         /\ \/ Holds("queue", i, t)
            \/ Holds("int", i - Len(tasks_queue), t)
            \/ Holds("term", i - Len(tasks_queue) - Len(drained["int"]), t)
            \/ Holds("back", i - Len(tasks_queue) - Len(drained["int"]) - Len(drained["term"]), t)
<1> DEFINE p == tasks_queue \o drained["int"]
           q == p \o drained["term"]
           n == Len(tasks_queue)
           d == Len(drained["int"])
           e == Len(drained["term"])
<1>1. /\ tasks_queue \in Seq(Strings) /\ drained["int"] \in Seq(Strings)
      /\ drained["term"] \in Seq(Strings) /\ todo["int"] \in Seq(Strings)
  BY DEF TypeInv, TypeOK, Frames
<1>2. p \in Seq(Strings) /\ q \in Seq(Strings) /\ Len(p) = n + d /\ Len(q) = n + d + e
  <2>1. p \in Seq(Strings) /\ Len(p) = n + d
    BY <1>1, JoinedFacts
  <2> HIDE DEF p
  <2> QED
    BY <1>1, <2>1, JoinedFacts
<1>3. n \in Nat /\ d \in Nat /\ e \in Nat
  BY <1>1
<1>4. \A j \in DOMAIN p : /\ j \in Nat
                          /\ \/ j \in DOMAIN tasks_queue /\ p[j] = tasks_queue[j]
                             \/ j - n \in DOMAIN drained["int"] /\ p[j] = drained["int"][j - n]
  BY <1>1, JoinedFacts
<1>5. \A j \in DOMAIN q : /\ j \in Nat
                          /\ \/ j \in DOMAIN p /\ q[j] = p[j]
                             \/ /\ j - n - d \in DOMAIN drained["term"]
                                /\ q[j] = drained["term"][j - n - d]
  <2> HIDE DEF p, n, d
  <2>1. \A j \in DOMAIN (p \o drained["term"]) :
           /\ j \in Nat
           /\ \/ j \in DOMAIN p /\ (p \o drained["term"])[j] = p[j]
              \/ /\ j - Len(p) \in DOMAIN drained["term"]
                 /\ (p \o drained["term"])[j] = drained["term"][j - Len(p)]
    BY <1>1, <1>2, JoinedFacts
  <2>2. \A j \in Nat : j - Len(p) = j - n - d
    BY <1>2, <1>3
  <2> QED
    BY <2>1, <2>2
<1>6. /\ i \in Nat
      /\ \/ i \in DOMAIN q /\ q[i] = t
         \/ i - n - d - e \in DOMAIN todo["int"] /\ todo["int"][i - n - d - e] = t
  <2>1. i \in DOMAIN (q \o todo["int"]) /\ (q \o todo["int"])[i] = t
    BY DEF WaitingTasks
  <2> HIDE DEF q, n, d, e
  <2>2. /\ i \in Nat
        /\ \/ i \in DOMAIN q /\ q[i] = t
           \/ i - Len(q) \in DOMAIN todo["int"] /\ todo["int"][i - Len(q)] = t
    BY <1>1, <1>2, <2>1, JoinedFacts
  <2>3. i - Len(q) = i - n - d - e
    BY <1>2, <1>3, <2>2
  <2> QED
    BY <2>2, <2>3
<1> HIDE DEF p, q
<1> QED
  BY <1>4, <1>5, <1>6 DEF Holds

\* A position of AnsweredTasks stands for a place.
LEMMA AnsweredPlaces ==
  ASSUME TypeInv, NEW t \in Tasks, NEW i \in DOMAIN AnsweredTasks, AnsweredTasks[i] = t
  PROVE  \/ Holds("results", i, t)
         \/ Holds("data", 1, t) /\ i = Len(results_queue) + 1
<1> DEFINE hand == IF stack # <<>> /\ pc["run"] = "commit" THEN <<data>> ELSE <<>>
<1>1. results_queue \in Seq(Strings) /\ data \in Strings /\ Len(results_queue) \in Nat
  BY DEF TypeInv, TypeOK
<1>2. /\ hand \in Seq(Strings)
      /\ \A j \in DOMAIN hand : j = 1 /\ hand[j] = data /\ stack # <<>> /\ pc["run"] = "commit"
  BY <1>1
<1>3. i \in DOMAIN (results_queue \o hand) /\ (results_queue \o hand)[i] = t
  BY DEF AnsweredTasks
<1> HIDE DEF hand
<1>4. /\ i \in Nat
      /\ \/ i \in DOMAIN results_queue /\ results_queue[i] = t
         \/ i - Len(results_queue) \in DOMAIN hand /\ hand[i - Len(results_queue)] = t
  BY <1>1, <1>2, <1>3, JoinedFacts
<1> QED
  BY <1>1, <1>2, <1>4 DEF Holds

LEMMA AtMostOne ==
  ASSUME NEW S, \A a, b \in S : a = b
  PROVE  \/ Cardinality(S) = 0 /\ S = {}
         \/ Cardinality(S) = 1 /\ S # {}
<1>1. CASE S = {}
  BY <1>1, FS_EmptySet
<1>2. CASE S # {}
  <2>1. \E a : S = {a}
    BY <1>2
  <2> QED
    BY <1>2, <2>1, FS_Singleton
<1> QED
  BY <1>1, <1>2

LEMMA OwnedOneOwner == OInv => OneOwner
<1> SUFFICES ASSUME OInv, NEW task \in Tasks
             PROVE  Places(task) <= 1 /\ (Places(task) = 1 => crc[task] \in proc_uids)
  BY DEF OneOwner
<1> DEFINE W == {i \in DOMAIN WaitingTasks : WaitingTasks[i] = task}
           H == {w \in Workers : HoldsTask(w) /\ wtask[w] = task}
           A == {i \in DOMAIN AnsweredTasks : AnsweredTasks[i] = task}
           n == Len(tasks_queue)
           d == Len(drained["int"])
           e == Len(drained["term"])
<1>1. /\ TypeInv /\ Owned
      /\ n \in Nat /\ d \in Nat /\ e \in Nat
  BY DEF OInv, TypeInv, TypeOK, Frames
<1>2. /\ \A k, i : Holds(k, i, task) => crc[task] \in proc_uids
      /\ \A k, i, m, j : Holds(k, i, task) /\ Holds(m, j, task) => k = m /\ i = j
  BY <1>1 DEF Owned
<1>3. \A i \in W : /\ i \in Nat
                   /\ \/ Holds("queue", i, task)
                      \/ Holds("int", i - n, task)
                      \/ Holds("term", i - n - d, task)
                      \/ Holds("back", i - n - d - e, task)
  BY <1>1, WaitingPlaces
<1>4. \A w \in H : Holds("worker", w, task)
  BY DEF Holds
<1>5. \A i \in A : Holds("results", i, task) \/ (Holds("data", 1, task) /\ i = Len(results_queue) + 1)
  BY <1>1, AnsweredPlaces
<1>6. Places(task) = Cardinality(W) + Cardinality(H) + Cardinality(A)
  BY DEF Places
<1> HIDE DEF W, H, A, n, d, e
<1>7. \A i, j \in W : i = j
  <2> SUFFICES ASSUME NEW i \in W, NEW j \in W PROVE i = j
    OBVIOUS
  <2>1. /\ i \in Nat /\ j \in Nat
        /\ \/ Holds("queue", i, task) /\ Holds("queue", j, task)
           \/ Holds("int", i - n, task) /\ Holds("int", j - n, task)
           \/ Holds("term", i - n - d, task) /\ Holds("term", j - n - d, task)
           \/ Holds("back", i - n - d - e, task) /\ Holds("back", j - n - d - e, task)
    BY <1>2, <1>3
  <2>2. \/ i = j
        \/ i - n = j - n
        \/ i - n - d = j - n - d
        \/ i - n - d - e = j - n - d - e
    BY <1>2, <2>1
  <2> QED
    BY <1>1, <2>1, <2>2
<1>8. \A v, w \in H : v = w
  BY <1>2, <1>4
<1>9. \A i, j \in A : i = j
  BY <1>2, <1>5
<1>10. /\ W # {} => H = {} /\ A = {}
       /\ H # {} => A = {}
  BY <1>2, <1>3, <1>4, <1>5
<1>11. W # {} \/ H # {} \/ A # {} => crc[task] \in proc_uids
  BY <1>2, <1>3, <1>4, <1>5
<1>12. /\ (Cardinality(W) = 0 /\ W = {}) \/ (Cardinality(W) = 1 /\ W # {})
       /\ (Cardinality(H) = 0 /\ H = {}) \/ (Cardinality(H) = 1 /\ H # {})
       /\ (Cardinality(A) = 0 /\ A = {}) \/ (Cardinality(A) = 1 /\ A # {})
  BY <1>7, <1>8, <1>9, AtMostOne
<1> QED
  BY <1>6, <1>10, <1>11, <1>12

(* However threads, retries, signals, reloads and crashes interleave, a       *)
(* video is in one place at a time and its uid is then in process: no two     *)
(* workers ever fetch the same page, and the commit that ends its crawl finds *)
(* the uid it takes out of the store.                                         *)
THEOREM OneOwnerHolds == Spec => []OneOwner
<1> QED
  BY InitOwned, NextOwned, OwnedOneOwner, PTL DEF Spec
=============================================================================
