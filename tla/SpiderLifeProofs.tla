-------------------------- MODULE SpiderLifeProofs --------------------------
(***************************************************************************)
(* The life and the end of the spider, for every crawl, pool and budget.   *)
(*                                                                         *)
(* The pool: every thread that lives is in it and there are not too many;  *)
(* a handler that waits has left a pill for each of them; a stop leaves no *)
(* worker, no pill in the file and no uid on disk without its page.  What  *)
(* is not true of signals at any point is proved from a hypothesis about   *)
(* the points they arrive at.                                              *)
(*                                                                         *)
(* Nothing is forgotten but what a SIGTERM leaves in the queue.  A video   *)
(* whose uid the store holds in process is somewhere: in the queue, with a *)
(* worker, among the results or in what the handler took out of the queue. *)
(* Behind says what can get into the queue when the handler has written    *)
(* its file, LastWord that all results are handled before run() ends, and  *)
(* Stop that no worker has a task then.                                    *)
(*                                                                         *)
(* The spider implements Crawl: every step of a thread, a handler or the   *)
(* process moves one video on in its life, flushes, forgets, or is none of *)
(* Crawl's business.  The step is read off the sets of videos that wait,   *)
(* are fetched and are answered: Owned says that they share no uid, so     *)
(* that a video that is in one of them after the step has left the one it  *)
(* was in before.                                                          *)
(***************************************************************************)
EXTENDS SpiderProofs

-----------------------------------------------------------------------------
(* The pool.  No signal arrives inside the loops of putWorkersInOrder,     *)
(* which would go on spawning what they had counted before it.             *)

SignalsOutsideLoops == \A p \in SignalPoints : p[2] \notin OrderLabels

\* No frame is on the stack twice, and none of those that wait is in a loop.
Chain ==
  /\ \A i, j \in 1 .. Len(stack) : stack[i] = stack[j] => i = j
  /\ \A i \in 2 .. Len(stack) : pc[stack[i]] \notin OrderLabels

\* What a loop still has to spawn is what the pool has too few.
ToSpawn ==
  stack # <<>> /\ pc[Head(stack)] \in OrderLabels /\ excess[Head(stack)] < 0
    => Cardinality(workers) = workers_cnt + excess[Head(stack)]

\* run() is the frame below all others, and only handleSIGINT restarts the pool.
Bottom == /\ stack # <<>> => stack[Len(stack)] = "run"
          /\ pc["run"] # "restart"

Pool ==
  /\ Chain /\ Bottom /\ ToSpawn
  /\ \A w \in Workers : Alive(w) => w \in workers
  /\ Cardinality(workers) <= WorkersCnt
  /\ workers_cnt <= WorkersCnt /\ kept_cnt <= WorkersCnt
  /\ stack = <<>> => workers = {}

LEMMA StackPushed ==
  ASSUME NEW s \in Seq(Frames), NEW f \in Frames
  PROVE  /\ <<f>> \o s # <<>> /\ Head(<<f>> \o s) = f
         /\ Len(<<f>> \o s) = Len(s) + 1 /\ Len(s) \in Nat
         /\ (<<f>> \o s)[1] = f
         /\ \A i \in 2 .. Len(s) + 1 : (<<f>> \o s)[i] = s[i - 1]
<1>1. /\ <<f>> \o s \in Seq(Frames) /\ Len(<<f>> \o s) = Len(s) + 1
      /\ DOMAIN (<<f>> \o s) = 1 .. Len(s) + 1 /\ DOMAIN s = 1 .. Len(s) /\ Len(s) \in Nat
  OBVIOUS
<1>2. (<<f>> \o s)[1] = f
  OBVIOUS
<1>3. ASSUME NEW i \in 2 .. Len(s) + 1 PROVE (<<f>> \o s)[i] = s[i - 1]
  BY <1>1, <1>3
<1>4. <<f>> \o s # <<>>
  BY <1>1
<1>5. Head(<<f>> \o s) = (<<f>> \o s)[1]
  OBVIOUS
<1> QED
  BY <1>1, <1>2, <1>3, <1>4, <1>5

LEMMA StackPopped ==
  ASSUME NEW s \in Seq(Frames), s # <<>>
  PROVE  /\ Tail(s) \in Seq(Frames) /\ Len(Tail(s)) = Len(s) - 1 /\ Len(s) \in Nat \ {0}
         /\ Head(s) = s[1] /\ s[1] \in Frames
         /\ \A i \in 1 .. Len(s) - 1 : Tail(s)[i] = s[i + 1]
         /\ Tail(s) # <<>> => Head(Tail(s)) = s[2] /\ Len(s) >= 2
  OBVIOUS

\* A step of the running frame, or of a worker, that is not about the pool.
LEMMA StayPool ==
  ASSUME TypeInv, Pool,
         UNCHANGED <<workers, workers_cnt, kept_cnt, stack, excess>>,
         \A w \in Workers : wpc'[w] # "none" => wpc[w] # "none",
         \/ UNCHANGED pc
         \/ stack # <<>> /\ \E l \in Labels \ OrderLabels : pc' = [pc EXCEPT ![Head(stack)] = l]
  PROVE  Pool'
<1>1. stack \in Seq(Frames) /\ pc \in [Frames -> Labels] /\ pc' \in [Frames -> Labels]
  <2>1. stack \in Seq(Frames) /\ pc \in [Frames -> Labels]
    BY DEF TypeInv, TypeOK
  <2> QED
    BY <2>1
<1>2. CASE UNCHANGED pc
  BY <1>2 DEF Pool, Chain, Bottom, ToSpawn, Alive
<1>3. ASSUME stack # <<>>, NEW l \in Labels \ OrderLabels, pc' = [pc EXCEPT ![Head(stack)] = l]
      PROVE  Pool'
  <2>1. Head(stack) = stack[1] /\ Head(stack) \in Frames /\ Len(stack) \in Nat \ {0}
    BY <1>1, <1>3
  <2>2. pc'[Head(stack)] = l
    BY <1>1, <1>3, <2>1
  <2>3. \A i \in 2 .. Len(stack) : stack[i] # stack[1]
    BY <2>1 DEF Pool, Chain
  <2>4. \A i \in 2 .. Len(stack) : pc'[stack[i]] = pc[stack[i]]
    BY <1>1, <1>3, <2>1, <2>3
  <2>5. Chain'
    BY <1>3, <2>4 DEF Pool, Chain
  <2>6. ToSpawn'
    BY <1>3, <2>2 DEF ToSpawn
  <2>7. Bottom'
    BY <1>1, <1>3 DEF Pool, Bottom, OrderLabels, Frames
  <2> QED
    BY <2>5, <2>6, <2>7 DEF Pool, Alive
<1> QED
  BY <1>2, <1>3

\* The counting part of putWorkersInOrder, in the running frame.
LEMMA CountedPool ==
  ASSUME TypeInv, Pool, stack # <<>>, NEW cnt \in Nat, cnt <= WorkersCnt, workers_cnt' = cnt,
         NEW label \in OrderLabels, PutInOrder(Head(stack), cnt, label),
         label = "restart" => Head(stack) # "run",
         UNCHANGED <<stack, wpc, kept_cnt>>
  PROVE  Pool'
<1> DEFINE f == Head(stack)
<1>1. /\ stack \in Seq(Frames) /\ pc \in [Frames -> Labels] /\ excess \in [Frames -> Int]
      /\ f = stack[1] /\ f \in Frames /\ Len(stack) \in Nat \ {0}
  BY DEF TypeInv, TypeOK
<1>2. /\ workers' = {w \in workers : Alive(w)}
      /\ excess' = [excess EXCEPT ![f] = Cardinality(workers') - cnt]
      /\ pc' = [pc EXCEPT ![f] = label]
  BY DEF PutInOrder, Goto
<1> HIDE DEF f
<1>3. /\ workers \subseteq Workers /\ workers' \subseteq workers
      /\ IsFiniteSet(workers)
      /\ Cardinality(workers) \in Nat /\ Cardinality(workers') \in Nat
      /\ Cardinality(workers') <= Cardinality(workers)
  <2>1. workers \subseteq Workers /\ workers' \subseteq workers
    BY <1>2 DEF TypeInv, TypeOK
  <2>2. IsFiniteSet(workers)
    BY <2>1, ConstantFacts, FS_Subset
  <2> QED
    BY <2>1, <2>2, FS_Subset, FS_CardinalityType
<1>4. excess'[f] = Cardinality(workers') - cnt
  BY <1>1, <1>2
<1>5. WorkersCnt \in Nat
  BY ConfigAssumption
<1>6. Chain'
  <2>1. \A i \in 2 .. Len(stack) : stack[i] # f
    BY <1>1 DEF Pool, Chain
  <2>2. \A i \in 2 .. Len(stack) : pc'[stack[i]] = pc[stack[i]]
    BY <1>1, <1>2, <2>1
  <2> QED
    BY <2>2 DEF Pool, Chain
<1>7. ToSpawn'
  <2>1. Cardinality(workers') = cnt + excess'[f]
    BY <1>3, <1>4
  <2> QED
    BY <2>1 DEF ToSpawn, f
<1>8. \A w \in Workers : Alive(w)' => w \in workers'
  BY <1>2 DEF Pool, Alive
<1>9. Bottom'
  <2>1. label = "restart" => f # "run"
    BY DEF f
  <2> QED
    BY <1>1, <1>2, <2>1 DEF Pool, Bottom, Frames
<1> QED
  BY <1>1, <1>3, <1>5, <1>6, <1>7, <1>8, <1>9 DEF Pool

\* No frame runs when the process has ended.
LEMMA DownPool ==
  ASSUME Down
  PROVE  Pool'
<1>1. /\ stack' = <<>> /\ workers' = {} /\ workers_cnt' = 0 /\ kept_cnt' = 0
      /\ wpc' = [w \in Workers |-> "none"]
      /\ pc' = [f \in Frames |-> "exited"]
  BY DEF Down
<1>2. WorkersCnt \in Nat /\ Cardinality(workers') = 0
  BY <1>1, ConfigAssumption, FS_EmptySet
<1>3. Len(stack') = 0
  BY <1>1
<1>4. Chain'
  BY <1>3 DEF Chain
<1>5. ToSpawn' /\ Bottom'
  BY <1>1 DEF ToSpawn, Bottom, Frames
<1> QED
  BY <1>1, <1>2, <1>4, <1>5 DEF Pool, Alive

LEMMA InitPool == Init => Pool
<1> SUFFICES ASSUME Init PROVE Pool
  OBVIOUS
<1>1. /\ stack = <<>> /\ workers = {} /\ workers_cnt = 0 /\ kept_cnt = 0
      /\ wpc = [w \in Workers |-> "none"]
      /\ pc = [f \in Frames |-> "exited"]
  BY DEF Init
<1>2. WorkersCnt \in Nat /\ Cardinality(workers) = 0
  BY <1>1, ConfigAssumption, FS_EmptySet
<1>3. Len(stack) = 0
  BY <1>1
<1>4. Chain
  BY <1>3 DEF Chain
<1>5. ToSpawn /\ Bottom
  BY <1>1 DEF ToSpawn, Bottom, Frames
<1> QED
  BY <1>1, <1>2, <1>4, <1>5 DEF Pool, Alive

LEMMA StartPool ==
  ASSUME TypeInv, Pool, Start
  PROVE  Pool'
<1>1. PICK pool \in kSubset(WorkersCnt, Workers) :
         /\ workers' = pool
         /\ wpc' = [w \in Workers |-> IF w \in pool THEN "get" ELSE "none"]
  BY DEF Start
<1>2. Cardinality(pool) = WorkersCnt /\ WorkersCnt \in Nat
  BY ConfigAssumption DEF kSubset
<1>3. /\ workers_cnt' = WorkersCnt /\ stack' = <<"run">> /\ UNCHANGED kept_cnt
      /\ pc' = [pc EXCEPT !["run"] = "load"]
  BY DEF Start, Goto
<1>4. pc'["run"] = "load" /\ Len(stack') = 1 /\ Head(stack') = "run" /\ stack'[1] = "run"
  BY <1>3 DEF TypeInv, TypeOK, Frames
<1>5. Chain'
  BY <1>4 DEF Chain
<1>6. ToSpawn' /\ Bottom'
  BY <1>4 DEF ToSpawn, Bottom, OrderLabels
<1> QED
  BY <1>1, <1>2, <1>3, <1>5, <1>6 DEF Pool, Alive

LEMMA PillPool ==
  ASSUME TypeInv, Pool, NEW f \in Frames, Pill(f)
  PROVE  Pool'
<1>1. /\ excess[f] > 0 /\ excess' = [excess EXCEPT ![f] = @ - 1]
      /\ UNCHANGED <<wpc, workers, workers_cnt, kept_cnt, stack, pc>> /\ Head(stack) = f
  BY DEF Pill, InOrder, Running, threadVars, poolVars
<1>2. excess \in [Frames -> Int]
  BY DEF TypeInv, TypeOK
<1>3. excess'[f] >= 0
  BY <1>1, <1>2
<1>4. ToSpawn'
  BY <1>1, <1>2, <1>3 DEF ToSpawn
<1> QED
  BY <1>1, <1>4 DEF Pool, Chain, Bottom, Alive

LEMMA SpawnPool ==
  ASSUME TypeInv, Pool, NEW f \in Frames, Spawn(f)
  PROVE  Pool'
<1>1. /\ excess[f] < 0 /\ excess' = [excess EXCEPT ![f] = @ + 1]
      /\ UNCHANGED <<workers_cnt, kept_cnt, stack, pc>>
      /\ Head(stack) = f /\ pc[f] \in OrderLabels /\ stack # <<>>
  BY DEF Spawn, InOrder, Running
<1>2. PICK w \in Workers \ workers : /\ workers' = workers \cup {w}
                                     /\ wpc' = [wpc EXCEPT ![w] = "get"]
  BY DEF Spawn
<1>3. /\ excess \in [Frames -> Int] /\ workers \subseteq Workers /\ workers_cnt \in Nat
      /\ wpc \in [Workers -> {"none", "get", "proxy", "fetch", "save"}]
  BY DEF TypeInv, TypeOK
<1>4. IsFiniteSet(workers) /\ Cardinality(workers) \in Nat
  BY <1>3, ConstantFacts, FS_Subset
<1>5. Cardinality(workers') = Cardinality(workers) + 1
  BY <1>2, <1>4, FS_AddElement
<1>6. Cardinality(workers) = workers_cnt + excess[f]
  BY <1>1 DEF Pool, ToSpawn
<1>7. excess'[f] = excess[f] + 1
  BY <1>1, <1>3
<1>8. workers_cnt <= WorkersCnt /\ WorkersCnt \in Nat
  BY ConfigAssumption DEF Pool
<1>9. Cardinality(workers') = workers_cnt + excess'[f] /\ Cardinality(workers') <= WorkersCnt
  BY <1>1, <1>3, <1>4, <1>5, <1>6, <1>7, <1>8
<1>10. ToSpawn'
  BY <1>1, <1>9 DEF ToSpawn
<1>11. \A v \in Workers : Alive(v)' => v \in workers'
  BY <1>2, <1>3 DEF Pool, Alive
<1>12. Chain' /\ Bottom'
  BY <1>1 DEF Pool, Chain, Bottom
<1> QED
  BY <1>1, <1>8, <1>9, <1>10, <1>11, <1>12 DEF Pool

\* A handler returns.
LEMMA PopPool ==
  ASSUME TypeInv, Pool, stack # <<>>, Head(stack) # "run", stack' = Tail(stack),
         pc' = [pc EXCEPT ![Head(stack)] = "exited"],
         UNCHANGED <<workers, workers_cnt, kept_cnt, excess, wpc>>
  PROVE  Pool'
<1>1. stack \in Seq(Frames) /\ pc \in [Frames -> Labels]
  BY DEF TypeInv, TypeOK
<1>8. /\ Len(stack') = Len(stack) - 1 /\ Len(stack) \in Nat \ {0} /\ stack' \in Seq(Frames)
      /\ Head(stack) = stack[1] /\ stack' # <<>> => Head(stack') = stack[2]
      /\ \A i \in 1 .. Len(stack) - 1 : stack'[i] = stack[i + 1]
  BY <1>1, StackPopped
<1>9. Len(stack) # 1 /\ stack[Len(stack)] = "run"
  BY <1>8 DEF Pool, Bottom
<1>10. Len(stack') # 0
  BY <1>8, <1>9
<1>2. /\ Len(stack') = Len(stack) - 1 /\ Len(stack) \in Nat \ {0} /\ Len(stack) >= 2
      /\ Head(stack) = stack[1] /\ Head(stack') = stack[2]
      /\ \A i \in 1 .. Len(stack) - 1 : stack'[i] = stack[i + 1]
  BY <1>8, <1>9, <1>10
<1>3. \A i \in 2 .. Len(stack) : stack[i] # stack[1]
  BY <1>2 DEF Pool, Chain
<1>4. \A i \in 2 .. Len(stack) : stack[i] \in Frames
  BY <1>1, <1>2
<1>5. \A i \in 2 .. Len(stack) : pc'[stack[i]] = pc[stack[i]] /\ pc[stack[i]] \notin OrderLabels
  BY <1>1, <1>2, <1>3, <1>4 DEF Pool, Chain
<1>6. Chain'
  <2>1. ASSUME NEW i \in 1 .. Len(stack'), NEW j \in 1 .. Len(stack'), stack'[i] = stack'[j]
        PROVE  i = j
    <3>1. i + 1 \in 1 .. Len(stack) /\ j + 1 \in 1 .. Len(stack) /\ stack[i + 1] = stack[j + 1]
      BY <1>2, <2>1
    <3>2. i + 1 = j + 1
      BY <3>1 DEF Pool, Chain
    <3> QED
      BY <2>1, <3>2
  <2>2. ASSUME NEW i \in 2 .. Len(stack') PROVE pc'[stack'[i]] \notin OrderLabels
    <3>1. i + 1 \in 2 .. Len(stack) /\ stack'[i] = stack[i + 1]
      BY <1>2, <2>2
    <3> QED
      BY <1>5, <3>1
  <2> QED
    BY <2>1, <2>2 DEF Chain
<1>7. ToSpawn'
  <2>1. pc'[Head(stack')] \notin OrderLabels
    BY <1>2, <1>5
  <2> QED
    BY <2>1 DEF ToSpawn
<1>11. Bottom'
  <2>1. stack'[Len(stack')] = "run"
    <3>1. Len(stack') \in 1 .. Len(stack) - 1 /\ Len(stack') + 1 = Len(stack)
      BY <1>2
    <3> QED
      BY <1>2, <1>9, <3>1
  <2> QED
    BY <1>1, <2>1 DEF Pool, Bottom, Frames
<1> QED
  BY <1>6, <1>7, <1>10, <1>11 DEF Pool, Alive

LEMMA InterruptPool ==
  ASSUME SignalsOutsideLoops, TypeInv, Pool, NEW f \in {"int", "term"}, Interrupt(f),
         UNCHANGED <<workers, workers_cnt, excess, wpc>>, kept_cnt' \in {kept_cnt, workers_cnt}
  PROVE  Pool'
<1>1. /\ stack # <<>> /\ f \notin Range(stack) /\ stack' = <<f>> \o stack
      /\ pc[Head(stack)] \notin OrderLabels
      /\ pc' = [pc EXCEPT ![f] = "empty"]
  <2>1. <<Head(stack), pc[Head(stack)]>>[2] \notin OrderLabels
    BY DEF Interrupt, SignalsOutsideLoops
  <2> QED
    BY <2>1 DEF Interrupt, Goto
<1>2. stack \in Seq(Frames) /\ pc \in [Frames -> Labels] /\ f \in Frames
  BY DEF TypeInv, TypeOK, Frames
<1>3. /\ stack' # <<>> /\ Head(stack') = f
      /\ Len(stack') = Len(stack) + 1 /\ Len(stack) \in Nat /\ stack'[1] = f
      /\ \A i \in 2 .. Len(stack) + 1 : stack'[i] = stack[i - 1]
  BY <1>1, <1>2, StackPushed
<1>4. \A i \in 1 .. Len(stack) : stack[i] # f /\ stack[i] \in Frames
  BY <1>1, <1>2 DEF Range
<1>5. \A i \in 1 .. Len(stack) : pc'[stack[i]] = pc[stack[i]] /\ pc[stack[i]] \notin OrderLabels
  <2>1. Head(stack) = stack[1]
    BY <1>1, <1>2
  <2> QED
    BY <1>1, <1>2, <1>3, <1>4, <2>1 DEF Pool, Chain
<1>6. Chain'
  <2>1. ASSUME NEW i \in 1 .. Len(stack'), NEW j \in 1 .. Len(stack'), stack'[i] = stack'[j]
        PROVE  i = j
    <3>1. CASE i = 1 \/ j = 1
      <4>1. \A k \in 2 .. Len(stack) + 1 : stack'[k] # f
        BY <1>3, <1>4
      <4> QED
        BY <1>3, <2>1, <3>1, <4>1
    <3>2. CASE i # 1 /\ j # 1
      <4>1. /\ i - 1 \in 1 .. Len(stack) /\ j - 1 \in 1 .. Len(stack)
            /\ stack[i - 1] = stack[j - 1]
        BY <1>3, <2>1, <3>2
      <4>2. i - 1 = j - 1
        BY <4>1 DEF Pool, Chain
      <4> QED
        BY <1>3, <2>1, <4>2
    <3> QED
      BY <3>1, <3>2
  <2>2. ASSUME NEW i \in 2 .. Len(stack') PROVE pc'[stack'[i]] \notin OrderLabels
    <3>1. i - 1 \in 1 .. Len(stack) /\ stack'[i] = stack[i - 1]
      BY <1>3, <2>2
    <3> QED
      BY <1>5, <3>1
  <2> QED
    BY <2>1, <2>2 DEF Chain
<1>7. ToSpawn'
  <2>1. pc'[f] = "empty"
    BY <1>1, <1>2
  <2> QED
    BY <1>3, <2>1 DEF ToSpawn, OrderLabels
<1>8. Bottom'
  <2>1. Len(stack) # 0
    BY <1>1, <1>2
  <2>2. stack'[Len(stack')] = stack[Len(stack)]
    <3>1. Len(stack') \in 2 .. Len(stack) + 1 /\ Len(stack') - 1 = Len(stack)
      BY <1>3, <2>1
    <3> QED
      BY <1>3, <3>1
  <2> QED
    BY <1>1, <1>2, <2>2 DEF Pool, Bottom
<1> QED
  BY <1>3, <1>6, <1>7, <1>8 DEF Pool, Alive

LEMMA MainPool ==
  ASSUME TypeInv, Pool, Main
  PROVE  Pool'
<1>1. /\ pc \in [Frames -> Labels] /\ stack \in Seq(Frames)
      /\ workers_cnt \in Nat /\ kept_cnt \in Nat /\ workers_cnt <= WorkersCnt
      /\ kept_cnt <= WorkersCnt /\ WorkersCnt \in Nat
  BY ConfigAssumption DEF TypeInv, TypeOK, Pool
<1>2. {"load", "get", "commit", "flush", "put", "saving", "check", "exited", "empty", "drain", "join"}
        \subseteq Labels \ OrderLabels
  BY DEF Labels, OrderLabels
<1>3. CASE LoadProxies \/ GetResult \/ Commit \/ CommitFlush \/ SetTasksDone \/ Saving
  <2>1. /\ UNCHANGED <<workers, workers_cnt, kept_cnt, stack, excess, wpc>>
        /\ stack # <<>> /\ Head(stack) = "run"
        /\ \E l \in Labels \ OrderLabels : pc' = [pc EXCEPT !["run"] = l]
    BY <1>2, <1>3 DEF LoadProxies, GetResult, Commit, CommitFlush, SetTasksDone, Saving,
                      At, Running, Goto, poolVars, threadVars
  <2> QED
    BY <2>1, StayPool
<1>4. CASE CheckWorkers
  <2>1. /\ UNCHANGED <<workers_cnt, kept_cnt, stack, wpc>> /\ stack # <<>> /\ Head(stack) = "run"
    BY <1>4 DEF CheckWorkers, At, Running, threadVars
  <2>2. CASE PutInOrder("run", workers_cnt, "order")
    BY <1>1, <2>1, <2>2, CountedPool DEF OrderLabels
  <2>3. CASE Goto("run", IF data = Finish THEN "exited" ELSE "get") /\ UNCHANGED <<workers, excess>>
    <3>1. \E l \in Labels \ OrderLabels : pc' = [pc EXCEPT !["run"] = l]
      BY <1>2, <2>3 DEF Goto
    <3> QED
      BY <2>1, <2>3, <3>1, StayPool
  <2> QED
    BY <1>4, <2>2, <2>3 DEF CheckWorkers
<1>5. ASSUME NEW f \in Frames, SetTask(f) PROVE Pool'
  BY <1>5, StayPool DEF SetTask, poolVars, threadVars
<1>6. ASSUME NEW f \in Frames, InOrderDone(f) PROVE Pool'
  <2>1. UNCHANGED <<workers, workers_cnt, kept_cnt, excess, wpc>> /\ stack # <<>> /\ Head(stack) = f
    BY <1>6 DEF InOrderDone, InOrder, Running, poolVars, threadVars
  <2>2. CASE UNCHANGED stack /\ pc[f] # "restart"
    <3>1. \E l \in Labels \ OrderLabels : pc' = [pc EXCEPT ![f] = l]
      BY <1>2, <1>6, <2>2 DEF InOrderDone, Goto
    <3> QED
      BY <2>1, <2>2, <3>1, StayPool
  <2>3. CASE pc[f] = "restart" /\ stack' = Tail(stack)
    <3>1. pc' = [pc EXCEPT ![f] = "exited"] /\ f # "run"
      BY <1>6, <2>3 DEF InOrderDone, Goto, Pool, Bottom
    <3> QED
      BY <2>1, <2>3, <3>1, PopPool
  <2> QED
    BY <1>6, <2>2, <2>3 DEF InOrderDone
<1>7. ASSUME NEW f \in {"int", "term"}, NotEmpty(f) \/ Drain(f) PROVE Pool'
  <2>1. /\ UNCHANGED <<workers, workers_cnt, kept_cnt, stack, excess, wpc>>
        /\ stack # <<>> /\ Head(stack) = f
        /\ \E l \in Labels \ OrderLabels : pc' = [pc EXCEPT ![f] = l]
    BY <1>2, <1>7 DEF NotEmpty, Drain, At, Running, Goto, poolVars, threadVars
  <2> QED
    BY <2>1, StayPool
<1>8. ASSUME NEW f \in {"int", "term"}, Kill(f) PROVE Pool'
  <2>1. /\ UNCHANGED <<kept_cnt, stack, wpc>> /\ stack # <<>> /\ Head(stack) = f
        /\ workers_cnt' = 0 /\ PutInOrder(f, 0, "kill")
    BY <1>8 DEF Kill, At, Running, threadVars
  <2> QED
    BY <1>1, <2>1, CountedPool DEF OrderLabels
<1>9. CASE TermReturn
  <2>1. /\ UNCHANGED <<workers, workers_cnt, kept_cnt, excess, wpc>> /\ stack # <<>>
        /\ Head(stack) = "term" /\ stack' = Tail(stack) /\ pc' = [pc EXCEPT !["term"] = "exited"]
    BY <1>9 DEF TermReturn, Joined, At, Running, Goto, poolVars, threadVars
  <2> QED
    BY <2>1, PopPool
<1>10. CASE Reload
  <2>1. /\ UNCHANGED <<workers, workers_cnt, kept_cnt, stack, excess, wpc>>
        /\ stack # <<>> /\ Head(stack) = "int"
        /\ \E l \in Labels \ OrderLabels : pc' = [pc EXCEPT !["int"] = l]
    BY <1>2, <1>10 DEF Reload, Joined, At, Running, Goto, poolVars, threadVars
  <2> QED
    BY <2>1, StayPool
<1>11. CASE Restart
  <2>1. /\ UNCHANGED <<kept_cnt, stack, wpc>> /\ stack # <<>> /\ Head(stack) = "int"
        /\ workers_cnt' = kept_cnt /\ PutInOrder("int", kept_cnt, "restart")
    BY <1>11 DEF Restart, At, Running, threadVars
  <2> QED
    BY <1>1, <2>1, CountedPool DEF OrderLabels
<1> QED
  BY <1>3, <1>4, <1>5, <1>6, <1>7, <1>8, <1>9, <1>10, <1>11, StartPool, PillPool, SpawnPool, DownPool
     DEF Main, Exit

LEMMA NextPool == SignalsOutsideLoops /\ TypeInv /\ Pool /\ [Next]_vars => TypeInv' /\ Pool'
<1> SUFFICES ASSUME SignalsOutsideLoops, TypeInv, Pool, [Next]_vars PROVE Pool'
  BY NextTypeInv
<1>1. CASE UNCHANGED vars
  BY <1>1, StayPool DEF vars, poolVars, threadVars, frameVars
<1>2. ASSUME NEW w \in Workers, Worker(w) \/ SaveFails(w) PROVE Pool'
  <2>1. wpc \in [Workers -> {"none", "get", "proxy", "fetch", "save"}]
    BY DEF TypeInv, TypeOK
  <2>2. /\ UNCHANGED <<workers, workers_cnt, kept_cnt, stack, excess, pc>>
        /\ wpc[w] # "none" /\ \E l : wpc' = [wpc EXCEPT ![w] = l]
    BY <1>2 DEF Worker, Fetch, Take, NextProxy, FetchOk, FetchBad, FetchFail, Save, SaveFails,
                poolVars, frameVars
  <2>3. \A v \in Workers : wpc'[v] # "none" => wpc[v] # "none"
    BY <2>1, <2>2
  <2> QED
    BY <2>2, <2>3, StayPool
<1>3. CASE SIGINT
  <2>1. UNCHANGED <<workers, workers_cnt, excess, wpc>> /\ kept_cnt' = workers_cnt /\ Interrupt("int")
    BY <1>3 DEF SIGINT, poolVars, threadVars
  <2> QED
    BY <2>1, InterruptPool
<1>4. CASE SIGTERM
  <2>1. UNCHANGED <<workers, workers_cnt, excess, wpc, kept_cnt>> /\ Interrupt("term")
    BY <1>4 DEF SIGTERM, poolVars, threadVars
  <2> QED
    BY <2>1, InterruptPool
<1>5. CASE Crash
  BY <1>5, DownPool DEF Crash
<1> QED
  BY <1>1, <1>2, <1>3, <1>4, <1>5, MainPool DEF Next

(* Every thread that lives is in the pool, where a handler's join can see it, *)
(* and there are never more than the configuration asks for, nested handlers  *)
(* and dying workers included, if no signal arrives inside the loops that     *)
(* spawn the pool.                                                            *)
THEOREM PoolStaysSound == SignalsOutsideLoops => (Spec => []PoolSound)
<1> SUFFICES ASSUME SignalsOutsideLoops PROVE Spec => []PoolSound
  OBVIOUS
<1>1. TypeInv /\ Pool => PoolSound
  BY DEF Pool, PoolSound
<1>2. TypeInv /\ Pool /\ [Next]_vars => TypeInv' /\ Pool'
  BY NextPool
<1> QED
  BY <1>1, <1>2, InitTypeInv, InitPool, PTL DEF Spec

-----------------------------------------------------------------------------
(* The stop.  Signals arrive in run() only, at the points where it waits   *)
(* for a result or is between two steps of handling one: a SIGTERM inside  *)
(* handleSIGINT is undone by the rest of it.                               *)

QuietLabels == {"get", "commit", "flush", "put", "check"}
QuietSignals == \A p \in SignalPoints : p[1] = "run" /\ p[2] \in QuietLabels

RunLabels == QuietLabels \cup {"load", "saving", "order", "exited"}
HandlerLabels == {"empty", "drain", "kill", "join", "put", "restart"}

Shape ==
  /\ pc["run"] \in RunLabels
  /\ \/ stack = <<>>
     \/ stack = <<"run">>
     \/ /\ \E f \in {"int", "term"} : stack = <<f, "run">> /\ pc[f] \in HandlerLabels
        /\ pc["run"] \in QuietLabels

\* The string 'finish' is in results_queue or has been taken out of it.
Ended == \/ Finish \in Range(results_queue)
         \/ stack # <<>> /\ pc["run"] \in {"saving", "check", "order", "exited"} /\ data = Finish

NoneAlive == \A w \in Workers : ~Alive(w)

Stop ==
  /\ Shape
  /\ \A f \in {"int", "term"} : Running(f) /\ pc[f] \in {"kill", "join", "put"} => workers_cnt = 0
  /\ stack # <<>> /\ pc["run"] = "exited" => data = Finish
  /\ pc["run"] \in {"commit", "flush", "put"} => data # Finish
  /\ stack = <<>> => results_queue = <<>>
  /\ Ended => workers_cnt = 0 /\ NoneAlive /\ (Running("int") => kept_cnt = 0)

LEMMA ShapeFacts ==
  ASSUME Shape
  PROVE  /\ \A f : Running(f) => f \in Frames /\ stack # <<>>
         /\ Running("run") => stack = <<"run">>
         /\ \A f \in {"int", "term"} : Running(f) => stack = <<f, "run">> /\ Tail(stack) = <<"run">>
                                                     /\ pc["run"] \in QuietLabels /\ pc[f] \in HandlerLabels
         /\ stack # <<>> => Running("run") \/ Running("int") \/ Running("term")
<1>1. CASE stack = <<>>
  BY <1>1 DEF Running
<1>2. CASE stack = <<"run">>
  <2>1. Head(stack) = "run" /\ stack # <<>> /\ Tail(stack) = <<>>
    BY <1>2
  <2> QED
    BY <1>2, <2>1 DEF Running, Frames
<1>3. ASSUME NEW f \in {"int", "term"}, stack = <<f, "run">>, pc[f] \in HandlerLabels,
             pc["run"] \in QuietLabels
      PROVE  /\ \A g : Running(g) => g = f
             /\ Running(f) /\ stack # <<>> /\ Tail(stack) = <<"run">> /\ f # "run"
  <2>1. Head(stack) = f /\ stack # <<>> /\ Tail(stack) = <<"run">>
    BY <1>3
  <2> QED
    BY <1>3, <2>1 DEF Running
<1> QED
  BY <1>1, <1>2, <1>3 DEF Shape, Frames

\* A step of run() that leaves the pool alone.
LEMMA RunStop ==
  ASSUME TypeInv, Stop, Running("run"), UNCHANGED <<stack, workers_cnt, wpc>>,
         NEW l \in RunLabels, pc' = [pc EXCEPT !["run"] = l],
         l = "exited" => data' = Finish,
         l \in {"commit", "flush", "put"} => data' # Finish,
         Ended' => Ended
  PROVE  Stop'
<1>1. stack = <<"run">> /\ Shape /\ pc \in [Frames -> Labels] /\ stack # <<>>
  BY ShapeFacts DEF Stop, TypeInv, TypeOK
<1>2. pc'["run"] = l /\ "run" \in Frames
  BY <1>1 DEF Frames
<1>3. Shape'
  BY <1>1, <1>2 DEF Shape
<1>4. \A f : Running(f)' => f = "run"
  BY <1>1 DEF Running
<1>5. Ended' => workers_cnt' = 0 /\ NoneAlive'
  BY DEF Stop, NoneAlive, Alive
<1> QED
  BY <1>1, <1>2, <1>3, <1>4, <1>5 DEF Stop

\* A step of a handler.
LEMMA HandlerStop ==
  ASSUME TypeInv, Stop, NEW f \in {"int", "term"}, Running(f),
         UNCHANGED <<stack, wpc, kept_cnt, data, results_queue>>,
         NEW l \in HandlerLabels, pc' = [pc EXCEPT ![f] = l],
         l \in {"kill", "join", "put"} => workers_cnt' = 0,
         Ended => workers_cnt' = 0
  PROVE  Stop'
<1>1. /\ stack = <<f, "run">> /\ Shape /\ pc \in [Frames -> Labels] /\ stack # <<>>
      /\ pc["run"] \in QuietLabels
  BY ShapeFacts DEF Stop, TypeInv, TypeOK, Running
<1>2. pc'[f] = l /\ pc'["run"] = pc["run"]
  BY <1>1 DEF Frames
<1>3. Shape'
  BY <1>1, <1>2 DEF Shape
<1>4. \A g : Running(g)' => g = f
  BY <1>1 DEF Running
<1>5. Ended' => Ended
  BY <1>2 DEF Ended
<1>6. Ended' => workers_cnt' = 0 /\ NoneAlive' /\ (Running("int")' => kept_cnt' = 0)
  BY <1>5 DEF Stop, NoneAlive, Alive, Running
<1>7. pc'["run"] # "exited"
  BY <1>1, <1>2 DEF QuietLabels
<1> QED
  BY <1>1, <1>2, <1>3, <1>4, <1>6, <1>7 DEF Stop

\* A step of the loops of putWorkersInOrder or of setTasks, or of a worker.
LEMMA SameStop ==
  ASSUME TypeInv, Stop, UNCHANGED <<stack, pc, workers_cnt, kept_cnt, data>>,
         stack # <<>> \/ UNCHANGED results_queue,
         Ended => NoneAlive',
         Ended' => Ended
  PROVE  Stop'
<1>1. Shape'
  BY DEF Stop, Shape
<1> QED
  BY <1>1 DEF Stop, Running

LEMMA ReturnStop ==
  ASSUME TypeInv, Stop, NEW f \in {"int", "term"}, Running(f), stack' = Tail(stack),
         pc' = [pc EXCEPT ![f] = "exited"], UNCHANGED <<data, wpc, workers_cnt>>,
         Ended' => workers_cnt = 0 /\ NoneAlive
  PROVE  Stop'
<1>1. stack' = <<"run">> /\ pc["run"] \in QuietLabels /\ pc \in [Frames -> Labels]
  BY ShapeFacts DEF Stop, TypeInv, TypeOK
<1>2. pc'["run"] = pc["run"] /\ "exited" \notin QuietLabels
  BY <1>1 DEF Frames, QuietLabels
<1>3. Shape'
  BY <1>1, <1>2 DEF Shape, RunLabels
<1>4. \A g : Running(g)' => g = "run"
  BY <1>1 DEF Running
<1>5. Ended' => workers_cnt' = 0 /\ NoneAlive'
  BY DEF NoneAlive, Alive
<1>6. stack' # <<>>
  <2>1. <<"run">> # <<>>
    OBVIOUS
  <2> QED
    BY <1>1, <2>1
<1> QED
  BY <1>1, <1>2, <1>3, <1>4, <1>5, <1>6 DEF Stop

LEMMA TwoFrames ==
  ASSUME NEW f \in {"int", "term"}
  PROVE  <<f>> \o <<"run">> = <<f, "run">>
<1> DEFINE s == <<"run">>
           t == <<f>> \o s
<1>1. s \in Seq(Frames) /\ Len(s) = 1 /\ s[1] = "run" /\ f \in Frames
  BY DEF Frames
<1> HIDE DEF s
<1>2. t \in Seq(Frames)
  BY <1>1
<1>3. Len(t) = 2 /\ t[1] = f /\ t[2] = s[1]
  BY <1>1, StackPushed
<1> HIDE DEF t
<1>4. t = <<f, "run">>
  BY <1>1, <1>2, <1>3
<1> QED
  BY <1>4 DEF s, t

LEMMA InterruptStop ==
  ASSUME QuietSignals, TypeInv, Stop, NEW f \in {"int", "term"}, Interrupt(f),
         UNCHANGED <<data, results_queue, wpc, workers_cnt>>,
         f = "int" => kept_cnt' = workers_cnt
  PROVE  Stop'
<1>1. /\ stack # <<>> /\ stack' = <<f>> \o stack /\ pc' = [pc EXCEPT ![f] = "empty"]
      /\ Head(stack) = "run" /\ pc["run"] \in QuietLabels
  <2>1. <<Head(stack), pc[Head(stack)]>> \in SignalPoints
    BY DEF Interrupt
  <2>2. <<Head(stack), pc[Head(stack)]>>[1] = "run" /\ <<Head(stack), pc[Head(stack)]>>[2] \in QuietLabels
    BY <2>1 DEF QuietSignals
  <2> QED
    BY <2>2 DEF Interrupt, Goto
<1>2. stack = <<"run">> /\ pc \in [Frames -> Labels]
  BY <1>1, ShapeFacts DEF Stop, Running, TypeInv, TypeOK
<1>3. stack' = <<f, "run">>
  BY <1>1, <1>2, TwoFrames
<1>4. pc'[f] = "empty" /\ pc'["run"] = pc["run"]
  BY <1>1, <1>2 DEF Frames
<1>5. Shape'
  BY <1>1, <1>3, <1>4 DEF Shape, HandlerLabels, RunLabels
<1>6. \A g : Running(g)' => g = f
  BY <1>3 DEF Running
<1>7. Ended' => Ended
  BY <1>1, <1>4 DEF Ended
<1>8. Ended' => workers_cnt' = 0 /\ NoneAlive' /\ (Running("int")' => kept_cnt' = 0)
  BY <1>6, <1>7 DEF Stop, NoneAlive, Alive
<1>9. stack' # <<>> /\ pc'["run"] # "exited"
  BY <1>1, <1>3, <1>4 DEF QuietLabels
<1> QED
  BY <1>4, <1>5, <1>6, <1>8, <1>9 DEF Stop

LEMMA DownStop ==
  ASSUME Down
  PROVE  Stop'
<1>1. /\ stack' = <<>> /\ results_queue' = <<>> /\ pc' = [f \in Frames |-> "exited"]
  BY DEF Down
<1>2. Shape'
  BY <1>1 DEF Shape, RunLabels, Frames
<1>3. ~Ended'
  BY <1>1 DEF Ended, Range
<1> QED
  BY <1>1, <1>2, <1>3 DEF Stop, Running, Frames

LEMMA InitStop == Init => Stop
<1> SUFFICES ASSUME Init PROVE Stop
  OBVIOUS
<1>1. /\ stack = <<>> /\ results_queue = <<>> /\ pc = [f \in Frames |-> "exited"]
  BY DEF Init
<1>2. Shape
  BY <1>1 DEF Shape, RunLabels, Frames
<1>3. ~Ended
  BY <1>1 DEF Ended, Range
<1> QED
  BY <1>1, <1>2, <1>3 DEF Stop, Running, Frames

LEMMA QueueRange ==
  ASSUME NEW q \in Seq(Strings)
  PROVE  /\ q # <<>> => Head(q) \in Range(q) /\ \A x \in Range(Tail(q)) : x \in Range(q)
         /\ \A y \in Strings : \A x \in Range(Append(q, y)) : x \in Range(q) \/ x = y
<1>1. ASSUME q # <<>> PROVE Head(q) \in Range(q) /\ \A x \in Range(Tail(q)) : x \in Range(q)
  <2>1. Len(q) \in Nat \ {0} /\ DOMAIN q = 1 .. Len(q) /\ Head(q) = q[1]
    BY <1>1
  <2>2. /\ DOMAIN Tail(q) = 1 .. Len(q) - 1
        /\ \A i \in 1 .. Len(q) - 1 : Tail(q)[i] = q[i + 1] /\ i + 1 \in 1 .. Len(q)
    BY <1>1, <2>1
  <2> QED
    BY <2>1, <2>2 DEF Range
<1>2. ASSUME NEW y \in Strings, NEW x \in Range(Append(q, y)) PROVE x \in Range(q) \/ x = y
  <2> DEFINE longer == Append(q, y)
  <2>1. /\ DOMAIN longer = 1 .. Len(q) + 1 /\ DOMAIN q = 1 .. Len(q) /\ Len(q) \in Nat
        /\ \A i \in 1 .. Len(q) : longer[i] = q[i]
        /\ longer[Len(q) + 1] = y
    OBVIOUS
  <2> HIDE DEF longer
  <2>2. PICK i \in DOMAIN longer : longer[i] = x
    BY <1>2 DEF Range, longer
  <2> QED
    BY <2>1, <2>2 DEF Range
<1> QED
  BY <1>1, <1>2

LEMMA StartStop ==
  ASSUME TypeInv, Stop, Start
  PROVE  Stop'
<1>1. /\ stack' = <<"run">> /\ pc' = [pc EXCEPT !["run"] = "load"]
      /\ results_queue' = <<>>
      /\ pc \in [Frames -> Labels]
  BY DEF Start, Goto, queueVars, Stop, TypeInv, TypeOK
<1>2. pc'["run"] = "load"
  BY <1>1 DEF Frames
<1>3. Shape'
  BY <1>1, <1>2 DEF Shape, RunLabels
<1>4. ~Ended'
  BY <1>1, <1>2 DEF Ended, Range
<1>5. \A g : Running(g)' => g = "run"
  BY <1>1 DEF Running
<1> QED
  BY <1>1, <1>2, <1>3, <1>4, <1>5 DEF Stop

LEMMA LoopStop ==
  ASSUME TypeInv, Stop,
         GetResult \/ Commit \/ CommitFlush \/ SetTasksDone \/ Saving \/ CheckWorkers \/ LoadProxies
  PROVE  Stop'
<1>1. /\ Running("run") /\ UNCHANGED <<stack, workers_cnt, wpc>> /\ stack # <<>>
      /\ results_queue \in Seq(Strings)
  BY DEF GetResult, Commit, CommitFlush, SetTasksDone, Saving, CheckWorkers, LoadProxies,
         At, Running, poolVars, threadVars, TypeInv, TypeOK
<1>2. pc \in [Frames -> Labels] /\ "run" \in Frames
  BY DEF TypeInv, TypeOK, Frames
<1>3. CASE GetResult
  <2> DEFINE l == IF data' = Finish THEN "saving" ELSE IF data' \in Wordy THEN "commit" ELSE "check"
  <2>1. /\ data' = Head(results_queue) /\ results_queue' = Tail(results_queue)
        /\ results_queue # <<>> /\ pc' = [pc EXCEPT !["run"] = l]
    BY <1>3 DEF GetResult, Goto
  <2>2. l \in RunLabels /\ l # "exited" /\ (l \in {"commit", "flush", "put"} => data' # Finish)
    BY DEF RunLabels, QuietLabels
  <2> HIDE DEF l
  <2>3. Ended' => Ended
    BY <1>1, <2>1, QueueRange DEF Ended
  <2> QED
    BY <1>1, <2>1, <2>2, <2>3, RunStop
<1>4. CASE Commit \/ CommitFlush
  <2>1. \E l \in {"flush", "put"} : pc' = [pc EXCEPT !["run"] = l]
    BY <1>4 DEF Commit, CommitFlush, Goto
  <2>2. UNCHANGED <<data, results_queue>> /\ data # Finish
    BY <1>4 DEF Commit, CommitFlush, At, Stop, loopVars, queueVars
  <2>3. pc'["run"] \in {"flush", "put"}
    BY <1>2, <2>1
  <2>4. Ended' => Ended
    BY <2>2, <2>3 DEF Ended
  <2>5. {"flush", "put"} \subseteq RunLabels /\ "exited" \notin {"flush", "put"}
    BY DEF RunLabels, QuietLabels
  <2> QED
    BY <1>1, <2>1, <2>2, <2>4, <2>5, RunStop
<1>5. CASE SetTasksDone
  <2>1. pc' = [pc EXCEPT !["run"] = "check"] /\ UNCHANGED <<data, results_queue>> /\ data # Finish
    BY <1>5 DEF SetTasksDone, Goto, At, Stop, loopVars, queueVars
  <2>2. Ended' => Ended
    BY <2>1 DEF Ended
  <2>3. "check" \in RunLabels
    BY DEF RunLabels, QuietLabels
  <2> QED
    BY <1>1, <2>1, <2>2, <2>3, RunStop
<1>6. CASE Saving
  <2>1. /\ pc' = [pc EXCEPT !["run"] = "check"] /\ UNCHANGED <<data, results_queue>>
        /\ pc["run"] = "saving"
    BY <1>6 DEF Saving, Goto, At, loopVars, queueVars
  <2>2. Ended' => Ended
    BY <1>1, <2>1 DEF Ended
  <2>3. "check" \in RunLabels
    BY DEF RunLabels, QuietLabels
  <2> QED
    BY <1>1, <2>1, <2>2, <2>3, RunStop
<1>7. CASE CheckWorkers
  <2>1. /\ UNCHANGED <<data, results_queue>> /\ pc["run"] = "check"
        /\ \E l \in {"order", "exited", "get"} :
              pc' = [pc EXCEPT !["run"] = l] /\ (l = "exited" => data = Finish)
    BY <1>7 DEF CheckWorkers, PutInOrder, Goto, At, queueVars
  <2>2. Ended' => Ended
    BY <1>1, <2>1 DEF Ended
  <2>3. {"order", "exited", "get"} \subseteq RunLabels
    BY DEF RunLabels, QuietLabels
  <2> QED
    BY <1>1, <2>1, <2>2, <2>3, RunStop
<1>8. CASE LoadProxies
  <2>1. pc' = [pc EXCEPT !["run"] = "get"] /\ UNCHANGED <<data, results_queue>>
    BY <1>8 DEF LoadProxies, Goto, loopVars
  <2>2. pc'["run"] = "get"
    BY <1>2, <2>1
  <2>3. Ended' => Ended
    BY <2>1, <2>2 DEF Ended
  <2>4. "get" \in RunLabels
    BY DEF RunLabels, QuietLabels
  <2> QED
    BY <1>1, <2>1, <2>3, <2>4, RunStop
<1> QED
  BY <1>3, <1>4, <1>5, <1>6, <1>7, <1>8

LEMMA OrderStop ==
  ASSUME TypeInv, Pool, Stop, NEW f \in Frames,
         SetTask(f) \/ Pill(f) \/ Spawn(f) \/ InOrderDone(f)
  PROVE  Stop'
<1>1. /\ Running(f) /\ stack # <<>> /\ pc \in [Frames -> Labels]
      /\ UNCHANGED <<workers_cnt, kept_cnt, data, results_queue>>
  BY DEF SetTask, Pill, Spawn, InOrderDone, InOrder, Running, poolVars, loopVars, queueVars,
         TypeInv, TypeOK
<1>2. CASE SetTask(f) \/ Pill(f)
  <2>1. UNCHANGED <<stack, pc, wpc>>
    BY <1>2 DEF SetTask, Pill, threadVars
  <2>2. Ended' = Ended
    BY <1>1, <2>1 DEF Ended
  <2>3. Ended => NoneAlive'
    BY <2>1 DEF Stop, NoneAlive, Alive
  <2> QED
    BY <1>1, <2>1, <2>2, <2>3, SameStop
<1>3. CASE Spawn(f)
  <2>1. UNCHANGED <<stack, pc>> /\ excess[f] < 0 /\ pc[f] \in OrderLabels /\ Head(stack) = f
    BY <1>1, <1>3 DEF Spawn, InOrder, Running
  <2>2. /\ Cardinality(workers) = workers_cnt + excess[f] /\ Cardinality(workers) \in Nat
        /\ excess[f] \in Int /\ workers_cnt \in Nat
    BY <1>1, <2>1, ConstantFacts DEF Pool, ToSpawn, TypeInv, TypeOK
  <2>3. workers_cnt # 0
    BY <2>1, <2>2
  <2>4. ~Ended /\ Ended' = Ended
    BY <1>1, <2>1, <2>3 DEF Stop, Ended
  <2> QED
    BY <1>1, <2>1, <2>4, SameStop
<1>4. CASE InOrderDone(f) /\ pc[f] = "order"
  <2>1. UNCHANGED <<stack, wpc>> /\ pc[f] = "order"
    BY <1>4 DEF InOrderDone, threadVars
  <2>2. f = "run"
    BY <1>1, <2>1, ShapeFacts DEF Stop, Frames, HandlerLabels
  <2>3. \E l \in {"exited", "get"} : pc' = [pc EXCEPT !["run"] = l] /\ (l = "exited" => data = Finish)
    BY <1>4, <2>2 DEF InOrderDone, Goto
  <2>4. Ended' => Ended
    BY <1>1, <2>1, <2>2, <2>3 DEF Ended
  <2>5. {"exited", "get"} \subseteq RunLabels
    BY DEF RunLabels, QuietLabels
  <2> QED
    BY <1>1, <2>1, <2>2, <2>3, <2>4, <2>5, RunStop
<1>5. CASE InOrderDone(f) /\ pc[f] = "kill"
  <2>1. UNCHANGED <<stack, wpc>> /\ pc' = [pc EXCEPT ![f] = "join"]
    BY <1>5 DEF InOrderDone, Goto, threadVars
  <2>2. f \in {"int", "term"}
    BY <1>5 DEF Stop, Shape, RunLabels, QuietLabels, Frames
  <2>3. workers_cnt = 0 /\ "join" \in HandlerLabels
    BY <1>1, <1>5, <2>2 DEF Stop, HandlerLabels
  <2> QED
    BY <1>1, <2>1, <2>2, <2>3, HandlerStop
<1>6. CASE InOrderDone(f) /\ pc[f] = "restart"
  <2>1. UNCHANGED wpc /\ stack' = Tail(stack) /\ pc' = [pc EXCEPT ![f] = "exited"]
    BY <1>6 DEF InOrderDone, Goto, threadVars
  <2>2. f \in {"int", "term"}
    BY <1>6 DEF Stop, Shape, RunLabels, QuietLabels, Frames
  <2>3. Ended' => Ended
    <3>1. pc'["run"] = pc["run"]
      BY <1>1, <2>1, <2>2 DEF Frames
    <3> QED
      BY <1>1, <3>1 DEF Ended
  <2> QED
    BY <1>1, <2>1, <2>2, <2>3, ReturnStop DEF Stop
<1> QED
  BY <1>2, <1>3, <1>4, <1>5, <1>6 DEF InOrderDone

LEMMA HandlersStop ==
  ASSUME TypeInv, Pool, Stop,
         \/ \E f \in {"int", "term"} : NotEmpty(f) \/ Drain(f) \/ Kill(f)
         \/ TermReturn \/ Reload \/ Restart
  PROVE  Stop'
<1>1. {"drain", "empty", "kill", "put", "restart"} \subseteq HandlerLabels
  BY DEF HandlerLabels
<1>2. ASSUME NEW f \in {"int", "term"}, NotEmpty(f) \/ Drain(f) PROVE Stop'
  <2>1. /\ Running(f) /\ UNCHANGED <<stack, wpc, kept_cnt, data, results_queue, workers_cnt>>
        /\ \E l \in {"drain", "empty"} : pc' = [pc EXCEPT ![f] = l]
    BY <1>2 DEF NotEmpty, Drain, At, Goto, poolVars, threadVars, loopVars, queueVars
  <2>2. Ended => workers_cnt' = 0
    BY <2>1 DEF Stop
  <2> QED
    BY <1>1, <2>1, <2>2, HandlerStop
<1>3. ASSUME NEW f \in {"int", "term"}, Kill(f) PROVE Stop'
  <2>1. /\ Running(f) /\ UNCHANGED <<stack, wpc, kept_cnt, data, results_queue>>
        /\ workers_cnt' = 0 /\ pc' = [pc EXCEPT ![f] = "kill"]
    BY <1>3 DEF Kill, PutInOrder, At, Goto, threadVars, loopVars, queueVars
  <2> QED
    BY <1>1, <2>1, HandlerStop
<1>4. CASE TermReturn
  <2>1. /\ Running("term") /\ stack' = Tail(stack) /\ pc' = [pc EXCEPT !["term"] = "exited"]
        /\ UNCHANGED <<data, wpc, workers_cnt>>
        /\ pc["term"] = "join" /\ \A w \in workers : ~Alive(w)
    BY <1>4 DEF TermReturn, Joined, At, Goto, poolVars, threadVars, loopVars
  <2>2. workers_cnt = 0 /\ NoneAlive
    BY <2>1 DEF Stop, Pool, NoneAlive
  <2> QED
    BY <2>1, <2>2, ReturnStop
<1>5. CASE Reload
  <2>1. /\ Running("int") /\ UNCHANGED <<stack, wpc, kept_cnt, data, results_queue, workers_cnt>>
        /\ pc' = [pc EXCEPT !["int"] = "put"] /\ pc["int"] = "join"
    BY <1>5 DEF Reload, Joined, At, Goto, poolVars, threadVars, loopVars
  <2>2. workers_cnt = 0
    BY <2>1 DEF Stop
  <2> QED
    BY <1>1, <2>1, <2>2, HandlerStop
<1>6. CASE Restart
  <2>1. /\ Running("int") /\ UNCHANGED <<stack, wpc, kept_cnt, data, results_queue>>
        /\ pc' = [pc EXCEPT !["int"] = "restart"] /\ workers_cnt' = kept_cnt
    BY <1>6 DEF Restart, PutInOrder, At, Goto, threadVars, loopVars, queueVars
  <2>2. Ended => kept_cnt = 0
    BY <2>1 DEF Stop
  <2> QED
    BY <1>1, <2>1, <2>2, HandlerStop
<1> QED
  BY <1>2, <1>3, <1>4, <1>5, <1>6

LEMMA WorkerStop ==
  ASSUME TypeInv, Pool, Stop, NEW w \in Workers, Worker(w) \/ SaveFails(w)
  PROVE  Stop'
<1>1. /\ wpc[w] # "none" /\ results_queue \in Seq(Strings) /\ Tasks \subseteq Strings
      /\ Finish \notin Tasks
  BY CrcAssumption DEF Worker, Fetch, Take, NextProxy, FetchOk, FetchBad, FetchFail, Save, SaveFails,
                       TypeInv, TypeOK, Strings
<1>2. UNCHANGED <<stack, pc, workers_cnt, kept_cnt, data>>
  BY DEF Worker, Fetch, Take, NextProxy, FetchOk, FetchBad, FetchFail, Save, SaveFails,
         poolVars, frameVars, loopVars
<1>3. stack # <<>>
  BY <1>1 DEF Pool, Alive
<1>4. ~Ended
  BY <1>1 DEF Stop, NoneAlive, Alive
<1>5. \/ UNCHANGED results_queue
      \/ wtask[w] \in Tasks /\ results_queue' = Append(results_queue, wtask[w])
  BY DEF Worker, Fetch, Take, NextProxy, FetchOk, FetchBad, FetchFail, Save, SaveFails, queueVars,
         TypeInv
<1>6. ~Ended'
  BY <1>1, <1>2, <1>4, <1>5, QueueRange DEF Ended
<1> QED
  BY <1>2, <1>3, <1>4, <1>6, SameStop

LEMMA NextStop == QuietSignals /\ TypeInv /\ Pool /\ Stop /\ [Next]_vars => TypeInv' /\ Pool' /\ Stop'
<1> SUFFICES ASSUME QuietSignals, TypeInv, Pool, Stop, [Next]_vars PROVE TypeInv' /\ Pool' /\ Stop'
  OBVIOUS
<1>1. SignalsOutsideLoops
  BY DEF QuietSignals, SignalsOutsideLoops, QuietLabels, OrderLabels
<1>2. TypeInv' /\ Pool'
  BY <1>1, NextPool
<1>3. CASE UNCHANGED vars
  <2>1. UNCHANGED <<stack, pc, workers_cnt, kept_cnt, data, results_queue, wpc>>
    BY <1>3 DEF vars, poolVars, threadVars, frameVars, loopVars, queueVars
  <2>2. Ended' = Ended /\ NoneAlive' = NoneAlive
    BY <2>1 DEF Ended, NoneAlive, Alive
  <2> QED
    BY <1>2, <2>1, <2>2, SameStop DEF Stop
<1>4. CASE SIGINT
  <2>1. /\ Interrupt("int") /\ kept_cnt' = workers_cnt
        /\ UNCHANGED <<data, results_queue, wpc, workers_cnt>>
    BY <1>4 DEF SIGINT, poolVars, threadVars, loopVars, queueVars
  <2> QED
    BY <1>2, <2>1, InterruptStop
<1>5. CASE SIGTERM
  <2>1. Interrupt("term") /\ UNCHANGED <<data, results_queue, wpc, workers_cnt>>
    BY <1>5 DEF SIGTERM, poolVars, threadVars, loopVars, queueVars
  <2> QED
    BY <1>2, <2>1, InterruptStop
<1>6. CASE Main
  BY <1>2, <1>6, StartStop, LoopStop, OrderStop, HandlersStop, DownStop DEF Main, Exit
<1> QED
  BY <1>2, <1>3, <1>4, <1>5, <1>6, WorkerStop, DownStop DEF Next, Crash

LEMMA StopInv == QuietSignals => (Spec => [](TypeInv /\ Pool /\ Stop))
<1> SUFFICES ASSUME QuietSignals PROVE Spec => [](TypeInv /\ Pool /\ Stop)
  OBVIOUS
<1>1. TypeInv /\ Pool /\ Stop /\ [Next]_vars => TypeInv' /\ Pool' /\ Stop'
  BY NextStop
<1> QED
  BY <1>1, InitTypeInv, InitPool, InitStop, PTL DEF Spec

(* When run() ends no worker is left, so that the interpreter can end too,   *)
(* whatever the pool was doing when the SIGTERM came and whatever proxy       *)
(* reloads came before or after it - if they did not come inside it.          *)
THEOREM StopKillsAllHolds == QuietSignals => (Spec => []StopKillsAll)
<1>1. Stop => StopKillsAll
  BY DEF Stop, StopKillsAll, At, Running, Ended, NoneAlive
<1> QED
  BY <1>1, StopInv, PTL

-----------------------------------------------------------------------------
(* The pages.  A result is handed over before its page is written: until   *)
(* then the page is in the hands of the worker.                            *)

HasPage(u) ==
  \/ \E t \in saved : crc[t] = u
  \/ \E w \in Workers : wpc[w] = "save" /\ crc[wtask[w]] = u

Answered(t) == \/ t \in Range(results_queue)
               \/ stack # <<>> /\ pc["run"] = "commit" /\ data = t

NoAccident == happened["crash"] = 0 /\ happened["death"] = 0

Pages ==
  NoAccident => /\ \A u \in hdd_uids \cup ram_uids : HasPage(u)
                /\ \A t \in Tasks : Answered(t) => HasPage(crc[t])

LEMMA SpentOnce ==
  ASSUME TypeInv, NEW e \in Events, Spend(e)
  PROVE  happened'[e] # 0
BY DEF Spend, TypeInv, TypeOK

LEMMA StayPages ==
  ASSUME Pages, NoAccident' => NoAccident,
         \A u : HasPage(u) => HasPage(u)',
         \A u \in hdd_uids' \cup ram_uids' : u \in hdd_uids \cup ram_uids
                                             \/ \E t \in Tasks : Answered(t) /\ crc[t] = u,
         \A t \in Tasks : Answered(t)' => Answered(t)
  PROVE  Pages'
BY DEF Pages

LEMMA MainPages ==
  ASSUME TypeInv, Pool, Stop, Pages, Main, ~Exit
  PROVE  Pages'
<1>1. /\ pc \in [Frames -> Labels] /\ "run" \in Frames /\ results_queue \in Seq(Strings)
      /\ Frames = {"run", "int", "term"}
  BY DEF TypeInv, TypeOK, Frames
<1>2. UNCHANGED <<saved, happened>>
  BY DEF Main, Start, LoadProxies, GetResult, Commit, CommitFlush, SetTasksDone, Saving, CheckWorkers,
         SetTask, Pill, Spawn, InOrderDone, NotEmpty, Drain, Kill, TermReturn, Reload, Restart, fileVars
<1>3. NoAccident' = NoAccident
  BY <1>2 DEF NoAccident
<1>4. ASSUME UNCHANGED <<wpc, wtask>> PROVE \A u : HasPage(u)' = HasPage(u)
  BY <1>2, <1>4 DEF HasPage
<1>5. ASSUME UNCHANGED <<results_queue, data>>, stack # <<>>,
             pc'["run"] = "commit" => pc["run"] = "commit"
      PROVE  \A t \in Tasks : Answered(t)' => Answered(t)
  BY <1>5 DEF Answered
<1>6. CASE Start
  <2>1. /\ UNCHANGED <<hdd_uids, ram_uids, results_queue, wtask>> /\ stack = <<>>
        /\ pc' = [pc EXCEPT !["run"] = "load"]
    BY <1>6 DEF Start, Goto, uidVars, queueVars
  <2>2. \A w \in Workers : wpc[w] = "none"
    BY <2>1 DEF Pool, Alive
  <2>3. \A u : HasPage(u) => HasPage(u)'
    BY <1>2, <2>2 DEF HasPage
  <2>4. \A t \in Tasks : Answered(t)' => Answered(t)
    BY <1>1, <2>1 DEF Answered
  <2> QED
    BY <1>3, <2>1, <2>3, <2>4, StayPages
<1>7. CASE GetResult
  <2>1. /\ UNCHANGED <<hdd_uids, ram_uids, wpc, wtask>>
        /\ results_queue # <<>> /\ data' = Head(results_queue) /\ results_queue' = Tail(results_queue)
    BY <1>7 DEF GetResult, uidVars, threadVars
  <2>2. \A t \in Tasks : Answered(t)' => Answered(t)
    BY <1>1, <2>1, QueueRange DEF Answered
  <2> QED
    BY <1>3, <1>4, <2>1, <2>2, StayPages
<1>8. CASE Commit
  <2>1. /\ UNCHANGED <<hdd_uids, wpc, wtask, results_queue, data>> /\ stack # <<>>
        /\ pc["run"] = "commit" /\ data \in Tasks
        /\ ram_uids' = ram_uids \cup {crc[data]}
    BY <1>8 DEF Commit, uids!Commit, At, Running, TypeInv, threadVars, queueVars, loopVars
  <2>2. Answered(data)
    BY <2>1 DEF Answered
  <2>3. \A t \in Tasks : Answered(t)' => Answered(t)
    BY <1>5, <2>1
  <2> QED
    BY <1>3, <1>4, <2>1, <2>2, <2>3, StayPages
<1>9. CASE CommitFlush \/ Saving
  <2>1. /\ hdd_uids' \cup ram_uids' \subseteq hdd_uids \cup ram_uids
        /\ UNCHANGED <<wpc, wtask, results_queue, data>> /\ stack # <<>>
        /\ \E l \in {"put", "check"} : pc' = [pc EXCEPT !["run"] = l]
    BY <1>9 DEF CommitFlush, Saving, uids!FlushToDisk, At, Running, Goto, uidVars, threadVars,
                queueVars, loopVars
  <2>2. pc'["run"] # "commit"
    BY <1>1, <2>1
  <2> QED
    BY <1>3, <1>4, <1>5, <2>1, <2>2, StayPages
<1>10. ASSUME NEW f \in Frames, SetTask(f) PROVE Pages'
  <2>1. /\ UNCHANGED <<hdd_uids, ram_uids, wpc, wtask, results_queue, data, pc>> /\ stack # <<>>
    BY <1>10 DEF SetTask, uids!Add, Running, uidVars, threadVars, loopVars
  <2> QED
    BY <1>3, <1>4, <1>5, <2>1, StayPages
<1>11. ASSUME NEW f \in Frames, Spawn(f) PROVE Pages'
  <2>1. /\ UNCHANGED <<hdd_uids, ram_uids, wtask, results_queue, data, pc>> /\ stack # <<>>
    BY <1>11 DEF Spawn, InOrder, Running, uidVars, queueVars, loopVars
  <2>2. \A w \in Workers : wpc[w] = "save" => wpc'[w] = "save"
    BY <1>11 DEF Spawn, Alive, TypeInv, TypeOK
  <2>3. \A u : HasPage(u) => HasPage(u)'
    BY <1>2, <2>1, <2>2 DEF HasPage
  <2> QED
    BY <1>3, <1>5, <2>1, <2>3, StayPages
<1>12. CASE TermReturn
  <2>1. /\ UNCHANGED <<hdd_uids, ram_uids, wpc, wtask, data>> /\ stack # <<>>
        /\ results_queue' = Append(results_queue, Finish) /\ pc' = [pc EXCEPT !["term"] = "exited"]
    BY <1>12 DEF TermReturn, Joined, At, Running, Goto, uidVars, threadVars, loopVars
  <2>2. \A t \in Tasks : Answered(t)' => Answered(t)
    <3>1. pc'["run"] = pc["run"]
      BY <1>1, <2>1
    <3>2. \A t \in Tasks : t # Finish
      BY CrcAssumption
    <3> QED
      BY <1>1, <2>1, <3>1, <3>2, QueueRange, ConstantFacts DEF Answered
  <2> QED
    BY <1>3, <1>4, <2>1, <2>2, StayPages
<1>13. CASE \/ LoadProxies \/ SetTasksDone \/ CheckWorkers \/ Reload \/ Restart
            \/ \E f \in Frames : Pill(f) \/ InOrderDone(f)
            \/ \E f \in {"int", "term"} : NotEmpty(f) \/ Drain(f) \/ Kill(f)
  <2>1. /\ UNCHANGED <<hdd_uids, ram_uids, wpc, wtask, results_queue, data>> /\ stack # <<>>
        /\ pc'["run"] = "commit" => pc["run"] = "commit"
    <3>1. CASE LoadProxies \/ SetTasksDone
      BY <1>1, <3>1 DEF LoadProxies, SetTasksDone, Goto, At, Running, uidVars, threadVars, queueVars, loopVars
    <3>2. CASE CheckWorkers
      BY <1>1, <3>2 DEF CheckWorkers, PutInOrder, Goto, At, Running, uidVars, threadVars, queueVars
    <3>3. CASE Reload \/ Restart
      BY <1>1, <3>3 DEF Reload, Restart, PutInOrder, Goto, Joined, At, Running, uidVars, threadVars,
                        queueVars, loopVars
    <3>4. ASSUME NEW f \in Frames, Pill(f)
          PROVE  UNCHANGED <<hdd_uids, ram_uids, wpc, wtask, results_queue, data, pc>> /\ stack # <<>>
      BY <3>4 DEF Pill, InOrder, Running, uidVars, threadVars, loopVars
    <3>5. ASSUME NEW f \in Frames, InOrderDone(f)
          PROVE  /\ UNCHANGED <<hdd_uids, ram_uids, wpc, wtask, results_queue, data>> /\ stack # <<>>
                 /\ pc'["run"] = "commit" => pc["run"] = "commit"
      BY <1>1, <3>5 DEF InOrderDone, InOrder, Running, Goto, uidVars, threadVars, queueVars, loopVars
    <3>6. ASSUME NEW f \in {"int", "term"}, NotEmpty(f) \/ Drain(f) \/ Kill(f)
          PROVE  /\ UNCHANGED <<hdd_uids, ram_uids, wpc, wtask, results_queue, data>> /\ stack # <<>>
                 /\ pc'["run"] = "commit" => pc["run"] = "commit"
      BY <1>1, <3>6 DEF NotEmpty, Drain, Kill, PutInOrder, At, Running, Goto, uidVars, threadVars,
                        queueVars, loopVars
    <3> QED
      BY <1>13, <3>1, <3>2, <3>3, <3>4, <3>5, <3>6
  <2> QED
    BY <1>3, <1>4, <1>5, <2>1, StayPages
<1> QED
  BY <1>6, <1>7, <1>8, <1>9, <1>10, <1>11, <1>12, <1>13 DEF Main

LEMMA WorkerPages ==
  ASSUME TypeInv, Pool, Pages, NEW w \in Workers, Worker(w)
  PROVE  Pages'
<1>1. /\ UNCHANGED <<hdd_uids, ram_uids, data, stack, pc>>
      /\ results_queue \in Seq(Strings) /\ Tasks \subseteq Strings
      /\ wpc \in [Workers -> {"none", "get", "proxy", "fetch", "save"}]
      /\ wtask \in [Workers -> Strings]
  BY DEF Worker, Fetch, Take, NextProxy, FetchOk, FetchBad, FetchFail, Save, uidVars, frameVars, loopVars,
         TypeInv, TypeOK, Strings
<1>2. NoAccident' => NoAccident
  <2>1. CASE FetchFail(w)
    BY <2>1 DEF FetchFail, Spend, Events, NoAccident, TypeInv, TypeOK
  <2>2. CASE ~FetchFail(w)
    BY <2>2 DEF Worker, Fetch, Take, NextProxy, FetchOk, FetchBad, Save, NoAccident
  <2> QED
    BY <2>1, <2>2
<1>3. CASE Take(w) \/ NextProxy(w) \/ FetchBad(w) \/ FetchFail(w)
  <2>1. /\ UNCHANGED <<saved, results_queue>> /\ wpc[w] # "save"
        /\ \A v \in Workers : v # w => wpc'[v] = wpc[v] /\ wtask'[v] = wtask[v]
    BY <1>1, <1>3 DEF Take, NextProxy, FetchBad, FetchFail, fileVars, queueVars
  <2>2. \A u : HasPage(u) => HasPage(u)'
    BY <2>1 DEF HasPage
  <2>3. \A t \in Tasks : Answered(t)' => Answered(t)
    BY <1>1, <2>1 DEF Answered
  <2> QED
    BY <1>1, <1>2, <2>2, <2>3, StayPages
<1>4. CASE Save(w)
  <2>1. /\ saved' = saved \cup {wtask[w]} /\ UNCHANGED results_queue
        /\ \A v \in Workers : v # w => wpc'[v] = wpc[v] /\ wtask'[v] = wtask[v]
    BY <1>1, <1>4 DEF Save, queueVars
  <2>2. \A u : HasPage(u) => HasPage(u)'
    BY <2>1 DEF HasPage
  <2>3. \A t \in Tasks : Answered(t)' => Answered(t)
    BY <1>1, <2>1 DEF Answered
  <2> QED
    BY <1>1, <1>2, <2>2, <2>3, StayPages
<1>5. CASE FetchOk(w)
  <2>1. /\ UNCHANGED <<saved, wtask>> /\ wpc' = [wpc EXCEPT ![w] = "save"]
        /\ results_queue' = Append(results_queue, wtask[w]) /\ wpc[w] = "fetch"
    BY <1>5 DEF FetchOk, fileVars
  <2>2. \A u : HasPage(u) => HasPage(u)'
    BY <1>1, <2>1 DEF HasPage
  <2>3. \A t \in Tasks : t = wtask[w] => HasPage(crc[t])'
    BY <1>1, <2>1 DEF HasPage
  <2>4. \A t \in Tasks : Answered(t)' => Answered(t) \/ t = wtask[w]
    BY <1>1, <2>1, QueueRange DEF Answered
  <2> QED
    BY <1>1, <1>2, <2>2, <2>3, <2>4 DEF Pages
<1> QED
  BY <1>3, <1>4, <1>5 DEF Worker, Fetch

LEMMA EndPages ==
  ASSUME TypeInv, Pages, Down, \A w \in Workers : ~Alive(w), UNCHANGED happened
  PROVE  Pages'
<1>1. /\ UNCHANGED <<saved, hdd_uids>> /\ ram_uids' = {} /\ stack' = <<>> /\ results_queue' = <<>>
  BY DEF Down, uids!Forget, fileVars
<1>2. \A u : HasPage(u) => HasPage(u)'
  BY <1>1 DEF HasPage, Alive
<1>3. \A t \in Tasks : ~Answered(t)'
  BY <1>1 DEF Answered, Range
<1>4. NoAccident' => NoAccident
  BY DEF NoAccident
<1> QED
  BY <1>1, <1>2, <1>3, <1>4, StayPages

LEMMA NextPages == TypeInv /\ Pool /\ Stop /\ Pages /\ [Next]_vars => Pages'
<1> SUFFICES ASSUME TypeInv, Pool, Stop, Pages, [Next]_vars PROVE Pages'
  OBVIOUS
<1>1. CASE UNCHANGED vars
  BY <1>1 DEF vars, fileVars, uidVars, threadVars, queueVars, frameVars, loopVars, Pages, NoAccident,
              HasPage, Answered
<1>2. CASE Main
  <2>1. CASE Exit
    BY <2>1, EndPages DEF Exit
  <2> QED
    BY <1>2, <2>1, MainPages
<1>3. ASSUME NEW w \in Workers, SaveFails(w) PROVE Pages'
  <2>1. Spend("death") /\ "death" \in Events
    BY <1>3 DEF SaveFails, Events
  <2> QED
    BY <2>1, SpentOnce DEF Pages, NoAccident
<1>4. CASE Crash
  <2>1. Spend("crash") /\ "crash" \in Events
    BY <1>4 DEF Crash, Events
  <2> QED
    BY <2>1, SpentOnce DEF Pages, NoAccident
<1>5. ASSUME NEW f \in {"int", "term"}, Interrupt(f), SIGINT \/ SIGTERM PROVE Pages'
  <2>1. /\ UNCHANGED <<saved, hdd_uids, ram_uids, wpc, wtask, results_queue, data>> /\ stack # <<>>
        /\ pc' = [pc EXCEPT ![f] = "empty"] /\ Spend(f)
    BY <1>5 DEF SIGINT, SIGTERM, Interrupt, Goto, fileVars, uidVars, threadVars, queueVars, loopVars
  <2>2. pc'["run"] = pc["run"]
    BY <2>1 DEF TypeInv, TypeOK, Frames
  <2>3. NoAccident' => NoAccident
    BY <2>1 DEF Spend, Events, NoAccident, TypeInv, TypeOK
  <2>4. \A u : HasPage(u) => HasPage(u)'
    BY <2>1 DEF HasPage
  <2>5. \A t \in Tasks : Answered(t)' => Answered(t)
    BY <2>1, <2>2 DEF Answered
  <2> QED
    BY <2>1, <2>3, <2>4, <2>5, StayPages
<1> QED
  BY <1>1, <1>2, <1>3, <1>4, <1>5, WorkerPages DEF Next, SIGINT, SIGTERM

LEMMA InitPages == Init => Pages
<1> SUFFICES ASSUME Init PROVE Pages
  OBVIOUS
<1>1. hdd_uids = {} /\ ram_uids = {} /\ results_queue = <<>> /\ stack = <<>>
  BY DEF Init, uids!Init
<1>2. \A t \in Tasks : ~Answered(t)
  BY <1>1 DEF Answered, Range
<1> QED
  BY <1>1, <1>2 DEF Pages

(* A stop leaves no uid on disk without its saved page, though the uid is    *)
(* committed, and may be flushed, while the worker is still writing: unless  *)
(* the process was killed once or a worker died, in this run or an earlier.  *)
THEOREM StopSavesPagesHolds == QuietSignals => (Spec => []StopSavesPages)
<1>1. Stop /\ TypeInv /\ Pages => StopSavesPages
  <2> SUFFICES ASSUME Stop, TypeInv, Pages, At("run", "exited"), NoAccident, NEW u \in hdd_uids
               PROVE  \E task \in saved : crc[task] = u
    BY DEF StopSavesPages, NoAccident
  <2>1. HasPage(u)
    BY DEF Pages
  <2>2. \A w \in Workers : ~Alive(w)
    BY DEF Stop, At, Running, Ended, NoneAlive
  <2> QED
    BY <2>1, <2>2 DEF HasPage, Alive
<1> QED
  BY <1>1, StopInv, InitPages, NextPages, PTL DEF Spec

-----------------------------------------------------------------------------
(* The pills.  What has been paid, in tasks_queue or in the hands of a     *)
(* worker that waits for a proxy, against the workers it is owed to.       *)

Living == {w \in workers : Alive(w)}
PillHolders == {w \in workers : wpc[w] = "proxy" /\ wtask[w] = Finish}
Owed == Cardinality(Living)
Paid == Pills(tasks_queue) + Cardinality(PillHolders)

\* A handler puts pills, or waits for what they do.
Killing == stack # <<>> /\ pc[Head(stack)] \in {"kill", "join"}
Promised == IF pc[Head(stack)] = "kill" THEN excess[Head(stack)] ELSE 0

NoDeath == happened["death"] = 0
NoPill(q) == \A i \in DOMAIN q : q[i] # Finish

\* Enough is paid for every worker, and no more unless one died after the counting.
Balance ==
  /\ Killing => /\ Promised >= 0 /\ Paid + Promised >= Owed
                /\ NoDeath => Paid + Promised = Owed
  /\ ~Killing => /\ Owed <= workers_cnt
                 /\ NoDeath => Paid = 0
  /\ stack # <<>> /\ pc[Head(stack)] \in {"order", "restart"} => excess[Head(stack)] <= 0

\* No pill is where setTasks or the file takes tasks from.
Clean == NoDeath => /\ NoPill(tasks_file)
                    /\ \A f \in Frames : NoPill(drained[f]) /\ NoPill(todo[f])

LEMMA PillsCounted ==
  ASSUME NEW q \in Seq(Strings)
  PROVE  /\ Pills(q) \in Nat
         /\ \A x \in Strings : Pills(Append(q, x)) = Pills(q) + (IF x = Finish THEN 1 ELSE 0)
         /\ q # <<>> => Pills(q) = Pills(Tail(q)) + (IF Head(q) = Finish THEN 1 ELSE 0)
         /\ Pills(q) = 0 => \A i \in DOMAIN q : q[i] # Finish
<1> DEFINE At_(s) == {i \in DOMAIN s : s[i] = Finish}
<1>1. DOMAIN q = 1 .. Len(q) /\ Len(q) \in Nat
  OBVIOUS
<1>2. \A s \in Seq(Strings) : IsFiniteSet(At_(s)) /\ Cardinality(At_(s)) \in Nat
  <2> SUFFICES ASSUME NEW s \in Seq(Strings)
               PROVE  IsFiniteSet(At_(s)) /\ Cardinality(At_(s)) \in Nat
    OBVIOUS
  <2>1. DOMAIN s = 1 .. Len(s) /\ Len(s) \in Nat
    OBVIOUS
  <2>2. IsFiniteSet(1 .. Len(s))
    BY <2>1, FS_Interval
  <2>3. At_(s) \subseteq 1 .. Len(s)
    BY <2>1
  <2> QED
    BY <2>2, <2>3, FS_Subset, FS_CardinalityType
<1>3. \A s : Pills(s) = Cardinality(At_(s))
  BY DEF Pills
<1>4. ASSUME NEW x \in Strings
      PROVE  Pills(Append(q, x)) = Pills(q) + (IF x = Finish THEN 1 ELSE 0)
  <2> DEFINE longer == Append(q, x)
             n == Len(q) + 1
  <2>1. /\ DOMAIN longer = 1 .. n /\ n \in Nat
        /\ \A i \in 1 .. Len(q) : longer[i] = q[i]
        /\ longer[n] = x /\ n \notin DOMAIN q
        /\ \A i \in DOMAIN longer : i \in DOMAIN q \/ i = n
        /\ n \in DOMAIN longer /\ \A i \in DOMAIN q : i \in DOMAIN longer /\ longer[i] = q[i]
    BY <1>1
  <2> HIDE DEF longer, n
  <2>2. CASE x = Finish
    <3>1. At_(longer) = At_(q) \cup {n} /\ n \notin At_(q)
      BY <2>1, <2>2
    <3>2. Cardinality(At_(longer)) = Cardinality(At_(q)) + 1
      BY <1>2, <3>1, FS_AddElement
    <3> QED
      BY <1>3, <2>2, <3>2 DEF longer
  <2>3. CASE x # Finish
    <3>1. At_(longer) = At_(q)
      BY <2>1, <2>3
    <3>2. Cardinality(At_(q)) \in Nat
      BY <1>2
    <3>3. Pills(longer) = Pills(q) /\ Pills(q) \in Nat
      BY <1>3, <3>1, <3>2
    <3> QED
      BY <2>3, <3>3 DEF longer
  <2> QED
    BY <2>2, <2>3
<1>5. ASSUME q # <<>>
      PROVE  Pills(q) = Pills(Tail(q)) + (IF Head(q) = Finish THEN 1 ELSE 0)
  <2> DEFINE t == Tail(q)
             rest == At_(q) \ {1}
             f == [i \in At_(t) |-> i + 1]
  <2>1. /\ t \in Seq(Strings) /\ DOMAIN t = 1 .. Len(q) - 1 /\ Len(q) \in Nat \ {0}
        /\ \A i \in DOMAIN t : t[i] = q[i + 1]
        /\ Head(q) = q[1] /\ 1 \in DOMAIN q
    BY <1>1, <1>5
  <2> HIDE DEF t
  <2>2. f \in Bijection(At_(t), rest)
    <3>1. \A i \in At_(t) : i \in Nat \ {0} /\ i + 1 \in rest
      BY <1>1, <2>1
    <3>2. f \in [At_(t) -> rest]
      BY <3>1
    <3>3. \A i, j \in At_(t) : f[i] = f[j] => i = j
      BY <3>1
    <3>4. \A k \in rest : \E i \in At_(t) : f[i] = k
      <4> SUFFICES ASSUME NEW k \in rest PROVE \E i \in At_(t) : f[i] = k
        OBVIOUS
      <4>1. k \in 2 .. Len(q) /\ q[k] = Finish
        BY <1>1
      <4>2. k - 1 \in DOMAIN t /\ (k - 1) + 1 = k
        BY <2>1, <4>1
      <4>3. t[k - 1] = Finish
        BY <2>1, <4>1, <4>2
      <4>4. k - 1 \in At_(t)
        BY <4>2, <4>3
      <4>5. f[k - 1] = k
        BY <4>2, <4>4
      <4> QED
        BY <4>4, <4>5
    <3> HIDE DEF f, rest, At_
    <3>5. f \in Injection(At_(t), rest)
      BY <3>2, <3>3 DEF Injection, IsInjective
    <3>6. f \in Surjection(At_(t), rest)
      BY <3>2, <3>4 DEF Surjection
    <3> QED
      BY <3>5, <3>6 DEF Bijection
  <2>3. Cardinality(rest) = Cardinality(At_(t)) /\ IsFiniteSet(rest)
    <3>1. ExistsBijection(At_(t), rest)
      BY <2>2 DEF ExistsBijection
    <3>2. IsFiniteSet(At_(t))
      BY <1>2, <2>1
    <3> HIDE DEF rest, At_
    <3> QED
      BY <3>1, <3>2, FS_Bijection
  <2>4. CASE Head(q) = Finish
    <3>1. 1 \in At_(q)
      BY <2>1, <2>4
    <3>2. Cardinality(rest) = Cardinality(At_(q)) - 1 /\ Cardinality(At_(q)) \in Nat
      BY <1>2, <3>1, FS_RemoveElement
    <3>3. Pills(q) = Cardinality(At_(q)) /\ Pills(t) = Cardinality(At_(t))
      BY <1>3
    <3> HIDE DEF At_, rest, f
    <3>4. Cardinality(At_(q)) = Cardinality(rest) + 1
      BY <3>2
    <3>5. Pills(q) = Pills(t) + 1
      BY <2>3, <3>3, <3>4
    <3> QED
      BY <2>4, <3>5 DEF t
  <2>5. CASE Head(q) # Finish
    <3>1. rest = At_(q)
      BY <2>1, <2>5
    <3>2. Cardinality(At_(q)) \in Nat
      BY <1>2
    <3>3. Pills(q) = Cardinality(At_(q)) /\ Pills(t) = Cardinality(At_(t))
      BY <1>3
    <3> HIDE DEF At_, rest
    <3>4. Pills(q) = Pills(t) /\ Pills(t) \in Nat
      BY <2>3, <3>1, <3>2, <3>3
    <3> QED
      BY <2>5, <3>4 DEF t
  <2> QED
    BY <2>4, <2>5
<1>6. Pills(q) = 0 => \A i \in DOMAIN q : q[i] # Finish
  <2>1. Cardinality(At_(q)) = 0 => At_(q) = {}
    BY <1>2, FS_EmptySet
  <2> QED
    BY <1>3, <2>1
<1> QED
  BY <1>2, <1>3, <1>4, <1>5, <1>6

LEMMA NoPills == Pills(<<>>) = 0
<1>1. {i \in DOMAIN <<>> : <<>>[i] = Finish} = {}
  OBVIOUS
<1> QED
  BY <1>1, FS_EmptySet DEF Pills

LEMMA PayTypes ==
  ASSUME TypeInv
  PROVE  /\ Paid \in Nat /\ Owed \in Nat
         /\ Pills(tasks_queue) \in Nat
         /\ IsFiniteSet(Living) /\ IsFiniteSet(PillHolders)
         /\ Cardinality(PillHolders) \in Nat
         /\ \A ws \in SUBSET Workers : IsFiniteSet(ws) /\ Cardinality(ws) \in Nat
<1>1. /\ tasks_queue \in Seq(Strings) /\ Living \subseteq Workers /\ PillHolders \subseteq Workers
  BY DEF TypeInv, TypeOK, Living, PillHolders
<1>2. \A ws \in SUBSET Workers : IsFiniteSet(ws) /\ Cardinality(ws) \in Nat
  BY ConstantFacts, FS_Subset
<1>3. Pills(tasks_queue) \in Nat
  BY <1>1, PillsCounted
<1>4. Cardinality(Living) \in Nat /\ Cardinality(PillHolders) \in Nat
  BY <1>1, <1>2
<1> QED
  BY <1>1, <1>2, <1>3, <1>4 DEF Paid, Owed

\* No handler kills, before the step or after it.
LEMMA IdleBalance ==
  ASSUME ~Killing', Owed' <= workers_cnt', NoDeath' => Paid' = 0,
         stack' # <<>> /\ pc'[Head(stack')] \in {"order", "restart"} => excess'[Head(stack')] <= 0
  PROVE  Balance'
  BY DEF Balance

\* The pool loses its dead; nobody who is owed or holds a pill is among them.
LEMMA PruneBalance ==
  ASSUME TypeInv, workers' = {w \in workers : Alive(w)}, UNCHANGED <<wpc, wtask>>
  PROVE  Living' = Living /\ Living = workers' /\ PillHolders' = PillHolders
  BY DEF Living, PillHolders, Alive

\* What a worker does: it is paid, and ends, or it dies.
LEMMA PaidBalance ==
  ASSUME TypeInv, Balance, UNCHANGED <<stack, pc, excess, workers_cnt>>,
         NEW d \in {0, 1}, NEW e \in {0, 1}, d <= e,
         Paid' = Paid - d, Paid' \in Nat, Owed' = Owed - e,
         NoDeath' => NoDeath /\ d = e
  PROVE  Balance'
<1>1. Paid \in Nat /\ Owed \in Nat /\ workers_cnt \in Nat /\ excess \in [Frames -> Int]
      /\ stack \in Seq(Frames)
  BY PayTypes DEF TypeInv, TypeOK
<1>2. Killing' = Killing /\ Promised' = Promised
  BY DEF Killing, Promised
<1>3. Killing => Promised \in Int
  <2>1. stack # <<>> => Head(stack) \in Frames
    BY <1>1
  <2> QED
    BY <1>1, <2>1 DEF Killing, Promised
<1>4. ASSUME Killing
      PROVE  /\ Promised' >= 0 /\ Paid' + Promised' >= Owed'
             /\ NoDeath' => Paid' + Promised' = Owed'
  BY <1>1, <1>2, <1>3, <1>4 DEF Balance
<1>5. ASSUME ~Killing
      PROVE  Owed' <= workers_cnt' /\ (NoDeath' => Paid' = 0)
  BY <1>1, <1>5 DEF Balance
<1> QED
  BY <1>2, <1>4, <1>5 DEF Balance

LEMMA WorkerBalance ==
  ASSUME TypeInv, Pool, Balance, NEW w \in Workers, Worker(w) \/ SaveFails(w)
  PROVE  Balance'
<1>1. /\ wpc \in [Workers -> {"none", "get", "proxy", "fetch", "save"}]
      /\ wtask \in [Workers -> Strings] /\ tasks_queue \in Seq(Strings)
      /\ workers \subseteq Workers /\ happened \in [Events -> Nat]
  BY DEF TypeInv, TypeOK
<1>2. UNCHANGED <<stack, pc, excess, workers_cnt, workers>>
  BY DEF Worker, Fetch, Take, NextProxy, FetchOk, FetchBad, FetchFail, Save, SaveFails,
         poolVars, frameVars
<1>3. wpc[w] # "none" /\ w \in workers
  BY DEF Worker, Fetch, Take, NextProxy, FetchOk, FetchBad, FetchFail, Save, SaveFails, Pool, Alive
<1>4. CASE Take(w)
  <2>1. /\ wpc[w] = "get" /\ tasks_queue # <<>> /\ tasks_queue' = Tail(tasks_queue)
        /\ wtask' = [wtask EXCEPT ![w] = Head(tasks_queue)]
        /\ wpc' = [wpc EXCEPT ![w] = "proxy"] /\ UNCHANGED happened
    BY <1>4 DEF Take
  <2>2. Living' = Living
    BY <1>1, <1>2, <2>1 DEF Living, Alive
  <2>3. Pills(tasks_queue) = Pills(tasks_queue') + (IF Head(tasks_queue) = Finish THEN 1 ELSE 0)
    BY <1>1, <2>1, PillsCounted
  <2>4. tasks_queue' \in Seq(Strings)
    BY <1>1, <2>1
  <2>5. Pills(tasks_queue') \in Nat
    BY <2>4, PillsCounted
  <2>6. CASE Head(tasks_queue) = Finish
    <3>1. PillHolders' = PillHolders \cup {w} /\ w \notin PillHolders
      BY <1>1, <1>2, <1>3, <2>1, <2>6 DEF PillHolders
    <3>2. Cardinality(PillHolders') = Cardinality(PillHolders) + 1
      BY <3>1, PayTypes, FS_AddElement
    <3>3. Pills(tasks_queue) = Pills(tasks_queue') + 1
      BY <2>3, <2>6
    <3>4. Paid' = Paid - 0 /\ Paid' \in Nat
      BY <2>5, <3>2, <3>3, PayTypes DEF Paid
    <3>5. Owed' = Owed - 0
      BY <2>2, PayTypes DEF Owed
    <3> QED
      BY <1>2, <2>1, <3>4, <3>5, PaidBalance DEF NoDeath
  <2>7. CASE Head(tasks_queue) # Finish
    <3>1. PillHolders' = PillHolders
      BY <1>1, <1>2, <1>3, <2>1, <2>7 DEF PillHolders
    <3>2. Pills(tasks_queue) = Pills(tasks_queue')
      BY <2>3, <2>5, <2>7
    <3>3. Paid' = Paid - 0 /\ Paid' \in Nat
      BY <3>1, <3>2, PayTypes DEF Paid
    <3>4. Owed' = Owed - 0
      BY <2>2, PayTypes DEF Owed
    <3> QED
      BY <1>2, <2>1, <3>3, <3>4, PaidBalance DEF NoDeath
  <2> QED
    BY <2>6, <2>7
<1>5. CASE NextProxy(w) /\ wtask[w] = Finish
  <2>1. /\ wpc[w] = "proxy" /\ wpc' = [wpc EXCEPT ![w] = "none"]
        /\ UNCHANGED <<wtask, tasks_queue, happened>>
    BY <1>5 DEF NextProxy, queueVars
  <2>2. /\ Living' = Living \ {w} /\ w \in Living
        /\ PillHolders' = PillHolders \ {w} /\ w \in PillHolders
    BY <1>1, <1>2, <1>3, <1>5, <2>1 DEF Living, Alive, PillHolders
  <2>3. /\ Cardinality(Living') = Cardinality(Living) - 1
        /\ Cardinality(PillHolders') = Cardinality(PillHolders) - 1
        /\ IsFiniteSet(PillHolders')
    BY <2>2, PayTypes, FS_RemoveElement
  <2>4. Cardinality(PillHolders') \in Nat
    BY <2>3, FS_CardinalityType
  <2>5. Paid' = Paid - 1 /\ Paid' \in Nat
    BY <2>1, <2>3, <2>4, PayTypes DEF Paid
  <2>6. Owed' = Owed - 1
    BY <2>3 DEF Owed
  <2> QED
    BY <1>2, <2>1, <2>5, <2>6, PaidBalance DEF NoDeath
<1>6. CASE SaveFails(w)
  <2>1. /\ wpc[w] = "save" /\ wpc' = [wpc EXCEPT ![w] = "none"]
        /\ wtask' = [wtask EXCEPT ![w] = Finish] /\ UNCHANGED tasks_queue
        /\ happened' = [happened EXCEPT !["death"] = @ + 1]
    BY <1>6 DEF SaveFails, Spend, queueVars
  <2>2. Living' = Living \ {w} /\ w \in Living /\ PillHolders' = PillHolders
    BY <1>1, <1>2, <1>3, <2>1 DEF Living, Alive, PillHolders
  <2>3. Owed' = Owed - 1
    BY <2>2, PayTypes, FS_RemoveElement DEF Owed
  <2>4. Paid' = Paid - 0 /\ Paid' \in Nat
    BY <2>1, <2>2, PayTypes DEF Paid
  <2>5. ~NoDeath'
    BY <1>1, <2>1 DEF NoDeath, Events
  <2> QED
    BY <1>2, <2>3, <2>4, <2>5, PaidBalance
<1>7. CASE \/ NextProxy(w) /\ wtask[w] # Finish
           \/ Fetch(w) \/ Save(w)
  <2>1. /\ wpc[w] \in {"proxy", "fetch", "save"} /\ (wpc[w] = "proxy" => wtask[w] # Finish)
        /\ \E l \in {"fetch", "save", "get"} : wpc' = [wpc EXCEPT ![w] = l]
        /\ \A v \in Workers : v # w => wtask'[v] = wtask[v]
    BY <1>1, <1>7 DEF NextProxy, Fetch, FetchOk, FetchBad, FetchFail, Save
  <2>2. Living' = Living
    BY <1>1, <1>2, <1>3, <2>1 DEF Living, Alive
  <2>3. PillHolders' = PillHolders
    BY <1>1, <1>2, <2>1 DEF PillHolders
  <2>4. Pills(tasks_queue') = Pills(tasks_queue)
    <3>1. CASE FetchFail(w)
      <4>1. tasks_queue' = Append(tasks_queue, wtask[w]) /\ wpc[w] = "fetch"
        BY <3>1 DEF FetchFail
      <4>2. wtask[w] \in Strings /\ wtask[w] # Finish
        BY <1>1, <4>1, CrcAssumption DEF TypeInv
      <4>3. Pills(Append(tasks_queue, wtask[w])) = Pills(tasks_queue) + 0
        BY <1>1, <4>2, PillsCounted
      <4> QED
        BY <4>1, <4>3, PayTypes
    <3>2. CASE ~FetchFail(w)
      BY <1>7, <3>2 DEF NextProxy, Fetch, FetchOk, FetchBad, Save, queueVars
    <3> QED
      BY <3>1, <3>2
  <2>5. NoDeath' => NoDeath
    BY <1>1, <1>7 DEF NextProxy, Fetch, FetchOk, FetchBad, FetchFail, Save, Spend, NoDeath, Events
  <2>6. Paid' = Paid - 0 /\ Paid' \in Nat /\ Owed' = Owed - 0
    BY <2>2, <2>3, <2>4, PayTypes DEF Paid, Owed
  <2> QED
    BY <1>2, <2>5, <2>6, PaidBalance
<1> QED
  BY <1>4, <1>5, <1>6, <1>7 DEF Worker

\* A step that leaves the accounts alone and ends outside the handlers' loops.
LEMMA StayBalance ==
  ASSUME TypeInv, Balance, ~Killing, UNCHANGED <<wpc, wtask, workers, workers_cnt, tasks_queue>>,
         NoDeath' => NoDeath,
         stack' # <<>> => pc'[Head(stack')] \notin OrderLabels \cup {"join"}
  PROVE  Balance'
<1>1. ~Killing'
  BY DEF Killing, OrderLabels
<1>2. Owed' = Owed /\ Paid' = Paid
  BY DEF Owed, Paid, Living, PillHolders, Alive
<1> QED
  BY <1>1, <1>2, IdleBalance DEF Balance, OrderLabels

\* run() and the restart count with cnt no less than the workers there are.
LEMMA CountedBalance ==
  ASSUME TypeInv, Balance, ~Killing, stack # <<>>, NEW cnt \in Nat, Owed <= cnt, workers_cnt' = cnt,
         NEW label \in {"order", "restart"}, PutInOrder(Head(stack), cnt, label),
         UNCHANGED <<stack, wpc, wtask, tasks_queue, happened>>
  PROVE  Balance'
<1> DEFINE f == Head(stack)
<1>1. /\ workers' = {w \in workers : Alive(w)}
      /\ excess' = [excess EXCEPT ![f] = Cardinality(workers') - cnt]
      /\ pc' = [pc EXCEPT ![f] = label]
  BY DEF PutInOrder, Goto
<1>2. f \in Frames /\ pc \in [Frames -> Labels] /\ excess \in [Frames -> Int]
  BY DEF TypeInv, TypeOK
<1>3. Head(stack') = f /\ stack' # <<>>
  OBVIOUS
<1> HIDE DEF f
<1>4. Living' = Living /\ Living = workers' /\ PillHolders' = PillHolders
  BY <1>1, PruneBalance
<1>5. pc'[f] = label /\ excess'[f] = Owed - cnt
  BY <1>1, <1>2, <1>4 DEF Owed
<1>6. ~Killing'
  BY <1>3, <1>5 DEF Killing
<1>7. Owed' = Owed /\ Paid' = Paid
  BY <1>4 DEF Owed, Paid
<1>8. excess'[f] <= 0
  BY <1>5, PayTypes
<1> QED
  BY <1>3, <1>6, <1>7, <1>8, IdleBalance DEF Balance, NoDeath

LEMMA KillBalance ==
  ASSUME TypeInv, Balance, NEW f \in {"int", "term"}, Kill(f)
  PROVE  Balance'
<1>1. /\ stack # <<>> /\ Head(stack) = f /\ pc[f] = "empty" /\ tasks_queue = <<>>
      /\ workers' = {w \in workers : Alive(w)}
      /\ excess' = [excess EXCEPT ![f] = Cardinality(workers') - 0]
      /\ pc' = [pc EXCEPT ![f] = "kill"]
      /\ UNCHANGED <<stack, wpc, wtask, tasks_queue, happened>>
  BY DEF Kill, At, Running, PutInOrder, Goto, threadVars, queueVars
<1>2. f \in Frames /\ pc \in [Frames -> Labels] /\ excess \in [Frames -> Int]
  BY DEF TypeInv, TypeOK, Frames
<1>3. Living' = Living /\ Living = workers' /\ PillHolders' = PillHolders
  BY <1>1, PruneBalance
<1>4. pc'[f] = "kill" /\ excess'[f] = Owed
  <2>1. excess'[f] = Owed - 0
    BY <1>1, <1>2, <1>3 DEF Owed
  <2> QED
    BY <1>1, <1>2, <2>1, PayTypes
<1>5. Killing' /\ Promised' = Owed
  BY <1>1, <1>4 DEF Killing, Promised
<1>6. Owed' = Owed /\ Paid' = Paid
  BY <1>1, <1>3 DEF Owed, Paid
<1>7. ~Killing
  BY <1>1 DEF Killing
<1>8. NoDeath' = NoDeath
  BY <1>1 DEF NoDeath
<1>9. Promised' >= 0 /\ Paid' + Promised' >= Owed' /\ (NoDeath' => Paid' + Promised' = Owed')
  BY <1>5, <1>6, <1>7, <1>8, PayTypes DEF Balance
<1>10. pc'[Head(stack')] = "kill"
  BY <1>1, <1>4
<1> QED
  BY <1>5, <1>9, <1>10 DEF Balance

LEMMA PillBalance ==
  ASSUME TypeInv, Balance, NEW f \in Frames, Pill(f)
  PROVE  Balance'
<1>1. /\ stack # <<>> /\ Head(stack) = f /\ pc[f] \in OrderLabels /\ excess[f] > 0
      /\ tasks_queue' = Append(tasks_queue, Finish)
      /\ excess' = [excess EXCEPT ![f] = @ - 1]
      /\ UNCHANGED <<stack, pc, wpc, wtask, workers, happened>>
  BY DEF Pill, InOrder, Running, threadVars, poolVars
<1>2. excess[f] \in Int /\ excess'[f] = excess[f] - 1 /\ tasks_queue \in Seq(Strings)
  BY <1>1 DEF TypeInv, TypeOK
<1>3. pc[f] = "kill"
  <2>1. ~(excess[f] <= 0)
    BY <1>1, <1>2
  <2> QED
    BY <1>1, <2>1 DEF Balance, OrderLabels
<1>4. Killing /\ Killing' /\ Promised = excess[f] /\ Promised' = excess[f] - 1
  BY <1>1, <1>2, <1>3 DEF Killing, Promised
<1>5. Pills(tasks_queue') = Pills(tasks_queue) + 1
  BY <1>1, <1>2, ConstantFacts, PillsCounted
<1>6. Owed' = Owed /\ PillHolders' = PillHolders
  BY <1>1 DEF Owed, Living, PillHolders, Alive
<1>7. Paid' = Paid + 1
  BY <1>5, <1>6, PayTypes DEF Paid
<1>8. NoDeath' = NoDeath
  BY <1>1 DEF NoDeath
<1>9. /\ Promised' >= 0 /\ Paid' + Promised' >= Owed'
      /\ NoDeath' => Paid' + Promised' = Owed'
  <2>1. Paid + Promised >= Owed /\ (NoDeath => Paid + Promised = Owed)
    BY <1>4 DEF Balance
  <2>2. Promised \in Int /\ Promised > 0 /\ Promised' = Promised - 1
    BY <1>1, <1>2, <1>4
  <2>3. Paid \in Nat /\ Owed \in Nat
    BY PayTypes
  <2>4. Paid' + Promised' = Paid + Promised
    BY <1>7, <2>2, <2>3
  <2> QED
    BY <1>6, <1>8, <2>1, <2>2, <2>4
<1>10. pc'[Head(stack')] = "kill"
  BY <1>1, <1>3
<1> QED
  BY <1>4, <1>9, <1>10 DEF Balance

LEMMA SpawnBalance ==
  ASSUME TypeInv, Pool, Balance, NEW f \in Frames, Spawn(f)
  PROVE  Balance'
<1>1. /\ stack # <<>> /\ Head(stack) = f /\ pc[f] \in OrderLabels /\ excess[f] < 0
      /\ excess' = [excess EXCEPT ![f] = @ + 1]
      /\ UNCHANGED <<stack, pc, tasks_queue, wtask, workers_cnt, happened>>
  BY DEF Spawn, InOrder, Running, queueVars
<1>2. PICK w \in Workers \ workers : /\ ~Alive(w) /\ workers' = workers \cup {w}
                                     /\ wpc' = [wpc EXCEPT ![w] = "get"]
  BY DEF Spawn
<1>3. /\ excess[f] \in Int /\ excess'[f] = excess[f] + 1 /\ workers_cnt \in Nat
      /\ workers \subseteq Workers
      /\ wpc \in [Workers -> {"none", "get", "proxy", "fetch", "save"}]
  BY <1>1 DEF TypeInv, TypeOK
<1>4. pc[f] # "kill"
  <2>1. ~(excess[f] >= 0)
    BY <1>1, <1>3
  <2> QED
    BY <1>1, <2>1 DEF Balance, Killing, Promised
<1>5. ~Killing /\ ~Killing'
  BY <1>1, <1>4 DEF Killing, OrderLabels
<1>6. PillHolders' = PillHolders
  BY <1>1, <1>2, <1>3 DEF PillHolders, Alive
<1>7. Living' \subseteq workers' /\ workers' \in SUBSET Workers
  BY <1>2, <1>3 DEF Living
<1>8. Owed' <= Cardinality(workers')
  BY <1>7, PayTypes, FS_Subset DEF Owed
<1>9. Cardinality(workers') = Cardinality(workers) + 1
  BY <1>2, <1>3, PayTypes, FS_AddElement
<1>10. Cardinality(workers) = workers_cnt + excess[f] /\ Cardinality(workers) \in Nat
  BY <1>1, <1>3, PayTypes DEF Pool, ToSpawn
<1>11. Owed' \in Nat
  <2>1. Living' \in SUBSET Workers
    BY <1>7
  <2> QED
    BY <2>1, PayTypes DEF Owed
<1>12. Owed' <= workers_cnt'
  BY <1>1, <1>3, <1>8, <1>9, <1>10, <1>11
<1>13. Paid' = Paid
  BY <1>1, <1>6 DEF Paid
<1>14. excess'[f] <= 0
  BY <1>1, <1>3
<1> QED
  BY <1>1, <1>5, <1>12, <1>13, <1>14, IdleBalance DEF Balance, NoDeath

LEMMA SetTaskBalance ==
  ASSUME TypeInv, Balance, Clean, NEW f \in Frames, SetTask(f)
  PROVE  Balance'
<1>1. /\ stack # <<>> /\ Head(stack) = f /\ pc[f] \in {"load", "put"} /\ todo[f] # <<>>
      /\ tasks_queue' \in {tasks_queue, Append(tasks_queue, Head(todo[f]))}
      /\ UNCHANGED <<stack, pc, excess, wpc, wtask, workers, workers_cnt, happened>>
  BY DEF SetTask, Running, threadVars, poolVars
<1>2. tasks_queue \in Seq(Strings) /\ todo[f] \in Seq(Strings)
  BY DEF TypeInv, TypeOK
<1>3. ~Killing /\ ~Killing'
  BY <1>1 DEF Killing
<1>4. Owed' = Owed /\ PillHolders' = PillHolders
  BY <1>1 DEF Owed, Living, PillHolders, Alive
<1>5. ASSUME NoDeath PROVE Paid' = 0
  <2>1. Head(todo[f]) = todo[f][1] /\ 1 \in DOMAIN todo[f] /\ Head(todo[f]) \in Strings
    BY <1>1, <1>2
  <2>2. Head(todo[f]) # Finish
    BY <1>5, <2>1 DEF Clean, NoPill
  <2>3. Pills(Append(tasks_queue, Head(todo[f]))) = Pills(tasks_queue) + 0
    BY <1>2, <2>1, <2>2, PillsCounted
  <2>4. Pills(Append(tasks_queue, Head(todo[f]))) = Pills(tasks_queue)
    BY <2>3, PayTypes
  <2>5. Pills(tasks_queue') = Pills(tasks_queue)
    <3>1. CASE tasks_queue' = tasks_queue
      BY <3>1
    <3>2. CASE tasks_queue' = Append(tasks_queue, Head(todo[f]))
      BY <2>4, <3>2
    <3> QED
      BY <1>1, <3>1, <3>2
  <2>6. Paid' = Paid
    BY <1>4, <2>5 DEF Paid
  <2> QED
    BY <1>3, <1>5, <2>6 DEF Balance
<1> QED
  BY <1>1, <1>3, <1>4, <1>5, IdleBalance DEF Balance, NoDeath

LEMMA DoneBalance ==
  ASSUME TypeInv, Stop, Balance, NEW f \in Frames, InOrderDone(f)
  PROVE  Balance'
<1>1. /\ stack # <<>> /\ Head(stack) = f /\ Running(f) /\ excess[f] = 0
      /\ UNCHANGED <<tasks_queue, wpc, wtask, workers, workers_cnt, excess, happened>>
      /\ pc \in [Frames -> Labels]
  BY DEF InOrderDone, InOrder, Running, threadVars, poolVars, queueVars, TypeInv, TypeOK
<1>2. Owed' = Owed /\ Paid' = Paid
  BY <1>1 DEF Owed, Paid, Living, PillHolders, Alive
<1>3. CASE pc[f] = "order"
  <2>1. UNCHANGED stack /\ \E l \in {"exited", "get"} : pc' = [pc EXCEPT ![f] = l]
    BY <1>3 DEF InOrderDone, Goto
  <2>2. pc'[Head(stack')] \notin OrderLabels \cup {"join"}
    BY <1>1, <2>1 DEF OrderLabels
  <2>3. ~Killing
    BY <1>1, <1>3 DEF Killing
  <2> QED
    BY <1>1, <2>2, <2>3, StayBalance DEF NoDeath
<1>4. CASE pc[f] = "kill"
  <2>1. UNCHANGED stack /\ pc' = [pc EXCEPT ![f] = "join"]
    BY <1>4 DEF InOrderDone, Goto
  <2>2. pc'[Head(stack')] = "join" /\ stack' # <<>>
    BY <1>1, <2>1
  <2>3. Killing /\ Killing' /\ Promised = 0 /\ Promised' = 0
    BY <1>1, <1>4, <2>2 DEF Killing, Promised
  <2>4. NoDeath' = NoDeath
    BY <1>1 DEF NoDeath
  <2> QED
    BY <1>2, <2>2, <2>3, <2>4 DEF Balance
<1>5. CASE pc[f] = "restart"
  <2>1. stack' = Tail(stack) /\ pc' = [pc EXCEPT ![f] = "exited"]
    BY <1>5 DEF InOrderDone, Goto
  <2>2. f \in {"int", "term"}
    BY <1>5 DEF Stop, Shape, RunLabels, QuietLabels, Frames
  <2>3. stack' = <<"run">> /\ pc["run"] \in QuietLabels
    BY <1>1, <2>1, <2>2, ShapeFacts DEF Stop
  <2>4. Head(stack') = "run"
    BY <2>3
  <2>5. pc'[Head(stack')] \in QuietLabels
    BY <1>1, <2>1, <2>2, <2>3, <2>4 DEF Frames
  <2>6. ~Killing
    BY <1>1, <1>5 DEF Killing
  <2> QED
    BY <1>1, <2>5, <2>6, StayBalance DEF QuietLabels, OrderLabels, NoDeath
<1> QED
  BY <1>3, <1>4, <1>5 DEF InOrderDone

\* The handler has seen the end of every worker: nothing is owed any more.
LEMMA JoinedBalance ==
  ASSUME TypeInv, Balance, NEW f \in {"int", "term"}, Joined(f),
         UNCHANGED <<wpc, wtask, workers, workers_cnt, tasks_queue, happened>>,
         stack' # <<>> => pc'[Head(stack')] \notin OrderLabels \cup {"join"}
  PROVE  Balance'
<1>1. stack # <<>> /\ Head(stack) = f /\ pc[f] = "join" /\ \A w \in workers : ~Alive(w)
  BY DEF Joined, At, Running
<1>2. Killing /\ Promised = 0
  BY <1>1 DEF Killing, Promised
<1>3. Owed = 0
  <2>1. Living = {}
    BY <1>1 DEF Living
  <2> QED
    BY <2>1, FS_EmptySet DEF Owed
<1>4. Owed' = Owed /\ Paid' = Paid
  BY DEF Owed, Paid, Living, PillHolders, Alive
<1>5. NoDeath => Paid = 0
  BY <1>2, <1>3, PayTypes DEF Balance
<1>6. Owed' <= workers_cnt'
  BY <1>3, <1>4 DEF TypeInv, TypeOK
<1>7. ~Killing'
  BY DEF Killing, OrderLabels
<1> QED
  BY <1>4, <1>5, <1>6, <1>7, IdleBalance DEF NoDeath, OrderLabels

LEMMA DrainBalance ==
  ASSUME TypeInv, Balance, NEW f \in {"int", "term"}, Drain(f)
  PROVE  Balance' /\ (NoDeath => Head(tasks_queue) # Finish)
<1>1. /\ stack # <<>> /\ Head(stack) = f /\ pc[f] = "drain" /\ tasks_queue # <<>>
      /\ tasks_queue' = Tail(tasks_queue) /\ pc' = [pc EXCEPT ![f] = "empty"]
      /\ UNCHANGED <<stack, excess, wpc, wtask, workers, workers_cnt, happened>>
      /\ pc \in [Frames -> Labels] /\ tasks_queue \in Seq(Strings) /\ f \in Frames
  BY DEF Drain, At, Running, Goto, threadVars, poolVars, TypeInv, TypeOK, Frames
<1>2. ~Killing /\ ~Killing' /\ pc'[f] = "empty" /\ Head(stack') = f
  BY <1>1 DEF Killing
<1>3. Owed' = Owed /\ PillHolders' = PillHolders
  BY <1>1 DEF Owed, Living, PillHolders, Alive
<1>4. ASSUME NoDeath PROVE Paid' = 0 /\ Head(tasks_queue) # Finish
  <2>1. Paid = 0
    BY <1>2, <1>4 DEF Balance
  <2>2. Pills(tasks_queue) = 0 /\ Cardinality(PillHolders) = 0
    BY <2>1, PayTypes DEF Paid
  <2>3. \A i \in DOMAIN tasks_queue : tasks_queue[i] # Finish
    BY <1>1, <2>2, PillsCounted
  <2>4. Head(tasks_queue) # Finish
    <3>1. 1 \in DOMAIN tasks_queue /\ Head(tasks_queue) = tasks_queue[1]
      BY <1>1
    <3> QED
      BY <2>3, <3>1
  <2>5. Tail(tasks_queue) \in Seq(Strings)
    BY <1>1
  <2>6. Pills(tasks_queue') \in Nat
    BY <1>1, <2>5, PillsCounted
  <2>7. Pills(tasks_queue) = Pills(tasks_queue') + 0
    BY <1>1, <2>4, PillsCounted
  <2>8. Pills(tasks_queue') = 0
    BY <2>2, <2>6, <2>7
  <2> QED
    BY <1>3, <2>2, <2>4, <2>8 DEF Paid
<1> QED
  BY <1>1, <1>2, <1>3, <1>4, IdleBalance DEF Balance, NoDeath

LEMMA StartBalance ==
  ASSUME TypeInv, Balance, Start
  PROVE  Balance'
<1>1. PICK pool \in kSubset(WorkersCnt, Workers) :
         /\ workers' = pool
         /\ wpc' = [w \in Workers |-> IF w \in pool THEN "get" ELSE "none"]
  BY DEF Start
<1>2. pool \in SUBSET Workers /\ Cardinality(pool) = WorkersCnt
  BY ConfigAssumption DEF kSubset
<1>3. /\ stack = <<>> /\ workers_cnt' = WorkersCnt /\ stack' = <<"run">>
      /\ pc' = [pc EXCEPT !["run"] = "load"] /\ UNCHANGED <<tasks_queue, happened>>
      /\ pc \in [Frames -> Labels]
  BY DEF Start, Goto, queueVars, TypeInv, TypeOK
<1>4. pc'["run"] = "load" /\ Head(stack') = "run"
  BY <1>3 DEF Frames
<1>5. ~Killing /\ ~Killing'
  BY <1>3, <1>4 DEF Killing
<1>6. Living' \subseteq pool
  BY <1>1 DEF Living
<1>7. Owed' <= workers_cnt'
  BY <1>2, <1>3, <1>6, PayTypes, FS_Subset DEF Owed
<1>8. PillHolders' = {}
  BY <1>1, <1>2 DEF PillHolders
<1>9. Paid' = Pills(tasks_queue)
  BY <1>3, <1>8, FS_EmptySet, PayTypes DEF Paid
<1>10. NoDeath' => Paid' = 0
  BY <1>3, <1>5, <1>9, PayTypes DEF Balance, Paid, NoDeath
<1> QED
  BY <1>4, <1>5, <1>7, <1>10, IdleBalance

LEMMA DownBalance ==
  ASSUME Down
  PROVE  Balance'
<1>1. /\ tasks_queue' = <<>> /\ stack' = <<>> /\ workers' = {} /\ workers_cnt' = 0
  BY DEF Down
<1>2. Living' = {} /\ PillHolders' = {}
  BY <1>1 DEF Living, PillHolders
<1>3. Pills(tasks_queue') = 0
  BY <1>1, NoPills
<1>4. Owed' = 0 /\ Paid' = 0
  BY <1>2, <1>3, FS_EmptySet DEF Owed, Paid
<1>5. ~Killing'
  BY <1>1 DEF Killing
<1> QED
  BY <1>1, <1>4, <1>5, IdleBalance

LEMMA InitBalance == Init => Balance
<1> SUFFICES ASSUME Init PROVE Balance
  OBVIOUS
<1>1. /\ tasks_queue = <<>> /\ stack = <<>> /\ workers = {} /\ workers_cnt = 0
  BY DEF Init
<1>2. Living = {} /\ PillHolders = {}
  BY <1>1 DEF Living, PillHolders
<1>3. Owed = 0 /\ Paid = 0
  BY <1>1, <1>2, NoPills, FS_EmptySet DEF Owed, Paid
<1> QED
  BY <1>1, <1>3 DEF Balance, Killing

LEMMA InterruptBalance ==
  ASSUME QuietSignals, TypeInv, Balance, NEW f \in {"int", "term"}, Interrupt(f),
         UNCHANGED <<wpc, wtask, workers, workers_cnt, tasks_queue>>
  PROVE  Balance'
<1>1. stack # <<>> /\ stack' = <<f>> \o stack /\ pc' = [pc EXCEPT ![f] = "empty"]
  BY DEF Interrupt, Goto
<1>2. pc[Head(stack)] \in QuietLabels
  <2>1. <<Head(stack), pc[Head(stack)]>>[2] \in QuietLabels
    BY DEF Interrupt, QuietSignals
  <2> QED
    BY <2>1
<1>3. stack \in Seq(Frames) /\ f \in Frames /\ pc \in [Frames -> Labels]
  BY DEF TypeInv, TypeOK, Frames
<1>4. Head(stack') = f /\ pc'[f] = "empty"
  BY <1>1, <1>3, StackPushed
<1>5. ~Killing
  BY <1>2 DEF Killing, QuietLabels
<1>6. NoDeath' => NoDeath
  BY DEF Interrupt, Spend, NoDeath, TypeInv, TypeOK, Events
<1> QED
  BY <1>4, <1>5, <1>6, StayBalance DEF OrderLabels

LEMMA LoopBalance ==
  ASSUME TypeInv, Balance,
         GetResult \/ Commit \/ CommitFlush \/ SetTasksDone \/ Saving \/ CheckWorkers \/ LoadProxies
  PROVE  Balance'
<1>1. /\ stack # <<>> /\ Head(stack) = "run" /\ pc \in [Frames -> Labels]
      /\ pc["run"] \in {"get", "commit", "flush", "put", "saving", "check", "load"}
      /\ UNCHANGED <<stack, tasks_queue, wpc, wtask, workers_cnt, happened>>
  BY DEF GetResult, Commit, CommitFlush, SetTasksDone, Saving, CheckWorkers, LoadProxies,
         At, Running, poolVars, threadVars, queueVars, TypeInv, TypeOK
<1>2. ~Killing
  BY <1>1 DEF Killing
<1>3. CASE ~CheckWorkers
  <2>1. /\ UNCHANGED workers
        /\ \E l \in {"saving", "commit", "check", "flush", "put", "get"} :
              pc' = [pc EXCEPT !["run"] = l]
    BY <1>3 DEF GetResult, Commit, CommitFlush, SetTasksDone, Saving, LoadProxies, Goto, poolVars
  <2>2. pc'[Head(stack')] \notin OrderLabels \cup {"join"}
    BY <1>1, <2>1 DEF OrderLabels, Frames
  <2> QED
    BY <1>1, <1>2, <2>1, <2>2, StayBalance DEF NoDeath
<1>4. CASE CheckWorkers
  <2>1. CASE PutInOrder("run", workers_cnt, "order")
    <3>1. Owed <= workers_cnt /\ workers_cnt \in Nat
      BY <1>2 DEF Balance, TypeInv, TypeOK
    <3> QED
      BY <1>1, <1>2, <2>1, <3>1, CountedBalance
  <2>2. CASE UNCHANGED workers /\ \E l \in {"exited", "get"} : pc' = [pc EXCEPT !["run"] = l]
    <3>1. pc'[Head(stack')] \notin OrderLabels \cup {"join"}
      BY <1>1, <2>2 DEF OrderLabels, Frames
    <3> QED
      BY <1>1, <1>2, <2>2, <3>1, StayBalance DEF NoDeath
  <2> QED
    BY <1>4, <2>1, <2>2 DEF CheckWorkers, Goto
<1> QED
  BY <1>3, <1>4

LEMMA HandlersBalance ==
  ASSUME TypeInv, Pool, Stop, Balance,
         \/ \E f \in {"int", "term"} : NotEmpty(f) \/ Drain(f) \/ Kill(f)
         \/ TermReturn \/ Reload \/ Restart
  PROVE  Balance'
<1>1. pc \in [Frames -> Labels] /\ {"int", "term"} \subseteq Frames /\ "run" \in Frames
  BY DEF TypeInv, TypeOK, Frames
<1>2. ASSUME NEW f \in {"int", "term"}, NotEmpty(f) PROVE Balance'
  <2>1. /\ stack # <<>> /\ Head(stack) = f /\ pc[f] = "empty" /\ pc' = [pc EXCEPT ![f] = "drain"]
        /\ UNCHANGED <<stack, tasks_queue, wpc, wtask, workers, workers_cnt, happened>>
    BY <1>2 DEF NotEmpty, At, Running, Goto, poolVars, threadVars, queueVars
  <2>2. ~Killing /\ pc'[Head(stack')] = "drain"
    BY <1>1, <2>1 DEF Killing
  <2> QED
    BY <2>1, <2>2, StayBalance DEF NoDeath, OrderLabels
<1>3. CASE TermReturn
  <2>1. /\ Running("term") /\ stack' = Tail(stack) /\ pc' = [pc EXCEPT !["term"] = "exited"]
        /\ UNCHANGED <<tasks_queue, wpc, wtask, workers, workers_cnt, happened>> /\ Joined("term")
    BY <1>3 DEF TermReturn, Joined, At, Goto, poolVars, threadVars
  <2>2. stack' = <<"run">> /\ pc["run"] \in QuietLabels
    BY <2>1, ShapeFacts DEF Stop
  <2>3. Head(stack') = "run"
    BY <2>2
  <2>4. pc'[Head(stack')] \in QuietLabels
    BY <1>1, <2>1, <2>2, <2>3
  <2> QED
    BY <2>1, <2>4, JoinedBalance DEF QuietLabels, OrderLabels
<1>4. CASE Reload
  <2>1. /\ stack # <<>> /\ Head(stack) = "int" /\ pc' = [pc EXCEPT !["int"] = "put"]
        /\ UNCHANGED <<stack, tasks_queue, wpc, wtask, workers, workers_cnt, happened>>
        /\ Joined("int")
    BY <1>4 DEF Reload, Joined, At, Running, Goto, poolVars, threadVars
  <2>2. pc'[Head(stack')] = "put"
    BY <1>1, <2>1
  <2> QED
    BY <2>1, <2>2, JoinedBalance DEF OrderLabels
<1>5. CASE Restart
  <2>1. /\ stack # <<>> /\ Head(stack) = "int" /\ pc["int"] = "put" /\ Running("int")
        /\ workers_cnt' = kept_cnt /\ PutInOrder("int", kept_cnt, "restart")
        /\ UNCHANGED <<stack, tasks_queue, wpc, wtask, happened>>
    BY <1>5 DEF Restart, At, Running, threadVars, queueVars
  <2>2. ~Killing
    BY <2>1 DEF Killing
  <2>3. workers_cnt = 0
    BY <2>1 DEF Stop
  <2>4. kept_cnt \in Nat /\ Owed <= kept_cnt
    <3>1. kept_cnt \in Nat /\ Owed <= 0
      BY <2>2, <2>3 DEF Balance, TypeInv, TypeOK
    <3> QED
      BY <3>1, PayTypes
  <2> QED
    BY <2>1, <2>2, <2>4, CountedBalance
<1> QED
  BY <1>2, <1>3, <1>4, <1>5, DrainBalance, KillBalance

LEMMA NextBalance ==
  QuietSignals /\ TypeInv /\ Pool /\ Stop /\ Balance /\ Clean /\ [Next]_vars => Balance'
<1> SUFFICES ASSUME QuietSignals, TypeInv, Pool, Stop, Balance, Clean, [Next]_vars PROVE Balance'
  OBVIOUS
<1>1. CASE UNCHANGED vars
  BY <1>1 DEF vars, frameVars, queueVars, threadVars, poolVars, Balance, Killing, Promised,
              Paid, Owed, Living, PillHolders, Alive, NoDeath
<1>2. CASE Main
  BY <1>2, LoopBalance, HandlersBalance, SetTaskBalance, PillBalance, SpawnBalance, DoneBalance,
     StartBalance, DownBalance DEF Main, Exit
<1>3. CASE SIGINT \/ SIGTERM
  <2>1. UNCHANGED <<wpc, wtask, workers, workers_cnt, tasks_queue>>
    BY <1>3 DEF SIGINT, SIGTERM, poolVars, threadVars, queueVars
  <2>2. \E f \in {"int", "term"} : Interrupt(f)
    BY <1>3 DEF SIGINT, SIGTERM
  <2> QED
    BY <2>1, <2>2, InterruptBalance
<1>4. CASE Crash
  BY <1>4, DownBalance DEF Crash
<1> QED
  BY <1>1, <1>2, <1>3, <1>4, WorkerBalance DEF Next

LEMMA StayClean ==
  ASSUME Clean, NoDeath' => NoDeath, UNCHANGED <<tasks_file, drained, todo>>
  PROVE  Clean'
  BY DEF Clean, NoPill

LEMMA NoPillFacts ==
  /\ NoPill(<<>>)
  /\ \A q \in Seq(Strings) : q # <<>> /\ NoPill(q) => NoPill(Tail(q))
  /\ \A q \in Seq(Strings), x \in Strings : NoPill(q) /\ x # Finish => NoPill(Append(q, x))
  /\ \A q \in Seq(Tasks) : NoPill(q)
<1>1. NoPill(<<>>)
  BY DEF NoPill
<1>2. ASSUME NEW q \in Seq(Strings), q # <<>>, NoPill(q) PROVE NoPill(Tail(q))
  <2>1. /\ DOMAIN q = 1 .. Len(q) /\ Len(q) \in Nat
        /\ DOMAIN Tail(q) = 1 .. Len(q) - 1
        /\ \A i \in 1 .. Len(q) - 1 : Tail(q)[i] = q[i + 1] /\ i + 1 \in 1 .. Len(q)
    BY <1>2
  <2> QED
    BY <1>2, <2>1 DEF NoPill
<1>3. ASSUME NEW q \in Seq(Strings), NEW x \in Strings, NoPill(q), x # Finish
      PROVE  NoPill(Append(q, x))
  <2> DEFINE longer == Append(q, x)
  <2>1. /\ DOMAIN longer = 1 .. Len(q) + 1 /\ DOMAIN q = 1 .. Len(q) /\ Len(q) \in Nat
        /\ \A i \in 1 .. Len(q) : longer[i] = q[i]
        /\ longer[Len(q) + 1] = x
    OBVIOUS
  <2> HIDE DEF longer
  <2>2. NoPill(longer)
    BY <1>3, <2>1 DEF NoPill
  <2> QED
    BY <2>2 DEF longer
<1>4. ASSUME NEW q \in Seq(Tasks) PROVE NoPill(q)
  BY CrcAssumption DEF NoPill
<1> QED
  BY <1>1, <1>2, <1>3, <1>4

\* A change of what one frame has in hand.
LEMMA FrameClean ==
  ASSUME Clean, TypeInv, NoDeath' => NoDeath, NEW f \in Frames, NEW q,
         NoDeath => NoPill(q),
         NoDeath => NoPill(tasks_file'),
         \/ todo' = [todo EXCEPT ![f] = q] /\ (UNCHANGED drained \/ drained' = [drained EXCEPT ![f] = <<>>])
         \/ UNCHANGED todo /\ drained' = [drained EXCEPT ![f] = q]
  PROVE  Clean'
<1>1. todo \in [Frames -> Seq(Strings)] /\ drained \in [Frames -> Seq(Strings)]
  BY DEF TypeInv, TypeOK
<1>2. ASSUME NoDeath, NEW g \in Frames PROVE NoPill(todo'[g]) /\ NoPill(drained'[g])
  <2>1. todo'[g] \in {todo[g], q} /\ drained'[g] \in {drained[g], q, <<>>}
    BY <1>1
  <2> QED
    BY <1>2, <2>1, NoPillFacts DEF Clean
<1> QED
  BY <1>2 DEF Clean, NoPill

LEMMA InitClean == Init => Clean
<1> SUFFICES ASSUME Init PROVE Clean
  OBVIOUS
<1>1. /\ tasks_file = Seeds /\ Seeds \in Seq(Tasks)
      /\ todo = [f \in Frames |-> <<>>] /\ drained = [f \in Frames |-> <<>>]
  BY PagesAssumption DEF Init
<1> QED
  BY <1>1, NoPillFacts DEF Clean

LEMMA DownClean ==
  ASSUME Clean, Down, NoDeath' => NoDeath
  PROVE  Clean'
<1>1. /\ UNCHANGED tasks_file
      /\ todo' = [f \in Frames |-> <<>>] /\ drained' = [f \in Frames |-> <<>>]
  BY DEF Down, fileVars
<1>2. \A f \in Frames : NoPill(todo'[f]) /\ NoPill(drained'[f])
  BY <1>1, NoPillFacts
<1>3. NoDeath => NoPill(tasks_file')
  BY <1>1 DEF Clean
<1> QED
  BY <1>2, <1>3 DEF Clean, NoPill

LEMMA MainClean ==
  ASSUME TypeInv, Balance, Clean, Main
  PROVE  Clean'
<1>1. NoDeath' = NoDeath
  BY DEF Main, Start, LoadProxies, GetResult, Commit, CommitFlush, SetTasksDone, Saving, CheckWorkers,
         SetTask, Pill, Spawn, InOrderDone, NotEmpty, Drain, Kill, TermReturn, Reload, Restart, Exit,
         NoDeath
<1>2. /\ todo \in [Frames -> Seq(Strings)] /\ drained \in [Frames -> Seq(Strings)]
      /\ tasks_file \in Seq(Strings) /\ tasks_queue \in Seq(Strings)
      /\ {"run", "int", "term"} = Frames
  BY DEF TypeInv, TypeOK, Frames
<1>3. NoDeath => NoPill(tasks_file)
  BY DEF Clean
<1>4. CASE Start
  <2>1. todo' = [todo EXCEPT !["run"] = tasks_file] /\ UNCHANGED <<drained, tasks_file>>
    BY <1>4 DEF Start, fileVars
  <2> QED
    BY <1>1, <1>2, <1>3, <2>1, FrameClean
<1>5. CASE Commit
  <2>1. /\ todo' = [todo EXCEPT !["run"] = Related[data]] /\ UNCHANGED <<drained, tasks_file>>
        /\ pc["run"] = "commit"
    BY <1>5 DEF Commit, At, fileVars
  <2>2. Related[data] \in Seq(Tasks)
    BY <2>1, PagesAssumption DEF TypeInv
  <2>3. NoPill(Related[data])
    BY <2>2, NoPillFacts
  <2> QED
    BY <1>1, <1>2, <1>3, <2>1, <2>3, FrameClean
<1>6. ASSUME NEW f \in Frames, SetTask(f) PROVE Clean'
  <2>1. /\ todo' = [todo EXCEPT ![f] = Tail(todo[f])] /\ UNCHANGED <<drained, tasks_file>>
        /\ todo[f] # <<>>
    BY <1>2, <1>6 DEF SetTask, fileVars
  <2>2. NoDeath => NoPill(Tail(todo[f]))
    BY <1>2, <2>1, NoPillFacts DEF Clean
  <2> QED
    BY <1>1, <1>3, <2>1, <2>2, FrameClean
<1>7. ASSUME NEW f \in {"int", "term"}, Drain(f) PROVE Clean'
  <2>1. /\ drained' = [drained EXCEPT ![f] = Append(drained[f], Head(tasks_queue))]
        /\ UNCHANGED <<todo, tasks_file>> /\ tasks_queue # <<>> /\ f \in Frames
    BY <1>2, <1>7 DEF Drain, fileVars
  <2>2. NoDeath => Head(tasks_queue) # Finish
    BY <1>7, DrainBalance
  <2>3. Head(tasks_queue) \in Strings /\ drained[f] \in Seq(Strings)
    BY <1>2, <2>1
  <2>4. NoDeath => NoPill(Append(drained[f], Head(tasks_queue)))
    BY <2>1, <2>2, <2>3, NoPillFacts DEF Clean
  <2> QED
    BY <1>1, <1>3, <2>1, <2>4, FrameClean
<1>8. ASSUME NEW f \in {"int", "term"}, Kill(f) PROVE Clean'
  <2>1. tasks_file' \in {drained[f], tasks_file} /\ UNCHANGED <<todo, drained>> /\ f \in Frames
    BY <1>2, <1>8 DEF Kill
  <2>2. NoDeath => NoPill(tasks_file')
    BY <2>1 DEF Clean
  <2> QED
    BY <1>1, <2>1, <2>2 DEF Clean, NoPill
<1>9. CASE Reload
  <2>1. /\ todo' = [todo EXCEPT !["int"] = drained["int"]]
        /\ drained' = [drained EXCEPT !["int"] = <<>>] /\ UNCHANGED tasks_file
    BY <1>9 DEF Reload, fileVars
  <2>2. NoDeath => NoPill(drained["int"])
    BY <1>2 DEF Clean
  <2> QED
    BY <1>1, <1>2, <1>3, <2>1, <2>2, FrameClean
<1>10. CASE Exit
  BY <1>1, <1>10, DownClean DEF Exit
<1>11. ASSUME NEW f \in Frames, Pill(f) \/ Spawn(f) \/ InOrderDone(f) PROVE Clean'
  <2>1. UNCHANGED <<tasks_file, drained, todo>>
    BY <1>11 DEF Pill, Spawn, InOrderDone, fileVars
  <2> QED
    BY <1>1, <2>1, StayClean
<1>12. ASSUME NEW f \in {"int", "term"}, NotEmpty(f) PROVE Clean'
  <2>1. UNCHANGED <<tasks_file, drained, todo>>
    BY <1>12 DEF NotEmpty, fileVars
  <2> QED
    BY <1>1, <2>1, StayClean
<1>13. CASE \/ LoadProxies \/ GetResult \/ CommitFlush \/ SetTasksDone \/ Saving \/ CheckWorkers
            \/ TermReturn \/ Restart
  <2>1. UNCHANGED <<tasks_file, drained, todo>>
    BY <1>13 DEF LoadProxies, GetResult, CommitFlush, SetTasksDone, Saving, CheckWorkers,
                 TermReturn, Restart, fileVars
  <2> QED
    BY <1>1, <2>1, StayClean
<1> QED
  BY <1>4, <1>5, <1>6, <1>7, <1>8, <1>9, <1>10, <1>11, <1>12, <1>13 DEF Main

LEMMA NextClean == TypeInv /\ Balance /\ Clean /\ [Next]_vars => Clean'
<1> SUFFICES ASSUME TypeInv, Balance, Clean, [Next]_vars PROVE Clean'
  OBVIOUS
<1>1. happened \in [Events -> Nat] /\ drained \in [Frames -> Seq(Strings)]
  BY DEF TypeInv, TypeOK
<1>2. CASE UNCHANGED vars
  BY <1>2, StayClean DEF vars, fileVars, frameVars, NoDeath
<1>3. ASSUME NEW w \in Workers, Worker(w) \/ SaveFails(w) PROVE Clean'
  <2>1. UNCHANGED <<tasks_file, drained, todo>>
    BY <1>3 DEF Worker, Fetch, Take, NextProxy, FetchOk, FetchBad, FetchFail, Save, SaveFails,
                fileVars, frameVars
  <2>2. NoDeath' => NoDeath
    BY <1>1, <1>3 DEF Worker, Fetch, Take, NextProxy, FetchOk, FetchBad, FetchFail, Save, SaveFails,
                      Spend, NoDeath, Events
  <2> QED
    BY <2>1, <2>2, StayClean
<1>4. ASSUME NEW f \in {"int", "term"}, Interrupt(f), UNCHANGED todo,
             tasks_file' \in {tasks_file, <<>>}
      PROVE  Clean'
  <2>1. drained' = [drained EXCEPT ![f] = <<>>] /\ f \in Frames
    BY <1>4 DEF Interrupt, Frames
  <2>2. NoDeath' => NoDeath
    BY <1>1, <1>4 DEF Interrupt, Spend, NoDeath, Events
  <2>3. NoDeath => NoPill(tasks_file')
    BY <1>4, NoPillFacts DEF Clean
  <2> QED
    BY <1>4, <2>1, <2>2, <2>3, NoPillFacts, FrameClean
<1>5. CASE SIGINT
  BY <1>4, <1>5 DEF SIGINT, fileVars
<1>6. CASE SIGTERM
  BY <1>4, <1>6 DEF SIGTERM
<1>7. CASE Crash
  BY <1>1, <1>7, DownClean DEF Crash, Spend, NoDeath, Events
<1> QED
  BY <1>2, <1>3, <1>5, <1>6, <1>7, MainClean DEF Next

LEMMA PillsInv == QuietSignals => (Spec => [](TypeInv /\ Balance /\ Clean))
<1> SUFFICES ASSUME QuietSignals PROVE Spec => [](TypeInv /\ Balance /\ Clean)
  OBVIOUS
<1>1. TypeInv /\ Pool /\ Stop /\ Balance /\ Clean /\ [Next]_vars => Balance' /\ Clean'
  BY NextBalance, NextClean
<1> QED
  BY <1>1, StopInv, InitBalance, InitClean, PTL DEF Spec

(* A handler that waits for the workers to end has left a pill for each of    *)
(* them in tasks_queue or in its hands, whatever they requeued or died of:    *)
(* the test that found the queue empty is what makes the counting right.      *)
THEOREM EnoughPillsHolds == QuietSignals => (Spec => []EnoughPills)
<1>1. TypeInv /\ Balance => EnoughPills
  <2> SUFFICES ASSUME TypeInv, Balance, stack # <<>>, pc[Head(stack)] = "join"
               PROVE  Paid >= Owed
    BY DEF EnoughPills, Paid, Owed, PillHolders, Living
  <2>1. Killing /\ Promised = 0
    BY DEF Killing, Promised
  <2> QED
    BY <2>1, PayTypes DEF Balance
<1> QED
  BY <1>1, PillsInv, PTL

(* No poison pill gets into tasks_file as long as no worker has died: what a  *)
(* handler puts in the queue is taken out of it before the handler returns.   *)
THEOREM FileHasNoPillsHolds == QuietSignals => (Spec => []FileHasNoPills)
<1>1. Clean => FileHasNoPills
  BY DEF Clean, NoDeath, NoPill, FileHasNoPills, Range
<1> QED
  BY <1>1, PillsInv, PTL

-----------------------------------------------------------------------------
(* Nothing is forgotten.                                                   *)

\* A second SIGTERM empties tasks_file and forgets what the first one had taken
\* out of the queue.
OneStop == \A budget \in Budgets : budget["term"] <= 1

Worthy == Wordy \ NoSubs

\* A video with the checksum of another string is never queued.
NoCollision == \A s \in Strings, t \in Worthy : crc[s] = crc[t] => s = t

Somewhere(t) ==
  \/ t \in Range(tasks_queue)
  \/ t \in Range(drained["term"])
  \/ \E w \in Workers : HoldsTask(w) /\ wtask[w] = t
  \/ t \in Range(results_queue)
  \/ stack # <<>> /\ pc["run"] = "commit" /\ data = t

\* As long as there was no SIGINT, the only handler is that of the one SIGTERM.
Frames1 ==
  /\ stack \in {<<>>, <<"run">>, <<"term", "run">>}
  /\ stack = <<>> => proc_uids = {}
  /\ happened["term"] = 0 => drained["term"] = <<>> /\ stack # <<"term", "run">>

AllKept == \A t \in Worthy : crc[t] \in proc_uids => Somewhere(t)

Kept == /\ pc["run"] # "restart" /\ pc["term"] # "restart"
        /\ happened["int"] = 0 => Frames1 /\ AllKept

LEMMA WorthyFacts == \A t \in Worthy : t \in Tasks /\ t \in Strings /\ t # Finish /\ t \in Wordy /\ t \notin NoSubs
BY PagesAssumption, CrcAssumption DEF Worthy, Strings

\* What a queue holds, before and after.
LEMMA QueueFacts ==
  ASSUME NEW q \in Seq(Strings)
  PROVE  /\ \A t \in Range(q) : q # <<>> /\ (t = Head(q) \/ t \in Range(Tail(q)))
         /\ \A x \in Strings : x \in Range(Append(q, x)) /\ Range(q) \subseteq Range(Append(q, x))
<1>1. ASSUME NEW t \in Range(q) PROVE q # <<>> /\ (t = Head(q) \/ t \in Range(Tail(q)))
  <2>1. PICK i \in DOMAIN q : q[i] = t
    BY DEF Range
  <2>2. DOMAIN q = 1 .. Len(q) /\ Len(q) \in Nat
    OBVIOUS
  <2>3. q # <<>>
    BY <2>1, <2>2
  <2>4. /\ DOMAIN Tail(q) = 1 .. Len(q) - 1 /\ Head(q) = q[1]
        /\ \A j \in 1 .. Len(q) - 1 : Tail(q)[j] = q[j + 1]
    BY <2>2, <2>3
  <2>5. CASE i = 1
    BY <2>1, <2>3, <2>4, <2>5
  <2>6. CASE i # 1
    <3>1. i - 1 \in 1 .. Len(q) - 1 /\ (i - 1) + 1 = i
      BY <2>2, <2>6
    <3>2. Tail(q)[i - 1] = t
      BY <2>1, <2>4, <3>1
    <3> QED
      BY <2>3, <2>4, <3>1, <3>2 DEF Range
  <2> QED
    BY <2>5, <2>6
<1>2. ASSUME NEW x \in Strings
      PROVE  x \in Range(Append(q, x)) /\ Range(q) \subseteq Range(Append(q, x))
  <2> DEFINE longer == Append(q, x)
  <2>1. /\ DOMAIN longer = 1 .. Len(q) + 1 /\ DOMAIN q = 1 .. Len(q) /\ Len(q) \in Nat
        /\ \A i \in 1 .. Len(q) : longer[i] = q[i]
        /\ longer[Len(q) + 1] = x
    OBVIOUS
  <2> HIDE DEF longer
  <2>2. x \in Range(longer) /\ Range(q) \subseteq Range(longer)
    BY <2>1 DEF Range
  <2> QED
    BY <2>2 DEF longer
<1> QED
  BY <1>1, <1>2

LEMMA FrameFacts ==
  ASSUME stack \in {<<>>, <<"run">>, <<"term", "run">>}
  PROVE  /\ ~Running("int")
         /\ Running("term") => stack = <<"term", "run">> /\ Tail(stack) = <<"run">>
         /\ Running("run") => stack = <<"run">>
         /\ <<"run">> # <<>> /\ <<"term", "run">> # <<>> /\ <<"run">> # <<"term", "run">>
<1>1. <<"run">> # <<>> /\ <<"term", "run">> # <<>>
  OBVIOUS
<1>2. Head(<<"run">>) = "run" /\ Head(<<"term", "run">>) = "term" /\ Tail(<<"term", "run">>) = <<"run">>
  OBVIOUS
<1>3. <<"run">> # <<"term", "run">>
  BY <1>2
<1> QED
  BY <1>1, <1>2, <1>3 DEF Running

\* No video leaves the places it can be at, and none gets into process.
LEMMA StayKept ==
  ASSUME Kept, happened'["int"] = 0 => happened["int"] = 0,
         happened'["term"] = 0 => happened["term"] = 0,
         UNCHANGED <<stack, drained>>,
         pc'["run"] # "restart", pc'["term"] # "restart",
         proc_uids' \subseteq proc_uids,
         happened["int"] = 0 => \A t \in Worthy : Somewhere(t) /\ crc[t] \in proc_uids' => Somewhere(t)'
  PROVE  Kept'
<1> SUFFICES ASSUME happened'["int"] = 0 PROVE Frames1' /\ AllKept'
  BY DEF Kept
<1>1. happened["int"] = 0 /\ Frames1 /\ AllKept
  BY DEF Kept
<1> QED
  BY <1>1 DEF Frames1, AllKept

LEMMA WorkerKept ==
  ASSUME TypeInv, Kept, NEW w \in Workers, Worker(w) \/ SaveFails(w)
  PROVE  Kept'
<1>1. /\ UNCHANGED <<stack, drained, pc, data, proc_uids>>
      /\ wpc \in [Workers -> {"none", "get", "proxy", "fetch", "save"}]
      /\ wtask \in [Workers -> Strings] /\ happened \in [Events -> Nat]
      /\ tasks_queue \in Seq(Strings) /\ results_queue \in Seq(Strings)
  BY DEF Worker, Fetch, Take, NextProxy, FetchOk, FetchBad, FetchFail, Save, SaveFails,
         uidVars, frameVars, loopVars, TypeInv, TypeOK
<1>2. happened'["int"] = happened["int"] /\ happened'["term"] = happened["term"]
  BY <1>1 DEF Worker, Fetch, Take, NextProxy, FetchOk, FetchBad, FetchFail, Save, SaveFails, Spend, Events
<1>3. \A v \in Workers : v # w => wpc'[v] = wpc[v] /\ wtask'[v] = wtask[v]
  BY <1>1 DEF Worker, Fetch, Take, NextProxy, FetchOk, FetchBad, FetchFail, Save, SaveFails
<1>4. \A v \in Workers : v # w => HoldsTask(v)' = HoldsTask(v) /\ wtask'[v] = wtask[v]
  BY <1>3 DEF HoldsTask
<1>5. ASSUME NEW t \in Worthy, Somewhere(t) PROVE Somewhere(t)'
  <2>1. CASE Take(w)
    <3>1. /\ wpc[w] = "get" /\ tasks_queue # <<>> /\ tasks_queue' = Tail(tasks_queue)
          /\ UNCHANGED results_queue
          /\ wtask'[w] = Head(tasks_queue) /\ wpc'[w] = "proxy"
      BY <1>1, <2>1 DEF Take
    <3>2. t \in Range(tasks_queue) => t = Head(tasks_queue) \/ t \in Range(tasks_queue')
      BY <1>1, <3>1, QueueFacts
    <3>3. t = Head(tasks_queue) => HoldsTask(w)' /\ wtask'[w] = t
      BY <3>1, WorthyFacts DEF HoldsTask
    <3>4. ~HoldsTask(w)
      BY <3>1 DEF HoldsTask
    <3> QED
      BY <1>1, <1>4, <1>5, <3>1, <3>2, <3>3, <3>4 DEF Somewhere
  <2>2. CASE NextProxy(w)
    <3>1. /\ wpc[w] = "proxy" /\ UNCHANGED <<tasks_queue, results_queue, wtask>>
          /\ wpc'[w] = IF wtask[w] = Finish THEN "none" ELSE "fetch"
      BY <1>1, <2>2 DEF NextProxy, queueVars
    <3>2. HoldsTask(w) => HoldsTask(w)' /\ wtask'[w] = wtask[w]
      BY <3>1 DEF HoldsTask
    <3> QED
      BY <1>1, <1>4, <1>5, <3>1, <3>2 DEF Somewhere
  <2>3. CASE FetchOk(w)
    <3>1. UNCHANGED tasks_queue /\ results_queue' = Append(results_queue, wtask[w])
      BY <2>3 DEF FetchOk
    <3>2. wtask[w] \in Range(results_queue') /\ Range(results_queue) \subseteq Range(results_queue')
      BY <1>1, <3>1, QueueFacts
    <3> QED
      BY <1>1, <1>4, <1>5, <3>1, <3>2 DEF Somewhere
  <2>4. CASE FetchBad(w)
    <3>1. UNCHANGED <<tasks_queue, results_queue>> /\ wtask[w] # t
      BY <2>4, WorthyFacts DEF FetchBad, queueVars
    <3> QED
      BY <1>1, <1>4, <1>5, <3>1 DEF Somewhere
  <2>5. CASE FetchFail(w)
    <3>1. UNCHANGED results_queue /\ tasks_queue' = Append(tasks_queue, wtask[w])
      BY <2>5 DEF FetchFail
    <3>2. wtask[w] \in Range(tasks_queue') /\ Range(tasks_queue) \subseteq Range(tasks_queue')
      BY <1>1, <3>1, QueueFacts
    <3> QED
      BY <1>1, <1>4, <1>5, <3>1, <3>2 DEF Somewhere
  <2>6. CASE Save(w) \/ SaveFails(w)
    <3>1. UNCHANGED <<tasks_queue, results_queue>> /\ ~HoldsTask(w)
      BY <2>6 DEF Save, SaveFails, queueVars, HoldsTask
    <3> QED
      BY <1>1, <1>4, <1>5, <3>1 DEF Somewhere
  <2> QED
    BY <2>1, <2>2, <2>3, <2>4, <2>5, <2>6 DEF Worker, Fetch
<1> QED
  BY <1>1, <1>2, <1>5, StayKept DEF Kept

\* What the places are when neither a queue nor a hand changes.
LEMMA SamePlacesKept ==
  ASSUME NEW t, Somewhere(t), stack' # <<>>,
         UNCHANGED <<tasks_queue, drained, wpc, wtask, results_queue, data>>,
         pc["run"] = "commit" => pc'["run"] = "commit"
  PROVE  Somewhere(t)'
BY DEF Somewhere, HoldsTask

LEMMA SetTaskKept ==
  ASSUME NoCollision, TypeInv, Kept, NEW f \in Frames, SetTask(f)
  PROVE  Kept'
<1>1. /\ UNCHANGED <<stack, pc, drained, wpc, wtask, results_queue, data, happened>>
      /\ stack # <<>> /\ todo[f] # <<>>
  BY DEF SetTask, Running, threadVars, loopVars
<1>2. /\ tasks_queue \in Seq(Strings) /\ todo[f] \in Seq(Strings)
      /\ Head(todo[f]) \in Strings
  BY <1>1 DEF TypeInv, TypeOK
<1>3. CASE /\ proc_uids' = proc_uids \cup {crc[Head(todo[f])]}
           /\ tasks_queue' = Append(tasks_queue, Head(todo[f]))
  <2>1. /\ Head(todo[f]) \in Range(tasks_queue')
        /\ Range(tasks_queue) \subseteq Range(tasks_queue')
    BY <1>2, <1>3, QueueFacts
  <2>2. ASSUME NEW t \in Worthy, crc[t] \in proc_uids', AllKept PROVE Somewhere(t)'
    <3>1. CASE crc[t] = crc[Head(todo[f])]
      <4>1. t = Head(todo[f])
        BY <1>2, <3>1 DEF NoCollision
      <4> QED
        BY <2>1, <4>1 DEF Somewhere
    <3>2. CASE crc[t] \in proc_uids
      <4>1. Somewhere(t)
        BY <2>2, <3>2 DEF AllKept
      <4> QED
        BY <1>1, <2>1, <4>1 DEF Somewhere, HoldsTask
    <3> QED
      BY <1>3, <2>2, <3>1, <3>2
  <2>3. AllKept => AllKept'
    BY <2>2 DEF AllKept
  <2> QED
    BY <1>1, <2>3 DEF Kept, Frames1
<1>4. CASE UNCHANGED <<uidVars, tasks_queue>>
  <2>1. UNCHANGED proc_uids
    BY <1>4 DEF uidVars
  <2>2. \A t \in Worthy : Somewhere(t) => Somewhere(t)'
    BY <1>1, <1>4, SamePlacesKept
  <2> QED
    BY <1>1, <2>1, <2>2, StayKept DEF Kept
<1> QED
  BY <1>3, <1>4 DEF SetTask, uids!Add

LEMMA DownKept ==
  ASSUME Down
  PROVE  Kept'
<1>1. /\ stack' = <<>> /\ proc_uids' = {} /\ pc' = [f \in Frames |-> "exited"]
      /\ drained' = [f \in Frames |-> <<>>]
  BY DEF Down, uids!Forget
<1>2. pc'["run"] = "exited" /\ pc'["term"] = "exited" /\ drained'["term"] = <<>>
  BY <1>1 DEF Frames
<1>3. <<>> # <<"term", "run">>
  OBVIOUS
<1> QED
  BY <1>1, <1>2, <1>3 DEF Kept, Frames1, AllKept

LEMMA InitKept == Init => Kept
<1> SUFFICES ASSUME Init PROVE Kept
  OBVIOUS
<1>1. /\ stack = <<>> /\ proc_uids = {} /\ pc = [f \in Frames |-> "exited"]
      /\ drained = [f \in Frames |-> <<>>]
  BY DEF Init, uids!Init
<1>2. pc["run"] = "exited" /\ pc["term"] = "exited" /\ drained["term"] = <<>>
  BY <1>1 DEF Frames
<1>3. <<>> # <<"term", "run">>
  OBVIOUS
<1> QED
  BY <1>1, <1>2, <1>3 DEF Kept, Frames1, AllKept

LEMMA LoopKept ==
  ASSUME TypeInv, Kept,
         GetResult \/ Commit \/ CommitFlush \/ SetTasksDone \/ Saving \/ CheckWorkers \/ LoadProxies
  PROVE  Kept'
<1>1. /\ UNCHANGED <<stack, drained, tasks_queue, wpc, wtask, happened>> /\ stack # <<>>
      /\ results_queue \in Seq(Strings) /\ pc \in [Frames -> Labels] /\ "run" \in Frames
  BY DEF GetResult, Commit, CommitFlush, SetTasksDone, Saving, CheckWorkers, LoadProxies, PutInOrder,
         At, Running, threadVars, queueVars, TypeInv, TypeOK, Frames
<1>2. pc'["run"] # "restart" /\ pc'["term"] # "restart"
  <2>1. \E l \in Labels \ {"restart"} : pc' = [pc EXCEPT !["run"] = l]
    <3>1. {"saving", "commit", "check", "flush", "put", "order", "exited", "get"} \subseteq Labels \ {"restart"}
      BY DEF Labels
    <3> QED
      BY <3>1 DEF GetResult, Commit, CommitFlush, SetTasksDone, Saving, CheckWorkers, LoadProxies,
                  PutInOrder, Goto
  <2> QED
    BY <1>1, <2>1 DEF Kept, Frames
<1>3. CASE GetResult
  <2>1. /\ results_queue # <<>> /\ data' = Head(results_queue) /\ results_queue' = Tail(results_queue)
        /\ UNCHANGED proc_uids /\ pc["run"] = "get"
        /\ pc'["run"] = IF data' = Finish THEN "saving" ELSE IF data' \in Wordy THEN "commit" ELSE "check"
    BY <1>1, <1>3 DEF GetResult, At, Goto, uidVars
  <2>2. ASSUME NEW t \in Worthy, Somewhere(t) PROVE Somewhere(t)'
    <3>1. t \in Range(results_queue) => t = data' \/ t \in Range(results_queue')
      BY <1>1, <2>1, QueueFacts
    <3>2. t = data' => pc'["run"] = "commit"
      BY <2>1, WorthyFacts
    <3>3. stack' # <<>>
      BY <1>1
    <3> QED
      BY <1>1, <2>1, <2>2, <3>1, <3>2, <3>3 DEF Somewhere, HoldsTask
  <2> QED
    BY <1>1, <1>2, <2>1, <2>2, StayKept
<1>4. CASE Commit
  <2>1. /\ UNCHANGED <<data, results_queue>> /\ proc_uids' = proc_uids \ {crc[data]}
    BY <1>4 DEF Commit, uids!Commit, loopVars, queueVars
  <2>2. ASSUME NEW t \in Worthy, Somewhere(t), crc[t] \in proc_uids' PROVE Somewhere(t)'
    <3>1. t # data
      BY <2>1, <2>2
    <3> QED
      BY <1>1, <2>1, <2>2, <3>1 DEF Somewhere, HoldsTask
  <2> QED
    BY <1>1, <1>2, <2>1, <2>2, StayKept
<1>5. CASE CommitFlush \/ SetTasksDone \/ Saving \/ CheckWorkers \/ LoadProxies
  <2>1. /\ UNCHANGED <<data, results_queue, proc_uids>> /\ pc["run"] # "commit"
    BY <1>5 DEF CommitFlush, SetTasksDone, Saving, CheckWorkers, LoadProxies, At, uids!FlushToDisk,
                uidVars, queueVars, loopVars
  <2>2. stack' # <<>>
    BY <1>1
  <2>3. \A t \in Worthy : Somewhere(t) => Somewhere(t)'
    BY <1>1, <2>1, <2>2, SamePlacesKept
  <2> QED
    BY <1>1, <1>2, <2>1, <2>3, StayKept
<1> QED
  BY <1>3, <1>4, <1>5

LEMMA OrderKept ==
  ASSUME TypeInv, Kept, NEW f \in Frames, Pill(f) \/ Spawn(f) \/ InOrderDone(f)
  PROVE  Kept'
<1>1. /\ UNCHANGED <<drained, wtask, results_queue, data, proc_uids, happened>>
      /\ stack # <<>> /\ Head(stack) = f /\ Running(f)
      /\ tasks_queue \in Seq(Strings) /\ pc \in [Frames -> Labels] /\ Frames = {"run", "int", "term"}
  BY DEF Pill, Spawn, InOrderDone, InOrder, Running, threadVars, queueVars, loopVars, uidVars,
         TypeInv, TypeOK, Frames
<1>2. CASE Pill(f)
  <2>1. UNCHANGED <<stack, pc, wpc>> /\ tasks_queue' = Append(tasks_queue, Finish)
    BY <1>2 DEF Pill, threadVars
  <2>2. Range(tasks_queue) \subseteq Range(tasks_queue')
    BY <1>1, <2>1, ConstantFacts, QueueFacts
  <2>3. \A t \in Worthy : Somewhere(t) => Somewhere(t)'
    BY <1>1, <2>1, <2>2 DEF Somewhere, HoldsTask
  <2> QED
    BY <1>1, <2>1, <2>3, StayKept DEF Kept
<1>3. CASE Spawn(f)
  <2>1. UNCHANGED <<stack, pc, tasks_queue>>
    BY <1>3 DEF Spawn, queueVars
  <2>2. \A w \in Workers : HoldsTask(w) => wpc'[w] = wpc[w]
    BY <1>3 DEF Spawn, Alive, HoldsTask, TypeInv, TypeOK
  <2>3. \A w \in Workers : HoldsTask(w) => HoldsTask(w)'
    BY <1>1, <2>2 DEF HoldsTask
  <2>4. \A t \in Worthy : Somewhere(t) => Somewhere(t)'
    BY <1>1, <2>1, <2>3 DEF Somewhere
  <2> QED
    BY <1>1, <2>1, <2>4, StayKept DEF Kept
<1>4. CASE InOrderDone(f)
  <2>1. /\ UNCHANGED <<tasks_queue, wpc>> /\ \E l \in {"exited", "get", "join"} : pc' = [pc EXCEPT ![f] = l]
        /\ UNCHANGED stack \/ pc[f] = "restart"
        /\ pc[f] \in OrderLabels
    BY <1>4 DEF InOrderDone, InOrder, Goto, queueVars, threadVars
  <2>2. pc'["run"] # "restart" /\ pc'["term"] # "restart"
    BY <1>1, <2>1 DEF Kept
  <2>3. happened["int"] = 0 => UNCHANGED stack /\ (pc["run"] = "commit" => pc'["run"] = "commit")
    <3> SUFFICES ASSUME happened["int"] = 0
                 PROVE  UNCHANGED stack /\ (pc["run"] = "commit" => pc'["run"] = "commit")
      OBVIOUS
    <3>1. f # "int"
      BY <1>1, FrameFacts DEF Kept, Frames1
    <3>2. pc[f] # "restart"
      BY <1>1, <3>1 DEF Kept
    <3>3. pc["run"] = "commit" => f # "run"
      BY <2>1 DEF OrderLabels
    <3>4. pc["run"] = "commit" => pc'["run"] = "commit"
      BY <1>1, <2>1, <3>3
    <3> QED
      BY <2>1, <3>2, <3>4
  <2>4. happened["int"] = 0 => \A t \in Worthy : Somewhere(t) => Somewhere(t)'
    BY <1>1, <2>1, <2>3, SamePlacesKept
  <2> QED
    BY <1>1, <2>2, <2>3, <2>4 DEF Kept, Frames1, AllKept
<1> QED
  BY <1>2, <1>3, <1>4

LEMMA HandlersKept ==
  ASSUME TypeInv, Kept,
         \/ \E f \in {"int", "term"} : NotEmpty(f) \/ Drain(f) \/ Kill(f)
         \/ TermReturn \/ Reload \/ Restart
  PROVE  Kept'
<1>1. /\ UNCHANGED <<wpc, wtask, data, proc_uids, happened>> /\ stack # <<>>
      /\ Frames = {"run", "int", "term"} /\ pc \in [Frames -> Labels]
      /\ drained \in [Frames -> Seq(Strings)]
      /\ tasks_queue \in Seq(Strings) /\ results_queue \in Seq(Strings)
  BY DEF NotEmpty, Drain, Kill, TermReturn, Reload, Restart, Joined, At, Running, threadVars, loopVars,
         uidVars, TypeInv, TypeOK, Frames
<1>2. pc'["run"] # "restart" /\ pc'["term"] # "restart" /\ pc'["run"] = pc["run"]
  <2>1. \/ \E f \in {"int", "term"} : \E l \in {"drain", "empty", "kill", "exited", "put"} :
              pc' = [pc EXCEPT ![f] = l]
        \/ pc' = [pc EXCEPT !["int"] = "restart"]
    BY DEF NotEmpty, Drain, Kill, TermReturn, Reload, Restart, PutInOrder, Goto
  <2> QED
    BY <1>1, <2>1 DEF Kept
<1> SUFFICES ASSUME happened["int"] = 0 PROVE Frames1' /\ AllKept'
  BY <1>1, <1>2 DEF Kept
<1>3. /\ Frames1 /\ AllKept /\ ~Running("int")
      /\ Running("term") => stack = <<"term", "run">> /\ Tail(stack) = <<"run">>
      /\ <<"run">> # <<>> /\ <<"run">> # <<"term", "run">>
  BY FrameFacts DEF Kept, Frames1
<1>4. NotEmpty("term") \/ Drain("term") \/ Kill("term") \/ TermReturn
  BY <1>3 DEF NotEmpty, Drain, Kill, Reload, Restart, Joined, At
<1>5. Running("term") /\ happened["term"] # 0
  <2>1. Running("term")
    BY <1>4 DEF NotEmpty, Drain, Kill, TermReturn, Joined, At
  <2> QED
    BY <1>3, <2>1 DEF Frames1
<1>6. stack' \in {<<"run">>, <<"term", "run">>} /\ stack' # <<>>
  BY <1>1, <1>3, <1>4, <1>5 DEF NotEmpty, Drain, Kill, TermReturn
<1>7. Frames1'
  BY <1>1, <1>5, <1>6 DEF Frames1
<1>8. ASSUME NEW t \in Worthy, Somewhere(t) PROVE Somewhere(t)'
  <2>1. CASE NotEmpty("term") \/ Kill("term")
    <3>1. UNCHANGED <<tasks_queue, drained, results_queue>>
      BY <2>1 DEF NotEmpty, Kill, queueVars
    <3> QED
      BY <1>1, <1>2, <1>6, <1>8, <3>1 DEF Somewhere, HoldsTask
  <2>2. CASE Drain("term")
    <3>1. /\ drained' = [drained EXCEPT !["term"] = Append(drained["term"], Head(tasks_queue))]
          /\ tasks_queue # <<>> /\ tasks_queue' = Tail(tasks_queue) /\ UNCHANGED results_queue
      BY <2>2 DEF Drain
    <3>2. drained'["term"] = Append(drained["term"], Head(tasks_queue)) /\ Head(tasks_queue) \in Strings
      BY <1>1, <3>1
    <3>3. /\ Head(tasks_queue) \in Range(drained'["term"])
          /\ Range(drained["term"]) \subseteq Range(drained'["term"])
      BY <1>1, <3>2, QueueFacts
    <3>4. t \in Range(tasks_queue) => t \in Range(drained'["term"]) \/ t \in Range(tasks_queue')
      BY <1>1, <3>1, <3>3, QueueFacts
    <3> QED
      BY <1>1, <1>2, <1>6, <1>8, <3>1, <3>3, <3>4 DEF Somewhere, HoldsTask
  <2>3. CASE TermReturn
    <3>1. UNCHANGED <<tasks_queue, drained>> /\ results_queue' = Append(results_queue, Finish)
      BY <2>3 DEF TermReturn
    <3>2. Range(results_queue) \subseteq Range(results_queue')
      BY <1>1, <3>1, ConstantFacts, QueueFacts
    <3> QED
      BY <1>1, <1>2, <1>6, <1>8, <3>1, <3>2 DEF Somewhere, HoldsTask
  <2> QED
    BY <1>4, <2>1, <2>2, <2>3
<1>9. AllKept'
  BY <1>1, <1>3, <1>8 DEF AllKept
<1> QED
  BY <1>7, <1>9

LEMMA StartKept ==
  ASSUME TypeInv, Kept, Start
  PROVE  Kept'
<1>1. /\ stack = <<>> /\ stack' = <<"run">> /\ pc' = [pc EXCEPT !["run"] = "load"]
      /\ UNCHANGED <<proc_uids, drained, happened>> /\ pc \in [Frames -> Labels]
  BY DEF Start, Goto, uidVars, TypeInv, TypeOK
<1>2. pc'["run"] = "load" /\ pc'["term"] = pc["term"]
  BY <1>1 DEF Frames
<1>3. <<"run">> # <<>> /\ <<"run">> # <<"term", "run">>
  BY <1>1, FrameFacts
<1> QED
  BY <1>1, <1>2, <1>3 DEF Kept, Frames1, AllKept

LEMMA InterruptKept ==
  ASSUME OneStop, TypeInv, Kept, NEW f \in {"int", "term"}, Interrupt(f),
         UNCHANGED <<proc_uids, tasks_queue, wpc, wtask, results_queue, data>>
  PROVE  Kept'
<1>1. /\ stack # <<>> /\ stack' = <<f>> \o stack /\ pc' = [pc EXCEPT ![f] = "empty"]
      /\ drained' = [drained EXCEPT ![f] = <<>>] /\ f \notin Range(stack)
      /\ happened' = [happened EXCEPT ![f] = @ + 1]
      /\ \E budget \in Budgets : \A e \in Events : happened'[e] <= budget[e]
  BY DEF Interrupt, Goto, Spend
<1>2. /\ pc \in [Frames -> Labels] /\ happened \in [Events -> Nat]
      /\ drained \in [Frames -> Seq(Strings)]
      /\ Frames = {"run", "int", "term"} /\ {"int", "term"} \subseteq Events
  BY DEF TypeInv, TypeOK, Frames, Events
<1>3. pc'["run"] = pc["run"] /\ pc'["run"] # "restart" /\ pc'["term"] # "restart"
  BY <1>1, <1>2 DEF Kept
<1> SUFFICES ASSUME happened'["int"] = 0 PROVE Frames1' /\ AllKept'
  BY <1>3 DEF Kept
<1>4. f = "term" /\ happened["int"] = 0
  BY <1>1, <1>2
<1>5. happened["term"] = 0 /\ happened'["term"] # 0
  <2>1. happened'["term"] = happened["term"] + 1 /\ happened["term"] \in Nat
    BY <1>1, <1>2, <1>4
  <2>2. PICK budget \in Budgets : \A e \in Events : happened'[e] <= budget[e]
    BY <1>1
  <2>3. budget["term"] \in Nat /\ budget["term"] <= 1
    BY <1>2, ConfigAssumption DEF OneStop
  <2>4. happened'["term"] <= budget["term"]
    BY <1>2, <2>2
  <2> QED
    BY <2>1, <2>3, <2>4
<1>6. Frames1 /\ AllKept /\ drained["term"] = <<>> /\ stack = <<"run">>
  BY <1>1, <1>4, <1>5 DEF Kept, Frames1
<1>7. stack' = <<"term", "run">> /\ stack' # <<>>
  BY <1>1, <1>4, <1>6, TwoFrames, FrameFacts
<1>8. drained'["term"] = drained["term"]
  BY <1>1, <1>2, <1>4, <1>6
<1>9. \A t \in Worthy : Somewhere(t) => Somewhere(t)'
  BY <1>3, <1>7, <1>8 DEF Somewhere, HoldsTask
<1> QED
  BY <1>5, <1>6, <1>7, <1>9 DEF Frames1, AllKept

LEMMA NextKept == OneStop /\ NoCollision /\ TypeInv /\ Kept /\ [Next]_vars => Kept'
<1> SUFFICES ASSUME OneStop, NoCollision, TypeInv, Kept, [Next]_vars PROVE Kept'
  OBVIOUS
<1>1. CASE UNCHANGED vars
  BY <1>1 DEF vars, frameVars, queueVars, threadVars, uidVars, loopVars, Kept, Frames1, AllKept,
              Somewhere, HoldsTask
<1>2. CASE Main
  BY <1>2, LoopKept, HandlersKept, SetTaskKept, OrderKept, StartKept, DownKept DEF Main, Exit
<1>3. CASE SIGINT \/ SIGTERM
  <2>1. UNCHANGED <<proc_uids, tasks_queue, wpc, wtask, results_queue, data>>
    BY <1>3 DEF SIGINT, SIGTERM, threadVars, queueVars, uidVars, loopVars
  <2>2. \E f \in {"int", "term"} : Interrupt(f)
    BY <1>3 DEF SIGINT, SIGTERM
  <2> QED
    BY <2>1, <2>2, InterruptKept
<1>4. CASE Crash
  BY <1>4, DownKept DEF Crash
<1> QED
  BY <1>1, <1>2, <1>3, <1>4, WorkerKept DEF Next

LEMMA RangeJoined ==
  ASSUME NEW p \in Seq(Strings), NEW q \in Seq(Strings)
  PROVE  p \o q \in Seq(Strings) /\ Range(p) \subseteq Range(p \o q) /\ Range(q) \subseteq Range(p \o q)
<1> DEFINE both == p \o q
<1>1. /\ both \in Seq(Strings) /\ DOMAIN both = 1 .. Len(p) + Len(q)
      /\ DOMAIN p = 1 .. Len(p) /\ DOMAIN q = 1 .. Len(q) /\ Len(p) \in Nat /\ Len(q) \in Nat
      /\ \A i \in 1 .. Len(p) : both[i] = p[i]
  OBVIOUS
<1>2. ASSUME NEW i \in 1 .. Len(q) PROVE Len(p) + i \in DOMAIN both /\ both[Len(p) + i] = q[i]
  BY <1>1
<1> HIDE DEF both
<1>3. \A i \in DOMAIN p : i \in DOMAIN both /\ both[i] = p[i]
  BY <1>1
<1>4. Range(p) \subseteq Range(both)
  BY <1>3 DEF Range
<1>5. \A i \in DOMAIN q : Len(p) + i \in DOMAIN both /\ both[Len(p) + i] = q[i]
  BY <1>1, <1>2
<1>6. Range(q) \subseteq Range(both)
  BY <1>5 DEF Range
<1> QED
  BY <1>1, <1>4, <1>6 DEF both

-----------------------------------------------------------------------------
(* Behind the drain of a SIGTERM.                                          *)

\* The file holds what the handler took out of the queue, and what has got into
\* the queue since is there for one of two reasons; the tasks setTasks goes through
\* are the links of a committed page, or those of the file the process started with.
Behind ==
  happened["int"] = 0 =>
    /\ pc["term"] # "put"
    /\ stack # <<>> =>
         /\ FileWritten => /\ tasks_file = drained["term"] /\ happened["term"] # 0
                           /\ \A t \in Range(tasks_queue) \ {Finish} : Late(t)
         /\ pc["run"] = "load" \/ pc["term"] \in {"empty", "drain"} => ~FileWritten
         /\ pc["run"] \in {"flush", "put"} => /\ data \in Tasks
                                              /\ crc[data] \in ram_uids \cup hdd_uids
                                              /\ Range(todo["run"]) \subseteq Range(Related[data])

\* What the steps that neither commit nor put a task in the queue have in common.
LEMMA StayBehind ==
  ASSUME Behind, stack # <<>>, happened'["int"] = 0 => happened["int"] = 0,
         happened["term"] # 0 => happened'["term"] # 0,
         happened["fail"] > 0 => happened'["fail"] > 0,
         ram_uids \cup hdd_uids \subseteq ram_uids' \cup hdd_uids',
         FileWritten' => FileWritten /\ tasks_file' = tasks_file /\ drained'["term"] = drained["term"],
         \A t \in Range(tasks_queue') \ {Finish} : t \in Range(tasks_queue) \/ (FileWritten' => Late(t)'),
         pc'["run"] = "load" => pc["run"] = "load",
         pc'["term"] = "put" => pc["term"] = "put",
         pc'["term"] \in {"empty", "drain"} => pc["term"] \in {"empty", "drain"},
         pc'["run"] \in {"flush", "put"} => /\ pc["run"] \in {"flush", "put"} /\ data' = data
                                            /\ Range(todo'["run"]) \subseteq Range(todo["run"])
  PROVE  Behind'
<1> SUFFICES ASSUME happened'["int"] = 0
             PROVE  /\ FileWritten' => /\ tasks_file' = drained'["term"] /\ happened'["term"] # 0
                                       /\ \A t \in Range(tasks_queue') \ {Finish} : Late(t)'
                    /\ pc'["run"] = "load" => ~FileWritten'
                    /\ pc'["run"] \in {"flush", "put"} =>
                         /\ data' \in Tasks
                         /\ crc[data'] \in ram_uids' \cup hdd_uids'
                         /\ Range(todo'["run"]) \subseteq Range(Related[data'])
                    /\ pc'["term"] # "put" /\ (pc'["term"] \in {"empty", "drain"} => ~FileWritten')
  BY DEF Behind
<1>1. /\ FileWritten => /\ tasks_file = drained["term"] /\ happened["term"] # 0
                        /\ \A t \in Range(tasks_queue) \ {Finish} : Late(t)
      /\ pc["run"] = "load" => ~FileWritten
      /\ pc["run"] \in {"flush", "put"} => /\ data \in Tasks
                                           /\ crc[data] \in ram_uids \cup hdd_uids
                                           /\ Range(todo["run"]) \subseteq Range(Related[data])
      /\ pc["term"] # "put" /\ (pc["term"] \in {"empty", "drain"} => ~FileWritten)
  BY DEF Behind
<1>2. \A t : Late(t) => Late(t)'
  BY DEF Late
<1>3. FileWritten' => \A t \in Range(tasks_queue') \ {Finish} : Late(t)'
  BY <1>1, <1>2
<1>4. pc'["run"] \in {"flush", "put"} => Range(todo'["run"]) \subseteq Range(Related[data'])
  BY <1>1
<1> QED
  BY <1>1, <1>3, <1>4

LEMMA WorkerBehind ==
  ASSUME TypeInv, Pool, Behind, NEW w \in Workers, Worker(w) \/ SaveFails(w)
  PROVE  Behind'
<1>1. /\ UNCHANGED <<stack, drained, pc, todo, data, uidVars, workers_cnt, tasks_file>>
      /\ tasks_queue \in Seq(Strings) /\ happened \in [Events -> Nat]
      /\ wtask[w] \in Strings /\ wpc[w] # "none"
  BY DEF Worker, Fetch, Take, NextProxy, FetchOk, FetchBad, FetchFail, Save, SaveFails,
         fileVars, frameVars, loopVars, poolVars, TypeInv, TypeOK
<1>2. stack # <<>>
  BY <1>1 DEF Pool, Alive
<1>3. /\ happened'["int"] = happened["int"] /\ happened'["term"] = happened["term"]
      /\ happened["fail"] > 0 => happened'["fail"] > 0
      /\ FetchFail(w) => happened'["fail"] > 0
  BY <1>1 DEF Worker, Fetch, Take, NextProxy, FetchOk, FetchBad, FetchFail, Save, SaveFails, Spend, Events
<1>4. FileWritten' = FileWritten
  BY <1>1 DEF FileWritten
<1>5. ASSUME NEW t \in Range(tasks_queue') \ {Finish} PROVE t \in Range(tasks_queue) \/ Late(t)'
  <2>1. CASE FetchFail(w)
    BY <1>3, <2>1 DEF Late
  <2>2. CASE Take(w)
    <3>1. tasks_queue # <<>> /\ tasks_queue' = Tail(tasks_queue)
      BY <2>2 DEF Take
    <3> QED
      BY <1>1, <1>5, <3>1, QueueRange
  <2>3. CASE UNCHANGED tasks_queue
    BY <1>5, <2>3
  <2> QED
    BY <2>1, <2>2, <2>3 DEF Worker, Fetch, NextProxy, FetchOk, FetchBad, Save, SaveFails, queueVars
<1> QED
  BY <1>1, <1>2, <1>3, <1>4, <1>5, StayBehind DEF uidVars

LEMMA SetTaskBehind ==
  ASSUME TypeInv, Stop, Kept, Behind, NEW f \in Frames, SetTask(f)
  PROVE  Behind'
<1>1. /\ UNCHANGED <<stack, pc, drained, data, happened, workers_cnt, tasks_file>>
      /\ stack # <<>> /\ Running(f) /\ pc[f] \in {"load", "put"}
      /\ todo[f] # <<>> /\ todo' = [todo EXCEPT ![f] = Tail(todo[f])]
      /\ todo \in [Frames -> Seq(Strings)] /\ tasks_queue \in Seq(Strings)
      /\ ram_uids \cup hdd_uids \subseteq ram_uids' \cup hdd_uids'
      /\ \/ UNCHANGED tasks_queue
         \/ tasks_queue' = Append(tasks_queue, Head(todo[f]))
  BY DEF SetTask, Running, fileVars, loopVars, poolVars, uidVars, uids!Add, TypeInv, TypeOK
<1>2. /\ todo[f] \in Seq(Strings) /\ Head(todo[f]) \in Strings /\ Head(todo[f]) \in Range(todo[f])
      /\ Range(Tail(todo[f])) \subseteq Range(todo[f])
  BY <1>1, QueueRange
<1>3. Range(todo'["run"]) \subseteq Range(todo["run"])
  BY <1>1, <1>2
<1>4. FileWritten' = FileWritten
  BY <1>1 DEF FileWritten
<1>5. ASSUME NEW t, t = Head(todo[f]), happened["int"] = 0, FileWritten PROVE Late(t)'
  <2>1. f = "run"
    <3>1. f # "int"
      BY <1>1, <1>5, FrameFacts DEF Kept, Frames1
    <3>2. f # "term"
      <4> SUFFICES ASSUME f = "term" PROVE FALSE
        OBVIOUS
      <4>1. pc["term"] = "put"
        BY <1>1, ShapeFacts DEF Stop, HandlerLabels
      <4> QED
        BY <1>1, <1>5, <4>1 DEF Behind
    <3> QED
      BY <3>1, <3>2 DEF Frames
  <2>2. pc["run"] = "put"
    BY <1>1, <1>5, <2>1 DEF Behind
  <2>3. /\ data \in Tasks /\ crc[data] \in ram_uids \cup hdd_uids
        /\ t \in Range(Related[data])
    BY <1>1, <1>2, <1>5, <2>1, <2>2 DEF Behind
  <2>4. crc[data] \in ram_uids' \cup hdd_uids'
    BY <1>1, <2>3
  <2> QED
    BY <2>3, <2>4 DEF Late
<1>6. CASE happened["int"] # 0
  BY <1>1, <1>6 DEF Behind
<1>7. CASE happened["int"] = 0
  <2>1. ASSUME NEW t \in Range(tasks_queue') \ {Finish}, FileWritten', t \notin Range(tasks_queue)
        PROVE  Late(t)'
    <3>1. t = Head(todo[f])
      BY <1>1, <1>2, <2>1, QueueRange
    <3>2. FileWritten
      BY <1>4, <2>1
    <3> QED
      BY <1>5, <1>7, <3>1, <3>2
  <2> QED
    BY <1>1, <1>3, <1>4, <2>1, StayBehind
<1> QED
  BY <1>6, <1>7

LEMMA LoopBehind ==
  ASSUME TypeInv, Behind,
         GetResult \/ Commit \/ CommitFlush \/ SetTasksDone \/ Saving \/ CheckWorkers \/ LoadProxies
  PROVE  Behind'
<1>1. /\ UNCHANGED <<stack, drained, tasks_queue, workers_cnt, happened, tasks_file>> /\ stack # <<>>
      /\ pc \in [Frames -> Labels] /\ Frames = {"run", "int", "term"}
      /\ ram_uids \cup hdd_uids \subseteq ram_uids' \cup hdd_uids'
  BY DEF GetResult, Commit, CommitFlush, SetTasksDone, Saving, CheckWorkers, LoadProxies,
         At, Running, fileVars, poolVars, queueVars, uidVars, uids!Commit, uids!FlushToDisk,
         TypeInv, TypeOK, Frames
<1>2. FileWritten' = FileWritten
  BY <1>1 DEF FileWritten
<1>3. CASE Commit
  <2>1. /\ pc' = [pc EXCEPT !["run"] = IF Cardinality(ram_uids') > MaxUidsOnRam THEN "flush" ELSE "put"]
        /\ todo' = [todo EXCEPT !["run"] = Related[data]] /\ todo \in [Frames -> Seq(Strings)]
        /\ UNCHANGED data /\ data \in Tasks /\ ram_uids' = ram_uids \cup {crc[data]}
    BY <1>3 DEF Commit, At, Goto, loopVars, uids!Commit, TypeInv, TypeOK
  <2>2. /\ pc'["run"] # "load" /\ pc'["term"] = pc["term"]
        /\ todo'["run"] = Related[data]
    BY <1>1, <2>1
  <2>3. Range(todo'["run"]) \subseteq Range(Related[data'])
    BY <2>1, <2>2
  <2>4. \A t : Late(t) => Late(t)'
    BY <1>1 DEF Late
  <2> QED
    BY <1>1, <1>2, <2>1, <2>2, <2>3, <2>4 DEF Behind
<1>4. CASE GetResult \/ SetTasksDone \/ Saving \/ CheckWorkers \/ LoadProxies
  <2>1. \E l \in {"get", "saving", "commit", "check", "order", "exited"} : pc' = [pc EXCEPT !["run"] = l]
    BY <1>4 DEF GetResult, SetTasksDone, Saving, CheckWorkers, LoadProxies, PutInOrder, Goto
  <2>2. pc'["run"] \notin {"load", "flush", "put"} /\ pc'["term"] = pc["term"]
    BY <1>1, <2>1
  <2> QED
    BY <1>1, <1>2, <2>2, StayBehind
<1>5. CASE CommitFlush
  <2>1. /\ pc' = [pc EXCEPT !["run"] = "put"] /\ pc["run"] = "flush" /\ UNCHANGED <<data, todo>>
    BY <1>5 DEF CommitFlush, At, Goto, loopVars
  <2>2. pc'["run"] = "put" /\ pc'["term"] = pc["term"]
    BY <1>1, <2>1
  <2> QED
    BY <1>1, <1>2, <2>1, <2>2, StayBehind
<1> QED
  BY <1>3, <1>4, <1>5

LEMMA OrderBehind ==
  ASSUME TypeInv, Behind, NEW f \in Frames, Pill(f) \/ Spawn(f) \/ InOrderDone(f)
  PROVE  Behind'
<1>1. /\ UNCHANGED <<drained, todo, data, uidVars, happened, workers_cnt, tasks_file>>
      /\ stack # <<>> /\ pc \in [Frames -> Labels] /\ tasks_queue \in Seq(Strings)
      /\ UNCHANGED tasks_queue \/ tasks_queue' = Append(tasks_queue, Finish)
      /\ UNCHANGED pc \/ \E l \in {"exited", "get", "join"} : pc' = [pc EXCEPT ![f] = l]
      /\ Frames = {"run", "int", "term"}
  BY DEF Pill, Spawn, InOrderDone, InOrder, Running, Goto, fileVars, poolVars, queueVars, loopVars,
         TypeInv, TypeOK, Frames
<1>2. FileWritten' = FileWritten
  BY <1>1 DEF FileWritten
<1>3. \A t \in Range(tasks_queue') \ {Finish} : t \in Range(tasks_queue)
  BY <1>1, QueueRange, ConstantFacts
<1>4. /\ pc'["run"] \in {"load", "flush", "put"} => pc'["run"] = pc["run"]
      /\ pc'["term"] = "put" => pc["term"] = "put"
      /\ pc'["term"] \in {"empty", "drain"} => pc["term"] \in {"empty", "drain"}
  BY <1>1
<1> QED
  BY <1>1, <1>2, <1>3, <1>4, StayBehind DEF uidVars

LEMMA HandlersBehind ==
  ASSUME TypeInv, Stop, Kept, Behind,
         \/ \E f \in {"int", "term"} : NotEmpty(f) \/ Drain(f) \/ Kill(f)
         \/ TermReturn \/ Reload \/ Restart
  PROVE  Behind'
<1>1. /\ UNCHANGED <<data, uidVars, happened>> /\ stack # <<>>
      /\ Frames = {"run", "int", "term"} /\ pc \in [Frames -> Labels]
      /\ tasks_queue \in Seq(Strings)
  BY DEF NotEmpty, Drain, Kill, TermReturn, Reload, Restart, Joined, At, Running, loopVars,
         TypeInv, TypeOK, Frames
<1> SUFFICES ASSUME happened["int"] = 0 PROVE Behind'
  BY <1>1 DEF Behind
<1>2. ~Running("int") /\ Frames1
  BY FrameFacts DEF Kept, Frames1
<1>3. NotEmpty("term") \/ Drain("term") \/ Kill("term") \/ TermReturn
  BY <1>2 DEF NotEmpty, Drain, Kill, Reload, Restart, Joined, At
<1>4. /\ UNCHANGED todo /\ Running("term") /\ happened["term"] # 0
      /\ \E l \in {"drain", "empty", "kill", "exited"} : pc' = [pc EXCEPT !["term"] = l]
  <2>1. /\ UNCHANGED todo /\ Running("term")
        /\ \E l \in {"drain", "empty", "kill", "exited"} : pc' = [pc EXCEPT !["term"] = l]
    BY <1>3 DEF NotEmpty, Drain, Kill, TermReturn, Joined, At, PutInOrder, Goto
  <2>2. stack = <<"term", "run">>
    BY <1>2, <2>1, FrameFacts DEF Frames1
  <2> QED
    BY <1>2, <2>1, <2>2 DEF Frames1
<1>5. pc'["run"] = pc["run"] /\ pc'["term"] # "put" /\ pc["run"] # "load"
  <2>1. pc["run"] \in QuietLabels
    BY <1>4, ShapeFacts DEF Stop
  <2> QED
    BY <1>1, <1>4, <2>1 DEF QuietLabels
<1>6. CASE Kill("term")
  <2>1. /\ tasks_queue = <<>> /\ UNCHANGED <<tasks_queue, drained, stack>>
        /\ tasks_file' = drained["term"] /\ pc' = [pc EXCEPT !["term"] = "kill"]
    BY <1>6 DEF Kill, PutInOrder, Goto, queueVars
  <2>2. Range(tasks_queue') = {}
    BY <2>1 DEF Range
  <2>3. tasks_file' = drained'["term"]
    BY <2>1
  <2>4. stack' # <<>> /\ pc'["term"] = "kill"
    BY <1>1, <2>1
  <2> QED
    BY <1>1, <1>4, <1>5, <2>2, <2>3, <2>4 DEF Behind, uidVars
<1>7. CASE NotEmpty("term") \/ Drain("term")
  <2>1. /\ pc["term"] \in {"empty", "drain"} /\ UNCHANGED <<workers_cnt, stack>>
        /\ tasks_queue # <<>> /\ (UNCHANGED tasks_queue \/ tasks_queue' = Tail(tasks_queue))
        /\ UNCHANGED tasks_file
    BY <1>7 DEF NotEmpty, Drain, At, poolVars, queueVars, fileVars
  <2>2. \A t \in Range(tasks_queue') : t \in Range(tasks_queue)
    BY <1>1, <2>1, QueueRange
  <2>3. ~FileWritten
    BY <1>1, <2>1 DEF Behind
  <2>4. FileWritten' = FileWritten
    BY <2>1 DEF FileWritten
  <2> QED
    BY <1>1, <1>4, <1>5, <2>1, <2>2, <2>3, <2>4, StayBehind DEF uidVars
<1>8. CASE TermReturn
  <2>1. UNCHANGED <<workers_cnt, tasks_queue, drained, tasks_file>> /\ pc' = [pc EXCEPT !["term"] = "exited"]
    BY <1>8 DEF TermReturn, Goto, poolVars, fileVars
  <2>2. FileWritten' = FileWritten
    BY <2>1 DEF FileWritten
  <2>3. pc'["term"] = "exited"
    BY <1>1, <2>1
  <2> QED
    BY <1>1, <1>4, <1>5, <2>1, <2>2, <2>3, StayBehind DEF uidVars
<1> QED
  BY <1>3, <1>6, <1>7, <1>8

LEMMA StartBehind ==
  ASSUME WorkersCnt > 0, TypeInv, Behind, Start
  PROVE  Behind'
<1>1. /\ workers_cnt' = WorkersCnt /\ pc' = [pc EXCEPT !["run"] = "load"] /\ pc \in [Frames -> Labels]
      /\ UNCHANGED happened
  BY DEF Start, Goto, TypeInv, TypeOK
<1>2. pc'["run"] = "load" /\ pc'["term"] = pc["term"] /\ ~FileWritten'
  BY <1>1, ConfigAssumption DEF Frames, FileWritten
<1> QED
  BY <1>1, <1>2 DEF Behind

LEMMA InterruptBehind ==
  ASSUME OneStop, TypeInv, Behind, NEW f \in {"int", "term"}, Interrupt(f),
         UNCHANGED <<uidVars, workers_cnt, tasks_queue, todo, data>>
  PROVE  Behind'
<1>1. /\ stack # <<>> /\ pc' = [pc EXCEPT ![f] = "empty"]
      /\ happened' = [happened EXCEPT ![f] = @ + 1]
      /\ \E budget \in Budgets : \A e \in Events : happened'[e] <= budget[e]
      /\ pc \in [Frames -> Labels] /\ happened \in [Events -> Nat]
      /\ Frames = {"run", "int", "term"} /\ {"int", "term"} \subseteq Events
  BY DEF Interrupt, Goto, Spend, TypeInv, TypeOK, Frames, Events
<1> SUFFICES ASSUME happened'["int"] = 0 PROVE Behind'
  BY DEF Behind
<1>2. f = "term" /\ happened["int"] = 0
  BY <1>1
<1>3. happened["term"] = 0
  <2>1. happened'["term"] = happened["term"] + 1 /\ happened["term"] \in Nat
    BY <1>1, <1>2
  <2>2. PICK budget \in Budgets : \A e \in Events : happened'[e] <= budget[e]
    BY <1>1
  <2>3. budget["term"] \in Nat /\ budget["term"] <= 1
    BY <1>1, ConfigAssumption DEF OneStop
  <2>4. happened'["term"] <= budget["term"]
    BY <1>1, <2>2
  <2> QED
    BY <2>1, <2>3, <2>4
<1>4. ~FileWritten'
  BY <1>1, <1>2, <1>3 DEF Behind, FileWritten
<1>5. pc'["run"] = pc["run"] /\ pc'["term"] = "empty"
  BY <1>1, <1>2
<1> QED
  BY <1>1, <1>2, <1>4, <1>5 DEF Behind, uidVars

LEMMA DownBehind ==
  ASSUME Down
  PROVE  Behind'
BY DEF Down, Behind, Frames

LEMMA NextBehind ==
  ASSUME WorkersCnt > 0, OneStop, TypeInv, Pool, Stop, Kept, Behind, [Next]_vars
  PROVE  Behind'
<1>1. CASE UNCHANGED vars
  BY <1>1 DEF vars, frameVars, queueVars, uidVars, loopVars, poolVars, fileVars, Behind, FileWritten, Late
<1>2. CASE Main
  BY <1>2, LoopBehind, HandlersBehind, SetTaskBehind, OrderBehind, StartBehind, DownBehind DEF Main, Exit
<1>3. CASE SIGINT \/ SIGTERM
  <2>1. UNCHANGED <<uidVars, workers_cnt, tasks_queue, todo, data>>
    BY <1>3 DEF SIGINT, SIGTERM, poolVars, queueVars, loopVars
  <2>2. \E f \in {"int", "term"} : Interrupt(f)
    BY <1>3 DEF SIGINT, SIGTERM
  <2> QED
    BY <2>1, <2>2, InterruptBehind
<1>4. CASE Crash
  BY <1>4, DownBehind DEF Crash
<1> QED
  BY <1>1, <1>2, <1>3, <1>4, WorkerBehind DEF Next

-----------------------------------------------------------------------------
(* The string 'finish' is the last result of all.                          *)

Took == stack # <<>> /\ pc["run"] \in {"saving", "check", "order", "exited"} /\ data = Finish

LastWord ==
  happened["int"] = 0 =>
    /\ Ended => happened["term"] # 0 /\ stack = <<"run">>
    /\ \A n \in 1 .. Len(results_queue) : results_queue[n] = Finish => n = Len(results_queue)
    /\ Took => results_queue = <<>>

\* A step that takes no result and hands none over.
LEMMA StayLastWord ==
  ASSUME LastWord, happened'["int"] = 0 => happened["int"] = 0,
         Ended => (happened["term"] # 0 => happened'["term"] # 0),
         Ended' => Ended, Took' => Took, UNCHANGED results_queue,
         Ended => UNCHANGED stack
  PROVE  LastWord'
BY DEF LastWord

LEMMA NoFinish ==
  ASSUME NEW q \in Seq(Strings), Finish \notin Range(q), NEW s \in Strings
  PROVE  \A n \in 1 .. Len(Append(q, s)) : Append(q, s)[n] = Finish => n = Len(Append(q, s))
<1> DEFINE longer == Append(q, s)
<1>1. /\ Len(longer) = Len(q) + 1 /\ DOMAIN q = 1 .. Len(q) /\ Len(q) \in Nat
      /\ \A n \in 1 .. Len(q) : longer[n] = q[n]
  OBVIOUS
<1> HIDE DEF longer
<1>2. \A n \in 1 .. Len(longer) : longer[n] = Finish => n = Len(longer)
  BY <1>1 DEF Range
<1> QED
  BY <1>2 DEF longer

LEMMA FinishTail ==
  ASSUME NEW q \in Seq(Strings), q # <<>>, \A n \in 1 .. Len(q) : q[n] = Finish => n = Len(q)
  PROVE  /\ \A n \in 1 .. Len(Tail(q)) : Tail(q)[n] = Finish => n = Len(Tail(q))
         /\ Head(q) = Finish => Tail(q) = <<>>
<1> DEFINE rest == Tail(q)
<1>1. /\ Len(q) \in Nat \ {0} /\ Head(q) = q[1]
      /\ Len(rest) = Len(q) - 1 /\ rest \in Seq(Strings)
      /\ \A n \in 1 .. Len(q) - 1 : rest[n] = q[n + 1]
  OBVIOUS
<1> HIDE DEF rest
<1>2. ASSUME NEW n \in 1 .. Len(rest), rest[n] = Finish PROVE n = Len(rest)
  <2>1. n + 1 \in 1 .. Len(q) /\ q[n + 1] = Finish
    BY <1>1, <1>2
  <2>2. n + 1 = Len(q)
    BY <2>1
  <2> QED
    BY <1>1, <2>2
<1>3. Head(q) = Finish => rest = <<>>
  <2> SUFFICES ASSUME Head(q) = Finish PROVE rest = <<>>
    OBVIOUS
  <2>1. Len(q) = 1
    BY <1>1
  <2>2. Len(rest) = 0
    BY <1>1, <2>1
  <2> QED
    BY <1>1, <2>2
<1> QED
  BY <1>2, <1>3 DEF rest

LEMMA GetLastWord ==
  ASSUME TypeInv, Stop, LastWord, GetResult
  PROVE  LastWord'
<1>1. /\ results_queue # <<>> /\ data' = Head(results_queue) /\ results_queue' = Tail(results_queue)
      /\ UNCHANGED <<stack, happened>> /\ results_queue \in Seq(Strings)
      /\ Running("run")
      /\ pc' = [pc EXCEPT !["run"] = IF data' = Finish THEN "saving"
                                     ELSE IF data' \in Wordy THEN "commit" ELSE "check"]
  BY DEF GetResult, At, Goto, TypeInv, TypeOK
<1>2. Ended' => Ended
  BY <1>1, QueueRange DEF Ended
<1> SUFFICES ASSUME happened["int"] = 0
             PROVE  /\ \A n \in 1 .. Len(results_queue') : results_queue'[n] = Finish => n = Len(results_queue')
                    /\ Took' => results_queue' = <<>>
  BY <1>1, <1>2 DEF LastWord
<1>3. \A n \in 1 .. Len(results_queue) : results_queue[n] = Finish => n = Len(results_queue)
  BY DEF LastWord
<1>4. /\ \A n \in 1 .. Len(results_queue') : results_queue'[n] = Finish => n = Len(results_queue')
      /\ data' = Finish => results_queue' = <<>>
  BY <1>1, <1>3, FinishTail
<1> QED
  BY <1>4 DEF Took

LEMMA LoopLastWord ==
  ASSUME TypeInv, Stop, LastWord,
         Commit \/ CommitFlush \/ SetTasksDone \/ Saving \/ CheckWorkers \/ LoadProxies
  PROVE  LastWord'
<1>1. /\ UNCHANGED <<stack, results_queue, happened, data>> /\ pc \in [Frames -> Labels] /\ "run" \in Frames
  BY DEF Commit, CommitFlush, SetTasksDone, Saving, CheckWorkers, LoadProxies, queueVars, loopVars,
         TypeInv, TypeOK, Frames
<1>2. CASE Commit \/ CommitFlush \/ SetTasksDone
  <2>1. data # Finish
    BY <1>2 DEF Commit, CommitFlush, SetTasksDone, At, Stop
  <2>2. ~Took' /\ (Ended' => Ended)
    BY <1>1, <2>1 DEF Took, Ended
  <2> QED
    BY <1>1, <2>2, StayLastWord
<1>3. CASE Saving \/ CheckWorkers
  <2>1. pc["run"] \in {"saving", "check"} /\ stack # <<>>
    BY <1>3 DEF Saving, CheckWorkers, At, Running
  <2>2. (Took' => Took) /\ (Ended' => Ended)
    BY <1>1, <2>1 DEF Took, Ended
  <2> QED
    BY <1>1, <2>2, StayLastWord
<1>4. CASE LoadProxies
  <2>1. pc' = [pc EXCEPT !["run"] = "get"]
    BY <1>4 DEF LoadProxies, Goto
  <2>2. pc'["run"] = "get"
    BY <1>1, <2>1
  <2>3. ~Took' /\ (Ended' => Ended)
    BY <1>1, <2>2 DEF Took, Ended
  <2> QED
    BY <1>1, <2>3, StayLastWord
<1> QED
  BY <1>2, <1>3, <1>4

LEMMA OrderLastWord ==
  ASSUME TypeInv, Stop, Kept, LastWord, NEW f \in Frames,
         SetTask(f) \/ Pill(f) \/ Spawn(f) \/ InOrderDone(f)
  PROVE  LastWord'
<1>1. /\ UNCHANGED <<results_queue, happened, data>> /\ pc \in [Frames -> Labels] /\ stack # <<>>
      /\ Running(f) /\ Frames = {"run", "int", "term"}
  BY DEF SetTask, Pill, Spawn, InOrderDone, InOrder, Running, queueVars, loopVars, TypeInv, TypeOK, Frames
<1>2. CASE SetTask(f) \/ Pill(f) \/ Spawn(f)
  <2>1. UNCHANGED <<stack, pc>>
    BY <1>2 DEF SetTask, Pill, Spawn
  <2> QED
    BY <1>1, <2>1, StayLastWord DEF Took, Ended
<1>3. CASE InOrderDone(f)
  <2> SUFFICES ASSUME happened["int"] = 0 PROVE LastWord'
    BY <1>1 DEF LastWord
  <2>1. f \in {"run", "term"} /\ pc[f] # "restart"
    BY <1>1, FrameFacts DEF Kept, Frames1
  <2>2. /\ UNCHANGED stack /\ pc[f] \in {"order", "kill"}
        /\ \E l \in {"exited", "get", "join"} : pc' = [pc EXCEPT ![f] = l]
    BY <1>3, <2>1 DEF InOrderDone, InOrder, OrderLabels, Goto
  <2>3. f = "run" => pc[f] = "order"
    BY <2>2 DEF Stop, Shape, RunLabels, QuietLabels
  <2>4. (Took' => Took) /\ (Ended' => Ended)
    BY <1>1, <2>1, <2>2, <2>3 DEF Took, Ended
  <2> QED
    BY <1>1, <2>2, <2>4, StayLastWord
<1> QED
  BY <1>2, <1>3

LEMMA HandlersLastWord ==
  ASSUME TypeInv, Kept, LastWord,
         \/ \E f \in {"int", "term"} : NotEmpty(f) \/ Drain(f) \/ Kill(f)
         \/ TermReturn \/ Reload \/ Restart
  PROVE  LastWord'
<1>1. /\ UNCHANGED <<happened, data>> /\ pc \in [Frames -> Labels] /\ stack # <<>>
      /\ results_queue \in Seq(Strings) /\ Frames = {"run", "int", "term"}
  BY DEF NotEmpty, Drain, Kill, TermReturn, Reload, Restart, Joined, At, Running, loopVars,
         TypeInv, TypeOK, Frames
<1> SUFFICES ASSUME happened["int"] = 0 PROVE LastWord'
  BY <1>1 DEF LastWord
<1>2. ~Running("int") /\ Frames1
  BY FrameFacts DEF Kept, Frames1
<1>3. NotEmpty("term") \/ Drain("term") \/ Kill("term") \/ TermReturn
  BY <1>2 DEF NotEmpty, Drain, Kill, Reload, Restart, Joined, At
<1>4. /\ Running("term") /\ \E l \in {"drain", "empty", "kill", "exited"} : pc' = [pc EXCEPT !["term"] = l]
  BY <1>3 DEF NotEmpty, Drain, Kill, TermReturn, Joined, At, PutInOrder, Goto
<1>5. /\ stack = <<"term", "run">> /\ Tail(stack) = <<"run">> /\ stack # <<"run">> /\ <<"run">> # <<>>
      /\ happened["term"] # 0
  BY <1>2, <1>4, FrameFacts DEF Frames1
<1>6. ~Ended /\ pc'["run"] = pc["run"]
  BY <1>1, <1>4, <1>5 DEF LastWord
<1>7. ~Took'
  BY <1>1, <1>6 DEF Took, Ended
<1>8. CASE NotEmpty("term") \/ Drain("term") \/ Kill("term")
  <2>1. UNCHANGED <<results_queue, stack>>
    BY <1>8 DEF NotEmpty, Drain, Kill, queueVars
  <2>2. ~Ended'
    BY <1>1, <1>6, <1>7, <2>1 DEF Took, Ended
  <2> QED
    BY <1>1, <1>6, <1>7, <2>1, <2>2, StayLastWord
<1>9. CASE TermReturn
  <2>1. stack' = <<"run">> /\ results_queue' = Append(results_queue, Finish)
    BY <1>5, <1>9 DEF TermReturn
  <2>2. Finish \notin Range(results_queue)
    BY <1>6 DEF Ended
  <2>3. \A n \in 1 .. Len(results_queue') : results_queue'[n] = Finish => n = Len(results_queue')
    BY <1>1, <2>1, <2>2, NoFinish, ConstantFacts
  <2> QED
    BY <1>1, <1>5, <1>7, <2>1, <2>3 DEF LastWord
<1> QED
  BY <1>3, <1>8, <1>9

LEMMA WorkerLastWord ==
  ASSUME TypeInv, Pool, Stop, LastWord, NEW w \in Workers, Worker(w) \/ SaveFails(w)
  PROVE  LastWord'
<1>1. /\ wpc[w] # "none" /\ results_queue \in Seq(Strings) /\ Tasks \subseteq Strings
      /\ Finish \notin Tasks
  BY CrcAssumption DEF Worker, Fetch, Take, NextProxy, FetchOk, FetchBad, FetchFail, Save, SaveFails,
                       TypeInv, TypeOK, Strings
<1>2. UNCHANGED <<stack, pc, data>>
  BY DEF Worker, Fetch, Take, NextProxy, FetchOk, FetchBad, FetchFail, Save, SaveFails,
         frameVars, loopVars
<1>3. happened'["int"] = happened["int"]
  BY DEF Worker, Fetch, Take, NextProxy, FetchOk, FetchBad, FetchFail, Save, SaveFails, Spend, Events,
         TypeInv, TypeOK
<1>4. ~Ended
  BY <1>1 DEF Stop, NoneAlive, Alive
<1>5. \/ UNCHANGED results_queue
      \/ wtask[w] \in Tasks /\ results_queue' = Append(results_queue, wtask[w])
  BY DEF Worker, Fetch, Take, NextProxy, FetchOk, FetchBad, FetchFail, Save, SaveFails, queueVars,
         TypeInv
<1>6. ~Ended' /\ ~Took'
  BY <1>1, <1>2, <1>4, <1>5, QueueRange DEF Ended, Took
<1>7. Finish \notin Range(results_queue)
  BY <1>4 DEF Ended
<1>8. CASE UNCHANGED results_queue
  BY <1>2, <1>3, <1>4, <1>6, <1>8 DEF LastWord
<1>9. CASE wtask[w] \in Tasks /\ results_queue' = Append(results_queue, wtask[w])
  <2>1. \A n \in 1 .. Len(results_queue') : results_queue'[n] = Finish => n = Len(results_queue')
    BY <1>1, <1>7, <1>9, NoFinish
  <2> QED
    BY <1>6, <2>1 DEF LastWord
<1> QED
  BY <1>5, <1>8, <1>9

LEMMA QuietLastWord ==
  ASSUME stack' = <<>> \/ pc'["run"] = "load", results_queue' = <<>>
  PROVE  LastWord'
<1>1. ~Ended' /\ ~Took'
  BY DEF Ended, Took, Range
<1>2. Len(results_queue') = 0
  OBVIOUS
<1> QED
  BY <1>1, <1>2 DEF LastWord

LEMMA NextLastWord ==
  ASSUME OneStop, TypeInv, Pool, Stop, Kept, LastWord, [Next]_vars
  PROVE  LastWord'
<1>1. CASE UNCHANGED vars
  BY <1>1 DEF vars, frameVars, queueVars, loopVars, LastWord, Ended, Took
<1>2. CASE Start
  <2>1. pc' = [pc EXCEPT !["run"] = "load"] /\ pc \in [Frames -> Labels] /\ results_queue' = <<>>
    BY <1>2 DEF Start, Goto, queueVars, Stop, TypeInv, TypeOK
  <2>2. pc'["run"] = "load"
    BY <2>1 DEF Frames
  <2> QED
    BY <2>1, <2>2, QuietLastWord
<1>3. CASE Down
  BY <1>3, QuietLastWord DEF Down
<1>4. ASSUME NEW f \in {"int", "term"}, Interrupt(f), UNCHANGED <<results_queue, data>> PROVE LastWord'
  <2>1. /\ pc' = [pc EXCEPT ![f] = "empty"] /\ stack # <<>>
        /\ happened' = [happened EXCEPT ![f] = @ + 1]
        /\ \E budget \in Budgets : \A e \in Events : happened'[e] <= budget[e]
        /\ pc \in [Frames -> Labels] /\ happened \in [Events -> Nat]
        /\ Frames = {"run", "int", "term"} /\ {"int", "term"} \subseteq Events
    BY <1>4 DEF Interrupt, Goto, Spend, TypeInv, TypeOK, Frames, Events
  <2> SUFFICES ASSUME happened'["int"] = 0 PROVE LastWord'
    BY DEF LastWord
  <2>2. f = "term" /\ happened["int"] = 0
    BY <2>1
  <2>3. happened["term"] = 0
    <3>1. happened'["term"] = happened["term"] + 1 /\ happened["term"] \in Nat
      BY <2>1, <2>2
    <3>2. PICK budget \in Budgets : \A e \in Events : happened'[e] <= budget[e]
      BY <2>1
    <3>3. budget["term"] \in Nat /\ budget["term"] <= 1
      BY <2>1, ConfigAssumption DEF OneStop
    <3>4. happened'["term"] <= budget["term"]
      BY <2>1, <3>2
    <3> QED
      BY <3>1, <3>3, <3>4
  <2>4. ~Ended /\ pc'["run"] = pc["run"]
    BY <2>1, <2>2, <2>3 DEF LastWord
  <2>5. ~Ended' /\ ~Took'
    BY <1>4, <2>1, <2>4 DEF Ended, Took
  <2> QED
    BY <1>4, <2>2, <2>5 DEF LastWord
<1>5. CASE SIGINT \/ SIGTERM
  <2>1. UNCHANGED <<results_queue, data>> /\ \E f \in {"int", "term"} : Interrupt(f)
    BY <1>5 DEF SIGINT, SIGTERM, queueVars, loopVars
  <2> QED
    BY <1>4, <2>1
<1>6. CASE Main
  BY <1>2, <1>3, <1>6, GetLastWord, LoopLastWord, OrderLastWord, HandlersLastWord DEF Main, Exit
<1> QED
  BY <1>1, <1>3, <1>5, <1>6, WorkerLastWord DEF Next, Crash

LEMMA AnsweredFacts ==
  ASSUME TypeInv, NEW t,
         t \in Range(results_queue) \/ (stack # <<>> /\ pc["run"] = "commit" /\ data = t)
  PROVE  t \in Range(AnsweredTasks)
<1> DEFINE hand == IF stack # <<>> /\ pc["run"] = "commit" THEN <<data>> ELSE <<>>
<1>1. hand \in Seq(Strings) /\ results_queue \in Seq(Strings)
  BY DEF TypeInv, TypeOK
<1>2. stack # <<>> /\ pc["run"] = "commit" => data \in Range(hand)
  <2>1. 1 \in DOMAIN <<data>> /\ <<data>>[1] = data
    OBVIOUS
  <2>2. data \in Range(<<data>>)
    BY <2>1 DEF Range
  <2> QED
    BY <2>2
<1> HIDE DEF hand
<1>3. Range(results_queue) \subseteq Range(results_queue \o hand) /\ Range(hand) \subseteq Range(results_queue \o hand)
  BY <1>1, RangeJoined
<1>4. results_queue \o hand = AnsweredTasks
  BY DEF hand, AnsweredTasks
<1> QED
  BY <1>2, <1>3, <1>4

(* No retry, stop or result handled late loses a video in process, except     *)
(* that what is put into tasks_queue behind the drain of a SIGTERM is lost    *)
(* when the process ends: that takes a failed fetch, or a page committed that *)
(* links to the video.  Every other one is in tasks_file when run() has       *)
(* ended.  For any pages and any pool with a worker in it, if there is no     *)
(* reload and at most one SIGTERM, and if no other string has the checksum of *)
(* the video.                                                                 *)
THEOREM NothingForgottenHolds ==
  WorkersCnt > 0 /\ OneStop /\ NoCollision /\ QuietSignals => (Spec => []NothingForgotten)
<1> SUFFICES ASSUME WorkersCnt > 0, OneStop, NoCollision, QuietSignals PROVE Spec => []NothingForgotten
  OBVIOUS
<1>1. TypeInv /\ Stop /\ Kept /\ Behind /\ LastWord => NothingForgotten
  <2> SUFFICES ASSUME TypeInv, Stop, Kept, Behind, LastWord, happened["int"] = 0, stack # <<>>,
                      NEW task \in Worthy, crc[task] \in proc_uids
               PROVE  \/ task \in Range(tasks_queue) /\ (FileWritten => Late(task))
                      \/ task \in Range(IF FileWritten THEN tasks_file ELSE drained["term"])
                      \/ /\ ~At("run", "exited")
                         /\ \/ task \in Range(AnsweredTasks)
                            \/ \E w \in Workers : HoldsTask(w) /\ wtask[w] = task
    BY DEF NothingForgotten, Worthy, Stopped
  <2>1. Somewhere(task)
    BY DEF Kept, AllKept
  <2>2. CASE task \in Range(tasks_queue)
    BY <2>2, WorthyFacts DEF Behind
  <2>3. CASE task \in Range(drained["term"])
    BY <2>3 DEF Behind
  <2>4. CASE At("run", "exited")
    <3>1. Took /\ Ended
      BY <2>4 DEF At, Stop, Took, Ended
    <3>2. NoneAlive /\ results_queue = <<>>
      BY <3>1 DEF Stop, LastWord
    <3>3. task \notin Range(results_queue)
      BY <3>2 DEF Range
    <3>4. ~\E w \in Workers : HoldsTask(w) /\ wtask[w] = task
      BY <3>2 DEF NoneAlive, Alive, HoldsTask
    <3>5. pc["run"] # "commit"
      BY <2>4 DEF At
    <3> QED
      BY <2>1, <2>2, <2>3, <3>3, <3>4, <3>5 DEF Somewhere
  <2>5. CASE ~At("run", "exited") /\ task \notin Range(tasks_queue) /\ task \notin Range(drained["term"])
    <3>1. task \in Range(results_queue) \/ (stack # <<>> /\ pc["run"] = "commit" /\ data = task)
            => task \in Range(AnsweredTasks)
      BY AnsweredFacts
    <3> QED
      BY <2>1, <2>5, <3>1 DEF Somewhere
  <2> QED
    BY <2>2, <2>3, <2>4, <2>5
<1>2. /\ TypeInv /\ Pool /\ Stop /\ Kept /\ Behind /\ LastWord /\ [Next]_vars
           => TypeInv' /\ Pool' /\ Stop' /\ Kept' /\ Behind' /\ LastWord'
  BY NextStop, NextKept, NextBehind, NextLastWord
<1>3. Init => Behind /\ LastWord
  <2> SUFFICES ASSUME Init PROVE Behind /\ LastWord
    OBVIOUS
  <2>1. stack = <<>> /\ results_queue = <<>> /\ pc["term"] = "exited" /\ Len(results_queue) = 0
    BY DEF Init, Frames
  <2>2. ~Ended /\ ~Took
    BY <2>1 DEF Ended, Took, Range
  <2> QED
    BY <2>1, <2>2 DEF Behind, LastWord
<1> QED
  BY <1>1, <1>2, <1>3, InitTypeInv, InitPool, InitStop, InitKept, PTL DEF Spec

-----------------------------------------------------------------------------
(* The life of a video.                                                    *)

\* A poison pill that setTasks registers does not make a video known.
FinishApart == \A t \in Tasks : crc[t] # crc[Finish]

-----------------------------------------------------------------------------
(* The frames: run() is below all others, and a handler that is not on the *)
(* stack has nothing in its hands.                                         *)

Handlers ==
  /\ stack # <<>> => stack[Len(stack)] = "run"
  /\ pc["run"] # "restart"
  /\ stack = <<>> => proc_uids = {}
  /\ pc["int"] # "exited" => "int" \in Range(stack)
  /\ drained["int"] # <<>> => pc["int"] \in {"empty", "drain", "kill", "join"}
  /\ todo["int"] # <<>> => pc["int"] = "put"
  /\ pc["term"] # "exited" \/ drained["term"] # <<>> => happened["term"] > 0

\* A step of the running frame from one of its labels to another.
LEMMA FrameHandlers ==
  ASSUME TypeInv, Handlers, stack # <<>>, UNCHANGED <<stack, happened>>,
         NEW l, pc' = [pc EXCEPT ![Head(stack)] = l],
         Head(stack) = "run" => l # "restart",
         pc[Head(stack)] # "exited",
         IF Head(stack) = "int"
           THEN /\ drained'["int"] # <<>> => l \in {"empty", "drain", "kill", "join"}
                /\ todo'["int"] # <<>> => l = "put"
           ELSE drained'["int"] = drained["int"] /\ todo'["int"] = todo["int"],
         Head(stack) # "term" => drained'["term"] = drained["term"]
  PROVE  Handlers'
<1>1. /\ pc \in [Frames -> Labels] /\ stack \in Seq(Frames) /\ {"run", "int", "term"} = Frames
  BY DEF TypeInv, TypeOK, Frames
<1>2. Head(stack) \in Frames /\ Head(stack) \in Range(stack)
  <2>1. Len(stack) \in Nat \ {0} /\ DOMAIN stack = 1 .. Len(stack) /\ Head(stack) = stack[1]
    BY <1>1
  <2> QED
    BY <1>1, <2>1 DEF Range
<1>3. \A f \in Frames : pc'[f] = IF f = Head(stack) THEN l ELSE pc[f]
  BY <1>1
<1> QED
  BY <1>1, <1>2, <1>3 DEF Handlers

\* A step that leaves the labels alone.
LEMMA StayHandlers ==
  ASSUME Handlers, UNCHANGED <<stack, pc, drained>>,
         todo'["int"] = todo["int"] \/ pc["int"] = "put",
         happened'["term"] = happened["term"],
         stack = <<>> => proc_uids' = proc_uids
  PROVE  Handlers'
BY DEF Handlers

LEMMA DownHandlers ==
  ASSUME Down
  PROVE  Handlers'
BY DEF Down, Handlers, Frames, uids!Forget

LEMMA InitHandlers == Init => Handlers
BY DEF Init, Handlers, Frames, uids!Init

\* handleSIGINT or handleSIGTERM begins.
LEMMA InterruptHandlers ==
  ASSUME TypeInv, Handlers, SIGINT \/ SIGTERM
  PROVE  Handlers'
<1>1. PICK f \in {"int", "term"} : Interrupt(f) /\ UNCHANGED <<proc_uids, todo>>
  BY DEF SIGINT, SIGTERM, uidVars
<1>2. /\ pc \in [Frames -> Labels] /\ stack \in Seq(Frames) /\ happened \in [Events -> Nat]
      /\ drained \in [Frames -> Seq(Strings)]
      /\ f \in Frames /\ f \in Events /\ {"int", "term"} \subseteq Events /\ {"run", "int", "term"} = Frames
  BY DEF TypeInv, TypeOK, Frames, Events
<1>3. /\ stack # <<>> /\ stack' = <<f>> \o stack /\ f \notin Range(stack)
      /\ pc' = [pc EXCEPT ![f] = "empty"] /\ drained' = [drained EXCEPT ![f] = <<>>]
      /\ happened' = [happened EXCEPT ![f] = @ + 1]
  BY <1>1 DEF Interrupt, Goto, Spend
<1>4. /\ stack' # <<>> /\ Len(stack') = Len(stack) + 1 /\ Len(stack) \in Nat /\ stack'[1] = f
      /\ \A i \in 2 .. Len(stack) + 1 : stack'[i] = stack[i - 1]
  BY <1>2, <1>3, StackPushed
<1>5. stack'[Len(stack')] = "run"
  <2>1. Len(stack) # 0
    BY <1>2, <1>3
  <2>2. Len(stack') \in 2 .. Len(stack) + 1 /\ Len(stack') - 1 = Len(stack)
    BY <1>4, <2>1
  <2> QED
    BY <1>3, <1>4, <2>2 DEF Handlers
<1>6. /\ \A g \in Range(stack) : g \in Range(stack')
      /\ f \in Range(stack')
  <2>1. stack' \in Seq(Frames) /\ DOMAIN stack' = 1 .. Len(stack')
    BY <1>2, <1>3
  <2>2. ASSUME NEW i \in DOMAIN stack PROVE stack[i] \in Range(stack')
    <3>1. i + 1 \in 2 .. Len(stack) + 1 /\ (i + 1) - 1 = i /\ i + 1 \in DOMAIN stack'
      BY <1>2, <1>4, <2>1, <2>2
    <3>2. stack'[i + 1] = stack[i]
      BY <1>4, <3>1
    <3> QED
      BY <3>1, <3>2 DEF Range
  <2> QED
    BY <1>4, <2>1, <2>2 DEF Range
<1>7. /\ \A g \in {"int", "term"} : g # f => pc'[g] = pc[g] /\ drained'[g] = drained[g]
      /\ pc'[f] = "empty" /\ drained'[f] = <<>> /\ pc'["run"] = pc["run"]
      /\ happened'["term"] = IF f = "term" THEN happened["term"] + 1 ELSE happened["term"]
      /\ happened["term"] \in Nat
  BY <1>2, <1>3
<1>8. todo'["int"] # <<>> => pc'["int"] = "put"
  <2>1. CASE f = "int"
    <3>1. pc["int"] = "exited" /\ todo'["int"] = todo["int"]
      BY <1>1, <1>3, <2>1 DEF Handlers
    <3> QED
      BY <3>1 DEF Handlers
  <2> QED
    BY <1>1, <1>7, <2>1 DEF Handlers
<1> QED
  BY <1>3, <1>4, <1>5, <1>6, <1>7, <1>8 DEF Handlers

\* A handler returns.
LEMMA PopHandlers ==
  ASSUME TypeInv, Handlers, stack # <<>>, Head(stack) # "run", stack' = Tail(stack),
         pc' = [pc EXCEPT ![Head(stack)] = "exited"],
         Head(stack) = "int" => pc["int"] = "restart",
         UNCHANGED <<drained, todo, happened, proc_uids>>
  PROVE  Handlers'
<1>1. /\ stack \in Seq(Frames) /\ pc \in [Frames -> Labels] /\ {"run", "int", "term"} = Frames
  BY DEF TypeInv, TypeOK, Frames
<1>2. /\ Len(stack') = Len(stack) - 1 /\ Len(stack) \in Nat \ {0} /\ stack' \in Seq(Frames)
      /\ Head(stack) = stack[1] /\ stack[1] \in Frames
      /\ \A i \in 1 .. Len(stack) - 1 : stack'[i] = stack[i + 1]
  BY <1>1, StackPopped
<1>3. Len(stack) # 1 /\ stack[Len(stack)] = "run"
  BY <1>2 DEF Handlers
<1>4. stack' # <<>> /\ stack'[Len(stack')] = "run"
  <2>1. Len(stack') \in 1 .. Len(stack) - 1 /\ Len(stack') + 1 = Len(stack)
    BY <1>2, <1>3
  <2>2. stack'[Len(stack')] = stack[Len(stack)]
    BY <1>2, <2>1
  <2>3. Len(stack') # 0
    BY <2>1
  <2> QED
    BY <1>2, <1>3, <2>2, <2>3
<1>5. \A g \in Range(stack) : g = Head(stack) \/ g \in Range(stack')
  <2>1. DOMAIN stack = 1 .. Len(stack) /\ DOMAIN stack' = 1 .. Len(stack) - 1
    BY <1>1, <1>2
  <2>2. ASSUME NEW i \in DOMAIN stack, i # 1 PROVE stack[i] \in Range(stack')
    <3>1. i - 1 \in 1 .. Len(stack) - 1 /\ (i - 1) + 1 = i
      BY <1>2, <2>1, <2>2
    <3>2. stack'[i - 1] = stack[i]
      BY <1>2, <3>1
    <3> QED
      BY <2>1, <3>1, <3>2 DEF Range
  <2> QED
    BY <1>2, <2>1, <2>2 DEF Range
<1>6. \A f \in Frames : pc'[f] = IF f = Head(stack) THEN "exited" ELSE pc[f]
  BY <1>1
<1> QED
  BY <1>1, <1>2, <1>4, <1>5, <1>6 DEF Handlers

LEMMA MainHandlers ==
  ASSUME TypeInv, Handlers, Main
  PROVE  Handlers'
<1>1. /\ pc \in [Frames -> Labels] /\ todo \in [Frames -> Seq(Strings)]
      /\ drained \in [Frames -> Seq(Strings)] /\ {"run", "int", "term"} = Frames
  BY DEF TypeInv, TypeOK, Frames
<1>2. CASE Start
  <2>1. /\ stack = <<>> /\ stack' = <<"run">> /\ pc' = [pc EXCEPT !["run"] = "load"]
        /\ todo' = [todo EXCEPT !["run"] = tasks_file]
        /\ UNCHANGED <<drained, happened>>
    BY <1>2 DEF Start, Goto
  <2>2. stack' # <<>> /\ Len(stack') = 1 /\ stack'[1] = "run"
    BY <2>1
  <2>3. pc["int"] = "exited"
    <3>1. DOMAIN <<>> = {}
      OBVIOUS
    <3> QED
      BY <2>1, <3>1 DEF Handlers, Range
  <2> QED
    BY <1>1, <2>1, <2>2, <2>3 DEF Handlers
<1>3. CASE LoadProxies \/ GetResult \/ Commit \/ CommitFlush \/ SetTasksDone \/ Saving
  <2>1. /\ stack # <<>> /\ Head(stack) = "run" /\ pc["run"] # "exited"
        /\ UNCHANGED <<stack, drained, happened>>
        /\ todo'["int"] = todo["int"]
        /\ \E l \in Labels \ {"restart"} : pc' = [pc EXCEPT !["run"] = l]
    BY <1>1, <1>3 DEF LoadProxies, GetResult, Commit, CommitFlush, SetTasksDone, Saving,
                      At, Running, Goto, Labels
  <2> QED
    BY <2>1, FrameHandlers
<1>4. CASE CheckWorkers
  <2>1. /\ stack # <<>> /\ Head(stack) = "run" /\ pc["run"] # "exited"
        /\ UNCHANGED <<stack, drained, todo, happened>>
        /\ \E l \in Labels \ {"restart"} : pc' = [pc EXCEPT !["run"] = l]
    BY <1>1, <1>4 DEF CheckWorkers, PutInOrder, At, Running, Goto, Labels
  <2> QED
    BY <2>1, FrameHandlers
<1>5. ASSUME NEW f \in Frames, SetTask(f) PROVE Handlers'
  <2>1. /\ UNCHANGED <<stack, pc, drained, happened>> /\ stack # <<>>
        /\ todo' = [todo EXCEPT ![f] = Tail(@)]
        /\ todo[f] # <<>>
    BY <1>5 DEF SetTask, Running
  <2>2. todo'["int"] = todo["int"] \/ pc["int"] = "put"
    BY <1>1, <2>1 DEF Handlers
  <2> QED
    BY <2>1, <2>2, StayHandlers
<1>6. ASSUME NEW f \in Frames, Pill(f) \/ Spawn(f) PROVE Handlers'
  <2>1. UNCHANGED <<stack, pc, drained, todo, happened>> /\ stack # <<>>
    BY <1>6 DEF Pill, Spawn, InOrder, Running
  <2> QED
    BY <2>1, StayHandlers
<1>7. ASSUME NEW f \in Frames, InOrderDone(f) PROVE Handlers'
  <2>1. /\ stack # <<>> /\ Head(stack) = f /\ pc[f] \in OrderLabels
        /\ UNCHANGED <<drained, todo, happened, proc_uids>>
    BY <1>7 DEF InOrderDone, InOrder, Running, uidVars
  <2>2. CASE pc[f] = "restart" /\ Goto(f, "exited") /\ stack' = Tail(stack)
    <3>1. f # "run"
      BY <2>2 DEF Handlers
    <3> QED
      BY <2>1, <2>2, <3>1, PopHandlers DEF Goto
  <2>3. CASE pc[f] = "kill" /\ Goto(f, "join") /\ UNCHANGED stack
    <3>1. f = "int" => todo["int"] = <<>>
      BY <2>3 DEF Handlers
    <3> QED
      BY <2>1, <2>3, <3>1, FrameHandlers DEF Goto
  <2>4. CASE /\ pc[f] = "order" /\ UNCHANGED stack
             /\ Goto(f, IF data = Finish THEN "exited" ELSE "get")
    <3>1. f = "int" => todo["int"] = <<>> /\ drained["int"] = <<>>
      BY <2>4 DEF Handlers
    <3> QED
      BY <2>1, <2>4, <3>1, FrameHandlers DEF Goto
  <2> QED
    BY <1>7, <2>2, <2>3, <2>4 DEF InOrderDone
<1>8. ASSUME NEW f \in {"int", "term"}, NotEmpty(f) \/ Drain(f) \/ Kill(f) PROVE Handlers'
  <2>1. /\ stack # <<>> /\ Head(stack) = f /\ pc[f] \in {"empty", "drain"}
        /\ UNCHANGED <<stack, todo, happened>>
        /\ \E l \in {"empty", "drain", "kill"} : pc' = [pc EXCEPT ![f] = l]
        /\ \A g \in Frames : g # f => drained'[g] = drained[g]
    BY <1>1, <1>8 DEF NotEmpty, Drain, Kill, PutInOrder, At, Running, Goto
  <2>2. f = "int" => todo["int"] = <<>>
    BY <2>1 DEF Handlers
  <2> QED
    BY <1>1, <2>1, <2>2, FrameHandlers
<1>9. CASE TermReturn
  <2>1. /\ stack # <<>> /\ Head(stack) = "term" /\ stack' = Tail(stack)
        /\ pc' = [pc EXCEPT !["term"] = "exited"]
        /\ UNCHANGED <<drained, todo, happened, proc_uids>>
    BY <1>9 DEF TermReturn, Joined, At, Running, Goto, uidVars
  <2> QED
    BY <2>1, PopHandlers
<1>10. CASE Reload
  <2>1. /\ stack # <<>> /\ Head(stack) = "int" /\ pc["int"] = "join"
        /\ UNCHANGED <<stack, happened>>
        /\ pc' = [pc EXCEPT !["int"] = "put"]
        /\ drained'["int"] = <<>> /\ drained'["term"] = drained["term"]
    BY <1>1, <1>10 DEF Reload, Joined, At, Running, Goto
  <2> QED
    BY <2>1, FrameHandlers
<1>11. CASE Restart
  <2>1. /\ stack # <<>> /\ Head(stack) = "int" /\ pc["int"] = "put" /\ todo["int"] = <<>>
        /\ UNCHANGED <<stack, todo, drained, happened>>
        /\ pc' = [pc EXCEPT !["int"] = "restart"]
    BY <1>1, <1>11 DEF Restart, PutInOrder, At, Running, Goto
  <2>2. drained["int"] = <<>>
    BY <2>1 DEF Handlers
  <2> QED
    BY <2>1, <2>2, FrameHandlers
<1>12. CASE Exit
  BY <1>12, DownHandlers DEF Exit
<1> QED
  BY <1>2, <1>3, <1>4, <1>5, <1>6, <1>7, <1>8, <1>9, <1>10, <1>11, <1>12 DEF Main

LEMMA NextHandlers == TypeInv /\ Handlers /\ [Next]_vars => Handlers'
<1> SUFFICES ASSUME TypeInv, Handlers, [Next]_vars PROVE Handlers'
  OBVIOUS
<1>1. CASE UNCHANGED vars
  BY <1>1 DEF vars, uidVars, frameVars, Handlers
<1>2. CASE Crash
  BY <1>2, DownHandlers DEF Crash
<1>3. ASSUME NEW w \in Workers, Worker(w) \/ SaveFails(w) PROVE Handlers'
  <2>1. UNCHANGED <<stack, pc, drained, todo, proc_uids>>
    BY <1>3 DEF Worker, Fetch, Take, NextProxy, FetchOk, FetchBad, FetchFail, Save, SaveFails,
                frameVars, uidVars
  <2>2. happened'["term"] = happened["term"]
    <3>1. \/ UNCHANGED happened
          \/ \E e \in {"fail", "death"} : happened' = [happened EXCEPT ![e] = @ + 1]
      BY <1>3 DEF Worker, Fetch, Take, NextProxy, FetchOk, FetchBad, FetchFail, Save, SaveFails, Spend
    <3>2. happened \in [Events -> Nat] /\ "term" \in Events
      BY DEF TypeInv, TypeOK, Events
    <3> QED
      BY <3>1, <3>2
  <2> QED
    BY <2>1, <2>2, StayHandlers
<1> QED
  BY <1>1, <1>2, <1>3, MainHandlers, InterruptHandlers DEF Next

-----------------------------------------------------------------------------
(* Where the videos are, as sets of strings.                               *)

Waiting == Range(tasks_queue) \cup Range(drained["int"]) \cup Range(drained["term"])
             \cup Range(todo["int"])
Fetching == {wtask[w] : w \in {v \in Workers : HoldsTask(v)}}
Arriving == Range(results_queue) \cup (IF stack # <<>> /\ pc["run"] = "commit" THEN {data} ELSE {})

WaitingUids == {crc[task] : task \in Waiting \ {Finish}}
FetchingUids == {crc[task] : task \in Fetching \ {Finish}}
ArrivingUids == {crc[task] : task \in Arriving \ {Finish}}

Status == [u \in VideoUids |-> StatusOf(u)]

LEMMA RangeTail ==
  ASSUME NEW q \in Seq(Strings), q # <<>>
  PROVE  Range(q) = {Head(q)} \cup Range(Tail(q)) /\ Head(q) \in Strings
<1>1. Head(q) \in Strings
  OBVIOUS
<1>2. /\ \A t \in Range(q) : t = Head(q) \/ t \in Range(Tail(q))
      /\ Head(q) \in Range(q) /\ \A x \in Range(Tail(q)) : x \in Range(q)
  BY QueueFacts, QueueRange
<1> QED
  BY <1>1, <1>2

LEMMA RangeAppend ==
  ASSUME NEW q \in Seq(Strings), NEW x \in Strings
  PROVE  Range(Append(q, x)) = Range(q) \cup {x}
<1>1. /\ x \in Range(Append(q, x)) /\ Range(q) \subseteq Range(Append(q, x))
      /\ \A y \in Range(Append(q, x)) : y \in Range(q) \/ y = x
  BY QueueFacts, QueueRange
<1> QED
  BY <1>1

LEMMA RangeEmpty == Range(<<>>) = {}
<1>1. DOMAIN <<>> = {}
  OBVIOUS
<1> QED
  BY <1>1 DEF Range

LEMMA RangeOfBoth ==
  ASSUME NEW p \in Seq(Strings), NEW q \in Seq(Strings)
  PROVE  p \o q \in Seq(Strings) /\ Range(p \o q) = Range(p) \cup Range(q)
<1> DEFINE both == p \o q
<1>1. /\ both \in Seq(Strings)
      /\ \A i \in DOMAIN both : \/ i \in DOMAIN p /\ both[i] = p[i]
                                \/ i - Len(p) \in DOMAIN q /\ both[i] = q[i - Len(p)]
  BY JoinedFacts
<1>2. Range(p) \subseteq Range(both) /\ Range(q) \subseteq Range(both)
  BY RangeJoined
<1> HIDE DEF both
<1>3. Range(both) \subseteq Range(p) \cup Range(q)
  BY <1>1 DEF Range
<1>4. Range(both) = Range(p) \cup Range(q)
  BY <1>2, <1>3
<1> QED
  BY <1>1, <1>4 DEF both

LEMMA Sets ==
  ASSUME TypeInv
  PROVE  Range(WaitingTasks) = Waiting /\ Range(AnsweredTasks) = Arriving
<1>1. /\ tasks_queue \in Seq(Strings) /\ results_queue \in Seq(Strings) /\ data \in Strings
      /\ drained["int"] \in Seq(Strings) /\ drained["term"] \in Seq(Strings)
      /\ todo["int"] \in Seq(Strings)
  BY DEF TypeInv, TypeOK, Frames
<1>2. Range(WaitingTasks) = Waiting
  <2> DEFINE p == tasks_queue \o drained["int"]
             q == p \o drained["term"]
  <2>1. p \in Seq(Strings) /\ Range(p) = Range(tasks_queue) \cup Range(drained["int"])
    BY <1>1, RangeOfBoth
  <2>2. q \in Seq(Strings) /\ Range(q) = Range(p) \cup Range(drained["term"])
    <3> HIDE DEF p
    <3> QED
      BY <1>1, <2>1, RangeOfBoth
  <2>3. Range(q \o todo["int"]) = Range(q) \cup Range(todo["int"])
    <3> HIDE DEF q
    <3> QED
      BY <1>1, <2>2, RangeOfBoth
  <2>4. WaitingTasks = q \o todo["int"]
    BY DEF WaitingTasks
  <2> HIDE DEF p, q
  <2> QED
    BY <2>1, <2>2, <2>3, <2>4 DEF Waiting
<1>3. Range(AnsweredTasks) = Arriving
  <2> DEFINE hand == IF stack # <<>> /\ pc["run"] = "commit" THEN <<data>> ELSE <<>>
             held == IF stack # <<>> /\ pc["run"] = "commit" THEN {data} ELSE {}
  <2>1. DOMAIN <<data>> = {1} /\ <<data>>[1] = data /\ <<data>> \in Seq(Strings) /\ <<>> \in Seq(Strings)
    BY <1>1
  <2>2. Range(<<data>>) = {data}
    BY <2>1 DEF Range
  <2>3. hand \in Seq(Strings) /\ Range(hand) = held
    BY <2>1, <2>2, RangeEmpty
  <2> HIDE DEF hand
  <2>4. Range(results_queue \o hand) = Range(results_queue) \cup Range(hand)
    BY <1>1, <2>3, RangeOfBoth
  <2> QED
    BY <2>3, <2>4 DEF AnsweredTasks, Arriving, hand
<1> QED
  BY <1>2, <1>3

\* A video of one of the sets is at a place that Owned knows of.
LEMMA PlacesOfSets ==
  ASSUME TypeInv, NEW t \in Strings
  PROVE  /\ t \in Waiting => \E k, i : k \in {"queue", "int", "term", "back"} /\ Holds(k, i, t)
         /\ t \in Fetching => \E i : Holds("worker", i, t)
         /\ t \in Arriving => \E k, i : k \in {"results", "data"} /\ Holds(k, i, t)
<1>1. ASSUME t \in Waiting
      PROVE  \E k, i : k \in {"queue", "int", "term", "back"} /\ Holds(k, i, t)
  <2>1. CASE t \in Range(tasks_queue)
    <3>1. PICK i \in DOMAIN tasks_queue : tasks_queue[i] = t
      BY <2>1 DEF Range
    <3>2. Holds("queue", i, t)
      BY <3>1 DEF Holds
    <3> QED
      BY <3>2
  <2>2. CASE t \in Range(drained["int"])
    <3>1. PICK i \in DOMAIN drained["int"] : drained["int"][i] = t
      BY <2>2 DEF Range
    <3>2. Holds("int", i, t)
      BY <3>1 DEF Holds
    <3> QED
      BY <3>2
  <2>3. CASE t \in Range(drained["term"])
    <3>1. PICK i \in DOMAIN drained["term"] : drained["term"][i] = t
      BY <2>3 DEF Range
    <3>2. Holds("term", i, t)
      BY <3>1 DEF Holds
    <3> QED
      BY <3>2
  <2>4. CASE t \in Range(todo["int"])
    <3>1. PICK i \in DOMAIN todo["int"] : todo["int"][i] = t
      BY <2>4 DEF Range
    <3>2. Holds("back", i, t)
      BY <3>1 DEF Holds
    <3> QED
      BY <3>2
  <2> QED
    BY <1>1, <2>1, <2>2, <2>3, <2>4 DEF Waiting
<1>2. ASSUME t \in Fetching PROVE \E i : Holds("worker", i, t)
  BY <1>2 DEF Fetching, Holds
<1>3. ASSUME t \in Arriving PROVE \E k, i : k \in {"results", "data"} /\ Holds(k, i, t)
  <2>1. CASE t \in Range(results_queue)
    <3>1. PICK i \in DOMAIN results_queue : results_queue[i] = t
      BY <2>1 DEF Range
    <3>2. Holds("results", i, t)
      BY <3>1 DEF Holds
    <3> QED
      BY <3>2
  <2>2. CASE t \notin Range(results_queue)
    <3>1. Holds("data", 1, t)
      BY <1>3, <2>2 DEF Arriving, Holds
    <3> QED
      BY <3>1
  <2> QED
    BY <2>1, <2>2
<1> QED
  BY <1>1, <1>2, <1>3

-----------------------------------------------------------------------------
(* The status of a uid, set by set.                                        *)

LifeInv == TypeInv /\ Owned /\ uids!Partition /\ Handlers

Phased ==
  \A u \in VideoUids :
    /\ u \in hdd_uids => Status[u] = "durable"
    /\ u \in ram_uids => Status[u] = "committed"
    /\ u \notin proc_uids \cup ram_uids \cup hdd_uids => Status[u] = "unknown"
    /\ u \in WaitingUids => Status[u] = "waiting"
    /\ u \in FetchingUids => Status[u] = "fetching"
    /\ u \in ArrivingUids => Status[u] = "answered"
    /\ u \in proc_uids /\ u \notin WaitingUids /\ u \notin FetchingUids /\ u \notin ArrivingUids
         => Status[u] = "given up"

LEMMA SetsType == TypeInv => Waiting \cup Fetching \cup Arriving \subseteq Strings
<1> SUFFICES ASSUME TypeInv PROVE Waiting \cup Fetching \cup Arriving \subseteq Strings
  OBVIOUS
<1>1. /\ tasks_queue \in Seq(Strings) /\ results_queue \in Seq(Strings) /\ data \in Strings
      /\ drained["int"] \in Seq(Strings) /\ drained["term"] \in Seq(Strings)
      /\ todo["int"] \in Seq(Strings) /\ wtask \in [Workers -> Strings]
  BY DEF TypeInv, TypeOK, Frames
<1>2. \A q \in Seq(Strings) : Range(q) \subseteq Strings
  BY DEF Range
<1>3. Fetching \subseteq Strings
  BY <1>1 DEF Fetching
<1> QED
  BY <1>1, <1>2, <1>3 DEF Waiting, Arriving

LEMMA HeldOnce ==
  ASSUME TypeInv, Owned, NEW u
  PROVE  /\ u \in WaitingUids \/ u \in FetchingUids \/ u \in ArrivingUids => u \in proc_uids
         /\ ~(u \in WaitingUids /\ u \in FetchingUids)
         /\ ~(u \in WaitingUids /\ u \in ArrivingUids)
         /\ ~(u \in FetchingUids /\ u \in ArrivingUids)
<1>1. Waiting \cup Fetching \cup Arriving \subseteq Strings
  BY SetsType
<1>2. \A t \in (Waiting \cup Fetching \cup Arriving) \ {Finish} : t \in Tasks /\ t \in Strings
  BY <1>1 DEF Strings
<1>3. /\ u \in WaitingUids => \E t \in Tasks : \E k, i : crc[t] = u /\ Holds(k, i, t)
                                                 /\ k \in {"queue", "int", "term", "back"}
      /\ u \in FetchingUids => \E t \in Tasks : \E i : crc[t] = u /\ Holds("worker", i, t)
      /\ u \in ArrivingUids => \E t \in Tasks : \E k, i : crc[t] = u /\ Holds(k, i, t)
                                                  /\ k \in {"results", "data"}
  BY <1>2, PlacesOfSets DEF WaitingUids, FetchingUids, ArrivingUids
<1>4. /\ \A t \in Tasks : \A k, i : Holds(k, i, t) => crc[t] \in proc_uids
      /\ \A s, t \in Tasks : \A k, i, m, j :
           Holds(k, i, s) /\ Holds(m, j, t) /\ crc[s] = crc[t] => k = m /\ i = j
  BY DEF Owned
<1>5. u \in WaitingUids \/ u \in FetchingUids \/ u \in ArrivingUids => u \in proc_uids
  BY <1>3, <1>4
<1>6. ASSUME u \in WaitingUids, u \in FetchingUids PROVE FALSE
  BY <1>3, <1>4, <1>6
<1>7. ASSUME u \in WaitingUids, u \in ArrivingUids PROVE FALSE
  BY <1>3, <1>4, <1>7
<1>8. ASSUME u \in FetchingUids, u \in ArrivingUids PROVE FALSE
  BY <1>3, <1>4, <1>8
<1> QED
  BY <1>5, <1>6, <1>7, <1>8

LEMMA Phases == LifeInv => Phased
<1> SUFFICES ASSUME LifeInv, NEW u \in VideoUids
             PROVE  /\ u \in hdd_uids => StatusOf(u) = "durable"
                    /\ u \in ram_uids => StatusOf(u) = "committed"
                    /\ u \notin proc_uids \cup ram_uids \cup hdd_uids => StatusOf(u) = "unknown"
                    /\ u \in WaitingUids => StatusOf(u) = "waiting"
                    /\ u \in FetchingUids => StatusOf(u) = "fetching"
                    /\ u \in ArrivingUids => StatusOf(u) = "answered"
                    /\ u \in proc_uids /\ u \notin WaitingUids /\ u \notin FetchingUids /\ u \notin ArrivingUids
                         => StatusOf(u) = "given up"
  BY DEF Phased, Status
<1>1. /\ u \in WaitingUids \/ u \in FetchingUids \/ u \in ArrivingUids => u \in proc_uids
      /\ ~(u \in WaitingUids /\ u \in FetchingUids)
      /\ ~(u \in WaitingUids /\ u \in ArrivingUids)
      /\ ~(u \in FetchingUids /\ u \in ArrivingUids)
  BY HeldOnce DEF LifeInv
<1>2. /\ u \in proc_uids => u \notin ram_uids /\ u \notin hdd_uids
      /\ u \in ram_uids => u \notin hdd_uids
  BY DEF LifeInv, uids!Partition
<1>3. Range(WaitingTasks) = Waiting /\ Range(AnsweredTasks) = Arriving
  BY Sets DEF LifeInv
<1>4. StatusOf(u) = CASE u \in hdd_uids -> "durable"
                      [] u \in ram_uids -> "committed"
                      [] u \notin hdd_uids \cup ram_uids \cup proc_uids -> "unknown"
                      [] OTHER -> IF u \in WaitingUids THEN "waiting"
                                  ELSE IF u \in FetchingUids THEN "fetching"
                                  ELSE IF u \in ArrivingUids THEN "answered"
                                  ELSE "given up"
  BY <1>3 DEF StatusOf, Fetching, WaitingUids, FetchingUids, ArrivingUids
<1> QED
  BY <1>1, <1>2, <1>4

LEMMA PhasesNext == LifeInv' => Phased'
BY Phases, PTL
-----------------------------------------------------------------------------
(* What a step does to the statuses, from what it does to the sets.        *)

LEMMA StatusStays ==
  ASSUME Phased, Phased', NEW v \in VideoUids,
         v \in hdd_uids' <=> v \in hdd_uids,
         v \in ram_uids' <=> v \in ram_uids,
         v \in proc_uids' <=> v \in proc_uids,
         v \in WaitingUids' <=> v \in WaitingUids,
         v \in FetchingUids' <=> v \in FetchingUids,
         v \in ArrivingUids' <=> v \in ArrivingUids
  PROVE  Status'[v] = Status[v]
<1>1. CASE v \in hdd_uids
  <2>1. Status[v] = "durable" /\ Status'[v] = "durable"
    BY <1>1 DEF Phased
  <2> QED
    BY <2>1
<1>2. CASE v \in ram_uids
  <2>1. Status[v] = "committed" /\ Status'[v] = "committed"
    BY <1>2 DEF Phased
  <2> QED
    BY <2>1
<1>3. CASE v \in WaitingUids
  <2>1. Status[v] = "waiting" /\ Status'[v] = "waiting"
    BY <1>3 DEF Phased
  <2> QED
    BY <2>1
<1>4. CASE v \in FetchingUids
  <2>1. Status[v] = "fetching" /\ Status'[v] = "fetching"
    BY <1>4 DEF Phased
  <2> QED
    BY <2>1
<1>5. CASE v \in ArrivingUids
  <2>1. Status[v] = "answered" /\ Status'[v] = "answered"
    BY <1>5 DEF Phased
  <2> QED
    BY <2>1
<1>6. CASE v \notin proc_uids \cup ram_uids \cup hdd_uids
  <2>1. Status[v] = "unknown" /\ Status'[v] = "unknown"
    BY <1>6 DEF Phased
  <2> QED
    BY <2>1
<1>7. CASE v \in proc_uids /\ v \notin WaitingUids /\ v \notin FetchingUids /\ v \notin ArrivingUids
  <2>1. Status[v] = "given up" /\ Status'[v] = "given up"
    BY <1>7 DEF Phased
  <2> QED
    BY <2>1
<1> QED
  BY <1>1, <1>2, <1>3, <1>4, <1>5, <1>6, <1>7

\* No video moves.
LEMMA NoneMoves ==
  ASSUME LifeInv, LifeInv',
         hdd_uids' = hdd_uids, ram_uids' = ram_uids,
         proc_uids' \cap VideoUids = proc_uids \cap VideoUids,
         Waiting' \cup {Finish} = Waiting \cup {Finish},
         Fetching' \cup {Finish} = Fetching \cup {Finish},
         Arriving' \cup {Finish} = Arriving \cup {Finish}
  PROVE  UNCHANGED Status
<1>1. Phased /\ Phased'
  BY Phases, PhasesNext
<1>2. ASSUME NEW v \in VideoUids PROVE Status'[v] = Status[v]
  <2>1. \A s : s # Finish => /\ s \in Waiting' <=> s \in Waiting
                             /\ s \in Fetching' <=> s \in Fetching
                             /\ s \in Arriving' <=> s \in Arriving
    OBVIOUS
  <2>2. /\ v \in WaitingUids' <=> v \in WaitingUids
        /\ v \in FetchingUids' <=> v \in FetchingUids
        /\ v \in ArrivingUids' <=> v \in ArrivingUids
    BY <2>1 DEF WaitingUids, FetchingUids, ArrivingUids
  <2>3. v \in proc_uids' <=> v \in proc_uids
    OBVIOUS
  <2> QED
    BY <1>1, <2>2, <2>3, StatusStays
<1> QED
  BY <1>2 DEF Status

\* A step that only touches strings that are no videos, or none at all.
LEMMA SameSets ==
  ASSUME LifeInv, LifeInv', UNCHANGED <<uidVars, Waiting, Fetching, Arriving>>
  PROVE  UNCHANGED Status
<1>1. /\ hdd_uids' = hdd_uids /\ ram_uids' = ram_uids /\ proc_uids' = proc_uids
      /\ Waiting' = Waiting /\ Fetching' = Fetching /\ Arriving' = Arriving
  BY DEF uidVars
<1>2. /\ proc_uids' \cap VideoUids = proc_uids \cap VideoUids
      /\ Waiting' \cup {Finish} = Waiting \cup {Finish}
      /\ Fetching' \cup {Finish} = Fetching \cup {Finish}
      /\ Arriving' \cup {Finish} = Arriving \cup {Finish}
  BY <1>1
<1> QED
  BY <1>1, <1>2, NoneMoves

\* The step is about video t alone.
About(t) ==
  /\ \A v \in VideoUids : v # crc[t] => /\ v \in hdd_uids' <=> v \in hdd_uids
                                        /\ v \in ram_uids' <=> v \in ram_uids
                                        /\ v \in proc_uids' <=> v \in proc_uids
  /\ Waiting' \cup {t, Finish} = Waiting \cup {t, Finish}
  /\ Fetching' \cup {t, Finish} = Fetching \cup {t, Finish}
  /\ Arriving' \cup {t, Finish} = Arriving \cup {t, Finish}

LEMMA OneMoves ==
  ASSUME LifeInv, LifeInv', NEW t \in Tasks, About(t), NEW from, NEW to,
         Status[crc[t]] = from, Status'[crc[t]] = to
  PROVE  crc[t] \in VideoUids /\ Life!Move(crc[t], from, to)
<1>1. Phased /\ Phased'
  BY Phases, PhasesNext
<1>2. crc[t] \in VideoUids
  BY DEF VideoUids
<1>3. ASSUME NEW v \in VideoUids, v # crc[t] PROVE Status'[v] = Status[v]
  <2>1. /\ v \in WaitingUids' <=> v \in WaitingUids
        /\ v \in FetchingUids' <=> v \in FetchingUids
        /\ v \in ArrivingUids' <=> v \in ArrivingUids
    <3>1. ASSUME NEW s, s # Finish, s # t
          PROVE  /\ s \in Waiting' <=> s \in Waiting
                 /\ s \in Fetching' <=> s \in Fetching
                 /\ s \in Arriving' <=> s \in Arriving
      <4>1. /\ Waiting' \cup {t, Finish} = Waiting \cup {t, Finish}
            /\ Fetching' \cup {t, Finish} = Fetching \cup {t, Finish}
            /\ Arriving' \cup {t, Finish} = Arriving \cup {t, Finish}
        BY DEF About
      <4> QED
        BY <3>1, <4>1
    <3>2. \A s : s # Finish /\ crc[s] = v => s # t
      BY <1>3
    <3> QED
      BY <3>1, <3>2 DEF WaitingUids, FetchingUids, ArrivingUids
  <2>2. /\ v \in hdd_uids' <=> v \in hdd_uids
        /\ v \in ram_uids' <=> v \in ram_uids
        /\ v \in proc_uids' <=> v \in proc_uids
    BY <1>3 DEF About
  <2> QED
    BY <1>1, <2>1, <2>2, StatusStays
<1>4. Status' = [Status EXCEPT ![crc[t]] = to]
  <2>1. Status = [u \in VideoUids |-> Status[u]] /\ Status' = [u \in VideoUids |-> Status'[u]]
    BY DEF Status
  <2> QED
    BY <1>2, <1>3, <2>1
<1>5. Life!Move(crc[t], from, to) <=> Status[crc[t]] = from /\ Status' = [Status EXCEPT ![crc[t]] = to]
  BY DEF Life!Move, Status
<1> QED
  BY <1>2, <1>4, <1>5

\* The same, video by video.
Reads ==
  \A t \in Tasks :
    /\ t \in Waiting => Status[crc[t]] = "waiting"
    /\ t \in Fetching => Status[crc[t]] = "fetching"
    /\ t \in Arriving => Status[crc[t]] = "answered"
    /\ crc[t] \in ram_uids => Status[crc[t]] = "committed"
    /\ crc[t] \notin proc_uids \cup ram_uids \cup hdd_uids => Status[crc[t]] = "unknown"
    /\ /\ crc[t] \in proc_uids
       /\ \A s \in Tasks : crc[s] = crc[t] => s \notin Waiting \cup Fetching \cup Arriving
       => Status[crc[t]] = "given up"

LEMMA LifeReads == LifeInv => Reads
<1> SUFFICES ASSUME LifeInv, NEW t \in Tasks
             PROVE  /\ t \in Waiting => Status[crc[t]] = "waiting"
                    /\ t \in Fetching => Status[crc[t]] = "fetching"
                    /\ t \in Arriving => Status[crc[t]] = "answered"
                    /\ crc[t] \in ram_uids => Status[crc[t]] = "committed"
                    /\ crc[t] \notin proc_uids \cup ram_uids \cup hdd_uids => Status[crc[t]] = "unknown"
                    /\ /\ crc[t] \in proc_uids
                       /\ \A s \in Tasks : crc[s] = crc[t] => s \notin Waiting \cup Fetching \cup Arriving
                       => Status[crc[t]] = "given up"
  BY DEF Reads
<1>1. crc[t] \in VideoUids /\ t # Finish
  BY CrcAssumption DEF VideoUids
<1>2. Phased
  BY Phases
<1>3. /\ t \in Waiting => crc[t] \in WaitingUids
      /\ t \in Fetching => crc[t] \in FetchingUids
      /\ t \in Arriving => crc[t] \in ArrivingUids
  BY <1>1 DEF WaitingUids, FetchingUids, ArrivingUids
<1>4. ASSUME \A s \in Tasks : crc[s] = crc[t] => s \notin Waiting \cup Fetching \cup Arriving
      PROVE  crc[t] \notin WaitingUids \cup FetchingUids \cup ArrivingUids
  <2>1. \A s \in (Waiting \cup Fetching \cup Arriving) \ {Finish} : s \in Tasks
    BY SetsType DEF LifeInv, Strings
  <2> QED
    BY <1>4, <2>1 DEF WaitingUids, FetchingUids, ArrivingUids
<1>5. /\ crc[t] \in WaitingUids => Status[crc[t]] = "waiting"
      /\ crc[t] \in FetchingUids => Status[crc[t]] = "fetching"
      /\ crc[t] \in ArrivingUids => Status[crc[t]] = "answered"
      /\ crc[t] \in ram_uids => Status[crc[t]] = "committed"
      /\ crc[t] \notin proc_uids \cup ram_uids \cup hdd_uids => Status[crc[t]] = "unknown"
      /\ crc[t] \in proc_uids /\ crc[t] \notin WaitingUids \cup FetchingUids \cup ArrivingUids
           => Status[crc[t]] = "given up"
  BY <1>1, <1>2 DEF Phased
<1> QED
  BY <1>3, <1>4, <1>5

LEMMA LifeReadsNext == LifeInv' => Reads'
BY LifeReads, PTL

\* What Crawl lets a uid do.
LEMMA MoveNext ==
  ASSUME NEW u \in VideoUids,
         \/ Life!Move(u, "unknown", "waiting") \/ Life!Move(u, "waiting", "fetching")
         \/ Life!Move(u, "fetching", "waiting") \/ Life!Move(u, "fetching", "answered")
         \/ Life!Move(u, "answered", "committed") \/ Life!Move(u, "fetching", "given up")
         \/ Life!Move(u, "answered", "given up") \/ Life!Move(u, "waiting", "given up")
  PROVE  Life!Next
BY DEF Life!Next, Life!Discover, Life!Take, Life!Retry, Life!Answer, Life!Commit, Life!GiveUp

\* A step about t that leaves the store alone.
LEMMA AboutSets ==
  ASSUME NEW t \in Tasks, UNCHANGED uidVars,
         Waiting' \cup {t, Finish} = Waiting \cup {t, Finish},
         Fetching' \cup {t, Finish} = Fetching \cup {t, Finish},
         Arriving' \cup {t, Finish} = Arriving \cup {t, Finish}
  PROVE  About(t)
BY DEF About, uidVars

-----------------------------------------------------------------------------
(* The workers.                                                            *)

HeldByOthers(w) == {wtask[v] : v \in {x \in Workers \ {w} : HoldsTask(x)}}

LEMMA FetchingParts ==
  ASSUME TypeInv, NEW w \in Workers, NEW l, NEW s,
         wpc' = [wpc EXCEPT ![w] = l], wtask' = [wtask EXCEPT ![w] = s]
  PROVE  /\ HoldsTask(w) => Fetching = HeldByOthers(w) \cup {wtask[w]}
         /\ ~HoldsTask(w) => Fetching = HeldByOthers(w)
         /\ l \in {"proxy", "fetch"} /\ s # Finish => Fetching' = HeldByOthers(w) \cup {s}
         /\ l \notin {"proxy", "fetch"} \/ s = Finish => Fetching' = HeldByOthers(w)
<1> DEFINE rest == {wtask[v] : v \in {x \in Workers \ {w} : HoldsTask(x)}}
<1>1. wpc \in [Workers -> {"none", "get", "proxy", "fetch", "save"}] /\ wtask \in [Workers -> Strings]
  BY DEF TypeInv, TypeOK
<1>2. Fetching = rest \cup (IF HoldsTask(w) THEN {wtask[w]} ELSE {})
  BY DEF Fetching
<1>3. /\ \A x \in Workers \ {w} : wpc'[x] = wpc[x] /\ wtask'[x] = wtask[x]
      /\ wpc'[w] = l /\ wtask'[w] = s
  BY <1>1
<1>4. Fetching' = {wtask'[v] : v \in {x \in Workers : wpc'[x] \in {"proxy", "fetch"} /\ wtask'[x] # Finish}}
  BY DEF Fetching, HoldsTask
<1>5. rest = {wtask[v] : v \in {x \in Workers \ {w} : wpc[x] \in {"proxy", "fetch"} /\ wtask[x] # Finish}}
  BY DEF HoldsTask
<1>6. Fetching' = rest \cup (IF l \in {"proxy", "fetch"} /\ s # Finish THEN {s} ELSE {})
  <2> HIDE DEF rest
  <2>1. \A z : z \in rest <=> \E v \in Workers \ {w} : /\ wpc[v] \in {"proxy", "fetch"}
                                                       /\ wtask[v] # Finish /\ wtask[v] = z
    BY <1>5
  <2>2. \A z : z \in Fetching' <=> \E v \in Workers : /\ wpc'[v] \in {"proxy", "fetch"}
                                                      /\ wtask'[v] # Finish /\ wtask'[v] = z
    BY <1>4
  <2>3. \A z : z \in Fetching' <=> z \in rest \/ (l \in {"proxy", "fetch"} /\ s # Finish /\ z = s)
    BY <1>3, <2>1, <2>2
  <2> QED
    BY <2>3
<1>7. rest = HeldByOthers(w)
  BY DEF HeldByOthers
<1> HIDE DEF rest
<1> QED
  BY <1>2, <1>6, <1>7

LEMMA FetchingSame ==
  ASSUME TypeInv, NEW w \in Workers, NEW l, NEW s,
         wpc' = [wpc EXCEPT ![w] = l], wtask' = [wtask EXCEPT ![w] = s],
         HoldsTask(w) <=> (l \in {"proxy", "fetch"} /\ s # Finish),
         HoldsTask(w) => s = wtask[w]
  PROVE  Fetching' = Fetching
<1>1. /\ HoldsTask(w) => Fetching = HeldByOthers(w) \cup {wtask[w]}
      /\ ~HoldsTask(w) => Fetching = HeldByOthers(w)
      /\ l \in {"proxy", "fetch"} /\ s # Finish => Fetching' = HeldByOthers(w) \cup {s}
      /\ l \notin {"proxy", "fetch"} \/ s = Finish => Fetching' = HeldByOthers(w)
  BY FetchingParts
<1>2. CASE HoldsTask(w)
  BY <1>1, <1>2
<1>3. CASE ~HoldsTask(w)
  BY <1>1, <1>3
<1> QED
  BY <1>2, <1>3

LEMMA WorkerLife ==
  ASSUME LifeInv, LifeInv', NEW w \in Workers, Worker(w) \/ SaveFails(w)
  PROVE  Life!Next \/ UNCHANGED Status
<1>1. /\ tasks_queue \in Seq(Strings) /\ results_queue \in Seq(Strings)
      /\ wpc \in [Workers -> {"none", "get", "proxy", "fetch", "save"}]
      /\ wtask \in [Workers -> Strings]
      /\ wpc[w] \in {"fetch", "save"} => wtask[w] \in Tasks
      /\ TypeInv /\ Owned
  BY DEF LifeInv, TypeInv, TypeOK
<1>2. UNCHANGED <<uidVars, drained, todo, stack, pc, data>>
  BY DEF Worker, Fetch, Take, NextProxy, FetchOk, FetchBad, FetchFail, Save, SaveFails,
         frameVars, loopVars
<1>3. /\ tasks_queue' = tasks_queue => Waiting' = Waiting
      /\ results_queue' = results_queue => Arriving' = Arriving
  BY <1>2 DEF Waiting, Arriving
<1>4. Reads /\ Reads'
  BY LifeReads, LifeReadsNext
<1>5. Finish \in Strings /\ Finish \notin Tasks /\ Strings = Tasks \cup {Finish}
  BY ConstantFacts, CrcAssumption DEF Strings
<1>6. CASE Take(w)
  <2> DEFINE h == Head(tasks_queue)
  <2>1. /\ tasks_queue # <<>> /\ tasks_queue' = Tail(tasks_queue) /\ wpc[w] = "get"
        /\ wpc' = [wpc EXCEPT ![w] = "proxy"] /\ wtask' = [wtask EXCEPT ![w] = h]
        /\ results_queue' = results_queue
    BY <1>6 DEF Take
  <2>2. Range(tasks_queue) = {h} \cup Range(tasks_queue') /\ h \in Strings
    BY <1>1, <2>1, RangeTail
  <2> HIDE DEF h
  <2>3. Waiting = Waiting' \cup {h} /\ Arriving' = Arriving
    BY <1>2, <1>3, <2>1, <2>2 DEF Waiting
  <2>4. /\ h = Finish => Fetching' = Fetching
        /\ h # Finish => Fetching' = Fetching \cup {h}
    <3>1. ~HoldsTask(w)
      BY <2>1 DEF HoldsTask
    <3>2. /\ ~HoldsTask(w) => Fetching = HeldByOthers(w)
          /\ "proxy" \in {"proxy", "fetch"} /\ h # Finish => Fetching' = HeldByOthers(w) \cup {h}
          /\ "proxy" \notin {"proxy", "fetch"} \/ h = Finish => Fetching' = HeldByOthers(w)
      BY <1>1, <2>1, FetchingParts
    <3> QED
      BY <3>1, <3>2
  <2>5. CASE h = Finish
    <3>1. /\ Waiting' \cup {Finish} = Waiting \cup {Finish} /\ Fetching' = Fetching
          /\ hdd_uids' = hdd_uids /\ ram_uids' = ram_uids /\ proc_uids' = proc_uids
      BY <1>2, <2>3, <2>4, <2>5 DEF uidVars
    <3> QED
      BY <2>3, <3>1, NoneMoves
  <2>6. CASE h # Finish
    <3>1. h \in Tasks /\ h \in Waiting /\ h \in Fetching'
      BY <1>5, <2>2, <2>3, <2>4, <2>6
    <3>2. About(h)
      <4>1. /\ Waiting' \cup {h, Finish} = Waiting \cup {h, Finish}
            /\ Fetching' \cup {h, Finish} = Fetching \cup {h, Finish}
            /\ Arriving' \cup {h, Finish} = Arriving \cup {h, Finish}
        BY <2>3, <2>4, <2>6
      <4> QED
        BY <1>2, <3>1, <4>1, AboutSets
    <3>3. Status[crc[h]] = "waiting" /\ Status'[crc[h]] = "fetching"
      BY <1>4, <3>1 DEF Reads
    <3> QED
      BY <3>1, <3>2, <3>3, OneMoves, MoveNext
  <2> QED
    BY <2>5, <2>6
<1>7. CASE NextProxy(w)
  <2>1. /\ Fetching' = Fetching
        /\ tasks_queue' = tasks_queue /\ results_queue' = results_queue
    <3>1. /\ wpc[w] = "proxy" /\ wtask' = wtask /\ UNCHANGED <<tasks_queue, results_queue>>
          /\ wpc' = [wpc EXCEPT ![w] = IF wtask[w] = Finish THEN "none" ELSE "fetch"]
      BY <1>7 DEF NextProxy, queueVars
    <3>2. wtask' = [wtask EXCEPT ![w] = wtask[w]]
      BY <1>1, <3>1
    <3>3. HoldsTask(w) <=> wtask[w] # Finish
      BY <3>1 DEF HoldsTask
    <3>4. CASE wtask[w] = Finish
      <4>1. wpc' = [wpc EXCEPT ![w] = "none"]
        BY <3>1, <3>4
      <4>2. HoldsTask(w) <=> ("none" \in {"proxy", "fetch"} /\ wtask[w] # Finish)
        BY <3>3, <3>4
      <4> QED
        BY <1>1, <3>1, <3>2, <4>1, <4>2, FetchingSame
    <3>5. CASE wtask[w] # Finish
      <4>1. wpc' = [wpc EXCEPT ![w] = "fetch"]
        BY <3>1, <3>5
      <4>2. HoldsTask(w) <=> ("fetch" \in {"proxy", "fetch"} /\ wtask[w] # Finish)
        BY <3>3, <3>5
      <4> QED
        BY <1>1, <3>1, <3>2, <4>1, <4>2, FetchingSame
    <3> QED
      BY <3>1, <3>4, <3>5
  <2> QED
    BY <1>2, <1>3, <2>1, SameSets
<1>8. ASSUME wpc[w] = "fetch", NEW l, l \notin {"proxy", "fetch"}, wpc' = [wpc EXCEPT ![w] = l],
             NEW s, wtask' = [wtask EXCEPT ![w] = s]
      PROVE  Fetching = Fetching' \cup {wtask[w]}
  <2>1. HoldsTask(w)
    BY <1>1, <1>5, <1>8 DEF HoldsTask
  <2> QED
    BY <1>1, <1>8, <2>1, FetchingParts
<1>9. CASE FetchOk(w)
  <2> DEFINE t == wtask[w]
  <2>1. /\ wpc[w] = "fetch" /\ wpc' = [wpc EXCEPT ![w] = "save"] /\ wtask' = [wtask EXCEPT ![w] = t]
        /\ results_queue' = Append(results_queue, t) /\ tasks_queue' = tasks_queue
    BY <1>1, <1>9 DEF FetchOk
  <2>2. t \in Tasks /\ t \in Strings
    BY <1>1, <1>5, <2>1
  <2>3. Range(results_queue') = Range(results_queue) \cup {t}
    BY <1>1, <2>1, <2>2, RangeAppend
  <2>4. Fetching = Fetching' \cup {t}
    BY <1>8, <2>1
  <2> HIDE DEF t
  <2>5. Waiting' = Waiting /\ Arriving' = Arriving \cup {t}
    BY <1>2, <1>3, <2>1, <2>3 DEF Arriving
  <2>6. About(t)
    <3>1. /\ Waiting' \cup {t, Finish} = Waiting \cup {t, Finish}
          /\ Fetching' \cup {t, Finish} = Fetching \cup {t, Finish}
          /\ Arriving' \cup {t, Finish} = Arriving \cup {t, Finish}
      BY <2>4, <2>5
    <3> QED
      BY <1>2, <2>2, <3>1, AboutSets
  <2>7. Status[crc[t]] = "fetching" /\ Status'[crc[t]] = "answered"
    <3>1. t \in Fetching /\ t \in Arriving'
      BY <2>4, <2>5
    <3> QED
      BY <1>4, <2>2, <3>1 DEF Reads
  <2> QED
    BY <2>2, <2>6, <2>7, OneMoves, MoveNext
<1>10. CASE FetchFail(w)
  <2> DEFINE t == wtask[w]
  <2>1. /\ wpc[w] = "fetch" /\ wpc' = [wpc EXCEPT ![w] = "get"] /\ wtask' = [wtask EXCEPT ![w] = Finish]
        /\ tasks_queue' = Append(tasks_queue, t) /\ results_queue' = results_queue
    BY <1>10 DEF FetchFail
  <2>2. t \in Tasks /\ t \in Strings
    BY <1>1, <1>5, <2>1
  <2>3. Range(tasks_queue') = Range(tasks_queue) \cup {t}
    BY <1>1, <2>1, <2>2, RangeAppend
  <2>4. Fetching = Fetching' \cup {t}
    BY <1>8, <2>1
  <2> HIDE DEF t
  <2>5. Waiting' = Waiting \cup {t} /\ Arriving' = Arriving
    BY <1>2, <1>3, <2>1, <2>3 DEF Waiting
  <2>6. About(t)
    <3>1. /\ Waiting' \cup {t, Finish} = Waiting \cup {t, Finish}
          /\ Fetching' \cup {t, Finish} = Fetching \cup {t, Finish}
          /\ Arriving' \cup {t, Finish} = Arriving \cup {t, Finish}
      BY <2>4, <2>5
    <3> QED
      BY <1>2, <2>2, <3>1, AboutSets
  <2>7. Status[crc[t]] = "fetching" /\ Status'[crc[t]] = "waiting"
    <3>1. t \in Fetching /\ t \in Waiting'
      BY <2>4, <2>5
    <3> QED
      BY <1>4, <2>2, <3>1 DEF Reads
  <2> QED
    BY <2>2, <2>6, <2>7, OneMoves, MoveNext
<1>11. CASE FetchBad(w)
  <2> DEFINE t == wtask[w]
  <2>1. /\ wpc[w] = "fetch" /\ wpc' = [wpc EXCEPT ![w] = "get"] /\ wtask' = [wtask EXCEPT ![w] = Finish]
        /\ tasks_queue' = tasks_queue /\ results_queue' = results_queue
    BY <1>11 DEF FetchBad, queueVars
  <2>2. t \in Tasks /\ t \in Strings /\ Holds("worker", w, t)
    BY <1>1, <1>5, <2>1 DEF Holds, HoldsTask
  <2>3. Fetching = Fetching' \cup {t}
    BY <1>8, <2>1
  <2>4. Waiting' = Waiting /\ Arriving' = Arriving
    BY <1>3, <2>1
  <2>5. ASSUME NEW s \in Tasks, crc[s] = crc[t]
        PROVE  s \notin Waiting' \cup Fetching' \cup Arriving'
    <3>1. \A k, i : Holds(k, i, s) => k = "worker" /\ i = w
      BY <1>1, <2>2, <2>5 DEF Owned
    <3>2. s \notin Waiting \cup Arriving
      BY <1>1, <1>5, <3>1, PlacesOfSets
    <3>3. s \notin Fetching'
      <4>1. \A v \in Workers : wpc'[v] \in {"proxy", "fetch"} => v # w /\ wpc'[v] = wpc[v] /\ wtask'[v] = wtask[v]
        BY <1>1, <2>1
      <4>2. \A v \in Workers : wpc[v] \in {"proxy", "fetch"} /\ wtask[v] = s => Holds("worker", v, s)
        BY <1>5 DEF Holds, HoldsTask
      <4> QED
        BY <3>1, <4>1, <4>2 DEF Fetching, HoldsTask
    <3> QED
      BY <2>4, <3>2, <3>3
  <2>6. crc[t] \in proc_uids /\ proc_uids' = proc_uids
    BY <1>1, <1>2, <2>2 DEF Owned, uidVars
  <2> HIDE DEF t
  <2>7. About(t)
    <3>1. /\ Waiting' \cup {t, Finish} = Waiting \cup {t, Finish}
          /\ Fetching' \cup {t, Finish} = Fetching \cup {t, Finish}
          /\ Arriving' \cup {t, Finish} = Arriving \cup {t, Finish}
      BY <2>3, <2>4
    <3> QED
      BY <1>2, <2>2, <3>1, AboutSets
  <2>8. Status[crc[t]] = "fetching" /\ Status'[crc[t]] = "given up"
    <3>1. t \in Fetching
      BY <2>3
    <3> QED
      BY <1>4, <2>2, <2>5, <2>6, <3>1 DEF Reads
  <2> QED
    BY <2>2, <2>7, <2>8, OneMoves, MoveNext
<1>12. CASE Save(w) \/ SaveFails(w)
  <2>1. /\ wpc[w] = "save" /\ UNCHANGED <<tasks_queue, results_queue>>
        /\ wtask' = [wtask EXCEPT ![w] = Finish]
        /\ \E l \in {"get", "none"} : wpc' = [wpc EXCEPT ![w] = l]
    BY <1>12 DEF Save, SaveFails, queueVars
  <2>2. ~HoldsTask(w)
    BY <2>1 DEF HoldsTask
  <2>3. Fetching' = Fetching
    <3>1. PICK l \in {"get", "none"} : wpc' = [wpc EXCEPT ![w] = l]
      BY <2>1
    <3> QED
      BY <1>1, <2>1, <2>2, <3>1, FetchingSame
  <2> QED
    BY <1>2, <1>3, <2>1, <2>3, SameSets
<1> QED
  BY <1>6, <1>7, <1>9, <1>10, <1>11, <1>12 DEF Worker, Fetch

-----------------------------------------------------------------------------
(* The main thread, where it moves a video.                                *)

LEMMA SetTaskLife ==
  ASSUME LifeInv, LifeInv', FinishApart, NEW f \in Frames, SetTask(f)
  PROVE  Life!Next \/ UNCHANGED Status
<1> DEFINE task == Head(todo[f])
<1>1. /\ tasks_queue \in Seq(Strings) /\ TypeInv /\ Owned
      /\ todo \in [Frames -> Seq(Strings)] /\ "int" \in Frames
  BY DEF LifeInv, TypeInv, TypeOK, Frames
<1>2. /\ todo[f] # <<>> /\ todo' = [todo EXCEPT ![f] = Tail(@)]
      /\ UNCHANGED <<results_queue, wpc, wtask, stack, pc, drained, data>>
      /\ \/ uids!Add(crc[task]) /\ tasks_queue' = Append(tasks_queue, task)
         \/ uids!Contains(crc[task]) /\ UNCHANGED <<uidVars, tasks_queue>>
  BY DEF SetTask, threadVars, loopVars
<1>3. Range(todo[f]) = {task} \cup Range(Tail(todo[f])) /\ task \in Strings
  BY <1>1, <1>2, RangeTail
<1>4. /\ Range(Append(tasks_queue, task)) = Range(tasks_queue) \cup {task}
      /\ f # "int" => todo'["int"] = todo["int"]
      /\ f = "int" => todo'["int"] = Tail(todo["int"])
  BY <1>1, <1>2, <1>3, RangeAppend
<1>5. Fetching' = Fetching /\ Arriving' = Arriving
  BY <1>2 DEF Fetching, HoldsTask, Arriving
<1>6. Reads /\ Reads'
  BY LifeReads, LifeReadsNext
<1>7. Strings = Tasks \cup {Finish} /\ Finish \notin Tasks
  BY CrcAssumption DEF Strings
<1>8. CASE uids!Add(crc[task]) /\ tasks_queue' = Append(tasks_queue, task)
  <2>1. /\ crc[task] \notin proc_uids \cup ram_uids \cup hdd_uids
        /\ proc_uids' = proc_uids \cup {crc[task]}
        /\ ram_uids' = ram_uids /\ hdd_uids' = hdd_uids
    BY <1>8 DEF uids!Add, uids!Contains
  <2>2. Waiting' = Waiting \cup {task}
    BY <1>2, <1>3, <1>4, <1>8 DEF Waiting
  <2> HIDE DEF task
  <2>3. CASE task = Finish
    <3>1. crc[task] \notin VideoUids
      BY <2>3 DEF FinishApart, VideoUids
    <3>2. /\ proc_uids' \cap VideoUids = proc_uids \cap VideoUids
          /\ Waiting' \cup {Finish} = Waiting \cup {Finish}
      BY <2>1, <2>2, <2>3, <3>1
    <3> QED
      BY <1>5, <2>1, <3>2, NoneMoves
  <2>4. CASE task # Finish
    <3>1. task \in Tasks /\ task \in Waiting'
      BY <1>3, <1>7, <2>2, <2>4
    <3>2. About(task)
      BY <1>5, <2>1, <2>2 DEF About
    <3>3. Status[crc[task]] = "unknown" /\ Status'[crc[task]] = "waiting"
      BY <1>6, <2>1, <3>1 DEF Reads
    <3> QED
      BY <3>1, <3>2, <3>3, OneMoves, MoveNext
  <2> QED
    BY <2>3, <2>4
<1>9. CASE uids!Contains(crc[task]) /\ UNCHANGED <<uidVars, tasks_queue>> /\ f # "int"
  <2>1. Waiting' = Waiting
    BY <1>2, <1>4, <1>9 DEF Waiting
  <2> QED
    BY <1>5, <1>9, <2>1, SameSets
<1>10. CASE uids!Contains(crc[task]) /\ UNCHANGED <<uidVars, tasks_queue>> /\ f = "int"
  <2>1. Waiting = Waiting' \cup {task}
    BY <1>2, <1>3, <1>4, <1>10 DEF Waiting
  <2>2. CASE task = Finish
    <3>1. /\ Waiting' \cup {Finish} = Waiting \cup {Finish}
          /\ hdd_uids' = hdd_uids /\ ram_uids' = ram_uids /\ proc_uids' = proc_uids
      BY <1>10, <2>1, <2>2 DEF uidVars
    <3> QED
      BY <1>5, <3>1, NoneMoves
  <2>3. CASE task # Finish
    <3>1. task \in Tasks /\ task \in Waiting
      BY <1>3, <1>7, <2>1, <2>3
    <3>2. /\ 1 \in DOMAIN todo["int"] /\ task = todo["int"][1]
          /\ \A i \in DOMAIN Tail(todo["int"]) : /\ i \in Nat \ {0} /\ i + 1 \in DOMAIN todo["int"]
                                                 /\ Tail(todo["int"])[i] = todo["int"][i + 1]
      BY <1>1, <1>2, <1>10, TailFacts
    <3>3. Holds("back", 1, task)
      BY <3>2 DEF Holds
    <3>4. ASSUME NEW s \in Tasks, crc[s] = crc[task]
          PROVE  s \notin Waiting' \cup Fetching' \cup Arriving'
      <4>1. \A k, i : Holds(k, i, s) => k = "back" /\ i = 1
        BY <1>1, <3>1, <3>3, <3>4 DEF Owned
      <4>2. s \notin Fetching \cup Arriving
        BY <1>1, <1>7, <4>1, PlacesOfSets
      <4>3. s \notin Range(tasks_queue) \cup Range(drained["int"]) \cup Range(drained["term"])
        <5>1. /\ \A i \in DOMAIN tasks_queue : tasks_queue[i] = s => Holds("queue", i, s)
              /\ \A i \in DOMAIN drained["int"] : drained["int"][i] = s => Holds("int", i, s)
              /\ \A i \in DOMAIN drained["term"] : drained["term"][i] = s => Holds("term", i, s)
          BY DEF Holds
        <5> QED
          BY <4>1, <5>1 DEF Range
      <4>4. s \notin Range(Tail(todo["int"]))
        <5>1. \A i \in DOMAIN Tail(todo["int"]) : Tail(todo["int"])[i] = s => Holds("back", i + 1, s) /\ i + 1 # 1
          BY <3>2 DEF Holds
        <5> QED
          BY <4>1, <5>1 DEF Range
      <4>5. Waiting' = Range(tasks_queue) \cup Range(drained["int"]) \cup Range(drained["term"])
                         \cup Range(Tail(todo["int"]))
        BY <1>2, <1>4, <1>10 DEF Waiting
      <4> QED
        BY <1>5, <4>2, <4>3, <4>4, <4>5
    <3>5. crc[task] \in proc_uids /\ proc_uids' = proc_uids
      BY <1>1, <1>10, <3>1, <3>3 DEF Owned, uidVars
    <3> HIDE DEF task
    <3>6. About(task)
      <4>1. /\ Waiting' \cup {task, Finish} = Waiting \cup {task, Finish}
            /\ Fetching' \cup {task, Finish} = Fetching \cup {task, Finish}
            /\ Arriving' \cup {task, Finish} = Arriving \cup {task, Finish}
        BY <1>5, <2>1
      <4> QED
        BY <1>10, <3>1, <4>1, AboutSets
    <3>7. Status[crc[task]] = "waiting" /\ Status'[crc[task]] = "given up"
      BY <1>6, <3>1, <3>4, <3>5 DEF Reads
    <3> QED
      BY <3>1, <3>6, <3>7, OneMoves, MoveNext
  <2> QED
    BY <2>2, <2>3
<1> QED
  BY <1>2, <1>8, <1>9, <1>10

LEMMA GetResultLife ==
  ASSUME LifeInv, LifeInv', GetResult
  PROVE  Life!Next \/ UNCHANGED Status
<1> DEFINE t == Head(results_queue)
<1>1. /\ results_queue \in Seq(Strings) /\ TypeInv /\ Owned
      /\ pc \in [Frames -> Labels] /\ "run" \in Frames
  BY DEF LifeInv, TypeInv, TypeOK, Frames
<1>2. /\ stack # <<>> /\ pc["run"] = "get" /\ results_queue # <<>>
      /\ data' = t /\ results_queue' = Tail(results_queue)
      /\ pc' = [pc EXCEPT !["run"] = IF t = Finish THEN "saving" ELSE IF t \in Wordy THEN "commit" ELSE "check"]
      /\ UNCHANGED <<uidVars, tasks_queue, wpc, wtask, stack, todo, drained>>
  BY DEF GetResult, At, Running, Goto, threadVars
<1>3. Range(results_queue) = {t} \cup Range(results_queue') /\ t \in Strings
  BY <1>1, <1>2, RangeTail
<1>4. Waiting' = Waiting /\ Fetching' = Fetching
  BY <1>2 DEF Waiting, Fetching, HoldsTask
<1>5. Reads /\ Reads'
  BY LifeReads, LifeReadsNext
<1>6. Strings = Tasks \cup {Finish} /\ Finish \notin Tasks /\ Wordy \subseteq Tasks
  BY CrcAssumption, PagesAssumption DEF Strings
<1>7. /\ Arriving = Range(results_queue)
      /\ t # Finish /\ t \in Wordy => Arriving' = Range(results_queue') \cup {t}
      /\ t = Finish \/ t \notin Wordy => Arriving' = Range(results_queue')
  <2>1. pc'["run"] = "commit" <=> t # Finish /\ t \in Wordy
    BY <1>1, <1>2
  <2> QED
    BY <1>2, <2>1 DEF Arriving
<1>8. CASE t = Finish
  <2>1. /\ Arriving' \cup {Finish} = Arriving \cup {Finish}
        /\ hdd_uids' = hdd_uids /\ ram_uids' = ram_uids /\ proc_uids' = proc_uids
    BY <1>2, <1>3, <1>7, <1>8 DEF uidVars
  <2> QED
    BY <1>4, <2>1, NoneMoves
<1>9. CASE t # Finish /\ t \in Wordy
  <2>1. Arriving' = Arriving
    BY <1>3, <1>7, <1>9
  <2> QED
    BY <1>2, <1>4, <2>1, SameSets
<1>10. CASE t # Finish /\ t \notin Wordy
  <2>1. t \in Tasks /\ t \in Arriving /\ Arriving = Arriving' \cup {t}
    BY <1>3, <1>6, <1>7, <1>10
  <2>2. /\ 1 \in DOMAIN results_queue /\ t = results_queue[1]
        /\ \A i \in DOMAIN Tail(results_queue) : /\ i \in Nat \ {0} /\ i + 1 \in DOMAIN results_queue
                                                 /\ Tail(results_queue)[i] = results_queue[i + 1]
    BY <1>1, <1>2, TailFacts
  <2>3. Holds("results", 1, t)
    BY <2>2 DEF Holds
  <2>4. ASSUME NEW s \in Tasks, crc[s] = crc[t]
        PROVE  s \notin Waiting' \cup Fetching' \cup Arriving'
    <3>1. \A k, i : Holds(k, i, s) => k = "results" /\ i = 1
      BY <1>1, <2>1, <2>3, <2>4 DEF Owned
    <3>2. s \notin Waiting \cup Fetching
      BY <1>1, <1>6, <3>1, PlacesOfSets
    <3>3. s \notin Range(Tail(results_queue))
      <4>1. \A i \in DOMAIN Tail(results_queue) : Tail(results_queue)[i] = s => Holds("results", i + 1, s) /\ i + 1 # 1
        BY <2>2 DEF Holds
      <4> QED
        BY <3>1, <4>1 DEF Range
    <3> QED
      BY <1>2, <1>4, <1>7, <1>10, <3>2, <3>3
  <2>5. crc[t] \in proc_uids /\ proc_uids' = proc_uids
    BY <1>1, <1>2, <2>1, <2>3 DEF Owned, uidVars
  <2> HIDE DEF t
  <2>6. About(t)
    <3>1. /\ Waiting' \cup {t, Finish} = Waiting \cup {t, Finish}
          /\ Fetching' \cup {t, Finish} = Fetching \cup {t, Finish}
          /\ Arriving' \cup {t, Finish} = Arriving \cup {t, Finish}
      BY <1>4, <2>1
    <3> QED
      BY <1>2, <2>1, <3>1, AboutSets
  <2>7. Status[crc[t]] = "answered" /\ Status'[crc[t]] = "given up"
    BY <1>5, <2>1, <2>4, <2>5 DEF Reads
  <2> QED
    BY <2>1, <2>6, <2>7, OneMoves, MoveNext
<1> QED
  BY <1>8, <1>9, <1>10

LEMMA CommitLife ==
  ASSUME LifeInv, LifeInv', Commit
  PROVE  Life!Next
<1>1. /\ TypeInv /\ pc \in [Frames -> Labels] /\ todo \in [Frames -> Seq(Strings)]
      /\ "run" \in Frames /\ "int" \in Frames
  BY DEF LifeInv, TypeInv, TypeOK, Frames
<1>2. /\ stack # <<>> /\ pc["run"] = "commit"
      /\ crc[data] \in proc_uids
      /\ proc_uids' = proc_uids \ {crc[data]} /\ ram_uids' = ram_uids \cup {crc[data]}
      /\ hdd_uids' = hdd_uids
      /\ todo' = [todo EXCEPT !["run"] = Related[data]]
      /\ \E l \in {"flush", "put"} : pc' = [pc EXCEPT !["run"] = l]
      /\ UNCHANGED <<tasks_queue, results_queue, wpc, wtask, stack, drained>>
  BY DEF Commit, At, Running, Goto, uids!Commit, queueVars, threadVars
<1>3. data \in Tasks
  BY <1>1, <1>2 DEF TypeInv
<1>4. Waiting' = Waiting /\ Fetching' = Fetching
  BY <1>1, <1>2 DEF Waiting, Fetching, HoldsTask
<1>5. Arriving = Arriving' \cup {data}
  <2>1. pc'["run"] # "commit"
    BY <1>1, <1>2
  <2>2. Arriving = Range(results_queue) \cup {data} /\ Arriving' = Range(results_queue)
    BY <1>2, <2>1 DEF Arriving
  <2> QED
    BY <2>2
<1>6. About(data)
  BY <1>2, <1>4, <1>5 DEF About
<1>7. Status[crc[data]] = "answered" /\ Status'[crc[data]] = "committed"
  <2>1. data \in Arriving /\ crc[data] \in ram_uids'
    BY <1>2, <1>5
  <2> QED
    BY <1>3, <2>1, LifeReads, LifeReadsNext DEF Reads
<1> QED
  BY <1>3, <1>6, <1>7, OneMoves, MoveNext

\* What Status says of a uid in the store, and that it says it of no other.
LEMMA StoreStatus ==
  ASSUME Phased, NEW v \in VideoUids
  PROVE  /\ Status[v] = "durable" <=> v \in hdd_uids
         /\ Status[v] = "committed" => v \in ram_uids
         /\ v \in ram_uids => Status[v] = "committed"
         /\ v \notin proc_uids \cup ram_uids \cup hdd_uids => Status[v] = "unknown"
<1> DEFINE st == Status[v]
<1>1. /\ v \in hdd_uids => st = "durable"
      /\ v \in ram_uids => st = "committed"
      /\ v \notin proc_uids \cup ram_uids \cup hdd_uids => st = "unknown"
      /\ v \in WaitingUids => st = "waiting"
      /\ v \in FetchingUids => st = "fetching"
      /\ v \in ArrivingUids => st = "answered"
      /\ v \in proc_uids /\ v \notin WaitingUids /\ v \notin FetchingUids /\ v \notin ArrivingUids
           => st = "given up"
  BY DEF Phased
<1> HIDE DEF st
<1>2. /\ st = "durable" => v \in hdd_uids
      /\ st = "committed" => v \in ram_uids
  BY <1>1
<1> QED
  BY <1>1, <1>2 DEF st

LEMMA StoreStatusNext ==
  ASSUME Phased', NEW v \in VideoUids
  PROVE  /\ v \in hdd_uids' => Status'[v] = "durable"
         /\ v \in ram_uids' => Status'[v] = "committed"
         /\ v \notin proc_uids' \cup ram_uids' \cup hdd_uids' => Status'[v] = "unknown"
BY DEF Phased

\* Commits reach the disk, in a commit or behind the poison pill.
LEMMA FlushLife ==
  ASSUME LifeInv, LifeInv', CommitFlush \/ Saving
  PROVE  Life!Next \/ UNCHANGED Status
<1>1. /\ pc \in [Frames -> Labels] /\ "run" \in Frames
  BY DEF LifeInv, TypeInv, TypeOK, Frames
<1>2. /\ pc["run"] # "commit"
      /\ \E l \in {"put", "check"} : pc' = [pc EXCEPT !["run"] = l]
      /\ UNCHANGED <<tasks_queue, results_queue, wpc, wtask, stack, todo, drained, data>>
      /\ uids!FlushToDisk \/ UNCHANGED uidVars
  BY DEF CommitFlush, Saving, At, Goto, queueVars, threadVars, loopVars
<1>3. pc'["run"] # "commit"
  BY <1>1, <1>2
<1>4. Waiting' = Waiting /\ Fetching' = Fetching /\ Arriving' = Arriving
  BY <1>2, <1>3 DEF Waiting, Fetching, HoldsTask, Arriving
<1>5. CASE UNCHANGED uidVars
  BY <1>4, <1>5, SameSets
<1>6. CASE uids!FlushToDisk
  <2>1. hdd_uids' = hdd_uids \cup ram_uids /\ ram_uids' = {} /\ proc_uids' = proc_uids
    BY <1>6 DEF uids!FlushToDisk
  <2>2. Phased /\ Phased'
    BY Phases, PhasesNext
  <2>3. ASSUME NEW v \in VideoUids
        PROVE  Status'[v] = IF Status[v] = "committed" THEN "durable" ELSE Status[v]
    <3>1. CASE v \in ram_uids
      BY <2>1, <2>2, <3>1, StoreStatus, StoreStatusNext
    <3>2. CASE v \notin ram_uids
      <4>1. Status'[v] = Status[v]
        <5>1. /\ v \in hdd_uids' <=> v \in hdd_uids
              /\ v \in ram_uids' <=> v \in ram_uids
              /\ v \in proc_uids' <=> v \in proc_uids
          BY <2>1, <3>2
        <5>2. /\ v \in WaitingUids' <=> v \in WaitingUids
              /\ v \in FetchingUids' <=> v \in FetchingUids
              /\ v \in ArrivingUids' <=> v \in ArrivingUids
          BY <1>4 DEF WaitingUids, FetchingUids, ArrivingUids
        <5> QED
          BY <2>2, <5>1, <5>2, StatusStays
      <4>2. Status[v] # "committed"
        BY <2>2, <3>2, StoreStatus
      <4> QED
        BY <4>1, <4>2
    <3> QED
      BY <3>1, <3>2
  <2>4. Status' = [u \in VideoUids |-> IF Status[u] = "committed" THEN "durable" ELSE Status[u]]
    <3>1. Status' = [u \in VideoUids |-> Status'[u]]
      BY DEF Status
    <3> QED
      BY <2>3, <3>1
  <2>5. Life!Flush <=> Status' = [u \in VideoUids |-> IF Status[u] = "committed" THEN "durable" ELSE Status[u]]
    BY DEF Life!Flush, Status
  <2> QED
    BY <2>4, <2>5 DEF Life!Next
<1> QED
  BY <1>2, <1>5, <1>6

LEMMA DownLife ==
  ASSUME LifeInv, LifeInv', Down
  PROVE  Life!Next
<1>1. proc_uids' = {} /\ ram_uids' = {} /\ hdd_uids' = hdd_uids
  BY DEF Down, uids!Forget
<1>2. Phased /\ Phased'
  BY Phases, PhasesNext
<1>3. ASSUME NEW v \in VideoUids
      PROVE  Status'[v] = IF Status[v] = "durable" THEN "durable" ELSE "unknown"
  <2>1. CASE v \in hdd_uids
    BY <1>1, <1>2, <2>1, StoreStatus, StoreStatusNext
  <2>2. CASE v \notin hdd_uids
    BY <1>1, <1>2, <2>2, StoreStatus, StoreStatusNext
  <2> QED
    BY <2>1, <2>2
<1>4. Status' = [u \in VideoUids |-> IF Status[u] = "durable" THEN "durable" ELSE "unknown"]
  <2>1. Status' = [u \in VideoUids |-> Status'[u]]
    BY DEF Status
  <2> QED
    BY <1>3, <2>1
<1>5. Life!Forget <=> Status' = [u \in VideoUids |-> IF Status[u] = "durable" THEN "durable" ELSE "unknown"]
  BY DEF Life!Forget, Status
<1> QED
  BY <1>4, <1>5 DEF Life!Next

-----------------------------------------------------------------------------
(* The steps that move no video.                                           *)

\* Those that leave every place as it is.
LEMMA QuietLife ==
  ASSUME LifeInv, LifeInv',
         UNCHANGED <<uidVars, tasks_queue, results_queue, wpc, wtask, drained, data>>,
         todo'["int"] = todo["int"],
         pc'["run"] = "commit" <=> pc["run"] = "commit",
         stack' = <<>> <=> stack = <<>>
  PROVE  UNCHANGED Status
<1>1. Waiting' = Waiting /\ Fetching' = Fetching /\ Arriving' = Arriving
  BY DEF Waiting, Fetching, HoldsTask, Arriving
<1> QED
  BY <1>1, SameSets

LEMMA StartLife ==
  ASSUME LifeInv, LifeInv', Start
  PROVE  UNCHANGED Status
<1>1. /\ pc \in [Frames -> Labels] /\ todo \in [Frames -> Seq(Strings)]
      /\ "run" \in Frames /\ "int" \in Frames
  BY DEF LifeInv, TypeInv, TypeOK, Frames
<1>2. /\ stack = <<>> /\ proc_uids = {} /\ TypeInv /\ Owned
  BY DEF Start, LifeInv, Handlers
<1>3. /\ pc' = [pc EXCEPT !["run"] = "load"]
      /\ todo' = [todo EXCEPT !["run"] = tasks_file]
      /\ \E pool \in SUBSET Workers : wpc' = [w \in Workers |-> IF w \in pool THEN "get" ELSE "none"]
      /\ UNCHANGED <<uidVars, tasks_queue, results_queue, drained, data>>
  <2>1. kSubset(WorkersCnt, Workers) \subseteq SUBSET Workers
    BY ConfigAssumption DEF kSubset
  <2> QED
    BY <2>1 DEF Start, Goto, queueVars, loopVars
<1>4. todo'["int"] = todo["int"] /\ pc'["run"] # "commit"
  BY <1>1, <1>3
<1>5. Waiting' = Waiting /\ Arriving' = Arriving
  BY <1>2, <1>3, <1>4 DEF Waiting, Arriving
<1>6. Fetching' = {}
  BY <1>3 DEF Fetching, HoldsTask
<1>7. Fetching \subseteq {Finish}
  <2>1. Fetching \subseteq Strings
    BY <1>2, SetsType
  <2>2. \A t \in Tasks : t \notin Fetching
    <3>1. \A t \in Tasks : \A k, i : ~Holds(k, i, t)
      BY <1>2 DEF Owned
    <3> QED
      BY <1>2, <3>1, PlacesOfSets DEF Strings
  <2> QED
    BY <2>1, <2>2 DEF Strings
<1>8. /\ hdd_uids' = hdd_uids /\ ram_uids' = ram_uids /\ proc_uids' = proc_uids
      /\ Fetching' \cup {Finish} = Fetching \cup {Finish}
  BY <1>3, <1>6, <1>7 DEF uidVars
<1> QED
  BY <1>5, <1>8, NoneMoves

\* A poison pill is no video.
LEMMA PillLife ==
  ASSUME LifeInv, LifeInv', NEW f \in Frames, Pill(f)
  PROVE  UNCHANGED Status
<1>1. tasks_queue \in Seq(Strings) /\ Finish \in Strings
  BY ConstantFacts DEF LifeInv, TypeInv, TypeOK
<1>2. /\ tasks_queue' = Append(tasks_queue, Finish)
      /\ UNCHANGED <<uidVars, results_queue, wpc, wtask, stack, pc, todo, drained, data>>
  BY DEF Pill, threadVars, loopVars
<1>3. Range(tasks_queue') = Range(tasks_queue) \cup {Finish}
  BY <1>1, <1>2, RangeAppend
<1>4. /\ Waiting' \cup {Finish} = Waiting \cup {Finish}
      /\ Fetching' = Fetching /\ Arriving' = Arriving
      /\ hdd_uids' = hdd_uids /\ ram_uids' = ram_uids /\ proc_uids' = proc_uids
  BY <1>2, <1>3 DEF Waiting, Fetching, HoldsTask, Arriving, uidVars
<1> QED
  BY <1>4, NoneMoves

\* A worker that was not there holds nothing yet.
LEMMA SpawnLife ==
  ASSUME LifeInv, LifeInv', NEW f \in Frames, Spawn(f)
  PROVE  UNCHANGED Status
<1>1. wpc \in [Workers -> {"none", "get", "proxy", "fetch", "save"}]
  BY DEF LifeInv, TypeInv, TypeOK
<1>2. PICK w \in Workers : wpc[w] = "none" /\ wpc' = [wpc EXCEPT ![w] = "get"]
  BY DEF Spawn, Alive
<1>3. UNCHANGED <<uidVars, tasks_queue, results_queue, wtask, stack, pc, todo, drained, data>>
  BY DEF Spawn, queueVars, loopVars
<1>4. Fetching' = Fetching
  <2>1. \A v \in Workers : wpc'[v] \in {"proxy", "fetch"} <=> wpc[v] \in {"proxy", "fetch"}
    BY <1>1, <1>2
  <2> QED
    BY <1>3, <2>1 DEF Fetching, HoldsTask
<1>5. Waiting' = Waiting /\ Arriving' = Arriving
  BY <1>3 DEF Waiting, Arriving
<1> QED
  BY <1>3, <1>4, <1>5, SameSets

\* run() is left on the stack when a handler returns.
LEMMA PoppedStack ==
  ASSUME TypeInv, Handlers, stack # <<>>, Head(stack) # "run"
  PROVE  Tail(stack) # <<>>
<1>1. stack \in Seq(Frames)
  BY DEF TypeInv, TypeOK
<1>2. Len(stack) \in Nat \ {0} /\ Head(stack) = stack[1] /\ Len(Tail(stack)) = Len(stack) - 1
  BY <1>1, StackPopped
<1>3. Len(stack) # 1
  BY <1>2 DEF Handlers
<1> QED
  BY <1>2, <1>3

LEMMA OrderDoneLife ==
  ASSUME LifeInv, LifeInv', NEW f \in Frames, InOrderDone(f)
  PROVE  UNCHANGED Status
<1>1. pc \in [Frames -> Labels] /\ TypeInv /\ Handlers /\ "run" \in Frames
  BY DEF LifeInv, TypeInv, TypeOK, Frames
<1>2. /\ stack # <<>> /\ Head(stack) = f
      /\ UNCHANGED <<uidVars, tasks_queue, results_queue, wpc, wtask, todo, drained, data>>
      /\ pc[f] # "commit" /\ \E l \in Labels \ {"commit"} : pc' = [pc EXCEPT ![f] = l]
      /\ \/ stack' = stack
         \/ pc[f] = "restart" /\ stack' = Tail(stack)
  BY DEF InOrderDone, InOrder, OrderLabels, Running, Goto, Labels, queueVars, threadVars, loopVars
<1>3. pc'["run"] = "commit" <=> pc["run"] = "commit"
  BY <1>1, <1>2
<1>4. stack' # <<>>
  <2>1. pc[f] = "restart" => f # "run"
    BY <1>1 DEF Handlers
  <2> QED
    BY <1>1, <1>2, <2>1, PoppedStack
<1> QED
  BY <1>2, <1>3, <1>4, QuietLife

\* What a handler takes out of the queue is set aside.
LEMMA DrainLife ==
  ASSUME LifeInv, LifeInv', NEW f \in {"int", "term"}, Drain(f)
  PROVE  UNCHANGED Status
<1> DEFINE h == Head(tasks_queue)
<1>1. /\ tasks_queue \in Seq(Strings) /\ drained \in [Frames -> Seq(Strings)]
      /\ pc \in [Frames -> Labels] /\ Frames = {"run", "int", "term"}
  BY DEF LifeInv, TypeInv, TypeOK, Frames
<1>2. /\ tasks_queue # <<>> /\ tasks_queue' = Tail(tasks_queue)
      /\ drained' = [drained EXCEPT ![f] = Append(@, h)]
      /\ pc' = [pc EXCEPT ![f] = "empty"]
      /\ UNCHANGED <<uidVars, results_queue, wpc, wtask, stack, todo, data>>
  BY DEF Drain, Goto, threadVars, loopVars
<1>3. Range(tasks_queue) = {h} \cup Range(tasks_queue') /\ h \in Strings
  BY <1>1, <1>2, RangeTail
<1> HIDE DEF h
<1>4. drained[f] \in Seq(Strings) /\ drained'[f] = Append(drained[f], h)
  BY <1>1, <1>2
<1>5. Range(drained'[f]) = Range(drained[f]) \cup {h}
  BY <1>3, <1>4, RangeAppend
<1>6. \A g \in {"int", "term"} : g # f => drained'[g] = drained[g]
  BY <1>1, <1>2
<1>7. Waiting' = Waiting
  <2>1. CASE f = "int"
    BY <1>2, <1>3, <1>5, <1>6, <2>1 DEF Waiting
  <2>2. CASE f = "term"
    BY <1>2, <1>3, <1>5, <1>6, <2>2 DEF Waiting
  <2> QED
    BY <2>1, <2>2
<1>8. Fetching' = Fetching /\ Arriving' = Arriving
  <2>1. pc'["run"] = pc["run"]
    BY <1>1, <1>2
  <2> QED
    BY <1>2, <2>1 DEF Fetching, HoldsTask, Arriving
<1> QED
  BY <1>2, <1>7, <1>8, SameSets

LEMMA TermReturnLife ==
  ASSUME LifeInv, LifeInv', TermReturn
  PROVE  UNCHANGED Status
<1>1. /\ results_queue \in Seq(Strings) /\ Finish \in Strings /\ pc \in [Frames -> Labels]
      /\ TypeInv /\ Handlers
  BY ConstantFacts DEF LifeInv, TypeInv, TypeOK
<1>2. /\ stack # <<>> /\ Head(stack) = "term" /\ stack' = Tail(stack)
      /\ results_queue' = Append(results_queue, Finish)
      /\ pc' = [pc EXCEPT !["term"] = "exited"]
      /\ UNCHANGED <<uidVars, tasks_queue, wpc, wtask, todo, drained, data>>
  BY DEF TermReturn, Joined, At, Running, Goto, threadVars, loopVars
<1>3. Range(results_queue') = Range(results_queue) \cup {Finish}
  BY <1>1, <1>2, RangeAppend
<1>4. stack' # <<>> /\ pc'["run"] = pc["run"]
  BY <1>1, <1>2, PoppedStack DEF Frames
<1>5. /\ Arriving' \cup {Finish} = Arriving \cup {Finish}
      /\ Waiting' = Waiting /\ Fetching' = Fetching
      /\ hdd_uids' = hdd_uids /\ ram_uids' = ram_uids /\ proc_uids' = proc_uids
  BY <1>2, <1>3, <1>4 DEF Waiting, Fetching, HoldsTask, Arriving, uidVars
<1> QED
  BY <1>5, NoneMoves

\* What a reload set aside is what it puts back.
LEMMA ReloadLife ==
  ASSUME LifeInv, LifeInv', Reload
  PROVE  UNCHANGED Status
<1>1. /\ pc \in [Frames -> Labels] /\ todo \in [Frames -> Seq(Strings)] /\ Handlers
      /\ drained \in [Frames -> Seq(Strings)] /\ Frames = {"run", "int", "term"}
  BY DEF LifeInv, TypeInv, TypeOK, Frames
<1>2. /\ stack # <<>> /\ pc["int"] = "join"
      /\ todo' = [todo EXCEPT !["int"] = drained["int"]]
      /\ drained' = [drained EXCEPT !["int"] = <<>>]
      /\ pc' = [pc EXCEPT !["int"] = "put"]
      /\ UNCHANGED <<uidVars, tasks_queue, results_queue, wpc, wtask, stack, data>>
  BY DEF Reload, Joined, At, Running, Goto, threadVars, loopVars
<1>3. todo["int"] = <<>>
  BY <1>1, <1>2 DEF Handlers
<1>4. /\ todo'["int"] = drained["int"] /\ drained'["int"] = <<>>
      /\ drained'["term"] = drained["term"] /\ pc'["run"] = pc["run"]
  BY <1>1, <1>2
<1>5. Waiting' = Waiting
  BY <1>2, <1>3, <1>4, RangeEmpty DEF Waiting
<1>6. Fetching' = Fetching /\ Arriving' = Arriving
  BY <1>2, <1>4 DEF Fetching, HoldsTask, Arriving
<1> QED
  BY <1>2, <1>5, <1>6, SameSets

\* The list a handler begins with was empty already: that of handleSIGINT because
\* the last reload put everything back, that of handleSIGTERM because it is the first.
LEMMA SignalLife ==
  ASSUME LifeInv, LifeInv', OneStop, SIGINT \/ SIGTERM
  PROVE  UNCHANGED Status
<1>1. /\ pc \in [Frames -> Labels] /\ stack \in Seq(Frames) /\ happened \in [Events -> Nat]
      /\ drained \in [Frames -> Seq(Strings)] /\ Frames = {"run", "int", "term"} /\ Handlers
      /\ {"int", "term"} \subseteq Events
  BY DEF LifeInv, TypeInv, TypeOK, Frames, Events
<1>2. PICK f \in {"int", "term"} :
         /\ stack # <<>> /\ f \notin Range(stack) /\ Spend(f)
         /\ stack' = <<f>> \o stack /\ pc' = [pc EXCEPT ![f] = "empty"]
         /\ drained' = [drained EXCEPT ![f] = <<>>]
         /\ UNCHANGED <<uidVars, tasks_queue, results_queue, wpc, wtask, todo, data>>
  BY DEF SIGINT, SIGTERM, Interrupt, Goto, queueVars, threadVars, loopVars
<1>3. drained[f] = <<>>
  <2>1. CASE f = "int"
    BY <1>1, <1>2, <2>1 DEF Handlers
  <2>2. CASE f = "term"
    <3>1. happened'["term"] = happened["term"] + 1 /\ happened'["term"] <= 1
      <4>1. PICK budget \in Budgets : \A e \in Events : happened'[e] <= budget[e]
        BY <1>2 DEF Spend
      <4>2. budget["term"] <= 1 /\ budget["term"] \in Nat /\ happened'["term"] <= budget["term"]
        BY <1>1, <4>1, ConfigAssumption DEF OneStop
      <4>3. happened'["term"] = happened["term"] + 1
        BY <1>1, <1>2, <2>2 DEF Spend
      <4> QED
        BY <1>1, <4>2, <4>3
    <3>2. happened["term"] = 0
      BY <1>1, <3>1
    <3> QED
      BY <1>1, <2>2, <3>2 DEF Handlers
  <2> QED
    BY <2>1, <2>2
<1>4. drained' = drained
  BY <1>1, <1>2, <1>3
<1>5. stack' # <<>> /\ pc'["run"] = pc["run"]
  BY <1>1, <1>2, StackPushed
<1> QED
  BY <1>2, <1>4, <1>5, QuietLife

LEMMA MainLife ==
  ASSUME LifeInv, LifeInv', FinishApart, Main
  PROVE  Life!Next \/ UNCHANGED Status
<1>1. /\ pc \in [Frames -> Labels] /\ todo \in [Frames -> Seq(Strings)]
      /\ Frames = {"run", "int", "term"}
  BY DEF LifeInv, TypeInv, TypeOK, Frames
<1>2. CASE LoadProxies \/ SetTasksDone \/ CheckWorkers
  <2>1. /\ pc["run"] # "commit" /\ \E l \in Labels \ {"commit"} : pc' = [pc EXCEPT !["run"] = l]
        /\ UNCHANGED <<uidVars, tasks_queue, results_queue, wpc, wtask, todo, drained, data, stack>>
    BY <1>2 DEF LoadProxies, SetTasksDone, CheckWorkers, PutInOrder, At, Goto, Labels,
                queueVars, threadVars, loopVars
  <2>2. pc'["run"] # "commit"
    BY <1>1, <2>1
  <2> QED
    BY <2>1, <2>2, QuietLife
<1>3. ASSUME NEW f \in {"int", "term"}, NotEmpty(f) \/ Kill(f) PROVE UNCHANGED Status
  <2>1. /\ \E l \in Labels : pc' = [pc EXCEPT ![f] = l]
        /\ UNCHANGED <<uidVars, tasks_queue, results_queue, wpc, wtask, todo, drained, data, stack>>
    BY <1>3 DEF NotEmpty, Kill, PutInOrder, Goto, Labels, queueVars, threadVars, loopVars
  <2>2. pc'["run"] = pc["run"]
    BY <1>1, <2>1
  <2> QED
    BY <2>1, <2>2, QuietLife
<1>4. CASE Restart
  <2>1. /\ pc' = [pc EXCEPT !["int"] = "restart"]
        /\ UNCHANGED <<uidVars, tasks_queue, results_queue, wpc, wtask, todo, drained, data, stack>>
    BY <1>4 DEF Restart, PutInOrder, Goto, queueVars, threadVars, loopVars
  <2>2. pc'["run"] = pc["run"]
    BY <1>1, <2>1
  <2> QED
    BY <2>1, <2>2, QuietLife
<1>5. CASE Exit
  BY <1>5, DownLife DEF Exit
<1> QED
  BY <1>2, <1>3, <1>4, <1>5, StartLife, GetResultLife, CommitLife, FlushLife, SetTaskLife, PillLife,
     SpawnLife, OrderDoneLife, DrainLife, TermReturnLife, ReloadLife DEF Main

LEMMA NextLife ==
  OneStop /\ FinishApart /\ LifeInv /\ LifeInv' /\ [Next]_vars
    => [Life!Next]_([u \in VideoUids |-> StatusOf(u)])
<1> SUFFICES ASSUME OneStop, FinishApart, LifeInv, LifeInv', [Next]_vars
             PROVE  Life!Next \/ UNCHANGED Status
  BY DEF Status
<1>1. CASE UNCHANGED vars
  <2>1. /\ UNCHANGED <<uidVars, tasks_queue, results_queue, wpc, wtask, drained, data>>
        /\ todo' = todo /\ pc' = pc /\ stack' = stack
    BY <1>1 DEF vars, queueVars, threadVars, frameVars, loopVars
  <2> QED
    BY <2>1, QuietLife
<1>2. CASE Crash
  BY <1>2, DownLife DEF Crash
<1> QED
  BY <1>1, <1>2, MainLife, WorkerLife, SignalLife DEF Next

LEMMA InitLife == Init => Life!Init
<1> SUFFICES ASSUME Init PROVE Life!Init
  OBVIOUS
<1>1. proc_uids = {} /\ ram_uids = {} /\ hdd_uids = {}
  BY DEF Init, uids!Init
<1>2. \A u \in VideoUids : StatusOf(u) = "unknown"
  BY <1>1 DEF StatusOf
<1> QED
  BY <1>2 DEF Life!Init

LEMMA LifeInvHolds == Spec => []LifeInv
<1>1. Init => OInv /\ Handlers
  BY InitOwned, InitHandlers
<1>2. (OInv /\ Handlers) /\ [Next]_vars => (OInv /\ Handlers)'
  BY NextOwned, NextHandlers DEF OInv
<1>3. OInv /\ Handlers /\ uids!Partition => LifeInv
  BY DEF OInv, LifeInv
<1> QED
  BY <1>1, <1>2, <1>3, StorePartition, PTL DEF Spec

(* The spider implements Crawl, whatever its threads, queues, signals and    *)
(* crashes do: a video is worked on by one worker at a time, committed only  *)
(* after it was answered, never handed out again once it is committed, and   *)
(* never forgotten once it is on disk.  A second SIGTERM empties what the    *)
(* first has set aside, several videos at once, and a pill that setTasks     *)
(* registers must not make a video known.                                    *)
THEOREM SpiderImplementsCrawl == OneStop /\ FinishApart => (Spec => UidLife)
<1> SUFFICES ASSUME OneStop, FinishApart PROVE Spec => UidLife
  OBVIOUS
<1>1. LifeInv /\ LifeInv' /\ [Next]_vars => [Life!Next]_([u \in VideoUids |-> StatusOf(u)])
  BY NextLife
<1>2. Spec => Init /\ [][Next]_vars
  BY DEF Spec
<1> QED
  BY <1>1, <1>2, InitLife, LifeInvHolds, PTL DEF UidLife, Life!Spec
=============================================================================
