------------------------------- MODULE Spider -------------------------------
(***************************************************************************)
(* The spider process (spider.py, worker.py): the main thread, the signal  *)
(* handlers that interrupt it and the worker threads, around tasks_queue,  *)
(* results_queue and proxies_queue.  The process may crash, be stopped and *)
(* be started again; tasks_file, the uids on disk and the saved pages      *)
(* survive.                                                                *)
(*                                                                         *)
(* A video id is a member of Tasks and everything its pages say about it   *)
(* is a constant: a task stands for its result too.  The main thread is a  *)
(* stack of frames, run() at the bottom and the signal handlers above it.  *)
(***************************************************************************)
EXTENDS Integers, Sequences, FiniteSets, FiniteSetsExt, Functions

CONSTANTS
  Tasks,          \* video ids
  Finish,         \* the string 'finish': a poison pill in either queue
  UIds,           \* the crc32 values
  crc,            \* zlib.crc32 of the strings that can stand in tasks_queue
  Related,        \* the videos a task's page links to
  Wordy,          \* tasks with more than min_words_cnt words of subtitles
  NoSubs,         \* tasks whose pages the parser refuses with a ValueError
  Seeds,          \* what the operator wrote into tasks_file
  Workers,        \* identities of worker threads
  WorkersCnt,     \* workers_cnt of the configuration
  CheckPeriod,    \* check_workers_period
  MaxUidsOnRam,   \* max_uids_on_ram_cnt
  ProxyCounts,    \* how many proxies a read of proxies_file can yield
  SignalPoints,   \* the <<frame, label>> a signal may interrupt
  Budgets         \* what may happen: bounds on signals, crashes, failed fetches, dying
                  \*   workers, one of which a behaviour has to keep to

Strings == Tasks \cup {Finish}
Frames == {"run", "int", "term"}
Labels == {"load", "get", "commit", "flush", "put", "saving", "check", "order", "exited",
           "empty", "drain", "kill", "join", "restart"}
Events == {"int", "term", "crash", "fail", "death"}

ASSUME CrcAssumption == Finish \notin Tasks /\ crc \in [Strings -> UIds]
ASSUME PagesAssumption == /\ Related \in [Tasks -> Seq(Tasks)]
                          /\ Wordy \subseteq Tasks
                          /\ NoSubs \subseteq Tasks
                          /\ Seeds \in Seq(Tasks)
ASSUME ConfigAssumption == /\ IsFiniteSet(Workers)
                           /\ WorkersCnt \in Nat
                           /\ CheckPeriod \in Nat \ {0}
                           /\ MaxUidsOnRam \in Nat
                           /\ ProxyCounts \subseteq Nat
                           /\ Budgets \subseteq [Events -> Nat]

VARIABLES
  tasks_file, saved,                        \* files, beside hdd_uids
  proc_uids, ram_uids, hdd_uids,            \* the uid store
  tasks_queue, results_queue, proxies,      \* proxies is the length of proxies_queue
  wpc, wtask,       \* per worker thread: where it is, and its task (Finish if none)
  workers,          \* self.workers
  workers_cnt,      \* self.workers_cnt
  stack, pc,        \* the frames of the main thread, running one first; their labels
  todo,             \* per frame: what setTasks has yet to go through
  excess,           \* per frame: workers too many (< 0: to spawn) in putWorkersInOrder
  drained,          \* per handler: what it took out of tasks_queue
  kept_cnt,         \* workers_cnt as handleSIGINT found it
  data, handled,    \* the result in hand, and the results since the last check
  happened          \* how often each of Events has

uidVars == <<proc_uids, ram_uids, hdd_uids>>
queueVars == <<tasks_queue, results_queue, proxies>>
threadVars == <<wpc, wtask>>
poolVars == <<workers, workers_cnt>>
frameVars == <<stack, pc, todo, excess, drained, kept_cnt>>
loopVars == <<data, handled>>
fileVars == <<tasks_file, saved>>
vars == <<fileVars, uidVars, queueVars, threadVars, poolVars, frameVars, loopVars, happened>>

uids == INSTANCE UidsStorage

Alive(w) == wpc[w] # "none"

Spend(event) ==
  /\ happened' = [happened EXCEPT ![event] = @ + 1]
  /\ \E budget \in Budgets : \A e \in Events : happened'[e] <= budget[e]

Init == /\ tasks_file = Seeds /\ saved = {}
        /\ uids!Init
        /\ tasks_queue = <<>> /\ results_queue = <<>> /\ proxies = 0
        /\ wpc = [w \in Workers |-> "none"] /\ wtask = [w \in Workers |-> Finish]
        /\ workers = {} /\ workers_cnt = 0
        /\ stack = <<>>
        /\ pc = [f \in Frames |-> "exited"]
        /\ todo = [f \in Frames |-> <<>>]
        /\ excess = [f \in Frames |-> 0]
        /\ drained = [f \in Frames |-> <<>>]
        /\ kept_cnt = 0
        /\ data = Finish /\ handled = 0
        /\ happened = [e \in Events |-> 0]

-----------------------------------------------------------------------------
(* Frames.                                                                 *)

Running(f) == stack # <<>> /\ Head(stack) = f
At(f, label) == Running(f) /\ pc[f] = label
Goto(f, label) == pc' = [pc EXCEPT ![f] = label]

\* Slips, each a change a property has to notice: see the README.  A pill too many,
\* a pill too few, and the living pruned instead of the dead.
PutInOrderOver(f, cnt, label) ==
  /\ workers' = {w \in workers : Alive(w)}
  /\ excess' = [excess EXCEPT ![f] = IF Cardinality(workers') < cnt THEN Cardinality(workers') - cnt
                                     ELSE Cardinality(workers') - cnt + 1]
  /\ Goto(f, label)

PutInOrderShort(f, cnt, label) ==
  /\ workers' = {w \in workers : Alive(w)}
  /\ excess' = [excess EXCEPT ![f] = IF Cardinality(workers') > cnt THEN Cardinality(workers') - cnt - 1
                                     ELSE Cardinality(workers') - cnt]
  /\ Goto(f, label)

PutInOrderInverted(f, cnt, label) ==
  /\ workers' = {w \in workers : ~Alive(w)}
  /\ excess' = [excess EXCEPT ![f] = Cardinality(workers') - cnt]
  /\ Goto(f, label)

\* The part of putWorkersInOrder before its loops: dead threads leave self.workers,
\* and the difference to cnt is what the loops have to make up.
PutInOrder(f, cnt, label) ==
  /\ workers' = {w \in workers : Alive(w)}
  /\ excess' = [excess EXCEPT ![f] = Cardinality(workers') - cnt]
  /\ Goto(f, label)

-----------------------------------------------------------------------------
(* putWorkersInOrder's loops, in whichever frame called it.                *)

OrderLabels == {"order", "kill", "restart"}
InOrder(f) == Running(f) /\ pc[f] \in OrderLabels

Pill(f) ==
  /\ InOrder(f) /\ excess[f] > 0
  /\ tasks_queue' = Append(tasks_queue, Finish)
  /\ excess' = [excess EXCEPT ![f] = @ - 1]
  /\ UNCHANGED <<fileVars, uidVars, results_queue, proxies, threadVars, poolVars,
                 stack, pc, todo, drained, kept_cnt, loopVars, happened>>

Spawn(f) ==
  /\ InOrder(f) /\ excess[f] < 0
  /\ \E w \in Workers \ workers : /\ ~Alive(w)
                                  /\ workers' = workers \cup {w}
                                  /\ wpc' = [wpc EXCEPT ![w] = "get"]
  /\ excess' = [excess EXCEPT ![f] = @ + 1]
  /\ UNCHANGED <<fileVars, uidVars, queueVars, wtask, workers_cnt,
                 stack, pc, todo, drained, kept_cnt, loopVars, happened>>

\* run() goes round or ends, a killing handler goes on to join, and the
\* restart is the last thing handleSIGINT does.
InOrderDone(f) ==
  /\ InOrder(f) /\ excess[f] = 0
  /\ \/ /\ pc[f] = "order"
        /\ Goto(f, IF data = Finish THEN "exited" ELSE "get")
        /\ UNCHANGED stack
     \/ /\ pc[f] = "kill"
        /\ Goto(f, "join")
        /\ UNCHANGED stack
     \/ /\ pc[f] = "restart"
        /\ Goto(f, "exited")
        /\ stack' = Tail(stack)
  /\ UNCHANGED <<fileVars, uidVars, queueVars, threadVars, poolVars,
                 todo, excess, drained, kept_cnt, loopVars, happened>>

-----------------------------------------------------------------------------
(* setTasks: a task whose uid the store knows is skipped.                  *)

\* Slip: the task is queued whatever uids.add answers.
SetTaskUnchecked(f) ==
  /\ Running(f) /\ pc[f] \in {"load", "put"} /\ todo[f] # <<>>
  /\ todo' = [todo EXCEPT ![f] = Tail(@)]
  /\ LET task == Head(todo[f])
     IN uids!Add(crc[task]) \/ (uids!Contains(crc[task]) /\ UNCHANGED uidVars)
  /\ tasks_queue' = Append(tasks_queue, Head(todo[f]))
  /\ UNCHANGED <<fileVars, results_queue, proxies, threadVars, poolVars,
                 stack, pc, excess, drained, kept_cnt, loopVars, happened>>

SetTask(f) ==
  /\ Running(f) /\ pc[f] \in {"load", "put"} /\ todo[f] # <<>>
  /\ todo' = [todo EXCEPT ![f] = Tail(@)]
  /\ LET task == Head(todo[f])
     IN \/ /\ uids!Add(crc[task])
           /\ tasks_queue' = Append(tasks_queue, task)
        \/ /\ uids!Contains(crc[task])
           /\ UNCHANGED <<uidVars, tasks_queue>>
  /\ UNCHANGED <<fileVars, results_queue, proxies, threadVars, poolVars,
                 stack, pc, excess, drained, kept_cnt, loopVars, happened>>

-----------------------------------------------------------------------------
(* The process: __init__, and its two ends.                                *)

\* __init__ up to loadTasks: the pool is spawned before there is any task.
Start ==
  /\ stack = <<>>
  /\ \E pool \in kSubset(WorkersCnt, Workers) :
       /\ workers' = pool
       /\ wpc' = [w \in Workers |-> IF w \in pool THEN "get" ELSE "none"]
  /\ workers_cnt' = WorkersCnt
  /\ stack' = <<"run">>
  /\ Goto("run", "load")
  /\ todo' = [todo EXCEPT !["run"] = tasks_file]
  /\ UNCHANGED <<fileVars, uidVars, queueVars, wtask, excess, drained, kept_cnt, loopVars, happened>>

LoadProxies ==
  /\ At("run", "load") /\ todo["run"] = <<>>
  /\ proxies' \in ProxyCounts
  /\ Goto("run", "get")
  /\ UNCHANGED <<fileVars, uidVars, tasks_queue, results_queue, threadVars, poolVars,
                 stack, todo, excess, drained, kept_cnt, loopVars, happened>>

\* Everything but the files is gone.
Down ==
  /\ uids!Forget
  /\ tasks_queue' = <<>> /\ results_queue' = <<>> /\ proxies' = 0
  /\ wpc' = [w \in Workers |-> "none"] /\ wtask' = [w \in Workers |-> Finish]
  /\ workers' = {} /\ workers_cnt' = 0
  /\ stack' = <<>>
  /\ pc' = [f \in Frames |-> "exited"]
  /\ todo' = [f \in Frames |-> <<>>]
  /\ excess' = [f \in Frames |-> 0]
  /\ drained' = [f \in Frames |-> <<>>]
  /\ kept_cnt' = 0
  /\ data' = Finish /\ handled' = 0
  /\ UNCHANGED fileVars

\* The interpreter waits for every thread that is still alive before it ends.
Exit == /\ At("run", "exited")
        /\ \A w \in Workers : ~Alive(w)
        /\ Down
        /\ UNCHANGED happened

Crash == /\ stack # <<>>
         /\ Down
         /\ Spend("crash")

-----------------------------------------------------------------------------
(* run() and handleResult().                                               *)

GetResult ==
  /\ At("run", "get") /\ results_queue # <<>>
  /\ data' = Head(results_queue)
  /\ results_queue' = Tail(results_queue)
  /\ Goto("run", IF data' = Finish THEN "saving"
                 ELSE IF data' \in Wordy THEN "commit" ELSE "check")
  /\ UNCHANGED <<fileVars, uidVars, tasks_queue, proxies, threadVars, poolVars,
                 stack, todo, excess, drained, kept_cnt, handled, happened>>

Commit ==
  /\ At("run", "commit")
  /\ uids!Commit(crc[data])
  /\ todo' = [todo EXCEPT !["run"] = Related[data]]
  /\ Goto("run", IF Cardinality(ram_uids') > MaxUidsOnRam THEN "flush" ELSE "put")
  /\ UNCHANGED <<fileVars, queueVars, threadVars, poolVars,
                 stack, excess, drained, kept_cnt, loopVars, happened>>

\* Slip: ram_uids.clear() without the file.
CommitFlushForgets ==
  /\ At("run", "flush")
  /\ ram_uids' = {} /\ UNCHANGED <<proc_uids, hdd_uids>>
  /\ Goto("run", "put")
  /\ UNCHANGED <<fileVars, queueVars, threadVars, poolVars,
                 stack, todo, excess, drained, kept_cnt, loopVars, happened>>

CommitFlush ==
  /\ At("run", "flush")
  /\ uids!FlushToDisk
  /\ Goto("run", "put")
  /\ UNCHANGED <<fileVars, queueVars, threadVars, poolVars,
                 stack, todo, excess, drained, kept_cnt, loopVars, happened>>

SetTasksDone ==
  /\ At("run", "put") /\ todo["run"] = <<>>
  /\ Goto("run", "check")
  /\ UNCHANGED <<fileVars, uidVars, queueVars, threadVars, poolVars,
                 stack, todo, excess, drained, kept_cnt, loopVars, happened>>

\* except TypeError: data was the string 'finish'.
Saving ==
  /\ At("run", "saving")
  /\ \/ uids!FlushToDisk
     \/ ram_uids = {} /\ UNCHANGED uidVars
  /\ Goto("run", "check")
  /\ UNCHANGED <<fileVars, queueVars, threadVars, poolVars,
                 stack, todo, excess, drained, kept_cnt, loopVars, happened>>

\* Slip: the counter is never reset.
CheckWorkersNoReset ==
  /\ At("run", "check")
  /\ handled' = handled + 1
  /\ \/ /\ handled' = CheckPeriod
        /\ PutInOrder("run", workers_cnt, "order")
     \/ /\ handled' # CheckPeriod
        /\ Goto("run", IF data = Finish THEN "exited" ELSE "get")
        /\ UNCHANGED <<workers, excess>>
  /\ UNCHANGED <<fileVars, uidVars, queueVars, threadVars, workers_cnt,
                 stack, todo, drained, kept_cnt, data, happened>>

\* The end of an iteration of run(): every CheckPeriod-th one looks after the
\* pool, the last one of all included.
CheckWorkers ==
  /\ At("run", "check")
  /\ handled' = (handled + 1) % CheckPeriod
  /\ \/ /\ handled' = 0
        /\ PutInOrder("run", workers_cnt, "order")
     \/ /\ handled' # 0
        /\ Goto("run", IF data = Finish THEN "exited" ELSE "get")
        /\ UNCHANGED <<workers, excess>>
  /\ UNCHANGED <<fileVars, uidVars, queueVars, threadVars, workers_cnt,
                 stack, todo, drained, kept_cnt, data, happened>>

-----------------------------------------------------------------------------
(* The signal handlers.  The test and the get of their drain loop are two  *)
(* steps, and the get blocks when a worker was faster.                     *)

\* At most one frame of each handler is on the stack at a time.
Interrupt(f) ==
  /\ stack # <<>> /\ f \notin Range(stack)
  /\ <<Head(stack), pc[Head(stack)]>> \in SignalPoints
  /\ Spend(f)
  /\ stack' = <<f>> \o stack
  /\ Goto(f, "empty")
  /\ drained' = [drained EXCEPT ![f] = <<>>]

SIGINT ==
  /\ Interrupt("int")
  /\ kept_cnt' = workers_cnt
  /\ UNCHANGED <<fileVars, uidVars, queueVars, threadVars, poolVars, todo, excess, loopVars>>

\* open(tasks_file, 'w') truncates the file; what is written stays buffered.
SIGTERM ==
  /\ Interrupt("term")
  /\ tasks_file' = <<>>
  /\ UNCHANGED <<saved, uidVars, queueVars, threadVars, poolVars,
                 todo, excess, kept_cnt, loopVars>>

NotEmpty(f) ==
  /\ At(f, "empty") /\ tasks_queue # <<>>
  /\ Goto(f, "drain")
  /\ UNCHANGED <<fileVars, uidVars, queueVars, threadVars, poolVars,
                 stack, todo, excess, drained, kept_cnt, loopVars, happened>>

Drain(f) ==
  /\ At(f, "drain") /\ tasks_queue # <<>>
  /\ drained' = [drained EXCEPT ![f] = Append(@, Head(tasks_queue))]
  /\ tasks_queue' = Tail(tasks_queue)
  /\ Goto(f, "empty")
  /\ UNCHANGED <<fileVars, uidVars, results_queue, proxies, threadVars, poolVars,
                 stack, todo, excess, kept_cnt, loopVars, happened>>

\* The queue looked empty: SIGTERM's file is closed, and the killing starts.
Kill(f) ==
  /\ At(f, "empty") /\ tasks_queue = <<>>
  /\ tasks_file' = IF f = "term" THEN drained[f] ELSE tasks_file
  /\ workers_cnt' = 0
  /\ PutInOrder(f, 0, "kill")
  /\ UNCHANGED <<saved, uidVars, queueVars, threadVars,
                 stack, todo, drained, kept_cnt, loopVars, happened>>

\* Slip: the handler does not join.
JoinedAtOnce(f) == At(f, "join")

Joined(f) == At(f, "join") /\ \A w \in workers : ~Alive(w)

\* handleSIGTERM returns behind results_queue.put('finish').
TermReturn ==
  /\ Joined("term")
  /\ results_queue' = Append(results_queue, Finish)
  /\ Goto("term", "exited")
  /\ stack' = Tail(stack)
  /\ UNCHANGED <<fileVars, uidVars, tasks_queue, proxies, threadVars, poolVars,
                 todo, excess, drained, kept_cnt, loopVars, happened>>

\* proxies_queue is emptied and read anew, then setTasks gets tmp_tasks.
Reload ==
  /\ Joined("int")
  /\ proxies' \in ProxyCounts
  /\ todo' = [todo EXCEPT !["int"] = drained["int"]]
  /\ drained' = [drained EXCEPT !["int"] = <<>>]
  /\ Goto("int", "put")
  /\ UNCHANGED <<fileVars, uidVars, tasks_queue, results_queue, threadVars, poolVars,
                 stack, excess, kept_cnt, loopVars, happened>>

Restart ==
  /\ At("int", "put") /\ todo["int"] = <<>>
  /\ workers_cnt' = kept_cnt
  /\ PutInOrder("int", kept_cnt, "restart")
  /\ UNCHANGED <<fileVars, uidVars, queueVars, threadVars,
                 stack, todo, drained, kept_cnt, loopVars, happened>>

-----------------------------------------------------------------------------
(* The worker threads.                                                     *)

Take(w) ==
  /\ wpc[w] = "get" /\ tasks_queue # <<>>
  /\ wtask' = [wtask EXCEPT ![w] = Head(tasks_queue)]
  /\ tasks_queue' = Tail(tasks_queue)
  /\ wpc' = [wpc EXCEPT ![w] = "proxy"]
  /\ UNCHANGED <<fileVars, uidVars, results_queue, proxies, poolVars, frameVars, loopVars, happened>>

\* Slip: the proxy is not put back.
NextProxyKept(w) ==
  /\ wpc[w] = "proxy" /\ proxies > 0
  /\ proxies' = proxies - 1
  /\ wpc' = [wpc EXCEPT ![w] = IF wtask[w] = Finish THEN "none" ELSE "fetch"]
  /\ UNCHANGED <<fileVars, uidVars, tasks_queue, results_queue, wtask, poolVars, frameVars,
                 loopVars, happened>>

\* getNextProxy puts the proxy back behind the others.  A worker asks for one
\* before it looks whether its task is the pill.
NextProxy(w) ==
  /\ wpc[w] = "proxy" /\ proxies > 0
  /\ wpc' = [wpc EXCEPT ![w] = IF wtask[w] = Finish THEN "none" ELSE "fetch"]
  /\ UNCHANGED <<fileVars, uidVars, queueVars, wtask, poolVars, frameVars, loopVars, happened>>

\* Slip: the page is not saved.
FetchOkUnsaved(w) ==
  /\ wpc[w] = "fetch" /\ wtask[w] \notin NoSubs
  /\ results_queue' = Append(results_queue, wtask[w])
  /\ wtask' = [wtask EXCEPT ![w] = Finish]
  /\ wpc' = [wpc EXCEPT ![w] = "get"]
  /\ UNCHANGED <<fileVars, uidVars, tasks_queue, proxies, poolVars, frameVars, loopVars, happened>>

\* Every later getNextProxy of the same task finds what the first one found.
FetchOk(w) ==
  /\ wpc[w] = "fetch" /\ wtask[w] \notin NoSubs
  /\ results_queue' = Append(results_queue, wtask[w])
  /\ wpc' = [wpc EXCEPT ![w] = "save"]
  /\ UNCHANGED <<fileVars, uidVars, tasks_queue, proxies, wtask, poolVars, frameVars,
                 loopVars, happened>>

\* except ValueError: continue.
FetchBad(w) ==
  /\ wpc[w] = "fetch" /\ wtask[w] \in NoSubs
  /\ wtask' = [wtask EXCEPT ![w] = Finish]
  /\ wpc' = [wpc EXCEPT ![w] = "get"]
  /\ UNCHANGED <<fileVars, uidVars, queueVars, poolVars, frameVars, loopVars, happened>>

\* Slip: the failed task is not put back.
FetchFailDrops(w) ==
  /\ wpc[w] = "fetch"
  /\ Spend("fail")
  /\ wtask' = [wtask EXCEPT ![w] = Finish]
  /\ wpc' = [wpc EXCEPT ![w] = "get"]
  /\ UNCHANGED <<fileVars, uidVars, queueVars, poolVars, frameVars, loopVars>>

\* except GetHtmlError: no proxy answered.
FetchFail(w) ==
  /\ wpc[w] = "fetch"
  /\ Spend("fail")
  /\ tasks_queue' = Append(tasks_queue, wtask[w])
  /\ wtask' = [wtask EXCEPT ![w] = Finish]
  /\ wpc' = [wpc EXCEPT ![w] = "get"]
  /\ UNCHANGED <<fileVars, uidVars, results_queue, proxies, poolVars, frameVars, loopVars>>

\* Only now, after the result was handed over, is the page written.
Save(w) ==
  /\ wpc[w] = "save"
  /\ saved' = saved \cup {wtask[w]}
  /\ wtask' = [wtask EXCEPT ![w] = Finish]
  /\ wpc' = [wpc EXCEPT ![w] = "get"]
  /\ UNCHANGED <<tasks_file, uidVars, queueVars, poolVars, frameVars, loopVars, happened>>

\* save() raises (a full disk, an unencodable page) and nothing catches it.
SaveFails(w) ==
  /\ wpc[w] = "save"
  /\ Spend("death")
  /\ wtask' = [wtask EXCEPT ![w] = Finish]
  /\ wpc' = [wpc EXCEPT ![w] = "none"]
  /\ UNCHANGED <<fileVars, uidVars, queueVars, poolVars, frameVars, loopVars>>

-----------------------------------------------------------------------------
Main == \/ Start \/ LoadProxies
        \/ GetResult \/ Commit \/ CommitFlush \/ SetTasksDone \/ Saving \/ CheckWorkers
        \/ \E f \in Frames : SetTask(f) \/ Pill(f) \/ Spawn(f) \/ InOrderDone(f)
        \/ \E f \in {"int", "term"} : NotEmpty(f) \/ Drain(f) \/ Kill(f)
        \/ TermReturn \/ Reload \/ Restart
        \/ Exit

Fetch(w) == FetchOk(w) \/ FetchBad(w) \/ FetchFail(w)

Worker(w) == Take(w) \/ NextProxy(w) \/ Fetch(w) \/ Save(w)

Next == \/ Main
        \/ \E w \in Workers : Worker(w) \/ SaveFails(w)
        \/ SIGINT \/ SIGTERM
        \/ Crash

Spec == Init /\ [][Next]_vars

\* Every thread that can run does run.  Nothing makes a signal or a crash happen.
FairSpec == /\ Spec
            /\ WF_vars(Main)
            /\ \A w \in Workers : WF_vars(Worker(w))

-----------------------------------------------------------------------------
(* Where the tasks are.                                                    *)

Stopped == stack = <<>>

\* In tasks_queue, in a handler's list or file, or in what handleSIGINT puts back.
WaitingTasks == tasks_queue \o drained["int"] \o drained["term"] \o todo["int"]

HoldsTask(w) == wpc[w] \in {"proxy", "fetch"} /\ wtask[w] # Finish

\* In results_queue, or taken out of it and not committed yet.
AnsweredTasks == results_queue \o (IF stack # <<>> /\ pc["run"] = "commit" THEN <<data>> ELSE <<>>)

Places(task) == Cardinality({i \in DOMAIN WaitingTasks : WaitingTasks[i] = task})
                + Cardinality({w \in Workers : HoldsTask(w) /\ wtask[w] = task})
                + Cardinality({i \in DOMAIN AnsweredTasks : AnsweredTasks[i] = task})

StatusOf(u) ==
  LET Some(held) == \E task \in held \ {Finish} : crc[task] = u
  IN CASE u \in hdd_uids -> "durable"
       [] u \in ram_uids -> "committed"
       [] u \notin hdd_uids \cup ram_uids \cup proc_uids -> "unknown"
       [] OTHER -> IF Some(Range(WaitingTasks)) THEN "waiting"
                   ELSE IF Some({wtask[w] : w \in {v \in Workers : HoldsTask(v)}}) THEN "fetching"
                   ELSE IF Some(Range(AnsweredTasks)) THEN "answered"
                   ELSE "given up"

TypeOK ==
  /\ tasks_file \in Seq(Strings) /\ saved \subseteq Tasks
  /\ uids!StorageTypeOK
  /\ tasks_queue \in Seq(Strings) /\ results_queue \in Seq(Strings) /\ proxies \in Nat
  /\ wpc \in [Workers -> {"none", "get", "proxy", "fetch", "save"}]
  /\ wtask \in [Workers -> Strings]
  /\ workers \subseteq Workers /\ workers_cnt \in Nat
  /\ stack \in Seq(Frames)
  /\ pc \in [Frames -> Labels]
  /\ todo \in [Frames -> Seq(Strings)]
  /\ excess \in [Frames -> Int]
  /\ drained \in [Frames -> Seq(Strings)]
  /\ kept_cnt \in Nat
  /\ data \in Strings /\ handled \in 0 .. CheckPeriod - 1
  /\ happened \in [Events -> Nat]

(* A video is in one place at a time, queue, hands or results, and while it  *)
(* is in any its uid is in process: no two workers ever fetch the same page, *)
(* a committed video is never fetched again, and uids.commit never raises    *)
(* the KeyError that would end run().                                        *)
OneOwner ==
  \A task \in Tasks : /\ Places(task) <= 1
                      /\ Places(task) = 1 => crc[task] \in proc_uids

VideoUids == {crc[task] : task \in Tasks}

(* The detailed process implements the life of a video's uid: see Crawl.     *)
Life == INSTANCE Crawl WITH UIds <- VideoUids,
                            status <- [u \in VideoUids |-> StatusOf(u)]

UidLife == Life!Spec

\* handleSIGTERM has closed tasks_file: only it sets workers_cnt to 0 for good, and
\* nobody writes down what gets into tasks_queue from here on.
FileWritten == workers_cnt = 0

\* What can get into tasks_queue behind the drain: a task whose fetch failed, and
\* what a page handled behind it links to (when that was the state does not say).
Late(task) == \/ happened["fail"] > 0
              \/ \E page \in Tasks : /\ task \in Range(Related[page])
                                     /\ crc[page] \in ram_uids \cup hdd_uids

(* No retry, stop or result handled late loses a video in process, except     *)
(* that what is put into tasks_queue behind the drain of a SIGTERM is lost    *)
(* when the process ends: that takes a failed fetch, or a page committed that *)
(* links to the video.  Every other one is in tasks_file when run() has       *)
(* ended, not in a queue or in hands that nobody reads again.                 *)
NothingForgotten ==
  happened["int"] = 0 /\ ~Stopped =>
    \A task \in Wordy \ NoSubs : crc[task] \in proc_uids =>
      \/ task \in Range(tasks_queue) /\ (FileWritten => Late(task))
      \/ task \in Range(IF FileWritten THEN tasks_file ELSE drained["term"])
      \/ /\ ~At("run", "exited")
         /\ \/ task \in Range(AnsweredTasks)
            \/ \E w \in Workers : HoldsTask(w) /\ wtask[w] = task

(* "загружаем задачи" (spider.py:130): the tasks that a reload takes out of  *)
(* the queue are put back, so that no video is lost by it either.            *)
ReloadForgetsNothing ==
  \A task \in Wordy \ NoSubs : ~Stopped => StatusOf(crc[task]) # "given up"

Pills(queue) == Cardinality({i \in DOMAIN queue : queue[i] = Finish})

(* A handler that waits for the workers to end has left a pill for each of   *)
(* them in tasks_queue or in its hands, whatever they requeued or died of.   *)
EnoughPills ==
  stack # <<>> /\ pc[Head(stack)] = "join"
    => Pills(tasks_queue) + Cardinality({w \in workers : wpc[w] = "proxy" /\ wtask[w] = Finish})
         >= Cardinality({w \in workers : Alive(w)})

(* Every live thread is in self.workers, where a handler's join can see it,  *)
(* and there are never more of them than the configuration asks for.         *)
PoolSound == /\ {w \in Workers : Alive(w)} \subseteq workers
             /\ Cardinality(workers) <= WorkersCnt

(* "убиваем всех рабочих" (spider.py:147): when run() ends after a SIGTERM   *)
(* no worker is left, so that the interpreter can end as well.               *)
StopKillsAll == At("run", "exited") => \A w \in Workers : ~Alive(w)

(* A graceful stop leaves no uid on disk without its saved page, as long as  *)
(* the process has never crashed between the two and no worker has died.     *)
StopSavesPages ==
  At("run", "exited") /\ happened["crash"] = 0 /\ happened["death"] = 0
    => \A u \in hdd_uids : \E task \in saved : crc[task] = u

(* No poison pill gets into tasks_file, where the next start would take it   *)
(* for a video and the worker that gets it would end.  (A worker that dies   *)
(* behind the counting of the pool leaves a pill nobody takes.)              *)
FileHasNoPills == happened["death"] = 0 => Finish \notin Range(tasks_file)

Settled(u) == StatusOf(u) \in {"unknown", "committed", "durable", "given up"}

(* Every video that is queued is settled, through retries and restarts of    *)
(* the pool, unless a signal handler takes over.                             *)
Settles == \A u \in VideoUids : [](~Settled(u) => <>(Settled(u) \/ Len(stack) > 1))

(* A handler that waits for its workers gets to its end: SIGTERM ends the    *)
(* process, and SIGINT goes back to work.                                    *)
HandlersComplete == /\ [](At("term", "join") => <>Stopped)
                    /\ [](At("int", "join") => <>("int" \notin Range(stack)))

(* "OK. FINISHING", "убиваем всех рабочих" (spider.py:142,147): a SIGTERM    *)
(* that has reached the process ends it.  It does not when a worker takes    *)
(* the last task between the test and the get of the drain loop.             *)
StopEnds == []("term" \in Range(stack) => <>Stopped)
=============================================================================
