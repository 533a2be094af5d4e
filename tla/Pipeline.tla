------------------------------ MODULE Pipeline ------------------------------
(***************************************************************************)
(* From the spider to the XML files: workers that save videos, the         *)
(* rotation of the log and of the dumps when the spider starts or reloads  *)
(* its proxies, and the converter beside them.  Either process may die.    *)
(***************************************************************************)
EXTENDS Converter, LogSystem

CONSTANT Budgets    \* what may happen: bounds, one of which a behaviour keeps to

Events == {"start", "reload", "crash", "convert", "ctrlC", "kill", "sameSecond"}

ASSUME BudgetsAssumption == Budgets \subseteq [Events -> Nat]

VARIABLES spider,      \* down, up, or in the rotation of its log
          known,       \* videos the uid store does not give out again
          fetches,     \* history: how often a video was handed to a worker
          torn,        \* history: videos whose save did not get to its end
          split,       \* history: videos whose page was put aside, or was about to be,
                       \*   under the date before midnight, and the subtitles were not yet
          happened

historyVars == <<fetches, torn, split>>
spiderVars == <<spider, known, historyVars>>
vars == <<today, dumpVars, saving, rotVars, conVars, logVars, spiderVars, happened>>

Init ==
  /\ DumpsInit /\ ConverterInit /\ LogInit
  /\ spider = "down" /\ known = {}
  /\ fetches = [v \in Videos |-> 0] /\ torn = {} /\ split = {}
  /\ happened = [e \in Events |-> 0]

Spend(event) ==
  /\ happened' = [happened EXCEPT ![event] = @ + 1]
  /\ \E budget \in Budgets : \A e \in Events : happened'[e] <= budget[e]

-----------------------------------------------------------------------------
(* The spider.                                                             *)

Rotating == rotPc # "idle"
Working == spider = "up" /\ ~Rotating

\* __init__: the log is opened and configure puts the dumps of the last process aside.
SpiderStart ==
  /\ spider = "down" /\ Spend("start")
  /\ spider' = "up"
  /\ OpenLog /\ CreateBegin
  /\ UNCHANGED <<today, dumpVars, saving, conVars, known, historyVars>>

\* A worker has fetched a video the uid store has let pass.
Fetch(v) ==
  /\ Working /\ v \notin known
  /\ SaveBegin(v)
  /\ known' = known \cup {v}
  /\ fetches' = [fetches EXCEPT ![v] = @ + 1]
  /\ UNCHANGED <<today, dirs, rotVars, conVars, logVars, spider, torn, split, happened>>

SaveOn(v) ==
  /\ Working /\ SaveStep(v)
  /\ UNCHANGED <<today, dirs, rotVars, conVars, logVars, spiderVars, happened>>

\* Slip: the handler does not wait for the workers.
ReloadAtOnce ==
  /\ Working /\ Spend("reload")
  /\ RotateLogs
  /\ spider' = "logs"
  /\ UNCHANGED <<today, dumpVars, saving, rotVars, conVars, known, historyVars>>

\* handleSIGINT, behind the join of the workers.
Reload ==
  /\ Working /\ Spend("reload")
  /\ \A v \in Videos : saving[v] = "no"
  /\ RotateLogs
  /\ spider' = "logs"
  /\ UNCHANGED <<today, dumpVars, saving, rotVars, conVars, known, historyVars>>

RotateOn ==
  /\ spider = "logs" /\ RotateLog
  /\ UNCHANGED <<today, dumpVars, saving, rotVars, conVars, spiderVars, happened>>

\* rotateLogs opens the new log, and the dumps are next.
LogsRotated ==
  /\ spider = "logs" /\ ~rotating
  /\ OpenLog /\ CreateBegin
  /\ spider' = "up"
  /\ UNCHANGED <<today, dumpVars, saving, conVars, known, historyVars, happened>>

CreateOn ==
  /\ spider = "up" /\ CreateEmptyDirs
  /\ UNCHANGED <<today, saving, conVars, logVars, spiderVars, happened>>

\* Of the videos the uid store knew, those it had on disk stay known.
Down ==
  /\ spider' = "down"
  /\ known' \in SUBSET known
  /\ rotPc' = "idle" /\ saving' = [v \in Videos |-> "no"]
  /\ torn' = torn \cup {v \in Videos : saving[v] # "no"}
  /\ Abandon
  /\ UNCHANGED <<today, dumpVars, rotKind, rotDay, moving, conVars, fetches, split>>

Stop == /\ Working /\ \A v \in Videos : saving[v] = "no"
        /\ Down /\ UNCHANGED happened

Crash == spider # "down" /\ Down /\ Spend("crash")

Midnight ==
  /\ today < LastDay
  /\ today' = today + 1
  /\ split' = split \cup {v \in Videos : /\ files["subs"][Current][v] = "whole"
                                         /\ \/ files["pages"][Current][v] = "none"
                                            \/ rotPc = "move" /\ v \in moving}
  /\ UNCHANGED <<dumpVars, saving, rotVars, conVars, logVars, spider, known, fetches, torn, happened>>

Spider == \/ SpiderStart \/ Reload \/ RotateOn \/ LogsRotated \/ CreateOn \/ Stop \/ Crash
          \/ \E v \in Videos : Fetch(v) \/ SaveOn(v)

-----------------------------------------------------------------------------
(* The converter.                                                          *)

BesideConverter == <<today, dirs, saving, rotVars, logVars, spiderVars>>

ConvertStart ==
  \/ Start(FALSE) /\ Spend("convert")
  \/ Start(TRUE) /\ Spend("sameSecond")

NextFile ==
  \/ OpenNewFile(FALSE) /\ UNCHANGED happened
  \/ OpenNewFile(TRUE) /\ Spend("sameSecond")

Converting ==
  /\ \/ ConvertStart \/ NextFile
     \/ Convert /\ UNCHANGED happened
     \/ RunRaises /\ Spend("ctrlC")
     \/ Kill /\ Spend("kill")
  /\ UNCHANGED BesideConverter

Next == Spider \/ Converting \/ Midnight

Spec == Init /\ [][Next]_vars

-----------------------------------------------------------------------------
Items == [video : Videos, complete : BOOLEAN, code : Nat \ {0}]
Codes == Seq({quality[v] : v \in Videos})

TypeOK ==
  /\ today \in Days
  /\ dirs \in [Kinds -> SUBSET Places]
  /\ files \in [Kinds -> [Places -> [Videos -> {"none", "torn", "whole"}]]]
  /\ saving \in [Videos -> {"no", "page", "between", "subs"}]
  /\ rotPc \in {"idle", "exists", "make", "move"} /\ rotKind \in Kinds
  /\ rotDay \in Days /\ moving \subseteq Videos
  /\ cPc \in {"off", "dirs", "files", "subs", "saved", "unlink", "unlinkSub", "dump", "close"}
  /\ dirs_sfx \subseteq Days /\ uids \subseteq Videos /\ sfx \in Days /\ uid \in Videos
  /\ info_map \in Codes /\ mapping_file \in Codes /\ mapping_torn \in BOOLEAN
  /\ buffer \in Seq(Items) /\ out \in Seq([items : Seq(Items), ended : BOOLEAN])
  /\ cPc # "off" => out # <<>>
  /\ cPc = "off" => buffer = <<>>
  /\ log_file \in Nat /\ calls \in Seq(Nat) /\ last_gen \in Nat
  /\ DOMAIN old_logs \subseteq Nat /\ \A s \in DOMAIN old_logs : old_logs[s] \in 1 .. last_gen
  /\ spider \in {"down", "up", "logs"} /\ known \subseteq Videos
  /\ fetches \in [Videos -> Nat] /\ torn \subseteq Videos /\ split \subseteq Videos
  /\ happened \in [Events -> Nat]

WrittenIn(file) == Range(file.items)
Written == UNION {WrittenIn(out[i]) : i \in DOMAIN out}

\* A complete copy of what was saved of v: two files, or an item.
Kept(v) ==
  \/ \A k \in Kinds : \E p \in Places : files[k][p][v] = "whole"
  \/ \E item \in Written \cup Range(buffer) : item.video = v /\ item.complete

\* The last file was opened again in the second it is named by.
Overwritten == /\ happened'["sameSecond"] > 0
               /\ out # <<>> /\ Len(out') = Len(out) /\ out'[Len(out)].items = <<>>

(* What a worker has saved of a video is never gone, whatever the spider and *)
(* the converter do to its files at the same time, but for two reasons: the  *)
(* converter died with the item in its buffer, or two output files had the   *)
(* same second for a name.  (Nothing is said of a video that was saved again *)
(* after its first save was cut off.)                                        *)
NothingVanishes ==
  [][\A v \in Videos \ torn' :
       Kept(v) /\ ~Kept(v)' =>
         \/ cPc' = "off" /\ \E i \in DOMAIN buffer : buffer[i].video = v
         \/ Overwritten]_vars

(* Between two rotations, page and subtitles of a video are in directories   *)
(* of the same date, where the converter finds the pair, even if the spider  *)
(* died in the middle of moving them, unless it was midnight between the two.*)
(* (A second copy of a video may be moved in while the converter deletes the *)
(* first, so that this is said of videos fetched once.)                      *)
PairsTogether ==
  Working => \A v \in Videos \ (torn \cup split), d \in Days :
               files["pages"][d][v] # "none" /\ fetches[v] = 1 => files["subs"][d][v] = "whole"

OccurrencesIn(items, v) == {i \in DOMAIN items : items[i].video = v}

\* Where the items of a video are, in the output files and, as if it were file 0, in the buffer.
OccurrencesOf(v) ==
  ({0} \X OccurrencesIn(buffer, v)) \cup UNION {{f} \X OccurrencesIn(out[f].items, v) : f \in DOMAIN out}

(* A video becomes one item per time it was fetched, and one more only when  *)
(* the converter was stopped or died between writing and deleting it.        *)
OneItemEach ==
  \A v \in Videos : Cardinality(OccurrencesOf(v)) <= fetches[v] + happened["ctrlC"] + happened["kill"]

(* The codes of all items, also those of earlier runs, mean what the mapping *)
(* says, an exception out of run() included, as long as no run was killed.   *)
CodesHold ==
  happened["kill"] = 0 =>
    LET map == IF cPc = "off" THEN mapping_file ELSE info_map
    IN \A item \in Written \cup Range(buffer) :
         item.code \in DOMAIN map /\ map[item.code] = quality[item.video]

(* A higher suffix is an older log, and a log is lost only to a process that *)
(* died in a rotation and left it at .0.                                     *)
LogsKept ==
  /\ \A s, t \in DOMAIN old_logs : s < t => old_logs[s] > old_logs[t]
  /\ Cardinality(1 .. last_gen \ (Range(old_logs) \cup {log_file})) <= happened["crash"]
=============================================================================
