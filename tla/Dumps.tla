------------------------------- MODULE Dumps -------------------------------
(***************************************************************************)
(* The dumps of worker.py: a directory for the pages and one for the       *)
(* subtitles, in which every video has a file named after it.  A worker    *)
(* saves into the two current ones; createEmptyDirs puts these aside under *)
(* the date of the day.                                                    *)
(***************************************************************************)
EXTENDS Integers, Sequences, FiniteSets

CONSTANTS Videos, LastDay

ASSUME LastDayAssumption == LastDay \in Nat \ {0}

Days == 1 .. LastDay
Current == 0
Places == Days \cup {Current}
Kinds == {"pages", "subs"}

VARIABLES today,
          dirs,     \* per kind: the directories there are
          files,    \* per kind, directory and video: none, a torn or a whole file
          saving,   \* per video: which part of save its worker is in
          rotPc, rotKind, rotDay, moving   \* createEmptyDirs: place, dir_name,
                                           \*   new_dir_name, the rest of files

dumpVars == <<dirs, files>>
rotVars == <<rotPc, rotKind, rotDay, moving>>

NoFiles == [v \in Videos |-> "none"]

DumpsInit ==
  /\ today = 1
  /\ dirs = [k \in Kinds |-> {}]
  /\ files = [k \in Kinds |-> [p \in Places |-> NoFiles]]
  /\ saving = [v \in Videos |-> "no"]
  /\ rotPc = "idle" /\ rotKind = "subs" /\ rotDay = 1 /\ moving = {}

Put(kind, place, v, content) == files' = [files EXCEPT ![kind][place][v] = content]

-----------------------------------------------------------------------------
(* Worker.save: a file is torn from open to close.                         *)

SaveBegin(v) == saving[v] = "no" /\ Put("pages", Current, v, "torn")
                                 /\ saving' = [saving EXCEPT ![v] = "page"]
SaveStep(v) ==
  \/ saving[v] = "page" /\ Put("pages", Current, v, "whole") /\ saving' = [saving EXCEPT ![v] = "between"]
  \/ saving[v] = "between" /\ Put("subs", Current, v, "torn") /\ saving' = [saving EXCEPT ![v] = "subs"]
  \/ saving[v] = "subs" /\ Put("subs", Current, v, "whole") /\ saving' = [saving EXCEPT ![v] = "no"]

-----------------------------------------------------------------------------
(* createEmptyDirs(pages_dump, subs_dump).                                 *)

CreateBegin == rotPc' = "exists" /\ rotKind' = "pages" /\ UNCHANGED <<rotDay, moving>>

NextKind == /\ rotPc' = IF rotKind = "pages" THEN "exists" ELSE "idle"
            /\ rotKind' = "subs"

Exists(place) == place \in dirs[rotKind]

\* Slip: the directory is renamed onto the one of the day, which goes with its files.
RenameDirOver ==
  /\ rotPc = "exists" /\ Exists(Current)
  /\ dirs' = [dirs EXCEPT ![rotKind] = (@ \ {Current}) \cup {today}]
  /\ files' = [files EXCEPT ![rotKind][today] = files[rotKind][Current],
                            ![rotKind][Current] = NoFiles]
  /\ rotPc' = "make"
  /\ UNCHANGED <<rotKind, rotDay, moving>>

RenameDir ==
  /\ rotPc = "exists" /\ Exists(Current) /\ ~Exists(today)
  /\ dirs' = [dirs EXCEPT ![rotKind] = (@ \ {Current}) \cup {today}]
  /\ files' = [files EXCEPT ![rotKind][today] = files[rotKind][Current],
                            ![rotKind][Current] = NoFiles]
  /\ rotPc' = "make"
  /\ UNCHANGED <<rotKind, rotDay, moving>>

MakeDir ==
  /\ rotPc = "make" \/ (rotPc = "exists" /\ ~Exists(Current))
  /\ dirs' = [dirs EXCEPT ![rotKind] = @ \cup {Current}]
  /\ NextKind
  /\ UNCHANGED <<files, rotDay, moving>>

ListDir ==
  /\ rotPc = "exists" /\ Exists(Current) /\ Exists(today)
  /\ rotDay' = today
  /\ moving' = {v \in Videos : files[rotKind][Current][v] # "none"}
  /\ rotPc' = "move"
  /\ UNCHANGED <<dumpVars, rotKind>>

MoveFile ==
  /\ rotPc = "move"
  /\ \E v \in moving :
       /\ files' = [files EXCEPT ![rotKind][rotDay][v] = files[rotKind][Current][v],
                                 ![rotKind][Current][v] = "none"]
       /\ moving' = moving \ {v}
  /\ UNCHANGED <<dirs, rotPc, rotKind, rotDay>>

MoveDone == /\ rotPc = "move" /\ moving = {}
            /\ NextKind
            /\ UNCHANGED <<dumpVars, rotDay, moving>>

CreateEmptyDirs == RenameDir \/ MakeDir \/ ListDir \/ MoveFile \/ MoveDone
=============================================================================
