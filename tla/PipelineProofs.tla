--------------------------- MODULE PipelineProofs ---------------------------
(***************************************************************************)
(* The pipeline, for every set of videos, every number of days, rotations, *)
(* crashes and converter runs: its type, that no log is lost but to a      *)
(* crash, that the codes of the items hold, that nothing saved vanishes,   *)
(* that page and subtitles stay together, and that a fetch makes one item. *)
(***************************************************************************)
EXTENDS Pipeline, FiniteSetTheorems, TLAPS

-----------------------------------------------------------------------------
(* The suffixes of the log.  rotateLog goes from 0 to 1, ..., 9, 10, ...,  *)
(* 19, 110, ...: the last digit runs, and what is in front of it is 0, 1,  *)
(* 11, 111 and so on, the numbers of the smallest set that has 0 and with  *)
(* a number q also 10 * q + 1.                                             *)

Fronts == {q \in Nat : \A S \in SUBSET Nat :
                         0 \in S /\ (\A s \in S : 10 * s + 1 \in S) => q \in S}

LogSuffixes == {n \in Nat : n \div 10 \in Fronts}

LEMMA FrontsGrow ==
  /\ 0 \in Fronts
  /\ \A q \in Fronts : 10 * q + 1 \in Fronts
<1>1. 0 \in Fronts
  BY DEF Fronts
<1>2. ASSUME NEW q \in Fronts PROVE 10 * q + 1 \in Fronts
  <2>1. q \in Nat /\ 10 * q + 1 \in Nat
    BY DEF Fronts
  <2>2. ASSUME NEW S \in SUBSET Nat, 0 \in S, \A s \in S : 10 * s + 1 \in S
        PROVE  10 * q + 1 \in S
    BY <2>2 DEF Fronts
  <2> QED
    BY <2>1, <2>2 DEF Fronts
<1> QED
  BY <1>1, <1>2

\* What holds of 0 and goes from q to 10 * q + 1 holds of all fronts.
LEMMA FrontsLeast ==
  ASSUME NEW S \in SUBSET Nat, 0 \in S, \A s \in S : 10 * s + 1 \in S
  PROVE  Fronts \subseteq S
BY DEF Fronts

LEMMA FrontsSpread ==
  \A p, q \in Fronts : p < q => 10 * p + 1 <= q
<1> DEFINE Grown == {q \in Fronts : q = 0 \/ \E r \in Fronts : q = 10 * r + 1}
           Spread == {q \in Fronts : \A p \in Fronts : p < q => 10 * p + 1 <= q}
<1>1. Fronts \subseteq Nat
  BY DEF Fronts
<1>2. Fronts \subseteq Grown
  <2>1. Grown \in SUBSET Nat /\ 0 \in Grown
    BY <1>1, FrontsGrow
  <2>2. \A s \in Grown : 10 * s + 1 \in Grown
    BY FrontsGrow
  <2> HIDE DEF Grown
  <2> QED
    BY <2>1, <2>2, FrontsLeast
<1>3. Fronts \subseteq Spread
  <2>1. Spread \in SUBSET Nat
    BY <1>1
  <2>2. 0 \in Spread
    BY <1>1, FrontsGrow
  <2>3. ASSUME NEW q \in Spread PROVE 10 * q + 1 \in Spread
    <3>1. q \in Nat /\ 10 * q + 1 \in Fronts
      BY <1>1, FrontsGrow
    <3>2. ASSUME NEW p \in Fronts, p < 10 * q + 1 PROVE 10 * p + 1 <= 10 * q + 1
      <4>1. p \in Nat
        BY <1>1
      <4>2. CASE p = 0
        BY <3>1, <4>2
      <4>3. CASE p # 0
        <5>1. PICK r \in Fronts : p = 10 * r + 1
          BY <1>2, <4>3
        <5>2. r \in Nat /\ r < q
          BY <1>1, <3>1, <3>2, <5>1
        <5>3. 10 * r + 1 <= q
          BY <5>2
        <5> QED
          BY <3>1, <4>1, <5>1, <5>3
      <4> QED
        BY <4>2, <4>3
    <3> QED
      BY <3>1, <3>2
  <2> HIDE DEF Spread
  <2> QED
    BY <2>1, <2>2, <2>3, FrontsLeast
<1> QED
  BY <1>3

\* The next suffix is a higher one, and no suffix lies between the two.
LEMMA BumpAscends ==
  /\ 0 \in LogSuffixes
  /\ \A n \in LogSuffixes : n \in Nat /\ Bump(n) \in LogSuffixes /\ Bump(n) > n
  /\ \A s, t \in LogSuffixes : s < t => Bump(s) <= t
<1>1. 0 \in LogSuffixes
  BY FrontsGrow DEF LogSuffixes
<1>2. \A n \in Nat : /\ n - 10 * (n \div 10) = n % 10
                     /\ n % 10 \in 0 .. 9 /\ n \div 10 \in Nat
  <2> SUFFICES ASSUME NEW n \in Nat
               PROVE  /\ n - 10 * (n \div 10) = n % 10
                      /\ n % 10 \in 0 .. 9 /\ n \div 10 \in Nat
    OBVIOUS
  <2>1. n % 10 \in 0 .. 9
    OBVIOUS
  <2>2. n \div 10 \in Nat
    OBVIOUS
  <2>3. n - 10 * (n \div 10) = n % 10
    OBVIOUS
  <2> QED
    BY <2>1, <2>2, <2>3
<1>3. ASSUME NEW n \in LogSuffixes PROVE n \in Nat /\ Bump(n) \in LogSuffixes /\ Bump(n) > n
  <2>1. n \in Nat /\ n \div 10 \in Fronts
    BY DEF LogSuffixes
  <2>2. CASE n % 10 = 9
    <3> DEFINE q == n \div 10
    <3>1. q \in Nat /\ n = 10 * q + 9 /\ Bump(n) = 100 * q + 10
      BY <1>2, <2>1, <2>2 DEF Bump
    <3>2. 10 * q + 1 \in Fronts
      BY <2>1, FrontsGrow
    <3> HIDE DEF q
    <3>3. (100 * q + 10) \div 10 = 10 * q + 1
      BY <3>1
    <3> QED
      BY <3>1, <3>2, <3>3 DEF LogSuffixes
  <2>3. CASE n % 10 # 9
    <3>1. Bump(n) = n + 1
      BY <2>3 DEF Bump
    <3>2. (n + 1) \div 10 = n \div 10
      BY <2>1, <2>3
    <3> QED
      BY <2>1, <3>1, <3>2 DEF LogSuffixes
  <2> QED
    BY <2>2, <2>3
<1>4. ASSUME NEW s \in LogSuffixes, NEW t \in LogSuffixes, s < t PROVE Bump(s) <= t
  <2> DEFINE p == s \div 10
             q == t \div 10
             a == s % 10
             b == t % 10
  <2>1. s \in Nat /\ t \in Nat /\ p \in Fronts /\ q \in Fronts
    BY DEF LogSuffixes
  <2>2. /\ p \in Nat /\ q \in Nat /\ s - 10 * p = a /\ t - 10 * q = b
        /\ a \in 0 .. 9 /\ b \in 0 .. 9
    BY <1>2, <2>1
  <2>3. Bump(s) = IF a = 9 THEN 100 * p + 10 ELSE s + 1
    BY DEF Bump
  <2>4. p < q => 10 * p + 1 <= q
    BY <2>1, FrontsSpread
  <2> HIDE DEF p, q, a, b
  <2>7. s = 10 * p + a /\ t = 10 * q + b
    BY <2>1, <2>2
  <2>5. CASE a = 9
    <3>1. p < q
      BY <1>4, <2>2, <2>5, <2>7
    <3> QED
      BY <2>2, <2>3, <2>4, <2>5, <2>7, <3>1
  <2>6. CASE a # 9
    BY <1>4, <2>1, <2>3, <2>6
  <2> QED
    BY <2>5, <2>6
<1> QED
  BY <1>1, <1>3, <1>4

-----------------------------------------------------------------------------
(* The type, taken apart by who writes it: the spider's dumps, the files,  *)
(* the converter, the log, and the rest.                                   *)

DumpsType ==
  /\ today \in Days
  /\ dirs \in [Kinds -> SUBSET Places]
  /\ saving \in [Videos -> {"no", "page", "between", "subs"}]
  /\ rotPc \in {"idle", "exists", "make", "move"} /\ rotKind \in Kinds
  /\ rotDay \in Days /\ moving \subseteq Videos

FilesType == files \in [Kinds -> [Places -> [Videos -> {"none", "torn", "whole"}]]]

\* A video whose subtitles are looked for has its quality registered, so that its item
\* has a code.
ConverterType ==
  /\ cPc \in {"off", "dirs", "files", "subs", "saved", "unlink", "unlinkSub", "dump", "close"}
  /\ dirs_sfx \subseteq Days /\ uids \subseteq Videos /\ sfx \in Days /\ uid \in Videos
  /\ info_map \in Codes /\ mapping_file \in Codes /\ mapping_torn \in BOOLEAN
  /\ buffer \in Seq(Items) /\ out \in Seq([items : Seq(Items), ended : BOOLEAN])
  /\ cPc # "off" => out # <<>>
  /\ cPc = "off" => buffer = <<>>
  /\ cPc = "subs" => \E i \in DOMAIN info_map : info_map[i] = quality[uid]

\* A spider that is up has its log open.  The active calls of rotateLog are for files
\* that are there, ascending down to the .0 of rotateLogs, and the suffixes are in the
\* order of age.
LogType ==
  /\ log_file \in Nat /\ last_gen \in Nat /\ log_file \in {0, last_gen}
  /\ calls \in Seq(Nat)
  /\ DOMAIN old_logs \subseteq LogSuffixes /\ \A s \in DOMAIN old_logs : old_logs[s] \in 1 .. last_gen
  /\ \A i \in DOMAIN calls : calls[i] \in DOMAIN old_logs
  /\ \A i, j \in DOMAIN calls : i < j => calls[j] < calls[i]
  /\ calls # <<>> => calls[Len(calls)] = 0
  /\ \A s, t \in DOMAIN old_logs : s < t => old_logs[t] < old_logs[s]
  /\ log_file # 0 => \A s \in DOMAIN old_logs : old_logs[s] < log_file
  /\ spider = "up" => log_file # 0
  /\ spider # "logs" => calls = <<>>

ProcessType ==
  /\ spider \in {"down", "up", "logs"} /\ known \subseteq Videos
  /\ fetches \in [Videos -> Nat] /\ torn \subseteq Videos /\ split \subseteq Videos
  /\ happened \in [Events -> Nat]

TypeInv == DumpsType /\ FilesType /\ ConverterType /\ LogType /\ ProcessType

LEMMA TypeParts == TypeInv => TypeOK
BY BumpAscends DEF TypeInv, TypeOK, DumpsType, FilesType, ConverterType, LogType, ProcessType

LEMMA DayFacts == 1 \in Days /\ Days \subseteq Places /\ Current \in Places /\ Kinds = {"pages", "subs"}
BY LastDayAssumption DEF Days, Places, Current, Kinds

LEMMA SpendType ==
  ASSUME happened \in [Events -> Nat], NEW e \in Events, Spend(e)
  PROVE  happened' \in [Events -> Nat]
BY DEF Spend

LEMMA InitTypeInv == Init => TypeInv
<1> SUFFICES ASSUME Init PROVE TypeInv
  OBVIOUS
<1>1. DumpsType /\ FilesType
  BY DayFacts DEF Init, DumpsInit, DumpsType, FilesType, NoFiles
<1>2. ConverterType
  <2>1. <<>> \in Codes /\ <<>> \in Seq(Items) /\ <<>> \in Seq([items : Seq(Items), ended : BOOLEAN])
    BY DEF Codes
  <2> QED
    BY <2>1, DayFacts DEF Init, ConverterInit, ConverterType
<1>3. LogType
  <2>1. DOMAIN <<>> = {} /\ <<>> \in Seq(Nat)
    OBVIOUS
  <2> QED
    BY <2>1 DEF Init, LogInit, LogType
<1>4. ProcessType
  BY DEF Init, ProcessType
<1> QED
  BY <1>1, <1>2, <1>3, <1>4 DEF TypeInv

LEMMA FileType ==
  ASSUME NEW f \in [Kinds -> [Places -> [Videos -> {"none", "torn", "whole"}]]],
         NEW k \in Kinds, NEW p \in Places, NEW v \in Videos, NEW c \in {"none", "torn", "whole"}
  PROVE  [f EXCEPT ![k][p][v] = c] \in [Kinds -> [Places -> [Videos -> {"none", "torn", "whole"}]]]
OBVIOUS

LEMMA PutType ==
  ASSUME FilesType, NEW k \in Kinds, NEW p \in Places, NEW v \in Videos,
         NEW c \in {"none", "torn", "whole"}, Put(k, p, v, c)
  PROVE  FilesType'
BY FileType DEF FilesType, Put

LEMMA SavingType ==
  ASSUME DumpsType, FilesType, NEW v \in Videos, SaveBegin(v) \/ SaveStep(v),
         UNCHANGED <<today, dirs, rotVars>>
  PROVE  DumpsType' /\ FilesType'
<1>1. FilesType'
  BY DayFacts, PutType DEF SaveBegin, SaveStep
<1>2. \E where \in {"no", "page", "between", "subs"} : saving' = [saving EXCEPT ![v] = where]
  BY DEF SaveBegin, SaveStep
<1> QED
  BY <1>1, <1>2 DEF DumpsType, rotVars

LEMMA CreateType ==
  ASSUME DumpsType, FilesType, CreateEmptyDirs, UNCHANGED <<today, saving>>
  PROVE  DumpsType' /\ FilesType'
<1> USE DEF DumpsType, FilesType
<1>1. /\ \A k \in Kinds, p, q \in Places :
             /\ files[k][p] \in [Videos -> {"none", "torn", "whole"}]
             /\ (dirs[k] \ {p}) \cup {q} \in SUBSET Places
             /\ dirs[k] \cup {p} \in SUBSET Places
      /\ NoFiles \in [Videos -> {"none", "torn", "whole"}]
      /\ today \in Places
  BY DayFacts DEF NoFiles
<1>2. CASE RenameDir
  <2>1. dirs' \in [Kinds -> SUBSET Places]
    BY <1>1, <1>2, DayFacts DEF RenameDir
  <2>2. files' \in [Kinds -> [Places -> [Videos -> {"none", "torn", "whole"}]]]
    BY <1>1, <1>2, DayFacts DEF RenameDir
  <2> QED
    BY <1>2, <2>1, <2>2 DEF RenameDir
<1>3. CASE MakeDir
  <2>1. dirs' \in [Kinds -> SUBSET Places]
    BY <1>1, <1>3, DayFacts DEF MakeDir
  <2> QED
    BY <1>3, <2>1, DayFacts DEF MakeDir, NextKind
<1>4. CASE ListDir
  BY <1>4 DEF ListDir, dumpVars
<1>5. CASE MoveFile
  <2>1. PICK v \in moving :
          /\ files' = [files EXCEPT ![rotKind][rotDay][v] = files[rotKind][Current][v],
                                    ![rotKind][Current][v] = "none"]
          /\ moving' = moving \ {v}
    BY <1>5 DEF MoveFile
  <2> DEFINE copied == [files EXCEPT ![rotKind][rotDay][v] = files[rotKind][Current][v]]
  <2>2. copied \in [Kinds -> [Places -> [Videos -> {"none", "torn", "whole"}]]]
    BY <1>1, <2>1, DayFacts
  <2>3. files' = [copied EXCEPT ![rotKind][Current][v] = "none"]
    BY <2>1
  <2> HIDE DEF copied
  <2>4. files' \in [Kinds -> [Places -> [Videos -> {"none", "torn", "whole"}]]]
    <3>1. rotKind \in Kinds /\ Current \in Places /\ v \in Videos
      BY DayFacts
    <3> QED
      BY <2>2, <2>3, <3>1, FileType
  <2> QED
    BY <1>5, <2>1, <2>4 DEF MoveFile
<1>6. CASE MoveDone
  BY <1>6, DayFacts DEF MoveDone, NextKind, dumpVars
<1> QED
  BY <1>2, <1>3, <1>4, <1>5, <1>6 DEF CreateEmptyDirs

FileRecords == [items : Seq(Items), ended : BOOLEAN]

\* What the converter does to its output files keeps them output files, and there is
\* always one while it runs.
LEMMA OutFacts ==
  ASSUME NEW o \in Seq(FileRecords), NEW b \in Seq(Items)
  PROVE  /\ NewFile \in FileRecords
         /\ o # <<>> => /\ [o EXCEPT ![Len(o)] = [items |-> @.items \o b, ended |-> TRUE]]
                             \in Seq(FileRecords) \ {<<>>}
                        /\ [o EXCEPT ![Len(o)].items = @ \o b] \in Seq(FileRecords) \ {<<>>}
                        /\ [o EXCEPT ![Len(o)] = NewFile] \in Seq(FileRecords) \ {<<>>}
         /\ Append(o, NewFile) \in Seq(FileRecords) \ {<<>>}
<1>1. NewFile \in FileRecords
  BY DEF NewFile, FileRecords
<1>2. Append(o, NewFile) \in Seq(FileRecords) \ {<<>>}
  BY <1>1
<1>3. ASSUME NEW r \in FileRecords, o # <<>>
      PROVE  [o EXCEPT ![Len(o)] = r] \in Seq(FileRecords) \ {<<>>}
  BY <1>3
<1>4. ASSUME o # <<>>
      PROVE  /\ [o EXCEPT ![Len(o)] = [items |-> @.items \o b, ended |-> TRUE]]
                  \in Seq(FileRecords) \ {<<>>}
             /\ [o EXCEPT ![Len(o)].items = @ \o b] \in Seq(FileRecords) \ {<<>>}
  <2> DEFINE r == o[Len(o)]
             closed == [items |-> r.items \o b, ended |-> TRUE]
             longer == [r EXCEPT !.items = @ \o b]
  <2>1. r \in FileRecords
    BY <1>4
  <2>2. r.items \o b \in Seq(Items)
    BY <2>1 DEF FileRecords
  <2>3. closed \in FileRecords /\ longer \in FileRecords
    BY <2>1, <2>2 DEF FileRecords
  <2>4. /\ [o EXCEPT ![Len(o)] = closed] \in Seq(FileRecords) \ {<<>>}
        /\ [o EXCEPT ![Len(o)] = longer] \in Seq(FileRecords) \ {<<>>}
    <3> HIDE DEF closed, longer, r
    <3> QED
      BY <1>3, <1>4, <2>3
  <2> QED
    BY <2>4
<1> QED
  BY <1>1, <1>2, <1>3, <1>4

\* The quality of a video is registered under the same code for good.
LEMMA RegisteredFacts ==
  ASSUME NEW v \in Videos, info_map \in Codes
  PROVE  /\ Registered(quality[v]) \in Codes
         /\ \E i \in DOMAIN Registered(quality[v]) : Registered(quality[v])[i] = quality[v]
         /\ \A i \in DOMAIN info_map : /\ i \in DOMAIN Registered(quality[v])
                                       /\ Registered(quality[v])[i] = info_map[i]
<1> DEFINE Q == {quality[w] : w \in Videos}
           q == quality[v]
<1>1. q \in Q /\ info_map \in Seq(Q)
  BY DEF Codes
<1>2. Codes = Seq(Q)
  BY DEF Codes
<1> HIDE DEF Q, q
<1>3. CASE Contains(info_map, q)
  <2>1. \E i \in DOMAIN info_map : info_map[i] = q
    BY <1>1, <1>3 DEF Contains
  <2>2. Registered(q) = info_map
    BY <1>3 DEF Registered
  <2> QED
    BY <1>1, <1>2, <2>1, <2>2 DEF q
<1>4. CASE ~Contains(info_map, q)
  <2>1. Registered(q) = Append(info_map, q)
    BY <1>4 DEF Registered
  <2>2. /\ Append(info_map, q) \in Seq(Q)
        /\ Len(info_map) + 1 \in DOMAIN Append(info_map, q)
        /\ Append(info_map, q)[Len(info_map) + 1] = q
        /\ \A i \in DOMAIN info_map : /\ i \in DOMAIN Append(info_map, q)
                                      /\ Append(info_map, q)[i] = info_map[i]
    BY <1>1
  <2> QED
    BY <1>2, <2>1, <2>2 DEF q
<1> QED
  BY <1>3, <1>4

LEMMA OpenedType ==
  ASSUME NEW o \in Seq(FileRecords), NEW b \in BOOLEAN, b => o # <<>>
  PROVE  Opened(o, b) \in Seq(FileRecords) \ {<<>>}
<1>1. <<>> \in Seq(Items)
  OBVIOUS
<1>2. CASE b
  BY <1>1, <1>2, OutFacts DEF Opened
<1>3. CASE ~b
  BY <1>1, <1>3, OutFacts DEF Opened
<1> QED
  BY <1>2, <1>3

\* The converter's own steps, whatever pays for them.
GoesOn == \/ \E sameSecond \in BOOLEAN : Start(sameSecond) \/ OpenNewFile(sameSecond)
          \/ Convert \/ RunRaises

ConverterStep == GoesOn \/ Kill

LEMMA ConvertingStep ==
  ASSUME Converting
  PROVE  ConverterStep /\ (GoesOn \/ Spend("kill")) /\ UNCHANGED BesideConverter
BY DEF Converting, ConverterStep, GoesOn, ConvertStart, NextFile

LEMMA UnlinkType ==
  ASSUME ConverterType, NEW next, next \in {"unlinkSub", "files"}, NEW k \in Kinds, Unlink(k, next),
         cPc \in {"saved", "unlink", "unlinkSub"}
  PROVE  ConverterType'
<1>1. cPc' \in {"files", "unlinkSub"}
  BY DEF Unlink
<1> QED
  BY <1>1 DEF ConverterType, Unlink, readVars

LEMMA ConverterKeepsType ==
  ASSUME ConverterType, DumpsType, ConverterStep
  PROVE  ConverterType'
<1>1. out \in Seq(FileRecords) /\ buffer \in Seq(Items) /\ <<>> \in Seq(Items)
  BY DEF ConverterType, FileRecords
<1> USE DEF ConverterType, readVars
<1>2. ASSUME NEW b \in BOOLEAN, Start(b) PROVE ConverterType'
  <2>1. out' \in Seq(FileRecords) \ {<<>>}
    BY <1>1, <1>2, OpenedType DEF Start, CanOpen
  <2>2. dirs_sfx' \subseteq Days
    BY <1>2, DayFacts DEF Start, DumpsType, Places
  <2> QED
    BY <1>2, <2>1, <2>2 DEF Start, FileRecords
<1>3. ASSUME NEW b \in BOOLEAN, OpenNewFile(b) PROVE ConverterType'
  <2>1. Ended(out) \in Seq(FileRecords) \ {<<>>}
    BY <1>1, <1>3, OutFacts DEF Ended, OpenNewFile
  <2>2. out' \in Seq(FileRecords) \ {<<>>}
    BY <1>3, <2>1, OpenedType DEF OpenNewFile
  <2> QED
    BY <1>1, <1>3, <2>2 DEF OpenNewFile, FileRecords
<1>4. CASE NextDir
  BY <1>4 DEF NextDir
<1>5. CASE ReadPage
  <2>1. PICK v \in uids :
          /\ uids' = uids \ {v}
          /\ uid' = v
          /\ \/ cPc' = "subs" /\ info_map' = Registered(quality[v])
             \/ cPc' = "files" /\ info_map' \in {info_map, Registered(quality[v])}
    BY <1>5 DEF ReadPage
  <2>2. v \in Videos
    OBVIOUS
  <2>3. /\ Registered(quality[v]) \in Codes
        /\ \E i \in DOMAIN Registered(quality[v]) : Registered(quality[v])[i] = quality[v]
    BY <2>2, RegisteredFacts
  <2>4. info_map' \in Codes
    BY <2>1, <2>3
  <2>5. cPc' = "subs" => \E i \in DOMAIN info_map' : info_map'[i] = quality[uid']
    BY <2>1, <2>3
  <2> QED
    BY <1>5, <2>1, <2>2, <2>4, <2>5 DEF ReadPage
<1>6. CASE NoSubtitles
  BY <1>6 DEF NoSubtitles
<1>7. CASE Save
  <2>1. \A i \in DOMAIN info_map : i \in Nat \ {0}
    BY DEF Codes
  <2>2. (CHOOSE i \in DOMAIN info_map : info_map[i] = quality[uid]) \in Nat \ {0}
    BY <1>7, <2>1 DEF Save
  <2>3. \A c \in BOOLEAN : ItemOf(uid, c) \in Items
    BY <2>2 DEF ItemOf, Items
  <2>5. PICK c \in BOOLEAN : buffer' = Append(buffer, ItemOf(uid, c))
    <3>1. (files["subs"][sfx][uid] = "whole") \in BOOLEAN
      OBVIOUS
    <3> QED
      BY <1>7, <3>1, Zenon DEF Save
  <2>4. buffer' \in Seq(Items)
    BY <1>1, <2>3, <2>5
  <2> QED
    BY <1>7, <2>4 DEF Save
<1>8. CASE UnlinkPage \/ UnlinkSub
  BY <1>8, UnlinkType, DayFacts DEF UnlinkPage, UnlinkSub
<1>9. CASE DirDone
  BY <1>9 DEF DirDone
<1>10. CASE WriteBuffer
  <2>1. out' \in Seq(FileRecords) \ {<<>>}
    BY <1>1, <1>10, OutFacts DEF WriteBuffer
  <2> QED
    BY <1>1, <1>10, <2>1 DEF WriteBuffer, FileRecords
<1>11. CASE RunDone \/ RunRaises
  BY <1>11 DEF RunDone, RunRaises, TruncateMapping
<1>12. CASE DumpMapping
  BY <1>12 DEF DumpMapping
<1>13. CASE Close
  <2>1. out' \in Seq(FileRecords) \ {<<>>}
    BY <1>1, <1>13, OutFacts DEF Close, Ended
  <2> QED
    BY <1>1, <1>13, <2>1 DEF Close, FileRecords
<1>14. CASE Kill
  BY <1>1, <1>14 DEF Kill
<1> QED
  BY <1>2, <1>3, <1>4, <1>5, <1>6, <1>7, <1>8, <1>9, <1>10, <1>11, <1>12, <1>13, <1>14
     DEF ConverterStep, GoesOn, Convert

LEMMA ConverterKeepsFiles ==
  ASSUME ConverterType, FilesType, ConverterStep
  PROVE  FilesType'
<1>1. UNCHANGED files => FilesType'
  BY DEF FilesType
<1>2. ASSUME NEW k \in Kinds, NEW next, Unlink(k, next) PROVE FilesType'
  <2>1. files' = [files EXCEPT ![k][sfx][uid] = "none"] /\ sfx \in Places /\ uid \in Videos
    BY <1>2, DayFacts DEF Unlink, ConverterType
  <2> QED
    BY <2>1, FileType DEF FilesType
<1>3. CASE UnlinkPage \/ UnlinkSub
  BY <1>2, <1>3, DayFacts DEF UnlinkPage, UnlinkSub
<1>4. CASE ~(UnlinkPage \/ UnlinkSub)
  BY <1>1, <1>4 DEF ConverterStep, GoesOn, Convert, Start, OpenNewFile, NextDir, ReadPage, NoSubtitles, Save,
                    DirDone, WriteBuffer, RunDone, RunRaises, TruncateMapping, DumpMapping, Close, Kill
<1> QED
  BY <1>3, <1>4

-----------------------------------------------------------------------------
LEMMA PushFacts ==
  ASSUME NEW q \in Seq(Nat), NEW x \in Nat
  PROVE  /\ <<x>> \o q \in Seq(Nat) \ {<<>>} /\ Len(<<x>> \o q) = Len(q) + 1
         /\ \A i \in DOMAIN (<<x>> \o q) :
               /\ i \in Nat
               /\ \/ i = 1 /\ (<<x>> \o q)[i] = x
                  \/ i - 1 \in DOMAIN q /\ (<<x>> \o q)[i] = q[i - 1]
<1>1. /\ <<x>> \o q \in Seq(Nat) /\ Len(<<x>> \o q) = Len(q) + 1
      /\ DOMAIN (<<x>> \o q) = 1 .. Len(q) + 1 /\ DOMAIN q = 1 .. Len(q) /\ Len(q) \in Nat
  OBVIOUS
<1>2. ASSUME NEW i \in DOMAIN (<<x>> \o q)
      PROVE  \/ i = 1 /\ (<<x>> \o q)[i] = x
             \/ i - 1 \in DOMAIN q /\ (<<x>> \o q)[i] = q[i - 1]
  <2>1. CASE i = 1
    BY <2>1
  <2>2. CASE i # 1
    BY <1>1, <2>2
  <2> QED
    BY <2>1, <2>2
<1>3. <<x>> \o q # <<>>
  BY <1>1
<1> QED
  BY <1>1, <1>2, <1>3

LEMMA PopFacts ==
  ASSUME NEW q \in Seq(Nat), q # <<>>
  PROVE  /\ Tail(q) \in Seq(Nat) /\ Len(q) \in Nat \ {0} /\ Len(Tail(q)) = Len(q) - 1
         /\ 1 \in DOMAIN q /\ Head(q) = q[1] /\ Len(q) \in DOMAIN q
         /\ \A i \in DOMAIN Tail(q) : /\ i \in Nat \ {0} /\ i + 1 \in DOMAIN q
                                      /\ Tail(q)[i] = q[i + 1]
<1>1. Len(q) \in Nat \ {0} /\ DOMAIN q = 1 .. Len(q)
  OBVIOUS
<1>2. DOMAIN Tail(q) = 1 .. Len(q) - 1 /\ Tail(q) \in Seq(Nat) /\ Len(Tail(q)) = Len(q) - 1
  BY <1>1
<1> QED
  BY <1>1, <1>2

\* A new call, for the file that is in the way.
LEMMA RotateNextType ==
  ASSUME LogType, RotateNext, UNCHANGED spider
  PROVE  LogType'
<1> DEFINE q == calls
           x == new_log_file
           p == <<x>> \o q
<1>1. /\ q \in Seq(Nat) /\ q # <<>> /\ x \in DOMAIN old_logs /\ calls' = p
      /\ UNCHANGED <<log_file, old_logs, last_gen>>
  BY DEF LogType, RotateNext, rotating
<1>2. x \in Nat /\ Head(q) \in LogSuffixes /\ x > Head(q) /\ Head(q) = q[1] /\ Len(q) \in Nat \ {0}
  <2>1. Head(q) = q[1] /\ 1 \in DOMAIN q /\ Len(q) \in Nat \ {0}
    BY <1>1, PopFacts
  <2>2. Head(q) \in LogSuffixes
    BY <1>1, <2>1 DEF LogType
  <2> QED
    BY <2>1, <2>2, BumpAscends DEF new_log_file
<1>3. /\ p \in Seq(Nat) \ {<<>>} /\ Len(p) = Len(q) + 1
      /\ \A i \in DOMAIN p : /\ i \in Nat
                             /\ (i = 1 /\ p[i] = x) \/ (i - 1 \in DOMAIN q /\ p[i] = q[i - 1])
  <2> HIDE DEF q, x
  <2> QED
    BY <1>1, <1>2, PushFacts
<1>4. /\ \A i \in DOMAIN q : q[i] \in DOMAIN old_logs /\ q[i] \in Nat /\ i \in Nat \ {0}
      /\ \A i, j \in DOMAIN q : i < j => q[j] < q[i]
      /\ q[Len(q)] = 0
  BY <1>1 DEF LogType
<1> HIDE DEF p, x, q
<1>5. \A i \in DOMAIN p : p[i] \in DOMAIN old_logs
  BY <1>1, <1>3, <1>4
<1>6. \A j \in DOMAIN q : q[j] < x
  <2> TAKE j \in DOMAIN q
  <2>1. q[j] <= q[1] /\ q[j] \in Nat /\ q[1] \in Nat
    <3>1. 1 \in DOMAIN q /\ (1 < j \/ 1 = j)
      BY <1>1, <1>4, PopFacts
    <3> QED
      BY <1>4, <3>1
  <2> QED
    BY <1>2, <2>1
<1>7. \A i, j \in DOMAIN p : i < j => p[j] < p[i]
  <2> SUFFICES ASSUME NEW i \in DOMAIN p, NEW j \in DOMAIN p, i < j PROVE p[j] < p[i]
    OBVIOUS
  <2>1. i \in Nat /\ j \in Nat /\ j # 1 /\ j - 1 \in DOMAIN q /\ p[j] = q[j - 1]
    BY <1>3, <1>4
  <2>2. CASE i = 1 /\ p[i] = x
    BY <1>6, <2>1, <2>2
  <2>3. CASE i - 1 \in DOMAIN q /\ p[i] = q[i - 1]
    BY <1>4, <2>1, <2>3
  <2> QED
    BY <1>3, <2>2, <2>3
<1>8. p[Len(p)] = 0
  <2>1. Len(p) \in DOMAIN p /\ Len(p) # 1 /\ Len(p) - 1 = Len(q)
    BY <1>2, <1>3
  <2> QED
    BY <1>3, <1>4, <2>1
<1>9. spider # "logs" => calls = <<>>
  BY DEF LogType
<1>10. spider = "logs"
  BY <1>1, <1>9 DEF q
<1> QED
  BY <1>1, <1>3, <1>5, <1>7, <1>8, <1>10 DEF LogType

\* The innermost file gets the next suffix, which no file has; nor is there one between.
LEMMA RenameType ==
  ASSUME LogType, Rename, UNCHANGED spider
  PROVE  LogType'
<1> DEFINE h == Head(calls)
           x == new_log_file
<1>1. /\ calls \in Seq(Nat) /\ calls # <<>> /\ x \notin DOMAIN old_logs /\ calls' = Tail(calls)
      /\ DOMAIN old_logs' = (DOMAIN old_logs \ {h}) \cup {x}
      /\ \A s \in DOMAIN old_logs' : old_logs'[s] = IF s = x THEN old_logs[h] ELSE old_logs[s]
      /\ UNCHANGED <<log_file, last_gen>>
  BY DEF LogType, Rename, rotating
<1>2. /\ Tail(calls) \in Seq(Nat) /\ Len(calls) \in Nat \ {0} /\ Len(Tail(calls)) = Len(calls) - 1
      /\ 1 \in DOMAIN calls /\ h = calls[1] /\ Len(calls) \in DOMAIN calls
      /\ \A i \in DOMAIN Tail(calls) : /\ i \in Nat \ {0} /\ i + 1 \in DOMAIN calls
                                       /\ Tail(calls)[i] = calls[i + 1]
  BY <1>1, PopFacts
<1>3. /\ DOMAIN old_logs \subseteq LogSuffixes /\ \A s \in DOMAIN old_logs : old_logs[s] \in 1 .. last_gen
      /\ \A i \in DOMAIN calls : calls[i] \in DOMAIN old_logs
      /\ \A i, j \in DOMAIN calls : i < j => calls[j] < calls[i]
      /\ calls[Len(calls)] = 0
      /\ \A s, t \in DOMAIN old_logs : s < t => old_logs[t] < old_logs[s]
      /\ log_file # 0 => \A s \in DOMAIN old_logs : old_logs[s] < log_file
  BY <1>1 DEF LogType
<1>4. /\ h \in DOMAIN old_logs /\ h \in LogSuffixes /\ h \in Nat
      /\ x \in LogSuffixes /\ x \in Nat /\ h < x
      /\ \A t \in DOMAIN old_logs : h < t => x < t
  <2>1. h \in DOMAIN old_logs /\ h \in LogSuffixes
    BY <1>2, <1>3
  <2>2. x = Bump(h)
    BY DEF new_log_file
  <2>3. h \in Nat /\ x \in LogSuffixes /\ x > h /\ x \in Nat
    BY <2>1, <2>2, BumpAscends
  <2>4. ASSUME NEW t \in DOMAIN old_logs, h < t PROVE x < t
    <3>1. t \in LogSuffixes /\ t \in Nat /\ x <= t
      BY <1>3, <2>1, <2>2, <2>4, BumpAscends
    <3>2. x # t
      BY <1>1
    <3> HIDE DEF x
    <3> QED
      BY <2>3, <3>1, <3>2
  <2> HIDE DEF x, h
  <2> QED
    BY <2>1, <2>3, <2>4
<1>5. DOMAIN old_logs \subseteq Nat
  BY <1>3, BumpAscends
<1>6. spider = "logs"
  BY <1>1 DEF LogType
<1> HIDE DEF h, x
<1>7. DOMAIN old_logs' \subseteq LogSuffixes
  BY <1>1, <1>3, <1>4
<1>8. \A s \in DOMAIN old_logs' : /\ old_logs'[s] \in 1 .. last_gen
                                  /\ log_file # 0 => old_logs'[s] < log_file
  BY <1>1, <1>3, <1>4
<1>9. \A i \in DOMAIN Tail(calls) : Tail(calls)[i] \in DOMAIN old_logs'
  <2> TAKE i \in DOMAIN Tail(calls)
  <2> DEFINE c == Tail(calls)[i]
  <2>1. i + 1 \in DOMAIN calls /\ 1 < i + 1 /\ c = calls[i + 1]
    BY <1>2
  <2>2. c \in DOMAIN old_logs /\ c < h
    BY <1>2, <1>3, <2>1
  <2>3. c # h
    BY <1>4, <1>5, <2>2
  <2> QED
    BY <1>1, <2>2, <2>3
<1>10. \A i, j \in DOMAIN Tail(calls) : i < j => Tail(calls)[j] < Tail(calls)[i]
  <2> TAKE i, j \in DOMAIN Tail(calls)
  <2>1. /\ i \in Nat /\ j \in Nat /\ i + 1 \in DOMAIN calls /\ j + 1 \in DOMAIN calls
        /\ Tail(calls)[i] = calls[i + 1] /\ Tail(calls)[j] = calls[j + 1]
    BY <1>2
  <2>2. i < j => i + 1 < j + 1
    BY <2>1
  <2> QED
    BY <1>3, <2>1, <2>2
<1>11. Tail(calls) # <<>> => Tail(calls)[Len(Tail(calls))] = 0
  <2> SUFFICES ASSUME Tail(calls) # <<>> PROVE Tail(calls)[Len(Tail(calls))] = 0
    OBVIOUS
  <2>1. Len(Tail(calls)) \in DOMAIN Tail(calls)
    BY <1>2, PopFacts
  <2>2. Tail(calls)[Len(Tail(calls))] = calls[Len(Tail(calls)) + 1] /\ Len(Tail(calls)) + 1 = Len(calls)
    BY <1>2, <2>1
  <2> QED
    BY <1>3, <2>2
<1>12. \A s, t \in DOMAIN old_logs' : s < t => old_logs'[t] < old_logs'[s]
  <2> SUFFICES ASSUME NEW s \in DOMAIN old_logs', NEW t \in DOMAIN old_logs', s < t
               PROVE  old_logs'[t] < old_logs'[s]
    OBVIOUS
  <2>1. CASE s = x
    <3>1. t \in DOMAIN old_logs /\ h < t /\ old_logs'[t] = old_logs[t] /\ old_logs'[s] = old_logs[h]
      BY <1>1, <1>4, <1>5, <2>1
    <3> QED
      BY <1>3, <1>4, <3>1
  <2>2. CASE t = x
    <3>1. /\ s \in DOMAIN old_logs /\ s # h /\ s \in Nat
          /\ old_logs'[s] = old_logs[s] /\ old_logs'[t] = old_logs[h]
      BY <1>1, <1>4, <1>5, <2>2
    <3>2. s < h
      BY <1>4, <2>2, <3>1
    <3> QED
      BY <1>3, <1>4, <3>1, <3>2
  <2>3. CASE s # x /\ t # x
    BY <1>1, <1>3, <2>3
  <2> QED
    BY <2>1, <2>2, <2>3
<1> QED
  BY <1>1, <1>2, <1>6, <1>7, <1>8, <1>9, <1>10, <1>11, <1>12 DEF LogType

LEMMA LogKeepsType ==
  ASSUME LogType,
         \/ OpenLog /\ ~rotating /\ spider' = "up"
         \/ RotateLogs /\ spider = "up" /\ spider' = "logs"
         \/ RotateLog /\ UNCHANGED spider
         \/ Abandon /\ spider' = "down"
         \/ UNCHANGED logVars /\ UNCHANGED spider
  PROVE  LogType'
<1>1. CASE OpenLog /\ ~rotating /\ spider' = "up"
  BY <1>1 DEF LogType, OpenLog, rotating
<1>2. CASE RotateLogs /\ spider = "up" /\ spider' = "logs"
  <2>1. /\ DOMAIN old_logs' = DOMAIN old_logs \cup {0}
        /\ \A s \in DOMAIN old_logs' : old_logs'[s] = IF s = 0 THEN log_file ELSE old_logs[s]
        /\ log_file' = 0 /\ calls' = <<0>> /\ last_gen' = last_gen
    BY <1>2 DEF RotateLogs
  <2>2. /\ <<0>> \in Seq(Nat) /\ DOMAIN <<0>> = {1} /\ <<0>>[1] = 0 /\ Len(<<0>>) = 1
    OBVIOUS
  <2>3. log_file \in 1 .. last_gen /\ \A s \in DOMAIN old_logs : s \in Nat /\ old_logs[s] < log_file
    BY <1>2, BumpAscends DEF LogType
  <2>4. \A s, t \in DOMAIN old_logs' : s < t => old_logs'[t] < old_logs'[s]
    BY <2>1, <2>3 DEF LogType
  <2> QED
    BY <1>2, <2>1, <2>2, <2>3, <2>4, BumpAscends DEF LogType
<1>3. CASE RotateLog /\ UNCHANGED spider
  BY <1>3, RotateNextType, RenameType DEF RotateLog
<1>4. CASE Abandon /\ spider' = "down"
  <2>1. <<>> \in Seq(Nat) /\ DOMAIN <<>> = {}
    OBVIOUS
  <2> QED
    BY <1>4, <2>1 DEF Abandon, LogType
<1>5. CASE UNCHANGED logVars /\ UNCHANGED spider
  BY <1>5 DEF logVars, LogType
<1> QED
  BY <1>1, <1>2, <1>3, <1>4, <1>5

LEMMA SpiderKeepsType ==
  ASSUME TypeInv, Spider
  PROVE  TypeInv'
<1> USE DEF TypeInv
<1>1. UNCHANGED conVars => ConverterType'
  BY DEF conVars, ConverterType
<1>2. UNCHANGED <<logVars, spider>> => LogType'
  BY LogKeepsType
<1>3. \A e \in {"start", "reload", "crash"} : Spend(e) => happened' \in [Events -> Nat]
  BY SpendType DEF Events, ProcessType
<1>4. UNCHANGED <<today, dumpVars, saving, rotVars>> => DumpsType' /\ FilesType'
  BY DEF dumpVars, rotVars, DumpsType, FilesType
<1>5. CASE SpiderStart
  <2>1. DumpsType' /\ FilesType'
    BY <1>5, DayFacts DEF SpiderStart, CreateBegin, dumpVars, DumpsType, FilesType
  <2>2. LogType'
    BY <1>5, LogKeepsType DEF SpiderStart, LogType, rotating
  <2>3. ProcessType'
    BY <1>3, <1>5 DEF SpiderStart, ProcessType, historyVars
  <2> QED
    BY <1>1, <1>5, <2>1, <2>2, <2>3 DEF SpiderStart
<1>6. ASSUME NEW v \in Videos, Fetch(v) PROVE TypeInv'
  <2>1. DumpsType' /\ FilesType'
    BY <1>6, SavingType DEF Fetch
  <2>2. ProcessType'
    BY <1>6 DEF Fetch, ProcessType
  <2> QED
    BY <1>1, <1>2, <1>6, <2>1, <2>2 DEF Fetch
<1>7. ASSUME NEW v \in Videos, SaveOn(v) PROVE TypeInv'
  <2>1. DumpsType' /\ FilesType'
    BY <1>7, SavingType DEF SaveOn
  <2>2. ProcessType'
    BY <1>7 DEF SaveOn, spiderVars, historyVars, ProcessType
  <2> QED
    BY <1>1, <1>2, <1>7, <2>1, <2>2 DEF SaveOn, spiderVars
<1>8. CASE Reload
  <2>1. LogType'
    BY <1>8, LogKeepsType DEF Reload, Working
  <2>2. ProcessType'
    BY <1>3, <1>8 DEF Reload, historyVars, ProcessType
  <2> QED
    BY <1>1, <1>4, <1>8, <2>1, <2>2 DEF Reload
<1>9. CASE RotateOn
  <2>1. LogType'
    BY <1>9, LogKeepsType DEF RotateOn, spiderVars
  <2>2. ProcessType'
    BY <1>9 DEF RotateOn, spiderVars, historyVars, ProcessType
  <2> QED
    BY <1>1, <1>4, <1>9, <2>1, <2>2 DEF RotateOn
<1>10. CASE LogsRotated
  <2>1. DumpsType' /\ FilesType'
    BY <1>10, DayFacts DEF LogsRotated, CreateBegin, dumpVars, DumpsType, FilesType
  <2>2. LogType'
    BY <1>10, LogKeepsType DEF LogsRotated
  <2>3. ProcessType'
    BY <1>10 DEF LogsRotated, ProcessType, historyVars
  <2> QED
    BY <1>1, <1>10, <2>1, <2>2, <2>3 DEF LogsRotated
<1>11. CASE CreateOn
  <2>1. DumpsType' /\ FilesType'
    BY <1>11, CreateType DEF CreateOn
  <2>2. ProcessType'
    BY <1>11 DEF CreateOn, spiderVars, historyVars, ProcessType
  <2> QED
    BY <1>1, <1>2, <1>11, <2>1, <2>2 DEF CreateOn, spiderVars
<1>12. CASE Stop \/ Crash
  <2>1. Down /\ happened' \in [Events -> Nat]
    BY <1>3, <1>12 DEF Stop, Crash, ProcessType
  <2>2. DumpsType' /\ FilesType'
    BY <2>1 DEF Down, dumpVars, DumpsType, FilesType
  <2>3. LogType'
    BY <2>1, LogKeepsType DEF Down
  <2>4. ProcessType'
    BY <2>1 DEF Down, ProcessType
  <2> QED
    BY <1>1, <2>1, <2>2, <2>3, <2>4 DEF Down
<1> QED
  BY <1>5, <1>6, <1>7, <1>8, <1>9, <1>10, <1>11, <1>12 DEF Spider

LEMMA NextTypeInv == TypeInv /\ [Next]_vars => TypeInv'
<1> SUFFICES ASSUME TypeInv, [Next]_vars PROVE TypeInv'
  OBVIOUS
<1>1. TypeInv <=> DumpsType /\ FilesType /\ ConverterType /\ LogType /\ ProcessType
  BY DEF TypeInv
<1>2. CASE Spider
  BY <1>2, SpiderKeepsType
<1>3. CASE Converting
  <2>1. ConverterStep /\ UNCHANGED BesideConverter
    BY <1>3, ConvertingStep
  <2>2. ConverterType' /\ FilesType'
    BY <1>1, <2>1, ConverterKeepsType, ConverterKeepsFiles
  <2>3. DumpsType'
    BY <1>1, <2>1 DEF BesideConverter, rotVars, DumpsType
  <2>4. LogType'
    BY <1>1, <2>1, LogKeepsType DEF BesideConverter, spiderVars
  <2>5. happened' \in [Events -> Nat]
    <3>1. \A e \in {"convert", "sameSecond", "ctrlC", "kill"} : Spend(e) => happened' \in [Events -> Nat]
      BY <1>1, SpendType DEF Events, ProcessType
    <3>2. UNCHANGED happened \/ \E e \in {"convert", "sameSecond", "ctrlC", "kill"} : Spend(e)
      BY <1>3 DEF Converting, ConvertStart, NextFile
    <3> QED
      BY <1>1, <3>1, <3>2 DEF ProcessType
  <2>6. ProcessType'
    BY <1>1, <2>1, <2>5 DEF BesideConverter, spiderVars, historyVars, ProcessType
  <2> QED
    BY <1>1, <2>2, <2>3, <2>4, <2>6 DEF TypeInv
<1>4. CASE Midnight
  <2>1. DumpsType' /\ FilesType'
    BY <1>1, <1>4, LastDayAssumption DEF Midnight, dumpVars, rotVars, DumpsType, FilesType, Days
  <2>2. ConverterType'
    BY <1>1, <1>4 DEF Midnight, conVars, ConverterType
  <2>3. LogType'
    BY <1>1, <1>4, LogKeepsType DEF Midnight
  <2>4. ProcessType'
    BY <1>1, <1>4 DEF Midnight, ProcessType
  <2> QED
    BY <2>1, <2>2, <2>3, <2>4 DEF TypeInv
<1>5. CASE UNCHANGED vars
  <2>1. /\ UNCHANGED <<today, dirs, files, saving, rotPc, rotKind, rotDay, moving>>
        /\ UNCHANGED <<conVars, logVars, spider, known, fetches, torn, split, happened>>
    BY <1>5 DEF vars, dumpVars, rotVars, spiderVars, historyVars
  <2>2. DumpsType' /\ FilesType'
    BY <1>1, <2>1 DEF DumpsType, FilesType
  <2>3. ConverterType'
    BY <1>1, <2>1 DEF conVars, ConverterType
  <2>4. LogType'
    BY <1>1, <2>1, LogKeepsType
  <2>5. ProcessType'
    BY <1>1, <2>1 DEF ProcessType
  <2> QED
    BY <2>2, <2>3, <2>4, <2>5 DEF TypeInv
<1> QED
  BY <1>2, <1>3, <1>4, <1>5 DEF Next

(* Every variable of the pipeline keeps its type; the file that a renaming   *)
(* of rotateLog moves is there, and the item of a video has a code, since    *)
(* its quality was registered when its page was read.                        *)
THEOREM PipelineType == Spec => []TypeOK
<1> QED
  BY InitTypeInv, NextTypeInv, TypeParts, PTL DEF Spec

-----------------------------------------------------------------------------
(* The logs.  What is lost is lost when a rotation renames the log over a  *)
(* .0 that is still there, and only a rotation that was cut off leaves one *)
(* behind: a .0 outside of a rotation is a crash not yet paid for.         *)

Lost == 1 .. last_gen \ (Range(old_logs) \cup {log_file})

Stranded == IF calls = <<>> /\ 0 \in DOMAIN old_logs THEN 1 ELSE 0

LossInv == IsFiniteSet(Lost) /\ Cardinality(Lost) + Stranded <= happened["crash"]

LEMMA FewerLost ==
  ASSUME NEW S, NEW T, IsFiniteSet(T), S \subseteq T
  PROVE  IsFiniteSet(S) /\ Cardinality(S) \in Nat /\ Cardinality(T) \in Nat
         /\ Cardinality(S) <= Cardinality(T)
BY FS_Subset, FS_CardinalityType

LEMMA OneMoreLost ==
  ASSUME NEW S, NEW T, IsFiniteSet(T), NEW x, S \subseteq T \cup {x}
  PROVE  IsFiniteSet(S) /\ Cardinality(S) \in Nat /\ Cardinality(T) \in Nat
         /\ Cardinality(S) <= Cardinality(T) + 1
<1>1. Cardinality(T) \in Nat
  BY FS_CardinalityType
<1>2. IsFiniteSet(T \cup {x}) /\ Cardinality(T \cup {x}) <= Cardinality(T) + 1
  <2>1. CASE x \in T
    <3>1. T \cup {x} = T
      BY <2>1
    <3>2. Cardinality(T) <= Cardinality(T) + 1
      BY <1>1
    <3> QED
      BY <3>1, <3>2
  <2>2. CASE x \notin T
    <3>1. IsFiniteSet(T \cup {x}) /\ Cardinality(T \cup {x}) = Cardinality(T) + 1
      BY <2>2, FS_AddElement
    <3> QED
      BY <1>1, <3>1
  <2> QED
    BY <2>1, <2>2
<1>3. /\ IsFiniteSet(S) /\ Cardinality(S) \in Nat /\ Cardinality(T \cup {x}) \in Nat
      /\ Cardinality(S) <= Cardinality(T \cup {x})
  BY <1>2, FewerLost
<1> QED
  BY <1>1, <1>2, <1>3

\* A step that loses nothing new and strands nothing new.
LEMMA NothingNewLost ==
  ASSUME LossInv, happened \in [Events -> Nat], happened' \in [Events -> Nat],
         Lost' \subseteq Lost, Stranded' <= Stranded,
         happened["crash"] <= happened'["crash"]
  PROVE  LossInv'
<1>1. /\ IsFiniteSet(Lost') /\ Cardinality(Lost') \in Nat /\ Cardinality(Lost) \in Nat
      /\ Cardinality(Lost') <= Cardinality(Lost)
  BY FewerLost DEF LossInv
<1>2. "crash" \in Events /\ Stranded \in {0, 1} /\ Stranded' \in {0, 1}
  BY DEF Events, Stranded
<1>3. happened["crash"] \in Nat /\ happened'["crash"] \in Nat
  BY <1>2
<1> HIDE DEF Lost
<1> QED
  BY <1>1, <1>2, <1>3 DEF LossInv

LEMMA InitLossInv == Init => LossInv
<1> SUFFICES ASSUME Init PROVE LossInv
  OBVIOUS
<1>1. Lost = {} /\ Stranded = 0 /\ happened["crash"] = 0
  BY DEF Init, LogInit, Lost, Stranded, Events
<1>2. IsFiniteSet(Lost) /\ Cardinality(Lost) = 0
  BY <1>1, FS_EmptySet
<1> HIDE DEF Lost
<1> QED
  BY <1>1, <1>2 DEF LossInv

LEMMA OpenLoses ==
  ASSUME LogType, OpenLog
  PROVE  Lost' \subseteq Lost /\ Stranded' = Stranded
<1>1. last_gen \in Nat /\ log_file \in Nat /\ log_file \in {0, last_gen}
  BY DEF LogType
<1>2. UNCHANGED <<old_logs, calls>>
  BY DEF OpenLog
<1>3. \/ log_file = 0 /\ last_gen' = last_gen + 1 /\ log_file' = last_gen + 1
      \/ log_file # 0 /\ last_gen' = last_gen /\ log_file' = log_file
  BY <1>1 DEF OpenLog
<1>4. Range(old_logs)' = Range(old_logs)
  BY <1>2
<1>5. ASSUME NEW n \in Lost' PROVE n \in Lost
  BY <1>1, <1>3, <1>4, <1>5 DEF Lost
<1>6. Stranded' = Stranded
  BY <1>2 DEF Stranded
<1> QED
  BY <1>5, <1>6

\* Renaming the log to .0 loses the file that was stranded there, if one was.
LEMMA RotationLoses ==
  ASSUME LogType, spider = "up", RotateLogs
  PROVE  /\ Stranded' = 0
         /\ 0 \notin DOMAIN old_logs => Lost' \subseteq Lost
         /\ 0 \in DOMAIN old_logs => Lost' \subseteq Lost \cup {old_logs[0]} /\ Stranded = 1
<1>1. /\ DOMAIN old_logs' = DOMAIN old_logs \cup {0}
      /\ \A s \in DOMAIN old_logs' : old_logs'[s] = IF s = 0 THEN log_file ELSE old_logs[s]
      /\ log_file' = 0 /\ calls' = <<0>> /\ last_gen' = last_gen
  BY DEF RotateLogs
<1>2. calls = <<>>
  BY DEF LogType
<1>3. ASSUME NEW n \in Lost' PROVE n \in Lost \/ (0 \in DOMAIN old_logs /\ n = old_logs[0])
  <2>1. n \in 1 .. last_gen /\ \A s \in DOMAIN old_logs' : old_logs'[s] # n
    BY <1>1, <1>3 DEF Lost, Range
  <2>2. n # log_file
    BY <1>1, <2>1
  <2>3. \A s \in DOMAIN old_logs : s # 0 => old_logs[s] # n
    BY <1>1, <2>1
  <2> QED
    BY <2>1, <2>2, <2>3 DEF Lost, Range
<1>4. Stranded' = 0
  <2>1. <<0>> # <<>>
    OBVIOUS
  <2> QED
    BY <1>1, <2>1 DEF Stranded
<1>5. 0 \in DOMAIN old_logs => Stranded = 1
  BY <1>2 DEF Stranded
<1> QED
  BY <1>3, <1>4, <1>5

LEMMA RotateLogLoses ==
  ASSUME LogType, RotateLog
  PROVE  Lost' \subseteq Lost /\ Stranded = 0 /\ Stranded' = 0
<1>1. calls # <<>> /\ calls \in Seq(Nat) /\ UNCHANGED <<log_file, last_gen>>
  BY DEF RotateLog, RotateNext, Rename, rotating, LogType
<1>2. Stranded = 0
  BY <1>1 DEF Stranded
<1>3. CASE RotateNext
  <2>1. UNCHANGED old_logs /\ calls' = <<new_log_file>> \o calls
    BY <1>3 DEF RotateNext
  <2>2. new_log_file \in Nat
    BY <1>3, BumpAscends DEF RotateNext, LogType
  <2>3. calls' # <<>>
    BY <1>1, <2>1, <2>2, PushFacts
  <2>4. Range(old_logs)' = Range(old_logs)
    BY <2>1
  <2> QED
    BY <1>1, <1>2, <2>3, <2>4 DEF Lost, Stranded
<1>4. CASE Rename
  <2> DEFINE h == Head(calls)
             x == new_log_file
  <2>1. /\ x \notin DOMAIN old_logs /\ calls' = Tail(calls)
        /\ DOMAIN old_logs' = (DOMAIN old_logs \ {h}) \cup {x}
        /\ \A s \in DOMAIN old_logs' : old_logs'[s] = IF s = x THEN old_logs[h] ELSE old_logs[s]
    BY <1>4 DEF Rename
  <2>2. /\ h = calls[1] /\ h \in DOMAIN old_logs /\ h \in LogSuffixes
        /\ Len(Tail(calls)) = Len(calls) - 1 /\ Len(calls) \in Nat \ {0}
    BY <1>1, PopFacts DEF LogType
  <2>3. x \in Nat /\ x > h /\ h \in Nat
    BY <2>2, BumpAscends DEF new_log_file
  <2> HIDE DEF x, h
  <2>4. ASSUME NEW n \in Lost' PROVE n \in Lost
    <3>1. n \in 1 .. last_gen /\ n # log_file /\ \A s \in DOMAIN old_logs' : old_logs'[s] # n
      BY <1>1, <2>4 DEF Lost, Range
    <3>2. \A s \in DOMAIN old_logs : old_logs[s] # n
      <4>1. old_logs[h] # n
        BY <2>1, <3>1
      <4> QED
        BY <2>1, <3>1, <4>1
    <3> QED
      BY <3>1, <3>2 DEF Lost, Range
  <2>5. calls' = <<>> => 0 \notin DOMAIN old_logs'
    <3> SUFFICES ASSUME calls' = <<>> PROVE 0 \notin DOMAIN old_logs'
      OBVIOUS
    <3>1. Tail(calls) = <<>>
      BY <2>1
    <3>4. Len(Tail(calls)) = 0
      <4> DEFINE t == Tail(calls)
      <4>1. t = <<>>
        BY <3>1
      <4> HIDE DEF t
      <4>2. Len(t) = 0
        BY <4>1
      <4> QED
        BY <4>2 DEF t
    <3>2. Len(calls) = 1
      <4> DEFINE n == Len(calls)
                 m == Len(Tail(calls))
      <4>1. m = n - 1 /\ n \in Nat \ {0}
        BY <2>2
      <4>3. m = 0
        BY <3>4
      <4> HIDE DEF n, m
      <4>2. n = 1
        BY <4>1, <4>3
      <4> QED
        BY <4>2 DEF n
    <3>3. h = 0
      BY <1>1, <2>2, <3>2 DEF LogType
    <3> QED
      BY <2>1, <2>3, <3>3
  <2> QED
    BY <1>2, <2>4, <2>5 DEF Stranded
<1> QED
  BY <1>3, <1>4 DEF RotateLog

LEMMA NextLossInv == TypeInv /\ LossInv /\ [Next]_vars => LossInv'
<1> SUFFICES ASSUME TypeInv, LossInv, [Next]_vars PROVE LossInv'
  OBVIOUS
<1>1. /\ LogType /\ happened \in [Events -> Nat] /\ happened' \in [Events -> Nat]
      /\ "crash" \in Events /\ happened["crash"] \in Nat /\ happened'["crash"] \in Nat
  BY NextTypeInv DEF TypeInv, ProcessType, Events
<1>2. \A e \in Events : Spend(e) => happened["crash"] <= happened'["crash"]
  BY <1>1 DEF Spend
<1>3. Stranded \in {0, 1} /\ Stranded' \in {0, 1}
  BY DEF Stranded
<1>4. ASSUME UNCHANGED logVars, happened["crash"] <= happened'["crash"] PROVE LossInv'
  <2>1. Lost' = Lost /\ Stranded' = Stranded
    BY <1>4 DEF logVars, Lost, Stranded
  <2> QED
    BY <1>1, <1>3, <1>4, <2>1, NothingNewLost
<1>5. UNCHANGED happened => happened["crash"] <= happened'["crash"]
  BY <1>1
<1>6. CASE SpiderStart \/ LogsRotated
  <2>1. OpenLog /\ happened["crash"] <= happened'["crash"]
    BY <1>2, <1>5, <1>6 DEF SpiderStart, LogsRotated, Events
  <2> QED
    BY <1>1, <1>3, <2>1, OpenLoses, NothingNewLost
<1>7. CASE Reload
  <2>1. spider = "up" /\ RotateLogs /\ happened["crash"] <= happened'["crash"]
    BY <1>2, <1>7 DEF Reload, Working, Events
  <2>2. CASE 0 \notin DOMAIN old_logs
    BY <1>1, <1>3, <2>1, <2>2, RotationLoses, NothingNewLost
  <2>3. CASE 0 \in DOMAIN old_logs
    <3>1. Lost' \subseteq Lost \cup {old_logs[0]} /\ Stranded = 1 /\ Stranded' = 0
      BY <1>1, <2>1, <2>3, RotationLoses
    <3>2. /\ IsFiniteSet(Lost') /\ Cardinality(Lost') \in Nat /\ Cardinality(Lost) \in Nat
          /\ Cardinality(Lost') <= Cardinality(Lost) + 1
      BY <3>1, OneMoreLost DEF LossInv
    <3>3. Cardinality(Lost) + 1 <= happened["crash"]
      BY <3>1 DEF LossInv
    <3> HIDE DEF Lost, Stranded
    <3> QED
      BY <1>1, <2>1, <3>1, <3>2, <3>3 DEF LossInv
  <2> QED
    BY <2>2, <2>3
<1>8. CASE RotateOn
  <2>1. Lost' \subseteq Lost /\ Stranded = 0 /\ Stranded' = 0 /\ UNCHANGED happened
    BY <1>1, <1>8, RotateLogLoses DEF RotateOn
  <2> QED
    BY <1>1, <1>3, <1>5, <2>1, NothingNewLost
<1>9. ASSUME Down PROVE Lost' = Lost
  BY <1>9 DEF Down, Abandon, Lost
<1>10. CASE Stop
  <2>1. calls = <<>> /\ calls' = <<>> /\ UNCHANGED <<old_logs, happened>>
    BY <1>1, <1>10 DEF Stop, Working, Down, Abandon, LogType
  <2>2. Stranded' = Stranded
    BY <2>1 DEF Stranded
  <2> QED
    BY <1>1, <1>3, <1>5, <1>9, <1>10, <2>1, <2>2, NothingNewLost DEF Stop
<1>11. CASE Crash
  <2>1. Lost' = Lost /\ happened'["crash"] = happened["crash"] + 1
    BY <1>1, <1>9, <1>11 DEF Crash, Spend
  <2>2. IsFiniteSet(Lost) /\ Cardinality(Lost) \in Nat /\ Cardinality(Lost) + Stranded <= happened["crash"]
    BY FS_CardinalityType DEF LossInv
  <2> HIDE DEF Lost, Stranded
  <2> QED
    BY <1>1, <1>3, <2>1, <2>2 DEF LossInv
<1>12. CASE CreateOn \/ \E v \in Videos : Fetch(v) \/ SaveOn(v)
  BY <1>4, <1>5, <1>12 DEF CreateOn, Fetch, SaveOn
<1>13. CASE Converting
  <2>1. UNCHANGED logVars
    BY <1>13, ConvertingStep DEF BesideConverter
  <2>2. UNCHANGED happened \/ \E e \in Events : Spend(e)
    BY <1>13 DEF Converting, ConvertStart, NextFile, Events
  <2> QED
    BY <1>2, <1>4, <1>5, <2>1, <2>2
<1>14. CASE Midnight \/ UNCHANGED vars
  BY <1>4, <1>5, <1>14 DEF Midnight, vars
<1> QED
  BY <1>6, <1>7, <1>8, <1>10, <1>11, <1>12, <1>13, <1>14 DEF Next, Spider

(* However often the log is rotated, past .9 and .19 where the numbers jump,  *)
(* and wherever a rotation is cut off, a higher suffix is an older log; and   *)
(* there are no more logs lost than there were crashes.                       *)
THEOREM NoLogLost == Spec => []LogsKept
<1>1. TypeInv /\ LossInv => LogsKept
  <2> SUFFICES ASSUME TypeInv, LossInv PROVE LogsKept
    OBVIOUS
  <2>1. \A s, t \in DOMAIN old_logs : s < t => old_logs[s] > old_logs[t]
    BY DEF TypeInv, LogType
  <2>2. Cardinality(Lost) \in Nat /\ Stranded \in {0, 1} /\ happened["crash"] \in Nat
    BY FS_CardinalityType DEF LossInv, Stranded, TypeInv, ProcessType, Events
  <2>3. Cardinality(Lost) <= happened["crash"]
    <3> HIDE DEF Lost, Stranded
    <3> QED
      BY <2>2 DEF LossInv
  <2> QED
    BY <2>1, <2>3 DEF LogsKept, Lost
<1> QED
  BY <1>1, InitTypeInv, NextTypeInv, InitLossInv, NextLossInv, PTL DEF Spec

-----------------------------------------------------------------------------
(* The codes.  While a converter runs the mapping in its memory counts,    *)
(* and it only grows; between two runs the one on disk does, which is the  *)
(* same unless a run was killed before it could dump it.                   *)

Mapping == IF cPc = "off" THEN mapping_file ELSE info_map
Fits(map, item) == item.code \in DOMAIN map /\ map[item.code] = quality[item.video]
ItemsIn(o) == UNION {Range(o[i].items) : i \in DOMAIN o}

CodesInv ==
  happened["kill"] = 0 =>
    /\ cPc = "close" => mapping_file = info_map
    /\ \A item \in ItemsIn(out) \cup Range(buffer) : Fits(Mapping, item)

LEMMA JoinedRange ==
  ASSUME NEW p \in Seq(Items), NEW q \in Seq(Items)
  PROVE  Range(p \o q) \subseteq Range(p) \cup Range(q)
<1>1. /\ DOMAIN (p \o q) = 1 .. Len(p) + Len(q)
      /\ DOMAIN p = 1 .. Len(p) /\ DOMAIN q = 1 .. Len(q)
      /\ Len(p) \in Nat /\ Len(q) \in Nat
  OBVIOUS
<1>2. ASSUME NEW i \in DOMAIN (p \o q) PROVE (p \o q)[i] \in Range(p) \cup Range(q)
  <2>1. CASE i <= Len(p)
    <3>1. i \in DOMAIN p /\ (p \o q)[i] = p[i]
      BY <1>1, <2>1
    <3> QED
      BY <3>1 DEF Range
  <2>2. CASE i > Len(p)
    <3>1. i - Len(p) \in DOMAIN q /\ (p \o q)[i] = q[i - Len(p)]
      BY <1>1, <2>2
    <3> QED
      BY <3>1 DEF Range
  <2> QED
    BY <1>1, <2>1, <2>2
<1> QED
  BY <1>2 DEF Range

\* Writing what is buffered and opening files, no item comes from nowhere.
LEMMA OutItems ==
  ASSUME NEW o \in Seq(FileRecords), NEW b \in Seq(Items)
  PROVE  /\ ItemsIn(Append(o, NewFile)) \subseteq ItemsIn(o)
         /\ o # <<>> => /\ ItemsIn([o EXCEPT ![Len(o)] = NewFile]) \subseteq ItemsIn(o)
                        /\ ItemsIn([o EXCEPT ![Len(o)] = [items |-> @.items \o b, ended |-> TRUE]])
                             \subseteq ItemsIn(o) \cup Range(b)
                        /\ ItemsIn([o EXCEPT ![Len(o)].items = @ \o b])
                             \subseteq ItemsIn(o) \cup Range(b)
<1>1. NewFile \in FileRecords /\ Range(NewFile.items) = {}
  BY DEF NewFile, FileRecords, Range
<1>2. ItemsIn(Append(o, NewFile)) \subseteq ItemsIn(o)
  <2> DEFINE longer == Append(o, NewFile)
  <2>1. \A i \in DOMAIN longer : \/ i \in DOMAIN o /\ longer[i] = o[i]
                                 \/ longer[i] = NewFile
    <3> SUFFICES ASSUME NEW i \in DOMAIN longer
                 PROVE  (i \in DOMAIN o /\ longer[i] = o[i]) \/ longer[i] = NewFile
      OBVIOUS
    <3>1. CASE i = Len(o) + 1
      BY <1>1, <3>1
    <3>2. CASE i # Len(o) + 1
      BY <1>1, <3>2
    <3> QED
      BY <3>1, <3>2
  <2> HIDE DEF longer
  <2>2. ItemsIn(longer) \subseteq ItemsIn(o)
    BY <1>1, <2>1 DEF ItemsIn
  <2> QED
    BY <2>2 DEF longer
<1>3. ASSUME NEW r \in FileRecords, o # <<>>
      PROVE  ItemsIn([o EXCEPT ![Len(o)] = r]) \subseteq ItemsIn(o) \cup Range(r.items)
  <2> DEFINE changed == [o EXCEPT ![Len(o)] = r]
  <2>1. DOMAIN changed = DOMAIN o /\ \A i \in DOMAIN o : changed[i] \in {o[i], r}
    BY <1>3
  <2> HIDE DEF changed
  <2>2. ItemsIn(changed) \subseteq ItemsIn(o) \cup Range(r.items)
    BY <2>1 DEF ItemsIn
  <2> QED
    BY <2>2 DEF changed
<1>4. ASSUME o # <<>>
      PROVE  /\ ItemsIn([o EXCEPT ![Len(o)] = [items |-> @.items \o b, ended |-> TRUE]])
                  \subseteq ItemsIn(o) \cup Range(b)
             /\ ItemsIn([o EXCEPT ![Len(o)].items = @ \o b]) \subseteq ItemsIn(o) \cup Range(b)
  <2> DEFINE r == o[Len(o)]
             closed == [items |-> r.items \o b, ended |-> TRUE]
             longer == [r EXCEPT !.items = @ \o b]
  <2>1. r \in FileRecords /\ Len(o) \in DOMAIN o
    BY <1>4
  <2>2. r.items \in Seq(Items) /\ r.items \o b \in Seq(Items)
    BY <2>1 DEF FileRecords
  <2>3. /\ closed \in FileRecords /\ longer \in FileRecords
        /\ closed.items = r.items \o b /\ longer.items = r.items \o b
    BY <2>1, <2>2 DEF FileRecords
  <2>4. Range(r.items \o b) \subseteq Range(r.items) \cup Range(b)
    BY <2>2, JoinedRange
  <2>5. Range(r.items) \subseteq ItemsIn(o)
    BY <2>1 DEF ItemsIn
  <2>6. /\ ItemsIn([o EXCEPT ![Len(o)] = closed]) \subseteq ItemsIn(o) \cup Range(closed.items)
        /\ ItemsIn([o EXCEPT ![Len(o)] = longer]) \subseteq ItemsIn(o) \cup Range(longer.items)
    <3> HIDE DEF closed, longer, r
    <3> QED
      BY <1>3, <1>4, <2>3
  <2>7. /\ ItemsIn([o EXCEPT ![Len(o)] = closed]) \subseteq ItemsIn(o) \cup Range(b)
        /\ ItemsIn([o EXCEPT ![Len(o)] = longer]) \subseteq ItemsIn(o) \cup Range(b)
    <3> HIDE DEF closed, longer, r
    <3> QED
      BY <2>3, <2>4, <2>5, <2>6
  <2> QED
    BY <2>7
<1>5. o # <<>> => ItemsIn([o EXCEPT ![Len(o)] = NewFile]) \subseteq ItemsIn(o)
  <2> HIDE DEF NewFile
  <2> QED
    BY <1>1, <1>3
<1> QED
  BY <1>2, <1>4, <1>5

LEMMA OpenedItems ==
  ASSUME NEW o \in Seq(FileRecords), NEW b \in BOOLEAN, b => o # <<>>
  PROVE  ItemsIn(Opened(o, b)) \subseteq ItemsIn(o)
<1>1. <<>> \in Seq(Items)
  OBVIOUS
<1>2. CASE b
  BY <1>1, <1>2, OutItems DEF Opened
<1>3. CASE ~b
  BY <1>1, <1>3, OutItems DEF Opened
<1> QED
  BY <1>2, <1>3

LEMMA ConverterKeepsCodes ==
  ASSUME ConverterType, GoesOn,
         cPc = "close" => mapping_file = info_map,
         \A item \in ItemsIn(out) \cup Range(buffer) : Fits(Mapping, item)
  PROVE  /\ cPc' = "close" => mapping_file' = info_map'
         /\ \A item \in ItemsIn(out') \cup Range(buffer') : Fits(Mapping', item)
<1> DEFINE goal == /\ cPc' = "close" => mapping_file' = info_map'
                   /\ \A item \in ItemsIn(out') \cup Range(buffer') : Fits(Mapping', item)
<1>1. /\ out \in Seq(FileRecords) /\ buffer \in Seq(Items)
      /\ Range(<<>>) = {}
      /\ cPc # "off" => out # <<>>
      /\ cPc = "off" => buffer = <<>>
  BY DEF ConverterType, FileRecords, Range
<1>2. ASSUME Mapping' = Mapping, ItemsIn(out') \cup Range(buffer') \subseteq ItemsIn(out) \cup Range(buffer)
      PROVE  \A item \in ItemsIn(out') \cup Range(buffer') : Fits(Mapping', item)
  BY <1>2 DEF Fits
<1>3. ASSUME NEW b \in BOOLEAN, Start(b) PROVE goal
  <2>1. ItemsIn(out') \subseteq ItemsIn(out) /\ buffer' = buffer
    BY <1>1, <1>3, OpenedItems DEF Start, CanOpen
  <2>2. Mapping' = Mapping /\ cPc' = "dirs"
    BY <1>3 DEF Start, Mapping
  <2> QED
    BY <1>2, <2>1, <2>2
<1>4. ASSUME NEW b \in BOOLEAN, OpenNewFile(b) PROVE goal
  <2>1. /\ Ended(out) \in Seq(FileRecords) \ {<<>>}
        /\ ItemsIn(Ended(out)) \subseteq ItemsIn(out) \cup Range(buffer)
    BY <1>1, <1>4, OutFacts, OutItems DEF Ended, OpenNewFile
  <2>2. ItemsIn(out') \subseteq ItemsIn(out) \cup Range(buffer) /\ Range(buffer') = {}
    BY <1>1, <1>4, <2>1, OpenedItems DEF OpenNewFile
  <2>3. Mapping' = Mapping /\ cPc' = "unlink"
    BY <1>4 DEF OpenNewFile, Mapping
  <2> QED
    BY <1>2, <2>2, <2>3
<1>5. CASE NextDir \/ NoSubtitles \/ DirDone \/ UnlinkPage \/ UnlinkSub
  <2>1. /\ UNCHANGED <<out, buffer, info_map>>
        /\ cPc # "off" /\ cPc' # "off" /\ cPc' # "close"
    BY <1>5 DEF NextDir, NoSubtitles, DirDone, UnlinkPage, UnlinkSub, Unlink, readVars
  <2> QED
    BY <1>2, <2>1 DEF Mapping
<1>6. CASE ReadPage
  <2>1. PICK v \in uids : info_map' \in {info_map, Registered(quality[v])}
    BY <1>6 DEF ReadPage
  <2>2. UNCHANGED <<out, buffer>> /\ cPc = "files" /\ cPc' \in {"files", "subs"}
    BY <1>6 DEF ReadPage, readVars
  <2>3. v \in Videos /\ info_map \in Codes
    BY DEF ConverterType
  <2>4. \A i \in DOMAIN info_map : i \in DOMAIN info_map' /\ info_map'[i] = info_map[i]
    BY <2>1, <2>3, RegisteredFacts
  <2>5. \A i \in DOMAIN Mapping : i \in DOMAIN Mapping' /\ Mapping'[i] = Mapping[i]
    BY <2>2, <2>4 DEF Mapping
  <2>6. \A item \in ItemsIn(out) \cup Range(buffer) : Fits(Mapping', item)
    BY <2>5 DEF Fits
  <2> QED
    BY <2>2, <2>6
<1>7. CASE Save
  <2>1. PICK c \in BOOLEAN : buffer' = Append(buffer, ItemOf(uid, c))
    <3>1. (files["subs"][sfx][uid] = "whole") \in BOOLEAN
      OBVIOUS
    <3> QED
      BY <1>7, <3>1, Zenon DEF Save
  <2>2. UNCHANGED <<out, info_map>> /\ cPc = "subs" /\ cPc' = "saved"
    BY <1>7 DEF Save, readVars
  <2> DEFINE item == ItemOf(uid, c)
             k == CHOOSE i \in DOMAIN info_map : info_map[i] = quality[uid]
  <2>3. k \in DOMAIN info_map /\ info_map[k] = quality[uid]
    BY <2>2 DEF ConverterType
  <2>4. item.code = k /\ item.video = uid
    BY DEF ItemOf
  <2>5. Fits(Mapping', item)
    BY <2>2, <2>3, <2>4 DEF Fits, Mapping
  <2>6. item \in Items
    <3>1. k \in Nat \ {0}
      BY <2>3 DEF ConverterType, Codes
    <3>2. uid \in Videos
      BY DEF ConverterType
    <3> QED
      BY <3>1, <3>2 DEF ItemOf, Items
  <2>7. Range(buffer') \subseteq Range(buffer) \cup {item}
    <3> DEFINE longer == Append(buffer, item)
    <3>1. \A i \in DOMAIN longer : (i \in DOMAIN buffer /\ longer[i] = buffer[i]) \/ longer[i] = item
      <4> SUFFICES ASSUME NEW i \in DOMAIN longer
                   PROVE  (i \in DOMAIN buffer /\ longer[i] = buffer[i]) \/ longer[i] = item
        OBVIOUS
      <4> HIDE DEF item
      <4>1. CASE i = Len(buffer) + 1
        BY <1>1, <2>6, <4>1
      <4>2. CASE i # Len(buffer) + 1
        BY <1>1, <2>6, <4>2
      <4> QED
        BY <4>1, <4>2
    <3>2. buffer' = longer
      BY <2>1
    <3> HIDE DEF longer, item
    <3> QED
      BY <3>1, <3>2 DEF Range
  <2> HIDE DEF item
  <2>8. \A i2 \in ItemsIn(out) \cup Range(buffer) : Fits(Mapping', i2)
    BY <2>2 DEF Fits, Mapping
  <2> QED
    BY <2>2, <2>5, <2>7, <2>8
<1>8. CASE WriteBuffer
  <2>1. ItemsIn(out') \subseteq ItemsIn(out) \cup Range(buffer) /\ Range(buffer') = {}
    BY <1>1, <1>8, OutItems DEF WriteBuffer
  <2>2. UNCHANGED <<cPc, info_map, mapping_file>>
    BY <1>8 DEF WriteBuffer
  <2> QED
    BY <1>2, <2>1, <2>2 DEF Mapping
<1>9. CASE RunDone \/ RunRaises
  <2>1. UNCHANGED <<out, buffer, info_map>> /\ cPc # "off" /\ cPc' = "dump"
    BY <1>9 DEF RunDone, RunRaises, TruncateMapping
  <2> QED
    BY <1>2, <2>1 DEF Mapping
<1>10. CASE DumpMapping
  <2>1. UNCHANGED <<out, buffer, info_map>> /\ cPc = "dump" /\ cPc' = "close" /\ mapping_file' = info_map
    BY <1>10 DEF DumpMapping
  <2> QED
    BY <1>2, <2>1 DEF Mapping
<1>11. CASE Close
  <2>1. ItemsIn(out') \subseteq ItemsIn(out) \cup Range(buffer) /\ Range(buffer') = {}
    BY <1>1, <1>11, OutItems DEF Close, Ended
  <2>2. UNCHANGED <<info_map, mapping_file>> /\ cPc = "close" /\ cPc' = "off"
    BY <1>11 DEF Close
  <2> QED
    BY <1>2, <2>1, <2>2 DEF Mapping
<1> QED
  BY <1>3, <1>4, <1>5, <1>6, <1>7, <1>8, <1>9, <1>10, <1>11 DEF GoesOn, Convert

LEMMA NextCodesInv == TypeInv /\ CodesInv /\ [Next]_vars => CodesInv'
<1> SUFFICES ASSUME TypeInv, CodesInv, [Next]_vars, happened'["kill"] = 0
             PROVE  /\ cPc' = "close" => mapping_file' = info_map'
                    /\ \A item \in ItemsIn(out') \cup Range(buffer') : Fits(Mapping', item)
  BY DEF CodesInv, Mapping, Fits, ItemsIn, Range
<1>1. "kill" \in Events /\ happened \in [Events -> Nat] /\ ConverterType
  BY DEF Events, TypeInv, ProcessType
<1>2. ASSUME NEW e \in Events, Spend(e) PROVE happened["kill"] = 0 /\ e # "kill"
  BY <1>1, <1>2 DEF Spend
<1>3. \/ UNCHANGED happened
      \/ \E e \in Events : Spend(e)
  BY DEF Next, Spider, SpiderStart, Fetch, SaveOn, Reload, RotateOn, LogsRotated, CreateOn, Stop, Crash,
         Converting, ConvertStart, NextFile, Midnight, vars, Events
<1>4. happened["kill"] = 0
  BY <1>2, <1>3
<1>5. /\ cPc = "close" => mapping_file = info_map
      /\ \A item \in ItemsIn(out) \cup Range(buffer) : Fits(Mapping, item)
  BY <1>4 DEF CodesInv
<1>6. CASE Converting
  <2>1. GoesOn
    BY <1>1, <1>2, <1>6, ConvertingStep
  <2> QED
    BY <1>1, <1>5, <2>1, ConverterKeepsCodes
<1>7. CASE ~Converting
  <2>1. UNCHANGED conVars
    BY <1>7 DEF Next, Spider, SpiderStart, Fetch, SaveOn, Reload, RotateOn, LogsRotated, CreateOn,
                Stop, Crash, Down, Midnight, vars
  <2>2. UNCHANGED <<cPc, info_map, mapping_file, out, buffer>>
    BY <2>1 DEF conVars
  <2> QED
    BY <1>5, <2>2 DEF Mapping, Fits
<1> QED
  BY <1>6, <1>7

LEMMA InitCodesInv == Init => CodesInv
<1> SUFFICES ASSUME Init PROVE CodesInv
  OBVIOUS
<1>1. out = <<>> /\ buffer = <<>> /\ cPc = "off"
  BY DEF Init, ConverterInit
<1>2. DOMAIN <<>> = {}
  OBVIOUS
<1>3. ItemsIn(out) \cup Range(buffer) = {}
  BY <1>1, <1>2 DEF ItemsIn, Range
<1> QED
  BY <1>1, <1>3 DEF CodesInv

(* Whatever interrupts the converter short of a kill, the codes of all items  *)
(* it ever wrote or holds in its buffer stand for the qualities of their      *)
(* videos in the mapping that counts.                                         *)
THEOREM CodesAlwaysHold == Spec => []CodesHold
<1>1. CodesInv => CodesHold
  <2>1. Written = ItemsIn(out)
    BY DEF Written, WrittenIn, ItemsIn
  <2> QED
    BY <2>1 DEF CodesInv, CodesHold, Mapping, Fits
<1> QED
  BY <1>1, InitTypeInv, NextTypeInv, InitCodesInv, NextCodesInv, PTL DEF Spec

-----------------------------------------------------------------------------
(* The files.  A rotation puts aside first the pages and then the          *)
(* subtitles, and between two rotations both directories are there and     *)
(* hold what was saved since.                                              *)

RotationInv ==
  /\ spider # "up" => rotPc = "idle"
  /\ rotPc = "make" => Current \notin dirs[rotKind]
  /\ rotPc = "move" => /\ Current \in dirs[rotKind] /\ rotDay \in dirs[rotKind]
                       /\ moving = {v \in Videos : files[rotKind][Current][v] # "none"}
  /\ rotPc # "idle" /\ rotKind = "subs" =>
       /\ Current \in dirs["pages"]
       /\ \A v \in Videos : files["pages"][Current][v] = "none"
  /\ spider # "down" /\ rotPc = "idle" =>
       \A k \in Kinds : /\ Current \in dirs[k]
                        /\ \A v \in Videos : files[k][Current][v] # "none" => v \in known
  /\ \A k \in Kinds, p \in Places, v \in Videos : files[k][p][v] # "none" => p \in dirs[k]
  /\ \A v \in Videos : saving[v] # "no" => Working /\ v \in known

LEMMA FileValue ==
  ASSUME FilesType, NEW k \in Kinds, NEW p \in Places, NEW v \in Videos
  PROVE  files[k][p][v] \in {"none", "torn", "whole"}
BY DEF FilesType

\* What each kind of step does to every single file.
FileAfter(k, p, v, c) ==
  \A l \in Kinds, q \in Places, w \in Videos :
    files'[l][q][w] = IF l = k /\ q = p /\ w = v THEN c ELSE files[l][q][w]

LEMMA PutFacts ==
  ASSUME FilesType, NEW k \in Kinds, NEW p \in Places, NEW v \in Videos,
         NEW c \in {"none", "torn", "whole"}, Put(k, p, v, c)
  PROVE  FileAfter(k, p, v, c)
BY DEF FilesType, Put, FileAfter

DirAfter(k, day) ==
  \A l \in Kinds, q \in Places, w \in Videos :
    files'[l][q][w] = IF l # k THEN files[l][q][w]
                      ELSE IF q = Current THEN "none"
                      ELSE IF q = day THEN files[k][Current][w] ELSE files[l][q][w]

LEMMA RenameFacts ==
  ASSUME FilesType, DumpsType, RenameDir
  PROVE  DirAfter(rotKind, today)
<1>1. /\ today \in Places /\ today # Current /\ Current \in Places /\ rotKind \in Kinds
      /\ NoFiles \in [Videos -> {"none", "torn", "whole"}]
      /\ \A w \in Videos : NoFiles[w] = "none"
  BY DayFacts DEF DumpsType, NoFiles, Days, Current
<1>2. files' = [files EXCEPT ![rotKind][today] = files[rotKind][Current],
                             ![rotKind][Current] = NoFiles]
  BY DEF RenameDir
<1> HIDE DEF NoFiles
<1> QED
  BY <1>1, <1>2 DEF FilesType, DirAfter

MovedAfter(k, v, day) ==
  \A l \in Kinds, q \in Places, w \in Videos :
    files'[l][q][w] = IF l # k \/ w # v THEN files[l][q][w]
                      ELSE IF q = Current THEN "none"
                      ELSE IF q = day THEN files[k][Current][w] ELSE files[l][q][w]

LEMMA MoveFacts ==
  ASSUME FilesType, DumpsType, MoveFile
  PROVE  \E v \in moving : moving' = moving \ {v} /\ MovedAfter(rotKind, v, rotDay)
<1>1. rotDay \in Places /\ rotDay # Current /\ Current \in Places /\ rotKind \in Kinds
      /\ moving \subseteq Videos
  BY DayFacts DEF DumpsType, Days, Current
<1>2. PICK v \in moving :
        /\ files' = [files EXCEPT ![rotKind][rotDay][v] = files[rotKind][Current][v],
                                  ![rotKind][Current][v] = "none"]
        /\ moving' = moving \ {v}
  BY DEF MoveFile
<1>3. MovedAfter(rotKind, v, rotDay)
  BY <1>1, <1>2 DEF FilesType, MovedAfter
<1> QED
  BY <1>2, <1>3

\* The converter deletes files of the date it is at.
LEMMA ConverterFiles ==
  ASSUME FilesType, ConverterType, ConverterStep
  PROVE  \/ UNCHANGED files
         \/ /\ cPc \in {"saved", "unlink"} /\ FileAfter("pages", sfx, uid, "none")
            /\ UnlinkPage
         \/ /\ cPc = "unlinkSub" /\ FileAfter("subs", sfx, uid, "none")
            /\ UnlinkSub
<1>1. sfx \in Places /\ uid \in Videos /\ "pages" \in Kinds /\ "subs" \in Kinds
  BY DayFacts DEF ConverterType
<1>2. ASSUME NEW k \in Kinds, NEW next, Unlink(k, next) PROVE FileAfter(k, sfx, uid, "none")
  <2>1. Put(k, sfx, uid, "none")
    BY <1>2 DEF Unlink, Put
  <2> QED
    BY <1>1, <2>1, PutFacts
<1>3. CASE UnlinkPage
  BY <1>1, <1>2, <1>3 DEF UnlinkPage
<1>4. CASE UnlinkSub
  BY <1>1, <1>2, <1>4 DEF UnlinkSub
<1>5. CASE ~(UnlinkPage \/ UnlinkSub)
  BY <1>5 DEF ConverterStep, GoesOn, Convert, Start, OpenNewFile, NextDir, ReadPage, NoSubtitles, Save,
              DirDone, WriteBuffer, RunDone, RunRaises, TruncateMapping, DumpMapping, Close, Kill
<1> QED
  BY <1>3, <1>4, <1>5

LEMMA NextRotationInv == TypeInv /\ RotationInv /\ [Next]_vars => RotationInv'
<1> SUFFICES ASSUME TypeInv, RotationInv, [Next]_vars PROVE RotationInv'
  OBVIOUS
<1> USE DayFacts
<1>1. DumpsType /\ FilesType /\ ConverterType /\ ProcessType
  BY DEF TypeInv
<1>2. CASE SpiderStart
  BY <1>1, <1>2 DEF SpiderStart, CreateBegin, RotationInv, Working, Rotating, DumpsType, dumpVars, conVars, historyVars
<1>3. ASSUME NEW v \in Videos, Fetch(v) PROVE RotationInv'
  <2>1. FileAfter("pages", Current, v, "torn")
    BY <1>1, <1>3, PutFacts DEF Fetch, SaveBegin
  <2> QED
    BY <1>1, <1>3, <2>1 DEF Fetch, SaveBegin, FileAfter, RotationInv, Working, Rotating, DumpsType, rotVars
<1>4. ASSUME NEW v \in Videos, SaveOn(v) PROVE RotationInv'
  <2>1. \E k \in Kinds, c \in {"torn", "whole"} : FileAfter(k, Current, v, c) /\ saving[v] # "no"
    BY <1>1, <1>4, PutFacts DEF SaveOn, SaveStep
  <2>2. v \in known
    BY <2>1 DEF RotationInv
  <2> QED
    BY <1>1, <1>4, <2>1, <2>2 DEF SaveOn, SaveStep, FileAfter, RotationInv, Working, Rotating, DumpsType, rotVars, spiderVars
<1>5. CASE Reload
  BY <1>1, <1>5 DEF Reload, RotationInv, Working, Rotating, dumpVars, rotVars
<1>6. CASE RotateOn
  BY <1>1, <1>6 DEF RotateOn, RotationInv, Working, Rotating, dumpVars, rotVars, spiderVars
<1>7. CASE LogsRotated
  BY <1>1, <1>7 DEF LogsRotated, CreateBegin, RotationInv, Working, Rotating, DumpsType, dumpVars
<1>8. CASE Stop \/ Crash
  BY <1>1, <1>8 DEF Stop, Crash, Down, RotationInv, Working, Rotating, dumpVars
<1>9. CASE Midnight
  BY <1>1, <1>9 DEF Midnight, RotationInv, Working, Rotating, dumpVars, rotVars
<1>10. CASE Converting
  <2>1. UNCHANGED <<today, dirs, saving, rotVars, spider, known>>
    BY <1>10, ConvertingStep DEF BesideConverter, spiderVars
  <2>2. \A k \in Kinds, p \in Places, v \in Videos :
          /\ files'[k][p][v] \in {files[k][p][v], "none"}
          /\ p = Current => files'[k][p][v] = files[k][p][v]
    <3>1. sfx # Current
      BY <1>1 DEF ConverterType, Days, Current
    <3>2. ConverterStep
      BY <1>10, ConvertingStep
    <3> QED
      BY <1>1, <3>1, <3>2, ConverterFiles DEF FileAfter
  <2> QED
    BY <1>1, <2>1, <2>2 DEF RotationInv, Working, Rotating, rotVars, DumpsType
<1>11. CASE UNCHANGED vars
  BY <1>11 DEF vars, RotationInv, Working, Rotating, dumpVars, rotVars, spiderVars
<1>12. CASE CreateOn
  <2>1. /\ UNCHANGED <<today, saving, spider, known>> /\ spider = "up" /\ CreateEmptyDirs
    BY <1>12 DEF CreateOn, spiderVars
  <2>2. CASE RenameDir
    <3>1. DirAfter(rotKind, today) /\ rotKind \in Kinds /\ today \in Places /\ today # Current
      BY <1>1, <2>2, RenameFacts DEF DumpsType, Days, Current
    <3>2. /\ rotPc = "exists" /\ rotPc' = "make" /\ UNCHANGED <<rotKind, rotDay, moving>>
          /\ dirs' = [dirs EXCEPT ![rotKind] = (@ \ {Current}) \cup {today}]
      BY <2>2 DEF RenameDir
    <3>3. \A k \in Kinds, p \in Places :
            p \in dirs'[k] <=> IF k # rotKind THEN p \in dirs[k]
                               ELSE p # Current /\ (p = today \/ p \in dirs[k])
      BY <1>1, <3>1, <3>2 DEF DumpsType
    <3>4. \A k \in Kinds, p \in Places, v \in Videos : files'[k][p][v] # "none" => p \in dirs'[k]
      BY <3>1, <3>3 DEF RotationInv, DirAfter
    <3>5. \A v \in Videos : saving'[v] = "no"
      BY <1>1, <2>1, <3>2 DEF RotationInv, Working, Rotating, DumpsType
    <3>6. rotKind = "subs" => /\ Current \in dirs'["pages"]
                              /\ \A v \in Videos : files'["pages"][Current][v] = "none"
      BY <3>1, <3>2, <3>3 DEF RotationInv, DirAfter
    <3> QED
      BY <2>1, <3>1, <3>2, <3>3, <3>4, <3>5, <3>6 DEF RotationInv
  <2>3. CASE MakeDir
    BY <1>1, <2>1, <2>3 DEF MakeDir, NextKind, RotationInv, Working, Rotating, DumpsType, Exists
  <2>4. CASE ListDir
    BY <1>1, <2>1, <2>4 DEF ListDir, RotationInv, Working, Rotating, DumpsType, Exists, dumpVars
  <2>5. CASE MoveFile
    <3>1. PICK v \in moving : moving' = moving \ {v} /\ MovedAfter(rotKind, v, rotDay)
      BY <1>1, <2>5, MoveFacts
    <3>2. /\ rotKind \in Kinds /\ rotDay \in Places /\ rotDay # Current /\ v \in Videos
          /\ rotPc = "move" /\ UNCHANGED <<dirs, rotPc, rotKind, rotDay>>
      BY <1>1, <2>5 DEF DumpsType, Days, Current, MoveFile
    <3>3. moving' = {w \in Videos : files'[rotKind][Current][w] # "none"}
      BY <3>1, <3>2 DEF RotationInv, MovedAfter
    <3>4. \A k \in Kinds, p \in Places, w \in Videos : files'[k][p][w] # "none" => p \in dirs'[k]
      BY <3>1, <3>2 DEF RotationInv, MovedAfter
    <3>5. \A w \in Videos : saving'[w] = "no"
      BY <1>1, <2>1, <3>2 DEF RotationInv, Working, Rotating, DumpsType
    <3>6. rotKind = "subs" => \A w \in Videos : files'["pages"][Current][w] = "none"
      BY <3>1, <3>2 DEF RotationInv, MovedAfter
    <3> QED
      BY <2>1, <3>2, <3>3, <3>4, <3>5, <3>6 DEF RotationInv
  <2>6. CASE MoveDone
    BY <1>1, <2>1, <2>6 DEF MoveDone, NextKind, RotationInv, Working, Rotating, DumpsType, dumpVars
  <2> QED
    BY <2>1, <2>2, <2>3, <2>4, <2>5, <2>6 DEF CreateEmptyDirs
<1> QED
  BY <1>2, <1>3, <1>4, <1>5, <1>6, <1>7, <1>8, <1>9, <1>10, <1>11, <1>12 DEF Next, Spider

(* A video whose save got to its end, or has not been interrupted yet, has *)
(* whole files, but for the one in the current directory its worker is at. *)

SavesInv ==
  \A v \in Videos \ torn :
    /\ \A k \in Kinds, p \in Places :
         files[k][p][v] = "torn" => p = Current /\ saving[v] # "no"
    /\ saving[v] \in {"page", "between"} => files["subs"][Current][v] = "none"
    /\ saving[v] \in {"between", "subs"} => files["pages"][Current][v] = "whole"

LEMMA NextSavesInv == TypeInv /\ RotationInv /\ SavesInv /\ [Next]_vars => SavesInv'
<1> SUFFICES ASSUME TypeInv, RotationInv, SavesInv, [Next]_vars PROVE SavesInv'
  OBVIOUS
<1> USE DayFacts
<1>1. DumpsType /\ FilesType /\ ConverterType /\ ProcessType
  BY DEF TypeInv
<1>2. ASSUME UNCHANGED <<files, saving, torn>> PROVE SavesInv'
  BY <1>2 DEF SavesInv
<1>3. ASSUME NEW v \in Videos, Fetch(v) PROVE SavesInv'
  <2>1. /\ FileAfter("pages", Current, v, "torn") /\ UNCHANGED torn
        /\ saving[v] = "no" /\ saving' = [saving EXCEPT ![v] = "page"]
        /\ v \notin known /\ Working
    BY <1>1, <1>3, PutFacts DEF Fetch, SaveBegin
  <2>2. files["subs"][Current][v] = "none"
    BY <2>1 DEF RotationInv, Working, Rotating
  <2> QED
    BY <1>1, <2>1, <2>2 DEF FileAfter, SavesInv, DumpsType, FilesType
<1>4. ASSUME NEW v \in Videos, SaveOn(v) PROVE SavesInv'
  <2>1. UNCHANGED torn /\ SaveStep(v)
    BY <1>4 DEF SaveOn, spiderVars, historyVars
  <2>2. CASE saving[v] = "page"
    <3>1. FileAfter("pages", Current, v, "whole") /\ saving' = [saving EXCEPT ![v] = "between"]
      BY <1>1, <2>1, <2>2, PutFacts DEF SaveStep
    <3> QED
      BY <1>1, <2>1, <2>2, <3>1 DEF FileAfter, SavesInv, DumpsType, FilesType
  <2>3. CASE saving[v] = "between"
    <3>1. FileAfter("subs", Current, v, "torn") /\ saving' = [saving EXCEPT ![v] = "subs"]
      BY <1>1, <2>1, <2>3, PutFacts DEF SaveStep
    <3> QED
      BY <1>1, <2>1, <2>3, <3>1 DEF FileAfter, SavesInv, DumpsType, FilesType
  <2>4. CASE saving[v] = "subs"
    <3>1. FileAfter("subs", Current, v, "whole") /\ saving' = [saving EXCEPT ![v] = "no"]
      BY <1>1, <2>1, <2>4, PutFacts DEF SaveStep
    <3>2. v \notin torn => \A p \in Places : files["pages"][p][v] # "torn"
      BY <1>1, <2>4 DEF SavesInv
    <3>3. \A w \in Videos \ {v} : /\ saving'[w] = saving[w]
                                 /\ \A k \in Kinds, p \in Places : files'[k][p][w] = files[k][p][w]
      BY <1>1, <3>1 DEF FileAfter, DumpsType
    <3>4. /\ saving'[v] = "no" /\ files'["subs"][Current][v] = "whole"
          /\ \A p \in Places : files'["pages"][p][v] = files["pages"][p][v]
          /\ \A p \in Places \ {Current} : files'["subs"][p][v] = files["subs"][p][v]
      BY <1>1, <3>1 DEF FileAfter, DumpsType
    <3>5. v \notin torn => \A k \in Kinds, p \in Places : files'[k][p][v] # "torn"
      BY <1>1, <3>2, <3>4 DEF SavesInv
    <3> QED
      BY <2>1, <3>3, <3>4, <3>5 DEF SavesInv
  <2> QED
    BY <2>1, <2>2, <2>3, <2>4 DEF SaveStep
<1>5. CASE Stop \/ Crash
  BY <1>1, <1>5 DEF Stop, Crash, Down, SavesInv, dumpVars, DumpsType
<1>6. CASE CreateOn
  <2>1. UNCHANGED <<saving, torn, spider>> /\ spider = "up" /\ CreateEmptyDirs
    BY <1>6 DEF CreateOn, spiderVars, historyVars
  <2>2. CASE RenameDir
    <3>1. DirAfter(rotKind, today) /\ \A v \in Videos : saving[v] = "no"
      BY <1>1, <2>2, RenameFacts DEF RenameDir, RotationInv, Working, Rotating, DumpsType
    <3> QED
      BY <1>1, <2>1, <3>1 DEF SavesInv, DirAfter
  <2>3. CASE MakeDir \/ ListDir \/ MoveDone
    BY <1>2, <2>1, <2>3 DEF MakeDir, ListDir, MoveDone, dumpVars
  <2>4. CASE MoveFile
    <3>1. PICK v \in moving : MovedAfter(rotKind, v, rotDay)
      BY <1>1, <2>4, MoveFacts
    <3>2. \A w \in Videos : saving[w] = "no"
      BY <1>1, <2>4 DEF MoveFile, RotationInv, Working, Rotating, DumpsType
    <3> QED
      BY <1>1, <2>1, <3>1, <3>2 DEF SavesInv, MovedAfter
  <2> QED
    BY <2>1, <2>2, <2>3, <2>4 DEF CreateEmptyDirs
<1>7. CASE Converting
  <2>1. UNCHANGED <<saving, torn>> /\ ConverterStep
    BY <1>7, ConvertingStep DEF BesideConverter, spiderVars, historyVars
  <2>2. sfx # Current
    BY <1>1 DEF ConverterType, Days, Current
  <2>3. \A k \in Kinds, p \in Places, v \in Videos :
          /\ files'[k][p][v] \in {files[k][p][v], "none"}
          /\ p = Current => files'[k][p][v] = files[k][p][v]
    BY <1>1, <2>1, <2>2, ConverterFiles DEF FileAfter
  <2> QED
    BY <1>1, <2>1, <2>3 DEF SavesInv
<1> QED
  BY <1>2, <1>3, <1>4, <1>5, <1>6, <1>7
     DEF Next, Spider, SpiderStart, Reload, RotateOn, LogsRotated, Midnight, vars, dumpVars, historyVars, spiderVars

(* What the converter holds.  Of a whole pair it makes a complete item,    *)
(* and before it deletes the page the item is in the buffer or in a file,  *)
(* unless the file was opened again in the second it is named by.          *)

AllItems == ItemsIn(out) \cup Range(buffer)

Copied == {item.video : item \in {i \in AllItems : i.complete}}

LastEmpty == out # <<>> /\ out[Len(out)].items = <<>>

CopiesInv ==
  /\ \A item \in AllItems : item.video \notin torn => item.complete
  /\ cPc = "saved" => uid \in Copied \cup torn
  /\ cPc \in {"unlink", "unlinkSub"} =>
       uid \in Copied \cup torn \/ (happened["sameSecond"] > 0 /\ buffer = <<>> /\ LastEmpty)

LEMMA JoinedRangeKept ==
  ASSUME NEW p \in Seq(Items), NEW q \in Seq(Items)
  PROVE  Range(p) \cup Range(q) \subseteq Range(p \o q)
<1>1. /\ DOMAIN (p \o q) = 1 .. Len(p) + Len(q)
      /\ DOMAIN p = 1 .. Len(p) /\ DOMAIN q = 1 .. Len(q)
      /\ Len(p) \in Nat /\ Len(q) \in Nat
  OBVIOUS
<1>2. ASSUME NEW i \in DOMAIN p PROVE p[i] \in Range(p \o q)
  <2>1. i \in DOMAIN (p \o q) /\ (p \o q)[i] = p[i]
    BY <1>1
  <2> QED
    BY <2>1 DEF Range
<1>3. ASSUME NEW i \in DOMAIN q PROVE q[i] \in Range(p \o q)
  <2>1. i + Len(p) \in DOMAIN (p \o q) /\ (p \o q)[i + Len(p)] = q[i]
    BY <1>1
  <2> QED
    BY <2>1 DEF Range
<1> QED
  BY <1>2, <1>3 DEF Range

\* Writing what is buffered and opening a new file, no item gets lost.
LEMMA OutItemsKept ==
  ASSUME NEW o \in Seq(FileRecords), NEW b \in Seq(Items)
  PROVE  /\ ItemsIn(o) \subseteq ItemsIn(Append(o, NewFile))
         /\ o # <<>> => /\ ItemsIn(o) \cup Range(b)
                             \subseteq ItemsIn([o EXCEPT ![Len(o)] = [items |-> @.items \o b, ended |-> TRUE]])
                        /\ ItemsIn(o) \cup Range(b)
                             \subseteq ItemsIn([o EXCEPT ![Len(o)].items = @ \o b])
<1>1. ItemsIn(o) \subseteq ItemsIn(Append(o, NewFile))
  <2> DEFINE longer == Append(o, NewFile)
  <2>1. NewFile \in FileRecords
    BY DEF NewFile, FileRecords
  <2>2. \A i \in DOMAIN o : i \in DOMAIN longer /\ longer[i] = o[i]
    BY <2>1
  <2> HIDE DEF longer
  <2>3. ItemsIn(o) \subseteq ItemsIn(longer)
    BY <2>2 DEF ItemsIn
  <2> QED
    BY <2>3 DEF longer
<1>2. ASSUME NEW r \in FileRecords, o # <<>>, r.items = o[Len(o)].items \o b
      PROVE  ItemsIn(o) \cup Range(b) \subseteq ItemsIn([o EXCEPT ![Len(o)] = r])
  <2> DEFINE changed == [o EXCEPT ![Len(o)] = r]
  <2>1. /\ DOMAIN changed = DOMAIN o /\ \A i \in DOMAIN o \ {Len(o)} : changed[i] = o[i]
        /\ Len(o) \in DOMAIN o /\ changed[Len(o)] = r /\ o[Len(o)] \in FileRecords
    BY <1>2
  <2>2. o[Len(o)].items \in Seq(Items)
    BY <2>1 DEF FileRecords
  <2>3. Range(o[Len(o)].items) \cup Range(b) \subseteq Range(r.items)
    BY <1>2, <2>2, JoinedRangeKept
  <2> HIDE DEF changed
  <2>4. ItemsIn(o) \cup Range(b) \subseteq ItemsIn(changed)
    BY <2>1, <2>3 DEF ItemsIn
  <2> QED
    BY <2>4 DEF changed
<1>3. ASSUME o # <<>>
      PROVE  /\ ItemsIn(o) \cup Range(b)
                  \subseteq ItemsIn([o EXCEPT ![Len(o)] = [items |-> @.items \o b, ended |-> TRUE]])
             /\ ItemsIn(o) \cup Range(b)
                  \subseteq ItemsIn([o EXCEPT ![Len(o)].items = @ \o b])
  <2> DEFINE r == o[Len(o)]
             closed == [items |-> r.items \o b, ended |-> TRUE]
             longer == [r EXCEPT !.items = @ \o b]
  <2>1. r \in FileRecords
    BY <1>3
  <2>2. r.items \o b \in Seq(Items)
    BY <2>1 DEF FileRecords
  <2>3. /\ closed \in FileRecords /\ longer \in FileRecords
        /\ closed.items = o[Len(o)].items \o b /\ longer.items = o[Len(o)].items \o b
    BY <2>1, <2>2 DEF FileRecords
  <2>4. /\ ItemsIn(o) \cup Range(b) \subseteq ItemsIn([o EXCEPT ![Len(o)] = closed])
        /\ ItemsIn(o) \cup Range(b) \subseteq ItemsIn([o EXCEPT ![Len(o)] = longer])
    <3> HIDE DEF closed, longer, r
    <3> QED
      BY <1>2, <1>3, <2>3
  <2> QED
    BY <2>4
<1> QED
  BY <1>1, <1>3

\* What a step of the converter does to the items: it leaves them where they are,
\* adds one, moves them on, opens the last file again, or dies.
ItemsStay == UNCHANGED <<out, buffer>>
ItemAdded == /\ cPc = "subs" /\ cPc' = "saved" /\ UNCHANGED <<uid, out, files>>
             /\ files["subs"][sfx][uid] # "none"
             /\ AllItems' = AllItems \cup {ItemOf(uid, files["subs"][sfx][uid] = "whole")}
ItemsMoveOn == /\ AllItems' = AllItems /\ UNCHANGED <<uid, files>>
               /\ (buffer # <<>> /\ cPc' = cPc) \/ cPc \in {"off", "saved", "close"}
FileReopened == /\ AllItems' \subseteq AllItems /\ buffer' = <<>> /\ LastEmpty'
                /\ out # <<>> /\ Len(out') = Len(out) /\ happened'["sameSecond"] > 0
                /\ cPc' \in {"dirs", "unlink"} /\ UNCHANGED <<uid, files>>
ConverterDies == cPc' = "off" /\ UNCHANGED <<uid, files, out>> /\ buffer' = <<>>

LEMMA OpenedItemsKept ==
  ASSUME NEW o \in Seq(FileRecords)
  PROVE  /\ ItemsIn(Opened(o, FALSE)) = ItemsIn(o)
         /\ o # <<>> => /\ Len(Opened(o, TRUE)) = Len(o)
                        /\ Opened(o, TRUE) # <<>>
                        /\ Opened(o, TRUE)[Len(o)].items = <<>>
<1>1. <<>> \in Seq(Items)
  OBVIOUS
<1>2. ItemsIn(Append(o, NewFile)) = ItemsIn(o)
  BY <1>1, OutItems, OutItemsKept
<1>3. o # <<>> => /\ Len([o EXCEPT ![Len(o)] = NewFile]) = Len(o)
                  /\ [o EXCEPT ![Len(o)] = NewFile] # <<>>
                  /\ [o EXCEPT ![Len(o)] = NewFile][Len(o)] = NewFile
  <2>1. NewFile \in FileRecords
    BY <1>1 DEF NewFile, FileRecords
  <2> HIDE DEF NewFile
  <2> QED
    BY <2>1
<1> QED
  BY <1>2, <1>3 DEF Opened, NewFile

LEMMA ConvertingItems ==
  ASSUME TypeInv, Converting
  PROVE  ItemsStay \/ ItemAdded \/ ItemsMoveOn \/ FileReopened \/ ConverterDies
<1>1. /\ out \in Seq(FileRecords) /\ buffer \in Seq(Items)
      /\ Range(<<>>) = {}
      /\ cPc # "off" => out # <<>>
      /\ cPc = "off" => buffer = <<>>
      /\ happened \in [Events -> Nat] /\ "sameSecond" \in Events
  BY DEF TypeInv, ProcessType, ConverterType, FileRecords, Range, Events
<1>2. ASSUME Spend("sameSecond") PROVE happened'["sameSecond"] > 0
  BY <1>1, <1>2 DEF Spend
<1>3. CASE Start(FALSE)
  <2>1. ItemsIn(out') = ItemsIn(out) /\ UNCHANGED <<buffer, uid, files>>
    BY <1>1, <1>3, OpenedItemsKept DEF Start
  <2> QED
    BY <1>3, <2>1 DEF ItemsMoveOn, AllItems, Start
<1>4. CASE Start(TRUE) /\ Spend("sameSecond")
  <2>1. /\ ItemsIn(out') \subseteq ItemsIn(out) /\ UNCHANGED <<buffer, uid, files>>
        /\ buffer = <<>> /\ Len(out') = Len(out) /\ LastEmpty' /\ out # <<>>
    BY <1>1, <1>4, OpenedItemsKept, OpenedItems DEF Start, CanOpen, LastEmpty
  <2> QED
    BY <1>2, <1>4, <2>1 DEF FileReopened, AllItems, Start
<1>5. ASSUME cPc = "saved"
      PROVE  /\ Ended(out) \in Seq(FileRecords) \ {<<>>} /\ Len(Ended(out)) = Len(out)
             /\ ItemsIn(Ended(out)) = ItemsIn(out) \cup Range(buffer)
  <2>1. out # <<>>
    BY <1>1, <1>5
  <2>2. Len(Ended(out)) = Len(out)
    BY <1>1, <2>1 DEF Ended
  <2> QED
    BY <1>1, <2>1, <2>2, OutFacts, OutItems, OutItemsKept DEF Ended
<1>6. CASE OpenNewFile(FALSE)
  <2>1. ItemsIn(out') = ItemsIn(out) \cup Range(buffer) /\ Range(buffer') = {} /\ UNCHANGED <<uid, files>>
    BY <1>1, <1>5, <1>6, OpenedItemsKept DEF OpenNewFile
  <2> QED
    BY <1>6, <2>1 DEF ItemsMoveOn, AllItems, OpenNewFile
<1>7. CASE OpenNewFile(TRUE) /\ Spend("sameSecond")
  <2>1. /\ ItemsIn(out') \subseteq ItemsIn(out) \cup Range(buffer) /\ buffer' = <<>>
        /\ UNCHANGED <<uid, files>> /\ out # <<>> /\ Len(out') = Len(out) /\ LastEmpty'
    BY <1>1, <1>5, <1>7, OpenedItemsKept, OpenedItems DEF OpenNewFile, CanOpen, LastEmpty
  <2> QED
    BY <1>1, <1>2, <1>7, <2>1 DEF FileReopened, AllItems, OpenNewFile
<1>8. CASE NextDir \/ ReadPage \/ NoSubtitles \/ UnlinkPage \/ UnlinkSub \/ DirDone \/ RunDone
             \/ RunRaises \/ DumpMapping
  BY <1>8 DEF NextDir, ReadPage, NoSubtitles, UnlinkPage, UnlinkSub, Unlink, DirDone, RunDone, RunRaises,
              TruncateMapping, DumpMapping, readVars, ItemsStay
<1>9. CASE Save
  <2> DEFINE item == ItemOf(uid, files["subs"][sfx][uid] = "whole")
  <2>1. /\ UNCHANGED <<out, uid, files, info_map>> /\ cPc = "subs" /\ cPc' = "saved"
        /\ files["subs"][sfx][uid] # "none" /\ buffer' = Append(buffer, item)
    BY <1>9 DEF Save, readVars
  <2>2. item \in Items
    <3> DEFINE k == CHOOSE i \in DOMAIN info_map : info_map[i] = quality[uid]
    <3>1. k \in DOMAIN info_map /\ uid \in Videos /\ info_map \in Codes
      BY <2>1 DEF TypeInv, ConverterType
    <3>2. k \in Nat \ {0}
      <4>1. info_map \in Seq({quality[v] : v \in Videos})
        BY <3>1 DEF Codes
      <4> HIDE DEF k
      <4> QED
        BY <3>1, <4>1
    <3> HIDE DEF k
    <3>3. (files["subs"][sfx][uid] = "whole") \in BOOLEAN
      OBVIOUS
    <3>4. item = [video |-> uid, complete |-> files["subs"][sfx][uid] = "whole", code |-> k]
      BY DEF ItemOf, k
    <3>5. \A c \in BOOLEAN : [video |-> uid, complete |-> c, code |-> k] \in Items
      BY <3>1, <3>2 DEF Items
    <3> QED
      BY <3>3, <3>4, <3>5, Zenon
  <2> HIDE DEF item
  <2>3. Range(buffer') = Range(buffer) \cup {item}
    <3>1. /\ Len(buffer) + 1 \in DOMAIN buffer' /\ buffer'[Len(buffer) + 1] = item
          /\ \A i \in DOMAIN buffer : i \in DOMAIN buffer' /\ buffer'[i] = buffer[i]
          /\ \A i \in DOMAIN buffer' : i \in DOMAIN buffer \/ i = Len(buffer) + 1
      BY <1>1, <2>1, <2>2
    <3> QED
      BY <3>1 DEF Range
  <2> QED
    BY <2>1, <2>3 DEF ItemAdded, AllItems, item
<1>10. CASE WriteBuffer
  <2>1. out # <<>>
    BY <1>1, <1>10 DEF WriteBuffer
  <2>2. ItemsIn(out') = ItemsIn(out) \cup Range(buffer) /\ Range(buffer') = {} /\ UNCHANGED <<uid, files>>
    BY <1>1, <1>10, <2>1, OutItems, OutItemsKept DEF WriteBuffer
  <2> QED
    BY <1>10, <2>2 DEF WriteBuffer, ItemsMoveOn, AllItems
<1>11. CASE Close
  <2>1. out # <<>>
    BY <1>1, <1>11 DEF Close
  <2>2. ItemsIn(out') = ItemsIn(out) \cup Range(buffer) /\ Range(buffer') = {} /\ UNCHANGED <<uid, files>>
    BY <1>1, <1>11, <2>1, OutItems, OutItemsKept DEF Close, Ended
  <2> QED
    BY <1>11, <2>2 DEF Close, ItemsMoveOn, AllItems
<1>12. CASE Kill
  BY <1>12 DEF Kill, readVars, ConverterDies
<1> QED
  BY <1>3, <1>4, <1>6, <1>7, <1>8, <1>9, <1>10, <1>11, <1>12 DEF Converting, ConvertStart, NextFile, Convert

\* How the converter comes to where it deletes a pair.
LEMMA ConverterMoves ==
  ASSUME Converting
  PROVE  /\ cPc' = "saved" => cPc \in {"subs", "saved"} /\ uid' = uid
         /\ cPc' = "saved" /\ cPc = "subs" => Save
         /\ cPc' = "unlink" => cPc \in {"saved", "unlink"} /\ uid' = uid /\ sfx' = sfx
         /\ cPc' = "unlinkSub" => /\ uid' = uid /\ sfx' = sfx
                                  /\ \/ cPc = "unlinkSub"
                                     \/ cPc \in {"saved", "unlink"} /\ UnlinkPage
<1>1. CASE UnlinkPage
  <2>1. cPc \in {"saved", "unlink"} /\ cPc' \in {"files", "unlinkSub"} /\ UNCHANGED <<uid, sfx>>
    BY <1>1 DEF UnlinkPage, Unlink
  <2> QED
    BY <1>1, <2>1
<1>2. CASE UnlinkSub
  <2>1. cPc = "unlinkSub" /\ cPc' = "files"
    BY <1>2 DEF UnlinkSub, Unlink
  <2> QED
    BY <1>2, <2>1
<1>3. CASE Save
  BY <1>3 DEF Save
<1>4. CASE WriteBuffer
  <2>1. UNCHANGED <<cPc, uid, sfx>>
    BY <1>4 DEF WriteBuffer
  <2> QED
    BY <2>1
<1>5. ASSUME NEW b, OpenNewFile(b) PROVE cPc = "saved" /\ cPc' = "unlink" /\ UNCHANGED <<uid, sfx>>
  BY <1>5 DEF OpenNewFile
<1>6. CASE NextDir \/ ReadPage \/ NoSubtitles \/ DirDone \/ RunDone \/ DumpMapping \/ Close \/ RunRaises \/ Kill
  <2>1. cPc' \notin {"saved", "unlink", "unlinkSub"}
    BY <1>6 DEF NextDir, ReadPage, NoSubtitles, DirDone, RunDone, RunRaises, TruncateMapping, DumpMapping,
                Close, Kill
  <2> QED
    BY <2>1
<1>7. ASSUME NEW b, Start(b) PROVE cPc' = "dirs"
  BY <1>7 DEF Start
<1> QED
  BY <1>1, <1>2, <1>3, <1>4, <1>5, <1>6, <1>7 DEF Converting, ConvertStart, NextFile, Convert

LEMMA ItemSaved ==
  ASSUME NEW v, NEW c
  PROVE  ItemOf(v, c).video = v /\ ItemOf(v, c).complete = c
BY DEF ItemOf

LEMMA HappenedGrows ==
  ASSUME TypeInv, [Next]_vars, NEW e \in Events
  PROVE  happened[e] \in Nat /\ happened'[e] \in Nat /\ happened'[e] >= happened[e]
<1>1. happened \in [Events -> Nat]
  BY DEF TypeInv, ProcessType
<1>2. \/ UNCHANGED happened
      \/ \E f \in Events : Spend(f)
  BY DEF Next, Spider, SpiderStart, Fetch, SaveOn, Reload, RotateOn, LogsRotated, CreateOn, Stop, Crash,
         Converting, ConvertStart, NextFile, Midnight, vars, Events
<1> QED
  BY <1>1, <1>2 DEF Spend

LEMMA NextCopiesInv == TypeInv /\ SavesInv /\ CopiesInv /\ [Next]_vars => CopiesInv'
<1> SUFFICES ASSUME TypeInv, SavesInv, CopiesInv, [Next]_vars PROVE CopiesInv'
  OBVIOUS
<1>1. /\ ConverterType /\ FilesType /\ torn \subseteq torn'
      /\ happened \in [Events -> Nat] /\ "sameSecond" \in Events
  BY DEF TypeInv, ProcessType, Events, Next, Spider, SpiderStart, Fetch, SaveOn, Reload, RotateOn, LogsRotated,
         CreateOn, Stop, Crash, Down, Midnight, Converting, BesideConverter, vars, spiderVars, historyVars
<1>2. happened["sameSecond"] > 0 => happened'["sameSecond"] > 0
  BY <1>1, HappenedGrows
<1>3. CASE Converting
  <2>1. UNCHANGED torn
    BY <1>3 DEF Converting, BesideConverter, spiderVars, historyVars
  <2>2. CASE ItemsStay
    <3>1. AllItems' = AllItems /\ Copied' = Copied /\ LastEmpty' = LastEmpty
      BY <2>2 DEF ItemsStay, AllItems, ItemsIn, Copied, LastEmpty, Range
    <3>2. ~ (cPc = "subs" /\ cPc' = "saved")
      BY <1>1, <1>3, <2>2, ConverterMoves DEF ItemsStay, Save, ConverterType
    <3> QED
      BY <1>2, <1>3, <2>1, <2>2, <3>1, <3>2, ConverterMoves DEF ItemsStay, CopiesInv
  <2>3. CASE ItemAdded
    <3> DEFINE item == ItemOf(uid, files["subs"][sfx][uid] = "whole")
    <3>1. item.video = uid /\ item.complete = (files["subs"][sfx][uid] = "whole")
      BY ItemSaved
    <3>2. AllItems' = AllItems \cup {item} /\ cPc' = "saved" /\ uid' = uid
      BY <2>3 DEF ItemAdded
    <3>3. uid \notin torn => files["subs"][sfx][uid] = "whole"
      <4>1. /\ sfx \in Places /\ sfx # Current /\ uid \in Videos /\ "subs" \in Kinds
            /\ files["subs"][sfx][uid] \in {"none", "torn", "whole"}
        <5>1. sfx \in Places /\ sfx # Current /\ uid \in Videos /\ "subs" \in Kinds
          BY <1>1, DayFacts DEF ConverterType, Days, Current
        <5> QED
          BY <1>1, <5>1 DEF FilesType
      <4> QED
        BY <2>3, <4>1 DEF ItemAdded, SavesInv
    <3> HIDE DEF item
    <3>4. uid \notin torn => item.complete
      BY <3>1, <3>3
    <3>5. uid \notin torn => uid \in Copied'
      BY <3>1, <3>2, <3>4 DEF Copied
    <3> QED
      BY <2>1, <3>1, <3>2, <3>4, <3>5 DEF CopiesInv
  <2>4. CASE ItemsMoveOn
    <3>1. AllItems' = AllItems /\ Copied' = Copied /\ uid' = uid
      BY <2>4 DEF ItemsMoveOn, Copied
    <3>2. ~ (cPc = "subs" /\ cPc' = "saved")
      BY <1>3, <2>4, ConverterMoves DEF ItemsMoveOn, Save
    <3> QED
      BY <1>3, <2>1, <2>4, <3>1, <3>2, ConverterMoves DEF ItemsMoveOn, CopiesInv
  <2>5. CASE FileReopened
    BY <2>1, <2>5 DEF FileReopened, CopiesInv
  <2>6. CASE ConverterDies
    <3>1. AllItems' \subseteq AllItems
      BY <2>6 DEF ConverterDies, AllItems, ItemsIn, Range
    <3> QED
      BY <2>1, <2>6, <3>1 DEF ConverterDies, CopiesInv
  <2> QED
    BY <1>3, <2>2, <2>3, <2>4, <2>5, <2>6, ConvertingItems
<1>4. CASE ~Converting
  <2>1. UNCHANGED conVars
    BY <1>4 DEF Next, Spider, SpiderStart, Fetch, SaveOn, Reload, RotateOn, LogsRotated, CreateOn,
                Stop, Crash, Down, Midnight, vars
  <2>2. /\ UNCHANGED <<cPc, uid, buffer>> /\ AllItems' = AllItems /\ Copied' = Copied /\ LastEmpty' = LastEmpty
    BY <2>1 DEF conVars, AllItems, ItemsIn, Copied, LastEmpty, Range
  <2> QED
    BY <1>1, <1>2, <2>2 DEF CopiesInv
<1> QED
  BY <1>3, <1>4

FilesKept == {v \in Videos : \A k \in Kinds : \E p \in Places : files[k][p][v] = "whole"}

LEMMA KeptParts ==
  ASSUME NEW v \in Videos
  PROVE  Kept(v) <=> v \in FilesKept \cup Copied
<1>1. Written = ItemsIn(out)
  BY DEF Written, WrittenIn, ItemsIn
<1>2. (\E item \in Written \cup Range(buffer) : item.video = v /\ item.complete) <=> v \in Copied
  BY <1>1 DEF Copied, AllItems
<1> QED
  BY <1>2 DEF Kept, FilesKept

\* The spider only writes what was not there, and moves whole files to where none are.
LEMMA SpiderKeepsFiles ==
  ASSUME TypeInv, RotationInv, SavesInv, [Next]_vars, ~Converting, NEW v \in FilesKept \ torn'
  PROVE  v \in FilesKept'
<1> USE DayFacts
<1>1. DumpsType /\ FilesType /\ v \in Videos
  BY DEF TypeInv, FilesKept
<1>2. v \notin torn
  BY DEF Next, Spider, SpiderStart, Fetch, SaveOn, Reload, RotateOn, LogsRotated, CreateOn, Stop, Crash, Down,
         Midnight, vars, spiderVars, historyVars
<1>3. PICK pages \in Places, subs \in Places :
        files["pages"][pages][v] = "whole" /\ files["subs"][subs][v] = "whole"
  BY DEF FilesKept
<1>4. ASSUME \E p \in Places : files'["pages"][p][v] = "whole", \E p \in Places : files'["subs"][p][v] = "whole"
      PROVE  v \in FilesKept'
  BY <1>1, <1>4 DEF FilesKept
<1>5. ASSUME UNCHANGED files PROVE v \in FilesKept'
  BY <1>3, <1>4, <1>5
<1>6. ASSUME NEW w \in Videos, Fetch(w) PROVE v \in FilesKept'
  <2>1. /\ FileAfter("pages", Current, w, "torn") /\ w \notin known /\ Working
    BY <1>1, <1>6, PutFacts DEF Fetch, SaveBegin
  <2>2. files["pages"][Current][w] = "none"
    BY <2>1 DEF RotationInv, Working, Rotating
  <2>3. \A k \in Kinds, p \in Places : files[k][p][v] = "whole" => files'[k][p][v] = "whole"
    BY <1>1, <2>1, <2>2 DEF FileAfter
  <2> QED
    BY <1>3, <1>4, <2>3
<1>7. ASSUME NEW w \in Videos, SaveOn(w) PROVE v \in FilesKept'
  <2>1. \/ FileAfter("pages", Current, w, "whole") \/ FileAfter("subs", Current, w, "whole")
        \/ FileAfter("subs", Current, w, "torn") /\ saving[w] = "between"
    BY <1>1, <1>7, PutFacts DEF SaveOn, SaveStep
  <2>2. w = v /\ saving[w] = "between" => files["subs"][Current][v] = "none"
    BY <1>1, <1>2 DEF SavesInv
  <2>3. \A k \in Kinds, p \in Places : files[k][p][v] = "whole" => files'[k][p][v] = "whole"
    BY <1>1, <2>1, <2>2 DEF FileAfter
  <2> QED
    BY <1>3, <1>4, <2>3
<1>8. CASE CreateOn
  <2>1. CASE RenameDir
    <3>1. DirAfter(rotKind, today) /\ today \in Places /\ today # Current /\ rotKind \in Kinds
      BY <1>1, <2>1, RenameFacts DEF DumpsType, Days, Current
    <3>2. files[rotKind][today][v] = "none"
      BY <1>1, <2>1, <3>1 DEF RenameDir, Exists, RotationInv
    <3>3. \A k \in Kinds, p \in Places : files[k][p][v] = "whole" =>
            files'[k][IF k = rotKind /\ p = Current THEN today ELSE p][v] = "whole"
      BY <1>1, <3>1, <3>2 DEF DirAfter
    <3> QED
      BY <1>3, <1>4, <3>1, <3>3
  <2>2. CASE MoveFile
    <3>1. PICK w \in moving : MovedAfter(rotKind, w, rotDay)
      BY <1>1, <2>2, MoveFacts
    <3>2. /\ rotDay \in Places /\ rotDay # Current /\ rotKind \in Kinds
          /\ w = v => files[rotKind][Current][v] # "none"
          /\ saving[v] = "no"
      BY <1>1, <2>2 DEF MoveFile, RotationInv, Working, Rotating, DumpsType, Days, Current
    <3>3. w = v => files[rotKind][Current][v] = "whole"
      <4>1. files[rotKind][Current][v] \in {"none", "torn", "whole"}
        BY <1>1, <3>2, FileValue
      <4>2. files[rotKind][Current][v] # "torn"
        BY <1>1, <1>2, <3>2 DEF SavesInv
      <4> QED
        BY <3>2, <4>1, <4>2
    <3>4. \A k \in Kinds, p \in Places : files[k][p][v] = "whole" =>
            files'[k][IF w = v /\ k = rotKind /\ p = Current THEN rotDay ELSE p][v] = "whole"
      BY <1>1, <3>1, <3>2, <3>3 DEF MovedAfter
    <3> QED
      BY <1>3, <1>4, <3>2, <3>4
  <2>3. CASE MakeDir \/ ListDir \/ MoveDone
    BY <1>5, <2>3 DEF MakeDir, ListDir, MoveDone, dumpVars
  <2> QED
    BY <1>8, <2>1, <2>2, <2>3 DEF CreateOn, CreateEmptyDirs
<1>9. CASE SpiderStart \/ Reload \/ RotateOn \/ LogsRotated \/ Stop \/ Crash \/ Midnight \/ UNCHANGED vars
  BY <1>5, <1>9 DEF SpiderStart, Reload, RotateOn, LogsRotated, Stop, Crash, Down, Midnight, vars, dumpVars
<1> QED
  BY <1>6, <1>7, <1>8, <1>9 DEF Next, Spider

LEMMA NothingVanishesStep ==
  ASSUME TypeInv, RotationInv, SavesInv, CopiesInv, [Next]_vars,
         NEW v \in Videos \ torn', v \in FilesKept \cup Copied, v \notin FilesKept' \cup Copied'
  PROVE  \/ cPc' = "off" /\ \E i \in DOMAIN buffer : buffer[i].video = v
         \/ Overwritten
<1>1. CASE Converting
  <2>1. /\ ConverterType /\ FilesType /\ ConverterStep /\ v \notin torn
        /\ happened \in [Events -> Nat] /\ "sameSecond" \in Events
    BY <1>1, ConvertingStep DEF TypeInv, ProcessType, Events, BesideConverter, spiderVars, historyVars
  <2>2. UNCHANGED files => FilesKept' = FilesKept
    BY DEF FilesKept
  <2>3. CASE ItemsStay
    <3>1. Copied' = Copied /\ LastEmpty' = LastEmpty /\ out' = out
      BY <2>3 DEF ItemsStay, AllItems, ItemsIn, Copied, LastEmpty, Range
    <3>2. v \in FilesKept /\ v \notin FilesKept' /\ v \notin Copied
      BY <3>1
    <3>3. ~UNCHANGED files
      BY <2>2, <3>2
    <3>4. cPc \in {"saved", "unlink", "unlinkSub"}
      BY <2>1, <3>3, ConverterFiles
    <3>5. v = uid
      <4> SUFFICES ASSUME v # uid PROVE FALSE
        OBVIOUS
      <4>1. \A k \in Kinds, p \in Places : files'[k][p][v] = files[k][p][v]
        BY <2>1, <3>3, ConverterFiles DEF FileAfter
      <4> QED
        BY <3>2, <4>1 DEF FilesKept
    <3>6. happened["sameSecond"] > 0 /\ LastEmpty
      BY <2>1, <3>2, <3>4, <3>5 DEF CopiesInv
    <3>7. happened'["sameSecond"] > 0
      BY <2>1, <3>6, HappenedGrows
    <3> QED
      BY <3>1, <3>6, <3>7 DEF Overwritten, LastEmpty
  <2>4. CASE ItemAdded \/ ItemsMoveOn
    <3>1. AllItems \subseteq AllItems' /\ UNCHANGED files
      BY <2>4 DEF ItemAdded, ItemsMoveOn
    <3>2. Copied \subseteq Copied'
      BY <3>1 DEF Copied
    <3> QED
      BY <2>2, <3>1, <3>2
  <2>5. CASE FileReopened
    BY <2>5 DEF FileReopened, Overwritten, LastEmpty
  <2>6. CASE ConverterDies
    <3>1. UNCHANGED <<files, out>> /\ cPc' = "off"
      BY <2>6 DEF ConverterDies
    <3>2. v \in Copied
      BY <2>2, <3>1
    <3>3. PICK item \in AllItems : item.video = v /\ item.complete
      BY <3>2 DEF Copied
    <3>4. item \notin ItemsIn(out)
      BY <3>1, <3>3 DEF Copied, AllItems, ItemsIn, Range
    <3>5. \E i \in DOMAIN buffer : buffer[i] = item
      BY <3>3, <3>4 DEF AllItems, Range
    <3> QED
      BY <3>1, <3>3, <3>5
  <2> QED
    BY <1>1, <2>3, <2>4, <2>5, <2>6, ConvertingItems
<1>2. CASE ~Converting
  <2>1. UNCHANGED conVars
    BY <1>2 DEF Next, Spider, SpiderStart, Fetch, SaveOn, Reload, RotateOn, LogsRotated, CreateOn,
                Stop, Crash, Down, Midnight, vars
  <2>2. Copied' = Copied
    BY <2>1 DEF conVars, AllItems, ItemsIn, Copied, Range
  <2>3. v \in FilesKept
    BY <2>2
  <2> QED
    BY <1>2, <2>3, SpiderKeepsFiles
<1> QED
  BY <1>1, <1>2

LEMMA InitKeepsInv == Init => RotationInv /\ SavesInv /\ CopiesInv
<1> SUFFICES ASSUME Init PROVE RotationInv /\ SavesInv /\ CopiesInv
  OBVIOUS
<1>1. \A k \in Kinds, p \in Places, v \in Videos : files[k][p][v] = "none" /\ saving[v] = "no"
  BY DEF Init, DumpsInit, NoFiles
<1>2. spider = "down" /\ rotPc = "idle" /\ cPc = "off"
  BY DEF Init, DumpsInit, ConverterInit
<1>3. AllItems = {}
  <2>1. DOMAIN <<>> = {} /\ out = <<>> /\ buffer = <<>>
    BY DEF Init, ConverterInit
  <2> QED
    BY <2>1 DEF AllItems, ItemsIn, Range
<1> QED
  BY <1>1, <1>2, <1>3, DayFacts DEF RotationInv, SavesInv, CopiesInv

KeepsInv == RotationInv /\ SavesInv /\ CopiesInv

LEMMA NextKeepsInv == TypeInv /\ KeepsInv /\ [Next]_vars => KeepsInv'
BY NextRotationInv, NextSavesInv, NextCopiesInv DEF KeepsInv

(* Whatever the spider's rotations, reloads and crashes and the converter's   *)
(* exceptions and kills, in any order and at any midnight: what a worker has  *)
(* saved to the end stays, as two whole files or as a complete item, but for  *)
(* the buffer of a converter that dies and for a file whose name was used     *)
(* twice in one second.                                                       *)
THEOREM NothingEverVanishes == Spec => NothingVanishes
<1>1. ASSUME TypeInv, KeepsInv, [Next]_vars, NEW v \in Videos \ torn', Kept(v), ~Kept(v)'
      PROVE  \/ cPc' = "off" /\ \E i \in DOMAIN buffer : buffer[i].video = v
             \/ Overwritten
  <2>1. v \in FilesKept \cup Copied
    BY <1>1, KeptParts
  <2>2. v \notin FilesKept' \cup Copied'
    <3>1. Written' = ItemsIn(out)'
      BY DEF Written, WrittenIn, ItemsIn
    <3>2. v \in Copied' => \E item \in Written' \cup Range(buffer)' : item.video = v /\ item.complete
      BY <3>1 DEF Copied, AllItems
    <3> QED
      BY <1>1, <3>2 DEF Kept, FilesKept
  <2> QED
    BY <1>1, <2>1, <2>2, NothingVanishesStep DEF KeepsInv
<1>2. TypeInv /\ KeepsInv /\ [Next]_vars =>
        [\A v \in Videos \ torn' :
           Kept(v) /\ ~Kept(v)' =>
             \/ cPc' = "off" /\ \E i \in DOMAIN buffer : buffer[i].video = v
             \/ Overwritten]_vars
  BY <1>1
<1> QED
  BY <1>2, InitTypeInv, NextTypeInv, InitKeepsInv, NextKeepsInv, PTL DEF Spec, NothingVanishes, KeepsInv

-----------------------------------------------------------------------------
(* The pairs.  A video that was fetched once has its page in one place,    *)
(* and the page is put aside under the date its subtitles will be, unless  *)
(* it becomes midnight in between.                                         *)

Handling == {"subs", "saved", "unlink", "unlinkSub"}

OnceInv ==
  /\ \A v \in Videos : fetches[v] = 0 =>
       /\ saving[v] = "no" /\ v \notin uids
       /\ \A k \in Kinds, p \in Places : files[k][p][v] = "none"
       /\ cPc \in Handling => uid # v
  /\ \A v \in Videos : fetches[v] = 1 =>
       /\ \A p, q \in Places :
            files["pages"][p][v] # "none" /\ files["pages"][q][v] # "none" => p = q
       /\ cPc = "unlinkSub" /\ uid = v => \A p \in Places : files["pages"][p][v] = "none"
  /\ \A v \in Videos : saving[v] = "page" => files["pages"][Current][v] # "none"

\* The converter takes in hand what it has found in a directory.
LEMMA ConverterTakes ==
  ASSUME ConverterType, FilesType, ConverterStep
  PROVE  /\ uids' \subseteq uids \/ \E d \in Days : uids' = {v \in Videos : files["pages"][d][v] # "none"}
         /\ cPc' \in Handling => (cPc \in Handling /\ uid' = uid) \/ uid' \in uids
         /\ cPc' = "unlinkSub" => /\ uid' = uid /\ sfx' = sfx
                                  /\ \/ cPc = "unlinkSub" /\ UNCHANGED files
                                     \/ /\ FileAfter("pages", sfx, uid, "none")
                                        /\ files["pages"][sfx][uid] # "none"
<1>1. CASE UnlinkPage
  <2>1. /\ cPc \in {"saved", "unlink"} /\ UNCHANGED <<uids, uid, sfx>>
        /\ cPc' = "unlinkSub" => files["pages"][sfx][uid] # "none"
        /\ cPc' \in {"files", "unlinkSub"}
    BY <1>1 DEF UnlinkPage, Unlink
  <2>2. Put("pages", sfx, uid, "none") /\ sfx \in Places /\ uid \in Videos /\ "pages" \in Kinds
    BY <1>1, DayFacts DEF UnlinkPage, Unlink, Put, ConverterType
  <2>3. FileAfter("pages", sfx, uid, "none")
    BY <2>2, PutFacts
  <2> QED
    BY <2>1, <2>3 DEF Handling
<1>2. CASE UnlinkSub
  <2>1. cPc' = "files" /\ UNCHANGED uids
    BY <1>2 DEF UnlinkSub, Unlink
  <2> QED
    BY <2>1 DEF Handling
<1>3. CASE NextDir
  <2>1. cPc' = "files" /\ \E d \in Days : uids' = {v \in Videos : files["pages"][d][v] # "none"}
    BY <1>3 DEF NextDir, ConverterType
  <2> QED
    BY <2>1 DEF Handling
<1>4. CASE ReadPage
  <2>1. cPc' \in {"subs", "files"} /\ uids' \subseteq uids /\ uid' \in uids
    BY <1>4 DEF ReadPage
  <2> QED
    BY <2>1 DEF Handling
<1>5. CASE WriteBuffer
  <2>1. UNCHANGED <<cPc, uids, uid, sfx, files>>
    BY <1>5 DEF WriteBuffer
  <2> QED
    BY <2>1 DEF Handling
<1>6. ASSUME NEW b, Start(b) \/ OpenNewFile(b)
      PROVE  UNCHANGED <<uids, uid, sfx, files>> /\ (cPc' = "dirs" \/ (cPc = "saved" /\ cPc' = "unlink"))
  BY <1>6 DEF Start, OpenNewFile
<1>7. CASE NoSubtitles \/ DirDone \/ RunDone \/ DumpMapping \/ Close \/ RunRaises \/ Kill
  <2>1. UNCHANGED uids /\ cPc' \in {"off", "dirs", "files", "dump", "close"}
    BY <1>7 DEF NoSubtitles, DirDone, RunDone, RunRaises, TruncateMapping, DumpMapping, Close, Kill, readVars
  <2> QED
    BY <2>1 DEF Handling
<1>8. CASE Save
  <2>1. UNCHANGED <<uids, uid>> /\ cPc = "subs" /\ cPc' = "saved"
    BY <1>8 DEF Save
  <2> QED
    BY <2>1 DEF Handling
<1> QED
  BY <1>1, <1>2, <1>3, <1>4, <1>5, <1>6, <1>7, <1>8 DEF ConverterStep, GoesOn, Convert, Handling

LEMMA NextOnceInv == TypeInv /\ RotationInv /\ OnceInv /\ [Next]_vars => OnceInv'
<1> SUFFICES ASSUME TypeInv, RotationInv, OnceInv, [Next]_vars PROVE OnceInv'
  OBVIOUS
<1> USE DayFacts
<1>1. DumpsType /\ FilesType /\ ConverterType /\ ProcessType
  BY DEF TypeInv
<1>2. ASSUME UNCHANGED <<files, saving, fetches, cPc, uid, uids>> PROVE OnceInv'
  BY <1>2 DEF OnceInv
<1>3. ASSUME NEW v \in Videos, Fetch(v) PROVE OnceInv'
  <2>1. /\ FileAfter("pages", Current, v, "torn") /\ fetches' = [fetches EXCEPT ![v] = @ + 1]
        /\ saving' = [saving EXCEPT ![v] = "page"] /\ UNCHANGED <<cPc, uid, uids>>
    BY <1>1, <1>3, PutFacts DEF Fetch, SaveBegin, conVars
  <2>2. /\ fetches'[v] = fetches[v] + 1 /\ fetches[v] \in Nat
        /\ \A w \in Videos \ {v} : fetches'[w] = fetches[w]
        /\ \A w \in Videos : saving'[w] = IF w = v THEN "page" ELSE saving[w]
    BY <1>1, <2>1 DEF ProcessType, DumpsType
  <2>3. \A w \in Videos \ {v}, k \in Kinds, p \in Places : files'[k][p][w] = files[k][p][w]
    BY <1>1, <2>1 DEF FileAfter
  <2>4. /\ files'["pages"][Current][v] = "torn"
        /\ \A p \in Places \ {Current} : files'["pages"][p][v] = files["pages"][p][v]
    BY <2>1 DEF FileAfter
  <2>5. fetches'[v] # 0 /\ (fetches'[v] = 1 => fetches[v] = 0)
    BY <2>2
  <2>6. fetches'[v] = 1 =>
          /\ \A p, q \in Places :
               files'["pages"][p][v] # "none" /\ files'["pages"][q][v] # "none" => p = q
          /\ cPc = "unlinkSub" => uid # v
    BY <2>4, <2>5 DEF OnceInv, Handling
  <2> QED
    BY <1>1, <2>1, <2>2, <2>3, <2>4, <2>5, <2>6 DEF OnceInv
<1>4. ASSUME NEW v \in Videos, SaveOn(v) PROVE OnceInv'
  <2>1. /\ \/ FileAfter("pages", Current, v, "whole") /\ saving[v] = "page"
           \/ \E c \in {"torn", "whole"} : FileAfter("subs", Current, v, c)
        /\ saving[v] # "no" /\ \A w \in Videos : saving'[w] = "page" => saving[w] = "page" /\ w # v
        /\ \A w \in Videos \ {v} : saving'[w] = saving[w]
        /\ UNCHANGED <<cPc, uid, uids, fetches>>
    BY <1>1, <1>4, PutFacts DEF SaveOn, SaveStep, conVars, spiderVars, historyVars, DumpsType
  <2> QED
    BY <1>1, <2>1 DEF FileAfter, OnceInv
<1>5. CASE Stop \/ Crash
  BY <1>1, <1>5 DEF Stop, Crash, Down, OnceInv, dumpVars, DumpsType, conVars
<1>6. CASE CreateOn
  <2>1. UNCHANGED <<saving, fetches, cPc, uid, uids>>
    BY <1>6 DEF CreateOn, spiderVars, historyVars, conVars
  <2>2. rotPc # "idle" => \A v \in Videos : saving[v] = "no"
    BY <1>1 DEF RotationInv, Working, Rotating, DumpsType
  <2>3. CASE RenameDir
    <3>1. DirAfter(rotKind, today) /\ today \in Places /\ today # Current /\ rotPc = "exists" /\ rotKind \in Kinds
      BY <1>1, <2>3, RenameFacts DEF RenameDir, DumpsType, Days, Current
    <3>2. \A w \in Videos : files[rotKind][today][w] = "none"
      BY <1>1, <2>3, <3>1 DEF RenameDir, Exists, RotationInv
    <3> QED
      BY <1>1, <2>1, <2>2, <3>1, <3>2 DEF OnceInv, DirAfter
  <2>4. CASE MakeDir \/ ListDir \/ MoveDone
    BY <1>2, <2>1, <2>4 DEF MakeDir, ListDir, MoveDone, dumpVars
  <2>5. CASE MoveFile
    <3>1. PICK v \in moving : MovedAfter(rotKind, v, rotDay)
      BY <1>1, <2>5, MoveFacts
    <3>2. /\ rotDay \in Places /\ rotDay # Current /\ rotKind \in Kinds /\ rotPc = "move"
          /\ v \in Videos /\ files[rotKind][Current][v] # "none"
      BY <1>1, <2>5 DEF MoveFile, RotationInv, DumpsType, Days, Current
    <3> QED
      BY <1>1, <2>1, <2>2, <3>1, <3>2 DEF OnceInv, MovedAfter
  <2> QED
    BY <1>6, <2>3, <2>4, <2>5 DEF CreateOn, CreateEmptyDirs
<1>7. CASE Converting
  <2>1. UNCHANGED <<saving, fetches>> /\ ConverterStep
    BY <1>7, ConvertingStep DEF BesideConverter, spiderVars, historyVars
  <2>2. sfx # Current /\ sfx \in Places /\ uid \in Videos
    BY <1>1 DEF ConverterType, Days, Current
  <2>3. \A k \in Kinds, p \in Places, v \in Videos :
          /\ files'[k][p][v] \in {files[k][p][v], "none"}
          /\ p = Current => files'[k][p][v] = files[k][p][v]
    BY <1>1, <2>1, <2>2, ConverterFiles DEF FileAfter
  <2>4. \A v \in Videos : fetches[v] = 0 => v \notin uids' /\ (cPc' \in Handling => uid' # v)
    BY <1>1, <2>1, ConverterTakes DEF OnceInv
  <2>5. cPc' = "unlinkSub" /\ fetches[uid] = 1 => \A p \in Places : files'["pages"][p][uid] = "none"
    BY <1>1, <2>1, <2>2, ConverterTakes DEF OnceInv, FileAfter
  <2>6. cPc' = "unlinkSub" => uid' = uid
    BY <1>1, <2>1, ConverterTakes
  <2> QED
    BY <1>1, <2>1, <2>3, <2>4, <2>5, <2>6 DEF OnceInv
<1> QED
  BY <1>2, <1>3, <1>4, <1>5, <1>6, <1>7
     DEF Next, Spider, SpiderStart, Reload, RotateOn, LogsRotated, Midnight, vars, dumpVars, historyVars, spiderVars,
         conVars

\* A page that was put aside has its subtitles beside it, or these will be put aside
\* the same day.
PairsInv ==
  \A v \in Videos \ (torn \cup split) : fetches[v] = 1 =>
    /\ files["pages"][Current][v] # "none" /\ saving[v] = "no" => files["subs"][Current][v] = "whole"
    /\ \A d \in Days : files["pages"][d][v] # "none" =>
         \/ files["subs"][d][v] = "whole"
         \/ /\ d = today /\ files["subs"][Current][v] = "whole"
            /\ spider = "down" \/ rotPc # "idle"
    /\ rotPc = "move" /\ v \in moving => rotDay = today

LEMMA NextPairsInv ==
  TypeInv /\ RotationInv /\ SavesInv /\ OnceInv /\ PairsInv /\ [Next]_vars => PairsInv'
<1> SUFFICES ASSUME TypeInv, RotationInv, SavesInv, OnceInv, PairsInv, [Next]_vars,
                    NEW v \in Videos \ (torn' \cup split'), fetches'[v] = 1
             PROVE  /\ files'["pages"][Current][v] # "none" /\ saving'[v] = "no" => files'["subs"][Current][v] = "whole"
                    /\ \A d \in Days : files'["pages"][d][v] # "none" =>
                         \/ files'["subs"][d][v] = "whole"
                         \/ /\ d = today' /\ files'["subs"][Current][v] = "whole"
                            /\ spider' = "down" \/ rotPc' # "idle"
                    /\ rotPc' = "move" /\ v \in moving' => rotDay' = today'
  BY DEF PairsInv
<1> DEFINE goal ==
      /\ files'["pages"][Current][v] # "none" /\ saving'[v] = "no" => files'["subs"][Current][v] = "whole"
      /\ \A d \in Days : files'["pages"][d][v] # "none" =>
           \/ files'["subs"][d][v] = "whole"
           \/ /\ d = today' /\ files'["subs"][Current][v] = "whole"
              /\ spider' = "down" \/ rotPc' # "idle"
      /\ rotPc' = "move" /\ v \in moving' => rotDay' = today'
<1> USE DayFacts
<1>1. /\ DumpsType /\ FilesType /\ ConverterType /\ ProcessType
      /\ \A d \in Days : d \in Places /\ d # Current
  BY DEF TypeInv, Days, Current
<1>2. v \notin torn /\ v \notin split /\ v \in Videos
  BY DEF Next, Spider, SpiderStart, Fetch, SaveOn, Reload, RotateOn, LogsRotated, CreateOn, Stop, Crash, Down,
         Midnight, Converting, BesideConverter, vars, spiderVars, historyVars
<1>3. ASSUME fetches[v] = 1
      PROVE  /\ files["pages"][Current][v] # "none" /\ saving[v] = "no" => files["subs"][Current][v] = "whole"
             /\ \A d \in Days : files["pages"][d][v] # "none" =>
                  \/ files["subs"][d][v] = "whole"
                  \/ /\ d = today /\ files["subs"][Current][v] = "whole"
                     /\ spider = "down" \/ rotPc # "idle"
             /\ rotPc = "move" /\ v \in moving => rotDay = today
             /\ \A p, q \in Places :
                  files["pages"][p][v] # "none" /\ files["pages"][q][v] # "none" => p = q
  BY <1>2, <1>3 DEF PairsInv, OnceInv
<1>4. rotPc # "idle" => spider = "up" /\ saving[v] = "no"
  BY <1>1, <1>2 DEF RotationInv, Working, Rotating, DumpsType
<1>5. CASE SpiderStart
  <2>1. /\ UNCHANGED <<today, files, saving, fetches>> /\ rotPc' = "exists"
    BY <1>5 DEF SpiderStart, CreateBegin, dumpVars, historyVars
  <2> QED
    BY <1>3, <2>1
<1>6. ASSUME NEW w \in Videos, Fetch(w) PROVE goal
  <2>1. /\ FileAfter("pages", Current, w, "torn") /\ fetches' = [fetches EXCEPT ![w] = @ + 1]
        /\ saving' = [saving EXCEPT ![w] = "page"]
        /\ UNCHANGED <<today, rotPc, moving, rotDay, spider>>
    BY <1>1, <1>6, PutFacts DEF Fetch, SaveBegin, rotVars
  <2>2. CASE w = v
    <3>1. fetches[v] = 0 /\ saving'[v] = "page"
      BY <1>1, <1>2, <2>1, <2>2 DEF ProcessType, DumpsType
    <3>2. /\ \A d \in Days : files'["pages"][d][v] = "none"
          /\ rotPc # "move"
      BY <1>1, <1>2, <1>6, <2>1, <2>2, <3>1 DEF OnceInv, FileAfter, Fetch, Working, Rotating
    <3> QED
      BY <2>1, <3>1, <3>2
  <2>3. CASE w # v
    <3>1. /\ fetches[v] = 1 /\ saving'[v] = saving[v]
          /\ \A k \in Kinds, p \in Places : files'[k][p][v] = files[k][p][v]
      BY <1>1, <1>2, <2>1, <2>3 DEF ProcessType, DumpsType, FileAfter
    <3> QED
      BY <1>1, <1>3, <2>1, <3>1
  <2> QED
    BY <2>2, <2>3
<1>7. ASSUME NEW w \in Videos, SaveOn(w) PROVE goal
  <2>1. UNCHANGED <<today, rotPc, moving, rotDay, spider, fetches>> /\ rotPc = "idle" /\ spider = "up" /\ SaveStep(w)
    BY <1>7 DEF SaveOn, rotVars, spiderVars, historyVars, Working, Rotating
  <2>2. CASE w # v
    <3>1. \E k \in Kinds, c \in {"whole", "torn"} : FileAfter(k, Current, w, c)
      BY <1>1, <2>1, PutFacts DEF SaveStep
    <3>2. /\ fetches[v] = 1 /\ saving'[v] = saving[v]
          /\ \A k \in Kinds, p \in Places : files'[k][p][v] = files[k][p][v]
      BY <1>1, <1>2, <2>1, <2>2, <3>1 DEF DumpsType, FileAfter, SaveStep
    <3> QED
      BY <1>1, <1>3, <2>1, <3>2
  <2>3. CASE w = v
    <3>1. /\ files["pages"][Current][v] # "none" /\ fetches[v] = 1
      BY <1>1, <1>2, <2>1, <2>3 DEF OnceInv, SavesInv, SaveStep
    <3>2. \A d \in Days : files["pages"][d][v] = "none"
      BY <1>1, <1>3, <3>1
    <3>3. /\ \A d \in Days : files'["pages"][d][v] = "none"
          /\ saving'[v] = "no" => files'["subs"][Current][v] = "whole"
      <4>1. CASE saving[v] = "page" /\ FileAfter("pages", Current, v, "whole") /\ saving' = [saving EXCEPT ![v] = "between"]
        BY <1>1, <1>2, <3>2, <4>1 DEF FileAfter, DumpsType
      <4>2. CASE FileAfter("subs", Current, v, "torn") /\ saving' = [saving EXCEPT ![v] = "subs"]
        BY <1>1, <1>2, <3>2, <4>2 DEF FileAfter, DumpsType
      <4>3. CASE FileAfter("subs", Current, v, "whole")
        BY <1>1, <1>2, <3>2, <4>3 DEF FileAfter
      <4> QED
        BY <1>1, <2>1, <2>3, <4>1, <4>2, <4>3, PutFacts DEF SaveStep
    <3> QED
      BY <2>1, <3>3
  <2> QED
    BY <2>2, <2>3
<1>8. CASE Reload \/ RotateOn \/ LogsRotated
  <2>1. UNCHANGED <<today, files, saving, fetches>> /\ rotPc = "idle" /\ spider # "down" /\ rotPc' \in {"idle", "exists"}
    <3>1. spider # "up" => rotPc = "idle"
      BY DEF RotationInv
    <3> QED
      BY <1>8, <3>1 DEF Reload, RotateOn, LogsRotated, CreateBegin, Working, Rotating, dumpVars, rotVars, spiderVars, historyVars
  <2> QED
    BY <1>3, <2>1
<1>9. CASE Stop \/ Crash
  <2>1. UNCHANGED <<today, files, fetches>> /\ rotPc' = "idle" /\ spider' = "down" /\ saving[v] = "no"
    BY <1>2, <1>9 DEF Stop, Crash, Down, dumpVars
  <2> QED
    BY <1>3, <2>1
<1>10. CASE Midnight
  <2>1. /\ UNCHANGED <<files, saving, fetches, rotPc, moving, rotDay, spider>>
        /\ ~ /\ files["subs"][Current][v] = "whole"
             /\ \/ files["pages"][Current][v] = "none"
                \/ rotPc = "move" /\ v \in moving
    BY <1>10, <1>2 DEF Midnight, dumpVars, rotVars
  <2>2. fetches[v] = 1
    BY <2>1
  <2>3. \A d \in Days : files["pages"][d][v] # "none" => files["subs"][d][v] = "whole"
    <3> SUFFICES ASSUME NEW d \in Days, files["pages"][d][v] # "none", files["subs"][d][v] # "whole" PROVE FALSE
      OBVIOUS
    <3>1. files["pages"][Current][v] = "none"
      BY <1>1, <1>3, <2>2
    <3> QED
      BY <1>3, <2>1, <2>2, <3>1
  <2>4. rotPc = "move" => v \notin moving
    <3> SUFFICES ASSUME rotPc = "move", v \in moving PROVE FALSE
      OBVIOUS
    <3>1. files[rotKind][Current][v] # "none" /\ rotKind \in Kinds /\ saving[v] = "no"
      BY <1>1, <1>4 DEF RotationInv, DumpsType
    <3>2. CASE rotKind = "pages"
      BY <1>3, <2>1, <2>2, <3>1, <3>2
    <3>3. CASE rotKind = "subs"
      <4>1. files["subs"][Current][v] \in {"none", "torn", "whole"}
        BY <1>1, <1>2, FileValue
      <4>2. files["subs"][Current][v] # "torn"
        BY <1>1, <1>2, <3>1 DEF SavesInv
      <4> QED
        BY <2>1, <3>1, <3>3, <4>1, <4>2
    <3> QED
      BY <3>1, <3>2, <3>3
  <2> QED
    BY <1>3, <2>1, <2>2, <2>3, <2>4
<1>11. CASE CreateOn
  <2>1. UNCHANGED <<today, saving, fetches, spider>> /\ spider = "up" /\ fetches[v] = 1
    BY <1>11 DEF CreateOn, spiderVars, historyVars
  <2>2. CASE RenameDir
    <3>1. DirAfter(rotKind, today) /\ today \in Days /\ rotKind \in Kinds /\ rotPc = "exists" /\ rotPc' = "make"
      BY <1>1, <2>2, RenameFacts DEF RenameDir, DumpsType
    <3>2. /\ rotKind = "pages" => files["pages"][today][v] = "none"
          /\ rotKind = "subs" => files["subs"][today][v] = "none" /\ files["pages"][Current][v] = "none"
      BY <1>1, <1>2, <2>2, <3>1 DEF RenameDir, Exists, RotationInv
    <3>3. CASE rotKind = "pages"
      <4>1. \A p \in Places : /\ files'["subs"][p][v] = files["subs"][p][v]
                              /\ files'["pages"][p][v] = IF p = Current THEN "none"
                                   ELSE IF p = today THEN files["pages"][Current][v] ELSE files["pages"][p][v]
        BY <1>1, <1>2, <3>1, <3>3 DEF DirAfter
      <4> QED
        BY <1>1, <1>3, <1>4, <2>1, <3>1, <3>2, <3>3, <4>1
    <3>4. CASE rotKind = "subs"
      <4>1. \A p \in Places : /\ files'["pages"][p][v] = files["pages"][p][v]
                              /\ files'["subs"][p][v] = IF p = Current THEN "none"
                                   ELSE IF p = today THEN files["subs"][Current][v] ELSE files["subs"][p][v]
        BY <1>1, <1>2, <3>1, <3>4 DEF DirAfter
      <4> QED
        BY <1>1, <1>3, <1>4, <2>1, <3>1, <3>2, <3>4, <4>1
    <3> QED
      BY <3>1, <3>3, <3>4
  <2>3. CASE MakeDir
    <3>1. UNCHANGED <<files, moving, rotDay>> /\ rotPc' \in {"exists", "idle"} /\ (rotPc' = "idle" => rotKind = "subs")
          /\ Current \notin dirs[rotKind] /\ rotKind \in Kinds
      BY <1>1, <2>3 DEF MakeDir, NextKind, RotationInv, Exists, DumpsType
    <3>2. rotPc' = "idle" => files["subs"][Current][v] = "none"
      BY <1>1, <1>2, <3>1 DEF RotationInv
    <3> QED
      BY <1>3, <1>4, <2>1, <2>3, <3>1, <3>2 DEF MakeDir
  <2>4. CASE ListDir
    BY <1>3, <1>4, <2>1, <2>4 DEF ListDir, dumpVars
  <2>5. CASE MoveFile
    <3>1. PICK w \in moving : moving' = moving \ {w} /\ MovedAfter(rotKind, w, rotDay)
      BY <1>1, <2>5, MoveFacts
    <3>2. /\ rotDay \in Days /\ rotKind \in Kinds /\ rotPc = "move" /\ rotPc' = "move"
          /\ rotDay' = rotDay /\ w \in Videos /\ files[rotKind][Current][w] # "none"
      BY <1>1, <2>5, <3>1 DEF MoveFile, RotationInv, DumpsType
    <3>3. CASE w # v
      <4>1. \A k \in Kinds, p \in Places : files'[k][p][v] = files[k][p][v]
        BY <1>1, <1>2, <3>1, <3>2, <3>3 DEF MovedAfter
      <4> QED
        BY <1>1, <1>3, <2>1, <3>1, <3>2, <4>1
    <3>4. CASE w = v /\ rotKind = "pages"
      <4>1. \A p \in Places : /\ files'["subs"][p][v] = files["subs"][p][v]
                              /\ files'["pages"][p][v] = IF p = Current THEN "none"
                                   ELSE IF p = rotDay THEN files["pages"][Current][v] ELSE files["pages"][p][v]
        BY <1>1, <1>2, <3>1, <3>4 DEF MovedAfter
      <4>2. files["subs"][Current][v] = "whole" /\ rotDay = today
        BY <1>3, <1>4, <2>1, <3>1, <3>2, <3>4
      <4>3. \A d \in Days : files["pages"][d][v] = "none"
        BY <1>1, <1>3, <2>1, <3>2, <3>4
      <4> QED
        BY <1>1, <2>1, <3>1, <3>2, <3>4, <4>1, <4>2, <4>3
    <3>5. CASE w = v /\ rotKind = "subs"
      <4>1. \A p \in Places : /\ files'["pages"][p][v] = files["pages"][p][v]
                              /\ files'["subs"][p][v] = IF p = Current THEN "none"
                                   ELSE IF p = rotDay THEN files["subs"][Current][v] ELSE files["subs"][p][v]
        BY <1>1, <1>2, <3>1, <3>5 DEF MovedAfter
      <4>2. files["pages"][Current][v] = "none" /\ rotDay = today
        BY <1>2, <1>3, <2>1, <3>1, <3>2, <3>5 DEF RotationInv
      <4>3. files["subs"][Current][v] = "whole"
        <5>1. files["subs"][Current][v] \in {"none", "torn", "whole"}
          BY <1>1, <1>2, FileValue
        <5>2. files["subs"][Current][v] # "torn"
          BY <1>1, <1>2, <1>4, <3>2 DEF SavesInv
        <5> QED
          BY <3>2, <3>5, <5>1, <5>2
      <4> QED
        BY <1>1, <1>3, <2>1, <3>1, <3>2, <3>5, <4>1, <4>2, <4>3
    <3> QED
      BY <3>2, <3>3, <3>4, <3>5
  <2>6. CASE MoveDone
    <3>1. UNCHANGED files /\ rotPc = "move" /\ rotPc' \in {"exists", "idle"} /\ (rotPc' = "idle" => rotKind = "subs")
          /\ moving = {} /\ rotKind \in Kinds
      BY <1>1, <2>6 DEF MoveDone, NextKind, DumpsType, dumpVars
    <3>2. rotPc' = "idle" => files["subs"][Current][v] = "none"
      BY <1>1, <1>2, <3>1 DEF RotationInv
    <3> QED
      BY <1>3, <1>4, <2>1, <3>1, <3>2
  <2> QED
    BY <1>11, <2>2, <2>3, <2>4, <2>5, <2>6 DEF CreateOn, CreateEmptyDirs
<1>12. CASE Converting
  <2>1. UNCHANGED <<today, saving, rotPc, moving, rotDay, spider, fetches>> /\ ConverterStep /\ fetches[v] = 1
    BY <1>12, ConvertingStep DEF BesideConverter, spiderVars, historyVars, rotVars
  <2>2. sfx # Current /\ sfx \in Places /\ uid \in Videos
    BY <1>1 DEF ConverterType
  <2>3. CASE UNCHANGED files
    BY <1>3, <2>1, <2>3
  <2>4. CASE FileAfter("pages", sfx, uid, "none")
    BY <1>1, <1>2, <1>3, <2>1, <2>2, <2>4 DEF FileAfter
  <2>5. CASE cPc = "unlinkSub" /\ FileAfter("subs", sfx, uid, "none")
    <3>1. CASE uid = v
      <4>1. \A p \in Places : files'["pages"][p][v] = "none"
        BY <1>1, <1>2, <2>1, <2>2, <2>5, <3>1 DEF FileAfter, OnceInv
      <4> QED
        BY <1>1, <1>3, <2>1, <4>1
    <3>2. CASE uid # v
      <4>1. \A k \in Kinds, p \in Places : files'[k][p][v] = files[k][p][v]
        BY <1>1, <1>2, <2>2, <2>5, <3>2 DEF FileAfter
      <4> QED
        BY <1>1, <1>3, <2>1, <4>1
    <3> QED
      BY <3>1, <3>2
  <2> QED
    BY <1>1, <2>1, <2>3, <2>4, <2>5, ConverterFiles
<1>13. CASE UNCHANGED vars
  BY <1>3, <1>13 DEF vars, dumpVars, rotVars, spiderVars, historyVars
<1> QED
  BY <1>5, <1>6, <1>7, <1>8, <1>9, <1>10, <1>11, <1>12, <1>13 DEF Next, Spider

LEMMA InitPairs == Init => OnceInv /\ PairsInv
<1> SUFFICES ASSUME Init PROVE OnceInv /\ PairsInv
  OBVIOUS
<1>1. /\ \A k \in Kinds, p \in Places, v \in Videos : files[k][p][v] = "none"
      /\ \A v \in Videos : fetches[v] = 0 /\ saving[v] = "no"
      /\ cPc = "off" /\ uids = {}
  BY DEF Init, DumpsInit, ConverterInit, NoFiles
<1> QED
  BY <1>1 DEF OnceInv, PairsInv, Handling

(* Between two rotations, page and subtitles of a video that was fetched once *)
(* and saved to the end are under the same date, whatever crashes cut short   *)
(* the rotations before, unless it became midnight between the two.           *)
THEOREM PairsStayTogether == Spec => []PairsTogether
<1>1. PairsInv => PairsTogether
  BY DEF PairsInv, PairsTogether, Working, Rotating
<1>2. TypeInv /\ KeepsInv /\ OnceInv /\ PairsInv /\ [Next]_vars => PairsInv'
  BY NextPairsInv DEF KeepsInv
<1>3. TypeInv /\ KeepsInv /\ OnceInv /\ [Next]_vars => OnceInv'
  BY NextOnceInv DEF KeepsInv
<1>4. Init => KeepsInv
  BY InitKeepsInv DEF KeepsInv
<1> QED
  BY <1>1, <1>2, <1>3, <1>4, InitTypeInv, NextTypeInv, NextKeepsInv, InitPairs, PTL DEF Spec

-----------------------------------------------------------------------------
(* The items.  Every fetch makes one page, and every item uses up a page   *)
(* unless the converter is stopped between writing the one and deleting    *)
(* the other.                                                              *)

Occurrences(o, b, v) ==
  ({0} \X OccurrencesIn(b, v)) \cup UNION {{f} \X OccurrencesIn(o[f].items, v) : f \in DOMAIN o}

LEMMA OccurrencesMembers ==
  ASSUME NEW o, NEW b, NEW v
  PROVE  /\ \A i : <<0, i>> \in Occurrences(o, b, v) <=>
                     \/ i \in DOMAIN b /\ b[i].video = v
                     \/ 0 \in DOMAIN o /\ i \in DOMAIN o[0].items /\ o[0].items[i].video = v
         /\ \A f, i : f # 0 => (<<f, i>> \in Occurrences(o, b, v) <=>
                        f \in DOMAIN o /\ i \in DOMAIN o[f].items /\ o[f].items[i].video = v)
         /\ \A x \in Occurrences(o, b, v) : \E f, i : x = <<f, i>> /\ (f = 0 \/ f \in DOMAIN o)
BY DEF Occurrences, OccurrencesIn

LEMMA OccurrencesFinite ==
  ASSUME NEW o \in Seq(FileRecords), NEW b \in Seq(Items), NEW v
  PROVE  IsFiniteSet(Occurrences(o, b, v)) /\ Cardinality(Occurrences(o, b, v)) \in Nat
<1>1. ASSUME NEW s \in Seq(Items), NEW f PROVE IsFiniteSet({f} \X OccurrencesIn(s, v))
  <2>1. IsFiniteSet(1 .. Len(s)) /\ OccurrencesIn(s, v) \in SUBSET (1 .. Len(s))
    <3>1. Len(s) \in Nat /\ DOMAIN s = 1 .. Len(s)
      OBVIOUS
    <3> QED
      BY <3>1, FS_Interval DEF OccurrencesIn
  <2>2. IsFiniteSet(OccurrencesIn(s, v)) /\ IsFiniteSet({f})
    BY <2>1, FS_Subset, FS_Singleton
  <2> QED
    BY <2>2, FS_Product
<1>2. IsFiniteSet({{f} \X OccurrencesIn(o[f].items, v) : f \in DOMAIN o})
  <2>1. IsFiniteSet(DOMAIN o)
    <3>1. Len(o) \in Nat /\ DOMAIN o = 1 .. Len(o)
      OBVIOUS
    <3> QED
      BY <3>1, FS_Interval
  <2> DEFINE T == {{f} \X OccurrencesIn(o[f].items, v) : f \in DOMAIN o}
             g == [f \in DOMAIN o |-> {f} \X OccurrencesIn(o[f].items, v)]
  <2>2. g \in Surjection(DOMAIN o, T)
    BY DEF Surjection
  <2> HIDE DEF g, T
  <2>3. IsFiniteSet(T)
    BY <2>1, <2>2, FS_Surjection
  <2> QED
    BY <2>3 DEF T
<1>3. \A f \in DOMAIN o : o[f].items \in Seq(Items)
  <2>1. \A f \in DOMAIN o : o[f] \in FileRecords
    OBVIOUS
  <2> QED
    BY <2>1 DEF FileRecords
<1>4. IsFiniteSet(UNION {{f} \X OccurrencesIn(o[f].items, v) : f \in DOMAIN o})
  <2> DEFINE T == {{f} \X OccurrencesIn(o[f].items, v) : f \in DOMAIN o}
  <2>1. \A S \in T : IsFiniteSet(S)
    BY <1>1, <1>3
  <2>2. IsFiniteSet(T)
    BY <1>2
  <2> HIDE DEF T
  <2>3. IsFiniteSet(UNION T)
    BY <2>1, <2>2, FS_UNION
  <2> QED
    BY <2>3 DEF T
<1>5. IsFiniteSet(Occurrences(o, b, v))
  BY <1>1, <1>4, FS_Union DEF Occurrences
<1> QED
  BY <1>5, FS_CardinalityType

LEMMA FewerOccurrences ==
  ASSUME NEW o \in Seq(FileRecords), NEW b \in Seq(Items), NEW v,
         NEW S \in SUBSET Occurrences(o, b, v)
  PROVE  Cardinality(S) <= Cardinality(Occurrences(o, b, v))
BY OccurrencesFinite, FS_Subset

\* Opening files anew or in place.
LEMMA OpenedOccurrences ==
  ASSUME NEW o \in Seq(FileRecords), NEW b \in Seq(Items), NEW v, NEW again \in BOOLEAN, again => o # <<>>
  PROVE  /\ Occurrences(Opened(o, again), b, v) \subseteq Occurrences(o, b, v)
         /\ Occurrences(o, <<>>, v) \subseteq Occurrences(o, b, v)
<1>1. /\ DOMAIN NewFile.items = {} /\ NewFile \in FileRecords
      /\ DOMAIN <<>> = {}
  BY DEF NewFile, FileRecords
<1>2. /\ DOMAIN o = 1 .. Len(o) /\ Len(o) \in Nat
      /\ \A f \in DOMAIN Opened(o, again) :
           \/ f \in DOMAIN o /\ Opened(o, again)[f] = o[f]
           \/ Opened(o, again)[f] = NewFile
      /\ 0 \notin DOMAIN Opened(o, again)
  <2> HIDE DEF NewFile
  <2>1. CASE again
    BY <1>1, <2>1 DEF Opened
  <2>2. CASE ~again
    BY <1>1, <2>2 DEF Opened
  <2> QED
    BY <2>1, <2>2
<1>3. ASSUME NEW x \in Occurrences(Opened(o, again), b, v) PROVE x \in Occurrences(o, b, v)
  <2> DEFINE p == Opened(o, again)
  <2> HIDE DEF p
  <2>1. x \in Occurrences(p, b, v)
    BY <1>3 DEF p
  <2>2. PICK f, i : x = <<f, i>> /\ (f = 0 \/ f \in DOMAIN p)
    BY <2>1, OccurrencesMembers
  <2>3. CASE f = 0
    BY <1>2, <2>1, <2>2, <2>3, OccurrencesMembers DEF p
  <2>4. CASE f # 0
    <3>1. f \in DOMAIN p /\ i \in DOMAIN p[f].items /\ p[f].items[i].video = v
      BY <2>1, <2>2, <2>4, OccurrencesMembers
    <3>2. f \in DOMAIN o /\ p[f] = o[f]
      BY <1>1, <1>2, <3>1 DEF p
    <3> QED
      BY <2>2, <2>4, <3>1, <3>2, OccurrencesMembers
  <2> QED
    BY <2>3, <2>4
<1>4. OccurrencesIn(<<>>, v) = {}
  BY <1>1 DEF OccurrencesIn
<1> QED
  BY <1>3, <1>4 DEF Occurrences

\* An item more in the buffer.
LEMMA BufferedOccurrences ==
  ASSUME NEW o \in Seq(FileRecords), NEW b \in Seq(Items), NEW v, NEW item \in Items
  PROVE  /\ Cardinality(Occurrences(o, Append(b, item), v)) <= Cardinality(Occurrences(o, b, v)) + 1
         /\ item.video # v =>
              Cardinality(Occurrences(o, Append(b, item), v)) <= Cardinality(Occurrences(o, b, v))
<1> DEFINE longer == Append(b, item)
           n == Len(b) + 1
<1>1. /\ longer \in Seq(Items) /\ n \in Nat /\ longer[n] = item
      /\ \A i \in DOMAIN longer : (i \in DOMAIN b /\ longer[i] = b[i]) \/ i = n
  OBVIOUS
<1> HIDE DEF longer, n
<1>2. OccurrencesIn(longer, v) \subseteq OccurrencesIn(b, v) \cup (IF item.video = v THEN {n} ELSE {})
  BY <1>1 DEF OccurrencesIn
<1>3. Occurrences(o, longer, v) \subseteq
        Occurrences(o, b, v) \cup (IF item.video = v THEN {<<0, n>>} ELSE {})
  BY <1>2 DEF Occurrences
<1>4. IsFiniteSet(Occurrences(o, b, v)) /\ Cardinality(Occurrences(o, b, v)) \in Nat
  BY OccurrencesFinite
<1>5. CASE item.video # v
  <2>1. Occurrences(o, longer, v) \in SUBSET Occurrences(o, b, v)
    BY <1>3, <1>5
  <2>2. Cardinality(Occurrences(o, longer, v)) <= Cardinality(Occurrences(o, b, v))
    BY <1>4, <2>1, FS_Subset
  <2>3. Cardinality(Occurrences(o, longer, v)) \in Nat
    BY <1>1, OccurrencesFinite
  <2>4. Cardinality(Occurrences(o, longer, v)) <= Cardinality(Occurrences(o, b, v)) + 1
    BY <1>4, <2>2, <2>3
  <2> QED
    BY <2>2, <2>4 DEF longer
<1>6. CASE item.video = v
  <2>1. /\ IsFiniteSet(Occurrences(o, b, v))
        /\ Occurrences(o, longer, v) \subseteq Occurrences(o, b, v) \cup {<<0, n>>}
    BY <1>3, <1>4, <1>6
  <2>2. Cardinality(Occurrences(o, longer, v)) <= Cardinality(Occurrences(o, b, v)) + 1
    BY <2>1, OneMoreLost
  <2> QED
    BY <1>6, <2>2 DEF longer
<1> QED
  BY <1>5, <1>6

\* The buffer goes to the end of the last file.
LEMMA WrittenOccurrences ==
  ASSUME NEW o \in Seq(FileRecords), o # <<>>, NEW b \in Seq(Items), NEW r \in FileRecords,
         r.items = o[Len(o)].items \o b, NEW v
  PROVE  Cardinality(Occurrences([o EXCEPT ![Len(o)] = r], <<>>, v)) <= Cardinality(Occurrences(o, b, v))
<1> DEFINE p == [o EXCEPT ![Len(o)] = r]
           n == Len(o)
           m == Len(o[n].items)
           g == [x \in Occurrences(p, <<>>, v) |-> IF x[1] = n /\ x[2] > m THEN <<0, x[2] - m>> ELSE x]
<1>1. /\ p \in Seq(FileRecords) /\ DOMAIN p = 1 .. n /\ DOMAIN o = 1 .. n /\ n \in Nat \ {0}
      /\ p[n] = r /\ \A f \in 1 .. n : f # n => p[f] = o[f]
      /\ o[n] \in FileRecords
  OBVIOUS
<1>2. /\ o[n].items \in Seq(Items) /\ m \in Nat /\ DOMAIN o[n].items = 1 .. m
      /\ DOMAIN r.items = 1 .. m + Len(b) /\ DOMAIN b = 1 .. Len(b) /\ Len(b) \in Nat
      /\ \A i \in 1 .. m : r.items[i] = o[n].items[i]
      /\ \A i \in m + 1 .. m + Len(b) : r.items[i] = b[i - m] /\ i - m \in 1 .. Len(b)
  <2>1. o[n].items \in Seq(Items)
    BY <1>1 DEF FileRecords
  <2> QED
    BY <2>1, SMTT(30)
<1> HIDE DEF p, n, m
<1>3. \A x \in Occurrences(p, <<>>, v) :
        \E f, i : f \in 1 .. n /\ i \in DOMAIN p[f].items /\ x = <<f, i>> /\ p[f].items[i].video = v
  <2> SUFFICES ASSUME NEW x \in Occurrences(p, <<>>, v)
               PROVE  \E f, i : f \in 1 .. n /\ i \in DOMAIN p[f].items /\ x = <<f, i>> /\ p[f].items[i].video = v
    OBVIOUS
  <2>1. PICK f, i : x = <<f, i>> /\ (f = 0 \/ f \in DOMAIN p)
    BY OccurrencesMembers
  <2>2. DOMAIN <<>> = {} /\ 0 \notin DOMAIN p
    BY <1>1
  <2>3. f # 0
    BY <2>1, <2>2, OccurrencesMembers
  <2> QED
    BY <1>1, <2>1, <2>3, OccurrencesMembers
<1>4. ASSUME NEW x \in Occurrences(p, <<>>, v) PROVE g[x] \in Occurrences(o, b, v)
  <2>1. PICK f, i : f \in 1 .. n /\ i \in DOMAIN p[f].items /\ x = <<f, i>> /\ p[f].items[i].video = v
    BY <1>3
  <2>2. CASE f # n
    <3>1. f \in DOMAIN o /\ f # 0 /\ o[f] = p[f] /\ g[x] = <<f, i>>
      BY <1>1, <2>1, <2>2
    <3> QED
      BY <2>1, <3>1, OccurrencesMembers
  <2>3. CASE f = n /\ i > m
    <3>1. p[f] = r /\ i \in m + 1 .. m + Len(b)
      BY <1>1, <1>2, <2>1, <2>3
    <3>2. i - m \in DOMAIN b /\ b[i - m].video = v
      BY <1>2, <2>1, <3>1
    <3>3. g[x] = <<0, i - m>>
      BY <2>1, <2>3
    <3> QED
      BY <3>2, <3>3, OccurrencesMembers
  <2>4. CASE f = n /\ ~(i > m)
    <3>1. p[f] = r /\ i \in 1 .. m /\ f \in DOMAIN o /\ f # 0
      BY <1>1, <1>2, <2>1, <2>4
    <3>2. i \in DOMAIN o[f].items /\ o[f].items[i].video = v
      BY <1>2, <2>1, <2>4, <3>1
    <3>3. g[x] = <<f, i>>
      BY <2>1, <2>4
    <3> QED
      BY <2>1, <3>1, <3>2, <3>3, OccurrencesMembers
  <2> QED
    BY <2>2, <2>3, <2>4
<1>5. ASSUME NEW x \in Occurrences(p, <<>>, v), NEW y \in Occurrences(p, <<>>, v), g[x] = g[y]
      PROVE  x = y
  <2>1. PICK f, i : f \in 1 .. n /\ i \in DOMAIN p[f].items /\ x = <<f, i>>
    BY <1>3
  <2>2. PICK h, j : h \in 1 .. n /\ j \in DOMAIN p[h].items /\ y = <<h, j>>
    BY <1>3
  <2>3. (f = n => i \in Nat) /\ (h = n => j \in Nat)
    BY <1>1, <1>2, <2>1, <2>2
  <2>4. g[x] = IF f = n /\ i > m THEN <<0, i - m>> ELSE <<f, i>>
    BY <2>1
  <2>5. g[y] = IF h = n /\ j > m THEN <<0, j - m>> ELSE <<h, j>>
    BY <2>2
  <2> HIDE DEF g
  <2>6. f # 0 /\ h # 0
    BY <1>1, <2>1, <2>2
  <2> QED
    BY <1>2, <1>5, <2>1, <2>2, <2>3, <2>4, <2>5, <2>6
<1>6. g \in Injection(Occurrences(p, <<>>, v), Occurrences(o, b, v))
  <2>1. g \in [Occurrences(p, <<>>, v) -> Occurrences(o, b, v)]
    BY <1>4
  <2> HIDE DEF g
  <2> QED
    BY <1>5, <2>1 DEF Injection, IsInjective
<1>7. IsFiniteSet(Occurrences(o, b, v))
  BY OccurrencesFinite
<1> HIDE DEF g
<1>8. Cardinality(Occurrences(p, <<>>, v)) <= Cardinality(Occurrences(o, b, v))
  BY <1>6, <1>7, FS_Injection
<1> QED
  BY <1>8 DEF p

PagesIn(fs, v) == {p \in Places : fs["pages"][p][v] # "none"}

CountsInv ==
  /\ cPc \in {"subs", "saved", "unlink"} => files["pages"][sfx][uid] # "none"
  /\ \A v \in Videos :
       Cardinality(Occurrences(out, buffer, v)) + Cardinality(PagesIn(files, v))
         <= fetches[v] + happened["ctrlC"] + happened["kill"]
            + (IF cPc \in {"saved", "unlink"} /\ uid = v THEN 1 ELSE 0)

LEMMA PagesFinite == \A fs, v : IsFiniteSet(PagesIn(fs, v)) /\ Cardinality(PagesIn(fs, v)) \in Nat
<1>1. IsFiniteSet(0 .. LastDay) /\ Places \subseteq 0 .. LastDay
  BY LastDayAssumption, FS_Interval DEF Places, Days, Current
<1> QED
  BY <1>1, FewerLost DEF PagesIn

\* A file for another.
LEMMA OneForOne ==
  ASSUME NEW S, NEW T, IsFiniteSet(S), NEW x \in S, NEW y, T \subseteq (S \ {x}) \cup {y}
  PROVE  Cardinality(T) <= Cardinality(S)
<1>1. /\ IsFiniteSet(S \ {x}) /\ Cardinality(S \ {x}) = Cardinality(S) - 1
      /\ Cardinality(S) \in Nat
  BY FS_RemoveElement, FS_CardinalityType
<1>2. Cardinality(T) \in Nat /\ Cardinality(T) <= Cardinality(S \ {x}) + 1
  BY <1>1, OneMoreLost
<1> QED
  BY <1>1, <1>2

\* The spider makes one page per fetch, and moves pages only to where none are, away
\* from the current directory.
LEMMA SpiderPages ==
  ASSUME TypeInv, RotationInv, OnceInv, [Next]_vars, ~Converting, NEW v \in Videos
  PROVE  /\ Cardinality(PagesIn(files', v)) + fetches[v] <= Cardinality(PagesIn(files, v)) + fetches'[v]
         /\ \A d \in Days : files["pages"][d][v] # "none" => files'["pages"][d][v] # "none"
<1> USE DayFacts
<1>1. DumpsType /\ FilesType /\ ProcessType /\ fetches[v] \in Nat
  BY DEF TypeInv, ProcessType
<1>2. IsFiniteSet(PagesIn(files, v)) /\ Cardinality(PagesIn(files, v)) \in Nat
      /\ Cardinality(PagesIn(files', v)) \in Nat
  BY PagesFinite
<1> DEFINE Goal == /\ Cardinality(PagesIn(files', v)) + fetches[v] <= Cardinality(PagesIn(files, v)) + fetches'[v]
                   /\ \A d \in Days : files["pages"][d][v] # "none" => files'["pages"][d][v] # "none"
<1>3. ASSUME UNCHANGED fetches, Cardinality(PagesIn(files', v)) <= Cardinality(PagesIn(files, v)),
             \A d \in Days : files["pages"][d][v] # "none" => files'["pages"][d][v] # "none"
      PROVE  Goal
  BY <1>1, <1>2, <1>3
<1>4. ASSUME UNCHANGED fetches, \A p \in Places : files'["pages"][p][v] # "none" <=> files["pages"][p][v] # "none"
      PROVE  Goal
  <2>1. PagesIn(files', v) = PagesIn(files, v)
    BY <1>4 DEF PagesIn
  <2> QED
    BY <1>2, <1>3, <1>4, <2>1
<1>5. ASSUME NEW w \in Videos, Fetch(w) PROVE Goal
  <2>1. FileAfter("pages", Current, w, "torn") /\ fetches' = [fetches EXCEPT ![w] = @ + 1]
    BY <1>1, <1>5, PutFacts DEF Fetch, SaveBegin
  <2>2. CASE w = v
    <3>1. fetches'[v] = fetches[v] + 1
      BY <1>1, <2>1, <2>2 DEF ProcessType
    <3>2. PagesIn(files', v) \subseteq PagesIn(files, v) \cup {Current}
      BY <1>1, <2>1 DEF FileAfter, PagesIn
    <3>3. Cardinality(PagesIn(files', v)) <= Cardinality(PagesIn(files, v)) + 1
      BY <1>2, <3>2, OneMoreLost
    <3>4. \A d \in Days : files["pages"][d][v] # "none" => files'["pages"][d][v] # "none"
      BY <1>1, <2>1 DEF FileAfter
    <3> QED
      BY <1>1, <1>2, <3>1, <3>3, <3>4
  <2>3. CASE w # v
    <3>1. fetches'[v] = fetches[v] /\ \A p \in Places : files'["pages"][p][v] = files["pages"][p][v]
      BY <1>1, <2>1, <2>3 DEF FileAfter, ProcessType
    <3>2. PagesIn(files', v) = PagesIn(files, v)
      BY <3>1 DEF PagesIn
    <3> QED
      BY <1>1, <1>2, <3>1, <3>2
  <2> QED
    BY <2>2, <2>3
<1>6. ASSUME NEW w \in Videos, SaveOn(w) PROVE Goal
  <2>1. /\ UNCHANGED fetches
        /\ \/ FileAfter("pages", Current, w, "whole") /\ files["pages"][Current][w] # "none"
           \/ \E c \in {"torn", "whole"} : FileAfter("subs", Current, w, c)
    BY <1>1, <1>6, PutFacts DEF SaveOn, SaveStep, OnceInv, spiderVars, historyVars
  <2>2. \A p \in Places : files'["pages"][p][v] # "none" <=> files["pages"][p][v] # "none"
    BY <1>1, <2>1 DEF FileAfter
  <2> QED
    BY <1>4, <2>1, <2>2
<1>7. CASE CreateOn
  <2>1. UNCHANGED fetches
    BY <1>7 DEF CreateOn, spiderVars, historyVars
  <2>2. CASE RenameDir
    <3>1. /\ DirAfter(rotKind, today) /\ today \in Places /\ today # Current /\ rotKind \in Kinds
          /\ files[rotKind][today][v] = "none"
      BY <1>1, <2>2, RenameFacts DEF RenameDir, Exists, RotationInv, DumpsType, Days, Current
    <3>2. CASE rotKind = "pages" /\ files["pages"][Current][v] # "none"
      <4>1. Current \in PagesIn(files, v) /\ PagesIn(files', v) \subseteq (PagesIn(files, v) \ {Current}) \cup {today}
        BY <1>1, <3>1, <3>2 DEF DirAfter, PagesIn
      <4>2. Cardinality(PagesIn(files', v)) <= Cardinality(PagesIn(files, v))
        BY <1>2, <4>1, OneForOne
      <4>3. \A d \in Days : files["pages"][d][v] # "none" => files'["pages"][d][v] # "none"
        BY <1>1, <3>1, <3>2 DEF DirAfter, Days, Current
      <4> QED
        BY <1>3, <2>1, <4>2, <4>3
    <3>3. CASE ~(rotKind = "pages" /\ files["pages"][Current][v] # "none")
      <4>1. \A p \in Places : files'["pages"][p][v] # "none" <=> files["pages"][p][v] # "none"
        BY <1>1, <3>1, <3>3 DEF DirAfter
      <4> QED
        BY <1>4, <2>1, <4>1
    <3> QED
      BY <3>2, <3>3
  <2>3. CASE MakeDir \/ ListDir \/ MoveDone
    <3>1. UNCHANGED files
      BY <2>3 DEF MakeDir, ListDir, MoveDone, dumpVars
    <3> QED
      BY <1>4, <2>1, <3>1
  <2>4. CASE MoveFile
    <3>1. PICK w \in moving : MovedAfter(rotKind, w, rotDay)
      BY <1>1, <2>4, MoveFacts
    <3>2. /\ rotDay \in Places /\ rotDay # Current /\ rotKind \in Kinds /\ w \in Videos
          /\ files[rotKind][Current][w] # "none"
      BY <1>1, <2>4 DEF MoveFile, RotationInv, DumpsType, Days, Current
    <3>3. CASE rotKind = "pages" /\ w = v
      <4>1. Current \in PagesIn(files, v) /\ PagesIn(files', v) \subseteq (PagesIn(files, v) \ {Current}) \cup {rotDay}
        BY <1>1, <3>1, <3>2, <3>3 DEF MovedAfter, PagesIn
      <4>2. Cardinality(PagesIn(files', v)) <= Cardinality(PagesIn(files, v))
        BY <1>2, <4>1, OneForOne
      <4>3. \A d \in Days : files["pages"][d][v] # "none" => files'["pages"][d][v] # "none"
        BY <1>1, <3>1, <3>2, <3>3 DEF MovedAfter, Days, Current
      <4> QED
        BY <1>3, <2>1, <4>2, <4>3
    <3>4. CASE ~(rotKind = "pages" /\ w = v)
      <4>1. \A p \in Places : files'["pages"][p][v] # "none" <=> files["pages"][p][v] # "none"
        BY <1>1, <3>1, <3>2, <3>4 DEF MovedAfter
      <4> QED
        BY <1>4, <2>1, <4>1
    <3> QED
      BY <3>3, <3>4
  <2> QED
    BY <1>7, <2>2, <2>3, <2>4 DEF CreateOn, CreateEmptyDirs
<1>8. CASE UNCHANGED <<files, fetches>>
  BY <1>4, <1>8
<1> QED
  BY <1>5, <1>6, <1>7, <1>8
     DEF Next, Spider, SpiderStart, Reload, RotateOn, LogsRotated, Stop, Crash, Down, Midnight, vars, dumpVars,
         historyVars, spiderVars

\* Only where an item is saved, one more.
LEMMA ConverterOccurrences ==
  ASSUME ConverterType, DumpsType, ConverterStep, NEW v \in Videos
  PROVE  /\ Cardinality(Occurrences(out', buffer', v)) \in Nat
         /\ \/ Cardinality(Occurrences(out', buffer', v)) <= Cardinality(Occurrences(out, buffer, v))
            \/ /\ Save /\ uid = v
               /\ Cardinality(Occurrences(out', buffer', v)) <= Cardinality(Occurrences(out, buffer, v)) + 1
<1> DEFINE N == Cardinality(Occurrences(out, buffer, v))
           M == Cardinality(Occurrences(out', buffer', v))
<1>1. /\ out \in Seq(FileRecords) /\ buffer \in Seq(Items) /\ <<>> \in Seq(Items)
      /\ N \in Nat
  <2>1. out \in Seq(FileRecords) /\ buffer \in Seq(Items) /\ <<>> \in Seq(Items)
    BY DEF ConverterType, FileRecords
  <2> QED
    BY <2>1, OccurrencesFinite
<1>2. M \in Nat
  <2>1. out' \in Seq(FileRecords) /\ buffer' \in Seq(Items)
    BY ConverterKeepsType DEF ConverterType, FileRecords
  <2> QED
    BY <2>1, OccurrencesFinite
<1>4. ASSUME UNCHANGED <<out, buffer>> PROVE M <= N
  BY <1>1, <1>4
<1>5. ASSUME NEW b \in BOOLEAN, Start(b) PROVE M <= N
  <2>1. out' = Opened(out, b) /\ buffer' = buffer /\ (b => out # <<>>)
    BY <1>5 DEF Start, CanOpen
  <2>2. Occurrences(out', buffer', v) \in SUBSET Occurrences(out, buffer, v)
    BY <1>1, <2>1, OpenedOccurrences
  <2> QED
    BY <1>1, <2>2, FewerOccurrences
<1>6. ASSUME out # <<>>
      PROVE  Ended(out) \in Seq(FileRecords) \ {<<>>} /\ Cardinality(Occurrences(Ended(out), <<>>, v)) <= N
  <2> DEFINE r == [items |-> out[Len(out)].items \o buffer, ended |-> TRUE]
  <2>1. out[Len(out)] \in FileRecords
    BY <1>1, <1>6
  <2>2. r \in FileRecords
    BY <1>1, <2>1 DEF FileRecords
  <2>3. Ended(out) = [out EXCEPT ![Len(out)] = r]
    BY <1>1, <1>6 DEF Ended
  <2>4. r.items = out[Len(out)].items \o buffer
    OBVIOUS
  <2> HIDE DEF r
  <2>5. Cardinality(Occurrences([out EXCEPT ![Len(out)] = r], <<>>, v)) <= N
    BY <1>1, <1>6, <2>2, <2>4, WrittenOccurrences
  <2>6. Ended(out) \in Seq(FileRecords) \ {<<>>}
    BY <1>1, <1>6, OutFacts DEF Ended
  <2> QED
    BY <2>3, <2>5, <2>6
<1>7. ASSUME NEW b \in BOOLEAN, OpenNewFile(b) PROVE M <= N
  <2>1. out' = Opened(Ended(out), b) /\ buffer' = <<>> /\ out # <<>>
    BY <1>7 DEF OpenNewFile, ConverterType
  <2>2. Ended(out) \in Seq(FileRecords) \ {<<>>}
    BY <1>6, <2>1
  <2>3. Occurrences(out', buffer', v) \in SUBSET Occurrences(Ended(out), <<>>, v)
    BY <1>1, <2>1, <2>2, OpenedOccurrences
  <2>4. M <= Cardinality(Occurrences(Ended(out), <<>>, v))
    BY <1>1, <2>2, <2>3, FewerOccurrences
  <2>5. Cardinality(Occurrences(Ended(out), <<>>, v)) \in Nat
    BY <1>1, <2>2, OccurrencesFinite
  <2> QED
    BY <1>1, <1>2, <1>6, <2>1, <2>4, <2>5
<1>8. ASSUME Close PROVE M <= N
  <2>1. out' = Ended(out) /\ buffer' = <<>> /\ out # <<>>
    BY <1>8 DEF Close, ConverterType
  <2> QED
    BY <1>6, <2>1
<1>9. ASSUME WriteBuffer PROVE M <= N
  <2> DEFINE r == [out[Len(out)] EXCEPT !.items = @ \o buffer]
  <2>1. out' = [out EXCEPT ![Len(out)].items = @ \o buffer] /\ buffer' = <<>> /\ out # <<>>
    BY <1>9 DEF WriteBuffer, ConverterType
  <2>2. out[Len(out)] \in FileRecords
    BY <1>1, <2>1
  <2>3. out[Len(out)].items \o buffer \in Seq(Items)
    BY <1>1, <2>2 DEF FileRecords
  <2>6. r \in FileRecords /\ r.items = out[Len(out)].items \o buffer
    BY <2>2, <2>3 DEF FileRecords
  <2>4. out' = [out EXCEPT ![Len(out)] = r]
    BY <1>1, <2>1
  <2> HIDE DEF r
  <2>5. Cardinality(Occurrences([out EXCEPT ![Len(out)] = r], <<>>, v)) <= N
    BY <1>1, <2>1, <2>6, WrittenOccurrences
  <2> QED
    BY <2>1, <2>4, <2>5
<1>10. ASSUME Kill PROVE M <= N
  <2>1. out' = out /\ buffer' = <<>>
    BY <1>10 DEF Kill, readVars
  <2>2. Occurrences(out', buffer', v) \in SUBSET Occurrences(out, buffer, v)
    <3>1. ASSUME NEW again \in BOOLEAN, ~again
          PROVE  Occurrences(out, <<>>, v) \subseteq Occurrences(out, buffer, v)
      BY <1>1, <3>1, OpenedOccurrences
    <3> QED
      BY <2>1, <3>1
  <2>3. M <= N
    BY <1>1, <2>2, FewerOccurrences
  <2> QED
    BY <2>3
<1>11. ASSUME Save PROVE M <= N \/ (uid = v /\ M <= N + 1)
  <2>1. PICK c \in BOOLEAN : buffer' = Append(buffer, ItemOf(uid, c))
    <3>1. (files["subs"][sfx][uid] = "whole") \in BOOLEAN
      OBVIOUS
    <3> QED
      BY <1>11, <3>1, Zenon DEF Save
  <2> DEFINE item == ItemOf(uid, c)
  <2>2. out' = out /\ item.video = uid
    BY <1>11 DEF Save, readVars, ItemOf
  <2>3. item \in Items
    <3>1. \A i \in DOMAIN info_map : i \in Nat \ {0}
      BY DEF ConverterType, Codes
    <3>2. (CHOOSE i \in DOMAIN info_map : info_map[i] = quality[uid]) \in Nat \ {0}
      BY <1>11, <3>1 DEF Save, ConverterType
    <3> QED
      BY <3>2 DEF ItemOf, Items, ConverterType
  <2> HIDE DEF item
  <2>4. /\ Cardinality(Occurrences(out, Append(buffer, item), v)) <= N + 1
        /\ item.video # v => Cardinality(Occurrences(out, Append(buffer, item), v)) <= N
    BY <1>1, <2>3, BufferedOccurrences
  <2>5. buffer' = Append(buffer, item)
    BY <2>1 DEF item
  <2> QED
    BY <1>11, <1>1, <1>2, <2>2, <2>4, <2>5
<1>12. ASSUME \/ NextDir \/ ReadPage \/ NoSubtitles \/ UnlinkPage \/ UnlinkSub
              \/ DirDone \/ RunDone \/ RunRaises \/ DumpMapping
       PROVE  M <= N
  BY <1>4, <1>12 DEF NextDir, ReadPage, NoSubtitles, UnlinkPage, UnlinkSub, Unlink, DirDone, RunDone, RunRaises,
                          TruncateMapping, DumpMapping, readVars
<1> QED
  BY <1>2, <1>5, <1>7, <1>8, <1>9, <1>10, <1>11, <1>12 DEF ConverterStep, GoesOn, Convert

\* The converter deletes a page it knows is there, once it has the item.
LEMMA ConverterPages ==
  ASSUME ConverterType, FilesType, DumpsType, CountsInv, ConverterStep, NEW v \in Videos
  PROVE  /\ \/ PagesIn(files', v) = PagesIn(files, v)
            \/ UnlinkPage /\ uid = v /\ PagesIn(files', v) = PagesIn(files, v) \ {sfx} /\ sfx \in PagesIn(files, v)
         /\ UnlinkPage => cPc \in {"saved", "unlink"} /\ files["pages"][sfx][uid] # "none" /\ cPc' = "unlinkSub"
         /\ UnlinkPage /\ uid = v => sfx \in PagesIn(files, v) /\ PagesIn(files', v) = PagesIn(files, v) \ {sfx}
         /\ ~UnlinkPage => \A p \in Places, w \in Videos : files'["pages"][p][w] = files["pages"][p][w]
<1> USE DayFacts
<1>1. sfx \in Places /\ uid \in Videos
  BY DEF ConverterType
<1>2. ASSUME UnlinkPage
      PROVE  /\ cPc \in {"saved", "unlink"} /\ files["pages"][sfx][uid] # "none" /\ cPc' = "unlinkSub"
             /\ FileAfter("pages", sfx, uid, "none")
  <2>1. cPc \in {"saved", "unlink"} /\ files["pages"][sfx][uid] # "none"
    BY <1>2 DEF UnlinkPage, CountsInv
  <2>2. Put("pages", sfx, uid, "none") /\ cPc' = "unlinkSub"
    BY <1>2, <2>1 DEF UnlinkPage, Unlink, Put
  <2> QED
    BY <1>1, <2>1, <2>2, PutFacts
<1>3. ASSUME ~UnlinkPage, NEW p \in Places, NEW w \in Videos PROVE files'["pages"][p][w] = files["pages"][p][w]
  <2>1. CASE UnlinkSub
    <3>1. Put("subs", sfx, uid, "none")
      BY <2>1 DEF UnlinkSub, Unlink, Put
    <3>2. FileAfter("subs", sfx, uid, "none")
      BY <1>1, <3>1, PutFacts
    <3> QED
      BY <1>1, <3>2 DEF FileAfter
  <2>2. CASE ~UnlinkSub
    <3>1. UNCHANGED files
      BY <1>3, <2>2 DEF ConverterStep, GoesOn, Convert, Start, OpenNewFile, NextDir, ReadPage, NoSubtitles, Save,
                        DirDone, WriteBuffer, RunDone, RunRaises, TruncateMapping, DumpMapping, Close, Kill
    <3> QED
      BY <3>1
  <2> QED
    BY <2>1, <2>2
<1>4. ASSUME ~UnlinkPage PROVE PagesIn(files', v) = PagesIn(files, v)
  BY <1>3, <1>4 DEF PagesIn
<1>5. ASSUME UnlinkPage, uid = v
      PROVE  sfx \in PagesIn(files, v) /\ PagesIn(files', v) = PagesIn(files, v) \ {sfx}
  BY <1>1, <1>2, <1>5 DEF PagesIn, FileAfter
<1>6. ASSUME UnlinkPage, uid # v PROVE PagesIn(files', v) = PagesIn(files, v)
  BY <1>1, <1>2, <1>6 DEF PagesIn, FileAfter
<1> QED
  BY <1>2, <1>3, <1>4, <1>5, <1>6

\* Where the item in hand is counted, and where it no longer is.
LEMMA ItemInHand ==
  ASSUME ConverterStep
  PROVE  /\ cPc \in {"saved", "unlink"} =>
              \/ cPc' \in {"saved", "unlink"} /\ uid' = uid
              \/ UnlinkPage \/ RunRaises \/ Kill
         /\ Save => cPc' = "saved" /\ uid' = uid /\ cPc = "subs"
         /\ cPc' \in {"saved", "unlink"} => cPc \in {"subs", "saved", "unlink"} /\ uid' = uid /\ sfx' = sfx /\ ~UnlinkPage
         /\ cPc' = "subs" => files["pages"][sfx'][uid'] # "none" \/ (cPc = "subs" /\ uid' = uid /\ sfx' = sfx)
<1>1. CASE Start(FALSE) \/ Start(TRUE) \/ OpenNewFile(FALSE) \/ OpenNewFile(TRUE)
  BY <1>1 DEF Start, OpenNewFile, UnlinkPage, Unlink, Save
<1>2. CASE ReadPage
  <2>1. /\ cPc = "files" /\ cPc' \in {"subs", "files"} /\ sfx' = sfx
        /\ cPc' = "subs" => files["pages"][sfx][uid'] # "none"
    BY <1>2 DEF ReadPage
  <2> QED
    BY <2>1 DEF Save
<1>3. CASE NextDir \/ NoSubtitles \/ UnlinkSub \/ DirDone \/ RunDone \/ DumpMapping \/ Close \/ RunRaises \/ Kill
  <2>1. cPc' \in {"files", "dirs", "unlinkSub", "dump", "close", "off"} /\ (cPc \in {"saved", "unlink"} => RunRaises \/ Kill)
    BY <1>3 DEF NextDir, NoSubtitles, UnlinkSub, Unlink, DirDone, RunDone, RunRaises, TruncateMapping, DumpMapping,
                Close, Kill
  <2>2. ~Save
    BY <2>1 DEF Save
  <2> QED
    BY <2>1, <2>2
<1>4. CASE Save
  BY <1>4 DEF Save, UnlinkPage
<1>5. CASE UnlinkPage
  <2>1. cPc' \in {"files", "unlinkSub"} /\ cPc \in {"saved", "unlink"}
    BY <1>5 DEF UnlinkPage, Unlink
  <2> QED
    BY <1>5, <2>1 DEF Save
<1>6. CASE WriteBuffer
  <2>1. UNCHANGED <<cPc, uid, sfx>>
    BY <1>6 DEF WriteBuffer
  <2>2. UnlinkPage => cPc' \in {"files", "unlinkSub"} /\ cPc \in {"saved", "unlink"}
    BY DEF UnlinkPage, Unlink
  <2>3. Save => cPc' = "saved" /\ cPc = "subs"
    BY DEF Save
  <2> QED
    BY <2>1, <2>2, <2>3
<1> QED
  BY <1>1, <1>2, <1>3, <1>4, <1>5, <1>6 DEF ConverterStep, GoesOn, Convert

LEMMA NextCountsInv ==
  TypeInv /\ RotationInv /\ OnceInv /\ CountsInv /\ [Next]_vars => CountsInv'
<1> SUFFICES ASSUME TypeInv, RotationInv, OnceInv, CountsInv, [Next]_vars PROVE CountsInv'
  OBVIOUS
<1> USE DayFacts
<1>1. /\ DumpsType /\ FilesType /\ ConverterType /\ ProcessType
      /\ fetches \in [Videos -> Nat] /\ fetches' \in [Videos -> Nat]
  BY NextTypeInv DEF TypeInv, ProcessType
<1>2. /\ happened["ctrlC"] \in Nat /\ happened["kill"] \in Nat
      /\ happened'["ctrlC"] \in Nat /\ happened'["kill"] \in Nat
      /\ happened["ctrlC"] <= happened'["ctrlC"] /\ happened["kill"] <= happened'["kill"]
  <2>1. TypeInv' /\ "ctrlC" \in Events /\ "kill" \in Events
    BY NextTypeInv DEF Events
  <2> QED
    BY <2>1, HappenedGrows DEF TypeInv, ProcessType
<1>3. \A v \in Videos : /\ Cardinality(PagesIn(files, v)) \in Nat /\ Cardinality(PagesIn(files', v)) \in Nat
                        /\ Cardinality(Occurrences(out, buffer, v)) \in Nat
  <2>1. out \in Seq(FileRecords) /\ buffer \in Seq(Items)
    BY <1>1 DEF ConverterType, FileRecords
  <2> QED
    BY <2>1, PagesFinite, OccurrencesFinite
<1> DEFINE Extra(pc, u, v) == IF pc \in {"saved", "unlink"} /\ u = v THEN 1 ELSE 0
<1>4. CASE ~Converting
  <2>1. UNCHANGED conVars
    BY <1>4 DEF Next, Spider, SpiderStart, Fetch, SaveOn, Reload, RotateOn, LogsRotated, CreateOn,
                Stop, Crash, Down, Midnight, vars
  <2>2. UNCHANGED <<cPc, sfx, uid, out, buffer>>
    BY <2>1 DEF conVars
  <2>3. cPc' \in {"subs", "saved", "unlink"} => files'["pages"][sfx'][uid'] # "none"
    <3>1. uid \in Videos /\ sfx \in Days
      BY <1>1 DEF ConverterType
    <3> QED
      BY <1>4, <2>2, <3>1, SpiderPages DEF CountsInv
  <2>4. ASSUME NEW v \in Videos
        PROVE  Cardinality(Occurrences(out', buffer', v)) + Cardinality(PagesIn(files', v))
                 <= fetches'[v] + happened'["ctrlC"] + happened'["kill"] + Extra(cPc', uid', v)
    <3>1. Cardinality(Occurrences(out', buffer', v)) = Cardinality(Occurrences(out, buffer, v))
      BY <2>2
    <3>2. Extra(cPc', uid', v) = Extra(cPc, uid, v) /\ Extra(cPc, uid, v) \in Nat
      BY <2>2
    <3>3. Cardinality(PagesIn(files', v)) + fetches[v] <= Cardinality(PagesIn(files, v)) + fetches'[v]
      BY <1>4, SpiderPages
    <3>4. Cardinality(Occurrences(out, buffer, v)) + Cardinality(PagesIn(files, v))
            <= fetches[v] + happened["ctrlC"] + happened["kill"] + Extra(cPc, uid, v)
      BY DEF CountsInv
    <3>5. fetches[v] \in Nat /\ fetches'[v] \in Nat
      BY <1>1
    <3> HIDE DEF Extra
    <3> QED
      BY <1>2, <1>3, <3>1, <3>2, <3>3, <3>4, <3>5
  <2> QED
    BY <2>3, <2>4 DEF CountsInv
<1>5. CASE Converting
  <2>1. ConverterStep /\ UNCHANGED fetches
    BY <1>5, ConvertingStep DEF BesideConverter, spiderVars, historyVars
  <2>2. (RunRaises \/ Kill) /\ cPc \in {"saved", "unlink"} =>
          happened["ctrlC"] + happened["kill"] + 1 <= happened'["ctrlC"] + happened'["kill"]
    <3> SUFFICES ASSUME RunRaises \/ Kill, cPc \in {"saved", "unlink"}
                 PROVE  happened["ctrlC"] + happened["kill"] + 1 <= happened'["ctrlC"] + happened'["kill"]
      OBVIOUS
    <3>1. cPc' \in {"dump", "off"}
      BY DEF RunRaises, TruncateMapping, Kill
    <3>2. Spend("ctrlC") \/ Spend("kill")
      BY <1>5, <3>1 DEF Converting, ConvertStart, NextFile, Start, OpenNewFile, Convert, NextDir, ReadPage, NoSubtitles,
                        Save, UnlinkPage, UnlinkSub, Unlink, DirDone, WriteBuffer, RunDone, DumpMapping, Close
    <3>3. happened'["ctrlC"] = happened["ctrlC"] + 1 \/ happened'["kill"] = happened["kill"] + 1
      BY <1>1, <3>2 DEF Spend, ProcessType, Events
    <3> QED
      BY <1>2, <3>3
  <2>3. cPc' \in {"subs", "saved", "unlink"} => files'["pages"][sfx'][uid'] # "none"
    <3>1. uid' \in Videos /\ sfx' \in Places
      BY <1>1, <2>1, ConverterKeepsType DEF ConverterType
    <3>2. cPc' \in {"subs", "saved", "unlink"} => files["pages"][sfx'][uid'] # "none" /\ ~UnlinkPage
      <4>1. UnlinkPage => cPc' = "unlinkSub"
        BY <1>1, <2>1, ConverterPages DEF ConverterType
      <4> QED
        BY <2>1, <4>1, ItemInHand DEF CountsInv
    <3>3. ~UnlinkPage => files'["pages"][sfx'][uid'] = files["pages"][sfx'][uid']
      BY <1>1, <2>1, <3>1, ConverterPages
    <3> QED
      BY <3>2, <3>3
  <2>4. ASSUME NEW v \in Videos
        PROVE  Cardinality(Occurrences(out', buffer', v)) + Cardinality(PagesIn(files', v))
                 <= fetches'[v] + happened'["ctrlC"] + happened'["kill"] + Extra(cPc', uid', v)
    <3> DEFINE N == Cardinality(Occurrences(out, buffer, v))
               M == Cardinality(Occurrences(out', buffer', v))
               C == Cardinality(PagesIn(files, v))
               D == Cardinality(PagesIn(files', v))
               X == Extra(cPc, uid, v)
               Y == Extra(cPc', uid', v)
    <3>1. /\ M \in Nat
          /\ M <= N \/ (Save /\ uid = v /\ M <= N + 1)
      BY <1>1, <2>1, ConverterOccurrences
    <3>2. /\ D <= C
          /\ UnlinkPage /\ uid = v => D <= C - 1
      <4>1. /\ PagesIn(files', v) \subseteq PagesIn(files, v)
            /\ UnlinkPage /\ uid = v => sfx \in PagesIn(files, v) /\ PagesIn(files', v) = PagesIn(files, v) \ {sfx}
        BY <1>1, <2>1, ConverterPages
      <4>2. IsFiniteSet(PagesIn(files, v))
        BY PagesFinite
      <4> QED
        BY <4>1, <4>2, FewerLost, FS_RemoveElement
    <3>3. /\ X \in {0, 1} /\ Y \in {0, 1}
          /\ X = 1 => \/ Y = 1 \/ (UnlinkPage /\ uid = v)
                      \/ (RunRaises \/ Kill) /\ cPc \in {"saved", "unlink"}
          /\ Save /\ uid = v => X = 0 /\ Y = 1
      BY <2>1, ItemInHand
    <3>4. N + C <= fetches[v] + happened["ctrlC"] + happened["kill"] + X
      BY DEF CountsInv
    <3>5. N \in Nat /\ C \in Nat /\ D \in Nat /\ fetches[v] \in Nat /\ fetches'[v] = fetches[v]
      BY <1>1, <1>3, <2>1
    <3> HIDE DEF N, M, C, D, X, Y
    <3>6. ~Save \/ ~UnlinkPage
      BY DEF Save, UnlinkPage
    <3>7. M + D <= fetches[v] + happened'["ctrlC"] + happened'["kill"] + Y
      BY <1>2, <2>2, <3>1, <3>2, <3>3, <3>4, <3>5, <3>6
    <3> QED
      BY <3>5, <3>7 DEF M, D, Y
  <2> QED
    BY <2>3, <2>4 DEF CountsInv
<1> QED
  BY <1>4, <1>5

LEMMA InitCounts == Init => CountsInv
<1> SUFFICES ASSUME Init PROVE CountsInv
  OBVIOUS
<1>1. cPc = "off" /\ out = <<>> /\ buffer = <<>> /\ \A v \in Videos : fetches[v] = 0
  BY DEF Init, ConverterInit
<1>2. happened["ctrlC"] = 0 /\ happened["kill"] = 0
  BY DEF Init, Events
<1>3. ASSUME NEW v \in Videos
      PROVE  Cardinality(Occurrences(out, buffer, v)) = 0 /\ Cardinality(PagesIn(files, v)) = 0
  <2>1. Occurrences(out, buffer, v) = {}
    <3>1. DOMAIN <<>> = {}
      OBVIOUS
    <3> QED
      BY <1>1, <3>1 DEF Occurrences, OccurrencesIn
  <2>2. PagesIn(files, v) = {}
    BY DayFacts DEF Init, DumpsInit, NoFiles, PagesIn
  <2> QED
    BY <2>1, <2>2, FS_EmptySet
<1> QED
  BY <1>1, <1>2, <1>3 DEF CountsInv

(* However the converter is stopped and started, and whatever the spider does *)
(* beside it, a video becomes one item per time it was fetched, and one more  *)
(* only for a converter that was stopped with the item written and the page   *)
(* still there: the items and the pages there are of a video are no more than *)
(* its fetches, but for the item in hand.                                     *)
THEOREM OneItemForEach == Spec => []OneItemEach
<1>1. TypeInv /\ CountsInv => OneItemEach
  <2> SUFFICES ASSUME TypeInv, CountsInv, NEW v \in Videos
               PROVE  Cardinality(OccurrencesOf(v)) <= fetches[v] + happened["ctrlC"] + happened["kill"]
    BY DEF OneItemEach
  <2>1. OccurrencesOf(v) = Occurrences(out, buffer, v)
    BY DEF OccurrencesOf, Occurrences
  <2>2. /\ Cardinality(Occurrences(out, buffer, v)) \in Nat
        /\ fetches[v] \in Nat /\ happened["ctrlC"] \in Nat /\ happened["kill"] \in Nat
    BY OccurrencesFinite DEF TypeInv, ConverterType, FileRecords, ProcessType, Events
  <2>3. IsFiniteSet(PagesIn(files, v)) /\ Cardinality(PagesIn(files, v)) \in Nat
    BY PagesFinite
  <2>4. cPc \in {"saved", "unlink"} /\ uid = v => Cardinality(PagesIn(files, v)) >= 1
    <3>1. cPc \in {"saved", "unlink"} /\ uid = v => sfx \in PagesIn(files, v)
      BY DayFacts DEF CountsInv, PagesIn, TypeInv, ConverterType
    <3>2. Cardinality(PagesIn(files, v)) = 0 => PagesIn(files, v) = {}
      BY <2>3, FS_EmptySet
    <3> QED
      BY <2>3, <3>1, <3>2
  <2> QED
    BY <2>1, <2>2, <2>3, <2>4 DEF CountsInv
<1> QED
  BY <1>1, InitTypeInv, NextTypeInv, InitKeepsInv, NextKeepsInv, InitPairs, NextOnceInv, InitCounts, NextCountsInv,
     PTL DEF Spec, KeepsInv
=============================================================================
