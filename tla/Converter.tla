----------------------------- MODULE Converter -----------------------------
(***************************************************************************)
(* The converter (converter.py), a process of its own beside the spider:   *)
(* it turns the pairs of page and subtitles in the dated directories into  *)
(* items of an XML file and deletes them.  What it writes stays in the     *)
(* buffer of the file for a while, and the file ends with </items> when it *)
(* is closed.  Of the values that are replaced by codes (getMetaInfo) the  *)
(* quality stands for all.                                                 *)
(***************************************************************************)
EXTENDS Dumps, SequencesExt

CONSTANTS quality,     \* the quality a video's page names
          MaxFiles     \* bound on the output files

ASSUME MaxFilesAssumption == MaxFiles \in Nat

VARIABLES cPc,
          dirs_sfx, uids,      \* dates and videos still to go through
          sfx, uid,            \* the ones in hand
          info_map,            \* the qualities in the order of their codes
          mapping_file,        \* the same, on disk
          mapping_torn,        \* truncated, not dumped yet
          buffer,              \* items not written to the file in progress yet
          out                  \* output files, named by ascending seconds

conVars == <<cPc, dirs_sfx, uids, sfx, uid, info_map, mapping_file, mapping_torn, buffer, out>>
readVars == <<mapping_file, mapping_torn, out>>

ConverterInit ==
  /\ cPc = "off" /\ dirs_sfx = {} /\ uids = {} /\ sfx = 1 /\ uid \in Videos
  /\ info_map = <<>> /\ mapping_file = <<>> /\ mapping_torn = FALSE
  /\ buffer = <<>> /\ out = <<>>

NewFile == [items |-> <<>>, ended |-> FALSE]

\* openNewFile and __del__ write what there is, </items> included.
Ended(files_) == [files_ EXCEPT ![Len(files_)] = [items |-> @.items \o buffer, ended |-> TRUE]]

\* A file named by the current second: the name may be that of the last file, which
\* is then written anew.
Opened(files_, sameSecond) ==
  IF sameSecond THEN [files_ EXCEPT ![Len(files_)] = NewFile] ELSE Append(files_, NewFile)

CanOpen(sameSecond) == IF sameSecond THEN out # <<>> ELSE Len(out) < MaxFiles

\* __init__, and the listing run() begins with.  json.load refuses a torn file.
Start(sameSecond) ==
  /\ cPc = "off" /\ ~mapping_torn /\ CanOpen(sameSecond)
  /\ info_map' = mapping_file
  /\ out' = Opened(out, sameSecond)
  /\ dirs_sfx' = dirs["pages"] \ {Current}
  /\ cPc' = "dirs"
  /\ UNCHANGED <<files, uids, sfx, uid, mapping_file, mapping_torn, buffer>>

NextDir ==
  /\ cPc = "dirs"
  /\ \E d \in dirs_sfx :
       /\ dirs_sfx' = dirs_sfx \ {d}
       /\ sfx' = d
       /\ uids' = {v \in Videos : files["pages"][d][v] # "none"}
  /\ cPc' = "files"
  /\ UNCHANGED <<files, uid, info_map, buffer, readVars>>

\* setdefault(value, len(map)).
Registered(q) == IF Contains(info_map, q) THEN info_map ELSE Append(info_map, q)

\* Any page, whole or torn, may lack what parsePage looks for (ValueError, KeyError),
\* in front of the quality or behind it, and is left where it is.
ReadPage ==
  /\ cPc = "files"
  /\ \E v \in uids :
       /\ uids' = uids \ {v}
       /\ uid' = v
       /\ \/ cPc' = "files" /\ info_map' = info_map
          \/ /\ files["pages"][sfx][v] # "none"
             /\ cPc' \in {"files", "subs"} /\ info_map' = Registered(quality[v])
  /\ UNCHANGED <<files, dirs_sfx, sfx, buffer, readVars>>

NoSubtitles ==
  /\ cPc = "subs" /\ files["subs"][sfx][uid] = "none"
  /\ cPc' = "files"
  /\ UNCHANGED <<files, dirs_sfx, uids, sfx, uid, info_map, buffer, readVars>>

ItemOf(v, complete) ==
  [video |-> v, complete |-> complete,
   code |-> CHOOSE i \in DOMAIN info_map : info_map[i] = quality[v]]

\* parseSub finds what it finds: a torn file is no error.
Save ==
  /\ cPc = "subs" /\ files["subs"][sfx][uid] # "none"
  /\ buffer' = Append(buffer, ItemOf(uid, files["subs"][sfx][uid] = "whole"))
  /\ cPc' = "saved"
  /\ UNCHANGED <<files, dirs_sfx, uids, sfx, uid, info_map, readVars>>

\* More than flush_after characters.
OpenNewFile(sameSecond) ==
  /\ cPc = "saved" /\ CanOpen(sameSecond)
  /\ out' = Opened(Ended(out), sameSecond)
  /\ buffer' = <<>>
  /\ cPc' = "unlink"
  /\ UNCHANGED <<files, dirs_sfx, uids, sfx, uid, info_map, mapping_file, mapping_torn>>

\* Slip: the files stay where they are.
UnlinkNothing(kind, next) ==
  /\ cPc' = next
  /\ UNCHANGED <<files, dirs_sfx, uids, sfx, uid, info_map, buffer, readVars>>

\* os.unlink of a file that is not there: FileNotFoundError, on to the next.
Unlink(kind, next) ==
  /\ files' = [files EXCEPT ![kind][sfx][uid] = "none"]
  /\ cPc' = IF files[kind][sfx][uid] = "none" THEN "files" ELSE next
  /\ UNCHANGED <<dirs_sfx, uids, sfx, uid, info_map, buffer, readVars>>

UnlinkPage == cPc \in {"saved", "unlink"} /\ Unlink("pages", "unlinkSub")
UnlinkSub == cPc = "unlinkSub" /\ Unlink("subs", "files")

DirDone ==
  /\ cPc = "files" /\ uids = {}
  /\ cPc' = "dirs"
  /\ UNCHANGED <<files, dirs_sfx, uids, sfx, uid, info_map, buffer, readVars>>

\* The buffer of the file is full.
WriteBuffer ==
  /\ buffer # <<>>
  /\ out' = [out EXCEPT ![Len(out)].items = @ \o buffer]
  /\ buffer' = <<>>
  /\ UNCHANGED <<files, cPc, dirs_sfx, uids, sfx, uid, info_map, mapping_file, mapping_torn>>

\* finally: c.saveInfoMapping(), which truncates the file first.
TruncateMapping ==
  /\ mapping_torn' = TRUE
  /\ cPc' = "dump"
  /\ UNCHANGED <<files, dirs_sfx, uids, sfx, uid, info_map, mapping_file, buffer, out>>

RunDone == cPc = "dirs" /\ dirs_sfx = {} /\ TruncateMapping

\* Slip: the mapping is saved when run() returns, not finally.
RunRaisesUnsaved ==
  /\ cPc \in {"dirs", "files", "subs", "saved", "unlink", "unlinkSub"}
  /\ cPc' = "close"
  /\ UNCHANGED <<files, dirs_sfx, uids, sfx, uid, info_map, buffer, readVars>>

\* An exception that run() does not catch, or Ctrl-C.
RunRaises == cPc \in {"dirs", "files", "subs", "saved", "unlink", "unlinkSub"} /\ TruncateMapping

DumpMapping ==
  /\ cPc = "dump"
  /\ mapping_file' = info_map /\ mapping_torn' = FALSE
  /\ cPc' = "close"
  /\ UNCHANGED <<files, dirs_sfx, uids, sfx, uid, info_map, buffer, out>>

Close ==
  /\ cPc = "close"
  /\ out' = Ended(out) /\ buffer' = <<>>
  /\ cPc' = "off"
  /\ UNCHANGED <<files, dirs_sfx, uids, sfx, uid, info_map, mapping_file, mapping_torn>>

Kill ==
  /\ cPc # "off"
  /\ buffer' = <<>>
  /\ cPc' = "off"
  /\ UNCHANGED <<files, dirs_sfx, uids, sfx, uid, info_map, readVars>>

Convert == \/ NextDir \/ ReadPage \/ NoSubtitles \/ Save \/ UnlinkPage \/ UnlinkSub \/ DirDone
           \/ WriteBuffer \/ RunDone \/ DumpMapping \/ Close
=============================================================================
