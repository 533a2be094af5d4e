---------------------------- MODULE UidsStorage ----------------------------
(***************************************************************************)
(* What the uid store of the spider promises (uids_storage.py): every uid  *)
(* is unknown, in process, committed in memory or committed on disk, and a *)
(* flush moves the memory part to disk in one step.  The file the disk     *)
(* part lives in, the merge that rewrites it and the binary search that    *)
(* reads it are the business of UidsFile, which implements this module.    *)
(***************************************************************************)

CONSTANT UIds           \* the crc32 values a uid can take

VARIABLES proc_uids,    \* handed out by add, not committed yet
          ram_uids,     \* committed, only in memory
          hdd_uids      \* committed and in bd_file

storageVars == <<proc_uids, ram_uids, hdd_uids>>

StorageTypeOK == /\ proc_uids \subseteq UIds
                 /\ ram_uids \subseteq UIds
                 /\ hdd_uids \subseteq UIds

Init == /\ proc_uids = {}
        /\ ram_uids = {}
        /\ hdd_uids = {}

Contains(uid) == uid \in proc_uids \cup ram_uids \cup hdd_uids

\* add(uid) of a uid the store does not know; of a known one it changes nothing.
Add(uid) == /\ ~Contains(uid)
            /\ proc_uids' = proc_uids \cup {uid}
            /\ UNCHANGED <<ram_uids, hdd_uids>>

Commit(uid) == /\ uid \in proc_uids
               /\ proc_uids' = proc_uids \ {uid}
               /\ ram_uids' = ram_uids \cup {uid}
               /\ UNCHANGED hdd_uids

FlushToDisk == /\ ram_uids # {}
               /\ hdd_uids' = hdd_uids \cup ram_uids
               /\ ram_uids' = {}
               /\ UNCHANGED proc_uids

\* The process ends, by exit or by a crash: only bd_file survives it.
Forget == /\ proc_uids' = {}
          /\ ram_uids' = {}
          /\ UNCHANGED hdd_uids

Next == \/ \E uid \in UIds : Add(uid) \/ Commit(uid)
        \/ FlushToDisk
        \/ Forget

Spec == Init /\ [][Next]_storageVars

-----------------------------------------------------------------------------
(* A uid has one status at a time: it is never in process and committed,   *)
(* and never both in memory and on disk, so that a flush never writes a    *)
(* uid the file already holds and add never hands out a committed uid.     *)
Partition == /\ proc_uids \cap ram_uids = {}
             /\ proc_uids \cap hdd_uids = {}
             /\ ram_uids \cap hdd_uids = {}
=============================================================================
