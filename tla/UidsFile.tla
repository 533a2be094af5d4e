------------------------------ MODULE UidsFile ------------------------------
(***************************************************************************)
(* The uid store as uids_storage.py implements it: bd_file is a sorted     *)
(* file of fixed-size uids, read by binary search (isAtHdd) and rewritten  *)
(* by merging it with the sorted in-memory uids into a temporary file that *)
(* is renamed over it (flushToDisk).  One step is one iteration of a loop  *)
(* or one system call, and the process may die between any two of them.    *)
(***************************************************************************)
EXTENDS Naturals, Sequences, FiniteSets, Functions

CONSTANTS UIds,          \* the crc32 values in play
          MaxUidsOnRam   \* max_uids_on_ram_cnt: more than that in memory forces a flush

ASSUME UIdsAssumption == UIds \subseteq Nat /\ UIds # {}
ASSUME MaxUidsOnRamAssumption == MaxUidsOnRam \in Nat

VARIABLES
  proc_uids, ram_uids,
  bd,        \* the uids in bd_file, in file order
  tmp,       \* the uids written to bd_file.tmp
  pc,        \* where the call in progress is; "idle" between calls
  uid,       \* argument of the add in progress
  l_pos,     \* bounds of its binary search: the uid can only be at
  r_pos,     \*   0-based file positions l_pos .. r_pos - 1
  ram_uid,   \* the uid ram_uid_bytes holds
  ram_iter,  \* what the iterator over sorted(ram_uids) has yet to yield
  hdd_pos    \* 1-based position of hdd_uid_bytes; past the end once it is b''

searchVars == <<uid, l_pos, r_pos>>
mergeVars == <<tmp, ram_uid, ram_iter, hdd_pos>>
vars == <<proc_uids, ram_uids, bd, pc, searchVars, mergeVars>>

Labels == {"idle", "isAtHdd", "flush", "merge", "restRam", "restHdd", "close", "rename"}

Unset == CHOOSE u \in UIds : TRUE    \* a local variable before its first assignment

Init == /\ proc_uids = {} /\ ram_uids = {}
        /\ bd = <<>> /\ tmp = <<>>
        /\ pc = "idle"
        /\ uid = Unset /\ l_pos = 0 /\ r_pos = 0
        /\ ram_uid = Unset /\ ram_iter = {} /\ hdd_pos = 1

-----------------------------------------------------------------------------
(* add(new_uid): a uid in proc_uids or ram_uids is refused at once and     *)
(* nothing changes; any other is looked up in the file first.              *)

AddCall(new_uid) ==
  /\ pc = "idle"
  /\ new_uid \notin proc_uids \cup ram_uids
  /\ pc' = "isAtHdd"
  /\ uid' = new_uid
  /\ l_pos' = 0
  /\ r_pos' = Len(bd)
  /\ UNCHANGED <<proc_uids, ram_uids, bd, mergeVars>>

m_pos == (l_pos + r_pos) \div 2

\* Slips, here and below: a change each that one of the properties has to notice.
SearchRightStays ==
  /\ pc = "isAtHdd" /\ l_pos < r_pos
  /\ bd[m_pos + 1] < uid
  /\ l_pos' = m_pos
  /\ UNCHANGED <<proc_uids, ram_uids, bd, pc, uid, r_pos, mergeVars>>

SearchLeftTooFar ==
  /\ pc = "isAtHdd" /\ l_pos < r_pos
  /\ bd[m_pos + 1] > uid
  /\ r_pos' = m_pos - 1
  /\ UNCHANGED <<proc_uids, ram_uids, bd, pc, uid, l_pos, mergeVars>>

SearchRight ==
  /\ pc = "isAtHdd" /\ l_pos < r_pos
  /\ bd[m_pos + 1] < uid
  /\ l_pos' = m_pos + 1
  /\ UNCHANGED <<proc_uids, ram_uids, bd, pc, uid, r_pos, mergeVars>>

SearchLeft ==
  /\ pc = "isAtHdd" /\ l_pos < r_pos
  /\ bd[m_pos + 1] > uid
  /\ r_pos' = m_pos
  /\ UNCHANGED <<proc_uids, ram_uids, bd, pc, uid, l_pos, mergeVars>>

\* isAtHdd answers True, and add refuses the uid.
SearchHit ==
  /\ pc = "isAtHdd" /\ l_pos < r_pos
  /\ bd[m_pos + 1] = uid
  /\ pc' = "idle"
  /\ UNCHANGED <<proc_uids, ram_uids, bd, searchVars, mergeVars>>

\* isAtHdd answers False, and add takes the uid.
SearchMiss ==
  /\ pc = "isAtHdd" /\ l_pos >= r_pos
  /\ proc_uids' = proc_uids \cup {uid}
  /\ pc' = "idle"
  /\ UNCHANGED <<ram_uids, bd, searchVars, mergeVars>>

-----------------------------------------------------------------------------
Commit(new_uid) ==
  /\ pc = "idle"
  /\ new_uid \in proc_uids
  /\ proc_uids' = proc_uids \ {new_uid}
  /\ ram_uids' = ram_uids \cup {new_uid}
  /\ pc' = IF Cardinality(ram_uids') > MaxUidsOnRam THEN "flush" ELSE "idle"
  /\ UNCHANGED <<bd, searchVars, mergeVars>>

\* The spider flushes on its own when it stops (spider.py, handleResult and __main__).
FlushCall ==
  /\ pc = "idle"
  /\ ram_uids # {}
  /\ pc' = "flush"
  /\ UNCHANGED <<proc_uids, ram_uids, bd, searchVars, mergeVars>>

\* Slip: iter(ram_uids), not sorted.
YieldsAny(iter, u) == u \in iter

\* next(iter(sorted(...))): the least of the uids not yielded yet.
Yields(iter, u) == u \in iter /\ \A v \in iter : u <= v

\* Opens bd_file.tmp, rewinds bd_fd and reads the first uid of both sides.
FlushOpen ==
  /\ pc = "flush"
  /\ tmp' = <<>>
  /\ hdd_pos' = 1
  /\ \E u \in ram_uids : /\ Yields(ram_uids, u)
                         /\ ram_uid' = u
                         /\ ram_iter' = ram_uids \ {u}
  /\ pc' = "merge"
  /\ UNCHANGED <<proc_uids, ram_uids, bd, searchVars>>

\* Writes ram_uid_bytes and asks the iterator for the next one; an exhausted
\* iterator continues at label done.
WriteRamUid(done) ==
  /\ tmp' = Append(tmp, ram_uid)
  /\ \/ \E u \in ram_iter : /\ Yields(ram_iter, u)
                            /\ ram_uid' = u
                            /\ ram_iter' = ram_iter \ {u}
                            /\ UNCHANGED pc
     \/ /\ ram_iter = {}
        /\ pc' = done
        /\ UNCHANGED <<ram_uid, ram_iter>>
  /\ UNCHANGED <<proc_uids, ram_uids, bd, searchVars, hdd_pos>>

MergeRam ==
  /\ pc = "merge" /\ hdd_pos <= Len(bd)
  /\ ram_uid <= bd[hdd_pos]
  /\ WriteRamUid("restHdd")

MergeHdd ==
  /\ pc = "merge" /\ hdd_pos <= Len(bd)
  /\ ram_uid > bd[hdd_pos]
  /\ tmp' = Append(tmp, bd[hdd_pos])
  /\ hdd_pos' = hdd_pos + 1
  /\ UNCHANGED <<proc_uids, ram_uids, bd, pc, searchVars, ram_uid, ram_iter>>

\* Slip: the uid ram_uid_bytes holds when the file ends is not written.
MergeEofSkips ==
  /\ pc = "merge" /\ hdd_pos > Len(bd)
  /\ \/ \E u \in ram_iter : /\ Yields(ram_iter, u)
                            /\ ram_uid' = u
                            /\ ram_iter' = ram_iter \ {u}
                            /\ pc' = "restRam"
     \/ /\ ram_iter = {}
        /\ pc' = "close"
        /\ UNCHANGED <<ram_uid, ram_iter>>
  /\ UNCHANGED <<proc_uids, ram_uids, bd, searchVars, tmp, hdd_pos>>

\* bd_fd.read answered b'': the loop ends and the rest of the iterator is written.
MergeEof ==
  /\ pc = "merge" /\ hdd_pos > Len(bd)
  /\ pc' = "restRam"
  /\ UNCHANGED <<proc_uids, ram_uids, bd, searchVars, mergeVars>>

RestRam == pc = "restRam" /\ WriteRamUid("close")

\* Slip: only what bd_fd has not read yet is copied.
RestHddSkips ==
  /\ pc = "restHdd"
  /\ tmp' = tmp \o SubSeq(bd, hdd_pos + 1, Len(bd))
  /\ pc' = "close"
  /\ UNCHANGED <<proc_uids, ram_uids, bd, searchVars, ram_uid, ram_iter, hdd_pos>>

\* except StopIteration: hdd_uid_bytes and everything behind it are copied.
RestHdd ==
  /\ pc = "restHdd"
  /\ tmp' = tmp \o SubSeq(bd, hdd_pos, Len(bd))
  /\ pc' = "close"
  /\ UNCHANGED <<proc_uids, ram_uids, bd, searchVars, ram_uid, ram_iter, hdd_pos>>

\* bd_fd.close() and ram_uids.clear(), before the rename.
Close ==
  /\ pc = "close"
  /\ ram_uids' = {}
  /\ pc' = "rename"
  /\ UNCHANGED <<proc_uids, bd, searchVars, mergeVars>>

Rename ==
  /\ pc = "rename"
  /\ bd' = tmp
  /\ pc' = "idle"
  /\ UNCHANGED <<proc_uids, ram_uids, searchVars, mergeVars>>

\* The process dies and is started again: a new UIdsStorage on the old file.
Restart ==
  /\ proc_uids' = {} /\ ram_uids' = {}
  /\ pc' = "idle"
  /\ UNCHANGED <<bd, searchVars, mergeVars>>

-----------------------------------------------------------------------------
Search == SearchRight \/ SearchLeft \/ SearchHit \/ SearchMiss

Flush == FlushOpen \/ MergeRam \/ MergeHdd \/ MergeEof
           \/ RestRam \/ RestHdd \/ Close \/ Rename

Next == \/ \E u \in UIds : AddCall(u) \/ Commit(u)
        \/ FlushCall
        \/ Search
        \/ Flush
        \/ Restart

Spec == Init /\ [][Next]_vars

\* A call that has begun is run by the one thread that made it until it
\* returns or the process dies.
FairSpec == Spec /\ WF_vars(Search \/ Flush)

-----------------------------------------------------------------------------
TypeOK ==
  /\ proc_uids \subseteq UIds
  /\ ram_uids \subseteq UIds
  /\ bd \in Seq(UIds)
  /\ tmp \in Seq(UIds)
  /\ pc \in Labels
  /\ uid \in UIds
  /\ l_pos \in Nat
  /\ r_pos \in Nat
  /\ ram_uid \in UIds
  /\ ram_iter \subseteq UIds
  /\ hdd_pos \in Nat \ {0}

Ascending(file) == \A i, j \in DOMAIN file : i < j => file[i] < file[j]

(* bd_file is strictly ascending whatever the interleaving of adds, commits, *)
(* flushes and crashes: the binary search of isAtHdd relies on the order,    *)
(* and a uid written twice by the merge would never leave the file again.    *)
FileAscending == Ascending(bd)

(* No step takes a uid out of bd_file, neither the rename that replaces the  *)
(* file nor a crash in the middle of a flush.                                *)
FileKeepsUids == [][Range(bd) \subseteq Range(bd')]_bd

(* A flush leaves at most max_uids_on_ram_cnt uids in memory behind: between *)
(* two calls the memory part never exceeds the configured limit.             *)
RamBounded == pc = "idle" => Cardinality(ram_uids) <= MaxUidsOnRam

(* Every add and every flush that has begun comes to its end: the search     *)
(* interval shrinks and the merge consumes one side or the other.            *)
CallsReturn == [](pc # "idle" => <>(pc = "idle"))

(* The store promised by UidsStorage.  Between ram_uids.clear() and the      *)
(* rename the flushed uids are only in the temporary file; they still count  *)
(* as uids in memory, which is where a crash would lose them.                *)
Storage == INSTANCE UidsStorage
             WITH ram_uids <- IF pc = "rename" THEN Range(tmp) \ Range(bd) ELSE ram_uids,
                  hdd_uids <- Range(bd)

ImplementsStorage == Storage!Spec
=============================================================================
