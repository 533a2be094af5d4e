--------------------------- MODULE UidsFileProofs ---------------------------
(***************************************************************************)
(* The uid file, for every set of uids and every limit: its type, the      *)
(* order of bd_file, the bound on the memory part, that no step loses a    *)
(* uid on disk, and that it implements UidsStorage.                        *)
(*                                                                         *)
(* bd_file stays ascending only because of what holds in the middle of a   *)
(* merge and of a search, which is what IInv adds: the temporary file is   *)
(* ascending, below both uids that may be written next, and holds exactly  *)
(* what the two sides have yielded; and a search has excluded everything   *)
(* outside of its interval, so that add takes no uid the file holds.       *)
(***************************************************************************)
EXTENDS UidsFile, FiniteSetTheorems, TLAPS

Below(file, u) == \A i \in DOMAIN file : file[i] < u

Prefix(n) == {bd[k] : k \in 1 .. n}

Apart == /\ proc_uids \cap ram_uids = {}
         /\ proc_uids \cap Range(bd) = {}
         /\ ram_uids \cap Range(bd) = {}

SearchInv ==
  pc = "isAtHdd" =>
    /\ uid \notin proc_uids \cup ram_uids
    /\ l_pos <= r_pos /\ r_pos <= Len(bd)
    /\ \A i \in 1 .. Len(bd) : /\ i <= l_pos => bd[i] < uid
                               /\ i > r_pos => uid < bd[i]

MergeInv ==
  pc \in {"merge", "restRam"} =>
    /\ ram_uid \in ram_uids
    /\ ram_iter \subseteq ram_uids
    /\ \A v \in ram_iter : ram_uid < v
    /\ hdd_pos <= Len(bd) + 1
    /\ pc = "restRam" => hdd_pos = Len(bd) + 1
    /\ Ascending(tmp)
    /\ Below(tmp, ram_uid)
    /\ hdd_pos <= Len(bd) => Below(tmp, bd[hdd_pos])
    /\ Range(tmp) = (ram_uids \ (ram_iter \cup {ram_uid})) \cup Prefix(hdd_pos - 1)

RestHddInv ==
  pc = "restHdd" =>
    /\ hdd_pos <= Len(bd)
    /\ Ascending(tmp)
    /\ Below(tmp, bd[hdd_pos])
    /\ Range(tmp) = ram_uids \cup Prefix(hdd_pos - 1)

CloseInv ==
  pc = "close" => Ascending(tmp) /\ Range(tmp) = ram_uids \cup Range(bd)

RenameInv ==
  pc = "rename" =>
    /\ ram_uids = {}
    /\ Ascending(tmp)
    /\ Range(bd) \subseteq Range(tmp)
    /\ proc_uids \cap Range(tmp) = {}

IInv == /\ TypeOK
        /\ FileAscending
        /\ Apart
        /\ SearchInv
        /\ MergeInv
        /\ RestHddInv
        /\ CloseInv
        /\ RenameInv

-----------------------------------------------------------------------------
(* What writing to the temporary file does to its order and its contents.  *)

LEMMA FileElements ==
  ASSUME NEW f \in Seq(UIds), NEW i \in 1 .. Len(f)
  PROVE  f[i] \in UIds /\ f[i] \in Nat
<1>1. f[i] \in UIds
  OBVIOUS
<1> QED BY <1>1, UIdsAssumption

LEMMA AppendLemma ==
  ASSUME NEW f \in Seq(UIds), NEW u \in UIds, Ascending(f), Below(f, u)
  PROVE  /\ Append(f, u) \in Seq(UIds)
         /\ Ascending(Append(f, u))
         /\ Range(Append(f, u)) = Range(f) \cup {u}
         /\ \A v \in UIds : u < v => Below(Append(f, u), v)
<1> DEFINE g == Append(f, u)
<1>1. /\ g \in Seq(UIds) /\ DOMAIN f = 1 .. Len(f) /\ DOMAIN g = 1 .. Len(f) + 1
      /\ Len(f) \in Nat /\ g[Len(f) + 1] = u
      /\ \A i \in 1 .. Len(f) : g[i] = f[i]
  OBVIOUS
<1>2. \A i \in 1 .. Len(f) : f[i] \in Nat
  BY FileElements
<1>3. u \in Nat
  BY UIdsAssumption
<1>4. Ascending(g)
  BY <1>1, <1>2, <1>3 DEF Ascending, Below
<1>5. Range(g) = Range(f) \cup {u}
  <2>1. Range(g) \subseteq Range(f) \cup {u}
    BY <1>1 DEF Range
  <2>2. u \in Range(g)
    BY <1>1 DEF Range
  <2>3. Range(f) \subseteq Range(g)
    <3> SUFFICES ASSUME NEW i \in 1 .. Len(f) PROVE f[i] \in Range(g)
      BY <1>1 DEF Range
    <3>1. i \in DOMAIN g /\ g[i] = f[i]
      BY <1>1
    <3> QED BY <3>1 DEF Range
  <2> QED BY <2>1, <2>2, <2>3
<1>6. ASSUME NEW v \in UIds, u < v PROVE Below(g, v)
  <2>1. v \in Nat
    BY UIdsAssumption
  <2> QED BY <1>1, <1>2, <1>3, <1>6, <2>1 DEF Below
<1> QED BY <1>1, <1>4, <1>5, <1>6

LEMMA CopyRestLemma ==
  ASSUME NEW f \in Seq(UIds), NEW file \in Seq(UIds), NEW n \in 1 .. Len(file),
         Ascending(f), Ascending(file), Below(f, file[n])
  PROVE  LET g == f \o SubSeq(file, n, Len(file))
         IN /\ g \in Seq(UIds)
            /\ Ascending(g)
            /\ Range(g) = Range(f) \cup {file[k] : k \in n .. Len(file)}
<1> DEFINE rest == SubSeq(file, n, Len(file))
           g == f \o rest
<1>1. /\ rest \in Seq(UIds) /\ Len(rest) = Len(file) - n + 1
      /\ \A i \in 1 .. Len(rest) : rest[i] = file[n + i - 1]
  OBVIOUS
<1>2. /\ g \in Seq(UIds) /\ Len(g) = Len(f) + Len(rest) /\ DOMAIN g = 1 .. Len(g)
      /\ \A i \in 1 .. Len(f) : g[i] = f[i]
      /\ \A i \in Len(f) + 1 .. Len(g) : g[i] = rest[i - Len(f)]
  BY <1>1
<1>3. \A i \in Len(f) + 1 .. Len(g) : /\ i - Len(f) + n - 1 \in n .. Len(file)
                                      /\ g[i] = file[i - Len(f) + n - 1]
  BY <1>1, <1>2
<1>4. /\ \A i \in 1 .. Len(f) : f[i] \in Nat
      /\ \A i \in 1 .. Len(file) : file[i] \in Nat
  BY FileElements
<1>5. ASSUME NEW i \in 1 .. Len(g), NEW j \in 1 .. Len(g), i < j
      PROVE  g[i] < g[j]
  <2>1. CASE j <= Len(f)
    BY <1>2, <1>5, <2>1 DEF Ascending
  <2>2. CASE i <= Len(f) /\ j > Len(f)
    <3> DEFINE k == j - Len(f) + n - 1
    <3>1. g[i] = f[i] /\ f[i] < file[n] /\ i \in 1 .. Len(f)
      BY <1>2, <2>2 DEF Below
    <3>2. k \in n .. Len(file) /\ g[j] = file[k]
      BY <1>2, <1>3, <2>2
    <3>3. file[n] <= file[k]
      <4>1. n \in DOMAIN file /\ k \in DOMAIN file /\ n <= k
        BY <3>2
      <4>2. n < k => file[n] < file[k]
        BY <4>1 DEF Ascending
      <4>3. file[n] \in Nat /\ file[k] \in Nat /\ k \in Nat /\ n \in Nat
        BY <3>2, <1>4
      <4> HIDE DEF k, g, rest
      <4> QED BY <4>1, <4>2, <4>3
    <3> QED BY <3>1, <3>2, <3>3, <1>4
  <2>3. CASE i > Len(f)
    <3> DEFINE h == i - Len(f) + n - 1
               k == j - Len(f) + n - 1
    <3>1. i \in Len(f) + 1 .. Len(g) /\ j \in Len(f) + 1 .. Len(g)
      BY <1>2, <1>5, <2>3
    <3>2. h \in n .. Len(file) /\ k \in n .. Len(file) /\ g[i] = file[h] /\ g[j] = file[k]
      BY <3>1, <1>3
    <3>3. h \in DOMAIN file /\ k \in DOMAIN file /\ h < k
      BY <3>1, <3>2, <1>5
    <3> QED BY <3>2, <3>3 DEF Ascending
  <2> QED BY <2>1, <2>2, <2>3, <1>2, SMTT(30)
<1>6. Range(g) \subseteq Range(f) \cup {file[k] : k \in n .. Len(file)}
  <2> SUFFICES ASSUME NEW i \in 1 .. Len(g)
               PROVE  g[i] \in Range(f) \cup {file[k] : k \in n .. Len(file)}
    BY <1>2 DEF Range
  <2>1. CASE i <= Len(f)
    BY <1>2, <2>1 DEF Range
  <2>2. CASE i > Len(f)
    BY <1>2, <1>3, <2>2
  <2> QED BY <2>1, <2>2, <1>2, SMTT(30)
<1>7. Range(f) \subseteq Range(g)
  BY <1>2 DEF Range
<1>8. ASSUME NEW k \in n .. Len(file) PROVE file[k] \in Range(g)
  <2> DEFINE i == k + Len(f) - n + 1
  <2>1. i \in Len(f) + 1 .. Len(g) /\ i - Len(f) + n - 1 = k
    BY <1>1, <1>2
  <2>2. g[i] = file[k]
    BY <2>1, <1>3
  <2>3. i \in DOMAIN g
    BY <2>1, <1>2
  <2> HIDE DEF g, i
  <2> QED BY <2>2, <2>3 DEF Range
<1> QED BY <1>2, <1>5, <1>6, <1>7, <1>8 DEF Ascending

-----------------------------------------------------------------------------
(* The invariant holds initially and every action keeps it.                *)

LEMMA InitIInv == Init => IInv
<1> SUFFICES ASSUME Init PROVE IInv
  OBVIOUS
<1>1. Unset \in UIds
  BY UIdsAssumption DEF Unset
<1>2. TypeOK
  BY <1>1 DEF Init, TypeOK, Labels
<1> QED BY <1>2 DEF Init, IInv, FileAscending, Ascending, Apart, Range,
                    SearchInv, MergeInv, RestHddInv, CloseInv, RenameInv

LEMMA AddCallKeeps ==
  ASSUME IInv, NEW u \in UIds, AddCall(u)
  PROVE  IInv'
<1> USE DEF AddCall, mergeVars
<1>1. TypeOK'
  BY DEF IInv, TypeOK, Labels
<1>2. SearchInv'
  BY DEF IInv, TypeOK, SearchInv
<1> QED BY <1>1, <1>2 DEF IInv, FileAscending, Apart, MergeInv, RestHddInv, CloseInv, RenameInv

LEMMA SearchKeeps ==
  ASSUME IInv, Search
  PROVE  IInv'
<1> USE DEF mergeVars, searchVars
<1>1. /\ bd \in Seq(UIds) /\ Len(bd) \in Nat /\ DOMAIN bd = 1 .. Len(bd)
      /\ l_pos \in Nat /\ r_pos \in Nat
      /\ uid \in Nat
      /\ pc = "isAtHdd"
  BY UIdsAssumption DEF IInv, TypeOK, Search, SearchRight, SearchLeft, SearchHit, SearchMiss
<1>2. \A i \in 1 .. Len(bd) : bd[i] \in Nat
  BY <1>1, FileElements
<1>3. \A i, j \in 1 .. Len(bd) : i < j => bd[i] < bd[j]
  BY <1>1 DEF IInv, FileAscending, Ascending
<1>4. ASSUME l_pos < r_pos
      PROVE  m_pos \in Nat /\ l_pos <= m_pos /\ m_pos < r_pos /\ m_pos + 1 \in 1 .. Len(bd)
  BY <1>1, <1>4 DEF m_pos, IInv, SearchInv
<1>5. CASE SearchRight
  <2>1. TypeOK'
    BY <1>1, <1>4, <1>5 DEF SearchRight, IInv, TypeOK
  <2>2. SearchInv'
    BY <1>1, <1>2, <1>3, <1>4, <1>5 DEF SearchRight, IInv, SearchInv
  <2> QED BY <2>1, <2>2, <1>5 DEF SearchRight, IInv, FileAscending, Apart, MergeInv,
                                  RestHddInv, CloseInv, RenameInv
<1>6. CASE SearchLeft
  <2>1. TypeOK'
    BY <1>1, <1>4, <1>6 DEF SearchLeft, IInv, TypeOK
  <2>2. SearchInv'
    BY <1>1, <1>2, <1>3, <1>4, <1>6 DEF SearchLeft, IInv, SearchInv
  <2> QED BY <2>1, <2>2, <1>6 DEF SearchLeft, IInv, FileAscending, Apart, MergeInv,
                                  RestHddInv, CloseInv, RenameInv
<1>7. CASE SearchHit
  BY <1>7 DEF SearchHit, IInv, TypeOK, Labels, FileAscending, Apart, SearchInv, MergeInv,
              RestHddInv, CloseInv, RenameInv
<1>8. CASE SearchMiss
  <2>1. uid \notin Range(bd)
    BY <1>1, <1>2, <1>8 DEF SearchMiss, IInv, SearchInv, Range
  <2>2. TypeOK'
    BY <1>8 DEF SearchMiss, IInv, TypeOK, Labels
  <2>3. Apart'
    BY <2>1, <1>8 DEF SearchMiss, IInv, SearchInv, Apart
  <2> QED BY <2>2, <2>3, <1>8 DEF SearchMiss, IInv, FileAscending, SearchInv, MergeInv,
                                  RestHddInv, CloseInv, RenameInv
<1> QED BY <1>5, <1>6, <1>7, <1>8 DEF Search

LEMMA CommitKeeps ==
  ASSUME IInv, NEW u \in UIds, Commit(u)
  PROVE  IInv'
BY DEF Commit, searchVars, mergeVars, IInv, TypeOK, Labels, FileAscending, Apart,
       SearchInv, MergeInv, RestHddInv, CloseInv, RenameInv

LEMMA FlushCallKeeps ==
  ASSUME IInv, FlushCall
  PROVE  IInv'
BY DEF FlushCall, searchVars, mergeVars, IInv, TypeOK, Labels, FileAscending, Apart,
       SearchInv, MergeInv, RestHddInv, CloseInv, RenameInv

LEMMA RestartKeeps ==
  ASSUME IInv, Restart
  PROVE  IInv'
BY DEF Restart, searchVars, mergeVars, IInv, TypeOK, Labels, FileAscending, Apart,
       SearchInv, MergeInv, RestHddInv, CloseInv, RenameInv

LEMMA FlushOpenKeeps ==
  ASSUME IInv, FlushOpen
  PROVE  IInv'
<1> USE DEF FlushOpen, searchVars
<1>1. PICK u \in ram_uids : /\ Yields(ram_uids, u)
                            /\ ram_uid' = u
                            /\ ram_iter' = ram_uids \ {u}
  OBVIOUS
<1>2. ram_uids \subseteq Nat
  BY UIdsAssumption DEF IInv, TypeOK
<1>3. TypeOK'
  BY <1>1 DEF IInv, TypeOK, Labels
<1>4. MergeInv'
  <2>1. Len(bd) \in Nat
    BY DEF IInv, TypeOK
  <2>2. \A v \in ram_iter' : ram_uid' < v
    BY <1>1, <1>2 DEF Yields
  <2>3. Ascending(tmp') /\ (\A v : Below(tmp', v)) /\ Range(tmp') = {}
    BY DEF Ascending, Below, Range
  <2>4. Prefix(hdd_pos - 1)' = {}
    BY DEF Prefix
  <2> QED BY <1>1, <2>1, <2>2, <2>3, <2>4 DEF MergeInv
<1> QED BY <1>3, <1>4 DEF IInv, FileAscending, Apart, SearchInv, RestHddInv, CloseInv, RenameInv

\* One uid of the memory part is written: what MergeRam and RestRam share.
LEMMA WriteRamUidLemma ==
  ASSUME IInv, NEW done, WriteRamUid(done), pc \in {"merge", "restRam"}
  PROVE  /\ tmp' \in Seq(UIds) /\ Ascending(tmp')
         /\ ram_uid' \in UIds /\ ram_iter' \subseteq UIds
         /\ \A v \in UIds : ram_uid < v => Below(tmp', v)
         /\ Range(tmp') = (ram_uids \ ram_iter) \cup Prefix(hdd_pos - 1)
         /\ \/ /\ pc' = pc
               /\ ram_uid' \in ram_iter /\ ram_iter' = ram_iter \ {ram_uid'}
               /\ \A v \in ram_iter' : ram_uid' < v
               /\ Below(tmp', ram_uid')
            \/ pc' = done /\ ram_iter = {}
<1>1. /\ tmp \in Seq(UIds) /\ ram_uid \in UIds /\ ram_uids \subseteq UIds
      /\ ram_iter \subseteq UIds /\ UIds \subseteq Nat
  BY UIdsAssumption DEF IInv, TypeOK
<1>2. /\ ram_uid \in ram_uids /\ ram_iter \subseteq ram_uids
      /\ \A v \in ram_iter : ram_uid < v
      /\ Ascending(tmp) /\ Below(tmp, ram_uid)
      /\ Range(tmp) = (ram_uids \ (ram_iter \cup {ram_uid})) \cup Prefix(hdd_pos - 1)
  BY DEF IInv, MergeInv
<1>3. tmp' = Append(tmp, ram_uid)
  BY DEF WriteRamUid
<1>4. /\ tmp' \in Seq(UIds) /\ Ascending(tmp')
      /\ Range(tmp') = Range(tmp) \cup {ram_uid}
      /\ \A v \in UIds : ram_uid < v => Below(tmp', v)
  BY <1>1, <1>2, <1>3, AppendLemma
<1>5. ram_uid \notin ram_iter
  BY <1>1, <1>2
<1>6. Range(tmp') = (ram_uids \ ram_iter) \cup Prefix(hdd_pos - 1)
  BY <1>2, <1>4, <1>5
<1>7. CASE ram_iter = {} /\ pc' = done /\ UNCHANGED <<ram_uid, ram_iter>>
  BY <1>1, <1>4, <1>6, <1>7
<1>8. CASE \E u \in ram_iter : /\ Yields(ram_iter, u)
                               /\ ram_uid' = u
                               /\ ram_iter' = ram_iter \ {u}
                               /\ UNCHANGED pc
  <2>1. PICK u \in ram_iter : /\ Yields(ram_iter, u)
                              /\ ram_uid' = u
                              /\ ram_iter' = ram_iter \ {u}
                              /\ UNCHANGED pc
    BY <1>8
  <2>2. \A v \in ram_iter' : ram_uid' < v
    BY <1>1, <2>1 DEF Yields
  <2>3. ram_uid < ram_uid' /\ ram_uid' \in UIds
    BY <1>1, <1>2, <2>1
  <2>4. Below(tmp', ram_uid')
    BY <1>4, <2>3
  <2> QED BY <1>1, <1>4, <1>6, <2>1, <2>2, <2>3, <2>4
<1> QED BY <1>7, <1>8 DEF WriteRamUid

LEMMA MergeRamKeeps ==
  ASSUME IInv, MergeRam
  PROVE  IInv'
<1> USE DEF MergeRam
<1>1. /\ pc = "merge" /\ hdd_pos <= Len(bd) /\ WriteRamUid("restHdd")
      /\ UNCHANGED <<proc_uids, ram_uids, bd, uid, l_pos, r_pos, hdd_pos>>
  BY DEF WriteRamUid, searchVars
<1>2. /\ hdd_pos \in 1 .. Len(bd) /\ bd \in Seq(UIds) /\ Len(bd) \in Nat
  BY <1>1 DEF IInv, TypeOK
<1>3. bd[hdd_pos] \in UIds /\ bd[hdd_pos] \in Nat /\ bd[hdd_pos] \in Range(bd)
  BY <1>2, FileElements DEF Range
<1>4. ram_uid \in ram_uids /\ ram_uid \in Nat
  BY <1>1, UIdsAssumption DEF IInv, MergeInv, TypeOK
<1>5. ram_uid < bd[hdd_pos]
  BY <1>3, <1>4 DEF IInv, Apart
<1>6. Below(tmp', bd[hdd_pos])
  BY <1>1, <1>3, <1>5, WriteRamUidLemma
<1>7. Prefix(hdd_pos - 1)' = Prefix(hdd_pos - 1)
  BY <1>1 DEF Prefix
<1>8. TypeOK'
  BY <1>1, WriteRamUidLemma DEF IInv, TypeOK, Labels
<1>9. MergeInv'
  <2> SUFFICES ASSUME pc' \in {"merge", "restRam"} PROVE MergeInv'
    BY DEF MergeInv
  <2>1. /\ pc' = "merge"
        /\ ram_uid' \in ram_iter /\ ram_iter' = ram_iter \ {ram_uid'}
        /\ \A v \in ram_iter' : ram_uid' < v
        /\ Below(tmp', ram_uid')
    BY <1>1, WriteRamUidLemma
  <2>2. /\ Ascending(tmp')
        /\ Range(tmp') = (ram_uids \ ram_iter) \cup Prefix(hdd_pos - 1)
    BY <1>1, WriteRamUidLemma
  <2>3. /\ ram_iter \subseteq ram_uids /\ hdd_pos <= Len(bd) + 1
    BY <1>1 DEF IInv, MergeInv
  <2>4. ram_uids' \ (ram_iter' \cup {ram_uid'}) = ram_uids \ ram_iter
    BY <1>1, <2>1, <2>3
  <2> QED BY <1>1, <1>6, <1>7, <2>1, <2>2, <2>3, <2>4 DEF MergeInv
<1>10. RestHddInv'
  <2> SUFFICES ASSUME pc' = "restHdd" PROVE RestHddInv'
    BY DEF RestHddInv
  <2>1. ram_iter = {} /\ Ascending(tmp')
        /\ Range(tmp') = (ram_uids \ ram_iter) \cup Prefix(hdd_pos - 1)
    BY <1>1, WriteRamUidLemma
  <2> QED BY <1>1, <1>6, <1>7, <2>1 DEF RestHddInv
<1>11. pc' \in {"merge", "restHdd"}
  BY <1>1, WriteRamUidLemma
<1> QED BY <1>1, <1>8, <1>9, <1>10, <1>11
        DEF IInv, FileAscending, Apart, SearchInv, CloseInv, RenameInv

LEMMA RestRamKeeps ==
  ASSUME IInv, RestRam
  PROVE  IInv'
<1>1. /\ pc = "restRam" /\ WriteRamUid("close")
      /\ UNCHANGED <<proc_uids, ram_uids, bd, uid, l_pos, r_pos, hdd_pos>>
  BY DEF RestRam, WriteRamUid, searchVars
<1>2. Len(bd) \in Nat /\ hdd_pos = Len(bd) + 1 /\ ram_iter \subseteq ram_uids
  BY <1>1 DEF IInv, MergeInv, TypeOK
<1>3. Prefix(hdd_pos - 1) = Range(bd) /\ Prefix(hdd_pos - 1)' = Range(bd)
  <2>1. hdd_pos - 1 = Len(bd) /\ DOMAIN bd = 1 .. Len(bd)
    BY <1>2 DEF IInv, TypeOK
  <2> QED BY <1>1, <2>1 DEF Prefix, Range
<1>4. TypeOK'
  BY <1>1, WriteRamUidLemma DEF IInv, TypeOK, Labels
<1>5. MergeInv'
  <2> SUFFICES ASSUME pc' \in {"merge", "restRam"} PROVE MergeInv'
    BY DEF MergeInv
  <2>1. /\ pc' = "restRam"
        /\ ram_uid' \in ram_iter /\ ram_iter' = ram_iter \ {ram_uid'}
        /\ \A v \in ram_iter' : ram_uid' < v
        /\ Below(tmp', ram_uid')
        /\ Ascending(tmp')
        /\ Range(tmp') = (ram_uids \ ram_iter) \cup Prefix(hdd_pos - 1)
    BY <1>1, WriteRamUidLemma
  <2>2. ram_uids' \ (ram_iter' \cup {ram_uid'}) = ram_uids \ ram_iter
    BY <1>1, <1>2, <2>1
  <2> QED BY <1>1, <1>2, <1>3, <2>1, <2>2 DEF MergeInv
<1>6. CloseInv'
  <2> SUFFICES ASSUME pc' = "close" PROVE CloseInv'
    BY DEF CloseInv
  <2>1. /\ ram_iter = {} /\ Ascending(tmp')
        /\ Range(tmp') = (ram_uids \ ram_iter) \cup Prefix(hdd_pos - 1)
    BY <1>1, WriteRamUidLemma
  <2> QED BY <1>1, <1>3, <2>1 DEF CloseInv
<1>7. pc' \in {"restRam", "close"}
  BY <1>1, WriteRamUidLemma
<1> QED BY <1>1, <1>4, <1>5, <1>6, <1>7
        DEF IInv, FileAscending, Apart, SearchInv, RestHddInv, RenameInv

LEMMA MergeHddKeeps ==
  ASSUME IInv, MergeHdd
  PROVE  IInv'
<1> USE DEF MergeHdd, searchVars
<1>1. /\ pc = "merge" /\ hdd_pos \in 1 .. Len(bd) /\ bd \in Seq(UIds) /\ Len(bd) \in Nat
      /\ DOMAIN bd = 1 .. Len(bd)
  BY DEF IInv, TypeOK
<1>2. bd[hdd_pos] \in UIds /\ bd[hdd_pos] \in Nat
  BY <1>1, FileElements
<1>3. /\ tmp \in Seq(UIds) /\ Ascending(tmp) /\ Below(tmp, bd[hdd_pos])
      /\ Range(tmp) = (ram_uids \ (ram_iter \cup {ram_uid})) \cup Prefix(hdd_pos - 1)
      /\ ram_uid \in UIds
  BY <1>1 DEF IInv, TypeOK, MergeInv
<1>4. /\ tmp' \in Seq(UIds) /\ Ascending(tmp')
      /\ Range(tmp') = Range(tmp) \cup {bd[hdd_pos]}
      /\ \A v \in UIds : bd[hdd_pos] < v => Below(tmp', v)
  BY <1>2, <1>3, AppendLemma
<1>5. Below(tmp', ram_uid)
  BY <1>2, <1>3, <1>4, UIdsAssumption
<1>6. hdd_pos' <= Len(bd) => Below(tmp', bd[hdd_pos'])
  <2> SUFFICES ASSUME hdd_pos + 1 <= Len(bd) PROVE Below(tmp', bd[hdd_pos + 1])
    OBVIOUS
  <2>1. hdd_pos + 1 \in 1 .. Len(bd) /\ hdd_pos < hdd_pos + 1
    BY <1>1
  <2>2. bd[hdd_pos] < bd[hdd_pos + 1]
    BY <1>1, <2>1 DEF IInv, FileAscending, Ascending
  <2>3. bd[hdd_pos + 1] \in UIds
    BY <1>1, <2>1, FileElements
  <2> QED BY <1>4, <2>2, <2>3
<1>7. Prefix(hdd_pos - 1)' = Prefix(hdd_pos - 1) \cup {bd[hdd_pos]}
  <2>1. 1 .. (hdd_pos' - 1) = (1 .. (hdd_pos - 1)) \cup {hdd_pos}
    BY <1>1
  <2> QED BY <2>1 DEF Prefix
<1>8. TypeOK'
  BY <1>1, <1>4 DEF IInv, TypeOK
<1>9. MergeInv'
  <2>1. /\ ram_uid \in ram_uids /\ ram_iter \subseteq ram_uids
        /\ \A v \in ram_iter : ram_uid < v
    BY <1>1 DEF IInv, MergeInv
  <2>2. Range(tmp') = (ram_uids \ (ram_iter \cup {ram_uid})) \cup Prefix(hdd_pos - 1)'
    BY <1>3, <1>4, <1>7
  <2> QED BY <1>1, <1>4, <1>5, <1>6, <2>1, <2>2 DEF MergeInv
<1> QED BY <1>1, <1>8, <1>9
        DEF IInv, FileAscending, Apart, SearchInv, RestHddInv, CloseInv, RenameInv

LEMMA MergeEofKeeps ==
  ASSUME IInv, MergeEof
  PROVE  IInv'
<1> USE DEF MergeEof, searchVars, mergeVars
<1>1. TypeOK'
  BY DEF IInv, TypeOK, Labels
<1>2. MergeInv'
  <2>1. Len(bd) \in Nat /\ hdd_pos \in Nat
    BY DEF IInv, TypeOK
  <2>2. Prefix(hdd_pos - 1)' = Prefix(hdd_pos - 1)
    BY DEF Prefix
  <2> QED BY <2>1, <2>2 DEF IInv, MergeInv
<1> QED BY <1>1, <1>2
        DEF IInv, FileAscending, Apart, SearchInv, RestHddInv, CloseInv, RenameInv

LEMMA RestHddKeeps ==
  ASSUME IInv, RestHdd
  PROVE  IInv'
<1> USE DEF RestHdd, searchVars
<1>1. /\ pc = "restHdd" /\ hdd_pos \in 1 .. Len(bd) /\ bd \in Seq(UIds) /\ Len(bd) \in Nat
      /\ DOMAIN bd = 1 .. Len(bd) /\ tmp \in Seq(UIds)
  BY DEF IInv, TypeOK, RestHddInv
<1>2. /\ Ascending(tmp) /\ Ascending(bd) /\ Below(tmp, bd[hdd_pos])
      /\ Range(tmp) = ram_uids \cup Prefix(hdd_pos - 1)
  BY <1>1 DEF IInv, RestHddInv, FileAscending
<1>3. /\ tmp' \in Seq(UIds) /\ Ascending(tmp')
      /\ Range(tmp') = Range(tmp) \cup {bd[k] : k \in hdd_pos .. Len(bd)}
  BY <1>1, <1>2, CopyRestLemma
<1>4. Prefix(hdd_pos - 1) \cup {bd[k] : k \in hdd_pos .. Len(bd)} = Range(bd)
  <2>1. (1 .. (hdd_pos - 1)) \cup (hdd_pos .. Len(bd)) = DOMAIN bd
    BY <1>1
  <2> QED BY <2>1 DEF Prefix, Range
<1>5. TypeOK'
  BY <1>3 DEF IInv, TypeOK, Labels
<1>6. CloseInv'
  BY <1>2, <1>3, <1>4 DEF CloseInv
<1> QED BY <1>5, <1>6
        DEF IInv, FileAscending, Apart, SearchInv, MergeInv, RestHddInv, RenameInv

LEMMA CloseKeeps ==
  ASSUME IInv, Close
  PROVE  IInv'
<1> USE DEF Close, searchVars, mergeVars
<1>1. TypeOK'
  BY DEF IInv, TypeOK, Labels
<1>2. RenameInv'
  BY DEF IInv, CloseInv, Apart, RenameInv
<1> QED BY <1>1, <1>2
        DEF IInv, FileAscending, Apart, SearchInv, MergeInv, RestHddInv, CloseInv

LEMMA RenameKeeps ==
  ASSUME IInv, Rename
  PROVE  IInv'
BY DEF Rename, searchVars, mergeVars, IInv, TypeOK, Labels, FileAscending, Apart,
       SearchInv, MergeInv, RestHddInv, CloseInv, RenameInv

LEMMA NextIInv == IInv /\ [Next]_vars => IInv'
<1> SUFFICES ASSUME IInv, [Next]_vars PROVE IInv'
  OBVIOUS
<1>1. CASE UNCHANGED vars
  BY <1>1 DEF vars, searchVars, mergeVars, IInv, TypeOK, FileAscending, Apart, SearchInv,
              MergeInv, RestHddInv, CloseInv, RenameInv, Prefix
<1>2. CASE \E u \in UIds : AddCall(u) \/ Commit(u)
  BY <1>2, AddCallKeeps, CommitKeeps
<1>3. CASE Flush
  BY <1>3, FlushOpenKeeps, MergeRamKeeps, MergeHddKeeps, MergeEofKeeps, RestRamKeeps,
     RestHddKeeps, CloseKeeps, RenameKeeps DEF Flush
<1> QED BY <1>1, <1>2, <1>3, FlushCallKeeps, SearchKeeps, RestartKeeps DEF Next

-----------------------------------------------------------------------------
(* What follows from it.                                                   *)

(* Every reachable state of the uid file satisfies the inductive invariant. *)
THEOREM Invariance == Spec => []IInv
<1> QED BY InitIInv, NextIInv, PTL DEF Spec

(* Type correctness of the uid file: in particular the temporary file and   *)
(* the search bounds never leave what isAtHdd and flushToDisk read.         *)
THEOREM TypeCorrect == Spec => []TypeOK
<1>1. IInv => TypeOK
  BY DEF IInv
<1> QED BY <1>1, Invariance, PTL

(* bd_file is strictly ascending at all times, so that isAtHdd may search   *)
(* it by halving and no uid is ever in it twice.                            *)
THEOREM AlwaysAscending == Spec => []FileAscending
<1>1. IInv => FileAscending
  BY DEF IInv
<1> QED BY <1>1, Invariance, PTL

(* No step, the rename and a crash in the middle of a flush included, takes *)
(* a uid out of bd_file.                                                    *)
THEOREM KeepsUids == Spec => FileKeepsUids
<1>1. IInv /\ [Next]_vars => [Range(bd) \subseteq Range(bd')]_bd
  <2> SUFFICES ASSUME IInv, [Next]_vars, bd' # bd PROVE Range(bd) \subseteq Range(bd')
    OBVIOUS
  <2>1. Rename
    BY DEF Next, vars, AddCall, Commit, FlushCall, Search, SearchRight, SearchLeft, SearchHit,
           SearchMiss, Flush, FlushOpen, MergeRam, MergeHdd, MergeEof, RestRam, RestHdd,
           WriteRamUid, Close, Restart
  <2> QED BY <2>1 DEF Rename, IInv, RenameInv
<1> QED BY <1>1, Invariance, PTL DEF Spec, FileKeepsUids

-----------------------------------------------------------------------------
(* The bound on the memory part: a flush is never put off.                 *)

RamInv == /\ IsFiniteSet(ram_uids)
          /\ pc \in {"idle", "isAtHdd"} => Cardinality(ram_uids) <= MaxUidsOnRam

LEMMA RamInvKept == IInv /\ RamInv /\ [Next]_vars => RamInv'
<1> SUFFICES ASSUME IInv, RamInv, [Next]_vars PROVE RamInv'
  OBVIOUS
<1> USE DEF RamInv
<1>1. IsFiniteSet({}) /\ Cardinality({}) <= MaxUidsOnRam
  BY FS_EmptySet, MaxUidsOnRamAssumption
<1>2. CASE UNCHANGED vars
  BY <1>2 DEF vars
<1>3. ASSUME NEW u \in UIds, AddCall(u) PROVE RamInv'
  BY <1>3 DEF AddCall
<1>4. ASSUME NEW u \in UIds, Commit(u) PROVE RamInv'
  <2>1. IsFiniteSet(ram_uids') /\ Cardinality(ram_uids') \in Nat
    BY <1>4, FS_AddElement, FS_CardinalityType DEF Commit
  <2>2. pc' \in {"idle", "isAtHdd"} => ~(Cardinality(ram_uids') > MaxUidsOnRam)
    BY <1>4 DEF Commit
  <2> QED BY <2>1, <2>2, MaxUidsOnRamAssumption
<1>5. CASE FlushCall
  BY <1>5 DEF FlushCall
<1>6. CASE Search
  BY <1>6 DEF Search, SearchRight, SearchLeft, SearchHit, SearchMiss
<1>7. CASE Flush
  <2>1. CASE Close
    BY <2>1, <1>1 DEF Close
  <2>2. CASE Rename
    BY <2>2, <1>1 DEF Rename, IInv, RenameInv
  <2>3. CASE FlushOpen \/ MergeRam \/ MergeHdd \/ MergeEof \/ RestRam \/ RestHdd
    <3>1. ram_uids' = ram_uids /\ pc' \notin {"idle", "isAtHdd"}
      BY <2>3 DEF FlushOpen, MergeRam, MergeHdd, MergeEof, RestRam, RestHdd, WriteRamUid
    <3> QED BY <3>1
  <2> QED BY <1>7, <2>1, <2>2, <2>3 DEF Flush
<1>8. CASE Restart
  BY <1>8, <1>1 DEF Restart
<1> QED BY <1>2, <1>3, <1>4, <1>5, <1>6, <1>7, <1>8 DEF Next

(* Between two calls no more than max_uids_on_ram_cnt uids are in memory.   *)
THEOREM BoundedRam == Spec => []RamBounded
<1>1. Init => RamInv
  BY FS_EmptySet, MaxUidsOnRamAssumption DEF Init, RamInv
<1>2. RamInv => RamBounded
  BY DEF RamInv, RamBounded
<1> QED BY <1>1, <1>2, RamInvKept, Invariance, PTL DEF Spec

-----------------------------------------------------------------------------
(* The refinement of UidsStorage.                                          *)

MappedRam == IF pc = "rename" THEN Range(tmp) \ Range(bd) ELSE ram_uids

LEMMA StepRefines == IInv /\ [Next]_vars => [Storage!Next]_(Storage!storageVars)
<1> SUFFICES ASSUME IInv, [Next]_vars
             PROVE  Storage!Next \/ UNCHANGED <<proc_uids, MappedRam, Range(bd)>>
  BY DEF Storage!storageVars, MappedRam
<1> USE DEF MappedRam
<1>1. CASE UNCHANGED vars
  BY <1>1 DEF vars, searchVars, mergeVars
<1>2. ASSUME NEW u \in UIds, AddCall(u) PROVE UNCHANGED <<proc_uids, MappedRam, Range(bd)>>
  BY <1>2 DEF AddCall, mergeVars
<1>3. ASSUME NEW u \in UIds, Commit(u) PROVE Storage!Commit(u)
  BY <1>3 DEF Commit, Storage!Commit
<1>4. CASE FlushCall
  BY <1>4 DEF FlushCall
<1>5. CASE SearchRight \/ SearchLeft \/ SearchHit
  BY <1>5 DEF SearchRight, SearchLeft, SearchHit, mergeVars
<1>6. CASE SearchMiss
  <2>1. /\ pc = "isAtHdd" /\ l_pos >= r_pos /\ uid \in UIds /\ bd \in Seq(UIds)
        /\ l_pos \in Nat /\ r_pos \in Nat
    BY <1>6 DEF SearchMiss, IInv, TypeOK
  <2>2. \A i \in 1 .. Len(bd) : bd[i] \in Nat /\ bd[i] # uid
    BY <2>1, FileElements, UIdsAssumption DEF IInv, SearchInv
  <2>3. uid \notin Range(bd) /\ uid \notin proc_uids \cup ram_uids
    BY <2>1, <2>2 DEF Range, IInv, SearchInv
  <2>4. Storage!Add(uid)
    BY <1>6, <2>1, <2>3 DEF SearchMiss, Storage!Add, Storage!Contains
  <2> QED BY <2>1, <2>4 DEF Storage!Next
<1>7. CASE FlushOpen \/ MergeRam \/ MergeHdd \/ MergeEof \/ RestRam \/ RestHdd
  <2>1. pc # "rename" /\ pc' # "rename" /\ UNCHANGED <<proc_uids, ram_uids, bd>>
    BY <1>7 DEF FlushOpen, MergeRam, MergeHdd, MergeEof, RestRam, RestHdd, WriteRamUid
  <2> QED BY <2>1
<1>8. CASE Close
  <2>1. Range(tmp) \ Range(bd) = ram_uids
    BY <1>8 DEF Close, IInv, CloseInv, Apart
  <2> QED BY <1>8, <2>1 DEF Close, mergeVars
<1>9. CASE Rename
  <2>1. /\ Range(bd') = Range(bd) \cup MappedRam
        /\ MappedRam' = {} /\ proc_uids' = proc_uids
    BY <1>9 DEF Rename, IInv, RenameInv
  <2>2. CASE MappedRam = {}
    BY <2>1, <2>2
  <2>3. CASE MappedRam # {}
    BY <2>1, <2>3 DEF Storage!Next, Storage!FlushToDisk
  <2> QED BY <2>2, <2>3
<1>10. CASE Restart
  BY <1>10 DEF Restart, Storage!Next, Storage!Forget
<1> QED BY <1>1, <1>2, <1>3, <1>4, <1>5, <1>6, <1>7, <1>8, <1>9, <1>10
        DEF Next, Search, Flush, Storage!Next

(* The sorted file, its binary search and its merge behave as a plain set   *)
(* of uids on disk: UidsFile implements UidsStorage.                        *)
THEOREM Refinement == Spec => ImplementsStorage
<1>1. Init => Storage!Init
  BY DEF Init, Storage!Init, Range
<1> QED BY <1>1, StepRefines, Invariance, PTL DEF Spec, ImplementsStorage, Storage!Spec
=============================================================================
