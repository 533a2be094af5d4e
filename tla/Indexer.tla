------------------------------ MODULE Indexer ------------------------------
(***************************************************************************)
(* Indexer::cook over the items of the raw data: the tokens of a document  *)
(* are put into the index in memory and their positions, split by zones,   *)
(* into the postings file; the index in memory is flushed to raw indexes,  *)
(* which MergeIndexes merges in the end.  It starts in an empty directory. *)
(* One step is the work on one item, a flush, or a step of the merge.      *)
(***************************************************************************)
EXTENDS Naturals, Sequences, FiniteSets, FiniteSetsExt, SequencesExt, Functions

CONSTANTS Words,          \* BadWord, and the other words by their tokens (MurmurHash2)
          BadWord, Zones, Items, None,
          Saved,          \* the text zones with needSave
          Dumps,          \* contents of the raw data: sequences of items
          checkInterval   \* of the checks for memory: 1000

Tokens == Words \ {BadWord}

\* text has the words of every text zone; a zone the item lacks has none.
Item == [docId : Nat, text : [1 .. Zones -> Seq(Words)], translated : BOOLEAN,
         fault : {"none", "early", "late"}]

ASSUME ZonesAssumption == Zones \in 1 .. 8
ASSUME ItemsAssumption == Items \subseteq Item
ASSUME WordsAssumption ==
  BadWord \in Words /\ Tokens \subseteq Nat /\ IsFiniteSet(Tokens)
ASSUME DumpsAssumption == Dumps \subseteq Seq(Items)
ASSUME SavedAssumption == Saved \subseteq 1 .. Zones
\* Positions are uint16_t: no document is longer than these can count.
ASSUME LengthAssumption ==
  \A item \in Items : SumFunction([z \in 1 .. Zones |-> Len(item.text[z])]) < 65536
ASSUME CheckAssumption == checkInterval \in Nat \ {0}

VARIABLES
  dump, itemsCnt,     \* the items, and how many have been met
  pc,
  _invIdx,            \* in memory: the entries of every token
  docStore,           \* _docStore: ids of the documents
  postings, _commonSize, \* the postings file and the counter that knows its size
  rawFiles,           \* raw indexes flushed
  docFile,            \* the document store as saved
  zonesForSave, docDB, \* the texts to save, and those saved for every id
  pos, indexes, itIdx, min, collected, \* of _mergeIndexes: see MergeIndexes
  merged,             \* the items written: tokens, and where their entries are read
  mergePc             \* where it is

inMemory == <<_invIdx, docStore, _commonSize, zonesForSave>>
merge == <<pos, indexes, itIdx, min, collected, merged, mergePc>>
onDisk == <<postings, rawFiles, docFile, docDB>>
vars == <<dump, itemsCnt, pc, inMemory, onDisk, merge>>

EmptyIndex == [t \in Tokens |-> <<>>]
NoText == [z \in Saved |-> <<>>]

Init == /\ dump \in Dumps /\ itemsCnt = 0 /\ pc = "check"
        /\ _invIdx = EmptyIndex
        /\ docStore = <<>> /\ postings = <<>> /\ _commonSize = 0
        /\ rawFiles = <<>> /\ docFile = None
        /\ zonesForSave = NoText /\ docDB = <<>>
        /\ pos = <<>> /\ indexes = <<>> /\ itIdx = 1 /\ min = 0 /\ collected = {}
        /\ merged = <<>> /\ mergePc = "off"

-----------------------------------------------------------------------------
(* The entries of a document.                                              *)

wordsCnt(item) == [z \in 1 .. Zones |-> Len(item.text[z])]

\* Of the first n.
Total(sizes, n) ==
  LET sum[k \in 0 .. Len(sizes)] == IF k = 0 THEN 0 ELSE sum[k - 1] + sizes[k]
  IN sum[n]

\* Where zone z begins when all zones are put behind each other.
Offset(zwCnt, z) == Total(zwCnt, z - 1)

AllWords(item) == FlattenSeq([z \in 1 .. Zones |-> item.text[z]])

\* tmpDict: the positions of a token over all zones.
Posting(item, tok) ==
  LET words == AllWords(item)
      found[n \in 0 .. Len(words)] ==
        IF n = 0 THEN <<>>
        ELSE IF words[n] = tok THEN Append(found[n - 1], n - 1) ELSE found[n - 1]
  IN found[Len(words)]

\* Slip: the positions keep the offset of their zone.
UnshiftedPosition(val, zwCnt, zi) == val

ZonePosition(val, zwCnt, zi) == val - Offset(zwCnt, zi)

\* Slip: isNewZone is never reset.
AlwaysNewZone(s, zi) == TRUE

isNewZone(s, zi) == zi # s.zi \/ s.split = <<>>

\* An iteration of splitByZones: zones are left behind until val is in one; the
\* first value in a zone begins a part of the posting.
PutValue(s, val, zwCnt) ==
  LET zi == Min({z \in s.zi .. Zones : val < Offset(zwCnt, z + 1)})
      v == ZonePosition(val, zwCnt, zi)
  IN [zi |-> zi, inZone |-> s.inZone \cup {zi},
      split |-> IF isNewZone(s, zi) THEN Append(s.split, <<v>>)
                ELSE [s.split EXCEPT ![Len(s.split)] = Append(@, v)]]

splitByZones(posting, zwCnt) ==
  LET parts[n \in 0 .. Len(posting)] ==
        IF n = 0 THEN [zi |-> 1, inZone |-> {}, split |-> <<>>]
        ELSE LET before == parts[n - 1] IN PutValue(before, posting[n], zwCnt)
  IN parts[Len(posting)]

\* Slip: the document is counted before its entries are made.
NextDocLate == Len(docStore) + 1

\* _docStore.size(): the document is added behind its entries.
NextDoc == Len(docStore)

\* A token of the document gets its entry, and addTokenPosting appends its parts.
AddEntry(s, item, tok) ==
  LET parts == splitByZones(Posting(item, tok), wordsCnt(item))
      entry == [docIdOffset |-> NextDoc, postingOffset |-> s.size, inZone |-> parts.inZone,
                postingSizes |-> [k \in DOMAIN parts.split |-> Len(parts.split[k])]]
      flat == FlattenSeq(parts.split)
  IN [inv |-> [s.inv EXCEPT ![tok] = Append(@, entry)], file |-> s.file \o flat, size |-> s.size + Len(flat)]

\* _extractTextZones; the order is that of an unordered_map.
ExtractTextZones(item) ==
  \E order \in SetToSeqs({t \in Tokens : Posting(item, t) # <<>>}) :
    LET s[n \in 0 .. Len(order)] ==
          IF n = 0 THEN [inv |-> _invIdx, file |-> postings, size |-> _commonSize]
          ELSE LET before == s[n - 1] IN AddEntry(before, item, order[n])
        last == s[Len(order)]
    IN _invIdx' = last.inv /\ postings' = last.file /\ _commonSize' = last.size

\* Slip: what is there is not replaced.
ForSaveOnce(item) == [z \in Saved |-> IF zonesForSave[z] # <<>> THEN zonesForSave[z] ELSE item.text[z]]

\* extractZones into zonesForSave: a zone the item lacks keeps what it had.
ForSave(item) == [z \in Saved |-> IF item.text[z] = <<>> THEN zonesForSave[z] ELSE item.text[z]]

-----------------------------------------------------------------------------
(* _parseRawData.                                                          *)

current == dump[itemsCnt]

\* Before every checkInterval-th item the memory may be found full.
NextItem ==
  /\ pc = "check" /\ itemsCnt < Len(dump)
  /\ itemsCnt' = itemsCnt + 1
  /\ \/ pc' = "item"
     \/ itemsCnt % checkInterval = checkInterval - 1 /\ pc' = "flush"
  /\ UNCHANGED <<dump, inMemory, onDisk, merge>>

AllItems ==
  /\ pc = "check" /\ itemsCnt = Len(dump)
  /\ pc' = "last"
  /\ UNCHANGED <<dump, itemsCnt, inMemory, onDisk, merge>>

\* Translated subtitles: the item is passed over.
Translated ==
  /\ pc = "item" /\ current.fault # "early" /\ current.translated
  /\ pc' = "check"
  /\ UNCHANGED <<dump, itemsCnt, inMemory, onDisk, merge>>

Document ==
  /\ pc = "item" /\ current.fault = "none" /\ ~current.translated
  /\ ExtractTextZones(current)
  /\ docStore' = Append(docStore, current.docId)
  /\ zonesForSave' = ForSave(current)
  /\ docDB' = [id \in DOMAIN docDB \cup {current.docId} |->
                 IF id = current.docId THEN zonesForSave' ELSE docDB[id]]
  /\ pc' = "check"
  /\ UNCHANGED <<dump, itemsCnt, rawFiles, docFile, merge>>

\* The item lacks its id, a number or its title.
EarlyFault ==
  /\ pc = "item" /\ current.fault = "early"
  /\ pc' = "abort"
  /\ UNCHANGED <<dump, itemsCnt, inMemory, onDisk, merge>>

\* It lacks a zone that is asked for when its entries have been made.
LateFault ==
  /\ pc = "item" /\ current.fault = "late" /\ ~current.translated
  /\ ExtractTextZones(current)
  /\ zonesForSave' = ForSave(current)
  /\ pc' = "abort"
  /\ UNCHANGED <<dump, itemsCnt, docStore, rawFiles, docFile, docDB, merge>>

-----------------------------------------------------------------------------
(* cook and the destructors.                                               *)

\* Slip: the index in memory is kept.
FlushKeeps ==
  /\ pc \in {"flush", "last", "abort"}
  /\ rawFiles' = Append(rawFiles, _invIdx)
  /\ pc' = CASE pc = "flush" -> "item" [] pc = "last" -> "merge" [] pc = "abort" -> "aborted"
  /\ UNCHANGED <<dump, itemsCnt, inMemory, postings, docFile, docDB, merge>>

\* _flushToDisk, of _parseRawData, of cook, and of its catch, which rethrows what
\* nobody catches: no destructor runs then.
Flush ==
  /\ pc \in {"flush", "last", "abort"}
  /\ rawFiles' = Append(rawFiles, _invIdx)
  /\ _invIdx' = EmptyIndex
  /\ pc' = CASE pc = "flush" -> "item" [] pc = "last" -> "merge" [] pc = "abort" -> "aborted"
  /\ UNCHANGED <<dump, itemsCnt, docStore, _commonSize, zonesForSave, postings, docFile, docDB, merge>>

\* The entries of a token from all raw indexes.
Collected(t) == FlattenSeq([f \in DOMAIN rawFiles |-> rawFiles[f][t]])

\* A std::map is written in the order of its tokens.
TokensIn(idx) == {t \in Tokens : idx[t] # <<>>}
MapOrder(idx) ==
  [k \in 1 .. Cardinality(TokensIn(idx)) |->
     CHOOSE t \in TokensIn(idx) : Cardinality({u \in TokensIn(idx) : u <= t}) = k]

RawTokens == [f \in DOMAIN rawFiles |-> MapOrder(rawFiles[f])]

Merge == INSTANCE MergeIndexes WITH
           raw <- RawTokens, it <- itIdx, entries <- collected, out <- merged, pc <- mergePc

\* The raw indexes are opened.
StartMerge ==
  /\ pc = "merge" /\ EmptyIndex \notin Range(rawFiles)
  /\ pos' = [f \in DOMAIN rawFiles |-> 1]
  /\ indexes' = [f \in DOMAIN rawFiles |-> f]
  /\ mergePc' = "min"
  /\ pc' = "merging"
  /\ UNCHANGED <<dump, itemsCnt, inMemory, onDisk, itIdx, min, collected, merged>>

MergeStep ==
  /\ pc = "merging"
  /\ UNCHANGED <<dump, itemsCnt, pc, inMemory, onDisk>>
  /\ Merge!Next

\* std::sort by compareEntries.
Sorted(entries) ==
  CHOOSE s \in {[k \in DOMAIN entries |-> entries[order[k]]] : order \in SetToSeqs(DOMAIN entries)} :
    \A i, j \in DOMAIN s : i < j => ~ (s[j].docIdOffset < s[i].docIdOffset)

\* The entries of an item, those of its token in the raw indexes it was read from.
EntriesOf(item) ==
  Sorted(FlattenSeq([f \in DOMAIN rawFiles |->
    IF \E place \in item.places : place[1] = f THEN rawFiles[f][item.token] ELSE <<>>]))

\* The merged index, in place when it has been renamed.
index ==
  IF mergePc # "done" THEN None
  ELSE [i \in DOMAIN merged |-> [token |-> merged[i].token, entries |-> EntriesOf(merged[i])]]

\* A raw index without items: RawIndex compares an uninitialized curTok, and its
\* _size has wrapped.
WildMerge ==
  /\ pc = "merge" /\ EmptyIndex \in Range(rawFiles)
  /\ pc' = "wild"
  /\ UNCHANGED <<dump, itemsCnt, inMemory, onDisk, merge>>

\* ~DynDocStorage.
Exit ==
  /\ pc = "merging" /\ mergePc = "done"
  /\ docFile' = docStore
  /\ pc' = "done"
  /\ UNCHANGED <<dump, itemsCnt, inMemory, postings, rawFiles, docDB, merge>>

Next == \/ NextItem \/ AllItems \/ Translated \/ Document \/ EarlyFault \/ LateFault
        \/ Flush \/ StartMerge \/ MergeStep \/ WildMerge \/ Exit

Spec == Init /\ [][Next]_vars

-----------------------------------------------------------------------------
(* What a reader finds.                                                    *)

Entry == [docIdOffset : Nat, postingOffset : Nat, inZone : SUBSET (1 .. Zones),
          postingSizes : Seq(Nat \ {0})]
IndexType == [Tokens -> Seq(Entry)]

IndexFile == Seq([token : Tokens, entries : Seq(Entry)])

\* No index is not an index.
ASSUME NoneAssumption == None \notin IndexFile

(* The type invariant; the counter of the postings is the size of the file,  *)
(* and an entry has a size for each of its zones.                            *)
TypeOK ==
  /\ dump \in Seq(Items) /\ itemsCnt \in 0 .. Len(dump)
  /\ pc \in {"check", "item", "flush", "last", "abort", "aborted", "merge", "merging", "wild", "done"}
  /\ pc = "item" => itemsCnt > 0
  /\ _invIdx \in IndexType
  /\ \A t \in Tokens : \A k \in DOMAIN _invIdx[t] :
       Len(_invIdx[t][k].postingSizes) = Cardinality(_invIdx[t][k].inZone)
  /\ docStore \in Seq(Nat)
  /\ postings \in Seq(Nat) /\ _commonSize = Len(postings)
  /\ rawFiles \in Seq(IndexType)
  /\ index \in IndexFile \cup {None} /\ docFile \in Seq(Nat) \cup {None}
  /\ mergePc # "off" => Merge!TypeOK
  /\ zonesForSave \in [Saved -> Seq(Words)]
  /\ DOMAIN docDB \subseteq Nat /\ Range(docDB) \subseteq [Saved -> Seq(Words)]

\* PostingStorage::getFullPosting: the sizes are those of the zones in inZone, and
\* the parts follow each other in the file.
FullPosting(e) ==
  [z \in 1 .. Zones |->
     IF z \notin e.inZone THEN <<>>
     ELSE LET k == Cardinality({y \in e.inZone : y <= z})
              po == e.postingOffset + Total(e.postingSizes, k - 1)
          IN SubSeq(postings, po + 1, po + e.postingSizes[k])]

FoundIn(e, t) ==
  UNION {{[doc |-> e.docIdOffset, tok |-> t, zone |-> z, pos |-> p] : p \in Range(FullPosting(e)[z])} :
           z \in 1 .. Zones}

Found(idx) == UNION {UNION {FoundIn(e, t) : e \in Range(idx[t])} : t \in Tokens}

FoundInItems(items) ==
  UNION {UNION {FoundIn(e, item.token) : e \in Range(item.entries)} : item \in Range(items)}

\* InvertIndex::findTknIdx stops at the first item of a token.
ItemsOf(items, t) == {i \in DOMAIN items : items[i].token = t}
AsRead(items) ==
  [t \in Tokens |-> IF ItemsOf(items, t) = {} THEN <<>> ELSE items[Min(ItemsOf(items, t))].entries]

Shown == INSTANCE Catalog WITH
           docs <- docStore,
           content <- Found(_invIdx) \cup UNION {Found(idx) : idx \in Range(rawFiles)},
           published <- IF index = None THEN None ELSE FoundInItems(index)

(* The indexer implements the catalog: what the postings of the entries in    *)
(* memory and in the raw indexes say is what the documents say, word by word, *)
(* zone by zone, over any flushes; and the items of the merged index say all  *)
(* of it, though a search reads but the first of a token (IndexUsable).       *)
ImplementsCatalog == Shown!Spec

DocsAscend(s) == \A i, j \in DOMAIN s : i < j => s[i].docIdOffset < s[j].docIdOffset

(* A document has one entry for a token, in one raw index or in memory, and   *)
(* the entries of every item of the merged index are in the order of the      *)
(* documents: the intersection of a search asks for no less.                  *)
OneEntryEach ==
  /\ \A t \in Tokens : DocsAscend(Collected(t) \o _invIdx[t])
  /\ index # None => \A item \in Range(index) : DocsAscend(item.entries)

\* The items not passed over among the first n.
Documents(n) ==
  LET kept[k \in 0 .. Len(dump)] ==
        IF k = 0 THEN <<>>
        ELSE IF dump[k].translated THEN kept[k - 1] ELSE Append(kept[k - 1], dump[k])
  IN kept[n]

(* When the indexer has ended well every entry of the index is of a document  *)
(* that the saved document store has, and every document not passed over is   *)
(* there under its id.  Its words are in the index, and a search finds them   *)
(* by their tokens, but for what the second item of a token has: that token   *)
(* is the last of a raw index, and a raw index flushed later has it (Divided).*)
IndexUsable ==
  pc = "done" =>
    LET kept == Documents(Len(dump))
        words == UNION {Shown!Occurrences(kept[d], d - 1) : d \in DOMAIN kept}
    IN /\ docFile = [d \in DOMAIN kept |-> kept[d].docId]
       /\ FoundInItems(index) = words
       /\ Found(AsRead(index)) \subseteq words
       /\ \A w \in words : w \in Found(AsRead(index)) \/ Merge!Divided(w.tok)

(* The texts saved for a document are its own, in every zone that it has, and *)
(* of the last document where an id comes twice.  (A zone that it does not    *)
(* have shows what an earlier document had.)                                  *)
TextsOwn ==
  pc = "check" =>
    \A i \in 1 .. itemsCnt :
      LET Counts(j) == ~dump[j].translated
      IN Counts(i) /\ (\A j \in i + 1 .. itemsCnt : Counts(j) => dump[j].docId # dump[i].docId)
         => /\ dump[i].docId \in DOMAIN docDB
            /\ \A z \in Saved : dump[i].text[z] # <<>> => docDB[dump[i].docId][z] = dump[i].text[z]
=============================================================================
