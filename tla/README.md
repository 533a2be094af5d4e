# A formal model of amigos

amigos collects YouTube subtitles and searches them. A Python spider crawls the
videos, a Python converter turns the dumps into XML, a C++ indexer builds an
inverted index from them, and a C++ server answers queries from the index. This
directory holds TLA+ modules that model the parts where the order of steps
matters, TLC configurations that check them on small instances, and proofs of
what matters most for every size.

## The system

| component | state | operations | talks to |
|---|---|---|---|
| main thread of the spider, `spider.py` | three queues, the pool of workers, `tasks_file` | `__init__`, `run`, `handleResult`, `setTasks`, `putWorkersInOrder` | workers through the queues, uid store by calls |
| signal handlers, `spider.py` | the same, from inside the main thread | `handleSIGINT` (new proxies), `handleSIGTERM` (stop) | interrupt the main thread anywhere, each other included |
| workers, `worker.py` | a task in hand, the page dumps | `run`, `getNextProxy`, `getHtmlText`, `getSubs`, `save` | the queues |
| uid store, `uids_storage.py` | `proc_uids`, `ram_uids`, the sorted `bd_file` | `add`, `commit`, `flushToDisk`, `isAtHdd` | the file system |
| log, `log_system.py` | a chain of numbered files | `write`, `rotateLogs` | file system |
| scripts, `external_worker.py`, `kill_spider.py`, `toolkit.py` | none | download proxies and send SIGINT, send SIGTERM, rebuild `bd_file` | the spider's pid and files |
| converter, `converter.py`, with `parser.py` | the dumps, an XML file being written, the info map | `run`, `save`, `openNewFile` | the directories the spider rotates |
| indexer, `indexer.cpp` | the token map in memory, raw indexes, postings, documents | parse, flush, merge | XML files, index directory |
| index, `index_struct.cpp` | the inverted index in memory, entries and postings on disk | `findTknIdx`, `getEntries`, `intersect`, `getFullPosting` | index directory |
| ranker, searcher, launcher, listener | a query and its results | rank, cut snippets, serve | the index, a socket |
| text processing, `projects/common` | the bigram list | tokenize, stem, join bigrams | indexer and searcher |

Hard behaviours: the spider runs several threads around three queues, and its
signal handlers run on the stack of the main thread, block there, and call the
functions they interrupt; processes are killed and started again on the files
they left; the uid file is searched and rewritten by hand-written loops; the
merge of the indexes erases from the list it iterates over. What makes each
component correct is stated as properties below; `PROJECT.json` lists the
hazards, each at its line with the properties that guard it.

## The modules

| module | models |
|---|---|
| `UidsStorage` | what the uid store promises: every uid is unknown, in process, in memory or on disk, and a flush is one step |
| `UidsFile` | `uids_storage.py` itself: one step per iteration of the binary search and of the merge, and a restart between any two |
| `Crawl` | what the whole spider promises about one uid: the life it goes through |
| `Spider` | `spider.py` and `worker.py`, around an instance of `UidsStorage` |
| `MergeIndexes` | `Indexer::_mergeIndexes` and `RawIndex` |
| `Catalog` | what the indexer promises: the words of every document added can be found in their zone and at their place, and the published index has them all |
| `Indexer` | `Indexer::cook` over the items of the raw data: entries, postings split by zones, flushes, faults, the merge |
| `Search` | `Searcher::search` up to the ranking: `findTknIdx`, `getEntries`, `intersectEntries` with its jumps |
| `LogSystem` | `log_system.py`: the log and its numbered predecessors, one rename a step |
| `Dumps` | the dump directories of `worker.py`: `save` and `createEmptyDirs`, one file a step |
| `Converter` | `converter.py` beside the spider that rotates these directories |
| `Pipeline` | spider (as far as the disk sees it), `LogSystem`, `Dumps` and `Converter` together |
| `Bigramer` | `BigRamer::bigram2vec`, for texts and queries |
| `Ranker` | `ranker.cpp`: draft ranking, merged positions, sliding window, order of the answers |
| `Snippets` | `Searcher::get_snippets`: selections, choice of phrases |
| `Answer` | a query from its words to the page of answers, around `Bigramer`, `Ranker` and `Snippets` |
| `MCUidsFile`, `MCSpider`, `MCMergeIndexes`, `MCIndexer`, `MCSearch`, `MCPipeline`, `MCAnswer` | values of the constants for TLC |
| `UidsFileProofs`, `SpiderProofs`, `SpiderLifeProofs`, `SearchProofs`, `MergeIndexesProofs`, `IndexerProofs`, `PipelineProofs`, `AnswerProofs` | theorems |

`UidsFile` implements `UidsStorage`, `Spider` uses `UidsStorage` (each of its
steps is one of the store's or leaves the store alone, which is proved), and
`Spider` implements `Crawl` and `Indexer` implements `Catalog` (all of which is
checked, and proved). `Indexer` merges its raw indexes by the steps of an instance
of `MergeIndexes`, and what it leaves is what `Search` reads. `Pipeline` has of the spider what touches the
disk: which steps of `Spider` its `Fetch`, `Reload`, `Stop` and `Crash` stand
for is said below. `Answer` takes the documents a query finds by the definition
that `FindsMatching` of `Search` gives of them.

**Slips.** A definition whose comment begins with "Slip" is not the code: it is
a mistake somebody could make in the definition behind it, kept to show that the
properties would notice. `PROJECT.json` pairs each property of each run with
such a slip. The specifications never refer to them.

### UidsFile

`bd` and `tmp` are `bd_file` and `bd_file.tmp`, `pc` is the place in the call in
progress, `l_pos`, `r_pos`, `ram_uid`, `ram_iter` and `hdd_pos` are the locals
of `isAtHdd` and `flushToDisk`. `add` is `AddCall`, then `SearchRight` and
`SearchLeft`, then `SearchHit` (refused) or `SearchMiss` (taken into
`proc_uids`). `commit` is `Commit`, which continues with a flush when the
memory part has outgrown its limit. The flush is `FlushOpen`, the two branches
of its loop `MergeRam` and `MergeHdd`, the two ways it ends (`MergeEof`: the
file ended; `RestHdd`: the `StopIteration` of the iterator), `Close` and
`Rename`. Uids are numbers where the file has four big-endian bytes: byte order
is number order. The refinement counts the uids of the temporary file as uids in
memory between `ram_uids.clear()` and the rename, because a crash loses them
there. One thread calls the store; calls out of a signal handler in the middle
of another call are left out (see "Not modelled").

### Spider

The main thread is a stack of frames: `run` at the bottom, `int` and `term`
above it while the handlers run, with one program counter each. An iteration of
`run` is `GetResult`, `Commit`, `CommitFlush`, `SetTask` per related video,
`SetTasksDone`, `CheckWorkers`. A handler is entered by `SIGINT` or `SIGTERM`,
drains with `NotEmpty` and `Drain` (the test and the blocking `get` are two
steps), counts the pool in `Kill`, sends one `Pill` per step, waits until
`Joined`, and goes on with `TermReturn`, or with `Reload`, `SetTask` and
`Restart`. A worker is `Take`, `NextProxy`, one of `FetchOk`, `FetchBad` and
`FetchFail`, then `Save` or `SaveFails`. `Start`, `Exit` and `Crash` begin and
end the process; `tasks_file`, `hdd_uids` and `saved` survive them.

Abstractions. A video is a model value, and what its page says (links, number of
words, no subtitles) is a constant, so that a result is its video id. The proxies
are counted, since they only go round. A fetch is one step: the tries, the
subtitles and the proxies asked for in between end in success, refusal
(`ValueError`) or failure (`GetHtmlError`). `putWorkersInOrder` looks at all
threads of the pool in one step. The lookup in `uids.add` and the flush are one
step each, which is what `UidsFile` refines.

### MergeIndexes

`raw` holds the tokens of every file, `pos` the place of `curTok`, `indexes` the
list, `it` the iterator, `entries` the places read so far, `out` what has been
written. `RawIndexes` says what the files can be, `Opened` how the merge begins:
both are apart so that `Indexer` can put its own raw indexes there. Every round is `FindMin`, a scan of `OtherToken`, `ReadToken` and
`ReadLastToken`, and `WriteItem`. `ReadLastToken` is `erase` followed by
`++itIdx`; `++` of `end()` is undefined, and the model does what the circular
list of libstdc++ does, going to the first index. The first file may repeat
tokens, as an index does that an earlier merge has written.

An index that ends passes over the one behind it in the list, so that a token
they share gets a second item in the next round. `Divided` names the tokens to which
that can happen, and `NeverDescends` says that it happens to no other, beside that the
items never descend.

### Indexer

`dump` is the sequence of items in all XML files. An item has its id, the words
of its text zones, whether its subtitles are translated ones, and the fault that
`_parseRawData` will find in it, if any. Its path is `NextItem` (which counts it
and may find the memory full), then `Translated`, `Document`, `EarlyFault` or
`LateFault`; `Flush` is `_flushToDisk` in its three places, told apart by `pc`:
`flush` in `_parseRawData`, `last` in `cook`, `abort` in its `catch`. `StartMerge`
opens the raw indexes, `MergeStep` is a step of `MergeIndexes` on them, and `Exit`
ends a run. `Document` is all of the work on an item: `Posting` finds
the positions of a token over all zones, `splitByZones` with its loop `PutValue`
takes them apart, `AddEntry` appends them to the postings file, and then the
document gets its number in `docStore`. The tokens of a document are visited in
any order, since `tmpDict` is an unordered map.

How the memory is estimated is left out: a check may always find it full. Words
are named by their tokens, for a merge compares these; `BadWord` stands for one that `hasBadSymbols` refuses, which
takes a place but no token. Numeric zones, other than the mark of translated
subtitles, only pass through. What is in the buffers of a file and what has
reached the disk is not told apart, so nothing is claimed of an aborted run
beyond `Catalog`; `main` catches nothing, hence no destructor runs after
`abort`.

The run starts in an empty directory. The merge goes token by token over
`RawTokens`, the tokens of each raw index in the order of a `std::map`, and what it
writes are items with the places they were read at. `EntriesOf` collects the
entries behind these places and sorts them by document; `index` is the file of
items when it has been renamed. A token may get two items, and `findTknIdx` stops
at the first: `AsRead` is the index as a search sees it. So `IndexUsable` has two
halves. The items together say every word of every document kept and nothing
else; and each word is found by its token, unless the token is `Divided`. With two
flushes and a word in each, the instance contains runs in which it is, and
documents that no search finds.
`WildMerge` stands for a raw index without items, as a flush writes it when
nothing was added since the last: `RawIndex` then compares memory that was never
written, and the model says nothing of what follows.

The refinement to `Catalog` reads the model as the index reads its files:
`FullPosting` is `PostingStorage::getFullPosting`, and `Found` collects what the
entries say, in memory, in the raw indexes and in all items of the merged one. So the
abstract catalog compares what was written for a word with what can be read back.

### Search

`tokens` is the query, `_invIdx` the index: items in the order of their tokens,
with the documents of their entries. `FindToken`, `NoSuchToken` and `WildToken`
are the ways `findTknIdx` ends; the last is the read behind the index when
`lower_bound` answers its end. `FirstRows`, `NextList` and `LastList` are
`intersectEntries`, which fills `output` and `tmp` in turn; `Match` and `Behind`
are one iteration of `intersectMore` at its cursors `i1` and `i2`; `Stride`,
`StrideDone`, `Walk`, `WalkDone`, `Land` and `NoMoreElements` are `jump`. An
entry is its document and the token whose posting it leads to.

`IsIndex` is what the search assumes of an index. That the documents of an item
ascend strictly is `OneEntryEach` of `Indexer`. That the tokens of the items do
is more than `_mergeIndexes` gives: what a search finds where a token has two items
is what the first of them has, as `IndexUsable` of `Indexer` says and
`merge_indexes_twice` shows. `FindsMatching` is then about the index without the
second items.

### Pipeline

`LogSystem` has of a log only its generation: what was logged between two
rotations. `RotateLogs` renames the log to `.0`, and the recursion of
`rotateLog` is the stack `calls`: `RotateNext` goes down while the next suffix
is taken, `Rename` comes back up. `Bump` is the arithmetic of the code, which
reads the last digit of a suffix as its number.

`Dumps` has for each kind of dump (pages, subtitles), each directory (the current
one and one per day) and each video a file that is missing, torn (open and not
closed) or whole. `save` is `SaveBegin` and three `SaveStep`s; `createEmptyDirs`
is `RenameDir` or `ListDir`, `MoveFile` per file and `MoveDone`, then `MakeDir`,
first for the pages, then for the subtitles, each under the date of its own
moment.

`Converter` is a process with a label `cPc`. `Start` is `__init__` and the
listing at the head of `run`; per video `ReadPage` (which gives out the codes, and
may refuse any page, whole or torn, before it has come to the quality or behind it), `NoSubtitles` or `Save`, `OpenNewFile`
when the file is long enough, `UnlinkPage` and `UnlinkSub`; `RunDone` or
`RunRaises` lead to the `finally`: `TruncateMapping`, `DumpMapping`, and `Close`
for `__del__`. `WriteBuffer` may come at any moment. Of the tables of codes the
one of qualities stands for all, since they are kept alike. Files are named by
the second: a new one has a new name or, where the budget allows it, the name of
the last one.

`Pipeline` adds the process that makes the dumps. `SpiderStart` is `__init__`,
`Fetch` the moment a worker begins `save`, `Reload` the part of `handleSIGINT`
behind the join, `Stop` the end of `run`, `Crash` an end anywhere. What a process
that ends leaves of `known` (uids that are not given out again) is any part of
it, as `Spider` and `UidsFile` say in detail. `Midnight` changes the date between
any two steps. `fetches`, `torn` and `split` are history: no action reads them.

### Answer

One behaviour serves queries one after the other: `Search` finds the documents
and their postings in one step, `RankOn` are the steps of `Ranker`, `MakeXml` adds
one document of the page, `Recv` takes the next query. `Idle` resets what the
code keeps in locals and in the searcher it makes for every query.

`Ranker` has one step per iteration over positions: `MergeAdvance`,
`MergeInsert`, `EntryMerged` and `ZoneMerged` are `get_positions_for_zone`, which
merges the positions of all entries into one list; `Grow` and `Shrink` are
`get_rank`, whose window goes from `start_w` to before `end_w`; `ZoneRanked` is
`get_doc_rank`, and `SortByRank` the three bands of the last function. A sort
answers any order its comparison allows, as `std::sort` may. `Tf` takes the size
of the first zone of the first entry for every zone, as the code does.
`DivideByZero` ends in a state of its own when no document found has views.

Ranks are integers here, floats in the code: those of windows are multiplied by
the window's size, the draft's by the unit of its fractions. So ties of the model
are ties of the code up to rounding. The sum of the idfs, a logarithm, is any of a
set. A word is a string whose first and last two characters are functions; a
phrase is a sequence of words, which the code holds as a string with offsets;
the phrase without text that `getPhrases` appends is kept.

A line is a sequence of chunks, what stands between its blanks. `terms` says which
word forms the tokenizer makes of a chunk: of `cat,` the one of `cat`, of a dash
none, of `dog-cats` two. The index has the line as `Tokenized`, and so has the
query, but `get_selections` searches the line itself for the query's words with a
blank on either side (`PartAt` compares chunks). A word with a sign next to it
is therefore found and never selected, and `SelectionsMark` says so: every word of
the query is selected wherever it stands between blanks, and nowhere else.

## The runs

| run | shows |
|---|---|
| `uids_file` | `UidsFile` implements `UidsStorage` (`ImplementsStorage`); the file stays sorted and loses nothing (`FileAscending`, `FileKeepsUids`); every call returns |
| `spider_crawl` | failing fetches with, in any order, a stop and a crash (each followed by a start on the files left), or a reload, a stop and a dying worker: one owner per task (`OneOwner`), without a reload a video in process is in the queue, in hands or, when `run` has ended, in `tasks_file`, unless it came into the queue behind the drain of a stop (`NothingForgotten`), the stop leaves no worker, no pill in the file and no uid on disk without its page (`StopKillsAll`, `FileHasNoPills`, `StopSavesPages`), the pool and its pills stay sound (`PoolSound`, `EnoughPills`), and `Crawl` is implemented (`UidLife`) |
| `spider_liveness` | under fairness every video is settled and the handlers that wait get to their end |
| `merge_indexes` | the merge ends (`MergeEnds`), loses nothing and writes nothing twice (`NothingLost`), never descends and divides a token for one reason only (`NeverDescends`) |
| `indexer` | `Indexer` implements `Catalog` (`ImplementsCatalog`); a document has one entry per token and these ascend (`OneEntryEach`); after a run that ends well every entry is of a saved document, the items say every word, and a search finds each but those in the second item of a token (`IndexUsable`); the texts saved for a document are its own (`TextsOwn`) |
| `search` | a query finds exactly the documents with all its tokens, each once and in order (`FindsMatching`), with the entries in the order of the tokens (`RowsAligned`); no cursor leaves its list; every search ends |
| `pipeline` | what a worker saved ends in an XML file, unless a listed accident takes it (`NothingVanishes`), once per fetch (`OneItemEach`), page and subtitles found together (`PairsTogether`); codes mean the same to all files (`CodesHold`); old logs stay, in order (`LogsKept`) |
| `query` | the rank of a zone is that of its windows, each counted once (`WindowsCounted`); a document with the query in its title is ahead of those with little of it (`PhraseFirst`); selections mark every word of the query that stands between blanks once, and nothing else (`SelectionsMark`), and the phrases shown are the best ones, in order of time (`BestSnippets`) |

Four more runs end in a counterexample, and `findings` in `PROJECT.json` quotes
the lines they contradict:

* `spider_reload_loses`: the tasks `handleSIGINT` took out of the queue go back
  through `setTasks`, which refuses them all, for their uids are in process.
* `spider_stop_blocks`: the drain loop of a handler tests the queue, then calls
  a blocking `get`; a worker that takes the last task in between leaves the main
  thread there for ever.
* `spider_nested_stop`: a SIGTERM while `handleSIGINT` joins the workers is
  undone by the rest of `handleSIGINT`; `run` ends with a live pool.
* `merge_indexes_twice`: a token shared by an index that ends and the one behind
  it gets two items, of which `findTknIdx` finds the first only. One raw index
  of token 1 and another of token 1 are enough.

What the properties of the passing runs leave out is in their statements, and
each exception is a behaviour of the code. `NothingForgotten` ends with the first
SIGINT, whose `setTasks` forgets (`spider_reload_loses`). Behind a SIGTERM it goes on to
the end of `run`: once `handleSIGTERM` has closed `tasks_file` (`FileWritten`), the
queue is no place to be in, for nobody writes down what is put there. What can still get
there is a task whose fetch fails, and what a page handled behind the drain links
to (`Late`). Those videos are lost when the process ends, which the property
excepts; any other has to be in the file. `FileHasNoPills` and `StopSavesPages` are for pools in which no worker
died of an exception: one that dies behind the count of the pool leaves a pill
that nobody takes, and the next drain writes it to the file. `HandlersComplete`
is checked with a proxy in the list: with none (`ProxyCounts = {0}`) the workers
wait for a proxy before they look at their pill, the reload waits for the workers,
and the property fails. `NothingVanishes` names the two accidents that do lose a
video: a converter killed with the item in its buffer, and two output files of
one second. `PairsTogether` is for videos fetched once, and not across midnight.
`CodesHold` is for histories without a kill of the converter. `BestSnippets` is
for queries without a repeated word.

### Bounds

* `uids_file`: four uids and two in memory before a flush, so that flushes merge
  three uids into files of none to one, and files fill up over restarts; every
  position of the search and both ends of the merge occur. Nothing bounds the
  number of calls or restarts.
* Spider runs: a pool of two workers, four videos. `spider_crawl` has one worker
  identity more than the pool may have threads, so that a pool that has grown too
  large would be seen. The seed links to two others and itself,
  one of these links back and to a video without subtitles, and one has too few
  words, so that each outcome of a page and each duplicate link occurs.
  `CheckPeriod` is 2 and `MaxUidsOnRam` 1, so that the pool is checked and the
  uids are flushed in the middle of the crawl. A budget bounds the signals,
  crashes, failed fetches and dying workers, and a behaviour keeps to one of
  `Budgets`: in `spider_crawl` a SIGTERM, a crash and a failure, or a SIGINT, a
  SIGTERM, a failure and a dying worker, one of each. One event of a kind meets
  every state of the crawl. At most one frame per handler is on the stack.
* `SignalPoints` are the points of `run` where a signal may arrive: the wait for
  a result and the points between the steps of handling one; the nested run adds
  the join. The loops of `putWorkersInOrder` are left out.
* Workers are interchangeable, and the runs without liveness use that symmetry.
* `merge_indexes` (`MCRawIndexes`): every choice of `N`, three, files with up to
  `MaxItems`, three, items over three tokens, so that an index can end first, in the middle and last of those that
  share a token, and the scan can go round.
* `indexer`: every sequence of up to three items out of seven, and of four when
  the first three are sound, over two words, three zones, and a check for memory
  before every second item. The items have words in one zone and in several,
  zones with no word or only bad ones in front, in the middle and at the end, an
  id that comes twice, a translated item and both faults. Two flushes, with
  documents in front of, between and behind them, occur, so that the merge meets
  up to three raw indexes that share the last token or the one before it.
* `search`: every index of two or three tokens over three documents, every index
  of two tokens over six, so that a jump of stride two takes up to three strides
  and stops short of the end, at it and past it; queries of no, one, two and
  three tokens, with an unknown one below and above all others, and one twice.
* `pipeline`: two videos of different quality, two days, two output files, and
  six budgets of starts, reloads, crashes, converter runs, Ctrl-Cs, kills and
  files of one second: two reloads rotate the log twice, starts and reloads move
  the dumps into a directory that exists; two converter runs read each other's
  mapping. The videos are symmetric together with their qualities. Suffixes with
  two digits are out of the run's reach, and part of what is proved.
* `query`: three words, one a stopword and one with two forms; every title of up
  to four words with subtitles of the same text, paired with each of five
  documents, and triples of which the draft ranking keeps two; windows of three
  positions, shorter than the longest title; eight queries, two of which are cut
  off after three words, one with a word twice, one of a stopword alone; pages
  that start at the first and at the second document; lines with a comma behind a
  word, a dash between two and a dash alone. `MAX_WINDOW_SIZE`,
  `MAX_DRAFT_DOCS`, `MAX_TOKEN_CNT` and `snippets_num` are 10, 200, 10 and 3 in
  the code, and 3, 2, 3 and 2 here, so that each of them is reached.

`CHECK_DEADLOCK` is off where the program may stop: a spider whose frontier is
empty waits for a result for ever, and a handler may block; the merge, the
indexer and a search are done at some point; budgets run out in `pipeline`; a
division by zero ends the server in `query`. The uid store can always take
another call.

### Fairness

`FairSpec` of `Spider` is weak fairness of the main thread and of each worker:
the interpreter schedules every thread that can run, and every step but waiting
on a queue or a thread ends by itself. Signals, crashes and a dying worker are
never forced. A fetch that can fail does not have to: failures are bounded by
the budget, for a proxy list that never works settles nothing. In `UidsFile` only
a call in progress is fair, and in `MergeIndexes` and `Search` the one thread there is,
which never waits. `Indexer`, `Pipeline` and `Answer` claim safety only and have none.

## The proofs

`UidsFileProofs` proves, for every set of uids and every limit, every safety
property of the run `uids_file` and the refinement. None of them is inductive by
itself. `IInv` adds what the loops rely on: at every label, how `bd`, `tmp`,
`ram_uid`, `ram_iter` and `hdd_pos` fit together. While the merge runs, `tmp`
ascends, holds exactly what both sides have given up, and is below everything
they still hold; the search interval encloses the only place its uid can have;
and uids in process, in memory and on disk are apart. The last is what makes
`FileAscending` hold, since the merge writes equal uids twice. One lemma per
action shows that it keeps `IInv`; `AppendLemma` and `CopyRestLemma` say what
appending to a sorted file and copying the rest of one do. `BoundedRam` needs
`RamInv` beside it, the bound at every label. `Refinement` follows step by step.

`SpiderProofs` proves type correctness of the whole spider (`TypeInv` adds to
`TypeOK` that frames which go through `setTasks` hold what they need, and that a
worker that saves has a video in hand) and, from it, that every step uses the
uid store as `UidsStorage` allows, so that the partition of the uids holds in the
running spider. `OneOwner` counts, which a proof does badly: `Holds` names every
place a task can be in (an index of the queue, of what is left to put back or of
the results, a worker, the result in hand), and `Owned` says that two such places
of one uid are the same place and that its uid is in process. One lemma per
action keeps `Owned`, and `OneOwner` follows from it.

`SpiderLifeProofs` begins with the pool and its end. The theorems about them have hypotheses on
the points at which a signal arrives, because without them they are false.
`SignalsOutsideLoops` keeps signals out of the loops of `putWorkersInOrder`, which
would go on spawning what they counted before; from it follows `PoolSound`, with
`Chain` (no frame is on the stack twice, and none that waits is in a loop) and
`ToSpawn` (what a loop has still to spawn is what the pool has too few).
`QuietSignals` lets signals arrive in `run` only, at the five labels of
`MCSignalPoints`, so that no handler interrupts another: `spider_nested_stop` shows
that `StopKillsAll` needs it. `Stop` says in which shape the stack can then be
and that behind a stop `finish` is on its way to `run` while no worker lives;
`Pages`, that a uid that is committed was saved, or its worker is about to; and
`Balance`, that while a handler sends pills or waits, those queued, in hand and
still to be sent are no fewer than the workers alive, and exactly as many as long
as none has died, so that none is left over for a drain to write to the file
(`Clean`).

It goes on with `NothingForgotten`. Its
invariant `Kept` follows a task from the queue to a worker, to the results and
back, and into what the handler of SIGTERM has drained. `Behind` says what is in
the queue when `tasks_file` has been closed, that it came from a failed fetch or a
page committed; and `LastWord` that `finish` is the last
result of all, so that nothing is left in hands when `run` ends by it.
`OneStop` is needed, for a
second SIGTERM opens `tasks_file` again and drops what the first one had
drained; so is `NoCollision`, that no other string has the checksum of a video
worth keeping, since `setTasks` would take it for known; `QuietSignals`, for a stop
that interrupts a reload leaves workers behind; and a pool with at least one worker,
for `FileWritten` reads the closing of the file off `workers_cnt`. The
configuration of `spider_crawl` meets all four.

It proves too that `Spider` implements `Crawl`, again for signals at any points. `Handlers` says what a handler holds at which label: what handleSIGINT has
drained is put back before another SIGINT can be handled, and a process
that is not running has nothing in process. The steps are read off three sets,
the videos that wait, are fetched and have been answered. `Owned` makes
them disjoint uid by uid (`HeldOnce`), so that each set says what the status is
(`Phases`): a step that puts a video into one of them has moved it on, whatever
it was in before, and only for the steps that give a video up does it have to be
shown that no other copy is left. `NoneMoves` and `OneMoves` turn what a step does
to the sets into a stutter or a `Move` of `Crawl`, and one lemma per action uses
one of them. `OneStop` is needed, for a second SIGTERM gives up several videos at
once, and so is `FinishApart`, that no video has the checksum of the pill.
Videos may share a checksum: the uids are what lives.

`MergeIndexesProofs` proves the safety properties of the merge for any number of
files, tokens and items. `ListInv` says that the list holds the files not read to
their end, each once, wherever the iterator is. `PlacesInv` says of every place
of a file that it has not been read, has been read for the token in hand, or is
in exactly one item, of its token. `OrderInv` is why the items never descend
although the scan passes indexes over: what has been written is at most the
token in hand, and that at most what any index of the list still has. That the
least token exists is proved from the well-foundedness of the naturals. `ApartInv`
is about the tokens that are not `Divided`: such a token has one item at most; in a
scan for it nothing of it has been written, and no index that the iterator has left
behind still has it; and between two scans no index has one that was written. For an
index is passed over with the token only behind one that ended with it, and has it
after it was read only if it has it twice.

`IndexerProofs` proves the safety properties of the indexer and the refinement of
`Catalog`, for any raw data, any zones up to 8 and any moments at which the
memory is found full. Half of it is about the operators. `Posting`,
`splitByZones` and `FlattenSeq` are recursive functions, and of each it is shown
that a function with that recursion exists, and what one element more does to
it; `NatSets`, that a set with 0 and every successor of a member has all numbers,
makes that a statement about all lengths (it is proved from the well-foundedness of the
naturals). `SplitFacts` is where the loop of `splitByZones` could go wrong: a zone without
words, at the front or in a row, is left behind and leaves no part, and the parts are
found again by the rank of their zone in `inZone`, which is how `getFullPosting`
counts. `ExtractFacts` then says, for any order of the tokens, that a document
gives each of its tokens one entry, which reads back as its places.

The invariant has a part for each thing that has to survive to the end.
`PlaceInv`: which files there are at which place in `cook`, and that the memory is
empty behind a flush. `FitsInv`: every entry in memory or in a raw index lies
inside the postings file, which only grows, so that it goes on saying what it said.
`OrderInv`: the entries of a token ascend over the raw indexes and the memory
together; a faulty item counts as met, for its entries carry the number that the
next document would have. `StoreInv` and `ContentInv`: ids stored and words said are
those of the items done with that are not translated. `TextsInv` is `TextsOwn` at
every place. `MergingInv` is the invariant of `MergeIndexesProofs`, taken over with
`Scan`, an instance of that module on `RawTokens`: a `std::map` written in order is
one of the `RawIndex`es the merge asks for. The sort of an item's entries needs
`OrderInv`, since `std::sort` promises nothing about entries of one document.
`IndexUsable` follows from what the merge promises: by `NothingLost` every place of
a raw index is in one item, of its token, so that the items together say what the raw
indexes said; and by `NeverDescends` a token that is not `Divided` has one item, which
is the one that `findTknIdx` finds. A document is then an `Add` of the
catalog, a late fault a `Fail`, the rename at the end of the merge `Publish`, and
a flush or any other step of the merge nothing.

`PipelineProofs` proves all of the pipeline's properties, for every number of
videos, days, rotations, crashes and runs: its type, `LogsKept`, `CodesHold`,
`NothingVanishes`, `PairsTogether` and `OneItemEach`. For
the log, `LogSuffixes` are the numbers `rotateLog` can get to: 0 to 9, 10 to 19, 110
to 119 and so on, the tens growing from q to 10q + 1. `Bump` ascends on them, so
that the odd arithmetic does keep the order. What is lost is counted with
`Stranded`, the file a crash left at `.0`, which the next rotation renames
over: both together are at most the number of crashes. For the codes, the
mapping only grows within a run, is on disk before the next run can read it, and a
torn mapping file keeps the next run from starting.

The files of the pipeline need four invariants, each on the one before.
`RotationInv` says where a rotation is: pages go first, and subtitles are moved
while no page is left. `SavesInv`: a video whose save was not cut off has whole
files but for the one its worker is at. `CopiesInv`: before the converter deletes
a page, its item is in the buffer or in a file (or that file was opened again in
the second it is named by), from which `NothingVanishes` follows action by action.
`OnceInv` and `PairsInv` say where the page of a video fetched once can be: in one
place, and put aside under the date its subtitles have or will have.
`CountsInv` counts the items of a video and its pages together, against fetches,
Ctrl+C and kills; the item whose page is about to be deleted is the one excess,
and it turns into one of the accidents or goes when the page does. Cardinalities
are compared by injections: a flush moves the buffer into a file (`g` in its lemma).

`SearchProofs` proves the safety properties of `search` for every index, query
and stride. `FindsMatching` speaks of finished searches, so `SInv` says what
holds on the way: the lists read are complete and belong to the tokens
(`InputInv`); between two lists, the side that is to be read has exactly the rows
of the tokens so far (`RowsFor`), and which side that is depends on the parity of
`n`; within a list, every common document is a row already or lies at or behind
both cursors (`Covered`); and a jump has left only smaller documents behind, so
that it may land, and one that lands short has its whole list below the target,
so that nothing more can match (`JumpInv`). One lemma per action keeps `SInv`.

`AnswerProofs` proves all properties of `query`, for any documents, queries,
stopwords, stems and limits. The invariant `IInv` follows the ranker position by
position and compares it with sets. `Merges` says that the list has the
occurrences passed so far (`Merged`), in order, with the iterator in front of nothing
smaller than what comes next. `Slides` is about the two iterators of `get_rank`:
while they hold a window that fits, what has been counted are the windows that
begin before it (`Inside`); when the start has moved on and nothing fits, those
that begin up to the position behind the start (`Outside`). `FullCounts` is the
step between them, for a stretch that nothing to either side fits into is a window
and no other begins where it does. `MapThenSumSet` takes its members in an order of
its own, so `SumOrder` and `SumAdd` first show that any member may come first.

`PhraseFirst` needs `PInv` beside it: every place of a token is in the postings,
what has all tokens in its title was found, what was found was kept or there was too
much, and the last sort lists all that was kept with none behind one that it is
`Ahead` of. The rest is about texts. `RunsTokens` says that words in a row
give tokens in a row: a stopword at either end of the phrase has other neighbours
in a title and so a token more there, outside of the row. `PhraseRank` is the
full window such a title has, and `PoorRank` is why the bounds of the bands are
right: five occurrences make five windows at most, each worth less than a fifth
of the full one as long as it has fewer entries than a window.

The snippets do not depend on the steps, only on `get_selections`, `snippet_ranker`
and the sorts. `SelectionsRecursion` shows that a function with the recursion of
`get_selections` exists, `SelectionsAre` what it selects, from the end of the text to
its front. That a phrase with a longer part of the query ranks higher
(`LongerFirst`) takes that its longest part is selected, and this is where a word
that is twice in the query would do harm: `PartsMeet` shows that two parts that
overlap are one if no word is.

The assumptions are those of the modules: uids are numbers and there is one;
`crc` is defined on every string that can be queued; workers are finitely many;
the limits are natural numbers; a search meets an index as `IsIndex` describes
it, and its stride is positive; the items of the raw data have a text for every
zone, there are at most 8 zones, and `None` is no index; tokens are
natural numbers; titles, descriptions and queries are made of words that have a stem,
lines of chunks of which the tokenizer makes such words, a word alone being a chunk
that it leaves as it is; and views and times are natural numbers.

Only model-checked: liveness (`WF_` and `ENABLED` are out of the prover's reach), and
with it that calls of the uid store, merges and searches end. Every invariant of the
runs that are expected to pass, every action property and the three refinements are
proved, those of the spider under the hypotheses above.

## Not modelled

* Signals inside the loops of `putWorkersInOrder`, inside `queue.Queue` (its lock
  is not reentrant) and inside `flushToDisk` (a lookup would move the position of
  the file being merged; the tasks a handler puts back are in process, so that
  the lookup ends before the file).
* An exception out of `run` or a handler, which ends the main thread of the spider by
  `flushToDisk` and `raise` (`spider.py:157-162`) while the workers, which are no
  daemons, go on, hand over results that nobody reads, and wait for tasks for ever; a
  signal that comes then is handled inside the interpreter's wait for them. `Exit`
  is the end of a `run` that returns, and `Crash` the end of all threads at once.
* Colliding checksums: the instance's `crc` is injective. A pill that a reload
  finds in the queue is registered as a video named `finish`; `Crawl` is
  therefore stated for the uids of videos.
* Documents and collections so long that positions (16 bits) or the counter of
  the postings (32 bits) wrap; a second run of the indexer over a directory that
  has an index, raw indexes and postings; the file of word frequencies.
* What the server makes of a query that comes in two pieces, or of an answer sent
  in part: one `recv` is taken for one query. Sockets, the decoding of a request and
  the XML of an answer.
* Rounding: ranks are exact numbers, and a logarithm is any value of a set.
* A video whose second copy is moved in while the converter deletes the first
  (`PairsTogether` is stated for videos fetched once).
* `toolkit.py`, which rebuilds `bd_file` and searches the dumps, the demonstration of
  the query parser, the dump of an index.
* Byte order, encodings, HTML, HTTP, XML and stemming.
* Third-party code (`src/contrib`: leveldb, snappy, tinyxml2 and murmur_hash),
  which is most of the lines in the repository: of some 33,000, amigos itself has
  about 4,600, headers included.

## What is left

1. The life of the index directory: a second run of `Indexer` on what the first
   one left (loaded document store, appended postings, raw files still there),
   also after an aborted run, with `Search` reading what it makes.
2. Signals inside the loops of `putWorkersInOrder`, with a thread that is
   appended and not started; the second SIGTERM, for which a property would have
   to say what the file may lose.
3. A `Listener` with a query in several pieces and clients that go away.
4. That what `Search` finds in an index that `Indexer` has published is what
   `Answer` takes for found. The three are tied by definitions that say the same,
   not by a refinement.
