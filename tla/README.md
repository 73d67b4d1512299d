# A TLA+ model of art_root_io

`art_root_io` reads and writes the files of the *art* event-processing
framework: its input source (`RootInput`), its output module (`RootOutput`), a
virtual file system that keeps an SQLite database inside a ROOT file, an input
source that samples datasets, and a service that gives analysis modules a ROOT
file of their own.  This directory holds TLA+ modules of that code, the
configurations TLC checks them with, and proofs for TLAPS.

Paths are relative to `src/art_root_io` unless they begin with `src/`.

## 1. The system

### Components, their state and their operations

| component | state | operations | what makes it correct |
|---|---|---|---|
| **Sequential reading** `RootInput`, `RootInputFileSequence`, `RootInputFile` | list of files and place in it, the open file, the cursor `fiIter_` in its index, the count of events to skip (in the sequence while no file is open, in the file while one is), `fastClonable_` | `nextItemType`, `readFile`, `closeFile`, `readRun`, `readSubRun`, `readEvent`, `getNextEntryTypeWanted` | exactly the events the configuration selects, in order, each in its own subrun; the skip count used once over all files; a file announced as fast clonable is read whole |
| **Duplicate checker** `DuplicateChecker` | the IDs seen, the type of data of the file | `inputFileOpened`, `inputFileClosed`, `isDuplicateAndCheckActive` | what is remembered lasts over all files or just one, according to the mode; the first of several is read |
| **Random access** `RootInput`, `RootInputFileSequence` | `AccessState`, the event wanted and the one last read, the indexes of the files opened before | `seekToEvent` (by ID or offset), `skip`, `readIt`, `nextFile`, `previousFile` | the event that was sought is read, in its subrun; an offset counts events; the event loop finds each item again |
| **Secondary files** `RootInputFileSequence`, `RootInputFile`, `RootDelayedReader` | the list of secondary files of each primary file; those opened on demand, each with its cursor; how far each run, subrun and event has gone through the list | the constructor's walk, `secondaryFile`, `readFromSecondaryFile`, `nextSecondaryPrincipal`, `readRunWithID`, `readSubRunWithID`, `readEventWithID` | the lists are flattened in preorder; a request is answered by the first file that has the product and the ID asked for, whoever moved its cursor before; the reading of the primary files is not disturbed |
| **Range sets** `RootDelayedReader`, `RootOutputFile`, `detail/resolveRangeSet`, `detail/RangeSetInfo` | range sets in SQLite tables, their row in each stored run or subrun product, the provenance status next to it | `getProduct_`, `isAvailableAfterCombine_`, `fillBranches`, `maybeInvalidateRangeSet`, `setRunAuxiliaryRangeSetID` | over any chain of splitting and concatenating, each contribution to a product is counted once |
| **Output files** `RootOutput_module`, `RootOutputFile`, `FastCloningEnabled` | the file that is open, its index, its counts, the provenance and descriptions it keeps, the file statistics, the results producers, the closing criteria | `openFile`, `respondToOpenInputFile`, `readResults`, `event`, `write`, `writeSubRun`, `writeRun`, `startEndFile` ... `finishEndFile` | each event in the index of one file and the results of the same; provenance without gaps; each file readable by itself, and its metadata true of its index |
| **Event tree of the output** `RootOutputTree` | branches and their entries, `wasFastCloned_`, the uncloned branches, `nEntries_` | `beginInputFile`, `fastCloneTree`, `fillTree`, `addOutputBranch`, `setEntries` | every branch has the right event in the entry the index names |
| **SQLite in a ROOT file** `RootDB/tkeyvfs` and wrappers | for each file a buffer, its size, the size of the file, a chunk size; the key in the ROOT file | `unixOpen`, `closeUnixFile`, `unixRead`, `unixWrite`, `unixTruncate`, `unixFileControl` | SQLite finds the bytes it wrote, across closing and opening |
| **Sampling input** `SamplingInput_source`, `DataSetBroker`, `DataSetSampler`, `SamplingInputFile`, `SamplingDelayedReader` | a file per dataset with its cursor and current entry, weights, counts, the dataset drawn last | `openInputFiles`, `nextItemType`, `canReadEvent`, `readRun`, `readSubRun`, `readEvent`, `getProduct`, `countSummary` | the events wanted of each dataset, in order, with their own products; runs and subruns sampled once; the end when a dataset is exhausted |
| **TFileService** `TFileService`, `TFileDirectory` | a file, the current directory, callbacks, counts of the file | `make`, `mkdir`, `registerFileSwitchCallback`, `setDirectoryName_`, `maybeSwitchFiles_` | objects land in their module's directory of the open file, also after a switch; no module keeps an object of a closed file; files are switched at the first boundary after a limit, with their statistics |
| **Error handler** `setup.cc`, `RootErrorClassifier` | none | classify a ROOT message | fatal messages become exceptions |
| **Dumpers** `count_events`, `file_info_dumper` with `detail/rangeSetFromFileIndex`, ... | none | what they work out of one file | agreement with the index of the file |
| others (kept provenance, branch bookkeeping, size tools, versions) | tables or nothing | pure functions, printing | - |

### How they interact

art's event loop calls the source for the next kind of item and then for the
item, and calls the output module with each event, subrun and run and at each
opening and closing of an input.  The source's principals read products late,
through `RootDelayedReader`, so an output module reads from the input file while
it writes.  When an input is fast clonable, the source says so in its file
block, and the output module copies the whole event tree before the first event
of that file is read: from then on, the two must agree on the events.  Both use
SQLite through `tkeyvfs` for range sets and parameter sets.

### What is hard

* **Counts and flags with a moving home**: events to skip (sequence / file),
  `wasFastCloned_` (set by one input, used for the next), `AccessState` against
  the item the event loop is in.
* **Decisions taken early**: fast cloning before any event is read, the closing
  of output files at boundaries that may fall inside a run.
* **Recursion and jumps through an index** of three kinds of entries that may
  be incomplete, repeated, or not sorted by event.
* **One cursor for three**: runs, subruns and events go through the secondary
  files at their own pace, and move the same cursor in each.
* **Order**: events of several schedules are written in any order; fragments of
  a run are combined in the order of their entries; files are concatenated in
  any order by later processes.
* **Failure**: a file that cannot be opened or is not an art file, memory that
  runs out, a tree that ROOT refuses to clone.

Concurrency proper is small: locks (`RootOutput::mutex_`, the input source
mutex) make each call one step.  `PROJECT.json` lists the hazards line by line.

## 2. Modules

| module | models | state and actions |
|---|---|---|
| `FileIndex` | canvas's `FileIndex` and `EventID` (external) as this code uses them: IDs, kinds of entries, the searches of the cursor | operators only |
| `InputSequence` | sequential reading, with the duplicate checker | one variable for each member named above, `item` for what the event loop is about to do, and the histories `delivered`, `skipped`, `dropped`; one action for each outcome of `nextItemType`, of each turn of `getNextEntryTypeWanted` and of each `read...` |
| `EventStream` | what `InputSequence` promises, abstractly | `delivered`, `over`; `Deliver`, `Finish`, `Abort` |
| `SecondaryFiles` | the lists of secondary files and the requests for their products; EXTENDS `InputSequence` and lets it go on only between requests | `stk` and `secondaryFileNames` (the constructor's walk, one step for each name), `cursors` (the open secondary files), `principals` (where the run, the subrun and the event are in the list, and what they found), `request` and `answer`; one step for each file that is asked |
| `RandomAccess` | seeks and the `AccessState`; EXTENDS `InputSequence` and shares its cursor and files | `Seeks` (calls from outside), `Skips` (the loop of `skip()`, one step for each file it crosses), `Finds` (`readIt()`, one action for each state), `Calls` (the sequential steps, with what `RootInput` adds to them) |
| `OutputFile` | the output module, its files and its event tree, driven by art's event loop; what an input file drops when it is opened | a branch is a column of entries; the index maps an ID to a row; each row has the provenance kept with it; `fstats` and `results` are the statistics and what the results producers saw |
| `RangeSetFromFileIndex` | `detail/rangeSetFromFileIndex.cc`, for `OutputFile` | operators only |
| `StoredFile` | what SQLite relies on | a file is a function from offsets to bytes |
| `TKeyVFS` | `tkeyvfs.cc` | `pBuf`, `bufAllocated`, `fileSize`, `szChunk`, the flags of the handle, the key saved; one action for each call |
| `RangeSets` | run products through a chain of processes | the files a process reads, each with its SQLite tables, the run principal, the file being written, those closed; `BeginRun`, `NextEvent`, `SwitchInRun`, `EndRun`, `WriteRun`, `SwitchBetweenFiles`, `NextProcess` |
| `RangeSet` | canvas's `RangeSet` (external) as a set of events, for `RangeSets` and `SamplingInput` | operators only |
| `SamplingInput` | the source that samples datasets, its broker and files, and the delayed readers of its events | a cursor `fiIter` and an entry for each file, the counts, `next` for what the event loop is about to do, the principals made; one action for each outcome of `nextItemType`, each `read...`, each product asked for, and the closing |
| `SampledStream` | what `SamplingInput` promises, abstractly | the events left of each dataset, those given, `over`; `Give`, `Finish`, `Fail` |
| `TFileService` | the service, its directories, and modules that make and fill histograms | `dir` and `callbacks` (`dir_`, `callbacks_`), the counts `fp`, all files with their objects and fills, the file each module's object is in; a module call is four steps, an event loop transition ends in `KeepFile` or `SwitchFiles`, and each callback is a step |
| `FileIndex_proofs`, `InputSequence_proofs`, `RandomAccess_proofs`, `SecondaryFiles_proofs`, `TKeyVFS_proofs`, `SamplingInput_proofs`, `TFileService_proofs`, `OutputFile_proofs` | proofs | |
| `MC*` | values for the constants | |

Things worth knowing about the correspondence:

* **Mutants.** Some definitions are preceded by a variant whose comment begins
  with "Mutant:".  They are not used by any specification: each is a plausible
  bug, and `PROJECT.json` says which property finds it when it takes the
  definition's place.
* **The index** of a file is a sequence of IDs, once sorted as ROOT files hold
  it and once by entry number (`noEventSort`).  Fragments of a run or subrun
  are equal neighbours.
* **A file** of `InputSequence` is good, cannot be opened, or is found corrupt
  after opening; the last two differ in what `skipBadFiles` does.
* **The output tree**: an entry of a branch is an event, with or without its
  product, or a dummy.  What `beginInputFile`, `fillTree` and `setEntries` do to
  the columns is modelled, and ROOT's own complaint about columns that do not
  fit, which `setup.cc`'s error handler turns into an exception, ends the job.
* **Products and their history** in `OutputFile`: an input file describes products,
  has branches for some of them and says which were made from which
  (`children`, the `BranchChildren`).  `DropOnInput` is `dropOnInput()`, and
  `FillBranches` is `fillBranches<InEvent>()` with its search for ancestors, level by
  level.  Products of this process are saved or not, and made from `Parents`.
* **Results producers** are shown an event some time before it is written, and
  cleared when a file was closed.  The model shows it when it is read: no file is
  closed between the two, so when exactly makes no difference to them.
* **A request to secondary files** is answered before the event loop goes on,
  since they are for jobs with one thread and one schedule.  A failed assertion
  ends the job, as in a build that has assertions.
* **Undefined behaviour** is a state of its own and not a property:
  `RandomAccess` stops with item `"Undefined"` where `skip()` or `seekToEvent()`
  dereference a null file, `RangeSets` with status `"Undefined"` where
  `fillBranches()` dereferences the end of an empty set.  Bytes past the end of
  a written area of a `realloc`ed buffer are the model value `Junk`.
* **A seek may leave the events wanted**: `astray` remembers that one found nothing,
  or found an event before `firstEvent`.  In the second case the event is read, but the
  sequential reading then jumps to the first event wanted and past the entries of its
  run and subrun (`RootInputFile.cc:764`), since before the first seek it would have
  passed them by searches that stop there.  `seekToEvent(0)` passes the next event if
  it has the ID of the one last read (`SkipDuplicate`).
* **`TFileService`** remembers in `made` when a module made its object first, be it in
  a call or in a callback: the events before that are not expected in the object.
* **`SamplingInput`** draws a dataset by `\E d \in Drawn`, the datasets whose
  weight is not 0: the distribution is not modelled, only what it may yield.
  Products of events are read when a module asks for them (`GetEventProduct`),
  at any time until the event is done, so that other events may be drawn and
  read in between; `Schedules` bounds the events in flight, as art does.
  `SubRunID`s begin with 0, which `FileIndex` uses for "no subrun", so that a
  number of `skipToEvent` is one more in the model than in the code.
* **`RangeSets`** follows one run.  A range set is the set of events it covers
  and a product the bag of events it counted, so that "counted once" can be
  said.  A file's range sets are rows of its `EventRanges` table and
  of the table that joins them to `RunRangeSets`; a row is written unless there is
  an equal one, and a range set is read back from its rows, or as its hull in each
  subrun when `compactEventRanges` is set.

## 3. Runs

| run | configuration | shows |
|---|---|---|
| `input` | ten lists of two to four files, 148 configurations (first event, skip count, duplicate mode, bad files, processing mode, limit, sorting, lists of secondary files), four secondary files, three requests for two products: 61 362 states | with or without secondary files, `InputSequence` implements `EventStream`, keeps its skip count, goes forward, gives every event to its own subrun, reads whole what it announced as clonable, and ends; the lists are walked in preorder and requests are answered by the first file that can |
| `random_access` | seven lists of files (one with events before the first one wanted, one with a good file that a search passes), 448 jobs in all with files that may or may not be searched, two seeks to three IDs or by -3, -1, 0, 2: 615 910 states | `fileIndexes_` misses no file gone through and holds what a seek found; a seek that succeeds counts events and is followed by that event in a subrun of its ID; the job ends |
| `output` | 96 jobs of two or three inputs, one or two schedules, every granularity of closing, products dropped on input with and without their descendants, three ways to drop metadata: 19 075 states | every event in one file and in the results of that file, an index that is right about every branch and about provenance, files that can be read by themselves and whose metadata, counts and range sets agree with their index, and failures only where an uncloned input follows a cloned one |
| `database` | pages of two bytes, offsets 0, 1, 3, amounts 1, 2, sizes 0, 2, chunks 0, 3: 242 788 states | `TKeyVFS` implements `StoredFile` |
| `range_sets` | twelve setups of two or three files over five events and two subruns, three processes, two output files each: 43 885 states | each part of a product counted once through any chain |
| `sampling` | 32 jobs on pairs of files with fragments that are repeated, disjoint, dummies or overlapping, events out of the order of their entries or stored twice, files without events or without anything; weights, `skipToEvent`, limits, dropped products, subruns of number 0 and 1: 8 063 states | `SamplingInput` implements `SampledStream`, events keep their own products, runs and subruns are sampled once, a job that starts at the next event of the summary wants just the events not given (but is refused in subrun 0), and the job ends |
| `histograms` | 36 jobs over two input files, two runs and five events, with two modules that register and make their histograms at construction, late, first in a callback or without one; limits of one to four events, on subruns, runs and input files, files that grow old, four granularities: 58 698 states | histograms stay in their module's directory and are alive when filled, a file's statistics are about its contents, and files are switched when they are due |
| `output_uncloned`, `database_partial_read`, `seek_opened_file`, `prior_dropped`, `secondary_late_run` | as above | expected violations, section 6 |

**Why the bounds are enough.**  The lists of files of `input` hold each
situation the code tells apart: a subrun continued by the next file, an event
repeated in a file, next to its twin or not, and in another file, an empty
subrun, fragments, a file without events, bad files first, between and last.
Skip counts go from none to more than the first file has.  The secondary files share
only part of the events of their primary files, so that each level is answered by
the first file, by a later one and by none; one of them has an event twice and
one cannot be opened; three requests let a run, a subrun and an event
move one cursor in turn.  Jobs of `output`
have a product that comes, goes and comes again, and a product of this process
with two generations of ancestors that are not written, as files have
descendants of descendants of a dropped product: with one generation, a search
that stops after the first would be right.  The buffers of `database` are
one page, two pages and between; offsets are in, at and past the end.  A chain
of three processes is needed in `range_sets`, because a product that was
counted twice shows when the files of the second process meet in the third, and
two output files are enough for a product to be offered twice.  Files of
`sampling` have at most three events wanted and limits are 0, below, and above
what they hold; two schedules are enough for a product to be read after the
cursor has moved on, and two datasets for one to be exhausted before the other.

Bounded by guards: `MaxRequests` in `SecondaryFiles`, `MaxSeeks` in `RandomAccess`, `MaxFiles` (output files of a
process) in `RangeSets`.  `TKeyVFS` is bounded by its sets of requests.

**Deadlock** is not checked where a job comes to its end and stops (all but
`TKeyVFS`).

### Fairness

`InputSequence`, `OutputFile` and `SamplingInput` assume weak fairness of their
whole next-state relation: art's event loop is one thread of control that goes on as long as it
has something to do, and nothing else in these models has to happen.  (In
`SamplingInput` the events in flight are part of that relation: each asks for
finitely many products and is finished.)
`SecondaryFiles` assumes it for the walk, the event loop and the answering of a
request, and not for requests, which no module has to make (`SecondaryFairSpec`).
`RandomAccess` assumes it for the event loop and the loop in `skip()`, and not for
seeks, which are calls nobody has to make.  `TKeyVFS`, `RangeSets` and `TFileService` have no
liveness properties: they only answer calls.

## 4. Proofs

All theorems hold for every value of the constants.

* `FileIndex_proofs` - searches of the cursor stay inside the index and, in a
  sorted index, go forward.  `EventSearchGoesForward` shows why `noEventSort`
  must be refused together with `firstEvent`.  `EventsOfSubRunFound` and
  `EventsOfRunFound` are about the range sets that `RangeSetFromFileIndex` makes from an
  index: the searches from entry to entry miss no event of the subrun or run, and with
  `compactRanges` add nothing but what lies between two events of it (in a run, the first
  of these in the same subrun).  They assume an index that is sorted and
  announces its subruns (`Nested`); the recursion over positions, which goes forward to
  the end of the run, is resolved by `JumpsVisitAll`.
* `InputSequence_proofs` - `TypeCorrect`, `SkipsAccounted`, `ReadsInOrder`,
  `EventsReadInTheirSubRun`, `FastClonablesReadWhole`, `ReadsEventStream`.
  `TypeOK` alone is inductive since it says that an item is offered only when a
  file is open and the cursor is on an entry of its type.  `SkipAccounting` is
  proved from it: the count has two homes and each opening and closing moves it.
  `InOrder` needs that every step moves the cursor forward, which are the
  theorems of `FileIndex_proofs`, and that nothing is read before skipping is
  over.  `EventsInTheirSubRun` has the invariant `ContextInv`: whatever the cursor
  is on after a search, an event it is on belongs to the subrun read last, a subrun
  it is on to the run read last, and these are not before the first ones wanted.
  Each search keeps it because it stops at the first entry of its kind, and the index
  announces each subrun and event before (`SearchesStopFirst` and `Announced` of
  `FileIndex_proofs`).  `FastClonableFileReadWhole` has `WholeInv`: in a file that is
  fast clonable every event up to the cursor was taken, all events are wanted, so that
  no search passes one, and the limit has room for those that are left.
  `ReadsEventStream` is the refinement of `EventStream`: each step that skips or reads
  an event delivers the next one of the stream, the end of the job ends it, an error
  aborts it, and all other steps leave it alone.  Its invariant `StreamInv` says that
  the events skipped or read are just the chosen ones behind the cursor, so that the
  rank of the event offered is the number of those (`PassedCounted`, `OfferedIsNext`),
  and that the duplicate checker knows just the events behind the cursor that are in
  its scope (`CheckerKnows`).  An event is then dropped just when it repeats an earlier
  one, also where a file known to have no duplicates is not checked
  (`DuplicatesKnown`).  A file is left only at its end (`LeftAtEnd`), one passed over
  could not be opened, and nothing is left, or the limit is reached, where the job
  stops (`NothingLeft`, `StopsAtEnd`).  `StreamInv` was checked by TLC on the
  instance of `input` before it was proved.
  Assumptions: `IndexesAssumption` (an index is a sequence of IDs sorted
  by run and subrun, and by event unless `noEventSort` is set; a run comes before
  its subruns, and a subrun, which each event has, before its events) and
  `EntriesAssumption` (both orders of an index hold the same entries equally often:
  one is the other sorted again, `RootInputFile.cc:391-392`).
* `RandomAccess_proofs` - for any number of seeks, which may go forward, back, or to
  another file at any event: `AccessTypeCorrect`, `IndexesAlwaysServeSeeks`,
  `SoughtEventsAreRead`, `EventsReadInSubRunOfSameID` and `SkipsCountEvents`.  The
  invariant `AccessInv` adds to the type invariant where the dialogue with the event
  loop stands in each `AccessState`, that what is announced on the way to an event is
  its own run or subrun, and `WantedIsIndexed`.  That no file is missed
  (`NoFileMissed`) is an invariant next to it: every step goes from a file gone through
  before to another and keeps the index of each good one between them (`GoesThrough`),
  a search that opens several files, in front of the file it ends at or throws at,
  included.  `SubRunInv` then compares
  what the event loop has read, what the seek compared with and what the cursor is on;
  it reuses the lemmas of `InputSequence_proofs` about searches, with the subrun
  last read in whatever file.  `SkipsCountEvents` is about a sum: events before the
  cursor plus events left to skip are constant (`CountInv`), within a file
  (`EventsBetween`) and from file to file (`EventsToNextFile`).  Assumption besides
  those of `InputSequence`: `SeeksAssumption` (an ID that is asked for is an event's).
* `SecondaryFiles_proofs` - `ReadsLikeInputSequence`: each step of `SecondaryFiles` is a
  step of `InputSequence` or leaves it unchanged, so everything proved of the one
  holds of the other (`SecondariesDoNotDisturb`, and `SecondariesKeepStream` for the
  refinement of `EventStream`).  `SecondaryTypeCorrect`: in its
  `TypeOK` each cursor stays in the index of its own file.
  `AnsweredByTheFirstFile` is about cursors that others have moved.  Its invariant
  `AnswerInv` says that a cursor never rests behind the first of several equal
  entries (`CursorsOnFirst`), without which a search that finds the cursor on the
  right ID would stay on a later one; and that a principal has asked the files of the
  list in order and found nothing in those it has passed (`AskedInOrder`).
  `ListsWalkedInPreOrder` is about the constructor's walk.  That the recursive function
  which defines the preorder exists, and gives lists of files, is proved first
  (`UnfoldingExists`, `UnfoldsTyped`): the lists are a forest, in which what holds of the
  rest of a list whenever it holds of the lists and the rest behind it holds everywhere
  (`ForestInduction`).  The invariant `WalkInv` then says that a list made so far,
  followed by what the stack still comes to (`Expands`), is the whole preorder; a turn of
  the loop moves one name from the one to the other (`NameTaken`).
  Assumptions: `StoreAssumption` (indexes are sorted), `ListsAssumption` (lists name
  secondary files there are, and do not lead back to themselves).
* `TKeyVFS_proofs` - `TypeCorrect` (the file lies in its buffer, the buffer is
  whole pages) and `StoresFiles`: each step of `TKeyVFS` is a step of
  `StoredFile` or leaves it unchanged.  The assumption `~ PartialReads`, that
  no read crosses the end of the file, is what SQLite does with the files of a
  database, whose size is a whole number of its pages; without it the theorem
  is false (run `database_partial_read`).
* `SamplingInput_proofs` - `TypeCorrect`, `ProductsOfTheirEvents`
  (`EventsHoldTheirOwnProducts`), `SummaryRightAtEnd` (`SummaryTellsWhereToGoOn`),
  `EachRunSampledOnce` (`SampledOnce`) and `SamplesStreams`: each step of
  `SamplingInput` is a step of `SampledStream` or leaves it unchanged.  The
  inductive invariant `SamplingInv` adds to `TypeOK` where the event loop is before
  the first event, and that an event's `SampledEventInfo` is what its entry holds.
  `TypeOK` itself says that, between the draw and the reading of an event, the
  cursor of its file is just behind an event wanted and `currentEventEntry` is its
  entry: in that moment the event has left the cursor and is not yet given.  That a
  principal copies its entry makes the products its own.
  `SummaryInv` adds that the events given of a dataset are as many as were counted for
  it, and that the summary is written from the cursors where the job ends: what follows
  a cursor in a sorted index is then what was not given, and what a job that starts at
  the event under the cursor wants (`LaterJob`).
  `PrincipalsInv` says that a run or subrun principal holds what `Merge` makes of the
  fragments in the order of the index.  That this counts each event once is an
  induction over the fragments (`MergingGoesOn`): ranges that are merged are disjoint or
  equal, and of equal ones only the first is taken.
  Assumptions: `SamplingAssumption` (an index is a sequence of IDs and the entry of an
  event in it holds that event's data, the numbers of `skipToEvent` are natural
  numbers); for the summary `SortedAssumption` (the job
  that wrote an index sorted it, `RootOutputFile.cc:621-637`); and for the sampled
  products `FragmentsAssumption` (a product counted the events of its range set, which
  is `CountsWhatItCovers` of `RangeSets`, and two of one run with equal range sets are
  the same product, on which skipping the second rests).

* `TFileService_proofs` - `TypeCorrect`, `InTheirDirectory`, `ObjectsLive`,
  `EventsFilled` and `DueSwitches`, for any modules, jobs and limits.  The invariant
  `ServiceInv` says that the directory is that of the module being called wherever calls
  do not overlap (`CallsInv`), that a module with an object has a callback if files may be
  switched (`CallbacksInv`), and that while they are, its object is in the new file or its
  callback is still to be invoked (`HeldInv`).  `RecordedEventsAreFilled` needs which
  modules have filled in the event that is not recorded yet (`FillsInv`), and
  `SwitchesWhenDue` that the count of events is that of the open file (`CountsInv`).
  Assumptions: `TFileServiceAssumption` (what a job is) and `CallsAssumption`
  (with several threads no module makes an object or asks for a callback in an
  event, when calls overlap and the one directory is not locked).

* `OutputFile_proofs` - `TypeCorrect`, `FailsForMixedFilesOnly`, `IndexRight`,
  `WrittenOnce` and `ClosedComplete`, for any products, inputs and configurations.
  `TypesInv` adds to `TypeOK` where the event loop may be: events are in flight only
  within a subrun of a run, and as long as inputs may be cloned no file is closed before
  the end of an input (`NoRequestWhenCloning`: what `shouldFastClone()` asks of the
  granularity).  `FitInv` compares columns: one that was cloned from the current
  input is longer than the others by the events that are still to come, read or not
  (`ColumnsInv`), so that all fit when the file may be closed unless it is mixed.
  `IndexInv` adds what the columns hold.  A row that is right stays so
  (`RowStaysRight`: columns only grow, and a branch that is added is one no earlier input
  had); a cloned column ends with the tree it was cloned from (`TailIs`), of which the
  event in flight is the next (`NextInTree`, for which `shouldFastClone()` needs one
  schedule); and a row that is written has a provenance without gaps (`NewRowRight`).
  That is about two searches which the model writes as recursive functions: what
  `Descendants` and `KeptAncestors` find is closed (`DescendantsClosed`,
  `AncestorsClosed`), since a set that grows level by level within a finite set can grow
  no more after as many levels as that has members (`Closure`, from the least level
  that were a counterexample, in place of an induction).
  `OnceInv` says how what was read is shared out: the wanted events, the events that
  results producers saw and the inputs they were told of are each split, without overlap,
  among the closed files and what is in flight or in the open file (`IsShared`), each event
  has one entry (`OnceIn`), and what producers saw of an event is where the event is or is
  to be (`TogetherInv`).  Two conditions of `EachEventWrittenOnce` came out of that proof:
  an event that is in two inputs is written twice, since only the duplicate check of an
  input looks for it (`NoDuplicates`); and an input without any entry, opened while no
  output file is open, is seen by the results producers without a file being opened for
  it, so that at the end of a job their results of it are lost.
  `CompleteInv` is the invariant of `ClosedFilesAreComplete`.  An open file keeps accounts
  (`AccountsOf`): its counts and statistics are those of its index, and each entry has its
  run and its subrun in the index or in what is still owed to the file (`Due`), so that
  nothing is missing once the file may be closed, wherever the boundary is.  That an event
  written belongs to the subrun and the run that are owed is `PlaceInv`, about the event
  loop.  Written and sorted, an index like that is one `FileIndex` can be searched in
  (`IndexIsReadable`, which puts each entry in its place), and `EventsOfRunFound` then gives
  the range sets (`RangeSetsFound`).
  Assumptions: `ProductsAssumption` (finitely many products, those of
  this process apart from those of the inputs) and `JobsAssumption` (types of a job; where
  all events are wanted none of an input is unselected; within an input a subrun is read
  after its run and an event after its subrun, which is what `EventsReadInTheirSubRun`
  proves of `InputSequence`; and where no subrun is written no event is, as in
  `shouldDropEvents()`, `detail/rootOutputConfigurationTools.cc:9-30`).

Only model-checked: liveness (`JobEnds`, `JobWithSecondariesEnds`, `AccessEnds`); and
everything in `RangeSets`, which makes range sets by recursive functions over what the
jobs before left.  No installed prover can instantiate the induction theorems; the
inductions of the proofs, over the positions of a sequence (`MergingGoesOn`,
`EventsOfRunFound`) and the height of a tree (`ForestInduction`), are made by the least
place where the claim would fail, and there is none over the jobs of a chain.

## 5. What is not modelled, and why

* Limits on the number of subruns: `RootInput` passes them to art, which counts.
* Baskets, compression, memory thresholds and streaming are ROOT's.
* Locks, random numbers and time of `tkeyvfs` (dummies, or the operating
  system's), its change counter (`inNormalWrite` is never set) and failures of
  ROOT to write a key.
* art's event loop, canvas's `FileIndex` and `RangeSet`, and ROOT are modelled
  from how this code uses them, and marked external in `PROJECT.json`.
* In `RangeSets`: products with produced parents (ancestors' provenance is
  in `OutputFile`), subruns (the same templates), products of files of a format
  older than range sets, and a file listed twice.
* In `SecondaryFiles`: lists that lead back to their own file (`Acyclic`; the
  constructor walks in a circle), several schedules, and a build without assertions.
* In `OutputFile`: subrun products, which `fillBranches` treats as it does run
  products, names of files, times, process histories, and the registries that are copied
  whole.  A range set from the index (`HasRangeSets`) is compared with the events
  of the file, which are those of its runs only if these are whole.
* In `SamplingInput`: process histories and parameter sets, `compactRanges`
  (modelled in `RangeSets`), the message of the summary, and ROOT failing while
  it reads.
* In `TFileService`: names and titles, several schedules, and module calls that
  overlap while files are switched (`nthreads` above 1 lets calls overlap in jobs
  that make their histograms before the first event).  Nor are the directories that a
  module makes with `mkdir()` and keeps: each holds its own copy of the pointer to the
  file (`TFileDirectory.cc:92`), which nothing updates when files are switched.
* What dumpers and size tools print beyond counts and range sets; classifying ROOT's messages,
  which is text matching.

## 6. Where code and comments disagree

1. **`secondary_late_run`** `readRunWithID()` asserts that the cursor is on a run
   entry (`RootInputFile.cc:957`) after moving it only if the *run* differs.  When a subrun
   or an event has asked a secondary file before and its run asks for the first
   time afterwards, at the end of the run say, the cursor is on the subrun or
   the event of that run.
2. **`output_uncloned`** "Processing will continue, tree will be slow cloned"
   (`RootOutputTree.cc`): not after an input that was cloned.  An input that
   may not be cloned, after one that was, is likewise written to the uncloned
   branches only; their entries no longer fit, and the job fails at the end of
   the input.  `FailsOnlyWhenMixed` says that nothing else makes it fail.
3. **`database_partial_read`** `seekAndRead()` returns the bytes that are
   missing, not "the number of bytes actually read".
4. **`seek_opened_file`** "We found it", and then the loop goes on to open the
   files behind it.
5. **`prior_dropped`** "We change the provenance status ... to flag this case":
   with `dropMetaData: PRIOR` the status of another product is changed.  (And
   `isAvailableAfterCombine_()`, which looks at the provenance, then takes that
   valid product for a dummy.  It also takes every product whose provenance was
   dropped for one, which is why `AvailableIfValid` is stated for `NONE`.)

Seen while modelling, without a run of their own:

* "The duplicate will be skipped." (`DuplicateChecker.cc`): the index is
  sorted, so a duplicate is next to its twin, and reading the twin throws because its
  event "has multiple entries" (`RootInputFile.cc:1122`, `ReadEventThrows` of
  `InputSequence`).  Duplicates are skipped only in another file, or where
  `noEventSort` keeps the two apart.
* `setIfFastClonable()` finds that a file has no event and goes on to compare
  its first event with `firstEvent`, through the end of the index
  (`RootInputFile.cc:697`).  Either result disables cloning, which it already is.
* Secondary files, too, are refused only to jobs with more than one thread and
  more than one schedule (`RootInputFileSequence.cc:69`).
* "Find the requested event and set the system up to read run and subRun records
  where appropriate" (`RootInput.h:52`): a seek opens the file of the event, the
  event loop then closes it and opens the next, so run and subrun may come from
  another file than the event (`MoveInFile` and `Sequential` of `RandomAccess`;
  `EventsInSubRunOfSameID` says that they have the right ID).
* `event_start_for_sampled_input()` converts the run and the subrun as numbers of
  events (`detail/event_start.cc:99-101`), whose first is 1: subrun 0, which is
  the default subrun and stands in the example of the comment above ("1:0:3"),
  is refused (`IsRefused`).  So no job can go on at an event of subrun 0, although the
  summary names it as the next one: `SummaryTellsWhereToGoOn` says that the start is
  refused in just this case.
* "We explicitly do not support results products" (`detail/SamplingInputFile.cc:411`):
  they are to be dropped, but dropping one asks `treeForBranchType_()` for its tree,
  which throws a `LogicError`.  A file that registers a results product cannot be
  sampled (`CannotOpen`).
* `make_sampled_product()` looks up a product that is known from some file but has no
  run or subrun in any with `.at()`, which throws (`CannotSample`).
* `putSampledProductsInto_()` moves its range set into the first product of its
  loop; later ones get a range set that was moved from.
* `SamplingInputFile::readEvent()` appends the current process to the process history
  after `sampled_pcs`, which already ends with it.
* "can be used only when 1 thread and 1 schedule are specified" and "is not allowed
  for more than one thread" (`TFileService.cc:58`, `test/CMakeLists.txt:183`): the
  condition, `nthreads() != 1 && nschedules() != 1`, refuses only jobs with more than
  one of both (`Construct` of `TFileService`).  The jobs of `histograms` that switch
  files have one thread and one schedule.
* `invokeCallbacks()` sets `dir_` and not `descr_`: the directories that callbacks make
  in a new file have the title of the module that was called last.  Titles are not
  in the model.

## 7. Plan

What is left, in this order:

1. **Theorems** about what is only model-checked: `StoredWithItsFirstEvent` of `RangeSets`.
2. **Subrun products** next to run products in `RangeSets`, and both with the
   ancestors that `OutputFile` has for events.
3. **Files of an older format** in `RangeSets`, whose range sets would have to come
   from the index.
