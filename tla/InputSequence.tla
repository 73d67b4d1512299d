---------------------------- MODULE InputSequence ----------------------------
(***************************************************************************)
(* Reading a list of art/ROOT files from front to back: RootInput in its   *)
(* SEQUENTIAL state, RootInputFileSequence, RootInputFile's cursor and the *)
(* DuplicateChecker, driven by art's event loop.                           *)
(*                                                                         *)
(* The event loop asks for the type of the next item and then reads that   *)
(* item.  `item' is where this dialogue stands.  getNextEntryTypeWanted()  *)
(* calls itself until it comes to an entry that is wanted; each of its     *)
(* calls is a step here, taken while item is "Wanted" (and "Skipping"      *)
(* inside its loop over events to skip).  art calls an input source from   *)
(* one thread at a time, so nothing comes between these steps.             *)
(***************************************************************************)
EXTENDS FileIndex, FiniteSets

CONSTANTS
  Catalogs,   \* the lists of files a job may be given
  Options     \* the source configurations a job may be given

Modes     == {"Runs", "RunsAndSubRuns", "RunsSubRunsAndEvents"}
DupModes  == {"noDuplicateCheck", "checkEachFile", "checkEachRealDataFile",
              "checkAllFilesOpened"}
DataTypes == {"unknown", "isRealData", "isSimulation"}

(* A file cannot be opened, has no index ("corrupt") or is "good".  Its    *)
(* index is written sorted by run, subrun and event; byEntry is the same   *)
(* sorted by run, subrun and entry.  inOrder: its subruns lie in the event *)
(* tree one after another and in this order.                               *)
File == [name : STRING, kind : {"unopenable", "corrupt", "good"}, sorted : Seq(ID),
         byEntry : Seq(ID), real : BOOLEAN, inOrder : BOOLEAN]

(* One element of secondaryFileNames: the file `a' has the secondary files b. *)
SecondaryFile == [a : STRING, b : Seq(STRING)]

(* maxEvents < 0: no limit. *)
Option == [first : ID, skip : Nat, dup : DupModes, skipBad : BOOLEAN,
           mode : Modes, maxEvents : Int, noEventSort : BOOLEAN,
           secondaryFileNames : Seq(SecondaryFile)]

ASSUME CatalogsAssumption == Catalogs \subseteq Seq(File)
(* What RootOutputFile promises of the index of every file it writes.      *)
ASSUME IndexesAssumption  ==
  \A c \in Catalogs : \A k \in DOMAIN c :
    /\ Sorted(c[k].sorted) /\ Nested(c[k].sorted)
    /\ SortedBySubRun(c[k].byEntry) /\ Nested(c[k].byEntry)
(* sortBy_Run_SubRun_EventEntry() gives the same entries another order.    *)
SameEntries(a, b) ==
  \A id \in {a[p] : p \in DOMAIN a} \cup {b[p] : p \in DOMAIN b} :
    Cardinality({p \in DOMAIN a : a[p] = id}) = Cardinality({p \in DOMAIN b : b[p] = id})

ASSUME EntriesAssumption ==
  \A c \in Catalogs : \A k \in DOMAIN c : SameEntries(c[k].sorted, c[k].byEntry)
(* The constructor refuses noEventSort together with a first event. *)
ASSUME OptionsAssumption  ==
  /\ Options \subseteq Option
  /\ \A o \in Options : o.noEventSort => o.first.event = 1

VARIABLES
  catalog, opts,        \* the job's files and configuration, fixed
  current,              \* catalog_.currentIndex(), from 1; 0 before the first file
  rootFile,             \* the file rootFile_ has open, 0 when it is null
  firstFile,            \* firstFile_
  pendingClose,         \* pendingClose_
  eventsToSkip,         \* RootInputFileSequence::eventsToSkip_
  fiIter,               \* RootInputFile::fiIter_
  fileEventsToSkip,     \* RootInputFile::eventsToSkip_
  fastClonable,         \* RootInputFile::fastClonable_
  checker,              \* the DuplicateChecker's state
  remainingEvents,      \* processingLimits_.remainingEvents()
  item,                 \* the event loop's place in the dialogue
  fileBlock,            \* the event loop holds a FileBlock
  context,              \* the run or subrun last read, and from which file
  delivered,            \* history: the positions of the events read
  skipped,              \* history: the positions passed over by eventsToSkip_
  dropped               \* history: the positions passed over as duplicates

config   == <<catalog, opts>>
sequence == <<current, rootFile, firstFile, pendingClose, eventsToSkip>>
file     == <<fiIter, fileEventsToSkip, fastClonable>>
loop     == <<remainingEvents, item, fileBlock, context>>
history  == <<delivered, skipped, dropped>>
vars     == <<config, sequence, file, checker, loop, history>>

NoContext == [file |-> 0, id |-> RunEntry(1)]

(* fileIndex_ as the cursor goes through it *)
IndexOf(f) == IF opts.noEventSort THEN f.byEntry ELSE f.sorted

index    == IndexOf(catalog[rootFile])
entry    == index[fiIter]
type     == IF rootFile = 0 THEN "End" ELSE TypeAt(index, fiIter)
here     == [file |-> rootFile, pos |-> fiIter]

-----------------------------------------------------------------------------
(***************************************************************************)
(* DuplicateChecker                                                        *)
(***************************************************************************)
PerFile == opts.dup \in {"checkEachFile", "checkEachRealDataFile"}

FreshChecker == [ids |-> {}, dataType |-> "unknown", clean |-> FALSE]

(* Mutant: closing a file also forgets the events of all files. *)
CheckerClosed_Always(c) == FreshChecker

(* inputFileClosed() *)
CheckerClosed(c) == IF PerFile THEN FreshChecker ELSE c

(* init(), which initializeDuplicateChecker() calls if the file has events *)
CheckerInit(c, f) ==
  LET dataType == IF f.real THEN "isRealData" ELSE "isSimulation"
      asks     == opts.dup = "checkEachFile" \/ dataType = "isRealData"
  IN  IF ~ PerFile \/ Events(f.sorted) = {} THEN c
      ELSE [c EXCEPT !.dataType = dataType,
                     !.clean = IF asks THEN EventsUniqueAndOrdered(f.sorted) ELSE @]

(* isDuplicateAndCheckActive() goes as far as eventIDs_.insert() *)
CheckActive ==
  /\ opts.dup # "noDuplicateCheck"
  /\ ~ (opts.dup = "checkEachRealDataFile" /\ checker.dataType = "isSimulation")
  /\ ~ (PerFile /\ checker.clean)

IsDuplicate == CheckActive /\ entry \in checker.ids

Inserted == IF CheckActive THEN [checker EXCEPT !.ids = @ \cup {entry}] ELSE checker

-----------------------------------------------------------------------------
(***************************************************************************)
(* RootInputFileSequence: opening and closing                              *)
(***************************************************************************)

(* secondaryFilesMap: of two lists for a file, emplace() keeps the first.  *)
(* A file that is not listed is taken like one with an empty list.         *)
Listed(name) ==
  LET lists == opts.secondaryFileNames
      given == {i \in DOMAIN lists : lists[i].a = name}
  IN  IF given = {} THEN <<>> ELSE lists[FirstOf(lists, given)].b

(* Mutant: events still to be skipped do not prevent cloning. *)
SetIfFastClonable_SkipIgnored(f, s) ==
  LET ix == IndexOf(f) IN
  /\ Listed(f.name) = <<>>
  /\ f.inOrder /\ ix = f.byEntry
  /\ remainingEvents >= 0 => Cardinality(Events(ix)) <= remainingEvents
  /\ opts.mode = "RunsSubRunsAndEvents"
  /\ Events(ix) # {}
  /\ ~ Before(ix[FirstOf(ix, Events(ix))], opts.first)

(* setIfFastClonable() of file f, opened with s events left to skip.  A    *)
(* file without events dereferences end(); the flag is FALSE either way.   *)
(* A file has a secondary reader if its list of secondaries is not empty.  *)
SetIfFastClonable(f, s) ==
  LET ix == IndexOf(f) IN
  /\ Listed(f.name) = <<>>
  /\ f.inOrder /\ ix = f.byEntry
  /\ s = 0
  /\ remainingEvents >= 0 => Cardinality(Events(ix)) <= remainingEvents
  /\ opts.mode = "RunsSubRunsAndEvents"
  /\ Events(ix) # {}
  /\ ~ Before(ix[FirstOf(ix, Events(ix))], opts.first)

(* The next file of the catalog that initFile(skipBadFiles_) does not pass *)
(* over by returning nullptr, 0 when there is none.                        *)
NextTried ==
  LET tried == {k \in (current + 1)..Len(catalog) :
                    ~ (opts.skipBad /\ catalog[k].kind = "unopenable")}
  IN  IF tried = {} THEN 0 ELSE CHOOSE k \in tried : \A j \in tried : k <= j

(* while (!rootFile_ && catalog_.getNextFile()) initFile(skipBadFiles_),   *)
(* with s events to skip and duplicate checker c after closeFile_().       *)
OpenNext(s, c) ==
  /\ eventsToSkip' = s
  /\ \/ /\ NextTried # 0
        /\ LET f == catalog[NextTried] IN
             /\ f.kind = "good"
             /\ rootFile' = NextTried /\ current' = NextTried
             /\ fiIter' = 1
             /\ fileEventsToSkip' = s
             /\ fastClonable' = SetIfFastClonable(f, s)
             /\ checker' = CheckerInit(c, f)
     \/ /\ NextTried # 0 => catalog[NextTried].kind # "good"
        /\ rootFile' = 0 /\ current' = IF NextTried = 0 THEN Len(catalog) ELSE NextTried
        /\ checker' = c
        /\ UNCHANGED file

(* What OpenNext comes to: a file, no file, or an exception. *)
OpenResult == IF NextTried = 0 THEN "none"
              ELSE IF catalog[NextTried].kind = "good" THEN "file" ELSE "throws"

(* Mutant: the events skipped in the file are not accounted for. *)
SkipAfterClose_Forgotten == eventsToSkip

(* What closeFile_() leaves in eventsToSkip_ and the duplicate checker. *)
SkipAfterClose    == IF rootFile = 0 THEN eventsToSkip ELSE fileEventsToSkip
CheckerAfterClose == IF rootFile = 0 THEN checker ELSE CheckerClosed(checker)

(* The constructor opens the first file it can. *)
Construct ==
  /\ item = "Construct"
  /\ OpenNext(eventsToSkip, checker)
  /\ item' = IF OpenResult = "throws" THEN "Failed" ELSE "Idle"
  /\ UNCHANGED <<config, firstFile, pendingClose, remainingEvents, fileBlock, context, history>>

(* IsFile: the event loop closes the file it has, if any, and calls        *)
(* readFile().  The constructor's file is still open the first time.  A    *)
(* null FileBlock is an error to the event loop.                           *)
ReadFirstFile ==
  /\ item = "File" /\ ~ fileBlock /\ rootFile # 0
  /\ fileBlock' = TRUE
  /\ item' = "Idle"
  /\ UNCHANGED <<config, sequence, file, checker, remainingEvents, context, history>>

ReadNextFile ==
  /\ item = "File" /\ (fileBlock \/ rootFile = 0)
  /\ OpenNext(SkipAfterClose, CheckerAfterClose)
  /\ fileBlock' = (OpenResult = "file")
  /\ item' = IF OpenResult = "file" THEN "Idle" ELSE "Failed"
  /\ UNCHANGED <<config, firstFile, pendingClose, remainingEvents, context, history>>

(* IsStop: closeFile() and endJob(), both closeFile_(). *)
StopJob ==
  /\ item = "Stop"
  /\ pendingClose' = FALSE
  /\ eventsToSkip' = SkipAfterClose
  /\ checker' = CheckerAfterClose
  /\ rootFile' = 0
  /\ fileBlock' = FALSE
  /\ item' = "Stopped"
  /\ UNCHANGED <<config, current, firstFile, file, remainingEvents, context, history>>

-----------------------------------------------------------------------------
(***************************************************************************)
(* ProcessingLimits::nextItemType() and getNextItemType()                  *)
(***************************************************************************)
LimitReached ==
  /\ item = "Idle" /\ remainingEvents = 0
  /\ item' = "Stop"
  /\ UNCHANGED <<config, sequence, file, checker, remainingEvents, fileBlock, context, history>>

FirstItem ==
  /\ item = "Idle" /\ remainingEvents # 0 /\ firstFile
  /\ firstFile' = FALSE
  /\ item' = "File"
  /\ UNCHANGED <<config, current, rootFile, pendingClose, eventsToSkip, file, checker,
                 remainingEvents, fileBlock, context, history>>

AskFile ==
  /\ item = "Idle" /\ remainingEvents # 0 /\ ~ firstFile
  /\ item' = "Wanted"
  /\ UNCHANGED <<config, sequence, file, checker, remainingEvents, fileBlock, context, history>>

(* kEnd: to the next file or, with finish(), to the end of the job. *)
NoMoreEntries ==
  /\ item = "Wanted" /\ type = "End"
  /\ item' = IF current < Len(catalog) THEN "File" ELSE "Stop"
  /\ pendingClose' = (pendingClose \/ current = Len(catalog))
  /\ UNCHANGED <<config, current, rootFile, firstFile, eventsToSkip, file, checker,
                 remainingEvents, fileBlock, context, history>>

-----------------------------------------------------------------------------
(***************************************************************************)
(* RootInputFile::getNextEntryTypeWanted()                                 *)
(***************************************************************************)
MoveTo(p) ==
  /\ fiIter' = p
  /\ UNCHANGED <<config, sequence, fileEventsToSkip, fastClonable, remainingEvents,
                 fileBlock, context>>

SkipToFirstRun ==
  /\ item = "Wanted" /\ type = "Run"
  /\ Before(RunOf(entry), RunOf(opts.first))
  /\ MoveTo(FindRunPosition(index, opts.first.run))
  /\ UNCHANGED <<item, checker, history>>

WantRun ==
  /\ item = "Wanted" /\ type = "Run"
  /\ ~ Before(RunOf(entry), RunOf(opts.first))
  /\ item' = "Run"
  /\ MoveTo(fiIter)
  /\ UNCHANGED <<checker, history>>

SkipToNextRun ==
  /\ item = "Wanted" /\ type \in {"SubRun", "Event"} /\ opts.mode = "Runs"
  /\ MoveTo(FindRunPosition(index, entry.run + 1))
  /\ UNCHANGED <<item, checker, history>>

(* The subrun precedes the first one wanted, in the first run wanted. *)
BeforeFirstSubRun ==
  /\ RunOf(entry) = RunOf(opts.first)
  /\ Before(SubRunOf(entry), SubRunOf(opts.first))

(* Mutant: straight to the first event, past its subrun. *)
SkipToFirstSubRun_ToEvent ==
  /\ item = "Wanted" /\ type = "SubRun" /\ opts.mode # "Runs"
  /\ BeforeFirstSubRun
  /\ MoveTo(FindEventPosition(index, opts.first))
  /\ UNCHANGED <<item, checker, history>>

SkipToFirstSubRun ==
  /\ item = "Wanted" /\ type = "SubRun" /\ opts.mode # "Runs"
  /\ BeforeFirstSubRun
  /\ MoveTo(FindSubRunOrRunPosition(index, SubRunOf(opts.first)))
  /\ UNCHANGED <<item, checker, history>>

WantSubRun ==
  /\ item = "Wanted" /\ type = "SubRun" /\ opts.mode # "Runs"
  /\ ~ BeforeFirstSubRun
  /\ item' = "SubRun"
  /\ MoveTo(fiIter)
  /\ UNCHANGED <<checker, history>>

SkipToNextSubRun ==
  /\ item = "Wanted" /\ type = "Event" /\ opts.mode = "RunsAndSubRuns"
  /\ MoveTo(FindSubRunOrRunPosition(index, SubRunEntry(entry.run, entry.subRun + 1)))
  /\ UNCHANGED <<item, checker, history>>

AtEvent == type = "Event" /\ opts.mode = "RunsSubRunsAndEvents"

SkipToFirstEvent ==
  /\ item = "Wanted" /\ AtEvent
  /\ Before(entry, opts.first)
  /\ MoveTo(FindEventPosition(index, opts.first))
  /\ UNCHANGED <<item, checker, history>>

(* Mutant: the loop does not stop when the count is used up. *)
MoreToSkip_Always == TRUE

MoreToSkip == fileEventsToSkip # 0

(* "Wanted": the check before the event is offered.  "Skipping": the check *)
(* of the inner loop, between two events that are skipped.                 *)
DropDuplicate ==
  /\ \/ item = "Wanted" /\ AtEvent /\ ~ Before(entry, opts.first)
     \/ item = "Skipping" /\ MoreToSkip /\ type = "Event"
  /\ IsDuplicate
  /\ MoveTo(fiIter + 1)
  /\ dropped' = dropped \cup {here}
  /\ UNCHANGED <<item, checker, delivered, skipped>>

WantEvent ==
  /\ item = "Wanted" /\ AtEvent /\ ~ Before(entry, opts.first)
  /\ ~ IsDuplicate /\ ~ MoreToSkip
  /\ checker' = Inserted
  /\ item' = "Event"
  /\ MoveTo(fiIter)
  /\ UNCHANGED history

(* while (eventsToSkip_ != 0 && ... == kEvent) { nextEntry(); --eventsToSkip_; *)
SkipEvent ==
  /\ MoreToSkip
  /\ \/ item = "Wanted" /\ AtEvent /\ ~ Before(entry, opts.first)
     \/ item = "Skipping" /\ type = "Event"
  /\ ~ IsDuplicate
  /\ checker' = Inserted
  /\ fiIter' = fiIter + 1
  /\ fileEventsToSkip' = fileEventsToSkip - 1
  /\ skipped' = Append(skipped, here)
  /\ item' = "Skipping"
  /\ UNCHANGED <<config, sequence, fastClonable, remainingEvents, fileBlock, context,
                 delivered, dropped>>

(* Mutant: the loop waits for the count, even when the subrun is over. *)
EndSkipping_CountOnly ==
  /\ item = "Skipping" /\ ~ MoreToSkip
  /\ item' = "Wanted"
  /\ MoveTo(fiIter)
  /\ UNCHANGED <<checker, history>>

(* The loop is over: getNextEntryTypeWanted() calls itself again. *)
EndSkipping ==
  /\ item = "Skipping" /\ (~ MoreToSkip \/ type # "Event")
  /\ item' = "Wanted"
  /\ MoveTo(fiIter)
  /\ UNCHANGED <<checker, history>>

-----------------------------------------------------------------------------
(***************************************************************************)
(* readRun(), readSubRun(), readEvent()                                    *)
(***************************************************************************)
ReadRunOrSubRun ==
  /\ item \in {"Run", "SubRun"}
  /\ fiIter' = FragmentsEnd(index, fiIter)
  /\ context' = [file |-> rootFile, id |-> entry]
  /\ item' = "Idle"
  /\ UNCHANGED <<config, sequence, fileEventsToSkip, fastClonable, checker, remainingEvents,
                 fileBlock, history>>

(* getEntryNumbers(InEvent) finds one entry with this ID, not several. *)
SingleEntry == FragmentsEnd(index, fiIter) = fiIter + 1

(* Mutant: readEvent() without nextEntry(). *)
ReadEvent_Stays ==
  /\ item = "Event" /\ SingleEntry
  /\ delivered' = Append(delivered, here)
  /\ remainingEvents' = IF remainingEvents > 0 THEN remainingEvents - 1 ELSE remainingEvents
  /\ item' = "Idle"
  /\ UNCHANGED <<config, sequence, file, checker, fileBlock, context, skipped, dropped>>

ReadEvent ==
  /\ item = "Event" /\ SingleEntry
  /\ fiIter' = fiIter + 1
  /\ delivered' = Append(delivered, here)
  /\ remainingEvents' = IF remainingEvents > 0 THEN remainingEvents - 1 ELSE remainingEvents
  /\ item' = "Idle"
  /\ UNCHANGED <<config, sequence, fileEventsToSkip, fastClonable, checker, fileBlock, context,
                 skipped, dropped>>

ReadEventThrows ==
  /\ item = "Event" /\ ~ SingleEntry
  /\ item' = "Failed"
  /\ MoveTo(fiIter)
  /\ UNCHANGED <<checker, history>>

-----------------------------------------------------------------------------
Init ==
  /\ catalog \in Catalogs /\ opts \in Options
  /\ current = 0 /\ rootFile = 0
  /\ firstFile = TRUE /\ pendingClose = FALSE
  /\ eventsToSkip = opts.skip
  /\ fiIter = 1 /\ fileEventsToSkip = 0 /\ fastClonable = FALSE
  /\ checker = FreshChecker
  /\ remainingEvents = opts.maxEvents
  /\ item = "Construct" /\ fileBlock = FALSE /\ context = NoContext
  /\ delivered = <<>> /\ skipped = <<>> /\ dropped = {}

Files  == Construct \/ ReadFirstFile \/ ReadNextFile \/ StopJob
Limits == LimitReached \/ FirstItem \/ AskFile \/ NoMoreEntries
Wanted ==
  \/ SkipToFirstRun \/ WantRun \/ SkipToNextRun
  \/ SkipToFirstSubRun \/ WantSubRun \/ SkipToNextSubRun
  \/ SkipToFirstEvent \/ DropDuplicate \/ WantEvent \/ SkipEvent \/ EndSkipping
Reads  == ReadRunOrSubRun \/ ReadEvent \/ ReadEventThrows

Next == Files \/ Limits \/ Wanted \/ Reads

Spec     == Init /\ [][Next]_vars
FairSpec == Spec /\ WF_vars(Next)

-----------------------------------------------------------------------------
(***************************************************************************)
(* Properties                                                              *)
(***************************************************************************)
Items == {"Construct", "Idle", "File", "Wanted", "Skipping", "Run", "SubRun", "Event",
          "Stop", "Stopped", "Failed"}

Position == [file : Nat, pos : Nat]

TypeOK ==
  /\ catalog \in Catalogs /\ opts \in Options
  /\ current \in 0..Len(catalog)
  /\ rootFile \in {0, current}
  /\ rootFile # 0 => catalog[rootFile].kind = "good" /\ fiIter \in 1..End(index)
  /\ firstFile \in BOOLEAN /\ pendingClose \in BOOLEAN /\ fileBlock \in BOOLEAN
  /\ eventsToSkip \in Nat /\ fileEventsToSkip \in Nat /\ fiIter \in Nat
  /\ fastClonable \in BOOLEAN
  /\ checker \in [ids : SUBSET ID, dataType : DataTypes, clean : BOOLEAN]
  /\ remainingEvents \in Int
  /\ item \in Items
  /\ item \in {"Skipping", "Run", "SubRun", "Event"} => rootFile # 0
  /\ item \in {"Run", "SubRun", "Event"} => type = item
  /\ context \in [file : Nat, id : ID]
  /\ delivered \in Seq(Position) /\ skipped \in Seq(Position) /\ dropped \in SUBSET Position

(* The events still to skip, wherever the count is kept at the moment, and *)
(* the events skipped make up the count the job was given: the count moves *)
(* from the sequence into each file it opens and back as the file closes.  *)
SkipAccounting ==
  Len(skipped) + (IF rootFile = 0 THEN eventsToSkip ELSE fileEventsToSkip) = opts.skip

(* No event is read or skipped out of turn: both histories go forward      *)
(* through the files and, in each file, through the index, and skipping is *)
(* over before the first event is read.                                    *)
Precedes(a, b) == a.file < b.file \/ (a.file = b.file /\ a.pos < b.pos)

passed == skipped \o delivered

InOrder ==
  /\ \A i, j \in DOMAIN passed : i < j => Precedes(passed[i], passed[j])
  /\ rootFile # 0 => \A i \in DOMAIN passed : Precedes(passed[i], here)

(* Whatever getNextEntryTypeWanted() jumps over, the event it offers is    *)
(* in the subrun whose SubRun entry was the last one read from this file:  *)
(* art hands the event to that subrun's principal.                         *)
EventsInTheirSubRun ==
  [][delivered' # delivered => context = [file |-> rootFile, id |-> SubRunOf(entry)]]_vars

(* A file that was announced as fast clonable, whose whole event tree may  *)
(* so be copied to the output before any event is read, is read whole:     *)
(* when it is left, each event was read or recognised as a duplicate.      *)
FastClonableFileReadWhole ==
  rootFile # 0 /\ fastClonable /\ item \in {"File", "Stop"} /\ fileBlock =>
    \A p \in Events(index) :
      LET at == [file |-> rootFile, pos |-> p] IN
      \/ at \in dropped
      \/ \E i \in DOMAIN delivered : delivered[i] = at

(* The job delivers what the abstract specification says it was asked for. *)
Stream == INSTANCE EventStream WITH over <- item \in {"Stopped", "Failed"}
StreamSpec == Stream!Spec

(* Every job comes to its end, stopped or failed. *)
JobEnds == <>(item \in {"Stopped", "Failed"})
=============================================================================
