----------------------------- MODULE RandomAccess -----------------------------
(***************************************************************************)
(* RootInput with its random access: InputSequence, and seekToEvent().     *)
(*                                                                         *)
(* Code that runs while an event is processed (an event display) may ask   *)
(* the source for another event, by its ID or by a number of events to go  *)
(* forward or back.  The source moves to that event at once and remembers, *)
(* as an AccessState, what the event loop has to read before it: a file, a *)
(* run, a subrun and the event.  nextItemType() then announces these items *)
(* one after another, finding each again with readIt().                    *)
(*                                                                         *)
(* One turn of the loop in skip() is a step here, taken while item is      *)
(* "Seek".  An index rule for IDs that are not in a file is canvas's own;  *)
(* it is taken to be the first event not before the ID.                    *)
(***************************************************************************)
EXTENDS InputSequence, FiniteSetsExt

CONSTANTS
  Offsets,    \* the numbers of events to move by
  Targets,    \* the events asked for by ID
  MaxSeeks    \* bound on the seeks of one job

(* An EventID that is asked for is that of an event. *)
ASSUME SeeksAssumption ==
  /\ Offsets \subseteq Int /\ MaxSeeks \in Nat
  /\ Targets \subseteq {id \in ID : EntryType(id) = "Event"}

VARIABLES
  searchable,       \* catalog_.isSearchable(), fixed
  fileIndexes,      \* the files whose index fileIndexes_ holds
  accessState,      \* AccessState::state_
  lastReadEventID,  \* AccessState::lastReadEventID_
  wantedEventID,    \* AccessState::wantedEventID_
  lastFileOpen,     \* rootFileForLastReadEvent_ is the object rootFile_ is
  processing,       \* the event loop has the event last read
  offset,           \* what skip() has left to do
  seek,             \* history: the last seek
  seeks,            \* the number of seeks
  astray            \* history: a seek has left the events wanted

access   == <<accessState, lastReadEventID, wantedEventID>>
seeking  == <<offset, seek, seeks, astray>>
allVars  == <<vars, searchable, fileIndexes, access, lastFileOpen, processing, seeking>>

AccessStates ==
  {"SEQUENTIAL", "SEEKING_FILE", "SEEKING_RUN", "SEEKING_SUBRUN", "SEEKING_EVENT"}
NoEvent == EventEntry(1, 0, 0)
NoPos   == [file |-> 0, pos |-> 0]
NoSeek  == [by |-> "none", from |-> NoPos, offset |-> 0, id |-> NoEvent, exact |-> TRUE,
            found |-> NoPos]

-----------------------------------------------------------------------------
(***************************************************************************)
(* Finding an entry in the files                                           *)
(***************************************************************************)
IndexIn(k) == IndexOf(catalog[k])

NextEvent(ix, p) == FirstOf(ix, {q \in Events(ix) : q >= p})

(* Mutant: an entry after the one asked for will do. *)
Find_NeverExact(k, id, exact) ==
  FirstOf(IndexIn(k), {p \in DOMAIN IndexIn(k) : EntryType(IndexIn(k)[p]) = EntryType(id)
                                                 /\ ~ Before(IndexIn(k)[p], id)})

(* setEntry(id, exact) in file k *)
Find(k, id, exact) ==
  IF exact THEN FindExactly(IndexIn(k), id)
  ELSE FirstOf(IndexIn(k), {p \in Events(IndexIn(k)) : ~ Before(IndexIn(k)[p], id)})

Contains(k, id, exact) == Find(k, id, exact) # End(IndexIn(k))

(* The files opened before that contain the entry. *)
Opened(id, exact) == {k \in fileIndexes : Contains(k, id, exact)}

(* The files after file k at which the loop over files not yet opened ends: *)
(* those with the entry, and those initFile() throws at.                    *)
Stops(id, exact, k) ==
  {j \in (k + 1)..Len(catalog) : catalog[j].kind = "good" => Contains(j, id, exact)}

(* Mutant: the index of a file opened is not kept. *)
KeepIndexes_None(first, last) == UNCHANGED fileIndexes

(* Mutant: the index is kept of the file a search ends at only. *)
KeepIndexes_LastOnly(first, last) == fileIndexes' = fileIndexes \cup {last}

(* initFile() stores the index of each good file it has opened. *)
KeepIndexes(first, last) == fileIndexes' = fileIndexes \cup (first..last)

(* initFile() of the good files from first to k, one after another, the    *)
(* cursor of the last then moved to p.  No event is read or skipped in the *)
(* files before k: each leaves the count of events to skip as it got it,   *)
(* and the duplicate checker as closing any file does, so that k is opened *)
(* as if it were the only one.                                             *)
InitFiles(first, k, p) ==
  /\ rootFile' = k /\ current' = k /\ fiIter' = p
  /\ eventsToSkip' = SkipAfterClose
  /\ fileEventsToSkip' = SkipAfterClose
  /\ fastClonable' = SetIfFastClonable(catalog[k], SkipAfterClose)
  /\ checker' = CheckerInit(CheckerAfterClose, catalog[k])
  /\ lastFileOpen' = FALSE
  /\ KeepIndexes(first, k)

InitFile(k, p) == InitFiles(k, k, p)

(* initFile() of file k throws or returns nullptr, after closeFile_(). *)
NoFile(k) ==
  /\ rootFile' = 0 /\ current' = k
  /\ eventsToSkip' = SkipAfterClose
  /\ checker' = CheckerAfterClose
  /\ lastFileOpen' = FALSE
  /\ UNCHANGED file

MoveInFile(p) ==
  /\ fiIter' = p
  /\ UNCHANGED <<current, rootFile, eventsToSkip, fileEventsToSkip, fastClonable, checker,
                 lastFileOpen, fileIndexes>>

-----------------------------------------------------------------------------
(***************************************************************************)
(* seekToEvent(): what RootInput makes of the event found                  *)
(***************************************************************************)
(* Mutant: the subrun is not compared. *)
StateToReach_RunOnly(id, sameFile) ==
  IF ~ sameFile                              THEN "SEEKING_FILE"
  ELSE IF RunOf(id) # RunOf(lastReadEventID) THEN "SEEKING_RUN"
  ELSE "SEEKING_EVENT"

(* updateAccessState(): seen from the event last read and its file. *)
StateToReach(id, sameFile) ==
  IF ~ sameFile                                    THEN "SEEKING_FILE"
  ELSE IF RunOf(id) # RunOf(lastReadEventID)       THEN "SEEKING_RUN"
  ELSE IF SubRunOf(id) # SubRunOf(lastReadEventID) THEN "SEEKING_SUBRUN"
  ELSE "SEEKING_EVENT"

UpdateAccessState(id, sameFile) ==
  /\ wantedEventID' = id
  /\ accessState' = StateToReach(id, sameFile)
  /\ UNCHANGED lastReadEventID

MaySeek == item = "Idle" /\ processing /\ seeks < MaxSeeks

SeekInProgress ==
  /\ MaySeek /\ accessState # "SEQUENTIAL"
  /\ item' = "Failed"
  /\ UNCHANGED <<config, sequence, file, checker, remainingEvents, fileBlock, context, history,
                 searchable, fileIndexes, access, lastFileOpen, processing, seeking>>

(* A seek by ID that returns false leaves the cursor anywhere.  One that   *)
(* goes back before the first event wanted leaves it where the sequential  *)
(* reading jumps from to that event, past the entries of its run and       *)
(* subrun.                                                                 *)
GoesAstray(found) ==
  found = NoPos \/ Before(IndexIn(found.file)[found.pos], opts.first)

-----------------------------------------------------------------------------
(***************************************************************************)
(* seekToEvent(EventID, exact)                                             *)
(***************************************************************************)
SeekByID(id, exact, found) ==
  /\ seeks' = seeks + 1
  /\ seek' = [NoSeek EXCEPT !.by = "id", !.from = here, !.id = id, !.exact = exact,
                            !.found = found]
  /\ astray' = (astray \/ GoesAstray(found))
  /\ UNCHANGED <<config, firstFile, pendingClose, remainingEvents, fileBlock, context, history,
                 searchable, processing, offset>>

(* In the current file it is always looked for exactly. *)
FoundInCurrentFile(id, exact) ==
  LET p == Find(rootFile, id, TRUE) IN
  /\ Contains(rootFile, id, TRUE)
  /\ SeekByID(id, exact, [file |-> rootFile, pos |-> p])
  /\ MoveInFile(p)
  /\ UpdateAccessState(index[p], lastFileOpen)
  /\ UNCHANGED item

NotSearchable(id, exact) ==
  /\ ~ Contains(rootFile, id, TRUE) /\ ~ searchable
  /\ SeekByID(id, exact, NoPos)
  /\ MoveInFile(End(index))
  /\ UNCHANGED <<item, access>>

(* Where the search goes on after the files opened before: a file that has *)
(* the entry has been opened once more by then, and the loop over them is  *)
(* left.  From there on every file is opened, up to the one it stops at.   *)
StartOfScan(id, exact) ==
  IF Opened(id, exact) = {} THEN current ELSE Min(Opened(id, exact))

Searches(id, exact) == ~ Contains(rootFile, id, TRUE) /\ searchable

FoundInLaterFile(id, exact) ==
  LET start == StartOfScan(id, exact)
      stops == Stops(id, exact, start)
      k     == Min(stops)
      p     == Find(k, id, exact)
  IN  /\ Searches(id, exact)
      /\ stops # {} /\ catalog[k].kind = "good"
      /\ SeekByID(id, exact, [file |-> k, pos |-> p])
      /\ InitFiles(start + 1, k, p)
      /\ UpdateAccessState(IndexIn(k)[p], FALSE)
      /\ UNCHANGED item

SearchThrows(id, exact) ==
  LET start == StartOfScan(id, exact)
      stops == Stops(id, exact, start)
  IN
  /\ Searches(id, exact)
  /\ stops # {} /\ catalog[Min(stops)].kind # "good"
  /\ SeekByID(id, exact, NoPos)
  /\ NoFile(Min(stops))
  /\ KeepIndexes(start + 1, Min(stops) - 1)
  /\ item' = "Failed"
  /\ UNCHANGED access

(* EventID() is returned, wherever the search has got to: the end of the   *)
(* last file, or the event itself if it was found in the last file.        *)
NotFound(id, exact) ==
  LET start == StartOfScan(id, exact)
      last  == Len(catalog)
  IN
  /\ Searches(id, exact)
  /\ Stops(id, exact, start) = {}
  /\ SeekByID(id, exact, NoPos)
  /\ CASE start < last -> InitFiles(start + 1, last, End(IndexIn(last)))
       [] start = last /\ Opened(id, exact) # {} -> InitFile(last, Find(last, id, exact))
       [] OTHER -> MoveInFile(End(index))
  /\ UNCHANGED <<item, access>>

SeekToEventID ==
  /\ MaySeek /\ accessState = "SEQUENTIAL"
  /\ \E id \in Targets, exact \in BOOLEAN :
       \/ FoundInCurrentFile(id, exact) \/ NotSearchable(id, exact)
       \/ FoundInLaterFile(id, exact) \/ SearchThrows(id, exact) \/ NotFound(id, exact)

-----------------------------------------------------------------------------
(***************************************************************************)
(* seekToEvent(int) and skip().  An event with the ID of the one last read *)
(* is not what seekToEvent(0) is after: seek.by is then "next".            *)
(***************************************************************************)
SeekToEventOffset ==
  /\ MaySeek /\ accessState = "SEQUENTIAL"
  /\ \E n \in Offsets :
       /\ offset' = n
       /\ seek' = [NoSeek EXCEPT !.by = "offset", !.from = here, !.offset = n]
  /\ seeks' = seeks + 1
  /\ item' = "Seek"
  /\ UNCHANGED <<config, sequence, file, checker, remainingEvents, fileBlock, context, history,
                 searchable, fileIndexes, access, lastFileOpen, processing, astray>>

Skip ==
  /\ item = "Seek" /\ offset # 0
  /\ UNCHANGED <<config, firstFile, pendingClose, remainingEvents, fileBlock, context, history,
                 searchable, access, processing, seek, seeks, astray>>

EventsAhead  == {p \in Events(index) : p >= fiIter}
EventsBehind == {p \in Events(index) : p < fiIter}

(* The nth event ahead of the cursor, and the nth behind it. *)
NthAhead(n)  == CHOOSE p \in EventsAhead : Cardinality({q \in EventsAhead : q <= p}) = n
NthBehind(n) == CHOOSE p \in EventsBehind : Cardinality({q \in EventsBehind : q >= p}) = n

(* skipEvents(offset) gets there within the file. *)
SkipWithinFile ==
  /\ Skip
  /\ \/ offset > 0 /\ offset <= Cardinality(EventsAhead)
        /\ MoveInFile(NextEvent(index, NthAhead(offset) + 1))
     \/ offset < 0 /\ - offset <= Cardinality(EventsBehind)
        /\ MoveInFile(NthBehind(- offset))
  /\ offset' = 0
  /\ UNCHANGED item

(* nextFile() opens one file, nullptr included.  A null rootFile_ ends     *)
(* skip(), and seekToEvent() goes on to use it.                            *)
SkipToNextFile ==
  /\ Skip
  /\ offset > Cardinality(EventsAhead)
  /\ offset' = offset - Cardinality(EventsAhead)
  /\ LET k == current + 1 IN
       \/ /\ k <= Len(catalog) /\ catalog[k].kind = "good"
          /\ InitFile(k, 1)
          /\ UNCHANGED item
       \/ /\ k <= Len(catalog) /\ catalog[k].kind # "good"
          /\ NoFile(k) /\ UNCHANGED fileIndexes
          /\ item' = IF opts.skipBad /\ catalog[k].kind = "unopenable"
                     THEN "Undefined" ELSE "Failed"
       \/ /\ k > Len(catalog)
          /\ rootFile' = 0
          /\ item' = "Undefined"
          /\ lastFileOpen' = FALSE
          /\ UNCHANGED <<current, eventsToSkip, file, checker, fileIndexes>>

(* Mutant: the file before is entered at its last entry, not past it. *)
SkipToPreviousFile_AtLast ==
  /\ Skip
  /\ - offset > Cardinality(EventsBehind)
  /\ offset' = offset + Cardinality(EventsBehind)
  /\ IF searchable /\ current > 1
     THEN LET k == current - 1 IN
          \/ catalog[k].kind = "good" /\ InitFile(k, Len(IndexIn(k))) /\ UNCHANGED item
          \/ /\ catalog[k].kind # "good"
             /\ NoFile(k) /\ UNCHANGED fileIndexes
             /\ item' = "Failed"
     ELSE /\ rootFile' = 0
          /\ item' = "Undefined"
          /\ lastFileOpen' = FALSE
          /\ UNCHANGED <<current, eventsToSkip, file, checker, fileIndexes>>

(* previousFile() throws at a file that cannot be opened. *)
SkipToPreviousFile ==
  /\ Skip
  /\ - offset > Cardinality(EventsBehind)
  /\ offset' = offset + Cardinality(EventsBehind)
  /\ IF searchable /\ current > 1
     THEN LET k == current - 1 IN
          \/ catalog[k].kind = "good" /\ InitFile(k, End(IndexIn(k))) /\ UNCHANGED item
          \/ /\ catalog[k].kind # "good"
             /\ NoFile(k) /\ UNCHANGED fileIndexes
             /\ item' = "Failed"
     ELSE /\ rootFile' = 0
          /\ item' = "Undefined"
          /\ lastFileOpen' = FALSE
          /\ UNCHANGED <<current, eventsToSkip, file, checker, fileIndexes>>

AtDuplicate ==
  /\ seek.by = "offset" /\ seek.offset = 0
  /\ index[NextEvent(index, fiIter)] = lastReadEventID

(* The duplicate of the event last read is passed: seekToEvent(1). *)
SkipDuplicate ==
  LET p == NextEvent(index, fiIter) IN
  /\ item = "Seek" /\ offset = 0
  /\ p # End(index) /\ AtDuplicate
  /\ MoveInFile(p)
  /\ offset' = 1
  /\ seek' = [seek EXCEPT !.by = "next", !.offset = 1]
  /\ UNCHANGED <<item, config, firstFile, pendingClose, remainingEvents, fileBlock, context,
                 history, searchable, access, processing, seeks, astray>>

(* skipEvents(0): on to the next event, if this file has one.  If it has   *)
(* none the seek returns false, but after a duplicate the ID of no event   *)
(* becomes the one wanted.                                                 *)
EndSkip ==
  LET p     == NextEvent(index, fiIter)
      found == [file |-> rootFile, pos |-> p]
  IN
  /\ item = "Seek" /\ offset = 0
  /\ p # End(index) => ~ AtDuplicate
  /\ MoveInFile(p)
  /\ IF p = End(index)
     THEN /\ item' = IF seek.by = "next" THEN "Undefined" ELSE "Idle"
          /\ UNCHANGED <<access, seek, astray>>
     ELSE /\ item' = "Idle"
          /\ UpdateAccessState(index[p], lastFileOpen)
          /\ seek' = [seek EXCEPT !.found = found]
          /\ astray' = (astray \/ GoesAstray(found))
  /\ UNCHANGED <<config, firstFile, pendingClose, remainingEvents, fileBlock, context, history,
                 searchable, processing, offset, seeks>>

-----------------------------------------------------------------------------
(***************************************************************************)
(* nextItemType() while seeking, with readIt().  What is looked for was    *)
(* found by the seek, so it is in the current file or in one opened before *)
(* unless the catalog cannot be searched: then the cursor is left at the   *)
(* end of the index, which the read that follows dereferences.             *)
(***************************************************************************)
ReadIt(id) ==
  /\ item = "Idle"
  /\ processing' = FALSE
  /\ \/ /\ Contains(rootFile, id, TRUE)
        /\ MoveInFile(Find(rootFile, id, TRUE))
        /\ item' = EntryType(id)
     \/ /\ ~ Contains(rootFile, id, TRUE) /\ searchable /\ Opened(id, TRUE) # {}
        /\ LET k == Min(Opened(id, TRUE)) IN InitFile(k, Find(k, id, TRUE))
        /\ item' = EntryType(id)
     \/ /\ ~ Contains(rootFile, id, TRUE) /\ ~ searchable
        /\ MoveInFile(End(index))
        /\ item' = "Undefined"
  /\ UNCHANGED <<config, firstFile, pendingClose, remainingEvents, fileBlock, context, history,
                 searchable, accessState, wantedEventID, seeking>>

SeekFile ==
  /\ accessState = "SEEKING_FILE" /\ item = "Idle"
  /\ item' = "File"
  /\ processing' = FALSE
  /\ UNCHANGED <<config, sequence, file, checker, remainingEvents, fileBlock, context, history,
                 searchable, fileIndexes, access, lastFileOpen, seeking>>

SeekRun ==
  /\ accessState = "SEEKING_RUN"
  /\ ReadIt(RunOf(wantedEventID))
  /\ UNCHANGED lastReadEventID

SeekSubRun ==
  /\ accessState = "SEEKING_SUBRUN"
  /\ ReadIt(SubRunOf(wantedEventID))
  /\ UNCHANGED lastReadEventID

(* rootFileForLastReadEvent_ is set once more by readEvent_(). *)
SeekEvent ==
  /\ accessState = "SEEKING_EVENT"
  /\ ReadIt(wantedEventID)
  /\ lastReadEventID' = wantedEventID

-----------------------------------------------------------------------------
(***************************************************************************)
(* RootInput around the operations of InputSequence                        *)
(***************************************************************************)
Sequential ==
  /\ accessState = "SEQUENTIAL" /\ item # "Seek"
  /\ Limits \/ Wanted
  /\ processing' = FALSE
  /\ UNCHANGED <<searchable, fileIndexes, access, lastFileOpen, seeking>>

OpenFirst ==
  /\ Construct
  /\ fileIndexes' = {rootFile'} \ {0}
  /\ UNCHANGED <<searchable, access, lastFileOpen, processing, seeking>>

(* readFile(), after the event loop's closeFile() *)
ReadFile ==
  /\ ReadFirstFile \/ ReadNextFile
  /\ accessState' = IF accessState = "SEEKING_FILE" THEN "SEEKING_RUN" ELSE accessState
  /\ fileIndexes' = (fileIndexes \cup {rootFile'}) \ {0}
  /\ lastFileOpen' = FALSE
  /\ UNCHANGED <<searchable, lastReadEventID, wantedEventID, processing, seeking>>

(* Mutant: readRun() does not go on to the subrun. *)
AfterRunOrSubRun_StaysAtRun ==
  IF accessState = "SEEKING_SUBRUN" THEN "SEEKING_EVENT" ELSE accessState

AfterRunOrSubRun ==
  CASE accessState = "SEEKING_RUN"    -> "SEEKING_SUBRUN"
    [] accessState = "SEEKING_SUBRUN" -> "SEEKING_EVENT"
    [] OTHER                          -> accessState

ReadRunSubRun ==
  /\ ReadRunOrSubRun
  /\ accessState' = AfterRunOrSubRun
  /\ UNCHANGED <<searchable, fileIndexes, lastReadEventID, wantedEventID, lastFileOpen,
                 processing, seeking>>

ReadThisEvent ==
  /\ ReadEvent
  /\ accessState' = "SEQUENTIAL"
  /\ lastReadEventID' = entry
  /\ lastFileOpen' = TRUE
  /\ processing' = TRUE
  /\ UNCHANGED <<searchable, fileIndexes, wantedEventID, seeking>>

ReadFails ==
  /\ ReadEventThrows
  /\ UNCHANGED <<searchable, fileIndexes, access, lastFileOpen, processing, seeking>>

Stop ==
  /\ StopJob
  /\ lastFileOpen' = FALSE
  /\ UNCHANGED <<searchable, fileIndexes, access, processing, seeking>>

-----------------------------------------------------------------------------
AccessInit ==
  /\ Init
  /\ searchable \in BOOLEAN
  /\ fileIndexes = {} /\ accessState = "SEQUENTIAL"
  /\ lastReadEventID = NoEvent /\ wantedEventID = NoEvent
  /\ lastFileOpen = FALSE /\ processing = FALSE
  /\ offset = 0 /\ seek = NoSeek /\ seeks = 0 /\ astray = FALSE

Seeks == SeekInProgress \/ SeekToEventID \/ SeekToEventOffset
Skips == SkipWithinFile \/ SkipToNextFile \/ SkipToPreviousFile \/ SkipDuplicate \/ EndSkip
Finds == SeekFile \/ SeekRun \/ SeekSubRun \/ SeekEvent
Calls == Sequential \/ OpenFirst \/ ReadFile \/ ReadRunSubRun \/ ReadThisEvent \/ ReadFails \/ Stop

AccessNext == Seeks \/ Skips \/ Finds \/ Calls

(* The event loop goes on as long as it has an item to read and skip() as  *)
(* long as it has events to pass; nobody has to seek.  Every step of theirs *)
(* changes one of these variables.                                          *)
EventLoop == WF_<<item, rootFile, fiIter, offset>>(Skips \/ Finds \/ Calls)

AccessSafeSpec == AccessInit /\ [][AccessNext]_allVars
AccessSpec     == AccessSafeSpec /\ EventLoop

-----------------------------------------------------------------------------
(***************************************************************************)
(* Properties                                                              *)
(***************************************************************************)
AccessTypeOK ==
  /\ searchable \in BOOLEAN /\ lastFileOpen \in BOOLEAN
  /\ processing \in BOOLEAN /\ astray \in BOOLEAN
  /\ accessState \in AccessStates
  /\ lastReadEventID \in ID /\ wantedEventID \in ID
  /\ fileIndexes \subseteq {k \in DOMAIN catalog : catalog[k].kind = "good"}
  /\ rootFile \in fileIndexes \cup {0}
  /\ rootFile # 0 => rootFile = current /\ fiIter \in 1..End(index)
  /\ lastFileOpen => rootFile # 0
  /\ offset \in Int /\ seeks \in 0..MaxSeeks
  /\ item \in Items \cup {"Seek", "Undefined"}
  /\ item \in {"Run", "SubRun", "Event"} => type = item

(* No file the source has gone through is missed when seekToEvent() and    *)
(* readIt() go through fileIndexes_: seeks open files, pass them, go back  *)
(* and skip some, and still the index is kept of every good file up to the *)
(* current one and to the last of those.                                   *)
NoFileMissed ==
  \A j \in fileIndexes \cup {current} : \A k \in 1..j :
    catalog[k].kind = "good" => k \in fileIndexes

(* What a seek found can be found again: until it is read, the event       *)
(* wanted, its run and its subrun are in one file whose index is kept, the *)
(* condition readIt() asserts when it opens that file.                     *)
WantedIsIndexed ==
  accessState # "SEQUENTIAL" =>
    \E k \in fileIndexes :
      \A id \in {wantedEventID, RunOf(wantedEventID), SubRunOf(wantedEventID)} :
        Contains(k, id, TRUE)

(* fileIndexes_ is what the search for an event and the reading of what it *)
(* found rely on: it lacks no file the source has gone through, and has    *)
(* what is wanted.                                                         *)
IndexesServeSeeks == NoFileMissed /\ WantedIsIndexed

(* skip() counts events and nothing else, across files and in both         *)
(* directions: between the cursor and the event found lie as many events   *)
(* as asked for, whatever runs, subruns and empty files come in between.   *)
EventPlaces ==
  UNION {{[file |-> k, pos |-> p] : p \in Events(IndexIn(k))} : k \in DOMAIN catalog}

EventsBefore(at) == Cardinality({place \in EventPlaces : Precedes(place, at)})

SkipCountsEvents ==
  seek.by \in {"offset", "next"} /\ seek.found # NoPos =>
    EventsBefore(seek.found) = EventsBefore(seek.from) + seek.offset

(* The event read while a seek is under way is the one that was sought.    *)
SoughtEventIsRead ==
  [][delivered' # delivered /\ accessState # "SEQUENTIAL" => entry = wantedEventID]_allVars

(* Between seeks and after them, an event is given to the principal of its *)
(* own subrun: skipping the run or the subrun record is right, since they  *)
(* are those of the event last read; but not once a seek has gone astray.  *)
EventsInSubRunOfSameID ==
  [][delivered' # delivered /\ ~ astray => context.id = SubRunOf(entry)]_allVars

(* A seek comes to its end: the event loop works through the items of the  *)
(* AccessState and finds every one of them.                                *)
Ended == item \in {"Stopped", "Failed", "Undefined"}
AccessEnds == <>Ended

(* RootInputFileSequence: "We found it."  An event in a file opened before *)
(* is found when it is asked for.                                          *)
EventsOfOpenedFilesAreFound ==
  [][\A id \in Targets :
       seek'.by = "id" /\ seeks' # seeks /\ seek'.id = id /\ seek'.exact /\ searchable
         /\ Opened(id, TRUE) # {}
       => seek'.found # NoPos]_allVars
=============================================================================
