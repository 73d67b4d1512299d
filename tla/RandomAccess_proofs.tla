------------------------- MODULE RandomAccess_proofs -------------------------
(***************************************************************************)
(* What holds of RandomAccess for every list of files, every configuration *)
(* and every sequence of seeks.                                            *)
(***************************************************************************)
EXTENDS RandomAccess, InputSequence_proofs

(* TypeOK of InputSequence, with the items that seeks add.                 *)
SourceTypeOK ==
  /\ catalog \in Catalogs /\ opts \in Options
  /\ current \in 0..Len(catalog)
  /\ rootFile \in {0, current}
  /\ rootFile # 0 => catalog[rootFile].kind = "good" /\ fiIter \in 1..End(index)
  /\ firstFile \in BOOLEAN /\ pendingClose \in BOOLEAN /\ fileBlock \in BOOLEAN
  /\ eventsToSkip \in Nat /\ fileEventsToSkip \in Nat /\ fiIter \in Nat
  /\ fastClonable \in BOOLEAN
  /\ checker \in Checkers
  /\ remainingEvents \in Int
  /\ item \in Items \cup {"Seek", "Undefined"}
  /\ item \in {"Skipping", "Run", "SubRun", "Event"} => rootFile # 0
  /\ item \in {"Run", "SubRun", "Event"} => type = item
  /\ context \in [file : Nat, id : ID]
  /\ delivered \in Seq(Position) /\ skipped \in Seq(Position) /\ dropped \in SUBSET Position

(* The files whose index is kept, the open one among them.                 *)
FilesOK ==
  /\ searchable \in BOOLEAN
  /\ fileIndexes \subseteq {k \in DOMAIN catalog : catalog[k].kind = "good"}
  /\ rootFile \in fileIndexes \cup {0}
  /\ lastFileOpen \in BOOLEAN
  /\ lastFileOpen => rootFile # 0

RequestOK ==
  /\ processing \in BOOLEAN /\ astray \in BOOLEAN
  /\ accessState \in AccessStates
  /\ lastReadEventID \in ID /\ wantedEventID \in ID
  /\ offset \in Int /\ seeks \in 0..MaxSeeks

(* Where the dialogue stands while a seek goes on, and that a file is open *)
(* whenever RootInput relies on one.                                       *)
DialogueInv ==
  /\ item = "Construct" => fileIndexes = {}
  /\ processing => item \in {"Idle", "Seek", "Undefined", "Failed"}
  /\ processing /\ item \in {"Idle", "Seek"} => rootFile # 0
  /\ item = "Seek" => processing /\ accessState = "SEQUENTIAL"
  /\ accessState # "SEQUENTIAL" =>
       item \in {"Idle", "File", "Run", "SubRun", "Event", "Failed", "Undefined"}
  /\ accessState # "SEQUENTIAL" /\ item = "Idle" => rootFile # 0

(* What is wanted is an event, and what is announced on the way is its     *)
(* run, its subrun and the event itself.                                   *)
WantedInv ==
  accessState # "SEQUENTIAL" =>
    /\ EntryType(wantedEventID) = "Event" /\ wantedEventID.subRun # 0
    /\ item = "Run" => accessState = "SEEKING_RUN" /\ entry = RunOf(wantedEventID)
    /\ item = "SubRun" => accessState = "SEEKING_SUBRUN" /\ entry = SubRunOf(wantedEventID)
    /\ item = "Event" => accessState = "SEEKING_EVENT" /\ entry = wantedEventID

AccessInv ==
  /\ SourceTypeOK /\ FilesOK /\ RequestOK
  /\ DialogueInv /\ WantedInv /\ WantedIsIndexed

(* Between the operations of InputSequence its TypeOK holds.               *)
LEMMA SourceTypes == (SourceTypeOK /\ item \in Items) <=> TypeOK
BY DEF SourceTypeOK, TypeOK, Checkers

(* The files of a job and their indexes.                                   *)
LEMMA FilesOfJob ==
  ASSUME SourceTypeOK
  PROVE  /\ catalog \in Seq(File) /\ opts \in Option
         /\ DOMAIN catalog = 1..Len(catalog) /\ Len(catalog) \in Nat
         /\ \A k \in DOMAIN catalog :
              /\ catalog[k] \in File
              /\ IndexIn(k) \in Seq(ID) /\ SortedBySubRun(IndexIn(k)) /\ Nested(IndexIn(k))
<1>1. catalog \in Seq(File) /\ opts \in Option /\ catalog \in Catalogs /\ opts \in Options
  BY CatalogsAssumption, OptionsAssumption DEF SourceTypeOK
<1>2. DOMAIN catalog = 1..Len(catalog) /\ Len(catalog) \in Nat
  BY <1>1
<1>3. ASSUME NEW k \in DOMAIN catalog
      PROVE  /\ catalog[k] \in File
             /\ IndexIn(k) \in Seq(ID) /\ SortedBySubRun(IndexIn(k)) /\ Nested(IndexIn(k))
  <2>1. catalog[k] \in File
    BY <1>1
  <2>2. catalog[k].sorted \in Seq(ID) /\ catalog[k].byEntry \in Seq(ID)
    BY <2>1 DEF File
  <2>3. /\ Sorted(catalog[k].sorted) /\ Nested(catalog[k].sorted)
        /\ SortedBySubRun(catalog[k].byEntry) /\ Nested(catalog[k].byEntry)
    BY <1>1, IndexesAssumption
  <2>4. SortedBySubRun(catalog[k].sorted)
    BY <2>2, <2>3, SortedIsSortedBySubRun
  <2> QED BY <2>1, <2>2, <2>3, <2>4 DEF IndexIn, IndexOf
<1> QED BY <1>1, <1>2, <1>3

(* The open file's cursor is in its index.                                 *)
LEMMA OpenFile ==
  ASSUME SourceTypeOK, rootFile # 0
  PROVE  /\ rootFile \in DOMAIN catalog /\ rootFile = current
         /\ catalog[rootFile].kind = "good"
         /\ index = IndexIn(rootFile) /\ index \in Seq(ID)
         /\ SortedBySubRun(index) /\ Nested(index)
         /\ fiIter \in 1..End(index)
<1>1. rootFile \in DOMAIN catalog /\ rootFile = current
  BY FilesOfJob DEF SourceTypeOK
<1>2. index = IndexIn(rootFile)
  BY DEF index, IndexIn
<1> QED BY <1>1, <1>2, FilesOfJob DEF SourceTypeOK

(* What setEntry() finds is what it was asked for.                         *)
LEMMA FindsInside ==
  ASSUME SourceTypeOK, NEW k \in DOMAIN catalog, NEW id, NEW exact \in BOOLEAN
  PROVE  /\ Find(k, id, exact) \in 1..End(IndexIn(k))
         /\ Contains(k, id, exact) =>
              /\ Find(k, id, exact) \in DOMAIN IndexIn(k)
              /\ exact => IndexIn(k)[Find(k, id, exact)] = id
              /\ EntryType(id) = "Event" => Find(k, id, exact) \in Events(IndexIn(k))
         /\ (\E p \in DOMAIN IndexIn(k) : IndexIn(k)[p] = id) => Contains(k, id, TRUE)
<1> DEFINE ix == IndexIn(k)
           S  == {p \in DOMAIN ix : ix[p] = id}
           T  == {p \in Events(ix) : ~ Before(ix[p], id)}
<1>1. ix \in Seq(ID)
  BY FilesOfJob
<1>2. S \in SUBSET DOMAIN ix /\ T \in SUBSET DOMAIN ix
  BY DEF Events
<1>3. /\ FirstOf(ix, S) \in 1..End(ix)
      /\ FirstOf(ix, S) = End(ix) \/ FirstOf(ix, S) \in S
      /\ S # {} => FirstOf(ix, S) \in S
  BY <1>1, <1>2, FirstOfSequence
<1>4. /\ FirstOf(ix, T) \in 1..End(ix)
      /\ FirstOf(ix, T) = End(ix) \/ FirstOf(ix, T) \in T
  BY <1>1, <1>2, FirstOfSequence
<1>5. Find(k, id, TRUE) = FirstOf(ix, S)
  BY DEF Find, FindExactly
<1>6. exact = FALSE => Find(k, id, exact) = FirstOf(ix, T)
  BY DEF Find
<1>7. \A p \in DOMAIN ix : p # End(ix)
  BY <1>1 DEF End
<1>8. Find(k, id, exact) \in 1..End(ix)
  BY <1>3, <1>4, <1>5, <1>6
<1>9. ASSUME Contains(k, id, exact)
      PROVE  /\ Find(k, id, exact) \in DOMAIN ix
             /\ exact => ix[Find(k, id, exact)] = id
             /\ EntryType(id) = "Event" => Find(k, id, exact) \in Events(ix)
  <2>1. CASE exact
    <3>1. Find(k, id, exact) \in S
      BY <1>3, <1>5, <1>9, <2>1 DEF Contains
    <3> QED BY <3>1, <2>1 DEF Events
  <2>2. CASE exact = FALSE
    <3>1. Find(k, id, exact) \in T
      BY <1>4, <1>6, <1>9, <2>2 DEF Contains
    <3> QED BY <3>1, <2>2 DEF Events
  <2> QED BY <2>1, <2>2
<1>10. S # {} => Contains(k, id, TRUE)
  BY <1>3, <1>5, <1>7 DEF Contains
<1> QED BY <1>8, <1>9, <1>10

(* The next event is the first one that is not behind the cursor.          *)
LEMMA NextEventAhead ==
  ASSUME NEW ix \in Seq(ID), NEW p
  PROVE  /\ NextEvent(ix, p) \in 1..End(ix)
         /\ NextEvent(ix, p) = End(ix) \/ (NextEvent(ix, p) \in Events(ix) /\ NextEvent(ix, p) >= p)
         /\ \A q \in Events(ix) : q >= p => NextEvent(ix, p) <= q
<1> DEFINE S == {q \in Events(ix) : q >= p}
<1>1. S \in SUBSET DOMAIN ix
  BY DEF Events
<1> QED BY <1>1, FirstOfProperties DEF NextEvent

(* An event's run and subrun are in the index that holds the event.        *)
LEMMA EventIsIndexed ==
  ASSUME SourceTypeOK, NEW k \in DOMAIN catalog, NEW p \in Events(IndexIn(k)),
         NEW event, event = IndexIn(k)[p]
  PROVE  /\ event \in ID /\ EntryType(event) = "Event" /\ event.subRun # 0
         /\ \A id \in {event, RunOf(event), SubRunOf(event)} : Contains(k, id, TRUE)
<1> DEFINE ix == IndexIn(k)
<1>1. ix \in Seq(ID) /\ Nested(ix) /\ p \in DOMAIN ix /\ EntryType(ix[p]) = "Event"
  BY FilesOfJob DEF Events
<1>2. /\ ix[p].subRun # 0
      /\ \E q \in 1..(p - 1) : ix[q] = RunOf(ix[p])
      /\ \E q \in 1..(p - 1) : ix[q] = SubRunOf(ix[p])
  BY <1>1 DEF Nested
<1>3. 1..(p - 1) \subseteq DOMAIN ix
  BY <1>1
<1>4. ASSUME NEW id \in {event, RunOf(event), SubRunOf(event)} PROVE Contains(k, id, TRUE)
  <2>1. \E q \in DOMAIN ix : ix[q] = id
    BY <1>1, <1>2, <1>3
  <2> QED BY <2>1, FindsInside
<1>5. event \in ID /\ EntryType(event) = "Event" /\ event.subRun # 0
  BY <1>1, <1>2
<1> QED BY <1>4, <1>5

(* The same of the entries that readIt() looks for.                        *)
LEMMA TypesOfWanted ==
  ASSUME NEW id \in ID, EntryType(id) = "Event", id.subRun # 0
  PROVE  /\ EntryType(RunOf(id)) = "Run" /\ EntryType(SubRunOf(id)) = "SubRun"
         /\ RunOf(id) \in ID /\ SubRunOf(id) \in ID
BY DEF EntryType, RunOf, RunEntry, SubRunOf, SubRunEntry, ID

-----------------------------------------------------------------------------
(***************************************************************************)
(* What seeks do to the sequence of files                                  *)
(***************************************************************************)
(* What a seek leaves alone in InputSequence.                              *)
SequenceKept ==
  UNCHANGED <<config, firstFile, pendingClose, remainingEvents, fileBlock, context, history, searchable>>

LEMMA CursorMoved ==
  ASSUME SourceTypeOK, FilesOK, rootFile # 0, SequenceKept,
         NEW p \in 1..End(index), MoveInFile(p),
         item' \in {"Idle", "Seek", "Undefined", "Failed"} \/ (item' \in Items /\ item' = TypeAt(index, p))
  PROVE  SourceTypeOK' /\ FilesOK'
<1>1. /\ catalog' = catalog /\ opts' = opts /\ current' = current /\ rootFile' = rootFile
      /\ fiIter' = p /\ fileIndexes' = fileIndexes /\ lastFileOpen' = lastFileOpen
      /\ firstFile' = firstFile /\ pendingClose' = pendingClose /\ fileBlock' = fileBlock
      /\ remainingEvents' = remainingEvents /\ context' = context /\ searchable' = searchable
      /\ delivered' = delivered /\ skipped' = skipped /\ dropped' = dropped
      /\ eventsToSkip' = eventsToSkip /\ fileEventsToSkip' = fileEventsToSkip
      /\ fastClonable' = fastClonable /\ checker' = checker
  BY DEF SequenceKept, MoveInFile, config, history
<1>2. index' = index /\ End(index) \in Nat
  BY <1>1, OpenFile DEF index, IndexOf, End
<1>3. type' = TypeAt(index, p)
  BY <1>1, <1>2 DEF type
<1>4. item' \in Items \cup {"Seek", "Undefined"}
  BY DEF Items
<1>5. item' \in {"Run", "SubRun", "Event"} => type' = item'
  BY <1>3
<1>6. p \in Nat
  BY <1>2
<1>7. SourceTypeOK'
  BY <1>1, <1>2, <1>4, <1>5, <1>6 DEF SourceTypeOK
<1>8. FilesOK'
  BY <1>1 DEF FilesOK
<1> QED BY <1>7, <1>8

LEMMA FileEntered ==
  ASSUME SourceTypeOK, FilesOK, SequenceKept,
         NEW k \in DOMAIN catalog, NEW first \in Nat, first <= k,
         \A j \in first..k : j \in DOMAIN catalog /\ catalog[j].kind = "good",
         NEW p \in 1..End(IndexIn(k)), InitFiles(first, k, p),
         item' \in {"Idle", "Seek"} \/ (item' \in Items /\ item' = TypeAt(IndexIn(k), p))
  PROVE  SourceTypeOK' /\ FilesOK'
<1>1. /\ catalog' = catalog /\ opts' = opts /\ current' = k /\ rootFile' = k
      /\ fiIter' = p /\ fileIndexes' = fileIndexes \cup (first..k) /\ lastFileOpen' = FALSE
      /\ firstFile' = firstFile /\ pendingClose' = pendingClose /\ fileBlock' = fileBlock
      /\ remainingEvents' = remainingEvents /\ context' = context /\ searchable' = searchable
      /\ delivered' = delivered /\ skipped' = skipped /\ dropped' = dropped
      /\ eventsToSkip' = SkipAfterClose /\ fileEventsToSkip' = SkipAfterClose
      /\ fastClonable' = SetIfFastClonable(catalog[k], SkipAfterClose)
      /\ checker' = CheckerInit(CheckerAfterClose, catalog[k])
  BY DEF SequenceKept, InitFiles, KeepIndexes, config, history
<1>2. index' = IndexIn(k) /\ End(IndexIn(k)) \in Nat
  BY <1>1, FilesOfJob DEF index, IndexOf, IndexIn, End
<1>3. type' = TypeAt(IndexIn(k), p)
  <2>1. k # 0
    BY FilesOfJob
  <2> QED BY <1>1, <1>2, <2>1 DEF type
<1>4. SkipAfterClose \in Nat /\ CheckerAfterClose \in Checkers
  BY DEF SourceTypeOK, SkipAfterClose, CheckerAfterClose, CheckerClosed, FreshChecker, Checkers, DataTypes
<1>5. fastClonable' \in BOOLEAN
  <2>1. catalog[k] \in File
    BY FilesOfJob
  <2> QED BY <1>1, <2>1 DEF SetIfFastClonable, File
<1>6. checker' \in Checkers
  <2>1. EventsUniqueAndOrdered(catalog[k].sorted) \in BOOLEAN
    BY DEF EventsUniqueAndOrdered
  <2> QED BY <1>1, <1>4, <2>1 DEF CheckerInit, Checkers, DataTypes
<1>7. item' \in Items \cup {"Seek", "Undefined"} /\ (item' \in {"Run", "SubRun", "Event"} => type' = item')
  BY <1>3 DEF Items
<1>8. k \in 0..Len(catalog) /\ k # 0 /\ p \in Nat /\ k \in first..k /\ catalog[k].kind = "good"
  BY <1>2, FilesOfJob
<1>9. SourceTypeOK'
  BY <1>1, <1>2, <1>4, <1>5, <1>6, <1>7, <1>8 DEF SourceTypeOK
<1>10. FilesOK'
  BY <1>1, <1>8 DEF FilesOK
<1> QED BY <1>9, <1>10

LEMMA OneFileEntered ==
  ASSUME SourceTypeOK, FilesOK, SequenceKept,
         NEW k \in DOMAIN catalog, catalog[k].kind = "good",
         NEW p \in 1..End(IndexIn(k)), InitFile(k, p),
         item' \in {"Idle", "Seek"} \/ (item' \in Items /\ item' = TypeAt(IndexIn(k), p))
  PROVE  SourceTypeOK' /\ FilesOK'
<1>1. k \in Nat /\ k <= k /\ k..k = {k}
  BY FilesOfJob
<1>2. InitFiles(k, k, p) /\ \A j \in k..k : j \in DOMAIN catalog /\ catalog[j].kind = "good"
  BY <1>1 DEF InitFile
<1> QED BY <1>1, <1>2, FileEntered

LEMMA FileLost ==
  ASSUME SourceTypeOK, FilesOK, SequenceKept, rootFile' = 0, item' \in {"Undefined", "Failed"},
         \/ NoFile(current') /\ current' \in DOMAIN catalog
         \/ lastFileOpen' = FALSE /\ UNCHANGED <<current, eventsToSkip, file, checker>>,
         fileIndexes' \subseteq {k \in DOMAIN catalog : catalog[k].kind = "good"}
  PROVE  SourceTypeOK' /\ FilesOK'
<1>1. /\ catalog' = catalog /\ opts' = opts /\ rootFile' = 0
      /\ fiIter' = fiIter /\ lastFileOpen' = FALSE
      /\ firstFile' = firstFile /\ pendingClose' = pendingClose /\ fileBlock' = fileBlock
      /\ remainingEvents' = remainingEvents /\ context' = context /\ searchable' = searchable
      /\ delivered' = delivered /\ skipped' = skipped /\ dropped' = dropped
      /\ fileEventsToSkip' = fileEventsToSkip /\ fastClonable' = fastClonable
  BY DEF SequenceKept, NoFile, config, history, file
<1>2. current' \in 0..Len(catalog)
  BY FilesOfJob DEF SourceTypeOK
<1>3. SkipAfterClose \in Nat /\ CheckerAfterClose \in Checkers
  BY DEF SourceTypeOK, SkipAfterClose, CheckerAfterClose, CheckerClosed, FreshChecker, Checkers, DataTypes
<1>4. eventsToSkip' \in Nat /\ checker' \in Checkers
  BY <1>3 DEF SourceTypeOK, NoFile
<1>5. SourceTypeOK'
  BY <1>1, <1>2, <1>4 DEF SourceTypeOK, Items
<1>6. FilesOK'
  BY <1>1 DEF FilesOK
<1> QED BY <1>5, <1>6

-----------------------------------------------------------------------------
(***************************************************************************)
(* Steps and what is wanted                                                *)
(***************************************************************************)
LEMMA ContainsKept ==
  ASSUME UNCHANGED config
  PROVE  \A k, id : Contains(k, id, TRUE)' = Contains(k, id, TRUE)
<1>1. \A k : IndexIn(k)' = IndexIn(k)
  BY DEF config, IndexIn, IndexOf
<1> QED BY <1>1 DEF Contains, Find, FindExactly

LEMMA StillIndexed ==
  ASSUME WantedIsIndexed, UNCHANGED <<config, wantedEventID>>, fileIndexes \subseteq fileIndexes',
         accessState' # "SEQUENTIAL" => accessState # "SEQUENTIAL"
  PROVE  WantedIsIndexed'
BY ContainsKept DEF WantedIsIndexed

LEMMA NowIndexed ==
  ASSUME SourceTypeOK, UNCHANGED config, NEW k \in DOMAIN catalog, k \in fileIndexes',
         NEW p \in Events(IndexIn(k)), wantedEventID' = IndexIn(k)[p]
  PROVE  /\ WantedIsIndexed'
         /\ wantedEventID' \in ID /\ EntryType(wantedEventID') = "Event" /\ wantedEventID'.subRun # 0
<1>1. /\ wantedEventID' \in ID /\ EntryType(wantedEventID') = "Event" /\ wantedEventID'.subRun # 0
      /\ \A id \in {wantedEventID', RunOf(wantedEventID'), SubRunOf(wantedEventID')} : Contains(k, id, TRUE)
  BY EventIsIndexed
<1>2. \A id : Contains(k, id, TRUE)' = Contains(k, id, TRUE)
  BY ContainsKept
<1> QED BY <1>1, <1>2 DEF WantedIsIndexed

(* A seek is over: the event found is wanted, or none was found and all    *)
(* goes on as before.                                                      *)
LEMMA SeekEnds ==
  ASSUME AccessInv, SequenceKept, SourceTypeOK', FilesOK', rootFile' # 0, item' = "Idle",
         item \in {"Idle", "Seek"}, processing, processing' = processing, accessState = "SEQUENTIAL",
         UNCHANGED lastReadEventID, fileIndexes \subseteq fileIndexes',
         astray' \in BOOLEAN, offset' \in Int, seeks' \in 0..MaxSeeks,
         \/ UNCHANGED <<accessState, wantedEventID>>
         \/ \E k \in DOMAIN catalog : \E p \in Events(IndexIn(k)) :
              k \in fileIndexes' /\ \E same \in BOOLEAN : UpdateAccessState(IndexIn(k)[p], same)
  PROVE  AccessInv'
<1>1. DialogueInv'
  BY DEF AccessInv, DialogueInv, RequestOK
<1>2. UNCHANGED config /\ processing' \in BOOLEAN
  BY DEF SequenceKept, AccessInv, RequestOK
<1>3. CASE UNCHANGED <<accessState, wantedEventID>>
  <2>1. WantedIsIndexed'
    BY <1>2, <1>3, StillIndexed DEF AccessInv
  <2>2. RequestOK'
    BY <1>2, <1>3 DEF AccessInv, RequestOK
  <2>3. WantedInv'
    BY <1>3 DEF WantedInv
  <2> QED BY <1>1, <2>1, <2>2, <2>3 DEF AccessInv
<1>4. CASE \E k \in DOMAIN catalog : \E p \in Events(IndexIn(k)) :
             k \in fileIndexes' /\ \E same \in BOOLEAN : UpdateAccessState(IndexIn(k)[p], same)
  <2>0. PICK k \in DOMAIN catalog : \E p \in Events(IndexIn(k)) :
          k \in fileIndexes' /\ \E same \in BOOLEAN : UpdateAccessState(IndexIn(k)[p], same)
    BY <1>4
  <2>1. PICK p \in Events(IndexIn(k)) :
          k \in fileIndexes' /\ \E same \in BOOLEAN : UpdateAccessState(IndexIn(k)[p], same)
    BY <2>0
  <2>2. /\ wantedEventID' = IndexIn(k)[p] /\ k \in fileIndexes'
        /\ accessState' \in AccessStates
    BY <2>1 DEF UpdateAccessState, StateToReach, AccessStates
  <2>3. /\ WantedIsIndexed'
        /\ wantedEventID' \in ID /\ EntryType(wantedEventID') = "Event" /\ wantedEventID'.subRun # 0
    BY <1>2, <2>2, NowIndexed DEF AccessInv
  <2>4. RequestOK'
    BY <1>2, <2>2, <2>3 DEF AccessInv, RequestOK
  <2>5. WantedInv'
    BY <2>3 DEF WantedInv
  <2> QED BY <1>1, <2>3, <2>4, <2>5 DEF AccessInv
<1> QED BY <1>3, <1>4

(* A seek leaves the event loop without a file, or with an undefined item. *)
LEMMA SeekFails ==
  ASSUME AccessInv, SequenceKept, SourceTypeOK', FilesOK', item' \in {"Undefined", "Failed"},
         fileIndexes \subseteq fileIndexes', UNCHANGED <<wantedEventID, lastReadEventID, accessState>>,
         processing' \in BOOLEAN, astray' \in BOOLEAN, offset' \in Int, seeks' \in 0..MaxSeeks
  PROVE  AccessInv'
<1>1. DialogueInv'
  BY DEF DialogueInv
<1>2. WantedIsIndexed'
  BY StillIndexed DEF SequenceKept, AccessInv
<1>3. RequestOK'
  BY DEF AccessInv, RequestOK
<1>4. WantedInv'
  BY DEF WantedInv, AccessInv
<1> QED BY <1>1, <1>2, <1>3, <1>4 DEF AccessInv

-----------------------------------------------------------------------------
(***************************************************************************)
(* The search for an event by ID                                           *)
(***************************************************************************)
(* The search goes on behind a file of the catalog or before the first.    *)
LEMMA ScanStarts ==
  ASSUME SourceTypeOK, FilesOK, rootFile # 0, NEW id, NEW exact \in BOOLEAN
  PROVE  LET start == StartOfScan(id, exact) IN
         /\ start \in DOMAIN catalog
         /\ Opened(id, exact) # {} => start \in Opened(id, exact)
<1>1. Opened(id, exact) \subseteq DOMAIN catalog /\ DOMAIN catalog \subseteq Nat
  BY FilesOfJob DEF Opened, FilesOK
<1>2. CASE Opened(id, exact) = {}
  BY <1>2, OpenFile DEF StartOfScan
<1>3. CASE Opened(id, exact) # {}
  <2> DEFINE S == Opened(id, exact)
  <2>1. S \subseteq Nat
    BY <1>1
  <2>2. \E p \in S : \A q \in S : p <= q
    BY <1>3, <2>1, SmallestOfSet
  <2>3. Min(S) \in S
    BY <2>2 DEF Min
  <2> QED BY <1>1, <1>3, <2>3 DEF StartOfScan
<1> QED BY <1>2, <1>3

LEMMA ScanStops ==
  ASSUME SourceTypeOK, NEW id, NEW exact \in BOOLEAN, NEW start \in DOMAIN catalog,
         Stops(id, exact, start) # {}
  PROVE  /\ Min(Stops(id, exact, start)) \in DOMAIN catalog
         /\ Min(Stops(id, exact, start)) \in Stops(id, exact, start)
         /\ start + 1 <= Min(Stops(id, exact, start))
         /\ \A j \in Stops(id, exact, start) : j \in Nat /\ Min(Stops(id, exact, start)) <= j
<1> DEFINE S == Stops(id, exact, start)
<1>1. S \subseteq DOMAIN catalog /\ S \subseteq Nat /\ \A j \in S : start + 1 <= j
  BY FilesOfJob DEF Stops
<1>2. \E p \in S : \A q \in S : p <= q
  BY <1>1, SmallestOfSet
<1>3. Min(S) \in S /\ \A j \in S : Min(S) <= j
  BY <1>2 DEF Min
<1> QED BY <1>1, <1>3

(* The files passed on the way are good.                                   *)
LEMMA ScanPasses ==
  ASSUME SourceTypeOK, NEW id, NEW exact \in BOOLEAN, NEW start \in DOMAIN catalog,
         NEW last \in 0..Len(catalog),
         \A j \in Stops(id, exact, start) : last < j \/ catalog[j].kind = "good"
  PROVE  \A j \in (start + 1)..last : j \in DOMAIN catalog /\ catalog[j].kind = "good"
<1>1. DOMAIN catalog = 1..Len(catalog) /\ Len(catalog) \in Nat
  BY FilesOfJob
<1> TAKE j \in (start + 1)..last
<1>2. j \in (start + 1)..Len(catalog) /\ j \in DOMAIN catalog /\ ~ (last < j)
  BY <1>1
<1>3. catalog[j].kind = "good" \/ j \in Stops(id, exact, start)
  BY <1>2 DEF Stops
<1> QED BY <1>2, <1>3

LEMMA SeekByIDStep == AccessInv /\ SeekToEventID => AccessInv'
<1> SUFFICES ASSUME AccessInv, SeekToEventID PROVE AccessInv'
  OBVIOUS
<1>1. /\ item = "Idle" /\ processing /\ seeks < MaxSeeks /\ accessState = "SEQUENTIAL"
      /\ SourceTypeOK /\ FilesOK /\ rootFile # 0 /\ MaxSeeks \in Nat /\ seeks \in 0..MaxSeeks
      /\ offset \in Int /\ astray \in BOOLEAN
  BY SeeksAssumption DEF SeekToEventID, MaySeek, AccessInv, DialogueInv, RequestOK
<1>2. /\ rootFile \in DOMAIN catalog /\ index = IndexIn(rootFile) /\ index \in Seq(ID)
      /\ rootFile \in fileIndexes
  BY <1>1, OpenFile DEF FilesOK
<1>3. PICK id \in Targets, exact \in BOOLEAN :
       \/ FoundInCurrentFile(id, exact) \/ NotSearchable(id, exact)
       \/ FoundInLaterFile(id, exact) \/ SearchThrows(id, exact) \/ NotFound(id, exact)
  BY DEF SeekToEventID
<1>4. id \in ID /\ EntryType(id) = "Event"
  BY SeeksAssumption
<1>5. ASSUME NEW found, SeekByID(id, exact, found)
      PROVE  /\ SequenceKept /\ processing' = processing
             /\ astray' \in BOOLEAN /\ offset' \in Int /\ seeks' \in 0..MaxSeeks
  <2>1. seeks' \in 0..MaxSeeks
    BY <1>1, <1>5 DEF SeekByID
  <2>2. astray' \in BOOLEAN
    BY <1>1, <1>5 DEF SeekByID
  <2> QED BY <1>1, <1>5, <2>1, <2>2 DEF SeekByID, SequenceKept
<1>6. CASE FoundInCurrentFile(id, exact)
  <2> DEFINE p == Find(rootFile, id, TRUE)
  <2>1. p \in 1..End(index) /\ p \in Events(index)
    BY <1>1, <1>2, <1>4, <1>6, FindsInside DEF FoundInCurrentFile
  <2>2. /\ SeekByID(id, exact, [file |-> rootFile, pos |-> p]) /\ MoveInFile(p)
        /\ UpdateAccessState(IndexIn(rootFile)[p], lastFileOpen) /\ item' = "Idle"
    BY <1>1, <1>2, <1>6 DEF FoundInCurrentFile
  <2>3. SourceTypeOK' /\ FilesOK'
    BY <1>1, <1>5, <2>1, <2>2, CursorMoved
  <2>4. /\ fileIndexes' = fileIndexes /\ rootFile' = rootFile /\ lastFileOpen \in BOOLEAN
        /\ UNCHANGED lastReadEventID
    BY <1>1, <2>2 DEF MoveInFile, FilesOK, UpdateAccessState
  <2> QED BY <1>1, <1>2, <1>5, <2>1, <2>2, <2>3, <2>4, SeekEnds
<1>7. CASE NotSearchable(id, exact)
  <2>1. SeekByID(id, exact, NoPos) /\ MoveInFile(End(index)) /\ item' = "Idle" /\ UNCHANGED access
    BY <1>1, <1>7 DEF NotSearchable
  <2>2. End(index) \in 1..End(index)
    BY <1>2 DEF End
  <2>3. SourceTypeOK' /\ FilesOK'
    BY <1>1, <1>5, <2>1, <2>2, CursorMoved
  <2>4. fileIndexes' = fileIndexes /\ rootFile' = rootFile
    BY <2>1 DEF MoveInFile
  <2> QED BY <1>1, <1>5, <2>1, <2>3, <2>4, SeekEnds DEF access
<1>8. CASE FoundInLaterFile(id, exact)
  <2> DEFINE start == StartOfScan(id, exact)
             k     == Min(Stops(id, exact, start))
             p     == Find(k, id, exact)
  <2>1. /\ SeekByID(id, exact, [file |-> k, pos |-> p]) /\ InitFiles(start + 1, k, p)
        /\ UpdateAccessState(IndexIn(k)[p], FALSE) /\ item' = "Idle"
        /\ Stops(id, exact, start) # {} /\ catalog[k].kind = "good"
    BY <1>1, <1>8 DEF FoundInLaterFile
  <2>2. k \in DOMAIN catalog /\ k \in Stops(id, exact, start)
    BY <1>1, <2>1, ScanStarts, ScanStops
  <2>3. Contains(k, id, exact)
    BY <2>1, <2>2 DEF Stops
  <2>4. p \in 1..End(IndexIn(k)) /\ p \in Events(IndexIn(k))
    BY <1>1, <1>4, <2>2, <2>3, FindsInside
  <2>5. start \in DOMAIN catalog
    BY <1>1, ScanStarts
  <2> HIDE DEF start, p
  <2>6. /\ start + 1 \in Nat /\ start + 1 <= k /\ k \in 0..Len(catalog)
        /\ \A j \in Stops(id, exact, start) : j \in Nat /\ k <= j
    BY <1>1, <2>1, <2>2, <2>5, ScanStops, FilesOfJob
  <2> HIDE DEF k
  <2>7. \A j \in (start + 1)..k : j \in DOMAIN catalog /\ catalog[j].kind = "good"
    <3>1. \A j \in Stops(id, exact, start) : k < j \/ catalog[j].kind = "good"
      BY <2>1, <2>6
    <3> QED BY <1>1, <2>5, <2>6, <3>1, ScanPasses
  <2>8. SourceTypeOK' /\ FilesOK'
    BY <1>1, <1>5, <2>1, <2>2, <2>4, <2>6, <2>7, FileEntered
  <2>9. /\ k \in fileIndexes' /\ fileIndexes \subseteq fileIndexes' /\ rootFile' # 0
        /\ UNCHANGED lastReadEventID
    <3>1. k \in (start + 1)..k /\ k # 0
      BY <2>5, <2>6, FilesOfJob, <1>1
    <3> QED BY <2>1, <3>1 DEF InitFiles, KeepIndexes, UpdateAccessState
  <2>10. \E j \in DOMAIN catalog : \E q \in Events(IndexIn(j)) :
           j \in fileIndexes' /\ \E same \in BOOLEAN : UpdateAccessState(IndexIn(j)[q], same)
    BY <2>1, <2>2, <2>4, <2>9
  <2> QED BY <1>1, <1>5, <2>1, <2>8, <2>9, <2>10, SeekEnds
<1>9. CASE SearchThrows(id, exact)
  <2> DEFINE start == StartOfScan(id, exact)
             k     == Min(Stops(id, exact, start))
  <2>1. /\ SeekByID(id, exact, NoPos) /\ NoFile(k) /\ item' = "Failed" /\ UNCHANGED access
        /\ KeepIndexes(start + 1, k - 1) /\ Stops(id, exact, start) # {}
    BY <1>9 DEF SearchThrows
  <2>2. k \in DOMAIN catalog /\ start \in DOMAIN catalog
    BY <1>1, <2>1, ScanStarts, ScanStops
  <2>3. k - 1 \in 0..Len(catalog)
    BY <1>1, <2>2, FilesOfJob
  <2>4. \A j \in Stops(id, exact, start) : k - 1 < j \/ catalog[j].kind = "good"
    <3>1. k \in Nat /\ \A j \in Stops(id, exact, start) : j \in Nat /\ k <= j
      <4> HIDE DEF start
      <4> QED BY <1>1, <2>1, <2>2, ScanStops, FilesOfJob
    <3> HIDE DEF k
    <3> QED BY <3>1
  <2> HIDE DEF start, k
  <2>5. \A j \in (start + 1)..(k - 1) : j \in DOMAIN catalog /\ catalog[j].kind = "good"
    BY <1>1, <2>2, <2>3, <2>4, ScanPasses
  <2>6. /\ current' = k /\ rootFile' = 0 /\ NoFile(current') /\ fileIndexes \subseteq fileIndexes'
        /\ fileIndexes' \subseteq {j \in DOMAIN catalog : catalog[j].kind = "good"}
    BY <1>1, <2>1, <2>5 DEF NoFile, KeepIndexes, FilesOK
  <2>7. SourceTypeOK' /\ FilesOK'
    BY <1>1, <1>5, <2>1, <2>2, <2>6, FileLost
  <2> QED BY <1>1, <1>5, <2>1, <2>6, <2>7, SeekFails DEF access
<1>10. CASE NotFound(id, exact)
  <2> DEFINE start == StartOfScan(id, exact)
             last  == Len(catalog)
  <2>1. /\ SeekByID(id, exact, NoPos) /\ item' = "Idle" /\ UNCHANGED access
        /\ Stops(id, exact, start) = {}
    BY <1>1, <1>10 DEF NotFound
  <2>2. \/ start < last /\ InitFiles(start + 1, last, End(IndexIn(last)))
        \/ Opened(id, exact) # {} /\ InitFile(start, Find(start, id, exact))
        \/ MoveInFile(End(index))
    BY <1>10 DEF NotFound
  <2>3. start \in DOMAIN catalog /\ (Opened(id, exact) # {} => start \in Opened(id, exact))
    BY <1>1, ScanStarts
  <2> HIDE DEF start
  <2>4. CASE start < last /\ InitFiles(start + 1, last, End(IndexIn(last)))
    <3>1. /\ last \in DOMAIN catalog /\ start + 1 \in Nat /\ start + 1 <= last /\ last \in 0..Len(catalog)
          /\ last \in (start + 1)..last
      BY <1>1, <2>3, <2>4, FilesOfJob
    <3>2. \A j \in (start + 1)..last : j \in DOMAIN catalog /\ catalog[j].kind = "good"
      BY <1>1, <2>1, <2>3, <3>1, ScanPasses
    <3>3. End(IndexIn(last)) \in 1..End(IndexIn(last))
      BY <1>1, <3>1, FilesOfJob DEF End
    <3>4. SourceTypeOK' /\ FilesOK'
      BY <1>1, <1>5, <2>1, <2>4, <3>1, <3>2, <3>3, FileEntered
    <3>5. rootFile' # 0 /\ fileIndexes \subseteq fileIndexes'
      BY <2>4, <3>1 DEF InitFiles, KeepIndexes
    <3> QED BY <1>1, <1>5, <2>1, <3>4, <3>5, SeekEnds DEF access
  <2>5. CASE Opened(id, exact) # {} /\ InitFile(start, Find(start, id, exact))
    <3>1. catalog[start].kind = "good"
      BY <1>1, <2>3, <2>5 DEF Opened, FilesOK
    <3>2. Find(start, id, exact) \in 1..End(IndexIn(start))
      BY <1>1, <2>3, FindsInside
    <3>3. SourceTypeOK' /\ FilesOK'
      BY <1>1, <1>5, <2>1, <2>3, <2>5, <3>1, <3>2, OneFileEntered
    <3>4. rootFile' # 0 /\ fileIndexes \subseteq fileIndexes'
      BY <1>1, <2>3, <2>5, FilesOfJob DEF InitFile, InitFiles, KeepIndexes
    <3> QED BY <1>1, <1>5, <2>1, <3>3, <3>4, SeekEnds DEF access
  <2>6. CASE MoveInFile(End(index))
    <3>1. End(index) \in 1..End(index)
      BY <1>2 DEF End
    <3>2. SourceTypeOK' /\ FilesOK'
      BY <1>1, <1>5, <2>1, <2>6, <3>1, CursorMoved
    <3>3. fileIndexes' = fileIndexes /\ rootFile' = rootFile
      BY <2>6 DEF MoveInFile
    <3> QED BY <1>1, <1>5, <2>1, <3>2, <3>3, SeekEnds DEF access
  <2> QED BY <2>2, <2>4, <2>5, <2>6
<1> QED BY <1>3, <1>6, <1>7, <1>8, <1>9, <1>10

-----------------------------------------------------------------------------
(***************************************************************************)
(* Counting events                                                         *)
(***************************************************************************)
(* A set of positions is finite, ...                                       *)
LEMMA PositionsFinite ==
  ASSUME NEW N \in Nat, NEW S \in SUBSET (1..N)
  PROVE  IsFiniteSet(S) /\ Cardinality(S) \in Nat
<1>1. IsFiniteSet(1..N)
  BY FS_Interval
<1> QED BY <1>1, FS_Subset, FS_CardinalityType

(* ... it has an nth element from the front, ...                           *)
LEMMA NthFromTheFront ==
  ASSUME NEW N \in Nat, NEW S \in SUBSET (1..N), NEW n \in 1..Cardinality(S)
  PROVE  IsFiniteSet(S) /\ \E p \in S : Cardinality({q \in S : q <= p}) = n
<1> DEFINE Upto(m) == {q \in S : q <= m}
           M == {m \in Nat : Cardinality(Upto(m)) >= n}
<1>1. \A q \in S : q \in Nat /\ 1 <= q /\ q <= N
  OBVIOUS
<1>2. IsFiniteSet(S) /\ Cardinality(S) \in Nat
  BY PositionsFinite
<1>3. ASSUME NEW m PROVE IsFiniteSet(Upto(m)) /\ Cardinality(Upto(m)) \in Nat
  <2>1. Upto(m) \in SUBSET S
    OBVIOUS
  <2> HIDE DEF Upto
  <2>2. IsFiniteSet(Upto(m))
    BY <1>2, <2>1, FS_Subset
  <2> QED BY <2>2, FS_CardinalityType
<1>4. N \in M
  <2>1. Upto(N) = S
    BY <1>1
  <2> QED BY <1>2, <2>1
<1>5. PICK m \in M : \A j \in M : m <= j
  <2>1. M \subseteq Nat /\ M # {}
    BY <1>4
  <2> HIDE DEF M
  <2> QED BY <2>1, SmallestOfSet
<1>6. m # 0
  <2>1. Upto(0) = {}
    <3>1. \A q \in S : ~ (q <= 0)
      BY <1>1
    <3> QED BY <3>1
  <2>2. Cardinality(Upto(0)) = 0
    BY <2>1, FS_EmptySet
  <2> QED BY <1>2, <2>2
<1>7. m \in Nat /\ m - 1 \in Nat /\ Cardinality(Upto(m)) >= n /\ n \in Nat
  BY <1>5, <1>6
<1>8. ~ (Cardinality(Upto(m - 1)) >= n)
  <2>1. m - 1 \notin M
    <3> HIDE DEF M
    <3> QED BY <1>5, <1>7
  <2> QED BY <1>7, <2>1
<1>9. m \in S
  <2>1. m \notin S => Upto(m) = Upto(m - 1)
    <3>1. ASSUME m \notin S, NEW q \in S PROVE q <= m <=> q <= m - 1
      BY <1>1, <1>7, <3>1
    <3> QED BY <3>1
  <2> QED BY <1>7, <1>8, <2>1
<1>10. Upto(m) = Upto(m - 1) \cup {m} /\ m \notin Upto(m - 1)
  <2>1. ASSUME NEW q \in S PROVE q <= m <=> (q <= m - 1 \/ q = m)
    BY <1>1, <1>7, <2>1
  <2>2. ~ (m <= m - 1)
    BY <1>7
  <2> QED BY <1>9, <2>1, <2>2
<1> HIDE DEF Upto
<1>11. Cardinality(Upto(m)) = Cardinality(Upto(m - 1)) + 1
  BY <1>3, <1>10, FS_AddElement
<1>12. Cardinality(Upto(m)) = n
  BY <1>3, <1>7, <1>8, <1>11
<1> QED BY <1>2, <1>9, <1>12 DEF Upto

(* ... and from the back.                                                  *)
LEMMA NthFromTheBack ==
  ASSUME NEW N \in Nat, NEW S \in SUBSET (1..N), NEW n \in 1..Cardinality(S)
  PROVE  \E p \in S : Cardinality({q \in S : q >= p}) = n
<1>1. IsFiniteSet(S) /\ Cardinality(S) \in Nat
  BY PositionsFinite
<1> DEFINE m == Cardinality(S) - n + 1
<1>2. m \in 1..Cardinality(S)
  BY <1>1
<1>3. PICK p \in S : Cardinality({q \in S : q <= p}) = m
  BY <1>2, NthFromTheFront
<1> DEFINE Le == {q \in S : q <= p}
           Ge == {q \in S : q >= p}
<1>4. Le \in SUBSET S /\ Ge \in SUBSET S /\ Le \cup Ge = S /\ Le \cap Ge = {p}
  <2>1. ASSUME NEW q \in S PROVE (q <= p \/ q >= p) /\ (q <= p /\ q >= p <=> q = p)
    <3>1. q \in Nat /\ p \in Nat
      OBVIOUS
    <3> QED BY <3>1
  <2>2. Le \cup Ge = S
    BY <2>1
  <2>3. Le \cap Ge = {p}
    BY <2>1
  <2> QED BY <2>2, <2>3
<1>5. Cardinality(Le) = m
  BY <1>3
<1> HIDE DEF Le, Ge, m
<1>6. IsFiniteSet(Le) /\ IsFiniteSet(Ge)
  BY <1>1, <1>4, FS_Subset
<1>7. Cardinality(S) = Cardinality(Le) + Cardinality(Ge) - Cardinality({p})
  BY <1>4, <1>6, FS_Union
<1>8. Cardinality({p}) = 1 /\ Cardinality(Ge) \in Nat
  BY <1>6, FS_Singleton, FS_CardinalityType
<1>9. Cardinality(Ge) = n
  BY <1>1, <1>5, <1>7, <1>8 DEF m
<1> QED BY <1>9 DEF Ge

LEMMA EventsFinite ==
  ASSUME SourceTypeOK, rootFile # 0
  PROVE  /\ EventsAhead \in SUBSET (1..Len(index)) /\ EventsBehind \in SUBSET (1..Len(index))
         /\ IsFiniteSet(EventsAhead) /\ Cardinality(EventsAhead) \in Nat
         /\ IsFiniteSet(EventsBehind) /\ Cardinality(EventsBehind) \in Nat
<1>1. Len(index) \in Nat /\ DOMAIN index = 1..Len(index)
  BY OpenFile
<1>2. EventsAhead \in SUBSET (1..Len(index)) /\ EventsBehind \in SUBSET (1..Len(index))
  BY <1>1 DEF EventsAhead, EventsBehind, Events
<1> QED BY <1>1, <1>2, PositionsFinite

(* The nth event ahead of the cursor or behind it is one.                  *)
LEMMA NthEvents ==
  ASSUME SourceTypeOK, rootFile # 0, NEW n \in Nat, n # 0
  PROVE  /\ n <= Cardinality(EventsAhead) =>
              /\ NthAhead(n) \in EventsAhead
              /\ Cardinality({q \in EventsAhead : q <= NthAhead(n)}) = n
         /\ n <= Cardinality(EventsBehind) =>
              /\ NthBehind(n) \in EventsBehind
              /\ Cardinality({q \in EventsBehind : q >= NthBehind(n)}) = n
<1>1. Len(index) \in Nat /\ DOMAIN index = 1..Len(index)
  BY OpenFile
<1>2. EventsAhead \in SUBSET (1..Len(index)) /\ EventsBehind \in SUBSET (1..Len(index))
  BY EventsFinite
<1>3. /\ IsFiniteSet(EventsAhead) /\ Cardinality(EventsAhead) \in Nat
      /\ IsFiniteSet(EventsBehind) /\ Cardinality(EventsBehind) \in Nat
  BY EventsFinite
<1>4. ASSUME n <= Cardinality(EventsAhead)
      PROVE  /\ NthAhead(n) \in EventsAhead
             /\ Cardinality({q \in EventsAhead : q <= NthAhead(n)}) = n
  <2>1. n \in 1..Cardinality(EventsAhead)
    BY <1>3, <1>4
  <2>2. \E p \in EventsAhead : Cardinality({q \in EventsAhead : q <= p}) = n
    BY <1>1, <1>2, <2>1, NthFromTheFront
  <2> QED BY <2>2 DEF NthAhead
<1>5. ASSUME n <= Cardinality(EventsBehind)
      PROVE  /\ NthBehind(n) \in EventsBehind
             /\ Cardinality({q \in EventsBehind : q >= NthBehind(n)}) = n
  <2>1. n \in 1..Cardinality(EventsBehind)
    BY <1>3, <1>5
  <2>2. \E p \in EventsBehind : Cardinality({q \in EventsBehind : q >= p}) = n
    BY <1>1, <1>2, <2>1, NthFromTheBack
  <2> QED BY <2>2 DEF NthBehind
<1> QED BY <1>3, <1>4, <1>5

-----------------------------------------------------------------------------
(***************************************************************************)
(* The search for an event by a number of events                           *)
(***************************************************************************)
(* skip() has not come to its end.                                         *)
LEMMA SkipGoesOn ==
  ASSUME AccessInv, SequenceKept, SourceTypeOK', FilesOK', rootFile' # 0, item = "Seek", item' = "Seek",
         UNCHANGED <<access, processing, seeks, astray>>, fileIndexes \subseteq fileIndexes', offset' \in Int
  PROVE  AccessInv'
<1>1. DialogueInv'
  BY DEF AccessInv, DialogueInv, access
<1>2. WantedIsIndexed'
  BY StillIndexed DEF SequenceKept, AccessInv, access
<1>3. RequestOK'
  BY DEF AccessInv, RequestOK, access
<1>4. WantedInv'
  BY DEF WantedInv, AccessInv, DialogueInv, access
<1> QED BY <1>1, <1>2, <1>3, <1>4 DEF AccessInv

LEMMA SeekByOffsetStep == AccessInv /\ (SeekToEventOffset \/ SeekInProgress) => AccessInv'
<1> SUFFICES ASSUME AccessInv, SeekToEventOffset \/ SeekInProgress PROVE AccessInv'
  OBVIOUS
<1>1. /\ SequenceKept /\ UNCHANGED <<sequence, file, checker, fileIndexes, access, lastFileOpen, processing, astray>>
      /\ item = "Idle" /\ processing /\ item' \in {"Seek", "Failed"}
      /\ accessState = "SEQUENTIAL" \/ item' = "Failed"
  BY DEF SeekToEventOffset, SeekInProgress, MaySeek, SequenceKept, sequence, seeking
<1>2. offset' \in Int /\ seeks' \in 0..MaxSeeks
  <2>1. offset \in Int /\ seeks \in 0..MaxSeeks /\ MaxSeeks \in Nat /\ Offsets \subseteq Int
    BY SeeksAssumption DEF AccessInv, RequestOK
  <2>2. CASE SeekInProgress
    BY <2>1, <2>2 DEF SeekInProgress, seeking
  <2>3. CASE SeekToEventOffset
    <3>1. offset' \in Offsets
      BY <2>3 DEF SeekToEventOffset
    <3>2. seeks < MaxSeeks /\ seeks' = seeks + 1
      BY <2>3 DEF SeekToEventOffset, MaySeek
    <3> QED BY <2>1, <3>1, <3>2
  <2> QED BY <2>2, <2>3
<1>3. rootFile # 0 => index' = index
  BY <1>1 DEF SequenceKept, config, sequence, index, IndexOf
<1>4. SourceTypeOK'
  <2>1. item' \in Items \cup {"Seek", "Undefined"} /\ item' \notin {"Skipping", "Run", "SubRun", "Event"}
    BY <1>1 DEF Items
  <2>2. /\ UNCHANGED <<catalog, opts, current, rootFile, fiIter, firstFile, pendingClose, fileBlock,
                       eventsToSkip, fileEventsToSkip, fastClonable, checker, remainingEvents, context,
                       delivered, skipped, dropped>>
        /\ SourceTypeOK
    BY <1>1 DEF SequenceKept, config, sequence, file, history, AccessInv
  <2> QED BY <1>3, <2>1, <2>2 DEF SourceTypeOK
<1>5. FilesOK'
  BY <1>1 DEF AccessInv, FilesOK, SequenceKept, sequence, config
<1>6. DialogueInv'
  BY <1>1 DEF AccessInv, DialogueInv, access, sequence
<1>7. WantedIsIndexed'
  BY <1>1, StillIndexed DEF SequenceKept, AccessInv, access
<1>8. RequestOK'
  BY <1>1, <1>2 DEF AccessInv, RequestOK, access
<1>9. WantedInv'
  BY <1>1 DEF WantedInv, AccessInv, access
<1> QED BY <1>4, <1>5, <1>6, <1>7, <1>8, <1>9 DEF AccessInv

(* Where a skip() that has events to pass comes to.                        *)
LEMMA SkipType ==
  ASSUME AccessInv, Skip
  PROVE  /\ SequenceKept /\ UNCHANGED <<access, processing, seeks, astray>>
         /\ SourceTypeOK /\ FilesOK /\ rootFile # 0 /\ item = "Seek" /\ processing /\ offset \in Int
         /\ astray \in BOOLEAN /\ seeks \in 0..MaxSeeks
         /\ rootFile \in DOMAIN catalog /\ rootFile = current /\ index \in Seq(ID)
BY OpenFile DEF Skip, SequenceKept, AccessInv, DialogueInv, RequestOK

LEMMA SkipWithinFileStep == AccessInv /\ SkipWithinFile => AccessInv'
<1> SUFFICES ASSUME AccessInv, SkipWithinFile PROVE AccessInv'
  OBVIOUS
<1>1. Skip /\ offset' = 0 /\ item' = "Seek"
  BY DEF SkipWithinFile, Skip
<1>2. /\ SequenceKept /\ UNCHANGED <<access, processing, seeks, astray>>
      /\ SourceTypeOK /\ FilesOK /\ rootFile # 0 /\ item = "Seek" /\ offset \in Int /\ index \in Seq(ID)
  BY <1>1, SkipType
<1>3. \E p \in 1..End(index) : MoveInFile(p)
  <2>1. CASE offset > 0 /\ MoveInFile(NextEvent(index, NthAhead(offset) + 1))
    BY <1>2, <2>1, NextEventAhead
  <2>2. CASE offset < 0 /\ - offset <= Cardinality(EventsBehind) /\ MoveInFile(NthBehind(- offset))
    <3>1. - offset \in Nat /\ - offset # 0
      BY <1>2, <2>2
    <3>2. NthBehind(- offset) \in EventsBehind
      BY <1>2, <2>2, <3>1, NthEvents
    <3>3. NthBehind(- offset) \in 1..End(index)
      BY <1>2, <3>2 DEF EventsBehind, Events, End
    <3> QED BY <2>2, <3>3
  <2> QED BY <2>1, <2>2 DEF SkipWithinFile
<1>4. SourceTypeOK' /\ FilesOK' /\ rootFile' = rootFile /\ fileIndexes' = fileIndexes
  BY <1>1, <1>2, <1>3, CursorMoved DEF MoveInFile
<1> QED BY <1>1, <1>2, <1>4, SkipGoesOn

(* A null rootFile_ ends skip().                                           *)
LEMMA SkipRunsOut ==
  ASSUME AccessInv, Skip, rootFile' = 0, item' \in {"Undefined", "Failed"}, offset' \in Int,
         \/ NoFile(current') /\ current' \in DOMAIN catalog
         \/ lastFileOpen' = FALSE /\ UNCHANGED <<current, eventsToSkip, file, checker>>,
         fileIndexes' = fileIndexes
  PROVE  AccessInv'
<1>1. /\ SequenceKept /\ UNCHANGED <<access, processing, seeks, astray>>
      /\ SourceTypeOK /\ FilesOK /\ astray \in BOOLEAN /\ seeks \in 0..MaxSeeks /\ processing
  BY SkipType
<1>2. SourceTypeOK' /\ FilesOK'
  BY <1>1, FileLost DEF FilesOK
<1> QED BY <1>1, <1>2, SeekFails DEF access

LEMMA SkipToFileStep ==
  ASSUME AccessInv, Skip, NEW k \in DOMAIN catalog, catalog[k].kind = "good",
         NEW p \in 1..End(IndexIn(k)), InitFile(k, p), UNCHANGED item, offset' \in Int
  PROVE  AccessInv'
<1>1. /\ SequenceKept /\ UNCHANGED <<access, processing, seeks, astray>>
      /\ SourceTypeOK /\ FilesOK /\ item = "Seek" /\ item' = "Seek"
  BY SkipType
<1>2. SourceTypeOK' /\ FilesOK'
  BY <1>1, OneFileEntered
<1>3. rootFile' # 0 /\ fileIndexes \subseteq fileIndexes'
  BY <1>1, FilesOfJob DEF InitFile, InitFiles, KeepIndexes
<1> QED BY <1>1, <1>2, <1>3, SkipGoesOn

LEMMA SkipToNextFileStep == AccessInv /\ SkipToNextFile => AccessInv'
<1> SUFFICES ASSUME AccessInv, SkipToNextFile PROVE AccessInv'
  OBVIOUS
<1>1. Skip /\ offset' = offset - Cardinality(EventsAhead)
  BY DEF SkipToNextFile
<1>2. /\ SourceTypeOK /\ rootFile # 0 /\ offset \in Int /\ rootFile \in DOMAIN catalog
      /\ rootFile = current
  BY <1>1, SkipType
<1>3. offset' \in Int
  <2>1. Cardinality(EventsAhead) \in Nat
    BY <1>2, EventsFinite
  <2> QED BY <1>1, <1>2, <2>1
<1> DEFINE k == current + 1
<1>4. DOMAIN catalog = 1..Len(catalog) /\ Len(catalog) \in Nat
  BY <1>2, FilesOfJob
<1>5. k <= Len(catalog) => k \in DOMAIN catalog
  BY <1>2, <1>4
<1>6. CASE k <= Len(catalog) /\ catalog[k].kind = "good" /\ InitFile(k, 1) /\ UNCHANGED item
  <2>1. 1 \in 1..End(IndexIn(k))
    BY <1>2, <1>5, <1>6, FilesOfJob DEF End
  <2> QED BY <1>1, <1>3, <1>5, <1>6, <2>1, SkipToFileStep
<1>7. CASE /\ k <= Len(catalog) /\ NoFile(k) /\ UNCHANGED fileIndexes
           /\ item' = IF opts.skipBad /\ catalog[k].kind = "unopenable" THEN "Undefined" ELSE "Failed"
  <2>1. rootFile' = 0 /\ current' = k /\ NoFile(current') /\ item' \in {"Undefined", "Failed"}
    BY <1>7 DEF NoFile
  <2> QED BY <1>1, <1>3, <1>5, <1>7, <2>1, SkipRunsOut
<1>8. CASE /\ rootFile' = 0 /\ item' = "Undefined" /\ lastFileOpen' = FALSE
           /\ UNCHANGED <<current, eventsToSkip, file, checker, fileIndexes>>
  BY <1>1, <1>3, <1>8, SkipRunsOut
<1> QED BY <1>6, <1>7, <1>8 DEF SkipToNextFile

LEMMA SkipToPreviousFileStep == AccessInv /\ SkipToPreviousFile => AccessInv'
<1> SUFFICES ASSUME AccessInv, SkipToPreviousFile PROVE AccessInv'
  OBVIOUS
<1>1. Skip /\ offset' = offset + Cardinality(EventsBehind)
  BY DEF SkipToPreviousFile
<1>2. /\ SourceTypeOK /\ rootFile # 0 /\ offset \in Int /\ rootFile \in DOMAIN catalog
      /\ rootFile = current
  BY <1>1, SkipType
<1>3. offset' \in Int
  <2>1. Cardinality(EventsBehind) \in Nat
    BY <1>2, EventsFinite
  <2> QED BY <1>1, <1>2, <2>1
<1> DEFINE k == current - 1
<1>4. DOMAIN catalog = 1..Len(catalog) /\ Len(catalog) \in Nat
  BY <1>2, FilesOfJob
<1>5. current > 1 => k \in DOMAIN catalog
  BY <1>2, <1>4
<1>6. CASE current > 1 /\ catalog[k].kind = "good" /\ InitFile(k, End(IndexIn(k))) /\ UNCHANGED item
  <2>1. End(IndexIn(k)) \in 1..End(IndexIn(k))
    BY <1>2, <1>5, <1>6, FilesOfJob DEF End
  <2> QED BY <1>1, <1>3, <1>5, <1>6, <2>1, SkipToFileStep
<1>7. CASE current > 1 /\ NoFile(k) /\ UNCHANGED fileIndexes /\ item' = "Failed"
  <2>1. rootFile' = 0 /\ current' = k /\ NoFile(current')
    BY <1>7 DEF NoFile
  <2> QED BY <1>1, <1>3, <1>5, <1>7, <2>1, SkipRunsOut
<1>8. CASE /\ rootFile' = 0 /\ item' = "Undefined" /\ lastFileOpen' = FALSE
           /\ UNCHANGED <<current, eventsToSkip, file, checker, fileIndexes>>
  BY <1>1, <1>3, <1>8, SkipRunsOut
<1> QED BY <1>6, <1>7, <1>8 DEF SkipToPreviousFile

LEMMA SkipEndsStep == AccessInv /\ (SkipDuplicate \/ EndSkip) => AccessInv'
<1> SUFFICES ASSUME AccessInv, SkipDuplicate \/ EndSkip PROVE AccessInv'
  OBVIOUS
<1> DEFINE p == NextEvent(index, fiIter)
<1>1. /\ item = "Seek" /\ processing /\ SourceTypeOK /\ FilesOK /\ rootFile # 0
      /\ accessState = "SEQUENTIAL" /\ offset \in Int /\ seeks \in 0..MaxSeeks /\ astray \in BOOLEAN
      /\ lastFileOpen \in BOOLEAN
  BY DEF SkipDuplicate, EndSkip, AccessInv, DialogueInv, RequestOK, FilesOK
<1>2. /\ rootFile \in DOMAIN catalog /\ index = IndexIn(rootFile) /\ index \in Seq(ID)
      /\ rootFile \in fileIndexes
  BY <1>1, OpenFile DEF FilesOK
<1>3. p \in 1..End(index) /\ (p # End(index) => p \in Events(index))
  BY <1>2, NextEventAhead
<1>4. SequenceKept /\ MoveInFile(p) /\ UNCHANGED <<seeks, processing>>
  BY DEF SkipDuplicate, EndSkip, SequenceKept
<1> HIDE DEF p
<1>5. item' \in {"Idle", "Seek", "Undefined"}
  BY <1>1 DEF SkipDuplicate, EndSkip
<1>6. SourceTypeOK' /\ FilesOK'
  BY <1>1, <1>3, <1>4, <1>5, CursorMoved
<1>7. fileIndexes' = fileIndexes /\ rootFile' = rootFile
  BY <1>4 DEF MoveInFile
<1>8. CASE SkipDuplicate
  <2>1. item' = "Seek" /\ offset' = 1 /\ UNCHANGED <<access, astray>>
    BY <1>1, <1>8 DEF SkipDuplicate
  <2> QED BY <1>1, <1>4, <1>6, <1>7, <2>1, SkipGoesOn
<1>9. CASE EndSkip /\ p = End(index)
  <2>1. item' \in {"Idle", "Undefined"} /\ UNCHANGED <<access, astray, offset>>
    BY <1>9 DEF EndSkip, p
  <2>2. CASE item' = "Idle"
    BY <1>1, <1>4, <1>6, <1>7, <2>1, <2>2, SeekEnds DEF access
  <2>3. CASE item' = "Undefined"
    BY <1>1, <1>4, <1>6, <1>7, <2>1, <2>3, SeekFails DEF access
  <2> QED BY <2>1, <2>2, <2>3
<1>10. CASE EndSkip /\ p # End(index)
  <2>1. /\ item' = "Idle" /\ UpdateAccessState(index[p], lastFileOpen)
        /\ astray' = (astray \/ GoesAstray([file |-> rootFile, pos |-> p])) /\ UNCHANGED offset
    BY <1>10 DEF EndSkip, p
  <2>2. astray' \in BOOLEAN
    BY <1>1, <2>1
  <2>3. UNCHANGED lastReadEventID
    BY <2>1 DEF UpdateAccessState
  <2>4. \E j \in DOMAIN catalog : \E q \in Events(IndexIn(j)) :
          j \in fileIndexes' /\ \E same \in BOOLEAN : UpdateAccessState(IndexIn(j)[q], same)
    BY <1>1, <1>2, <1>3, <1>7, <1>10, <2>1
  <2> QED BY <1>1, <1>4, <1>6, <1>7, <2>1, <2>2, <2>3, <2>4, SeekEnds
<1> QED BY <1>8, <1>9, <1>10

-----------------------------------------------------------------------------
(***************************************************************************)
(* readIt() and the operations of InputSequence                            *)
(***************************************************************************)
(* readIt() puts the cursor on what it was asked for, if it announces it.  *)
LEMMA ReadItFinds ==
  ASSUME AccessInv, accessState # "SEQUENTIAL", NEW id \in ID, ReadIt(id)
  PROVE  /\ SequenceKept /\ SourceTypeOK' /\ FilesOK' /\ fileIndexes \subseteq fileIndexes'
         /\ \/ item' = "Undefined"
            \/ item' = EntryType(id) /\ item' \in {"Run", "SubRun", "Event"} /\ entry' = id
<1>1. /\ SourceTypeOK /\ FilesOK /\ rootFile # 0 /\ item = "Idle" /\ SequenceKept
      /\ EntryType(id) \in {"Run", "SubRun", "Event"} /\ EntryType(id) \in Items
  BY DEF ReadIt, AccessInv, DialogueInv, SequenceKept, EntryType, Items
<1>2. rootFile \in DOMAIN catalog /\ index = IndexIn(rootFile) /\ index \in Seq(ID)
  BY <1>1, OpenFile
<1>3. ASSUME NEW k \in DOMAIN catalog, Contains(k, id, TRUE)
      PROVE  /\ Find(k, id, TRUE) \in 1..End(IndexIn(k))
             /\ IndexIn(k)[Find(k, id, TRUE)] = id
             /\ TypeAt(IndexIn(k), Find(k, id, TRUE)) = EntryType(id)
  <2>1. IndexIn(k) \in Seq(ID)
    BY <1>1, FilesOfJob
  <2>2. Find(k, id, TRUE) \in 1..End(IndexIn(k))
    BY <1>1, FindsInside
  <2>3. Find(k, id, TRUE) \in DOMAIN IndexIn(k) /\ IndexIn(k)[Find(k, id, TRUE)] = id
    BY <1>1, <1>3, FindsInside
  <2>4. Find(k, id, TRUE) # End(IndexIn(k))
    <3>1. \A q \in DOMAIN IndexIn(k) : q # End(IndexIn(k))
      BY <2>1 DEF End
    <3> QED BY <2>3, <3>1
  <2> QED BY <2>2, <2>3, <2>4 DEF TypeAt
<1>4. CASE /\ Contains(rootFile, id, TRUE) /\ MoveInFile(Find(rootFile, id, TRUE))
           /\ item' = EntryType(id)
  <2> DEFINE p == Find(rootFile, id, TRUE)
  <2>1. p \in 1..End(index) /\ index[p] = id /\ TypeAt(index, p) = EntryType(id)
    BY <1>2, <1>3, <1>4
  <2>2. MoveInFile(p) /\ item' = EntryType(id)
    BY <1>4
  <2> HIDE DEF p
  <2>3. SourceTypeOK' /\ FilesOK'
    BY <1>1, <2>1, <2>2, CursorMoved
  <2>4. entry' = id /\ fileIndexes' = fileIndexes
    BY <1>1, <2>1, <2>2 DEF entry, index, IndexOf, MoveInFile, SequenceKept, config
  <2> QED BY <1>1, <2>2, <2>3, <2>4
<1>5. ASSUME Opened(id, TRUE) # {}, item' = EntryType(id),
             InitFile(Min(Opened(id, TRUE)), Find(Min(Opened(id, TRUE)), id, TRUE))
      PROVE  /\ SourceTypeOK' /\ FilesOK' /\ fileIndexes \subseteq fileIndexes' /\ entry' = id
  <2> DEFINE S == Opened(id, TRUE)
             k == Min(S)
             p == Find(k, id, TRUE)
  <2>1. /\ S \subseteq DOMAIN catalog /\ S \subseteq Nat
        /\ \A j \in S : Contains(j, id, TRUE) /\ catalog[j].kind = "good"
    <3>1. DOMAIN catalog \subseteq Nat
      BY <1>1, FilesOfJob
    <3>2. fileIndexes \subseteq DOMAIN catalog /\ \A j \in fileIndexes : catalog[j].kind = "good"
      BY <1>1 DEF FilesOK
    <3> QED BY <3>1, <3>2 DEF Opened
  <2>2. k \in S
    <3>1. \E j \in S : \A q \in S : j <= q
      BY <1>5, <2>1, SmallestOfSet
    <3> QED BY <3>1 DEF Min
  <2>3. k \in DOMAIN catalog /\ Contains(k, id, TRUE) /\ catalog[k].kind = "good"
    BY <2>1, <2>2
  <2>4. InitFile(k, p)
    BY <1>5
  <2> HIDE DEF S, k
  <2>5. p \in 1..End(IndexIn(k)) /\ IndexIn(k)[p] = id /\ TypeAt(IndexIn(k), p) = EntryType(id)
    BY <1>3, <2>3
  <2> HIDE DEF p
  <2>6. SourceTypeOK' /\ FilesOK'
    BY <1>1, <1>5, <2>3, <2>4, <2>5, OneFileEntered
  <2>7. entry' = IndexIn(k)[p] /\ fileIndexes \subseteq fileIndexes'
    BY <1>1, <2>4 DEF entry, index, IndexIn, IndexOf, InitFile, InitFiles, KeepIndexes, SequenceKept, config
  <2> QED BY <2>5, <2>6, <2>7
<1>6. CASE MoveInFile(End(index)) /\ item' = "Undefined"
  <2>1. End(index) \in 1..End(index)
    BY <1>2 DEF End
  <2>2. SourceTypeOK' /\ FilesOK'
    BY <1>1, <1>6, <2>1, CursorMoved
  <2> QED BY <1>1, <1>6, <2>2 DEF MoveInFile
<1>7. CASE Opened(id, TRUE) # {} /\ item' = EntryType(id)
           /\ InitFile(Min(Opened(id, TRUE)), Find(Min(Opened(id, TRUE)), id, TRUE))
  BY <1>1, <1>5, <1>7
<1> QED BY <1>4, <1>6, <1>7 DEF ReadIt

LEMMA FindsStep == AccessInv /\ Finds => AccessInv'
<1> SUFFICES ASSUME AccessInv, Finds PROVE AccessInv'
  OBVIOUS
<1>1. /\ SourceTypeOK /\ FilesOK /\ RequestOK /\ DialogueInv /\ WantedInv /\ WantedIsIndexed
      /\ item = "Idle" /\ accessState # "SEQUENTIAL" /\ rootFile # 0
      /\ wantedEventID \in ID /\ EntryType(wantedEventID) = "Event" /\ wantedEventID.subRun # 0
  BY DEF Finds, SeekFile, SeekRun, SeekSubRun, SeekEvent, ReadIt, AccessInv, DialogueInv, WantedInv, RequestOK
<1>2. CASE SeekFile
  <2>1. /\ SequenceKept /\ UNCHANGED <<sequence, file, checker, fileIndexes, access, lastFileOpen>>
        /\ item' = "File" /\ processing' = FALSE /\ UNCHANGED <<offset, seeks, astray>>
    BY <1>2 DEF SeekFile, SequenceKept, sequence, seeking
  <2>2. index' = index
    BY <2>1 DEF SequenceKept, config, sequence, index, IndexOf
  <2>3. SourceTypeOK'
    <3>1. item' \in Items /\ item' \notin {"Skipping", "Run", "SubRun", "Event"}
      BY <2>1 DEF Items
    <3>2. UNCHANGED <<catalog, opts, current, rootFile, fiIter, firstFile, pendingClose, fileBlock,
                      eventsToSkip, fileEventsToSkip, fastClonable, checker, remainingEvents, context,
                      delivered, skipped, dropped>>
      BY <2>1 DEF SequenceKept, config, sequence, file, history
    <3> QED BY <1>1, <2>2, <3>1, <3>2 DEF SourceTypeOK
  <2>4. FilesOK'
    BY <1>1, <2>1 DEF FilesOK, SequenceKept, sequence, config
  <2>5. DialogueInv' /\ WantedInv' /\ RequestOK'
    BY <1>1, <2>1 DEF DialogueInv, WantedInv, RequestOK, access
  <2>6. WantedIsIndexed'
    BY <1>1, <2>1, StillIndexed DEF SequenceKept, access
  <2> QED BY <2>3, <2>4, <2>5, <2>6 DEF AccessInv
<1>3. ASSUME NEW id \in ID, ReadIt(id), lastReadEventID' \in ID,
             \/ accessState = "SEEKING_RUN" /\ id = RunOf(wantedEventID) /\ EntryType(id) = "Run"
             \/ accessState = "SEEKING_SUBRUN" /\ id = SubRunOf(wantedEventID) /\ EntryType(id) = "SubRun"
             \/ accessState = "SEEKING_EVENT" /\ id = wantedEventID /\ EntryType(id) = "Event"
      PROVE  AccessInv'
  <2>1. /\ SequenceKept /\ SourceTypeOK' /\ FilesOK' /\ fileIndexes \subseteq fileIndexes'
        /\ \/ item' = "Undefined"
           \/ item' = EntryType(id) /\ item' \in {"Run", "SubRun", "Event"} /\ entry' = id
    BY <1>1, <1>3, ReadItFinds
  <2>2. processing' = FALSE /\ UNCHANGED <<accessState, wantedEventID, offset, seeks, astray>>
    BY <1>3 DEF ReadIt, seeking
  <2>3. DialogueInv'
    BY <1>1, <2>1, <2>2 DEF DialogueInv
  <2>4. WantedInv'
    BY <1>1, <1>3, <2>1, <2>2 DEF WantedInv
  <2>5. RequestOK'
    BY <1>1, <1>3, <2>2 DEF RequestOK
  <2>6. WantedIsIndexed'
    BY <1>1, <2>1, <2>2, StillIndexed DEF SequenceKept
  <2> QED BY <2>1, <2>3, <2>4, <2>5, <2>6 DEF AccessInv
<1>4. lastReadEventID \in ID
  BY <1>1 DEF RequestOK
<1>5. CASE SeekRun
  BY <1>1, <1>3, <1>4, <1>5, TypesOfWanted DEF SeekRun
<1>6. CASE SeekSubRun
  BY <1>1, <1>3, <1>4, <1>6, TypesOfWanted DEF SeekSubRun
<1>7. CASE SeekEvent
  BY <1>1, <1>3, <1>4, <1>7, TypesOfWanted DEF SeekEvent
<1> QED BY <1>2, <1>5, <1>6, <1>7 DEF Finds

(* RootInput's calls are steps of InputSequence: its types are kept.       *)
LEMMA CallsTypes ==
  ASSUME SourceTypeOK, Calls
  PROVE  TypeOK /\ Next /\ TypeOK' /\ SourceTypeOK' /\ UNCHANGED config
<1>1. Next
  BY DEF Calls, Sequential, OpenFirst, ReadFile, ReadRunSubRun, ReadThisEvent, ReadFails, Stop,
         Next, Files, Reads
<1>2. item \in Items
  BY DEF Calls, Sequential, OpenFirst, ReadFile, ReadRunSubRun, ReadThisEvent, ReadFails, Stop,
         Limits, LimitReached, FirstItem, AskFile, NoMoreEntries, Wanted, SkipToFirstRun, WantRun,
         SkipToNextRun, SkipToFirstSubRun, WantSubRun, SkipToNextSubRun, SkipToFirstEvent,
         DropDuplicate, WantEvent, SkipEvent, EndSkipping, Construct, ReadFirstFile, ReadNextFile,
         ReadRunOrSubRun, ReadEvent, ReadEventThrows, StopJob, Items
<1>3. TypeOK
  BY <1>2, SourceTypes
<1>4. TypeOK'
  BY <1>1, <1>3, TypeCorrectStep
<1>5. SourceTypeOK'
  BY <1>4, SourceTypes, PTL
<1>6. UNCHANGED config
  BY <1>1 DEF Next, Files, Limits, Wanted, Reads, Construct, ReadFirstFile, ReadNextFile, StopJob,
         LimitReached, FirstItem, AskFile, NoMoreEntries, SkipToFirstRun, WantRun,
         SkipToNextRun, SkipToFirstSubRun, WantSubRun, SkipToNextSubRun, SkipToFirstEvent,
         DropDuplicate, WantEvent, SkipEvent, EndSkipping, ReadRunOrSubRun, ReadEvent, ReadEventThrows,
         MoveTo
<1> QED BY <1>1, <1>3, <1>4, <1>5, <1>6

(* The file that a call has opened has its index kept.                     *)
LEMMA OpenedIsGood ==
  ASSUME TypeOK'
  PROVE  rootFile' # 0 => rootFile' \in DOMAIN catalog' /\ catalog'[rootFile'].kind = "good"
<1>1. TypeOK /\ rootFile # 0 => rootFile \in DOMAIN catalog
  BY CursorType
<1>2. (TypeOK /\ rootFile # 0 => rootFile \in DOMAIN catalog)'
  BY CursorType, PTL
<1> QED BY <1>2 DEF TypeOK

(* RootInput reads on from front to back.                                  *)
LEMMA SequentialMoves ==
  ASSUME Sequential
  PROVE  /\ item' \in {"Idle", "Stop", "File", "Wanted", "Run", "SubRun", "Event", "Skipping"}
         /\ UNCHANGED <<rootFile, context, delivered>>
BY DEF Sequential, Limits, LimitReached, FirstItem, AskFile, NoMoreEntries, Wanted, SkipToFirstRun, WantRun,
       SkipToNextRun, SkipToFirstSubRun, WantSubRun, SkipToNextSubRun, SkipToFirstEvent,
       DropDuplicate, WantEvent, SkipEvent, EndSkipping, MoveTo, sequence, history, loop

LEMMA CallsStep == AccessInv /\ Calls => AccessInv'
<1> SUFFICES ASSUME AccessInv, Calls PROVE AccessInv'
  OBVIOUS
<1>1. /\ SourceTypeOK /\ FilesOK /\ RequestOK /\ DialogueInv /\ WantedInv /\ WantedIsIndexed
  BY DEF AccessInv
<1>2. TypeOK /\ TypeOK' /\ SourceTypeOK' /\ UNCHANGED config /\ catalog' = catalog
  BY <1>1, CallsTypes DEF config
<1>3. rootFile' # 0 => rootFile' \in DOMAIN catalog' /\ catalog'[rootFile'].kind = "good"
  BY <1>2, OpenedIsGood
<1>4. 0 \notin fileIndexes
  BY <1>1, FilesOfJob DEF FilesOK
<1>5. CASE Sequential
  <2>1. /\ item' \in {"Idle", "Stop", "File", "Wanted", "Run", "SubRun", "Event", "Skipping"}
        /\ UNCHANGED rootFile
    BY <1>5, SequentialMoves
  <2>2. /\ accessState = "SEQUENTIAL" /\ processing' = FALSE
        /\ UNCHANGED <<searchable, fileIndexes, access, lastFileOpen, offset, seeks, astray>>
    BY <1>5 DEF Sequential, seeking
  <2>3. FilesOK' /\ RequestOK' /\ DialogueInv' /\ WantedInv' /\ WantedIsIndexed'
    BY <1>1, <1>2, <2>1, <2>2 DEF FilesOK, RequestOK, DialogueInv, WantedInv, WantedIsIndexed, access
  <2> QED BY <1>2, <2>3 DEF AccessInv
<1>6. CASE OpenFirst
  <2>1. /\ item = "Construct" /\ item' \in {"Failed", "Idle"} /\ fileIndexes' = {rootFile'} \ {0}
        /\ UNCHANGED <<searchable, access, lastFileOpen, processing, offset, seeks, astray>>
    BY <1>6 DEF OpenFirst, Construct, seeking
  <2>2. accessState = "SEQUENTIAL" /\ processing = FALSE /\ fileIndexes = {}
    BY <1>1, <2>1 DEF DialogueInv, RequestOK
  <2>3. lastFileOpen = FALSE
    BY <1>1, <2>2 DEF FilesOK
  <2>4. FilesOK'
    BY <1>1, <1>3, <2>1, <2>3 DEF FilesOK
  <2>5. RequestOK' /\ DialogueInv' /\ WantedInv' /\ WantedIsIndexed'
    BY <1>1, <2>1, <2>2 DEF RequestOK, DialogueInv, WantedInv, WantedIsIndexed, access
  <2> QED BY <1>2, <2>4, <2>5 DEF AccessInv
<1>7. CASE ReadFile
  <2>1. /\ item = "File" /\ item' \in {"Failed", "Idle"}
        /\ fileIndexes' = (fileIndexes \cup {rootFile'}) \ {0} /\ lastFileOpen' = FALSE
        /\ accessState' = IF accessState = "SEEKING_FILE" THEN "SEEKING_RUN" ELSE accessState
        /\ UNCHANGED <<searchable, lastReadEventID, wantedEventID, processing, offset, seeks, astray>>
    BY <1>7 DEF ReadFile, ReadFirstFile, ReadNextFile, seeking
  <2>2. processing = FALSE /\ accessState' \in AccessStates
    BY <1>1, <2>1 DEF DialogueInv, RequestOK, AccessStates
  <2>3. item' = "Idle" => rootFile' # 0
    <3>1. CASE ReadFirstFile
      BY <3>1 DEF ReadFirstFile, sequence
    <3>2. CASE ReadNextFile
      BY <3>2 DEF ReadNextFile, OpenNext, OpenResult
    <3> QED BY <1>7, <3>1, <3>2 DEF ReadFile
  <2>4. FilesOK'
    BY <1>1, <1>2, <1>3, <2>1 DEF FilesOK
  <2>5. RequestOK'
    BY <1>1, <2>1, <2>2 DEF RequestOK
  <2>6. DialogueInv'
    BY <2>1, <2>2, <2>3 DEF DialogueInv
  <2>7. WantedInv'
    BY <1>1, <2>1 DEF WantedInv
  <2>8. WantedIsIndexed'
    <3>1. fileIndexes \subseteq fileIndexes'
      BY <1>4, <2>1
    <3> QED BY <1>1, <1>2, <2>1, <3>1, StillIndexed
  <2> QED BY <1>2, <2>4, <2>5, <2>6, <2>7, <2>8 DEF AccessInv
<1>8. CASE ReadRunSubRun
  <2>1. /\ item \in {"Run", "SubRun"} /\ item' = "Idle" /\ rootFile' = rootFile
        /\ accessState' = AfterRunOrSubRun
        /\ UNCHANGED <<searchable, fileIndexes, lastReadEventID, wantedEventID, lastFileOpen,
                       processing, offset, seeks, astray>>
    BY <1>8 DEF ReadRunSubRun, ReadRunOrSubRun, sequence, seeking
  <2>2. /\ accessState' \in AccessStates
        /\ accessState' # "SEQUENTIAL" => accessState # "SEQUENTIAL"
    BY <1>1, <2>1 DEF AfterRunOrSubRun, RequestOK, AccessStates
  <2>3. processing = FALSE /\ rootFile # 0
    BY <1>1, <2>1 DEF DialogueInv, RequestOK, SourceTypeOK
  <2>4. FilesOK' /\ RequestOK' /\ DialogueInv' /\ WantedInv'
    BY <1>1, <1>2, <2>1, <2>2, <2>3 DEF FilesOK, RequestOK, DialogueInv, WantedInv
  <2>5. WantedIsIndexed'
    BY <1>1, <1>2, <2>1, <2>2, StillIndexed
  <2> QED BY <1>2, <2>4, <2>5 DEF AccessInv
<1>9. CASE ReadThisEvent
  <2>1. /\ item = "Event" /\ item' = "Idle" /\ rootFile' = rootFile
        /\ accessState' = "SEQUENTIAL" /\ lastReadEventID' = entry /\ lastFileOpen' = TRUE /\ processing' = TRUE
        /\ UNCHANGED <<searchable, fileIndexes, wantedEventID, offset, seeks, astray>>
    BY <1>9 DEF ReadThisEvent, ReadEvent, sequence, seeking
  <2>2. rootFile # 0 /\ type = "Event"
    BY <1>1, <2>1 DEF SourceTypeOK
  <2>3. entry \in ID
    BY <1>2, <2>2, CursorType
  <2>4. FilesOK' /\ RequestOK' /\ DialogueInv' /\ WantedInv' /\ WantedIsIndexed'
    BY <1>1, <1>2, <2>1, <2>2, <2>3
       DEF FilesOK, RequestOK, DialogueInv, WantedInv, WantedIsIndexed, AccessStates
  <2> QED BY <1>2, <2>4 DEF AccessInv
<1>10. CASE ReadFails
  <2>1. /\ item = "Event" /\ item' = "Failed" /\ rootFile' = rootFile
        /\ UNCHANGED <<searchable, fileIndexes, access, lastFileOpen, processing, offset, seeks, astray>>
    BY <1>10 DEF ReadFails, ReadEventThrows, MoveTo, sequence, seeking
  <2>2. FilesOK' /\ RequestOK' /\ DialogueInv' /\ WantedInv'
    BY <1>1, <1>2, <2>1 DEF FilesOK, RequestOK, DialogueInv, WantedInv, access
  <2>3. WantedIsIndexed'
    BY <1>1, <1>2, <2>1, StillIndexed DEF access
  <2> QED BY <1>2, <2>2, <2>3 DEF AccessInv
<1>11. CASE Stop
  <2>1. /\ item = "Stop" /\ item' = "Stopped" /\ rootFile' = 0 /\ lastFileOpen' = FALSE
        /\ UNCHANGED <<searchable, fileIndexes, access, processing, offset, seeks, astray>>
    BY <1>11 DEF Stop, StopJob, seeking
  <2>2. accessState = "SEQUENTIAL" /\ processing = FALSE
    BY <1>1, <2>1 DEF DialogueInv, RequestOK
  <2>3. FilesOK' /\ RequestOK' /\ DialogueInv' /\ WantedInv' /\ WantedIsIndexed'
    BY <1>1, <1>2, <2>1, <2>2 DEF FilesOK, RequestOK, DialogueInv, WantedInv, WantedIsIndexed, access
  <2> QED BY <1>2, <2>3 DEF AccessInv
<1> QED BY <1>5, <1>6, <1>7, <1>8, <1>9, <1>10, <1>11 DEF Calls

-----------------------------------------------------------------------------
LEMMA AccessStarts == AccessInit => AccessInv
<1> SUFFICES ASSUME AccessInit PROVE AccessInv
  OBVIOUS
<1>1. TypeOK
  BY TypeCorrectInit DEF AccessInit
<1>2. SourceTypeOK
  BY <1>1, SourceTypes
<1>3. item = "Construct" /\ rootFile = 0 /\ fileIndexes = {} /\ accessState = "SEQUENTIAL"
  BY DEF AccessInit, Init
<1>4. NoEvent \in ID
  BY DEF NoEvent, EventEntry, ID
<1>5. MaxSeeks \in Nat
  BY SeeksAssumption
<1>6. FilesOK
  BY <1>3 DEF AccessInit, FilesOK
<1>8. RequestOK
  <2>1. 0 \in 0..MaxSeeks /\ 0 \in Int
    BY <1>5
  <2>2. processing = FALSE /\ astray = FALSE /\ offset = 0 /\ seeks = 0
    BY DEF AccessInit
  <2> QED BY <1>3, <1>4, <2>1, <2>2 DEF AccessInit, RequestOK, AccessStates
<1>7. DialogueInv /\ WantedInv /\ WantedIsIndexed
  BY <1>3 DEF AccessInit, DialogueInv, WantedInv, WantedIsIndexed
<1> QED BY <1>2, <1>6, <1>7, <1>8 DEF AccessInv

LEMMA AccessStep == AccessInv /\ [AccessNext]_allVars => AccessInv'
<1> SUFFICES ASSUME AccessInv, [AccessNext]_allVars PROVE AccessInv'
  OBVIOUS
<1>1. CASE Seeks
  BY <1>1, SeekByIDStep, SeekByOffsetStep DEF Seeks
<1>2. CASE Skips
  BY <1>2, SkipWithinFileStep, SkipToNextFileStep, SkipToPreviousFileStep, SkipEndsStep DEF Skips
<1>3. CASE Finds
  BY <1>3, FindsStep
<1>4. CASE Calls
  BY <1>4, CallsStep
<1>5. CASE UNCHANGED allVars
  <2>1. /\ UNCHANGED <<catalog, opts, current, rootFile, fiIter, firstFile, pendingClose, fileBlock,
                       eventsToSkip, fileEventsToSkip, fastClonable, checker, remainingEvents, context,
                       delivered, skipped, dropped, item>>
        /\ UNCHANGED <<searchable, fileIndexes, accessState, lastReadEventID, wantedEventID, lastFileOpen,
                       processing, offset, seeks, astray>>
    BY <1>5 DEF allVars, vars, config, sequence, file, loop, history, access, seeking
  <2>2. index' = index /\ entry' = entry /\ type' = type
    BY <2>1 DEF index, entry, type, TypeAt, End, IndexOf
  <2>3. SourceTypeOK'
    BY <2>1, <2>2 DEF AccessInv, SourceTypeOK
  <2>4. FilesOK' /\ RequestOK' /\ DialogueInv' /\ WantedInv'
    BY <2>1, <2>2 DEF AccessInv, FilesOK, RequestOK, DialogueInv, WantedInv
  <2>5. WantedIsIndexed'
    BY <2>1, StillIndexed DEF AccessInv, config
  <2> QED BY <2>3, <2>4, <2>5 DEF AccessInv
<1> QED BY <1>1, <1>2, <1>3, <1>4, <1>5 DEF AccessNext

(* What AccessTypeOK says is so in every state of every job that seeks:    *)
(* above all, each item announced is what the cursor is on, and a file is  *)
(* open, with its index kept, wherever RootInput uses it.                  *)
THEOREM AccessTypeCorrect == AccessSafeSpec => []AccessTypeOK
<1>1. AccessInv => AccessTypeOK
  BY DEF AccessInv, SourceTypeOK, FilesOK, RequestOK, AccessTypeOK
<1> QED BY <1>1, AccessStarts, AccessStep, PTL DEF AccessSafeSpec

-----------------------------------------------------------------------------
(***************************************************************************)
(* No file is missed.  A step goes from a file gone through before to      *)
(* another, and keeps the index of every good one between them.            *)
(***************************************************************************)
GoesThrough(from, to) ==
  /\ fileIndexes \subseteq fileIndexes'
  /\ fileIndexes' \cup {current'} \subseteq fileIndexes \cup {current} \cup (0..to)
  /\ from \in fileIndexes \cup {current}
  /\ \A k \in (from + 1)..to : catalog[k].kind = "good" => k \in fileIndexes'

LEMMA FileNumbers ==
  ASSUME SourceTypeOK, FilesOK
  PROVE  fileIndexes \subseteq Nat /\ current \in Nat /\ Len(catalog) \in Nat
BY FilesOfJob DEF FilesOK, SourceTypeOK

LEMMA NoneLeftOut ==
  ASSUME SourceTypeOK, FilesOK, NoFileMissed, UNCHANGED config, NEW from, NEW to \in Int,
         GoesThrough(from, to)
  PROVE  NoFileMissed'
<1> SUFFICES ASSUME NEW j \in fileIndexes' \cup {current'}, NEW k \in 1..j, catalog[k].kind = "good"
             PROVE  k \in fileIndexes'
  BY DEF NoFileMissed, config
<1>1. from \in Nat /\ from \in fileIndexes \cup {current} /\ fileIndexes \subseteq fileIndexes'
  BY FileNumbers DEF GoesThrough
<1>2. CASE j \in fileIndexes \cup {current}
  BY <1>1, <1>2 DEF NoFileMissed
<1>3. CASE j \in 0..to /\ k <= from
  <2>1. k \in 1..from
    BY <1>1, <1>3
  <2> QED BY <1>1, <2>1 DEF NoFileMissed
<1>4. CASE j \in 0..to /\ from < k
  <2>1. k \in (from + 1)..to
    BY <1>1, <1>4
  <2> QED BY <2>1 DEF GoesThrough
<1>5. j \in fileIndexes \cup {current} \/ j \in 0..to
  BY DEF GoesThrough
<1>6. j \in 0..to => k <= from \/ from < k
  BY <1>1
<1> QED BY <1>2, <1>3, <1>4, <1>5, <1>6

(* No file opened: a step that goes nowhere.                               *)
LEMMA SameFilesKept ==
  ASSUME SourceTypeOK, FilesOK, UNCHANGED <<fileIndexes, current>>
  PROVE  GoesThrough(current, current)
<1>1. current \in Nat
  BY FileNumbers
<1>2. \A k \in (current + 1)..current : FALSE
  BY <1>1
<1> QED BY <1>2 DEF GoesThrough

(* One file opened again, or none before the current one missed.           *)
LEMMA FileOpenedAgain ==
  ASSUME SourceTypeOK, FilesOK, NEW k \in fileIndexes, NEW p, InitFile(k, p)
  PROVE  GoesThrough(current, current)
<1>1. current \in Nat /\ k \in Nat
  BY FileNumbers
<1>2. k..k = {k} /\ \A j \in (current + 1)..current : FALSE
  BY <1>1
<1>3. fileIndexes' = fileIndexes /\ current' = k
  BY <1>2 DEF InitFile, InitFiles, KeepIndexes
<1> QED BY <1>2, <1>3 DEF GoesThrough

(* Files are opened one after another, up to a good one or one before.     *)
LEMMA FilesOpenedOnTheWay ==
  ASSUME SourceTypeOK, FilesOK, NEW from \in fileIndexes \cup {current}, NEW to \in Nat,
         KeepIndexes(from + 1, to), current' \in 0..to
  PROVE  GoesThrough(from, to)
<1>1. from \in Nat
  BY FileNumbers
<1>2. (from + 1)..to \subseteq 0..to
  BY <1>1
<1> QED BY <1>2 DEF GoesThrough, KeepIndexes

LEMMA SearchMissesNoFile ==
  AccessInv /\ SeekToEventID => \E from, to \in Int : GoesThrough(from, to)
<1> SUFFICES ASSUME AccessInv, SeekToEventID PROVE \E from, to \in Int : GoesThrough(from, to)
  OBVIOUS
<1>1. /\ item = "Idle" /\ processing /\ SourceTypeOK /\ FilesOK /\ rootFile # 0
  BY DEF SeekToEventID, MaySeek, AccessInv, DialogueInv
<1>2. PICK id \in Targets, exact \in BOOLEAN :
       \/ FoundInCurrentFile(id, exact) \/ NotSearchable(id, exact)
       \/ FoundInLaterFile(id, exact) \/ SearchThrows(id, exact) \/ NotFound(id, exact)
  BY DEF SeekToEventID
<1> DEFINE start == StartOfScan(id, exact)
           last  == Len(catalog)
<1>3. /\ start \in fileIndexes \cup {current} /\ start \in Nat
      /\ start \in DOMAIN catalog
      /\ Opened(id, exact) # {} => start \in fileIndexes
  <2>1. /\ start \in DOMAIN catalog /\ (Opened(id, exact) # {} => start \in fileIndexes)
    BY <1>1, ScanStarts DEF Opened
  <2>2. Opened(id, exact) = {} => start = current
    BY DEF StartOfScan
  <2>3. start \in fileIndexes \cup {current}
    BY <2>1, <2>2
  <2> QED BY <1>1, <2>1, <2>3, FileNumbers
<1>4. current \in Int /\ last \in Nat
  BY <1>1, FileNumbers
<1>5. CASE UNCHANGED <<fileIndexes, current>>
  BY <1>1, <1>4, <1>5, SameFilesKept
<1>6. CASE FoundInLaterFile(id, exact)
  <2> DEFINE k == Min(Stops(id, exact, start))
  <2>1. InitFiles(start + 1, k, Find(k, id, exact)) /\ Stops(id, exact, start) # {}
    BY <1>6 DEF FoundInLaterFile
  <2>2. k \in Nat
    <3> HIDE DEF start
    <3> QED BY <1>1, <1>3, <2>1, ScanStops, FilesOfJob
  <2> HIDE DEF k, start
  <2>3. KeepIndexes(start + 1, k) /\ current' \in 0..k
    BY <2>1, <2>2 DEF InitFiles
  <2>4. GoesThrough(start, k)
    BY <1>1, <1>3, <2>2, <2>3, FilesOpenedOnTheWay
  <2> QED BY <1>3, <2>2, <2>4
<1>7. CASE SearchThrows(id, exact)
  <2> DEFINE k == Min(Stops(id, exact, start))
  <2>1. NoFile(k) /\ KeepIndexes(start + 1, k - 1) /\ Stops(id, exact, start) # {}
    BY <1>7 DEF SearchThrows
  <2>2. k \in Nat /\ start + 1 <= k /\ k \in Stops(id, exact, start)
    <3> HIDE DEF start
    <3> QED BY <1>1, <1>3, <2>1, ScanStops, FilesOfJob
  <2>3. catalog[k].kind # "good"
    BY <1>7 DEF SearchThrows
  <2> HIDE DEF k, start
  <2>4. /\ fileIndexes' = fileIndexes \cup ((start + 1)..(k - 1)) /\ current' = k
    BY <2>1 DEF KeepIndexes, NoFile
  <2>5. (start + 1)..(k - 1) \subseteq 0..k /\ k \in 0..k
    BY <1>3, <2>2
  <2>6. \A j \in (start + 1)..k : catalog[j].kind = "good" => j \in (start + 1)..(k - 1)
    <3> SUFFICES ASSUME NEW j \in (start + 1)..k, j # k PROVE j \in (start + 1)..(k - 1)
      BY <2>3
    <3> QED BY <1>3, <2>2
  <2>7. GoesThrough(start, k)
    BY <1>3, <2>4, <2>5, <2>6 DEF GoesThrough
  <2> QED BY <1>3, <2>2, <2>7
<1>8. CASE NotFound(id, exact) /\ start < last
  <2>1. InitFiles(start + 1, last, End(IndexIn(last)))
    BY <1>8 DEF NotFound
  <2> HIDE DEF start, last
  <2>2. KeepIndexes(start + 1, last) /\ current' \in 0..last
    BY <1>4, <2>1 DEF InitFiles
  <2>3. GoesThrough(start, last)
    BY <1>1, <1>3, <1>4, <2>2, FilesOpenedOnTheWay
  <2> QED BY <1>3, <1>4, <2>3
<1>9. CASE NotFound(id, exact) /\ start = last /\ Opened(id, exact) # {}
  <2>1. InitFile(last, Find(last, id, exact)) /\ last \in fileIndexes
    BY <1>3, <1>4, <1>9 DEF NotFound
  <2>2. GoesThrough(current, current)
    BY <1>1, <2>1, FileOpenedAgain
  <2> QED BY <1>4, <2>2
<1>10. ASSUME NotFound(id, exact), ~ (start < last), ~ (start = last /\ Opened(id, exact) # {})
       PROVE  UNCHANGED <<fileIndexes, current>>
  BY <1>10 DEF NotFound, MoveInFile
<1>11. FoundInCurrentFile(id, exact) \/ NotSearchable(id, exact) => UNCHANGED <<fileIndexes, current>>
  BY DEF FoundInCurrentFile, NotSearchable, MoveInFile
<1> HIDE DEF start, last
<1> QED BY <1>2, <1>5, <1>6, <1>7, <1>8, <1>9, <1>10, <1>11

LEMMA SkipMissesNoFile == AccessInv /\ Skips => \E from, to \in Int : GoesThrough(from, to)
<1> SUFFICES ASSUME AccessInv, Skips PROVE \E from, to \in Int : GoesThrough(from, to)
  OBVIOUS
<1>1. /\ SourceTypeOK /\ FilesOK /\ current \in Nat /\ Len(catalog) \in Nat
      /\ DOMAIN catalog = 1..Len(catalog)
  BY FileNumbers, FilesOfJob DEF AccessInv
<1>2. CASE UNCHANGED <<fileIndexes, current>>
  BY <1>1, <1>2, SameFilesKept
<1>3. CASE SkipWithinFile \/ SkipDuplicate \/ EndSkip
  BY <1>2, <1>3 DEF SkipWithinFile, SkipDuplicate, EndSkip, MoveInFile
<1>4. CASE SkipToNextFile
  <2> DEFINE k == current + 1
  <2>1. k \in Nat /\ k..k = {k} /\ k \in 0..k
    BY <1>1
  <2>2. CASE InitFile(k, 1)
    <3>1. KeepIndexes(current + 1, k) /\ current' \in 0..k
      BY <2>1, <2>2 DEF InitFile, InitFiles
    <3> HIDE DEF k
    <3>2. GoesThrough(current, k)
      BY <1>1, <2>1, <3>1, FilesOpenedOnTheWay
    <3> QED BY <1>1, <2>1, <3>2
  <2>3. CASE catalog[k].kind # "good" /\ NoFile(k) /\ UNCHANGED fileIndexes
    <3>1. current' = k
      BY <2>3 DEF NoFile
    <3>2. \A j \in (current + 1)..k : catalog[j].kind # "good"
      BY <2>1, <2>3
    <3>3. GoesThrough(current, k)
      BY <2>1, <2>3, <3>1, <3>2 DEF GoesThrough
    <3> QED BY <1>1, <2>1, <3>3
  <2> QED BY <1>2, <1>4, <2>2, <2>3 DEF SkipToNextFile
<1>5. CASE SkipToPreviousFile
  <2> DEFINE k == current - 1
  <2>1. CASE current > 1 /\ InitFile(k, End(IndexIn(k)))
    <3>1. k \in 0..current /\ k..k = {k} /\ \A j \in (current + 1)..current : FALSE
      BY <1>1, <2>1
    <3>2. fileIndexes' = fileIndexes \cup {k} /\ current' = k
      BY <2>1, <3>1 DEF InitFile, InitFiles, KeepIndexes
    <3> HIDE DEF k
    <3>3. GoesThrough(current, current)
      BY <3>1, <3>2 DEF GoesThrough
    <3> QED BY <1>1, <3>3
  <2>2. CASE current > 1 /\ NoFile(k) /\ UNCHANGED fileIndexes
    <3>1. k \in 0..current /\ \A j \in (current + 1)..current : FALSE
      BY <1>1, <2>2
    <3>2. current' = k
      BY <2>2 DEF NoFile
    <3> HIDE DEF k
    <3>3. GoesThrough(current, current)
      BY <2>2, <3>1, <3>2 DEF GoesThrough
    <3> QED BY <1>1, <3>3
  <2> QED BY <1>2, <1>5, <2>1, <2>2 DEF SkipToPreviousFile
<1> QED BY <1>3, <1>4, <1>5 DEF Skips

(* Going on to the next file that can be opened passes no good one.        *)
LEMMA NextFilePassesNoGoodOne ==
  ASSUME SourceTypeOK, TypeOK, NEW s, NEW c, OpenNext(s, c)
  PROVE  /\ current' \in (current + 1)..Len(catalog) \/ current' = Len(catalog)
         /\ \A k \in (current + 1)..current' : catalog[k].kind = "good" => k = rootFile'
<1>1. current \in Nat /\ Len(catalog) \in Nat /\ current <= Len(catalog)
  BY FilesOfJob DEF SourceTypeOK
<1> DEFINE tried == {k \in (current + 1)..Len(catalog) :
                      ~ (opts.skipBad /\ catalog[k].kind = "unopenable")}
<1>2. CASE tried = {}
  <2>1. NextTried = 0
    BY <1>2 DEF NextTried
  <2>2. current' = Len(catalog)
    BY <2>1 DEF OpenNext
  <2>3. \A k \in (current + 1)..Len(catalog) : catalog[k].kind # "good"
    BY <1>2
  <2> QED BY <2>2, <2>3
<1>3. CASE tried # {}
  <2>1. \E k \in tried : \A j \in tried : k <= j
    <3>1. tried \subseteq Nat
      BY <1>1
    <3> QED BY <1>3, <3>1, SmallestOfSet
  <2>2. NextTried \in tried /\ \A j \in tried : NextTried <= j
    BY <1>3, <2>1 DEF NextTried
  <2>3. NextTried # 0 /\ NextTried \in (current + 1)..Len(catalog)
    BY <1>1, <2>2
  <2>4. current' = NextTried
    BY <2>3 DEF OpenNext
  <2>5. catalog[NextTried].kind = "good" => rootFile' = NextTried
    BY <2>3 DEF OpenNext
  <2>6. ASSUME NEW k \in (current + 1)..NextTried, catalog[k].kind = "good" PROVE k = NextTried
    <3>1. k \in tried
      BY <1>1, <2>3, <2>6
    <3> HIDE DEF tried
    <3> QED BY <1>1, <2>2, <2>3, <3>1
  <2> QED BY <2>3, <2>4, <2>5, <2>6
<1> QED BY <1>2, <1>3

LEMMA ReadingMissesNoFile == AccessInv /\ Calls => \E from, to \in Int : GoesThrough(from, to)
<1> SUFFICES ASSUME AccessInv, Calls PROVE \E from, to \in Int : GoesThrough(from, to)
  OBVIOUS
<1>1. /\ SourceTypeOK /\ FilesOK /\ TypeOK /\ TypeOK' /\ current \in Nat /\ Len(catalog) \in Nat
      /\ current <= Len(catalog)
  BY FileNumbers, CallsTypes DEF AccessInv, SourceTypeOK
<1>2. CASE UNCHANGED <<fileIndexes, current>>
  BY <1>1, <1>2, SameFilesKept
<1>3. ASSUME NEW s, NEW c, OpenNext(s, c), fileIndexes' = (fileIndexes \cup {rootFile'}) \ {0}
      PROVE  \E from, to \in Int : GoesThrough(from, to)
  <2>1. /\ current' \in (current + 1)..Len(catalog) \/ current' = Len(catalog)
        /\ \A k \in (current + 1)..current' : catalog[k].kind = "good" => k = rootFile'
    BY <1>1, <1>3, NextFilePassesNoGoodOne
  <2>2. current' \in Nat /\ current <= current'
    BY <1>1, <2>1
  <2>3. rootFile' = 0 \/ rootFile' = current'
    BY <1>3 DEF OpenNext
  <2>4. 0 \notin fileIndexes
    BY <1>1, FilesOfJob DEF FilesOK
  <2>5. fileIndexes \subseteq fileIndexes' /\ fileIndexes' \subseteq fileIndexes \cup {current'}
    BY <1>3, <2>3, <2>4
  <2>6. ASSUME NEW k \in (current + 1)..current', catalog[k].kind = "good" PROVE k \in fileIndexes'
    <3>1. k = rootFile' /\ k # 0
      BY <1>1, <2>1, <2>2, <2>6
    <3> QED BY <1>3, <3>1
  <2>7. current' \in 0..current'
    BY <2>2
  <2>8. GoesThrough(current, current')
    BY <2>5, <2>6, <2>7 DEF GoesThrough
  <2> QED BY <1>1, <2>2, <2>8
<1>4. CASE OpenFirst
  <2>1. OpenNext(eventsToSkip, checker) /\ fileIndexes = {} /\ fileIndexes' = {rootFile'} \ {0}
    BY <1>4 DEF OpenFirst, Construct, AccessInv, DialogueInv
  <2> QED BY <1>3, <2>1
<1>5. CASE ReadFile /\ ReadNextFile
  BY <1>3, <1>5 DEF ReadFile, ReadNextFile
<1>6. CASE ReadFile /\ ReadFirstFile
  <2>1. rootFile' = rootFile /\ rootFile # 0 /\ current' = current
    BY <1>6 DEF ReadFirstFile, sequence
  <2>2. rootFile \in fileIndexes /\ 0 \notin fileIndexes
    BY <1>1, <2>1, FilesOfJob DEF FilesOK
  <2>3. fileIndexes' = fileIndexes
    BY <1>6, <2>1, <2>2 DEF ReadFile
  <2> QED BY <1>2, <2>1, <2>3
<1>7. Sequential => UNCHANGED <<fileIndexes, current>>
  BY DEF Sequential, Limits, LimitReached, FirstItem, AskFile, NoMoreEntries, Wanted, SkipToFirstRun,
         WantRun, SkipToNextRun, SkipToFirstSubRun, WantSubRun, SkipToNextSubRun, SkipToFirstEvent,
         DropDuplicate, WantEvent, SkipEvent, EndSkipping, MoveTo, sequence
<1>8. ReadRunSubRun \/ ReadThisEvent \/ ReadFails \/ Stop => UNCHANGED <<fileIndexes, current>>
  BY DEF ReadRunSubRun, ReadRunOrSubRun, ReadThisEvent, ReadEvent, ReadFails, ReadEventThrows,
         MoveTo, Stop, StopJob, sequence
<1> QED BY <1>2, <1>4, <1>5, <1>6, <1>7, <1>8 DEF Calls, ReadFile

LEMMA FindingMissesNoFile == AccessInv /\ Finds => \E from, to \in Int : GoesThrough(from, to)
<1> SUFFICES ASSUME AccessInv, Finds PROVE \E from, to \in Int : GoesThrough(from, to)
  OBVIOUS
<1>1. SourceTypeOK /\ FilesOK /\ current \in Int /\ fileIndexes \subseteq Nat
  BY FileNumbers DEF AccessInv
<1>2. CASE UNCHANGED <<fileIndexes, current>>
  BY <1>1, <1>2, SameFilesKept
<1>3. ASSUME NEW id, ReadIt(id) PROVE \E from, to \in Int : GoesThrough(from, to)
  <2>1. CASE Opened(id, TRUE) # {} /\ InitFile(Min(Opened(id, TRUE)), Find(Min(Opened(id, TRUE)), id, TRUE))
    <3> DEFINE S == Opened(id, TRUE)
               k == Min(S)
    <3>1. S \subseteq fileIndexes
      BY DEF Opened
    <3>2. \E p \in S : \A q \in S : p <= q
      BY <1>1, <2>1, <3>1, SmallestOfSet
    <3>3. k \in fileIndexes
      BY <3>1, <3>2 DEF Min
    <3>4. GoesThrough(current, current)
      BY <1>1, <2>1, <3>3, FileOpenedAgain
    <3> QED BY <1>1, <3>4
  <2>2. CASE UNCHANGED <<fileIndexes, current>>
    BY <1>2, <2>2
  <2> QED BY <1>3, <2>1, <2>2 DEF ReadIt, MoveInFile
<1> QED BY <1>2, <1>3 DEF Finds, SeekFile, SeekRun, SeekSubRun, SeekEvent, sequence

LEMMA NoFileMissedStep == AccessInv /\ NoFileMissed /\ [AccessNext]_allVars => NoFileMissed'
<1> SUFFICES ASSUME AccessInv, NoFileMissed, [AccessNext]_allVars PROVE NoFileMissed'
  OBVIOUS
<1>1. SourceTypeOK /\ FilesOK
  BY DEF AccessInv
<1>2. CASE UNCHANGED <<fileIndexes, current, config>>
  <2>1. GoesThrough(current, current) /\ current \in Int
    BY <1>1, <1>2, SameFilesKept, FileNumbers
  <2> QED BY <1>1, <1>2, <2>1, NoneLeftOut
<1>3. CASE UNCHANGED allVars
  BY <1>2, <1>3 DEF allVars, vars, sequence
<1>4. CASE SeekInProgress \/ SeekToEventOffset
  BY <1>2, <1>4 DEF SeekInProgress, SeekToEventOffset, sequence
<1>5. CASE SeekToEventID \/ Skips \/ Finds \/ Calls
  <2>1. UNCHANGED config
    <3>1. Calls => UNCHANGED config
      BY <1>1, CallsTypes
    <3>2. SeekToEventID => UNCHANGED config
      <4>1. SeekToEventID => \E id, exact, found : SeekByID(id, exact, found)
        BY DEF SeekToEventID, FoundInCurrentFile, NotSearchable, FoundInLaterFile, SearchThrows, NotFound
      <4> QED BY <4>1 DEF SeekByID
    <3>3. Skips => UNCHANGED config
      BY DEF Skips, SkipWithinFile, SkipToNextFile, SkipToPreviousFile, SkipDuplicate, EndSkip, Skip
    <3>4. Finds => UNCHANGED config
      BY DEF Finds, SeekFile, SeekRun, SeekSubRun, SeekEvent, ReadIt
    <3> QED BY <1>5, <3>1, <3>2, <3>3, <3>4
  <2>2. PICK from, to \in Int : GoesThrough(from, to)
    BY <1>5, SearchMissesNoFile, SkipMissesNoFile, ReadingMissesNoFile, FindingMissesNoFile
  <2> QED BY <1>1, <2>1, <2>2, NoneLeftOut
<1> QED BY <1>3, <1>4, <1>5 DEF AccessNext, Seeks

(* In every state of every job that seeks, fileIndexes_ lacks none of the  *)
(* files the source has gone through, and until the event a seek has found *)
(* is read it and its run and subrun are in one file whose index is kept:  *)
(* readIt()'s assertion holds.                                             *)
THEOREM IndexesAlwaysServeSeeks == AccessSafeSpec => []IndexesServeSeeks
<1>1. AccessInit => AccessInv /\ NoFileMissed
  <2>1. AccessInit => NoFileMissed
    BY DEF AccessInit, Init, NoFileMissed
  <2> QED BY <2>1, AccessStarts
<1>2. AccessInv /\ NoFileMissed /\ [AccessNext]_allVars => AccessInv' /\ NoFileMissed'
  BY AccessStep, NoFileMissedStep
<1>3. AccessInv /\ NoFileMissed => IndexesServeSeeks
  BY DEF AccessInv, IndexesServeSeeks
<1> QED BY <1>1, <1>2, <1>3, PTL DEF AccessSafeSpec

-----------------------------------------------------------------------------
(* Only readEvent() delivers an event.                                     *)
LEMMA OnlyReadsDeliver == [AccessNext]_allVars /\ delivered' # delivered => ReadThisEvent
<1> SUFFICES ASSUME [AccessNext]_allVars, ~ ReadThisEvent PROVE delivered' = delivered
  OBVIOUS
<1>1. CASE Seeks
  <2>1. \A id, exact, found : SeekByID(id, exact, found) => delivered' = delivered
    BY DEF SeekByID, history
  <2> QED BY <1>1, <2>1, ZenonT(60)
          DEF Seeks, SeekInProgress, SeekToEventID, SeekToEventOffset, FoundInCurrentFile, NotSearchable,
              FoundInLaterFile, SearchThrows, NotFound, history
<1>2. CASE Skips
  BY <1>2 DEF Skips, Skip, SkipWithinFile, SkipToNextFile, SkipToPreviousFile, SkipDuplicate, EndSkip, history
<1>3. CASE Finds
  BY <1>3 DEF Finds, SeekFile, SeekRun, SeekSubRun, SeekEvent, ReadIt, history
<1>4. CASE Sequential
  BY <1>4, SequentialMoves
<1>5. CASE Calls /\ ~ Sequential
  BY <1>5 DEF Calls, OpenFirst, Construct, ReadFile, ReadFirstFile, ReadNextFile, ReadRunSubRun, ReadRunOrSubRun,
     ReadFails, ReadEventThrows, MoveTo, Stop, StopJob, history
<1>6. CASE UNCHANGED allVars
  BY <1>6 DEF allVars, vars, history
<1> QED BY <1>1, <1>2, <1>3, <1>4, <1>5, <1>6 DEF AccessNext

(* The event read while a seek is under way is the one that was sought,    *)
(* whatever files the event loop opened on the way.                        *)
THEOREM SoughtEventsAreRead == AccessSafeSpec => SoughtEventIsRead
<1>1. AccessInv /\ [AccessNext]_allVars =>
        [delivered' # delivered /\ accessState # "SEQUENTIAL" => entry = wantedEventID]_allVars
  <2> SUFFICES ASSUME AccessInv, [AccessNext]_allVars, delivered' # delivered, accessState # "SEQUENTIAL"
               PROVE  entry = wantedEventID
    OBVIOUS
  <2>1. item = "Event"
    BY OnlyReadsDeliver DEF ReadThisEvent, ReadEvent
  <2> QED BY <2>1 DEF AccessInv, WantedInv
<1> QED BY <1>1, AccessStarts, AccessStep, PTL DEF AccessSafeSpec, SoughtEventIsRead

-----------------------------------------------------------------------------
(***************************************************************************)
(* The subrun that events are read in                                      *)
(***************************************************************************)
(* The run or subrun last read, whichever file it was read from: one file  *)
(* may stand in for another in which the same subrun goes on.              *)
LastRead == [file |-> rootFile, id |-> context.id]

(* Reading from front to back, the cursor stands on what belongs to the    *)
(* subrun last read; an event that was sought belongs there as soon as it  *)
(* is the next to be read; and what a seek compares with, the event last   *)
(* read, belongs there while the event loop has it.                        *)
SubRunInv ==
  ~ astray =>
    /\ accessState = "SEQUENTIAL" /\ item # "Seek" => ContextFits(LastRead)
    /\ processing => context.id = SubRunOf(lastReadEventID)
    /\ accessState # "SEQUENTIAL" => ~ Before(wantedEventID, opts.first)
    /\ accessState = "SEEKING_EVENT" => context.id = SubRunOf(wantedEventID)

(* Where the event found is not before the first one wanted, the records   *)
(* that are left out are those of the event last read.                     *)
LEMMA FoundInSubRun ==
  ASSUME NEW found, NEW id, NEW same \in BOOLEAN,
         SubRunInv, astray' = (astray \/ GoesAstray(found)), processing, processing' = processing,
         UNCHANGED <<config, context>>,
         found # NoPos => id = IndexIn(found.file)[found.pos],
         UpdateAccessState(id, same)
  PROVE  SubRunInv'
<1> SUFFICES ASSUME ~ astray' PROVE SubRunInv'
  BY DEF SubRunInv
<1>1. ~ astray /\ found # NoPos /\ ~ Before(id, opts.first)
  BY DEF GoesAstray
<1>2. wantedEventID' = id /\ accessState' = StateToReach(id, same) /\ lastReadEventID' = lastReadEventID
  BY DEF UpdateAccessState
<1>3. accessState' # "SEQUENTIAL"
  BY <1>2 DEF StateToReach
<1>4. accessState' = "SEEKING_EVENT" => SubRunOf(id) = SubRunOf(lastReadEventID)
  BY <1>2 DEF StateToReach
<1>5. context.id = SubRunOf(lastReadEventID)
  BY <1>1 DEF SubRunInv
<1>6. context' = context /\ opts' = opts
  BY DEF config
<1> QED BY <1>1, <1>2, <1>3, <1>4, <1>5, <1>6 DEF SubRunInv

LEMMA SubRunInvSeeks == AccessInv /\ SubRunInv /\ Seeks => SubRunInv'
<1> SUFFICES ASSUME AccessInv, SubRunInv, Seeks PROVE SubRunInv'
  OBVIOUS
<1>1. CASE SeekInProgress
  <2>1. /\ accessState # "SEQUENTIAL"
        /\ UNCHANGED <<accessState, lastReadEventID, wantedEventID, processing, astray, context, opts>>
    BY <1>1 DEF SeekInProgress, access, seeking, config
  <2> QED BY <2>1 DEF SubRunInv
<1>2. CASE SeekToEventOffset
  <2>1. /\ accessState = "SEQUENTIAL" /\ item' = "Seek"
        /\ UNCHANGED <<accessState, lastReadEventID, wantedEventID, processing, astray, context, opts>>
    BY <1>2 DEF SeekToEventOffset, access, config
  <2> QED BY <2>1 DEF SubRunInv
<1>3. CASE SeekToEventID
  <2>1. PICK id, exact :
         \/ FoundInCurrentFile(id, exact) \/ NotSearchable(id, exact)
         \/ FoundInLaterFile(id, exact) \/ SearchThrows(id, exact) \/ NotFound(id, exact)
    BY <1>3 DEF SeekToEventID
  <2>2. processing /\ accessState = "SEQUENTIAL" /\ lastFileOpen \in BOOLEAN
    BY <1>3 DEF SeekToEventID, MaySeek, AccessInv, FilesOK
  <2>3. ASSUME NEW found, SeekByID(id, exact, found)
        PROVE  /\ astray' = (astray \/ GoesAstray(found)) /\ processing' = processing
               /\ UNCHANGED <<config, context>>
    BY <2>3 DEF SeekByID
  <2>4. CASE NotSearchable(id, exact) \/ SearchThrows(id, exact) \/ NotFound(id, exact)
    <3>1. SeekByID(id, exact, NoPos)
      BY <2>4 DEF NotSearchable, SearchThrows, NotFound
    <3>2. astray'
      BY <2>3, <3>1 DEF GoesAstray
    <3> QED BY <3>2 DEF SubRunInv
  <2>5. CASE FoundInCurrentFile(id, exact)
    <3> DEFINE p == Find(rootFile, id, TRUE)
               found == [file |-> rootFile, pos |-> p]
    <3>1. SeekByID(id, exact, found) /\ UpdateAccessState(index[p], lastFileOpen)
      BY <2>5 DEF FoundInCurrentFile
    <3>2. index[p] = IndexIn(found.file)[found.pos]
      BY DEF index, IndexIn
    <3> HIDE DEF p, found
    <3> QED BY <2>2, <2>3, <3>1, <3>2, FoundInSubRun
  <2>6. CASE FoundInLaterFile(id, exact)
    <3> DEFINE k == Min(Stops(id, exact, StartOfScan(id, exact)))
               p == Find(k, id, exact)
               found == [file |-> k, pos |-> p]
    <3>1. SeekByID(id, exact, found) /\ UpdateAccessState(IndexIn(k)[p], FALSE)
      BY <2>6 DEF FoundInLaterFile
    <3>2. IndexIn(k)[p] = IndexIn(found.file)[found.pos]
      OBVIOUS
    <3> HIDE DEF k, p, found
    <3> QED BY <2>2, <2>3, <3>1, <3>2, FoundInSubRun
  <2> QED BY <2>1, <2>4, <2>5, <2>6
<1> QED BY <1>1, <1>2, <1>3 DEF Seeks

LEMMA SubRunInvSkips == AccessInv /\ SubRunInv /\ Skips => SubRunInv'
<1> SUFFICES ASSUME AccessInv, SubRunInv, Skips PROVE SubRunInv'
  OBVIOUS
<1>1. /\ item = "Seek" /\ processing /\ accessState = "SEQUENTIAL" /\ processing' = processing
      /\ UNCHANGED <<config, context>> /\ opts' = opts /\ SourceTypeOK /\ FilesOK /\ rootFile # 0
      /\ lastFileOpen \in BOOLEAN
  BY DEF Skips, Skip, SkipWithinFile, SkipToNextFile, SkipToPreviousFile, SkipDuplicate, EndSkip, config,
         AccessInv, DialogueInv, FilesOK
<1>2. ASSUME UNCHANGED <<access, astray>>, item' = "Seek" \/ rootFile' = 0 PROVE SubRunInv'
  BY <1>1, <1>2 DEF SubRunInv, access, ContextFits
<1>3. CASE SkipWithinFile \/ SkipDuplicate
  BY <1>1, <1>2, <1>3 DEF SkipWithinFile, Skip, SkipDuplicate
<1>4. CASE SkipToNextFile \/ SkipToPreviousFile
  <2>1. UNCHANGED <<access, astray>>
    BY <1>4 DEF SkipToNextFile, SkipToPreviousFile, Skip
  <2>2. item' = item \/ rootFile' = 0
    BY <1>4 DEF SkipToNextFile, SkipToPreviousFile, NoFile
  <2> QED BY <1>1, <1>2, <2>1, <2>2
<1>5. CASE EndSkip
  <2> DEFINE p == NextEvent(index, fiIter)
             found == [file |-> rootFile, pos |-> p]
  <2>1. MoveInFile(p)
    BY <1>5 DEF EndSkip
  <2>2. CASE p = End(index)
    <3>1. UNCHANGED <<accessState, lastReadEventID, wantedEventID, astray>>
      BY <1>5, <2>2 DEF EndSkip, access
    <3>2. item' \notin {"Run", "SubRun"}
      BY <1>1, <1>5, <2>2 DEF EndSkip
    <3>3. /\ fiIter' = End(index) /\ UNCHANGED <<catalog, opts, rootFile>> /\ LastRead' = LastRead
      BY <1>1, <2>1, <2>2 DEF MoveInFile, config, LastRead
    <3>4. FitsAt(fiIter', LastRead)
      BY <3>3 DEF FitsAt, TypeAt
    <3>5. \A c : c = LastRead => ContextFits(c)'
      BY <1>1, <3>2, <3>3, <3>4, FitsMoved
    <3>6. ContextFits(LastRead)'
      BY <3>3, <3>5 DEF ContextFits
    <3> QED BY <1>1, <3>1, <3>6 DEF SubRunInv
  <2>3. CASE p # End(index)
    <3>1. UpdateAccessState(index[p], lastFileOpen) /\ astray' = (astray \/ GoesAstray(found))
      BY <1>5, <2>3 DEF EndSkip
    <3>2. index[p] = IndexIn(found.file)[found.pos]
      BY DEF index, IndexIn
    <3> HIDE DEF p, found
    <3> QED BY <1>1, <3>1, <3>2, FoundInSubRun
  <2> QED BY <2>2, <2>3
<1> QED BY <1>3, <1>4, <1>5 DEF Skips

LEMMA SubRunInvFinds == AccessInv /\ SubRunInv /\ Finds => SubRunInv'
<1> SUFFICES ASSUME AccessInv, SubRunInv, Finds PROVE SubRunInv'
  OBVIOUS
<1>1. /\ accessState # "SEQUENTIAL" /\ processing' = FALSE
      /\ UNCHANGED <<accessState, wantedEventID, astray, context, opts>>
  BY DEF Finds, SeekFile, SeekRun, SeekSubRun, SeekEvent, ReadIt, access, seeking, config
<1> QED BY <1>1 DEF SubRunInv

LEMMA FitsAtNextFront == (\A c : TypeOK /\ rootFile # 0 => FitsAt(1, c))'
<1>1. \A c : TypeOK /\ rootFile # 0 => FitsAt(1, c)
  BY FitsAtFront
<1> QED BY <1>1, PTL

(* What is read while the sequence is read from front to back.             *)
LEMMA SubRunInvCalls == AccessInv /\ SubRunInv /\ Calls => SubRunInv'
<1> SUFFICES ASSUME AccessInv, SubRunInv, Calls, ~ astray PROVE SubRunInv'
  <2>1. Calls => astray' = astray
    BY DEF Calls, Sequential, OpenFirst, ReadFile, ReadRunSubRun, ReadThisEvent, ReadFails, Stop, seeking
  <2> QED BY <2>1 DEF SubRunInv
<1>1. TypeOK /\ TypeOK' /\ UNCHANGED config /\ opts' = opts /\ catalog' = catalog
  BY CallsTypes DEF AccessInv, config
<1>2. /\ DialogueInv /\ WantedInv /\ processing \in BOOLEAN
      /\ item # "Seek" /\ (accessState = "SEQUENTIAL" => ContextFits(LastRead))
      /\ accessState # "SEQUENTIAL" => ~ Before(wantedEventID, opts.first)
      /\ accessState = "SEEKING_EVENT" => context.id = SubRunOf(wantedEventID)
  <2>1. item # "Seek"
    BY <1>1 DEF TypeOK, Items
  <2> QED BY <2>1 DEF AccessInv, RequestOK, SubRunInv
<1>3. ASSUME NEW c, c = LastRead', ContextFits(c)' PROVE ContextFits(LastRead)'
  BY <1>3 DEF ContextFits
<1>4. ASSUME fiIter' = 1 \/ rootFile' = 0, item' \notin {"Run", "SubRun"} PROVE ContextFits(LastRead)'
  BY <1>1, <1>4, FitsAtNextFront DEF ContextFits
<1>5. CASE Sequential
  <2>1. /\ accessState = "SEQUENTIAL" /\ accessState' = accessState /\ processing' = FALSE
        /\ Limits \/ Wanted
    BY <1>5 DEF Sequential, access
  <2>2. UNCHANGED <<rootFile, context>>
    BY <1>5, SequentialMoves
  <2>3. \A c : c = LastRead => ContextFits(c)'
    BY <1>1, <1>2, <2>1, FitsWhileSearching
  <2>4. ContextFits(LastRead)'
    BY <1>3, <2>2, <2>3 DEF LastRead
  <2> QED BY <2>1, <2>4 DEF SubRunInv
<1>6. CASE OpenFirst
  <2>1. /\ item = "Construct" /\ item' \in {"Failed", "Idle"} /\ accessState' = accessState
        /\ processing' = processing
    BY <1>6 DEF OpenFirst, Construct, access
  <2>2. accessState = "SEQUENTIAL" /\ processing = FALSE
    BY <1>2, <2>1 DEF DialogueInv
  <2>3. fiIter' = 1 \/ rootFile' = 0
    BY <1>6 DEF OpenFirst, Construct, OpenNext
  <2> QED BY <1>4, <2>1, <2>2, <2>3 DEF SubRunInv
<1>7. CASE ReadFile
  <2>1. /\ item = "File" /\ item' \in {"Failed", "Idle"} /\ processing' = processing
        /\ accessState' = IF accessState = "SEEKING_FILE" THEN "SEEKING_RUN" ELSE accessState
        /\ UNCHANGED <<wantedEventID, context>>
    BY <1>7 DEF ReadFile, ReadFirstFile, ReadNextFile
  <2>2. processing = FALSE
    BY <1>2, <2>1 DEF DialogueInv
  <2>3. accessState = "SEQUENTIAL" => ContextFits(LastRead)'
    <3>1. CASE ReadFirstFile
      <4>1. UNCHANGED <<rootFile, fiIter>>
        BY <3>1 DEF ReadFirstFile, sequence, file
      <4>2. accessState = "SEQUENTIAL" => \A c : c = LastRead => ContextFits(c)'
        BY <1>1, <1>2, <2>1, <4>1, FitsStaying
      <4> QED BY <1>3, <2>1, <4>1, <4>2 DEF LastRead
    <3>2. CASE ReadNextFile
      <4>1. fiIter' = 1 \/ rootFile' = 0
        BY <3>2 DEF ReadNextFile, OpenNext
      <4> QED BY <1>4, <2>1, <4>1
    <3> QED BY <1>7, <3>1, <3>2 DEF ReadFile
  <2> QED BY <1>1, <1>2, <2>1, <2>2, <2>3 DEF SubRunInv
<1>8. CASE ReadRunSubRun
  <2>1. /\ item \in {"Run", "SubRun"} /\ item' = "Idle" /\ UNCHANGED <<rootFile, wantedEventID, processing>>
        /\ accessState' = AfterRunOrSubRun /\ ReadRunOrSubRun
        /\ context' = [file |-> rootFile, id |-> entry]
    BY <1>8 DEF ReadRunSubRun, ReadRunOrSubRun, sequence
  <2>2. processing = FALSE /\ rootFile # 0
    BY <1>1, <1>2, <2>1 DEF DialogueInv, TypeOK
  <2>3. accessState = "SEQUENTIAL" => ContextFits(LastRead)'
    <3>1. SUFFICES ASSUME accessState = "SEQUENTIAL" PROVE ContextFits(LastRead)'
      OBVIOUS
    <3>2. /\ opts.first.run <= entry.run
          /\ item = "SubRun" => ~ Before(SubRunOf(entry), SubRunOf(opts.first))
      BY <1>2, <2>1, <2>2, <3>1 DEF ContextFits
    <3>3. FitsAt(fiIter', context')
      BY <1>1, <2>1, <3>2, FitsAfterRead
    <3>4. LastRead' = context'
      BY <2>1 DEF LastRead
    <3>5. \A c : c = LastRead' => ContextFits(c)'
      BY <1>1, <2>1, <2>2, <3>3, <3>4, FitsMoved
    <3> QED BY <1>3, <3>5
  <2>4. accessState' = "SEQUENTIAL" => accessState = "SEQUENTIAL"
    BY <2>1 DEF AfterRunOrSubRun
  <2>5. accessState # "SEQUENTIAL" /\ accessState' = "SEEKING_EVENT" => entry = SubRunOf(wantedEventID)
    BY <1>2, <2>1 DEF AfterRunOrSubRun, WantedInv
  <2>6. accessState' # "SEQUENTIAL" => accessState # "SEQUENTIAL"
    BY <2>1 DEF AfterRunOrSubRun
  <2> QED BY <1>1, <1>2, <2>1, <2>2, <2>3, <2>4, <2>5, <2>6 DEF SubRunInv
<1>9. CASE ReadThisEvent
  <2>1. /\ item = "Event" /\ item' = "Idle" /\ UNCHANGED <<rootFile, context>> /\ fiIter' = fiIter + 1
        /\ accessState' = "SEQUENTIAL" /\ lastReadEventID' = entry
    BY <1>9 DEF ReadThisEvent, ReadEvent, sequence
  <2>2. rootFile # 0 /\ type = "Event" /\ TypeAt(index, fiIter) = "Event"
    BY <1>1, <2>1 DEF TypeOK, type
  <2>3. FitsAt(fiIter, LastRead)
    <3>1. CASE accessState = "SEQUENTIAL"
      BY <1>2, <2>2, <3>1 DEF ContextFits
    <3>2. CASE accessState # "SEQUENTIAL"
      <4>1. entry = wantedEventID /\ context.id = SubRunOf(entry) /\ ~ Before(entry, opts.first)
        BY <1>2, <2>1, <3>2 DEF WantedInv
      <4>2. entry \in ID /\ opts.first \in ID /\ entry = index[fiIter]
        BY <1>1, <2>2, CursorType, ConfigType DEF Option, entry
      <4>3. opts.first.run <= entry.run /\ ~ Before(SubRunOf(entry), SubRunOf(opts.first))
        BY <4>1, <4>2 DEF Before, SubRunOf, SubRunEntry, ID
      <4>4. LastRead.file = rootFile /\ LastRead.id = SubRunOf(entry) /\ LastRead.id.run = entry.run
        BY <4>1 DEF LastRead, SubRunOf, SubRunEntry
      <4> QED BY <4>2, <4>3, <4>4 DEF FitsAt
    <3> QED BY <3>1, <3>2
  <2>4. context.id = SubRunOf(entry)
    BY <2>2, <2>3 DEF FitsAt, LastRead, entry
  <2>5. FitsAt(fiIter + 1, LastRead)
    BY <1>1, <2>2, <2>3, FitsNext
  <2>6. \A c : c = LastRead => ContextFits(c)'
    BY <1>1, <2>1, <2>2, <2>5, FitsMoved
  <2>7. ContextFits(LastRead)'
    BY <1>3, <2>1, <2>6 DEF LastRead
  <2> QED BY <2>1, <2>4, <2>7 DEF SubRunInv
<1>10. CASE ReadFails
  <2>1. /\ item = "Event" /\ item' = "Failed" /\ UNCHANGED <<rootFile, context, fiIter, processing>>
        /\ UNCHANGED <<accessState, wantedEventID>>
    BY <1>10 DEF ReadFails, ReadEventThrows, MoveTo, sequence, access
  <2>2. processing = FALSE
    BY <1>2, <2>1 DEF DialogueInv
  <2>3. accessState = "SEQUENTIAL" => \A c : c = LastRead => ContextFits(c)'
    BY <1>1, <1>2, <2>1, FitsStaying
  <2>4. accessState = "SEQUENTIAL" => ContextFits(LastRead)'
    BY <1>3, <2>1, <2>3 DEF LastRead
  <2> QED BY <1>1, <1>2, <2>1, <2>2, <2>4 DEF SubRunInv
<1>11. CASE Stop
  <2>1. /\ item = "Stop" /\ rootFile' = 0 /\ UNCHANGED <<accessState, processing, context, wantedEventID>>
    BY <1>11 DEF Stop, StopJob, access
  <2>2. processing = FALSE
    BY <1>2, <2>1 DEF DialogueInv
  <2> QED BY <1>1, <1>2, <2>1, <2>2 DEF SubRunInv, ContextFits
<1> QED BY <1>5, <1>6, <1>7, <1>8, <1>9, <1>10, <1>11 DEF Calls

LEMMA SubRunInvStep == AccessInv /\ SubRunInv /\ [AccessNext]_allVars => SubRunInv'
<1> SUFFICES ASSUME AccessInv, SubRunInv, [AccessNext]_allVars PROVE SubRunInv'
  OBVIOUS
<1>1. CASE UNCHANGED allVars
  <2>1. /\ UNCHANGED <<catalog, opts, rootFile, fiIter, context, item>>
        /\ UNCHANGED <<accessState, lastReadEventID, wantedEventID, processing, astray>>
    BY <1>1 DEF allVars, vars, config, sequence, file, loop, access, seeking
  <2>2. ContextFits(LastRead) => \A c : c = LastRead => ContextFits(c)'
    BY <2>1, FitsStaying
  <2>3. ContextFits(LastRead) => ContextFits(LastRead)'
    BY <2>1, <2>2 DEF LastRead, ContextFits
  <2> QED BY <2>1, <2>3 DEF SubRunInv
<1> QED BY <1>1, SubRunInvSeeks, SubRunInvSkips, SubRunInvFinds, SubRunInvCalls DEF AccessNext

(* However a job seeks, an event is given to the principal of its own      *)
(* subrun, as long as each seek finds an event that is wanted.             *)
THEOREM EventsReadInSubRunOfSameID == AccessSafeSpec => EventsInSubRunOfSameID
<1>1. AccessInit => AccessInv /\ SubRunInv
  <2>1. AccessInit => rootFile = 0 /\ accessState = "SEQUENTIAL" /\ processing = FALSE
    BY DEF AccessInit, Init
  <2> QED BY <2>1, AccessStarts DEF SubRunInv, ContextFits
<1>2. AccessInv /\ SubRunInv /\ [AccessNext]_allVars => AccessInv' /\ SubRunInv'
  BY AccessStep, SubRunInvStep
<1>3. AccessInv /\ SubRunInv /\ [AccessNext]_allVars =>
        [delivered' # delivered /\ ~ astray => context.id = SubRunOf(entry)]_allVars
  <2> SUFFICES ASSUME AccessInv, SubRunInv, [AccessNext]_allVars, delivered' # delivered, ~ astray
               PROVE  context.id = SubRunOf(entry)
    OBVIOUS
  <2>1. item = "Event"
    BY OnlyReadsDeliver DEF ReadThisEvent, ReadEvent
  <2>2. CASE accessState = "SEQUENTIAL"
    <3>1. rootFile # 0 /\ type = "Event" /\ TypeAt(index, fiIter) = "Event"
      BY <2>1 DEF AccessInv, SourceTypeOK, type
    <3>2. FitsAt(fiIter, LastRead)
      BY <2>1, <2>2, <3>1 DEF SubRunInv, ContextFits
    <3> QED BY <3>1, <3>2 DEF FitsAt, LastRead, entry
  <2>3. CASE accessState # "SEQUENTIAL"
    BY <2>1, <2>3 DEF AccessInv, WantedInv, SubRunInv
  <2> QED BY <2>2, <2>3
<1> QED BY <1>1, <1>2, <1>3, PTL DEF AccessSafeSpec, EventsInSubRunOfSameID

-----------------------------------------------------------------------------
(***************************************************************************)
(* The events that skip() passes                                           *)
(***************************************************************************)
LEMMA EventPlacesFinite == ASSUME SourceTypeOK PROVE IsFiniteSet(EventPlaces)
<1> DEFINE Places(k) == {[file |-> k, pos |-> p] : p \in Events(IndexIn(k))}
           All == {Places(k) : k \in DOMAIN catalog}
           f == [k \in DOMAIN catalog |-> Places(k)]
<1>1. DOMAIN catalog = 1..Len(catalog) /\ Len(catalog) \in Nat
  BY FilesOfJob
<1>2. IsFiniteSet(All)
  <2>1. f \in Surjection(DOMAIN catalog, All)
    BY DEF Surjection
  <2>2. IsFiniteSet(DOMAIN catalog)
    BY <1>1, FS_Interval
  <2> HIDE DEF f, All
  <2> QED BY <2>1, <2>2, FS_Surjection
<1>3. ASSUME NEW k \in DOMAIN catalog PROVE IsFiniteSet(Places(k))
  <2> DEFINE g == [p \in Events(IndexIn(k)) |-> [file |-> k, pos |-> p]]
  <2>1. g \in Surjection(Events(IndexIn(k)), Places(k))
    BY DEF Surjection
  <2>2. IndexIn(k) \in Seq(ID)
    BY FilesOfJob
  <2>3. Events(IndexIn(k)) \in SUBSET (1..Len(IndexIn(k))) /\ Len(IndexIn(k)) \in Nat
    BY <2>2 DEF Events
  <2>4. IsFiniteSet(Events(IndexIn(k)))
    BY <2>3, PositionsFinite
  <2> HIDE DEF g, Places
  <2> QED BY <2>1, <2>4, FS_Surjection
<1>4. EventPlaces = UNION All
  BY DEF EventPlaces
<1>5. \A T \in All : IsFiniteSet(T)
  BY <1>3
<1> HIDE DEF All
<1> QED BY <1>2, <1>4, <1>5, FS_UNION

LEMMA EventsBeforeType ==
  ASSUME SourceTypeOK, NEW at
  PROVE  IsFiniteSet({place \in EventPlaces : Precedes(place, at)}) /\ EventsBefore(at) \in Nat
<1> DEFINE S == {place \in EventPlaces : Precedes(place, at)}
<1>1. S \in SUBSET EventPlaces
  OBVIOUS
<1> HIDE DEF S
<1>2. IsFiniteSet(S) /\ Cardinality(S) \in Nat
  BY <1>1, EventPlacesFinite, FS_Subset, FS_CardinalityType
<1> QED BY <1>2 DEF S, EventsBefore

(* Within a file, ...                                                      *)
LEMMA EventsBetween ==
  ASSUME SourceTypeOK, NEW k \in DOMAIN catalog, NEW p \in Int, NEW q \in Int, p <= q
  PROVE  EventsBefore([file |-> k, pos |-> q])
           = EventsBefore([file |-> k, pos |-> p])
             + Cardinality({r \in Events(IndexIn(k)) : p <= r /\ r < q})
<1> DEFINE Upto(m) == {place \in EventPlaces : Precedes(place, [file |-> k, pos |-> m])}
           R == {r \in Events(IndexIn(k)) : p <= r /\ r < q}
           B == {[file |-> k, pos |-> r] : r \in R}
<1>1. k \in Nat /\ Events(IndexIn(k)) \in SUBSET (1..Len(IndexIn(k))) /\ Len(IndexIn(k)) \in Nat
  BY FilesOfJob DEF Events
<1>2. IsFiniteSet(B) /\ Cardinality(B) = Cardinality(R)
  <2> DEFINE g == [r \in R |-> [file |-> k, pos |-> r]]
  <2>1. g \in Surjection(R, B)
    BY DEF Surjection
  <2>2. g \in Injection(R, B)
    BY DEF Injection, IsInjective
  <2>3. R \in SUBSET (1..Len(IndexIn(k)))
    BY <1>1
  <2>4. IsFiniteSet(R)
    <3> HIDE DEF R
    <3> QED BY <1>1, <2>3, PositionsFinite
  <2> HIDE DEF g, R, B
  <2> QED BY <2>1, <2>2, <2>4, FS_Surjection
<1>3. \A place \in EventPlaces :
        /\ place.file \in Nat /\ place.pos \in Nat
        /\ place.file = k => place.pos \in Events(IndexIn(k))
        /\ place = [file |-> place.file, pos |-> place.pos]
  <2>1. ASSUME NEW j \in DOMAIN catalog, NEW r \in Events(IndexIn(j)) PROVE j \in Nat /\ r \in Nat
    BY FilesOfJob DEF Events
  <2> QED BY <2>1 DEF EventPlaces
<1>4. B \subseteq EventPlaces
  BY DEF EventPlaces
<1>5. \A place \in EventPlaces :
        /\ place \in Upto(q) <=> place \in Upto(p) \/ place \in B
        /\ ~ (place \in Upto(p) /\ place \in B)
  <2> SUFFICES ASSUME NEW place \in EventPlaces
               PROVE  /\ place \in Upto(q) <=> place \in Upto(p) \/ place \in B
                      /\ ~ (place \in Upto(p) /\ place \in B)
    OBVIOUS
  <2>1. place.file \in Nat /\ place.pos \in Nat
    BY <1>3
  <2>2. \A m : place \in Upto(m) <=> place.file < k \/ (place.file = k /\ place.pos < m)
    BY DEF Precedes
  <2>3. place \in B <=> place.file = k /\ p <= place.pos /\ place.pos < q
    BY <1>3
  <2> HIDE DEF Upto, B
  <2> QED BY <1>1, <2>1, <2>2, <2>3
<1>6. Upto(q) = Upto(p) \cup B /\ Upto(p) \cap B = {}
  <2>1. Upto(q) \subseteq EventPlaces /\ Upto(p) \subseteq EventPlaces
    OBVIOUS
  <2> HIDE DEF Upto, B
  <2> QED BY <1>4, <1>5, <2>1
<1>7. IsFiniteSet(Upto(p)) /\ Cardinality(Upto(p)) \in Nat
  BY EventsBeforeType DEF EventsBefore
<1>8. Cardinality(B) \in Nat
  BY <1>2, FS_CardinalityType
<1>9. Cardinality(Upto(q)) = Cardinality(Upto(p)) + Cardinality(B)
  <2> HIDE DEF Upto, B
  <2>1. Cardinality(Upto(p) \cup B) = Cardinality(Upto(p)) + Cardinality(B) - Cardinality(Upto(p) \cap B)
    BY <1>2, <1>7, FS_Union
  <2>2. Cardinality(Upto(p) \cap B) = 0
    BY <1>6, FS_EmptySet
  <2> QED BY <1>6, <1>7, <1>8, <2>1, <2>2
<1> HIDE DEF B, R
<1> QED BY <1>2, <1>9 DEF EventsBefore, R

(* ... and from the end of a file to the front of the next.                *)
LEMMA EventsToNextFile ==
  ASSUME SourceTypeOK, NEW k \in DOMAIN catalog
  PROVE  EventsBefore([file |-> k + 1, pos |-> 1])
           = EventsBefore([file |-> k, pos |-> End(IndexIn(k))])
<1>1. k \in Nat
  BY FilesOfJob
<1>2. \A place \in EventPlaces :
        /\ place.file \in Nat /\ place.pos \in Nat /\ 1 <= place.pos
        /\ place.file = k => place.pos < End(IndexIn(k))
  <2>1. ASSUME NEW j \in DOMAIN catalog, NEW r \in Events(IndexIn(j))
        PROVE  j \in Nat /\ r \in Nat /\ 1 <= r /\ r < End(IndexIn(j))
    BY FilesOfJob DEF Events, End
  <2> QED BY <2>1 DEF EventPlaces
<1>3. \A place \in EventPlaces :
        Precedes(place, [file |-> k + 1, pos |-> 1])
          <=> Precedes(place, [file |-> k, pos |-> End(IndexIn(k))])
  <2> SUFFICES ASSUME NEW place \in EventPlaces
               PROVE  Precedes(place, [file |-> k + 1, pos |-> 1])
                        <=> Precedes(place, [file |-> k, pos |-> End(IndexIn(k))])
    OBVIOUS
  <2>1. /\ place.file \in Nat /\ place.pos \in Nat /\ ~ (place.pos < 1)
        /\ place.file = k => place.pos < End(IndexIn(k))
    BY <1>2
  <2>2. place.file < k + 1 <=> place.file < k \/ place.file = k
    BY <1>1, <2>1
  <2> QED BY <2>1, <2>2 DEF Precedes
<1> QED BY <1>3 DEF EventsBefore

(* Going on to the next event of the file passes none.                     *)
LEMMA NoEventPassed ==
  ASSUME SourceTypeOK, rootFile # 0
  PROVE  EventsBefore([file |-> rootFile, pos |-> NextEvent(index, fiIter)]) = EventsBefore(here)
<1> DEFINE p == NextEvent(index, fiIter)
           R == {r \in Events(IndexIn(rootFile)) : fiIter <= r /\ r < p}
<1>1. rootFile \in DOMAIN catalog /\ index = IndexIn(rootFile) /\ index \in Seq(ID) /\ fiIter \in 1..End(index)
  BY OpenFile
<1>2. p \in fiIter..End(index) /\ (\A q \in Events(index) : fiIter <= q => p <= q)
  BY <1>1, NextEventAhead
<1>3. p \in Int /\ fiIter \in Int /\ fiIter <= p
  BY <1>1, <1>2 DEF End
<1>4. R = {}
  <2>1. \A q \in Events(index) : q \in Int
    BY <1>1 DEF Events
  <2> HIDE DEF p
  <2> QED BY <1>1, <1>2, <1>3, <2>1
<1>5. EventsBefore([file |-> rootFile, pos |-> p]) = EventsBefore([file |-> rootFile, pos |-> fiIter]) + Cardinality(R)
  <2> HIDE DEF p
  <2> QED BY <1>1, <1>3, EventsBetween
<1>6. EventsBefore(here) \in Nat /\ Cardinality(R) = 0
  BY <1>4, EventsBeforeType, FS_EmptySet
<1> HIDE DEF R
<1> QED BY <1>5, <1>6 DEF here

(* While skip() goes on, the events passed and those left to pass make the *)
(* number asked for.                                                       *)
CountInv ==
  /\ SkipCountsEvents
  /\ item = "Seek" =>
       /\ seek = [by |-> seek.by, from |-> seek.from, offset |-> seek.offset, id |-> seek.id,
                  exact |-> seek.exact, found |-> seek.found]
       /\ seek.by \in {"offset", "next"} /\ seek.found = NoPos /\ seek.offset \in Int
       /\ EventsBefore(here) + offset = EventsBefore(seek.from) + seek.offset

LEMMA PlacesKept == ASSUME UNCHANGED <<catalog, opts>> PROVE EventPlaces' = EventPlaces
BY DEF EventPlaces, IndexIn, IndexOf

LEMMA SkipCountsKept ==
  ASSUME SkipCountsEvents, UNCHANGED <<catalog, opts, seek>>
  PROVE  SkipCountsEvents'
BY PlacesKept DEF SkipCountsEvents, EventsBefore

LEMMA SkipCounted ==
  ASSUME CountInv, UNCHANGED <<catalog, opts, seek>>, item = "Seek",
         EventsBefore([file |-> rootFile', pos |-> fiIter']) + offset' = EventsBefore(here) + offset
  PROVE  CountInv'
<1>1. EventsBefore(here)' + offset' = EventsBefore(here) + offset
  BY PlacesKept DEF EventsBefore, here
<1>2. EventsBefore(seek.from)' = EventsBefore(seek.from)
  BY PlacesKept DEF EventsBefore
<1>3. SkipCountsEvents'
  BY SkipCountsKept DEF CountInv
<1> QED BY <1>1, <1>2, <1>3 DEF CountInv

LEMMA SkipWithinFileCounts == AccessInv /\ CountInv /\ SkipWithinFile => CountInv'
<1> SUFFICES ASSUME AccessInv, CountInv, SkipWithinFile PROVE CountInv'
  OBVIOUS
<1>1. /\ item = "Seek" /\ UNCHANGED <<catalog, opts, seek>> /\ rootFile' = rootFile /\ offset' = 0
      /\ SourceTypeOK /\ rootFile # 0 /\ offset \in Int
  BY DEF SkipWithinFile, Skip, MoveInFile, config, AccessInv, DialogueInv, RequestOK
<1>2. /\ rootFile \in DOMAIN catalog /\ index = IndexIn(rootFile) /\ index \in Seq(ID)
      /\ fiIter \in 1..End(index) /\ End(index) \in Nat
  BY <1>1, OpenFile DEF End
<1>3. \A q \in Events(index) : q \in Nat
  BY <1>2 DEF Events
<1>4. /\ Cardinality(EventsAhead) \in Nat /\ Cardinality(EventsBehind) \in Nat
      /\ EventsBefore(here) \in Nat /\ fiIter \in Int
  <2>1. Cardinality(EventsAhead) \in Nat /\ Cardinality(EventsBehind) \in Nat
    BY <1>1, EventsFinite
  <2>2. EventsBefore(here) \in Nat
    BY <1>1, EventsBeforeType
  <2> QED BY <1>2, <2>1, <2>2
<1>5. CASE offset > 0 /\ offset <= Cardinality(EventsAhead) /\ MoveInFile(NextEvent(index, NthAhead(offset) + 1))
  <2> DEFINE n == NthAhead(offset)
             p == NextEvent(index, n + 1)
  <2>1. n \in EventsAhead /\ Cardinality({q \in EventsAhead : q <= n}) = offset
    <3>1. offset \in Nat /\ offset # 0
      BY <1>1, <1>5
    <3> QED BY <1>1, <1>5, <3>1, NthEvents
  <2>2. n \in Events(index) /\ n \in Nat /\ fiIter <= n
    BY <1>3, <2>1 DEF EventsAhead
  <2>3. fiIter' = p
    BY <1>5 DEF MoveInFile
  <2> HIDE DEF n
  <2>4. /\ p \in Nat /\ n < p
        /\ \A q \in Events(index) : n + 1 <= q => p <= q
    <3>1. /\ p \in 1..End(index)
          /\ p = End(index) \/ (p \in Events(index) /\ p >= n + 1)
          /\ \A q \in Events(index) : q >= n + 1 => p <= q
      BY <1>2, NextEventAhead
    <3>2. n < End(index)
      BY <1>2, <2>2 DEF Events, End
    <3> HIDE DEF p
    <3> QED BY <1>2, <1>3, <2>2, <3>1, <3>2
  <2> HIDE DEF p
  <2>5. {r \in Events(index) : fiIter <= r /\ r < p} = {q \in EventsAhead : q <= n}
    <3>1. ASSUME NEW r \in Events(index) PROVE r < p <=> r <= n
      BY <1>3, <2>2, <2>4
    <3>2. ASSUME NEW r \in Events(index) PROVE r >= fiIter <=> fiIter <= r
      BY <1>3, <1>4
    <3> QED BY <3>1, <3>2 DEF EventsAhead
  <2>6. EventsBefore([file |-> rootFile, pos |-> p])
          = EventsBefore([file |-> rootFile, pos |-> fiIter]) + offset
    <3>1. p \in Int /\ fiIter <= p
      BY <1>4, <2>2, <2>4
    <3> QED BY <1>1, <1>2, <1>4, <2>1, <2>5, <3>1, EventsBetween
  <2>7. EventsBefore([file |-> rootFile', pos |-> fiIter']) + offset' = EventsBefore(here) + offset
    BY <1>1, <1>4, <2>3, <2>6 DEF here
  <2> QED BY <1>1, <2>7, SkipCounted
<1>6. CASE offset < 0 /\ - offset <= Cardinality(EventsBehind) /\ MoveInFile(NthBehind(- offset))
  <2> DEFINE p == NthBehind(- offset)
  <2>1. p \in EventsBehind /\ Cardinality({q \in EventsBehind : q >= p}) = - offset
    <3>1. - offset \in Nat /\ - offset # 0
      BY <1>1, <1>6
    <3> QED BY <1>1, <1>6, <3>1, NthEvents
  <2>2. p \in Nat /\ p < fiIter
    BY <1>3, <2>1 DEF EventsBehind
  <2>3. fiIter' = p
    BY <1>6 DEF MoveInFile
  <2> HIDE DEF p
  <2>4. {r \in Events(index) : p <= r /\ r < fiIter} = {q \in EventsBehind : q >= p}
    <3>1. ASSUME NEW r \in Events(index) PROVE r >= p <=> p <= r
      BY <1>3, <2>2
    <3> QED BY <3>1 DEF EventsBehind
  <2>5. EventsBefore([file |-> rootFile, pos |-> fiIter])
          = EventsBefore([file |-> rootFile, pos |-> p]) + (- offset)
    <3>1. p \in Int /\ p <= fiIter
      BY <1>4, <2>2
    <3> QED BY <1>1, <1>2, <1>4, <2>1, <2>4, <3>1, EventsBetween
  <2>6. EventsBefore([file |-> rootFile, pos |-> p]) \in Nat
    BY <1>1, EventsBeforeType
  <2>7. EventsBefore([file |-> rootFile', pos |-> fiIter']) + offset' = EventsBefore(here) + offset
    BY <1>1, <1>4, <2>3, <2>5, <2>6 DEF here
  <2> QED BY <1>1, <2>7, SkipCounted
<1> QED BY <1>5, <1>6 DEF SkipWithinFile

LEMMA SkipToNextFileCounts == AccessInv /\ CountInv /\ SkipToNextFile /\ item' = "Seek" => CountInv'
<1> SUFFICES ASSUME AccessInv, CountInv, SkipToNextFile, item' = "Seek" PROVE CountInv'
  OBVIOUS
<1>1. /\ item = "Seek" /\ UNCHANGED <<catalog, opts, seek>> /\ offset' = offset - Cardinality(EventsAhead)
      /\ SourceTypeOK /\ rootFile # 0 /\ offset \in Int
  BY DEF SkipToNextFile, Skip, config, AccessInv, DialogueInv, RequestOK
<1>2. /\ rootFile \in DOMAIN catalog /\ rootFile = current /\ index = IndexIn(rootFile) /\ index \in Seq(ID)
      /\ fiIter \in 1..End(index) /\ End(index) \in Nat
  BY <1>1, OpenFile DEF End
<1>3. rootFile' = rootFile + 1 /\ fiIter' = 1
  BY <1>2 DEF SkipToNextFile, InitFile, InitFiles
<1>4. {r \in Events(index) : fiIter <= r /\ r < End(index)} = EventsAhead
  <2>1. ASSUME NEW r \in Events(index) PROVE r < End(index) /\ (r >= fiIter <=> fiIter <= r)
    BY <1>2 DEF Events, End
  <2> QED BY <2>1 DEF EventsAhead
<1>5. EventsBefore([file |-> rootFile, pos |-> End(index)])
        = EventsBefore([file |-> rootFile, pos |-> fiIter]) + Cardinality(EventsAhead)
  <2>1. fiIter \in Int /\ End(index) \in Int /\ fiIter <= End(index)
    BY <1>2
  <2> QED BY <1>1, <1>2, <1>4, <2>1, EventsBetween
<1>6. EventsBefore([file |-> rootFile + 1, pos |-> 1]) = EventsBefore([file |-> rootFile, pos |-> End(index)])
  BY <1>1, <1>2, EventsToNextFile
<1>7. EventsBefore(here) \in Nat /\ Cardinality(EventsAhead) \in Nat
  BY <1>1, EventsBeforeType, EventsFinite
<1>8. EventsBefore([file |-> rootFile', pos |-> fiIter']) + offset' = EventsBefore(here) + offset
  BY <1>1, <1>3, <1>5, <1>6, <1>7 DEF here
<1> QED BY <1>1, <1>8, SkipCounted

LEMMA SkipToPreviousFileCounts ==
  AccessInv /\ CountInv /\ SkipToPreviousFile /\ item' = "Seek" => CountInv'
<1> SUFFICES ASSUME AccessInv, CountInv, SkipToPreviousFile, item' = "Seek" PROVE CountInv'
  OBVIOUS
<1>1. /\ item = "Seek" /\ UNCHANGED <<catalog, opts, seek>> /\ offset' = offset + Cardinality(EventsBehind)
      /\ SourceTypeOK /\ rootFile # 0 /\ offset \in Int
  BY DEF SkipToPreviousFile, Skip, config, AccessInv, DialogueInv, RequestOK
<1>2. /\ rootFile \in DOMAIN catalog /\ rootFile = current /\ index = IndexIn(rootFile) /\ index \in Seq(ID)
      /\ fiIter \in 1..End(index) /\ End(index) \in Nat
  BY <1>1, OpenFile DEF End
<1> DEFINE k == rootFile - 1
<1>3. rootFile' = k /\ fiIter' = End(IndexIn(k)) /\ rootFile > 1
  BY <1>2 DEF SkipToPreviousFile, InitFile, InitFiles
<1>4. k \in DOMAIN catalog /\ rootFile = k + 1
  <2>1. DOMAIN catalog = 1..Len(catalog) /\ Len(catalog) \in Nat
    BY <1>1, FilesOfJob
  <2>2. rootFile \in 1..Len(catalog) /\ rootFile > 1
    BY <1>2, <1>3, <2>1
  <2> QED BY <2>1, <2>2
<1>5. {r \in Events(index) : 1 <= r /\ r < fiIter} = EventsBehind
  <2>1. ASSUME NEW r \in Events(index) PROVE 1 <= r
    BY <1>2 DEF Events
  <2> QED BY <2>1 DEF EventsBehind
<1>6. EventsBefore([file |-> rootFile, pos |-> fiIter])
        = EventsBefore([file |-> rootFile, pos |-> 1]) + Cardinality(EventsBehind)
  <2>1. fiIter \in Int /\ 1 \in Int /\ 1 <= fiIter
    BY <1>2
  <2> QED BY <1>1, <1>2, <1>5, <2>1, EventsBetween
<1>7. EventsBefore([file |-> rootFile, pos |-> 1]) = EventsBefore([file |-> k, pos |-> End(IndexIn(k))])
  <2> HIDE DEF k
  <2> QED BY <1>1, <1>4, EventsToNextFile
<1>8. EventsBefore([file |-> rootFile, pos |-> 1]) \in Nat /\ Cardinality(EventsBehind) \in Nat
  BY <1>1, EventsBeforeType, EventsFinite
<1> HIDE DEF k
<1>9. EventsBefore([file |-> rootFile', pos |-> fiIter']) + offset' = EventsBefore(here) + offset
  BY <1>1, <1>3, <1>6, <1>7, <1>8 DEF here
<1> QED BY <1>1, <1>9, SkipCounted

LEMMA SkipEndsCounts == AccessInv /\ CountInv /\ (SkipDuplicate \/ EndSkip) => CountInv'
<1> SUFFICES ASSUME AccessInv, CountInv, SkipDuplicate \/ EndSkip PROVE CountInv'
  OBVIOUS
<1> DEFINE p == NextEvent(index, fiIter)
<1>1. /\ item = "Seek" /\ UNCHANGED <<catalog, opts>> /\ SourceTypeOK /\ rootFile # 0 /\ offset = 0
      /\ MoveInFile(p)
  BY DEF SkipDuplicate, EndSkip, config, AccessInv, DialogueInv
<1>2. EventsBefore([file |-> rootFile, pos |-> p]) = EventsBefore(here)
  BY <1>1, NoEventPassed
<1>3. /\ seek = [by |-> seek.by, from |-> seek.from, offset |-> seek.offset, id |-> seek.id,
                 exact |-> seek.exact, found |-> seek.found]
      /\ seek.by \in {"offset", "next"} /\ seek.found = NoPos /\ seek.offset \in Int
      /\ EventsBefore(here) + offset = EventsBefore(seek.from) + seek.offset
  BY <1>1 DEF CountInv
<1>4. EventsBefore(here) \in Nat /\ EventsBefore(seek.from) \in Nat
  BY <1>1, EventsBeforeType
<1>5. rootFile' = rootFile /\ fiIter' = p
  BY <1>1 DEF MoveInFile
<1> HIDE DEF p
<1>6. EventsBefore(here)' = EventsBefore(here)
  BY <1>1, <1>2, <1>5, PlacesKept DEF EventsBefore, here
<1>7. CASE SkipDuplicate
  <2>1. seek' = [seek EXCEPT !.by = "next", !.offset = 1] /\ offset' = 1 /\ seek.offset = 0
    BY <1>7 DEF SkipDuplicate, AtDuplicate
  <2>2. /\ seek' = [by |-> seek'.by, from |-> seek'.from, offset |-> seek'.offset, id |-> seek'.id,
                    exact |-> seek'.exact, found |-> seek'.found]
        /\ seek'.by = "next" /\ seek'.offset = 1 /\ seek'.found = NoPos /\ seek'.from = seek.from
    BY <1>3, <2>1
  <2>3. EventsBefore(seek.from)' = EventsBefore(seek.from)
    BY <1>1, <2>2, PlacesKept DEF EventsBefore
  <2>4. SkipCountsEvents'
    BY <2>2 DEF SkipCountsEvents
  <2>5. EventsBefore(here)' + offset' = EventsBefore(seek.from)' + seek'.offset
    BY <1>1, <1>3, <1>4, <1>6, <2>1, <2>2, <2>3
  <2> QED BY <2>2, <2>4, <2>5 DEF CountInv, NoPos
<1>8. CASE EndSkip
  <2>1. item' # "Seek"
    BY <1>8 DEF EndSkip
  <2>2. CASE seek' = seek
    BY <1>1, <2>1, <2>2, SkipCountsKept DEF CountInv
  <2>3. CASE seek' # seek
    <3>1. seek' = [seek EXCEPT !.found = [file |-> rootFile, pos |-> p]]
      BY <1>8, <2>3 DEF EndSkip, p
    <3>2. /\ seek'.found = [file |-> rootFile, pos |-> p] /\ seek'.from = seek.from
          /\ seek'.offset = seek.offset
      BY <1>3, <3>1
    <3>3. EventsBefore(seek.found)' = EventsBefore([file |-> rootFile, pos |-> p])
      BY <1>1, <3>2, PlacesKept DEF EventsBefore
    <3>4. EventsBefore(seek.from)' = EventsBefore(seek.from)
      BY <1>1, <3>2, PlacesKept DEF EventsBefore
    <3>5. EventsBefore(seek.found)' = EventsBefore(seek.from)' + seek'.offset
      BY <1>1, <1>2, <1>3, <1>4, <3>2, <3>3, <3>4
    <3> QED BY <2>1, <3>5 DEF CountInv, SkipCountsEvents
  <2> QED BY <2>2, <2>3
<1> QED BY <1>7, <1>8

LEMMA CountStep == AccessInv /\ CountInv /\ [AccessNext]_allVars => CountInv'
<1> SUFFICES ASSUME AccessInv, CountInv, [AccessNext]_allVars PROVE CountInv'
  OBVIOUS
<1>1. SkipCountsEvents
  BY DEF CountInv
<1>2. CASE UNCHANGED allVars
  <2>1. UNCHANGED <<catalog, opts, rootFile, fiIter, item, offset, seek>>
    BY <1>2 DEF allVars, vars, config, sequence, file, loop, seeking
  <2>2. item = "Seek" => CountInv'
    <3>1. EventsBefore([file |-> rootFile', pos |-> fiIter']) + offset' = EventsBefore(here) + offset
      BY <2>1 DEF here
    <3> QED BY <2>1, <3>1, SkipCounted
  <2> QED BY <1>1, <2>1, <2>2, SkipCountsKept DEF CountInv
<1>3. CASE SeekToEventOffset
  <2>1. PICK n \in Offsets : offset' = n /\ seek' = [NoSeek EXCEPT !.by = "offset", !.from = here, !.offset = n]
    BY <1>3 DEF SeekToEventOffset
  <2>2. UNCHANGED <<catalog, opts, rootFile, fiIter>> /\ n \in Int
    BY <1>3, SeeksAssumption DEF SeekToEventOffset, config, sequence, file
  <2>3. /\ seek' = [by |-> seek'.by, from |-> seek'.from, offset |-> seek'.offset, id |-> seek'.id,
                    exact |-> seek'.exact, found |-> seek'.found]
        /\ seek'.by = "offset" /\ seek'.found = NoPos /\ seek'.offset = n /\ seek'.from = here
    BY <2>1 DEF NoSeek
  <2>4. EventsBefore(here)' = EventsBefore(seek.from)'
    BY <2>2, <2>3 DEF EventsBefore, here
  <2>5. SkipCountsEvents'
    BY <2>3 DEF SkipCountsEvents, NoPos
  <2>6. EventsBefore(here)' + offset' = EventsBefore(seek.from)' + seek'.offset
    BY <2>1, <2>3, <2>4
  <2> QED BY <2>2, <2>3, <2>5, <2>6 DEF CountInv, NoPos
<1>4. CASE SeekToEventID
  <2>1. seek'.by = "id" /\ item' # "Seek"
    <3>1. PICK id, exact :
            \/ FoundInCurrentFile(id, exact) \/ NotSearchable(id, exact)
            \/ FoundInLaterFile(id, exact) \/ SearchThrows(id, exact) \/ NotFound(id, exact)
      BY <1>4 DEF SeekToEventID
    <3>2. \E found : SeekByID(id, exact, found)
      BY <3>1 DEF FoundInCurrentFile, NotSearchable, FoundInLaterFile, SearchThrows, NotFound
    <3>3. seek'.by = "id"
      BY <3>2 DEF SeekByID, NoSeek
    <3>4. item = "Idle" /\ item' \in {item, "Failed"}
      BY <1>4, <3>1
      DEF SeekToEventID, MaySeek, FoundInCurrentFile, NotSearchable, FoundInLaterFile, SearchThrows, NotFound
    <3> QED BY <3>3, <3>4
  <2> QED BY <2>1 DEF CountInv, SkipCountsEvents
<1>5. CASE SeekInProgress \/ Finds \/ Calls
  <2>1. UNCHANGED <<catalog, opts, seek>> /\ item' # "Seek"
    <3>1. CASE SeekInProgress \/ Finds
      BY <3>1 DEF SeekInProgress, Finds, SeekFile, SeekRun, SeekSubRun, SeekEvent, ReadIt, EntryType, config, seeking
    <3>2. CASE Calls
      <4>1. TypeOK /\ TypeOK' /\ UNCHANGED config
        BY <3>2, CallsTypes DEF AccessInv
      <4>2. seek' = seek
        BY <3>2 DEF Calls, Sequential, OpenFirst, ReadFile, ReadRunSubRun, ReadThisEvent, ReadFails, Stop, seeking
      <4>3. item' \in Items
        BY <4>1 DEF TypeOK
      <4> QED BY <4>1, <4>2, <4>3 DEF config, Items
    <3> QED BY <1>5, <3>1, <3>2
  <2> QED BY <1>1, <2>1, SkipCountsKept DEF CountInv
<1>6. CASE (SkipToNextFile \/ SkipToPreviousFile) /\ item' # "Seek"
  <2>1. UNCHANGED <<catalog, opts, seek>>
    BY <1>6 DEF SkipToNextFile, SkipToPreviousFile, Skip, config
  <2> QED BY <1>1, <1>6, <2>1, SkipCountsKept DEF CountInv
<1> QED BY <1>2, <1>3, <1>4, <1>5, <1>6, SkipWithinFileCounts, SkipToNextFileCounts,
           SkipToPreviousFileCounts, SkipEndsCounts
        DEF AccessNext, Seeks, Skips

(* Between the cursor and the event that a seek by a number of events      *)
(* finds there are as many events as were asked for, across runs, subruns  *)
(* and files, forward and back.                                            *)
THEOREM SkipsCountEvents == AccessSafeSpec => []SkipCountsEvents
<1>1. AccessInit => AccessInv /\ CountInv
  <2>1. AccessInit => seek.found = NoPos /\ item # "Seek"
    BY DEF AccessInit, Init, NoSeek
  <2> QED BY <2>1, AccessStarts DEF CountInv, SkipCountsEvents
<1>2. AccessInv /\ CountInv /\ [AccessNext]_allVars => AccessInv' /\ CountInv'
  BY AccessStep, CountStep
<1>3. CountInv => SkipCountsEvents
  BY DEF CountInv
<1> QED BY <1>1, <1>2, <1>3, PTL DEF AccessSafeSpec
=============================================================================
