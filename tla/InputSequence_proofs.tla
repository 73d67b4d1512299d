------------------------ MODULE InputSequence_proofs ------------------------
(***************************************************************************)
(* What holds of InputSequence for every list of files and every           *)
(* configuration.                                                          *)
(***************************************************************************)
EXTENDS InputSequence, FileIndex_proofs, FiniteSetTheorems

(* The job's files and configuration are files and a configuration.        *)
LEMMA ConfigType ==
  ASSUME TypeOK
  PROVE  /\ catalog \in Seq(File) /\ opts \in Option
         /\ \A k \in DOMAIN catalog : IndexOf(catalog[k]) \in Seq(ID)
<1>1. catalog \in Seq(File) /\ opts \in Option
  BY CatalogsAssumption, OptionsAssumption DEF TypeOK
<1>2. \A k \in DOMAIN catalog : catalog[k] \in File
  BY <1>1
<1> QED BY <1>1, <1>2 DEF IndexOf, File

(* The cursor of an open file is in its index or at its end.               *)
LEMMA CursorType ==
  ASSUME TypeOK, rootFile # 0
  PROVE  /\ rootFile \in DOMAIN catalog /\ index \in Seq(ID)
         /\ fiIter \in 1..End(index)
         /\ type # "End" => /\ fiIter \in DOMAIN index /\ entry \in ID
                            /\ fiIter + 1 \in 1..End(index)
                            /\ EntryType(entry) = type
<1>1. rootFile \in DOMAIN catalog
  BY ConfigType DEF TypeOK
<1>2. index \in Seq(ID) /\ fiIter \in 1..End(index)
  BY <1>1, ConfigType DEF TypeOK, index
<1>3. ASSUME type # "End"
      PROVE  /\ fiIter \in DOMAIN index /\ entry \in ID /\ fiIter + 1 \in 1..End(index)
             /\ EntryType(entry) = type
  BY <1>2, <1>3 DEF type, TypeAt, End, entry
<1> QED BY <1>1, <1>2, <1>3

(* The file that OpenNext tries is a later one of the catalog.             *)
LEMMA NextTriedType ==
  ASSUME TypeOK
  PROVE  NextTried = 0 \/ (NextTried \in (current + 1)..Len(catalog) /\ NextTried \in DOMAIN catalog)
<1> DEFINE tried == {k \in (current + 1)..Len(catalog) :
                      ~ (opts.skipBad /\ catalog[k].kind = "unopenable")}
<1>1. current \in Nat /\ Len(catalog) \in Nat /\ DOMAIN catalog = 1..Len(catalog)
  BY ConfigType DEF TypeOK
<1>2. CASE tried = {}
  BY <1>2 DEF NextTried
<1>3. CASE tried # {}
  <2>1. \E k \in tried : \A j \in tried : k <= j
    <3>1. tried \subseteq Nat
      BY <1>1
    <3> QED BY <3>1, <1>3, SmallestOfSet
  <2>2. NextTried \in tried
    BY <1>3, <2>1 DEF NextTried
  <2> QED BY <1>1, <2>2
<1> QED BY <1>2, <1>3

(* The operations of the duplicate checker give a duplicate checker.       *)
LEMMA CheckerType ==
  ASSUME TypeOK, NEW f \in File
  PROVE  LET Checker == [ids : SUBSET ID, dataType : DataTypes, clean : BOOLEAN] IN
         /\ FreshChecker \in Checker
         /\ \A c \in Checker : CheckerClosed(c) \in Checker /\ CheckerInit(c, f) \in Checker
         /\ entry \in ID => Inserted \in Checker
<1> DEFINE Checker == [ids : SUBSET ID, dataType : DataTypes, clean : BOOLEAN]
<1>1. FreshChecker \in Checker
  BY DEF FreshChecker, DataTypes
<1>2. ASSUME NEW c \in Checker PROVE CheckerClosed(c) \in Checker /\ CheckerInit(c, f) \in Checker
  <2>1. CheckerClosed(c) \in Checker
    BY <1>1 DEF CheckerClosed
  <2>2. EventsUniqueAndOrdered(f.sorted) \in BOOLEAN
    BY DEF EventsUniqueAndOrdered
  <2>3. CheckerInit(c, f) \in Checker
    BY <2>2 DEF CheckerInit, DataTypes
  <2> QED BY <2>1, <2>3
<1>3. entry \in ID => Inserted \in Checker
  BY DEF Inserted, TypeOK
<1> QED BY <1>1, <1>2, <1>3

Checkers == [ids : SUBSET ID, dataType : DataTypes, clean : BOOLEAN]

(* A step that leaves the file open, moves the cursor inside the index and *)
(* asks for another look, or offers what the cursor is on, keeps the types.*)
LEMMA MoveToType ==
  ASSUME TypeOK, rootFile # 0, NEW p \in 1..End(index), MoveTo(p),
         \/ item' \in {"Wanted", "Skipping", "Failed"}
         \/ p = fiIter /\ type # "End" /\ item' = type,
         checker' \in Checkers,
         delivered' = delivered, skipped' = skipped, dropped' \in SUBSET Position
  PROVE  TypeOK'
<1>1. index \in Seq(ID) /\ End(index) \in Nat
  BY CursorType DEF End
<1>2. index' = index /\ rootFile' = rootFile /\ fiIter' = p
  BY DEF MoveTo, config, sequence, index, IndexOf
<1>3. type \in {"End", "Run", "SubRun", "Event"}
  BY DEF type, TypeAt, EntryType
<1>4. p = fiIter => type' = type
  BY <1>2 DEF type, TypeAt, End, index
<1>5. fiIter' \in 1..End(index') /\ fiIter' \in Nat
  BY <1>1, <1>2
<1>6. item' \in Items /\ (item' \in {"Run", "SubRun", "Event"} => type' = item')
  BY <1>3, <1>4 DEF Items
<1>7. /\ catalog' = catalog /\ opts' = opts /\ current' = current
      /\ firstFile' = firstFile /\ pendingClose' = pendingClose /\ eventsToSkip' = eventsToSkip
      /\ fileEventsToSkip' = fileEventsToSkip /\ fastClonable' = fastClonable
      /\ remainingEvents' = remainingEvents /\ fileBlock' = fileBlock /\ context' = context
  BY DEF MoveTo, config, sequence
<1>8. catalog'[rootFile'].kind = "good"
  BY <1>2, <1>7 DEF TypeOK
<1> QED BY <1>2, <1>5, <1>6, <1>7, <1>8 DEF TypeOK, Checkers

(* Opening the next file puts the cursor at the front of its index.        *)
LEMMA OpenNextType ==
  ASSUME TypeOK, NEW s \in Nat, NEW c \in Checkers, OpenNext(s, c), UNCHANGED config
  PROVE  /\ current' \in 0..Len(catalog') /\ rootFile' \in {0, current'}
         /\ rootFile' # 0 => catalog'[rootFile'].kind = "good" /\ fiIter' \in 1..End(index')
         /\ eventsToSkip' \in Nat /\ fileEventsToSkip' \in Nat /\ fiIter' \in Nat
         /\ fastClonable' \in BOOLEAN /\ checker' \in Checkers
<1>1. /\ catalog' = catalog /\ opts' = opts
      /\ catalog \in Seq(File) /\ Len(catalog) \in Nat
      /\ DOMAIN catalog = 1..Len(catalog)
      /\ current \in Nat /\ eventsToSkip' = s
  BY ConfigType DEF TypeOK, config, OpenNext
<1>2. CASE NextTried # 0 /\ catalog[NextTried].kind = "good"
  <2> DEFINE f == catalog[NextTried]
  <2>1. NextTried \in (current + 1)..Len(catalog) /\ f \in File
    BY <1>1, <1>2, NextTriedType
  <2>2. /\ rootFile' = NextTried /\ current' = NextTried /\ fiIter' = 1 /\ fileEventsToSkip' = s
        /\ fastClonable' = SetIfFastClonable(f, s) /\ checker' = CheckerInit(c, f)
    BY <1>2 DEF OpenNext
  <2>3. index' \in Seq(ID)
    BY <1>1, <2>1, <2>2, ConfigType DEF index, IndexOf, File
  <2>4. fiIter' \in 1..End(index')
    BY <2>2, <2>3 DEF End
  <2>5. SetIfFastClonable(f, s) \in BOOLEAN
    BY <2>1 DEF SetIfFastClonable, File
  <2>6. CheckerInit(c, f) \in Checkers
    BY <2>1, CheckerType DEF Checkers
  <2> QED BY <1>1, <1>2, <2>1, <2>2, <2>4, <2>5, <2>6
<1>3. CASE ~ (NextTried # 0 /\ catalog[NextTried].kind = "good")
  <2>1. NextTried = 0 \/ NextTried \in 1..Len(catalog)
    BY <1>1, NextTriedType
  <2>2. /\ rootFile' = 0 /\ current' = IF NextTried = 0 THEN Len(catalog) ELSE NextTried
        /\ checker' = c /\ UNCHANGED file
    BY <1>3 DEF OpenNext
  <2> QED BY <1>1, <2>1, <2>2 DEF TypeOK, file
<1> QED BY <1>2, <1>3

(* What closing the file leaves behind.                                    *)
LEMMA ClosedType ==
  ASSUME TypeOK
  PROVE  SkipAfterClose \in Nat /\ CheckerAfterClose \in Checkers
<1>1. FreshChecker \in Checkers
  BY DEF FreshChecker, Checkers, DataTypes
<1> QED BY <1>1 DEF TypeOK, SkipAfterClose, CheckerAfterClose, CheckerClosed, Checkers

(* The steps between items leave the cursor where it is.                   *)
LEMMA NoMoveType ==
  ASSUME TypeOK, UNCHANGED <<config, current, rootFile, file, checker, remainingEvents, context,
                             history>>,
         item' \in {"Idle", "File", "Wanted", "Stop"},
         firstFile' \in BOOLEAN, pendingClose' \in BOOLEAN, fileBlock' \in BOOLEAN,
         eventsToSkip' = eventsToSkip
  PROVE  TypeOK'
<1>1. rootFile' # 0 => index' = index
  BY DEF config, index, IndexOf
<1> QED BY <1>1 DEF TypeOK, config, file, history, Items, End

(* TypeOK holds at first, ...                                              *)
LEMMA TypeCorrectInit == Init => TypeOK
<1> SUFFICES ASSUME Init PROVE TypeOK
  OBVIOUS
<1>1. opts \in Option /\ catalog \in Seq(File)
  BY CatalogsAssumption, OptionsAssumption DEF Init
<1>2. NoContext \in [file : Nat, id : ID]
  BY DEF NoContext, RunEntry, ID
<1>3. opts.skip \in Nat /\ opts.maxEvents \in Int
  BY <1>1 DEF Option
<1>4. current \in 0..Len(catalog)
  BY <1>1 DEF Init
<1>5. checker \in [ids : SUBSET ID, dataType : DataTypes, clean : BOOLEAN]
  BY DEF Init, FreshChecker, DataTypes
<1>6. delivered \in Seq(Position) /\ skipped \in Seq(Position) /\ dropped \in SUBSET Position
  BY DEF Init
<1>7. item = "Construct" /\ item \in Items
  BY DEF Init, Items
<1>8. rootFile = 0 /\ rootFile \in {0, current}
  BY DEF Init
<1> QED BY <1>2, <1>3, <1>4, <1>5, <1>6, <1>7, <1>8 DEF Init, TypeOK

(* ... and every step keeps it.                                            *)
LEMMA TypeCorrectStep == TypeOK /\ [Next]_vars => TypeOK'
<1> SUFFICES ASSUME TypeOK, [Next]_vars PROVE TypeOK'
  OBVIOUS
<1>0. /\ checker \in Checkers /\ dropped \in SUBSET Position
      /\ rootFile # 0 => /\ index \in Seq(ID) /\ rootFile \in Nat
                         /\ fiIter \in 1..End(index) /\ fiIter \in Nat
  BY CursorType DEF TypeOK, Checkers
<1>a. rootFile # 0 /\ type # "End" => entry \in ID /\ fiIter + 1 \in 1..End(index)
  BY CursorType
<1>b. rootFile # 0 /\ type # "End" => Inserted \in Checkers
  <2>1. rootFile # 0 => catalog[rootFile] \in File
    BY ConfigType, CursorType
  <2> QED BY <1>a, <2>1, CheckerType DEF Checkers
<1>c. rootFile # 0 => here \in Position
  BY <1>0 DEF here, Position
<1>d. type # "End" => rootFile # 0
  BY DEF type
<1>1. CASE Construct
  <2>1. eventsToSkip \in Nat
    BY DEF TypeOK
  <2>2. /\ current' \in 0..Len(catalog') /\ rootFile' \in {0, current'}
        /\ rootFile' # 0 => catalog'[rootFile'].kind = "good" /\ fiIter' \in 1..End(index')
        /\ eventsToSkip' \in Nat /\ fileEventsToSkip' \in Nat /\ fiIter' \in Nat
        /\ fastClonable' \in BOOLEAN /\ checker' \in Checkers
    BY <1>0, <1>1, <2>1, OpenNextType DEF Construct
  <2> QED BY <1>1, <2>2 DEF Construct, TypeOK, Items, config, history, Checkers
<1>2. CASE ReadFirstFile
  BY <1>2, NoMoveType DEF ReadFirstFile, TypeOK, sequence
<1>3. CASE ReadNextFile
  <2>2. /\ current' \in 0..Len(catalog') /\ rootFile' \in {0, current'}
        /\ rootFile' # 0 => catalog'[rootFile'].kind = "good" /\ fiIter' \in 1..End(index')
        /\ eventsToSkip' \in Nat /\ fileEventsToSkip' \in Nat /\ fiIter' \in Nat
        /\ fastClonable' \in BOOLEAN /\ checker' \in Checkers
    BY <1>3, ClosedType, OpenNextType DEF ReadNextFile
  <2> QED BY <1>3, <2>2 DEF ReadNextFile, TypeOK, Items, config, history, Checkers
<1>4. CASE StopJob
  BY <1>4, ClosedType DEF StopJob, TypeOK, Items, history, Checkers, file, config
<1>5. CASE Limits
  BY <1>5, NoMoveType DEF Limits, LimitReached, FirstItem, AskFile, NoMoreEntries, TypeOK, sequence
<1>6. CASE SkipToFirstRun \/ SkipToNextRun \/ SkipToFirstSubRun \/ SkipToNextSubRun \/ SkipToFirstEvent
  <2>1. rootFile # 0
    BY <1>6, <1>d DEF SkipToFirstRun, SkipToNextRun, SkipToFirstSubRun, SkipToNextSubRun,
                 SkipToFirstEvent, AtEvent
  <2>2. \E p \in 1..End(index) : MoveTo(p)
    BY <1>0, <1>6, <2>1, SearchesStayInside
       DEF SkipToFirstRun, SkipToNextRun, SkipToFirstSubRun, SkipToNextSubRun, SkipToFirstEvent
  <2> QED BY <1>0, <1>6, <2>1, <2>2, MoveToType
          DEF SkipToFirstRun, SkipToNextRun, SkipToFirstSubRun, SkipToNextSubRun,
              SkipToFirstEvent, history
<1>7. CASE WantRun \/ WantSubRun
  BY <1>0, <1>7, <1>d, MoveToType DEF WantRun, WantSubRun, history
<1>8. CASE WantEvent
  BY <1>0, <1>8, <1>b, <1>d, MoveToType DEF WantEvent, AtEvent, history
<1>9. CASE DropDuplicate
  <2>1. type = "Event" /\ MoveTo(fiIter + 1)
    BY <1>9 DEF DropDuplicate, AtEvent
  <2>2. dropped' \in SUBSET Position
    BY <1>0, <1>9, <1>c, <1>d, <2>1 DEF DropDuplicate
  <2> QED BY <1>0, <1>9, <1>a, <1>d, <2>1, <2>2, MoveToType DEF DropDuplicate
<1>10. CASE SkipEvent
  <2>1. type = "Event" /\ rootFile # 0 /\ fileEventsToSkip # 0
    BY <1>10, <1>d DEF SkipEvent, AtEvent, MoreToSkip
  <2>2. rootFile' = rootFile /\ index' = index
    BY <1>10 DEF SkipEvent, sequence, config, index, IndexOf
  <2>3. fiIter' \in 1..End(index') /\ fiIter' \in Nat /\ fileEventsToSkip' \in Nat
    BY <1>10, <1>0, <1>a, <2>1, <2>2 DEF SkipEvent, TypeOK
  <2>4. checker' \in Checkers /\ skipped' \in Seq(Position)
    BY <1>10, <1>b, <1>c, <2>1 DEF SkipEvent, TypeOK
  <2> QED BY <1>10, <2>1, <2>2, <2>3, <2>4 DEF SkipEvent, TypeOK, Items, Checkers, sequence, config
<1>11. CASE EndSkipping
  <2>1. rootFile # 0
    BY <1>11 DEF EndSkipping, TypeOK
  <2> QED BY <1>0, <1>11, <2>1, MoveToType DEF EndSkipping, history
<1>12. CASE ReadRunOrSubRun
  <2>1. rootFile # 0 /\ type # "End"
    BY <1>12 DEF ReadRunOrSubRun, TypeOK
  <2>2. rootFile' = rootFile /\ index' = index
    BY <1>12 DEF ReadRunOrSubRun, sequence, config, index, IndexOf
  <2>3. fiIter' \in 1..End(index') /\ fiIter' \in Nat
    <3>1. fiIter' = FragmentsEnd(index, fiIter)
      BY <1>12 DEF ReadRunOrSubRun
    <3>2. FragmentsEnd(index, fiIter) \in 1..End(index) /\ End(index) \in Nat
      BY <1>0, <2>1, SearchesStayInside DEF End
    <3> QED BY <2>2, <3>1, <3>2
  <2>4. context' \in [file : Nat, id : ID]
    BY <1>12, <1>0, <1>a, <2>1 DEF ReadRunOrSubRun
  <2> QED BY <1>12, <2>1, <2>2, <2>3, <2>4 DEF ReadRunOrSubRun, TypeOK, Items, sequence, config, history
<1>13. CASE ReadEvent
  <2>1. rootFile # 0 /\ type # "End"
    BY <1>13 DEF ReadEvent, TypeOK
  <2>2. rootFile' = rootFile /\ index' = index
    BY <1>13 DEF ReadEvent, sequence, config, index, IndexOf
  <2>3. fiIter' \in 1..End(index') /\ fiIter' \in Nat
    BY <1>13, <1>0, <1>a, <2>1, <2>2 DEF ReadEvent
  <2>4. delivered' \in Seq(Position)
    BY <1>13, <1>c, <2>1 DEF ReadEvent, TypeOK
  <2>5. remainingEvents' \in Int
    BY <1>13 DEF ReadEvent, TypeOK
  <2> QED BY <1>13, <2>1, <2>2, <2>3, <2>4, <2>5 DEF ReadEvent, TypeOK, Items, sequence, config
<1>14. CASE ReadEventThrows
  <2>1. rootFile # 0
    BY <1>14 DEF ReadEventThrows, TypeOK
  <2> QED BY <1>0, <1>14, <2>1, MoveToType DEF ReadEventThrows, history
<1>15. CASE UNCHANGED vars
  BY <1>15 DEF TypeOK, vars, config, sequence, file, loop, history, index, IndexOf, type, TypeAt, End
<1> QED
  BY <1>1, <1>2, <1>3, <1>4, <1>5, <1>6, <1>7, <1>8, <1>9, <1>10, <1>11, <1>12, <1>13, <1>14, <1>15
  DEF Next, Files, Wanted, Reads

(* What TypeOK says is so in every state of every job: above all, an item  *)
(* is offered only when the cursor stands on an entry of that type, so the *)
(* assertions of readEvent(), readSubRun() and readRun() hold.             *)
THEOREM TypeCorrect == Spec => []TypeOK
BY TypeCorrectInit, TypeCorrectStep, PTL DEF Spec

-----------------------------------------------------------------------------
(* No file is open before the constructor has been through the catalog.    *)
ConstructFirst == item = "Construct" => rootFile = 0

(* The events that are left to skip, wherever they are counted.            *)
ToSkip == IF rootFile = 0 THEN eventsToSkip ELSE fileEventsToSkip

SkipInv == TypeOK /\ ConstructFirst /\ SkipAccounting

(* The steps of the job keep the account.                                  *)
LEMMA SkipStep == SkipInv /\ [Next]_vars => SkipInv'
<1> SUFFICES ASSUME SkipInv, [Next]_vars PROVE SkipInv'
  OBVIOUS
<1>0. TypeOK /\ TypeOK'
  BY TypeCorrectStep DEF SkipInv
<1>1. /\ Len(skipped) + ToSkip = opts.skip
      /\ ToSkip \in Nat /\ Len(skipped) \in Nat
  BY <1>0 DEF SkipInv, SkipAccounting, ToSkip, TypeOK
<1>2. ConstructFirst'
  <2>1. CASE item' # "Construct"
    BY <2>1 DEF ConstructFirst
  <2>2. CASE item' = "Construct"
    BY <2>2, <1>0 DEF SkipInv, ConstructFirst, TypeOK, Next, Files, Limits, Wanted, Reads, vars, loop, sequence,
       Construct, ReadFirstFile, ReadNextFile, StopJob, LimitReached, FirstItem, AskFile, NoMoreEntries,
       SkipToFirstRun, WantRun, SkipToNextRun, SkipToFirstSubRun, WantSubRun, SkipToNextSubRun,
       SkipToFirstEvent, DropDuplicate, WantEvent, SkipEvent, EndSkipping, ReadRunOrSubRun,
       ReadEvent, ReadEventThrows, MoveTo
  <2> QED BY <2>1, <2>2
<1>3. CASE UNCHANGED <<opts, skipped, rootFile, eventsToSkip, fileEventsToSkip>>
  BY <1>0, <1>1, <1>2, <1>3 DEF SkipInv, SkipAccounting, ToSkip
<1>4. ASSUME NEW s \in Nat, NEW c, OpenNext(s, c), UNCHANGED <<opts, skipped>>, s = ToSkip
      PROVE  SkipInv'
  <2>1. \/ eventsToSkip' = s /\ rootFile' = 0
        \/ fileEventsToSkip' = s /\ rootFile' # 0
    BY <1>4 DEF OpenNext
  <2> QED BY <1>0, <1>1, <1>2, <1>4, <2>1 DEF SkipInv, SkipAccounting, ToSkip
<1>5. CASE Construct
  <2>1. eventsToSkip = ToSkip
    BY <1>5 DEF Construct, SkipInv, ConstructFirst, ToSkip
  <2> QED BY <1>1, <1>4, <1>5, <2>1 DEF Construct, config, history
<1>6. CASE ReadNextFile
  <2>1. SkipAfterClose = ToSkip
    BY DEF SkipAfterClose, ToSkip
  <2> QED BY <1>1, <1>4, <1>6, <2>1 DEF ReadNextFile, config, history
<1>7. CASE StopJob
  BY <1>0, <1>1, <1>2, <1>7 DEF StopJob, SkipAfterClose, SkipInv, SkipAccounting, ToSkip, config, history
<1>8. CASE SkipEvent
  <2>1. type = "Event"
    BY <1>8 DEF SkipEvent, AtEvent
  <2>2. rootFile # 0 /\ fileEventsToSkip # 0
    BY <1>8, <2>1 DEF SkipEvent, MoreToSkip, type
  <2>3. Len(skipped') = Len(skipped) + 1
    BY <1>0, <1>8 DEF SkipEvent, TypeOK
  <2> QED BY <1>0, <1>1, <1>2, <1>8, <2>2, <2>3 DEF SkipEvent, SkipInv, SkipAccounting, ToSkip, config, sequence
<1>9. CASE ReadFirstFile \/ Limits \/ SkipToFirstRun \/ WantRun \/ SkipToNextRun \/ SkipToFirstSubRun
           \/ WantSubRun \/ SkipToNextSubRun \/ SkipToFirstEvent \/ DropDuplicate \/ WantEvent
           \/ EndSkipping \/ Reads \/ UNCHANGED vars
  BY <1>3, <1>9
  DEF ReadFirstFile, Limits, LimitReached, FirstItem, AskFile, NoMoreEntries, SkipToFirstRun, WantRun,
      SkipToNextRun, SkipToFirstSubRun, WantSubRun, SkipToNextSubRun, SkipToFirstEvent,
      DropDuplicate, WantEvent, EndSkipping, Reads, ReadRunOrSubRun, ReadEvent, ReadEventThrows,
      MoveTo, vars, config, sequence, file, history
<1> QED
  BY <1>5, <1>6, <1>7, <1>8, <1>9 DEF Next, Files, Wanted

(* At first all of them are still to be skipped.                           *)
LEMMA SkipInit == Init => SkipInv
<1>1. Init => TypeOK
  BY TypeCorrectInit
<1> QED BY <1>1 DEF Init, SkipInv, ConstructFirst, SkipAccounting, ToSkip, TypeOK

(* The count of events to skip is right before, in and after every file.   *)
THEOREM SkipsAccounted == Spec => []SkipAccounting
<1>1. SkipInv => SkipAccounting
  BY DEF SkipInv
<1> QED BY <1>1, SkipInit, SkipStep, PTL DEF Spec

-----------------------------------------------------------------------------
(* Events are read only when no more are to be skipped, and nothing was    *)
(* read or skipped in a file that is yet to come.                          *)
OrderInv ==
  /\ SkipInv /\ InOrder
  /\ delivered # <<>> => ToSkip = 0
  /\ item = "Event" => ToSkip = 0
  /\ \A i \in DOMAIN passed : passed[i].file <= current

(* The index in use is sorted well enough for each of the searches.        *)
LEMMA IndexSorted ==
  ASSUME TypeOK, rootFile # 0
  PROVE  /\ SortedBySubRun(index) /\ Nested(index)
         /\ Sorted(index) \/ opts.first.event = 1
<1>1. rootFile \in DOMAIN catalog /\ catalog \in Catalogs /\ opts \in Options
  BY CursorType DEF TypeOK
<1>2. catalog[rootFile] \in File
  BY <1>1, ConfigType
<1>3. CASE opts.noEventSort
  BY <1>1, <1>3, IndexesAssumption, OptionsAssumption DEF index, IndexOf
<1>4. CASE ~ opts.noEventSort
  <2>1. Sorted(index) /\ Nested(index) /\ index \in Seq(ID)
    BY <1>1, <1>2, <1>4, IndexesAssumption DEF index, IndexOf, File
  <2> QED BY <2>1, SortedIsSortedBySubRun
<1> QED BY <1>3, <1>4

(* No search of getNextEntryTypeWanted() takes the cursor back.            *)
LEMMA JumpsGoForward ==
  ASSUME TypeOK,
         \/ SkipToFirstRun \/ SkipToNextRun \/ SkipToFirstSubRun \/ SkipToNextSubRun
         \/ SkipToFirstEvent
  PROVE  rootFile # 0 /\ UNCHANGED rootFile /\ fiIter <= fiIter'
<1>1. type \in {"Run", "SubRun", "Event"} /\ rootFile # 0 /\ UNCHANGED rootFile
  BY DEF SkipToFirstRun, SkipToNextRun, SkipToFirstSubRun, SkipToNextSubRun, SkipToFirstEvent,
         AtEvent, type, MoveTo, sequence
<1>2. /\ index \in Seq(ID) /\ fiIter \in DOMAIN index /\ entry \in ID /\ entry = index[fiIter]
      /\ SortedBySubRun(index) /\ EntryType(entry) = type
      /\ Sorted(index) \/ opts.first.event = 1
  BY <1>1, CursorType, IndexSorted DEF entry
<1>3. opts.first \in ID
  BY ConfigType DEF Option
<1>4. CASE SkipToFirstRun
  <2>1. opts.first.run \in Nat /\ entry.run < opts.first.run
    BY <1>2, <1>3, <1>4 DEF SkipToFirstRun, Before, RunOf, RunEntry, ID
  <2> QED BY <1>1, <1>2, <1>4, <2>1, SearchesGoForward DEF SkipToFirstRun, MoveTo
<1>5. CASE SkipToNextRun
  <2>1. entry.run + 1 \in Nat /\ entry.run < entry.run + 1
    BY <1>2 DEF ID
  <2> QED BY <1>1, <1>2, <1>5, <2>1, SearchesGoForward DEF SkipToNextRun, MoveTo
<1>6. CASE SkipToFirstSubRun
  <2>1. SubRunOf(opts.first) \in ID /\ SubRunOf(opts.first).event = 0
    BY <1>3 DEF SubRunOf, SubRunEntry, ID
  <2>2. Before(SubRunOf(entry), SubRunOf(opts.first))
    BY <1>6 DEF SkipToFirstSubRun, BeforeFirstSubRun
  <2> QED BY <1>1, <1>2, <1>6, <2>1, <2>2, SearchesGoForward DEF SkipToFirstSubRun, MoveTo
<1>7. CASE SkipToNextSubRun
  <2> DEFINE id == SubRunEntry(entry.run, entry.subRun + 1)
  <2>1. id \in ID /\ id.event = 0 /\ Before(SubRunOf(entry), id)
    BY <1>2 DEF SubRunEntry, SubRunOf, Before, ID
  <2>2. fiIter' = FindSubRunOrRunPosition(index, id)
    BY <1>7 DEF SkipToNextSubRun, MoveTo
  <2> HIDE DEF id
  <2> QED BY <1>1, <1>2, <2>1, <2>2, SearchesGoForward
<1>8. CASE SkipToFirstEvent
  <2>1. Before(entry, opts.first) /\ type = "Event" /\ fiIter' = FindEventPosition(index, opts.first)
    BY <1>8 DEF SkipToFirstEvent, AtEvent, MoveTo
  <2> QED BY <1>1, <1>2, <1>3, <2>1, EventSearchGoesForward
<1> QED BY <1>4, <1>5, <1>6, <1>7, <1>8

(* What was passed stays in order when nothing is added to it and the file *)
(* is closed, is followed by a later one, or is read further on.           *)
LEMMA OrderKept ==
  ASSUME OrderInv, SkipInv', UNCHANGED <<delivered, skipped>>, current <= current',
         \/ rootFile' = 0
         \/ rootFile' = rootFile /\ fiIter <= fiIter'
         \/ rootFile' > current,
         ToSkip' = ToSkip, item' = "Event" => ToSkip' = 0
  PROVE  OrderInv'
<1>1. /\ TypeOK /\ TypeOK' /\ passed' = passed
      /\ current \in Nat /\ current' \in Nat /\ rootFile \in Nat /\ rootFile' \in Nat
      /\ fiIter \in Nat /\ fiIter' \in Nat
  BY DEF OrderInv, SkipInv, TypeOK, passed
<1>2. passed \in Seq(Position)
  BY <1>1 DEF TypeOK, passed
<1>3. ASSUME rootFile' # 0, NEW i \in DOMAIN passed PROVE Precedes(passed[i], here')
  <2>1. passed[i] \in Position /\ passed[i].file <= current
    BY <1>2 DEF OrderInv
  <2>2. CASE rootFile' > current
    BY <1>1, <2>1, <2>2 DEF Precedes, here, Position
  <2>3. CASE rootFile' = rootFile /\ fiIter <= fiIter'
    <3>1. Precedes(passed[i], here)
      BY <1>3, <2>3 DEF OrderInv, InOrder
    <3> QED BY <1>1, <2>1, <2>3, <3>1 DEF Precedes, here, Position
  <2> QED BY <1>3, <2>2, <2>3
<1>4. \A i \in DOMAIN passed : passed[i].file <= current'
  <2> SUFFICES ASSUME NEW i \in DOMAIN passed PROVE passed[i].file <= current'
    OBVIOUS
  <2>1. passed[i] \in Position /\ passed[i].file <= current
    BY <1>2 DEF OrderInv
  <2> QED BY <1>1, <2>1 DEF Position
<1> QED BY <1>1, <1>3, <1>4 DEF OrderInv, InOrder

(* It stays in order when the event at the cursor is added to its end and  *)
(* the cursor moves on.                                                    *)
LEMMA OrderAppended ==
  ASSUME OrderInv, SkipInv', rootFile # 0, UNCHANGED <<current, rootFile>>, fiIter' = fiIter + 1,
         passed' = Append(passed, here),
         delivered' # <<>> => ToSkip' = 0, item' # "Event"
  PROVE  OrderInv'
<1>1. /\ TypeOK /\ rootFile \in Nat /\ fiIter \in Nat /\ here \in Position
      /\ here.file = current /\ current \in Nat
  <2>1. TypeOK
    BY DEF OrderInv, SkipInv
  <2>2. current \in Nat /\ rootFile = current /\ fiIter \in Nat
    BY <2>1 DEF TypeOK
  <2> QED BY <2>1, <2>2 DEF here, Position
<1>2. passed \in Seq(Position)
  BY <1>1 DEF TypeOK, passed
<1>3. here' = [file |-> here.file, pos |-> here.pos + 1]
  BY DEF here
<1>4. ASSUME NEW i \in DOMAIN passed'
      PROVE  /\ passed'[i] \in Position /\ passed'[i].file <= current
             /\ Precedes(passed'[i], here')
             /\ \A j \in DOMAIN passed' : i < j => Precedes(passed'[i], passed'[j])
  <2>1. CASE i = Len(passed) + 1
    BY <1>1, <1>2, <1>3, <2>1 DEF Precedes, Position
  <2>2. CASE i \in DOMAIN passed
    <3>1. /\ passed'[i] = passed[i] /\ passed[i] \in Position /\ passed[i].file <= current
          /\ Precedes(passed[i], here)
      BY <1>2, <2>2 DEF OrderInv, InOrder
    <3>2. ASSUME NEW j \in DOMAIN passed', i < j PROVE Precedes(passed'[i], passed'[j])
      <4>1. CASE j = Len(passed) + 1
        BY <1>2, <3>1, <4>1
      <4>2. CASE j \in DOMAIN passed
        BY <1>2, <2>2, <3>2, <4>2 DEF OrderInv, InOrder
      <4> QED BY <1>2, <4>1, <4>2
    <3>3. Precedes(passed'[i], here')
      BY <1>1, <1>3, <3>1 DEF Precedes, Position
    <3> QED BY <3>1, <3>2, <3>3
  <2> QED BY <1>2, <2>1, <2>2
<1> QED BY <1>4 DEF OrderInv, InOrder

(* Opening the next file goes forward in the catalog.                      *)
LEMMA OpensForward ==
  ASSUME OrderInv, NEW c, OpenNext(ToSkip, c)
  PROVE  /\ current <= current' /\ ToSkip' = ToSkip
         /\ rootFile' = 0 \/ rootFile' > current
<1>1. TypeOK
  BY DEF OrderInv, SkipInv
<1>2. current \in Nat /\ Len(catalog) \in Nat /\ current <= Len(catalog)
  BY <1>1, ConfigType DEF TypeOK
<1>3. NextTried = 0 \/ NextTried \in (current + 1)..Len(catalog)
  BY <1>1, NextTriedType
<1>4. \/ NextTried # 0 /\ rootFile' = NextTried /\ current' = NextTried /\ fileEventsToSkip' = ToSkip
      \/ /\ rootFile' = 0 /\ current' = IF NextTried = 0 THEN Len(catalog) ELSE NextTried
         /\ eventsToSkip' = ToSkip
  BY DEF OpenNext
<1> QED BY <1>2, <1>3, <1>4 DEF ToSkip

(* Every step keeps what was passed in order.                              *)
LEMMA OrderStep == OrderInv /\ [Next]_vars => OrderInv'
<1> SUFFICES ASSUME OrderInv, [Next]_vars PROVE OrderInv'
  OBVIOUS
<1>1. /\ TypeOK /\ SkipInv' /\ current \in Nat /\ fiIter \in Nat
      /\ delivered \in Seq(Position) /\ skipped \in Seq(Position)
  BY SkipStep DEF OrderInv, SkipInv, TypeOK
<1>2. CASE Construct
  <2>1. OpenNext(ToSkip, checker)
    BY <1>2 DEF Construct, OrderInv, SkipInv, ConstructFirst, ToSkip
  <2> QED BY <1>1, <1>2, <2>1, OpensForward, OrderKept DEF Construct, history
<1>3. CASE ReadNextFile
  <2>1. OpenNext(ToSkip, CheckerAfterClose)
    BY <1>3 DEF ReadNextFile, SkipAfterClose, ToSkip
  <2> QED BY <1>1, <1>3, <2>1, OpensForward, OrderKept DEF ReadNextFile, history
<1>4. CASE StopJob
  <2>1. ToSkip' = ToSkip
    BY <1>4 DEF StopJob, SkipAfterClose, ToSkip
  <2> QED BY <1>1, <1>4, <2>1, OrderKept DEF StopJob, history
<1>5. ASSUME UNCHANGED <<current, rootFile, fiIter, eventsToSkip, fileEventsToSkip, delivered, skipped>>,
             item' = "Event" => ToSkip = 0
      PROVE  OrderInv'
  <2>1. ToSkip' = ToSkip
    BY <1>5 DEF ToSkip
  <2> QED BY <1>1, <1>5, <2>1, OrderKept
<1>6. CASE ReadFirstFile \/ Limits \/ WantRun \/ WantSubRun \/ EndSkipping \/ ReadEventThrows
           \/ UNCHANGED vars
  <2>1. item' = "Event" => ToSkip = 0
    BY <1>6 DEF ReadFirstFile, Limits, LimitReached, FirstItem, AskFile, NoMoreEntries, WantRun,
                WantSubRun, EndSkipping, ReadEventThrows, vars, loop, OrderInv
  <2> QED
    BY <1>5, <1>6, <2>1
    DEF ReadFirstFile, Limits, LimitReached, FirstItem, AskFile, NoMoreEntries, WantRun, WantSubRun,
        EndSkipping, ReadEventThrows, MoveTo, vars, sequence, file, history
<1>7. CASE WantEvent
  <2>1. ToSkip = 0
    BY <1>7 DEF WantEvent, MoreToSkip, ToSkip, AtEvent, type
  <2> QED BY <1>5, <1>7, <2>1 DEF WantEvent, MoveTo, sequence, history
<1>8. ASSUME NEW p, MoveTo(p), fiIter <= p, UNCHANGED <<delivered, skipped>>, item' # "Event"
      PROVE  OrderInv'
  <2>1. ToSkip' = ToSkip /\ UNCHANGED <<current, rootFile>>
    BY <1>8 DEF MoveTo, sequence, ToSkip
  <2>2. fiIter' = p
    BY <1>8 DEF MoveTo
  <2> QED BY <1>1, <1>8, <2>1, <2>2, OrderKept
<1>9. CASE SkipToFirstRun \/ SkipToNextRun \/ SkipToFirstSubRun \/ SkipToNextSubRun \/ SkipToFirstEvent
  <2>1. fiIter <= fiIter'
    BY <1>1, <1>9, JumpsGoForward
  <2>2. MoveTo(fiIter')
    BY <1>9 DEF SkipToFirstRun, SkipToNextRun, SkipToFirstSubRun, SkipToNextSubRun, SkipToFirstEvent,
                MoveTo
  <2> QED
    BY <1>8, <1>9, <2>1, <2>2
    DEF SkipToFirstRun, SkipToNextRun, SkipToFirstSubRun, SkipToNextSubRun, SkipToFirstEvent, history
<1>10. CASE DropDuplicate
  <2>1. fiIter <= fiIter + 1
    BY <1>1
  <2> QED BY <1>8, <1>10, <2>1 DEF DropDuplicate
<1>11. CASE ReadRunOrSubRun
  <2>1. type # "End" /\ rootFile # 0
    BY <1>1, <1>11 DEF ReadRunOrSubRun, TypeOK
  <2>2. index \in Seq(ID) /\ fiIter \in DOMAIN index /\ SortedBySubRun(index)
    BY <1>1, <2>1, CursorType, IndexSorted
  <2>3. FragmentsEnd(index, fiIter) \in Nat /\ fiIter < FragmentsEnd(index, fiIter)
    BY <2>2, SearchesGoForward, SearchesStayInside DEF End
  <2>4. fiIter <= fiIter' /\ ToSkip' = ToSkip
    BY <1>1, <1>11, <2>3 DEF ReadRunOrSubRun, sequence, ToSkip
  <2> QED BY <1>1, <1>11, <2>4, OrderKept DEF ReadRunOrSubRun, sequence, history
<1>12. CASE SkipEvent
  <2>1. type = "Event" /\ rootFile # 0 /\ ToSkip # 0
    BY <1>12 DEF SkipEvent, AtEvent, MoreToSkip, type, ToSkip
  <2>2. delivered = <<>>
    BY <2>1 DEF OrderInv
  <2>3. passed' = Append(passed, here)
    BY <1>1, <1>12, <2>2 DEF SkipEvent, passed
  <2> QED BY <1>1, <1>12, <2>1, <2>2, <2>3, OrderAppended DEF SkipEvent, sequence
<1>13. CASE ReadEvent
  <2>1. ToSkip = 0 /\ rootFile # 0
    BY <1>1, <1>13 DEF ReadEvent, OrderInv, TypeOK
  <2>2. here \in Position
    <3>1. rootFile \in Nat
      BY <1>1 DEF TypeOK
    <3> QED BY <1>1, <3>1 DEF here, Position
  <2>3. passed' = Append(passed, here)
    BY <1>1, <1>13, <2>2 DEF ReadEvent, passed
  <2>4. ToSkip' = ToSkip
    BY <1>13 DEF ReadEvent, sequence, ToSkip
  <2> QED BY <1>1, <1>13, <2>1, <2>3, <2>4, OrderAppended DEF ReadEvent, sequence
<1> QED
  BY <1>2, <1>3, <1>4, <1>6, <1>7, <1>9, <1>10, <1>11, <1>12, <1>13 DEF Next, Files, Wanted, Reads

(* In every job, whatever is jumped over or skipped, no event is read or   *)
(* skipped twice or out of turn, and none is skipped after one was read.   *)
THEOREM ReadsInOrder == Spec => []InOrder
<1>1. Init => OrderInv
  <2> SUFFICES ASSUME Init PROVE OrderInv
    OBVIOUS
  <2>1. SkipInv
    BY SkipInit
  <2>2. passed = <<>> /\ delivered = <<>> /\ item # "Event" /\ rootFile = 0
    BY DEF Init, passed
  <2> QED BY <2>1, <2>2 DEF OrderInv, InOrder
<1>2. OrderInv => InOrder
  BY DEF OrderInv
<1> QED BY <1>1, <1>2, OrderStep, PTL DEF Spec

-----------------------------------------------------------------------------
(***************************************************************************)
(* The subrun that events are read in                                      *)
(***************************************************************************)
(* The cursor may stand at p when c is the run or subrun last read: what   *)
(* is there belongs to c, and is not before the first event's subrun.      *)
FitsAt(p, c) ==
  /\ TypeAt(index, p) \in {"SubRun", "Event"} =>
       c.file = rootFile /\ c.id.run = index[p].run /\ opts.first.run <= index[p].run
  /\ TypeAt(index, p) = "Event" =>
       /\ c.id = SubRunOf(index[p])
       /\ opts.mode # "Runs" => ~ Before(SubRunOf(index[p]), SubRunOf(opts.first))

ContextFits(c) ==
  rootFile # 0 =>
    /\ FitsAt(fiIter, c)
    /\ item \in {"Run", "SubRun"} => opts.first.run <= entry.run
    /\ item = "SubRun" => ~ Before(SubRunOf(entry), SubRunOf(opts.first))

ContextInv == ContextFits(context)

(* The cursor went on from an event to t, and no other run's or subrun's   *)
(* announcement lies between.                                              *)
LEMMA FitsFurtherOn ==
  ASSUME TypeOK, NEW c, rootFile # 0, type = "Event", FitsAt(fiIter, c),
         NEW t \in 1..End(index), fiIter < t,
         \A q \in DOMAIN index : fiIter < q /\ q < t /\ t \in DOMAIN index =>
           /\ index[q] = RunOf(index[t]) => index[t].run = entry.run
           /\ index[q] = SubRunOf(index[t]) => index[q] = SubRunOf(entry)
  PROVE  FitsAt(t, c)
<1>1. /\ index \in Seq(ID) /\ fiIter \in DOMAIN index /\ entry = index[fiIter]
      /\ SortedBySubRun(index) /\ Nested(index)
  BY CursorType, IndexSorted DEF entry
<1>2. CASE t = End(index)
  BY <1>2 DEF FitsAt, TypeAt
<1>3. CASE t # End(index)
  <2>1. t \in DOMAIN index /\ TypeAt(index, t) = EntryType(index[t])
    BY <1>1, <1>3 DEF TypeAt, End
  <2>2. TypeAt(index, t) \in {"SubRun", "Event"} => index[t].run = entry.run
    BY <1>1, <2>1, Announced
  <2>3. TypeAt(index, t) = "Event" => SubRunOf(index[t]) = SubRunOf(entry)
    <3>1. ASSUME TypeAt(index, t) = "Event", SubRunOf(index[t]) # SubRunOf(entry) PROVE FALSE
      <4>1. PICK q \in DOMAIN index : fiIter < q /\ q < t /\ index[q] = SubRunOf(index[t])
        BY <1>1, <2>1, <3>1, Announced
      <4> QED BY <2>1, <3>1, <4>1
    <3> QED BY <3>1
  <2>4. TypeAt(index, fiIter) = "Event"
    BY DEF type
  <2> QED BY <1>1, <2>2, <2>3, <2>4 DEF FitsAt
<1> QED BY <1>2, <1>3

(* The next entry fits if the event at the cursor does.                    *)
LEMMA FitsNext ==
  ASSUME TypeOK, NEW c, rootFile # 0, type = "Event", FitsAt(fiIter, c)
  PROVE  FitsAt(fiIter + 1, c)
<1>1. fiIter \in Nat /\ fiIter + 1 \in 1..End(index) /\ \A q \in DOMAIN index : q \in Nat
  BY CursorType DEF TypeOK
<1>2. \A q \in DOMAIN index : ~ (fiIter < q /\ q < fiIter + 1)
  BY <1>1
<1> QED BY <1>1, <1>2, FitsFurtherOn

(* The searches of getNextEntryTypeWanted() find a run or subrun to read   *)
(* or an event that is in the subrun read last.                            *)
LEMMA FitsAfterSearch ==
  ASSUME TypeOK, NEW c, rootFile # 0 => FitsAt(fiIter, c),
         \/ SkipToFirstRun \/ SkipToNextRun \/ SkipToFirstSubRun \/ SkipToNextSubRun
         \/ SkipToFirstEvent
  PROVE  rootFile # 0 /\ FitsAt(fiIter', c)
<1>1. type \in {"Run", "SubRun", "Event"} /\ rootFile # 0 /\ FitsAt(fiIter, c)
  BY DEF SkipToFirstRun, SkipToNextRun, SkipToFirstSubRun, SkipToNextSubRun, SkipToFirstEvent,
         AtEvent, type
<1>2. /\ index \in Seq(ID) /\ fiIter \in DOMAIN index /\ entry \in ID /\ entry = index[fiIter]
      /\ SortedBySubRun(index) /\ Nested(index) /\ EntryType(entry) = type /\ fiIter <= fiIter'
      /\ type = TypeAt(index, fiIter)
  BY <1>1, CursorType, IndexSorted, JumpsGoForward DEF entry, type
<1>3. opts.first \in ID
  BY ConfigType DEF Option
<1>4. CASE SkipToFirstRun \/ SkipToNextRun
  <2>1. TypeAt(index, fiIter') \in {"Run", "End"}
    BY <1>2, <1>4, SearchesFind DEF SkipToFirstRun, SkipToNextRun, MoveTo
  <2> QED BY <1>1, <2>1 DEF FitsAt
<1>5. ASSUME NEW id \in ID, fiIter' = FindSubRunOrRunPosition(index, id),
             \A n \in Nat : entry.run < n => ~ Before(RunEntry(n), id),
             type \in {"SubRun", "Event"}
      PROVE  FitsAt(fiIter', c)
  <2>1. TypeAt(index, fiIter') # "Event" /\ fiIter' \in 1..End(index)
    BY <1>2, <1>5, SearchesFind, SearchesStayInside
  <2>2. CASE TypeAt(index, fiIter') = "SubRun" /\ fiIter' # fiIter
    <3>1. fiIter' \in DOMAIN index /\ EntryType(index[fiIter']) = "SubRun" /\ fiIter < fiIter'
      BY <1>2, <2>1, <2>2 DEF TypeAt, End
    <3>2. index[fiIter'] \in ID
      BY <1>2, <3>1
    <3>3. ASSUME NEW q \in DOMAIN index, fiIter < q, q < fiIter', index[q] = RunOf(index[fiIter'])
          PROVE  FALSE
      <4>1. index[q] = RunEntry(index[fiIter'].run) /\ EntryType(index[q]) # "Event"
        BY <3>3 DEF RunOf, RunEntry, EntryType
      <4>2. Before(index[q], id)
        <5>1. FindSubRunOrRunPosition(index, id) \in Nat /\ q \in Nat
          BY <1>2, <2>1, <1>5, SearchesStayInside DEF End
        <5>2. ~ (FindSubRunOrRunPosition(index, id) <= q)
          BY <1>5, <3>3, <5>1
        <5> QED BY <1>2, <4>1, <5>2, SearchesStopFirst
      <4>3. ~ (entry.run < index[fiIter'].run)
        BY <1>5, <3>2, <4>1, <4>2 DEF ID
      <4>4. ~ Before(SubRunOf(index[q]), SubRunOf(entry)) /\ ~ Before(SubRunOf(index[fiIter']), SubRunOf(index[q]))
        BY <1>2, <3>1, <3>3 DEF SortedBySubRun
      <4>5. index[q].run = entry.run /\ index[q].subRun = 0 /\ entry.subRun = 0
        <5>1. /\ index[q].run = index[fiIter'].run /\ index[q].subRun = 0
              /\ entry.run \in Nat /\ index[fiIter'].run \in Nat /\ entry.subRun \in Nat
          BY <1>2, <3>2, <4>1 DEF RunEntry, ID
        <5>2. /\ ~ (index[q].run < entry.run)
              /\ index[q].run = entry.run => ~ (index[q].subRun < entry.subRun)
          BY <4>4 DEF Before, SubRunOf, SubRunEntry
        <5> QED BY <4>3, <5>1, <5>2
      <4>6. entry.subRun # 0
        <5>1. CASE type = "SubRun"
          BY <1>2, <5>1 DEF EntryType
        <5>2. CASE type = "Event"
          BY <1>2, <5>2 DEF Nested
        <5> QED BY <1>5, <5>1, <5>2
      <4> QED BY <4>5, <4>6
    <3>4. index[fiIter'].run = entry.run
      BY <1>2, <3>1, <3>3, Announced
    <3> QED BY <1>1, <1>2, <1>5, <2>2, <3>4 DEF FitsAt
  <2> QED BY <1>1, <2>1, <2>2 DEF FitsAt
<1>6. CASE SkipToFirstSubRun
  <2>1. /\ fiIter' = FindSubRunOrRunPosition(index, SubRunOf(opts.first)) /\ type = "SubRun"
        /\ RunOf(entry) = RunOf(opts.first)
    BY <1>6 DEF SkipToFirstSubRun, MoveTo, BeforeFirstSubRun
  <2>2. SubRunOf(opts.first) \in ID /\ entry.run = opts.first.run
    BY <1>3, <2>1 DEF SubRunOf, SubRunEntry, ID, RunOf, RunEntry
  <2>3. \A n \in Nat : entry.run < n => ~ Before(RunEntry(n), SubRunOf(opts.first))
    BY <1>3, <2>2 DEF Before, RunEntry, SubRunOf, SubRunEntry, ID
  <2> QED BY <1>1, <1>5, <2>1, <2>2, <2>3
<1>7. CASE SkipToNextSubRun
  <2> DEFINE id == SubRunEntry(entry.run, entry.subRun + 1)
  <2>1. fiIter' = FindSubRunOrRunPosition(index, id) /\ type = "Event"
    BY <1>7 DEF SkipToNextSubRun, MoveTo
  <2>2. id \in ID
    BY <1>2 DEF SubRunEntry, ID
  <2>3. \A n \in Nat : entry.run < n => ~ Before(RunEntry(n), id)
    BY <1>2 DEF Before, RunEntry, SubRunEntry, ID
  <2> HIDE DEF id
  <2> QED BY <1>1, <1>5, <2>1, <2>2, <2>3
<1>8. CASE SkipToFirstEvent
  <2>1. /\ fiIter' = FindEventPosition(index, opts.first) /\ type = "Event"
        /\ opts.mode = "RunsSubRunsAndEvents"
    BY <1>8 DEF SkipToFirstEvent, MoveTo, AtEvent
  <2>2. fiIter' \in 1..End(index) /\ fiIter' \in Nat /\ fiIter \in Nat
    BY <1>2, <2>1, SearchesStayInside DEF End
  <2>3. ~ Before(SubRunOf(entry), SubRunOf(opts.first))
    BY <1>1, <1>2, <2>1 DEF FitsAt
  <2>4. ASSUME NEW q \in DOMAIN index, fiIter < q, q < fiIter', fiIter' \in DOMAIN index,
               index[q].event = 0
        PROVE  index[q].run = entry.run /\ index[q].subRun = entry.subRun
    <3>1. Before(index[q], opts.first)
      <4>1. ~ (FindEventPosition(index, opts.first) <= q)
        BY <1>2, <2>1, <2>2, <2>4
      <4> QED BY <1>2, <4>1, SearchesStopFirst
    <3>2. ~ Before(SubRunOf(index[q]), SubRunOf(entry))
      BY <1>2, <2>4 DEF SortedBySubRun
    <3>3. index[q] \in ID
      BY <1>2
    <3>4. /\ index[q].run \in Nat /\ index[q].subRun \in Nat /\ entry.run \in Nat /\ entry.subRun \in Nat
          /\ opts.first.run \in Nat /\ opts.first.subRun \in Nat
      BY <1>2, <1>3, <3>3 DEF ID
    <3>5. /\ ~ (index[q].run < entry.run)
          /\ index[q].run = entry.run => ~ (index[q].subRun < entry.subRun)
      BY <3>2 DEF Before, SubRunOf, SubRunEntry
    <3>6. /\ ~ (entry.run < opts.first.run)
          /\ entry.run = opts.first.run => ~ (entry.subRun < opts.first.subRun)
      BY <2>3 DEF Before, SubRunOf, SubRunEntry
    <3>7. \/ index[q].run < opts.first.run
          \/ index[q].run = opts.first.run /\ index[q].subRun <= opts.first.subRun
      BY <3>1, <3>4 DEF Before
    <3> QED BY <3>4, <3>5, <3>6, <3>7
  <2>5. ASSUME NEW q \in DOMAIN index, fiIter < q, q < fiIter', fiIter' \in DOMAIN index
        PROVE  /\ index[q] = RunOf(index[fiIter']) => index[fiIter'].run = entry.run
               /\ index[q] = SubRunOf(index[fiIter']) => index[q] = SubRunOf(entry)
    BY <2>4, <2>5 DEF RunOf, RunEntry, SubRunOf, SubRunEntry
  <2>6. CASE fiIter' = fiIter
    BY <1>1, <2>6
  <2>7. CASE fiIter < fiIter'
    BY <1>1, <2>1, <2>2, <2>5, <2>7, FitsFurtherOn
  <2> QED BY <1>2, <2>2, <2>6, <2>7
<1> QED BY <1>1, <1>4, <1>6, <1>7, <1>8

(* After a run or a subrun the cursor stands on what belongs to it.        *)
LEMMA FitsAfterRead ==
  ASSUME TypeOK, ReadRunOrSubRun, opts.first.run <= entry.run,
         item = "SubRun" => ~ Before(SubRunOf(entry), SubRunOf(opts.first))
  PROVE  rootFile # 0 /\ FitsAt(fiIter', context')
<1>1. /\ item \in {"Run", "SubRun"} /\ item = type /\ rootFile # 0
      /\ fiIter' = FragmentsEnd(index, fiIter) /\ context' = [file |-> rootFile, id |-> entry]
  BY DEF ReadRunOrSubRun, TypeOK
<1>2. /\ index \in Seq(ID) /\ fiIter \in DOMAIN index /\ entry \in ID /\ entry = index[fiIter]
      /\ SortedBySubRun(index) /\ Nested(index) /\ EntryType(entry) = type
  BY <1>1, CursorType, IndexSorted DEF entry
<1>3. fiIter < fiIter' /\ fiIter' \in 1..End(index)
  BY <1>1, <1>2, SearchesGoForward, SearchesStayInside
<1>4. ASSUME NEW q \in DOMAIN index, fiIter < q, q < fiIter' PROVE index[q] = entry
  <2>1. ~ (FragmentsEnd(index, fiIter) <= q)
    BY <1>1, <1>2, <1>3, <1>4 DEF End
  <2> QED BY <1>2, <1>4, <2>1, SearchesStopFirst
<1>5. CASE fiIter' = End(index)
  BY <1>1, <1>5 DEF FitsAt, TypeAt
<1>6. CASE fiIter' # End(index)
  <2>1. fiIter' \in DOMAIN index /\ TypeAt(index, fiIter') = EntryType(index[fiIter'])
    BY <1>2, <1>3, <1>6 DEF TypeAt, End
  <2>2. ASSUME EntryType(index[fiIter']) # "Run" PROVE index[fiIter'].run = entry.run
    <3>1. \A q \in DOMAIN index : fiIter < q /\ q < fiIter' /\ index[q] = RunOf(index[fiIter']) =>
            index[fiIter'].run = entry.run
      BY <1>4 DEF RunOf, RunEntry
    <3> QED BY <1>2, <1>3, <2>1, <2>2, <3>1, Announced
  <2>3. entry.event = 0 /\ entry = SubRunOf(entry)
    BY <1>1, <1>2 DEF EntryType, SubRunOf, SubRunEntry, ID
  <2>4. ASSUME EntryType(index[fiIter']) = "Event"
        PROVE  SubRunOf(index[fiIter']) = entry /\ type = "SubRun"
    <3>1. \A q \in DOMAIN index : fiIter < q /\ q < fiIter' /\ index[q] = SubRunOf(index[fiIter']) =>
            entry = SubRunOf(index[fiIter'])
      BY <1>4
    <3>2. SubRunOf(index[fiIter']) = entry
      BY <1>2, <1>3, <2>1, <2>3, <2>4, <3>1, Announced
    <3>3. index[fiIter'].subRun # 0
      BY <1>2, <2>1, <2>4 DEF Nested
    <3>4. entry.subRun # 0
      BY <3>2, <3>3 DEF SubRunOf, SubRunEntry
    <3> QED BY <1>2, <2>3, <3>2, <3>4 DEF EntryType
  <2>5. opts.first.run <= entry.run /\ (type = "SubRun" => ~ Before(SubRunOf(entry), SubRunOf(opts.first)))
    BY <1>1
  <2>6. TypeAt(index, fiIter') \in {"SubRun", "Event"} =>
          context'.file = rootFile /\ context'.id.run = index[fiIter'].run /\ opts.first.run <= index[fiIter'].run
    BY <1>1, <2>1, <2>2, <2>5
  <2>7. TypeAt(index, fiIter') = "Event" =>
          /\ context'.id = SubRunOf(index[fiIter'])
          /\ ~ Before(SubRunOf(index[fiIter']), SubRunOf(opts.first))
    BY <1>1, <2>1, <2>3, <2>4, <2>5
  <2> QED BY <1>1, <2>6, <2>7 DEF FitsAt
<1> QED BY <1>1, <1>5, <1>6

(* A file is opened at its front, which is not an event.                   *)
LEMMA FitsAtFront == ASSUME TypeOK, NEW c, rootFile # 0 PROVE FitsAt(1, c)
<1>1. index \in Seq(ID) /\ Nested(index)
  BY CursorType, IndexSorted
<1>2. TypeAt(index, 1) \in {"Run", "End"}
  BY <1>1, FrontOfIndex
<1> QED BY <1>2 DEF FitsAt

LEMMA ContextAtFront ==
  TypeOK /\ fiIter = 1 /\ item \in {"Idle", "Failed"} => ContextInv
BY FitsAtFront DEF ContextInv, ContextFits

(* What fits still does when the cursor stays, ...                         *)
LEMMA FitsStaying ==
  ASSUME NEW c, ContextFits(c), UNCHANGED <<catalog, opts, rootFile, fiIter>>,
         item' \in {"Run", "SubRun"} => item' = item
  PROVE  ContextFits(c)'
<1>1. rootFile' # 0 => index' = index /\ entry' = entry
  BY DEF index, IndexOf, entry
<1> QED BY <1>1 DEF ContextFits, FitsAt

(* ... and when it moves to where c fits too.                              *)
LEMMA FitsMoved ==
  ASSUME NEW c, rootFile # 0, UNCHANGED <<catalog, opts, rootFile>>, FitsAt(fiIter', c),
         item' \notin {"Run", "SubRun"}
  PROVE  ContextFits(c)'
<1>1. index' = index
  BY DEF index, IndexOf
<1> QED BY <1>1 DEF ContextFits, FitsAt

(* So it does as the next entry wanted is looked for.                      *)
LEMMA FitsWhileSearching ==
  ASSUME TypeOK, NEW c, ContextFits(c), Limits \/ Wanted
  PROVE  ContextFits(c)'
<1>1. CASE Limits \/ EndSkipping \/ WantEvent
  <2>1. UNCHANGED <<catalog, opts, rootFile, fiIter>> /\ item' \notin {"Run", "SubRun"}
    BY <1>1
    DEF Limits, LimitReached, FirstItem, AskFile, NoMoreEntries, EndSkipping, WantEvent,
        MoveTo, config, sequence, file
  <2> QED BY <2>1, FitsStaying
<1>2. CASE WantRun \/ WantSubRun
  <2>1. /\ UNCHANGED <<catalog, opts, rootFile, fiIter>> /\ item' = type /\ type \in {"Run", "SubRun"}
        /\ rootFile # 0
    BY <1>2 DEF WantRun, WantSubRun, MoveTo, config, sequence, type
  <2>2. index' = index /\ entry' = entry
    BY <2>1 DEF index, IndexOf, entry
  <2>3. FitsAt(fiIter, c) /\ FitsAt(fiIter, c)' /\ TypeAt(index, fiIter) = type
    BY <2>1, <2>2 DEF ContextFits, FitsAt, type
  <2>4. entry \in ID /\ entry = index[fiIter] /\ opts.first \in ID
    BY <2>1, CursorType, ConfigType DEF entry, Option
  <2>5. opts.first.run <= entry.run
    <3>1. CASE WantSubRun
      <4>1. type = "SubRun"
        BY <3>1 DEF WantSubRun
      <4> QED BY <2>3, <2>4, <4>1 DEF FitsAt
    <3>2. CASE WantRun
      <4>1. ~ Before(RunOf(entry), RunOf(opts.first))
        BY <3>2 DEF WantRun
      <4> QED BY <2>4, <4>1 DEF Before, RunOf, RunEntry, ID
    <3> QED BY <1>2, <3>1, <3>2
  <2>6. type = "SubRun" => ~ Before(SubRunOf(entry), SubRunOf(opts.first))
    <3>1. type = "SubRun" => ~ BeforeFirstSubRun
      BY <1>2 DEF WantRun, WantSubRun
    <3> QED BY <2>4, <2>5, <3>1 DEF BeforeFirstSubRun, Before, SubRunOf, SubRunEntry, RunOf, RunEntry, ID
  <2> QED BY <2>1, <2>2, <2>3, <2>5, <2>6 DEF ContextFits
<1>3. CASE SkipToFirstRun \/ SkipToNextRun \/ SkipToFirstSubRun \/ SkipToNextSubRun \/ SkipToFirstEvent
  <2>1. rootFile # 0 /\ FitsAt(fiIter', c)
    BY <1>3, FitsAfterSearch DEF ContextFits
  <2>2. UNCHANGED <<catalog, opts, rootFile>> /\ item' \notin {"Run", "SubRun"}
    BY <1>3 DEF SkipToFirstRun, SkipToNextRun, SkipToFirstSubRun, SkipToNextSubRun, SkipToFirstEvent,
                MoveTo, config, sequence
  <2> QED BY <2>1, <2>2, FitsMoved
<1>4. CASE DropDuplicate \/ SkipEvent
  <2>1. /\ type = "Event" /\ fiIter' = fiIter + 1 /\ UNCHANGED <<catalog, opts, rootFile>>
        /\ item' \notin {"Run", "SubRun"}
    BY <1>4 DEF DropDuplicate, SkipEvent, AtEvent, MoveTo, config, sequence
  <2>2. rootFile # 0 /\ FitsAt(fiIter, c)
    BY <2>1 DEF type, ContextFits
  <2> QED BY <2>1, <2>2, FitsNext, FitsMoved
<1> QED BY <1>1, <1>2, <1>3, <1>4 DEF Wanted

(* Every step keeps the cursor in the run or subrun read last.             *)
LEMMA ContextStep == TypeOK /\ ContextInv /\ [Next]_vars => ContextInv'
<1> SUFFICES ASSUME TypeOK, ContextInv, [Next]_vars PROVE ContextInv'
  OBVIOUS
<1>1. TypeOK'
  BY TypeCorrectStep
<1>2. (TypeOK /\ fiIter = 1 /\ item \in {"Idle", "Failed"})' => ContextInv'
  BY ContextAtFront, PTL
<1>3. ASSUME NEW c, c = context', ContextFits(c)' PROVE ContextInv'
  BY <1>3 DEF ContextInv, ContextFits
<1>4. ASSUME NEW s, NEW c, OpenNext(s, c), item' \in {"Idle", "Failed"} PROVE ContextInv'
  <2>1. rootFile' = 0 \/ fiIter' = 1
    BY <1>4 DEF OpenNext
  <2> QED BY <1>1, <1>2, <1>4, <2>1 DEF ContextInv, ContextFits
<1>5. CASE Construct \/ ReadNextFile
  BY <1>4, <1>5 DEF Construct, ReadNextFile
<1>6. CASE StopJob
  BY <1>6 DEF StopJob, ContextInv, ContextFits
<1>7. CASE ReadFirstFile \/ ReadEventThrows \/ UNCHANGED vars
  <2>1. /\ UNCHANGED <<catalog, opts, rootFile, fiIter, context>>
        /\ item' \in {"Run", "SubRun"} => item' = item
    BY <1>7 DEF ReadFirstFile, ReadEventThrows, MoveTo, vars, config, sequence, file, loop
  <2> QED BY <1>3, <2>1, FitsStaying DEF ContextInv
<1>8. CASE Limits \/ Wanted
  <2>1. UNCHANGED context
    BY <1>8 DEF Limits, LimitReached, FirstItem, AskFile, NoMoreEntries, Wanted, SkipToFirstRun, WantRun,
       SkipToNextRun, SkipToFirstSubRun, WantSubRun, SkipToNextSubRun, SkipToFirstEvent,
       DropDuplicate, WantEvent, SkipEvent, EndSkipping, MoveTo
  <2> QED BY <1>3, <1>8, <2>1, FitsWhileSearching DEF ContextInv
<1>9. CASE ReadEvent
  <2>1. /\ type = "Event" /\ fiIter' = fiIter + 1 /\ UNCHANGED <<catalog, opts, rootFile, context>>
        /\ item' \notin {"Run", "SubRun"}
    BY <1>9 DEF ReadEvent, config, sequence, TypeOK
  <2>2. rootFile # 0 /\ FitsAt(fiIter, context)
    BY <2>1 DEF type, ContextInv, ContextFits
  <2> QED BY <1>3, <2>1, <2>2, FitsNext, FitsMoved
<1>10. CASE ReadRunOrSubRun
  <2>1. rootFile # 0 /\ FitsAt(fiIter', context')
    <3>1. item \in {"Run", "SubRun"} /\ rootFile # 0
      BY <1>10 DEF ReadRunOrSubRun, TypeOK
    <3> QED BY <1>10, <3>1, FitsAfterRead DEF ContextInv, ContextFits
  <2>2. UNCHANGED <<catalog, opts, rootFile>> /\ item' = "Idle"
    BY <1>10 DEF ReadRunOrSubRun, config, sequence
  <2> QED BY <1>3, <2>1, <2>2, FitsMoved
<1> QED BY <1>5, <1>6, <1>7, <1>8, <1>9, <1>10 DEF Next, Files, Reads

(* Each event is read when the SubRun entry that was read last, from this  *)
(* same file, is that of its own subrun, whatever was jumped over.         *)
THEOREM EventsReadInTheirSubRun == Spec => EventsInTheirSubRun
<1>1. Init => TypeOK /\ ContextInv
  <2>1. Init => rootFile = 0
    BY DEF Init
  <2> QED BY <2>1, TypeCorrectInit DEF ContextInv, ContextFits
<1>2. TypeOK /\ ContextInv /\ [Next]_vars => TypeOK' /\ ContextInv'
  BY TypeCorrectStep, ContextStep
<1>3. TypeOK /\ ContextInv /\ [Next]_vars =>
        [delivered' # delivered => context = [file |-> rootFile, id |-> SubRunOf(entry)]]_vars
  <2> SUFFICES ASSUME TypeOK, ContextInv, [Next]_vars, delivered' # delivered
               PROVE  context = [file |-> rootFile, id |-> SubRunOf(entry)]
    OBVIOUS
  <2>1. ReadEvent
    BY DEF Next, Files, Limits, Wanted, Reads, vars, history,
       Construct, ReadFirstFile, ReadNextFile, StopJob, LimitReached, FirstItem, AskFile, NoMoreEntries,
       SkipToFirstRun, WantRun, SkipToNextRun, SkipToFirstSubRun, WantSubRun, SkipToNextSubRun,
       SkipToFirstEvent, DropDuplicate, WantEvent, SkipEvent, EndSkipping, ReadRunOrSubRun,
       ReadEventThrows
  <2>2. rootFile # 0 /\ type = "Event" /\ FitsAt(fiIter, context)
    BY <2>1 DEF ReadEvent, TypeOK, ContextInv, ContextFits, type
  <2>3. context \in [file : Nat, id : ID] /\ TypeAt(index, fiIter) = "Event"
    BY <2>2 DEF TypeOK, type
  <2>4. context.file = rootFile /\ context.id = SubRunOf(entry)
    BY <2>2, <2>3 DEF FitsAt, entry
  <2> QED BY <2>3, <2>4
<1> QED BY <1>1, <1>2, <1>3, PTL DEF Spec, EventsInTheirSubRun

-----------------------------------------------------------------------------
(***************************************************************************)
(* A file whose event tree may be copied as a whole is read as a whole     *)
(***************************************************************************)
Taken(at) == at \in dropped \/ \E i \in DOMAIN delivered : delivered[i] = at

EventsLeft == {p \in Events(index) : p >= fiIter}

(* Of a fast clonable file each event up to the cursor was taken, all that *)
(* are left are wanted, and the limit leaves room for them.                *)
WholeInv ==
  rootFile # 0 /\ fastClonable =>
    /\ opts.mode = "RunsSubRunsAndEvents" /\ fileEventsToSkip = 0
    /\ \A p \in Events(index) : ~ Before(index[p], opts.first)
    /\ \A p \in Events(index) : p < fiIter => Taken([file |-> rootFile, pos |-> p])
    /\ remainingEvents >= 0 => Cardinality(EventsLeft) <= remainingEvents
    /\ item \in {"File", "Stop"} /\ fileBlock => EventsLeft = {}

(* Before the first file is announced no file was read.                    *)
FirstInv == firstFile => ~ fileBlock /\ item \in {"Construct", "Idle", "Stop", "Stopped", "Failed"}

(* There are finitely many events in what is left of the index.            *)
LEMMA EventsLeftFinite ==
  ASSUME TypeOK, rootFile # 0
  PROVE  IsFiniteSet(EventsLeft) /\ Cardinality(EventsLeft) \in Nat
<1>1. index \in Seq(ID)
  BY CursorType
<1>2. Len(index) \in Int /\ EventsLeft \in SUBSET (1..Len(index))
  BY <1>1 DEF EventsLeft, Events
<1>3. IsFiniteSet(1..Len(index))
  BY <1>2, FS_Interval
<1>4. IsFiniteSet(EventsLeft)
  BY <1>2, <1>3, FS_Subset
<1> QED BY <1>4, FS_CardinalityType

(* After an event that is not before the first one wanted none is.         *)
LEMMA NoEventBeforeLater ==
  ASSUME NEW ix \in Seq(ID), NEW first \in ID, SortedBySubRun(ix), Sorted(ix) \/ first.event = 1,
         NEW p0 \in Events(ix), ~ Before(ix[p0], first), NEW p \in Events(ix), p0 < p
  PROVE  ~ Before(ix[p], first)
<1>1. /\ p0 \in DOMAIN ix /\ p \in DOMAIN ix /\ ix[p0] \in ID /\ ix[p] \in ID
      /\ EntryType(ix[p]) = "Event" /\ ~ Before(ix[p0], first)
  BY DEF Events
<1>2. ~ Before(SubRunOf(ix[p]), SubRunOf(ix[p0]))
  BY <1>1 DEF SortedBySubRun
<1>3. ix[p].event # 0
  BY <1>1 DEF EntryType
<1>4. /\ ix[p].run \in Nat /\ ix[p].subRun \in Nat /\ ix[p].event \in Nat
      /\ ix[p0].run \in Nat /\ ix[p0].subRun \in Nat /\ ix[p0].event \in Nat
      /\ first.run \in Nat /\ first.subRun \in Nat /\ first.event \in Nat
  BY <1>1 DEF ID
<1>5. /\ ~ (ix[p].run < ix[p0].run)
      /\ ix[p].run = ix[p0].run => ~ (ix[p].subRun < ix[p0].subRun)
  BY <1>2 DEF Before, SubRunOf, SubRunEntry
<1>6. /\ ~ (ix[p0].run < first.run)
      /\ ix[p0].run = first.run => ~ (ix[p0].subRun < first.subRun)
      /\ ix[p0].run = first.run /\ ix[p0].subRun = first.subRun => ~ (ix[p0].event < first.event)
  BY <1>1 DEF Before
<1>7. ASSUME ix[p].run = first.run, ix[p].subRun = first.subRun PROVE ~ (ix[p].event < first.event)
  <2>1. ix[p0].run = first.run /\ ix[p0].subRun = first.subRun
    BY <1>4, <1>5, <1>6, <1>7
  <2>2. CASE Sorted(ix)
    <3>1. ~ Before(ix[p], ix[p0])
      BY <1>1, <2>2 DEF Sorted
    <3>2. ~ (ix[p].event < ix[p0].event)
      BY <1>7, <2>1, <3>1 DEF Before
    <3> QED BY <1>4, <1>6, <2>1, <3>2
  <2>3. CASE first.event = 1
    BY <1>3, <1>4, <2>3
  <2> QED BY <2>2, <2>3
<1>8. ~ (ix[p].run < first.run) /\ (ix[p].run = first.run => ~ (ix[p].subRun < first.subRun))
  BY <1>4, <1>5, <1>6
<1> QED BY <1>7, <1>8 DEF Before

(* In a file whose first event is not before the first one wanted no event *)
(* is.                                                                     *)
LEMMA NoEventBeforeFirst ==
  ASSUME NEW ix \in Seq(ID), NEW first \in ID, SortedBySubRun(ix), Sorted(ix) \/ first.event = 1,
         Events(ix) # {}, ~ Before(ix[FirstOf(ix, Events(ix))], first), NEW p \in Events(ix)
  PROVE  ~ Before(ix[p], first)
<1> DEFINE p0 == FirstOf(ix, Events(ix))
<1>1. Events(ix) \in SUBSET DOMAIN ix
  BY DEF Events
<1>2. p0 \in Events(ix) /\ p0 <= p /\ p0 \in Int /\ p \in Int
  BY <1>1, FirstOfSequence
<1>3. ~ Before(ix[p0], first)
  OBVIOUS
<1> HIDE DEF p0
<1>4. CASE p0 = p
  BY <1>3, <1>4
<1>5. CASE p0 < p
  BY <1>2, <1>3, <1>5, NoEventBeforeLater
<1> QED BY <1>2, <1>4, <1>5

(* The index of the open file is one that can be searched.                 *)
WellSorted ==
  index \in Seq(ID) /\ SortedBySubRun(index) /\ (Sorted(index) \/ opts.first.event = 1)

LEMMA IndexWellSorted == TypeOK /\ rootFile # 0 => WellSorted
BY CursorType, IndexSorted DEF WellSorted

(* A file that is opened as fast clonable is wanted as a whole.            *)
LEMMA OpenedWhole ==
  ASSUME TypeOK, TypeOK', NEW s, NEW c, OpenNext(s, c),
         UNCHANGED <<catalog, opts, remainingEvents>>, item' \in {"Idle", "Failed"}
  PROVE  WholeInv'
<1> SUFFICES ASSUME rootFile' # 0, fastClonable' PROVE WholeInv'
  BY DEF WholeInv
<1>1. /\ rootFile' = NextTried /\ fiIter' = 1 /\ fileEventsToSkip' = s
      /\ SetIfFastClonable(catalog[NextTried], s)
  BY DEF OpenNext
<1>2. index' = IndexOf(catalog[NextTried])
  BY <1>1 DEF index, IndexOf
<1>3. (TypeOK /\ rootFile # 0)' => WellSorted'
  BY IndexWellSorted, PTL
<1>4. index' \in Seq(ID) /\ SortedBySubRun(index') /\ (Sorted(index') \/ opts'.first.event = 1)
  BY <1>3 DEF WellSorted, SortedBySubRun, Sorted
<1>5. opts'.first \in ID
  BY ConfigType DEF Option
<1>6. /\ s = 0 /\ opts'.mode = "RunsSubRunsAndEvents" /\ Events(index') # {}
      /\ remainingEvents' >= 0 => Cardinality(Events(index')) <= remainingEvents'
      /\ ~ Before(index'[FirstOf(index', Events(index'))], opts'.first)
  BY <1>1, <1>2 DEF SetIfFastClonable
<1>7. \A p \in Events(index') : ~ Before(index'[p], opts'.first)
  BY <1>4, <1>5, <1>6, NoEventBeforeFirst
<1>8. \A p \in Events(index') : p \in Nat /\ p >= 1
  BY <1>4 DEF Events
<1>9. EventsLeft' = Events(index')
  BY <1>1, <1>8 DEF EventsLeft, Events
<1>10. \A p \in Events(index') : ~ (p < fiIter')
  BY <1>1, <1>8
<1> QED BY <1>1, <1>6, <1>7, <1>9, <1>10 DEF WholeInv, Events

(* The searches for the first run or subrun pass over no event of a file   *)
(* that has none before the first one wanted.                              *)
LEMMA SearchesPassNoEvent ==
  ASSUME TypeOK, SkipToFirstRun \/ SkipToFirstSubRun,
         NEW p \in Events(index), ~ Before(index[p], opts.first), fiIter <= p
  PROVE  fiIter' <= p
<1>1. rootFile # 0 /\ type \in {"Run", "SubRun"}
  BY DEF SkipToFirstRun, SkipToFirstSubRun, type
<1>2. /\ index \in Seq(ID) /\ fiIter \in DOMAIN index /\ entry \in ID /\ entry = index[fiIter]
      /\ SortedBySubRun(index) /\ Nested(index) /\ EntryType(entry) = type
  BY <1>1, CursorType, IndexSorted DEF entry
<1>3. opts.first \in ID
  BY ConfigType DEF Option
<1>4. p \in DOMAIN index /\ EntryType(index[p]) = "Event" /\ index[p] \in ID /\ fiIter < p
  <2>1. p \in DOMAIN index /\ EntryType(index[p]) = "Event"
    BY DEF Events
  <2>2. p # fiIter
    BY <1>1, <1>2, <2>1
  <2> QED BY <1>2, <2>1, <2>2
<1>5. CASE SkipToFirstRun
  <2>1. /\ fiIter' = FindRunPosition(index, opts.first.run)
        /\ Before(RunOf(entry), RunOf(opts.first))
    BY <1>5 DEF SkipToFirstRun, MoveTo
  <2>2. entry.run < opts.first.run /\ ~ (index[p].run < opts.first.run)
    BY <1>2, <1>3, <1>4, <2>1 DEF Before, RunOf, RunEntry, ID
  <2>3. index[p].run # entry.run
    BY <2>2
  <2>4. PICK q \in DOMAIN index : fiIter < q /\ q < p /\ index[q] = RunOf(index[p])
    BY <1>2, <1>4, <2>3, Announced
  <2>5. EntryType(index[q]) = "Run" /\ index[q].run >= opts.first.run
    BY <1>3, <1>4, <2>2, <2>4 DEF EntryType, RunOf, RunEntry, ID
  <2>6. FindRunPosition(index, opts.first.run) <= q
    BY <1>2, <2>5, SearchesStopFirst
  <2>7. FindRunPosition(index, opts.first.run) \in Nat
    BY <1>2, SearchesStayInside DEF End
  <2> QED BY <1>2, <1>4, <2>1, <2>4, <2>6, <2>7
<1>6. CASE SkipToFirstSubRun
  <2> DEFINE id == SubRunOf(opts.first)
  <2>1. /\ fiIter' = FindSubRunOrRunPosition(index, id)
        /\ Before(SubRunOf(entry), id) /\ RunOf(entry) = RunOf(opts.first)
    BY <1>6 DEF SkipToFirstSubRun, BeforeFirstSubRun, MoveTo
  <2>2. ~ Before(SubRunOf(index[p]), id)
    BY <1>3, <1>4 DEF Before, SubRunOf, SubRunEntry, ID
  <2> HIDE DEF id
  <2>3. SubRunOf(index[p]) # SubRunOf(entry)
    BY <2>1, <2>2
  <2>4. PICK q \in DOMAIN index : fiIter < q /\ q < p /\ index[q] = SubRunOf(index[p])
    BY <1>2, <1>4, <2>3, Announced
  <2>5. EntryType(index[q]) # "Event"
    BY <2>4 DEF EntryType, SubRunOf, SubRunEntry
  <2>6. FindSubRunOrRunPosition(index, id) <= q
    BY <1>2, <2>2, <2>4, <2>5, SearchesStopFirst
  <2>7. FindSubRunOrRunPosition(index, id) \in Nat
    BY <1>2, SearchesStayInside DEF End
  <2> QED BY <1>2, <1>4, <2>1, <2>4, <2>6, <2>7
<1> QED BY <1>5, <1>6

(* A file stays wanted as a whole while the cursor passes over no event    *)
(* that was not taken and as many are taken off the limit at most.         *)
LEMMA WholeKept ==
  ASSUME TypeOK, WholeInv,
         UNCHANGED <<catalog, opts, rootFile, fastClonable, fileEventsToSkip>>,
         rootFile # 0 => fiIter' \in Nat /\ fiIter <= fiIter',
         \A at : Taken(at) => Taken(at)',
         rootFile # 0 /\ fastClonable =>
           \A p \in Events(index) : fiIter <= p /\ p < fiIter' => Taken([file |-> rootFile, pos |-> p])',
         \/ remainingEvents' = remainingEvents
         \/ /\ remainingEvents' = remainingEvents - 1
            /\ fiIter \in Events(index) /\ fiIter < fiIter',
         item' \in {"File", "Stop"} /\ fileBlock' /\ rootFile # 0 /\ fastClonable => EventsLeft' = {}
  PROVE  WholeInv'
<1> SUFFICES ASSUME rootFile # 0, fastClonable PROVE WholeInv'
  BY DEF WholeInv
<1>1. index' = index /\ index \in Seq(ID) /\ fiIter \in Nat /\ fiIter' \in Nat /\ fiIter <= fiIter'
  BY CursorType DEF index, IndexOf, TypeOK
<1>2. \A p \in Events(index) : p \in Nat
  BY <1>1 DEF Events
<1>3. ASSUME NEW p \in Events(index), p < fiIter' PROVE Taken([file |-> rootFile, pos |-> p])'
  <2>1. CASE p < fiIter
    BY <1>3, <2>1 DEF WholeInv
  <2>2. CASE fiIter <= p
    BY <1>3, <2>2
  <2> QED BY <1>1, <1>2, <2>1, <2>2
<1>4. remainingEvents' >= 0 => Cardinality(EventsLeft') <= remainingEvents'
  <2>1. IsFiniteSet(EventsLeft) /\ Cardinality(EventsLeft) \in Nat
    BY EventsLeftFinite
  <2>2. EventsLeft' \in SUBSET EventsLeft
    BY <1>1, <1>2 DEF EventsLeft
  <2>3. Cardinality(EventsLeft') <= Cardinality(EventsLeft) /\ Cardinality(EventsLeft') \in Nat
    BY <2>1, <2>2, FS_Subset, FS_CardinalityType
  <2>4. remainingEvents \in Int /\ (remainingEvents >= 0 => Cardinality(EventsLeft) <= remainingEvents)
    BY DEF TypeOK, WholeInv
  <2>5. CASE remainingEvents' = remainingEvents
    BY <2>1, <2>3, <2>4, <2>5
  <2>6. CASE /\ remainingEvents' = remainingEvents - 1
             /\ fiIter \in Events(index) /\ fiIter < fiIter'
    <3>1. fiIter \in EventsLeft /\ EventsLeft' \in SUBSET (EventsLeft \ {fiIter})
      BY <1>1, <1>2, <2>2, <2>6 DEF EventsLeft
    <3>2. /\ IsFiniteSet(EventsLeft \ {fiIter})
          /\ Cardinality(EventsLeft \ {fiIter}) = Cardinality(EventsLeft) - 1
      BY <2>1, <3>1, FS_RemoveElement
    <3>3. Cardinality(EventsLeft') <= Cardinality(EventsLeft) - 1
      BY <3>1, <3>2, FS_Subset
    <3> QED BY <2>1, <2>3, <2>4, <2>6, <3>3
  <2> QED BY <2>5, <2>6
<1>5. Events(index') = Events(index) /\ opts' = opts /\ rootFile' = rootFile
  BY <1>1
<1>6. opts'.mode = "RunsSubRunsAndEvents" /\ fileEventsToSkip' = 0
  BY DEF WholeInv
<1>7. \A p \in Events(index) : ~ Before(index[p], opts.first)
  BY DEF WholeInv
<1>8. \A p \in Events(index') : ~ Before(index'[p], opts'.first)
  BY <1>1, <1>5, <1>7
<1>9. \A p \in Events(index') : p < fiIter' => Taken([file |-> rootFile, pos |-> p])'
  BY <1>3, <1>5
<1>10. item' \in {"File", "Stop"} /\ fileBlock' => EventsLeft' = {}
  OBVIOUS
<1> QED BY <1>4, <1>6, <1>8, <1>9, <1>10 DEF WholeInv, Events

(* Before the first file is announced nothing is read.                     *)
LEMMA FirstStep == TypeOK /\ FirstInv /\ [Next]_vars => FirstInv'
<1> SUFFICES ASSUME FirstInv, [Next]_vars, firstFile'
             PROVE  ~ fileBlock' /\ item' \in {"Construct", "Idle", "Stop", "Stopped", "Failed"}
  BY DEF FirstInv
<1>1. CASE firstFile /\ item \in {"Construct", "Idle", "Stop"}
  <2>1. \/ Construct \/ StopJob \/ LimitReached \/ FirstItem \/ AskFile \/ UNCHANGED vars
    BY <1>1 DEF Next, Files, Limits, Wanted, Reads,
       ReadFirstFile, ReadNextFile, NoMoreEntries,
       SkipToFirstRun, WantRun, SkipToNextRun, SkipToFirstSubRun, WantSubRun, SkipToNextSubRun,
       SkipToFirstEvent, DropDuplicate, WantEvent, SkipEvent, EndSkipping, ReadRunOrSubRun,
       ReadEvent, ReadEventThrows
  <2>2. ~ FirstItem /\ ~ AskFile
    BY <1>1 DEF FirstItem, AskFile
  <2> QED BY <1>1, <2>1, <2>2 DEF FirstInv, Construct, StopJob, LimitReached, vars, sequence, loop
<1>2. CASE firstFile /\ item \in {"Stopped", "Failed"}
  <2>1. UNCHANGED vars
    BY <1>2 DEF Next, Files, Limits, Wanted, Reads,
       Construct, ReadFirstFile, ReadNextFile, StopJob, LimitReached, FirstItem, AskFile, NoMoreEntries,
       SkipToFirstRun, WantRun, SkipToNextRun, SkipToFirstSubRun, WantSubRun, SkipToNextSubRun,
       SkipToFirstEvent, DropDuplicate, WantEvent, SkipEvent, EndSkipping, ReadRunOrSubRun,
       ReadEvent, ReadEventThrows
  <2> QED BY <1>2, <2>1 DEF FirstInv, vars, sequence, loop
<1>3. CASE ~ firstFile
  <2>1. UNCHANGED firstFile \/ firstFile' = FALSE
    BY DEF Next, Files, Limits, Wanted, Reads, vars, sequence,
       Construct, ReadFirstFile, ReadNextFile, StopJob, LimitReached, FirstItem, AskFile, NoMoreEntries,
       SkipToFirstRun, WantRun, SkipToNextRun, SkipToFirstSubRun, WantSubRun, SkipToNextSubRun,
       SkipToFirstEvent, DropDuplicate, WantEvent, SkipEvent, EndSkipping, ReadRunOrSubRun,
       ReadEvent, ReadEventThrows, MoveTo
  <2> QED BY <1>3, <2>1
<1> QED BY <1>1, <1>2, <1>3 DEF FirstInv

(* Every step takes the events it passes over of a fast clonable file.     *)
LEMMA WholeStep == TypeOK /\ FirstInv /\ WholeInv /\ [Next]_vars => WholeInv'
<1> SUFFICES ASSUME TypeOK, FirstInv, WholeInv, [Next]_vars PROVE WholeInv'
  OBVIOUS
<1>1. /\ TypeOK' /\ fiIter \in Nat /\ fiIter' \in Nat /\ delivered \in Seq(Position)
      /\ rootFile # 0 /\ fastClonable =>
           /\ opts.mode = "RunsSubRunsAndEvents" /\ fileEventsToSkip = 0
           /\ \A p \in Events(index) : ~ Before(index[p], opts.first)
  BY TypeCorrectStep DEF TypeOK, WholeInv
<1>2. CASE Construct \/ ReadNextFile
  <2>1. /\ \E s, c : OpenNext(s, c)
        /\ UNCHANGED <<catalog, opts, remainingEvents>> /\ item' \in {"Idle", "Failed"}
    BY <1>2 DEF Construct, ReadNextFile, config
  <2> QED BY <1>1, <2>1, OpenedWhole
<1>3. CASE StopJob
  BY <1>3 DEF StopJob, WholeInv
<1>4. UNCHANGED <<delivered, dropped>> => \A at : Taken(at) => Taken(at)'
  BY DEF Taken
<1>5. ASSUME UNCHANGED <<catalog, opts, rootFile, fastClonable, fileEventsToSkip, fiIter,
                         remainingEvents, delivered, dropped>>,
             item' \in {"File", "Stop"} /\ fileBlock' /\ rootFile # 0 /\ fastClonable => EventsLeft = {}
      PROVE  WholeInv'
  <2>1. rootFile # 0 => EventsLeft' = EventsLeft
    BY <1>5 DEF EventsLeft, Events, index, IndexOf
  <2>2. \A p \in Events(index) : ~ (fiIter <= p /\ p < fiIter')
    BY <1>1, <1>5 DEF Events
  <2>3. fiIter <= fiIter'
    BY <1>1, <1>5
  <2> QED BY <1>1, <1>4, <1>5, <2>1, <2>2, <2>3, WholeKept
<1>6. CASE ReadFirstFile \/ FirstItem \/ AskFile \/ WantRun \/ WantSubRun \/ WantEvent
           \/ EndSkipping \/ ReadEventThrows \/ UNCHANGED vars
  <2>1. item' \in {"File", "Stop"} /\ fileBlock' /\ rootFile # 0 /\ fastClonable => EventsLeft = {}
    BY <1>6 DEF ReadFirstFile, FirstItem, AskFile, WantRun, WantSubRun, WantEvent,
                EndSkipping, ReadEventThrows, vars, loop, FirstInv, WholeInv
  <2> QED
    BY <1>5, <1>6, <2>1
    DEF ReadFirstFile, FirstItem, AskFile, WantRun, WantSubRun, WantEvent, EndSkipping,
        ReadEventThrows, MoveTo, vars, config, sequence, file, loop, history
<1>7. CASE LimitReached
  <2>1. rootFile # 0 /\ fastClonable => EventsLeft = {}
    <3>1. rootFile # 0 /\ fastClonable => Cardinality(EventsLeft) <= 0
      BY <1>7 DEF LimitReached, WholeInv
    <3>2. rootFile # 0 => IsFiniteSet(EventsLeft) /\ Cardinality(EventsLeft) \in Nat
      BY EventsLeftFinite
    <3> QED BY <3>1, <3>2, FS_EmptySet
  <2> QED BY <1>5, <1>7, <2>1 DEF LimitReached, config, sequence, file, history
<1>8. CASE NoMoreEntries
  <2>1. ASSUME rootFile # 0 PROVE EventsLeft = {}
    <3>1. TypeAt(index, fiIter) = "End" /\ index \in Seq(ID) /\ fiIter \in 1..End(index)
      BY <1>8, <2>1, CursorType DEF NoMoreEntries, type
    <3>2. fiIter = Len(index) + 1
      BY <3>1 DEF TypeAt, EntryType, End
    <3> QED BY <3>1, <3>2 DEF EventsLeft, Events
  <2> QED BY <1>5, <1>8, <2>1 DEF NoMoreEntries, config, sequence, file, history
<1>9. ASSUME UNCHANGED <<catalog, opts, rootFile, fastClonable, fileEventsToSkip, delivered, dropped,
                         remainingEvents>>,
             rootFile # 0 => fiIter <= fiIter',
             rootFile # 0 /\ fastClonable => \A p \in Events(index) : ~ (fiIter <= p /\ p < fiIter'),
             item' \notin {"File", "Stop"}
      PROVE  WholeInv'
  BY <1>1, <1>4, <1>9, WholeKept
<1>10. CASE SkipToFirstRun \/ SkipToFirstSubRun
  <2>1. fiIter <= fiIter'
    BY <1>10, JumpsGoForward
  <2>2. rootFile # 0 /\ fastClonable => \A p \in Events(index) : ~ (fiIter <= p /\ p < fiIter')
    <3> SUFFICES ASSUME rootFile # 0, fastClonable, NEW p \in Events(index), fiIter <= p, p < fiIter'
                 PROVE  FALSE
      OBVIOUS
    <3>1. fiIter' <= p /\ p \in Nat
      BY <1>1, <1>10, CursorType, SearchesPassNoEvent DEF Events
    <3> QED BY <1>1, <3>1
  <2>3. /\ UNCHANGED <<catalog, opts, rootFile, fastClonable, fileEventsToSkip, delivered, dropped,
                       remainingEvents>>
        /\ item' \notin {"File", "Stop"}
    BY <1>10 DEF SkipToFirstRun, SkipToFirstSubRun, MoveTo, config, sequence, history
  <2> QED BY <1>9, <2>1, <2>2, <2>3
<1>11. CASE ReadRunOrSubRun
  <2>1. /\ item \in {"Run", "SubRun"} /\ type = item /\ rootFile # 0
        /\ fiIter' = FragmentsEnd(index, fiIter)
    BY <1>11 DEF ReadRunOrSubRun, TypeOK
  <2>2. /\ index \in Seq(ID) /\ fiIter \in DOMAIN index /\ SortedBySubRun(index)
        /\ entry = index[fiIter] /\ EntryType(entry) = type
    BY <2>1, CursorType, IndexSorted DEF entry
  <2>3. fiIter <= fiIter'
    BY <1>1, <2>1, <2>2, SearchesGoForward
  <2>4. ASSUME NEW p \in Events(index), fiIter <= p, p < fiIter' PROVE FALSE
    <3>1. p \in DOMAIN index /\ EntryType(index[p]) = "Event" /\ p \in Nat
      BY <2>2 DEF Events
    <3>2. index[p] # index[fiIter] /\ p # fiIter
      BY <2>1, <2>2, <3>1
    <3>3. p > fiIter
      BY <1>1, <2>4, <3>1, <3>2
    <3>4. FragmentsEnd(index, fiIter) <= p
      BY <2>2, <3>1, <3>2, <3>3, SearchesStopFirst
    <3> QED BY <1>1, <2>1, <2>4, <3>1, <3>4
  <2>5. /\ UNCHANGED <<catalog, opts, rootFile, fastClonable, fileEventsToSkip, delivered, dropped,
                       remainingEvents>>
        /\ item' \notin {"File", "Stop"}
    BY <1>11 DEF ReadRunOrSubRun, config, sequence, history
  <2> QED BY <1>9, <2>3, <2>4, <2>5
<1>12. CASE SkipToNextRun \/ SkipToNextSubRun \/ SkipToFirstEvent \/ SkipEvent
  <2>1. type # "End" /\ rootFile' = rootFile /\ fastClonable' = fastClonable
    BY <1>12 DEF SkipToNextRun, SkipToNextSubRun, SkipToFirstEvent, SkipEvent, AtEvent, MoveTo, sequence
  <2>2. rootFile # 0 /\ fiIter \in DOMAIN index /\ EntryType(index[fiIter]) = type
    BY <2>1, CursorType DEF type, entry
  <2>3. ASSUME fastClonable PROVE FALSE
    <3>1. CASE SkipToNextRun \/ SkipToNextSubRun
      BY <1>1, <2>2, <2>3, <3>1 DEF SkipToNextRun, SkipToNextSubRun
    <3>2. CASE SkipEvent
      BY <1>1, <2>2, <2>3, <3>2 DEF SkipEvent, MoreToSkip
    <3>3. CASE SkipToFirstEvent
      <4>1. fiIter \in Events(index) /\ Before(index[fiIter], opts.first)
        BY <2>2, <3>3 DEF SkipToFirstEvent, AtEvent, Events, entry
      <4> QED BY <1>1, <2>2, <2>3, <4>1
    <3> QED BY <1>12, <3>1, <3>2, <3>3
  <2> QED BY <2>1, <2>3 DEF WholeInv
<1>13. ASSUME type = "Event", fiIter' = fiIter + 1, item' \notin {"File", "Stop"},
              UNCHANGED <<catalog, opts, rootFile, fastClonable, fileEventsToSkip>>,
              \A at : Taken(at) \/ at = here => Taken(at)',
              remainingEvents' \in {remainingEvents, remainingEvents - 1}
       PROVE  WholeInv'
  <2>1. rootFile # 0 /\ fiIter \in Events(index)
    <3>1. type # "End" /\ rootFile # 0
      BY <1>13 DEF type
    <3> QED BY <1>13, <3>1, CursorType DEF Events, entry
  <2>2. ASSUME NEW p \in Events(index), fiIter <= p, p < fiIter' PROVE Taken([file |-> rootFile, pos |-> p])'
    <3>1. p \in Nat
      BY <2>1, CursorType DEF Events
    <3>2. here = [file |-> rootFile, pos |-> p] /\ rootFile' = rootFile
      BY <1>1, <1>13, <2>2, <3>1 DEF here
    <3>3. \A at : at = here => Taken(at)'
      BY <1>13
    <3> QED BY <3>2, <3>3
  <2> QED BY <1>1, <1>13, <2>1, <2>2, WholeKept
<1>14. CASE DropDuplicate
  <2>1. here \in dropped' /\ UNCHANGED delivered /\ dropped \subseteq dropped'
    BY <1>14 DEF DropDuplicate
  <2>2. \A at : Taken(at) \/ at = here => Taken(at)'
    BY <2>1 DEF Taken
  <2>3. type = "Event" /\ MoveTo(fiIter + 1) /\ item' = item /\ item \in {"Wanted", "Skipping"}
    BY <1>14 DEF DropDuplicate, AtEvent
  <2> QED BY <1>13, <2>1, <2>2, <2>3 DEF MoveTo, config, sequence
<1>15. CASE ReadEvent
  <2>1. /\ type = "Event" /\ rootFile # 0 /\ fiIter' = fiIter + 1 /\ item' = "Idle"
        /\ delivered' = Append(delivered, here) /\ dropped' = dropped
        /\ UNCHANGED <<catalog, opts, rootFile, fastClonable, fileEventsToSkip>>
        /\ remainingEvents' \in {remainingEvents, remainingEvents - 1}
    BY <1>15 DEF ReadEvent, TypeOK, config, sequence
  <2>2. here \in Position
    <3>1. rootFile \in Nat
      BY DEF TypeOK
    <3> QED BY <1>1, <3>1 DEF here, Position
  <2>3. ASSUME NEW at, Taken(at) \/ at = here PROVE Taken(at)'
    <3>1. CASE at \in dropped
      BY <2>1, <3>1 DEF Taken
    <3>2. CASE at = here
      <4>1. Len(delivered) + 1 \in DOMAIN delivered' /\ delivered'[Len(delivered) + 1] = here
        BY <1>1, <2>1, <2>2
      <4> QED BY <3>2, <4>1 DEF Taken
    <3>3. ASSUME NEW i \in DOMAIN delivered, delivered[i] = at PROVE Taken(at)'
      <4>1. i \in DOMAIN delivered' /\ delivered'[i] = at
        BY <1>1, <2>1, <2>2, <3>3
      <4> QED BY <4>1 DEF Taken
    <3> QED BY <2>3, <3>1, <3>2, <3>3 DEF Taken
  <2> QED BY <1>13, <2>1, <2>3
<1> QED
  BY <1>2, <1>3, <1>6, <1>7, <1>8, <1>10, <1>11, <1>12, <1>14, <1>15 DEF Next, Files, Limits, Wanted, Reads

(* The event tree of a fast clonable file may be copied at once: by the    *)
(* time the file is left each of its events was read or is a duplicate.    *)
THEOREM FastClonablesReadWhole == Spec => []FastClonableFileReadWhole
<1>1. Init => TypeOK /\ FirstInv /\ WholeInv
  <2>1. Init => rootFile = 0 /\ fileBlock = FALSE /\ item = "Construct"
    BY DEF Init
  <2> QED BY <2>1, TypeCorrectInit DEF FirstInv, WholeInv
<1>2. TypeOK /\ FirstInv /\ WholeInv /\ [Next]_vars => TypeOK' /\ FirstInv' /\ WholeInv'
  BY TypeCorrectStep, FirstStep, WholeStep
<1>3. TypeOK /\ WholeInv => FastClonableFileReadWhole
  <2> SUFFICES ASSUME TypeOK, WholeInv, rootFile # 0, fastClonable, item \in {"File", "Stop"}, fileBlock,
                      NEW p \in Events(index)
               PROVE  Taken([file |-> rootFile, pos |-> p])
    BY DEF FastClonableFileReadWhole, Taken
  <2>1. p \in Nat /\ fiIter \in Nat
    BY CursorType DEF Events, TypeOK
  <2>2. p \notin EventsLeft
    BY DEF WholeInv
  <2>3. p < fiIter
    BY <2>1, <2>2 DEF EventsLeft
  <2> QED BY <2>3 DEF WholeInv
<1> QED BY <1>1, <1>2, <1>3, PTL DEF Spec

-----------------------------------------------------------------------------
(***************************************************************************)
(* The refinement of EventStream.  A place is an entry of one of the job's *)
(* files, as EventStream has it, in the terms of InputSequence.            *)
(***************************************************************************)
IDOf(at) == IndexOf(catalog[at.file])[at.pos]

Asked(at) ==
  /\ at \in Position /\ at.file \in DOMAIN catalog /\ catalog[at.file].kind = "good"
  /\ opts.mode = "RunsSubRunsAndEvents"
  /\ at.pos \in Events(IndexOf(catalog[at.file]))
  /\ ~ Before(IDOf(at), opts.first)

Same(a, b) ==
  /\ IDOf(a) = IDOf(b)
  /\ \/ opts.dup = "checkAllFilesOpened"
     \/ opts.dup = "checkEachFile" /\ a.file = b.file
     \/ opts.dup = "checkEachRealDataFile" /\ a.file = b.file /\ catalog[a.file].real

Repeats(at) == \E b : Asked(b) /\ Precedes(b, at) /\ Same(at, b)

Chosen(at) == Asked(at) /\ ~ Repeats(at)

JobOver == item \in {"Stopped", "Failed"}

(* What lies behind the cursor, or behind the end of the last file read.   *)
Behind(at) == IF rootFile # 0 THEN Precedes(at, here) ELSE at.file <= current

(* The cursor goes on only below the limit, and a file is left or the job  *)
(* stopped at the end of what is to be read.                               *)
LimitInv ==
  /\ remainingEvents = IF opts.maxEvents < 0 THEN opts.maxEvents ELSE opts.maxEvents - Len(delivered)
  /\ opts.maxEvents >= 0 => remainingEvents >= 0
  /\ item \in {"File", "Wanted", "Skipping", "Run", "SubRun", "Event"} => remainingEvents # 0

LeftAtEnd ==
  /\ item = "File" /\ fileBlock => type = "End"
  /\ item = "Stop" => remainingEvents = 0 \/ (type = "End" /\ current = Len(catalog))

(* Between two events that are skipped an event behind was asked for.      *)
SkippingInv ==
  item = "Skipping" =>
    /\ opts.mode = "RunsSubRunsAndEvents"
    /\ \E p \in Events(index) : p < fiIter /\ ~ Before(index[p], opts.first)

(* The duplicate checker is set up for the file that is open, and knows    *)
(* the events behind the cursor and the one that is offered.               *)
CheckerSetUp ==
  PerFile =>
    /\ rootFile = 0 => checker = FreshChecker
    /\ rootFile # 0 /\ Events(index) # {} =>
         /\ checker.dataType = IF catalog[rootFile].real THEN "isRealData" ELSE "isSimulation"
         /\ checker.clean => EventsUniqueAndOrdered(catalog[rootFile].sorted)

InScope(at) == opts.dup = "checkAllFilesOpened" \/ at.file = rootFile

Seen(at) == Behind(at) \/ (item = "Event" /\ at = here)

CheckerKnows ==
  CheckActive =>
    \A id : id \in checker.ids <=>
      \E at : Asked(at) /\ InScope(at) /\ Seen(at) /\ IDOf(at) = id

(* What was skipped and read are the chosen events behind the cursor, and  *)
(* the event that is offered is one.                                       *)
PassedChosen ==
  /\ \A at : Chosen(at) /\ Behind(at) <=> \E i \in DOMAIN passed : passed[i] = at
  /\ item = "Event" => Chosen(here)

StreamInv ==
  /\ OrderInv /\ FirstInv /\ LimitInv /\ LeftAtEnd /\ SkippingInv
  /\ CheckerSetUp
  /\ ~ JobOver => CheckerKnows /\ PassedChosen

(* Places of the stream are places of the files, and asked for alike.      *)
LEMMA StreamTerms ==
  ASSUME TypeOK
  PROVE  /\ \A at : at \in Stream!Requested <=> Asked(at)
         /\ \A a, b : Stream!Precedes(a, b) = Precedes(a, b)
         /\ \A at : at \in Stream!Candidates <=> Chosen(at)
<1>1. /\ catalog \in Seq(File) /\ DOMAIN catalog \subseteq Nat
      /\ \A k \in DOMAIN catalog : IndexOf(catalog[k]) \in Seq(ID) /\ Stream!IndexOf(k) = IndexOf(catalog[k])
  BY ConfigType DEF IndexOf, Stream!IndexOf
<1>2. \A at : at \in Stream!Places <=>
                at \in Position /\ at.file \in DOMAIN catalog /\ at.pos \in DOMAIN IndexOf(catalog[at.file])
  <2>1. ASSUME NEW at, NEW f \in DOMAIN catalog, at \in [file : {f}, pos : DOMAIN Stream!IndexOf(f)]
        PROVE  at \in Position /\ at.file \in DOMAIN catalog /\ at.pos \in DOMAIN IndexOf(catalog[at.file])
    <3>1. at.file = f /\ at.pos \in DOMAIN IndexOf(catalog[f]) /\ at = [file |-> f, pos |-> at.pos]
      BY <1>1, <2>1
    <3>2. f \in Nat /\ at.pos \in Nat
      BY <1>1, <3>1
    <3> QED BY <3>1, <3>2 DEF Position
  <2>2. ASSUME NEW at \in Position, at.file \in DOMAIN catalog, at.pos \in DOMAIN IndexOf(catalog[at.file])
        PROVE  at \in [file : {at.file}, pos : DOMAIN Stream!IndexOf(at.file)]
    BY <1>1, <2>2 DEF Position
  <2> QED BY <2>1, <2>2 DEF Stream!Places
<1>3. /\ \A at \in Position : at.file \in DOMAIN catalog => Stream!IDAt(at) = IDOf(at)
      /\ \A a, b : Stream!Before(a, b) = Before(a, b)
      /\ \A id : Stream!EntryType(id) = EntryType(id)
      /\ \A a, b : Stream!Precedes(a, b) = Precedes(a, b)
  BY <1>1 DEF Stream!IDAt, IDOf, Stream!Before, Before, Stream!EntryType, EntryType, Stream!Precedes, Precedes
<1>4. \A at : at \in Stream!Requested <=> Asked(at)
  BY <1>2, <1>3 DEF Stream!Requested, Asked, Events, IDOf
<1>5. \A a, b : Asked(a) /\ Asked(b) => Stream!SameEvent(a, b) = Same(a, b)
  BY <1>3 DEF Stream!SameEvent, Same, Asked
<1>6. \A at : at \in Stream!Candidates <=> Chosen(at)
  BY <1>3, <1>4, <1>5 DEF Stream!Candidates, Chosen, Repeats
<1> QED BY <1>3, <1>4, <1>6

(* What is asked for is settled as the job begins.                         *)
LEMMA AskedSame ==
  ASSUME UNCHANGED config
  PROVE  /\ \A at : Asked(at)' <=> Asked(at)
         /\ \A at : IDOf(at)' = IDOf(at) /\ (InScope(at)' <=> opts.dup = "checkAllFilesOpened" \/ at.file = rootFile')
         /\ \A at : Chosen(at)' <=> Chosen(at)
<1>1. catalog' = catalog /\ opts' = opts
  BY DEF config
<1>2. /\ \A at : IDOf(at)' = IDOf(at)
      /\ \A at : (InScope(at)' <=> opts.dup = "checkAllFilesOpened" \/ at.file = rootFile')
  BY <1>1 DEF IDOf, IndexOf, InScope
<1>3. \A at : Asked(at)' <=> Asked(at)
  BY <1>1, <1>2 DEF Asked, IndexOf, Events, IDOf
<1>4. \A a, b : Same(a, b)' <=> Same(a, b)
  BY <1>1, <1>2 DEF Same
<1>5. \A at : Chosen(at)' <=> Chosen(at)
  BY <1>3, <1>4 DEF Chosen, Repeats
<1> QED BY <1>2, <1>3, <1>5

(* The two orders of an index have the same events, as often.              *)
LEMMA BothOrders ==
  ASSUME TypeOK, NEW k \in DOMAIN catalog
  PROVE  LET f == catalog[k] IN
         /\ Events(IndexOf(f)) # {} => Events(f.sorted) # {}
         /\ \A p, q \in Events(IndexOf(f)) :
              p # q /\ IndexOf(f)[p] = IndexOf(f)[q] => ~ EventsUniqueAndOrdered(f.sorted)
<1> DEFINE f == catalog[k]
           Of(ix, id) == {p \in DOMAIN ix : ix[p] = id}
<1>1. f \in File /\ f.sorted \in Seq(ID) /\ f.byEntry \in Seq(ID) /\ IndexOf(f) \in {f.sorted, f.byEntry}
  <2>1. f \in File
    BY ConfigType
  <2> HIDE DEF f
  <2> QED BY <2>1 DEF File, IndexOf
<1>2. SameEntries(f.sorted, f.byEntry)
  BY EntriesAssumption DEF TypeOK
<1> HIDE DEF f
<1>3. ASSUME NEW ix \in Seq(ID), NEW id
      PROVE  IsFiniteSet(Of(ix, id)) /\ Cardinality(Of(ix, id)) \in Nat
  <2>1. Of(ix, id) \in SUBSET (1..Len(ix)) /\ Len(ix) \in Int
    OBVIOUS
  <2>2. IsFiniteSet(1..Len(ix))
    BY <2>1, FS_Interval
  <2>3. IsFiniteSet(Of(ix, id))
    BY <2>1, <2>2, FS_Subset
  <2> QED BY <2>3, FS_CardinalityType
<1>4. \A p \in DOMAIN IndexOf(f) :
        Cardinality(Of(f.sorted, IndexOf(f)[p])) = Cardinality(Of(IndexOf(f), IndexOf(f)[p]))
  BY <1>1, <1>2 DEF SameEntries
<1>5. ASSUME NEW p \in Events(IndexOf(f)) PROVE Events(f.sorted) # {}
  <2> DEFINE id == IndexOf(f)[p]
  <2>1. p \in Of(IndexOf(f), id) /\ p \in DOMAIN IndexOf(f) /\ EntryType(id) = "Event"
    BY DEF Events
  <2> HIDE DEF id, Of
  <2>2. Cardinality(Of(IndexOf(f), id)) # 0
    BY <1>1, <1>3, <2>1, FS_EmptySet
  <2>3. Cardinality(Of(f.sorted, id)) # 0
    BY <1>4, <2>1, <2>2 DEF id
  <2>4. Of(f.sorted, id) # {}
    BY <2>3, FS_EmptySet
  <2> QED BY <2>1, <2>4 DEF Of, Events
<1>6. ASSUME NEW p \in Events(IndexOf(f)), NEW q \in Events(IndexOf(f)),
             p # q, IndexOf(f)[p] = IndexOf(f)[q], EventsUniqueAndOrdered(f.sorted)
      PROVE  FALSE
  <2> DEFINE id == IndexOf(f)[p]
             S  == Of(IndexOf(f), id)
             T  == Of(f.sorted, id)
  <2>1. p \in S /\ q \in S /\ p \in DOMAIN IndexOf(f) /\ EntryType(id) = "Event"
    BY <1>6 DEF Events
  <2>2. \A a, b \in T : a = b
    BY <1>6, <2>1 DEF EventsUniqueAndOrdered, Events
  <2>3. IsFiniteSet(S) /\ IsFiniteSet(T) /\ Cardinality(T) = Cardinality(S) /\ Cardinality(S) \in Nat
    BY <1>1, <1>3, <1>4, <2>1
  <2> HIDE DEF S, T, id
  <2>4. Cardinality(T) <= 1
    <3>1. CASE T = {}
      BY <3>1, FS_EmptySet
    <3>2. CASE T # {}
      <4>1. PICK a \in T : T = {a}
        BY <2>2, <3>2
      <4>2. Cardinality({a}) = 1
        BY FS_Singleton
      <4> QED BY <4>1, <4>2
    <3> QED BY <3>1, <3>2
  <2>5. Cardinality(S) >= 2
    <3>1. {p, q} \in SUBSET S
      BY <2>1
    <3>2. Cardinality({p, q}) = 2
      <4>1. IsFiniteSet({p}) /\ Cardinality({p}) = 1
        BY FS_Singleton
      <4>2. Cardinality({p} \cup {q}) = 2
        <5>1. q \notin {p} /\ 1 + 1 = 2
          BY <1>6
        <5>2. Cardinality({p} \cup {q}) = Cardinality({p}) + 1
          BY <4>1, <5>1, FS_AddElement
        <5> QED BY <4>1, <5>1, <5>2
      <4>3. {p} \cup {q} = {p, q}
        OBVIOUS
      <4> QED BY <4>2, <4>3
    <3>3. Cardinality({p, q}) <= Cardinality(S)
      BY <2>3, <3>1, FS_Subset
    <3> QED BY <2>3, <3>2, <3>3
  <2> QED BY <2>3, <2>4, <2>5
<1> QED BY <1>5, <1>6 DEF f

(* The entry under the cursor is a place.                                  *)
LEMMA HereIsPlace ==
  ASSUME TypeOK, rootFile # 0
  PROVE  /\ here \in Position /\ here.file = rootFile /\ here.pos = fiIter
         /\ here.file \in DOMAIN catalog /\ catalog[here.file].kind = "good"
         /\ IndexOf(catalog[here.file]) = index /\ IDOf(here) = entry
<1>1. rootFile \in Nat /\ fiIter \in Nat /\ rootFile \in DOMAIN catalog /\ catalog[rootFile].kind = "good"
  BY CursorType DEF TypeOK
<1> QED BY <1>1 DEF here, Position, IDOf, entry, index

(* An event that is dropped, skipped or offered was asked for.             *)
LEMMA AskedHere ==
  ASSUME TypeOK, SkippingInv, DropDuplicate \/ WantEvent \/ SkipEvent
  PROVE  rootFile # 0 /\ type = "Event" /\ Asked(here)
<1>1. /\ rootFile # 0 /\ type = "Event"
      /\ \/ AtEvent /\ ~ Before(entry, opts.first)
         \/ item = "Skipping"
  BY DEF DropDuplicate, WantEvent, SkipEvent, AtEvent, type
<1>2. /\ index \in Seq(ID) /\ fiIter \in DOMAIN index /\ EntryType(entry) = "Event" /\ opts.first \in ID
  BY <1>1, CursorType, ConfigType DEF Option
<1>3. fiIter \in Events(index)
  BY <1>2 DEF Events, entry
<1>4. opts.mode = "RunsSubRunsAndEvents" /\ ~ Before(entry, opts.first)
  <2>1. CASE item = "Skipping"
    <3>1. /\ opts.mode = "RunsSubRunsAndEvents"
          /\ \E p \in Events(index) : p < fiIter /\ ~ Before(index[p], opts.first)
      BY <2>1 DEF SkippingInv
    <3>2. PICK p \in Events(index) : p < fiIter /\ ~ Before(index[p], opts.first)
      BY <3>1
    <3>3. ~ Before(index[fiIter], opts.first)
      BY <1>1, <1>2, <1>3, <3>2, IndexSorted, NoEventBeforeLater
    <3> QED BY <3>1, <3>3 DEF entry
  <2> QED BY <1>1, <2>1 DEF AtEvent
<1> QED BY <1>1, <1>3, <1>4, HereIsPlace DEF Asked

(* The duplicate checker tells whether the event under the cursor repeats  *)
(* one that was asked for.                                                 *)
LEMMA DuplicatesKnown ==
  ASSUME TypeOK, CheckerSetUp, CheckerKnows, rootFile # 0, type = "Event", item # "Event", Asked(here)
  PROVE  IsDuplicate <=> Repeats(here)
<1>1. /\ rootFile \in DOMAIN catalog /\ index \in Seq(ID) /\ fiIter \in Events(index)
      /\ index = IndexOf(catalog[rootFile]) /\ opts.dup \in DupModes /\ here.file = rootFile
      /\ IDOf(here) = entry
  BY CursorType, HereIsPlace, ConfigType DEF Asked, Option, index, here
<1>2. CheckActive => (entry \in checker.ids <=>
        \E b : Asked(b) /\ InScope(b) /\ Precedes(b, here) /\ IDOf(b) = entry)
  BY DEF CheckerKnows, Behind, Seen
<1>3. PerFile => /\ checker.dataType = IF catalog[rootFile].real THEN "isRealData" ELSE "isSimulation"
                 /\ checker.clean => EventsUniqueAndOrdered(catalog[rootFile].sorted)
  BY <1>1 DEF CheckerSetUp
<1>4. ASSUME IsDuplicate PROVE Repeats(here)
  <2>1. CheckActive /\ entry \in checker.ids
    BY <1>4 DEF IsDuplicate
  <2>2. PICK b : Asked(b) /\ InScope(b) /\ Precedes(b, here) /\ IDOf(b) = entry
    BY <1>2, <2>1
  <2>3. Same(here, b)
    BY <1>1, <1>3, <2>1, <2>2 DEF Same, InScope, CheckActive, PerFile, DupModes
  <2> QED BY <2>2, <2>3 DEF Repeats
<1>5. ASSUME Repeats(here) PROVE IsDuplicate
  <2>1. PICK b : Asked(b) /\ Precedes(b, here) /\ Same(here, b)
    BY <1>5 DEF Repeats
  <2>2. InScope(b) /\ IDOf(b) = entry
    BY <1>1, <2>1 DEF Same, InScope
  <2>3. PerFile => ~ EventsUniqueAndOrdered(catalog[rootFile].sorted)
    <3>1. SUFFICES ASSUME PerFile PROVE ~ EventsUniqueAndOrdered(catalog[rootFile].sorted)
      OBVIOUS
    <3>2. b.file = rootFile
      BY <1>1, <2>1, <3>1 DEF Same, PerFile
    <3>3. b.pos \in Events(index) /\ index[b.pos] = index[fiIter]
      BY <1>1, <2>1, <2>2, <3>2 DEF Asked, IDOf, entry
    <3>4. b.pos < fiIter /\ b.pos \in Int /\ fiIter \in Int
      BY <1>1, <2>1, <3>2, <3>3 DEF Precedes, here, Events
    <3>5. b.pos # fiIter
      BY <3>4
    <3> QED BY <1>1, <3>3, <3>5, BothOrders
  <2>4. CheckActive
    BY <1>1, <1>3, <2>1, <2>3 DEF CheckActive, PerFile, Same, DupModes
  <2> QED BY <1>2, <2>1, <2>2, <2>4 DEF IsDuplicate
<1> QED BY <1>4, <1>5

(* What was asked for stays ahead of the cursor or behind it while no      *)
(* event that was asked for is passed.                                     *)
LEMMA MovedOver ==
  ASSUME TypeOK, rootFile # 0, UNCHANGED <<config, rootFile>>, fiIter' \in Nat, fiIter <= fiIter',
         opts.mode = "RunsSubRunsAndEvents" =>
           \A p \in Events(index) : ~ Before(index[p], opts.first) /\ fiIter <= p => fiIter' <= p,
         NEW at, Asked(at)
  PROVE  Behind(at)' <=> Behind(at)
<1>1. /\ here' = [file |-> rootFile, pos |-> fiIter'] /\ here = [file |-> rootFile, pos |-> fiIter]
      /\ rootFile \in Nat /\ fiIter \in Nat /\ at \in Position /\ at.pos \in Nat /\ at.file \in Nat
  BY DEF here, TypeOK, Asked, Position
<1>2. at.file = rootFile => (fiIter <= at.pos => fiIter' <= at.pos)
  BY DEF Asked, IDOf, index
<1>3. Precedes(at, here') <=> Precedes(at, here)
  BY <1>1, <1>2 DEF Precedes
<1>4. rootFile' # 0
  OBVIOUS
<1> QED BY <1>3, <1>4 DEF Behind, Precedes

(* The searches pass no event that was asked for.                          *)
LEMMA SearchesPassNothing ==
  ASSUME TypeOK,
         \/ SkipToFirstRun \/ SkipToNextRun \/ SkipToFirstSubRun \/ SkipToNextSubRun
         \/ SkipToFirstEvent \/ ReadRunOrSubRun
  PROVE  /\ rootFile # 0 /\ UNCHANGED <<config, rootFile>>
         /\ \A at : Asked(at) => (Behind(at)' <=> Behind(at))
<1>1. /\ type \in {"Run", "SubRun", "Event"} /\ rootFile # 0 /\ UNCHANGED <<config, rootFile>>
  BY DEF SkipToFirstRun, SkipToNextRun, SkipToFirstSubRun, SkipToNextSubRun, SkipToFirstEvent,
         AtEvent, type, MoveTo, sequence, ReadRunOrSubRun, TypeOK
<1>2. /\ index \in Seq(ID) /\ fiIter \in DOMAIN index /\ entry = index[fiIter] /\ SortedBySubRun(index)
      /\ EntryType(entry) = type
  BY <1>1, CursorType, IndexSorted DEF entry
<1>3. fiIter' \in Nat /\ fiIter <= fiIter'
  <2>1. CASE ReadRunOrSubRun
    <3>1. FragmentsEnd(index, fiIter) \in Nat /\ fiIter < FragmentsEnd(index, fiIter)
      BY <1>2, SearchesGoForward, SearchesStayInside DEF End
    <3> QED BY <1>2, <2>1, <3>1 DEF ReadRunOrSubRun
  <2>2. CASE ~ ReadRunOrSubRun
    <3>1. fiIter <= fiIter'
      BY <2>2, JumpsGoForward
    <3>2. fiIter' \in 1..End(index)
      BY <1>2, <2>2, SearchesStayInside
         DEF SkipToFirstRun, SkipToNextRun, SkipToFirstSubRun, SkipToNextSubRun, SkipToFirstEvent, MoveTo
    <3> QED BY <1>2, <3>1, <3>2 DEF End
  <2> QED BY <2>1, <2>2
<1>4. ASSUME opts.mode = "RunsSubRunsAndEvents", NEW p \in Events(index),
             ~ Before(index[p], opts.first), fiIter <= p
      PROVE  fiIter' <= p
  <2>1. CASE SkipToFirstRun \/ SkipToFirstSubRun
    BY <1>4, <2>1, SearchesPassNoEvent
  <2>2. CASE SkipToNextRun \/ SkipToNextSubRun
    BY <1>4, <2>2 DEF SkipToNextRun, SkipToNextSubRun
  <2>3. CASE SkipToFirstEvent
    <3>1. FindEventPosition(index, opts.first) <= p
      BY <1>2, <1>4, SearchesStopFirst DEF Events
    <3> QED BY <2>3, <3>1 DEF SkipToFirstEvent, MoveTo
  <2>4. CASE ReadRunOrSubRun
    <3>1. type \in {"Run", "SubRun"} /\ fiIter' = FragmentsEnd(index, fiIter)
      BY <2>4 DEF ReadRunOrSubRun, TypeOK
    <3>2. p \in DOMAIN index /\ EntryType(index[p]) = "Event" /\ p \in Nat /\ fiIter \in Nat
      BY <1>2 DEF Events
    <3>3. index[p] # index[fiIter] /\ p > fiIter
      BY <1>2, <1>4, <3>1, <3>2
    <3> QED BY <1>2, <3>1, <3>2, <3>3, SearchesStopFirst
  <2> QED BY <2>1, <2>2, <2>3, <2>4
<1> QED BY <1>1, <1>3, <1>4, MovedOver

(* The files that are passed over cannot be opened.                        *)
LEMMA PassedOver ==
  ASSUME TypeOK, NEW k \in DOMAIN catalog, current < k, NextTried = 0 \/ k < NextTried
  PROVE  catalog[k].kind = "unopenable" /\ opts.skipBad
<1> DEFINE tried == {j \in (current + 1)..Len(catalog) : ~ (opts.skipBad /\ catalog[j].kind = "unopenable")}
<1>1. /\ current \in Nat /\ Len(catalog) \in Nat /\ DOMAIN catalog = 1..Len(catalog)
      /\ k \in (current + 1)..Len(catalog) /\ k \in Nat
  BY ConfigType DEF TypeOK
<1>2. SUFFICES ASSUME k \in tried PROVE FALSE
  BY <1>1
<1>3. \E j \in tried : \A i \in tried : j <= i
  <2>1. tried \subseteq Nat /\ tried # {}
    BY <1>1, <1>2
  <2> QED BY <2>1, SmallestOfSet
<1>4. NextTried \in tried /\ \A i \in tried : NextTried <= i
  BY <1>2, <1>3 DEF NextTried
<1>5. NextTried \in Nat /\ NextTried # 0 /\ NextTried <= k
  BY <1>1, <1>2, <1>4
<1> QED BY <1>1, <1>5

(* Where an event that was asked for is.                                   *)
LEMMA AskedPlace ==
  ASSUME TypeOK, NEW at, Asked(at)
  PROVE  /\ at \in Position /\ at.file \in Nat /\ at.pos \in Nat /\ at.pos >= 1
         /\ at.file \in DOMAIN catalog /\ catalog[at.file].kind = "good"
         /\ at.pos \in DOMAIN IndexOf(catalog[at.file])
<1>1. /\ at \in Position /\ at.file \in DOMAIN catalog /\ at.pos \in Events(IndexOf(catalog[at.file]))
      /\ catalog[at.file].kind = "good"
  BY DEF Asked
<1>2. IndexOf(catalog[at.file]) \in Seq(ID) /\ at.pos \in DOMAIN IndexOf(catalog[at.file])
  BY <1>1, ConfigType DEF Events
<1>3. at.pos >= 1
  BY <1>2
<1> QED BY <1>1, <1>2, <1>3 DEF Position

(* At the end of a file what is behind is in it or in a file before it.    *)
LEMMA BehindAtEnd ==
  ASSUME TypeOK, type = "End", NEW at, Asked(at)
  PROVE  Behind(at) <=> at.file <= current
<1>1. /\ at.file \in Nat /\ at.pos \in Nat /\ at.file \in DOMAIN catalog
      /\ at.pos \in DOMAIN IndexOf(catalog[at.file])
  BY AskedPlace
<1>2. current \in Nat /\ rootFile \in {0, current}
  BY ConfigType DEF TypeOK
<1>3. CASE rootFile = 0
  BY <1>3 DEF Behind
<1>4. CASE rootFile # 0
  <2>1. fiIter = End(index) /\ index \in Seq(ID)
    BY <1>4, CursorType DEF type, TypeAt, EntryType
  <2>2. at.file = rootFile => at.pos < fiIter
    BY <1>1, <2>1 DEF index, End
  <2> QED BY <1>1, <1>2, <1>4, <2>2 DEF Behind, Precedes, here
<1> QED BY <1>3, <1>4

(* What is behind the end of a file is behind the next file's beginning.   *)
LEMMA OpeningPassesNothing ==
  ASSUME TypeOK, TypeOK', NEW s, NEW c, OpenNext(s, c), UNCHANGED config, type = "End", OpenResult # "throws",
         NEW at, Asked(at)
  PROVE  Behind(at)' <=> Behind(at)
<1>1. /\ at \in Position /\ at.file \in Nat /\ at.pos \in Nat /\ at.pos >= 1
      /\ at.file \in DOMAIN catalog /\ catalog[at.file].kind = "good"
  BY AskedPlace
<1>2. /\ current \in Nat /\ rootFile \in {0, current} /\ Len(catalog) \in Nat /\ DOMAIN catalog = 1..Len(catalog)
  BY ConfigType DEF TypeOK
<1>3. Behind(at) <=> at.file <= current
  BY BehindAtEnd
<1>4. at.file <= current \/ (NextTried # 0 /\ NextTried <= at.file)
  <2>1. NextTried = 0 \/ NextTried \in (current + 1)..Len(catalog)
    BY NextTriedType
  <2>2. NextTried \in Nat
    BY <1>2, <2>1
  <2>3. ASSUME current < at.file, NextTried = 0 \/ at.file < NextTried PROVE FALSE
    BY <1>1, <2>3, PassedOver
  <2> QED BY <1>1, <1>2, <2>2, <2>3
<1>5. CASE NextTried # 0
  <2>1. NextTried \in Nat /\ NextTried > current /\ rootFile' = NextTried /\ fiIter' = 1
    <3>1. NextTried \in (current + 1)..Len(catalog)
      BY <1>5, NextTriedType
    <3>2. rootFile' = NextTried /\ fiIter' = 1
      BY <1>5 DEF OpenNext, OpenResult
    <3> QED BY <1>2, <3>1, <3>2
  <2>2. Behind(at)' <=> at.file < NextTried
    BY <1>1, <1>5, <2>1 DEF Behind, Precedes, here
  <2> QED BY <1>1, <1>2, <1>3, <1>4, <2>1, <2>2
<1>6. CASE NextTried = 0
  <2>1. rootFile' = 0 /\ current' = Len(catalog)
    BY <1>6 DEF OpenNext
  <2>2. Behind(at)' <=> at.file <= Len(catalog)
    BY <2>1 DEF Behind
  <2> QED BY <1>1, <1>2, <1>3, <1>4, <1>6, <2>2
<1> QED BY <1>5, <1>6

(* The limit is counted down to zero, where the job stops.                 *)
LEMMA LimitStep == TypeOK /\ LimitInv /\ [Next]_vars => LimitInv'
<1> SUFFICES ASSUME TypeOK, LimitInv, [Next]_vars PROVE LimitInv'
  OBVIOUS
<1> DEFINE Going(i) == i \in {"File", "Wanted", "Skipping", "Run", "SubRun", "Event"}
<1>1. opts.maxEvents \in Int /\ remainingEvents \in Int /\ delivered \in Seq(Position)
  BY ConfigType DEF TypeOK, Option
<1>2. CASE ReadEvent
  <2>1. /\ opts' = opts /\ Len(delivered') = Len(delivered) + 1 /\ item' = "Idle" /\ remainingEvents # 0
        /\ remainingEvents' = IF remainingEvents > 0 THEN remainingEvents - 1 ELSE remainingEvents
    <3>1. here \in Position
      BY <1>2, HereIsPlace DEF ReadEvent, TypeOK
    <3>2. Len(delivered') = Len(delivered) + 1
      BY <1>1, <1>2, <3>1 DEF ReadEvent
    <3> QED BY <1>2, <3>2 DEF ReadEvent, LimitInv, config
  <2>2. Len(delivered) \in Nat
    BY <1>1
  <2>3. ~ Going(item')
    BY <2>1
  <2> QED BY <1>1, <2>1, <2>2, <2>3 DEF LimitInv
<1>3. CASE ~ ReadEvent
  <2>1. UNCHANGED <<opts, remainingEvents, delivered>>
    BY <1>3 DEF Next, Files, Limits, Wanted, Reads, vars, config, loop, history, sequence, MoveTo,
       Construct, ReadFirstFile, ReadNextFile, StopJob, LimitReached, FirstItem, AskFile, NoMoreEntries,
       SkipToFirstRun, WantRun, SkipToNextRun, SkipToFirstSubRun, WantSubRun, SkipToNextSubRun,
       SkipToFirstEvent, DropDuplicate, WantEvent, SkipEvent, EndSkipping, ReadRunOrSubRun,
       ReadEventThrows
  <2>2. Going(item') => Going(item) \/ remainingEvents # 0
    BY <1>3 DEF Next, Files, Limits, Wanted, Reads, vars, loop,
       Construct, ReadFirstFile, ReadNextFile, StopJob, LimitReached, FirstItem, AskFile, NoMoreEntries,
       SkipToFirstRun, WantRun, SkipToNextRun, SkipToFirstSubRun, WantSubRun, SkipToNextSubRun,
       SkipToFirstEvent, DropDuplicate, WantEvent, SkipEvent, EndSkipping, ReadRunOrSubRun,
       ReadEventThrows
  <2> QED BY <2>1, <2>2 DEF LimitInv
<1> QED BY <1>2, <1>3

(* A file is left, and the job stopped, only at the end or at the limit.   *)
LEMMA LeftAtEndStep == TypeOK /\ FirstInv /\ LeftAtEnd /\ [Next]_vars => LeftAtEnd'
<1> SUFFICES ASSUME TypeOK, FirstInv, LeftAtEnd, [Next]_vars, item' \in {"File", "Stop"} PROVE LeftAtEnd'
  BY DEF LeftAtEnd
<1>1. LimitReached \/ FirstItem \/ NoMoreEntries \/ UNCHANGED vars
  BY DEF Next, Files, Limits, Wanted, Reads,
     Construct, ReadFirstFile, ReadNextFile, StopJob, AskFile,
     SkipToFirstRun, WantRun, SkipToNextRun, SkipToFirstSubRun, WantSubRun, SkipToNextSubRun,
     SkipToFirstEvent, DropDuplicate, WantEvent, SkipEvent, EndSkipping, ReadRunOrSubRun,
     ReadEvent, ReadEventThrows
<1>2. UNCHANGED <<catalog, opts, current, rootFile, fiIter, remainingEvents, fileBlock>>
  BY <1>1 DEF LimitReached, FirstItem, NoMoreEntries, vars, config, sequence, file, loop
<1>3. type' = type
  BY <1>2 DEF type, index, IndexOf
<1>4. CASE NoMoreEntries
  <2>1. type = "End" /\ (item' = "Stop" => ~ (current < Len(catalog)))
    BY <1>4 DEF NoMoreEntries
  <2>2. current \in 0..Len(catalog) /\ Len(catalog) \in Nat
    BY ConfigType DEF TypeOK
  <2>3. item' = "Stop" => current = Len(catalog)
    BY <2>1, <2>2
  <2> QED BY <1>2, <1>3, <2>1, <2>3 DEF LeftAtEnd
<1>5. CASE LimitReached \/ FirstItem
  BY <1>2, <1>5 DEF LimitReached, FirstItem, LeftAtEnd, FirstInv
<1>6. CASE UNCHANGED vars
  BY <1>2, <1>3, <1>6 DEF LeftAtEnd, vars, loop
<1> QED BY <1>1, <1>4, <1>5, <1>6

(* Skipping goes on behind an event that was asked for.                    *)
LEMMA SkippingStep == TypeOK /\ SkippingInv /\ [Next]_vars => SkippingInv'
<1> SUFFICES ASSUME TypeOK, SkippingInv, [Next]_vars, item' = "Skipping" PROVE SkippingInv'
  BY DEF SkippingInv
<1>1. SkipEvent \/ (item = "Skipping" /\ (DropDuplicate \/ UNCHANGED vars))
  BY DEF Next, Files, Limits, Wanted, Reads, vars, loop,
     Construct, ReadFirstFile, ReadNextFile, StopJob, LimitReached, FirstItem, AskFile, NoMoreEntries,
     SkipToFirstRun, WantRun, SkipToNextRun, SkipToFirstSubRun, WantSubRun, SkipToNextSubRun,
     SkipToFirstEvent, DropDuplicate, WantEvent, EndSkipping, ReadRunOrSubRun,
     ReadEvent, ReadEventThrows
<1>2. UNCHANGED <<catalog, opts, rootFile>> /\ (fiIter' = fiIter \/ fiIter' = fiIter + 1) /\ fiIter \in Nat
  BY <1>1 DEF SkipEvent, DropDuplicate, MoveTo, vars, config, sequence, file, TypeOK
<1>3. index' = index
  BY <1>2 DEF index, IndexOf
<1>4. PICK p \in Events(index) : /\ p < fiIter' /\ ~ Before(index[p], opts.first)
                                 /\ opts.mode = "RunsSubRunsAndEvents"
  <2>1. CASE item = "Skipping"
    <3>1. PICK p \in Events(index) : p < fiIter /\ ~ Before(index[p], opts.first)
      BY <2>1 DEF SkippingInv
    <3>2. p \in Nat
      <4>1. index \in Seq(ID)
        BY <2>1, CursorType DEF TypeOK
      <4> QED BY <4>1 DEF Events
    <3> QED BY <1>2, <2>1, <3>1, <3>2 DEF SkippingInv
  <2>2. CASE SkipEvent
    <3>1. rootFile # 0 /\ Asked(here) /\ fiIter' = fiIter + 1
      BY <2>2, AskedHere DEF SkipEvent
    <3>2. fiIter \in Events(index) /\ ~ Before(index[fiIter], opts.first) /\ opts.mode = "RunsSubRunsAndEvents"
      BY <3>1, HereIsPlace DEF Asked, entry
    <3> QED BY <1>2, <3>1, <3>2
  <2> QED BY <1>1, <2>1, <2>2
<1>5. p \in Events(index') /\ ~ Before(index'[p], opts'.first) /\ opts'.mode = "RunsSubRunsAndEvents"
  BY <1>2, <1>3, <1>4
<1> QED BY <1>4, <1>5 DEF SkippingInv, Events, Before

(* The checker stays set up as long as its file is open.                   *)
LEMMA SetUpKept ==
  ASSUME CheckerSetUp, UNCHANGED <<config, rootFile>>, rootFile = 0 => checker' = checker,
         checker'.dataType = checker.dataType, checker'.clean = checker.clean
  PROVE  CheckerSetUp' /\ (CheckActive' <=> CheckActive)
<1>1. catalog' = catalog /\ opts' = opts /\ index' = index /\ (PerFile' <=> PerFile)
  BY DEF config, index, IndexOf, PerFile
<1>2. CheckerSetUp'
  <2> SUFFICES ASSUME PerFile' PROVE CheckerSetUp'
    BY DEF CheckerSetUp
  <2>1. rootFile' = 0 => checker' = FreshChecker
    BY <1>1 DEF CheckerSetUp
  <2>2. rootFile # 0 /\ Events(index) # {} =>
         /\ checker'.dataType = IF catalog[rootFile].real THEN "isRealData" ELSE "isSimulation"
         /\ checker'.clean => EventsUniqueAndOrdered(catalog[rootFile].sorted)
    BY <1>1 DEF CheckerSetUp
  <2> QED BY <1>1, <2>1, <2>2 DEF CheckerSetUp, FreshChecker, Events, EventsUniqueAndOrdered
<1> QED BY <1>1, <1>2 DEF CheckActive

(* What the checker knows, when nothing is passed that was asked for.      *)
LEMMA KnowsSame ==
  ASSUME CheckerKnows, UNCHANGED <<config, rootFile, checker>>, CheckActive' <=> CheckActive,
         \A at : Asked(at) => (Seen(at)' <=> Seen(at))
  PROVE  CheckerKnows'
<1> SUFFICES ASSUME CheckActive', NEW id
             PROVE  id \in checker'.ids <=> \E at : Asked(at)' /\ InScope(at)' /\ Seen(at)' /\ IDOf(at)' = id
  BY DEF CheckerKnows
<1>1. id \in checker.ids <=> \E at : Asked(at) /\ InScope(at) /\ Seen(at) /\ IDOf(at) = id
  BY DEF CheckerKnows
<1>2. \A at : /\ Asked(at)' <=> Asked(at)
              /\ IDOf(at)' = IDOf(at)
              /\ InScope(at)' <=> InScope(at)
  BY AskedSame DEF InScope
<1> HIDE DEF Asked, InScope, Seen, IDOf
<1> QED BY <1>1, <1>2

(* And when the event under the cursor is taken up.                        *)
LEMMA KnowsMore ==
  ASSUME TypeOK, CheckerKnows, UNCHANGED <<config, rootFile>>, CheckActive' <=> CheckActive,
         checker' = Inserted, rootFile # 0, Asked(here),
         \A at : Asked(at) => (Seen(at)' <=> Seen(at) \/ at = here)
  PROVE  CheckerKnows'
<1> SUFFICES ASSUME CheckActive', NEW id
             PROVE  id \in checker'.ids <=> \E at : Asked(at)' /\ InScope(at)' /\ Seen(at)' /\ IDOf(at)' = id
  BY DEF CheckerKnows
<1>1. id \in checker.ids <=> \E at : Asked(at) /\ InScope(at) /\ Seen(at) /\ IDOf(at) = id
  BY DEF CheckerKnows
<1>2. \A at : /\ Asked(at)' <=> Asked(at)
              /\ IDOf(at)' = IDOf(at)
              /\ InScope(at)' <=> InScope(at)
  BY AskedSame DEF InScope
<1>3. id \in checker'.ids <=> id \in checker.ids \/ id = entry
  BY DEF Inserted, TypeOK
<1>4. InScope(here) /\ IDOf(here) = entry
  BY HereIsPlace DEF InScope
<1> HIDE DEF Asked, InScope, Seen, IDOf
<1>5. \E at : Asked(at) /\ InScope(at) /\ at = here /\ IDOf(at) = entry
  BY <1>4
<1>6. (\E at : Asked(at)' /\ InScope(at)' /\ Seen(at)' /\ IDOf(at)' = id)
        <=> (\E at : Asked(at) /\ InScope(at) /\ (Seen(at) \/ at = here) /\ IDOf(at) = id)
  BY <1>2
<1>7. (\E at : Asked(at) /\ InScope(at) /\ at = here /\ IDOf(at) = id) <=> id = entry
  BY <1>4, <1>5
<1> QED BY <1>1, <1>3, <1>6, <1>7

(* What was passed, when no event that was asked for is.                   *)
LEMMA PassedSame ==
  ASSUME PassedChosen, UNCHANGED config, passed' = passed, item' # "Event",
         \A at : Chosen(at) => (Behind(at)' <=> Behind(at))
  PROVE  PassedChosen'
<1>1. \A at : Chosen(at)' <=> Chosen(at)
  BY AskedSame
<1>2. \A at : Chosen(at) /\ Behind(at) <=> \E i \in DOMAIN passed : passed[i] = at
  BY DEF PassedChosen
<1> HIDE DEF Chosen, Behind
<1>3. \A at : Chosen(at)' /\ Behind(at)' <=> \E i \in DOMAIN passed' : passed'[i] = at
  BY <1>1, <1>2
<1> QED BY <1>3 DEF PassedChosen

(* And when the event under the cursor is skipped or read.                 *)
LEMMA PassedMore ==
  ASSUME PassedChosen, UNCHANGED config, passed \in Seq(Position), here \in Position,
         passed' = Append(passed, here), item' # "Event", Chosen(here),
         \A at : Chosen(at) => (Behind(at)' <=> Behind(at) \/ at = here)
  PROVE  PassedChosen'
<1>1. \A at : Chosen(at)' <=> Chosen(at)
  BY AskedSame
<1>2. \A at : Chosen(at) /\ Behind(at) <=> \E i \in DOMAIN passed : passed[i] = at
  BY DEF PassedChosen
<1>3. \A at : (\E i \in DOMAIN passed' : passed'[i] = at)
                <=> ((\E i \in DOMAIN passed : passed[i] = at) \/ at = here)
  <2> SUFFICES ASSUME NEW at
               PROVE  (\E i \in DOMAIN passed' : passed'[i] = at)
                        <=> ((\E i \in DOMAIN passed : passed[i] = at) \/ at = here)
    OBVIOUS
  <2>1. /\ \A i \in DOMAIN passed : i \in DOMAIN passed' /\ passed'[i] = passed[i]
        /\ Len(passed) + 1 \in DOMAIN passed' /\ passed'[Len(passed) + 1] = here
        /\ \A i \in DOMAIN passed' : i \in DOMAIN passed \/ i = Len(passed) + 1
    OBVIOUS
  <2> QED BY <2>1
<1> HIDE DEF Chosen, Behind
<1>4. \A at : Chosen(at)' /\ Behind(at)' <=> \E i \in DOMAIN passed' : passed'[i] = at
  BY <1>1, <1>2, <1>3
<1> QED BY <1>4 DEF PassedChosen

(* The cursor goes over the event it stands on.                            *)
LEMMA WentOver ==
  ASSUME TypeOK, rootFile # 0, UNCHANGED rootFile, fiIter' = fiIter + 1, NEW at \in Position
  PROVE  Behind(at)' <=> Behind(at) \/ at = here
<1>1. /\ here' = [file |-> rootFile, pos |-> fiIter + 1] /\ here = [file |-> rootFile, pos |-> fiIter]
      /\ rootFile \in Nat /\ fiIter \in Nat /\ at.pos \in Nat /\ at.file \in Nat
      /\ at = [file |-> at.file, pos |-> at.pos]
  BY DEF here, TypeOK, Position
<1>2. at = here <=> at.file = rootFile /\ at.pos = fiIter
  BY <1>1
<1>3. Precedes(at, here') <=> Precedes(at, here) \/ (at.file = rootFile /\ at.pos = fiIter)
  BY <1>1 DEF Precedes
<1>4. rootFile' # 0
  OBVIOUS
<1> QED BY <1>2, <1>3, <1>4 DEF Behind, Precedes

(* The checker is set up for a file that is opened, and by itself forgets  *)
(* nothing where it is to know the events of all files.                    *)
LEMMA SetUpOpened ==
  ASSUME TypeOK, TypeOK', CheckerSetUp, NEW s, OpenNext(s, CheckerAfterClose), UNCHANGED config
  PROVE  /\ CheckerSetUp'
         /\ PerFile => checker'.ids = {}
         /\ ~ PerFile => checker' = checker
<1>1. catalog' = catalog /\ opts' = opts /\ (PerFile' <=> PerFile)
  BY DEF config, PerFile
<1>2. /\ PerFile => CheckerAfterClose = FreshChecker
      /\ ~ PerFile => CheckerAfterClose = checker
  BY DEF CheckerSetUp, CheckerAfterClose, CheckerClosed
<1>3. CASE rootFile' = 0
  <2>1. checker' = CheckerAfterClose
    BY <1>3, NextTriedType DEF OpenNext
  <2>2. CheckerSetUp'
    BY <1>1, <1>2, <1>3, <2>1 DEF CheckerSetUp, FreshChecker
  <2> QED BY <1>2, <2>1, <2>2 DEF FreshChecker
<1>4. CASE rootFile' # 0
  <2> DEFINE f == catalog[rootFile']
  <2>1. checker' = CheckerInit(CheckerAfterClose, f)
    BY <1>4 DEF OpenNext
  <2>2. rootFile' \in DOMAIN catalog /\ index' = IndexOf(f)
    <3>1. rootFile' \in 1..Len(catalog) /\ catalog \in Seq(File)
      <4>1. rootFile' \in {0, current'} /\ current' \in 0..Len(catalog)
        BY <1>1 DEF TypeOK
      <4>2. catalog \in Seq(File) /\ Len(catalog) \in Nat
        BY ConfigType
      <4> QED BY <1>4, <4>1, <4>2
    <3> QED BY <1>1, <3>1 DEF index, IndexOf
  <2>3. Events(IndexOf(f)) # {} => Events(f.sorted) # {}
    BY <2>2, BothOrders
  <2> HIDE DEF f
  <2>4. ~ PerFile => checker' = checker
    BY <1>2, <2>1 DEF CheckerInit
  <2>5. PerFile /\ Events(f.sorted) = {} => checker' = FreshChecker
    BY <1>2, <2>1 DEF CheckerInit
  <2>6. PerFile /\ Events(f.sorted) # {} =>
          /\ checker'.ids = {}
          /\ checker'.dataType = IF f.real THEN "isRealData" ELSE "isSimulation"
          /\ checker'.clean => EventsUniqueAndOrdered(f.sorted)
    BY <1>2, <2>1 DEF CheckerInit, FreshChecker
  <2>7. PerFile => checker'.ids = {}
    BY <2>5, <2>6 DEF FreshChecker
  <2>8. PerFile /\ Events(IndexOf(f)) # {} =>
          /\ checker'.dataType = IF catalog'[rootFile'].real THEN "isRealData" ELSE "isSimulation"
          /\ checker'.clean => EventsUniqueAndOrdered(catalog'[rootFile'].sorted)
    BY <1>1, <2>3, <2>6 DEF f
  <2>9. CheckerSetUp'
    BY <1>1, <1>4, <2>2, <2>8 DEF CheckerSetUp, Events, EventsUniqueAndOrdered
  <2> QED BY <2>4, <2>7, <2>9
<1> QED BY <1>3, <1>4

(* What was passed and what the checker knows stay right as a file is opened. *)
LEMMA ReadingOpened ==
  ASSUME TypeOK, TypeOK', CheckerSetUp, CheckerKnows, PassedChosen,
         NEW s, OpenNext(s, CheckerAfterClose), UNCHANGED <<config, history>>,
         type = "End", OpenResult # "throws", item # "Event", item' # "Event"
  PROVE  CheckerSetUp' /\ CheckerKnows' /\ PassedChosen'
<1>1. \A at : Asked(at) => (Behind(at)' <=> Behind(at))
  BY OpeningPassesNothing
<1>2. PassedChosen'
  <2>1. passed' = passed
    BY DEF passed, history
  <2>2. \A at : Chosen(at) => (Behind(at)' <=> Behind(at))
    BY <1>1 DEF Chosen
  <2> QED BY <2>1, <2>2, PassedSame
<1>3. CheckerSetUp' /\ (PerFile => checker'.ids = {}) /\ (~ PerFile => checker' = checker)
  BY SetUpOpened
<1>4. CheckerKnows'
  <2> SUFFICES ASSUME CheckActive', NEW id
               PROVE  id \in checker'.ids <=> \E at : Asked(at)' /\ InScope(at)' /\ Seen(at)' /\ IDOf(at)' = id
    BY DEF CheckerKnows
  <2>1. \A at : /\ Asked(at)' <=> Asked(at)
                /\ IDOf(at)' = IDOf(at)
                /\ InScope(at)' <=> opts.dup = "checkAllFilesOpened" \/ at.file = rootFile'
    BY AskedSame
  <2>2. opts' = opts
    BY DEF config
  <2>3. CASE PerFile
    <3>1. ASSUME NEW at, Asked(at), at.file = rootFile', Behind(at)' PROVE FALSE
      <4>1. at \in Position /\ at.file \in DOMAIN catalog /\ at.pos \in Events(IndexOf(catalog[at.file]))
        BY <3>1 DEF Asked
      <4>2. at.file \in Nat /\ at.file # 0 /\ at.pos \in Nat /\ at.pos >= 1
        <5>1. catalog \in Seq(File) /\ IndexOf(catalog[at.file]) \in Seq(ID)
          BY <4>1, ConfigType
        <5>2. at.file \in Nat /\ at.file # 0
          BY <4>1, <5>1
        <5>3. at.pos \in DOMAIN IndexOf(catalog[at.file])
          BY <4>1 DEF Events
        <5> HIDE DEF IndexOf
        <5>4. at.pos \in Nat /\ at.pos >= 1
          BY <5>1, <5>3
        <5> QED BY <5>2, <5>4
      <4>3. fiIter' = 1
        BY <3>1, <4>2 DEF OpenNext
      <4> QED BY <3>1, <4>2, <4>3 DEF Behind, Precedes, here
    <3>2. ASSUME NEW at, Asked(at), InScope(at)', Seen(at)' PROVE FALSE
      <4>1. at.file = rootFile'
        BY <2>1, <2>3, <3>2 DEF PerFile
      <4>2. Behind(at)'
        BY <3>2 DEF Seen
      <4> QED BY <3>1, <3>2, <4>1, <4>2
    <3>3. ~ \E at : Asked(at)' /\ InScope(at)' /\ Seen(at)' /\ IDOf(at)' = id
      BY <2>1, <3>2
    <3> QED BY <1>3, <2>3, <3>3
  <2>4. CASE ~ PerFile
    <3>1. opts.dup = "checkAllFilesOpened" /\ CheckActive /\ checker' = checker
      <4>1. opts.dup \in DupModes
        BY ConfigType DEF Option
      <4>2. opts.dup # "noDuplicateCheck"
        BY <2>2 DEF CheckActive
      <4> QED BY <1>3, <2>4, <4>1, <4>2 DEF CheckActive, PerFile, DupModes
    <3>2. id \in checker.ids <=> \E at : Asked(at) /\ InScope(at) /\ Seen(at) /\ IDOf(at) = id
      BY <3>1 DEF CheckerKnows
    <3>3. \A at : Asked(at) => (Seen(at)' <=> Seen(at))
      BY <1>1 DEF Seen
    <3>4. \A at : InScope(at)' /\ InScope(at)
      BY <2>1, <3>1 DEF InScope
    <3> HIDE DEF Asked, InScope, Seen, IDOf
    <3> QED BY <2>1, <3>1, <3>2, <3>3, <3>4
  <2> QED BY <2>3, <2>4
<1> QED BY <1>2, <1>3, <1>4

(* A step that passes nothing that was asked for and offers nothing.       *)
LEMMA ReadingKept ==
  ASSUME CheckerSetUp, CheckerKnows, PassedChosen,
         UNCHANGED <<config, rootFile, checker, delivered, skipped>>, item # "Event", item' # "Event",
         \A at : Asked(at) => (Behind(at)' <=> Behind(at))
  PROVE  CheckerSetUp' /\ CheckerKnows' /\ PassedChosen'
<1>1. CheckerSetUp' /\ (CheckActive' <=> CheckActive)
  BY SetUpKept
<1>2. CheckerKnows'
  <2>1. \A at : Asked(at) => (Seen(at)' <=> Seen(at))
    BY DEF Seen
  <2> QED BY <1>1, <2>1, KnowsSame
<1>3. PassedChosen'
  <2>1. passed' = passed /\ \A at : Chosen(at) => (Behind(at)' <=> Behind(at))
    BY DEF passed, Chosen
  <2> QED BY <2>1, PassedSame
<1> QED BY <1>1, <1>2, <1>3

(* A duplicate is dropped: it is not one of the events that were chosen.   *)
LEMMA ReadingDrop ==
  ASSUME TypeOK, SkippingInv, CheckerSetUp, CheckerKnows, PassedChosen, DropDuplicate
  PROVE  CheckerSetUp' /\ CheckerKnows' /\ PassedChosen'
<1>1. rootFile # 0 /\ type = "Event" /\ Asked(here)
  BY AskedHere
<1>2. /\ UNCHANGED <<config, rootFile, checker, delivered, skipped>> /\ IsDuplicate
      /\ fiIter' = fiIter + 1 /\ item # "Event" /\ item' # "Event"
  BY DEF DropDuplicate, MoveTo, sequence
<1>3. Repeats(here)
  BY <1>1, <1>2, DuplicatesKnown
<1>4. \A at : Asked(at) => (Behind(at)' <=> Behind(at) \/ at = here)
  <2> SUFFICES ASSUME NEW at, Asked(at) PROVE Behind(at)' <=> Behind(at) \/ at = here
    OBVIOUS
  <2>1. at \in Position
    BY DEF Asked
  <2> QED BY <1>1, <1>2, <2>1, WentOver
<1>5. CheckerSetUp' /\ (CheckActive' <=> CheckActive)
  BY <1>2, SetUpKept
<1>6. checker' = Inserted
  BY <1>2 DEF Inserted, IsDuplicate, TypeOK
<1>7. \A at : Asked(at) => (Seen(at)' <=> Seen(at) \/ at = here)
  BY <1>2, <1>4 DEF Seen
<1>8. CheckerKnows'
  BY <1>1, <1>2, <1>5, <1>6, <1>7, KnowsMore
<1>9. PassedChosen'
  <2>1. passed' = passed /\ \A at : Chosen(at) => (Behind(at)' <=> Behind(at))
    BY <1>2, <1>3, <1>4 DEF passed, Chosen
  <2> QED BY <1>2, <2>1, PassedSame
<1> QED BY <1>5, <1>8, <1>9

(* An event that is wanted is chosen, and the checker knows it from then.  *)
LEMMA ReadingWant ==
  ASSUME TypeOK, SkippingInv, CheckerSetUp, CheckerKnows, PassedChosen, WantEvent
  PROVE  CheckerSetUp' /\ CheckerKnows' /\ PassedChosen'
<1>1. rootFile # 0 /\ type = "Event" /\ Asked(here)
  BY AskedHere
<1>2. /\ UNCHANGED <<config, rootFile, fiIter, current, delivered, skipped>> /\ ~ IsDuplicate
      /\ checker' = Inserted /\ item = "Wanted" /\ item' = "Event"
  BY DEF WantEvent, MoveTo, sequence, history
<1>3. Chosen(here)
  BY <1>1, <1>2, DuplicatesKnown DEF Chosen
<1>4. here' = here /\ passed' = passed /\ \A at : Behind(at)' <=> Behind(at)
  BY <1>2 DEF here, passed, Behind
<1>5. checker'.dataType = checker.dataType /\ checker'.clean = checker.clean
  BY <1>2 DEF Inserted, TypeOK
<1>6. CheckerSetUp' /\ (CheckActive' <=> CheckActive)
  BY <1>1, <1>2, <1>5, SetUpKept
<1>7. \A at : Asked(at) => (Seen(at)' <=> Seen(at) \/ at = here)
  BY <1>2, <1>4 DEF Seen
<1>8. CheckerKnows'
  BY <1>1, <1>2, <1>6, <1>7, KnowsMore
<1>9. PassedChosen'
  <2>1. \A at : Chosen(at)' <=> Chosen(at)
    BY <1>2, AskedSame
  <2>2. \A at : Chosen(at) /\ Behind(at) <=> \E i \in DOMAIN passed : passed[i] = at
    BY DEF PassedChosen
  <2> HIDE DEF Chosen, Behind
  <2>3. \A at : Chosen(at)' /\ Behind(at)' <=> \E i \in DOMAIN passed' : passed'[i] = at
    BY <1>4, <2>1, <2>2
  <2>4. Chosen(here)'
    <3>1. PICK a : a = here
      OBVIOUS
    <3>2. Chosen(a)' /\ a = here'
      BY <1>3, <1>4, <2>1, <3>1
    <3> QED BY <3>2 DEF Chosen, Repeats, Asked, Same, IDOf
  <2> QED BY <2>3, <2>4 DEF PassedChosen
<1> QED BY <1>6, <1>8, <1>9

(* An event that is skipped is the next of those that were chosen.         *)
LEMMA ReadingSkip ==
  ASSUME OrderInv, SkippingInv, CheckerSetUp, CheckerKnows, PassedChosen, SkipEvent
  PROVE  CheckerSetUp' /\ CheckerKnows' /\ PassedChosen'
<1>0. TypeOK
  BY DEF OrderInv, SkipInv
<1>1. rootFile # 0 /\ type = "Event" /\ Asked(here)
  BY <1>0, AskedHere
<1>2. /\ UNCHANGED <<config, rootFile, delivered>> /\ skipped' = Append(skipped, here) /\ ~ IsDuplicate
      /\ checker' = Inserted /\ fiIter' = fiIter + 1 /\ item # "Event" /\ item' # "Event"
  BY DEF SkipEvent, sequence
<1>3. Chosen(here)
  BY <1>0, <1>1, <1>2, DuplicatesKnown DEF Chosen
<1>4. \A at : Asked(at) => (Behind(at)' <=> Behind(at) \/ at = here)
  <2> SUFFICES ASSUME NEW at, Asked(at) PROVE Behind(at)' <=> Behind(at) \/ at = here
    OBVIOUS
  <2>1. at \in Position
    BY DEF Asked
  <2> QED BY <1>0, <1>1, <1>2, <2>1, WentOver
<1>5. checker'.dataType = checker.dataType /\ checker'.clean = checker.clean
  BY <1>0, <1>2 DEF Inserted, TypeOK
<1>6. CheckerSetUp' /\ (CheckActive' <=> CheckActive)
  BY <1>1, <1>2, <1>5, SetUpKept
<1>7. \A at : Asked(at) => (Seen(at)' <=> Seen(at) \/ at = here)
  BY <1>2, <1>4 DEF Seen
<1>8. CheckerKnows'
  BY <1>0, <1>1, <1>2, <1>6, <1>7, KnowsMore
<1>9. PassedChosen'
  <2>1. delivered = <<>>
    BY <1>1 DEF OrderInv, ToSkip, SkipEvent, MoreToSkip
  <2>2. skipped \in Seq(Position) /\ here \in Position /\ passed \in Seq(Position)
    BY <1>0, <1>1, HereIsPlace DEF TypeOK, passed
  <2>3. passed' = Append(passed, here)
    BY <1>2, <2>1, <2>2 DEF passed
  <2>4. \A at : Chosen(at) => (Behind(at)' <=> Behind(at) \/ at = here)
    BY <1>4 DEF Chosen
  <2> QED BY <1>2, <1>3, <2>2, <2>3, <2>4, PassedMore
<1> QED BY <1>6, <1>8, <1>9

(* So is an event that is read.                                            *)
LEMMA ReadingRead ==
  ASSUME OrderInv, CheckerSetUp, CheckerKnows, PassedChosen, ReadEvent
  PROVE  CheckerSetUp' /\ CheckerKnows' /\ PassedChosen'
<1>0. TypeOK
  BY DEF OrderInv, SkipInv
<1>1. rootFile # 0 /\ Chosen(here) /\ here \in Position
  BY <1>0, HereIsPlace DEF ReadEvent, TypeOK, PassedChosen
<1>2. /\ UNCHANGED <<config, rootFile, checker, skipped>> /\ delivered' = Append(delivered, here)
      /\ fiIter' = fiIter + 1 /\ item = "Event" /\ item' = "Idle"
  BY DEF ReadEvent, sequence
<1>3. \A at : Asked(at) => (Behind(at)' <=> Behind(at) \/ at = here)
  <2> SUFFICES ASSUME NEW at, Asked(at) PROVE Behind(at)' <=> Behind(at) \/ at = here
    OBVIOUS
  <2>1. at \in Position
    BY DEF Asked
  <2> QED BY <1>0, <1>1, <1>2, <2>1, WentOver
<1>4. CheckerSetUp' /\ (CheckActive' <=> CheckActive)
  BY <1>1, <1>2, SetUpKept
<1>5. \A at : Asked(at) => (Seen(at)' <=> Seen(at))
  BY <1>2, <1>3 DEF Seen
<1>6. CheckerKnows'
  BY <1>2, <1>4, <1>5, KnowsSame
<1>7. PassedChosen'
  <2>1. /\ skipped \in Seq(Position) /\ delivered \in Seq(Position) /\ passed \in Seq(Position)
    BY <1>0 DEF TypeOK, passed
  <2>2. passed' = Append(passed, here)
    BY <1>1, <1>2, <2>1 DEF passed
  <2>3. \A at : Chosen(at) => (Behind(at)' <=> Behind(at) \/ at = here)
    BY <1>3 DEF Chosen
  <2> QED BY <1>1, <1>2, <2>1, <2>2, <2>3, PassedMore
<1> QED BY <1>4, <1>6, <1>7

(* When the job ends only the checker is of interest, and stays set up.    *)
LEMMA ReadingEnds ==
  ASSUME TypeOK, CheckerSetUp,
         \/ StopJob \/ ReadEventThrows
  PROVE  CheckerSetUp'
<1>1. CASE StopJob
  <2>1. rootFile' = 0 /\ checker' = CheckerAfterClose /\ (PerFile' <=> PerFile)
    BY <1>1 DEF StopJob, PerFile, config
  <2>2. PerFile => checker' = FreshChecker
    BY <2>1 DEF CheckerSetUp, CheckerAfterClose, CheckerClosed
  <2> QED BY <2>1, <2>2 DEF CheckerSetUp, FreshChecker
<1>2. CASE ReadEventThrows
  BY <1>2, SetUpKept DEF ReadEventThrows, MoveTo, sequence
<1> QED BY <1>1, <1>2

(* The files are opened at the end of the one before.                      *)
LEMMA OpensAtEnd ==
  ASSUME OrderInv, LeftAtEnd, Construct \/ ReadNextFile
  PROVE  /\ type = "End" /\ OpenNext(ToSkip, CheckerAfterClose)
         /\ UNCHANGED <<config, history>> /\ item \in {"Construct", "File"} /\ item' \in {"Idle", "Failed"}
         /\ item' # "Failed" => OpenResult # "throws"
         /\ item' = "Failed" => OpenResult \in {"throws", "none"}
<1>1. CASE Construct
  <2>1. rootFile = 0
    BY <1>1 DEF Construct, OrderInv, SkipInv, ConstructFirst
  <2> QED BY <1>1, <2>1 DEF Construct, type, ToSkip, CheckerAfterClose, OpenResult
<1>2. CASE ReadNextFile
  <2>1. type = "End"
    BY <1>2 DEF ReadNextFile, LeftAtEnd, type
  <2> QED BY <1>2, <2>1 DEF ReadNextFile, ToSkip, SkipAfterClose, OpenResult
<1> QED BY <1>1, <1>2

(* They stay right in every step.                                          *)
LEMMA ReadingStep ==
  ASSUME StreamInv, [Next]_vars
  PROVE  CheckerSetUp' /\ (~ JobOver' => CheckerKnows' /\ PassedChosen')
<1>1. /\ OrderInv /\ TypeOK /\ TypeOK' /\ LeftAtEnd /\ SkippingInv /\ CheckerSetUp
      /\ ~ JobOver => CheckerKnows /\ PassedChosen
  BY TypeCorrectStep DEF StreamInv, OrderInv, SkipInv
<1>2. ASSUME ~ JobOver, UNCHANGED <<config, rootFile, current, fiIter, checker, delivered, skipped>>,
             item # "Event", item' # "Event"
      PROVE  CheckerSetUp' /\ CheckerKnows' /\ PassedChosen'
  <2>1. \A at : Asked(at) => (Behind(at)' <=> Behind(at))
    BY <1>2 DEF Behind, here
  <2> QED BY <1>1, <1>2, <2>1, ReadingKept
<1>3. CASE Construct \/ ReadNextFile
  <2>1. /\ type = "End" /\ OpenNext(ToSkip, CheckerAfterClose)
        /\ UNCHANGED <<config, history>> /\ item \in {"Construct", "File"} /\ item' \in {"Idle", "Failed"}
        /\ item' # "Failed" => OpenResult # "throws"
    BY <1>1, <1>3, OpensAtEnd
  <2>2. CASE item' = "Failed"
    BY <1>1, <2>1, <2>2, SetUpOpened DEF JobOver
  <2>3. CASE item' # "Failed"
    BY <1>1, <2>1, <2>3, ReadingOpened DEF JobOver
  <2> QED BY <2>2, <2>3
<1>4. CASE StopJob \/ ReadEventThrows
  <2>1. JobOver'
    BY <1>4 DEF StopJob, ReadEventThrows, JobOver
  <2> QED BY <1>1, <1>4, <2>1, ReadingEnds
<1>5. CASE ReadFirstFile \/ Limits \/ WantRun \/ WantSubRun \/ EndSkipping
  <2>1. /\ ~ JobOver /\ item # "Event" /\ item' # "Event"
        /\ UNCHANGED <<config, rootFile, current, fiIter, checker, delivered, skipped>>
    BY <1>5 DEF ReadFirstFile, Limits, LimitReached, FirstItem, AskFile, NoMoreEntries, WantRun,
                WantSubRun, EndSkipping, MoveTo, sequence, file, history, JobOver
  <2> QED BY <1>2, <2>1
<1>6. CASE \/ SkipToFirstRun \/ SkipToNextRun \/ SkipToFirstSubRun \/ SkipToNextSubRun
           \/ SkipToFirstEvent \/ ReadRunOrSubRun
  <2>1. /\ UNCHANGED <<config, rootFile>> /\ \A at : Asked(at) => (Behind(at)' <=> Behind(at))
    BY <1>1, <1>6, SearchesPassNothing
  <2>2. UNCHANGED <<checker, delivered, skipped>> /\ ~ JobOver /\ item # "Event" /\ item' # "Event"
    BY <1>6 DEF SkipToFirstRun, SkipToNextRun, SkipToFirstSubRun, SkipToNextSubRun, SkipToFirstEvent,
                ReadRunOrSubRun, history, JobOver
  <2> QED BY <1>1, <2>1, <2>2, ReadingKept
<1>7. CASE DropDuplicate
  BY <1>1, <1>7, ReadingDrop DEF DropDuplicate, JobOver
<1>8. CASE WantEvent
  BY <1>1, <1>8, ReadingWant DEF WantEvent, JobOver
<1>9. CASE SkipEvent
  BY <1>1, <1>9, ReadingSkip DEF SkipEvent, JobOver
<1>10. CASE ReadEvent
  BY <1>1, <1>10, ReadingRead DEF ReadEvent, JobOver
<1>11. CASE UNCHANGED vars
  <2>1. /\ UNCHANGED <<config, rootFile, current, fiIter, checker, delivered, skipped, item>>
    BY <1>11 DEF vars, sequence, file, loop, history
  <2>2. CASE item # "Event" /\ ~ JobOver
    BY <1>2, <2>1, <2>2
  <2>3. CASE JobOver
    BY <1>1, <2>1, <2>3, SetUpKept DEF JobOver
  <2>4. CASE item = "Event"
    <3>1. CheckerKnows /\ PassedChosen /\ CheckerSetUp
      BY <1>1, <2>4 DEF JobOver
    <3>2. CheckerSetUp' /\ (CheckActive' <=> CheckActive)
      BY <2>1, <3>1, SetUpKept
    <3>3. here' = here /\ passed' = passed /\ \A at : (Behind(at)' <=> Behind(at)) /\ (Seen(at)' <=> Seen(at))
      BY <2>1 DEF here, passed, Behind, Seen
    <3>4. CheckerKnows'
      BY <2>1, <3>1, <3>2, <3>3, KnowsSame
    <3>5. \A at : Chosen(at)' <=> Chosen(at)
      BY <2>1, AskedSame
    <3>6. PassedChosen'
      <4>1. /\ \A at : Chosen(at) /\ Behind(at) <=> \E i \in DOMAIN passed : passed[i] = at
            /\ Chosen(here)
        BY <2>4, <3>1 DEF PassedChosen
      <4>2. PICK a : a = here
        OBVIOUS
      <4> HIDE DEF Chosen, Behind
      <4>3. \A at : Chosen(at)' /\ Behind(at)' <=> \E i \in DOMAIN passed' : passed'[i] = at
        BY <3>3, <3>5, <4>1
      <4>4. Chosen(a)' /\ a = here'
        BY <3>3, <3>5, <4>1, <4>2
      <4>5. Chosen(here)'
        BY <4>4 DEF Chosen, Repeats, Asked, Same, IDOf
      <4> QED BY <4>3, <4>5 DEF PassedChosen
    <3> QED BY <3>2, <3>4, <3>6
  <2> QED BY <2>2, <2>3, <2>4
<1> QED
  BY <1>3, <1>4, <1>5, <1>6, <1>7, <1>8, <1>9, <1>10, <1>11 DEF Next, Files, Wanted, Reads

(* Every step keeps the invariant.                                         *)
LEMMA StreamInvStep == StreamInv /\ [Next]_vars => StreamInv'
<1> SUFFICES ASSUME StreamInv, [Next]_vars PROVE StreamInv'
  OBVIOUS
<1>1. TypeOK /\ OrderInv /\ FirstInv /\ LimitInv /\ LeftAtEnd /\ SkippingInv
  BY DEF StreamInv, OrderInv, SkipInv
<1>2. OrderInv' /\ FirstInv'
  BY <1>1, OrderStep, FirstStep
<1>3. LimitInv' /\ LeftAtEnd' /\ SkippingInv'
  BY <1>1, LimitStep, LeftAtEndStep, SkippingStep
<1>4. CheckerSetUp' /\ (~ JobOver' => CheckerKnows' /\ PassedChosen')
  BY ReadingStep
<1> QED BY <1>2, <1>3, <1>4 DEF StreamInv

(* At first nothing is passed, nor known to the duplicate checker.         *)
LEMMA StreamInvInit == Init => StreamInv
<1> SUFFICES ASSUME Init PROVE StreamInv
  OBVIOUS
<1>1. SkipInv /\ TypeOK
  BY SkipInit DEF SkipInv
<1>2. passed = <<>> /\ delivered = <<>> /\ item = "Construct" /\ rootFile = 0 /\ current = 0
  BY DEF Init, passed
<1>3. OrderInv
  BY <1>1, <1>2 DEF OrderInv, InOrder
<1>4. FirstInv /\ LeftAtEnd /\ SkippingInv /\ CheckerSetUp
  BY DEF Init, FirstInv, LeftAtEnd, SkippingInv, CheckerSetUp
<1>5. LimitInv
  <2>1. opts.maxEvents \in Int
    BY <1>1, ConfigType DEF Option
  <2> QED BY <2>1 DEF Init, LimitInv
<1>6. ASSUME NEW at, Asked(at) PROVE ~ Behind(at)
  <2>1. at.file \in DOMAIN catalog /\ catalog \in Seq(File)
    BY <1>1, <1>6, ConfigType DEF Asked
  <2> QED BY <1>2, <2>1 DEF Behind
<1>7. CheckerKnows
  <2>1. checker.ids = {}
    BY DEF Init, FreshChecker
  <2>2. ~ \E at : Asked(at) /\ Seen(at)
    BY <1>2, <1>6 DEF Seen
  <2> QED BY <2>1, <2>2 DEF CheckerKnows
<1>8. PassedChosen
  <2>1. \A at : ~ (Chosen(at) /\ Behind(at))
    BY <1>6 DEF Chosen
  <2>2. \A at : ~ \E i \in DOMAIN passed : passed[i] = at
    BY <1>2
  <2> QED BY <1>2, <2>1, <2>2 DEF PassedChosen
<1> QED BY <1>3, <1>4, <1>5, <1>7, <1>8 DEF StreamInv

PassedPlaces == {passed[i] : i \in DOMAIN passed}

(* What was passed are as many places as were skipped and read.            *)
LEMMA PassedCounted ==
  ASSUME OrderInv
  PROVE  /\ IsFiniteSet(PassedPlaces) /\ Cardinality(PassedPlaces) = Len(skipped) + Len(delivered)
         /\ Len(skipped) \in Nat /\ Len(delivered) \in Nat /\ opts.skip \in Nat /\ Len(skipped) <= opts.skip
         /\ ToSkip = 0 => Len(skipped) = opts.skip
<1>1. TypeOK /\ skipped \in Seq(Position) /\ delivered \in Seq(Position) /\ passed \in Seq(Position)
  BY DEF OrderInv, SkipInv, TypeOK, passed
<1>2. /\ DOMAIN passed = 1..Len(passed) /\ Len(passed) = Len(skipped) + Len(delivered)
      /\ Len(skipped) \in Nat /\ Len(delivered) \in Nat /\ Len(passed) \in Nat
  BY <1>1 DEF passed
<1>3. passed \in Surjection(DOMAIN passed, PassedPlaces)
  <2>1. passed = [i \in DOMAIN passed |-> passed[i]]
    BY <1>1
  <2> QED BY <2>1 DEF Surjection, PassedPlaces
<1>4. passed \in Injection(DOMAIN passed, PassedPlaces)
  <2>1. ASSUME NEW i \in DOMAIN passed, NEW j \in DOMAIN passed, i < j PROVE passed[i] # passed[j]
    <3>1. Precedes(passed[i], passed[j]) /\ passed[j] \in Position
      BY <1>1, <2>1 DEF OrderInv, InOrder
    <3> QED BY <3>1 DEF Precedes, Position
  <2>2. \A i, j \in DOMAIN passed : i # j => passed[i] # passed[j]
    BY <1>2, <2>1
  <2>3. passed \in [DOMAIN passed -> PassedPlaces]
    BY <1>3 DEF Surjection
  <2>4. \A i, j \in DOMAIN passed : passed[i] = passed[j] => i = j
    BY <2>2
  <2> QED BY <2>3, <2>4 DEF Injection, IsInjective
<1>5. IsFiniteSet(DOMAIN passed) /\ Cardinality(DOMAIN passed) = Len(passed)
  BY <1>2, FS_Interval
<1>6. IsFiniteSet(PassedPlaces) /\ Cardinality(PassedPlaces) = Len(passed)
  BY <1>3, <1>4, <1>5, FS_Surjection
<1>7. Len(skipped) + ToSkip = opts.skip /\ ToSkip \in Nat /\ opts.skip \in Nat
  BY <1>1, ConfigType DEF OrderInv, SkipInv, SkipAccounting, ToSkip, TypeOK, Option
<1>8. Len(skipped) <= opts.skip /\ (ToSkip = 0 => Len(skipped) = opts.skip)
  BY <1>2, <1>7
<1> QED BY <1>2, <1>6, <1>7, <1>8

(* EventStream counts as InputSequence does.                               *)
LEMMA SameCount == ASSUME NEW S PROVE Stream!Cardinality(S) = Cardinality(S)
BY Zenon DEF Stream!Cardinality, Cardinality

(* The event that is offered is the next one of the stream.                *)
LEMMA OfferedIsNext ==
  ASSUME StreamInv, item = "Event"
  PROVE  here \in Stream!Candidates /\ Stream!Rank(here) = opts.skip + Len(delivered)
<1>1. OrderInv /\ TypeOK /\ PassedChosen /\ rootFile # 0 /\ ToSkip = 0
  BY DEF StreamInv, OrderInv, SkipInv, TypeOK, JobOver
<1>2. Chosen(here) /\ \A at : Chosen(at) /\ Precedes(at, here) <=> at \in PassedPlaces
  BY <1>1 DEF PassedChosen, PassedPlaces, Behind
<1>3. /\ \A at : at \in Stream!Candidates <=> Chosen(at)
      /\ \A a, b : Stream!Precedes(a, b) = Precedes(a, b)
  BY <1>1, StreamTerms
<1> HIDE DEF Chosen, PassedPlaces
<1>4. {b \in Stream!Candidates : Stream!Precedes(b, here)} = PassedPlaces
  BY <1>2, <1>3
<1>5. Stream!Rank(here) = Cardinality(PassedPlaces)
  BY <1>4, SameCount DEF Stream!Rank
<1> QED BY <1>1, <1>2, <1>3, <1>5, PassedCounted

(* Nothing is left of the stream when all that was chosen is behind.       *)
LEMMA NothingLeft ==
  ASSUME StreamInv, ~ JobOver, \A at : Chosen(at) => Behind(at)
  PROVE  Stream!Left = {}
<1>1. OrderInv /\ TypeOK /\ PassedChosen
  BY DEF StreamInv, OrderInv, SkipInv
<1>2. \A at : Chosen(at) <=> at \in PassedPlaces
  BY <1>1 DEF PassedChosen, PassedPlaces
<1>3. /\ \A at : at \in Stream!Candidates <=> at \in PassedPlaces
      /\ \A a, b : Stream!Precedes(a, b) = Precedes(a, b)
  BY <1>1, <1>2, StreamTerms
<1>4. SUFFICES ASSUME NEW at \in Stream!Left PROVE FALSE
  OBVIOUS
<1>5. at \in PassedPlaces /\ Stream!Rank(at) >= opts.skip + Len(delivered)
  BY <1>3 DEF Stream!Left
<1> DEFINE Before0 == {b \in Stream!Candidates : Stream!Precedes(b, at)}
<1>6. Before0 \in SUBSET (PassedPlaces \ {at})
  <2>1. ~ Precedes(at, at)
    <3>1. at \in Position
      BY <1>2, <1>5 DEF Chosen, Asked
    <3> QED BY <3>1 DEF Precedes, Position
  <2> QED BY <1>3, <2>1
<1>7. /\ IsFiniteSet(PassedPlaces) /\ Cardinality(PassedPlaces) = Len(skipped) + Len(delivered)
      /\ Len(skipped) \in Nat /\ Len(delivered) \in Nat /\ opts.skip \in Nat /\ Len(skipped) <= opts.skip
  BY <1>1, PassedCounted
<1>8. /\ IsFiniteSet(PassedPlaces \ {at})
      /\ Cardinality(PassedPlaces \ {at}) = Cardinality(PassedPlaces) - 1
  BY <1>5, <1>7, FS_RemoveElement
<1>9. Stream!Rank(at) = Cardinality(Before0)
  BY SameCount DEF Stream!Rank
<1> HIDE DEF Before0, PassedPlaces
<1>10. Cardinality(Before0) <= Cardinality(PassedPlaces) - 1 /\ Cardinality(Before0) \in Nat
  BY <1>6, <1>8, FS_Subset, FS_CardinalityType
<1> QED BY <1>5, <1>7, <1>9, <1>10

(* The job stops where nothing is left or the limit is reached.            *)
LEMMA StopsAtEnd ==
  ASSUME StreamInv, StopJob
  PROVE  Stream!Left = {} \/ Stream!LimitReached
<1>1. TypeOK /\ LimitInv /\ ~ JobOver
  BY DEF StreamInv, OrderInv, SkipInv, StopJob, JobOver
<1>2. remainingEvents = 0 \/ (type = "End" /\ current = Len(catalog))
  BY DEF StreamInv, LeftAtEnd, StopJob
<1>3. CASE remainingEvents = 0
  <2>1. opts.maxEvents \in Int /\ Len(delivered) \in Nat
    BY <1>1, ConfigType DEF Option, TypeOK
  <2>2. opts.maxEvents >= 0 /\ Len(delivered) >= opts.maxEvents
    BY <1>1, <1>3, <2>1 DEF LimitInv
  <2> QED BY <2>2 DEF Stream!LimitReached
<1>4. CASE type = "End" /\ current = Len(catalog)
  <2>1. ASSUME NEW at, Chosen(at) PROVE Behind(at)
    <3>1. Asked(at) /\ at.file \in DOMAIN catalog
      BY <1>1, <2>1, AskedPlace DEF Chosen
    <3>2. at.file <= current
      BY <1>1, <1>4, <3>1, ConfigType
    <3> QED BY <1>1, <1>4, <3>1, <3>2, BehindAtEnd
  <2> QED BY <1>1, <2>1, NothingLeft
<1> QED BY <1>2, <1>3, <1>4

(* The job fails where a file cannot be read, or where no file is left.    *)
LEMMA FailsForFiles ==
  ASSUME StreamInv, Construct \/ ReadNextFile, item' = "Failed"
  PROVE  Stream!Left = {} \/ \E f \in DOMAIN catalog : catalog[f].kind # "good"
<1>1. TypeOK /\ OrderInv /\ LeftAtEnd
  BY DEF StreamInv, OrderInv, SkipInv
<1>2. type = "End" /\ OpenResult \in {"throws", "none"} /\ ~ JobOver
  BY <1>1, OpensAtEnd DEF JobOver
<1>3. CASE OpenResult = "throws"
  <2>1. NextTried # 0 /\ catalog[NextTried].kind # "good"
    BY <1>3 DEF OpenResult
  <2>2. NextTried \in DOMAIN catalog
    BY <1>1, <2>1, NextTriedType
  <2> QED BY <2>1, <2>2
<1>4. CASE OpenResult = "none"
  <2>1. NextTried = 0
    BY <1>4 DEF OpenResult
  <2>2. ASSUME NEW at, Chosen(at) PROVE Behind(at)
    <3>1. Asked(at) /\ at.file \in DOMAIN catalog /\ catalog[at.file].kind = "good" /\ at.file \in Nat
      BY <1>1, <2>2, AskedPlace DEF Chosen
    <3>2. ~ (current < at.file)
      BY <1>1, <2>1, <3>1, PassedOver
    <3>3. current \in Nat
      BY <1>1, ConfigType DEF TypeOK
    <3>4. at.file <= current
      BY <3>1, <3>2, <3>3
    <3> QED BY <1>1, <1>2, <3>1, <3>4, BehindAtEnd
  <2> QED BY <1>2, <2>2, NothingLeft
<1> QED BY <1>2, <1>3, <1>4

(* An event with several entries cannot be read.                           *)
LEMMA FailsForEntries ==
  ASSUME TypeOK, ReadEventThrows
  PROVE  \E f \in DOMAIN catalog : ~ EventsUniqueAndOrdered(catalog[f].sorted)
<1>1. /\ rootFile # 0 /\ type = "Event" /\ FragmentsEnd(index, fiIter) # fiIter + 1
  BY DEF ReadEventThrows, SingleEntry, TypeOK
<1>2. /\ rootFile \in DOMAIN catalog /\ index \in Seq(ID) /\ fiIter \in DOMAIN index
      /\ EntryType(index[fiIter]) = "Event" /\ SortedBySubRun(index) /\ index = IndexOf(catalog[rootFile])
  BY <1>1, CursorType, IndexSorted DEF entry, index
<1>3. FragmentsEnd(index, fiIter) \in 1..End(index) /\ fiIter < FragmentsEnd(index, fiIter)
  BY <1>2, SearchesStayInside, SearchesGoForward
<1>4. fiIter + 1 \in DOMAIN index
  BY <1>1, <1>2, <1>3 DEF End
<1>5. index[fiIter + 1] = index[fiIter]
  <2>1. SUFFICES ASSUME index[fiIter + 1] # index[fiIter] PROVE FALSE
    OBVIOUS
  <2>2. fiIter \in Nat /\ fiIter + 1 > fiIter
    BY <1>2
  <2>3. FragmentsEnd(index, fiIter) <= fiIter + 1
    BY <1>2, <1>4, <2>1, <2>2, SearchesStopFirst
  <2>4. FragmentsEnd(index, fiIter) \in Nat
    BY <1>3
  <2> QED BY <1>1, <1>3, <2>2, <2>3, <2>4
<1>6. fiIter \in Events(index) /\ fiIter + 1 \in Events(index) /\ fiIter # fiIter + 1
  BY <1>2, <1>4, <1>5 DEF Events
<1> QED BY <1>2, <1>5, <1>6, BothOrders

(* Every step of the job is one of the stream, or changes nothing of it.   *)
LEMMA StreamStep == StreamInv /\ [Next]_vars => [Stream!Next]_(Stream!vars)
<1> SUFFICES ASSUME StreamInv, [Next]_vars PROVE Stream!Next \/ UNCHANGED Stream!vars
  OBVIOUS
<1>1. TypeOK /\ OrderInv /\ LimitInv
  BY DEF StreamInv, OrderInv, SkipInv
<1>2. CASE UNCHANGED <<catalog, opts, delivered>> /\ (JobOver' <=> JobOver)
  BY <1>2 DEF Stream!vars, JobOver
<1>3. CASE Construct \/ ReadNextFile
  <2>1. UNCHANGED <<catalog, opts, delivered>> /\ item \in {"Construct", "File"} /\ item' \in {"Idle", "Failed"}
    BY <1>1, <1>3, OpensAtEnd DEF StreamInv, config, history
  <2>2. CASE item' = "Failed"
    <3>1. Stream!Left = {} \/ \E f \in DOMAIN catalog : catalog[f].kind # "good"
      BY <1>3, <2>2, FailsForFiles
    <3>2. Stream!Finish \/ Stream!Abort
      BY <2>1, <2>2, <3>1 DEF Stream!Finish, Stream!Abort
    <3> QED BY <3>2 DEF Stream!Next
  <2>3. CASE item' # "Failed"
    BY <1>2, <2>1, <2>3 DEF JobOver
  <2> QED BY <2>2, <2>3
<1>4. CASE StopJob
  <2>1. UNCHANGED <<catalog, opts, delivered>> /\ item = "Stop" /\ item' = "Stopped"
    BY <1>4 DEF StopJob, config, history
  <2>2. Stream!Finish
    BY <1>4, <2>1, StopsAtEnd DEF Stream!Finish
  <2> QED BY <2>2 DEF Stream!Next
<1>5. CASE ReadEventThrows
  <2>1. UNCHANGED <<catalog, opts, delivered>> /\ item = "Event" /\ item' = "Failed"
    BY <1>5 DEF ReadEventThrows, MoveTo, config, history
  <2>2. \E f \in DOMAIN catalog : ~ EventsUniqueAndOrdered(catalog[f].sorted)
    BY <1>1, <1>5, FailsForEntries
  <2>3. \A ix : Stream!EventsUniqueAndOrdered(ix) <=> EventsUniqueAndOrdered(ix)
    BY DEF Stream!EventsUniqueAndOrdered, EventsUniqueAndOrdered, Stream!Events, Events,
           Stream!EntryType, EntryType
  <2>4. Stream!Abort
    BY <2>1, <2>2, <2>3 DEF Stream!Abort
  <2> QED BY <2>4 DEF Stream!Next
<1>6. CASE ReadEvent
  <2>1. /\ UNCHANGED <<catalog, opts>> /\ item = "Event" /\ item' = "Idle"
        /\ delivered' = Append(delivered, here)
    BY <1>6 DEF ReadEvent, config
  <2>2. here \in Stream!Candidates /\ Stream!Rank(here) = opts.skip + Len(delivered)
    BY <2>1, OfferedIsNext
  <2>3. opts.skip \in Nat /\ Len(delivered) \in Nat /\ opts.maxEvents \in Int
    BY <1>1, ConfigType DEF Option, TypeOK
  <2>4. here \in Stream!Left
    BY <2>2, <2>3 DEF Stream!Left
  <2>5. ~ Stream!LimitReached
    BY <1>1, <2>1, <2>3 DEF Stream!LimitReached, LimitInv
  <2>6. Stream!Deliver
    BY <2>1, <2>2, <2>4, <2>5 DEF Stream!Deliver
  <2> QED BY <2>6 DEF Stream!Next
<1>7. CASE ReadFirstFile \/ Limits \/ Wanted \/ ReadRunOrSubRun \/ UNCHANGED vars
  <2>1. UNCHANGED <<catalog, opts, delivered>> /\ (JobOver' <=> JobOver)
    BY <1>7 DEF ReadFirstFile, Limits, Wanted, LimitReached, FirstItem, AskFile, NoMoreEntries,
       SkipToFirstRun, WantRun, SkipToNextRun, SkipToFirstSubRun, WantSubRun, SkipToNextSubRun,
       SkipToFirstEvent, DropDuplicate, WantEvent, SkipEvent, EndSkipping, ReadRunOrSubRun,
       MoveTo, vars, config, loop, history, JobOver
  <2> QED BY <1>2, <2>1
<1> QED
  BY <1>3, <1>4, <1>5, <1>6, <1>7 DEF Next, Files, Reads

(* For every list of files and every configuration, the events that are    *)
(* read are those the stream promises: of all events of all files, in      *)
(* order, those at or after the first one wanted, each once where          *)
(* duplicates are looked for, without the leading ones to be skipped.      *)
THEOREM ReadsEventStream == Spec => StreamSpec
<1>1. Init => Stream!Init
  BY DEF Init, Stream!Init
<1>2. StreamInv /\ [Next]_vars => [Stream!Next]_(Stream!vars)
  BY StreamStep
<1> QED
  BY <1>1, <1>2, StreamInvInit, StreamInvStep, PTL DEF Spec, StreamSpec, Stream!Spec
=============================================================================
