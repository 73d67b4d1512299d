---------------------------- MODULE SamplingInput ----------------------------
(***************************************************************************)
(* The input source that samples datasets: SamplingInput, its              *)
(* DataSetBroker, and one SamplingInputFile for each dataset, driven by    *)
(* art's event loop.  One file, one run and one subrun are made up for the *)
(* job; events are drawn from datasets at random and are given new IDs.    *)
(*                                                                         *)
(* The random engine is a choice among the datasets whose weight is not 0. *)
(* Events are processed by Schedules schedules, and read their products    *)
(* when they are asked for, unless delayedReadEventProducts is off.        *)
(***************************************************************************)
EXTENDS FileIndex, RangeSet, FiniteSets, Bags

CONSTANTS
  Datasets,     \* names of datasets
  Keys,         \* names of products
  BranchType,   \* their branch types: "Run", "SubRun", "Event" or "Results"
  Children,     \* products made from a product (BranchChildren)
  Jobs,         \* configurations and the files they name
  Schedules

(* A file has an index, the entry of each element in its tree, the events  *)
(* that the event tree holds, the products registered, those that have a   *)
(* branch, and fragments of run and subrun products by key and entry.      *)
ASSUME SamplingAssumption ==
  /\ Schedules \in Nat \ {0}
  /\ "null" \notin Datasets
  /\ BranchType \in [Keys -> {"Run", "SubRun", "Event", "Results"}]
  /\ Children \in [Keys -> SUBSET Keys]
  /\ \A j \in Jobs :
       /\ j.maxEvents \in Nat /\ j.firstEvent \in Nat
       /\ j.weight \in [Datasets -> Int]
       /\ j.skipToEvent \in [Datasets -> [given : BOOLEAN, run : Nat, subRun : Nat, event : Nat]]
       /\ \A d \in Datasets :
            LET f == j.file[d] IN
            /\ f.registered \subseteq Keys
            /\ f.index \in Seq(ID) /\ f.entry \in [DOMAIN f.index -> Nat]
            /\ \A p \in Events(f.index) : f.tree[f.entry[p]] = f.index[p]

(* writeFileIndex() of the job that wrote a file sorted its index.         *)
ASSUME SortedAssumption == \A j \in Jobs : \A d \in Datasets : Sorted(j.file[d].index)

(* A run or subrun product counted each event of its range set once        *)
(* (RangeSets!CountsWhatItCovers), and none if that is invalid; products   *)
(* of the old format are those of the whole run.                           *)
CountsItsRanges(product) ==
  LET parts == BagToSet(product.counted) IN
  /\ product = [ranges |-> product.ranges, counted |-> SetToBag(parts), state |-> "product"]
  /\ \/ product.ranges = Invalid /\ parts = {}
     \/ product.ranges \in {Part(parts), FullRun}

FragmentsAgree(f) ==
  /\ f.oldFormat \in BOOLEAN
  /\ \A k \in f.registered \cap f.branches : \A p, q \in DOMAIN f.index :
       LET a == f.fragments[k][f.entry[p]]
           b == f.fragments[k][f.entry[q]]
       IN BranchType[k] \in {"Run", "SubRun"} /\ BranchType[k] = EntryType(f.index[p]) /\ f.index[p] = f.index[q] =>
            CountsItsRanges(a) /\ (a.ranges = b.ranges \/ f.oldFormat => a = b)

ASSUME FragmentsAssumption == \A j \in Jobs : \A d \in Datasets : FragmentsAgree(j.file[d])

VARIABLES
  job,                 \* fixed
  next,                \* what the event loop is about to do
  currentItemType,
  eventsLeft,
  totalCounts,
  counts,              \* of the broker, for each dataset
  currentDataset,
  fiIter,              \* of each file
  currentEventEntry,   \* of each file
  sampledKeys,         \* run and subrun products that are sampled
  run, subRun,         \* principals of the job's run and subrun, or NotRead
  nextEventID,         \* number of the next event
  events,              \* the event principals, in the order they were read
  summary              \* what the closing of the source reports, or NotRead

vars == <<job, next, currentItemType, eventsLeft, totalCounts, counts, currentDataset, fiIter,
          currentEventEntry, sampledKeys, run, subRun, nextEventID, events, summary>>

brokerVars == <<totalCounts, counts, currentDataset, fiIter, currentEventEntry>>
dataVars   == <<run, subRun, nextEventID, events, summary>>

File(d)  == job.file[d]
Index(d) == File(d).index

NotRead == [read |-> FALSE]

-----------------------------------------------------------------------------
(***************************************************************************)
(* Configuration                                                           *)
(***************************************************************************)

(* The first event wanted, NoEvent where skipToEvent is empty.  Subruns    *)
(* begin with number 0, which is 1 here since 0 stands for "no subrun".    *)
NoEvent == [run |-> 0, subRun |-> 0, event |-> 0]

StartAt(skipTo) ==
  IF skipTo.given
  THEN [run |-> skipTo.run, subRun |-> skipTo.subRun + 1, event |-> skipTo.event]
  ELSE NoEvent

FirstEvent(d) == StartAt(job.skipToEvent[d])

(* event_start_for_sampled_input() takes each of the numbers for that of   *)
(* an event, which is not 0: it refuses subruns of number 0.               *)
IsRefused(skipTo) == skipTo.given /\ (skipTo.run = 0 \/ skipTo.subRun = 0 \/ skipTo.event = 0)

IllegalStart(d) == IsRefused(job.skipToEvent[d])

IllegalConfiguration ==
  \/ \E d \in Datasets : job.weight[d] < 0 \/ job.nFiles[d] # 1 \/ IllegalStart(d)
  \/ \A d \in Datasets : job.weight[d] = 0

(* The datasets the distribution yields. *)
Drawn == {d \in Datasets : job.weight[d] > 0}

(* The constructor of the DataSetBroker *)
Configure ==
  /\ next = "Configure"
  /\ next' = IF IllegalConfiguration THEN "Failed" ELSE "Open"
  /\ UNCHANGED <<job, currentItemType, eventsLeft, sampledKeys, brokerVars, dataVars>>

-----------------------------------------------------------------------------
(***************************************************************************)
(* Opening the files                                                       *)
(***************************************************************************)
Descendants(k) ==
  LET made[n \in 0..Cardinality(Keys)] ==
        IF n = 0 THEN {k} ELSE made[n - 1] \cup UNION {Children[c] : c \in made[n - 1]}
  IN made[Cardinality(Keys)]

Selected(k) == k \in job.selected /\ BranchType[k] # "Results"

BranchesToDrop(d) ==
  UNION {IF job.dropDescendants THEN Descendants(k) ELSE {k} :
           k \in {c \in File(d).registered : ~ Selected(c)}}

(* dropOnInput_(), and the products without a branch that are passed over. *)
ProductList(d) == (File(d).registered \ BranchesToDrop(d)) \cap File(d).branches

(* treeForBranchType_() knows no tree of results, and dropOnInput_() asks  *)
(* it for every product that it drops.                                     *)
CannotOpen(d) ==
  \/ ~ File(d).opens
  \/ \E k \in File(d).registered \cap BranchesToDrop(d) : BranchType[k] = "Results"

OpenInputFiles ==
  /\ next = "Open"
  /\ IF \E d \in Datasets : CannotOpen(d)
     THEN next' = "Failed" /\ UNCHANGED sampledKeys
     ELSE /\ next' = "Ask"
          /\ sampledKeys' = {k \in UNION {ProductList(d) : d \in Datasets} :
                               BranchType[k] \in {"Run", "SubRun"}}
  /\ UNCHANGED <<job, currentItemType, eventsLeft, brokerVars, dataVars>>

-----------------------------------------------------------------------------
(***************************************************************************)
(* Run and subrun products                                                 *)
(***************************************************************************)
NoProduct == [ranges |-> Invalid, counted |-> EmptyBag, state |-> "none"]
Refused   == [NoProduct EXCEPT !.state = "refused"]

(* Mutant: fragments with the same range set are added up. *)
Merge_Same(a, b, oldFormat) ==
  IF a.state = "none" THEN b ELSE IF a.state = "refused" \/ oldFormat THEN a ELSE
  CASE ~ IsValid(a.ranges) /\ IsValid(b.ranges) -> b
    [] ~ IsValid(b.ranges) -> a
    [] OTHER -> [a EXCEPT !.ranges.events = @ \cup b.ranges.events,
                          !.counted = @ (+) b.counted]

(* SamplingDelayedReader::getProduct(): the first product, and one turn of *)
(* its loop.  Files of an old format have no range sets, and the first     *)
(* product is the result.                                                  *)
Merge(a, b, oldFormat) ==
  IF a.state = "none" THEN b ELSE IF a.state = "refused" \/ oldFormat THEN a ELSE
  CASE ~ IsValid(a.ranges) /\ IsValid(b.ranges) -> b
    [] DisjointRanges(a.ranges, b.ranges) ->
         [a EXCEPT !.ranges.events = @ \cup b.ranges.events, !.counted = @ (+) b.counted]
    [] OverlappingRanges(a.ranges, b.ranges) -> Refused
    [] OTHER -> a

(* Elements of one ID, in the order of the index. *)
GetProduct(d, k, id) ==
  LET f == File(d)
      upTo[p \in 0..Len(f.index)] ==
        IF p = 0 THEN NoProduct
        ELSE IF f.index[p] # id THEN upTo[p - 1]
        ELSE Merge(upTo[p - 1], f.fragments[k][f.entry[p]], f.oldFormat)
  IN upTo[Len(f.index)]

(* treeEntries() *)
IDsOf(d, bt) == {Index(d)[p] : p \in {q \in DOMAIN Index(d) : EntryType(Index(d)[q]) = bt}}

(* productsFor(): for each key, what each run or subrun of the file has.   *)
ProductsFor(d, bt) ==
  IF IDsOf(d, bt) = {} THEN <<>>
  ELSE [k \in {c \in ProductList(d) : BranchType[c] = bt} |->
          [id \in IDsOf(d, bt) |-> GetProduct(d, k, id)]]

(* readAllRunProducts(), readAllSubRunProducts(), sampledInfoFor() *)
HavingProduct(k)   == {d \in Datasets : k \in DOMAIN ProductsFor(d, BranchType[k])}
SampledProduct(k)  == [d \in HavingProduct(k) |-> ProductsFor(d, BranchType[k])[k]]
SampledInfo(bt)    == [d \in Datasets |-> IDsOf(d, bt)]

(* A product that cannot be aggregated, or make_sampled_product() asked    *)
(* for a product that no dataset has read.                                 *)
CannotSample(bt) ==
  \/ \E d \in Datasets : \E k \in DOMAIN ProductsFor(d, bt) :
       \E id \in IDsOf(d, bt) : ProductsFor(d, bt)[k][id].state = "refused"
  \/ \E k \in sampledKeys : BranchType[k] = bt /\ HavingProduct(k) = {}

Principal(bt) ==
  [read     |-> TRUE,
   info     |-> SampledInfo(bt),
   products |-> [k \in {c \in sampledKeys : BranchType[c] = bt} |-> SampledProduct(k)]]

ReadRun ==
  /\ next = "Run"
  /\ IF CannotSample("Run") THEN next' = "Failed" /\ UNCHANGED run
                            ELSE next' = "Ask" /\ run' = Principal("Run")
  /\ UNCHANGED <<job, currentItemType, eventsLeft, sampledKeys, brokerVars>>
  /\ UNCHANGED <<subRun, nextEventID, events, summary>>

ReadSubRun ==
  /\ next = "SubRun"
  /\ IF CannotSample("SubRun") THEN next' = "Failed" /\ UNCHANGED subRun
                               ELSE next' = "Ask" /\ subRun' = Principal("SubRun")
  /\ UNCHANGED <<job, currentItemType, eventsLeft, sampledKeys, brokerVars>>
  /\ UNCHANGED <<run, nextEventID, events, summary>>

-----------------------------------------------------------------------------
(***************************************************************************)
(* Drawing events                                                          *)
(***************************************************************************)

(* Mutant: the first event wanted is passed over. *)
Wanted_After(d) ==
  {p \in Events(Index(d)) : Before(FirstEvent(d), Index(d)[p])}

WantedFrom(d, first) == {p \in Events(Index(d)) : ~ Before(Index(d)[p], first)}

Wanted(d) == WantedFrom(d, FirstEvent(d))

(* updateEventEntry_() *)
NextWanted(d, it) == FirstOf(Index(d), {p \in Wanted(d) : p >= it})

Another(d) == NextWanted(d, fiIter[d]) # End(Index(d))

(* Mutant: the cursor stays on the event. *)
ReadyForNextEvent_Stays(d) ==
  LET p == NextWanted(d, fiIter[d])
  IN /\ fiIter' = [fiIter EXCEPT ![d] = p]
     /\ currentEventEntry' = [currentEventEntry EXCEPT
          ![d] = IF Another(d) THEN File(d).entry[p] ELSE @]

ReadyForNextEvent(d) ==
  LET p == NextWanted(d, fiIter[d])
  IN /\ fiIter' = [fiIter EXCEPT ![d] = IF Another(d) THEN p + 1 ELSE p]
     /\ currentEventEntry' = [currentEventEntry EXCEPT
          ![d] = IF Another(d) THEN File(d).entry[p] ELSE @]

(* canReadEvent(), where the engine yields d.  The source and the broker   *)
(* each keep a total, and count in the same step.                          *)
CanReadEvent(d) ==
  /\ currentDataset' = d
  /\ ReadyForNextEvent(d)
  /\ IF Another(d)
     THEN /\ counts' = [counts EXCEPT ![d] = @ + 1]
          /\ totalCounts' = totalCounts + 1
     ELSE UNCHANGED <<counts, totalCounts>>

-----------------------------------------------------------------------------
(***************************************************************************)
(* nextItemType()                                                          *)
(***************************************************************************)
NextRecord(current, new) ==
  /\ next = "Ask" /\ currentItemType = current
  /\ currentItemType' = new /\ next' = new
  /\ UNCHANGED <<job, eventsLeft, sampledKeys, brokerVars, dataVars>>

NextFile   == NextRecord("Invalid", "File")
NextRun    == NextRecord("File", "Run")
NextSubRun == NextRecord("Run", "SubRun")

AskForEvent ==
  /\ next = "Ask" /\ currentItemType \in {"SubRun", "Event"}
  /\ currentItemType' = "Event"

StopAtLimit ==
  /\ AskForEvent /\ eventsLeft = 0
  /\ next' = "Stop"
  /\ UNCHANGED <<job, eventsLeft, sampledKeys, brokerVars, dataVars>>

(* Mutant: another dataset is tried, and the one that was drawn again and  *)
(* again if there is none.                                                 *)
StopExhausted_Retries(d) ==
  /\ AskForEvent /\ eventsLeft > 0 /\ ~ Another(d)
  /\ CanReadEvent(d)
  /\ next' = "Ask"
  /\ UNCHANGED <<job, eventsLeft, sampledKeys, dataVars>>

StopExhausted(d) ==
  /\ AskForEvent /\ eventsLeft > 0 /\ ~ Another(d)
  /\ CanReadEvent(d)
  /\ next' = "Stop"
  /\ UNCHANGED <<job, eventsLeft, sampledKeys, dataVars>>

NextEvent(d) ==
  /\ AskForEvent /\ eventsLeft > 0 /\ Another(d)
  /\ CanReadEvent(d)
  /\ next' = "Event"
  /\ eventsLeft' = eventsLeft - 1
  /\ UNCHANGED <<job, sampledKeys, dataVars>>

NextItemType ==
  \/ NextFile \/ NextRun \/ NextSubRun \/ StopAtLimit
  \/ \E d \in Drawn : NextEvent(d) \/ StopExhausted(d)

-----------------------------------------------------------------------------
(***************************************************************************)
(* Reading, processing and closing                                         *)
(***************************************************************************)
ReadFile ==
  /\ next = "File" /\ next' = "Ask"
  /\ UNCHANGED <<job, currentItemType, eventsLeft, sampledKeys, brokerVars, dataVars>>

EventKeys(d) == {k \in ProductList(d) : BranchType[k] = "Event"}

InFlight == {n \in DOMAIN events : ~ events[n].done}

(* The event whose data the branches of the event tree hold in an entry.   *)
Stored(d, entry) == File(d).tree[entry]

(* SamplingInputFile::readEvent() *)
EventPrincipal(d) ==
  LET stored == Stored(d, currentEventEntry[d])
  IN [id |-> nextEventID, dataset |-> d, entry |-> currentEventEntry[d], sampled |-> stored,
      products |-> [k \in Keys |->
                      IF k \in EventKeys(d) /\ ~ job.delayedRead THEN stored ELSE NoEvent],
      done |-> FALSE]

ReadEvent ==
  /\ next = "Event" /\ Cardinality(InFlight) < Schedules
  /\ next' = "Ask"
  /\ events' = Append(events, EventPrincipal(currentDataset))
  /\ nextEventID' = nextEventID + 1
  /\ UNCHANGED <<job, currentItemType, eventsLeft, sampledKeys, brokerVars, run, subRun, summary>>

(* Mutant: the reader looks up the entry its file is at. *)
GetEventProduct_Current(n, k) ==
  /\ n \in InFlight
  /\ k \in EventKeys(events[n].dataset) /\ events[n].products[k] = NoEvent
  /\ events' = [events EXCEPT ![n].products[k] =
       Stored(events[n].dataset, currentEventEntry[events[n].dataset])]
  /\ UNCHANGED <<job, next, currentItemType, eventsLeft, sampledKeys, brokerVars>>
  /\ UNCHANGED <<run, subRun, nextEventID, summary>>

(* A module asks for a product: the reader has a copy of the entry.        *)
GetEventProduct(n, k) ==
  /\ n \in InFlight
  /\ k \in EventKeys(events[n].dataset) /\ events[n].products[k] = NoEvent
  /\ events' = [events EXCEPT ![n].products[k] = Stored(events[n].dataset, events[n].entry)]
  /\ UNCHANGED <<job, next, currentItemType, eventsLeft, sampledKeys, brokerVars>>
  /\ UNCHANGED <<run, subRun, nextEventID, summary>>

FinishEvent(n) ==
  /\ n \in InFlight
  /\ events' = [events EXCEPT ![n].done = TRUE]
  /\ UNCHANGED <<job, next, currentItemType, eventsLeft, sampledKeys, brokerVars>>
  /\ UNCHANGED <<run, subRun, nextEventID, summary>>

(* Mutant: the search begins after the entry the cursor is on. *)
NextEventOf_After(d) ==
  LET p == NextWanted(d, fiIter[d] + 1)
  IN IF p = End(Index(d)) THEN NoEvent ELSE Index(d)[p]

(* nextEvent(), which leaves the cursor alone *)
NextEventOf(d) ==
  LET p == NextWanted(d, fiIter[d])
  IN IF p = End(Index(d)) THEN NoEvent ELSE Index(d)[p]

(* closeFile() with countSummary() *)
CloseFile ==
  /\ next = "Stop" /\ InFlight = {}
  /\ next' = "Closed"
  /\ summary' = IF job.summary
                THEN [d \in Datasets |-> [count |-> counts[d], next |-> NextEventOf(d)]]
                ELSE summary
  /\ UNCHANGED <<job, currentItemType, eventsLeft, sampledKeys, brokerVars>>
  /\ UNCHANGED <<run, subRun, nextEventID, events>>

-----------------------------------------------------------------------------
Init ==
  /\ job \in Jobs
  /\ next = "Configure" /\ currentItemType = "Invalid"
  /\ eventsLeft = job.maxEvents
  /\ totalCounts = 0 /\ counts = [d \in Datasets |-> 0]
  /\ currentDataset = "null"
  /\ fiIter = [d \in Datasets |-> 1]
  /\ currentEventEntry = [d \in Datasets |-> -1]
  /\ sampledKeys = {}
  /\ run = NotRead /\ subRun = NotRead
  /\ nextEventID = job.firstEvent
  /\ events = <<>> /\ summary = NotRead

Next ==
  \/ Configure \/ OpenInputFiles
  \/ NextItemType
  \/ ReadFile \/ ReadRun \/ ReadSubRun \/ ReadEvent
  \/ \E n \in DOMAIN events : FinishEvent(n) \/ \E k \in Keys : GetEventProduct(n, k)
  \/ CloseFile

Spec     == Init /\ [][Next]_vars
FairSpec == Spec /\ WF_vars(Next)

-----------------------------------------------------------------------------
(***************************************************************************)
(* Properties                                                              *)
(***************************************************************************)

(* What a job keeps of an event it has read                                *)
Event == [id : Nat, dataset : Datasets, entry : Nat, sampled : ID, done : BOOLEAN,
          products : [Keys -> ID \cup {NoEvent}]]

(* Every variable has a value of its kind; an event is offered only when   *)
(* the cursor of its file is just behind it and its entry is at hand, and  *)
(* events are numbered one after the other from firstEvent.                *)
TypeOK ==
  /\ job \in Jobs
  /\ next \in {"Configure", "Open", "Ask", "File", "Run", "SubRun", "Event", "Stop", "Closed", "Failed"}
  /\ currentItemType \in {"Invalid", "File", "Run", "SubRun", "Event"}
  /\ eventsLeft \in 0..job.maxEvents
  /\ eventsLeft + totalCounts = job.maxEvents
  /\ totalCounts = Len(events) + (IF next = "Event" THEN 1 ELSE 0)
  /\ counts \in [Datasets -> 0..totalCounts]
  /\ currentDataset \in Datasets \cup {"null"}
  /\ fiIter \in [Datasets -> Nat]
  /\ \A d \in Datasets : fiIter[d] \in 1..End(Index(d))
  /\ currentEventEntry \in [Datasets -> Int]
  /\ sampledKeys \subseteq Keys
  /\ nextEventID = job.firstEvent + Len(events)
  /\ next = "Event" =>
       /\ currentDataset \in Drawn
       /\ fiIter[currentDataset] - 1 \in Wanted(currentDataset)
       /\ currentEventEntry[currentDataset] = File(currentDataset).entry[fiIter[currentDataset] - 1]
  /\ events \in Seq(Event)
  /\ \A n \in DOMAIN events : events[n].id = job.firstEvent + n - 1

(* What SampledStream promises: the events given are, for each dataset,    *)
(* the leading ones of those it was configured to give, in the order of    *)
(* its index, and sampling ends for one of two reasons.  An event that was *)
(* drawn and is not read yet is still left.                                *)
Left ==
  [d \in Datasets |->
     {p \in Wanted(d) : p >= fiIter[d]}
       \cup (IF next = "Event" /\ d = currentDataset THEN {fiIter[d] - 1} ELSE {})]

Given == [n \in DOMAIN events |-> [dataset |-> events[n].dataset, event |-> events[n].sampled]]

Stream == INSTANCE SampledStream WITH
  index <- [d \in Datasets |-> Index(d)],
  first <- [d \in Datasets |-> FirstEvent(d)],
  drawn <- Drawn,
  limit <- job.maxEvents,
  left  <- Left,
  given <- Given,
  over  <- next \in {"Stop", "Closed", "Failed"}

StreamSpec == Stream!Spec

(* A product of an event is that of the event in the file which the        *)
(* SampledEventInfo names, whatever was drawn from its dataset since and   *)
(* whenever it is asked for (SamplingDelayedReader's copy of the entry).   *)
EventsHoldTheirOwnProducts ==
  \A n \in DOMAIN events : \A k \in EventKeys(events[n].dataset) :
    \/ events[n].products[k] = events[n].sampled
    \/ events[n].products[k] = NoEvent /\ job.delayedRead

GivenFrom(d) == {n \in DOMAIN events : events[n].dataset = d}

(* The skipToEvent that names an event, with its own number of the subrun. *)
SkipTo(id) == [given |-> TRUE, run |-> id.run, subRun |-> id.subRun - 1, event |-> id.event]

(* The summary counts the events each dataset gave and names its next      *)
(* event.  With that event as the start of a later job, just the events    *)
(* that were not given are wanted (unless the file holds an event twice).  *)
(* But that job is refused, by its skipToEvent, if the event is in the     *)
(* subrun of number 0, here 1: from such an event no job can go on.  Any   *)
(* other event that is named can be used.                                  *)
SummaryTellsWhereToGoOn ==
  (next = "Closed" /\ job.summary) =>
    \A d \in Datasets :
      LET from  == summary[d].next
          given == {events[n].sampled : n \in GivenFrom(d)}
          later == IF from = NoEvent THEN {} ELSE WantedFrom(d, StartAt(SkipTo(from)))
          rest  == {Index(d)[p] : p \in later}
      IN /\ summary[d].count = Cardinality(GivenFrom(d))
         /\ from # NoEvent => (IsRefused(SkipTo(from)) <=> from.subRun = 1)
         /\ EventsUniqueAndOrdered(Index(d)) =>
              given \cap rest = {} /\ given \cup rest = {Index(d)[p] : p \in Wanted(d)}

PartsOf(d, k, id) ==
  UNION {BagToSet(File(d).fragments[k][File(d).entry[p]].counted) :
           p \in {q \in DOMAIN Index(d) : Index(d)[q] = id}}

(* Each run and subrun of each file is sampled once: for every product the *)
(* file has, its fragments are put together so that what any of them       *)
(* counted is counted once, whatever their order and however often one is  *)
(* repeated, and the SampledRunInfo lists the runs that have products.     *)
SampledOnce ==
  \A pr \in {run, subRun} : pr.read =>
    \A d \in Datasets : \A k \in ProductList(d) :
      \A id \in pr.info[d] : EntryType(id) = BranchType[k] =>
        /\ k \in DOMAIN pr.products /\ d \in DOMAIN pr.products[k]
        /\ DOMAIN pr.products[k][d] = pr.info[d]
        /\ LET counted == pr.products[k][d][id].counted
           IN /\ BagToSet(counted) = PartsOf(d, k, id)
              /\ \A part \in BagToSet(counted) : counted[part] = 1

(* Every job comes to its end: closed, or failed.                          *)
JobEnds == <>(next \in {"Closed", "Failed"})
=============================================================================
