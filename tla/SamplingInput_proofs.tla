------------------------ MODULE SamplingInput_proofs ------------------------
(***************************************************************************)
(* Sampling, for all datasets, files and configurations.                   *)
(***************************************************************************)
EXTENDS SamplingInput, FileIndex_proofs, SequenceTheorems, FiniteSetTheorems

(* What the assumption says of the job that runs.                          *)
LEMMA JobFacts ==
  ASSUME job \in Jobs
  PROVE  /\ job.maxEvents \in Nat /\ job.firstEvent \in Nat
         /\ "null" \notin Datasets
         /\ \A d \in Datasets :
              /\ File(d).registered \subseteq Keys
              /\ Index(d) \in Seq(ID) /\ File(d).entry \in [DOMAIN Index(d) -> Nat]
              /\ \A p \in Events(Index(d)) : Stored(d, File(d).entry[p]) = Index(d)[p]
BY SamplingAssumption DEF Index, File, Stored

LEMMA WantedFacts ==
  ASSUME job \in Jobs, NEW d \in Datasets
  PROVE  /\ Wanted(d) \subseteq Events(Index(d))
         /\ Events(Index(d)) \subseteq DOMAIN Index(d)
         /\ DOMAIN Index(d) = 1..Len(Index(d)) /\ Len(Index(d)) \in Nat
<1>1. Index(d) \in Seq(ID)
  BY JobFacts
<1> QED BY <1>1 DEF Wanted, WantedFrom, Events

(* updateEventEntry_() finds the first event wanted that is not before the *)
(* cursor, or end().                                                       *)
LEMMA NextWantedFacts ==
  ASSUME job \in Jobs, NEW d \in Datasets, NEW it \in 1..End(Index(d))
  PROVE  LET p == NextWanted(d, it) IN
         /\ p \in 1..End(Index(d))
         /\ p # End(Index(d)) => p \in Wanted(d) /\ p >= it
         /\ \A q \in Wanted(d) : q >= it => p <= q
<1> DEFINE S == {p \in Wanted(d) : p >= it}
<1>1. Index(d) \in Seq(ID)
  BY JobFacts
<1>2. S \in SUBSET DOMAIN Index(d)
  BY WantedFacts
<1>3. /\ FirstOf(Index(d), S) \in 1..End(Index(d))
      /\ FirstOf(Index(d), S) = End(Index(d)) \/ FirstOf(Index(d), S) \in S
      /\ \A q \in S : FirstOf(Index(d), S) <= q
  BY <1>1, <1>2, FirstOfProperties
<1> QED BY <1>3 DEF NextWanted

-----------------------------------------------------------------------------
(* Where the event loop is before the first event is offered.              *)
BeforeEvents ==
  /\ next \in {"Configure", "Open"} => currentItemType = "Invalid"
  /\ next \in {"File", "Run", "SubRun", "Event"} => currentItemType = next
  /\ next = "Stop" => currentItemType = "Event"
  /\ currentItemType # "Event" => events = <<>>

(* An event's SampledEventInfo is what its entry holds.                    *)
EventsAsStored ==
  \A n \in DOMAIN events : events[n].sampled = Stored(events[n].dataset, events[n].entry)

SamplingInv == TypeOK /\ BeforeEvents /\ EventsAsStored /\ EventsHoldTheirOwnProducts

(* Steps that draw no event and read none leave this alone.                *)
LEMMA DrawStep ==
  ASSUME TypeOK, NEW d \in Drawn, CanReadEvent(d), next # "Event"
  PROVE  /\ currentDataset' \in Datasets
         /\ fiIter' \in [Datasets -> Nat]
         /\ \A c \in Datasets : fiIter'[c] \in 1..End(Index(c))
         /\ currentEventEntry' \in [Datasets -> Int]
         /\ totalCounts' = totalCounts + (IF Another(d) THEN 1 ELSE 0)
         /\ counts' \in [Datasets -> 0..totalCounts']
         /\ currentDataset' = d
         /\ Another(d) => /\ fiIter'[d] - 1 = NextWanted(d, fiIter[d])
                          /\ NextWanted(d, fiIter[d]) \in Wanted(d)
                          /\ currentEventEntry'[d] = File(d).entry[NextWanted(d, fiIter[d])]
<1> DEFINE p == NextWanted(d, fiIter[d])
<1>1. job \in Jobs /\ d \in Datasets /\ fiIter[d] \in 1..End(Index(d))
      /\ fiIter \in [Datasets -> Nat] /\ currentEventEntry \in [Datasets -> Int]
      /\ \A c \in Datasets : fiIter[c] \in 1..End(Index(c))
  BY DEF TypeOK, Drawn
<1>2. /\ p \in 1..End(Index(d))
      /\ p # End(Index(d)) => p \in Wanted(d)
  BY <1>1, NextWantedFacts
<1>3. \A c \in Datasets : End(Index(c)) \in Nat /\ End(Index(c)) = Len(Index(c)) + 1
  BY <1>1, WantedFacts DEF End
<1>4. p \in Wanted(d) => p \in 1..Len(Index(d)) /\ File(d).entry[p] \in Nat
  BY <1>1, WantedFacts, JobFacts
<1> HIDE DEF p
<1>5. fiIter' = [fiIter EXCEPT ![d] = IF Another(d) THEN p + 1 ELSE p]
  BY DEF CanReadEvent, ReadyForNextEvent, p
<1>6. currentEventEntry' = [currentEventEntry EXCEPT ![d] = IF Another(d) THEN File(d).entry[p] ELSE @]
  BY DEF CanReadEvent, ReadyForNextEvent, p
<1>7. Another(d) <=> p # End(Index(d))
  BY DEF Another, p
<1>8. fiIter' \in [Datasets -> Nat] /\ \A c \in Datasets : fiIter'[c] \in 1..End(Index(c))
  BY <1>1, <1>2, <1>3, <1>4, <1>5, <1>7
<1>9. currentEventEntry' \in [Datasets -> Int]
  BY <1>1, <1>2, <1>4, <1>6, <1>7
<1>10. totalCounts \in Nat /\ counts \in [Datasets -> 0..totalCounts]
  BY DEF TypeOK
<1>11. totalCounts' = totalCounts + (IF Another(d) THEN 1 ELSE 0)
  BY <1>10 DEF CanReadEvent
<1>12. counts' \in [Datasets -> 0..totalCounts']
  <2>1. CASE Another(d)
    <3>1. counts' = [counts EXCEPT ![d] = @ + 1] /\ totalCounts' = totalCounts + 1
      BY <2>1 DEF CanReadEvent
    <3> QED BY <3>1, <1>1, <1>10
  <2>2. CASE ~ Another(d)
    BY <2>2, <1>10 DEF CanReadEvent
  <2> QED BY <2>1, <2>2
<1>13. currentDataset' = d
  BY DEF CanReadEvent
<1>14. Another(d) => fiIter'[d] - 1 = p /\ p \in Wanted(d) /\ currentEventEntry'[d] = File(d).entry[p]
  BY <1>1, <1>2, <1>4, <1>5, <1>6, <1>7
<1> QED BY <1>1, <1>8, <1>9, <1>11, <1>12, <1>13, <1>14 DEF p

-----------------------------------------------------------------------------
LEMMA SamplingInit == Init => SamplingInv
<1> SUFFICES ASSUME Init PROVE SamplingInv
  OBVIOUS
<1>1. job \in Jobs
  BY DEF Init
<1>2. \A d \in Datasets : 1 \in 1..End(Index(d))
  BY <1>1, WantedFacts DEF End
<1>3. TypeOK
  BY <1>1, <1>2, JobFacts DEF Init, TypeOK
<1>4. BeforeEvents /\ EventsAsStored /\ EventsHoldTheirOwnProducts
  BY DEF Init, BeforeEvents, EventsAsStored, EventsHoldTheirOwnProducts
<1> QED BY <1>3, <1>4 DEF SamplingInv

(* Steps that leave the events and the broker alone.                       *)
LEMMA QuietStep ==
  ASSUME SamplingInv,
         UNCHANGED <<job, eventsLeft, brokerVars, nextEventID, events>>,
         next # "Event", next' # "Event",
         next' \in {"Open", "Ask", "File", "Run", "SubRun", "Stop", "Closed", "Failed"},
         currentItemType' \in {"Invalid", "File", "Run", "SubRun", "Event"},
         sampledKeys' \subseteq Keys,
         BeforeEvents'
  PROVE  SamplingInv'
<1>1. TypeOK'
  BY DEF SamplingInv, TypeOK, brokerVars, Index, File, Wanted, WantedFrom, Drawn, Event, FirstEvent, Events
<1>2. EventsAsStored' /\ EventsHoldTheirOwnProducts'
  BY DEF SamplingInv, EventsAsStored, EventsHoldTheirOwnProducts, Stored, File, EventKeys,
         ProductList, BranchesToDrop, Selected
<1> QED BY <1>1, <1>2 DEF SamplingInv

LEMMA DrawingStep ==
  ASSUME SamplingInv, NEW d \in Drawn, NextEvent(d) \/ StopExhausted(d)
  PROVE  SamplingInv'
<1>1. TypeOK /\ next = "Ask" /\ CanReadEvent(d)
      /\ UNCHANGED <<job, sampledKeys, dataVars>> /\ currentItemType' = "Event"
  BY DEF SamplingInv, NextEvent, StopExhausted, AskForEvent
<1>2. /\ currentDataset' \in Datasets
      /\ fiIter' \in [Datasets -> Nat]
      /\ \A c \in Datasets : fiIter'[c] \in 1..End(Index(c))
      /\ currentEventEntry' \in [Datasets -> Int]
      /\ totalCounts' = totalCounts + (IF Another(d) THEN 1 ELSE 0)
      /\ counts' \in [Datasets -> 0..totalCounts']
      /\ currentDataset' = d
      /\ Another(d) => /\ fiIter'[d] - 1 = NextWanted(d, fiIter[d])
                       /\ NextWanted(d, fiIter[d]) \in Wanted(d)
                       /\ currentEventEntry'[d] = File(d).entry[NextWanted(d, fiIter[d])]
  BY <1>1, DrawStep
<1>3. \/ next' = "Event" /\ Another(d) /\ eventsLeft > 0 /\ eventsLeft' = eventsLeft - 1
      \/ next' = "Stop" /\ ~ Another(d) /\ eventsLeft' = eventsLeft
  BY DEF NextEvent, StopExhausted
<1>4. job' = job /\ events' = events /\ sampledKeys' = sampledKeys /\ nextEventID' = nextEventID
  BY <1>1 DEF dataVars
<1>5. \A c \in Datasets : File(c)' = File(c) /\ Index(c)' = Index(c) /\ Wanted(c)' = Wanted(c)
  BY <1>4 DEF File, Index, Wanted, WantedFrom, FirstEvent
<1>6. Drawn' = Drawn /\ Drawn \subseteq Datasets
  BY <1>4 DEF Drawn
<1>7. TypeOK'
  <2>1. /\ eventsLeft' \in 0..job.maxEvents /\ eventsLeft' + totalCounts' = job.maxEvents
        /\ totalCounts' = Len(events) + (IF next' = "Event" THEN 1 ELSE 0)
    <3>1. /\ eventsLeft \in 0..job.maxEvents /\ eventsLeft + totalCounts = job.maxEvents
          /\ totalCounts = Len(events) /\ events \in Seq(Event) /\ job.maxEvents \in Nat
      BY <1>1, JobFacts DEF TypeOK
    <3>2. Len(events) \in Nat
      BY <3>1
    <3>3. CASE next' = "Event" /\ Another(d) /\ eventsLeft > 0 /\ eventsLeft' = eventsLeft - 1
      <4>1. totalCounts' = totalCounts + 1
        BY <1>2, <3>3
      <4> QED BY <3>1, <3>2, <3>3, <4>1
    <3>4. CASE next' = "Stop" /\ ~ Another(d) /\ eventsLeft' = eventsLeft
      <4>1. totalCounts' = totalCounts + 0
        BY <1>2, <3>4
      <4> QED BY <3>1, <3>2, <3>4, <4>1
    <3> QED BY <1>3, <3>3, <3>4
  <2>2. \A c \in Datasets : fiIter'[c] \in 1..End(Index(c))'
    BY <1>2, <1>5 DEF End
  <2>3. next' = "Event" =>
         /\ currentDataset' \in Drawn'
         /\ fiIter'[currentDataset'] - 1 \in Wanted(d)'
         /\ currentEventEntry'[currentDataset'] = File(d)'.entry[fiIter'[currentDataset'] - 1]
    BY <1>2, <1>3, <1>5, <1>6
  <2>4. next' \in {"Event", "Stop"} /\ currentDataset' = d
    BY <1>2, <1>3
  <2> QED BY <1>1, <1>2, <1>4, <2>1, <2>2, <2>3, <2>4 DEF TypeOK, Event
<1>8. BeforeEvents'
  BY <1>1, <1>3, <1>4 DEF BeforeEvents
<1>9. EventsAsStored' /\ EventsHoldTheirOwnProducts'
  BY <1>4 DEF SamplingInv, EventsAsStored, EventsHoldTheirOwnProducts, Stored, File, EventKeys,
              ProductList, BranchesToDrop, Selected
<1> QED BY <1>7, <1>8, <1>9 DEF SamplingInv

(* Steps that change one event and leave everything else alone.            *)
LEMMA ChangedEvent ==
  ASSUME SamplingInv, NEW n \in DOMAIN events, NEW e \in Event,
         e.id = events[n].id, e.dataset = events[n].dataset, e.entry = events[n].entry,
         e.sampled = events[n].sampled,
         \A k \in EventKeys(e.dataset) :
           e.products[k] \in {events[n].products[k], Stored(e.dataset, e.entry)},
         events' = [events EXCEPT ![n] = e],
         UNCHANGED <<job, next, currentItemType, eventsLeft, sampledKeys, brokerVars, nextEventID>>
  PROVE  SamplingInv' /\ Given' = Given
<1>1. TypeOK /\ events \in Seq(Event)
  BY DEF SamplingInv, TypeOK
<1>2. /\ events' \in Seq(Event) /\ Len(events') = Len(events) /\ DOMAIN events' = DOMAIN events
      /\ events'[n] = e
      /\ \A m \in DOMAIN events : m # n => events'[m] = events[m]
  BY <1>1
<1>3. \A m \in DOMAIN events :
        /\ events'[m].id = events[m].id /\ events'[m].dataset = events[m].dataset
        /\ events'[m].entry = events[m].entry /\ events'[m].sampled = events[m].sampled
  BY <1>2
<1>4. \A d \in Datasets : File(d)' = File(d) /\ Index(d)' = Index(d) /\ Wanted(d)' = Wanted(d)
  BY DEF File, Index, Wanted, WantedFrom, FirstEvent
<1>5. Drawn' = Drawn
  BY DEF Drawn
<1>6. TypeOK'
  <2>1. \A m \in DOMAIN events' : events'[m].id = job.firstEvent + m - 1
    BY <1>1, <1>2, <1>3 DEF TypeOK
  <2>2. \A d \in Datasets : End(Index(d))' = End(Index(d))
    BY <1>4 DEF End
  <2>3. UNCHANGED <<counts, totalCounts, currentDataset, fiIter, currentEventEntry>>
    BY DEF brokerVars
  <2>4. totalCounts' = Len(events') + (IF next' = "Event" THEN 1 ELSE 0)
    BY <1>1, <1>2, <2>3 DEF TypeOK
  <2>5. \A d \in Datasets : fiIter'[d] \in 1..End(Index(d))'
    BY <1>1, <2>2, <2>3 DEF TypeOK
  <2>6. nextEventID' = job'.firstEvent + Len(events')
    BY <1>1, <1>2 DEF TypeOK
  <2>7. next' = "Event" =>
          /\ currentDataset' \in Drawn'
          /\ fiIter'[currentDataset'] - 1 \in Wanted(currentDataset)'
          /\ currentEventEntry'[currentDataset'] =
               File(currentDataset)'.entry[fiIter'[currentDataset'] - 1]
    BY <1>1, <1>4, <1>5, <2>3 DEF TypeOK, Drawn, File, Index, Wanted, WantedFrom, FirstEvent
  <2>8. /\ job' \in Jobs /\ next' \in {"Configure", "Open", "Ask", "File", "Run", "SubRun", "Event",
                                      "Stop", "Closed", "Failed"}
        /\ currentItemType' \in {"Invalid", "File", "Run", "SubRun", "Event"}
        /\ eventsLeft' \in 0..job'.maxEvents /\ eventsLeft' + totalCounts' = job'.maxEvents
        /\ counts' \in [Datasets -> 0..totalCounts'] /\ currentDataset' \in Datasets \cup {"null"}
        /\ fiIter' \in [Datasets -> Nat] /\ currentEventEntry' \in [Datasets -> Int]
        /\ sampledKeys' \subseteq Keys
    BY <1>1, <2>3 DEF TypeOK
  <2>9. events' \in Seq(Event) /\ \A m \in DOMAIN events' : events'[m].id = job'.firstEvent + m - 1
    BY <1>2, <2>1
  <2> QED BY <2>4, <2>5, <2>6, <2>7, <2>8, <2>9 DEF TypeOK
<1>7. BeforeEvents'
  <2>1. events = <<>> => FALSE
    OBVIOUS
  <2> QED BY <2>1 DEF SamplingInv, BeforeEvents
<1>8. EventsAsStored'
  <2>1. \A m \in DOMAIN events : events[m].sampled = Stored(events[m].dataset, events[m].entry)
    BY DEF SamplingInv, EventsAsStored
  <2>2. ASSUME NEW m \in DOMAIN events
        PROVE  events'[m].sampled = Stored(events[m].dataset, events[m].entry)
    BY <1>2, <1>3, <2>1
  <2>3. ASSUME NEW m \in DOMAIN events
        PROVE  events'[m].sampled = job'.file[events'[m].dataset].tree[events'[m].entry]
    BY <1>3, <2>2 DEF Stored, File
  <2> QED BY <1>2, <2>3 DEF EventsAsStored, Stored, File
<1>9. EventsHoldTheirOwnProducts'
  <2>1. job' = job /\ \A d : EventKeys(d)' = EventKeys(d)
    BY DEF EventKeys, ProductList, BranchesToDrop, Selected, File
  <2>2. \A m \in DOMAIN events : \A k \in EventKeys(events[m].dataset) :
          \/ events[m].products[k] = events[m].sampled
          \/ events[m].products[k] = NoEvent /\ job.delayedRead
    BY DEF SamplingInv, EventsHoldTheirOwnProducts
  <2>3. e.sampled = Stored(e.dataset, e.entry)
    BY DEF SamplingInv, EventsAsStored
  <2>4. \A k \in EventKeys(e.dataset) :
          e.products[k] = e.sampled \/ (e.products[k] = NoEvent /\ job.delayedRead)
    <3>1. \A k \in EventKeys(e.dataset) :
            \/ events[n].products[k] = e.sampled
            \/ events[n].products[k] = NoEvent /\ job.delayedRead
      BY <2>2
    <3>2. \A k \in EventKeys(e.dataset) :
            e.products[k] = events[n].products[k] \/ e.products[k] = e.sampled
      BY <2>3
    <3> QED BY <3>1, <3>2
  <2>5. \A m \in DOMAIN events : \A k \in EventKeys(events'[m].dataset) :
          \/ events'[m].products[k] = events'[m].sampled
          \/ events'[m].products[k] = NoEvent /\ job.delayedRead
    BY <1>2, <2>2, <2>4
  <2> QED BY <1>2, <2>1, <2>5 DEF EventsHoldTheirOwnProducts
<1>10. Given' = Given
  BY <1>2, <1>3 DEF Given
<1> QED BY <1>6, <1>7, <1>8, <1>9, <1>10 DEF SamplingInv

LEMMA FinishStep ==
  ASSUME SamplingInv, NEW n \in DOMAIN events, FinishEvent(n)
  PROVE  SamplingInv' /\ Given' = Given
<1> DEFINE e == [events[n] EXCEPT !.done = TRUE]
<1>1. events[n] \in Event
  BY DEF SamplingInv, TypeOK
<1>2. e \in Event
  BY <1>1 DEF Event
<1>3. /\ e.id = events[n].id /\ e.dataset = events[n].dataset /\ e.entry = events[n].entry
      /\ e.sampled = events[n].sampled /\ e.products = events[n].products
  BY <1>1 DEF Event
<1>4. events' = [events EXCEPT ![n] = e]
  BY DEF FinishEvent
<1>5. UNCHANGED <<job, next, currentItemType, eventsLeft, sampledKeys, brokerVars, nextEventID>>
  BY DEF FinishEvent
<1> HIDE DEF e
<1> QED BY <1>2, <1>3, <1>4, <1>5, ChangedEvent

LEMMA ProductStep ==
  ASSUME SamplingInv, NEW n \in DOMAIN events, NEW k \in Keys, GetEventProduct(n, k)
  PROVE  SamplingInv' /\ Given' = Given
<1> DEFINE value == Stored(events[n].dataset, events[n].entry)
           e     == [events[n] EXCEPT !.products[k] = value]
<1>1. events[n] \in Event /\ value = events[n].sampled
  BY DEF SamplingInv, TypeOK, EventsAsStored
<1> HIDE DEF value
<1>2. e \in Event
  BY <1>1 DEF Event
<1>3. /\ e.id = events[n].id /\ e.dataset = events[n].dataset /\ e.entry = events[n].entry
      /\ e.sampled = events[n].sampled
      /\ e.products = [events[n].products EXCEPT ![k] = value]
  BY <1>1 DEF Event
<1>4. events' = [events EXCEPT ![n] = e]
  BY DEF GetEventProduct, value
<1>5. UNCHANGED <<job, next, currentItemType, eventsLeft, sampledKeys, brokerVars, nextEventID>>
  BY DEF GetEventProduct
<1>6. \A c \in EventKeys(e.dataset) : e.products[c] \in {events[n].products[c], Stored(e.dataset, e.entry)}
  <2>1. events[n].products \in [Keys -> ID \cup {NoEvent}]
    BY <1>1 DEF Event
  <2>2. \A c \in EventKeys(e.dataset) : c \in Keys
    <3>1. job \in Jobs /\ e.dataset \in Datasets
      BY <1>1, <1>3 DEF SamplingInv, TypeOK, Event
    <3> QED BY <3>1, JobFacts DEF EventKeys, ProductList
  <2> QED BY <1>3, <2>1, <2>2 DEF value
<1> HIDE DEF e
<1> QED BY <1>2, <1>3, <1>4, <1>5, <1>6, ChangedEvent

LEMMA ReadEventStep ==
  ASSUME SamplingInv, ReadEvent
  PROVE  /\ SamplingInv'
         /\ events' = Append(events, EventPrincipal(currentDataset))
         /\ EventPrincipal(currentDataset) \in Event
         /\ EventPrincipal(currentDataset).sampled = Index(currentDataset)[fiIter[currentDataset] - 1]
<1> DEFINE d == currentDataset
           p == fiIter[d] - 1
           e == EventPrincipal(d)
<1>1. /\ TypeOK /\ job \in Jobs /\ next = "Event" /\ next' = "Ask"
      /\ events' = Append(events, e) /\ nextEventID' = nextEventID + 1
      /\ UNCHANGED <<job, currentItemType, eventsLeft, sampledKeys, brokerVars>>
  BY DEF SamplingInv, TypeOK, ReadEvent
<1>2. d \in Datasets /\ p \in Wanted(d) /\ currentEventEntry[d] = File(d).entry[p]
  BY <1>1 DEF TypeOK, Drawn
<1>3. p \in Events(Index(d)) /\ p \in DOMAIN Index(d)
  BY <1>1, <1>2, WantedFacts
<1>4. /\ currentEventEntry[d] \in Nat /\ Index(d)[p] \in ID
      /\ Stored(d, currentEventEntry[d]) = Index(d)[p]
  BY <1>1, <1>2, <1>3, JobFacts
<1>5. nextEventID \in Nat /\ nextEventID = job.firstEvent + Len(events) /\ Len(events) \in Nat
      /\ events \in Seq(Event) /\ job.firstEvent \in Nat
      /\ \A n \in DOMAIN events : events[n].id = job.firstEvent + n - 1
  <2>1. /\ nextEventID = job.firstEvent + Len(events) /\ events \in Seq(Event)
        /\ \A n \in DOMAIN events : events[n].id = job.firstEvent + n - 1
    BY <1>1 DEF TypeOK
  <2>2. job.firstEvent \in Nat
    BY <1>1, JobFacts
  <2> QED BY <2>1, <2>2
<1> HIDE DEF d, p
<1>6. /\ e \in Event /\ e.id = nextEventID /\ e.dataset = d /\ e.entry = currentEventEntry[d]
      /\ e.sampled = Index(d)[p]
      /\ \A k \in EventKeys(d) :
           e.products[k] = e.sampled \/ (e.products[k] = NoEvent /\ job.delayedRead)
  <2>1. \A k \in EventKeys(d) : k \in Keys
    BY <1>1, <1>2, JobFacts DEF EventKeys, ProductList
  <2> QED BY <1>2, <1>4, <1>5, <2>1 DEF EventPrincipal, Event
<1> HIDE DEF e
<1>7. /\ events' \in Seq(Event) /\ Len(events') = Len(events) + 1
      /\ DOMAIN events' = 1..(Len(events) + 1) /\ DOMAIN events = 1..Len(events)
      /\ events'[Len(events) + 1] = e
      /\ \A n \in DOMAIN events : events'[n] = events[n]
  BY <1>1, <1>5, <1>6
<1>8. TypeOK'
  <2>1. \A n \in DOMAIN events' : events'[n].id = job.firstEvent + n - 1
    <3>1. \A n \in 1..Len(events) : events'[n].id = job.firstEvent + n - 1
      BY <1>5, <1>7
    <3>2. events'[Len(events) + 1].id = job.firstEvent + (Len(events) + 1) - 1
      BY <1>5, <1>6, <1>7
    <3> QED BY <1>5, <1>7, <3>1, <3>2
  <2>2. totalCounts' = Len(events')
    <3>1. totalCounts = Len(events) + 1 /\ totalCounts' = totalCounts
      BY <1>1 DEF TypeOK, brokerVars
    <3> QED BY <1>7, <3>1
  <2>3. nextEventID' = job'.firstEvent + Len(events')
    <3>1. nextEventID' = nextEventID + 1 /\ job' = job
      BY <1>1
    <3>2. Len(events') = Len(events) + 1
      BY <1>7
    <3> QED BY <1>5, <3>1, <3>2
  <2>4. \A c \in Datasets : Index(c)' = Index(c)
    BY <1>1 DEF Index, File
  <2>5. /\ eventsLeft' \in 0..job.maxEvents /\ eventsLeft' + totalCounts' = job.maxEvents
        /\ counts' \in [Datasets -> 0..totalCounts']
        /\ currentDataset' \in Datasets \cup {"null"}
        /\ fiIter' \in [Datasets -> Nat]
        /\ \A c \in Datasets : fiIter'[c] \in 1..End(Index(c))'
        /\ currentEventEntry' \in [Datasets -> Int]
        /\ sampledKeys' \subseteq Keys
        /\ currentItemType' \in {"Invalid", "File", "Run", "SubRun", "Event"}
    BY <1>1, <2>4 DEF TypeOK, brokerVars, End
  <2>6. Event' = Event
    BY DEF Event
  <2>7. job' = job /\ job \in Jobs /\ next' = "Ask" /\ events' \in Seq(Event)
    BY <1>1, <1>7
  <2> QED BY <2>1, <2>2, <2>3, <2>5, <2>6, <2>7 DEF TypeOK
<1>9. BeforeEvents'
  BY <1>1 DEF SamplingInv, BeforeEvents
<1>10. job' = job /\ \A c : File(c)' = File(c)
  BY <1>1 DEF File
<1>11. EventsAsStored'
  <2>1. e.sampled = Stored(e.dataset, e.entry)
    BY <1>4, <1>6
  <2>2. \A n \in DOMAIN events' : events'[n].sampled = Stored(events'[n].dataset, events'[n].entry)
    BY <1>5, <1>7, <2>1 DEF SamplingInv, EventsAsStored
  <2> QED BY <1>10, <2>2 DEF EventsAsStored, Stored
<1>12. EventsHoldTheirOwnProducts'
  <2>1. \A c : EventKeys(c)' = EventKeys(c)
    BY <1>10 DEF EventKeys, ProductList, BranchesToDrop, Selected
  <2>2. \A n \in DOMAIN events : \A k \in EventKeys(events[n].dataset) :
          \/ events[n].products[k] = events[n].sampled
          \/ events[n].products[k] = NoEvent /\ job.delayedRead
    BY DEF SamplingInv, EventsHoldTheirOwnProducts
  <2>3. \A n \in DOMAIN events' : \A k \in EventKeys(events'[n].dataset) :
          \/ events'[n].products[k] = events'[n].sampled
          \/ events'[n].products[k] = NoEvent /\ job.delayedRead
    <3>1. \A n \in 1..Len(events) : \A k \in EventKeys(events'[n].dataset) :
            \/ events'[n].products[k] = events'[n].sampled
            \/ events'[n].products[k] = NoEvent /\ job.delayedRead
      BY <1>7, <2>2
    <3>2. \A k \in EventKeys(e.dataset) :
            \/ e.products[k] = e.sampled
            \/ e.products[k] = NoEvent /\ job.delayedRead
      BY <1>6
    <3>3. \A n \in DOMAIN events' : n \in 1..Len(events) \/ n = Len(events) + 1
      BY <1>5, <1>7
    <3>4. events'[Len(events) + 1] = e
      BY <1>7
    <3> QED BY <3>1, <3>2, <3>3, <3>4
  <2> QED BY <1>10, <2>1, <2>3 DEF EventsHoldTheirOwnProducts
<1> QED BY <1>1, <1>6, <1>8, <1>9, <1>11, <1>12 DEF SamplingInv, d, p, e

(* Steps before the first event and after the last.                        *)
QuietAction ==
  \/ Configure \/ OpenInputFiles \/ NextFile \/ NextRun \/ NextSubRun \/ StopAtLimit
  \/ ReadFile \/ ReadRun \/ ReadSubRun \/ CloseFile

LEMMA QuietActionStep ==
  ASSUME SamplingInv, QuietAction
  PROVE  /\ SamplingInv'
         /\ UNCHANGED <<job, brokerVars, events>>
         /\ next # "Event" /\ next' # "Event"
<1>1. /\ UNCHANGED <<job, eventsLeft, brokerVars, nextEventID, events>>
      /\ next # "Event" /\ next' # "Event"
      /\ next' \in {"Open", "Ask", "File", "Run", "SubRun", "Stop", "Closed", "Failed"}
  BY DEF QuietAction, Configure, OpenInputFiles, NextFile, NextRun, NextSubRun, NextRecord, StopAtLimit,
         AskForEvent, ReadFile, ReadRun, ReadSubRun, CloseFile, dataVars
<1>2. currentItemType' \in {"Invalid", "File", "Run", "SubRun", "Event"} /\ BeforeEvents'
  BY <1>1 DEF SamplingInv, TypeOK, BeforeEvents,
         QuietAction, Configure, OpenInputFiles, NextFile, NextRun, NextSubRun, NextRecord, StopAtLimit,
         AskForEvent, ReadFile, ReadRun, ReadSubRun, CloseFile, dataVars
<1>3. sampledKeys' \subseteq Keys
  <2>1. CASE OpenInputFiles
    <3>1. \A d \in Datasets : ProductList(d) \subseteq Keys
      BY JobFacts DEF ProductList, SamplingInv, TypeOK
    <3>2. sampledKeys \subseteq Keys
      BY DEF SamplingInv, TypeOK
    <3> QED BY <2>1, <3>1, <3>2 DEF OpenInputFiles
  <2>2. CASE ~ OpenInputFiles
    <3>1. sampledKeys' = sampledKeys
      BY <2>2 DEF QuietAction, Configure, NextFile, NextRun, NextSubRun, NextRecord, StopAtLimit,
         AskForEvent, ReadFile, ReadRun, ReadSubRun, CloseFile
    <3> QED BY <3>1 DEF SamplingInv, TypeOK
  <2> QED BY <2>1, <2>2
<1> QED BY <1>1, <1>2, <1>3, QuietStep

(* Every step is one of these.                                             *)
LEMMA StepKinds ==
  ASSUME Next
  PROVE  \/ QuietAction
         \/ \E d \in Drawn : NextEvent(d) \/ StopExhausted(d)
         \/ ReadEvent
         \/ \E n \in DOMAIN events : FinishEvent(n) \/ \E k \in Keys : GetEventProduct(n, k)
BY DEF Next, NextItemType, QuietAction

LEMMA SamplingStep == SamplingInv /\ [Next]_vars => SamplingInv'
<1> SUFFICES ASSUME SamplingInv, [Next]_vars PROVE SamplingInv'
  OBVIOUS
<1>1. CASE Next
  <2>1. CASE QuietAction
    BY <2>1, QuietActionStep
  <2>2. CASE \E d \in Drawn : NextEvent(d) \/ StopExhausted(d)
    BY <2>2, DrawingStep
  <2>3. CASE ReadEvent
    BY <2>3, ReadEventStep
  <2>4. CASE \E n \in DOMAIN events : FinishEvent(n) \/ \E k \in Keys : GetEventProduct(n, k)
    BY <2>4, FinishStep, ProductStep
  <2> QED BY <1>1, <2>1, <2>2, <2>3, <2>4, StepKinds
<1>2. CASE UNCHANGED vars
  <2>1. UNCHANGED <<job, next, currentItemType, eventsLeft, totalCounts, counts, currentDataset, fiIter,
                    currentEventEntry, sampledKeys, nextEventID, events>>
    BY <1>2 DEF vars
  <2>2. /\ \A d : File(d)' = File(d) /\ Index(d)' = Index(d) /\ Wanted(d)' = Wanted(d)
        /\ \A d : EventKeys(d)' = EventKeys(d)
        /\ Drawn' = Drawn /\ Event' = Event
    BY <2>1 DEF File, Index, Wanted, WantedFrom, FirstEvent, Drawn, EventKeys, ProductList, BranchesToDrop, Selected,
                Event
  <2>3. TypeOK'
    BY <2>1, <2>2 DEF SamplingInv, TypeOK, End
  <2>4. BeforeEvents'
    BY <2>1 DEF SamplingInv, BeforeEvents
  <2>5. EventsAsStored'
    BY <2>1, <2>2 DEF SamplingInv, EventsAsStored, Stored
  <2>6. EventsHoldTheirOwnProducts'
    BY <2>1, <2>2 DEF SamplingInv, EventsHoldTheirOwnProducts
  <2> QED BY <2>3, <2>4, <2>5, <2>6 DEF SamplingInv
<1> QED BY <1>1, <1>2

(* In every job an event is offered only with its own entry at hand, and   *)
(* the counts of the source and its broker agree with what was read.       *)
THEOREM TypeCorrect == Spec => []TypeOK
<1>1. SamplingInv => TypeOK
  BY DEF SamplingInv
<1> QED BY <1>1, SamplingInit, SamplingStep, PTL DEF Spec

(* However many events were read since, and whenever a product is asked    *)
(* for, it is that of the event its principal was made for.                *)
THEOREM ProductsOfTheirEvents == Spec => []EventsHoldTheirOwnProducts
<1>1. SamplingInv => EventsHoldTheirOwnProducts
  BY DEF SamplingInv
<1> QED BY <1>1, SamplingInit, SamplingStep, PTL DEF Spec

-----------------------------------------------------------------------------
(***************************************************************************)
(* Each step of the source is a step of the abstract stream or none        *)
(***************************************************************************)
Over == next \in {"Stop", "Closed", "Failed"}

(* Nothing but the job's configuration enters into these.                  *)
LEMMA SameJob ==
  ASSUME job' = job
  PROVE  /\ \A d : File(d)' = File(d) /\ Index(d)' = Index(d) /\ Wanted(d)' = Wanted(d)
         /\ \A d : FirstEvent(d)' = FirstEvent(d)
         /\ Drawn' = Drawn
         /\ [d \in Datasets |-> Index(d)]' = [d \in Datasets |-> Index(d)]
         /\ [d \in Datasets |-> FirstEvent(d)]' = [d \in Datasets |-> FirstEvent(d)]
BY DEF File, Index, Wanted, WantedFrom, FirstEvent, Drawn

LEMMA LeftSame ==
  ASSUME UNCHANGED <<job, fiIter>>, next # "Event", next' # "Event"
  PROVE  Left' = Left
BY SameJob DEF Left

LEMMA GivenFacts ==
  ASSUME TypeOK
  PROVE  Given \in Seq([dataset : Datasets, event : ID]) /\ Len(Given) = Len(events)
<1>1. events \in Seq(Event)
  BY DEF TypeOK
<1>2. DOMAIN events = 1..Len(events) /\ Len(events) \in Nat
      /\ \A n \in DOMAIN events : events[n] \in Event
  BY <1>1
<1>3. \A n \in DOMAIN events : events[n].dataset \in Datasets /\ events[n].sampled \in ID
  BY <1>2 DEF Event
<1>4. Given \in [1..Len(events) -> [dataset : Datasets, event : ID]]
  BY <1>2, <1>3 DEF Given
<1>5. Given \in Seq([dataset : Datasets, event : ID])
  <2> DEFINE S == [dataset : Datasets, event : ID]
  <2>1. Seq(S) = UNION {[1..n -> S] : n \in Nat}
    BY SeqDef
  <2> HIDE DEF S
  <2>2. Given \in [1..Len(events) -> S]
    BY <1>4 DEF S
  <2>3. Given \in Seq(S)
    BY <1>2, <2>1, <2>2
  <2> QED BY <2>3 DEF S
<1>6. DOMAIN Given = 1..Len(events)
  BY <1>4
<1> QED BY <1>2, <1>5, <1>6, LenProperties

(* Drawing an event leaves it among those left.                            *)
LEMMA LeftWhenDrawing ==
  ASSUME SamplingInv, NEW d \in Drawn, NextEvent(d) \/ StopExhausted(d)
  PROVE  /\ Left' = Left
         /\ StopExhausted(d) => Left[d] = {}
<1> DEFINE p == NextWanted(d, fiIter[d])
<1>1. /\ job \in Jobs /\ d \in Datasets /\ fiIter[d] \in 1..End(Index(d))
      /\ fiIter \in [Datasets -> Nat] /\ next = "Ask" /\ job' = job
      /\ CanReadEvent(d)
  BY DEF SamplingInv, TypeOK, Drawn, NextEvent, StopExhausted, AskForEvent
<1>2. /\ p \in 1..End(Index(d))
      /\ p # End(Index(d)) => p \in Wanted(d) /\ p >= fiIter[d]
      /\ \A q \in Wanted(d) : q >= fiIter[d] => p <= q
  BY <1>1, NextWantedFacts
<1>3. Wanted(d) \subseteq 1..Len(Index(d)) /\ Len(Index(d)) \in Nat /\ End(Index(d)) = Len(Index(d)) + 1
  BY <1>1, WantedFacts DEF End
<1> HIDE DEF p
<1>4. /\ currentDataset' = d
      /\ fiIter' = [fiIter EXCEPT ![d] = IF Another(d) THEN p + 1 ELSE p]
      /\ Another(d) <=> p # End(Index(d))
  BY <1>1 DEF CanReadEvent, ReadyForNextEvent, Another, p
<1>5. \/ next' = "Event" /\ Another(d) /\ ~ StopExhausted(d)
      \/ next' = "Stop" /\ ~ Another(d)
  BY DEF NextEvent, StopExhausted
<1>6. \A c \in Datasets : c # d => Left'[c] = Left[c]
  BY <1>1, <1>4, SameJob DEF Left
<1>7. Left'[d] = Left[d] /\ (StopExhausted(d) => Left[d] = {})
  <2>1. Left[d] = {q \in Wanted(d) : q >= fiIter[d]}
    BY <1>1 DEF Left
  <2>2. CASE next' = "Event" /\ Another(d) /\ ~ StopExhausted(d)
    <3>1. fiIter'[d] = p + 1
      BY <1>1, <1>4, <2>2
    <3>2. Left'[d] = {q \in Wanted(d) : q >= p + 1} \cup {p}
      <4>1. Left'[d] = {q \in Wanted(d)' : q >= fiIter'[d]}
                         \cup (IF next' = "Event" /\ d = currentDataset' THEN {fiIter'[d] - 1} ELSE {})
        BY <1>1 DEF Left
      <4>2. Wanted(d)' = Wanted(d)
        BY <1>1, SameJob
      <4>3. fiIter'[d] - 1 = p
        <5>1. p \in Int
          BY <1>2, <1>3
        <5> QED BY <3>1, <5>1
      <4>4. Left'[d] = {q \in Wanted(d)' : q >= fiIter'[d]} \cup {fiIter'[d] - 1}
        BY <1>4, <2>2, <4>1
      <4> QED BY <3>1, <4>2, <4>3, <4>4
    <3>3. p \in Wanted(d) /\ p >= fiIter[d] /\ p \in Nat /\ fiIter[d] \in Nat
      BY <1>1, <1>2, <1>3, <1>4, <2>2
    <3>4. \A q \in Wanted(d) : q \in Nat /\ (q >= fiIter[d] <=> q >= p + 1 \/ q = p)
      BY <1>2, <1>3, <3>3
    <3>5. {q \in Wanted(d) : q >= fiIter[d]} = {q \in Wanted(d) : q >= p + 1} \cup {p}
      BY <3>3, <3>4
    <3> QED BY <2>1, <2>2, <3>2, <3>5
  <2>3. CASE next' = "Stop" /\ ~ Another(d)
    <3>1. fiIter'[d] = p /\ p = End(Index(d))
      BY <1>1, <1>4, <2>3
    <3>2. Left'[d] = {q \in Wanted(d) : q >= p}
      BY <1>1, <1>4, <2>3, <3>1, SameJob DEF Left
    <3>3. \A q \in Wanted(d) : ~ (q >= fiIter[d]) /\ ~ (q >= p)
      BY <1>1, <1>2, <1>3, <3>1
    <3> QED BY <2>1, <3>2, <3>3
  <2> QED BY <1>5, <2>2, <2>3
<1>8. Left' = [c \in Datasets |-> Left'[c]] /\ Left = [c \in Datasets |-> Left[c]]
  BY DEF Left
<1> QED BY <1>6, <1>7, <1>8

(* Reading an event gives the first that is left.                          *)
LEMMA GiveStep ==
  ASSUME SamplingInv, ReadEvent
  PROVE  Stream!Give(currentDataset)
<1> DEFINE d == currentDataset
           p == fiIter[d] - 1
           e == EventPrincipal(d)
           g == [dataset |-> d, event |-> Index(d)[p]]
<1>1. /\ TypeOK /\ job \in Jobs /\ job' = job /\ next = "Event" /\ next' = "Ask"
      /\ fiIter' = fiIter /\ currentDataset' = currentDataset
      /\ events' = Append(events, e) /\ e \in Event
      /\ e.sampled = Index(d)[p]
  BY ReadEventStep DEF SamplingInv, TypeOK, ReadEvent, brokerVars
<1>2. d \in Drawn /\ d \in Datasets /\ p \in Wanted(d) /\ fiIter[d] \in Nat
  BY <1>1 DEF TypeOK, Drawn
<1>3. p \in Nat /\ fiIter[d] = p + 1 /\ Wanted(d) \subseteq Nat
  BY <1>1, <1>2, WantedFacts
<1>4. e.dataset = d
  BY DEF EventPrincipal
<1> HIDE DEF d, p, e
<1>5. Given' = Append(Given, g)
  <2>1. events \in Seq(Event) /\ Len(events) \in Nat
    BY <1>1 DEF TypeOK
  <2>2. Given' = [n \in 1..(Len(events) + 1) |-> [dataset |-> events'[n].dataset, event |-> events'[n].sampled]]
    BY <1>1, <2>1 DEF Given
  <2>3. \A n \in 1..Len(events) : events'[n] = events[n]
    BY <1>1, <2>1
  <2>4. events'[Len(events) + 1] = e
    BY <1>1, <2>1
  <2>5. Given = [n \in 1..Len(events) |-> [dataset |-> events[n].dataset, event |-> events[n].sampled]]
    BY <2>1 DEF Given
  <2>6. Append(Given, g) = [n \in 1..(Len(events) + 1) |-> IF n = Len(events) + 1 THEN g ELSE Given[n]]
    BY <1>1, <2>1, GivenFacts
  <2> QED BY <1>1, <1>4, <2>1, <2>2, <2>3, <2>4, <2>5, <2>6
<1>6. Left[d] = {q \in Wanted(d) : q >= p + 1} \cup {p}
  BY <1>1, <1>2, <1>3 DEF Left, d
<1>7. \A q \in Left[d] : p <= q
  BY <1>3, <1>6
<1>8. Left' = [Left EXCEPT ![d] = @ \ {p}]
  <2>1. Left'[d] = {q \in Wanted(d) : q >= p + 1}
    BY <1>1, <1>2, <1>3, SameJob DEF Left
  <2>2. Left'[d] = Left[d] \ {p}
    BY <1>3, <1>6, <2>1
  <2>3. \A c \in Datasets : c # d => Left'[c] = Left[c]
    BY <1>1, SameJob DEF Left, d
  <2>4. Left' = [c \in Datasets |-> Left'[c]] /\ Left = [c \in Datasets |-> Left[c]]
    BY DEF Left
  <2> QED BY <1>2, <2>2, <2>3, <2>4
<1>9. Len(Given) < job.maxEvents
  <2>1. totalCounts = Len(events) + 1 /\ eventsLeft + totalCounts = job.maxEvents
        /\ eventsLeft \in Nat /\ job.maxEvents \in Nat /\ Len(events) \in Nat
    <3>1. job.maxEvents \in Nat /\ eventsLeft \in 0..job.maxEvents /\ events \in Seq(Event)
      BY <1>1, JobFacts DEF TypeOK
    <3>2. totalCounts = Len(events) + 1 /\ eventsLeft + totalCounts = job.maxEvents
      BY <1>1 DEF TypeOK
    <3> QED BY <3>1, <3>2
  <2> QED BY <1>1, <2>1, GivenFacts
<1>10. [c \in Datasets |-> Index(c)][d][p] = Index(d)[p]
  BY <1>2
<1>11. p \in Left[d]
  BY <1>6
<1>12. ~ Over /\ Over' = Over
  BY <1>1 DEF Over
<1> QED BY <1>1, <1>2, <1>5, <1>7, <1>8, <1>9, <1>10, <1>11, <1>12, SameJob DEF Stream!Give, Over, d

(* Steps before the first event and after the last: the job may fail or    *)
(* come to its limit, and otherwise nothing happens that the stream shows. *)
LEMMA QuietStream ==
  ASSUME SamplingInv, QuietAction
  PROVE  Stream!Next \/ UNCHANGED Stream!vars
<1>1. /\ UNCHANGED <<job, fiIter, events>>
      /\ next # "Event" /\ next' # "Event"
  BY QuietActionStep DEF brokerVars
<1>2. /\ Left' = Left /\ Given' = Given /\ Drawn' = Drawn /\ job'.maxEvents = job.maxEvents
      /\ [d \in Datasets |-> Index(d)]' = [d \in Datasets |-> Index(d)]
      /\ [d \in Datasets |-> FirstEvent(d)]' = [d \in Datasets |-> FirstEvent(d)]
  BY <1>1, LeftSame, SameJob DEF Given
<1>3. CASE Over' = Over
  BY <1>2, <1>3 DEF Stream!vars, Over
<1>4. CASE Over' # Over
  <2>1. ~ Over /\ Over' /\ (next' = "Failed" \/ StopAtLimit)
    BY <1>4 DEF Over, QuietAction, Configure, OpenInputFiles, NextFile, NextRun, NextSubRun, NextRecord,
                ReadFile, ReadRun, ReadSubRun, CloseFile, AskForEvent, StopAtLimit
  <2>2. CASE next' = "Failed"
    <3>1. events = <<>>
      BY <2>2 DEF SamplingInv, BeforeEvents, QuietAction, Configure, OpenInputFiles, NextFile, NextRun,
                  NextSubRun, NextRecord, StopAtLimit, AskForEvent, ReadFile, ReadRun, ReadSubRun, CloseFile
    <3>2. Len(events) = 0
      BY <3>1
    <3>3. Given \in Seq([dataset : Datasets, event : ID]) /\ Len(Given) = 0
      BY <3>2, GivenFacts DEF SamplingInv
    <3>4. Given = <<>>
      BY <3>3, EmptySeq
    <3> QED BY <1>2, <2>1, <3>4 DEF Stream!Next, Stream!Fail, Over
  <2>3. CASE StopAtLimit
    <3>1. Len(Given) = job.maxEvents
      <4>1. eventsLeft = 0 /\ next = "Ask" /\ TypeOK
        BY <2>3 DEF StopAtLimit, AskForEvent, SamplingInv
      <4>2. /\ 0 + totalCounts = job.maxEvents /\ totalCounts = Len(events) + 0
            /\ events \in Seq(Event) /\ job.maxEvents \in Nat
        BY <4>1, JobFacts DEF TypeOK
      <4> QED BY <4>1, <4>2, GivenFacts
    <3> QED BY <1>2, <2>1, <3>1 DEF Stream!Next, Stream!Finish, Over
  <2> QED BY <2>1, <2>2, <2>3
<1> QED BY <1>3, <1>4

LEMMA DrawStream ==
  ASSUME SamplingInv, NEW d \in Drawn, NextEvent(d) \/ StopExhausted(d)
  PROVE  Stream!Next \/ UNCHANGED Stream!vars
<1>1. /\ job' = job /\ events' = events /\ ~ Over
      /\ next' = "Event" \/ (next' = "Stop" /\ StopExhausted(d))
  BY DEF NextEvent, StopExhausted, AskForEvent, dataVars, Over
<1>2. Left' = Left /\ (StopExhausted(d) => Left[d] = {})
  BY LeftWhenDrawing
<1>3. /\ Given' = Given /\ Drawn' = Drawn /\ job'.maxEvents = job.maxEvents
      /\ [c \in Datasets |-> Index(c)]' = [c \in Datasets |-> Index(c)]
      /\ [c \in Datasets |-> FirstEvent(c)]' = [c \in Datasets |-> FirstEvent(c)]
  BY <1>1, SameJob DEF Given
<1>4. CASE next' = "Event"
  BY <1>1, <1>2, <1>3, <1>4 DEF Stream!vars, Over
<1>5. CASE next' = "Stop" /\ StopExhausted(d)
  <2>1. Over'
    BY <1>5 DEF Over
  <2>2. \E c \in Drawn : Left[c] = {}
    BY <1>2, <1>5
  <2> QED BY <1>1, <1>2, <1>3, <2>1, <2>2 DEF Stream!Next, Stream!Finish, Over
<1> QED BY <1>1, <1>4, <1>5

(* Processing an event does not show in the stream.                        *)
LEMMA ProcessStream ==
  ASSUME SamplingInv, NEW n \in DOMAIN events,
         FinishEvent(n) \/ \E k \in Keys : GetEventProduct(n, k)
  PROVE  UNCHANGED Stream!vars
<1>1. Given' = Given
  BY FinishStep, ProductStep
<1>2. UNCHANGED <<job, next, fiIter, currentDataset>>
  BY DEF FinishEvent, GetEventProduct, brokerVars
<1>3. Left' = Left
  BY <1>2, SameJob DEF Left
<1> QED BY <1>1, <1>2, <1>3, SameJob DEF Stream!vars

LEMMA StreamStep == SamplingInv /\ [Next]_vars => [Stream!Next]_(Stream!vars)
<1> SUFFICES ASSUME SamplingInv, [Next]_vars
             PROVE  Stream!Next \/ UNCHANGED Stream!vars
  OBVIOUS
<1>1. CASE Next
  <2>1. CASE QuietAction
    BY <2>1, QuietStream
  <2>2. CASE \E d \in Drawn : NextEvent(d) \/ StopExhausted(d)
    BY <2>2, DrawStream
  <2>3. CASE ReadEvent
    <3>1. currentDataset \in Datasets
      BY <2>3 DEF SamplingInv, TypeOK, Drawn, ReadEvent
    <3> QED BY <2>3, <3>1, GiveStep DEF Stream!Next
  <2>4. CASE \E n \in DOMAIN events : FinishEvent(n) \/ \E k \in Keys : GetEventProduct(n, k)
    BY <2>4, ProcessStream
  <2> QED BY <1>1, <2>1, <2>2, <2>3, <2>4, StepKinds
<1>2. CASE UNCHANGED vars
  <2>1. UNCHANGED <<job, next, fiIter, currentDataset, events>>
    BY <1>2 DEF vars
  <2>2. Left' = Left /\ Given' = Given
    BY <2>1, SameJob DEF Left, Given
  <2> QED BY <2>1, <2>2, SameJob DEF Stream!vars
<1> QED BY <1>1, <1>2

LEMMA StreamInit == Init => Stream!Init
<1> SUFFICES ASSUME Init PROVE Stream!Init
  OBVIOUS
<1>1. job \in Jobs /\ events = <<>> /\ next = "Configure" /\ fiIter = [d \in Datasets |-> 1]
  BY DEF Init
<1>2. [d \in Datasets |-> Index(d)] \in [Datasets -> Seq(ID)] /\ job.maxEvents \in Nat
  BY <1>1, JobFacts
<1>3. Left = [d \in Datasets |-> {p \in Events([c \in Datasets |-> Index(c)][d]) :
                ~ Before([c \in Datasets |-> Index(c)][d][p], [c \in Datasets |-> FirstEvent(c)][d])}]
  <2>1. \A d \in Datasets : \A p \in Wanted(d) : p >= 1
    BY <1>1, WantedFacts
  <2>2. \A d \in Datasets : Left[d] = Wanted(d)
    BY <1>1, <2>1 DEF Left
  <2>3. Left = [d \in Datasets |-> Left[d]]
    BY DEF Left
  <2>4. Left = [d \in Datasets |-> Wanted(d)]
    BY <2>2, <2>3
  <2>5. \A d \in Datasets : Wanted(d) =
          {p \in Events([c \in Datasets |-> Index(c)][d]) :
             ~ Before([c \in Datasets |-> Index(c)][d][p], [c \in Datasets |-> FirstEvent(c)][d])}
    <3> TAKE d \in Datasets
    <3>1. /\ [c \in Datasets |-> Index(c)][d] = Index(d)
          /\ [c \in Datasets |-> FirstEvent(c)][d] = FirstEvent(d)
      OBVIOUS
    <3> QED BY <3>1 DEF Wanted, WantedFrom
  <2> QED BY <2>4, <2>5
<1>4. Given = <<>>
  <2>1. SamplingInv
    BY SamplingInit
  <2>2. Given \in Seq([dataset : Datasets, event : ID]) /\ Len(Given) = 0
    BY <1>1, <2>1, GivenFacts DEF SamplingInv
  <2> QED BY <2>2, EmptySeq
<1>5. Drawn \subseteq Datasets
  BY DEF Drawn
<1>6. Stream!ID = ID
  BY DEF ID, Stream!ID
<1>7. \A ix : Stream!Events(ix) = Events(ix)
  BY DEF Events, EntryType, Stream!Events, Stream!EntryType
<1>8. \A a, b : Stream!Before(a, b) = Before(a, b)
  BY DEF Before, Stream!Before
<1>9. ~ (next \in {"Stop", "Closed", "Failed"})
  BY <1>1
<1> QED BY <1>1, <1>2, <1>3, <1>4, <1>5, <1>6, <1>7, <1>8, <1>9 DEF Stream!Init

(* For all datasets, files and configurations, sampling keeps the promise  *)
(* of SampledStream: from each dataset the events wanted, in order, none   *)
(* twice and none left out, and an end for one of two reasons.             *)
THEOREM SamplesStreams == Spec => StreamSpec
<1>1. SamplingInv /\ [Next]_vars => [Stream!Next]_(Stream!vars)
  BY StreamStep
<1> QED
  BY <1>1, SamplingInit, SamplingStep, StreamInit, PTL DEF Spec, StreamSpec, Stream!Spec

-----------------------------------------------------------------------------
(***************************************************************************)
(* The summary.  At each moment the events of a dataset are shared out     *)
(* between those that were given and those that are left, and the count    *)
(* of the dataset is that of the events given and of the one drawn.        *)
(***************************************************************************)
GivenEvents(d) == {events[n].sampled : n \in GivenFrom(d)}
In(d, ps)      == {Index(d)[p] : p \in ps}

SharedOut ==
  \A d \in Datasets : Left[d] \subseteq Wanted(d) /\ GivenEvents(d) = In(d, Wanted(d) \ Left[d])

CountsGiven ==
  \A d \in Datasets :
    counts[d] = Cardinality(GivenFrom(d)) + (IF next = "Event" /\ d = currentDataset THEN 1 ELSE 0)

Reported ==
  (next = "Closed" /\ job.summary) =>
    summary = [d \in Datasets |-> [count |-> counts[d], next |-> NextEventOf(d)]]

SummaryInv == SamplingInv /\ SharedOut /\ CountsGiven /\ Reported

LEMMA GivenFromFinite ==
  ASSUME TypeOK, NEW d
  PROVE  IsFiniteSet(GivenFrom(d)) /\ Cardinality(GivenFrom(d)) \in Nat
<1>1. events \in Seq(Event)
  BY DEF TypeOK
<1>2. GivenFrom(d) \subseteq 1..Len(events) /\ Len(events) \in Nat
  BY <1>1 DEF GivenFrom
<1>3. IsFiniteSet(1..Len(events))
  BY <1>2, FS_Interval
<1> QED BY <1>2, <1>3, FS_Subset, FS_CardinalityType

LEMMA SummaryInit == Init => SummaryInv
<1> SUFFICES ASSUME Init PROVE SummaryInv
  OBVIOUS
<1>1. SamplingInv /\ job \in Jobs
  BY SamplingInit DEF SamplingInv, TypeOK
<1>2. events = <<>> /\ next = "Configure" /\ fiIter = [d \in Datasets |-> 1] /\ counts = [d \in Datasets |-> 0]
  BY DEF Init
<1>3. \A d : GivenFrom(d) = {} /\ GivenEvents(d) = {}
  BY <1>2 DEF GivenFrom, GivenEvents
<1>4. \A d \in Datasets : Left[d] = Wanted(d)
  <2>1. \A d \in Datasets : \A p \in Wanted(d) : p >= 1
    BY <1>1, WantedFacts
  <2> QED BY <1>2, <2>1 DEF Left
<1>5. SharedOut
  BY <1>3, <1>4 DEF SharedOut, In
<1>6. CountsGiven
  BY <1>2, <1>3, FS_EmptySet DEF CountsGiven
<1>7. Reported
  BY <1>2 DEF Reported
<1> QED BY <1>1, <1>5, <1>6, <1>7 DEF SummaryInv

(* Steps that give no event and draw none.                                 *)
LEMMA NothingGiven ==
  ASSUME SharedOut, CountsGiven, Left' = Left, UNCHANGED <<job, counts, currentDataset>>,
         next' = "Event" <=> next = "Event",
         \A d : GivenFrom(d)' = GivenFrom(d) /\ GivenEvents(d)' = GivenEvents(d)
  PROVE  SharedOut' /\ CountsGiven'
<1>1. \A d \in Datasets : Index(d)' = Index(d) /\ Wanted(d)' = Wanted(d)
  BY SameJob
<1>2. SharedOut'
  BY <1>1 DEF SharedOut, In
<1>3. CountsGiven'
  BY DEF CountsGiven
<1> QED BY <1>2, <1>3

LEMMA GivenSame ==
  ASSUME events' = events
  PROVE  \A d : GivenFrom(d)' = GivenFrom(d) /\ GivenEvents(d)' = GivenEvents(d)
BY DEF GivenFrom, GivenEvents

(* Events in flight keep their dataset and what they are.                  *)
LEMMA ProcessedSame ==
  ASSUME SamplingInv, NEW n \in DOMAIN events,
         FinishEvent(n) \/ \E k \in Keys : GetEventProduct(n, k)
  PROVE  \A d : GivenFrom(d)' = GivenFrom(d) /\ GivenEvents(d)' = GivenEvents(d)
<1>1. Given' = Given
  BY FinishStep, ProductStep
<1>2. /\ DOMAIN events' = DOMAIN Given'
      /\ \A m \in DOMAIN events' : events'[m].dataset = Given'[m].dataset /\ events'[m].sampled = Given'[m].event
  BY DEF Given
<1>3. /\ DOMAIN events = DOMAIN Given
      /\ \A m \in DOMAIN events : events[m].dataset = Given[m].dataset /\ events[m].sampled = Given[m].event
  BY DEF Given
<1>4. /\ DOMAIN events' = DOMAIN events
      /\ \A m \in DOMAIN events : events'[m].dataset = events[m].dataset /\ events'[m].sampled = events[m].sampled
  BY <1>1, <1>2, <1>3
<1> QED BY <1>4 DEF GivenFrom, GivenEvents

(* An event that is drawn is counted before it is read.                    *)
LEMMA DrawCounts ==
  ASSUME SummaryInv, NEW d \in Drawn, NextEvent(d) \/ StopExhausted(d)
  PROVE  SharedOut' /\ CountsGiven'
<1>1. /\ TypeOK /\ next = "Ask" /\ CanReadEvent(d) /\ events' = events /\ job' = job
      /\ currentDataset' = d /\ d \in Datasets
  BY DEF SummaryInv, SamplingInv, NextEvent, StopExhausted, AskForEvent, CanReadEvent, dataVars, Drawn
<1>2. Left' = Left
  BY LeftWhenDrawing DEF SummaryInv
<1>3. \A c : GivenFrom(c)' = GivenFrom(c) /\ GivenEvents(c)' = GivenEvents(c)
  BY <1>1, GivenSame
<1>4. \A c \in Datasets : Index(c)' = Index(c) /\ Wanted(c)' = Wanted(c)
  BY <1>1, SameJob
<1>5. SharedOut'
  BY <1>2, <1>3, <1>4 DEF SummaryInv, SharedOut, In
<1>6. CountsGiven'
  <2>1. \A c \in Datasets : counts[c] = Cardinality(GivenFrom(c)) + 0
    BY <1>1 DEF SummaryInv, CountsGiven
  <2>2. \A c \in Datasets : Cardinality(GivenFrom(c)) \in Nat
    BY <1>1, GivenFromFinite
  <2>3. counts \in [Datasets -> 0..totalCounts]
    BY <1>1 DEF TypeOK
  <2>4. CASE NextEvent(d)
    <3>1. next' = "Event" /\ counts' = [counts EXCEPT ![d] = @ + 1]
      BY <1>1, <2>4 DEF NextEvent, CanReadEvent
    <3>2. \A c \in Datasets : counts'[c] = IF c = d THEN counts[c] + 1 ELSE counts[c]
      BY <2>3, <3>1
    <3>3. \A c \in Datasets : counts'[c] = Cardinality(GivenFrom(c)') + (IF c = d THEN 1 ELSE 0)
      BY <1>3, <2>1, <2>2, <3>2
    <3> QED BY <1>1, <3>1, <3>3 DEF CountsGiven
  <2>5. CASE StopExhausted(d)
    <3>1. next' = "Stop" /\ counts' = counts
      BY <1>1, <2>5 DEF StopExhausted, CanReadEvent
    <3> QED BY <1>3, <2>1, <3>1 DEF CountsGiven
  <2> QED BY <2>4, <2>5
<1> QED BY <1>5, <1>6

(* An event that is read is the first that was left.                       *)
LEMMA ReadCounts ==
  ASSUME SummaryInv, ReadEvent
  PROVE  SharedOut' /\ CountsGiven'
<1>2. PICK d \in Datasets : d = currentDataset
  BY DEF SummaryInv, SamplingInv, TypeOK, Drawn, ReadEvent
<1> DEFINE e == EventPrincipal(d)
           m == Len(events) + 1
<1>1. /\ SamplingInv /\ TypeOK /\ next = "Event" /\ next' = "Ask" /\ job' = job
      /\ counts' = counts /\ currentDataset' = d
      /\ events' = Append(events, e) /\ e \in Event /\ e.dataset = d
  BY <1>2, ReadEventStep DEF SummaryInv, SamplingInv, ReadEvent, brokerVars, EventPrincipal
<1> HIDE DEF e
<1>3. events \in Seq(Event) /\ Len(events) \in Nat /\ DOMAIN events = 1..Len(events)
  BY <1>1 DEF TypeOK
<1>4. /\ DOMAIN events' = DOMAIN events \cup {m} /\ m \notin DOMAIN events
      /\ \A n \in DOMAIN events : events'[n] = events[n]
      /\ events'[m] = e
  BY <1>1, <1>3
<1>5. PICK p \in Left[d] : /\ Given' = Append(Given, [dataset |-> d, event |-> Index(d)[p]])
                           /\ Left' = [Left EXCEPT ![d] = @ \ {p}]
  <2>1. [c \in Datasets |-> Index(c)][d] = Index(d)
    BY <1>2
  <2> QED BY <1>1, <1>2, <2>1, GiveStep DEF Stream!Give
<1>6. e.sampled = Index(d)[p]
  <2>1. Given \in Seq([dataset : Datasets, event : ID]) /\ Len(Given) = Len(events)
    BY <1>1, GivenFacts
  <2>2. Given'[m] = [dataset |-> d, event |-> Index(d)[p]]
    BY <1>3, <1>5, <2>1
  <2>3. Given'[m].event = events'[m].sampled
    BY <1>4 DEF Given
  <2> QED BY <1>4, <2>2, <2>3
<1>7. /\ GivenFrom(d)' = GivenFrom(d) \cup {m} /\ m \notin GivenFrom(d)
      /\ \A c \in Datasets : c # d => GivenFrom(c)' = GivenFrom(c)
  BY <1>1, <1>4 DEF GivenFrom
<1>8. /\ GivenEvents(d)' = GivenEvents(d) \cup {Index(d)[p]}
      /\ \A c \in Datasets : c # d => GivenEvents(c)' = GivenEvents(c)
  <2>1. \A c \in Datasets : GivenFrom(c) \subseteq DOMAIN events
    BY DEF GivenFrom
  <2> QED BY <1>2, <1>4, <1>6, <1>7, <2>1 DEF GivenEvents
<1>9. Left = [c \in Datasets |-> Left[c]]
  BY DEF Left
<1>10. /\ Left'[d] = Left[d] \ {p}
       /\ \A c \in Datasets : c # d => Left'[c] = Left[c]
  BY <1>2, <1>5, <1>9
<1>11. \A c \in Datasets : Index(c)' = Index(c) /\ Wanted(c)' = Wanted(c)
  BY <1>1, SameJob
<1>12. SharedOut'
  <2>1. \A c \in Datasets : Left[c] \subseteq Wanted(c) /\ GivenEvents(c) = In(c, Wanted(c) \ Left[c])
    BY DEF SummaryInv, SharedOut
  <2>3. Wanted(d) \ Left'[d] = (Wanted(d) \ Left[d]) \cup {p}
    BY <1>2, <1>5, <1>10, <2>1
  <2>4. Left'[d] \subseteq Wanted(d) /\ GivenEvents(d)' = {Index(d)[q] : q \in Wanted(d) \ Left'[d]}
    BY <1>2, <1>8, <1>10, <2>1, <2>3 DEF In
  <2>5. \A c \in Datasets : c # d =>
          Left'[c] \subseteq Wanted(c) /\ GivenEvents(c)' = {Index(c)[q] : q \in Wanted(c) \ Left'[c]}
    BY <1>8, <1>10, <2>1 DEF In
  <2>6. \A c \in Datasets :
          Left'[c] \subseteq Wanted(c) /\ GivenEvents(c)' = {Index(c)[q] : q \in Wanted(c) \ Left'[c]}
    BY <2>4, <2>5
  <2>7. ASSUME NEW c \in Datasets
        PROVE  (Left[c] \subseteq Wanted(c) /\ GivenEvents(c) = In(c, Wanted(c) \ Left[c]))'
    <3>1. Index(c)' = Index(c) /\ Wanted(c)' = Wanted(c)
      BY <1>11
    <3>2. (In(c, Wanted(c) \ Left[c]))' = {Index(c)'[q] : q \in Wanted(c)' \ Left'[c]}
      BY DEF In
    <3>3. Left'[c] \subseteq Wanted(c) /\ GivenEvents(c)' = {Index(c)[q] : q \in Wanted(c) \ Left'[c]}
      BY <2>6
    <3>4. (In(c, Wanted(c) \ Left[c]))' = {Index(c)[q] : q \in Wanted(c) \ Left'[c]}
      BY <3>1, <3>2
    <3> QED BY <3>1, <3>3, <3>4
  <2> QED BY <2>7 DEF SharedOut
<1>13. CountsGiven'
  <2>1. IsFiniteSet(GivenFrom(d)) /\ Cardinality(GivenFrom(d)) \in Nat
    BY <1>1, GivenFromFinite
  <2>2. Cardinality(GivenFrom(d)') = Cardinality(GivenFrom(d)) + 1
    BY <1>7, <2>1, FS_AddElement
  <2>3. counts[d] = Cardinality(GivenFrom(d)) + 1
    BY <1>1, <1>2 DEF SummaryInv, CountsGiven
  <2>4. \A c \in Datasets : c # d => counts[c] = Cardinality(GivenFrom(c)) + 0
    BY <1>1, <1>2 DEF SummaryInv, CountsGiven
  <2>5. \A c \in Datasets : counts'[c] = Cardinality(GivenFrom(c)') + 0
    <3> TAKE c \in Datasets
    <3>1. CASE c = d
      BY <1>1, <2>1, <2>2, <2>3, <3>1
    <3>2. CASE c # d
      BY <1>1, <1>7, <2>4, <3>2
    <3> QED BY <3>1, <3>2
  <2> QED BY <1>1, <2>5 DEF CountsGiven
<1> QED BY <1>12, <1>13

LEMMA SummaryStep == SummaryInv /\ [Next]_vars => SummaryInv'
<1> SUFFICES ASSUME SummaryInv, [Next]_vars PROVE SummaryInv'
  OBVIOUS
<1>1. SamplingInv' /\ SamplingInv /\ SharedOut /\ CountsGiven /\ Reported
  BY SamplingStep DEF SummaryInv
<1>2. CASE Next
  <2>1. CASE QuietAction
    <3>1. UNCHANGED <<job, counts, currentDataset, fiIter, events>> /\ next # "Event" /\ next' # "Event"
      BY <1>1, <2>1, QuietActionStep DEF brokerVars
    <3>2. Left' = Left
      BY <3>1, LeftSame
    <3>3. SharedOut' /\ CountsGiven'
      BY <1>1, <3>1, <3>2, GivenSame, NothingGiven
    <3>4. Reported'
      <4>1. CASE CloseFile
        <5>1. \A d \in Datasets : NextEventOf(d)' = NextEventOf(d)
          BY <3>1, SameJob DEF NextEventOf, NextWanted
        <5>2. job.summary => summary' = [d \in Datasets |-> [count |-> counts[d], next |-> NextEventOf(d)]]
          BY <4>1 DEF CloseFile
        <5> QED BY <3>1, <5>1, <5>2 DEF Reported
      <4>2. CASE ~ CloseFile
        <5>1. next' # "Closed"
          BY <2>1, <4>2 DEF QuietAction, Configure, OpenInputFiles, NextFile, NextRun, NextSubRun, NextRecord,
               ReadFile, ReadRun, ReadSubRun, StopAtLimit
        <5> QED BY <5>1 DEF Reported
      <4> QED BY <4>1, <4>2
    <3> QED BY <1>1, <3>3, <3>4 DEF SummaryInv
  <2>2. CASE \E d \in Drawn : NextEvent(d) \/ StopExhausted(d)
    <3>1. SharedOut' /\ CountsGiven'
      BY <2>2, DrawCounts
    <3>2. next' # "Closed"
      BY <2>2 DEF NextEvent, StopExhausted
    <3> QED BY <1>1, <3>1, <3>2 DEF SummaryInv, Reported
  <2>3. CASE ReadEvent
    <3>1. SharedOut' /\ CountsGiven'
      BY <2>3, ReadCounts
    <3>2. next' # "Closed"
      BY <2>3 DEF ReadEvent
    <3> QED BY <1>1, <3>1, <3>2 DEF SummaryInv, Reported
  <2>4. CASE \E n \in DOMAIN events : FinishEvent(n) \/ \E k \in Keys : GetEventProduct(n, k)
    <3>1. PICK n \in DOMAIN events : FinishEvent(n) \/ \E k \in Keys : GetEventProduct(n, k)
      BY <2>4
    <3>2. UNCHANGED <<job, next, counts, currentDataset, fiIter, summary>>
      BY <3>1 DEF FinishEvent, GetEventProduct, brokerVars
    <3>3. Left' = Left
      BY <3>2, SameJob DEF Left
    <3>4. \A d : GivenFrom(d)' = GivenFrom(d) /\ GivenEvents(d)' = GivenEvents(d)
      BY <1>1, <3>1, ProcessedSame
    <3>5. SharedOut' /\ CountsGiven'
      BY <1>1, <3>2, <3>3, <3>4, NothingGiven
    <3>6. \A d \in Datasets : NextEventOf(d)' = NextEventOf(d)
      BY <3>2, SameJob DEF NextEventOf, NextWanted
    <3>7. Reported'
      BY <1>1, <3>2, <3>6 DEF Reported
    <3> QED BY <1>1, <3>5, <3>7 DEF SummaryInv
  <2> QED BY <1>2, <2>1, <2>2, <2>3, <2>4, StepKinds
<1>3. CASE UNCHANGED vars
  <2>1. UNCHANGED <<job, next, counts, currentDataset, fiIter, events, summary>>
    BY <1>3 DEF vars
  <2>2. Left' = Left
    BY <2>1, SameJob DEF Left
  <2>3. SharedOut' /\ CountsGiven'
    BY <1>1, <2>1, <2>2, GivenSame, NothingGiven
  <2>4. \A d \in Datasets : NextEventOf(d)' = NextEventOf(d)
    BY <2>1, SameJob DEF NextEventOf, NextWanted
  <2>5. Reported'
    BY <1>1, <2>1, <2>4 DEF Reported
  <2> QED BY <1>1, <2>3, <2>5 DEF SummaryInv
<1> QED BY <1>2, <1>3

(* In an index without repetitions, the events from one on are just those  *)
(* that are not before it.                                                 *)
LEMMA FromOneOn ==
  ASSUME job \in Jobs, NEW d \in Datasets, EventsUniqueAndOrdered(Index(d)),
         NEW p \in Events(Index(d)), NEW q \in Events(Index(d))
  PROVE  ~ Before(Index(d)[q], Index(d)[p]) <=> q >= p
<1> DEFINE a == Index(d)[p]  b == Index(d)[q]
<1>1. /\ Index(d) \in Seq(ID) /\ Sorted(Index(d))
      /\ p \in DOMAIN Index(d) /\ q \in DOMAIN Index(d) /\ p \in Nat /\ q \in Nat
  BY JobFacts, SortedAssumption DEF Index, File, Events
<1>2. a \in ID /\ b \in ID
  BY <1>1
<1>3. /\ p < q => ~ Before(b, a)
      /\ q < p => ~ Before(a, b)
  BY <1>1 DEF Sorted
<1>4. p # q <=> a # b
  BY DEF EventsUniqueAndOrdered
<1> HIDE DEF a, b
<1>5. (Before(a, b) \/ Before(b, a) \/ a = b) /\ ~ Before(a, a)
  BY <1>2 DEF Before, ID
<1>6. q < p => Before(b, a)
  BY <1>1, <1>3, <1>4, <1>5
<1>7. ~ Before(b, a) <=> q >= p
  BY <1>1, <1>3, <1>4, <1>5, <1>6
<1> QED BY <1>7 DEF a, b

(* A job that goes on where the summary says wants the events from there.  *)
LEMMA LaterJob ==
  ASSUME job \in Jobs, NEW d \in Datasets, EventsUniqueAndOrdered(Index(d)),
         NEW first \in Wanted(d), NEW from, from = Index(d)[first]
  PROVE  WantedFrom(d, StartAt(SkipTo(from))) = {q \in Wanted(d) : q >= first}
<1>1. /\ Wanted(d) \subseteq Events(Index(d)) /\ first \in Events(Index(d))
      /\ \A q \in Events(Index(d)) : Index(d)[q] \in ID
      /\ from \in ID
  BY JobFacts, WantedFacts
<1>2. StartAt(SkipTo(from)) = from
  BY <1>1 DEF StartAt, SkipTo, ID
<1>3. \A q \in Events(Index(d)) : ~ Before(Index(d)[q], from) <=> q >= first
  BY <1>1, FromOneOn
<1>4. ASSUME NEW q \in Events(Index(d)), q >= first PROVE q \in Wanted(d)
  <2> DEFINE wanted == FirstEvent(d)
  <2>1. wanted.run \in Nat /\ wanted.subRun \in Nat /\ wanted.event \in Nat
    <3>1. job.skipToEvent[d] \in [given : BOOLEAN, run : Nat, subRun : Nat, event : Nat]
      BY SamplingAssumption
    <3> QED BY <3>1 DEF FirstEvent, StartAt, NoEvent
  <2>2. ~ Before(from, wanted)
    BY DEF Wanted, WantedFrom
  <2>3. ~ Before(Index(d)[q], from) /\ Index(d)[q] \in ID
    BY <1>1, <1>3, <1>4
  <2> HIDE DEF wanted
  <2>4. ~ Before(Index(d)[q], wanted)
    BY <1>1, <2>1, <2>2, <2>3 DEF Before, ID
  <2> QED BY <2>4 DEF Wanted, WantedFrom, wanted
<1>5. WantedFrom(d, from) = {q \in Events(Index(d)) : q >= first}
  BY <1>3 DEF WantedFrom
<1> QED BY <1>1, <1>2, <1>4, <1>5

LEMMA SummaryRight == SummaryInv => SummaryTellsWhereToGoOn
<1> SUFFICES ASSUME SummaryInv, next = "Closed", job.summary, NEW d \in Datasets
             PROVE  LET from  == summary[d].next
                        given == {events[n].sampled : n \in GivenFrom(d)}
                        later == IF from = NoEvent THEN {} ELSE WantedFrom(d, StartAt(SkipTo(from)))
                        rest  == {Index(d)[p] : p \in later}
                    IN /\ summary[d].count = Cardinality(GivenFrom(d))
                       /\ from # NoEvent => (IsRefused(SkipTo(from)) <=> from.subRun = 1)
                       /\ EventsUniqueAndOrdered(Index(d)) =>
                            given \cap rest = {} /\ given \cup rest = {Index(d)[p] : p \in Wanted(d)}
  BY DEF SummaryTellsWhereToGoOn
<1> DEFINE from  == NextEventOf(d)
           first == NextWanted(d, fiIter[d])
           later == IF from = NoEvent THEN {} ELSE WantedFrom(d, StartAt(SkipTo(from)))
           rest  == {Index(d)[p] : p \in later}
<1>1. /\ TypeOK /\ job \in Jobs
      /\ summary[d].next = from /\ summary[d].count = counts[d]
  BY DEF SummaryInv, SamplingInv, TypeOK, Reported
<1>2. counts[d] = Cardinality(GivenFrom(d))
  <2>1. counts[d] = Cardinality(GivenFrom(d)) + 0
    BY DEF SummaryInv, CountsGiven
  <2> QED BY <1>1, <2>1, GivenFromFinite
<1>3. /\ first \in 1..End(Index(d)) /\ fiIter[d] \in 1..End(Index(d))
      /\ first # End(Index(d)) => first \in Wanted(d) /\ first >= fiIter[d]
      /\ \A q \in Wanted(d) : q >= fiIter[d] => first <= q
  <2>1. fiIter[d] \in 1..End(Index(d))
    BY <1>1 DEF TypeOK
  <2> QED BY <1>1, <2>1, NextWantedFacts
<1>4. /\ Wanted(d) \subseteq Events(Index(d)) /\ Events(Index(d)) \subseteq 1..Len(Index(d))
      /\ Len(Index(d)) \in Nat /\ End(Index(d)) = Len(Index(d)) + 1
  BY <1>1, WantedFacts DEF End
<1>5. first = End(Index(d)) => from = NoEvent
  BY DEF NextEventOf
<1>6. ASSUME first # End(Index(d))
      PROVE  /\ from = Index(d)[first] /\ first \in Wanted(d) /\ from # NoEvent
             /\ from \in ID /\ EntryType(from) = "Event"
  <2>1. from = Index(d)[first] /\ first \in Events(Index(d)) /\ first \in Wanted(d)
    BY <1>3, <1>4, <1>6 DEF NextEventOf
  <2>2. from \in ID /\ EntryType(from) = "Event"
    BY <1>1, <2>1, JobFacts DEF Events
  <2> QED BY <2>1, <2>2 DEF EntryType, NoEvent
<1> HIDE DEF from, first
<1>7. from # NoEvent => (IsRefused(SkipTo(from)) <=> from.subRun = 1)
  <2> SUFFICES ASSUME from # NoEvent PROVE IsRefused(SkipTo(from)) <=> from.subRun = 1
    OBVIOUS
  <2>1. from \in ID /\ from.event # 0
    BY <1>5, <1>6 DEF EntryType
  <2> QED BY <2>1 DEF IsRefused, SkipTo, ID
<1>8. ASSUME EventsUniqueAndOrdered(Index(d))
      PROVE  GivenEvents(d) \cap rest = {} /\ GivenEvents(d) \cup rest = In(d, Wanted(d))
  <2>1. Left[d] = {q \in Wanted(d) : q >= fiIter[d]}
    BY DEF Left
  <2>2. Left[d] = {q \in Wanted(d) : q >= first}
    BY <1>3, <1>4, <2>1
  <2>3. later = Left[d]
    <3>1. CASE first = End(Index(d))
      <4>1. \A q \in Wanted(d) : ~ (q >= first)
        BY <1>4, <3>1
      <4> QED BY <1>5, <2>2, <3>1, <4>1
    <3>2. CASE first # End(Index(d))
      <4>1. WantedFrom(d, StartAt(SkipTo(from))) = {q \in Wanted(d) : q >= first}
        BY <1>1, <1>6, <1>8, <3>2, LaterJob
      <4> QED BY <1>6, <2>2, <3>2, <4>1
    <3> QED BY <3>1, <3>2
  <2>4. rest = In(d, Left[d])
    BY <2>3 DEF In
  <2>5. GivenEvents(d) = In(d, Wanted(d) \ Left[d]) /\ Left[d] \subseteq Wanted(d)
    BY DEF SummaryInv, SharedOut
  <2>6. \A p, q \in Wanted(d) : p # q => Index(d)[p] # Index(d)[q]
    BY <1>4, <1>8 DEF EventsUniqueAndOrdered
  <2> HIDE DEF rest
  <2>7. GivenEvents(d) \cap rest = {}
    BY <2>4, <2>5, <2>6 DEF In
  <2>8. GivenEvents(d) \cup rest = In(d, Wanted(d))
    BY <2>4, <2>5 DEF In
  <2> QED BY <2>7, <2>8
<1> QED BY <1>1, <1>2, <1>7, <1>8 DEF GivenEvents, In

(* Wherever a job ends, the summary of each dataset counts the events it   *)
(* gave, and a job that starts at the event it names wants just those that *)
(* were not given; it is refused if that event is in a subrun of number 0. *)
THEOREM SummaryRightAtEnd == Spec => []SummaryTellsWhereToGoOn
  BY SummaryInit, SummaryStep, SummaryRight, PTL DEF Spec

-----------------------------------------------------------------------------
(***************************************************************************)
(* Fragments that are put together                                         *)
(***************************************************************************)
Holds(rs, parts) == [ranges |-> rs, counted |-> SetToBag(parts), state |-> "product"]

(* A product that counted these parts, each of them once. *)
IsSum(a, parts) ==
  \/ parts = {} /\ a = Holds(Invalid, parts)
  \/ a = Holds(FullRun, parts)
  \/ a = Holds(Part(parts), parts)

LEMMA BagsOfSets ==
  ASSUME NEW U, NEW V
  PROVE  /\ BagToSet(SetToBag(U)) = U /\ \A e \in U : SetToBag(U)[e] = 1
         /\ U \cap V = {} => SetToBag(U) (+) SetToBag(V) = SetToBag(U \cup V)
<1>1. BagToSet(SetToBag(U)) = U /\ \A e \in U : SetToBag(U)[e] = 1
  BY DEF BagToSet, SetToBag
<1>2. ASSUME U \cap V = {} PROVE SetToBag(U) (+) SetToBag(V) = SetToBag(U \cup V)
  <2>1. /\ DOMAIN SetToBag(U) = U /\ DOMAIN SetToBag(V) = V
        /\ \A e \in U : SetToBag(U)[e] = 1
        /\ \A e \in V : SetToBag(V)[e] = 1
    BY DEF SetToBag
  <2>2. SetToBag(U) (+) SetToBag(V) =
          [e \in U \cup V |-> (IF e \in U THEN SetToBag(U)[e] ELSE 0) + (IF e \in V THEN SetToBag(V)[e] ELSE 0)]
    BY <2>1 DEF (+)
  <2>3. \A e \in U \cup V :
          (IF e \in U THEN SetToBag(U)[e] ELSE 0) + (IF e \in V THEN SetToBag(V)[e] ELSE 0) = 1
    BY <1>2, <2>1
  <2>4. SetToBag(U \cup V) = [e \in U \cup V |-> 1]
    BY DEF SetToBag
  <2> QED BY <2>2, <2>3, <2>4
<1> QED BY <1>1, <1>2

LEMMA Kinds ==
  ASSUME NEW U, NEW V
  PROVE  /\ ~ IsValid(Invalid) /\ IsValid(FullRun) /\ IsValid(Part(U))
         /\ Invalid # FullRun /\ Part(U) # FullRun /\ Part(U) # Invalid
         /\ Part(U) = Part(V) <=> U = V
         /\ DisjointRanges(Part(U), Part(V)) <=> U \cap V = {}
         /\ \A rs : /\ ~ DisjointRanges(Invalid, rs) /\ ~ DisjointRanges(rs, Invalid)
                    /\ ~ DisjointRanges(FullRun, rs) /\ ~ DisjointRanges(rs, FullRun)
BY DEF IsValid, Invalid, FullRun, Part, DisjointRanges

(* One turn of the loop adds the parts of a fragment, refuses it, or finds *)
(* that they are there.                                                    *)
LEMMA MergeAdds ==
  ASSUME NEW U, NEW V, NEW a, NEW b, IsSum(a, U), IsSum(b, V), NEW old \in BOOLEAN,
         a.ranges = b.ranges \/ old => U = V
  PROVE  LET m == Merge(a, b, old) IN
         \/ m.state = "refused"
         \/ /\ IsSum(m, U \cup V)
            /\ m.ranges = FullRun => (a.ranges = FullRun /\ U \cup V = U) \/ (b.ranges = FullRun /\ U \cup V = V)
<1> DEFINE m == Merge(a, b, old)
<1>1. /\ a.state = "product" /\ a.counted = SetToBag(U)
      /\ b.state = "product" /\ b.counted = SetToBag(V)
  BY DEF IsSum, Holds
<1>7. \A rs, parts : Holds(rs, parts).ranges = rs
  BY DEF Holds
<1>8. /\ \/ U = {} /\ a.ranges = Invalid
         \/ a.ranges = FullRun
         \/ a.ranges = Part(U) /\ a = Holds(Part(U), U)
      /\ \/ V = {} /\ b.ranges = Invalid
         \/ b.ranges = FullRun
         \/ b.ranges = Part(V) /\ b = Holds(Part(V), V)
  BY <1>7 DEF IsSum
<1>9. /\ ~ IsValid(Invalid) /\ IsValid(FullRun) /\ IsValid(Part(U)) /\ IsValid(Part(V))
      /\ \A rs : /\ ~ DisjointRanges(Invalid, rs) /\ ~ DisjointRanges(rs, Invalid)
                 /\ ~ DisjointRanges(FullRun, rs) /\ ~ DisjointRanges(rs, FullRun)
  BY Kinds
<1>2. CASE old
  <2>1. m = a
    BY <1>1, <1>2 DEF Merge
  <2>2. U \cup V = U
    BY <1>2
  <2> QED BY <2>1, <2>2
<1>3. CASE ~ old /\ ~ IsValid(a.ranges) /\ IsValid(b.ranges)
  <2>1. ~ DisjointRanges(a.ranges, b.ranges) /\ ~ OverlappingRanges(a.ranges, b.ranges)
    BY <1>3, <1>8, <1>9 DEF OverlappingRanges
  <2>4. m = b
    BY <1>1, <1>3, <2>1 DEF Merge
  <2>2. U = {}
    BY <1>3, <1>8, <1>9
  <2>3. U \cup V = V
    BY <2>2
  <2> QED BY <2>3, <2>4
<1>4. CASE ~ old /\ DisjointRanges(a.ranges, b.ranges)
  <2>1. /\ a = Holds(Part(U), U) /\ b = Holds(Part(V), V)
        /\ a.ranges = Part(U) /\ b.ranges = Part(V)
    BY <1>4, <1>8, <1>9
  <2>2. U \cap V = {}
    BY <1>4, <2>1, Kinds
  <2>3. m = [a EXCEPT !.ranges.events = @ \cup b.ranges.events, !.counted = @ (+) b.counted]
    BY <1>1, <1>4, <2>1, <1>9 DEF Merge, OverlappingRanges
  <2>4. SetToBag(U) (+) SetToBag(V) = SetToBag(U \cup V)
    BY <2>2, BagsOfSets
  <2>5. m = Holds(Part(U \cup V), U \cup V)
    <3>1. a = [ranges |-> [kind |-> "Part", events |-> U], counted |-> SetToBag(U), state |-> "product"]
          /\ b.ranges.events = V /\ b.counted = SetToBag(V)
      BY <2>1 DEF Holds, Part
    <3>2. m = [ranges |-> [kind |-> "Part", events |-> U \cup V],
               counted |-> SetToBag(U) (+) SetToBag(V), state |-> "product"]
      BY <2>3, <3>1
    <3> QED BY <2>4, <3>2 DEF Holds, Part
  <2>6. m.ranges # FullRun
    BY <2>5, Kinds DEF Holds
  <2> QED BY <2>5, <2>6 DEF IsSum
<1>5. CASE ~ old /\ OverlappingRanges(a.ranges, b.ranges)
  <2>1. m = Refused
    BY <1>1, <1>5 DEF Merge, OverlappingRanges
  <2> QED BY <2>1 DEF Refused, NoProduct
<1>6. CASE /\ ~ old /\ ~ (~ IsValid(a.ranges) /\ IsValid(b.ranges))
           /\ ~ DisjointRanges(a.ranges, b.ranges) /\ ~ OverlappingRanges(a.ranges, b.ranges)
  <2>1. m = a
    BY <1>1, <1>6 DEF Merge
  <2>2. ~ IsValid(b.ranges) \/ a.ranges = b.ranges
    BY <1>6 DEF OverlappingRanges
  <2>3. U \cup V = U
    <3>1. CASE ~ IsValid(b.ranges)
      <4>1. V = {}
        BY <3>1, <1>8, <1>9
      <4> QED BY <4>1
    <3>2. CASE a.ranges = b.ranges
      BY <3>2
    <3> QED BY <2>2, <3>1, <3>2
  <2> QED BY <2>1, <2>3
<1> QED BY <1>2, <1>3, <1>4, <1>5, <1>6

-----------------------------------------------------------------------------
(* What GetProduct() has after each position of the index.                 *)
Fragment(d, k, p) == File(d).fragments[k][File(d).entry[p]]
IsUpTo(g, d, k, id, n) ==
  g = [p \in 0..n |-> IF p = 0 THEN NoProduct
                      ELSE IF Index(d)[p] # id THEN g[p - 1]
                      ELSE Merge(g[p - 1], Fragment(d, k, p), File(d).oldFormat)]

LEMMA MergingGoesOn ==
  ASSUME NEW d, NEW k, NEW id, NEW N \in Nat
  PROVE  \E g : IsUpTo(g, d, k, id, N)
<1> DEFINE Next1(g, p) == IF Index(d)[p] # id THEN g[p - 1]
                          ELSE Merge(g[p - 1], Fragment(d, k, p), File(d).oldFormat)
           Possible(n) == \E g : IsUpTo(g, d, k, id, n)
           Bad == {n \in Nat : ~ Possible(n)}
<1>1. \A g, n : IsUpTo(g, d, k, id, n) <=> g = [p \in 0..n |-> IF p = 0 THEN NoProduct ELSE Next1(g, p)]
  BY DEF IsUpTo
<1>2. Possible(0)
  <2> DEFINE g == [p \in 0..0 |-> NoProduct]
  <2>1. g = [p \in 0..0 |-> IF p = 0 THEN NoProduct ELSE Next1(g, p)]
    <3> HIDE DEF Next1
    <3> QED OBVIOUS
  <2> HIDE DEF g, Next1
  <2> QED BY <1>1, <2>1
<1>3. ASSUME NEW n \in Nat, Possible(n) PROVE Possible(n + 1)
  <2>1. PICK g : g = [p \in 0..n |-> IF p = 0 THEN NoProduct ELSE Next1(g, p)]
    <3> HIDE DEF Next1
    <3> QED BY <1>1, <1>3
  <2> DEFINE h == [p \in 0..(n + 1) |-> IF p = n + 1 THEN Next1(g, n + 1) ELSE g[p]]
  <2>2. \A p \in 0..n : h[p] = g[p]
    BY DEF h
  <2>3. h[n + 1] = Next1(g, n + 1) /\ DOMAIN h = 0..(n + 1)
    BY DEF h
  <2> HIDE DEF h
  <2>4. ASSUME NEW p \in 1..(n + 1) PROVE Next1(h, p) = Next1(g, p)
    <3>1. p - 1 \in 0..n
      OBVIOUS
    <3>2. h[p - 1] = g[p - 1]
      BY <2>2, <3>1
    <3> QED BY <3>2
  <2> HIDE DEF Next1
  <2>5. ASSUME NEW p \in 0..(n + 1) PROVE h[p] = IF p = 0 THEN NoProduct ELSE Next1(h, p)
    <3>1. CASE p = 0
      <4>1. p \in 0..n
        BY <3>1
      <4>2. h[p] = g[p] /\ g[p] = NoProduct
        BY <2>1, <2>2, <3>1, <4>1
      <4> QED BY <3>1, <4>2
    <3>2. CASE p = n + 1
      <4>1. p # 0 /\ p \in 1..(n + 1)
        BY <3>2
      <4>2. Next1(h, p) = Next1(g, p)
        BY <2>4, <4>1
      <4> QED BY <2>3, <3>2, <4>1, <4>2
    <3>3. CASE p # 0 /\ p # n + 1
      <4>1. p \in 0..n /\ p \in 1..(n + 1)
        BY <3>3
      <4>2. h[p] = g[p] /\ Next1(h, p) = Next1(g, p)
        BY <2>2, <2>4, <4>1
      <4>3. g[p] = Next1(g, p)
        BY <2>1, <3>3, <4>1
      <4> QED BY <3>3, <4>2, <4>3
    <3> QED BY <3>1, <3>2, <3>3
  <2>6. h = [p \in 0..(n + 1) |-> h[p]]
    BY <2>3 DEF h
  <2>7. h = [p \in 0..(n + 1) |-> IF p = 0 THEN NoProduct ELSE Next1(h, p)]
    BY <2>5, <2>6
  <2> QED BY <1>1, <2>7
<1> HIDE DEF Possible
<1>4. Bad = {}
  <2>1. SUFFICES ASSUME Bad # {} PROVE FALSE
    OBVIOUS
  <2>2. PICK n \in Bad : \A q \in Bad : n <= q
    BY <2>1, SmallestOfSet
  <2>3. n \in Nat /\ ~ Possible(n)
    OBVIOUS
  <2>4. n # 0 /\ n - 1 \in Nat
    BY <1>2, <2>3
  <2>5. Possible(n - 1)
    BY <2>2, <2>3, <2>4
  <2>6. Possible((n - 1) + 1)
    BY <1>3, <2>4, <2>5
  <2> QED BY <2>3, <2>4, <2>6
<1>5. Possible(N)
  BY <1>4
<1> QED BY <1>5 DEF Possible

(* The positions of an ID, and what is counted in them.                    *)
Positions(d, id, n) == {p \in 1..n : Index(d)[p] = id}
PartsUpTo(d, k, id, n) == UNION {BagToSet(Fragment(d, k, p).counted) : p \in Positions(d, id, n)}

LEMMA FragmentFacts ==
  ASSUME job \in Jobs, NEW d \in Datasets, NEW k \in ProductList(d),
         BranchType[k] \in {"Run", "SubRun"}, NEW id, EntryType(id) = BranchType[k],
         NEW p \in DOMAIN Index(d), NEW q \in DOMAIN Index(d), Index(d)[p] = id, Index(d)[q] = id
  PROVE  /\ IsSum(Fragment(d, k, p), BagToSet(Fragment(d, k, p).counted))
         /\ Fragment(d, k, p).ranges = Fragment(d, k, q).ranges \/ File(d).oldFormat
              => Fragment(d, k, p) = Fragment(d, k, q)
<1> DEFINE f == File(d)
           a == Fragment(d, k, p)
           parts == BagToSet(a.counted)
<1>1. k \in f.registered \cap f.branches
  BY DEF ProductList
<1>2. f = job.file[d] /\ f.index = Index(d) /\ a = f.fragments[k][f.entry[p]]
      /\ Fragment(d, k, q) = f.fragments[k][f.entry[q]]
  BY DEF File, Index, Fragment
<1>3. /\ CountsItsRanges(a)
      /\ a.ranges = Fragment(d, k, q).ranges \/ f.oldFormat => a = Fragment(d, k, q)
  <2>1. FragmentsAgree(f)
    BY FragmentsAssumption DEF FragmentsAgree, File
  <2>2. BranchType[k] \in {"Run", "SubRun"} /\ BranchType[k] = EntryType(f.index[p]) /\ f.index[p] = f.index[q]
        /\ p \in DOMAIN f.index /\ q \in DOMAIN f.index
    BY <1>2
  <2> HIDE DEF f, a
  <2>3. /\ CountsItsRanges(f.fragments[k][f.entry[p]])
        /\ f.fragments[k][f.entry[p]].ranges = f.fragments[k][f.entry[q]].ranges \/ f.oldFormat =>
             f.fragments[k][f.entry[p]] = f.fragments[k][f.entry[q]]
    BY <1>1, <2>1, <2>2 DEF FragmentsAgree
  <2> QED BY <1>2, <2>3
<1> HIDE DEF a, f
<1>4. /\ a = [ranges |-> a.ranges, counted |-> SetToBag(parts), state |-> "product"]
      /\ \/ a.ranges = Invalid /\ parts = {}
         \/ a.ranges \in {Part(parts), FullRun}
  BY <1>3 DEF CountsItsRanges
<1>5. IsSum(a, parts)
  <2> HIDE DEF parts
  <2> QED BY <1>4 DEF IsSum, Holds
<1> QED BY <1>3, <1>5 DEF a, f

(* What has been put together is what the positions so far counted.        *)
Together(d, k, id, n, a) ==
  IF Positions(d, id, n) = {} THEN a = NoProduct
  ELSE a.state = "refused"
       \/ /\ IsSum(a, PartsUpTo(d, k, id, n))
          /\ a.ranges = FullRun =>
               \E q \in Positions(d, id, n) :
                 /\ Fragment(d, k, q).ranges = FullRun
                 /\ BagToSet(Fragment(d, k, q).counted) = PartsUpTo(d, k, id, n)

LEMMA TogetherStep ==
  ASSUME job \in Jobs, NEW d \in Datasets, NEW k \in ProductList(d),
         BranchType[k] \in {"Run", "SubRun"}, NEW id, EntryType(id) = BranchType[k],
         File(d).oldFormat \in BOOLEAN,
         NEW n \in DOMAIN Index(d), NEW a, Together(d, k, id, n - 1, a)
  PROVE  Together(d, k, id, n,
                  IF Index(d)[n] # id THEN a ELSE Merge(a, Fragment(d, k, n), File(d).oldFormat))
<1> DEFINE Earlier == Positions(d, id, n - 1)
           U == PartsUpTo(d, k, id, n - 1)
           b == Fragment(d, k, n)
           V == BagToSet(b.counted)
           m == Merge(a, b, File(d).oldFormat)
<1>1. DOMAIN Index(d) = 1..Len(Index(d)) /\ Len(Index(d)) \in Nat /\ n \in Nat /\ n >= 1
  BY WantedFacts
<1>2. CASE Index(d)[n] # id
  <2>1. Positions(d, id, n) = Earlier
    BY <1>1, <1>2 DEF Positions
  <2>2. PartsUpTo(d, k, id, n) = U
    BY <2>1 DEF PartsUpTo
  <2> QED BY <1>2, <2>1, <2>2 DEF Together
<1>3. CASE Index(d)[n] = id
  <2>1. Positions(d, id, n) = Earlier \cup {n} /\ Earlier \subseteq DOMAIN Index(d)
        /\ \A q \in Earlier : Index(d)[q] = id
    BY <1>1, <1>3 DEF Positions
  <2>2. PartsUpTo(d, k, id, n) = U \cup V
    BY <2>1 DEF PartsUpTo
  <2>3. IsSum(b, V)
    BY <1>3, FragmentFacts
  <2>4. \A q \in Earlier : b.ranges = Fragment(d, k, q).ranges \/ File(d).oldFormat => b = Fragment(d, k, q)
    BY <1>3, <2>1, FragmentFacts
  <2>5. U = UNION {BagToSet(Fragment(d, k, p).counted) : p \in Earlier}
    BY DEF PartsUpTo
  <2> HIDE DEF Earlier, U, b, V, m
  <2>6. Together(d, k, id, n, m)
    <3>1. CASE Earlier = {}
      <4>1. U = {} /\ U \cup V = V
        BY <2>5, <3>1
      <4>2. a = NoProduct
        BY <3>1 DEF Together, Earlier
      <4>3. m = b
        BY <4>2 DEF m, Merge, NoProduct
      <4>4. b.ranges = FullRun => Fragment(d, k, n).ranges = FullRun /\ BagToSet(Fragment(d, k, n).counted) = U \cup V
        BY <4>1 DEF b, V
      <4> QED BY <2>1, <2>2, <2>3, <4>1, <4>3, <4>4 DEF Together
    <3>2. CASE Earlier # {} /\ a.state = "refused"
      <4>1. m = a
        BY <3>2 DEF m, Merge
      <4> QED BY <2>1, <3>2, <4>1 DEF Together
    <3>3. CASE Earlier # {} /\ a.state # "refused"
      <4>1. /\ IsSum(a, U)
            /\ a.ranges = FullRun =>
                 \E q \in Earlier : Fragment(d, k, q).ranges = FullRun /\ BagToSet(Fragment(d, k, q).counted) = U
        BY <3>3 DEF Together, Earlier, U
      <4>2. a.ranges = b.ranges \/ File(d).oldFormat => U = V
        <5>1. CASE File(d).oldFormat
          <6>1. \A q \in Earlier : BagToSet(Fragment(d, k, q).counted) = V
            BY <2>4, <5>1 DEF V
          <6> QED BY <2>5, <3>3, <6>1
        <5>2. CASE a.ranges = b.ranges /\ a.ranges = FullRun
          <6>1. PICK q \in Earlier : Fragment(d, k, q).ranges = FullRun /\ BagToSet(Fragment(d, k, q).counted) = U
            BY <4>1, <5>2
          <6>2. b = Fragment(d, k, q)
            BY <2>4, <5>2, <6>1
          <6> QED BY <6>1, <6>2 DEF V
        <5>3. CASE a.ranges = b.ranges /\ a.ranges # FullRun
          <6>1. \A rs, parts : Holds(rs, parts).ranges = rs
            BY DEF Holds
          <6>2. /\ (U = {} /\ a.ranges = Invalid) \/ a.ranges = Part(U)
                /\ (V = {} /\ b.ranges = Invalid) \/ b.ranges = Part(V)
            BY <2>3, <4>1, <5>3, <6>1 DEF IsSum
          <6>3. Part(U) # Invalid /\ Part(V) # Invalid /\ (Part(U) = Part(V) => U = V)
            BY Kinds
          <6> QED BY <5>3, <6>2, <6>3
        <5> QED BY <5>1, <5>2, <5>3
      <4>3. \/ m.state = "refused"
            \/ /\ IsSum(m, U \cup V)
               /\ m.ranges = FullRun => (a.ranges = FullRun /\ U \cup V = U) \/ (b.ranges = FullRun /\ U \cup V = V)
        BY <2>3, <4>1, <4>2, MergeAdds DEF m
      <4>4. CASE m.state = "refused"
        BY <2>1, <4>4 DEF Together
      <4>5. CASE m.state # "refused"
        <5>1. m.ranges = FullRun =>
                \E q \in Earlier \cup {n} : /\ Fragment(d, k, q).ranges = FullRun
                                            /\ BagToSet(Fragment(d, k, q).counted) = U \cup V
          <6>1. CASE a.ranges = FullRun /\ U \cup V = U
            BY <4>1, <6>1
          <6>2. CASE b.ranges = FullRun /\ U \cup V = V
            BY <6>2 DEF b, V
          <6> QED BY <4>3, <4>5, <6>1, <6>2
        <5> QED BY <2>1, <2>2, <4>3, <4>5, <5>1 DEF Together
      <4> QED BY <4>4, <4>5
    <3> QED BY <3>1, <3>2, <3>3
  <2> QED BY <1>3, <2>6 DEF m, b
<1> QED BY <1>2, <1>3

(* A product that is not refused counts what its fragments do, once.       *)
LEMMA CountedOnce ==
  ASSUME job \in Jobs, NEW d \in Datasets, NEW k \in ProductList(d),
         BranchType[k] \in {"Run", "SubRun"}, NEW id \in IDsOf(d, BranchType[k]),
         File(d).oldFormat \in BOOLEAN, GetProduct(d, k, id).state # "refused"
  PROVE  LET counted == GetProduct(d, k, id).counted IN
         /\ BagToSet(counted) = PartsOf(d, k, id)
         /\ \A part \in BagToSet(counted) : counted[part] = 1
<1> DEFINE N == Len(Index(d))
           g == CHOOSE g : IsUpTo(g, d, k, id, N)
<1>1. N \in Nat /\ DOMAIN Index(d) = 1..N
  BY WantedFacts
<1>2. EntryType(id) = BranchType[k] /\ \E p \in DOMAIN Index(d) : Index(d)[p] = id
  BY DEF IDsOf
<1>3. GetProduct(d, k, id) = g[N]
  BY DEF GetProduct, IsUpTo, Fragment, Index
<1>4. IsUpTo(g, d, k, id, N)
  <2> HIDE DEF N
  <2> QED BY <1>1, MergingGoesOn
<1> HIDE DEF g
<1>5. g[0] = NoProduct
  BY <1>1, <1>4 DEF IsUpTo
<1>6. ASSUME NEW p \in 1..N
      PROVE  g[p] = IF Index(d)[p] # id THEN g[p - 1]
                    ELSE Merge(g[p - 1], Fragment(d, k, p), File(d).oldFormat)
  <2>1. p \in 0..N /\ p # 0
    BY <1>1
  <2> HIDE DEF N
  <2> QED BY <1>4, <2>1 DEF IsUpTo
<1>7. \A n \in 0..N : Together(d, k, id, n, g[n])
  <2> DEFINE Bad == {n \in 0..N : ~ Together(d, k, id, n, g[n])}
  <2>1. SUFFICES ASSUME Bad # {} PROVE FALSE
    OBVIOUS
  <2>2. PICK n \in Bad : \A q \in Bad : n <= q
    <3>1. Bad \subseteq Nat
      BY <1>1
    <3> QED BY <2>1, <3>1, SmallestOfSet
  <2>3. n \in 0..N /\ ~ Together(d, k, id, n, g[n])
    OBVIOUS
  <2>4. Positions(d, id, 0) = {}
    BY DEF Positions
  <2>5. n # 0
    BY <1>5, <2>3, <2>4 DEF Together
  <2>6. n \in 1..N /\ n - 1 \in 0..N /\ n \in DOMAIN Index(d)
    BY <1>1, <2>3, <2>5
  <2>7. n - 1 \notin Bad
    BY <1>1, <2>2, <2>6
  <2>8. Together(d, k, id, n - 1, g[n - 1])
    BY <2>6, <2>7
  <2>9. Together(d, k, id, n, IF Index(d)[n] # id THEN g[n - 1]
                              ELSE Merge(g[n - 1], Fragment(d, k, n), File(d).oldFormat))
    BY <1>2, <2>6, <2>8, TogetherStep
  <2>10. Together(d, k, id, n, g[n])
    BY <1>6, <2>6, <2>9
  <2> QED BY <2>3, <2>10
<1>8. Positions(d, id, N) = {p \in DOMAIN Index(d) : Index(d)[p] = id} /\ Positions(d, id, N) # {}
  BY <1>1, <1>2 DEF Positions
<1>9. PartsUpTo(d, k, id, N) = PartsOf(d, k, id)
  BY <1>8 DEF PartsUpTo, PartsOf, Fragment
<1>10. IsSum(g[N], PartsOf(d, k, id))
  <2>1. N \in 0..N
    BY <1>1
  <2> HIDE DEF N
  <2> QED BY <1>3, <1>7, <1>8, <1>9, <2>1 DEF Together
<1>11. g[N].counted = SetToBag(PartsOf(d, k, id))
  BY <1>10 DEF IsSum, Holds
<1>12. /\ BagToSet(SetToBag(PartsOf(d, k, id))) = PartsOf(d, k, id)
       /\ \A part \in PartsOf(d, k, id) : SetToBag(PartsOf(d, k, id))[part] = 1
  BY BagsOfSets
<1> HIDE DEF N
<1> QED BY <1>3, <1>11, <1>12

-----------------------------------------------------------------------------
(***************************************************************************)
(* The run and the subrun of the job                                       *)
(***************************************************************************)
KeysToSample == {k \in UNION {ProductList(d) : d \in Datasets} : BranchType[k] \in {"Run", "SubRun"}}

IsPrincipal(pr, bt) == pr = Principal(bt) /\ ~ CannotSample(bt) /\ sampledKeys = KeysToSample

(* Both are made of what is sampled, once that is known.                   *)
PrincipalsInv ==
  /\ job \in Jobs
  /\ next \in {"Configure", "Open"} => run = NotRead /\ subRun = NotRead
  /\ next \notin {"Configure", "Open", "Failed"} => sampledKeys = KeysToSample
  /\ run = NotRead \/ IsPrincipal(run, "Run")
  /\ subRun = NotRead \/ IsPrincipal(subRun, "SubRun")

(* GetProduct(), of the file alone.                                        *)
ProductOf(f, k, id) ==
  LET upTo[p \in 0..Len(f.index)] ==
        IF p = 0 THEN NoProduct
        ELSE IF f.index[p] # id THEN upTo[p - 1]
        ELSE Merge(upTo[p - 1], f.fragments[k][f.entry[p]], f.oldFormat)
  IN upTo[Len(f.index)]

(* What a principal is made of depends on nothing but the job.             *)
LEMMA SamePrincipal ==
  ASSUME job' = job
  PROVE  /\ \A d, k, id : GetProduct(d, k, id)' = GetProduct(d, k, id)
         /\ \A d : ProductList(d)' = ProductList(d)
         /\ \A d, bt : IDsOf(d, bt)' = IDsOf(d, bt)
         /\ \A d, bt : ProductsFor(d, bt)' = ProductsFor(d, bt)
         /\ KeysToSample' = KeysToSample
         /\ \A k : HavingProduct(k)' = HavingProduct(k)
         /\ \A k : SampledProduct(k)' = SampledProduct(k)
<1>1. \A d : File(d)' = File(d) /\ Index(d)' = Index(d)
  BY SameJob
<1>2. \A d, k, id : GetProduct(d, k, id)' = GetProduct(d, k, id)
  <2> TAKE d, k, id
  <2>1. GetProduct(d, k, id) = ProductOf(File(d), k, id)
    BY DEF GetProduct, ProductOf
  <2>2. GetProduct(d, k, id)' = ProductOf(File(d)', k, id)
    BY DEF GetProduct, ProductOf
  <2> QED BY <1>1, <2>1, <2>2
<1>3. \A d : ProductList(d)' = ProductList(d)
  BY <1>1 DEF ProductList, BranchesToDrop, Selected
<1>4. \A d, bt : IDsOf(d, bt)' = IDsOf(d, bt)
  BY <1>1 DEF IDsOf
<1>5. \A d, bt : ProductsFor(d, bt)' = ProductsFor(d, bt)
  BY <1>2, <1>3, <1>4 DEF ProductsFor
<1>6. KeysToSample' = KeysToSample
  BY <1>3 DEF KeysToSample
<1>7. \A k : HavingProduct(k)' = HavingProduct(k)
  BY <1>5 DEF HavingProduct
<1>8. \A k : SampledProduct(k)' = SampledProduct(k)
  BY <1>5, <1>7 DEF SampledProduct
<1> QED BY <1>2, <1>3, <1>4, <1>5, <1>6, <1>7, <1>8

LEMMA StaysPrincipal ==
  ASSUME UNCHANGED <<job, sampledKeys>>
  PROVE  \A bt : /\ Principal(bt)' = Principal(bt)
                 /\ CannotSample(bt)' = CannotSample(bt)
<1>1. \A bt : Principal(bt)' = Principal(bt)
  BY SamePrincipal DEF Principal, SampledInfo
<1>2. \A bt : CannotSample(bt)' = CannotSample(bt)
  BY SamePrincipal DEF CannotSample
<1> QED BY <1>1, <1>2

LEMMA PrincipalsStep == PrincipalsInv /\ [Next]_vars => PrincipalsInv'
<1> SUFFICES ASSUME PrincipalsInv, [Next]_vars PROVE PrincipalsInv'
  OBVIOUS
<1>1. /\ next \in {"Configure", "Open"} => run = NotRead /\ subRun = NotRead
      /\ next \notin {"Configure", "Open", "Failed"} => sampledKeys = KeysToSample
      /\ run = NotRead \/ IsPrincipal(run, "Run")
      /\ subRun = NotRead \/ IsPrincipal(subRun, "SubRun")
      /\ job \in Jobs
  BY DEF PrincipalsInv
<1>2. job' = job
  BY DEF vars, Next, Configure, OpenInputFiles, NextItemType, NextFile, NextRun, NextSubRun, NextRecord,
         StopAtLimit, NextEvent, StopExhausted, ReadFile, ReadRun, ReadSubRun, ReadEvent, FinishEvent,
         GetEventProduct, CloseFile
<1>3. KeysToSample' = KeysToSample
  BY <1>2, SamePrincipal
<1>4. CASE OpenInputFiles
  <2>1. run = NotRead /\ subRun = NotRead /\ run' = run /\ subRun' = subRun
    BY <1>1, <1>4 DEF OpenInputFiles, dataVars
  <2>2. next' \notin {"Configure", "Open"} /\ (next' # "Failed" => sampledKeys' = KeysToSample)
    BY <1>4 DEF OpenInputFiles, KeysToSample
  <2> QED BY <1>1, <1>2, <1>3, <2>1, <2>2 DEF PrincipalsInv, NotRead
<1>5. CASE ~ OpenInputFiles
  <2>1. sampledKeys' = sampledKeys
    BY <1>5 DEF vars, Next, Configure, NextItemType, NextFile, NextRun, NextSubRun, NextRecord,
         StopAtLimit, NextEvent, StopExhausted, ReadFile, ReadRun, ReadSubRun, ReadEvent, FinishEvent,
         GetEventProduct, CloseFile
  <2>2. /\ \A bt : Principal(bt)' = Principal(bt)
        /\ \A bt : CannotSample(bt)' = CannotSample(bt)
    BY <1>2, <2>1, StaysPrincipal
  <2>3. /\ next' \in {"Configure", "Open"} => next \in {"Configure", "Open"} /\ run' = run /\ subRun' = subRun
        /\ next' \notin {"Configure", "Open", "Failed"} => next \notin {"Configure", "Open", "Failed"}
    BY <1>5 DEF vars, Next, Configure, NextItemType, NextFile, NextRun, NextSubRun, NextRecord,
         StopAtLimit, AskForEvent, NextEvent, StopExhausted, ReadFile, ReadRun, ReadSubRun, ReadEvent,
         FinishEvent, InFlight, GetEventProduct, CloseFile, dataVars
  <2>4. run' = run \/ (next = "Run" /\ run' = Principal("Run") /\ ~ CannotSample("Run"))
    BY <1>5 DEF vars, Next, Configure, NextItemType, NextFile, NextRun, NextSubRun, NextRecord,
         StopAtLimit, NextEvent, StopExhausted, ReadFile, ReadRun, ReadSubRun, ReadEvent,
         FinishEvent, GetEventProduct, CloseFile, dataVars
  <2>5. subRun' = subRun \/ (next = "SubRun" /\ subRun' = Principal("SubRun") /\ ~ CannotSample("SubRun"))
    BY <1>5 DEF vars, Next, Configure, NextItemType, NextFile, NextRun, NextSubRun, NextRecord,
         StopAtLimit, NextEvent, StopExhausted, ReadFile, ReadRun, ReadSubRun, ReadEvent,
         FinishEvent, GetEventProduct, CloseFile, dataVars
  <2>6. run' = NotRead \/ IsPrincipal(run, "Run")'
    <3>1. run' = NotRead \/ (run' = Principal("Run") /\ ~ CannotSample("Run") /\ sampledKeys = KeysToSample)
      BY <1>1, <2>4 DEF IsPrincipal
    <3> QED BY <1>3, <2>1, <2>2, <3>1 DEF IsPrincipal
  <2>7. subRun' = NotRead \/ IsPrincipal(subRun, "SubRun")'
    <3>1. subRun' = NotRead \/ (subRun' = Principal("SubRun") /\ ~ CannotSample("SubRun") /\ sampledKeys = KeysToSample)
      BY <1>1, <2>5 DEF IsPrincipal
    <3> QED BY <1>3, <2>1, <2>2, <3>1 DEF IsPrincipal
  <2>8. next' \notin {"Configure", "Open", "Failed"} => sampledKeys' = KeysToSample'
    BY <1>1, <1>3, <2>1, <2>3
  <2>9. next' \in {"Configure", "Open"} => run' = NotRead /\ subRun' = NotRead
    BY <1>1, <2>3
  <2>10. NotRead' = NotRead
    BY DEF NotRead
  <2> QED BY <1>1, <1>2, <2>6, <2>7, <2>8, <2>9, <2>10 DEF PrincipalsInv
<1> QED BY <1>4, <1>5

LEMMA PrincipalsInit == Init => PrincipalsInv
BY DEF Init, PrincipalsInv

(* What a principal has of one product of one file.                        *)
LEMMA PrincipalCounts ==
  ASSUME job \in Jobs, NEW pr, NEW bt \in {"Run", "SubRun"}, IsPrincipal(pr, bt),
         NEW d \in Datasets, NEW k \in ProductList(d), NEW id \in pr.info[d], EntryType(id) = BranchType[k]
  PROVE  /\ k \in DOMAIN pr.products /\ d \in DOMAIN pr.products[k]
         /\ DOMAIN pr.products[k][d] = pr.info[d]
         /\ LET counted == pr.products[k][d][id].counted
            IN /\ BagToSet(counted) = PartsOf(d, k, id)
               /\ \A part \in BagToSet(counted) : counted[part] = 1
<1>1. /\ pr.info = [c \in Datasets |-> IDsOf(c, bt)]
      /\ pr.products = [c \in {c \in sampledKeys : BranchType[c] = bt} |-> SampledProduct(c)]
      /\ sampledKeys = KeysToSample /\ ~ CannotSample(bt)
  BY DEF IsPrincipal, Principal, SampledInfo
<1>2. pr.info[d] = IDsOf(d, bt)
  BY <1>1
<1>3. id \in IDsOf(d, bt) /\ EntryType(id) = bt
  BY <1>2 DEF IDsOf
<1>4. BranchType[k] = bt
  BY <1>3
<1>5. k \in KeysToSample
  BY <1>4 DEF KeysToSample
<1>6. ProductsFor(d, bt) = [c \in {c \in ProductList(d) : BranchType[c] = bt} |->
                              [i \in IDsOf(d, bt) |-> GetProduct(d, c, i)]]
  BY <1>3 DEF ProductsFor
<1>7. /\ k \in DOMAIN ProductsFor(d, bt)
      /\ ProductsFor(d, bt)[k] = [i \in IDsOf(d, bt) |-> GetProduct(d, k, i)]
  BY <1>4, <1>6
<1>8. d \in HavingProduct(k)
  BY <1>4, <1>7 DEF HavingProduct
<1>9. pr.products[k] = [c \in HavingProduct(k) |-> ProductsFor(c, BranchType[k])[k]]
  BY <1>1, <1>4, <1>5 DEF SampledProduct
<1>10. pr.products[k][d] = [i \in IDsOf(d, bt) |-> GetProduct(d, k, i)]
  BY <1>4, <1>7, <1>8, <1>9
<1>11. k \in DOMAIN pr.products
  BY <1>1, <1>4, <1>5
<1>12. d \in DOMAIN pr.products[k]
  BY <1>8, <1>9
<1>13. GetProduct(d, k, id).state # "refused"
  BY <1>1, <1>3, <1>7 DEF CannotSample
<1>14. File(d).oldFormat \in BOOLEAN
  BY FragmentsAssumption DEF FragmentsAgree, File
<1>15. LET counted == GetProduct(d, k, id).counted
       IN  /\ BagToSet(counted) = PartsOf(d, k, id)
           /\ \A part \in BagToSet(counted) : counted[part] = 1
  BY <1>3, <1>4, <1>13, <1>14, CountedOnce
<1> QED BY <1>2, <1>3, <1>10, <1>11, <1>12, <1>15

LEMMA PrincipalsRight == PrincipalsInv => SampledOnce
<1> SUFFICES ASSUME PrincipalsInv, NEW pr \in {run, subRun}, pr.read,
                    NEW d \in Datasets, NEW k \in ProductList(d), NEW id \in pr.info[d], EntryType(id) = BranchType[k]
             PROVE  /\ k \in DOMAIN pr.products /\ d \in DOMAIN pr.products[k]
                    /\ DOMAIN pr.products[k][d] = pr.info[d]
                    /\ LET counted == pr.products[k][d][id].counted
                       IN /\ BagToSet(counted) = PartsOf(d, k, id)
                          /\ \A part \in BagToSet(counted) : counted[part] = 1
  BY DEF SampledOnce
<1>1. pr # NotRead /\ job \in Jobs
  BY DEF NotRead, PrincipalsInv
<1>2. PICK bt \in {"Run", "SubRun"} : IsPrincipal(pr, bt)
  BY <1>1 DEF PrincipalsInv
<1> QED BY <1>1, <1>2, PrincipalCounts

(* Whatever the order of the fragments of a run or subrun, and however     *)
(* often one is repeated, what they counted is in the product that is      *)
(* sampled once, for each product and each run of each dataset.            *)
THEOREM EachRunSampledOnce == Spec => []SampledOnce
  BY PrincipalsInit, PrincipalsStep, PrincipalsRight, PTL DEF Spec
=============================================================================
