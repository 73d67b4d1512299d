----------------------------- MODULE OutputFile -----------------------------
(***************************************************************************)
(* Writing art/ROOT files: RootOutput, RootOutputFile and the event tree   *)
(* of RootOutputTree, driven by art's event loop.                          *)
(*                                                                         *)
(* The tree is a set of branches, each a column of entries that is filled  *)
(* on its own: one at a time as events are written, or all at once when    *)
(* the event tree of an input file is cloned.  The index says in which     *)
(* entry an event is to be found, so what has to be right is that every    *)
(* column has the right event in that entry.                               *)
(*                                                                         *)
(* RootOutput's mutex_ makes each of its functions one step; the events of *)
(* several schedules come in any order.                                    *)
(***************************************************************************)
EXTENDS RangeSetFromFileIndex, FiniteSets

CONSTANTS
  Products,  \* product branches that input files may have
  Produced,  \* product branches of the current process
  Unsaved,   \* products of the current process that are not written
  Parents,   \* the products each product of this process is made from
  Jobs       \* inputs and configurations of a job

ASSUME ProductsAssumption ==
  /\ IsFiniteSet(Products) /\ IsFiniteSet(Produced \cup Unsaved)
  /\ Products \cap (Produced \cup Unsaved) = {} /\ Produced \cap Unsaved = {}
  /\ "EventAuxiliary" \notin Products \cup Produced \cup Unsaved
  /\ Parents \in [Produced \cup Unsaved -> SUBSET (Products \cup Produced \cup Unsaved)]

Input == [entries : Seq(ID), tree : Seq(ID), products : SUBSET Products, described : SUBSET Products,
          children : SUBSET (Products \X Products), clonable : BOOLEAN, cloner : BOOLEAN]

Job == [inputs : Seq(Input), selected : SUBSET ID, wantAllEvents : BOOLEAN, fastCloning : BOOLEAN,
        nschedules : Nat \ {0}, granularity : {"Event", "SubRun", "Run", "InputFile", "Never"},
        dropAllEvents : BOOLEAN, dropAllSubRuns : BOOLEAN,
        rejected : SUBSET Products, dropDescendants : BOOLEAN,
        dropMetaData : {"NONE", "PRIOR", "ALL"}, dropForDropped : BOOLEAN]

EventsOf(f) == {f.entries[p] : p \in Events(f.entries)}

(* Within an input file a subrun is read after its run and an event after  *)
(* its subrun: InputSequence!EventsInTheirSubRun.                          *)
InTheirSubRun(entries) ==
  \A p \in DOMAIN entries :
    /\ EntryType(entries[p]) # "Run" => p > 1 /\ RunOf(entries[p - 1]) = RunOf(entries[p])
    /\ EntryType(entries[p]) = "Event" =>
         entries[p].subRun # 0 /\ SubRunOf(entries[p - 1]) = SubRunOf(entries[p])

(* All events are wanted unless the configuration selects some; and        *)
(* shouldDropEvents(): without its subruns no event is written.            *)
ASSUME JobsAssumption ==
  /\ Jobs \subseteq Job
  /\ \A j \in Jobs : /\ j.wantAllEvents =>
                        \A i \in DOMAIN j.inputs : EventsOf(j.inputs[i]) \subseteq j.selected
                     /\ \A i \in DOMAIN j.inputs : InTheirSubRun(j.inputs[i].entries)
                     /\ j.dropAllSubRuns => j.dropAllEvents

Branches == {"EventAuxiliary"} \cup Products \cup Produced
NoOutput == [open |-> FALSE]
NoID     == RunEntry(1)

(* Boundaries, and with "Never" the granularity of a job whose             *)
(* ClosingCriteria have no maximum.                                        *)
Granularities == <<"Event", "SubRun", "Run", "InputFile", "Never">>
Rank(g)       == CHOOSE n \in DOMAIN Granularities : Granularities[n] = g

VARIABLES
  job,             \* inputs and configuration, fixed
  input, at,       \* the input file and the last entry of it that was read
  phase,           \* where the event loop is
  owed,            \* what art has still to write before the file may be closed
  run, subRun,     \* the run and the subrun being processed
  inFlight,        \* events read and not yet written
  closing,         \* an output file is to be closed
  inputFileCount,  \* inputFileCount_
  out,             \* *rootOutputFile_ or NoOutput
  fstats,          \* fstats_
  results,         \* what the results producers have seen since doClear()
  closed           \* the files written

loop == <<input, at, phase, owed, run, subRun, inFlight, closing>>
vars == <<job, loop, inputFileCount, out, fstats, results, closed>>

file   == job.inputs[input]
next   == file.entries[at + 1]
nextIs == IF input = 0 THEN "End" ELSE TypeAt(file.entries, at + 1)

-----------------------------------------------------------------------------
(***************************************************************************)
(* Products of an input file                                               *)
(***************************************************************************)

(* appendToDescendants(), for a set of products *)
Descendants(children, ps) ==
  LET upTo[n \in 0..Cardinality(Products)] ==
        IF n = 0 THEN ps
        ELSE upTo[n - 1] \cup {c[2] : c \in {c \in children : c[1] \in upTo[n - 1]}}
  IN  upTo[Cardinality(Products)]

(* The products that inputCommands do not select, and what depends on them *)
(* according to the BranchChildren of the file                             *)
DropOnInput(f) ==
  LET unselected == f.described \cap job.rejected IN
  IF job.dropDescendants THEN Descendants(f.children, unselected) ELSE unselected

(* What is left of the ProductList, and the products of it with a branch   *)
Described(f) == f.described \ DropOnInput(f)
Present(f)   == f.products \ DropOnInput(f)

-----------------------------------------------------------------------------
(***************************************************************************)
(* RootOutputTree                                                          *)
(***************************************************************************)
Dummy == [event |-> 0]

Repeat(x, n) == [k \in 1..n |-> x]

(* Mutant: a branch that is new in the middle of a file begins empty. *)
Backfill_None(o) == <<>>

(* A new branch is filled up with dummies to the number of events written. *)
Backfill(o) == Repeat(Dummy, o.nEntries)

(* addOutputBranch() for a set of branches *)
AddOutputBranches(o, bs) ==
  LET new == bs \ DOMAIN o.column IN
  [o EXCEPT !.column = [b \in DOMAIN o.column \cup new |->
                          IF b \in new THEN Backfill(o) ELSE o.column[b]],
            !.readBranches     = @ \cup (new \ Produced),
            !.producedBranches = @ \cup (new \cap Produced)]

(* fastCloneTree(): the branches that input and output have in common,     *)
(* without EventAuxiliary.                                                 *)
FastCloneTree(o, f) ==
  LET cloner  == f.tree # <<>> /\ f.cloner
      copied  == IF cloner THEN Present(f) \cap o.readBranches ELSE {}
      column  == [b \in DOMAIN o.column |->
                    o.column[b] \o (IF b \in copied THEN f.tree ELSE <<>>)]
      entries == o.treeEntries + (IF cloner THEN Len(f.tree) ELSE 0)
  IN  [o EXCEPT !.column = column,
                !.treeEntries = entries,
                !.wasFastCloned = @ \/ cloner,
                !.uncloned = {b \in o.readBranches : Len(column[b]) # entries}]

(* What an event holds for a branch: the product or, if there is none, the *)
(* dummy product of its class.                                             *)
Value(b, id, f) == IF b \in Present(f) \cup Produced \cup {"EventAuxiliary"} THEN id ELSE Dummy

(* fillTree(), with the products that fillBranches() resolved *)
FillTree(o, id, f) ==
  LET filled == o.producedBranches \cup (IF o.wasFastCloned THEN o.uncloned ELSE o.readBranches) IN
  [o EXCEPT !.column = [b \in DOMAIN o.column |->
                          IF b \in filled THEN Append(o.column[b], Value(b, id, f)) ELSE o.column[b]],
            !.nEntries = @ + 1]

Aligned(o) == \A a, b \in DOMAIN o.column : Len(o.column[a]) = Len(o.column[b])

(* setEntries() of aligned branches.  Of others, ROOT warns, and the error *)
(* handler makes that an exception.                                        *)
SetEntries(o) == [o EXCEPT !.treeEntries = Len(o.column["EventAuxiliary"])]

-----------------------------------------------------------------------------
(***************************************************************************)
(* RootOutputFile                                                          *)
(***************************************************************************)
NoResults == [events |-> {}, inputs |-> {}]
NoStats   == [parents |-> {}, events |-> 0, lowest |-> NoID, highest |-> NoID, subRuns |-> {}]

NewOutputFile ==
  [open |-> TRUE, column |-> [b \in {"EventAuxiliary"} |-> <<>>], provenance |-> <<>>, descriptions |-> {},
   readBranches |-> {"EventAuxiliary"}, producedBranches |-> {}, uncloned |-> {},
   wasFastCloned |-> FALSE, treeEntries |-> 0, nEntries |-> 0,
   index |-> {}, events |-> 0, subRuns |-> 0, runs |-> 0, sources |-> <<>>,
   results |-> NoResults, metadata |-> NoStats]

(* keptProducts(): what this process produces and inputs 1 to i have. *)
Kept(i) == Produced \cup UNION {Present(job.inputs[k]) : k \in 1..i}

(* Mutant: branches of this process are taken for branches of the input. *)
SelectProducts_AllRead(o, i) == [AddOutputBranches(o, Kept(i)) EXCEPT !.readBranches = @ \cup Produced]

SelectProducts(o, i) == AddOutputBranches(o, Kept(i))

(* Mutant: switching files within an input file does not prevent cloning. *)
ShouldFastClone_AnyGranularity == job.fastCloning /\ job.wantAllEvents /\ job.nschedules = 1

(* shouldFastClone() and the constructor of RootOutput *)
ShouldFastClone ==
  /\ job.fastCloning /\ job.wantAllEvents
  /\ Rank(job.granularity) >= Rank("InputFile")
  /\ job.nschedules = 1

(* beginInputFile() of input i; `sources' remembers what became of it. *)
BeginInputFile(o, i) ==
  LET selected == SelectProducts(o, i)
      f        == job.inputs[i]
      clone    == ShouldFastClone /\ f.clonable
  IN  [(IF clone THEN FastCloneTree(selected, f) ELSE selected) EXCEPT
         !.sources = Append(@, [input  |-> i,
                                cloned |-> clone /\ f.cloner /\ f.tree # <<>>])]

OfThisProcess == Produced \cup Unsaved

ParentsOf(p, f) ==
  IF p \in OfThisProcess THEN Parents[p] \cap (Described(f) \cup OfThisProcess)
  ELSE {c[1] : c \in {c \in f.children : c[2] = p}} \cap Described(f)

(* keptprv: the products written, and with dropMetaData NONE the products  *)
(* of this process that they were made from, level by level                *)
KeptOwn(o) ==
  LET selected == DOMAIN o.column \ {"EventAuxiliary"} IN
  CASE job.dropMetaData = "NONE"  -> selected
    [] job.dropMetaData = "PRIOR" -> selected \cap Produced
    [] job.dropMetaData = "ALL"   -> {}

KeptAncestors(o, f) ==
  LET parents(S) == (UNION {ParentsOf(p, f) : p \in S}) \cap OfThisProcess
      upTo[n \in 0..Cardinality(OfThisProcess)] ==
        IF n = 0 THEN KeptOwn(o) \cap (Present(f) \cup Produced)
        ELSE upTo[n - 1] \cup parents(upTo[n - 1])
  IN  IF job.dropMetaData = "NONE" /\ ~ job.dropForDropped
      THEN upTo[Cardinality(OfThisProcess)] ELSE upTo[0]

(* fillBranches<InEvent>() *)
FillBranches(o, id, f) ==
  LET ancestors == KeptAncestors(o, f) IN
  [FillTree(o, id, f) EXCEPT
     !.provenance   = Append(@, [id   |-> id,
                                 kept |-> [p \in KeptOwn(o) \cup ancestors |->
                                             IF p \in ancestors THEN "present" ELSE "dropped"]]),
     !.descriptions = @ \cup (DOMAIN o.column \ {"EventAuxiliary"})
                        \cup (IF job.dropForDropped THEN {}
                              ELSE UNION {ParentsOf(p, f) : p \in ancestors})]

(* Mutant: an event whose products were cloned is not entered in the index. *)
WriteOne_ClonedNotIndexed(o, id, f) ==
  [FillBranches(o, id, f) EXCEPT
     !.index = IF o.wasFastCloned THEN @ ELSE @ \cup {[id |-> id, row |-> o.events + 1]},
     !.events = @ + 1]

(* writeOne() *)
WriteOne(o, id, f) ==
  [FillBranches(o, id, f) EXCEPT !.index = @ \cup {[id |-> id, row |-> o.events + 1]},
                                 !.events = @ + 1]

(* writeSubRun() and writeRun() *)
WithSubRun(o, id) == [o EXCEPT !.index = @ \cup {[id |-> id, row |-> o.subRuns + 1]},
                               !.subRuns = @ + 1]
WithRun(o, id)    == [o EXCEPT !.index = @ \cup {[id |-> id, row |-> o.runs + 1]},
                               !.runs = @ + 1]

-----------------------------------------------------------------------------
(***************************************************************************)
(* RootOutput and the event loop                                           *)
(***************************************************************************)

(* Files opened are counted from recordFileOpen() on; the statistics last  *)
(* until the next, since the name of a closed file is made from them.      *)
RecordEvent(s, id) ==
  [s EXCEPT !.events = @ + 1,
            !.lowest  = IF s.events = 0 \/ Before(id, @) THEN id ELSE @,
            !.highest = IF s.events = 0 \/ Before(@, id) THEN id ELSE @]

(* recordOutputClosureRequests(boundary): an open file may have come to    *)
(* its maximum, which is looked at from the granularity asked for on.      *)
ClosureRequests(boundary) ==
  IF out.open /\ Rank(job.granularity) <= Rank(boundary) THEN BOOLEAN ELSE {FALSE}

(* Mutant: input files that are opened are not counted. *)
OpenInput_NotCounted ==
  /\ phase = "NextFile" /\ input < Len(job.inputs)
  /\ input' = input + 1 /\ at' = 0
  /\ out' = IF out.open THEN BeginInputFile(out, input + 1) ELSE out
  /\ fstats' = IF out.open THEN [fstats EXCEPT !.parents = @ \cup {input + 1}] ELSE fstats
  /\ results' = [results EXCEPT !.inputs = @ \cup {input + 1}]
  /\ phase' = "Items"
  /\ UNCHANGED <<job, owed, run, subRun, inFlight, closing, inputFileCount, closed>>

(* respondToOpenInputFile(), and readResults() for the results producers *)
OpenInput ==
  /\ phase = "NextFile" /\ input < Len(job.inputs)
  /\ input' = input + 1 /\ at' = 0
  /\ inputFileCount' = inputFileCount + 1
  /\ out' = IF out.open THEN BeginInputFile(out, input + 1) ELSE out
  /\ fstats' = IF out.open THEN [fstats EXCEPT !.parents = @ \cup {input + 1}] ELSE fstats
  /\ results' = [results EXCEPT !.inputs = @ \cup {input + 1}]
  /\ phase' = "Items"
  /\ UNCHANGED <<job, owed, run, subRun, inFlight, closing, closed>>

(* openFile(), before the next item is processed: doOpenFile() and again   *)
(* respondToOpenInputFile().                                               *)
OpenOutput ==
  /\ phase = "Items" /\ ~ out.open /\ nextIs # "End"
  /\ inputFileCount # 0
  /\ inputFileCount' = inputFileCount + 1
  /\ out' = BeginInputFile(NewOutputFile, input)
  /\ fstats' = [NoStats EXCEPT !.parents = {input}]
  /\ UNCHANGED <<job, loop, results, closed>>

Ready == phase = "Items" /\ out.open /\ ~ closing

BeginRun ==
  /\ Ready /\ nextIs = "Run" /\ owed = {}
  /\ at' = at + 1 /\ run' = next /\ owed' = {"Run"}
  /\ UNCHANGED <<job, input, phase, subRun, inFlight, closing, inputFileCount, out, fstats, results,
                 closed>>

BeginSubRun ==
  /\ Ready /\ nextIs = "SubRun" /\ "SubRun" \notin owed
  /\ at' = at + 1 /\ subRun' = next /\ owed' = {"Run", "SubRun"}
  /\ UNCHANGED <<job, input, phase, run, inFlight, closing, inputFileCount, out, fstats, results,
                 closed>>

(* An event is read, and if it is selected shown to the results producers, *)
(* event().  That is some time before it is written; in between no file is *)
(* closed, so that when it is makes no difference to them.                 *)
BeginEvent ==
  /\ Ready /\ nextIs = "Event" /\ Cardinality(inFlight) < job.nschedules
  /\ at' = at + 1 /\ inFlight' = inFlight \cup {next} /\ owed' = {"Run", "SubRun"}
  /\ results' = [results EXCEPT !.events = @ \cup ({next} \cap job.selected)]
  /\ UNCHANGED <<job, input, phase, run, subRun, closing, inputFileCount, out, fstats, closed>>

(* write() *)
WriteEvent ==
  /\ \E id \in inFlight :
       /\ inFlight' = inFlight \ {id}
       /\ IF job.dropAllEvents \/ id \notin job.selected THEN UNCHANGED <<out, fstats>>
          ELSE out' = WriteOne(out, id, file) /\ fstats' = RecordEvent(fstats, id)
  /\ \E request \in ClosureRequests("Event") : closing' = (closing \/ request)
  /\ UNCHANGED <<job, input, at, phase, owed, run, subRun, inputFileCount, results, closed>>

(* A subrun is written when it is over or the file is to be closed.        *)
Over(levels) == inFlight = {} /\ (closing \/ nextIs \in levels)

(* setSubRunAuxiliaryRangeSetID() and writeSubRun() *)
WriteSubRun ==
  /\ phase = "Items" /\ "SubRun" \in owed /\ Over({"SubRun", "Run", "End"})
  /\ IF job.dropAllSubRuns THEN UNCHANGED <<out, fstats>>
     ELSE out' = WithSubRun(out, subRun) /\ fstats' = [fstats EXCEPT !.subRuns = @ \cup {subRun}]
  /\ owed' = owed \ {"SubRun"}
  /\ \E request \in ClosureRequests("SubRun") : closing' = (closing \/ request)
  /\ UNCHANGED <<job, input, at, phase, run, subRun, inFlight, inputFileCount, results, closed>>

(* Mutant: the run is not entered in the index. *)
WriteRun_NoEntry ==
  /\ phase = "Items" /\ owed = {"Run"} /\ Over({"Run", "End"})
  /\ owed' = {}
  /\ \E request \in ClosureRequests("Run") : closing' = (closing \/ request)
  /\ UNCHANGED <<job, input, at, phase, run, subRun, inFlight, inputFileCount, out, fstats, results,
                 closed>>

(* setRunAuxiliaryRangeSetID() and writeRun() *)
WriteRun ==
  /\ phase = "Items" /\ owed = {"Run"} /\ Over({"Run", "End"})
  /\ out' = WithRun(out, run)
  /\ owed' = {}
  /\ \E request \in ClosureRequests("Run") : closing' = (closing \/ request)
  /\ UNCHANGED <<job, input, at, phase, run, subRun, inFlight, inputFileCount, fstats, results, closed>>

(* startEndFile(), with the results, and writeFileCatalogMetadata()        *)
EndFile(o) == [o EXCEPT !.results = results, !.metadata = fstats]

(* closeSomeOutputFiles(), and closeAllOutputFiles() at the end of the job:*)
(* what the file has goes to disk, unless its branches do not fit, and the *)
(* results producers are cleared.                                          *)
CloseOutput ==
  /\ out.open /\ owed = {} /\ inFlight = {}
  /\ closing \/ (phase = "NextFile" /\ input = Len(job.inputs))
  /\ IF Aligned(out)
       THEN /\ closed' = Append(closed, SetEntries(EndFile(out)))
            /\ out' = NoOutput /\ closing' = FALSE /\ results' = NoResults
            /\ UNCHANGED phase
       ELSE phase' = "Failed" /\ UNCHANGED <<closed, out, closing, results>>
  /\ UNCHANGED <<job, input, at, owed, run, subRun, inFlight, inputFileCount, fstats>>

(* closeInputFile(): incrementInputFileNumber(), the last chance to switch *)
(* files before the next input, ...                                        *)
EndInput ==
  /\ phase = "Items" /\ nextIs = "End" /\ owed = {} /\ inFlight = {} /\ ~ closing
  /\ \E request \in ClosureRequests("InputFile") : closing' = request
  /\ phase' = "EndOfInput"
  /\ UNCHANGED <<job, input, at, owed, run, subRun, inFlight, inputFileCount, out, fstats, results, closed>>

(* ... and respondToCloseInputFile(). *)
CloseInput ==
  /\ phase = "EndOfInput" /\ ~ closing
  /\ IF out.open /\ ~ Aligned(out)
       THEN phase' = "Failed" /\ UNCHANGED out
       ELSE /\ phase' = "NextFile"
            /\ out' = IF out.open THEN SetEntries(out) ELSE out
  /\ UNCHANGED <<job, input, at, owed, run, subRun, inFlight, closing, inputFileCount, fstats, results,
                 closed>>

EndJob ==
  /\ phase = "NextFile" /\ input = Len(job.inputs) /\ ~ out.open
  /\ phase' = "Done"
  /\ UNCHANGED <<job, input, at, owed, run, subRun, inFlight, closing, inputFileCount, out, fstats,
                 results, closed>>

Init ==
  /\ job \in Jobs
  /\ input = 0 /\ at = 0 /\ phase = "NextFile"
  /\ owed = {} /\ run = NoID /\ subRun = NoID
  /\ inFlight = {} /\ closing = FALSE
  /\ inputFileCount = 0 /\ out = NoOutput /\ closed = <<>>
  /\ fstats = NoStats /\ results = NoResults

Next ==
  \/ OpenInput \/ OpenOutput
  \/ BeginRun \/ BeginSubRun \/ BeginEvent
  \/ WriteEvent \/ WriteSubRun \/ WriteRun
  \/ CloseOutput \/ EndInput \/ CloseInput \/ EndJob

Spec     == Init /\ [][Next]_vars
FairSpec == Spec /\ WF_vars(Next)

-----------------------------------------------------------------------------
(***************************************************************************)
(* Properties                                                              *)
(***************************************************************************)
AllProducts == Products \cup Produced \cup Unsaved
Results     == [events : SUBSET ID, inputs : SUBSET Nat]
Stats       == [parents : SUBSET Nat, events : Nat, lowest : ID, highest : ID, subRuns : SUBSET ID]

Entry  == [id : ID, row : Nat \ {0}]
Source == [input : Nat, cloned : BOOLEAN]
IsOutput(o) ==
  /\ o.open /\ DOMAIN o.column = o.readBranches \cup o.producedBranches
  /\ o.uncloned \subseteq o.readBranches /\ o.readBranches \cap o.producedBranches = {}
  /\ \A b \in DOMAIN o.column : o.column[b] \in Seq(ID \cup {Dummy})
  /\ o.readBranches \subseteq Branches /\ o.producedBranches \subseteq Produced
  /\ o.descriptions \subseteq AllProducts /\ o.results \in Results /\ o.metadata \in Stats
  /\ \A k \in DOMAIN o.provenance :
       /\ o.provenance[k].id \in ID /\ DOMAIN o.provenance[k].kept \subseteq AllProducts
       /\ \A p \in DOMAIN o.provenance[k].kept : o.provenance[k].kept[p] \in {"present", "dropped"}
  /\ o.index \in SUBSET Entry /\ o.sources \in Seq(Source)
  /\ o.wasFastCloned \in BOOLEAN
  /\ o.treeEntries \in Nat /\ o.events \in Nat /\ o.subRuns \in Nat /\ o.runs \in Nat
  /\ o.nEntries = Len(o.provenance)

TypeOK ==
  /\ job \in Jobs
  /\ input \in 0..Len(job.inputs) /\ (input # 0 => at \in 0..Len(file.entries))
  /\ phase \in {"NextFile", "Items", "EndOfInput", "Done", "Failed"}
  /\ owed \in SUBSET {"Run", "SubRun"} /\ run \in ID /\ subRun \in ID
  /\ inFlight \in SUBSET ID /\ Cardinality(inFlight) <= job.nschedules
  /\ closing \in BOOLEAN /\ (owed # {} \/ closing => out.open)
  /\ inputFileCount \in Nat /\ inputFileCount >= input
  /\ out = NoOutput \/ IsOutput(out)
  /\ fstats \in Stats /\ results \in Results
  /\ \A k \in DOMAIN closed : IsOutput(closed[k])

EventEntries(o) == {e \in o.index : EntryType(e.id) = "Event"}

(* Where nothing is dropped, the provenance of an event tells of each      *)
(* product that is stored with it, and of each product of this process it  *)
(* was made from, and the file describes every product it tells of.        *)
ProvenanceRight(o, e) ==
  LET kept == o.provenance[e.row].kept IN
  job.dropMetaData = "NONE" /\ ~ job.dropForDropped =>
    /\ \A b \in DOMAIN o.column \ {"EventAuxiliary"} :
         o.column[b][e.row] # Dummy => b \in DOMAIN kept /\ kept[b] = "present"
    /\ \A p \in DOMAIN kept \cap OfThisProcess :
         Parents[p] \cap OfThisProcess \subseteq DOMAIN kept
    /\ DOMAIN kept \subseteq o.descriptions

(* With dropDescendants, no product goes back to one dropped on input.     *)
WithoutDroppedParent(b, f) ==
  job.dropDescendants =>
    \E descendants \in SUBSET Products :
      /\ f.described \cap job.rejected \subseteq descendants
      /\ \A c \in f.children : c[1] \in descendants => c[2] \in descendants
      /\ b \notin descendants

(* The index is right about an event: its entry of every column belongs to *)
(* it and holds the product wherever the event came with one.              *)
RowRight(o, e, f) ==
  /\ e.row \in DOMAIN o.provenance /\ o.provenance[e.row].id = e.id
  /\ \A b \in DOMAIN o.column : /\ e.row \in DOMAIN o.column[b]
                                /\ o.column[b][e.row] = Value(b, e.id, f)
                                /\ o.column[b][e.row] # Dummy => WithoutDroppedParent(b, f)
  /\ ProvenanceRight(o, e)

(* A cloned input is written whole, event by event, and in the same file   *)
(* no input that has events comes after it without being cloned.           *)
WrittenWhole(f) ==
  /\ ~ job.dropAllEvents
  /\ LET upTo(p) == {q \in Events(f.entries) : q <= p} IN
     /\ Len(f.tree) = Cardinality(Events(f.entries))
     /\ \A p \in Events(f.entries) : f.tree[Cardinality(upTo(p))] = f.entries[p]

ClonesOnly(o) ==
  \A k \in DOMAIN o.sources : o.sources[k].cloned =>
    /\ WrittenWhole(job.inputs[o.sources[k].input])
    /\ \A j \in (k + 1)..Len(o.sources) :
         o.sources[j].cloned \/ EventsOf(job.inputs[o.sources[j].input]) = {}

Outputs == {closed[k] : k \in DOMAIN closed} \cup (IF out.open THEN {out} ELSE {})

(* Whichever way the columns were filled, by cloning or event by event, in *)
(* one file or several, with branches that come and go with the inputs and *)
(* events of several schedules in any order: the index is right.           *)
IndexIsRight ==
  \A o \in Outputs : ClonesOnly(o) =>
    \A e \in EventEntries(o) : \E i \in DOMAIN job.inputs :
      e.id \in EventsOf(job.inputs[i]) /\ RowRight(o, e, job.inputs[i])

(* No event is in the inputs twice, which nothing but the duplicate check  *)
(* of an input looks for.                                                  *)
NoDuplicates ==
  \A i, j \in DOMAIN job.inputs :
    \A p \in Events(job.inputs[i].entries), q \in Events(job.inputs[j].entries) :
      job.inputs[i].entries[p] = job.inputs[j].entries[q] => i = j /\ p = q

(* At the end each event that was to be written is in the index of just    *)
(* one file, and none is that was not, however often files were switched;  *)
(* unless there were duplicates to begin with.  What results producers saw *)
(* is likewise in the results of one file, that of the event, and so is    *)
(* what they read from an input file, unless there is nothing else in it.  *)
EachEventWrittenOnce ==
  phase = "Done" /\ NoDuplicates =>
    /\ \A i \in DOMAIN job.inputs : \A id \in EventsOf(job.inputs[i]) :
         /\ Cardinality({w \in (DOMAIN closed) \X UNION {closed[k].index : k \in DOMAIN closed} :
                           w[2] \in closed[w[1]].index /\ w[2].id = id})
              = IF job.dropAllEvents \/ id \notin job.selected THEN 0 ELSE 1
         /\ id \in job.selected => \E k \in DOMAIN closed :
              /\ \A j \in DOMAIN closed : id \in closed[j].results.events <=> j = k
              /\ ~ job.dropAllEvents => \E e \in closed[k].index : e.id = id
    /\ \A i \in DOMAIN job.inputs : job.inputs[i].entries # <<>> => \E k \in DOMAIN closed :
         \A j \in DOMAIN closed : i \in closed[j].results.inputs <=> j = k

(* An event comes with its subrun and its run, a subrun with its run.      *)
IsNested(o) ==
  LET ids == {e.id : e \in o.index} IN
  \A id \in ids : /\ EntryType(id) # "Run" => RunOf(id) \in ids
                  /\ EntryType(id) = "Event" => SubRunOf(id) \in ids

(* The metadata agree with the index: the events counted, the first and    *)
(* the last of them in any order of writing, the subruns, and the inputs   *)
(* they came from.                                                         *)
IsAsInMetadata(o) ==
  LET events == {e.id : e \in EventEntries(o)} IN
  /\ o.metadata.events = Cardinality(EventEntries(o))
  /\ events # {} => /\ {o.metadata.lowest, o.metadata.highest} \subseteq events
                    /\ \A id \in events : ~ Before(id, o.metadata.lowest) /\ ~ Before(o.metadata.highest, id)
  /\ o.metadata.subRuns = {e.id : e \in {e \in o.index : EntryType(e.id) = "SubRun"}}
  /\ \A id \in events : \E i \in o.metadata.parents \cap DOMAIN job.inputs : id \in EventsOf(job.inputs[i])

(* count_events(), which counts the entries of the trees *)
CountEvents(o) == [runs |-> o.runs, subRuns |-> o.subRuns, events |-> o.treeEntries]

IsCounted(o) ==
  LET entries(type) == {e \in o.index : EntryType(e.id) = type} IN
  CountEvents(o) = [runs |-> Cardinality(entries("Run")), subRuns |-> Cardinality(entries("SubRun")),
                    events |-> Cardinality(entries("Event"))]

(* writeFileIndex() sorts the index.  From it the range set of each run is *)
(* found by searching, whole or compact.                                   *)
FileIndexOf(o) ==
  LET before(e) == {x \in o.index : Before(x.id, e.id) \/ (x.id = e.id /\ x.row < e.row)}
  IN  [p \in 1..Cardinality(o.index) |->
         (CHOOSE e \in o.index : Cardinality(before(e)) = p - 1).id]

HasRangeSets(o) ==
  LET ix == FileIndexOf(o)
      events(r) == {ix[p] : p \in {p \in Events(ix) : RunOf(ix[p]) = r}}
  IN  \A p \in DOMAIN ix : LET r == RunOf(ix[p]) IN
        /\ OfRun(ix, r, FALSE) = events(r)
        /\ events(r) \subseteq OfRun(ix, r, TRUE)
        /\ \A id \in OfRun(ix, r, TRUE) :
             \E a, b \in events(r) : SubRunOf(a) = SubRunOf(id) /\ ~ Before(id, a) /\ ~ Before(b, id)

(* A file that was closed, at whatever boundary, can be read by itself,    *)
(* and each account it gives of itself is right.                           *)
ClosedFilesAreComplete ==
  \A k \in DOMAIN closed : LET o == closed[k] IN
    /\ IsNested(o) /\ IsAsInMetadata(o) /\ HasRangeSets(o)
    /\ ClonesOnly(o) => IsCounted(o)

(* Branches that do not fit together, which end the job, come only from an *)
(* input that cannot be cloned after one that was, or from a cloned input  *)
(* whose events are not all written: above all never from switching files. *)
FailsOnlyWhenMixed == phase = "Failed" => ~ ClonesOnly(out)

(* Every job comes to its end. *)
JobEnds == <>(phase \in {"Done", "Failed"})

(* RootOutputTree.cc, of an input that cannot be cloned after all:         *)
(* "Processing will continue, tree will be slow cloned."                   *)
UnclonableTreeIsSlowCloned ==
  \A o \in Outputs : \A e \in EventEntries(o) : \A i \in DOMAIN job.inputs :
    ~ job.inputs[i].cloner /\ e.id \in EventsOf(job.inputs[i]) => RowRight(o, e, job.inputs[i])
=============================================================================
