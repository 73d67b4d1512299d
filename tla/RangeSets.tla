------------------------------ MODULE RangeSets ------------------------------
(***************************************************************************)
(* Run products that cover part of a run, through a chain of processes     *)
(* that each read files and write files, switching output at any event.    *)
(*                                                                         *)
(* A file may hold several fragments of one run.  Reading combines their   *)
(* products (RootDelayedReader), and the range sets stored with them in    *)
(* SQLite say which may be combined; writing (RootOutputFile) sees to it   *)
(* that a product read once and written to several files counts in one of  *)
(* them.  Here one run is followed; subruns go through the same code.      *)
(*                                                                         *)
(* In memory a range set is the set of the events it covers; on file it is *)
(* the number of a row in SQLite tables that belong to the file and hold   *)
(* the ranges of all its range sets.  What a product counted is a bag of   *)
(* events, so counting twice can be seen.  No product has produced         *)
(* parents, and files are of a format that has range sets.                 *)
(***************************************************************************)
EXTENDS RangeSet, Integers, Sequences, FiniteSets, SequencesExt

CONSTANTS
  Events,        \* event numbers, in the order of the run
  SubRunOf,      \* the subrun of each of them
  Stored,        \* run products of the first files
  ProducedBy,    \* the run product that each process makes
  Setups,        \* first files and configurations
  MaxFiles       \* output files of a process

ASSUME ConstantsAssumption ==
  /\ Events \subseteq Nat \ {0}
  /\ SubRunOf \in [Events -> Nat]
  /\ MaxFiles \in Nat \ {0}
  /\ \A i \in DOMAIN ProducedBy : ProducedBy[i] \notin Stored

VARIABLES
  setup,      \* [files, compact, drop, puts, pids], fixed
  process,    \* number of the process that runs
  files,      \* the files it reads
  at,         \* the file being read
  run,        \* the run principal, or NoRun
  outFile,    \* the output file that is open
  outputs,    \* the output files closed
  status      \* "ok", or how the process ended

vars == <<setup, process, files, at, run, outFile, outputs, status>>

Processes == DOMAIN ProducedBy
Produced  == ProducedBy[process]
Known     == Stored \cup {ProducedBy[p] : p \in 1..process}
NoRun     == [fragments |-> <<>>]

-----------------------------------------------------------------------------
(***************************************************************************)
(* The tables of one output file: EventRanges, RunRangeSets, and           *)
(* RunRangeSets_EventRanges, which joins them.  The number of a row is its *)
(* ROWID.                                                                  *)
(***************************************************************************)
NoTables == [eventRanges |-> <<>>, runRangeSets |-> 0, join |-> {}]
NoFile   == [fragments |-> <<>>, events |-> {}, db |-> NoTables]

(* The rangeSetID of a product whose range set is not in the tables. *)
NoID == 0

(* The events b, ..., e of one subrun, one range of a collapsed range set. *)
IsRange(s, b, e) ==
  LET in(n) == n \in s /\ SubRunOf[n] = SubRunOf[b] IN
  /\ b <= e /\ \A n \in b..e : in(n)
  /\ ~ in(b - 1) /\ ~ in(e + 1)

EventRanges(s) ==
  {[subRun |-> SubRunOf[p[1]], begin |-> p[1], end |-> p[2] + 1] :
     p \in {p \in s \X s : IsRange(s, p[1], p[2])}}

(* Mutant: a range that other range sets have already gets another row. *)
InsertIntoEventRanges_NotUnique(rows, s) ==
  rows \o SetToSortSeq(EventRanges(s), LAMBDA a, b : a.begin < b.begin)

(* "UNIQUE (SubRun,begin,end) ON CONFLICT IGNORE" *)
InsertIntoEventRanges(rows, s) ==
  rows \o SetToSortSeq(EventRanges(s) \ Range(rows), LAMBDA a, b : a.begin < b.begin)

GetExistingRangeSetIDs(rows, s) == {i \in DOMAIN rows : rows[i] \in EventRanges(s)}

(* A new range set, whose ranges may be those of others. *)
StoreRangeSet(db, s) ==
  LET rsID == db.runRangeSets + 1
      rows == InsertIntoEventRanges(db.eventRanges, s)
  IN  [eventRanges |-> rows, runRangeSets |-> rsID,
       join |-> db.join \cup ({rsID} \X GetExistingRangeSetIDs(rows, s))]

(* setProductRangeSetID() for the products of one fragment: products with  *)
(* the same range set, by its checksum, share its number.                  *)
StoreRangeSets(db, rangeSets) ==
  LET upTo[n \in 0..Len(rangeSets)] ==
        IF n = 0 THEN [db |-> db, ids |-> <<>>, checksumToIndex |-> {}]
        ELSE LET m    == upTo[n - 1]
                 rs   == rangeSets[n]
                 same == {entry \in m.checksumToIndex : entry[1] = rs}
                 rsID == m.db.runRangeSets + 1
             IN  CASE ~ IsValid(rs) -> [m EXCEPT !.ids = Append(@, NoID)]
                   [] IsValid(rs) /\ same # {} ->
                        [m EXCEPT !.ids = Append(@, (CHOOSE entry \in same : TRUE)[2])]
                   [] OTHER ->
                        [db  |-> StoreRangeSet(m.db, rs.events), ids |-> Append(m.ids, rsID),
                         checksumToIndex |-> m.checksumToIndex \cup {<<rs, rsID>>}]
  IN  upTo[Len(rangeSets)]

(* The events in the ranges joined to a range set *)
EventsOf(db, rsID) ==
  {e \in Events : \E i \in DOMAIN db.eventRanges :
     LET range == db.eventRanges[i] IN
     <<rsID, i>> \in db.join /\ range.subRun = SubRunOf[e] /\ range.begin <= e /\ e < range.end}

-----------------------------------------------------------------------------
(* Products with what they counted *)
Dummy == [ranges |-> Invalid, counted |-> EmptyBag]

(* min(begin) and max(end) of each subrun *)
Hull(s) ==
  {e \in Events : \E a, b \in s : /\ SubRunOf[a] = SubRunOf[e] /\ SubRunOf[b] = SubRunOf[e]
                                  /\ a <= e /\ e <= b}

(* resolveRangeSet(): what the tables say of a range set, with one range   *)
(* for each subrun where compactEventRanges is set.  A range set without   *)
(* ranges is that of the whole run.                                        *)
Compacted(s) == IF setup.compact THEN Hull(s) ELSE s

Resolve(db, rsID) ==
  CASE rsID = NoID -> Invalid
    [] rsID # NoID /\ EventsOf(db, rsID) = {} -> FullRun
    [] OTHER -> Part(Compacted(EventsOf(db, rsID)))

(* The fragments of a file as they are read from it *)
Resolved(f) ==
  [n \in DOMAIN f.fragments |->
     LET fragment == f.fragments[n] IN
     [aux        |-> Compacted(EventsOf(f.db, fragment.aux)),
      product    |-> [pid \in DOMAIN fragment.product |->
                        [ranges  |-> Resolve(f.db, fragment.product[pid].id),
                         counted |-> fragment.product[pid].counted]],
      provenance |-> fragment.provenance]]

-----------------------------------------------------------------------------
(***************************************************************************)
(* Reading the fragments of a run                                          *)
(***************************************************************************)

(* getAuxiliary(): the ranges of all fragments.  Compact ranges that are   *)
(* not disjoint are refused.                                               *)
GetAuxiliary(fragments) ==
  LET aux(n) == fragments[n].aux
      upTo[n \in 1..Len(fragments)] ==
        IF n = 1 THEN [ranges |-> aux(1), ok |-> TRUE]
        ELSE [ranges |-> Compacted(upTo[n - 1].ranges \cup aux(n)),
              ok |-> upTo[n - 1].ok
                     /\ (setup.compact => upTo[n - 1].ranges \cap aux(n) = {})]
  IN upTo[Len(fragments)]

(* isAvailableAfterCombine_() *)
IsAvailableAfterCombine(fragments, pid) ==
  \E n \in DOMAIN fragments : fragments[n].provenance[pid] = "present"

(* Mutant: products with the same range set are added up. *)
Combine_Same(a, b) ==
  CASE ~ IsValid(b.ranges) -> a
    [] IsValid(b.ranges) /\ ~ IsValid(a.ranges) -> b
    [] OTHER -> [ranges  |-> [a.ranges EXCEPT !.events = @ \cup b.ranges.events],
                 counted |-> a.counted (+) b.counted]

(* Mutant: an invalid range set first in the file is the result. *)
Combine_First(a, b) ==
  CASE ~ IsValid(b.ranges) \/ ~ IsValid(a.ranges) -> a
    [] DisjointRanges(a.ranges, b.ranges) ->
         [ranges  |-> Part(a.ranges.events \cup b.ranges.events),
          counted |-> a.counted (+) b.counted]
    [] OTHER -> a

(* One turn of the loop in getProduct_() *)
Combine(a, b) ==
  CASE ~ IsValid(b.ranges) -> a
    [] IsValid(b.ranges) /\ ~ IsValid(a.ranges) -> b
    [] DisjointRanges(a.ranges, b.ranges) ->
         [ranges  |-> Part(a.ranges.events \cup b.ranges.events),
          counted |-> a.counted (+) b.counted]
    [] OTHER -> a

CannotBeAggregated(a, b) == OverlappingRanges(a.ranges, b.ranges)

(* getProduct_(), with the provenance it leaves in the principal: that of  *)
(* the first fragment, or of the first one whose range set is valid        *)
GetProduct(fragments, pid) ==
  LET product(n) == fragments[n].product[pid]
      upTo[n \in 1..Len(fragments)] ==
        IF n = 1
        THEN [product |-> product(1), provenance |-> fragments[1].provenance[pid], ok |-> TRUE]
        ELSE LET m == upTo[n - 1]
                 replaced == ~ IsValid(m.product.ranges) /\ IsValid(product(n).ranges)
             IN [product    |-> Combine(m.product, product(n)),
                 provenance |-> IF replaced THEN fragments[n].provenance[pid] ELSE m.provenance,
                 ok |-> m.ok /\ ~ CannotBeAggregated(m.product, product(n))]
  IN upTo[Len(fragments)]

-----------------------------------------------------------------------------
(***************************************************************************)
(* Writing a fragment                                                      *)
(***************************************************************************)

(* What the principal has for the output module.                           *)
OutputHandle(pid) ==
  IF pid = Produced THEN run.put
  ELSE IF IsAvailableAfterCombine(run.fragments, pid) THEN GetProduct(run.fragments, pid)
  ELSE [product |-> Dummy, provenance |-> run.fragments[1].provenance[pid], ok |-> TRUE]

NotPut == [product |-> Dummy, provenance |-> "none", ok |-> TRUE]

(* Mutant: every file gets the whole product. *)
MaybeInvalidateRangeSet_Never(seen, ranges) == ranges

(* Mutant: a product is kept where any of its ranges was seen. *)
MaybeInvalidateRangeSet_Any(seen, ranges) ==
  IF ranges.kind = "Part" /\ ranges.events # {} /\ ranges.events \cap seen = {}
  THEN Invalid ELSE ranges

(* maybeInvalidateRangeSet(): a product is kept in the file that has seen  *)
(* the event its range set begins with.                                    *)
MaybeInvalidateRangeSet(seen, ranges) ==
  IF ranges.kind = "Part" /\ ranges.events # {} /\ Min(ranges.events) \notin seen
  THEN Invalid ELSE ranges

GetRangeSet(pid, seen) ==
  IF pid = Produced THEN OutputHandle(pid).product.ranges
  ELSE MaybeInvalidateRangeSet(seen, OutputHandle(pid).product.ranges)

KeepProvenance(pid) == setup.drop = "NONE" \/ (setup.drop = "PRIOR" /\ pid = Produced)

(* The product whose record in keptprv the iterator prov refers to: its    *)
(* own, or where none is kept keptprv.begin(), the first one inserted so   *)
(* far in the order of ProductIDs.                                         *)
ProvOf(pid) ==
  LET before == {k \in Known : KeepProvenance(k) /\ setup.pids[k] < setup.pids[pid]}
  IN IF KeepProvenance(pid) THEN {pid}
     ELSE {k \in before : \A other \in before : setup.pids[k] <= setup.pids[other]}

InvalidProducts(seen) == {pid \in Known : ~ IsValid(GetRangeSet(pid, seen))}

KeptStatus(pid) ==
  CASE OutputHandle(pid).provenance # "none" -> OutputHandle(pid).provenance
    [] OutputHandle(pid).provenance = "none" /\ pid = Produced -> "neverCreated"
    [] OTHER -> "dropped"

(* Mutant: the record of an invalidated product keeps its status. *)
Provenance_Kept(seen) ==
  [pid \in Known |-> IF KeepProvenance(pid) THEN KeptStatus(pid) ELSE "none"]

Provenance(seen) ==
  [pid \in Known |->
     IF ~ KeepProvenance(pid) THEN "none"
     ELSE IF \E other \in InvalidProducts(seen) : pid \in ProvOf(other)
     THEN "dummyToPreventDoubleCount" ELSE KeptStatus(pid)]

(* What goes into the branch of a product: a dummy if its range set is     *)
(* invalid.                                                                *)
CountedOf(pid, seen) ==
  IF IsValid(GetRangeSet(pid, seen)) THEN OutputHandle(pid).product.counted ELSE EmptyBag

Branches == SetToSortSeq(Known, LAMBDA a, b : setup.pids[a] < setup.pids[b])

(* How writing a fragment ends: in an exception where products cannot be   *)
(* aggregated, and with *prov not defined where keptprv is empty.          *)
WriteStatus(seen) ==
  CASE \E pid \in Known : ~ OutputHandle(pid).ok -> "ProductCannotBeAggregated"
    [] (\A pid \in Known : OutputHandle(pid).ok)
       /\ (\E pid \in InvalidProducts(seen) : ProvOf(pid) = {}) -> "Undefined"
    [] OTHER -> "ok"

(* The auxiliary's range set, and then fillBranches() *)
Written(seen) ==
  LET aux    == StoreRangeSet(outFile.db, seen)
      stored == StoreRangeSets(aux, [n \in DOMAIN Branches |-> GetRangeSet(Branches[n], seen)])
      id(pid) == stored.ids[CHOOSE n \in DOMAIN Branches : Branches[n] = pid]
  IN  [outFile EXCEPT
         !.db = stored.db,
         !.fragments = Append(@, [aux        |-> aux.runRangeSets,
                                  product    |-> [pid \in Known |->
                                                    [id |-> id(pid), counted |-> CountedOf(pid, seen)]],
                                  provenance |-> Provenance(seen)])]

-----------------------------------------------------------------------------
(* What ClosedRangeSetHandler makes of the ranges of the principal: those  *)
(* up to the last event read, without those written already.               *)
SeenRanges == {e \in run.ranges : e <= run.last}

(* readRun() *)
BeginRun ==
  /\ status = "ok" /\ run = NoRun /\ at < Len(files)
  /\ LET f == files[at + 1]
         fragments == Resolved(f)
         aux == GetAuxiliary(fragments) IN
     /\ at' = at + 1
     /\ \/ /\ aux.ok /\ UNCHANGED status
           /\ run' = [fragments |-> fragments, ranges |-> aux.ranges, left |-> f.events,
                      last |-> 0, since |-> {}, put |-> NotPut, ended |-> FALSE]
        \/ /\ ~ aux.ok /\ status' = "LogicError" /\ UNCHANGED run
  /\ UNCHANGED <<setup, process, files, outFile, outputs>>

(* An event is read and written. *)
NextEvent ==
  /\ status = "ok" /\ run # NoRun /\ run.left # {}
  /\ LET e == Min(run.left) IN
     /\ run' = [run EXCEPT !.left = @ \ {e}, !.last = e, !.since = @ \cup {e}]
     /\ outFile' = [outFile EXCEPT !.events = @ \cup {e}]
  /\ UNCHANGED <<setup, process, files, at, outputs, status>>

(* The output file is closed within a run: the run is written with what    *)
(* was seen of it, and the rest is left for the next file.                 *)
SwitchInRun ==
  /\ status = "ok" /\ run # NoRun /\ ~ run.ended /\ run.since # {}
  /\ Len(outputs) + 1 < MaxFiles
  /\ status' = WriteStatus(SeenRanges)
  /\ outputs' = Append(outputs, Written(SeenRanges))
  /\ outFile' = NoFile
  /\ run' = [run EXCEPT !.ranges = @ \ SeenRanges, !.since = {}]
  /\ UNCHANGED <<setup, process, files, at>>

(* endRun(): a module puts a product of its own with the ranges of the     *)
(* principal (art::runFragment()).                                         *)
PutAtEnd ==
  IF setup.puts /\ run.ranges # {}
  THEN [product |-> [ranges |-> Part(run.ranges), counted |-> SetToBag(run.since)],
        provenance |-> "present", ok |-> TRUE]
  ELSE NotPut

EndRun ==
  /\ status = "ok" /\ run # NoRun /\ run.left = {} /\ ~ run.ended
  /\ run' = [run EXCEPT !.put = PutAtEnd, !.ended = TRUE]
  /\ UNCHANGED <<setup, process, files, at, outFile, outputs, status>>

(* writeRun() with all that was seen since the file was opened *)
WriteRun ==
  /\ status = "ok" /\ run # NoRun /\ run.ended
  /\ outFile' = Written(run.ranges) /\ status' = WriteStatus(run.ranges)
  /\ run' = NoRun
  /\ UNCHANGED <<setup, process, files, at, outputs>>

(* The output file is closed between two input files. *)
SwitchBetweenFiles ==
  /\ status = "ok" /\ run = NoRun /\ outFile # NoFile
  /\ at < Len(files) /\ Len(outputs) + 1 < MaxFiles
  /\ outputs' = Append(outputs, outFile) /\ outFile' = NoFile
  /\ UNCHANGED <<setup, process, files, at, run, status>>

(* The next process reads what this one wrote, in any order. *)
AllOutputs == Append(outputs, outFile)
Orders(n)  == {p \in [1..n -> 1..n] : \A i, j \in 1..n : p[i] = p[j] => i = j}

NextProcess ==
  /\ status = "ok" /\ run = NoRun /\ at = Len(files)
  /\ process + 1 \in Processes
  /\ \E p \in Orders(Len(AllOutputs)) : files' = [i \in DOMAIN AllOutputs |-> AllOutputs[p[i]]]
  /\ process' = process + 1 /\ at' = 0 /\ outFile' = NoFile /\ outputs' = <<>>
  /\ UNCHANGED <<setup, run, status>>

Init ==
  /\ setup \in Setups
  /\ process = 1 /\ files = setup.files /\ at = 0
  /\ run = NoRun /\ outFile = NoFile /\ outputs = <<>> /\ status = "ok"

Next ==
  \/ BeginRun \/ NextEvent \/ SwitchInRun \/ EndRun \/ WriteRun
  \/ SwitchBetweenFiles \/ NextProcess

Spec == Init /\ [][Next]_vars

-----------------------------------------------------------------------------
(***************************************************************************)
(* Properties                                                              *)
(***************************************************************************)
AllFiles  == {files[i] : i \in DOMAIN files} \cup {outputs[i] : i \in DOMAIN outputs} \cup {outFile}

StatusesOf    == {"none", "present", "dropped", "neverCreated", "dummyToPreventDoubleCount"}
IsTable(db) ==
  /\ IsInjective(db.eventRanges)
  /\ db.join \subseteq (1..db.runRangeSets) \X DOMAIN db.eventRanges

(* The state has its type: each range has one row, and every fragment has  *)
(* a product and a provenance status for the same set of products.         *)
TypeOK ==
  /\ setup \in Setups /\ process \in Processes /\ at \in 0..Len(files)
  /\ status \in {"ok", "ProductCannotBeAggregated", "LogicError", "Undefined"}
  /\ \A f \in AllFiles :
       /\ IsTable(f.db)
       /\ \A n \in DOMAIN f.fragments :
            LET fragment == f.fragments[n] IN
            /\ fragment.aux \in 1..f.db.runRangeSets
            /\ DOMAIN fragment.product = DOMAIN fragment.provenance
            /\ \A pid \in DOMAIN fragment.product :
                 /\ fragment.product[pid].id \in 0..f.db.runRangeSets
                 /\ IsABag(fragment.product[pid].counted)
                 /\ fragment.provenance[pid] \in StatusesOf
  /\ run # NoRun => run.ranges \cup run.left \cup run.since \subseteq Events

(* What the documentation of compactEventRanges asks of its users *)
SubRunsDoNotSpanFiles ==
  \A i, j \in DOMAIN setup.files : i # j =>
    \A a \in setup.files[i].events, b \in setup.files[j].events : SubRunOf[a] # SubRunOf[b]

RangesAllowed == setup.compact => SubRunsDoNotSpanFiles

(* A product counted each event of its range set once, and no other: what  *)
(* getProduct_() adds up and the range set it computes for the sum agree,  *)
(* through any chain of splitting and combining.  Compact ranges may cover *)
(* more than was counted.                                                  *)
CountsWhatItCovers ==
  \A f \in AllFiles : \A n \in DOMAIN f.fragments : \A pid \in DOMAIN f.fragments[n].product :
    LET p == f.fragments[n].product[pid]
        covers == EventsOf(f.db, p.id)
        counted == BagToSet(p.counted) \cap Events
    IN
    /\ \A e \in BagToSet(p.counted) : CopiesIn(e, p.counted) = 1
    /\ counted # covers => setup.compact /\ counted \subseteq covers

(* A product is stored with the run fragment that saw its first event,     *)
(* which is how maybeInvalidateRangeSet() knows the one file to keep it in *)
(* when it is read and written again.                                      *)
StoredWithItsFirstEvent ==
  \A f \in AllFiles : \A n \in DOMAIN f.fragments : \A pid \in DOMAIN f.fragments[n].product :
    LET covers == EventsOf(f.db, f.fragments[n].product[pid].id) IN
    covers # {} => Min(covers) \in EventsOf(f.db, f.fragments[n].aux)

(* No order of files, switching or concatenation of what one chain wrote   *)
(* leads to range sets that overlap, which getProduct_() and the auxiliary *)
(* refuse, or to a status that cannot be recorded.                         *)
NeverRefused == RangesAllowed /\ setup.drop = "NONE" => status = "ok"

CountedIn(f, pid) ==
  IF f.fragments # <<>> /\ IsAvailableAfterCombine(f.fragments, pid)
  THEN GetProduct(Resolved(f), pid).product.counted ELSE EmptyBag

TimesCounted(e, fs, pid) ==
  LET upTo[n \in 0..Len(fs)] ==
        IF n = 0 THEN 0 ELSE upTo[n - 1] + CopiesIn(e, CountedIn(fs[n], pid))
  IN upTo[Len(fs)]

(* A process that reads a product and writes it to several files neither   *)
(* loses nor repeats any part of it: read together, its outputs count each *)
(* event as often as its inputs did.  (The example of the comment before   *)
(* getRangeSet(): A + B + C and not A + 2B + C.)                           *)
ConservedByAProcess ==
  [][process' # process /\ RangesAllowed /\ setup.drop = "NONE" =>
       \A pid \in Known \ {Produced} : \A e \in Events :
         TimesCounted(e, files', pid) = TimesCounted(e, files, pid)]_vars

(* isAvailableAfterCombine_() looks at the provenance only; where none is  *)
(* dropped it agrees with the range sets: reading is tried if and only if  *)
(* it results in a valid one.                                              *)
AvailableIfValid ==
  setup.drop = "NONE" =>
    \A f \in AllFiles : f.fragments # <<>> =>
      \A pid \in DOMAIN f.fragments[1].product :
        IsAvailableAfterCombine(f.fragments, pid)
          <=> \E n \in DOMAIN f.fragments : f.fragments[n].product[pid].id # NoID

(* fillBranches() changes the provenance "to dummyToPreventDoubleCount to  *)
(* flag this case", that the range set of the product got invalidated.     *)
FlagsItsOwnProduct ==
  \A f \in AllFiles : \A n \in DOMAIN f.fragments : \A pid \in DOMAIN f.fragments[n].provenance :
    f.fragments[n].provenance[pid] = "dummyToPreventDoubleCount"
      => f.fragments[n].product[pid].id = NoID
=============================================================================
