--------------------------- MODULE MCSamplingInput ---------------------------
(***************************************************************************)
(* Small jobs for SamplingInput: two datasets of at most four events, with *)
(* fragments of runs and subruns, events that are not in the order of      *)
(* their entries, an event twice, a file without events and one without    *)
(* anything; weights, skipToEvent and limits that end the job early.       *)
(***************************************************************************)
EXTENDS SamplingInput

MCDatasets   == {"background", "signal"}
MCKeys       == {"hits", "tracks", "pot", "good", "hist"}
MCBranchType == [hits |-> "Event", tracks |-> "Event", pot |-> "Run", good |-> "SubRun", hist |-> "Results"]
MCChildren   == [hits |-> {"tracks", "good"}, tracks |-> {}, pot |-> {}, good |-> {}, hist |-> {}]

R(r)       == RunEntry(r)
S(r, s)    == SubRunEntry(r, s)
E(r, s, e) == EventEntry(r, s, e)

Product(rs, parts) == [ranges |-> rs, counted |-> SetToBag(parts), state |-> "product"]
Counts(parts) == Product(Part(parts), parts)
Dummy == Product(Invalid, {})
Whole == Product(FullRun, {"all"})

FileOf(ix, entry, pot, good) ==
  [opens |-> TRUE, oldFormat |-> FALSE, index |-> ix, entry |-> entry,
   tree |-> [n \in {entry[p] : p \in Events(ix)} |->
               ix[CHOOSE p \in Events(ix) : entry[p] = n]],
   registered |-> {"hits", "tracks", "pot", "good"}, branches |-> {"hits", "tracks", "pot", "good"},
   fragments  |-> [pot |-> pot, good |-> good]]

(* fragments of a run that repeat each other, events out of entry order *)
FileA == FileOf(<<R(1), R(1), R(1), S(1,1), S(1,1), E(1,1,1), E(1,1,2), E(1,1,3)>>,
                <<1, 2, 3, 1, 2, 2, 3, 1>>,
                <<Counts({1, 2}), Counts({1, 2}), Counts({3})>>,
                <<Dummy, Counts({1, 2, 3})>>)
(* two runs, two subruns, an event twice *)
FileB == FileOf(<<R(1), S(1,1), E(1,1,1), E(1,1,1), R(2), R(2), S(2,1), E(2,1,1), S(2,2), E(2,2,4)>>,
                <<1, 1, 1, 2, 2, 3, 2, 3, 3, 4>>,
                <<Counts({1}), Whole, Whole>>,
                <<Counts({1}), Counts({1}), Counts({4})>>)
(* one run that was opened and closed, with a subrun and no event *)
FileC == FileOf(<<R(3), S(3,1)>>, <<1, 1>>, <<Whole>>, <<Whole>>)
(* subruns of number 0 and 1, no event twice *)
FileF == FileOf(<<R(1), S(1,1), E(1,1,1), S(1,2), E(1,2,1), E(1,2,2)>>, <<1, 1, 1, 2, 2, 3>>,
                <<Counts({1, 2, 3})>>, <<Counts({1}), Counts({2, 3})>>)
(* nothing at all *)
FileD == FileOf(<<>>, <<>>, <<>>, <<>>)
(* ranges that overlap *)
FileE == FileOf(<<R(1), R(1), S(1,1), E(1,1,1)>>, <<1, 2, 1, 1>>,
                <<Counts({1}), Counts({1, 2})>>, <<Whole>>)
OldFile  == [FileC EXCEPT !.oldFormat = TRUE, !.index = <<R(3), R(3), S(3,1), E(3,1,7)>>,
                          !.entry = <<1, 2, 1, 1>>, !.tree = <<E(3,1,7)>>,
                          !.fragments.pot = <<Whole, Whole>>]
NoFile   == [FileA EXCEPT !.opens = FALSE]
Results  == [FileA EXCEPT !.registered = @ \cup {"hist"}, !.branches = @ \cup {"hist"}]
NoTracks == [FileA EXCEPT !.branches = @ \ {"tracks"}]

From(r, s, e) == [given |-> TRUE, run |-> r, subRun |-> s, event |-> e]
NoSkip == [given |-> FALSE, run |-> 0, subRun |-> 0, event |-> 0]

Pair(b, s) == [background |-> b, signal |-> s]

JobsOf(files, weights, skips, maxes, delayed, selected, drops) ==
  [file : files, weight : weights, skipToEvent : skips, nFiles : {Pair(1, 1)}, maxEvents : maxes,
   firstEvent : {5}, delayedRead : delayed, selected : selected, dropDescendants : drops,
   summary : {TRUE}]

Everything == {MCKeys}

MCJobs ==
  JobsOf({Pair(FileA, FileB)}, {Pair(1, 2)}, {Pair(NoSkip, NoSkip), Pair(From(1,1,2), From(2,1,1))},
         {3}, {TRUE}, {MCKeys \ {"tracks"}}, {TRUE})
  \cup
  JobsOf({Pair(FileA, FileB)}, {Pair(1, 2)}, {Pair(NoSkip, NoSkip), Pair(From(1,1,2), From(2,1,1))},
         {0, 4, 9}, {FALSE}, {MCKeys \ {"tracks"}}, {TRUE})
  \cup
  JobsOf({Pair(FileB, FileC), Pair(FileA, FileD), Pair(OldFile, FileB)}, {Pair(1, 1), Pair(1, 0)},
         {Pair(NoSkip, NoSkip)}, {3}, {TRUE}, {MCKeys \ {"hits"}}, BOOLEAN)
  \cup
  JobsOf({Pair(FileA, FileE), Pair(NoFile, FileA), Pair(Results, FileA), Pair(FileD, FileD),
          Pair(NoTracks, OldFile)},
         {Pair(1, 1)}, {Pair(NoSkip, NoSkip)}, {2}, {TRUE}, Everything, {TRUE})
  \cup
  JobsOf({Pair(FileA, FileC)}, {Pair(1, -1), Pair(0, 0)}, {Pair(NoSkip, NoSkip)}, {2}, {TRUE},
         Everything, {TRUE})
  \cup
  JobsOf({Pair(FileA, FileC)}, {Pair(1, 1)}, {Pair(From(1,0,1), NoSkip)}, {2}, {TRUE},
         Everything, {TRUE})
  \cup
  JobsOf({Pair(FileF, FileA)}, {Pair(1, 1)}, {Pair(NoSkip, NoSkip), Pair(From(1,1,1), NoSkip)},
         {2}, {TRUE}, {MCKeys \ {"tracks"}}, {TRUE})
  \cup
  {[j EXCEPT !.nFiles.signal = 2] :
     j \in JobsOf({Pair(FileA, FileC)}, {Pair(1, 1)}, {Pair(NoSkip, NoSkip)}, {1}, {TRUE}, Everything, {TRUE})}
  \cup
  {[j EXCEPT !.summary = FALSE] :
     j \in JobsOf({Pair(FileA, FileA)}, {Pair(1, 1)}, {Pair(NoSkip, NoSkip)}, {2}, {FALSE}, Everything, {TRUE})}
=============================================================================
