--------------------------- MODULE MCInputSequence ---------------------------
(***************************************************************************)
(* Small jobs for SecondaryFiles: two runs, two subruns, a handful of       *)
(* events; files that share events, that repeat one, that begin in the     *)
(* middle of a subrun, that hold no event or cannot be read.               *)
(***************************************************************************)
EXTENDS SecondaryFiles

R(r) == RunEntry(r)
S(r, s) == SubRunEntry(r, s)
E(r, s, e) == EventEntry(r, s, e)

FileOf(sorted, byEntry, real) ==
  [name |-> "primary", kind |-> "good", sorted |-> sorted, byEntry |-> byEntry, real |-> real, inOrder |-> TRUE]
Good(ix, real) == FileOf(ix, ix, real)

(* one subrun *)
FileA == Good(<<R(1), S(1,1), E(1,1,1), E(1,1,2), E(1,1,3)>>, TRUE)
(* goes on with the same subrun, repeats an event of A, two runs *)
FileB == Good(<<R(1), S(1,1), E(1,1,3), E(1,1,4), S(1,2), E(1,2,1), R(2), S(2,1), E(2,1,1)>>, FALSE)
(* repeats an event of its own, by entry not next to it *)
FileC == FileOf(<<R(1), S(1,1), E(1,1,1), E(1,1,2), E(1,1,2), E(1,1,3)>>,
               <<R(1), S(1,1), E(1,1,2), E(1,1,1), E(1,1,2), E(1,1,3)>>, TRUE)
(* repeats an event of its own, in two neighbouring entries *)
FileD == Good(<<R(1), S(1,1), E(1,1,1), E(1,1,1), E(1,1,2)>>, TRUE)
(* fragments of a run and a subrun, an empty subrun *)
FileE == Good(<<R(1), R(1), S(1,1), S(1,1), E(1,1,5), S(1,2), R(2), S(2,1), E(2,1,2)>>, TRUE)
(* events not in entry order *)
FileF == [FileE EXCEPT !.inOrder = FALSE]
(* no event at all *)
FileG == Good(<<R(1), S(1,1)>>, TRUE)
NoFile  == [name |-> "primary", kind |-> "unopenable", sorted |-> <<>>, byEntry |-> <<>>, real |-> FALSE, inOrder |-> FALSE]
BadFile == [name |-> "primary", kind |-> "corrupt", sorted |-> <<>>, byEntry |-> <<>>, real |-> FALSE, inOrder |-> FALSE]

(* raw1 and raw2 are attached to files whose events they share only partly *)
Raw1 == [Good(<<R(1), S(1,1), E(1,1,1), E(1,1,2)>>, TRUE)
         EXCEPT !.name = "raw1"]
Raw2 == [Good(<<R(1), S(1,1), S(1,2), E(1,2,1), R(2), S(2,1), E(2,1,1)>>, TRUE)
         EXCEPT !.name = "raw2"]

MCCatalogs ==
  {<<FileA, FileB>>, <<FileB, FileA, FileE>>, <<FileC, FileA>>, <<FileD, FileB>>,
   <<FileG, FileB, FileF>>, <<NoFile, FileA, NoFile, FileB>>, <<FileA, NoFile>>,
   <<FileA, BadFile, FileB>>, <<FileC, FileC>>,
   <<Raw1, Raw2>>}

SecondaryOf(ix, products) ==
  [kind |-> "good", sorted |-> ix, byEntry |-> ix, products |-> products]

MCStore ==
  [digits |-> SecondaryOf(<<R(1), S(1,1), E(1,1,2), S(1,2), E(1,2,1)>>, {"hits"}),
   tracks |-> SecondaryOf(<<R(1), S(1,1), E(1,1,1), E(1,1,2), R(2), S(2,1), E(2,1,1)>>,
                          {"hits", "tracks"}),
   twice  |-> SecondaryOf(<<R(1), S(1,1), E(1,1,1), E(1,1,1)>>, {"tracks"}),
   lost   |-> [kind |-> "unopenable", sorted |-> <<>>, byEntry |-> <<>>, products |-> {}]]

OptionsOf(firsts, skips, dups, bads, modes, maxes, noSorts) ==
  [first : firsts, skip : skips, dup : dups, skipBad : bads, mode : modes, maxEvents : maxes,
   noEventSort : noSorts, secondaryFileNames : {<<>>}]

MCLists ==
  {(* a list below a list, and one that is never looked at *)
   <<[a |-> "raw1", b |-> <<"digits", "twice">>], [a |-> "digits", b |-> <<"tracks">>],
     [a |-> "raw1", b |-> <<"lost">>]>>,
   <<[a |-> "raw2", b |-> <<"tracks", "digits">>], [a |-> "tracks", b |-> <<>>]>>,
   <<[a |-> "raw1", b |-> <<"digits", "twice">>], [a |-> "raw2", b |-> <<"digits", "lost">>]>>}

MCOptions ==
  OptionsOf({E(1,1,1), E(1,1,3), E(1,2,1), E(2,1,1)}, {0, 1, 4}, DupModes, {TRUE},
           {"RunsSubRunsAndEvents"}, {-1, 3}, {FALSE})
  \cup
  OptionsOf({E(1,1,1), E(2,1,1)}, {0, 4}, {"checkEachFile"}, {FALSE},
           {"RunsSubRunsAndEvents"}, {-1, 3}, {FALSE})
  \cup
  OptionsOf({E(1,1,1), E(1,2,1)}, {0, 1}, DupModes, {TRUE}, {"RunsSubRunsAndEvents"}, {-1, 4}, {TRUE})
  \cup
  OptionsOf({E(1,1,1), E(1,2,1), E(2,1,1)}, {1}, {"checkAllFilesOpened"}, {TRUE},
           {"Runs", "RunsAndSubRuns"}, {-1}, {FALSE})
  \cup
  {[o EXCEPT !.secondaryFileNames = lists] :
     o \in OptionsOf({E(1,1,1)}, {0, 1}, {"checkAllFilesOpened"}, {TRUE},
                     {"RunsSubRunsAndEvents"}, {-1}, {FALSE}),
     lists \in MCLists}

MCProducts == {"hits", "tracks"}
=============================================================================
