---------------------------- MODULE MCRandomAccess ----------------------------
(***************************************************************************)
(* Jobs that seek: files that share a run and a subrun, one with a run of  *)
(* its own, one without events, one that cannot be opened, one with events *)
(* before the first one wanted.                                            *)
(***************************************************************************)
EXTENDS RandomAccess

R(r) == RunEntry(r)
S(r, s) == SubRunEntry(r, s)
E(r, s, e) == EventEntry(r, s, e)

Good(ix) == [name |-> "primary", kind |-> "good", sorted |-> ix, byEntry |-> ix, real |-> FALSE, inOrder |-> TRUE]

FileA == Good(<<R(1), S(1,1), E(1,1,1), E(1,1,2)>>)
FileB == Good(<<R(1), S(1,1), E(1,1,3), S(1,2), E(1,2,1)>>)
FileC == Good(<<R(2), S(2,1), E(2,1,1)>>)
(* events 1 and 2 of one subrun, the first twice *)
FileD == Good(<<R(2), S(2,1), E(2,1,2), E(2,1,2)>>)
(* events on both sides of the first one wanted, in two subruns *)
FileE == Good(<<R(1), S(1,1), E(1,1,1), E(1,1,2), S(1,2), E(1,2,1), E(1,2,2)>>)
Empty == Good(<<R(1), S(1,1)>>)
Missing == [name |-> "primary", kind |-> "unopenable", sorted |-> <<>>, byEntry |-> <<>>, real |-> FALSE,
            inOrder |-> FALSE]

MCCatalogs ==
  {<<FileA, FileB>>, <<FileA, FileB, FileC>>, <<FileC, Empty, FileA>>, <<FileA, Missing, FileB>>,
   <<FileB, FileA, FileD>>, <<FileA, Empty, Missing>>, <<FileE>>}

MCOptions ==
  [first : {E(1,1,1), E(1,2,1)}, skip : {0, 1}, dup : {"noDuplicateCheck", "checkAllFilesOpened"},
   skipBad : BOOLEAN, mode : {"RunsSubRunsAndEvents"}, maxEvents : {-1, 4},
   noEventSort : {FALSE}, secondaryFileNames : {<<>>}]

MCOffsets == {-3, -1, 0, 2}
MCTargets == {E(1,1,1), E(1,1,3), E(2,1,1)}
=============================================================================
