----------------------------- MODULE MCRangeSets -----------------------------
(***************************************************************************)
(* Five events in two subruns, three processes.  The first files hold a    *)
(* histogram of their own events and a product that is valid for the run.  *)
(***************************************************************************)
EXTENDS RangeSets, TLC

CONSTANTS hist, geometry, made1, made2, made3

MCEvents     == 1..5
MCSubRunOf   == [e \in MCEvents |-> IF e <= 3 THEN 1 ELSE 2]
MCStored     == {hist, geometry}
MCProducedBy == <<made1, made2, made3>>

(* A file with one fragment for each of the sets of events *)
FileOf(ss) ==
  LET upTo[n \in 0..Len(ss)] ==
        IF n = 0 THEN NoFile
        ELSE LET f      == upTo[n - 1]
                 aux    == StoreRangeSet(f.db, ss[n])
                 stored == StoreRangeSets(aux, <<Part(ss[n]), FullRun>>)
             IN  [db        |-> stored.db,
                  events    |-> f.events \cup ss[n],
                  fragments |->
                    Append(f.fragments,
                      [aux        |-> aux.runRangeSets,
                       product    |-> (hist     :> [id |-> stored.ids[1], counted |-> SetToBag(ss[n])])
                                   @@ (geometry :> [id |-> stored.ids[2], counted |-> SetToBag({0})]),
                       provenance |-> [pid \in MCStored |-> "present"]])]
  IN  upTo[Len(ss)]

(* one file after the other; in between one another; two fragments in one; *)
(* one subrun in each                                                      *)
InOrder     == <<FileOf(<<{1}>>), FileOf(<<{2, 3}>>), FileOf(<<{4}>>)>>
InBetween   == <<FileOf(<<{1, 3}>>), FileOf(<<{2, 4}>>)>>
TwoInOne    == <<FileOf(<<{2}, {1, 3}>>), FileOf(<<{4, 5}>>)>>
BySubRun    == <<FileOf(<<{1, 3}>>), FileOf(<<{4, 5}>>)>>

(* ProductIDs: those of the first files before and after the others *)
Before == (hist :> 1) @@ (geometry :> 2) @@ (made1 :> 3) @@ (made2 :> 4) @@ (made3 :> 5)
After  == (hist :> 5) @@ (geometry :> 4) @@ (made1 :> 3) @@ (made2 :> 2) @@ (made3 :> 1)

SetupOf(fs, compact, drop, puts, pids) ==
  [files |-> fs, compact |-> compact, drop |-> drop, puts |-> puts, pids |-> pids]

MCSetups ==
  {SetupOf(fs, FALSE, "NONE", puts, After) : fs \in {InOrder, InBetween, TwoInOne}, puts \in BOOLEAN}
  \cup {SetupOf(fs, TRUE, "NONE", TRUE, Before) : fs \in {BySubRun, InBetween}}
  \cup {SetupOf(InBetween, FALSE, drop, TRUE, pids) : drop \in {"PRIOR", "ALL"}, pids \in {Before, After}}

(* with the provenance of earlier processes dropped *)
PriorSetups == {SetupOf(InOrder, FALSE, "PRIOR", TRUE, After)}
=============================================================================
