------------------------------ MODULE RangeSet ------------------------------
(***************************************************************************)
(* The range set of a run or subrun product: which events it covers.  The  *)
(* class is in another package (canvas); this is what RootDelayedReader    *)
(* and SamplingDelayedReader need of it.  Two parts are equal when they    *)
(* cover the same events, and an invalid range set is that of a dummy.     *)
(***************************************************************************)
Invalid == [kind |-> "Invalid", events |-> {}]
FullRun == [kind |-> "FullRun", events |-> {}]
Part(s) == [kind |-> "Part",    events |-> s]

IsValid(rs) == rs.kind # "Invalid"

DisjointRanges(a, b) ==
  a.kind = "Part" /\ b.kind = "Part" /\ a.events \cap b.events = {}

(* Neither disjoint nor the same. *)
OverlappingRanges(a, b) ==
  IsValid(a) /\ IsValid(b) /\ ~ DisjointRanges(a, b) /\ a # b
=============================================================================
