------------------------ MODULE RangeSetFromFileIndex ------------------------
(***************************************************************************)
(* The range set that the index of a file gives for a subrun or a run, for *)
(* files whose format has no range sets: the events that follow the SubRun *)
(* entries, found by searching from one entry to the next.                 *)
(***************************************************************************)
EXTENDS FileIndex

NextSubRunInRun(ix, from, run) ==
  FirstOf(ix, {p \in from..Len(ix) : EntryType(ix[p]) = "SubRun" /\ RunOf(ix[p]) = run})

NextEventInSubRun(ix, from, subRun) ==
  FirstOf(ix, {p \in from..Len(ix) : EntryType(ix[p]) = "Event" /\ SubRunOf(ix[p]) = subRun})

EndOfEvents(ix, from, subRun) ==
  FirstOf(ix, {p \in from..Len(ix) : ~ (EntryType(ix[p]) = "Event" /\ SubRunOf(ix[p]) = subRun)})

EndOfSubRun(ix, from, subRun) == FirstOf(ix, {p \in from..Len(ix) : SubRunOf(ix[p]) # subRun})
EndOfRun(ix, from, run)       == FirstOf(ix, {p \in from..Len(ix) : RunOf(ix[p]) # run})

(* The events of a subrun: those of the first entries that follow one      *)
(* another, or from the first to the last of these with compactRanges.     *)
OfSubRun(ix, subRun, compactRanges) ==
  LET first == NextEventInSubRun(ix, NextSubRunInRun(ix, 1, RunOf(subRun)), subRun)
      last  == EndOfEvents(ix, first, subRun) - 1
  IN  CASE first = End(ix) -> {}
        [] first # End(ix) /\ compactRanges ->
             {EventEntry(subRun.run, subRun.subRun, n) : n \in ix[first].event..ix[last].event}
        [] OTHER -> {ix[p] : p \in first..last}

(* Those of a run, from subrun to subrun *)
OfRun(ix, run, compactRanges) ==
  LET first  == NextSubRunInRun(ix, 1, run)
      runEnd == EndOfRun(ix, first, run)
      from[p \in first..runEnd] ==
        IF p = runEnd THEN {}
        ELSE LET subRun == SubRunOf(ix[p]) IN
             OfSubRun(ix, subRun, compactRanges) \cup from[EndOfSubRun(ix, p, subRun)]
  IN  from[first]
=============================================================================
