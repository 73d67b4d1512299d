------------------------------ MODULE FileIndex ------------------------------
(***************************************************************************)
(* The index of an art/ROOT file as RootInputFile uses it: a sequence of   *)
(* entries, one per run, subrun and event fragment, read from front to     *)
(* back.  The class itself is in another package (canvas), so everything   *)
(* here is modelled from the calls in RootInputFile.cc.                    *)
(*                                                                         *)
(* An entry is identified by a run, a subrun and an event number; 0 stands *)
(* for "no subrun" and "no event", so that a run comes before its subruns  *)
(* and a subrun before its events.                                         *)
(***************************************************************************)
EXTENDS Integers, Sequences

ID == [run : Nat \ {0}, subRun : Nat, event : Nat]

RunEntry(r)         == [run |-> r, subRun |-> 0, event |-> 0]
SubRunEntry(r, s)   == [run |-> r, subRun |-> s, event |-> 0]
EventEntry(r, s, e) == [run |-> r, subRun |-> s, event |-> e]

RunOf(id)    == RunEntry(id.run)
SubRunOf(id) == SubRunEntry(id.run, id.subRun)

EntryType(id) == IF id.event # 0 THEN "Event" ELSE IF id.subRun # 0 THEN "SubRun" ELSE "Run"

Before(a, b) ==
  \/ a.run < b.run
  \/ a.run = b.run /\ a.subRun < b.subRun
  \/ a.run = b.run /\ a.subRun = b.subRun /\ a.event < b.event

(***************************************************************************)
(* Positions.  end() is one past the last entry.                           *)
(***************************************************************************)
End(ix)      == Len(ix) + 1
TypeAt(ix,p) == IF p = End(ix) THEN "End" ELSE EntryType(ix[p])

(* The first of a set of positions, end() when there is none. *)
FirstOf(ix, S) == IF S = {} THEN End(ix) ELSE CHOOSE p \in S : \A q \in S : p <= q

(* findPosition(EventID): where the event is, or would be. *)
FindEventPosition(ix, id) == FirstOf(ix, {p \in DOMAIN ix : ~ Before(ix[p], id)})

(* findPosition(RunID, false): the first run not before the one asked for. *)
FindRunPosition(ix, run) ==
  FirstOf(ix, {p \in DOMAIN ix : EntryType(ix[p]) = "Run" /\ ix[p].run >= run})

(* findSubRunOrRunPosition(SubRunID). *)
FindSubRunOrRunPosition(ix, id) ==
  FirstOf(ix, {p \in DOMAIN ix : EntryType(ix[p]) # "Event" /\ ~ Before(ix[p], id)})

(* findPosition(ID, true): the entry itself, or end(). *)
FindExactly(ix, id) == FirstOf(ix, {p \in DOMAIN ix : ix[p] = id})

(* One past the entries that follow p with p's own ID: its fragments. *)
FragmentsEnd(ix, p) == FirstOf(ix, {q \in DOMAIN ix : q > p /\ ix[q] # ix[p]})

Events(ix) == {p \in DOMAIN ix : EntryType(ix[p]) = "Event"}

(* eventsUniqueAndOrdered(), asked of the index as it was written, that is *)
(* sorted: order is given, and only uniqueness is left to ask.             *)
EventsUniqueAndOrdered(ix) ==
  \A p, q \in Events(ix) : p # q => ix[p] # ix[q]

(* sortBy_Run_SubRun_Event() leaves the index sorted, and                  *)
(* sortBy_Run_SubRun_EventEntry() sorted but for the events of a subrun.   *)
Sorted(ix)         == \A p, q \in DOMAIN ix : p < q => ~ Before(ix[q], ix[p])
SortedBySubRun(ix) == \A p, q \in DOMAIN ix : p < q => ~ Before(SubRunOf(ix[q]), SubRunOf(ix[p]))

(* A run announces its subruns and a subrun its events; each event is in a *)
(* subrun.                                                                 *)
Nested(ix) ==
  \A p \in DOMAIN ix :
    /\ EntryType(ix[p]) # "Run"  => \E q \in 1..(p - 1) : ix[q] = RunOf(ix[p])
    /\ EntryType(ix[p]) = "Event" => /\ ix[p].subRun # 0
                                     /\ \E q \in 1..(p - 1) : ix[q] = SubRunOf(ix[p])
=============================================================================
