---------------------------- MODULE MCOutputFile ----------------------------
(***************************************************************************)
(* Small jobs for OutputFile: up to three inputs of up to three events,    *)
(* with products that come and go, switched at every boundary.             *)
(***************************************************************************)
EXTENDS OutputFile, TLC

CONSTANTS hits, tracks, vertices, clusters, seeds, strips

(* clusters are made from seeds, and these from strips and from hits. *)
MCParents == (clusters :> {seeds}) @@ (seeds :> {strips, hits}) @@ (strips :> {hits})

R(r) == RunEntry(r)
S(r, s) == SubRunEntry(r, s)
E(r, s, e) == EventEntry(r, s, e)

IsEvent(id) == EntryType(id) = "Event"
InputOf(entries, products) ==
  [entries |-> entries, tree |-> SelectSeq(entries, IsEvent), products |-> products,
   described |-> products, children |-> {}, clonable |-> TRUE, cloner |-> TRUE]

(* one subrun, cut off and continued by the next input *)
InA == InputOf(<<R(1), S(1,1), E(1,1,1), E(1,1,2)>>, {hits})
InB == InputOf(<<R(1), S(1,1), E(1,1,3), S(1,2), E(1,2,1)>>, {hits, tracks})
(* no event, two runs *)
InC == InputOf(<<R(1), S(1,3), R(2)>>, {tracks})
InD == InputOf(<<R(2), S(2,1), E(2,1,1), E(2,1,2)>>, {tracks})

Slow(f)      == [f EXCEPT !.clonable = FALSE]
Uncloned(f)  == [f EXCEPT !.cloner = FALSE]
(* the source drops the last event of the file as a duplicate *)
WithoutLast(f) == [f EXCEPT !.entries = SubSeq(@, 1, Len(@) - 1)]

(* Tracks were made from hits, whether these are still in the file or not, *)
(* and vertices from tracks.                                               *)
WithHistory(f) ==
  [f EXCEPT !.products = @ \cup {vertices}, !.described = {hits, tracks, vertices},
            !.children = {<<hits, tracks>>, <<tracks, vertices>>}]

JobOf(inputs) ==
  [inputs |-> inputs, selected |-> UNION {EventsOf(inputs[i]) : i \in DOMAIN inputs},
   wantAllEvents |-> TRUE, fastCloning |-> TRUE, nschedules |-> 1, granularity |-> "Never",
   dropAllEvents |-> FALSE, dropAllSubRuns |-> FALSE, rejected |-> {}, dropDescendants |-> TRUE,
   dropMetaData |-> "NONE", dropForDropped |-> FALSE]

SomeInputs ==
  {<<InA, InB, InD>>, <<Slow(InA), InB, InD>>, <<Slow(InA), InB, Slow(InC)>>, <<InC, InB>>,
   <<Uncloned(InA), Slow(InD)>>}

MixedInputs ==
  {<<InA, Slow(InB)>>, <<InA, Uncloned(InD)>>, <<InA, WithoutLast(InD)>>, <<InA, Slow(InC), InB>>}

MCJobs ==
  {[JobOf(ins) EXCEPT !.granularity = g, !.nschedules = n, !.fastCloning = f] :
     ins \in SomeInputs, g \in {"Event", "SubRun", "Run", "InputFile", "Never"},
     n \in {1, 2}, f \in {TRUE}}
  \cup {[JobOf(ins) EXCEPT !.granularity = g] : ins \in MixedInputs, g \in {"InputFile", "Never"}}
  \cup {[JobOf(ins) EXCEPT !.fastCloning = FALSE] : ins \in SomeInputs \cup MixedInputs}
  \cup {[JobOf(ins) EXCEPT !.selected = @ \ {E(1,1,3)}, !.wantAllEvents = FALSE,
                           !.granularity = "Event"] : ins \in SomeInputs}
  \cup {[JobOf(ins) EXCEPT !.dropAllEvents = TRUE, !.dropAllSubRuns = d] :
          ins \in SomeInputs, d \in BOOLEAN}

  \cup {[JobOf(ins) EXCEPT !.rejected = {hits}, !.dropDescendants = d, !.fastCloning = f,
                           !.granularity = "InputFile"] :
          ins \in {<<InA, WithHistory(InB), InD>>, <<InB, WithHistory(InD)>>},
          d \in BOOLEAN, f \in BOOLEAN}
  \cup {[JobOf(<<InA, WithHistory(InB)>>) EXCEPT !.dropMetaData = m, !.dropForDropped = d] :
          m \in {"NONE", "PRIOR", "ALL"}, d \in BOOLEAN}

(* An input that is cloned, and then one that ROOT refuses to clone. *)
MCUnclonedJobs == {JobOf(<<InA, Uncloned(InD)>>)}
=============================================================================
