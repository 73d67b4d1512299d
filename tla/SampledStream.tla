---------------------------- MODULE SampledStream ----------------------------
(***************************************************************************)
(* What sampling promises, without files being opened, cursors or          *)
(* principals: events are drawn from datasets in any order, from each      *)
(* dataset the first one that is left, so that none is given twice or left *)
(* out; the job ends when enough were given or when a dataset that may be  *)
(* drawn from has none left.                                               *)
(***************************************************************************)
EXTENDS FileIndex

CONSTANT Datasets

VARIABLES
  index,    \* for each dataset the index of its file
  first,    \* for each dataset the ID from which events are wanted
  drawn,    \* the datasets that may be drawn from
  limit,    \* the number of events wanted
  left,     \* for each dataset the positions not yet given
  given,    \* the events given, each with its dataset
  over

vars == <<index, first, drawn, limit, left, given, over>>

Give(d) ==
  /\ ~ over
  /\ d \in drawn /\ Len(given) < limit
  /\ \E p \in left[d] :
       /\ \A q \in left[d] : p <= q
       /\ given' = Append(given, [dataset |-> d, event |-> index[d][p]])
       /\ left' = [left EXCEPT ![d] = @ \ {p}]
  /\ UNCHANGED <<index, first, drawn, limit, over>>

Finish ==
  /\ ~ over /\ over' = TRUE
  /\ Len(given) = limit \/ \E d \in drawn : left[d] = {}
  /\ UNCHANGED <<index, first, drawn, limit, left, given>>

(* A job may fail before the first event is given. *)
Fail ==
  /\ ~ over /\ over' = TRUE /\ given = <<>>
  /\ UNCHANGED <<index, first, drawn, limit, left, given>>

Init ==
  /\ index \in [Datasets -> Seq(ID)]
  /\ drawn \subseteq Datasets
  /\ limit \in Nat
  /\ left = [d \in Datasets |-> {p \in Events(index[d]) : ~ Before(index[d][p], first[d])}]
  /\ given = <<>> /\ over = FALSE

Next == (\E d \in Datasets : Give(d)) \/ Finish \/ Fail

Spec == Init /\ [][Next]_vars
=============================================================================
