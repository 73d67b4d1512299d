----------------------------- MODULE EventStream -----------------------------
(***************************************************************************)
(* What reading a list of input files promises, without cursors, open      *)
(* files or counters: of all events of all files, in order, those at or    *)
(* after the first one wanted, each only once where duplicates are looked  *)
(* for, without the leading ones that are to be skipped.                   *)
(***************************************************************************)
EXTENDS FileIndex, FiniteSets

CONSTANTS Catalogs, Options
VARIABLES catalog, opts, delivered, over

vars == <<catalog, opts, delivered, over>>

IndexOf(f) == IF opts.noEventSort THEN catalog[f].byEntry ELSE catalog[f].sorted

Places == UNION {[file : {f}, pos : DOMAIN IndexOf(f)] : f \in DOMAIN catalog}

IDAt(at) == IndexOf(at.file)[at.pos]

Precedes(a, b) == a.file < b.file \/ (a.file = b.file /\ a.pos < b.pos)

(* The events the configuration selects. *)
Requested ==
  {at \in Places : /\ opts.mode = "RunsSubRunsAndEvents"
                   /\ catalog[at.file].kind = "good"
                   /\ EntryType(IDAt(at)) = "Event"
                   /\ ~ Before(IDAt(at), opts.first)}

(* Two events with one ID in the range over which duplicates are looked    *)
(* for: a file, a file of real data, or all files.                         *)
SameEvent(a, b) ==
  /\ IDAt(a) = IDAt(b)
  /\ \/ opts.dup = "checkAllFilesOpened"
     \/ (opts.dup = "checkEachFile" /\ a.file = b.file)
     \/ (opts.dup = "checkEachRealDataFile" /\ a.file = b.file /\ catalog[a.file].real)

Candidates ==
  {at \in Requested : ~ \E b \in Requested : Precedes(b, at) /\ SameEvent(at, b)}

Rank(at) == Cardinality({b \in Candidates : Precedes(b, at)})

Left == {at \in Candidates : Rank(at) >= opts.skip + Len(delivered)}

LimitReached == opts.maxEvents >= 0 /\ Len(delivered) >= opts.maxEvents

Deliver ==
  /\ ~ over /\ ~ LimitReached
  /\ \E at \in Left : /\ Rank(at) = opts.skip + Len(delivered)
                      /\ delivered' = Append(delivered, at)
  /\ UNCHANGED <<catalog, opts, over>>

Finish ==
  /\ ~ over /\ over' = TRUE
  /\ Left = {} \/ LimitReached
  /\ UNCHANGED <<catalog, opts, delivered>>

(* What may end the job early: a file that cannot be read, or an event     *)
(* with several entries in its file's index.                               *)
Abort ==
  /\ ~ over /\ over' = TRUE
  /\ \/ \E f \in DOMAIN catalog : catalog[f].kind # "good"
     \/ \E f \in DOMAIN catalog : ~ EventsUniqueAndOrdered(catalog[f].sorted)
  /\ UNCHANGED <<catalog, opts, delivered>>

Init ==
  /\ catalog \in Catalogs /\ opts \in Options
  /\ delivered = <<>> /\ over = FALSE

Next == Deliver \/ Finish \/ Abort

Spec == Init /\ [][Next]_vars
=============================================================================
