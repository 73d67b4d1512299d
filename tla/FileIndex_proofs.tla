-------------------------- MODULE FileIndex_proofs --------------------------
(***************************************************************************)
(* Facts about the positions of a file index and the range sets it gives,  *)
(* for every index.                                                        *)
(***************************************************************************)
EXTENDS RangeSetFromFileIndex, WellFoundedInduction, TLAPS

(* Every set of natural numbers that is not empty has a smallest element.  *)
LEMMA SmallestOfSet ==
  ASSUME NEW S, S \subseteq Nat, S # {}
  PROVE  \E p \in S : \A q \in S : p <= q
<1> DEFINE R == OpToRel(<, Nat)
<1>1. \E p \in S : \A q \in S : <<q, p>> \notin R
  <2>1. IsWellFoundedOn(R, Nat)
    BY NatLessThanWellFounded
  <2> QED BY <2>1, WFMin
<1>2. \A p, q \in Nat : q < p => <<q, p>> \in R
  BY DEF OpToRel
<1> HIDE DEF R
<1>3. PICK p \in S : \A q \in S : <<q, p>> \notin R
  BY <1>1
<1>4. ASSUME NEW q \in S PROVE p <= q
  <2>1. p \in Nat /\ q \in Nat
    OBVIOUS
  <2>2. ~ (q < p)
    BY <1>2, <1>3, <2>1
  <2> QED BY <2>1, <2>2
<1> QED BY <1>4

(* FirstOf finds the first of the positions asked for or end().            *)
LEMMA FirstOfSequence ==
  ASSUME NEW T, NEW ix \in Seq(T), NEW S \in SUBSET DOMAIN ix
  PROVE  /\ FirstOf(ix, S) \in 1..End(ix)
         /\ FirstOf(ix, S) = End(ix) \/ FirstOf(ix, S) \in S
         /\ S # {} => FirstOf(ix, S) \in S
         /\ \A q \in S : FirstOf(ix, S) <= q
<1>1. DOMAIN ix = 1..Len(ix) /\ Len(ix) \in Nat
  OBVIOUS
<1>2. CASE S = {}
  BY <1>1, <1>2 DEF FirstOf, End
<1>3. CASE S # {}
  <2>1. \E p \in S : \A q \in S : p <= q
    BY <1>1, <1>3, SmallestOfSet
  <2>2. FirstOf(ix, S) \in S /\ \A q \in S : FirstOf(ix, S) <= q
    BY <1>3, <2>1 DEF FirstOf
  <2> QED BY <1>1, <2>2 DEF End
<1> QED BY <1>2, <1>3

(* The same of an index.                                                   *)
LEMMA FirstOfProperties ==
  ASSUME NEW ix \in Seq(ID), NEW S \in SUBSET DOMAIN ix
  PROVE  /\ FirstOf(ix, S) \in 1..End(ix)
         /\ FirstOf(ix, S) = End(ix) \/ FirstOf(ix, S) \in S
         /\ \A q \in S : FirstOf(ix, S) <= q
BY FirstOfSequence

(* No search of the cursor leaves the index.                               *)
LEMMA SearchesStayInside ==
  ASSUME NEW ix \in Seq(ID), NEW id, NEW run, NEW p
  PROVE  /\ FindEventPosition(ix, id) \in 1..End(ix)
         /\ FindRunPosition(ix, run) \in 1..End(ix)
         /\ FindSubRunOrRunPosition(ix, id) \in 1..End(ix)
         /\ FragmentsEnd(ix, p) \in 1..End(ix)
<1>1. FindEventPosition(ix, id) \in 1..End(ix)
  BY FirstOfProperties DEF FindEventPosition
<1>2. FindRunPosition(ix, run) \in 1..End(ix)
  BY FirstOfProperties DEF FindRunPosition
<1>3. FindSubRunOrRunPosition(ix, id) \in 1..End(ix)
  BY FirstOfProperties DEF FindSubRunOrRunPosition
<1>4. FragmentsEnd(ix, p) \in 1..End(ix)
  BY FirstOfProperties DEF FragmentsEnd
<1> QED BY <1>1, <1>2, <1>3, <1>4

(* An index sorted by event is sorted by subrun.                           *)
LEMMA SortedIsSortedBySubRun ==
  ASSUME NEW ix \in Seq(ID), Sorted(ix)
  PROVE  SortedBySubRun(ix)
<1> SUFFICES ASSUME NEW p \in DOMAIN ix, NEW q \in DOMAIN ix, p < q
             PROVE  ~ Before(SubRunOf(ix[q]), SubRunOf(ix[p]))
  BY DEF SortedBySubRun
<1>1. ix[p] \in ID /\ ix[q] \in ID
  OBVIOUS
<1>2. ~ Before(ix[q], ix[p])
  BY DEF Sorted
<1> QED BY <1>1, <1>2 DEF Before, SubRunOf, SubRunEntry, ID

(* In an index sorted by subrun a search for a later run, or for a later   *)
(* subrun, never goes back.                                                *)
LEMMA SearchesGoForward ==
  ASSUME NEW ix \in Seq(ID), SortedBySubRun(ix), NEW p \in DOMAIN ix
  PROVE  /\ \A r \in Nat : ix[p].run < r => p <= FindRunPosition(ix, r)
         /\ \A id \in ID : id.event = 0 /\ Before(SubRunOf(ix[p]), id)
                             => p <= FindSubRunOrRunPosition(ix, id)
         /\ p < FragmentsEnd(ix, p)
<1>1. /\ \A q \in DOMAIN ix : ix[q] \in ID /\ q \in Nat
      /\ p \in Nat /\ p < End(ix) /\ End(ix) \in Nat
  BY DEF End
<1>2. \A q \in DOMAIN ix : q < p => ~ Before(SubRunOf(ix[p]), SubRunOf(ix[q]))
  BY DEF SortedBySubRun
<1>3. ASSUME NEW r \in Nat, ix[p].run < r PROVE p <= FindRunPosition(ix, r)
  <2> DEFINE S == {q \in DOMAIN ix : EntryType(ix[q]) = "Run" /\ ix[q].run >= r}
  <2>1. ASSUME NEW q \in S PROVE q >= p
    <3>1. ix[q] \in ID /\ ix[p] \in ID /\ ix[q].run >= r
      BY <1>1
    <3>2. q < p => ~ Before(SubRunOf(ix[p]), SubRunOf(ix[q]))
      BY <1>2
    <3> QED BY <1>1, <1>3, <3>1, <3>2 DEF Before, SubRunOf, SubRunEntry, ID
  <2>2. FirstOf(ix, S) = End(ix) \/ FirstOf(ix, S) \in S
    BY FirstOfProperties
  <2> QED BY <1>1, <2>1, <2>2 DEF FindRunPosition
<1>4. ASSUME NEW id \in ID, id.event = 0, Before(SubRunOf(ix[p]), id)
      PROVE  p <= FindSubRunOrRunPosition(ix, id)
  <2> DEFINE S == {q \in DOMAIN ix : EntryType(ix[q]) # "Event" /\ ~ Before(ix[q], id)}
  <2>1. ASSUME NEW q \in S PROVE q >= p
    <3>1. ix[q].event = 0 /\ ix[q] \in ID
      BY <1>1 DEF EntryType
    <3>2. q < p => ~ Before(SubRunOf(ix[p]), SubRunOf(ix[q]))
      BY <1>2
    <3> QED BY <1>1, <1>4, <3>1, <3>2 DEF Before, SubRunOf, SubRunEntry, ID
  <2>2. FirstOf(ix, S) = End(ix) \/ FirstOf(ix, S) \in S
    BY FirstOfProperties
  <2> QED BY <1>1, <2>1, <2>2 DEF FindSubRunOrRunPosition
<1>5. p < FragmentsEnd(ix, p)
  <2> DEFINE S == {q \in DOMAIN ix : q > p /\ ix[q] # ix[p]}
  <2>1. FirstOf(ix, S) = End(ix) \/ FirstOf(ix, S) \in S
    BY FirstOfProperties
  <2> QED BY <1>1, <2>1 DEF FragmentsEnd
<1> QED BY <1>3, <1>4, <1>5

(* The order of IDs is transitive.                                         *)
LEMMA BeforeOrEqual ==
  ASSUME NEW a \in ID, NEW b \in ID, NEW c \in ID, ~ Before(b, a), Before(b, c)
  PROVE  Before(a, c)
<1>1. /\ a.run \in Nat /\ a.subRun \in Nat /\ a.event \in Nat
      /\ b.run \in Nat /\ b.subRun \in Nat /\ b.event \in Nat
      /\ c.run \in Nat /\ c.subRun \in Nat /\ c.event \in Nat
  BY DEF ID
<1> QED BY <1>1 DEF Before

(* What is not in a later subrun than a comes before the first event of a  *)
(* subrun that a comes before.                                             *)
LEMMA BeforeFirstEvent ==
  ASSUME NEW a \in ID, NEW b \in ID, NEW c \in ID, a.event # 0, c.event = 1, Before(a, c),
         ~ Before(SubRunOf(a), SubRunOf(b))
  PROVE  Before(b, c)
<1>1. /\ a.run \in Nat /\ a.subRun \in Nat /\ a.event \in Nat
      /\ b.run \in Nat /\ b.subRun \in Nat /\ b.event \in Nat
      /\ c.run \in Nat /\ c.subRun \in Nat /\ c.event \in Nat
  BY DEF ID
<1>2. a.run < c.run \/ (a.run = c.run /\ a.subRun < c.subRun)
  BY <1>1 DEF Before
<1>3. /\ ~ (a.run < b.run)
      /\ a.run = b.run => ~ (a.subRun < b.subRun)
  BY <1>1 DEF Before, SubRunOf, SubRunEntry
<1> QED BY <1>1, <1>2, <1>3 DEF Before

(* Nor does a search for a later event, if the index is sorted by event or *)
(* the search is for the first event of a subrun.                          *)
LEMMA EventSearchGoesForward ==
  ASSUME NEW ix \in Seq(ID), NEW id \in ID, NEW p \in DOMAIN ix,
         EntryType(ix[p]) = "Event", Before(ix[p], id),
         Sorted(ix) \/ (SortedBySubRun(ix) /\ id.event = 1)
  PROVE  p <= FindEventPosition(ix, id)
<1> DEFINE S == {q \in DOMAIN ix : ~ Before(ix[q], id)}
<1>1. \A q \in DOMAIN ix : ix[q] \in ID /\ q \in Nat
  OBVIOUS
<1>2. ASSUME NEW q \in DOMAIN ix, q < p PROVE Before(ix[q], id)
  <2>1. CASE Sorted(ix)
    <3>1. ix[p] \in ID /\ ix[q] \in ID
      BY <1>1
    <3>2. ~ Before(ix[p], ix[q])
      BY <1>2, <2>1 DEF Sorted
    <3> QED BY <3>1, <3>2, BeforeOrEqual
  <2>2. CASE SortedBySubRun(ix) /\ id.event = 1
    <3>1. ix[p].event # 0
      BY DEF EntryType
    <3>2. ~ Before(SubRunOf(ix[p]), SubRunOf(ix[q]))
      BY <1>2, <2>2 DEF SortedBySubRun
    <3>3. ix[p] \in ID /\ ix[q] \in ID
      BY <1>1
    <3> QED BY <2>2, <3>1, <3>2, <3>3, BeforeFirstEvent
  <2> QED BY <2>1, <2>2
<1>3. FirstOf(ix, S) = End(ix) \/ FirstOf(ix, S) \in S
  BY FirstOfProperties
<1>4. p <= End(ix)
  BY DEF End
<1> QED BY <1>1, <1>2, <1>3, <1>4 DEF FindEventPosition

(* An index begins with a run, if with anything.                           *)
LEMMA FrontOfIndex ==
  ASSUME NEW ix \in Seq(ID), Nested(ix)
  PROVE  TypeAt(ix, 1) \in {"Run", "End"}
<1>1. CASE 1 \in DOMAIN ix
  <2>1. \A q : q \notin 1..(1 - 1)
    OBVIOUS
  <2>2. EntryType(ix[1]) = "Run"
    BY <1>1, <2>1 DEF Nested
  <2> QED BY <1>1, <2>2 DEF TypeAt, End
<1>2. CASE 1 \notin DOMAIN ix
  BY <1>2 DEF TypeAt, End
<1> QED BY <1>1, <1>2

(* Between two entries of an index that are not in the same run there is   *)
(* the entry of the later one's run, and between two that are not in the   *)
(* same subrun that of the later one's subrun.                             *)
LEMMA Announced ==
  ASSUME NEW ix \in Seq(ID), SortedBySubRun(ix), Nested(ix),
         NEW p \in DOMAIN ix, NEW t \in DOMAIN ix, p < t
  PROVE  /\ EntryType(ix[t]) # "Run" =>
              ix[t].run = ix[p].run \/ \E q \in DOMAIN ix : p < q /\ q < t /\ ix[q] = RunOf(ix[t])
         /\ EntryType(ix[t]) = "Event" =>
              \/ SubRunOf(ix[t]) = SubRunOf(ix[p])
              \/ \E q \in DOMAIN ix : p < q /\ q < t /\ ix[q] = SubRunOf(ix[t])
<1>1. /\ ix[p] \in ID /\ ix[t] \in ID /\ p \in Nat /\ t \in Nat
      /\ \A q \in 1..(t - 1) : q \in DOMAIN ix /\ q \in Nat /\ q < t /\ ix[q] \in ID
  OBVIOUS
<1>2. ~ Before(SubRunOf(ix[t]), SubRunOf(ix[p]))
  BY DEF SortedBySubRun
<1>3. ASSUME EntryType(ix[t]) # "Run"
      PROVE  ix[t].run = ix[p].run \/ \E q \in DOMAIN ix : p < q /\ q < t /\ ix[q] = RunOf(ix[t])
  <2>1. PICK q \in 1..(t - 1) : ix[q] = RunOf(ix[t])
    BY <1>3 DEF Nested
  <2>2. ix[q].run = ix[t].run
    BY <2>1 DEF RunOf, RunEntry
  <2>3. CASE p < q
    BY <1>1, <2>1, <2>3
  <2>4. CASE q = p
    BY <2>2, <2>4
  <2>5. CASE q < p
    <3>1. ~ Before(SubRunOf(ix[p]), SubRunOf(ix[q]))
      BY <1>1, <2>5 DEF SortedBySubRun
    <3>2. ~ (ix[p].run < ix[q].run) /\ ~ (ix[t].run < ix[p].run)
      BY <1>2, <3>1 DEF Before, SubRunOf, SubRunEntry
    <3> QED BY <1>1, <2>2, <3>2 DEF ID
  <2> QED BY <1>1, <2>3, <2>4, <2>5
<1>4. ASSUME EntryType(ix[t]) = "Event"
      PROVE  \/ SubRunOf(ix[t]) = SubRunOf(ix[p])
             \/ \E q \in DOMAIN ix : p < q /\ q < t /\ ix[q] = SubRunOf(ix[t])
  <2>1. PICK q \in 1..(t - 1) : ix[q] = SubRunOf(ix[t])
    BY <1>4 DEF Nested
  <2>2. SubRunOf(ix[q]) = SubRunOf(ix[t])
    BY <2>1 DEF SubRunOf, SubRunEntry
  <2>3. CASE p < q
    BY <1>1, <2>1, <2>3
  <2>4. CASE q = p
    BY <2>2, <2>4
  <2>5. CASE q < p
    <3>1. ~ Before(SubRunOf(ix[p]), SubRunOf(ix[q]))
      BY <1>1, <2>5 DEF SortedBySubRun
    <3>2. ix[q].run = ix[t].run /\ ix[q].subRun = ix[t].subRun
      BY <2>1 DEF SubRunOf, SubRunEntry
    <3>3. ix[p].run = ix[t].run /\ ix[p].subRun = ix[t].subRun
      <4>1. /\ ~ (ix[p].run < ix[q].run)
            /\ ix[p].run = ix[q].run => ~ (ix[p].subRun < ix[q].subRun)
        BY <3>1 DEF Before, SubRunOf, SubRunEntry
      <4>2. /\ ~ (ix[t].run < ix[p].run)
            /\ ix[t].run = ix[p].run => ~ (ix[t].subRun < ix[p].subRun)
        BY <1>2 DEF Before, SubRunOf, SubRunEntry
      <4>3. /\ ix[p].run \in Nat /\ ix[t].run \in Nat
            /\ ix[p].subRun \in Nat /\ ix[t].subRun \in Nat
        BY <1>1 DEF ID
      <4> QED BY <3>2, <4>1, <4>2, <4>3
    <3> QED BY <3>3 DEF SubRunOf
  <2> QED BY <1>1, <2>3, <2>4, <2>5
<1> QED BY <1>3, <1>4

(* A search stops at the first entry that it is for.                       *)
LEMMA SearchesStopFirst ==
  ASSUME NEW ix \in Seq(ID), NEW q \in DOMAIN ix
  PROVE  /\ \A id : ~ Before(ix[q], id) => FindEventPosition(ix, id) <= q
         /\ \A run : EntryType(ix[q]) = "Run" /\ ix[q].run >= run => FindRunPosition(ix, run) <= q
         /\ \A id : EntryType(ix[q]) # "Event" /\ ~ Before(ix[q], id) => FindSubRunOrRunPosition(ix, id) <= q
         /\ \A p \in DOMAIN ix : q > p /\ ix[q] # ix[p] => FragmentsEnd(ix, p) <= q
<1>1. \A id : ~ Before(ix[q], id) => FindEventPosition(ix, id) <= q
  BY FirstOfProperties DEF FindEventPosition
<1>2. \A run : EntryType(ix[q]) = "Run" /\ ix[q].run >= run => FindRunPosition(ix, run) <= q
  BY FirstOfProperties DEF FindRunPosition
<1>3. \A id : EntryType(ix[q]) # "Event" /\ ~ Before(ix[q], id) => FindSubRunOrRunPosition(ix, id) <= q
  BY FirstOfProperties DEF FindSubRunOrRunPosition
<1>4. \A p \in DOMAIN ix : q > p /\ ix[q] # ix[p] => FragmentsEnd(ix, p) <= q
  BY FirstOfProperties DEF FragmentsEnd
<1> QED BY <1>1, <1>2, <1>3, <1>4

(* What a search for a run or a subrun finds is not an event.              *)
LEMMA SearchesFind ==
  ASSUME NEW ix \in Seq(ID)
  PROVE  /\ \A run : TypeAt(ix, FindRunPosition(ix, run)) \in {"Run", "End"}
         /\ \A id : TypeAt(ix, FindSubRunOrRunPosition(ix, id)) # "Event"
<1>1. ASSUME NEW run PROVE TypeAt(ix, FindRunPosition(ix, run)) \in {"Run", "End"}
  <2> DEFINE S == {p \in DOMAIN ix : EntryType(ix[p]) = "Run" /\ ix[p].run >= run}
  <2>1. FirstOf(ix, S) = End(ix) \/ FirstOf(ix, S) \in S
    BY FirstOfProperties
  <2> QED BY <2>1 DEF FindRunPosition, TypeAt
<1>2. ASSUME NEW id PROVE TypeAt(ix, FindSubRunOrRunPosition(ix, id)) # "Event"
  <2> DEFINE S == {p \in DOMAIN ix : EntryType(ix[p]) # "Event" /\ ~ Before(ix[p], id)}
  <2>1. FirstOf(ix, S) = End(ix) \/ FirstOf(ix, S) \in S
    BY FirstOfProperties
  <2> QED BY <2>1 DEF FindSubRunOrRunPosition, TypeAt
<1> QED BY <1>1, <1>2

-----------------------------------------------------------------------------
(***************************************************************************)
(* The range sets of OfSubRun and OfRun, which jump from entry to entry.   *)
(***************************************************************************)
(* Events of a run and of a subrun, wherever they are in the index.        *)
EventsOfSubRun(ix, subRun) == {ix[p] : p \in {p \in Events(ix) : SubRunOf(ix[p]) = subRun}}
EventsOfRun(ix, run)       == {ix[p] : p \in {p \in Events(ix) : RunOf(ix[p]) = run}}

(* Jumping from p to to[p], over positions that all have the same to give. *)
Jumps(f, a, b, to, G) == [p \in a..b |-> IF p = b THEN {} ELSE G[p] \cup f[to[p]]]

JumpsFit(a, b, to, G) ==
  \A p \in a..(b - 1) : to[p] \in (p + 1)..b /\ \A q \in p..(to[p] - 1) : G[q] = G[p]

LEMMA JumpsVisitAll ==
  ASSUME NEW a \in Nat, NEW b \in Nat, a <= b, NEW to, NEW G, JumpsFit(a, b, to, G)
  PROVE  /\ \E f : f = Jumps(f, a, b, to, G)
         /\ \A f : f = Jumps(f, a, b, to, G) => f[a] = UNION {G[p] : p \in a..(b - 1)}
<1> DEFINE IsFrom(f) == f = Jumps(f, a, b, to, G)
           All(p) == UNION {G[q] : q \in p..(b - 1)}
           h == [p \in a..b |-> All(p)]
<1>1. All(b) = {}
  OBVIOUS
<1>2. ASSUME NEW p \in a..(b - 1) PROVE /\ to[p] \in a..b /\ p \in a..b /\ p # b
                                        /\ All(p) = G[p] \cup All(to[p])
  <2>1. to[p] \in (p + 1)..b /\ \A q \in p..(to[p] - 1) : G[q] = G[p]
    BY DEF JumpsFit
  <2>2. to[p] \in a..b /\ p \in a..b /\ p # b
    BY <2>1
  <2>3. \A q \in p..(b - 1) : q \in p..(to[p] - 1) \/ q \in to[p]..(b - 1)
    BY <2>1
  <2>4. p \in p..(b - 1) /\ \A q \in to[p]..(b - 1) : q \in p..(b - 1)
    BY <2>1
  <2>5. All(p) = G[p] \cup All(to[p])
    BY <2>1, <2>3, <2>4
  <2> QED BY <2>2, <2>5
<1>3. \A p \in a..b : p = b \/ p \in a..(b - 1)
  OBVIOUS
<1>4. IsFrom(h)
  <2>1. ASSUME NEW p \in a..b PROVE h[p] = IF p = b THEN {} ELSE G[p] \cup h[to[p]]
    <3>1. h[p] = All(p)
      OBVIOUS
    <3>2. CASE p = b
      BY <1>1, <3>1, <3>2
    <3>3. CASE p # b
      <4>1. to[p] \in a..b /\ All(p) = G[p] \cup All(to[p])
        BY <1>2, <1>3, <3>3
      <4>2. h[to[p]] = All(to[p])
        BY <4>1
      <4> HIDE DEF h, All
      <4> QED BY <3>1, <3>3, <4>1, <4>2
    <3> QED BY <3>2, <3>3
  <2> DEFINE k == [p \in a..b |-> IF p = b THEN {} ELSE G[p] \cup h[to[p]]]
  <2>2. \A p \in a..b : h[p] = k[p]
    BY <2>1
  <2> HIDE DEF All
  <2>3. h = k
    BY <2>2
  <2> QED BY <2>3 DEF Jumps
<1> HIDE DEF h
<1>5. \E f : IsFrom(f)
  BY <1>4
<1> HIDE DEF All, IsFrom
<1>6. ASSUME NEW from, IsFrom(from)
      PROVE  from[a] = All(a)
  <2> DEFINE r == Jumps(from, a, b, to, G)
  <2>8. \A p \in a..b : r[p] = IF p = b THEN {} ELSE G[p] \cup from[to[p]]
    BY DEF Jumps
  <2>9. from = r
    BY <1>6 DEF IsFrom
  <2> HIDE DEF r
  <2>10. \A p \in a..b : from[p] = IF p = b THEN {} ELSE G[p] \cup from[to[p]]
    BY <2>8, <2>9
  <2> DEFINE Bad == {d \in 0..(b - a) : from[b - d] # All(b - d)}
  <2>0. Bad = {}
    <3>1. SUFFICES ASSUME Bad # {} PROVE FALSE
      OBVIOUS
    <3>2. Bad \subseteq Nat
      OBVIOUS
    <3>3. PICK d \in Bad : \A e \in Bad : d <= e
      BY <3>1, <3>2, SmallestOfSet
    <3>4. d \in 0..(b - a) /\ b - d \in a..b /\ from[b - d] # All(b - d)
      OBVIOUS
    <3>5. b - d # b
      <4>1. b \in a..b
        OBVIOUS
      <4> QED BY <1>1, <2>10, <3>4, <4>1
    <3>6. b - d \in a..(b - 1)
      BY <3>4, <3>5
    <3>7. /\ to[b - d] \in (b - d + 1)..b /\ All(b - d) = G[b - d] \cup All(to[b - d])
          /\ from[b - d] = G[b - d] \cup from[to[b - d]]
      BY <1>2, <2>10, <3>4, <3>5, <3>6 DEF JumpsFit
    <3>8. PICK e \in 0..(b - a) : e < d /\ b - e = to[b - d]
      <4>1. b - to[b - d] \in 0..(b - a) /\ b - to[b - d] < d /\ b - (b - to[b - d]) = to[b - d]
        BY <3>4, <3>7
      <4> QED BY <4>1
    <3>9. from[to[b - d]] = All(to[b - d])
      <4>1. e \notin Bad
        BY <3>3, <3>4, <3>8
      <4> QED BY <3>8, <4>1
    <3> QED BY <3>4, <3>7, <3>9
  <2>1. b - a \in 0..(b - a) /\ b - (b - a) = a
    OBVIOUS
  <2> QED BY <2>0, <2>1
<1> QED BY <1>5, <1>6 DEF All, IsFrom

(* What is between two entries of a run in a sorted index is of that run,  *)
(* and what is between two of a subrun is of that subrun.                  *)
LEMMA Between ==
  ASSUME NEW a \in ID, NEW b \in ID, NEW c \in ID, ~ Before(b, a), ~ Before(c, b)
  PROVE  /\ RunOf(a) = RunOf(c) => RunOf(b) = RunOf(a) /\ a.subRun <= b.subRun
         /\ SubRunOf(a) = SubRunOf(c) => SubRunOf(b) = SubRunOf(a) /\ a.event <= b.event
<1>1. /\ a.run \in Nat /\ a.subRun \in Nat /\ a.event \in Nat
      /\ b.run \in Nat /\ b.subRun \in Nat /\ b.event \in Nat
      /\ c.run \in Nat /\ c.subRun \in Nat /\ c.event \in Nat
  BY DEF ID
<1>2. \A x, y \in ID : RunOf(x) = RunOf(y) <=> x.run = y.run
  BY DEF RunOf, RunEntry
<1>3. \A x, y \in ID : SubRunOf(x) = SubRunOf(y) <=> x.run = y.run /\ x.subRun = y.subRun
  BY DEF SubRunOf, SubRunEntry
<1> QED BY <1>1, <1>2, <1>3 DEF Before

LEMMA EntryParts ==
  ASSUME NEW id \in ID
  PROVE  /\ RunOf(SubRunOf(id)) = RunOf(id) /\ SubRunOf(id) \in ID /\ RunOf(id) \in ID
         /\ SubRunOf(id).run = id.run /\ SubRunOf(id).subRun = id.subRun
         /\ SubRunOf(id).event = 0 /\ SubRunOf(SubRunOf(id)) = SubRunOf(id)
         /\ id.subRun # 0 => EntryType(SubRunOf(id)) = "SubRun"
         /\ EntryType(id) = "Event" <=> id.event # 0
         /\ EntryType(id) = "SubRun" => id.subRun # 0 /\ SubRunOf(id) = id
         /\ id = EventEntry(id.run, id.subRun, id.event)
BY DEF RunOf, SubRunOf, RunEntry, SubRunEntry, EventEntry, EntryType, ID

LEMMA SameRunAsSubRun ==
  ASSUME NEW a \in ID, NEW b \in ID, SubRunOf(a) = SubRunOf(b)
  PROVE  RunOf(a) = RunOf(b) /\ a.subRun = b.subRun
BY DEF RunOf, SubRunOf, RunEntry, SubRunEntry

(* The events of a subrun come after the first subrun of its run.          *)
LEMMA AfterFirstSubRun ==
  ASSUME NEW ix \in Seq(ID), Nested(ix), NEW t \in Events(ix)
  PROVE  LET first == NextSubRunInRun(ix, 1, RunOf(ix[t])) IN
         /\ first \in DOMAIN ix /\ first < t /\ ix[t].subRun # 0 /\ ix[t] \in ID
         /\ EntryType(ix[first]) = "SubRun" /\ RunOf(ix[first]) = RunOf(ix[t])
<1> DEFINE run == RunOf(ix[t])
           S == {p \in 1..Len(ix) : EntryType(ix[p]) = "SubRun" /\ RunOf(ix[p]) = run}
<1>1. t \in DOMAIN ix /\ DOMAIN ix = 1..Len(ix) /\ Len(ix) \in Nat /\ ix[t] \in ID /\ EntryType(ix[t]) = "Event"
  BY DEF Events
<1>2. PICK u \in 1..(t - 1) : ix[t].subRun # 0 /\ ix[u] = SubRunOf(ix[t])
  BY <1>1 DEF Nested
<1>3. EntryType(ix[u]) = "SubRun" /\ RunOf(ix[u]) = run
  BY <1>1, <1>2, EntryParts
<1>4. u \in 1..Len(ix) /\ u < t
  BY <1>1, <1>2
<1>5. u \in S /\ S \in SUBSET DOMAIN ix
  BY <1>1, <1>3, <1>4
<1>6. FirstOf(ix, S) \in S /\ FirstOf(ix, S) <= u
  <2> HIDE DEF S
  <2> QED BY <1>5, FirstOfSequence
<1>7. NextSubRunInRun(ix, 1, run) = FirstOf(ix, S)
  BY DEF NextSubRunInRun
<1>8. FirstOf(ix, S) < t
  <2>1. FirstOf(ix, S) \in Nat
    BY <1>6
  <2> HIDE DEF S
  <2> QED BY <1>1, <1>4, <1>6, <2>1
<1> QED BY <1>1, <1>2, <1>6, <1>7, <1>8

(* The range set of a subrun has just its events, whatever else the index  *)
(* holds; with compactRanges it has these and nothing that is not of the   *)
(* subrun and between two of them.                                         *)
LEMMA EventsOfSubRunFound ==
  ASSUME NEW ix \in Seq(ID), Sorted(ix), Nested(ix), NEW s, s \in ID, EntryType(s) = "SubRun"
  PROVE  /\ OfSubRun(ix, s, FALSE) = EventsOfSubRun(ix, s)
         /\ EventsOfSubRun(ix, s) \subseteq OfSubRun(ix, s, TRUE)
         /\ \A id \in OfSubRun(ix, s, TRUE) :
              /\ SubRunOf(id) = s
              /\ \E a, b \in EventsOfSubRun(ix, s) : ~ Before(id, a) /\ ~ Before(b, id)
<1> DEFINE T == {p \in Events(ix) : SubRunOf(ix[p]) = s}
           begin == NextSubRunInRun(ix, 1, RunOf(s))
           first == NextEventInSubRun(ix, begin, s)
           stop == EndOfEvents(ix, first, s)
<1>1. DOMAIN ix = 1..Len(ix) /\ Len(ix) \in Nat /\ \A p \in DOMAIN ix : ix[p] \in ID
  OBVIOUS
<1>2. \A p \in T : p \in 1..Len(ix) /\ EntryType(ix[p]) = "Event" /\ SubRunOf(ix[p]) = s /\ ix[p] \in ID
  BY <1>1 DEF Events
<1>3. \A p \in 1..Len(ix) : EntryType(ix[p]) = "Event" /\ SubRunOf(ix[p]) = s => p \in T
  BY <1>1 DEF Events
<1>4. SubRunOf(s) = s /\ s.event = 0 /\ s.subRun # 0
  BY EntryParts DEF EntryType
<1>5. ASSUME NEW t \in T PROVE begin \in DOMAIN ix /\ begin < t
  <2>1. RunOf(ix[t]) = RunOf(s)
    BY <1>2, <1>4, SameRunAsSubRun
  <2>2. t \in Events(ix)
    OBVIOUS
  <2> QED BY <2>1, <2>2, AfterFirstSubRun
<1>6. begin \in 1..End(ix)
  <2> DEFINE S == {p \in 1..Len(ix) : EntryType(ix[p]) = "SubRun" /\ RunOf(ix[p]) = RunOf(s)}
  <2>1. S \in SUBSET DOMAIN ix /\ begin = FirstOf(ix, S)
    BY <1>1 DEF NextSubRunInRun
  <2> HIDE DEF S, begin
  <2> QED BY <2>1, FirstOfSequence
<1>7. first = FirstOf(ix, T) /\ T \in SUBSET DOMAIN ix
  <2> HIDE DEF begin
  <2>1. {p \in begin..Len(ix) : EntryType(ix[p]) = "Event" /\ SubRunOf(ix[p]) = s} = T
    <3> HIDE DEF T
    <3> QED BY <1>1, <1>2, <1>3, <1>5, <1>6 DEF End
  <2> QED BY <1>1, <1>2, <2>1 DEF NextEventInSubRun
<1> HIDE DEF T, begin, first, stop
<1>8. EventsOfSubRun(ix, s) = {ix[p] : p \in T}
  BY DEF EventsOfSubRun, T
<1>9. CASE T = {}
  <2>1. first = End(ix)
    BY <1>7, <1>9 DEF FirstOf
  <2>2. \A c \in BOOLEAN : OfSubRun(ix, s, c) = {}
    BY <2>1 DEF OfSubRun, first, begin
  <2>3. EventsOfSubRun(ix, s) = {}
    BY <1>8, <1>9
  <2> QED BY <2>2, <2>3
<1>10. CASE T # {}
  <2>1. first \in T /\ \A q \in T : first <= q
    BY <1>7, <1>10, FirstOfSequence
  <2>2. first \in 1..Len(ix) /\ first # End(ix)
    BY <1>1, <1>2, <2>1 DEF End
  <2> DEFINE N == {p \in first..Len(ix) : ~ (EntryType(ix[p]) = "Event" /\ SubRunOf(ix[p]) = s)}
  <2>3. stop = FirstOf(ix, N) /\ N \in SUBSET DOMAIN ix
    BY <1>1, <2>2 DEF EndOfEvents, stop
  <2>4. /\ stop \in 1..End(ix) /\ (stop = End(ix) \/ stop \in N) /\ \A q \in N : stop <= q
    <3> HIDE DEF N
    <3> QED BY <2>3, FirstOfSequence
  <2>5. ASSUME NEW p \in first..Len(ix), p < stop PROVE p \in T
    <3>1. p \notin N /\ p \in 1..Len(ix)
      BY <1>1, <2>2, <2>4, <2>5
    <3> QED BY <1>3, <3>1
  <2>6. ASSUME NEW p \in T PROVE first <= p /\ p < stop
    <3>1. SUFFICES ASSUME ~ (p < stop) PROVE FALSE
      BY <2>1
    <3>2. stop \in N /\ first \in DOMAIN ix /\ stop \in DOMAIN ix /\ p \in DOMAIN ix /\ stop <= p /\ first <= stop
      <4>1. p \in 1..Len(ix)
        BY <1>2
      <4>2. stop # End(ix) /\ stop <= p
        BY <1>1, <2>4, <3>1, <4>1 DEF End
      <4>3. stop \in first..Len(ix)
        BY <2>4, <4>2
      <4> QED BY <1>1, <2>2, <2>4, <4>1, <4>2, <4>3
    <3>3. ~ Before(ix[stop], ix[first]) /\ ~ Before(ix[p], ix[stop])
      <4>1. \A m, n \in DOMAIN ix : m <= n => ~ Before(ix[n], ix[m])
        <5>1. \A id \in ID : ~ Before(id, id)
          BY DEF Before, ID
        <5> QED BY <1>1, <5>1 DEF Sorted
      <4> QED BY <3>2, <4>1
    <3>4. /\ ix[first] \in ID /\ ix[stop] \in ID /\ ix[p] \in ID /\ SubRunOf(ix[first]) = s
          /\ SubRunOf(ix[p]) = s /\ EntryType(ix[first]) = "Event"
      BY <1>1, <1>2, <2>1, <3>2
    <3>5. SubRunOf(ix[stop]) = s /\ ix[first].event <= ix[stop].event
      BY <3>3, <3>4, Between
    <3>6. EntryType(ix[stop]) = "Event"
      <4>1. ix[first].event # 0 /\ ix[first].event \in Nat /\ ix[stop].event \in Nat
        BY <3>4, EntryParts DEF ID
      <4>2. ix[stop].event # 0
        BY <3>5, <4>1
      <4> QED BY <3>4, <4>2, EntryParts
    <3> QED BY <3>2, <3>5, <3>6
  <2> DEFINE last == stop - 1
  <2>7. /\ first \in Nat /\ last \in Nat /\ first <= last /\ last \in T
        /\ \A p : p \in first..last <=> p \in T
    <3>1. first < stop /\ stop \in Nat /\ first \in Nat
      BY <2>1, <2>2, <2>4, <2>6
    <3>2. last \in Nat /\ first <= last /\ last < stop /\ last \in first..Len(ix)
      BY <1>1, <2>2, <2>4, <3>1 DEF End
    <3>3. ASSUME NEW p \in first..last PROVE p \in T
      <4>1. p < stop /\ p \in first..Len(ix)
        BY <3>1, <3>2, <3>3
      <4> QED BY <2>5, <4>1
    <3>4. ASSUME NEW p \in T PROVE p \in first..last
      <4>1. p \in 1..Len(ix) /\ first <= p /\ p < stop
        BY <1>2, <2>6
      <4> QED BY <3>1, <4>1
    <3>5. last \in first..last
      BY <3>1, <3>2
    <3> QED BY <3>1, <3>2, <3>3, <3>4, <3>5
  <2>8. /\ OfSubRun(ix, s, FALSE) = {ix[p] : p \in first..last}
        /\ OfSubRun(ix, s, TRUE) = {EventEntry(s.run, s.subRun, n) : n \in ix[first].event..ix[last].event}
    BY <2>2 DEF OfSubRun, first, stop, begin
  <2> HIDE DEF last
  <2>9. OfSubRun(ix, s, FALSE) = EventsOfSubRun(ix, s)
    BY <1>8, <2>7, <2>8
  <2>10. ASSUME NEW p \in T
         PROVE  /\ ix[p] = EventEntry(s.run, s.subRun, ix[p].event) /\ ix[p].event \in Nat
                /\ ix[first].event <= ix[p].event /\ ix[p].event <= ix[last].event
    <3>1. /\ ix[p] \in ID /\ ix[first] \in ID /\ ix[last] \in ID
          /\ SubRunOf(ix[p]) = s /\ SubRunOf(ix[first]) = s /\ SubRunOf(ix[last]) = s
          /\ p \in DOMAIN ix /\ first \in DOMAIN ix /\ last \in DOMAIN ix
      BY <1>1, <1>2, <2>1, <2>7
    <3>2. first <= p /\ p <= last
      BY <2>7
    <3>3. ~ Before(ix[p], ix[first]) /\ ~ Before(ix[last], ix[p])
      <4>1. \A m, n \in DOMAIN ix : m <= n => ~ Before(ix[n], ix[m])
        <5>1. \A id \in ID : ~ Before(id, id)
          BY DEF Before, ID
        <5> QED BY <1>1, <5>1 DEF Sorted
      <4> QED BY <3>1, <3>2, <4>1
    <3>4. ix[first].event <= ix[p].event
      BY <3>1, <3>3, Between
    <3>5. ix[p].event <= ix[last].event
      <4>1. ix[p].run = ix[last].run /\ ix[p].subRun = ix[last].subRun
        BY <3>1 DEF SubRunOf, SubRunEntry
      <4>2. ix[p].event \in Nat /\ ix[last].event \in Nat
        BY <3>1 DEF ID
      <4> QED BY <3>3, <4>1, <4>2 DEF Before
    <3>6. ix[p] = EventEntry(s.run, s.subRun, ix[p].event)
      BY <3>1, EntryParts
    <3> QED BY <3>1, <3>4, <3>5, <3>6 DEF ID
  <2>11. /\ ix[first].event \in Nat /\ ix[last].event \in Nat /\ ix[first].event # 0
         /\ ix[first] \in EventsOfSubRun(ix, s) /\ ix[last] \in EventsOfSubRun(ix, s)
         /\ s.run \in Nat \ {0} /\ s.subRun \in Nat
    <3>1. ix[first] \in ID /\ EntryType(ix[first]) = "Event"
      BY <1>2, <2>1
    <3> QED BY <1>8, <2>1, <2>7, <2>10, <3>1 DEF ID, EntryType
  <2>12. EventsOfSubRun(ix, s) \subseteq OfSubRun(ix, s, TRUE)
    <3>1. ASSUME NEW p \in T PROVE ix[p] \in OfSubRun(ix, s, TRUE)
      <4>1. ix[p].event \in ix[first].event..ix[last].event
        BY <2>10, <2>11
      <4> QED BY <2>8, <2>10, <4>1
    <3> QED BY <1>8, <3>1
  <2>13. ASSUME NEW id \in OfSubRun(ix, s, TRUE)
         PROVE  /\ SubRunOf(id) = s /\ id \in ID
                /\ ~ Before(id, ix[first]) /\ ~ Before(ix[last], id)
    <3>1. PICK n \in ix[first].event..ix[last].event : id = EventEntry(s.run, s.subRun, n)
      BY <2>8
    <3>2. n \in Nat /\ ix[first].event <= n /\ n <= ix[last].event
      BY <2>11
    <3>3. /\ ix[first] = EventEntry(s.run, s.subRun, ix[first].event)
          /\ ix[last] = EventEntry(s.run, s.subRun, ix[last].event)
      BY <2>1, <2>7, <2>10
    <3>4. id.run = s.run /\ id.subRun = s.subRun /\ id.event = n /\ id \in ID
      BY <2>11, <3>1, <3>2 DEF EventEntry, ID
    <3>5. SubRunOf(id) = s
      BY <1>4, <3>4 DEF SubRunOf
    <3>6. /\ ix[first].run = s.run /\ ix[first].subRun = s.subRun
          /\ ix[last].run = s.run /\ ix[last].subRun = s.subRun
      BY <3>3 DEF EventEntry
    <3>7. ~ Before(id, ix[first]) /\ ~ Before(ix[last], id)
      BY <2>11, <3>2, <3>4, <3>6 DEF Before
    <3> QED BY <3>4, <3>5, <3>7
  <2> QED BY <2>9, <2>11, <2>12, <2>13
<1> QED BY <1>9, <1>10

(* OfRun, jumping from subrun to subrun, leaves out no event of the run:   *)
(* its ranges have just these, and with compactRanges nothing that is not  *)
(* of the run and between two events of it, the first of its own subrun.   *)
LEMMA EventsOfRunFound ==
  ASSUME NEW ix \in Seq(ID), Sorted(ix), Nested(ix), NEW run \in ID, RunOf(run) = run
  PROVE  /\ OfRun(ix, run, FALSE) = EventsOfRun(ix, run)
         /\ EventsOfRun(ix, run) \subseteq OfRun(ix, run, TRUE)
         /\ \A id \in OfRun(ix, run, TRUE) :
              /\ RunOf(id) = run
              /\ \E a, b \in EventsOfRun(ix, run) :
                   SubRunOf(a) = SubRunOf(id) /\ ~ Before(id, a) /\ ~ Before(b, id)
<1> DEFINE first == NextSubRunInRun(ix, 1, run)
           stop == EndOfRun(ix, first, run)
           S == {p \in 1..Len(ix) : EntryType(ix[p]) = "SubRun" /\ RunOf(ix[p]) = run}
           N == {p \in first..Len(ix) : RunOf(ix[p]) # run}
           Own == {p \in Events(ix) : RunOf(ix[p]) = run}
           Sub(p) == SubRunOf(ix[p])
<1>1. DOMAIN ix = 1..Len(ix) /\ Len(ix) \in Nat /\ \A p \in DOMAIN ix : ix[p] \in ID
  OBVIOUS
<1>2. /\ first \in 1..End(ix) /\ (first = End(ix) \/ first \in S)
  <2>1. S \in SUBSET DOMAIN ix /\ first = FirstOf(ix, S)
    BY <1>1 DEF NextSubRunInRun
  <2> HIDE DEF S, first
  <2> QED BY <2>1, FirstOfSequence
<1>3. /\ stop \in first..End(ix) /\ (stop = End(ix) \/ stop \in N)
      /\ \A p \in first..Len(ix) : p < stop => RunOf(ix[p]) = run
  <2>1. N \in SUBSET DOMAIN ix /\ stop = FirstOf(ix, N)
    <3> HIDE DEF first
    <3> QED BY <1>1, <1>2 DEF EndOfRun, End
  <2> HIDE DEF stop, first
  <2>2. stop \in 1..End(ix) /\ (stop = End(ix) \/ stop \in N) /\ \A q \in N : stop <= q
    <3> HIDE DEF N
    <3> QED BY <2>1, FirstOfSequence
  <2>3. stop \in first..End(ix)
    BY <1>1, <1>2, <2>2 DEF End
  <2>4. \A p \in first..Len(ix) : p < stop => p \notin N
    <3> HIDE DEF N
    <3>1. \A p \in first..Len(ix) : p \in Nat
      BY <1>2, <1>1 DEF End
    <3> QED BY <2>2, <3>1
  <2> QED BY <2>2, <2>3, <2>4
<1>4. ASSUME NEW t \in Own
      PROVE  /\ first \in DOMAIN ix /\ first < t /\ t \in DOMAIN ix /\ ix[t].subRun # 0
             /\ EntryType(ix[first]) = "SubRun" /\ RunOf(ix[first]) = run
  <2>1. t \in Events(ix) /\ RunOf(ix[t]) = run
    OBVIOUS
  <2>2. t \in DOMAIN ix
    BY <2>1 DEF Events
  <2> QED BY <2>1, <2>2, AfterFirstSubRun
<1> HIDE DEF first, stop
<1>5. \A m, n \in DOMAIN ix : m <= n => ~ Before(ix[n], ix[m])
  <2>1. \A id \in ID : ~ Before(id, id)
    BY DEF Before, ID
  <2> QED BY <1>1, <2>1 DEF Sorted
(* Every event of the run is between first and stop. *)
<1>6. ASSUME NEW t \in Own PROVE t \in first..(stop - 1)
  <2>1. first < t /\ t \in DOMAIN ix /\ first \in DOMAIN ix /\ RunOf(ix[first]) = run /\ RunOf(ix[t]) = run
    BY <1>4
  <2>2. SUFFICES ASSUME stop <= t PROVE FALSE
    BY <1>1, <1>2, <1>3, <2>1 DEF End
  <2>3. stop \in N /\ stop \in DOMAIN ix /\ first <= stop
    BY <1>1, <1>2, <1>3, <2>1, <2>2 DEF End
  <2>4. ~ Before(ix[stop], ix[first]) /\ ~ Before(ix[t], ix[stop])
    <3> HIDE DEF N, Own
    <3> QED BY <1>5, <2>1, <2>2, <2>3
  <2>5. RunOf(ix[stop]) = run
    <3>1. ix[first] \in ID /\ ix[stop] \in ID /\ ix[t] \in ID
      BY <1>1, <2>1, <2>3
    <3> QED BY <2>1, <2>4, <3>1, Between
  <2> QED BY <2>3, <2>5
(* What is between them is of the run and of one of its subruns. *)
<1>7. ASSUME NEW p \in first..(stop - 1)
      PROVE  /\ p \in DOMAIN ix /\ RunOf(ix[p]) = run /\ ix[p] \in ID
             /\ Sub(p) \in ID /\ EntryType(Sub(p)) = "SubRun"
  <2>1. p \in DOMAIN ix /\ p \in first..Len(ix) /\ p < stop /\ first \in DOMAIN ix /\ first <= p /\ first # End(ix)
    BY <1>1, <1>2, <1>3 DEF End
  <2>2. RunOf(ix[p]) = run /\ EntryType(ix[first]) = "SubRun" /\ RunOf(ix[first]) = run
    BY <1>2, <1>3, <2>1
  <2>3. ix[first] \in ID /\ ix[p] \in ID /\ ~ Before(ix[p], ix[first])
    BY <1>1, <1>5, <2>1
  <2>4. ix[p].subRun # 0
    <3>1. ix[first].run = ix[p].run
      BY <2>2 DEF RunOf, RunEntry
    <3>2. ix[first].subRun # 0
      BY <2>2 DEF EntryType
    <3>3. ix[first].subRun \in Nat /\ ix[p].subRun \in Nat
      BY <2>3 DEF ID
    <3> QED BY <2>3, <3>1, <3>2, <3>3 DEF Before
  <2> QED BY <2>1, <2>2, <2>3, <2>4, EntryParts
(* The search for the end of a subrun goes forward, and not beyond stop. *)
<1>8. ASSUME NEW p \in first..(stop - 1)
      PROVE  /\ EndOfSubRun(ix, p, Sub(p)) \in (p + 1)..stop
             /\ \A q \in p..(EndOfSubRun(ix, p, Sub(p)) - 1) : Sub(q) = Sub(p)
  <2> DEFINE D == {q \in p..Len(ix) : SubRunOf(ix[q]) # Sub(p)}
             d == EndOfSubRun(ix, p, Sub(p))
  <2>1. D \in SUBSET DOMAIN ix /\ d = FirstOf(ix, D)
    BY <1>1, <1>7 DEF EndOfSubRun
  <2> HIDE DEF d
  <2>2. d \in 1..End(ix) /\ (d = End(ix) \/ d \in D) /\ \A q \in D : d <= q
    <3> HIDE DEF D
    <3> QED BY <2>1, FirstOfSequence
  <2>3. p \in DOMAIN ix /\ p \in 1..Len(ix) /\ p < stop /\ RunOf(ix[p]) = run /\ stop \in 1..End(ix)
    BY <1>1, <1>2, <1>3, <1>7 DEF End
  <2>4. d # p /\ p <= d
    <3>1. d # p
      BY <1>1, <2>2, <2>3 DEF End
    <3>2. p <= d
      BY <1>1, <2>2, <2>3 DEF End
    <3> QED BY <3>1, <3>2
  <2>5. d <= stop
    <3>1. CASE stop = End(ix)
      BY <1>1, <2>2, <3>1 DEF End
    <3>2. CASE stop \in N
      <4>1. stop \in p..Len(ix) /\ RunOf(ix[stop]) # run /\ stop \in DOMAIN ix
        BY <1>1, <1>2, <2>3, <3>2 DEF End
      <4>2. SubRunOf(ix[stop]) # Sub(p)
        <5>1. ix[stop] \in ID /\ ix[p] \in ID
          BY <1>1, <2>3, <4>1
        <5> QED BY <2>3, <4>1, <5>1, SameRunAsSubRun
      <4> QED BY <2>2, <4>1, <4>2
    <3> QED BY <1>3, <3>1, <3>2
  <2>6. ASSUME NEW q \in p..(d - 1) PROVE Sub(q) = Sub(p)
    <3>1. q \in p..Len(ix) /\ q < d /\ d \in Nat /\ q \in Nat
      BY <1>1, <2>2, <2>3 DEF End
    <3>2. q \notin D
      <4> HIDE DEF D
      <4> QED BY <2>2, <3>1
    <3> QED BY <3>1, <3>2
  <2>7. d \in (p + 1)..stop
    BY <1>1, <2>2, <2>3, <2>4, <2>5 DEF End
  <2> QED BY <2>6, <2>7 DEF d
<1> DEFINE to == [p \in first..(stop - 1) |-> EndOfSubRun(ix, p, Sub(p))]
           G(c) == [p \in first..(stop - 1) |-> OfSubRun(ix, Sub(p), c)]
           IsFrom(f, c) == f = [p \in first..stop |->
             IF p = stop THEN {} ELSE LET subRun == SubRunOf(ix[p]) IN
               OfSubRun(ix, subRun, c) \cup f[EndOfSubRun(ix, p, subRun)]]
<1>9. first \in Nat /\ stop \in Nat /\ first <= stop
  BY <1>1, <1>2, <1>3 DEF End
<1>10. ASSUME NEW c \in BOOLEAN
       PROVE  OfRun(ix, run, c) = UNION {OfSubRun(ix, Sub(p), c) : p \in first..(stop - 1)}
  <2> DEFINE g == G(c)
             JumpsOf(f) == Jumps(f, first, stop, to, g)
             from == CHOOSE f : IsFrom(f, c)
  <2>1. JumpsFit(first, stop, to, g)
    <3>1. ASSUME NEW p \in first..(stop - 1)
          PROVE  to[p] \in (p + 1)..stop /\ \A q \in p..(to[p] - 1) : g[q] = g[p]
      <4>1. to[p] = EndOfSubRun(ix, p, Sub(p))
        OBVIOUS
      <4> HIDE DEF to, Sub, g
      <4>2. to[p] \in (p + 1)..stop /\ \A q \in p..(to[p] - 1) : Sub(q) = Sub(p)
        BY <1>8, <4>1
      <4>3. \A q \in p..(to[p] - 1) : q \in first..(stop - 1)
        BY <1>9, <4>2
      <4> QED BY <4>2, <4>3 DEF g
    <3> HIDE DEF to, g
    <3> QED BY <3>1 DEF JumpsFit
  <2>2. ASSUME NEW f PROVE JumpsOf(f) = [p \in first..stop |->
             IF p = stop THEN {} ELSE LET subRun == SubRunOf(ix[p]) IN
               OfSubRun(ix, subRun, c) \cup f[EndOfSubRun(ix, p, subRun)]]
    <3>1. ASSUME NEW p \in first..stop, p # stop
          PROVE  g[p] = OfSubRun(ix, SubRunOf(ix[p]), c) /\ to[p] = EndOfSubRun(ix, p, SubRunOf(ix[p]))
      <4>1. p \in first..(stop - 1)
        BY <1>9, <3>1
      <4> QED BY <4>1
    <3> HIDE DEF g, to
    <3> QED BY <3>1 DEF Jumps
  <2> HIDE DEF g, to
  <2>3. /\ \E f : f = JumpsOf(f)
        /\ \A f : f = JumpsOf(f) => f[first] = UNION {g[p] : p \in first..(stop - 1)}
    <3> HIDE DEF JumpsOf
    <3>1. \A f : JumpsOf(f) = Jumps(f, first, stop, to, g)
      BY DEF JumpsOf
    <3> QED BY <1>9, <2>1, <3>1, JumpsVisitAll
  <2>4. \E f : IsFrom(f, c)
    <3>1. PICK f : f = JumpsOf(f)
      BY <2>3
    <3>2. IsFrom(f, c)
      <4> HIDE DEF JumpsOf
      <4> QED BY <2>2, <3>1
    <3> HIDE DEF IsFrom
    <3> QED BY <3>2
  <2>5. IsFrom(from, c)
    <3> HIDE DEF IsFrom
    <3> QED BY <2>4
  <2>6. OfRun(ix, run, c) = from[first]
    BY DEF OfRun, first, stop
  <2> HIDE DEF from
  <2>7. from = JumpsOf(from)
    <3> HIDE DEF JumpsOf
    <3> QED BY <2>2, <2>5
  <2>9. from[first] = UNION {g[p] : p \in first..(stop - 1)}
    BY <2>3, <2>7
  <2>10. \A p \in first..(stop - 1) : g[p] = OfSubRun(ix, Sub(p), c)
    BY DEF g
  <2> QED BY <2>6, <2>9, <2>10
<1> HIDE DEF to, G, IsFrom
<1>11. ASSUME NEW p \in first..(stop - 1)
       PROVE  /\ OfSubRun(ix, Sub(p), FALSE) = EventsOfSubRun(ix, Sub(p))
              /\ EventsOfSubRun(ix, Sub(p)) \subseteq OfSubRun(ix, Sub(p), TRUE)
              /\ \A id \in OfSubRun(ix, Sub(p), TRUE) :
                   /\ SubRunOf(id) = Sub(p)
                   /\ \E a, b \in EventsOfSubRun(ix, Sub(p)) : ~ Before(id, a) /\ ~ Before(b, id)
  <2> HIDE DEF Sub
  <2>1. Sub(p) \in ID /\ EntryType(Sub(p)) = "SubRun"
    BY <1>7
  <2> QED BY <2>1, EventsOfSubRunFound
<1>12. ASSUME NEW p \in first..(stop - 1) PROVE EventsOfSubRun(ix, Sub(p)) \subseteq EventsOfRun(ix, run)
  <2>1. ASSUME NEW q \in Events(ix), SubRunOf(ix[q]) = Sub(p) PROVE RunOf(ix[q]) = run
    <3>1. ix[q] \in ID /\ ix[p] \in ID /\ RunOf(ix[p]) = run
      BY <1>1, <1>7 DEF Events
    <3> QED BY <2>1, <3>1, SameRunAsSubRun
  <2> QED BY <2>1 DEF EventsOfSubRun, EventsOfRun
<1>13. ASSUME NEW id \in EventsOfRun(ix, run)
       PROVE  \E p \in first..(stop - 1) : id \in EventsOfSubRun(ix, Sub(p))
  <2>1. PICK t \in Own : id = ix[t]
    BY DEF EventsOfRun
  <2>2. t \in first..(stop - 1) /\ t \in Events(ix)
    BY <1>6, <2>1
  <2>3. id \in EventsOfSubRun(ix, Sub(t))
    BY <2>1, <2>2 DEF EventsOfSubRun
  <2> QED BY <2>2, <2>3
<1> HIDE DEF Own, N, S
<1>14. OfRun(ix, run, FALSE) = EventsOfRun(ix, run)
  <2>1. OfRun(ix, run, FALSE) = UNION {OfSubRun(ix, Sub(p), FALSE) : p \in first..(stop - 1)}
    BY <1>10
  <2> HIDE DEF Sub
  <2>2. ASSUME NEW id \in OfRun(ix, run, FALSE) PROVE id \in EventsOfRun(ix, run)
    BY <1>11, <1>12, <2>1
  <2>3. ASSUME NEW id \in EventsOfRun(ix, run) PROVE id \in OfRun(ix, run, FALSE)
    <3>1. PICK p \in first..(stop - 1) : id \in EventsOfSubRun(ix, Sub(p))
      BY <1>13
    <3> QED BY <1>11, <2>1, <3>1
  <2> QED BY <2>2, <2>3
<1>17. OfRun(ix, run, TRUE) = UNION {OfSubRun(ix, Sub(p), TRUE) : p \in first..(stop - 1)}
  BY <1>10
<1>15. EventsOfRun(ix, run) \subseteq OfRun(ix, run, TRUE)
  <2> HIDE DEF Sub
  <2>1. ASSUME NEW id \in EventsOfRun(ix, run) PROVE id \in OfRun(ix, run, TRUE)
    <3>1. PICK p \in first..(stop - 1) : id \in EventsOfSubRun(ix, Sub(p))
      BY <1>13
    <3>2. id \in OfSubRun(ix, Sub(p), TRUE)
      BY <1>11, <3>1
    <3> QED BY <1>17, <3>2
  <2> QED BY <2>1
<1>16. ASSUME NEW id \in OfRun(ix, run, TRUE)
       PROVE  /\ RunOf(id) = run
              /\ \E a, b \in EventsOfRun(ix, run) :
                   SubRunOf(a) = SubRunOf(id) /\ ~ Before(id, a) /\ ~ Before(b, id)
  <2>1. PICK p \in first..(stop - 1) : id \in OfSubRun(ix, Sub(p), TRUE)
    BY <1>17
  <2>2. SubRunOf(id) = Sub(p)
    BY <1>11, <2>1
  <2>3. PICK a \in EventsOfSubRun(ix, Sub(p)), b \in EventsOfSubRun(ix, Sub(p)) :
          ~ Before(id, a) /\ ~ Before(b, id)
    BY <1>11, <2>1
  <2>4. RunOf(id) = run
    <3>1. id.run = ix[p].run
      BY <2>2 DEF SubRunOf, SubRunEntry
    <3> QED BY <1>7, <3>1 DEF RunOf
  <2>5. SubRunOf(a) = SubRunOf(id)
    BY <2>2, <2>3 DEF EventsOfSubRun
  <2> QED BY <1>12, <2>3, <2>4, <2>5
<1> QED BY <1>14, <1>15, <1>16
=============================================================================
