-------------------------- MODULE OutputFile_proofs --------------------------
(***************************************************************************)
(* What holds of the output files for every set of products and every job. *)
(***************************************************************************)
EXTENDS OutputFile, FileIndex_proofs, FiniteSetTheorems

LEMMA Ranks ==
  /\ Rank("Event") = 1 /\ Rank("SubRun") = 2 /\ Rank("Run") = 3
  /\ Rank("InputFile") = 4 /\ Rank("Never") = 5
<1>1. DOMAIN Granularities = 1..5
  BY DEF Granularities
<1>2. /\ Granularities[1] = "Event" /\ Granularities[2] = "SubRun" /\ Granularities[3] = "Run"
      /\ Granularities[4] = "InputFile" /\ Granularities[5] = "Never"
  BY DEF Granularities
<1>3. \A n \in 1..5 : n = 1 \/ n = 2 \/ n = 3 \/ n = 4 \/ n = 5
  OBVIOUS
<1> QED BY <1>1, <1>2, <1>3 DEF Rank

(* The parts of a job and of its inputs. *)
LEMMA JobType ==
  ASSUME job \in Jobs
  PROVE  /\ job.inputs \in Seq(Input) /\ Len(job.inputs) \in Nat
         /\ DOMAIN job.inputs = 1..Len(job.inputs)
         /\ job.selected \in SUBSET ID /\ job.nschedules \in Nat \ {0}
         /\ job.wantAllEvents \in BOOLEAN /\ job.dropMetaData \in {"NONE", "PRIOR", "ALL"}
         /\ job.wantAllEvents =>
              \A i \in 1..Len(job.inputs) : EventsOf(job.inputs[i]) \subseteq job.selected
<1>1. job \in Job
  BY JobsAssumption
<1>2. job.inputs \in Seq(Input)
  BY <1>1 DEF Job
<1> QED BY <1>1, <1>2, JobsAssumption DEF Job

LEMMA InputType ==
  ASSUME NEW f \in Input
  PROVE  /\ f.entries \in Seq(ID) /\ Len(f.entries) \in Nat
         /\ DOMAIN f.entries = 1..Len(f.entries)
         /\ f.tree \in Seq(ID) /\ Len(f.tree) \in Nat
         /\ f.products \subseteq Products /\ f.described \subseteq Products
         /\ f.children \subseteq Products \X Products
         /\ Present(f) \subseteq Products /\ Described(f) \subseteq Products
<1>1. f.entries \in Seq(ID) /\ f.tree \in Seq(ID)
  BY DEF Input
<1> QED BY <1>1 DEF Input, Present, Described

-----------------------------------------------------------------------------
(***************************************************************************)
(* Operations on an output file: the fields they change and what to.       *)
(***************************************************************************)
Cells      == ID \cup {Dummy}
Provenance == [id : ID, kept : UNION {[D -> {"present", "dropped"}] : D \in SUBSET AllProducts}]
Fields     == DOMAIN NewOutputFile

Changed(r, o, fields) == DOMAIN r = Fields /\ \A f \in Fields \ fields : r[f] = o[f]

FieldNames ==
  {"open", "column", "provenance", "descriptions", "readBranches", "producedBranches",
   "uncloned", "wasFastCloned", "treeEntries", "nEntries", "index", "events", "subRuns", "runs",
   "sources", "results", "metadata"}

LEMMA FieldsAreNames == Fields = FieldNames
BY DEF Fields, FieldNames, NewOutputFile

LEMMA AddedBranches ==
  ASSUME NEW o, DOMAIN o = Fields, NEW bs
  PROVE  LET r   == AddOutputBranches(o, bs)
             new == bs \ DOMAIN o.column
         IN  /\ Changed(r, o, {"column", "readBranches", "producedBranches"})
             /\ r.column = [b \in DOMAIN o.column \cup new |->
                              IF b \in new THEN Backfill(o) ELSE o.column[b]]
             /\ r.readBranches = o.readBranches \cup (new \ Produced)
             /\ r.producedBranches = o.producedBranches \cup (new \cap Produced)
BY FieldsAreNames DEF Changed, FieldNames, AddOutputBranches

Cloner(f)    == f.tree # <<>> /\ f.cloner
Copied(o, f) == IF Cloner(f) THEN Present(f) \cap o.readBranches ELSE {}

LEMMA FastCloned ==
  ASSUME NEW o, DOMAIN o = Fields, NEW f
  PROVE  LET r == FastCloneTree(o, f)
             entries == o.treeEntries + (IF Cloner(f) THEN Len(f.tree) ELSE 0)
         IN  /\ Changed(r, o, {"column", "treeEntries", "wasFastCloned", "uncloned"})
             /\ r.column = [b \in DOMAIN o.column |->
                              o.column[b] \o (IF b \in Copied(o, f) THEN f.tree ELSE <<>>)]
             /\ r.treeEntries = entries
             /\ r.wasFastCloned = (o.wasFastCloned \/ Cloner(f))
             /\ r.uncloned = {b \in o.readBranches : Len(r.column[b]) # entries}
BY FieldsAreNames DEF Changed, FieldNames, FastCloneTree, Cloner, Copied

Filled(o) == o.producedBranches \cup (IF o.wasFastCloned THEN o.uncloned ELSE o.readBranches)

KeptOf(o, f) == [p \in KeptOwn(o) \cup KeptAncestors(o, f) |->
                   IF p \in KeptAncestors(o, f) THEN "present" ELSE "dropped"]

LEMMA FilledTree ==
  ASSUME NEW o, DOMAIN o = Fields, NEW id, NEW f
  PROVE  LET r == FillTree(o, id, f) IN
         /\ Changed(r, o, {"column", "nEntries"})
         /\ r.column = [b \in DOMAIN o.column |->
                          IF b \in Filled(o) THEN Append(o.column[b], Value(b, id, f))
                          ELSE o.column[b]]
         /\ r.nEntries = o.nEntries + 1
BY FieldsAreNames DEF Changed, FieldNames, FillTree, Filled

LEMMA WrittenOne ==
  ASSUME NEW o, DOMAIN o = Fields, NEW id, NEW f
  PROVE  LET r == WriteOne(o, id, f) IN
         /\ Changed(r, o, {"column", "nEntries", "provenance", "descriptions", "index", "events"})
         /\ r.column = [b \in DOMAIN o.column |->
                          IF b \in Filled(o) THEN Append(o.column[b], Value(b, id, f))
                          ELSE o.column[b]]
         /\ r.nEntries = o.nEntries + 1
         /\ r.provenance = Append(o.provenance, [id |-> id, kept |-> KeptOf(o, f)])
         /\ r.descriptions = o.descriptions \cup (DOMAIN o.column \ {"EventAuxiliary"})
                               \cup (IF job.dropForDropped THEN {}
                                     ELSE UNION {ParentsOf(p, f) : p \in KeptAncestors(o, f)})
         /\ r.index = o.index \cup {[id |-> id, row |-> o.events + 1]}
         /\ r.events = o.events + 1
<1> DEFINE t == FillTree(o, id, f)
<1>1. /\ Changed(t, o, {"column", "nEntries"})
      /\ t.column = [b \in DOMAIN o.column |->
                       IF b \in Filled(o) THEN Append(o.column[b], Value(b, id, f))
                       ELSE o.column[b]]
      /\ t.nEntries = o.nEntries + 1
  BY FilledTree
<1> DEFINE u == FillBranches(o, id, f)
<1>2. /\ Changed(u, o, {"column", "nEntries", "provenance", "descriptions"})
      /\ u.column = t.column /\ u.nEntries = t.nEntries
      /\ u.provenance = Append(o.provenance, [id |-> id, kept |-> KeptOf(o, f)])
      /\ u.descriptions = o.descriptions \cup (DOMAIN o.column \ {"EventAuxiliary"})
                            \cup (IF job.dropForDropped THEN {}
                                  ELSE UNION {ParentsOf(p, f) : p \in KeptAncestors(o, f)})
  <2>1. u = [t EXCEPT
               !.provenance = Append(@, [id |-> id, kept |-> KeptOf(o, f)]),
               !.descriptions = @ \cup (DOMAIN o.column \ {"EventAuxiliary"})
                                  \cup (IF job.dropForDropped THEN {}
                                        ELSE UNION {ParentsOf(p, f) : p \in KeptAncestors(o, f)})]
    BY DEF FillBranches, KeptOf
  <2> HIDE DEF t, u
  <2> QED BY <1>1, <2>1, FieldsAreNames DEF Changed, FieldNames
<1>3. WriteOne(o, id, f) = [u EXCEPT !.index = @ \cup {[id |-> id, row |-> o.events + 1]},
                                     !.events = @ + 1]
  BY DEF WriteOne
<1> HIDE DEF t, u
<1> QED BY <1>1, <1>2, <1>3, FieldsAreNames DEF Changed, FieldNames

LEMMA WrittenRunOrSubRun ==
  ASSUME NEW o, DOMAIN o = Fields, NEW id
  PROVE  /\ Changed(WithSubRun(o, id), o, {"index", "subRuns"})
         /\ WithSubRun(o, id).index = o.index \cup {[id |-> id, row |-> o.subRuns + 1]}
         /\ WithSubRun(o, id).subRuns = o.subRuns + 1
         /\ Changed(WithRun(o, id), o, {"index", "runs"})
         /\ WithRun(o, id).index = o.index \cup {[id |-> id, row |-> o.runs + 1]}
         /\ WithRun(o, id).runs = o.runs + 1
BY FieldsAreNames DEF Changed, FieldNames, WithSubRun, WithRun

LEMMA EntriesSet ==
  ASSUME NEW o, DOMAIN o = Fields
  PROVE  /\ Changed(SetEntries(o), o, {"treeEntries"})
         /\ SetEntries(o).treeEntries = Len(o.column["EventAuxiliary"])
BY FieldsAreNames DEF Changed, FieldNames, SetEntries

LEMMA Ended ==
  ASSUME NEW o, DOMAIN o = Fields
  PROVE  /\ Changed(EndFile(o), o, {"results", "metadata"})
         /\ EndFile(o).results = results /\ EndFile(o).metadata = fstats
BY FieldsAreNames DEF Changed, FieldNames, EndFile

-----------------------------------------------------------------------------
(***************************************************************************)
(* Closures, as Descendants and KeptAncestors compute them: a set to which *)
(* what F finds for it is added as many times as F can find anything new.  *)
(***************************************************************************)
Adds(g, base, F, N) == g[0] = base /\ \A n \in 1..N : g[n] = g[n - 1] \cup F[g[n - 1]]

LEMMA AddingGoesOn ==
  ASSUME NEW U, NEW F \in [SUBSET U -> SUBSET U], NEW base \in SUBSET U, NEW N \in Nat
  PROVE  \E g \in [0..N -> SUBSET U] : Adds(g, base, F, N)
<1> DEFINE Possible(m) == \E g \in [0..m -> SUBSET U] : Adds(g, base, F, m)
           Bad == {m \in Nat : ~ Possible(m)}
<1>1. Possible(0)
  <2> DEFINE g == [n \in 0..0 |-> base]
  <2>1. g \in [0..0 -> SUBSET U] /\ g[0] = base /\ 1..0 = {}
    OBVIOUS
  <2> HIDE DEF g
  <2> QED BY <2>1 DEF Adds
<1>2. ASSUME NEW m \in Nat, Possible(m) PROVE Possible(m + 1)
  <2>1. PICK g \in [0..m -> SUBSET U] : Adds(g, base, F, m)
    BY <1>2
  <2> DEFINE h == [n \in 0..(m + 1) |-> IF n = m + 1 THEN g[m] \cup F[g[m]] ELSE g[n]]
  <2>2. g[m] \in SUBSET U /\ F[g[m]] \in SUBSET U
    BY <2>1
  <2>3. h \in [0..(m + 1) -> SUBSET U]
    <3>1. \A n \in 0..(m + 1) : n # m + 1 => n \in 0..m
      OBVIOUS
    <3> QED BY <2>1, <2>2, <3>1
  <2>4. h[m + 1] = g[m] \cup F[g[m]] /\ \A n \in 0..m : h[n] = g[n]
    OBVIOUS
  <2> HIDE DEF h
  <2>5. h[0] = base
    BY <2>1, <2>4 DEF Adds
  <2>6. ASSUME NEW n \in 1..(m + 1) PROVE h[n] = h[n - 1] \cup F[h[n - 1]]
    <3>1. CASE n = m + 1
      BY <3>1, <2>4
    <3>2. CASE n # m + 1
      <4>1. n \in 1..m /\ n \in 0..m /\ n - 1 \in 0..m
        BY <3>2
      <4>2. g[n] = g[n - 1] \cup F[g[n - 1]]
        BY <2>1, <4>1 DEF Adds
      <4> QED BY <2>4, <4>1, <4>2
    <3> QED BY <3>1, <3>2
  <2>7. Adds(h, base, F, m + 1)
    BY <2>5, <2>6 DEF Adds
  <2> QED BY <2>3, <2>7
<1> HIDE DEF Possible
<1>3. Bad = {}
  <2>1. SUFFICES ASSUME Bad # {} PROVE FALSE
    OBVIOUS
  <2>2. PICK m \in Bad : \A q \in Bad : m <= q
    BY <2>1, SmallestOfSet
  <2>3. m \in Nat /\ ~ Possible(m)
    OBVIOUS
  <2>4. m # 0 /\ m - 1 \in Nat
    BY <1>1, <2>3
  <2>5. Possible(m - 1)
    BY <2>2, <2>3, <2>4
  <2>6. Possible((m - 1) + 1) /\ (m - 1) + 1 = m
    BY <1>2, <2>3, <2>4, <2>5
  <2> QED BY <2>3, <2>6
<1>4. Possible(N)
  BY <1>3
<1> QED BY <1>4 DEF Possible

(* Whatever adds up so stays within what there is.                         *)
LEMMA AddedStaysInside ==
  ASSUME NEW U, NEW F \in [SUBSET U -> SUBSET U], NEW base \in SUBSET U, NEW N \in Nat,
         NEW g, Adds(g, base, F, N)
  PROVE  \A n \in 0..N : g[n] \in SUBSET U
<1> DEFINE Bad == {n \in 0..N : g[n] \notin SUBSET U}
<1>1. Bad \subseteq Nat
  OBVIOUS
<1>2. SUFFICES ASSUME Bad # {} PROVE FALSE
  OBVIOUS
<1>3. PICK m \in Bad : \A q \in Bad : m <= q
  BY <1>1, <1>2, SmallestOfSet
<1>4. m \in 0..N /\ g[m] \notin SUBSET U /\ g[0] = base
  BY DEF Adds
<1>5. m \in 1..N /\ m - 1 \in 0..N /\ m \in Nat /\ m - 1 < m
  BY <1>4
<1>6. m - 1 \notin Bad
  BY <1>3, <1>5
<1>7. g[m - 1] \in SUBSET U
  BY <1>5, <1>6
<1>8. g[m] = g[m - 1] \cup F[g[m - 1]]
  BY <1>5 DEF Adds
<1> QED BY <1>4, <1>7, <1>8

(* F finds things of V only: after as many additions as V has elements,    *)
(* nothing new is found.                                                   *)
LEMMA Closure ==
  ASSUME NEW U, NEW V \in SUBSET U, IsFiniteSet(V), NEW F \in [SUBSET U -> SUBSET U],
         \A S \in SUBSET U : F[S] \subseteq V,
         NEW base \in SUBSET U, NEW g, Adds(g, base, F, Cardinality(V))
  PROVE  LET c == g[Cardinality(V)] IN
         c \in SUBSET U /\ base \subseteq c /\ F[c] \subseteq c /\ c \subseteq base \cup V
<1> DEFINE N == Cardinality(V)
           Found(n) == g[n] \cap V
           Good(n) == /\ base \subseteq g[n] /\ g[n] \subseteq base \cup V
                      /\ F[g[n]] \subseteq g[n] \/ Cardinality(Found(n)) >= n
           Bad == {n \in 0..N : ~ Good(n)}
<1>1. N \in Nat /\ \A n \in 0..N : g[n] \in SUBSET U
  <2>1. N \in Nat
    BY FS_CardinalityType
  <2>2. Adds(g, base, F, N)
    OBVIOUS
  <2> HIDE DEF N
  <2>3. \A n \in 0..N : g[n] \in SUBSET U
    BY <2>1, <2>2, AddedStaysInside
  <2> QED BY <2>1, <2>3
<1>2. \A n \in 0..N : IsFiniteSet(Found(n)) /\ Cardinality(Found(n)) \in Nat
  <2>1. ASSUME NEW n \in 0..N PROVE IsFiniteSet(Found(n)) /\ Cardinality(Found(n)) \in Nat
    <3>1. Found(n) \in SUBSET V
      OBVIOUS
    <3>2. IsFiniteSet(Found(n))
      BY <3>1, FS_Subset
    <3> QED BY <3>2, FS_CardinalityType
  <2> QED BY <2>1
<1>3. Good(0)
  <2>1. g[0] = base /\ 0 \in 0..N
    BY <1>1 DEF Adds
  <2>2. Cardinality(Found(0)) >= 0
    BY <1>2, <2>1
  <2> QED BY <2>1, <2>2
<1>4. ASSUME NEW n \in 0..N, n + 1 \in 0..N, Good(n) PROVE Good(n + 1)
  <2>1. g[n + 1] = g[n] \cup F[g[n]]
    <3>1. n + 1 \in 1..N /\ (n + 1) - 1 = n
      BY <1>1, <1>4
    <3>2. g[n + 1] = g[(n + 1) - 1] \cup F[g[(n + 1) - 1]]
      BY <3>1 DEF Adds
    <3> QED BY <3>1, <3>2
  <2>2. base \subseteq g[n + 1] /\ g[n + 1] \subseteq base \cup V
    BY <1>1, <1>4, <2>1
  <2>3. CASE F[g[n]] \subseteq g[n]
    <3>1. g[n + 1] = g[n]
      BY <2>1, <2>3
    <3>2. F[g[n + 1]] \subseteq g[n + 1]
      BY <2>3, <3>1
    <3> QED BY <2>2, <3>2
  <2>4. CASE ~ (F[g[n]] \subseteq g[n])
    <3>1. PICK x \in F[g[n]] : x \notin g[n]
      BY <2>4
    <3>2. x \in V /\ x \in Found(n + 1) /\ x \notin Found(n) /\ Found(n) \subseteq Found(n + 1)
      BY <1>1, <2>1, <3>1
    <3>3. Cardinality(Found(n)) >= n
      BY <1>4, <2>4
    <3>4. /\ Cardinality(Found(n)) <= Cardinality(Found(n + 1))
          /\ Cardinality(Found(n)) # Cardinality(Found(n + 1))
      <4>1. IsFiniteSet(Found(n + 1)) /\ Found(n) \in SUBSET Found(n + 1)
            /\ Found(n) # Found(n + 1)
        BY <1>2, <1>4, <3>2
      <4> HIDE DEF Found
      <4> QED BY <4>1, FS_Subset
    <3>5. Cardinality(Found(n + 1)) >= n + 1
      <4>1. /\ n \in Nat /\ Cardinality(Found(n)) \in Nat /\ Cardinality(Found(n + 1)) \in Nat
        <5> HIDE DEF Found
        <5> QED BY <1>1, <1>2, <1>4
      <4> HIDE DEF Found
      <4> QED BY <3>3, <3>4, <4>1
    <3> QED BY <2>2, <3>5
  <2> QED BY <2>3, <2>4
<1> HIDE DEF Good
<1>5. Bad = {}
  <2>1. SUFFICES ASSUME Bad # {} PROVE FALSE
    OBVIOUS
  <2>2. Bad \subseteq Nat
    OBVIOUS
  <2>3. PICK m \in Bad : \A q \in Bad : m <= q
    BY <2>1, <2>2, SmallestOfSet
  <2>4. m \in 0..N /\ ~ Good(m)
    OBVIOUS
  <2>5. m \in Nat /\ m - 1 \in 0..N /\ (m - 1) + 1 = m /\ m - 1 < m
    <3>1. m # 0
      BY <1>3, <2>4
    <3> QED BY <1>1, <2>4, <3>1
  <2>6. Good(m - 1)
    BY <2>3, <2>5
  <2> QED BY <1>4, <2>4, <2>5, <2>6
<1>6. Good(N)
  BY <1>1, <1>5
<1>7. g[N] \in SUBSET U /\ Found(N) \in SUBSET V
  BY <1>1
<1>8. CASE Cardinality(Found(N)) >= N
  <2>1. Cardinality(Found(N)) <= Cardinality(V) /\ (Cardinality(V) = Cardinality(Found(N)) => V = Found(N))
    <3> HIDE DEF Found
    <3> QED BY <1>7, FS_Subset
  <2>2. Cardinality(Found(N)) = Cardinality(V)
    <3>1. Cardinality(Found(N)) \in Nat /\ N \in Nat
      BY <1>1, <1>2
    <3> HIDE DEF Found
    <3> QED BY <1>8, <2>1, <3>1
  <2>3. V \subseteq g[N]
    BY <2>1, <2>2
  <2> QED BY <1>6, <1>7, <2>3 DEF Good
<1>9. CASE F[g[N]] \subseteq g[N]
  BY <1>6, <1>7, <1>9 DEF Good
<1> QED BY <1>6, <1>8, <1>9 DEF Good

(* Whatever has been added, F still finds.                                 *)
LEMMA AddedForAReason ==
  ASSUME NEW U, NEW F \in [SUBSET U -> SUBSET U],
         \A S, T \in SUBSET U : S \subseteq T => F[S] \subseteq F[T],
         NEW base \in SUBSET U, NEW N \in Nat, NEW g, Adds(g, base, F, N)
  PROVE  g[N] \subseteq base \cup F[g[N]]
<1> DEFINE Good(n) == g[n] \subseteq base \cup F[g[n]]
           Bad == {n \in 0..N : ~ Good(n)}
<1>1. \A n \in 0..N : g[n] \in SUBSET U
  BY AddedStaysInside
<1>2. Good(0)
  BY DEF Adds
<1>3. ASSUME NEW n \in 1..N, Good(n - 1) PROVE Good(n)
  <2>1. g[n] = g[n - 1] \cup F[g[n - 1]]
    BY DEF Adds
  <2>2. g[n - 1] \in SUBSET U /\ g[n] \in SUBSET U /\ g[n - 1] \subseteq g[n]
    <3>1. n \in 0..N /\ n - 1 \in 0..N
      OBVIOUS
    <3> QED BY <1>1, <2>1, <3>1
  <2>3. F[g[n - 1]] \subseteq F[g[n]]
    BY <2>2
  <2> QED BY <1>3, <2>1, <2>3
<1> HIDE DEF Good
<1>4. Bad = {}
  <2>1. SUFFICES ASSUME Bad # {} PROVE FALSE
    OBVIOUS
  <2>2. Bad \subseteq Nat
    OBVIOUS
  <2>3. PICK m \in Bad : \A q \in Bad : m <= q
    BY <2>1, <2>2, SmallestOfSet
  <2>4. m \in 0..N /\ ~ Good(m)
    OBVIOUS
  <2>5. m \in 1..N /\ m - 1 \in 0..N /\ m - 1 < m
    <3>1. m # 0
      BY <1>2, <2>4
    <3> QED BY <2>4, <3>1
  <2>6. Good(m - 1)
    BY <2>3, <2>5
  <2> QED BY <1>3, <2>4, <2>5, <2>6
<1> QED BY <1>4 DEF Good

LEMMA DescendantsClosed ==
  ASSUME NEW children \in SUBSET (Products \X Products), NEW ps \in SUBSET Products
  PROVE  LET d == Descendants(children, ps) IN
         /\ d \subseteq Products /\ ps \subseteq d
         /\ \A c \in children : c[1] \in d => c[2] \in d
<1> DEFINE N == Cardinality(Products)
           Of(S) == {c[2] : c \in {c \in children : c[1] \in S}}
           F == [S \in SUBSET Products |-> Of(S)]
           IsUpTo(h) == h = [n \in 0..N |-> IF n = 0 THEN ps ELSE h[n - 1] \cup Of(h[n - 1])]
           upTo == CHOOSE h : IsUpTo(h)
<1>1. Descendants(children, ps) = upTo[N]
  BY DEF Descendants
<1>2. IsFiniteSet(Products) /\ N \in Nat
  BY ProductsAssumption, FS_CardinalityType
<1>3. /\ F \in [SUBSET Products -> SUBSET Products]
      /\ \A S \in SUBSET Products : F[S] = Of(S) /\ F[S] \subseteq Products
  OBVIOUS
<1> HIDE DEF F
<1>4. IsUpTo(upTo)
  <2>1. PICK g \in [0..N -> SUBSET Products] : Adds(g, ps, F, N)
    <3> HIDE DEF N
    <3> QED BY <1>2, <1>3, AddingGoesOn
  <2>2. ASSUME NEW n \in 0..N PROVE g[n] = IF n = 0 THEN ps ELSE g[n - 1] \cup Of(g[n - 1])
    <3>1. CASE n = 0
      BY <2>1, <3>1 DEF Adds
    <3>2. CASE n # 0
      <4>1. n \in 1..N /\ n - 1 \in 0..N
        BY <1>2, <3>2
      <4>2. g[n] = g[n - 1] \cup F[g[n - 1]]
        BY <2>1, <4>1 DEF Adds
      <4>3. F[g[n - 1]] = Of(g[n - 1])
        BY <1>3, <4>1
      <4> QED BY <3>2, <4>2, <4>3
    <3> QED BY <3>1, <3>2
  <2>3. IsUpTo(g)
    <3> HIDE DEF Of, N
    <3> QED BY <2>2
  <2> HIDE DEF IsUpTo
  <2> QED BY <2>3
<1> HIDE DEF upTo
<1>5. /\ upTo[0] = ps
      /\ \A n \in 1..N : upTo[n] = upTo[n - 1] \cup Of(upTo[n - 1])
  <2>1. \A n \in 1..N : n \in 0..N /\ n # 0
    OBVIOUS
  <2>2. 0 \in 0..N
    BY <1>2
  <2> HIDE DEF Of, N
  <2> QED BY <1>4, <2>1, <2>2
<1>6. \A n \in 0..N : upTo[n] \in SUBSET Products
  <2> DEFINE Bad == {n \in 0..N : upTo[n] \notin SUBSET Products}
  <2>1. Bad \subseteq Nat
    OBVIOUS
  <2>2. SUFFICES ASSUME Bad # {} PROVE FALSE
    OBVIOUS
  <2>3. PICK m \in Bad : \A q \in Bad : m <= q
    BY <2>1, <2>2, SmallestOfSet
  <2>4. m \in 1..N /\ m - 1 \in 0..N /\ m - 1 < m
    <3>1. m \in 0..N /\ m # 0
      BY <1>5
    <3> QED BY <1>2, <3>1
  <2>5. upTo[m - 1] \in SUBSET Products
    BY <2>3, <2>4
  <2>6. Of(upTo[m - 1]) \subseteq Products
    BY <1>3, <2>5
  <2>7. upTo[m] \notin SUBSET Products
    OBVIOUS
  <2> HIDE DEF Of
  <2> QED BY <1>5, <2>4, <2>5, <2>6, <2>7
<1>7. Adds(upTo, ps, F, N)
  <2>1. \A n \in 1..N : F[upTo[n - 1]] = Of(upTo[n - 1])
    <3>1. \A n \in 1..N : n - 1 \in 0..N
      BY <1>2
    <3> HIDE DEF Of, N
    <3> QED BY <1>3, <1>6, <3>1
  <2> HIDE DEF Of, N
  <2> QED BY <1>5, <2>1 DEF Adds
<1> DEFINE d == upTo[N]
<1>8. d \in SUBSET Products /\ ps \subseteq d /\ F[d] \subseteq d
  BY <1>2, <1>3, <1>7, Closure
<1>9. Of(d) \subseteq d
  BY <1>3, <1>8
<1> QED BY <1>1, <1>8, <1>9

ParentsIn(S, f) == UNION {ParentsOf(p, f) : p \in S}

LEMMA ParentsAreProducts ==
  ASSUME NEW f \in Input, NEW p
  PROVE  ParentsOf(p, f) \subseteq AllProducts
<1>1. Described(f) \subseteq Products
  BY InputType
<1> QED BY <1>1 DEF ParentsOf, OfThisProcess, AllProducts

(* What is kept of the products of this process goes back as far as its    *)
(* parents do.                                                             *)
LEMMA AncestorsClosed ==
  ASSUME NEW o, KeptOwn(o) \subseteq AllProducts, NEW f \in Input
  PROVE  LET own == KeptOwn(o) \cap (Present(f) \cup Produced)
             c   == KeptAncestors(o, f)
         IN  /\ c \subseteq AllProducts /\ own \subseteq c
             /\ c \subseteq KeptOwn(o) \cup OfThisProcess
             /\ job.dropMetaData = "NONE" /\ ~ job.dropForDropped =>
                  /\ ParentsIn(c, f) \cap OfThisProcess \subseteq c
                  /\ c \subseteq own \cup ParentsIn(c, f)
<1> DEFINE N == Cardinality(OfThisProcess)
           own == KeptOwn(o) \cap (Present(f) \cup Produced)
           Of(S) == ParentsIn(S, f) \cap OfThisProcess
           F == [S \in SUBSET AllProducts |-> Of(S)]
           IsUpTo(h) == h = [n \in 0..N |-> IF n = 0 THEN own ELSE h[n - 1] \cup Of(h[n - 1])]
           upTo == CHOOSE h : IsUpTo(h)
<1>1. KeptAncestors(o, f) = IF job.dropMetaData = "NONE" /\ ~ job.dropForDropped
                            THEN upTo[N] ELSE upTo[0]
  BY DEF KeptAncestors, ParentsIn
<1>2. IsFiniteSet(OfThisProcess) /\ N \in Nat /\ OfThisProcess \subseteq AllProducts
  BY ProductsAssumption, FS_CardinalityType DEF OfThisProcess, AllProducts
<1>3. /\ F \in [SUBSET AllProducts -> SUBSET AllProducts]
      /\ \A S \in SUBSET AllProducts : F[S] = Of(S) /\ F[S] \subseteq OfThisProcess
  BY <1>2
<1> HIDE DEF F
<1>4. own \in SUBSET AllProducts
  OBVIOUS
<1> HIDE DEF own
<1>5. IsUpTo(upTo)
  <2>1. PICK g \in [0..N -> SUBSET AllProducts] : Adds(g, own, F, N)
    <3> HIDE DEF N
    <3> QED BY <1>2, <1>3, <1>4, AddingGoesOn
  <2>2. ASSUME NEW n \in 0..N PROVE g[n] = IF n = 0 THEN own ELSE g[n - 1] \cup Of(g[n - 1])
    <3>1. CASE n = 0
      BY <2>1, <3>1 DEF Adds
    <3>2. CASE n # 0
      <4>1. n \in 1..N /\ n - 1 \in 0..N
        BY <1>2, <3>2
      <4>2. g[n] = g[n - 1] \cup F[g[n - 1]]
        BY <2>1, <4>1 DEF Adds
      <4>3. F[g[n - 1]] = Of(g[n - 1])
        BY <1>3, <4>1
      <4> QED BY <3>2, <4>2, <4>3
    <3> QED BY <3>1, <3>2
  <2>3. IsUpTo(g)
    <3> HIDE DEF Of, N
    <3> QED BY <2>2
  <2> HIDE DEF IsUpTo
  <2> QED BY <2>3
<1> HIDE DEF upTo
<1>6. /\ upTo[0] = own
      /\ \A n \in 1..N : upTo[n] = upTo[n - 1] \cup Of(upTo[n - 1])
  <2>1. \A n \in 1..N : n \in 0..N /\ n # 0
    OBVIOUS
  <2>2. 0 \in 0..N
    BY <1>2
  <2> HIDE DEF Of, N
  <2> QED BY <1>5, <2>1, <2>2
<1>7. \A n \in 0..N : upTo[n] \in SUBSET AllProducts
  <2> DEFINE Bad == {n \in 0..N : upTo[n] \notin SUBSET AllProducts}
  <2>1. Bad \subseteq Nat
    OBVIOUS
  <2>2. SUFFICES ASSUME Bad # {} PROVE FALSE
    OBVIOUS
  <2>3. PICK m \in Bad : \A q \in Bad : m <= q
    BY <2>1, <2>2, SmallestOfSet
  <2>4. m \in 1..N /\ m - 1 \in 0..N /\ m - 1 < m
    <3>1. m \in 0..N /\ m # 0
      BY <1>4, <1>6
    <3> QED BY <1>2, <3>1
  <2>5. upTo[m - 1] \in SUBSET AllProducts
    BY <2>3, <2>4
  <2>6. Of(upTo[m - 1]) \subseteq AllProducts
    BY <1>2
  <2>7. upTo[m] \notin SUBSET AllProducts
    OBVIOUS
  <2> HIDE DEF Of
  <2> QED BY <1>6, <2>4, <2>5, <2>6, <2>7
<1>8. Adds(upTo, own, F, N)
  <2>1. \A n \in 1..N : F[upTo[n - 1]] = Of(upTo[n - 1])
    <3>1. \A n \in 1..N : n - 1 \in 0..N
      BY <1>2
    <3> HIDE DEF Of, N
    <3> QED BY <1>3, <1>7, <3>1
  <2> HIDE DEF Of, N
  <2> QED BY <1>6, <2>1 DEF Adds
<1>9. own \subseteq KeptOwn(o)
  BY DEF own
<1>10. CASE job.dropMetaData = "NONE" /\ ~ job.dropForDropped
  <2> DEFINE c == upTo[N]
  <2>1. KeptAncestors(o, f) = c
    BY <1>1, <1>10
  <2>2. c \in SUBSET AllProducts /\ own \subseteq c /\ F[c] \subseteq c /\ c \subseteq own \cup OfThisProcess
    <3>1. \A S \in SUBSET AllProducts : F[S] \subseteq OfThisProcess
      BY <1>3
    <3>2. F \in [SUBSET AllProducts -> SUBSET AllProducts] /\ OfThisProcess \in SUBSET AllProducts
      BY <1>2, <1>3
    <3> HIDE DEF Of, IsUpTo
    <3> QED BY <1>2, <1>4, <1>8, <3>1, <3>2, Closure
  <2>3. Of(c) \subseteq c
    BY <1>3, <2>2
  <2>4. c \subseteq own \cup ParentsIn(c, f)
    <3>1. \A S, T \in SUBSET AllProducts : S \subseteq T => F[S] \subseteq F[T]
      <4>1. \A S, T : S \subseteq T => ParentsIn(S, f) \subseteq ParentsIn(T, f)
        BY DEF ParentsIn
      <4> QED BY <1>3, <4>1
    <3>2. c \subseteq own \cup F[c]
      <4>1. F \in [SUBSET AllProducts -> SUBSET AllProducts]
        BY <1>3
      <4> HIDE DEF Of, N
      <4> QED BY <1>2, <1>4, <1>8, <3>1, <4>1, AddedForAReason
    <3>3. F[c] \subseteq ParentsIn(c, f)
      BY <1>3, <2>2
    <3> QED BY <3>2, <3>3
  <2> HIDE DEF c
  <2> QED BY <1>9, <2>1, <2>2, <2>3, <2>4 DEF own
<1>11. CASE ~ (job.dropMetaData = "NONE" /\ ~ job.dropForDropped)
  <2>1. KeptAncestors(o, f) = own
    BY <1>1, <1>6, <1>11
  <2>2. own \subseteq AllProducts
    BY <1>4
  <2> HIDE DEF N, upTo, Of
  <2> QED BY <1>9, <1>11, <2>1, <2>2 DEF own
<1> QED BY <1>10, <1>11

-----------------------------------------------------------------------------
(***************************************************************************)
(* Whatever is done to an output file, it stays one.                       *)
(***************************************************************************)
WellFormed(o) ==
  /\ DOMAIN o = Fields /\ IsOutput(o)
  /\ o.provenance \in Seq(Provenance) /\ "EventAuxiliary" \in o.readBranches

LEMMA WellFormedType ==
  ASSUME NEW o, WellFormed(o), job \in Jobs
  PROVE  /\ o.open /\ "EventAuxiliary" \in DOMAIN o.column
         /\ DOMAIN o.column \subseteq Branches
         /\ \A b \in DOMAIN o.column : o.column[b] \in Seq(Cells) /\ Len(o.column[b]) \in Nat
         /\ Len(o.provenance) \in Nat /\ o.nEntries \in Nat
         /\ KeptOwn(o) \subseteq DOMAIN o.column \ {"EventAuxiliary"}
         /\ KeptOwn(o) \subseteq AllProducts
<1>1. DOMAIN o.column = o.readBranches \cup o.producedBranches
  BY DEF WellFormed, IsOutput
<1>2. DOMAIN o.column \subseteq Branches
  BY <1>1 DEF WellFormed, IsOutput, Branches
<1>3. \A b \in DOMAIN o.column : o.column[b] \in Seq(Cells)
  BY DEF WellFormed, IsOutput, Cells
<1>4. Len(o.provenance) \in Nat /\ o.nEntries = Len(o.provenance)
  BY DEF WellFormed, IsOutput
<1>5. KeptOwn(o) \subseteq DOMAIN o.column \ {"EventAuxiliary"}
  <2>1. job.dropMetaData \in {"NONE", "PRIOR", "ALL"}
    BY JobType
  <2> QED BY <2>1 DEF KeptOwn
<1>6. KeptOwn(o) \subseteq AllProducts
  BY <1>2, <1>5 DEF Branches, AllProducts
<1>7. o.open /\ "EventAuxiliary" \in DOMAIN o.column
  BY <1>1 DEF WellFormed, IsOutput
<1> QED BY <1>2, <1>3, <1>4, <1>5, <1>6, <1>7

LEMMA NewFileWellFormed ==
  WellFormed(NewOutputFile)
<1> DEFINE o == NewOutputFile
<1>1. /\ DOMAIN o = Fields /\ o.open /\ o.column = [b \in {"EventAuxiliary"} |-> <<>>]
      /\ o.provenance = <<>> /\ o.descriptions = {} /\ o.readBranches = {"EventAuxiliary"}
      /\ o.producedBranches = {} /\ o.uncloned = {} /\ o.wasFastCloned = FALSE
      /\ o.treeEntries = 0 /\ o.nEntries = 0 /\ o.index = {} /\ o.events = 0
      /\ o.subRuns = 0 /\ o.runs = 0 /\ o.sources = <<>>
      /\ o.results = NoResults /\ o.metadata = NoStats
  BY DEF NewOutputFile, Fields
<1>2. NoResults \in Results /\ NoStats \in Stats
  BY DEF NoResults, NoStats, Results, Stats, NoID, RunEntry, ID
<1> HIDE DEF o
<1>3. DOMAIN o.provenance = {} /\ Len(o.provenance) = 0 /\ o.provenance \in Seq(Provenance)
  BY <1>1
<1>4. \A b \in DOMAIN o.column : o.column[b] \in Seq(ID \cup {Dummy})
  BY <1>1
<1>5. o.sources \in Seq(Source)
  BY <1>1
<1>6. DOMAIN o.column = {"EventAuxiliary"} /\ "EventAuxiliary" \in Branches
  BY <1>1 DEF Branches
<1>7. /\ DOMAIN o.column = o.readBranches \cup o.producedBranches
      /\ o.uncloned \subseteq o.readBranches /\ o.readBranches \cap o.producedBranches = {}
      /\ o.readBranches \subseteq Branches /\ o.producedBranches \subseteq Produced
  BY <1>1, <1>6
<1>8. /\ o.descriptions \subseteq AllProducts /\ o.results \in Results /\ o.metadata \in Stats
      /\ o.index \in SUBSET Entry /\ o.treeEntries \in Nat /\ o.events \in Nat
      /\ o.subRuns \in Nat /\ o.runs \in Nat /\ o.nEntries = Len(o.provenance)
      /\ o.wasFastCloned \in BOOLEAN
  <2>1. o.descriptions \subseteq AllProducts /\ o.index \in SUBSET Entry
    BY <1>1
  <2>2. o.results \in Results /\ o.metadata \in Stats
    BY <1>1, <1>2
  <2>3. /\ o.treeEntries \in Nat /\ o.events \in Nat /\ o.subRuns \in Nat /\ o.runs \in Nat
        /\ o.nEntries = Len(o.provenance)
    BY <1>1, <1>3
  <2>4. o.wasFastCloned \in BOOLEAN
    BY <1>1
  <2> QED BY <2>1, <2>2, <2>3, <2>4
<1>9. IsOutput(o)
  BY <1>1, <1>3, <1>4, <1>5, <1>7, <1>8 DEF IsOutput
<1> QED BY <1>1, <1>3, <1>9 DEF WellFormed, o

LEMMA KeptBranches ==
  ASSUME job \in Jobs, NEW i \in 0..Len(job.inputs)
  PROVE  Kept(i) \subseteq Branches /\ Produced \subseteq Kept(i) /\ "EventAuxiliary" \notin Kept(i)
<1>1. \A k \in 1..i : Present(job.inputs[k]) \subseteq Products
  <2>1. \A k \in 1..i : job.inputs[k] \in Input
    BY JobType
  <2> QED BY <2>1, InputType
<1> QED BY <1>1, ProductsAssumption DEF Kept, Branches

(* Facts about the fields that an operation leaves alone. *)
LEMMA Unchanged ==
  ASSUME NEW r, NEW o, NEW fields, Changed(r, o, fields)
  PROVE  /\ DOMAIN r = Fields
         /\ "open" \notin fields => r.open = o.open
         /\ "column" \notin fields => r.column = o.column
         /\ "provenance" \notin fields => r.provenance = o.provenance
         /\ "descriptions" \notin fields => r.descriptions = o.descriptions
         /\ "readBranches" \notin fields => r.readBranches = o.readBranches
         /\ "producedBranches" \notin fields => r.producedBranches = o.producedBranches
         /\ "uncloned" \notin fields => r.uncloned = o.uncloned
         /\ "wasFastCloned" \notin fields => r.wasFastCloned = o.wasFastCloned
         /\ "treeEntries" \notin fields => r.treeEntries = o.treeEntries
         /\ "nEntries" \notin fields => r.nEntries = o.nEntries
         /\ "index" \notin fields => r.index = o.index
         /\ "events" \notin fields => r.events = o.events
         /\ "subRuns" \notin fields => r.subRuns = o.subRuns
         /\ "runs" \notin fields => r.runs = o.runs
         /\ "sources" \notin fields => r.sources = o.sources
         /\ "results" \notin fields => r.results = o.results
         /\ "metadata" \notin fields => r.metadata = o.metadata
BY FieldsAreNames DEF Changed, FieldNames

LEMMA SelectedWellFormed ==
  ASSUME NEW o, WellFormed(o), job \in Jobs, NEW i \in 0..Len(job.inputs)
  PROVE  WellFormed(SelectProducts(o, i))
<1> DEFINE r == SelectProducts(o, i)
           new == Kept(i) \ DOMAIN o.column
<1>1. DOMAIN o = Fields
  BY DEF WellFormed
<1>2. /\ Changed(r, o, {"column", "readBranches", "producedBranches"})
      /\ r.column = [b \in DOMAIN o.column \cup new |-> IF b \in new THEN Backfill(o) ELSE o.column[b]]
      /\ r.readBranches = o.readBranches \cup (new \ Produced)
      /\ r.producedBranches = o.producedBranches \cup (new \cap Produced)
  BY <1>1, AddedBranches DEF SelectProducts
<1>3. /\ DOMAIN r = Fields /\ r.open = o.open /\ r.provenance = o.provenance
      /\ r.descriptions = o.descriptions /\ r.uncloned = o.uncloned
      /\ r.wasFastCloned = o.wasFastCloned /\ r.treeEntries = o.treeEntries
      /\ r.nEntries = o.nEntries /\ r.index = o.index /\ r.events = o.events
      /\ r.subRuns = o.subRuns /\ r.runs = o.runs /\ r.sources = o.sources
      /\ r.results = o.results /\ r.metadata = o.metadata
  BY <1>2, Unchanged
<1>4. Backfill(o) \in Seq(ID \cup {Dummy})
  <2>1. o.nEntries \in Nat
    BY WellFormedType
  <2> QED BY <2>1 DEF Backfill, Repeat
<1>5. new \subseteq Branches
  BY KeptBranches
<1> HIDE DEF r, new
<1>6. DOMAIN r.column = r.readBranches \cup r.producedBranches
  BY <1>2 DEF WellFormed, IsOutput
<1>7. r.readBranches \cap r.producedBranches = {}
  BY <1>2 DEF WellFormed, IsOutput, new
<1>8. \A b \in DOMAIN r.column : r.column[b] \in Seq(ID \cup {Dummy})
  BY <1>2, <1>4 DEF WellFormed, IsOutput
<1>9. r.readBranches \subseteq Branches /\ r.producedBranches \subseteq Produced
      /\ r.uncloned \subseteq r.readBranches /\ "EventAuxiliary" \in r.readBranches
  BY <1>2, <1>3, <1>5 DEF WellFormed, IsOutput
<1>10. IsOutput(r)
  BY <1>3, <1>6, <1>7, <1>8, <1>9 DEF WellFormed, IsOutput
<1>11. WellFormed(r)
  BY <1>3, <1>9, <1>10 DEF WellFormed
<1> QED BY <1>11 DEF r

LEMMA ClonedWellFormed ==
  ASSUME NEW o, WellFormed(o), NEW f \in Input
  PROVE  WellFormed(FastCloneTree(o, f))
<1> DEFINE r == FastCloneTree(o, f)
           entries == o.treeEntries + (IF Cloner(f) THEN Len(f.tree) ELSE 0)
<1>1. DOMAIN o = Fields
  BY DEF WellFormed
<1>2. /\ Changed(r, o, {"column", "treeEntries", "wasFastCloned", "uncloned"})
      /\ r.column = [b \in DOMAIN o.column |->
                       o.column[b] \o (IF b \in Copied(o, f) THEN f.tree ELSE <<>>)]
      /\ r.treeEntries = entries
      /\ r.wasFastCloned = (o.wasFastCloned \/ Cloner(f))
      /\ r.uncloned = {b \in o.readBranches : Len(r.column[b]) # entries}
  BY <1>1, FastCloned, ZenonT(60)
<1>3. /\ DOMAIN r = Fields /\ r.open = o.open /\ r.provenance = o.provenance
      /\ r.descriptions = o.descriptions /\ r.readBranches = o.readBranches
      /\ r.producedBranches = o.producedBranches
      /\ r.nEntries = o.nEntries /\ r.index = o.index /\ r.events = o.events
      /\ r.subRuns = o.subRuns /\ r.runs = o.runs /\ r.sources = o.sources
      /\ r.results = o.results /\ r.metadata = o.metadata
  BY <1>2, Unchanged
<1> HIDE DEF r
<1>4. \A b \in DOMAIN r.column : r.column[b] \in Seq(ID \cup {Dummy})
  <2>1. f.tree \in Seq(ID \cup {Dummy})
    BY InputType
  <2>2. \A b \in DOMAIN o.column : o.column[b] \in Seq(ID \cup {Dummy})
    BY DEF WellFormed, IsOutput
  <2> QED BY <1>2, <2>1, <2>2
<1>5. r.treeEntries \in Nat
  BY <1>2, InputType DEF WellFormed, IsOutput
<1>6. r.wasFastCloned \in BOOLEAN
  BY <1>2
<1>7. r.uncloned \subseteq r.readBranches /\ DOMAIN r.column = DOMAIN o.column
  BY <1>2, <1>3
<1>8. IsOutput(r)
  BY <1>3, <1>4, <1>5, <1>6, <1>7 DEF WellFormed, IsOutput
<1>9. WellFormed(r)
  BY <1>3, <1>8 DEF WellFormed
<1> QED BY <1>9 DEF r

CloneOf(i) == ShouldFastClone /\ job.inputs[i].clonable

(* What beginInputFile() does to the tree, apart from the note it leaves.  *)
TreeBegun(o, i) ==
  IF CloneOf(i) THEN FastCloneTree(SelectProducts(o, i), job.inputs[i]) ELSE SelectProducts(o, i)

SourceOf(i) == [input |-> i, cloned |-> CloneOf(i) /\ Cloner(job.inputs[i])]

LEMMA BegunWellFormed ==
  ASSUME NEW o, WellFormed(o), job \in Jobs, NEW i \in 1..Len(job.inputs)
  PROVE  /\ WellFormed(BeginInputFile(o, i)) /\ WellFormed(TreeBegun(o, i))
         /\ Changed(BeginInputFile(o, i), TreeBegun(o, i), {"sources"})
         /\ BeginInputFile(o, i).sources = Append(TreeBegun(o, i).sources, SourceOf(i))
<1> DEFINE r == BeginInputFile(o, i)
           t == TreeBegun(o, i)
<1>1. WellFormed(t)
  <2>1. job.inputs[i] \in Input /\ i \in 0..Len(job.inputs)
    BY JobType
  <2> QED BY <2>1, SelectedWellFormed, ClonedWellFormed DEF TreeBegun
<1>2. r = [t EXCEPT !.sources = Append(@, SourceOf(i))]
  BY DEF BeginInputFile, TreeBegun, SourceOf, CloneOf, Cloner
<1> HIDE DEF r, t
<1>3. Changed(r, t, {"sources"}) /\ r.sources = Append(t.sources, SourceOf(i))
  BY <1>1, <1>2, FieldsAreNames DEF Changed, FieldNames, WellFormed
<1>4. /\ DOMAIN r = Fields /\ r.open = t.open /\ r.column = t.column /\ r.provenance = t.provenance
      /\ r.descriptions = t.descriptions /\ r.readBranches = t.readBranches
      /\ r.producedBranches = t.producedBranches /\ r.uncloned = t.uncloned
      /\ r.wasFastCloned = t.wasFastCloned /\ r.treeEntries = t.treeEntries
      /\ r.nEntries = t.nEntries /\ r.index = t.index /\ r.events = t.events
      /\ r.subRuns = t.subRuns /\ r.runs = t.runs
      /\ r.results = t.results /\ r.metadata = t.metadata
  BY <1>3, Unchanged
<1>5. SourceOf(i) \in Source
  BY DEF SourceOf, Source, CloneOf, Cloner
<1>6. r.sources \in Seq(Source)
  BY <1>1, <1>3, <1>5 DEF WellFormed, IsOutput
<1>7. IsOutput(r)
  BY <1>1, <1>4, <1>6 DEF WellFormed, IsOutput
<1>8. WellFormed(r)
  BY <1>1, <1>4, <1>7 DEF WellFormed
<1> QED BY <1>1, <1>3, <1>8 DEF r, t

LEMMA KeptOfType ==
  ASSUME NEW o, WellFormed(o), job \in Jobs, NEW f \in Input
  PROVE  /\ KeptOf(o, f) \in UNION {[D -> {"present", "dropped"}] : D \in SUBSET AllProducts}
         /\ DOMAIN KeptOf(o, f) = KeptOwn(o) \cup KeptAncestors(o, f)
         /\ DOMAIN KeptOf(o, f) \subseteq AllProducts
         /\ \A p \in DOMAIN KeptOf(o, f) :
              KeptOf(o, f)[p] = IF p \in KeptAncestors(o, f) THEN "present" ELSE "dropped"
<1> DEFINE D == KeptOwn(o) \cup KeptAncestors(o, f)
<1>1. KeptOwn(o) \subseteq AllProducts
  BY WellFormedType
<1>2. KeptAncestors(o, f) \subseteq AllProducts
  BY <1>1, AncestorsClosed
<1>3. D \in SUBSET AllProducts
  BY <1>1, <1>2
<1>4. KeptOf(o, f) = [p \in D |-> IF p \in KeptAncestors(o, f) THEN "present" ELSE "dropped"]
  BY DEF KeptOf
<1>5. KeptOf(o, f) \in [D -> {"present", "dropped"}]
  <2> HIDE DEF D
  <2> QED BY <1>4
<1>6. DOMAIN KeptOf(o, f) = D
  BY <1>4
<1> QED BY <1>3, <1>4, <1>5, <1>6

LEMMA ValueType ==
  ASSUME NEW b, NEW id \in ID, NEW f
  PROVE  Value(b, id, f) \in ID \cup {Dummy}
BY DEF Value

LEMMA WrittenWellFormed ==
  ASSUME NEW o, WellFormed(o), job \in Jobs, NEW id \in ID, NEW f \in Input
  PROVE  WellFormed(WriteOne(o, id, f))
<1> DEFINE r == WriteOne(o, id, f)
           p == [id |-> id, kept |-> KeptOf(o, f)]
<1>1. DOMAIN o = Fields
  BY DEF WellFormed
<1>2. /\ Changed(r, o, {"column", "nEntries", "provenance", "descriptions", "index", "events"})
      /\ r.column = [b \in DOMAIN o.column |->
                       IF b \in Filled(o) THEN Append(o.column[b], Value(b, id, f)) ELSE o.column[b]]
      /\ r.nEntries = o.nEntries + 1
      /\ r.provenance = Append(o.provenance, p)
      /\ r.descriptions = o.descriptions \cup (DOMAIN o.column \ {"EventAuxiliary"})
                            \cup (IF job.dropForDropped THEN {}
                                  ELSE UNION {ParentsOf(q, f) : q \in KeptAncestors(o, f)})
      /\ r.index = o.index \cup {[id |-> id, row |-> o.events + 1]}
      /\ r.events = o.events + 1
  BY <1>1, WrittenOne
<1>3. /\ DOMAIN r = Fields /\ r.open = o.open
      /\ r.readBranches = o.readBranches /\ r.producedBranches = o.producedBranches
      /\ r.uncloned = o.uncloned /\ r.wasFastCloned = o.wasFastCloned
      /\ r.treeEntries = o.treeEntries
      /\ r.subRuns = o.subRuns /\ r.runs = o.runs /\ r.sources = o.sources
      /\ r.results = o.results /\ r.metadata = o.metadata
  <2>1. Changed(r, o, {"column", "nEntries", "provenance", "descriptions", "index", "events"})
    BY <1>2
  <2> HIDE DEF r
  <2> QED BY <2>1, Unchanged
<1>4. p \in Provenance
  BY KeptOfType DEF Provenance
<1> HIDE DEF r, p
<1>5. /\ r.provenance \in Seq(Provenance) /\ r.nEntries = Len(r.provenance)
      /\ Len(r.provenance) = Len(o.provenance) + 1
  BY <1>2, <1>4 DEF WellFormed, IsOutput
<1>6. \A k \in DOMAIN r.provenance :
        /\ r.provenance[k].id \in ID /\ DOMAIN r.provenance[k].kept \subseteq AllProducts
        /\ \A q \in DOMAIN r.provenance[k].kept : r.provenance[k].kept[q] \in {"present", "dropped"}
  <2>1. ASSUME NEW k \in DOMAIN r.provenance
        PROVE  /\ r.provenance[k].id \in ID /\ DOMAIN r.provenance[k].kept \subseteq AllProducts
               /\ \A q \in DOMAIN r.provenance[k].kept : r.provenance[k].kept[q] \in {"present", "dropped"}
    <3>1. r.provenance[k] \in Provenance
      BY <1>5
    <3>2. PICK D \in SUBSET AllProducts : r.provenance[k].kept \in [D -> {"present", "dropped"}]
      BY <3>1 DEF Provenance
    <3>3. r.provenance[k].id \in ID
      BY <3>1 DEF Provenance
    <3> QED BY <3>2, <3>3
  <2> QED BY <2>1
<1>7. r.descriptions \subseteq AllProducts
  <2>1. DOMAIN o.column \ {"EventAuxiliary"} \subseteq AllProducts
    BY WellFormedType DEF Branches, AllProducts
  <2>2. UNION {ParentsOf(q, f) : q \in KeptAncestors(o, f)} \subseteq AllProducts
    BY ParentsAreProducts
  <2>3. o.descriptions \subseteq AllProducts
    BY DEF WellFormed, IsOutput
  <2> QED BY <1>2, <2>1, <2>2, <2>3
<1>8. \A b \in DOMAIN r.column : r.column[b] \in Seq(ID \cup {Dummy})
  <2>1. \A b \in DOMAIN o.column : o.column[b] \in Seq(ID \cup {Dummy})
    BY DEF WellFormed, IsOutput
  <2> QED BY <1>2, <2>1, ValueType
<1>9. DOMAIN r.column = DOMAIN o.column
  BY <1>2
<1>10. r.index \in SUBSET Entry /\ r.events \in Nat
  BY <1>2 DEF WellFormed, IsOutput, Entry
<1>11. IsOutput(r)
  BY <1>3, <1>5, <1>6, <1>7, <1>8, <1>9, <1>10 DEF WellFormed, IsOutput
<1>12. WellFormed(r)
  BY <1>3, <1>5, <1>11 DEF WellFormed
<1> QED BY <1>12 DEF r

LEMMA RunOrSubRunWellFormed ==
  ASSUME NEW o, WellFormed(o), NEW id \in ID
  PROVE  WellFormed(WithSubRun(o, id)) /\ WellFormed(WithRun(o, id))
<1>1. DOMAIN o = Fields
  BY DEF WellFormed
<1>2. WellFormed(WithSubRun(o, id))
  <2> DEFINE r == WithSubRun(o, id)
  <2>1. /\ Changed(r, o, {"index", "subRuns"})
        /\ r.index = o.index \cup {[id |-> id, row |-> o.subRuns + 1]} /\ r.subRuns = o.subRuns + 1
    BY <1>1, WrittenRunOrSubRun
  <2> HIDE DEF r
  <2>2. r.index \in SUBSET Entry /\ r.subRuns \in Nat
    BY <2>1 DEF WellFormed, IsOutput, Entry
  <2>3. /\ DOMAIN r = Fields /\ r.open = o.open /\ r.column = o.column /\ r.provenance = o.provenance
        /\ r.descriptions = o.descriptions /\ r.readBranches = o.readBranches
        /\ r.producedBranches = o.producedBranches /\ r.uncloned = o.uncloned
        /\ r.wasFastCloned = o.wasFastCloned /\ r.treeEntries = o.treeEntries
        /\ r.nEntries = o.nEntries /\ r.events = o.events /\ r.runs = o.runs
        /\ r.sources = o.sources /\ r.results = o.results /\ r.metadata = o.metadata
    BY <2>1, Unchanged
  <2>4. IsOutput(r)
    BY <2>2, <2>3 DEF WellFormed, IsOutput
  <2>5. WellFormed(r)
    BY <2>3, <2>4 DEF WellFormed
  <2> QED BY <2>5 DEF r
<1>3. WellFormed(WithRun(o, id))
  <2> DEFINE r == WithRun(o, id)
  <2>1. /\ Changed(r, o, {"index", "runs"})
        /\ r.index = o.index \cup {[id |-> id, row |-> o.runs + 1]} /\ r.runs = o.runs + 1
    BY <1>1, WrittenRunOrSubRun
  <2> HIDE DEF r
  <2>2. r.index \in SUBSET Entry /\ r.runs \in Nat
    BY <2>1 DEF WellFormed, IsOutput, Entry
  <2>3. /\ DOMAIN r = Fields /\ r.open = o.open /\ r.column = o.column /\ r.provenance = o.provenance
        /\ r.descriptions = o.descriptions /\ r.readBranches = o.readBranches
        /\ r.producedBranches = o.producedBranches /\ r.uncloned = o.uncloned
        /\ r.wasFastCloned = o.wasFastCloned /\ r.treeEntries = o.treeEntries
        /\ r.nEntries = o.nEntries /\ r.events = o.events /\ r.subRuns = o.subRuns
        /\ r.sources = o.sources /\ r.results = o.results /\ r.metadata = o.metadata
    BY <2>1, Unchanged
  <2>4. IsOutput(r)
    BY <2>2, <2>3 DEF WellFormed, IsOutput
  <2>5. WellFormed(r)
    BY <2>3, <2>4 DEF WellFormed
  <2> QED BY <2>5 DEF r
<1> QED BY <1>2, <1>3

LEMMA EndedWellFormed ==
  ASSUME NEW o, WellFormed(o), job \in Jobs, results \in Results, fstats \in Stats
  PROVE  WellFormed(SetEntries(o)) /\ WellFormed(EndFile(o))
<1>1. DOMAIN o = Fields
  BY DEF WellFormed
<1>2. WellFormed(SetEntries(o))
  <2> DEFINE r == SetEntries(o)
  <2>1. Changed(r, o, {"treeEntries"}) /\ r.treeEntries = Len(o.column["EventAuxiliary"])
    BY <1>1, EntriesSet
  <2> HIDE DEF r
  <2>2. r.treeEntries \in Nat
    BY <2>1, WellFormedType
  <2>3. /\ DOMAIN r = Fields /\ r.open = o.open /\ r.column = o.column /\ r.provenance = o.provenance
        /\ r.descriptions = o.descriptions /\ r.readBranches = o.readBranches
        /\ r.producedBranches = o.producedBranches /\ r.uncloned = o.uncloned
        /\ r.wasFastCloned = o.wasFastCloned /\ r.index = o.index
        /\ r.nEntries = o.nEntries /\ r.events = o.events /\ r.subRuns = o.subRuns
        /\ r.runs = o.runs /\ r.sources = o.sources /\ r.results = o.results
        /\ r.metadata = o.metadata
    BY <2>1, Unchanged
  <2>4. IsOutput(r)
    BY <2>2, <2>3 DEF WellFormed, IsOutput
  <2>5. WellFormed(r)
    BY <2>3, <2>4 DEF WellFormed
  <2> QED BY <2>5 DEF r
<1>3. WellFormed(EndFile(o))
  <2> DEFINE r == EndFile(o)
  <2>1. Changed(r, o, {"results", "metadata"}) /\ r.results = results /\ r.metadata = fstats
    BY <1>1, Ended
  <2> HIDE DEF r
  <2>2. /\ DOMAIN r = Fields /\ r.open = o.open /\ r.column = o.column /\ r.provenance = o.provenance
        /\ r.descriptions = o.descriptions /\ r.readBranches = o.readBranches
        /\ r.producedBranches = o.producedBranches /\ r.uncloned = o.uncloned
        /\ r.wasFastCloned = o.wasFastCloned /\ r.index = o.index
        /\ r.treeEntries = o.treeEntries
        /\ r.nEntries = o.nEntries /\ r.events = o.events /\ r.subRuns = o.subRuns
        /\ r.runs = o.runs /\ r.sources = o.sources
    BY <2>1, Unchanged
  <2>3. IsOutput(r)
    BY <2>1, <2>2 DEF WellFormed, IsOutput
  <2>4. WellFormed(r)
    BY <2>2, <2>3 DEF WellFormed
  <2> QED BY <2>4 DEF r
<1> QED BY <1>2, <1>3

-----------------------------------------------------------------------------
(***************************************************************************)
(* The event loop.                                                         *)
(***************************************************************************)

(* The types of what is not a file. *)
LoopTypes ==
  /\ job \in Jobs
  /\ input \in 0..Len(job.inputs) /\ (input # 0 => at \in 0..Len(file.entries))
  /\ phase \in {"NextFile", "Items", "EndOfInput", "Done", "Failed"}
  /\ owed \in SUBSET {"Run", "SubRun"} /\ run \in ID /\ subRun \in ID
  /\ inFlight \in SUBSET ID /\ IsFiniteSet(inFlight)
  /\ Cardinality(inFlight) <= job.nschedules
  /\ closing \in BOOLEAN
  /\ inputFileCount \in Nat /\ inputFileCount >= input
  /\ fstats \in Stats /\ results \in Results

(* Events are in flight within a subrun only.  As long as an input may be  *)
(* cloned no file is closed before its end.                                *)
LoopInv ==
  /\ phase \in {"Items", "EndOfInput"} => input # 0
  /\ inFlight # {} => owed = {"Run", "SubRun"} /\ inFlight \subseteq EventsOf(file)
  /\ owed # {} => phase = "Items"
  /\ owed # {} \/ closing => out.open
  /\ phase \in {"EndOfInput", "NextFile"} /\ input # 0 => at = Len(file.entries)
  /\ ShouldFastClone => /\ closing => phase \in {"EndOfInput", "Failed"}
                        /\ phase = "Items" /\ ~ out.open => at = 0

Files == {closed[k] : k \in DOMAIN closed}

FilesInv ==
  /\ out = NoOutput \/ WellFormed(out)
  /\ closed \in Seq(Files) /\ \A k \in DOMAIN closed : WellFormed(closed[k])

TypesInv == LoopTypes /\ LoopInv /\ FilesInv

LEMMA TypesImplyTypeOK ==
  ASSUME TypesInv PROVE TypeOK
<1>1. out = NoOutput \/ IsOutput(out)
  BY DEF TypesInv, FilesInv, WellFormed
<1>2. \A k \in DOMAIN closed : IsOutput(closed[k])
  BY DEF TypesInv, FilesInv, WellFormed
<1> QED BY <1>1, <1>2 DEF TypesInv, LoopTypes, LoopInv, TypeOK

LEMMA OpenIsBoolean ==
  ASSUME FilesInv, job \in Jobs PROVE out.open \in BOOLEAN /\ (out.open => WellFormed(out))
<1>1. CASE out = NoOutput
  BY <1>1 DEF NoOutput
<1>2. CASE WellFormed(out)
  BY <1>2 DEF WellFormed, IsOutput
<1> QED BY <1>1, <1>2 DEF FilesInv

LEMMA CurrentInput ==
  ASSUME LoopTypes, input # 0
  PROVE  /\ file \in Input /\ input \in 1..Len(job.inputs) /\ at \in 0..Len(file.entries)
         /\ at \in Nat /\ Len(file.entries) \in Nat /\ file.entries \in Seq(ID)
         /\ DOMAIN file.entries = 1..Len(file.entries)
<1>1. input \in 1..Len(job.inputs) /\ job.inputs \in Seq(Input)
  BY JobType DEF LoopTypes
<1>2. file \in Input
  BY <1>1 DEF file
<1> QED BY <1>1, <1>2, InputType DEF LoopTypes

LEMMA EntryTypes ==
  ASSUME NEW id
  PROVE  EntryType(id) \in {"Event", "SubRun", "Run"}
BY DEF EntryType

LEMMA NextEntry ==
  ASSUME LoopTypes, nextIs # "End"
  PROVE  /\ input # 0 /\ at + 1 \in DOMAIN file.entries /\ at + 1 \in 0..Len(file.entries)
         /\ next \in ID /\ nextIs = EntryType(next)
         /\ nextIs = "Event" => at + 1 \in Events(file.entries) /\ next \in EventsOf(file)
<1>1. input # 0
  BY DEF nextIs
<1>2. nextIs = TypeAt(file.entries, at + 1)
  BY <1>1 DEF nextIs
<1>3. at + 1 # Len(file.entries) + 1 /\ nextIs = EntryType(next)
  BY <1>2 DEF TypeAt, End, next
<1>4. at + 1 \in DOMAIN file.entries /\ at + 1 \in 0..Len(file.entries)
  BY <1>1, <1>3, CurrentInput
<1>5. next \in ID
  BY <1>1, <1>4, CurrentInput DEF next
<1>6. nextIs = "Event" => at + 1 \in Events(file.entries) /\ next \in EventsOf(file)
  BY <1>3, <1>4 DEF next, Events, EventsOf
<1> QED BY <1>1, <1>3, <1>4, <1>5, <1>6

LEMMA AtEnd ==
  ASSUME LoopTypes, nextIs = "End", input # 0
  PROVE  at = Len(file.entries)
<1>1. TypeAt(file.entries, at + 1) = "End"
  BY DEF nextIs
<1>2. at + 1 = Len(file.entries) + 1
  BY <1>1, EntryTypes DEF TypeAt, End
<1> QED BY <1>2, CurrentInput

(* Before the end of an input that may be cloned no closure is asked for.  *)
LEMMA NoRequestWhenCloning ==
  ASSUME job \in Jobs, ShouldFastClone, NEW boundary \in {"Event", "SubRun", "Run"}
  PROVE  ClosureRequests(boundary) = {FALSE}
<1>1. Rank(boundary) \in 1..3 /\ Rank(job.granularity) >= 4 /\ Rank(job.granularity) \in 1..5
  <2>1. job.granularity \in {"Event", "SubRun", "Run", "InputFile", "Never"}
    BY JobsAssumption DEF Job
  <2> QED BY <2>1, Ranks DEF ShouldFastClone
<1>2. ~ (Rank(job.granularity) <= Rank(boundary))
  BY <1>1
<1> QED BY <1>2 DEF ClosureRequests

LEMMA RequestsAreBoolean ==
  ASSUME NEW boundary, NEW request \in ClosureRequests(boundary)
  PROVE  request \in BOOLEAN /\ (request => out.open)
BY DEF ClosureRequests

LEMMA FileKept ==
  ASSUME job' = job, input' = input
  PROVE  file' = file /\ (ShouldFastClone)' = ShouldFastClone
BY DEF file, ShouldFastClone

LEMMA TypesInit ==
  Init => TypesInv
<1> SUFFICES ASSUME Init PROVE TypesInv
  OBVIOUS
<1>1. /\ job \in Jobs /\ input = 0 /\ at = 0 /\ phase = "NextFile" /\ owed = {} /\ run = NoID
      /\ subRun = NoID /\ inFlight = {} /\ closing = FALSE /\ inputFileCount = 0
      /\ out = NoOutput /\ closed = <<>> /\ fstats = NoStats /\ results = NoResults
  BY DEF Init
<1>2. NoID \in ID /\ NoStats \in Stats /\ NoResults \in Results
  BY DEF NoResults, NoStats, Results, Stats, NoID, RunEntry, ID
<1>3. Len(job.inputs) \in Nat /\ job.nschedules \in Nat
  BY <1>1, JobType
<1>4. LoopTypes
  <2>1. IsFiniteSet(inFlight) /\ Cardinality(inFlight) <= job.nschedules
    BY <1>1, <1>3, FS_EmptySet
  <2>2. inFlight \in SUBSET ID /\ owed \in SUBSET {"Run", "SubRun"} /\ closing \in BOOLEAN
    BY <1>1
  <2>3. input \in 0..Len(job.inputs) /\ inputFileCount \in Nat /\ inputFileCount >= input
    BY <1>1, <1>3
  <2> QED BY <1>1, <1>2, <2>1, <2>2, <2>3 DEF LoopTypes
<1>5. LoopInv
  BY <1>1 DEF LoopInv
<1>6. FilesInv
  BY <1>1 DEF FilesInv, Files
<1> QED BY <1>4, <1>5, <1>6 DEF TypesInv

LEMMA SeqOfElements ==
  ASSUME NEW S, NEW T, NEW s \in Seq(S), \A k \in DOMAIN s : s[k] \in T
  PROVE  s \in Seq(T)
<1>1. Len(s) \in Nat /\ DOMAIN s = 1..Len(s) /\ s = [k \in 1..Len(s) |-> s[k]]
  OBVIOUS
<1>2. s \in [1..Len(s) -> T]
  BY <1>1
<1>3. \A n \in Nat : \A t \in [1..n -> T] : t \in Seq(T)
  OBVIOUS
<1> QED BY <1>1, <1>2, <1>3

LEMMA ClosedGrows ==
  ASSUME NEW o, WellFormed(o), FilesInv, closed' = Append(closed, o), out' = NoOutput
  PROVE  FilesInv'
<1> DEFINE S == Files \cup {o}
<1>1. closed' \in Seq(S) /\ DOMAIN closed' = 1..(Len(closed) + 1) /\ DOMAIN closed = 1..Len(closed)
      /\ Len(closed) \in Nat /\ closed'[Len(closed) + 1] = o
      /\ \A k \in 1..Len(closed) : closed'[k] = closed[k]
  <2>1. closed \in Seq(S)
    BY DEF FilesInv
  <2> HIDE DEF S
  <2>2. o \in S
    BY DEF S
  <2> QED BY <2>1, <2>2
<1>2. \A k \in DOMAIN closed' : k = Len(closed) + 1 \/ k \in DOMAIN closed
  BY <1>1
<1>3. \A k \in DOMAIN closed' : WellFormed(closed'[k])
  BY <1>1, <1>2 DEF FilesInv
<1>4. closed' \in Seq(Files')
  <2>1. \A k \in DOMAIN closed' : closed'[k] \in Files'
    BY DEF Files
  <2>2. closed' \in Seq(S)
    BY <1>1
  <2> HIDE DEF S
  <2> QED BY <2>1, <2>2, SeqOfElements
<1> QED BY <1>3, <1>4 DEF FilesInv

LEMMA FilesKept ==
  ASSUME FilesInv, out' = out, closed' = closed
  PROVE  FilesInv'
BY DEF FilesInv, Files

LEMMA OutChanged ==
  ASSUME NEW o, WellFormed(o), FilesInv, out' = o, closed' = closed
  PROVE  FilesInv'
BY DEF FilesInv, Files

LEMMA TypesAtOpenInput ==
  ASSUME TypesInv, OpenInput
  PROVE  TypesInv'
<1>1. job' = job /\ input' = input + 1 /\ at' = 0 /\ phase' = "Items" /\ owed' = owed
      /\ inFlight' = inFlight /\ closing' = closing /\ input < Len(job.inputs) /\ phase = "NextFile"
  BY DEF OpenInput
<1>2. input + 1 \in 1..Len(job.inputs) /\ input \in Nat
  BY <1>1, JobType DEF TypesInv, LoopTypes
<1>3. Len(file'.entries) \in Nat
  <2>1. file' = job.inputs[input + 1]
    BY <1>1 DEF file
  <2>2. file' \in Input
    BY <1>2, <2>1, JobType DEF TypesInv, LoopTypes
  <2> QED BY <2>2, InputType
<1>4. LoopTypes'
  <2>1. /\ job' \in Jobs /\ input' \in 0..Len(job'.inputs) /\ at' \in 0..Len(file'.entries)
    BY <1>1, <1>2, <1>3 DEF TypesInv, LoopTypes
  <2>2. /\ owed' \in SUBSET {"Run", "SubRun"} /\ run' \in ID /\ subRun' \in ID
        /\ inFlight' \in SUBSET ID /\ IsFiniteSet(inFlight')
        /\ Cardinality(inFlight') <= job'.nschedules /\ closing' \in BOOLEAN
    BY DEF TypesInv, LoopTypes, OpenInput
  <2>3. inputFileCount' \in Nat /\ inputFileCount' >= input'
    BY <1>2 DEF TypesInv, LoopTypes, OpenInput
  <2>4. fstats' \in Stats
    <3>1. fstats \in Stats
      BY DEF TypesInv, LoopTypes
    <3>2. fstats' = [fstats EXCEPT !.parents = fstats.parents \cup {input + 1}] \/ fstats' = fstats
      BY DEF OpenInput
    <3> QED BY <1>2, <3>1, <3>2 DEF Stats
  <2>5. results' \in Results
    <3>1. results \in Results
      BY DEF TypesInv, LoopTypes
    <3> QED BY <1>2, <3>1 DEF Results, OpenInput
  <2> QED BY <1>1, <2>1, <2>2, <2>3, <2>4, <2>5 DEF LoopTypes
<1>5. owed = {} /\ inFlight = {}
  BY <1>1 DEF TypesInv, LoopInv
<1>6. closing => out.open /\ ~ ShouldFastClone
  BY <1>1 DEF TypesInv, LoopInv
<1>7. FilesInv' /\ (out.open => out'.open)
  <2>1. CASE out.open
    <3>1. WellFormed(out) /\ job \in Jobs
      BY <2>1, OpenIsBoolean DEF TypesInv, LoopTypes
    <3>2. out' = BeginInputFile(out, input + 1)
      BY <2>1 DEF OpenInput
    <3>3. WellFormed(BeginInputFile(out, input + 1))
      BY <1>2, <3>1, BegunWellFormed
    <3>4. WellFormed(out') /\ closed' = closed
      BY <3>2, <3>3 DEF OpenInput
    <3>5. out'.open
      BY <3>4 DEF WellFormed, IsOutput
    <3>6. FilesInv'
      <4> DEFINE o == out'
      <4> HIDE DEF o
      <4> QED BY <3>4, OutChanged DEF TypesInv, FilesInv, Files
    <3> QED BY <3>5, <3>6
  <2>2. CASE ~ out.open
    BY <2>2, FilesKept DEF OpenInput, TypesInv
  <2> QED BY <2>1, <2>2
<1>8. LoopInv'
  <2>1. (ShouldFastClone)' = ShouldFastClone
    BY <1>1 DEF ShouldFastClone
  <2> QED BY <1>1, <1>2, <1>5, <1>6, <1>7, <2>1 DEF LoopInv
<1> QED BY <1>4, <1>7, <1>8 DEF TypesInv

LEMMA TypesAtOpenOutput ==
  ASSUME TypesInv, OpenOutput
  PROVE  TypesInv'
<1>1. /\ phase = "Items" /\ ~ out.open /\ inputFileCount' = inputFileCount + 1
      /\ out' = BeginInputFile(NewOutputFile, input)
      /\ fstats' = [NoStats EXCEPT !.parents = {input}]
      /\ job' = job /\ input' = input /\ at' = at /\ phase' = phase /\ owed' = owed /\ run' = run
      /\ subRun' = subRun /\ inFlight' = inFlight /\ closing' = closing /\ results' = results
      /\ closed' = closed
  BY DEF OpenOutput, loop
<1>2. input \in 1..Len(job.inputs)
  BY <1>1, CurrentInput DEF TypesInv, LoopInv
<1>3. WellFormed(BeginInputFile(NewOutputFile, input))
  BY <1>2, NewFileWellFormed, BegunWellFormed DEF TypesInv, LoopTypes
<1>4. FilesInv' /\ out'.open
  <2>1. FilesInv'
    BY <1>1, <1>3, OutChanged DEF TypesInv
  <2>2. WellFormed(out')
    BY <1>1, <1>3
  <2> QED BY <2>1, <2>2 DEF WellFormed, IsOutput
<1>5. LoopTypes'
  <2>1. fstats' \in Stats
    BY <1>1, <1>2 DEF NoStats, Stats, NoID, RunEntry, ID
  <2>2. inputFileCount' \in Nat /\ inputFileCount' >= input'
    BY <1>1, <1>2 DEF TypesInv, LoopTypes
  <2>3. file' = file
    BY <1>1 DEF file
  <2> QED BY <1>1, <2>1, <2>2, <2>3 DEF TypesInv, LoopTypes
<1>6. LoopInv'
  <2>1. file' = file /\ (ShouldFastClone)' = ShouldFastClone
    BY <1>1, FileKept
  <2> QED BY <1>1, <1>4, <2>1 DEF TypesInv, LoopInv
<1> QED BY <1>4, <1>5, <1>6 DEF TypesInv

LEMMA TypesAtBegin ==
  ASSUME TypesInv, BeginRun \/ BeginSubRun \/ BeginEvent
  PROVE  TypesInv'
<1>1. /\ job' = job /\ input' = input /\ at' = at + 1 /\ phase' = phase /\ closing' = closing
      /\ inputFileCount' = inputFileCount /\ out' = out /\ fstats' = fstats /\ closed' = closed
      /\ phase = "Items" /\ out.open /\ ~ closing /\ nextIs # "End"
      /\ owed' \in SUBSET {"Run", "SubRun"}
      /\ run' \in {run, next} /\ subRun' \in {subRun, next}
  <2>1. CASE BeginRun
    BY <2>1 DEF BeginRun, Ready
  <2>2. CASE BeginSubRun
    BY <2>2 DEF BeginSubRun, Ready
  <2>3. CASE BeginEvent
    BY <2>3 DEF BeginEvent, Ready
  <2> QED BY <2>1, <2>2, <2>3
<1>2. input # 0 /\ at + 1 \in 0..Len(file.entries) /\ next \in ID
  BY <1>1, NextEntry DEF TypesInv
<1>3. file' = file /\ (ShouldFastClone)' = ShouldFastClone
  BY <1>1, FileKept
<1>4. /\ inFlight' \in SUBSET ID /\ IsFiniteSet(inFlight') /\ Cardinality(inFlight') <= job.nschedules
      /\ inFlight' # {} => owed' = {"Run", "SubRun"} /\ inFlight' \subseteq EventsOf(file)
      /\ results' \in Results
  <2>1. inFlight \in SUBSET ID /\ IsFiniteSet(inFlight) /\ Cardinality(inFlight) <= job.nschedules
        /\ results \in Results
    BY DEF TypesInv, LoopTypes
  <2>2. CASE BeginEvent
    <3>1. /\ inFlight' = inFlight \cup {next} /\ Cardinality(inFlight) < job.nschedules
          /\ nextIs = "Event" /\ owed' = {"Run", "SubRun"}
          /\ results' = [results EXCEPT !.events = @ \cup ({next} \cap job.selected)]
      BY <2>2 DEF BeginEvent
    <3>2. next \in EventsOf(file)
      BY <3>1, NextEntry DEF TypesInv
    <3>3. IsFiniteSet(inFlight') /\ Cardinality(inFlight') <= Cardinality(inFlight) + 1
          /\ Cardinality(inFlight) \in Nat /\ Cardinality(inFlight') \in Nat
      <4>1. IsFiniteSet(inFlight \cup {next})
        BY <2>1, FS_AddElement
      <4>2. Cardinality(inFlight) \in Nat /\ Cardinality(inFlight \cup {next}) \in Nat
        BY <2>1, <4>1, FS_CardinalityType
      <4>3. Cardinality(inFlight \cup {next}) <= Cardinality(inFlight) + 1
        BY <2>1, <4>2, FS_AddElement
      <4> QED BY <3>1, <4>1, <4>2, <4>3
    <3>4. job.nschedules \in Nat
      BY JobType DEF TypesInv, LoopTypes
    <3>5. Cardinality(inFlight') <= job.nschedules
      BY <3>1, <3>3, <3>4
    <3>6. inFlight' \in SUBSET ID /\ inFlight' \subseteq EventsOf(file)
      BY <1>2, <2>1, <3>1, <3>2 DEF TypesInv, LoopInv
    <3>7. results' \in Results
      BY <1>2, <2>1, <3>1 DEF Results
    <3> QED BY <3>1, <3>3, <3>5, <3>6, <3>7
  <2>3. CASE BeginRun
    <3>1. inFlight' = inFlight /\ results' = results /\ owed = {} /\ inFlight = {}
      BY <2>3 DEF BeginRun, TypesInv, LoopInv
    <3> QED BY <2>1, <3>1
  <2>4. CASE BeginSubRun
    <3>1. inFlight' = inFlight /\ results' = results /\ "SubRun" \notin owed /\ inFlight = {}
      BY <2>4 DEF BeginSubRun, TypesInv, LoopInv
    <3> QED BY <2>1, <3>1
  <2> QED BY <2>2, <2>3, <2>4
<1>5. LoopTypes'
  <2>1. run' \in ID /\ subRun' \in ID
    BY <1>1, <1>2 DEF TypesInv, LoopTypes
  <2> QED BY <1>1, <1>2, <1>3, <1>4, <2>1 DEF TypesInv, LoopTypes
<1>6. LoopInv'
  <2>1. EventsOf(file)' = EventsOf(file)
    BY <1>3 DEF EventsOf
  <2> QED BY <1>1, <1>2, <1>3, <1>4, <2>1 DEF TypesInv, LoopInv
<1>7. FilesInv'
  BY <1>1, FilesKept DEF TypesInv
<1> QED BY <1>5, <1>6, <1>7 DEF TypesInv

(* What WriteEvent does with one of the events in flight. *)
Wanted(id) == ~ job.dropAllEvents /\ id \in job.selected

LEMMA EventWritten ==
  ASSUME TypesInv, WriteEvent
  PROVE  /\ phase = "Items" /\ owed = {"Run", "SubRun"} /\ input # 0 /\ WellFormed(out)
         /\ job' = job /\ input' = input /\ at' = at /\ phase' = phase /\ owed' = owed
         /\ run' = run /\ subRun' = subRun /\ inputFileCount' = inputFileCount
         /\ results' = results /\ closed' = closed
         /\ closing' \in BOOLEAN /\ (ShouldFastClone => closing' = closing)
         /\ \E id \in inFlight :
              /\ inFlight' = inFlight \ {id} /\ id \in ID /\ id \in EventsOf(file)
              /\ Wanted(id) => out' = WriteOne(out, id, file) /\ fstats' = RecordEvent(fstats, id)
              /\ ~ Wanted(id) => out' = out /\ fstats' = fstats
<1>1. PICK id \in inFlight :
        /\ inFlight' = inFlight \ {id}
        /\ IF job.dropAllEvents \/ id \notin job.selected THEN UNCHANGED <<out, fstats>>
           ELSE out' = WriteOne(out, id, file) /\ fstats' = RecordEvent(fstats, id)
  BY DEF WriteEvent
<1>2. owed = {"Run", "SubRun"} /\ phase = "Items" /\ out.open /\ input # 0 /\ id \in EventsOf(file)
  BY DEF TypesInv, LoopInv
<1>3. WellFormed(out) /\ id \in ID
  BY <1>2, OpenIsBoolean DEF TypesInv, LoopTypes
<1>4. PICK request \in ClosureRequests("Event") : closing' = (closing \/ request)
  BY DEF WriteEvent
<1>5. closing' \in BOOLEAN
  BY <1>4, RequestsAreBoolean DEF TypesInv, LoopTypes
<1>6. ShouldFastClone => closing' = closing
  <2>1. ShouldFastClone => request = FALSE
    BY <1>4, NoRequestWhenCloning DEF TypesInv, LoopTypes
  <2> QED BY <1>4, <2>1 DEF TypesInv, LoopTypes
<1>7. /\ Wanted(id) => out' = WriteOne(out, id, file) /\ fstats' = RecordEvent(fstats, id)
      /\ ~ Wanted(id) => out' = out /\ fstats' = fstats
  BY <1>1 DEF Wanted
<1>8. /\ job' = job /\ input' = input /\ at' = at /\ phase' = phase /\ owed' = owed
      /\ run' = run /\ subRun' = subRun /\ inputFileCount' = inputFileCount
      /\ results' = results /\ closed' = closed
  BY DEF WriteEvent
<1>9. \E e \in inFlight :
        /\ inFlight' = inFlight \ {e} /\ e \in ID /\ e \in EventsOf(file)
        /\ Wanted(e) => out' = WriteOne(out, e, file) /\ fstats' = RecordEvent(fstats, e)
        /\ ~ Wanted(e) => out' = out /\ fstats' = fstats
  BY <1>1, <1>2, <1>3, <1>7
<1> QED BY <1>2, <1>3, <1>5, <1>6, <1>8, <1>9

LEMMA RecordedType ==
  ASSUME NEW s \in Stats, NEW id \in ID
  PROVE  RecordEvent(s, id) \in Stats
<1> DEFINE low  == IF s.events = 0 \/ Before(id, s.lowest) THEN id ELSE s.lowest
           high == IF s.events = 0 \/ Before(s.highest, id) THEN id ELSE s.highest
<1>1. RecordEvent(s, id) = [s EXCEPT !.events = s.events + 1, !.lowest = low, !.highest = high]
  BY DEF RecordEvent
<1>2. s.events + 1 \in Nat /\ low \in ID /\ high \in ID
  BY DEF Stats
<1> HIDE DEF low, high
<1> QED BY <1>1, <1>2 DEF Stats

LEMMA TypesAtWriteEvent ==
  ASSUME TypesInv, WriteEvent
  PROVE  TypesInv'
<1>1. /\ phase = "Items" /\ owed = {"Run", "SubRun"} /\ input # 0 /\ WellFormed(out)
      /\ job' = job /\ input' = input /\ at' = at /\ phase' = phase /\ owed' = owed
      /\ run' = run /\ subRun' = subRun /\ inputFileCount' = inputFileCount
      /\ results' = results /\ closed' = closed
      /\ closing' \in BOOLEAN /\ (ShouldFastClone => closing' = closing)
  BY EventWritten
<1>2. PICK id \in inFlight :
        /\ inFlight' = inFlight \ {id} /\ id \in ID
        /\ Wanted(id) => out' = WriteOne(out, id, file) /\ fstats' = RecordEvent(fstats, id)
        /\ ~ Wanted(id) => out' = out /\ fstats' = fstats
  BY EventWritten
<1>3. file' = file /\ (ShouldFastClone)' = ShouldFastClone /\ EventsOf(file)' = EventsOf(file)
  BY <1>1, FileKept DEF EventsOf
<1>4. WellFormed(out') /\ FilesInv' /\ out'.open
  <2>1. WellFormed(WriteOne(out, id, file))
    <3>1. file \in Input /\ job \in Jobs
      BY <1>1, CurrentInput DEF TypesInv, LoopTypes
    <3> QED BY <1>1, <1>2, <3>1, WrittenWellFormed
  <2>2. WellFormed(out')
    BY <1>1, <1>2, <2>1
  <2>3. FilesInv'
    BY <1>1, <2>2 DEF TypesInv, FilesInv, Files
  <2> QED BY <2>2, <2>3 DEF WellFormed, IsOutput
<1>5. fstats' \in Stats
  <2>1. fstats \in Stats
    BY DEF TypesInv, LoopTypes
  <2>2. RecordEvent(fstats, id) \in Stats
    BY <1>2, <2>1, RecordedType
  <2> QED BY <1>2, <2>1, <2>2
<1>6. /\ inFlight' \in SUBSET ID /\ IsFiniteSet(inFlight') /\ Cardinality(inFlight') <= job.nschedules
  <2>1. /\ inFlight \in SUBSET ID /\ IsFiniteSet(inFlight) /\ Cardinality(inFlight) <= job.nschedules
        /\ job.nschedules \in Nat
    BY JobType DEF TypesInv, LoopTypes
  <2>2. IsFiniteSet(inFlight') /\ Cardinality(inFlight') = Cardinality(inFlight) - 1
    BY <1>2, <2>1, FS_RemoveElement
  <2>3. Cardinality(inFlight) \in Nat
    BY <2>1, FS_CardinalityType
  <2> QED BY <1>2, <2>1, <2>2, <2>3
<1>7. LoopTypes'
  BY <1>1, <1>3, <1>5, <1>6 DEF TypesInv, LoopTypes
<1>8. LoopInv'
  <2>1. inFlight' \subseteq EventsOf(file)
    BY <1>2 DEF TypesInv, LoopInv
  <2>2. ShouldFastClone => ~ closing
    BY <1>1 DEF TypesInv, LoopInv
  <2> QED BY <1>1, <1>3, <1>4, <2>1, <2>2 DEF TypesInv, LoopInv
<1> QED BY <1>4, <1>7, <1>8 DEF TypesInv

LEMMA TypesAtWriteRunOrSubRun ==
  ASSUME TypesInv, WriteRun \/ WriteSubRun
  PROVE  TypesInv'
<1>1. /\ phase = "Items" /\ inFlight = {} /\ owed # {}
      /\ job' = job /\ input' = input /\ at' = at /\ phase' = phase /\ owed' \subseteq owed
      /\ run' = run /\ subRun' = subRun /\ inputFileCount' = inputFileCount
      /\ results' = results /\ closed' = closed /\ inFlight' = inFlight
      /\ out' \in {out, WithSubRun(out, subRun), WithRun(out, run)}
      /\ fstats' \in {fstats, [fstats EXCEPT !.subRuns = @ \cup {subRun}]}
      /\ \E boundary \in {"SubRun", "Run"} : \E request \in ClosureRequests(boundary) :
           closing' = (closing \/ request)
  <2>1. CASE WriteRun
    BY <2>1 DEF WriteRun, Over
  <2>2. CASE WriteSubRun
    BY <2>2 DEF WriteSubRun, Over
  <2> QED BY <2>1, <2>2
<1>2. PICK boundary \in {"SubRun", "Run"} : \E request \in ClosureRequests(boundary) :
        closing' = (closing \/ request)
  BY <1>1
<1>3. PICK request \in ClosureRequests(boundary) : closing' = (closing \/ request)
  BY <1>2
<1>4. closing' \in BOOLEAN /\ (ShouldFastClone => closing' = closing)
  <2>1. request \in BOOLEAN
    BY RequestsAreBoolean
  <2>2. ShouldFastClone => request = FALSE
    BY <1>3, NoRequestWhenCloning DEF TypesInv, LoopTypes
  <2> QED BY <1>3, <2>1, <2>2 DEF TypesInv, LoopTypes
<1>5. file' = file /\ (ShouldFastClone)' = ShouldFastClone
  BY <1>1, FileKept
<1>6. WellFormed(out) /\ job \in Jobs /\ run \in ID /\ subRun \in ID
  <2>1. out.open
    BY <1>1 DEF TypesInv, LoopInv
  <2> QED BY <2>1, OpenIsBoolean DEF TypesInv, LoopTypes
<1>7. WellFormed(out') /\ FilesInv' /\ out'.open
  <2>1. WellFormed(out')
    BY <1>1, <1>6, RunOrSubRunWellFormed
  <2>2. FilesInv'
    BY <1>1, <2>1 DEF TypesInv, FilesInv, Files
  <2> QED BY <2>1, <2>2 DEF WellFormed, IsOutput
<1>8. fstats' \in Stats
  <2>1. fstats \in Stats
    BY DEF TypesInv, LoopTypes
  <2>2. [fstats EXCEPT !.subRuns = @ \cup {subRun}] \in Stats
    BY <1>6, <2>1 DEF Stats
  <2> QED BY <1>1, <2>1, <2>2
<1>9. LoopTypes'
  BY <1>1, <1>4, <1>5, <1>8 DEF TypesInv, LoopTypes
<1>10. LoopInv'
  <2>1. ShouldFastClone => ~ closing
    BY <1>1 DEF TypesInv, LoopInv
  <2> QED BY <1>1, <1>4, <1>5, <1>7, <2>1 DEF TypesInv, LoopInv
<1> QED BY <1>7, <1>9, <1>10 DEF TypesInv

LEMMA TypesAtCloseOutput ==
  ASSUME TypesInv, CloseOutput
  PROVE  TypesInv'
<1>1. /\ out.open /\ owed = {} /\ inFlight = {} /\ (closing \/ phase = "NextFile")
      /\ job' = job /\ input' = input /\ at' = at /\ owed' = owed /\ run' = run /\ subRun' = subRun
      /\ inFlight' = inFlight /\ inputFileCount' = inputFileCount /\ fstats' = fstats
  BY DEF CloseOutput
<1>2. WellFormed(out) /\ job \in Jobs /\ results \in Results /\ fstats \in Stats
  BY <1>1, OpenIsBoolean DEF TypesInv, LoopTypes
<1>3. file' = file /\ (ShouldFastClone)' = ShouldFastClone
  BY <1>1, FileKept
<1>4. CASE Aligned(out)
  <2>1. /\ closed' = Append(closed, SetEntries(EndFile(out)))
        /\ out' = NoOutput /\ closing' = FALSE /\ results' = NoResults /\ phase' = phase
    BY <1>4 DEF CloseOutput
  <2>2. WellFormed(SetEntries(EndFile(out)))
    BY <1>2, EndedWellFormed
  <2>3. FilesInv'
    BY <2>1, <2>2, ClosedGrows DEF TypesInv
  <2>4. NoResults \in Results
    BY DEF NoResults, Results
  <2>5. LoopTypes'
    BY <1>1, <1>3, <2>1, <2>4 DEF TypesInv, LoopTypes
  <2>6. ShouldFastClone => phase # "Items"
    BY <1>1 DEF TypesInv, LoopInv
  <2>7. LoopInv'
    BY <1>1, <1>3, <2>1, <2>6 DEF TypesInv, LoopInv
  <2> QED BY <2>3, <2>5, <2>7 DEF TypesInv
<1>5. CASE ~ Aligned(out)
  <2>1. /\ closed' = closed /\ out' = out /\ closing' = closing /\ results' = results
        /\ phase' = "Failed"
    BY <1>5 DEF CloseOutput
  <2>2. FilesInv'
    BY <2>1, FilesKept DEF TypesInv
  <2>3. LoopTypes'
    BY <1>1, <1>3, <2>1 DEF TypesInv, LoopTypes
  <2>4. LoopInv'
    BY <1>1, <1>3, <2>1 DEF TypesInv, LoopInv
  <2> QED BY <2>2, <2>3, <2>4 DEF TypesInv
<1> QED BY <1>4, <1>5

LEMMA TypesAtEndInput ==
  ASSUME TypesInv, EndInput
  PROVE  TypesInv'
<1>1. /\ phase = "Items" /\ nextIs = "End" /\ owed = {} /\ inFlight = {} /\ phase' = "EndOfInput"
      /\ job' = job /\ input' = input /\ at' = at /\ owed' = owed /\ run' = run /\ subRun' = subRun
      /\ inFlight' = inFlight /\ inputFileCount' = inputFileCount /\ out' = out
      /\ fstats' = fstats /\ results' = results /\ closed' = closed
      /\ \E request \in ClosureRequests("InputFile") : closing' = request
  BY DEF EndInput
<1>2. closing' \in BOOLEAN /\ (closing' => out.open)
  BY <1>1, RequestsAreBoolean
<1>3. file' = file /\ (ShouldFastClone)' = ShouldFastClone
  BY <1>1, FileKept
<1>4. input # 0 /\ at = Len(file.entries)
  BY <1>1, AtEnd DEF TypesInv, LoopInv
<1>5. FilesInv'
  BY <1>1, FilesKept DEF TypesInv
<1>6. LoopTypes'
  BY <1>1, <1>2, <1>3 DEF TypesInv, LoopTypes
<1>7. LoopInv'
  BY <1>1, <1>2, <1>3, <1>4 DEF TypesInv, LoopInv
<1> QED BY <1>5, <1>6, <1>7 DEF TypesInv

LEMMA TypesAtCloseInput ==
  ASSUME TypesInv, CloseInput
  PROVE  TypesInv'
<1>1. /\ phase = "EndOfInput" /\ ~ closing /\ phase' \in {"Failed", "NextFile"}
      /\ job' = job /\ input' = input /\ at' = at /\ owed' = owed /\ run' = run /\ subRun' = subRun
      /\ inFlight' = inFlight /\ closing' = closing /\ inputFileCount' = inputFileCount
      /\ fstats' = fstats /\ results' = results /\ closed' = closed
      /\ out' = out \/ (out.open /\ out' = SetEntries(out))
  BY DEF CloseInput
<1>2. file' = file /\ (ShouldFastClone)' = ShouldFastClone
  BY <1>1, FileKept
<1>3. FilesInv'
  <2>1. CASE out' = out
    BY <1>1, <2>1, FilesKept DEF TypesInv
  <2>2. CASE out.open /\ out' = SetEntries(out)
    <3>1. WellFormed(out) /\ job \in Jobs /\ results \in Results /\ fstats \in Stats
      BY <2>2, OpenIsBoolean DEF TypesInv, LoopTypes
    <3>2. WellFormed(SetEntries(out))
      BY <3>1, EndedWellFormed
    <3> QED BY <1>1, <2>2, <3>2, OutChanged DEF TypesInv
  <2> QED BY <1>1, <2>1, <2>2
<1>4. LoopTypes'
  BY <1>1, <1>2 DEF TypesInv, LoopTypes
<1>5. owed = {} /\ inFlight = {} /\ input # 0 /\ at = Len(file.entries)
  BY <1>1 DEF TypesInv, LoopInv
<1>6. LoopInv'
  BY <1>1, <1>2, <1>5 DEF TypesInv, LoopInv
<1> QED BY <1>3, <1>4, <1>6 DEF TypesInv

LEMMA TypesAtEndJob ==
  ASSUME TypesInv, EndJob \/ UNCHANGED vars
  PROVE  TypesInv'
<1>1. /\ phase' \in {"Done", phase} /\ (phase' # phase => phase = "NextFile" /\ ~ out.open)
      /\ job' = job /\ input' = input /\ at' = at /\ owed' = owed /\ run' = run /\ subRun' = subRun
      /\ inFlight' = inFlight /\ closing' = closing /\ inputFileCount' = inputFileCount
      /\ out' = out /\ fstats' = fstats /\ results' = results /\ closed' = closed
  BY DEF EndJob, vars, loop
<1>2. file' = file /\ (ShouldFastClone)' = ShouldFastClone /\ EventsOf(file)' = EventsOf(file)
  BY <1>1, FileKept DEF EventsOf
<1>3. FilesInv'
  BY <1>1, FilesKept DEF TypesInv
<1>4. LoopTypes'
  BY <1>1, <1>2 DEF TypesInv, LoopTypes
<1>5. LoopInv'
  BY <1>1, <1>2 DEF TypesInv, LoopInv
<1> QED BY <1>3, <1>4, <1>5 DEF TypesInv

LEMMA TypesStep ==
  TypesInv /\ [Next]_vars => TypesInv'
<1> SUFFICES ASSUME TypesInv, [Next]_vars PROVE TypesInv'
  OBVIOUS
<1>1. CASE OpenInput
  BY <1>1, TypesAtOpenInput
<1>2. CASE OpenOutput
  BY <1>2, TypesAtOpenOutput
<1>3. CASE BeginRun \/ BeginSubRun \/ BeginEvent
  BY <1>3, TypesAtBegin
<1>4. CASE WriteEvent
  BY <1>4, TypesAtWriteEvent
<1>5. CASE WriteSubRun \/ WriteRun
  BY <1>5, TypesAtWriteRunOrSubRun
<1>6. CASE CloseOutput
  BY <1>6, TypesAtCloseOutput
<1>7. CASE EndInput
  BY <1>7, TypesAtEndInput
<1>8. CASE CloseInput
  BY <1>8, TypesAtCloseInput
<1>9. CASE EndJob \/ UNCHANGED vars
  BY <1>9, TypesAtEndJob
<1> QED BY <1>1, <1>2, <1>3, <1>4, <1>5, <1>6, <1>7, <1>8, <1>9 DEF Next

(* Type correctness: whatever is done to it, an output file keeps its      *)
(* columns, its provenance and its index in order, events are in flight    *)
(* only within a subrun of a run, and a file is open as long as anything   *)
(* is owed to it.                                                          *)
THEOREM TypeCorrect == Spec => []TypeOK
<1>1. Spec => []TypesInv
  BY TypesInit, TypesStep, PTL DEF Spec
<1>2. TypesInv => TypeOK
  BY TypesImplyTypeOK
<1> QED BY <1>1, <1>2, PTL

-----------------------------------------------------------------------------
(***************************************************************************)
(* Columns.  Those that were cloned from the current input are as long as  *)
(* all will be once the events still to come are written.                  *)
(***************************************************************************)
Open       == IF out.open THEN {out} ELSE {}
LastOf(o)  == o.sources[Len(o.sources)]
WholeOf(o) == IF o.wasFastCloned /\ LastOf(o).cloned THEN o.readBranches \ o.uncloned ELSE {}
Unread     == {p \in Events(file.entries) : p > at}
ToCome     == Cardinality(Unread) + Cardinality(inFlight)

(* What the sources of a file tell of it, when the current input is i and  *)
(* all inputs to i have the branches of kept.                              *)
Sourced(o, i, fast, kept) ==
  /\ o.sources # <<>> /\ LastOf(o).input = i
  /\ \A k \in DOMAIN o.sources : o.sources[k].input \in 1..i /\ (o.sources[k].cloned => fast)
  /\ o.wasFastCloned <=> \E k \in DOMAIN o.sources : o.sources[k].cloned
  /\ DOMAIN o.column = {"EventAuxiliary"} \cup kept

ColumnsAre(o, n) ==
  \A b \in DOMAIN o.column : Len(o.column[b]) = o.nEntries + (IF b \in WholeOf(o) THEN n ELSE 0)

SourcesInv == \A o \in Open : Sourced(o, input, ShouldFastClone, Kept(input))

ColumnsInv ==
  \A o \in Open : ClonesOnly(o) =>
    ColumnsAre(o, ToCome) /\ (phase = "NextFile" => o.treeEntries = o.nEntries)

FailedInv ==
  phase = "Failed" => out.open /\ \A o \in Open : ~ Aligned(o) /\ ~ ClonesOnly(o)

FitInv == TypesInv /\ SourcesInv /\ ColumnsInv /\ FailedInv

TreeIsEvents(f) ==
  LET upTo(p) == {q \in Events(f.entries) : q <= p} IN
  /\ Len(f.tree) = Cardinality(Events(f.entries))
  /\ \A p \in Events(f.entries) : f.tree[Cardinality(upTo(p))] = f.entries[p]

LEMMA WrittenWholeIs ==
  ASSUME NEW f
  PROVE  WrittenWhole(f) <=> ~ job.dropAllEvents /\ TreeIsEvents(f)
BY DEF WrittenWhole, TreeIsEvents

LEMMA ClonesOnlyIs ==
  ASSUME NEW o
  PROVE  ClonesOnly(o) <=>
           \A k \in DOMAIN o.sources : o.sources[k].cloned =>
             /\ ~ job.dropAllEvents /\ TreeIsEvents(job.inputs[o.sources[k].input])
             /\ \A j \in (k + 1)..Len(o.sources) :
                  o.sources[j].cloned \/ EventsOf(job.inputs[o.sources[j].input]) = {}
BY WrittenWholeIs DEF ClonesOnly

(* The job does not change, and with it what depends on nothing else. *)
LEMMA JobKept ==
  ASSUME job' = job
  PROVE  /\ (ShouldFastClone)' = ShouldFastClone
         /\ \A o : ClonesOnly(o)' <=> ClonesOnly(o)
         /\ \A f : Present(f)' = Present(f)
<1>1. (ShouldFastClone)' = ShouldFastClone
  BY DEF ShouldFastClone
<1>2. ASSUME NEW o PROVE ClonesOnly(o)' <=> ClonesOnly(o)
  <2>1. \A f : WrittenWhole(f)' <=> WrittenWhole(f)
    BY DEF WrittenWhole
  <2> QED BY <2>1 DEF ClonesOnly, WrittenWhole
<1>3. ASSUME NEW f PROVE Present(f)' = Present(f)
  BY DEF Present, DropOnInput
<1> QED BY <1>1, <1>2, <1>3

LEMMA SourcesAfter ==
  ASSUME job' = job, \A o \in Open' : Sourced(o, input', ShouldFastClone, Kept(input'))
  PROVE  SourcesInv'
<1>1. Kept(input)' = Kept(input')
  <2>1. \A k : Present(job.inputs[k])' = Present(job.inputs[k])
    BY DEF Present, DropOnInput
  <2> QED BY <2>1 DEF Kept, Present, DropOnInput
<1>2. (ShouldFastClone)' = ShouldFastClone
  BY DEF ShouldFastClone
<1> QED BY <1>1, <1>2 DEF SourcesInv

LEMMA ColumnsAfter ==
  ASSUME job' = job,
         \A o \in Open' : ClonesOnly(o) =>
           ColumnsAre(o, ToCome') /\ (phase' = "NextFile" => o.treeEntries = o.nEntries)
  PROVE  ColumnsInv'
<1>1. \A o : ClonesOnly(o)' <=> ClonesOnly(o)
  BY JobKept
<1> QED BY <1>1 DEF ColumnsInv

LEMMA FailedAfter ==
  ASSUME job' = job,
         phase' = "Failed" => out'.open /\ \A o \in Open' : ~ Aligned(o) /\ ~ ClonesOnly(o)
  PROVE  FailedInv'
<1>1. \A o : ClonesOnly(o)' <=> ClonesOnly(o)
  BY JobKept
<1> QED BY <1>1 DEF FailedInv

(* An output that has more sources than another is mixed if that is.       *)
LEMMA ClonesOnlyBefore ==
  ASSUME NEW S, NEW r, NEW o, NEW s \in S, o.sources \in Seq(S), r.sources = Append(o.sources, s),
         ClonesOnly(r)
  PROVE  ClonesOnly(o)
<1>1. /\ Len(o.sources) \in Nat /\ DOMAIN o.sources = 1..Len(o.sources)
      /\ DOMAIN r.sources = 1..(Len(o.sources) + 1) /\ Len(r.sources) = Len(o.sources) + 1
      /\ \A k \in DOMAIN o.sources : r.sources[k] = o.sources[k] /\ k \in DOMAIN r.sources
  OBVIOUS
<1>2. \A k \in DOMAIN o.sources : \A j \in (k + 1)..Len(o.sources) :
        j \in DOMAIN o.sources /\ j \in (k + 1)..Len(r.sources)
  BY <1>1
<1> QED BY <1>1, <1>2, ClonesOnlyIs

(* What becomes of a branch of an output file, or of a new one, before     *)
(* anything of the input is copied.                                        *)
Former(o, b) == IF b \in DOMAIN o.column THEN o.column[b] ELSE Backfill(o)

LEMMA BegunFields ==
  ASSUME NEW o, WellFormed(o), job \in Jobs, NEW i \in 1..Len(job.inputs),
         {"EventAuxiliary"} \subseteq DOMAIN o.column,
         DOMAIN o.column \subseteq {"EventAuxiliary"} \cup Kept(i)
  PROVE  LET r == BeginInputFile(o, i)
             sel == SelectProducts(o, i)
             f == job.inputs[i]
         IN  /\ DOMAIN r.column = {"EventAuxiliary"} \cup Kept(i)
             /\ r.sources = Append(o.sources, SourceOf(i))
             /\ r.nEntries = o.nEntries /\ r.index = o.index /\ r.events = o.events
             /\ r.provenance = o.provenance /\ r.descriptions = o.descriptions
             /\ r.readBranches = sel.readBranches
             /\ r.wasFastCloned = (o.wasFastCloned \/ SourceOf(i).cloned)
             /\ \A b \in DOMAIN r.column :
                  r.column[b] = IF SourceOf(i).cloned /\ b \in Present(f) \cap r.readBranches
                                THEN Former(o, b) \o f.tree ELSE Former(o, b)
             /\ CloneOf(i) => r.uncloned =
                  {b \in r.readBranches : Len(r.column[b]) #
                     o.treeEntries + (IF SourceOf(i).cloned THEN Len(f.tree) ELSE 0)}
<1> DEFINE r == BeginInputFile(o, i)
           sel == SelectProducts(o, i)
           f == job.inputs[i]
           t == TreeBegun(o, i)
           new == Kept(i) \ DOMAIN o.column
<1>1. DOMAIN o = Fields /\ WellFormed(sel) /\ DOMAIN sel = Fields /\ f \in Input
  <2>1. i \in 0..Len(job.inputs) /\ f \in Input
    BY JobType
  <2>2. WellFormed(sel)
    BY <2>1, SelectedWellFormed
  <2> QED BY <2>1, <2>2 DEF WellFormed
<1>2. /\ Changed(sel, o, {"column", "readBranches", "producedBranches"})
      /\ sel.column = [b \in DOMAIN o.column \cup new |-> IF b \in new THEN Backfill(o) ELSE o.column[b]]
  BY <1>1, AddedBranches DEF SelectProducts
<1>3. /\ sel.sources = o.sources /\ sel.nEntries = o.nEntries /\ sel.index = o.index
      /\ sel.events = o.events /\ sel.provenance = o.provenance
      /\ sel.descriptions = o.descriptions /\ sel.wasFastCloned = o.wasFastCloned
      /\ sel.treeEntries = o.treeEntries
  <2> HIDE DEF sel
  <2> QED BY <1>2, Unchanged
<1>4. /\ DOMAIN sel.column = {"EventAuxiliary"} \cup Kept(i)
      /\ \A b \in DOMAIN sel.column : sel.column[b] = Former(o, b)
  <2> HIDE DEF sel
  <2> QED BY <1>2 DEF Former
<1>5. /\ Changed(r, t, {"sources"}) /\ r.sources = Append(t.sources, SourceOf(i))
  BY BegunWellFormed
<1>6. /\ r.nEntries = t.nEntries /\ r.index = t.index /\ r.events = t.events
      /\ r.provenance = t.provenance /\ r.descriptions = t.descriptions
      /\ r.wasFastCloned = t.wasFastCloned /\ r.uncloned = t.uncloned
      /\ r.readBranches = t.readBranches /\ r.column = t.column
  <2> HIDE DEF r, t
  <2> QED BY <1>5, Unchanged
<1>7. SourceOf(i).cloned = (CloneOf(i) /\ Cloner(f))
  BY DEF SourceOf
<1>8. /\ t.sources = sel.sources /\ t.nEntries = sel.nEntries /\ t.index = sel.index
      /\ t.events = sel.events /\ t.provenance = sel.provenance
      /\ t.descriptions = sel.descriptions /\ t.readBranches = sel.readBranches
      /\ t.wasFastCloned = (sel.wasFastCloned \/ SourceOf(i).cloned)
      /\ DOMAIN t.column = DOMAIN sel.column
      /\ \A b \in DOMAIN t.column :
           t.column[b] = IF SourceOf(i).cloned /\ b \in Present(f) \cap sel.readBranches
                         THEN sel.column[b] \o f.tree ELSE sel.column[b]
      /\ CloneOf(i) => t.uncloned =
           {b \in t.readBranches : Len(t.column[b]) #
              sel.treeEntries + (IF SourceOf(i).cloned THEN Len(f.tree) ELSE 0)}
  <2>1. CASE CloneOf(i)
    <3>1. t = FastCloneTree(sel, f)
      BY <2>1 DEF TreeBegun
    <3> HIDE DEF t, sel, f
    <3>2. /\ Changed(t, sel, {"column", "treeEntries", "wasFastCloned", "uncloned"})
          /\ t.column = [b \in DOMAIN sel.column |->
                           sel.column[b] \o (IF b \in Copied(sel, f) THEN f.tree ELSE <<>>)]
          /\ t.wasFastCloned = (sel.wasFastCloned \/ Cloner(f))
          /\ t.uncloned = {b \in sel.readBranches : Len(t.column[b]) #
                             sel.treeEntries + (IF Cloner(f) THEN Len(f.tree) ELSE 0)}
      <4> DEFINE u == FastCloneTree(sel, f)
      <4>1. DOMAIN sel = Fields
        BY <1>1
      <4>2. /\ Changed(u, sel, {"column", "treeEntries", "wasFastCloned", "uncloned"})
            /\ u.column = [b \in DOMAIN sel.column |->
                             sel.column[b] \o (IF b \in Copied(sel, f) THEN f.tree ELSE <<>>)]
            /\ u.wasFastCloned = (sel.wasFastCloned \/ Cloner(f))
            /\ u.uncloned = {b \in sel.readBranches : Len(u.column[b]) #
                               sel.treeEntries + (IF Cloner(f) THEN Len(f.tree) ELSE 0)}
        BY <4>1, FastCloned, ZenonT(60)
      <4>3. t = u
        BY <3>1
      <4> HIDE DEF u
      <4> QED BY <4>2, <4>3
    <3>3. /\ t.sources = sel.sources /\ t.nEntries = sel.nEntries /\ t.index = sel.index
          /\ t.events = sel.events /\ t.provenance = sel.provenance
          /\ t.descriptions = sel.descriptions /\ t.readBranches = sel.readBranches
      BY <3>2, Unchanged
    <3>4. SourceOf(i).cloned = Cloner(f)
      BY <1>7, <2>1 DEF Cloner
    <3>5. ASSUME NEW b \in DOMAIN t.column
          PROVE  t.column[b] = IF SourceOf(i).cloned /\ b \in Present(f) \cap sel.readBranches
                               THEN sel.column[b] \o f.tree ELSE sel.column[b]
      <4>1. sel.column[b] \in Seq(Cells)
        BY <1>1, <3>2, WellFormedType
      <4>2. sel.column[b] \o <<>> = sel.column[b]
        BY <4>1
      <4>3. t.column[b] = sel.column[b] \o (IF b \in Copied(sel, f) THEN f.tree ELSE <<>>)
        BY <3>2
      <4>4. b \in Copied(sel, f) <=> SourceOf(i).cloned /\ b \in Present(f) \cap sel.readBranches
        BY <3>4 DEF Copied, Cloner
      <4> QED BY <4>2, <4>3, <4>4
    <3>6. t.uncloned = {b \in t.readBranches : Len(t.column[b]) #
              sel.treeEntries + (IF SourceOf(i).cloned THEN Len(f.tree) ELSE 0)}
      BY <3>2, <3>3, <3>4
    <3>7. DOMAIN t.column = DOMAIN sel.column /\ t.wasFastCloned = (sel.wasFastCloned \/ SourceOf(i).cloned)
      BY <3>2, <3>4
    <3> QED BY <3>3, <3>5, <3>6, <3>7
  <2>2. CASE ~ CloneOf(i)
    <3>1. t = sel
      BY <2>2 DEF TreeBegun
    <3>2. ~ SourceOf(i).cloned
      BY <1>7, <2>2
    <3>3. sel.wasFastCloned \in BOOLEAN
      BY <1>1 DEF WellFormed, IsOutput
    <3> HIDE DEF t, sel, f
    <3> QED BY <2>2, <3>1, <3>2, <3>3
  <2> QED BY <2>1, <2>2
<1> HIDE DEF r, sel, f, t
<1>9. r.sources = Append(o.sources, SourceOf(i))
  BY <1>3, <1>5, <1>8
<1>10. DOMAIN r.column = {"EventAuxiliary"} \cup Kept(i)
  BY <1>4, <1>6, <1>8
<1>11. /\ r.nEntries = o.nEntries /\ r.index = o.index /\ r.events = o.events
       /\ r.provenance = o.provenance /\ r.descriptions = o.descriptions
       /\ r.readBranches = sel.readBranches
  BY <1>3, <1>6, <1>8
<1>12. r.wasFastCloned = (o.wasFastCloned \/ SourceOf(i).cloned)
  BY <1>3, <1>6, <1>8
<1>13. \A b \in DOMAIN r.column :
         r.column[b] = IF SourceOf(i).cloned /\ b \in Present(f) \cap r.readBranches
                       THEN Former(o, b) \o f.tree ELSE Former(o, b)
  BY <1>4, <1>6, <1>8
<1>14. CloneOf(i) => r.uncloned =
         {b \in r.readBranches : Len(r.column[b]) #
            o.treeEntries + (IF SourceOf(i).cloned THEN Len(f.tree) ELSE 0)}
  BY <1>3, <1>6, <1>8
<1> QED BY <1>9, <1>10, <1>11, <1>12, <1>13, <1>14 DEF r, sel, f

LEMMA LastAppended ==
  ASSUME NEW S, NEW r, NEW o, NEW s \in S, o.sources \in Seq(S), r.sources = Append(o.sources, s)
  PROVE  /\ LastOf(r) = s /\ r.sources # <<>> /\ Len(o.sources) \in Nat
         /\ DOMAIN o.sources = 1..Len(o.sources) /\ Len(r.sources) = Len(o.sources) + 1
         /\ DOMAIN r.sources = 1..(Len(o.sources) + 1)
         /\ \A k \in DOMAIN o.sources : r.sources[k] = o.sources[k]
BY DEF LastOf

LEMMA SourceOfType ==
  ASSUME NEW i \in Nat
  PROVE  /\ SourceOf(i) \in Source /\ SourceOf(i).input = i
         /\ SourceOf(i).cloned => /\ ShouldFastClone /\ CloneOf(i) /\ job.inputs[i].tree # <<>>
BY DEF SourceOf, Source, CloneOf, Cloner

LEMMA BegunSourced ==
  ASSUME NEW o, WellFormed(o), job \in Jobs, NEW i \in 1..Len(job.inputs),
         {"EventAuxiliary"} \subseteq DOMAIN o.column,
         DOMAIN o.column \subseteq {"EventAuxiliary"} \cup Kept(i),
         \A k \in DOMAIN o.sources :
           o.sources[k].input \in 1..i /\ (o.sources[k].cloned => ShouldFastClone),
         o.wasFastCloned <=> \E k \in DOMAIN o.sources : o.sources[k].cloned
  PROVE  Sourced(BeginInputFile(o, i), i, ShouldFastClone, Kept(i))
<1> DEFINE r == BeginInputFile(o, i)
           s == SourceOf(i)
<1>1. /\ DOMAIN r.column = {"EventAuxiliary"} \cup Kept(i)
      /\ r.sources = Append(o.sources, s)
      /\ r.wasFastCloned = (o.wasFastCloned \/ s.cloned)
  BY BegunFields
<1>2. s \in Source /\ s.input = i /\ (s.cloned => ShouldFastClone)
  BY SourceOfType
<1>3. o.sources \in Seq(Source)
  BY DEF WellFormed, IsOutput
<1> HIDE DEF r, s
<1>4. /\ LastOf(r) = s /\ r.sources # <<>> /\ Len(o.sources) \in Nat
      /\ DOMAIN o.sources = 1..Len(o.sources) /\ Len(r.sources) = Len(o.sources) + 1
      /\ DOMAIN r.sources = 1..(Len(o.sources) + 1)
      /\ \A k \in DOMAIN o.sources : r.sources[k] = o.sources[k]
  <2>1. r.sources = Append(o.sources, s) /\ s \in Source
    BY <1>1, <1>2
  <2> QED BY <1>3, <2>1 DEF LastOf
<1>5. \A k \in DOMAIN r.sources : k \in DOMAIN o.sources \/ r.sources[k] = s
  BY <1>4 DEF LastOf
<1>6. \A k \in DOMAIN r.sources :
        r.sources[k].input \in 1..i /\ (r.sources[k].cloned => ShouldFastClone)
  BY <1>2, <1>4, <1>5
<1>7. r.wasFastCloned <=> \E k \in DOMAIN r.sources : r.sources[k].cloned
  <2>1. r.sources[Len(o.sources) + 1] = s /\ Len(o.sources) + 1 \in DOMAIN r.sources
    BY <1>4 DEF LastOf
  <2>2. \A k \in DOMAIN o.sources : k \in DOMAIN r.sources
    BY <1>4
  <2>3. r.wasFastCloned <=> (o.wasFastCloned \/ s.cloned)
    BY <1>1
  <2> QED BY <1>4, <1>5, <2>1, <2>2, <2>3
<1>8. Sourced(r, i, ShouldFastClone, Kept(i))
  BY <1>1, <1>2, <1>4, <1>6, <1>7 DEF Sourced
<1> QED BY <1>8 DEF r

LEMMA BegunColumns ==
  ASSUME NEW o, WellFormed(o), job \in Jobs, NEW i \in 1..Len(job.inputs),
         {"EventAuxiliary"} \subseteq DOMAIN o.column,
         DOMAIN o.column \subseteq {"EventAuxiliary"} \cup Kept(i),
         o.treeEntries = o.nEntries,
         \A b \in DOMAIN o.column : Len(o.column[b]) = o.nEntries
  PROVE  LET r == BeginInputFile(o, i)
             f == job.inputs[i]
         IN  /\ ColumnsAre(r, Len(f.tree))
             /\ WholeOf(r) = IF SourceOf(i).cloned THEN Present(f) \cap r.readBranches ELSE {}
             /\ \A b \in DOMAIN r.column :
                  /\ Former(o, b) \in Seq(Cells) /\ Len(Former(o, b)) = o.nEntries
                  /\ r.column[b] = IF b \in WholeOf(r) THEN Former(o, b) \o f.tree
                                   ELSE Former(o, b)
<1> DEFINE r == BeginInputFile(o, i)
           f == job.inputs[i]
           s == SourceOf(i)
<1>1. /\ DOMAIN r.column = {"EventAuxiliary"} \cup Kept(i)
      /\ r.sources = Append(o.sources, s) /\ r.nEntries = o.nEntries
      /\ r.wasFastCloned = (o.wasFastCloned \/ s.cloned)
      /\ \A b \in DOMAIN r.column :
           r.column[b] = IF s.cloned /\ b \in Present(f) \cap r.readBranches
                         THEN Former(o, b) \o f.tree ELSE Former(o, b)
      /\ CloneOf(i) => r.uncloned =
           {b \in r.readBranches : Len(r.column[b]) #
              o.treeEntries + (IF s.cloned THEN Len(f.tree) ELSE 0)}
  BY BegunFields
<1>2. s \in Source /\ (s.cloned => CloneOf(i) /\ f.tree # <<>>)
  BY SourceOfType
<1>3. f \in Input /\ f.tree \in Seq(ID) /\ Len(f.tree) \in Nat /\ f.tree \in Seq(Cells)
  <2>1. f \in Input
    BY JobType
  <2> QED BY <2>1, InputType DEF Cells
<1>4. WellFormed(r)
  BY BegunWellFormed
<1>5. o.nEntries \in Nat /\ \A b \in DOMAIN o.column : o.column[b] \in Seq(Cells)
  BY WellFormedType
<1>6. LastOf(r) = s
  <2>1. o.sources \in Seq(Source)
    BY DEF WellFormed, IsOutput
  <2>2. r.sources = Append(o.sources, s)
    BY <1>1
  <2>3. s \in Source
    BY <1>2
  <2> HIDE DEF r, s
  <2> DEFINE q == o.sources
  <2>4. q \in Seq(Source) /\ r.sources = Append(q, s)
    BY <2>1, <2>2
  <2> HIDE DEF q
  <2>5. r.sources[Len(r.sources)] = s
    BY <2>3, <2>4
  <2> QED BY <2>5 DEF LastOf
<1> HIDE DEF r, f, s
<1>7. \A b : Former(o, b) \in Seq(Cells) /\ Len(Former(o, b)) = o.nEntries
  <2>1. Backfill(o) \in Seq(Cells) /\ Len(Backfill(o)) = o.nEntries
    BY <1>5 DEF Backfill, Repeat, Cells
  <2> QED BY <1>5, <2>1 DEF Former
<1>8. \A b \in DOMAIN r.column :
        Len(r.column[b]) = o.nEntries + (IF s.cloned /\ b \in Present(f) \cap r.readBranches
                                         THEN Len(f.tree) ELSE 0)
  <2>1. ASSUME NEW b \in DOMAIN r.column
        PROVE  Len(r.column[b]) = o.nEntries + (IF s.cloned /\ b \in Present(f) \cap r.readBranches
                                                THEN Len(f.tree) ELSE 0)
    <3>1. Former(o, b) \in Seq(Cells) /\ Len(Former(o, b)) = o.nEntries
      BY <1>7
    <3>2. Len(Former(o, b) \o f.tree) = o.nEntries + Len(f.tree)
      <4> DEFINE c == Former(o, b)
                 t == f.tree
      <4>1. c \in Seq(Cells) /\ t \in Seq(Cells) /\ Len(c) = o.nEntries
        BY <1>3, <3>1
      <4> HIDE DEF c, t
      <4>2. Len(c \o t) = o.nEntries + Len(t)
        BY <4>1
      <4> QED BY <4>2 DEF c, t
    <3>3. r.column[b] = IF s.cloned /\ b \in Present(f) \cap r.readBranches
                        THEN Former(o, b) \o f.tree ELSE Former(o, b)
      BY <1>1
    <3> QED BY <1>5, <3>1, <3>2, <3>3
  <2> QED BY <2>1
<1>9. WholeOf(r) = IF s.cloned THEN Present(f) \cap r.readBranches ELSE {}
  <2>1. CASE s.cloned
    <3>1. r.wasFastCloned /\ LastOf(r).cloned
      BY <1>1, <1>6, <2>1
    <3>2. r.uncloned = {b \in r.readBranches : Len(r.column[b]) # o.nEntries + Len(f.tree)}
      BY <1>1, <1>2, <2>1
    <3>3. Len(f.tree) # 0
      BY <1>2, <1>3, <2>1
    <3>4. r.readBranches \subseteq DOMAIN r.column
      BY <1>4 DEF WellFormed, IsOutput
    <3>5. \A b \in r.readBranches : b \in r.uncloned <=> b \notin Present(f)
      BY <1>3, <1>5, <1>8, <2>1, <3>2, <3>3, <3>4
    <3> QED BY <2>1, <3>1, <3>5 DEF WholeOf
  <2>2. CASE ~ s.cloned
    BY <1>6, <2>2 DEF WholeOf
  <2> QED BY <2>1, <2>2
<1>10. ColumnsAre(r, Len(f.tree))
  <2>1. \A b : b \in WholeOf(r) <=> s.cloned /\ b \in Present(f) \cap r.readBranches
    BY <1>9
  <2> QED BY <1>1, <1>8, <2>1 DEF ColumnsAre
<1>11. \A b \in DOMAIN r.column :
         r.column[b] = IF b \in WholeOf(r) THEN Former(o, b) \o f.tree ELSE Former(o, b)
  BY <1>1, <1>9
<1> QED BY <1>7, <1>9, <1>10, <1>11 DEF r, f, s

LEMMA UnreadFinite ==
  ASSUME LoopTypes, input # 0
  PROVE  /\ IsFiniteSet(Unread) /\ Cardinality(Unread) \in Nat
         /\ IsFiniteSet(inFlight) /\ Cardinality(inFlight) \in Nat
         /\ ToCome \in Nat
         /\ at = Len(file.entries) => Unread = {}
         /\ at = Len(file.entries) /\ inFlight = {} => ToCome = 0
<1>1. Unread \in SUBSET (1..Len(file.entries))
  BY CurrentInput DEF Unread, Events
<1>2. IsFiniteSet(Unread)
  <2>1. IsFiniteSet(1..Len(file.entries))
    <3>1. Len(file.entries) \in Int /\ 1 \in Int
      BY CurrentInput
    <3> QED BY <3>1, FS_Interval
  <2> HIDE DEF Unread
  <2> QED BY <1>1, <2>1, FS_Subset
<1>3. IsFiniteSet(inFlight)
  BY DEF LoopTypes
<1>4. Cardinality(Unread) \in Nat /\ Cardinality(inFlight) \in Nat
  BY <1>2, <1>3, FS_CardinalityType
<1>5. at = Len(file.entries) => Unread = {}
  <2>1. \A p \in 1..Len(file.entries) : at = Len(file.entries) => ~ (p > at)
    BY CurrentInput
  <2> QED BY <2>1, CurrentInput DEF Unread, Events
<1>6. at = Len(file.entries) /\ inFlight = {} => ToCome = 0
  <2>1. Cardinality({}) = 0
    BY FS_EmptySet
  <2>2. ASSUME at = Len(file.entries), inFlight = {} PROVE ToCome = 0
    <3>1. Cardinality(Unread) = 0 /\ Cardinality(inFlight) = 0
      BY <1>5, <2>1, <2>2
    <3> QED BY <3>1 DEF ToCome
  <2> QED BY <2>2
<1> QED BY <1>2, <1>3, <1>4, <1>5, <1>6 DEF ToCome

(* Of an input of an unmixed file that has events, the branches not filled *)
(* event by event are those that were cloned.                              *)
LEMMA FilledAreTheRest ==
  ASSUME NEW o, WellFormed(o), NEW i, NEW fast, NEW kept, Sourced(o, i, fast, kept),
         ClonesOnly(o), EventsOf(job.inputs[i]) # {}
  PROVE  \A b \in DOMAIN o.column : b \in Filled(o) <=> b \notin WholeOf(o)
<1>1. /\ DOMAIN o.column = o.readBranches \cup o.producedBranches
      /\ o.readBranches \cap o.producedBranches = {} /\ o.uncloned \subseteq o.readBranches
      /\ o.sources \in Seq(Source) /\ o.sources # <<>>
  BY DEF WellFormed, IsOutput, Sourced
<1>2. /\ Len(o.sources) \in Nat /\ DOMAIN o.sources = 1..Len(o.sources)
      /\ Len(o.sources) \in DOMAIN o.sources
  BY <1>1
<1>3. CASE o.wasFastCloned
  <2>1. PICK k \in DOMAIN o.sources : o.sources[k].cloned
    BY <1>3 DEF Sourced
  <2>2. LastOf(o).cloned
    <3>1. CASE k = Len(o.sources)
      BY <2>1, <3>1 DEF LastOf
    <3>2. CASE k # Len(o.sources)
      <4>1. Len(o.sources) \in (k + 1)..Len(o.sources)
        BY <1>2, <3>2
      <4>2. o.sources[Len(o.sources)].cloned
              \/ EventsOf(job.inputs[o.sources[Len(o.sources)].input]) = {}
        BY <2>1, <4>1, ClonesOnlyIs
      <4> QED BY <4>2 DEF LastOf, Sourced
    <3> QED BY <3>1, <3>2
  <2> QED BY <1>1, <1>3, <2>2 DEF Filled, WholeOf
<1>4. CASE ~ o.wasFastCloned
  BY <1>1, <1>4 DEF Filled, WholeOf
<1> QED BY <1>3, <1>4

LEMMA OpenHas ==
  \A o \in Open : o = out /\ out.open
BY DEF Open

LEMMA FitInit ==
  Init => FitInv
<1> SUFFICES ASSUME Init PROVE FitInv
  OBVIOUS
<1>1. ~ out.open /\ phase # "Failed"
  BY DEF Init, NoOutput
<1>2. Open = {}
  BY <1>1 DEF Open
<1> QED BY <1>1, <1>2, TypesInit DEF FitInv, SourcesInv, ColumnsInv, FailedInv

LEMMA FitAtOpenInput ==
  ASSUME FitInv, OpenInput
  PROVE  FitInv'
<1>1. /\ phase = "NextFile" /\ phase' = "Items" /\ input < Len(job.inputs)
      /\ job' = job /\ input' = input + 1 /\ at' = 0 /\ inFlight' = inFlight
      /\ out' = IF out.open THEN BeginInputFile(out, input + 1) ELSE out
  BY DEF OpenInput
<1>2. TypesInv /\ TypesInv' /\ input + 1 \in 1..Len(job.inputs) /\ input \in Nat /\ job \in Jobs
  <2>1. TypesInv /\ TypesInv'
    BY TypesAtOpenInput DEF FitInv
  <2> QED BY <1>1, <2>1, JobType DEF TypesInv, LoopTypes
<1>3. CASE ~ out.open
  <2>1. Open' = {}
    BY <1>1, <1>3 DEF Open
  <2> QED BY <1>1, <1>2, <2>1 DEF FitInv, SourcesInv, ColumnsInv, FailedInv
<1>4. CASE out.open
  <2> DEFINE r == BeginInputFile(out, input + 1)
             f == job.inputs[input + 1]
  <2>1. out' = r /\ WellFormed(out) /\ Sourced(out, input, ShouldFastClone, Kept(input))
    <3>1. WellFormed(out)
      BY <1>2, <1>4, OpenIsBoolean DEF TypesInv
    <3>2. out \in Open
      BY <1>4 DEF Open
    <3> QED BY <1>1, <1>4, <3>1, <3>2 DEF FitInv, SourcesInv
  <2>2. /\ {"EventAuxiliary"} \subseteq DOMAIN out.column
        /\ DOMAIN out.column \subseteq {"EventAuxiliary"} \cup Kept(input + 1)
        /\ \A k \in DOMAIN out.sources :
             out.sources[k].input \in 1..(input + 1) /\ (out.sources[k].cloned => ShouldFastClone)
        /\ out.wasFastCloned <=> \E k \in DOMAIN out.sources : out.sources[k].cloned
    <3>1. Kept(input) \subseteq Kept(input + 1)
      <4>1. \A k \in 1..input : k \in 1..(input + 1)
        BY <1>2
      <4> QED BY <4>1 DEF Kept
    <3>2. \A k \in 1..input : k \in 1..(input + 1)
      BY <1>2
    <3> QED BY <2>1, <3>1, <3>2 DEF Sourced
  <2>3. Sourced(r, input + 1, ShouldFastClone, Kept(input + 1))
    BY <1>2, <2>1, <2>2, BegunSourced
  <2>4. r.sources = Append(out.sources, SourceOf(input + 1))
    BY <1>2, <2>1, <2>2, BegunFields
  <2>5. input # 0
    <3>1. Len(out.sources) \in DOMAIN out.sources
      <4>1. out.sources # <<>> /\ out.sources \in Seq(Source)
        BY <2>1 DEF Sourced, WellFormed, IsOutput
      <4> HIDE DEF r
      <4> QED BY <4>1
    <3>2. out.sources[Len(out.sources)].input \in 1..input
      BY <2>1, <3>1 DEF Sourced
    <3> QED BY <1>2, <3>2
  <2>6. ToCome = 0 /\ inFlight = {}
    <3>1. inFlight = {} /\ at = Len(file.entries)
      BY <1>1, <1>2, <2>5 DEF TypesInv, LoopInv
    <3> QED BY <1>2, <2>5, <3>1, UnreadFinite DEF TypesInv
  <2>7. ASSUME ClonesOnly(r) PROVE ColumnsAre(r, ToCome')
    <3>1. ClonesOnly(out)
      <4>1. out.sources \in Seq(Source) /\ SourceOf(input + 1) \in Source
        BY <1>2, <2>1, SourceOfType DEF WellFormed, IsOutput
      <4> HIDE DEF r
      <4> QED BY <2>4, <2>7, <4>1, ClonesOnlyBefore
    <3>2. ColumnsAre(out, 0) /\ out.treeEntries = out.nEntries
      BY <1>1, <1>4, <2>6, <3>1 DEF FitInv, ColumnsInv, Open
    <3>3. \A b \in DOMAIN out.column : Len(out.column[b]) = out.nEntries
      BY <1>2, <2>1, <3>2, WellFormedType DEF ColumnsAre
    <3>4. ColumnsAre(r, Len(f.tree)) /\ WholeOf(r) =
            IF SourceOf(input + 1).cloned THEN Present(f) \cap r.readBranches ELSE {}
      BY <1>2, <2>1, <2>2, <3>2, <3>3, BegunColumns
    <3>5. CASE SourceOf(input + 1).cloned
      <4>1. TreeIsEvents(f)
        <5>1. LastOf(r) = SourceOf(input + 1) /\ Len(r.sources) \in DOMAIN r.sources
          <6>1. out.sources \in Seq(Source) /\ SourceOf(input + 1) \in Source
            BY <1>2, <2>1, SourceOfType DEF WellFormed, IsOutput
          <6> HIDE DEF r
          <6> QED BY <2>4, <6>1 DEF LastOf
        <5>2. SourceOf(input + 1).input = input + 1
          BY DEF SourceOf
        <5> HIDE DEF r
        <5> QED BY <2>7, <3>5, <5>1, <5>2, ClonesOnlyIs DEF LastOf
      <4>2. file' = f
        BY <1>1 DEF file
      <4>3. Unread' = Events(f.entries)
        <5>1. \A p \in Events(f.entries) : p > 0
          <6>1. f \in Input
            BY <1>2, JobType
          <6> QED BY <6>1, InputType DEF Events
        <5> QED BY <1>1, <4>2, <5>1 DEF Unread
      <4>4. Cardinality(Unread)' = Len(f.tree) /\ Cardinality(inFlight)' = 0
        BY <1>1, <2>6, <4>1, <4>3, FS_EmptySet DEF TreeIsEvents
      <4>5. Len(f.tree) \in Nat
        <5>1. f \in Input
          BY <1>2, JobType
        <5> QED BY <5>1, InputType
      <4>6. ToCome' = Len(f.tree)
        BY <4>4, <4>5 DEF ToCome
      <4> QED BY <3>4, <4>6
    <3>6. CASE ~ SourceOf(input + 1).cloned
      <4>1. WholeOf(r) = {}
        BY <3>4, <3>6
      <4> HIDE DEF r
      <4> QED BY <3>4, <4>1 DEF ColumnsAre
    <3> QED BY <3>5, <3>6
  <2>8. \A o \in Open' : o = r
    BY <2>1 DEF Open
  <2> HIDE DEF r
  <2>9. SourcesInv'
    BY <1>1, <2>3, <2>8, SourcesAfter
  <2>10. ColumnsInv'
    BY <1>1, <2>7, <2>8, ColumnsAfter
  <2>11. FailedInv'
    BY <1>1, FailedAfter
  <2> QED BY <1>2, <2>9, <2>10, <2>11 DEF FitInv
<1> QED BY <1>3, <1>4

LEMMA FitAtOpenOutput ==
  ASSUME FitInv, OpenOutput
  PROVE  FitInv'
<1> DEFINE o == NewOutputFile
           r == BeginInputFile(o, input)
           f == job.inputs[input]
<1>1. /\ phase = "Items" /\ ~ out.open /\ out' = r
      /\ job' = job /\ input' = input /\ at' = at /\ phase' = phase /\ inFlight' = inFlight
  BY DEF OpenOutput, loop
<1>2. TypesInv /\ TypesInv' /\ input \in 1..Len(job.inputs) /\ job \in Jobs
  <2>1. TypesInv /\ TypesInv' /\ input # 0
    BY <1>1, TypesAtOpenOutput DEF FitInv, TypesInv, LoopInv
  <2> QED BY <2>1, CurrentInput DEF TypesInv, LoopTypes
<1>3. /\ WellFormed(o) /\ DOMAIN o.column = {"EventAuxiliary"} /\ o.sources = <<>>
      /\ o.wasFastCloned = FALSE /\ o.treeEntries = 0 /\ o.nEntries = 0
      /\ o.column["EventAuxiliary"] = <<>>
  BY NewFileWellFormed DEF NewOutputFile
<1> HIDE DEF o
<1>4. DOMAIN o.sources = {} /\ Len(o.column["EventAuxiliary"]) = 0
  BY <1>3
<1>5. /\ {"EventAuxiliary"} \subseteq DOMAIN o.column
      /\ DOMAIN o.column \subseteq {"EventAuxiliary"} \cup Kept(input)
  BY <1>3
<1>6. Sourced(r, input, ShouldFastClone, Kept(input))
  BY <1>2, <1>3, <1>4, <1>5, BegunSourced
<1>7. r.sources = Append(o.sources, SourceOf(input))
  BY <1>2, <1>3, <1>5, BegunFields
<1>8. /\ ColumnsAre(r, Len(f.tree))
      /\ WholeOf(r) = IF SourceOf(input).cloned THEN Present(f) \cap r.readBranches ELSE {}
  <2>1. o.treeEntries = o.nEntries /\ \A b \in DOMAIN o.column : Len(o.column[b]) = o.nEntries
    BY <1>3, <1>4
  <2> QED BY <1>2, <1>3, <1>5, <2>1, BegunColumns
<1>9. ASSUME ClonesOnly(r) PROVE ColumnsAre(r, ToCome')
  <2>1. CASE SourceOf(input).cloned
    <3>1. ShouldFastClone /\ SourceOf(input).input = input /\ SourceOf(input) \in Source
      BY <1>2, <2>1, SourceOfType
    <3>2. at = 0 /\ inFlight = {}
      BY <1>1, <1>2, <3>1 DEF TypesInv, LoopInv
    <3>3. TreeIsEvents(f)
      <4>1. r.sources = <<SourceOf(input)>>
        BY <1>3, <1>7
      <4>2. 1 \in DOMAIN r.sources /\ r.sources[1] = SourceOf(input)
        BY <4>1
      <4> HIDE DEF r
      <4> QED BY <1>9, <2>1, <3>1, <4>2, ClonesOnlyIs
    <3>4. Unread' = Events(f.entries)
      <4>1. f \in Input /\ file' = f
        BY <1>1, <1>2, JobType DEF file
      <4>2. \A p \in Events(f.entries) : p > 0
        BY <4>1, InputType DEF Events
      <4> QED BY <1>1, <3>2, <4>1, <4>2 DEF Unread
    <3>5. Cardinality(Unread)' = Len(f.tree) /\ Cardinality(inFlight)' = 0
      BY <1>1, <3>2, <3>3, <3>4, FS_EmptySet DEF TreeIsEvents
    <3>6. Len(f.tree) \in Nat
      <4>1. f \in Input
        BY <1>2, JobType
      <4> QED BY <4>1, InputType
    <3>7. ToCome' = Len(f.tree)
      BY <3>5, <3>6 DEF ToCome
    <3> QED BY <1>8, <3>7
  <2>2. CASE ~ SourceOf(input).cloned
    <3>1. WholeOf(r) = {}
      BY <1>8, <2>2
    <3> HIDE DEF r
    <3> QED BY <1>8, <3>1 DEF ColumnsAre
  <2> QED BY <2>1, <2>2
<1>10. \A c \in Open' : c = r
  BY <1>1 DEF Open
<1> HIDE DEF r
<1>11. SourcesInv'
  BY <1>1, <1>6, <1>10, SourcesAfter
<1>12. ColumnsInv'
  BY <1>1, <1>9, <1>10, ColumnsAfter
<1>13. FailedInv'
  BY <1>1, FailedAfter
<1> QED BY <1>2, <1>11, <1>12, <1>13 DEF FitInv

(* Reading an event of a cloned input does not change what is to come.     *)
LEMMA ToComeAtBegin ==
  ASSUME TypesInv, BeginRun \/ BeginSubRun \/ BeginEvent
  PROVE  /\ BeginEvent => /\ at + 1 \in Unread /\ Unread' = Unread \ {at + 1}
                          /\ job.nschedules = 1 => inFlight = {} /\ inFlight' = {next}
         /\ ~ BeginEvent => Unread' = Unread /\ inFlight' = inFlight
         /\ job.nschedules = 1 => ToCome' = ToCome
<1>1. input # 0 /\ job' = job /\ input' = input /\ at' = at + 1 /\ nextIs # "End"
  BY NextEntry DEF TypesInv, BeginRun, BeginSubRun, BeginEvent
<1>2. file' = file
  BY <1>1, FileKept
<1>3. /\ at \in Nat /\ at + 1 \in DOMAIN file.entries /\ nextIs = EntryType(next)
      /\ DOMAIN file.entries \subseteq Nat /\ Len(file.entries) \in Nat
  BY <1>1, NextEntry, CurrentInput DEF TypesInv
<1>4. \A p \in DOMAIN file.entries : p > at + 1 <=> p > at /\ p # at + 1
  BY <1>3
<1>5. Unread' = Unread \ {at + 1}
  BY <1>1, <1>2, <1>4 DEF Unread, Events
<1>6. at + 1 \in Unread <=> nextIs = "Event"
  BY <1>3 DEF Unread, Events, next
<1>7. BeginEvent => nextIs = "Event" /\ inFlight' = inFlight \cup {next}
                    /\ Cardinality(inFlight) < job.nschedules
  BY DEF BeginEvent
<1>8. ~ BeginEvent => nextIs # "Event" /\ inFlight' = inFlight
  BY DEF BeginRun, BeginSubRun
<1>9. /\ IsFiniteSet(Unread) /\ Cardinality(Unread) \in Nat
      /\ IsFiniteSet(inFlight) /\ Cardinality(inFlight) \in Nat
  BY <1>1, UnreadFinite DEF TypesInv
<1>10. BeginEvent /\ job.nschedules = 1 => inFlight = {} /\ inFlight' = {next}
  <2>1. SUFFICES ASSUME BeginEvent, job.nschedules = 1 PROVE inFlight = {} /\ inFlight' = {next}
    OBVIOUS
  <2>2. Cardinality(inFlight) = 0
    BY <1>7, <1>9, <2>1
  <2>3. inFlight = {}
    BY <1>9, <2>2, FS_EmptySet
  <2> QED BY <1>7, <2>1, <2>3
<1>11. job.nschedules = 1 => ToCome' = ToCome
  <2>1. CASE BeginEvent
    <3>1. SUFFICES ASSUME job.nschedules = 1 PROVE ToCome' = ToCome
      OBVIOUS
    <3>2. at + 1 \in Unread
      BY <1>6, <1>7, <2>1
    <3>3. Cardinality(Unread \ {at + 1}) = Cardinality(Unread) - 1
      BY <1>9, <3>2, FS_RemoveElement
    <3>4. Cardinality(Unread') = Cardinality(Unread) - 1
      BY <1>5, <3>3
    <3>5. inFlight = {} /\ inFlight' = {next}
      BY <1>10, <2>1, <3>1
    <3>6. Cardinality(inFlight) = 0 /\ Cardinality(inFlight') = 1
      <4>1. Cardinality({}) = 0
        BY FS_EmptySet
      <4>2. Cardinality({next}) = 1
        BY FS_Singleton
      <4> QED BY <3>5, <4>1, <4>2
    <3> QED BY <1>9, <3>4, <3>6 DEF ToCome
  <2>2. CASE ~ BeginEvent
    <3>1. at + 1 \notin Unread /\ inFlight' = inFlight
      BY <1>6, <1>8, <2>2
    <3>2. Unread' = Unread
      BY <1>5, <3>1
    <3> QED BY <3>1, <3>2 DEF ToCome
  <2> QED BY <2>1, <2>2
<1>12. ~ BeginEvent => Unread' = Unread
  BY <1>5, <1>6, <1>8
<1> QED BY <1>5, <1>6, <1>7, <1>8, <1>10, <1>11, <1>12

LEMMA OpenFile ==
  ASSUME TypesInv, SourcesInv, out.open
  PROVE  /\ WellFormed(out) /\ job \in Jobs /\ out \in Open
         /\ Sourced(out, input, ShouldFastClone, Kept(input))
         /\ input # 0 /\ out.sources \in Seq(Source) /\ Len(out.sources) \in DOMAIN out.sources
         /\ LastOf(out).cloned =>
              ShouldFastClone /\ job.nschedules = 1 /\ job.wantAllEvents
         /\ WholeOf(out) # {} => LastOf(out).cloned
<1>1. WellFormed(out) /\ job \in Jobs /\ out \in Open
  BY OpenIsBoolean DEF Open, TypesInv, LoopTypes
<1>2. Sourced(out, input, ShouldFastClone, Kept(input))
  BY <1>1 DEF SourcesInv
<1>3. out.sources \in Seq(Source) /\ out.sources # <<>>
  BY <1>1, <1>2 DEF Sourced, WellFormed, IsOutput
<1>4. Len(out.sources) \in DOMAIN out.sources
  BY <1>3
<1>5. input # 0
  <2>1. out.sources[Len(out.sources)].input \in 1..input
    BY <1>2, <1>4 DEF Sourced
  <2>2. input \in Nat
    BY <1>1, JobType DEF TypesInv, LoopTypes
  <2> QED BY <2>1, <2>2
<1>6. LastOf(out).cloned => ShouldFastClone /\ job.nschedules = 1 /\ job.wantAllEvents
  BY <1>2, <1>4 DEF Sourced, LastOf, ShouldFastClone
<1>7. WholeOf(out) # {} => LastOf(out).cloned
  BY DEF WholeOf
<1> QED BY <1>1, <1>2, <1>3, <1>4, <1>5, <1>6, <1>7

LEMMA SameColumns ==
  ASSUME NEW o, NEW m, NEW n, ColumnsAre(o, n), WholeOf(o) # {} => m = n
  PROVE  ColumnsAre(o, m)
BY DEF ColumnsAre

LEMMA FitAtBegin ==
  ASSUME FitInv, BeginRun \/ BeginSubRun \/ BeginEvent
  PROVE  FitInv'
<1>1. out.open /\ job' = job /\ input' = input /\ out' = out /\ phase' = "Items"
  BY DEF BeginRun, BeginSubRun, BeginEvent, Ready
<1>2. TypesInv /\ TypesInv' /\ SourcesInv
  BY TypesAtBegin DEF FitInv
<1>3. \A o \in Open' : o = out
  BY <1>1 DEF Open
<1>4. SourcesInv'
  BY <1>1, <1>2, <1>3, OpenFile, SourcesAfter
<1>5. ASSUME ClonesOnly(out) PROVE ColumnsAre(out, ToCome')
  <2>1. WholeOf(out) # {} => ToCome' = ToCome
    BY <1>1, <1>2, OpenFile, ToComeAtBegin
  <2>2. ColumnsAre(out, ToCome)
    BY <1>1, <1>5 DEF FitInv, ColumnsInv, Open
  <2> QED BY <2>1, <2>2, SameColumns
<1>6. ColumnsInv'
  BY <1>1, <1>3, <1>5, ColumnsAfter
<1>7. FailedInv'
  BY <1>1, FailedAfter
<1> QED BY <1>2, <1>4, <1>6, <1>7 DEF FitInv

LEMMA WrittenTree ==
  ASSUME NEW o, WellFormed(o), NEW id, NEW f
  PROVE  LET r == WriteOne(o, id, f) IN
         /\ Changed(r, o, {"column", "nEntries", "provenance", "descriptions", "index", "events"})
         /\ r.column = [b \in DOMAIN o.column |->
                          IF b \in Filled(o) THEN Append(o.column[b], Value(b, id, f))
                          ELSE o.column[b]]
         /\ r.nEntries = o.nEntries + 1
         /\ r.provenance = Append(o.provenance, [id |-> id, kept |-> KeptOf(o, f)])
         /\ r.descriptions = o.descriptions \cup (DOMAIN o.column \ {"EventAuxiliary"})
                               \cup (IF job.dropForDropped THEN {}
                                     ELSE UNION {ParentsOf(p, f) : p \in KeptAncestors(o, f)})
         /\ r.index = o.index \cup {[id |-> id, row |-> o.events + 1]}
         /\ r.events = o.events + 1
<1>1. DOMAIN o = Fields
  BY DEF WellFormed
<1> QED BY <1>1, WrittenOne

(* Writing an event does not change where the file came from.              *)
LEMMA WrittenKeeps ==
  ASSUME NEW o, WellFormed(o), NEW id, NEW f
  PROVE  LET r == WriteOne(o, id, f) IN
         /\ r.sources = o.sources /\ r.wasFastCloned = o.wasFastCloned
         /\ r.readBranches = o.readBranches /\ r.producedBranches = o.producedBranches
         /\ r.uncloned = o.uncloned /\ r.treeEntries = o.treeEntries
         /\ r.open = o.open
         /\ r.nEntries = o.nEntries + 1 /\ r.events = o.events + 1
         /\ DOMAIN r.column = DOMAIN o.column /\ WholeOf(r) = WholeOf(o) /\ LastOf(r) = LastOf(o)
         /\ \A i, fast, kept : Sourced(o, i, fast, kept) => Sourced(r, i, fast, kept)
         /\ ClonesOnly(r) <=> ClonesOnly(o)
<1> DEFINE r == WriteOne(o, id, f)
<1>0. /\ Changed(r, o, {"column", "nEntries", "provenance", "descriptions", "index", "events"})
      /\ r.column = [b \in DOMAIN o.column |->
                       IF b \in Filled(o) THEN Append(o.column[b], Value(b, id, f))
                       ELSE o.column[b]]
      /\ r.nEntries = o.nEntries + 1
      /\ r.provenance = Append(o.provenance, [id |-> id, kept |-> KeptOf(o, f)])
      /\ r.descriptions = o.descriptions \cup (DOMAIN o.column \ {"EventAuxiliary"})
                            \cup (IF job.dropForDropped THEN {}
                                  ELSE UNION {ParentsOf(p, f) : p \in KeptAncestors(o, f)})
      /\ r.index = o.index \cup {[id |-> id, row |-> o.events + 1]}
      /\ r.events = o.events + 1
  BY WrittenTree
<1> HIDE DEF r
<1>1. /\ Changed(r, o, {"column", "nEntries", "provenance", "descriptions", "index", "events"})
      /\ DOMAIN r.column = DOMAIN o.column
  BY <1>0
<1>2. /\ r.open = o.open /\ r.sources = o.sources /\ r.wasFastCloned = o.wasFastCloned
      /\ r.readBranches = o.readBranches /\ r.producedBranches = o.producedBranches
      /\ r.uncloned = o.uncloned /\ r.treeEntries = o.treeEntries
  BY <1>1, Unchanged
<1>3. LastOf(r) = LastOf(o) /\ WholeOf(r) = WholeOf(o)
  BY <1>2 DEF LastOf, WholeOf
<1>4. ClonesOnly(r) <=> ClonesOnly(o)
  BY <1>2, ClonesOnlyIs
<1>5. \A i, fast, kept : Sourced(o, i, fast, kept) => Sourced(r, i, fast, kept)
  BY <1>1, <1>2, <1>3 DEF Sourced
<1> QED BY <1>0, <1>1, <1>2, <1>3, <1>4, <1>5 DEF r

LEMMA WrittenColumns ==
  ASSUME NEW o, WellFormed(o), job \in Jobs, NEW id \in ID, NEW f, NEW n \in Nat, ColumnsAre(o, n),
         n # 0 \/ WholeOf(o) = {}, \A b \in DOMAIN o.column : b \in Filled(o) <=> b \notin WholeOf(o)
  PROVE  ColumnsAre(WriteOne(o, id, f), n - 1)
<1> DEFINE r == WriteOne(o, id, f)
<1>0. /\ Changed(r, o, {"column", "nEntries", "provenance", "descriptions", "index", "events"})
      /\ r.column = [b \in DOMAIN o.column |->
                       IF b \in Filled(o) THEN Append(o.column[b], Value(b, id, f))
                       ELSE o.column[b]]
      /\ r.nEntries = o.nEntries + 1
      /\ r.provenance = Append(o.provenance, [id |-> id, kept |-> KeptOf(o, f)])
      /\ r.descriptions = o.descriptions \cup (DOMAIN o.column \ {"EventAuxiliary"})
                            \cup (IF job.dropForDropped THEN {}
                                  ELSE UNION {ParentsOf(p, f) : p \in KeptAncestors(o, f)})
      /\ r.index = o.index \cup {[id |-> id, row |-> o.events + 1]}
      /\ r.events = o.events + 1
  BY WrittenTree
<1>2. WholeOf(r) = WholeOf(o)
  BY WrittenKeeps
<1> HIDE DEF r
<1>1. /\ r.column = [b \in DOMAIN o.column |->
                       IF b \in Filled(o) THEN Append(o.column[b], Value(b, id, f)) ELSE o.column[b]]
      /\ r.nEntries = o.nEntries + 1
  BY <1>0
<1>3. ASSUME NEW b \in DOMAIN r.column
      PROVE  Len(r.column[b]) = r.nEntries + (IF b \in WholeOf(r) THEN n - 1 ELSE 0)
  <2>1. b \in DOMAIN o.column /\ o.column[b] \in Seq(Cells) /\ o.nEntries \in Nat
    BY <1>1, WellFormedType
  <2>2. Len(o.column[b]) = o.nEntries + (IF b \in WholeOf(o) THEN n ELSE 0)
    BY <2>1 DEF ColumnsAre
  <2>3. CASE b \in WholeOf(o)
    <3>1. Len(r.column[b]) = o.nEntries + n
      BY <1>1, <2>1, <2>2, <2>3
    <3> QED BY <1>1, <1>2, <2>1, <2>3, <3>1
  <2>4. CASE b \notin WholeOf(o)
    <3>1. r.column[b] = Append(o.column[b], Value(b, id, f))
      BY <1>1, <2>1, <2>4
    <3>2. Value(b, id, f) \in Cells
      BY ValueType DEF Cells
    <3>3. Len(r.column[b]) = Len(o.column[b]) + 1
      BY <2>1, <3>1, <3>2
    <3> QED BY <1>1, <1>2, <2>1, <2>2, <2>4, <3>3
  <2> QED BY <2>3, <2>4
<1> QED BY <1>3 DEF ColumnsAre, r

(* All events of a cloned input of an unmixed file are written. *)
LEMMA ClonedIsWanted ==
  ASSUME TypesInv, SourcesInv, out.open, ClonesOnly(out), LastOf(out).cloned,
         NEW id \in EventsOf(file)
  PROVE  Wanted(id)
<1>1. job.wantAllEvents /\ input # 0 /\ job \in Jobs /\ Len(out.sources) \in DOMAIN out.sources
  BY OpenFile
<1>2. ~ job.dropAllEvents
  BY <1>1, ClonesOnlyIs DEF LastOf
<1>3. EventsOf(file) \subseteq job.selected
  <2>1. input \in 1..Len(job.inputs)
    BY <1>1, CurrentInput DEF TypesInv
  <2> QED BY <1>1, <2>1, JobType DEF file
<1> QED BY <1>2, <1>3 DEF Wanted

LEMMA FitAtWriteEvent ==
  ASSUME FitInv, WriteEvent
  PROVE  FitInv'
<1>1. /\ phase' = "Items" /\ input # 0 /\ WellFormed(out)
      /\ job' = job /\ input' = input /\ at' = at
  BY EventWritten DEF FitInv
<1>2. PICK id \in inFlight :
        /\ inFlight' = inFlight \ {id} /\ id \in ID /\ id \in EventsOf(file)
        /\ Wanted(id) => out' = WriteOne(out, id, file) /\ fstats' = RecordEvent(fstats, id)
        /\ ~ Wanted(id) => out' = out /\ fstats' = fstats
  BY EventWritten DEF FitInv
<1>3. TypesInv /\ TypesInv' /\ SourcesInv /\ out.open
  BY <1>1, TypesAtWriteEvent DEF FitInv, WellFormed, IsOutput
<1>4. job \in Jobs /\ Sourced(out, input, ShouldFastClone, Kept(input))
  BY <1>3, OpenFile
<1>5. ToCome' = ToCome - 1 /\ ToCome \in Nat /\ ToCome # 0
  <2>1. /\ IsFiniteSet(inFlight) /\ Cardinality(inFlight) \in Nat /\ Cardinality(Unread) \in Nat
    BY <1>1, <1>3, UnreadFinite DEF TypesInv
  <2>2. Cardinality(inFlight \ {id}) = Cardinality(inFlight) - 1
    BY <2>1, FS_RemoveElement
  <2>3. Cardinality(inFlight) # 0
    <3>1. inFlight # {}
      OBVIOUS
    <3> QED BY <2>1, <3>1, FS_EmptySet
  <2>4. Unread' = Unread
    <3>1. file' = file
      BY <1>1, FileKept
    <3> QED BY <1>1, <3>1 DEF Unread
  <2>5. Cardinality(inFlight)' = Cardinality(inFlight) - 1
    BY <1>2, <2>2
  <2> QED BY <2>1, <2>3, <2>4, <2>5 DEF ToCome
<1>6. CASE Wanted(id)
  <2> DEFINE r == WriteOne(out, id, file)
  <2>1. \A o \in Open' : o = r
    BY <1>2, <1>6 DEF Open
  <2>2. Sourced(r, input, ShouldFastClone, Kept(input)) /\ (ClonesOnly(r) <=> ClonesOnly(out))
    BY <1>1, <1>4, WrittenKeeps
  <2>3. ASSUME ClonesOnly(r) PROVE ColumnsAre(r, ToCome')
    <3>1. ClonesOnly(out)
      BY <2>2, <2>3
    <3>2. ColumnsAre(out, ToCome)
      BY <1>3, <3>1 DEF FitInv, ColumnsInv, Open
    <3>3. \A b \in DOMAIN out.column : b \in Filled(out) <=> b \notin WholeOf(out)
      <4>1. EventsOf(job.inputs[input]) # {}
        BY <1>2 DEF file
      <4> QED BY <1>1, <1>4, <3>1, <4>1, FilledAreTheRest
    <3>4. ColumnsAre(r, ToCome - 1)
      <4> HIDE DEF ToCome
      <4> QED BY <1>1, <1>2, <1>4, <1>5, <3>2, <3>3, WrittenColumns
    <3> QED BY <1>5, <3>4
  <2> HIDE DEF r
  <2>4. SourcesInv'
    BY <1>1, <2>1, <2>2, SourcesAfter
  <2>5. ColumnsInv'
    BY <1>1, <2>1, <2>3, ColumnsAfter
  <2>6. FailedInv'
    BY <1>1, FailedAfter
  <2> QED BY <1>3, <2>4, <2>5, <2>6 DEF FitInv
<1>7. CASE ~ Wanted(id)
  <2>1. \A o \in Open' : o = out
    BY <1>2, <1>7 DEF Open
  <2>2. ASSUME ClonesOnly(out) PROVE ColumnsAre(out, ToCome')
    <3>1. ColumnsAre(out, ToCome)
      BY <1>3, <2>2 DEF FitInv, ColumnsInv, Open
    <3>2. WholeOf(out) = {}
      BY <1>2, <1>3, <1>7, <2>2, ClonedIsWanted, OpenFile
    <3> QED BY <3>1, <3>2, SameColumns
  <2>3. SourcesInv'
    BY <1>1, <1>4, <2>1, SourcesAfter
  <2>4. ColumnsInv'
    BY <1>1, <2>1, <2>2, ColumnsAfter
  <2>5. FailedInv'
    BY <1>1, FailedAfter
  <2> QED BY <1>3, <2>3, <2>4, <2>5 DEF FitInv
<1> QED BY <1>6, <1>7

(* A run or a subrun is no event: it is not in the tree.                   *)
LEMMA RunOrSubRunKeeps ==
  ASSUME NEW o, WellFormed(o), NEW id, NEW r \in {o, WithSubRun(o, id), WithRun(o, id)}
  PROVE  /\ r.open = o.open /\ r.sources = o.sources /\ r.column = o.column /\ r.nEntries = o.nEntries
         /\ r.treeEntries = o.treeEntries /\ r.readBranches = o.readBranches
         /\ r.wasFastCloned = o.wasFastCloned /\ r.uncloned = o.uncloned
         /\ r.events = o.events /\ r.provenance = o.provenance
         /\ r.descriptions = o.descriptions
         /\ \E row : r.index \subseteq o.index \cup {[id |-> id, row |-> row]}
         /\ o.index \subseteq r.index
<1>1. DOMAIN o = Fields
  BY DEF WellFormed
<1>2. CASE r = o
  BY <1>2
<1>3. CASE r = WithSubRun(o, id)
  <2>1. Changed(r, o, {"index", "subRuns"}) /\ r.index = o.index \cup {[id |-> id, row |-> o.subRuns + 1]}
    BY <1>1, <1>3, WrittenRunOrSubRun
  <2> QED BY <2>1, Unchanged
<1>4. CASE r = WithRun(o, id)
  <2>1. Changed(r, o, {"index", "runs"}) /\ r.index = o.index \cup {[id |-> id, row |-> o.runs + 1]}
    BY <1>1, <1>4, WrittenRunOrSubRun
  <2> QED BY <2>1, Unchanged
<1> QED BY <1>2, <1>3, <1>4

LEMMA SameTree ==
  ASSUME NEW o, NEW r, r.sources = o.sources, r.column = o.column, r.nEntries = o.nEntries,
         r.readBranches = o.readBranches,
         r.wasFastCloned = o.wasFastCloned, r.uncloned = o.uncloned
  PROVE  /\ LastOf(r) = LastOf(o) /\ WholeOf(r) = WholeOf(o)
         /\ ClonesOnly(r) <=> ClonesOnly(o)
         /\ \A i, fast, kept : Sourced(o, i, fast, kept) => Sourced(r, i, fast, kept)
         /\ \A n : ColumnsAre(o, n) => ColumnsAre(r, n)
<1>1. LastOf(r) = LastOf(o) /\ WholeOf(r) = WholeOf(o)
  BY DEF LastOf, WholeOf
<1>2. ClonesOnly(r) <=> ClonesOnly(o)
  BY ClonesOnlyIs
<1>3. \A i, fast, kept : Sourced(o, i, fast, kept) => Sourced(r, i, fast, kept)
  BY <1>1 DEF Sourced
<1>4. \A n : ColumnsAre(o, n) => ColumnsAre(r, n)
  BY <1>1 DEF ColumnsAre
<1> QED BY <1>1, <1>2, <1>3, <1>4

LEMMA ToComeKept ==
  ASSUME job' = job, input' = input, at' = at, inFlight' = inFlight
  PROVE  ToCome' = ToCome /\ Unread' = Unread
<1>1. file' = file
  BY FileKept
<1>2. Unread' = Unread
  BY <1>1 DEF Unread
<1> QED BY <1>2 DEF ToCome

LEMMA FitAtWriteRunOrSubRun ==
  ASSUME FitInv, WriteRun \/ WriteSubRun
  PROVE  FitInv'
<1>1. /\ owed # {} /\ job' = job /\ input' = input /\ at' = at /\ inFlight' = inFlight
      /\ phase' = "Items"
      /\ \E id : out' \in {out, WithSubRun(out, id), WithRun(out, id)}
  <2>1. CASE WriteRun
    BY <2>1 DEF WriteRun
  <2>2. CASE WriteSubRun
    BY <2>2 DEF WriteSubRun
  <2> QED BY <2>1, <2>2
<1>2. TypesInv /\ TypesInv' /\ SourcesInv /\ out.open
  BY <1>1, TypesAtWriteRunOrSubRun DEF FitInv, TypesInv, LoopInv
<1>3. WellFormed(out) /\ out \in Open /\ Sourced(out, input, ShouldFastClone, Kept(input))
  BY <1>2, OpenFile
<1>4. /\ out'.sources = out.sources /\ out'.column = out.column
      /\ out'.nEntries = out.nEntries /\ out'.readBranches = out.readBranches
      /\ out'.wasFastCloned = out.wasFastCloned /\ out'.uncloned = out.uncloned
  <2>1. PICK id : out' \in {out, WithSubRun(out, id), WithRun(out, id)}
    BY <1>1
  <2> QED BY <1>3, <2>1, RunOrSubRunKeeps
<1>5. /\ ClonesOnly(out') <=> ClonesOnly(out)
      /\ Sourced(out', input, ShouldFastClone, Kept(input))
      /\ ColumnsAre(out, ToCome) => ColumnsAre(out', ToCome)
  BY <1>3, <1>4, SameTree
<1>6. \A o \in Open' : o = out'
  BY DEF Open
<1>7. ToCome' = ToCome
  BY <1>1, ToComeKept
<1>8. SourcesInv'
  BY <1>1, <1>5, <1>6, SourcesAfter
<1>9. ColumnsInv'
  <2>1. ClonesOnly(out') => ColumnsAre(out', ToCome')
    BY <1>3, <1>5, <1>7 DEF FitInv, ColumnsInv
  <2> QED BY <1>1, <1>6, <2>1, ColumnsAfter
<1>10. FailedInv'
  BY <1>1, FailedAfter
<1> QED BY <1>2, <1>8, <1>9, <1>10 DEF FitInv

(* The branches of an unmixed file fit together when it may be closed.     *)
LEMMA UnmixedFits ==
  ASSUME FitInv, out.open, inFlight = {}, closing \/ phase \in {"NextFile", "EndOfInput"},
         ClonesOnly(out)
  PROVE  ColumnsAre(out, 0) /\ Aligned(out)
<1>1. /\ WellFormed(out) /\ job \in Jobs /\ out \in Open /\ input # 0
      /\ WholeOf(out) # {} => ShouldFastClone
  BY OpenFile DEF FitInv
<1>2. ColumnsAre(out, ToCome) /\ phase # "Failed"
  BY <1>1 DEF FitInv, ColumnsInv, FailedInv
<1>3. WholeOf(out) # {} => ToCome = 0
  <2>1. SUFFICES ASSUME WholeOf(out) # {} PROVE ToCome = 0
    OBVIOUS
  <2>2. phase \in {"NextFile", "EndOfInput"}
    BY <1>1, <1>2, <2>1 DEF FitInv, TypesInv, LoopInv
  <2>3. at = Len(file.entries)
    BY <1>1, <2>2 DEF FitInv, TypesInv, LoopInv
  <2> QED BY <1>1, <2>3, UnreadFinite DEF FitInv, TypesInv
<1>4. ColumnsAre(out, 0)
  BY <1>2, <1>3, SameColumns
<1>5. Aligned(out)
  BY <1>1, <1>4, WellFormedType DEF ColumnsAre, Aligned
<1> QED BY <1>4, <1>5

LEMMA FitAtCloseOutput ==
  ASSUME FitInv, CloseOutput
  PROVE  FitInv'
<1>1. /\ out.open /\ inFlight = {} /\ (closing \/ phase = "NextFile")
      /\ job' = job /\ input' = input /\ at' = at /\ inFlight' = inFlight
  BY DEF CloseOutput
<1>2. TypesInv /\ TypesInv' /\ SourcesInv
  BY TypesAtCloseOutput DEF FitInv
<1>3. CASE Aligned(out)
  <2>1. out' = NoOutput /\ phase' = phase /\ phase # "Failed"
    BY <1>1, <1>3 DEF CloseOutput, FitInv, FailedInv, Open
  <2>2. Open' = {}
    BY <2>1 DEF Open, NoOutput
  <2> QED BY <1>2, <2>1, <2>2 DEF FitInv, SourcesInv, ColumnsInv, FailedInv
<1>4. CASE ~ Aligned(out)
  <2>1. out' = out /\ phase' = "Failed"
    BY <1>4 DEF CloseOutput
  <2>2. ~ ClonesOnly(out)
    BY <1>1, <1>4, UnmixedFits
  <2>3. \A o \in Open' : o = out
    BY <2>1 DEF Open
  <2>4. SourcesInv'
    BY <1>1, <1>2, <2>3, OpenFile, SourcesAfter
  <2>5. ColumnsInv'
    BY <1>1, <2>2, <2>3, ColumnsAfter
  <2>6. FailedInv'
    BY <1>1, <1>4, <2>1, <2>2, <2>3, FailedAfter
  <2> QED BY <1>2, <2>4, <2>5, <2>6 DEF FitInv
<1> QED BY <1>3, <1>4

LEMMA FitAtEndInput ==
  ASSUME FitInv, EndInput
  PROVE  FitInv'
<1>1. /\ phase' = "EndOfInput" /\ out' = out
      /\ job' = job /\ input' = input /\ at' = at /\ inFlight' = inFlight
  BY DEF EndInput
<1>2. TypesInv'
  BY TypesAtEndInput DEF FitInv
<1>3. Open' = Open /\ ToCome' = ToCome
  BY <1>1, ToComeKept DEF Open
<1>4. SourcesInv'
  BY <1>1, <1>3, SourcesAfter DEF FitInv, SourcesInv
<1>5. ColumnsInv'
  BY <1>1, <1>3, ColumnsAfter DEF FitInv, ColumnsInv
<1>6. FailedInv'
  BY <1>1, FailedAfter
<1> QED BY <1>2, <1>4, <1>5, <1>6 DEF FitInv

LEMMA FitAtCloseInput ==
  ASSUME FitInv, CloseInput
  PROVE  FitInv'
<1>1. /\ phase = "EndOfInput" /\ ~ closing
      /\ job' = job /\ input' = input /\ at' = at /\ inFlight' = inFlight
  BY DEF CloseInput
<1>2. TypesInv /\ TypesInv' /\ SourcesInv /\ ToCome' = ToCome /\ inFlight = {}
  <2>1. TypesInv /\ TypesInv' /\ SourcesInv
    BY TypesAtCloseInput DEF FitInv
  <2>2. inFlight = {}
    BY <1>1, <2>1 DEF TypesInv, LoopInv
  <2> QED BY <1>1, <2>1, <2>2, ToComeKept
<1>3. CASE ~ out.open
  <2>1. out' = out /\ phase' = "NextFile"
    BY <1>3 DEF CloseInput
  <2>2. Open' = {}
    BY <1>3, <2>1 DEF Open
  <2> QED BY <1>2, <2>1, <2>2 DEF FitInv, SourcesInv, ColumnsInv, FailedInv
<1>4. CASE out.open /\ ~ Aligned(out)
  <2>1. out' = out /\ phase' = "Failed"
    BY <1>4 DEF CloseInput
  <2>2. ~ ClonesOnly(out)
    BY <1>1, <1>2, <1>4, UnmixedFits
  <2>3. \A o \in Open' : o = out
    BY <2>1 DEF Open
  <2>4. SourcesInv'
    BY <1>1, <1>2, <1>4, <2>3, OpenFile, SourcesAfter
  <2>5. ColumnsInv'
    BY <1>1, <2>2, <2>3, ColumnsAfter
  <2>6. FailedInv'
    BY <1>1, <1>4, <2>1, <2>2, <2>3, FailedAfter
  <2> QED BY <1>2, <2>4, <2>5, <2>6 DEF FitInv
<1>5. CASE out.open /\ Aligned(out)
  <2> DEFINE r == SetEntries(out)
  <2>1. out' = r /\ phase' = "NextFile"
    BY <1>5 DEF CloseInput
  <2>2. WellFormed(out) /\ Sourced(out, input, ShouldFastClone, Kept(input)) /\ out \in Open
        /\ job \in Jobs
    BY <1>2, <1>5, OpenFile
  <2>3. Changed(r, out, {"treeEntries"}) /\ r.treeEntries = Len(out.column["EventAuxiliary"])
    BY <2>2, EntriesSet DEF WellFormed
  <2>4. \A o \in Open' : o = r
    BY <2>1 DEF Open
  <2> HIDE DEF r
  <2>5. /\ r.sources = out.sources /\ r.column = out.column /\ r.nEntries = out.nEntries
        /\ r.readBranches = out.readBranches
        /\ r.wasFastCloned = out.wasFastCloned /\ r.uncloned = out.uncloned
    BY <2>3, Unchanged
  <2>6. /\ Sourced(r, input, ShouldFastClone, Kept(input))
        /\ ClonesOnly(r) <=> ClonesOnly(out)
        /\ ColumnsAre(out, ToCome) => ColumnsAre(r, ToCome)
    BY <2>2, <2>5, SameTree
  <2>7. ASSUME ClonesOnly(r) PROVE ColumnsAre(r, ToCome') /\ r.treeEntries = r.nEntries
    <3>1. ClonesOnly(out)
      BY <2>6, <2>7
    <3>2. ColumnsAre(out, ToCome)
      BY <2>2, <3>1 DEF FitInv, ColumnsInv
    <3>3. ColumnsAre(out, 0)
      BY <1>1, <1>2, <1>5, <3>1, UnmixedFits
    <3>4. Len(out.column["EventAuxiliary"]) = out.nEntries
      BY <2>2, <3>3, WellFormedType DEF ColumnsAre
    <3> QED BY <1>2, <2>3, <2>5, <2>6, <3>2, <3>4
  <2>8. SourcesInv'
    BY <1>1, <2>4, <2>6, SourcesAfter
  <2>9. ColumnsInv'
    BY <1>1, <2>4, <2>7, ColumnsAfter
  <2>10. FailedInv'
    BY <1>1, <2>1, FailedAfter
  <2> QED BY <1>2, <2>8, <2>9, <2>10 DEF FitInv
<1> QED BY <1>3, <1>4, <1>5

LEMMA FitAtEndJob ==
  ASSUME FitInv, EndJob \/ UNCHANGED vars
  PROVE  FitInv'
<1>1. /\ job' = job /\ input' = input /\ at' = at /\ inFlight' = inFlight /\ out' = out
      /\ phase' \in {"Done", phase}
  BY DEF EndJob, vars, loop
<1>2. TypesInv'
  BY TypesAtEndJob DEF FitInv
<1>3. Open' = Open /\ ToCome' = ToCome
  BY <1>1, ToComeKept DEF Open
<1>4. SourcesInv'
  BY <1>1, <1>3, SourcesAfter DEF FitInv, SourcesInv
<1>5. ColumnsInv'
  BY <1>1, <1>3, ColumnsAfter DEF FitInv, ColumnsInv
<1>6. FailedInv'
  BY <1>1, <1>3, FailedAfter DEF FitInv, FailedInv
<1> QED BY <1>2, <1>4, <1>5, <1>6 DEF FitInv

LEMMA FitStep ==
  FitInv /\ [Next]_vars => FitInv'
<1> SUFFICES ASSUME FitInv, [Next]_vars PROVE FitInv'
  OBVIOUS
<1>1. CASE OpenInput
  BY <1>1, FitAtOpenInput
<1>2. CASE OpenOutput
  BY <1>2, FitAtOpenOutput
<1>3. CASE BeginRun \/ BeginSubRun \/ BeginEvent
  BY <1>3, FitAtBegin
<1>4. CASE WriteEvent
  BY <1>4, FitAtWriteEvent
<1>5. CASE WriteSubRun \/ WriteRun
  BY <1>5, FitAtWriteRunOrSubRun
<1>6. CASE CloseOutput
  BY <1>6, FitAtCloseOutput
<1>7. CASE EndInput
  BY <1>7, FitAtEndInput
<1>8. CASE CloseInput
  BY <1>8, FitAtCloseInput
<1>9. CASE EndJob \/ UNCHANGED vars
  BY <1>9, FitAtEndJob
<1> QED BY <1>1, <1>2, <1>3, <1>4, <1>5, <1>6, <1>7, <1>8, <1>9 DEF Next

(* The job ends in an error for branches that do not fit together only     *)
(* when an input that was not cloned follows one that was, or when events  *)
(* of a cloned input are not written: switching output files, at whatever  *)
(* granularity, never leads to it.                                         *)
THEOREM FailsForMixedFilesOnly == Spec => []FailsOnlyWhenMixed
<1>1. Spec => []FitInv
  BY FitInit, FitStep, PTL DEF Spec
<1>2. FitInv => FailsOnlyWhenMixed
  BY DEF FitInv, FailedInv, FailsOnlyWhenMixed, Open
<1> QED BY <1>1, <1>2, PTL

-----------------------------------------------------------------------------
(***************************************************************************)
(* Rows.  What the index says of an event stays right as the columns grow, *)
(* and a cloned column ends with the tree it was cloned from: the event in *)
(* flight is the one that comes next in it.                                *)
(***************************************************************************)
RowsRight(o, n) ==
  \A e \in EventEntries(o) :
    /\ e.row \in 1..o.nEntries
    /\ \E i \in 1..n : e.id \in EventsOf(job.inputs[i]) /\ RowRight(o, e, job.inputs[i])

TailIs(o, f, n) ==
  \A b \in WholeOf(o) :
    /\ b \in Present(f)
    /\ \A k \in 1..Len(f.tree) : o.column[b][o.nEntries + n - Len(f.tree) + k] = f.tree[k]

NextInTree(f, ids, n) ==
  \A id \in ids : Len(f.tree) - n \in 1..Len(f.tree) /\ f.tree[Len(f.tree) - n] = id

EntriesInv == EntryType(run) # "Event" /\ EntryType(subRun) # "Event"

RowsInv ==
  \A o \in Open :
    /\ o.events = o.nEntries
    /\ ClonesOnly(o) => /\ RowsRight(o, input) /\ TailIs(o, file, ToCome)
                        /\ LastOf(o).cloned => NextInTree(file, inFlight, Cardinality(Unread))

ClosedInv ==
  \A k \in DOMAIN closed : ClonesOnly(closed[k]) => RowsRight(closed[k], Len(job.inputs))

IndexInv == FitInv /\ EntriesInv /\ RowsInv /\ ClosedInv

(* What is right about a row depends on the file and the job only.         *)
LEMMA RowsOfJob ==
  ASSUME job' = job
  PROVE  /\ \A o, n : RowsRight(o, n)' <=> RowsRight(o, n)
         /\ \A o, f, n : TailIs(o, f, n)' <=> TailIs(o, f, n)
<1>1. \A f : Present(f)' = Present(f)
  BY JobKept
<1>2. \A b, id, f : Value(b, id, f)' = Value(b, id, f)
  BY <1>1 DEF Value, Present, DropOnInput
<1>3. \A o, e : ProvenanceRight(o, e)' <=> ProvenanceRight(o, e)
  BY DEF ProvenanceRight
<1>4. \A b, f : WithoutDroppedParent(b, f)' <=> WithoutDroppedParent(b, f)
  BY DEF WithoutDroppedParent
<1>5. \A o, e, f : RowRight(o, e, f)' <=> RowRight(o, e, f)
  BY <1>2, <1>3, <1>4 DEF RowRight, Value, Present, DropOnInput, ProvenanceRight, WithoutDroppedParent
<1>6. \A o, n : RowsRight(o, n)' <=> RowsRight(o, n)
  BY <1>5 DEF RowsRight, RowRight, Value, Present, DropOnInput, ProvenanceRight, WithoutDroppedParent
<1>7. \A o, f, n : TailIs(o, f, n)' <=> TailIs(o, f, n)
  BY <1>1 DEF TailIs, Present, DropOnInput
<1> QED BY <1>6, <1>7

LEMMA RowsAfter ==
  ASSUME job' = job,
         \A o \in Open' :
           /\ o.events = o.nEntries
           /\ ClonesOnly(o) =>
                /\ RowsRight(o, input') /\ TailIs(o, file', ToCome')
                /\ LastOf(o).cloned => NextInTree(file', inFlight', Cardinality(Unread'))
  PROVE  RowsInv'
<1>1. \A o : ClonesOnly(o)' <=> ClonesOnly(o)
  BY JobKept
<1>2. \A o, n : RowsRight(o, n)' <=> RowsRight(o, n)
  BY RowsOfJob
<1>3. \A o, f, n : TailIs(o, f, n)' <=> TailIs(o, f, n)
  BY RowsOfJob
<1>4. ASSUME NEW o \in Open' PROVE o.events = o.nEntries
  OBVIOUS
<1>5. ASSUME NEW o \in Open', ClonesOnly(o)'
      PROVE  /\ RowsRight(o, input)' /\ TailIs(o, file, ToCome)'
             /\ LastOf(o).cloned => NextInTree(file, inFlight, Cardinality(Unread))'
  <2>1. ClonesOnly(o)
    BY <1>1, <1>5
  <2>2. RowsRight(o, input)'
    BY <1>2, <2>1
  <2>3. TailIs(o, file, ToCome)'
    BY <1>3, <2>1
  <2>4. LastOf(o).cloned => NextInTree(file, inFlight, Cardinality(Unread))'
    BY <2>1
  <2> QED BY <2>2, <2>3, <2>4
<1> QED BY <1>4, <1>5 DEF RowsInv

(* Nothing of a file is lost: its columns only grow, and new ones begin    *)
(* with dummies.                                                           *)
Grown(r, o) ==
  /\ DOMAIN o.column \subseteq DOMAIN r.column
  /\ \A b \in DOMAIN r.column : \A p \in 1..o.nEntries :
       /\ p \in DOMAIN r.column[b]
       /\ r.column[b][p] = IF b \in DOMAIN o.column THEN o.column[b][p] ELSE Dummy
  /\ \A p \in 1..o.nEntries : p \in DOMAIN r.provenance /\ r.provenance[p] = o.provenance[p]
  /\ o.descriptions \subseteq r.descriptions

LEMMA RowStaysRight ==
  ASSUME NEW r, NEW o, NEW e, NEW f, Grown(r, o), e.row \in 1..o.nEntries, RowRight(o, e, f),
         DOMAIN r.column \cap ({"EventAuxiliary"} \cup Present(f) \cup Produced) \subseteq DOMAIN o.column
  PROVE  RowRight(r, e, f)
<1>1. e.row \in DOMAIN r.provenance /\ r.provenance[e.row] = o.provenance[e.row]
  BY DEF Grown
<1>2. ASSUME NEW b \in DOMAIN r.column
      PROVE  /\ e.row \in DOMAIN r.column[b] /\ r.column[b][e.row] = Value(b, e.id, f)
             /\ r.column[b][e.row] # Dummy => WithoutDroppedParent(b, f) /\ b \in DOMAIN o.column
             /\ b \in DOMAIN o.column => r.column[b][e.row] = o.column[b][e.row]
  <2>1. CASE b \in DOMAIN o.column
    BY <2>1 DEF Grown, RowRight
  <2>2. CASE b \notin DOMAIN o.column
    <3>1. r.column[b][e.row] = Dummy /\ e.row \in DOMAIN r.column[b]
      BY <2>2 DEF Grown
    <3>2. Value(b, e.id, f) = Dummy
      BY <2>2 DEF Value
    <3> QED BY <2>2, <3>1, <3>2
  <2> QED BY <2>1, <2>2
<1>3. ProvenanceRight(r, e)
  <2>1. SUFFICES ASSUME job.dropMetaData = "NONE", ~ job.dropForDropped
        PROVE  LET kept == r.provenance[e.row].kept IN
               /\ \A b \in DOMAIN r.column \ {"EventAuxiliary"} :
                    r.column[b][e.row] # Dummy => b \in DOMAIN kept /\ kept[b] = "present"
               /\ \A p \in DOMAIN kept \cap OfThisProcess :
                    Parents[p] \cap OfThisProcess \subseteq DOMAIN kept
               /\ DOMAIN kept \subseteq r.descriptions
    BY DEF ProvenanceRight
  <2> DEFINE kept == o.provenance[e.row].kept
  <2>2. /\ \A b \in DOMAIN o.column \ {"EventAuxiliary"} :
             o.column[b][e.row] # Dummy => b \in DOMAIN kept /\ kept[b] = "present"
        /\ \A p \in DOMAIN kept \cap OfThisProcess :
             Parents[p] \cap OfThisProcess \subseteq DOMAIN kept
        /\ DOMAIN kept \subseteq o.descriptions
    BY <2>1 DEF RowRight, ProvenanceRight
  <2>3. r.provenance[e.row].kept = kept
    BY <1>1
  <2> HIDE DEF kept
  <2>4. \A b \in DOMAIN r.column \ {"EventAuxiliary"} :
          r.column[b][e.row] # Dummy => b \in DOMAIN kept /\ kept[b] = "present"
    BY <1>2, <2>2
  <2>5. DOMAIN kept \subseteq r.descriptions
    BY <2>2 DEF Grown
  <2> QED BY <2>2, <2>3, <2>4, <2>5
<1>4. e.row \in DOMAIN r.provenance /\ r.provenance[e.row].id = e.id
  BY <1>1 DEF RowRight
<1> QED BY <1>2, <1>3, <1>4 DEF RowRight

(* The row of an event that is written. *)
LEMMA NewRowRight ==
  ASSUME NEW r, NEW o, WellFormed(o), job \in Jobs, NEW e, NEW f \in Input,
         DOMAIN r.column = DOMAIN o.column,
         e.row \in DOMAIN r.provenance, r.provenance[e.row] = [id |-> e.id, kept |-> KeptOf(o, f)],
         \A b \in DOMAIN r.column : e.row \in DOMAIN r.column[b] /\ r.column[b][e.row] = Value(b, e.id, f),
         (DOMAIN o.column \ {"EventAuxiliary"})
           \cup (IF job.dropForDropped THEN {} ELSE ParentsIn(KeptAncestors(o, f), f)) \subseteq r.descriptions
  PROVE  RowRight(r, e, f)
<1>1. e.row \in DOMAIN r.provenance /\ r.provenance[e.row].id = e.id
      /\ r.provenance[e.row].kept = KeptOf(o, f)
  OBVIOUS
<1>2. \A b : Value(b, e.id, f) # Dummy => b \in Present(f) \cup Produced \cup {"EventAuxiliary"}
  BY DEF Value
<1>3. ASSUME NEW b \in Present(f) \cup Produced \cup {"EventAuxiliary"} PROVE WithoutDroppedParent(b, f)
  <2>1. SUFFICES ASSUME job.dropDescendants
        PROVE  \E descendants \in SUBSET Products :
                 /\ f.described \cap job.rejected \subseteq descendants
                 /\ \A c \in f.children : c[1] \in descendants => c[2] \in descendants
                 /\ b \notin descendants
    BY DEF WithoutDroppedParent
  <2> DEFINE unselected == f.described \cap job.rejected
             d == Descendants(f.children, unselected)
  <2>2. f.children \in SUBSET (Products \X Products) /\ unselected \in SUBSET Products
    BY InputType
  <2> HIDE DEF unselected
  <2>3. d \subseteq Products /\ unselected \subseteq d /\ \A c \in f.children : c[1] \in d => c[2] \in d
    BY <2>2, DescendantsClosed
  <2>4. DropOnInput(f) = d
    BY <2>1 DEF DropOnInput, unselected
  <2>5. b \notin d
    <3>1. CASE b \in Present(f)
      BY <2>4, <3>1 DEF Present
    <3>2. CASE b \in Produced \cup {"EventAuxiliary"}
      BY <2>3, <3>2, ProductsAssumption
    <3> QED BY <3>1, <3>2
  <2> QED BY <2>3, <2>5 DEF unselected
<1>4. ProvenanceRight(r, e)
  <2>1. SUFFICES ASSUME job.dropMetaData = "NONE", ~ job.dropForDropped
        PROVE  LET kept == r.provenance[e.row].kept IN
               /\ \A b \in DOMAIN r.column \ {"EventAuxiliary"} :
                    r.column[b][e.row] # Dummy => b \in DOMAIN kept /\ kept[b] = "present"
               /\ \A p \in DOMAIN kept \cap OfThisProcess :
                    Parents[p] \cap OfThisProcess \subseteq DOMAIN kept
               /\ DOMAIN kept \subseteq r.descriptions
    BY DEF ProvenanceRight
  <2> DEFINE own == KeptOwn(o) \cap (Present(f) \cup Produced)
             c   == KeptAncestors(o, f)
             kept == KeptOf(o, f)
  <2>2. KeptOwn(o) = DOMAIN o.column \ {"EventAuxiliary"} /\ KeptOwn(o) \subseteq AllProducts
    BY <2>1, WellFormedType DEF KeptOwn
  <2>3. /\ own \subseteq c /\ c \subseteq KeptOwn(o) \cup OfThisProcess
        /\ ParentsIn(c, f) \cap OfThisProcess \subseteq c /\ c \subseteq own \cup ParentsIn(c, f)
    BY <2>1, <2>2, AncestorsClosed
  <2>4. DOMAIN kept = KeptOwn(o) \cup c /\ \A p \in c : kept[p] = "present"
    BY DEF KeptOf
  <2> HIDE DEF c, kept
  <2>5. ASSUME NEW b \in DOMAIN r.column \ {"EventAuxiliary"}, r.column[b][e.row] # Dummy
        PROVE  b \in DOMAIN kept /\ kept[b] = "present"
    <3>1. b \in own
      BY <1>2, <2>2, <2>5
    <3> QED BY <2>3, <2>4, <3>1
  <2>6. ASSUME NEW p \in DOMAIN kept \cap OfThisProcess
        PROVE  Parents[p] \cap OfThisProcess \subseteq DOMAIN kept
    <3>1. p \in c
      <4>1. CASE p \in KeptOwn(o)
        <5>1. p \in Branches
          BY <2>2, <4>1, WellFormedType
        <5>2. p \in Produced
          BY <5>1, ProductsAssumption DEF Branches, OfThisProcess
        <5> QED BY <2>3, <4>1, <5>2
      <4>2. CASE p \in c
        BY <4>2
      <4> QED BY <2>4, <4>1, <4>2
    <3>2. ParentsOf(p, f) \cap OfThisProcess = Parents[p] \cap OfThisProcess
      BY DEF ParentsOf
    <3>3. ParentsOf(p, f) \subseteq ParentsIn(c, f)
      BY <3>1 DEF ParentsIn
    <3> QED BY <2>3, <2>4, <3>2, <3>3
  <2>7. DOMAIN kept \subseteq r.descriptions
    <3>1. ParentsIn(c, f) \subseteq r.descriptions /\ KeptOwn(o) \subseteq r.descriptions
      BY <2>1, <2>2 DEF c
    <3> QED BY <2>3, <2>4, <3>1
  <2> QED BY <1>1, <2>5, <2>6, <2>7 DEF kept
<1> QED BY <1>1, <1>2, <1>3, <1>4 DEF RowRight

LEMMA SameRows ==
  ASSUME NEW r, NEW o, r.column = o.column, r.provenance = o.provenance,
         r.descriptions = o.descriptions, r.nEntries = o.nEntries, EventEntries(r) = EventEntries(o)
  PROVE  \A n : RowsRight(o, n) => RowsRight(r, n)
<1>1. \A e : ProvenanceRight(o, e) => ProvenanceRight(r, e)
  BY DEF ProvenanceRight
<1>2. \A e, f : RowRight(o, e, f) => RowRight(r, e, f)
  BY <1>1 DEF RowRight
<1> QED BY <1>2 DEF RowsRight

LEMMA SameTail ==
  ASSUME NEW r, NEW o, r.column = o.column, r.nEntries = o.nEntries, WholeOf(r) = WholeOf(o)
  PROVE  \A f, n : TailIs(o, f, n) => TailIs(r, f, n)
BY DEF TailIs

(* The rows of the inputs before are right also among those of one more.   *)
LEMMA RowsStayRight ==
  ASSUME NEW r, NEW o, Grown(r, o), NEW n \in Nat, NEW m \in Nat, n <= m, RowsRight(o, n),
         \A i \in 1..n : DOMAIN r.column \cap ({"EventAuxiliary"} \cup Present(job.inputs[i]) \cup Produced)
                           \subseteq DOMAIN o.column,
         o.nEntries \in Nat, r.nEntries \in Nat, o.nEntries <= r.nEntries,
         NEW e \in EventEntries(o)
  PROVE  /\ e.row \in 1..r.nEntries
         /\ \E i \in 1..m : e.id \in EventsOf(job.inputs[i]) /\ RowRight(r, e, job.inputs[i])
<1>1. e.row \in 1..o.nEntries
  BY DEF RowsRight
<1>2. PICK i \in 1..n : e.id \in EventsOf(job.inputs[i]) /\ RowRight(o, e, job.inputs[i])
  BY DEF RowsRight
<1>3. RowRight(r, e, job.inputs[i])
  BY <1>1, <1>2, RowStaysRight
<1>4. i \in 1..m /\ e.row \in 1..r.nEntries
  BY <1>1
<1> QED BY <1>2, <1>3, <1>4

LEMMA BegunRows ==
  ASSUME NEW o, WellFormed(o), job \in Jobs, NEW i \in 1..Len(job.inputs),
         {"EventAuxiliary"} \subseteq DOMAIN o.column,
         DOMAIN o.column \subseteq {"EventAuxiliary"} \cup Kept(i),
         o.treeEntries = o.nEntries,
         \A b \in DOMAIN o.column : Len(o.column[b]) = o.nEntries,
         NEW n \in Nat, n <= i, RowsRight(o, n),
         \A k \in 1..n : Present(job.inputs[k]) \cup Produced \subseteq DOMAIN o.column
  PROVE  LET r == BeginInputFile(o, i)
             f == job.inputs[i]
         IN  RowsRight(r, i) /\ TailIs(r, f, Len(f.tree))
<1> DEFINE r == BeginInputFile(o, i)
           f == job.inputs[i]
<1>1. /\ r.nEntries = o.nEntries /\ r.index = o.index
      /\ r.provenance = o.provenance /\ r.descriptions = o.descriptions
      /\ DOMAIN r.column = {"EventAuxiliary"} \cup Kept(i)
  BY BegunFields
<1>2. /\ WholeOf(r) = IF SourceOf(i).cloned THEN Present(f) \cap r.readBranches ELSE {}
      /\ \A b \in DOMAIN r.column :
           /\ Former(o, b) \in Seq(Cells) /\ Len(Former(o, b)) = o.nEntries
           /\ r.column[b] = IF b \in WholeOf(r) THEN Former(o, b) \o f.tree ELSE Former(o, b)
  BY BegunColumns
<1>3. f \in Input /\ f.tree \in Seq(ID) /\ Len(f.tree) \in Nat /\ f.tree \in Seq(Cells)
  <2>1. f \in Input
    BY JobType
  <2>2. f.tree \in Seq(ID) /\ Len(f.tree) \in Nat
    BY <2>1, InputType
  <2>3. f.tree \in Seq(Cells)
    BY <2>2 DEF Cells
  <2> QED BY <2>1, <2>2, <2>3
<1>4. /\ WellFormed(r) /\ o.nEntries \in Nat /\ o.nEntries = Len(o.provenance)
      /\ DOMAIN o.provenance = 1..Len(o.provenance)
  <2>1. WellFormed(r)
    BY BegunWellFormed
  <2>2. o.nEntries \in Nat /\ o.nEntries = Len(o.provenance)
    BY WellFormedType DEF WellFormed, IsOutput
  <2>3. o.provenance \in Seq(Provenance)
    BY DEF WellFormed
  <2> QED BY <2>1, <2>2, <2>3
<1>5. WholeOf(r) \subseteq DOMAIN r.column
  BY <1>4 DEF WholeOf, WellFormed, IsOutput
<1> HIDE DEF r, f
<1>6. ASSUME NEW b \in DOMAIN r.column, NEW p \in 1..o.nEntries
      PROVE  /\ p \in DOMAIN r.column[b]
             /\ r.column[b][p] = IF b \in DOMAIN o.column THEN o.column[b][p] ELSE Dummy
  <2>1. Former(o, b) \in Seq(Cells) /\ Len(Former(o, b)) = o.nEntries
    BY <1>2
  <2>2. p \in DOMAIN Former(o, b)
    BY <1>4, <2>1
  <2>3. p \in DOMAIN r.column[b] /\ r.column[b][p] = Former(o, b)[p]
    <3>1. CASE b \in WholeOf(r)
      <4>1. r.column[b] = Former(o, b) \o f.tree
        BY <1>2, <3>1
      <4> QED BY <1>3, <2>1, <2>2, <4>1
    <3>2. CASE b \notin WholeOf(r)
      BY <1>2, <2>2, <3>2
    <3> QED BY <3>1, <3>2
  <2>4. Former(o, b)[p] = IF b \in DOMAIN o.column THEN o.column[b][p] ELSE Dummy
    BY DEF Former, Backfill, Repeat
  <2> QED BY <2>3, <2>4
<1>7. Grown(r, o)
  <2>1. DOMAIN o.column \subseteq DOMAIN r.column
    BY <1>1
  <2>2. \A p \in 1..o.nEntries : p \in DOMAIN r.provenance /\ r.provenance[p] = o.provenance[p]
    BY <1>1, <1>4
  <2> QED BY <1>1, <1>6, <2>1, <2>2 DEF Grown
<1>8. RowsRight(r, i)
  <2>1. \A k \in 1..n : DOMAIN r.column \cap ({"EventAuxiliary"} \cup Present(job.inputs[k]) \cup Produced)
                          \subseteq DOMAIN o.column
    OBVIOUS
  <2>2. EventEntries(r) = EventEntries(o)
    BY <1>1 DEF EventEntries
  <2>3. i \in Nat /\ r.nEntries \in Nat /\ o.nEntries <= r.nEntries
    BY <1>1, <1>4
  <2> QED BY <1>4, <1>7, <2>1, <2>2, <2>3, RowsStayRight DEF RowsRight
<1>9. TailIs(r, f, Len(f.tree))
  <2>1. SUFFICES ASSUME NEW b \in WholeOf(r)
        PROVE  /\ b \in Present(f)
               /\ \A k \in 1..Len(f.tree) :
                    r.column[b][r.nEntries + Len(f.tree) - Len(f.tree) + k] = f.tree[k]
    BY DEF TailIs
  <2>2. b \in Present(f)
    BY <1>2, <2>1
  <2>3. /\ r.column[b] = Former(o, b) \o f.tree
        /\ Former(o, b) \in Seq(Cells) /\ Len(Former(o, b)) = o.nEntries
    BY <1>2, <1>5, <2>1
  <2>4. ASSUME NEW k \in 1..Len(f.tree)
        PROVE  r.column[b][r.nEntries + Len(f.tree) - Len(f.tree) + k] = f.tree[k]
    <3>1. r.nEntries + Len(f.tree) - Len(f.tree) + k = o.nEntries + k
      BY <1>1, <1>3, <1>4
    <3> DEFINE s == Former(o, b)  t == f.tree
    <3>2. s \in Seq(Cells) /\ t \in Seq(ID) /\ k \in 1..Len(t) /\ Len(s) = o.nEntries
      BY <1>3, <1>4, <2>3
    <3>3. (s \o t)[o.nEntries + k] = t[k]
      <4> HIDE DEF s, t
      <4> QED BY <3>2
    <3> HIDE DEF s, t
    <3> QED BY <2>3, <3>1, <3>3 DEF s, t
  <2> QED BY <2>2, <2>4
<1> QED BY <1>8, <1>9 DEF r, f

LEMMA Offsets ==
  ASSUME NEW n \in Nat, NEW m \in Nat, NEW t \in Nat
  PROVE  /\ n + m - t + (t - (m - 1)) = n + 1 /\ n + 0 = n
         /\ \A k \in Int : (n + 1) + (m - 1) - t + k = n + m - t + k
<1>1. n + m - t + (t - (m - 1)) = n + 1 /\ n + 0 = n
  OBVIOUS
<1>2. ASSUME NEW k \in Int PROVE (n + 1) + (m - 1) - t + k = n + m - t + k
  OBVIOUS
<1> QED BY <1>1, <1>2

LEMMA WrittenRows ==
  ASSUME NEW o, WellFormed(o), job \in Jobs, NEW n \in Nat, NEW i \in 1..n, i \in 1..Len(job.inputs),
         NEW id \in ID, id \in EventsOf(job.inputs[i]),
         o.events = o.nEntries, RowsRight(o, n),
         NEW m \in Nat, m # 0, ColumnsAre(o, m), TailIs(o, job.inputs[i], m),
         WholeOf(o) # {} => NextInTree(job.inputs[i], {id}, m - 1),
         \A b \in DOMAIN o.column : b \in Filled(o) <=> b \notin WholeOf(o)
  PROVE  LET r == WriteOne(o, id, job.inputs[i]) IN
         /\ r.events = r.nEntries
         /\ RowsRight(r, n)
         /\ TailIs(r, job.inputs[i], m - 1)
<1> DEFINE f == job.inputs[i]
           r == WriteOne(o, id, f)
           e == [id |-> id, row |-> o.events + 1]
<1>1. f \in Input /\ Len(f.tree) \in Nat
  <2>1. f \in Input
    BY JobType
  <2> QED BY <2>1, InputType
<1> HIDE DEF f
<1>2. /\ Changed(r, o, {"column", "nEntries", "provenance", "descriptions", "index", "events"})
      /\ r.column = [b \in DOMAIN o.column |->
                       IF b \in Filled(o) THEN Append(o.column[b], Value(b, id, f))
                       ELSE o.column[b]]
      /\ r.nEntries = o.nEntries + 1
      /\ r.provenance = Append(o.provenance, [id |-> id, kept |-> KeptOf(o, f)])
      /\ r.descriptions = o.descriptions \cup (DOMAIN o.column \ {"EventAuxiliary"})
                            \cup (IF job.dropForDropped THEN {}
                                  ELSE UNION {ParentsOf(p, f) : p \in KeptAncestors(o, f)})
      /\ r.index = o.index \cup {[id |-> id, row |-> o.events + 1]}
      /\ r.events = o.events + 1
  BY WrittenTree
<1>3. WholeOf(r) = WholeOf(o) /\ DOMAIN r.column = DOMAIN o.column /\ WellFormed(r)
  <2>1. WholeOf(r) = WholeOf(o) /\ DOMAIN r.column = DOMAIN o.column
    BY WrittenKeeps
  <2>2. WellFormed(r)
    BY <1>1, WrittenWellFormed
  <2> QED BY <2>1, <2>2
<1> HIDE DEF r
<1>4. /\ o.nEntries \in Nat /\ o.nEntries = Len(o.provenance) /\ o.provenance \in Seq(Provenance)
      /\ DOMAIN o.provenance = 1..Len(o.provenance)
  BY WellFormedType DEF WellFormed, IsOutput
<1>13. m \in Nat /\ m # 0 /\ Len(f.tree) \in Nat /\ \A b : Value(b, id, f) \in Cells
  BY <1>1, ValueType DEF Cells
<1>14. o.nEntries \in Nat /\ m \in Nat /\ Len(f.tree) \in Nat
  BY <1>4, <1>13
<1>5. ASSUME NEW b \in DOMAIN o.column
      PROVE  /\ o.column[b] \in Seq(Cells) /\ DOMAIN o.column[b] = 1..Len(o.column[b])
             /\ Len(o.column[b]) = o.nEntries + (IF b \in WholeOf(o) THEN m ELSE 0)
             /\ b \in WholeOf(o) => r.column[b] = o.column[b]
             /\ b \notin WholeOf(o) => r.column[b] = Append(o.column[b], Value(b, id, f))
  <2>1. o.column[b] \in Seq(Cells) /\ DOMAIN o.column[b] = 1..Len(o.column[b])
    BY WellFormedType
  <2>2. Len(o.column[b]) = o.nEntries + (IF b \in WholeOf(o) THEN m ELSE 0)
    BY DEF ColumnsAre
  <2> QED BY <1>2, <2>1, <2>2
<1>6. ASSUME NEW b \in DOMAIN o.column, NEW p \in 1..o.nEntries
      PROVE  p \in DOMAIN r.column[b] /\ r.column[b][p] = o.column[b][p]
  <2>1. p \in DOMAIN o.column[b]
    <3> DEFINE x == Len(o.column[b])  t == o.nEntries
    <3>1. DOMAIN o.column[b] = 1..x /\ x = t + (IF b \in WholeOf(o) THEN m ELSE 0)
      BY <1>5
    <3>2. t \in Nat /\ m \in Nat /\ p \in 1..t
      BY <1>14
    <3> HIDE DEF x, t
    <3>3. p \in 1..x
      BY <3>1, <3>2
    <3> QED BY <3>1, <3>3
  <2>2. CASE b \in WholeOf(o)
    BY <1>5, <2>1, <2>2
  <2>3. CASE b \notin WholeOf(o)
    <3>1. r.column[b] = Append(o.column[b], Value(b, id, f)) /\ o.column[b] \in Seq(Cells)
      BY <1>5, <2>3
    <3>2. Value(b, id, f) \in Cells
      BY ValueType DEF Cells
    <3> QED BY <2>1, <3>1, <3>2
  <2> QED BY <2>2, <2>3
<1>7. ASSUME NEW b \in DOMAIN o.column
      PROVE  o.nEntries + 1 \in DOMAIN r.column[b] /\ r.column[b][o.nEntries + 1] = Value(b, id, f)
  <2>1. CASE b \in WholeOf(o)
    <3>1. r.column[b] = o.column[b] /\ o.nEntries + 1 \in DOMAIN o.column[b]
      <4>1. /\ r.column[b] = o.column[b] /\ DOMAIN o.column[b] = 1..Len(o.column[b])
            /\ Len(o.column[b]) = o.nEntries + m
        BY <1>5, <2>1
      <4>2. o.nEntries + 1 \in 1..(o.nEntries + m)
        BY <1>4, <1>13
      <4> QED BY <4>1, <4>2
    <3>2. Value(b, id, f) = id
      BY <2>1 DEF TailIs, Value, f
    <3>3. Len(f.tree) - (m - 1) \in 1..Len(f.tree) /\ f.tree[Len(f.tree) - (m - 1)] = id
      BY <2>1 DEF NextInTree, f
    <3>4. o.column[b][o.nEntries + m - Len(f.tree) + (Len(f.tree) - (m - 1))] = id
      BY <2>1, <3>3 DEF TailIs, f
    <3>5. o.nEntries + m - Len(f.tree) + (Len(f.tree) - (m - 1)) = o.nEntries + 1
      BY <1>14, Offsets
    <3> QED BY <3>1, <3>2, <3>4, <3>5
  <2>2. CASE b \notin WholeOf(o)
    <3>1. r.column[b] = Append(o.column[b], Value(b, id, f)) /\ o.column[b] \in Seq(Cells)
          /\ Len(o.column[b]) = o.nEntries
      <4>1. Len(o.column[b]) = o.nEntries + 0
        BY <1>5, <2>2
      <4>2. o.nEntries + 0 = o.nEntries
        BY <1>4
      <4> QED BY <1>5, <2>2, <4>1, <4>2
    <3> QED BY <1>13, <3>1
  <2> QED BY <2>1, <2>2
<1>8. Grown(r, o)
  <2>1. \A p \in 1..o.nEntries : p \in DOMAIN r.provenance /\ r.provenance[p] = o.provenance[p]
    BY <1>2, <1>4
  <2>2. o.descriptions \subseteq r.descriptions
    BY <1>2
  <2> QED BY <1>3, <1>6, <2>1, <2>2 DEF Grown
<1>9. RowRight(r, e, f)
  <2>1. e.id = id /\ e.row = o.nEntries + 1
    OBVIOUS
  <2>2. e.row \in DOMAIN r.provenance /\ r.provenance[e.row] = [id |-> e.id, kept |-> KeptOf(o, f)]
    BY <1>2, <1>4, <2>1
  <2>3. \A b \in DOMAIN r.column :
          e.row \in DOMAIN r.column[b] /\ r.column[b][e.row] = Value(b, e.id, f)
    BY <1>3, <1>7, <2>1
  <2>4. (DOMAIN o.column \ {"EventAuxiliary"})
          \cup (IF job.dropForDropped THEN {} ELSE ParentsIn(KeptAncestors(o, f), f)) \subseteq r.descriptions
    BY <1>2 DEF ParentsIn
  <2> HIDE DEF e
  <2> QED BY <1>1, <1>3, <2>2, <2>3, <2>4, NewRowRight
<1>10. RowsRight(r, n)
  <2>1. \A x \in EventEntries(r) : x \in EventEntries(o) \/ x = e
    BY <1>2 DEF EventEntries
  <2>2. ASSUME NEW x \in EventEntries(o)
        PROVE  /\ x.row \in 1..r.nEntries
               /\ \E j \in 1..n : x.id \in EventsOf(job.inputs[j]) /\ RowRight(r, x, job.inputs[j])
    <3>1. r.nEntries \in Nat /\ o.nEntries <= r.nEntries /\ n <= n
      BY <1>2, <1>4
    <3>2. \A k \in 1..n : DOMAIN r.column \cap ({"EventAuxiliary"} \cup Present(job.inputs[k]) \cup Produced)
                            \subseteq DOMAIN o.column
      BY <1>3
    <3> QED BY <1>4, <1>8, <3>1, <3>2, RowsStayRight
  <2>3. e.row \in 1..r.nEntries /\ e.id \in EventsOf(job.inputs[i]) /\ RowRight(r, e, job.inputs[i])
    BY <1>2, <1>4, <1>9 DEF f
  <2> HIDE DEF e
  <2> QED BY <2>1, <2>2, <2>3 DEF RowsRight
<1>11. TailIs(r, f, m - 1)
  <2>1. r.nEntries = o.nEntries + 1
    BY <1>2
  <2>2. \A k \in Int : r.nEntries + (m - 1) - Len(f.tree) + k = o.nEntries + m - Len(f.tree) + k
    <3> DEFINE x == o.nEntries
               t == Len(f.tree)
    <3>1. x \in Nat /\ m \in Nat /\ t \in Nat /\ r.nEntries = x + 1
      BY <1>14, <2>1
    <3> HIDE DEF x, t
    <3>2. ASSUME NEW k \in Int PROVE (x + 1) + (m - 1) - t + k = x + m - t + k
      BY <3>1
    <3>3. \A k \in Int : r.nEntries + (m - 1) - t + k = x + m - t + k
      BY <3>1, <3>2
    <3> QED BY <3>3 DEF x, t
  <2>3. \A b \in WholeOf(o) : b \in DOMAIN o.column /\ r.column[b] = o.column[b]
    <3>1. WholeOf(o) \subseteq DOMAIN o.column
      BY DEF WholeOf, WellFormed, IsOutput
    <3> QED BY <1>5, <3>1
  <2>4. \A k \in 1..Len(f.tree) : k \in Int
    OBVIOUS
  <2> QED BY <1>3, <2>2, <2>3, <2>4 DEF TailIs, f
<1>12. r.events = r.nEntries
  BY <1>2
<1> QED BY <1>10, <1>11, <1>12 DEF r, f

-----------------------------------------------------------------------------
(***************************************************************************)
(* The index, step by step.                                                *)
(***************************************************************************)
LEMMA ClosedKept ==
  ASSUME ClosedInv, job' = job, closed' = closed
  PROVE  ClosedInv'
<1>1. \A o : ClonesOnly(o)' <=> ClonesOnly(o)
  BY JobKept
<1>2. \A o, n : RowsRight(o, n)' <=> RowsRight(o, n)
  BY RowsOfJob
<1>3. ASSUME NEW k \in DOMAIN closed', ClonesOnly(closed[k])'
      PROVE  RowsRight(closed[k], Len(job.inputs))'
  <2>1. k \in DOMAIN closed /\ ClonesOnly(closed[k])
    BY <1>1, <1>3
  <2>2. RowsRight(closed[k], Len(job.inputs))
    BY <2>1 DEF ClosedInv
  <2> QED BY <1>2, <2>2
<1> QED BY <1>3 DEF ClosedInv

(* A tree that was cloned has all events of its input ... *)
LEMMA LastIsEvents ==
  ASSUME NEW r, WellFormed(r), NEW i, NEW fast, NEW kept, Sourced(r, i, fast, kept),
         ClonesOnly(r), LastOf(r).cloned
  PROVE  TreeIsEvents(job.inputs[i])
<1>1. r.sources \in Seq(Source) /\ r.sources # <<>>
  BY DEF WellFormed, IsOutput, Sourced
<1>2. Len(r.sources) \in DOMAIN r.sources
  BY <1>1
<1> QED BY <1>2, ClonesOnlyIs DEF LastOf, Sourced

(* ... all of which are to come when the input begins. *)
LEMMA TreeToCome ==
  ASSUME job \in Jobs, job' = job, input' \in 1..Len(job.inputs), at' = 0, inFlight' = {},
         TreeIsEvents(job.inputs[input'])
  PROVE  ToCome' = Len(job.inputs[input'].tree)
<1> DEFINE f == job.inputs[input']
<1>1. f \in Input /\ file' = f /\ Len(f.tree) \in Nat
  <2>1. f \in Input
    BY JobType
  <2>2. file' = f
    BY DEF file
  <2> QED BY <2>1, <2>2, InputType
<1> HIDE DEF f
<1>2. \A p \in Events(f.entries) : p > 0
  BY <1>1, InputType DEF Events
<1>3. Unread' = Events(f.entries)
  BY <1>1, <1>2 DEF Unread
<1>4. Cardinality(Unread)' = Len(f.tree)
  BY <1>3 DEF TreeIsEvents, f
<1>5. Cardinality(inFlight)' = 0
  BY FS_EmptySet
<1>6. ToCome' = Len(f.tree)
  BY <1>1, <1>4, <1>5 DEF ToCome
<1> QED BY <1>6 DEF f

(* The event read next is the next of the tree. *)
LEMMA NextComes ==
  ASSUME TypesInv, BeginEvent, TreeIsEvents(file)
  PROVE  NextInTree(file, {next}, Cardinality(Unread'))
<1> DEFINE E == Events(file.entries)
           U == {p \in E : p > at + 1}
           before == {q \in E : q <= at + 1}
<1>1. input # 0 /\ job' = job /\ input' = input /\ at' = at + 1 /\ at + 1 \in E
  BY NextEntry DEF TypesInv, BeginEvent
<1>2. file' = file
  BY <1>1, FileKept
<1>3. Unread' = U
  BY <1>1, <1>2 DEF Unread
<1>4. /\ at \in Nat /\ Len(file.entries) \in Nat /\ DOMAIN file.entries = 1..Len(file.entries)
      /\ file \in Input
  BY <1>1, CurrentInput DEF TypesInv
<1>5. E \in SUBSET (1..Len(file.entries))
  BY <1>4 DEF Events
<1>6. IsFiniteSet(E)
  <2>1. IsFiniteSet(1..Len(file.entries))
    <3>1. Len(file.entries) \in Int /\ 1 \in Int
      BY <1>4
    <3> QED BY <3>1, FS_Interval
  <2> HIDE DEF E
  <2> QED BY <1>5, <2>1, FS_Subset
<1>7. Cardinality(E) = Len(file.tree) /\ file.tree[Cardinality(before)] = file.entries[at + 1]
  BY <1>1 DEF TreeIsEvents
<1>8. before = E \ U /\ E \cap U = U /\ at + 1 \in before
  <2> HIDE DEF E
  <2>1. \A p \in E : p <= at + 1 <=> ~ (p > at + 1)
    BY <1>4, <1>5
  <2> QED BY <1>1, <1>4, <2>1
<1> HIDE DEF E, U, before
<1>9. /\ IsFiniteSet(before) /\ Cardinality(before) = Cardinality(E) - Cardinality(U)
      /\ Cardinality(E) \in Nat
  BY <1>6, <1>8, FS_Difference, FS_CardinalityType
<1>10. Cardinality(before) \in Nat /\ Cardinality(before) # 0
  BY <1>8, <1>9, FS_CardinalityType, FS_EmptySet
<1>11. Cardinality(before) <= Cardinality(E)
  BY <1>6, <1>8, FS_Subset
<1>12. /\ Len(file.tree) - Cardinality(U) = Cardinality(before)
       /\ Len(file.tree) - Cardinality(U) \in 1..Len(file.tree)
  BY <1>7, <1>9, <1>10, <1>11
<1>13. file.tree[Len(file.tree) - Cardinality(U)] = next
  BY <1>7, <1>12 DEF next
<1> QED BY <1>3, <1>12, <1>13 DEF NextInTree

LEMMA IndexInit ==
  Init => IndexInv
<1> SUFFICES ASSUME Init PROVE IndexInv
  OBVIOUS
<1>1. FitInv
  BY FitInit
<1>2. EntriesInv
  BY DEF Init, EntriesInv, NoID, RunEntry, EntryType
<1>3. RowsInv
  BY DEF Init, NoOutput, RowsInv, Open
<1>4. ClosedInv
  <2>1. closed = <<>>
    BY DEF Init
  <2>2. DOMAIN closed = {}
    BY <2>1
  <2> QED BY <2>2 DEF ClosedInv
<1> QED BY <1>1, <1>2, <1>3, <1>4 DEF IndexInv

LEMMA IndexAtOpenInput ==
  ASSUME IndexInv, OpenInput
  PROVE  IndexInv'
<1>1. /\ phase = "NextFile" /\ phase' = "Items" /\ input < Len(job.inputs)
      /\ job' = job /\ input' = input + 1 /\ at' = 0 /\ inFlight' = inFlight
      /\ run' = run /\ subRun' = subRun /\ closed' = closed
      /\ out' = IF out.open THEN BeginInputFile(out, input + 1) ELSE out
  BY DEF OpenInput
<1>2. FitInv /\ FitInv' /\ EntriesInv' /\ ClosedInv'
  <2>1. FitInv /\ FitInv'
    BY FitAtOpenInput DEF IndexInv
  <2>2. EntriesInv'
    BY <1>1 DEF IndexInv, EntriesInv
  <2>3. ClosedInv'
    BY <1>1, ClosedKept DEF IndexInv
  <2> QED BY <2>1, <2>2, <2>3
<1>3. TypesInv /\ SourcesInv /\ SourcesInv' /\ TypesInv'
      /\ input + 1 \in 1..Len(job.inputs) /\ input \in Nat /\ job \in Jobs
  <2>1. TypesInv /\ SourcesInv /\ SourcesInv' /\ TypesInv'
    BY <1>2 DEF FitInv
  <2> QED BY <1>1, <2>1, JobType DEF TypesInv, LoopTypes
<1>4. CASE ~ out.open
  <2>1. Open' = {}
    BY <1>1, <1>4 DEF Open
  <2> QED BY <1>2, <2>1 DEF IndexInv, RowsInv
<1>5. CASE out.open
  <2> DEFINE r == BeginInputFile(out, input + 1)
             f == job.inputs[input + 1]
  <2>1. /\ out' = r /\ WellFormed(out) /\ out \in Open /\ input # 0
        /\ Sourced(out, input, ShouldFastClone, Kept(input))
    BY <1>1, <1>3, <1>5, OpenFile
  <2>2. inFlight = {} /\ ToCome = 0
    <3>1. inFlight = {} /\ at = Len(file.entries)
      BY <1>1, <1>3, <2>1 DEF TypesInv, LoopInv
    <3> QED BY <1>3, <2>1, <3>1, UnreadFinite DEF TypesInv
  <2>3. /\ {"EventAuxiliary"} \subseteq DOMAIN out.column
        /\ DOMAIN out.column \subseteq {"EventAuxiliary"} \cup Kept(input + 1)
        /\ \A k \in 1..input : Present(job.inputs[k]) \cup Produced \subseteq DOMAIN out.column
    <3>1. Kept(input) \subseteq Kept(input + 1)
      <4>1. \A k \in 1..input : k \in 1..(input + 1)
        BY <1>3
      <4> QED BY <4>1 DEF Kept
    <3>2. \A k \in 1..input : Present(job.inputs[k]) \cup Produced \subseteq Kept(input)
      BY DEF Kept
    <3> QED BY <2>1, <3>1, <3>2 DEF Sourced
  <2>4. /\ r.sources = Append(out.sources, SourceOf(input + 1))
        /\ r.nEntries = out.nEntries /\ r.events = out.events
    BY <1>3, <2>1, <2>3, BegunFields
  <2>5. r.events = r.nEntries
    BY <2>1, <2>4 DEF IndexInv, RowsInv
  <2>6. \A o \in Open' : o = r
    BY <2>1 DEF Open
  <2>7. WellFormed(r) /\ out'.open
    <3>1. WellFormed(r)
      BY <1>3, <2>1, BegunWellFormed
    <3> QED BY <2>1, <3>1 DEF WellFormed, IsOutput
  <2>8. ASSUME ClonesOnly(r)
        PROVE  /\ RowsRight(r, input') /\ TailIs(r, file', ToCome')
               /\ LastOf(r).cloned => NextInTree(file', inFlight', Cardinality(Unread'))
    <3>1. ClonesOnly(out)
      <4>1. out.sources \in Seq(Source) /\ SourceOf(input + 1) \in Source
        BY <1>3, <2>1, SourceOfType DEF WellFormed, IsOutput
      <4> HIDE DEF r
      <4> QED BY <2>4, <2>8, <4>1, ClonesOnlyBefore
    <3>2. ColumnsAre(out, 0) /\ out.treeEntries = out.nEntries
      BY <1>1, <1>2, <2>1, <2>2, <3>1 DEF FitInv, ColumnsInv
    <3>3. \A b \in DOMAIN out.column : Len(out.column[b]) = out.nEntries
      BY <1>3, <2>1, <3>2, WellFormedType DEF ColumnsAre
    <3>4. RowsRight(out, input) /\ input <= input + 1
      BY <1>3, <2>1, <3>1 DEF IndexInv, RowsInv
    <3>5. RowsRight(r, input + 1) /\ TailIs(r, f, Len(f.tree))
      BY <1>3, <2>1, <2>3, <3>2, <3>3, <3>4, BegunRows
    <3>6. TailIs(r, f, ToCome')
      <4>1. CASE WholeOf(r) # {}
        <5>1. LastOf(r).cloned
          BY <4>1 DEF WholeOf
        <5>2. Sourced(r, input + 1, ShouldFastClone, Kept(input + 1))
          <6>1. /\ \A k \in DOMAIN out.sources :
                     out.sources[k].input \in 1..(input + 1) /\ (out.sources[k].cloned => ShouldFastClone)
                /\ out.wasFastCloned <=> \E k \in DOMAIN out.sources : out.sources[k].cloned
            <7>1. \A k \in 1..input : k \in 1..(input + 1)
              BY <1>3
            <7> QED BY <2>1, <7>1 DEF Sourced
          <6> QED BY <1>3, <2>1, <2>3, <6>1, BegunSourced
        <5>3. TreeIsEvents(f)
          <6> HIDE DEF r
          <6> QED BY <2>7, <2>8, <5>1, <5>2, LastIsEvents
        <5>4. ToCome' = Len(f.tree)
          <6> HIDE DEF r
          <6> QED BY <1>1, <1>3, <2>2, <5>3, TreeToCome
        <5> QED BY <3>5, <5>4
      <4>2. CASE WholeOf(r) = {}
        BY <4>2 DEF TailIs
      <4> QED BY <4>1, <4>2
    <3>7. file' = f
      BY <1>1 DEF file
    <3>8. NextInTree(file', inFlight', Cardinality(Unread'))
      BY <1>1, <2>2 DEF NextInTree
    <3> HIDE DEF r
    <3> QED BY <1>1, <3>5, <3>6, <3>7, <3>8
  <2> HIDE DEF r
  <2>9. RowsInv'
    BY <1>1, <2>5, <2>6, <2>8, RowsAfter
  <2> QED BY <1>2, <2>9 DEF IndexInv
<1> QED BY <1>4, <1>5

LEMMA IndexAtOpenOutput ==
  ASSUME IndexInv, OpenOutput
  PROVE  IndexInv'
<1> DEFINE o == NewOutputFile
           r == BeginInputFile(o, input)
           f == job.inputs[input]
<1>1. /\ phase = "Items" /\ ~ out.open /\ out' = r /\ closed' = closed
      /\ job' = job /\ input' = input /\ at' = at /\ phase' = phase /\ inFlight' = inFlight
      /\ run' = run /\ subRun' = subRun
  BY DEF OpenOutput, loop
<1>2. FitInv /\ FitInv' /\ EntriesInv' /\ ClosedInv'
  <2>1. FitInv /\ FitInv'
    BY FitAtOpenOutput DEF IndexInv
  <2>2. EntriesInv'
    BY <1>1 DEF IndexInv, EntriesInv
  <2>3. ClosedInv'
    BY <1>1, ClosedKept DEF IndexInv
  <2> QED BY <2>1, <2>2, <2>3
<1>3. /\ TypesInv /\ input \in 1..Len(job.inputs) /\ job \in Jobs /\ inFlight = {} /\ 0 <= input
      /\ ShouldFastClone => at = 0
  <2>1. TypesInv /\ input # 0
    BY <1>1, <1>2 DEF FitInv, TypesInv, LoopInv
  <2>2. inFlight = {} /\ (ShouldFastClone => at = 0)
    BY <1>1, <2>1 DEF TypesInv, LoopInv
  <2>3. input \in 1..Len(job.inputs) /\ Len(job.inputs) \in Nat
    BY <2>1, CurrentInput, JobType DEF TypesInv, LoopTypes
  <2> QED BY <2>1, <2>2, <2>3 DEF TypesInv, LoopTypes
<1>4. /\ WellFormed(o) /\ DOMAIN o.column = {"EventAuxiliary"} /\ o.sources = <<>>
      /\ o.wasFastCloned = FALSE /\ o.treeEntries = 0 /\ o.nEntries = 0 /\ o.events = 0
      /\ o.column["EventAuxiliary"] = <<>> /\ o.index = {}
  BY NewFileWellFormed DEF NewOutputFile
<1> HIDE DEF o
<1>5. /\ DOMAIN o.sources = {} /\ Len(o.column["EventAuxiliary"]) = 0
      /\ {"EventAuxiliary"} \subseteq DOMAIN o.column
      /\ DOMAIN o.column \subseteq {"EventAuxiliary"} \cup Kept(input)
      /\ \A k \in 1..0 : Present(job.inputs[k]) \cup Produced \subseteq DOMAIN o.column
  BY <1>4
<1>6. o.treeEntries = o.nEntries /\ \A b \in DOMAIN o.column : Len(o.column[b]) = o.nEntries
  BY <1>4, <1>5
<1>7. /\ r.sources = Append(o.sources, SourceOf(input))
      /\ r.nEntries = o.nEntries /\ r.events = o.events
  BY <1>3, <1>4, <1>5, BegunFields
<1>8. RowsRight(r, input) /\ TailIs(r, f, Len(f.tree))
  <2>1. RowsRight(o, 0)
    BY <1>4 DEF RowsRight, EventEntries
  <2>2. 0 \in Nat /\ 0 <= input
    BY <1>3
  <2> QED BY <1>3, <1>4, <1>5, <1>6, <2>1, <2>2, BegunRows
<1>9. Sourced(r, input, ShouldFastClone, Kept(input)) /\ WellFormed(r)
  BY <1>3, <1>4, <1>5, BegunSourced, BegunWellFormed
<1>10. \A c \in Open' : c = r
  BY <1>1 DEF Open
<1>11. r.events = r.nEntries
  BY <1>4, <1>7
<1>12. r.sources = <<SourceOf(input)>> /\ LastOf(r) = SourceOf(input)
  BY <1>4, <1>7 DEF LastOf
<1> HIDE DEF r
<1>13. ASSUME ClonesOnly(r) PROVE TailIs(r, f, ToCome')
  <2>1. CASE WholeOf(r) # {}
    <3>1. LastOf(r).cloned
      BY <2>1 DEF WholeOf
    <3>2. TreeIsEvents(f)
      BY <1>9, <1>13, <3>1, LastIsEvents
    <3>3. at' = 0
      BY <1>1, <1>3, <1>12, <3>1, SourceOfType
    <3>4. ToCome' = Len(f.tree)
      BY <1>1, <1>3, <3>2, <3>3, TreeToCome
    <3> QED BY <1>8, <3>4
  <2>2. CASE WholeOf(r) = {}
    BY <2>2 DEF TailIs
  <2> QED BY <2>1, <2>2
<1>14. RowsInv'
  <2>1. file' = f
    BY <1>1 DEF file
  <2>2. NextInTree(file', inFlight', Cardinality(Unread'))
    BY <1>1, <1>3 DEF NextInTree
  <2> QED BY <1>1, <1>8, <1>10, <1>11, <1>13, <2>1, <2>2, RowsAfter
<1> QED BY <1>2, <1>14 DEF IndexInv

LEMMA IndexAtBegin ==
  ASSUME IndexInv, BeginRun \/ BeginSubRun \/ BeginEvent
  PROVE  IndexInv'
<1>1. /\ out.open /\ job' = job /\ input' = input /\ out' = out /\ closed' = closed
      /\ nextIs # "End"
  BY DEF BeginRun, BeginSubRun, BeginEvent, Ready
<1>2. FitInv /\ FitInv' /\ TypesInv /\ SourcesInv /\ file' = file /\ ClosedInv'
  <2>1. FitInv /\ FitInv'
    BY FitAtBegin DEF IndexInv
  <2>2. file' = file
    BY <1>1, FileKept
  <2>3. ClosedInv'
    BY <1>1, ClosedKept DEF IndexInv
  <2> QED BY <2>1, <2>2, <2>3 DEF FitInv
<1>3. EntriesInv'
  <2>1. nextIs = EntryType(next)
    BY <1>1, <1>2, NextEntry DEF TypesInv
  <2>2. CASE BeginRun
    BY <2>1, <2>2 DEF BeginRun, IndexInv, EntriesInv
  <2>3. CASE BeginSubRun
    BY <2>1, <2>3 DEF BeginSubRun, IndexInv, EntriesInv
  <2>4. CASE BeginEvent
    BY <2>4 DEF BeginEvent, IndexInv, EntriesInv
  <2> QED BY <2>2, <2>3, <2>4
<1>4. /\ WellFormed(out) /\ out \in Open /\ Sourced(out, input, ShouldFastClone, Kept(input))
      /\ LastOf(out).cloned => job.nschedules = 1
      /\ WholeOf(out) # {} => LastOf(out).cloned
  BY <1>1, <1>2, OpenFile
<1>5. \A o \in Open' : o = out
  BY <1>1 DEF Open
<1>6. out.events = out.nEntries
  BY <1>4 DEF IndexInv, RowsInv
<1>7. ASSUME ClonesOnly(out)
      PROVE  /\ RowsRight(out, input') /\ TailIs(out, file', ToCome')
             /\ LastOf(out).cloned => NextInTree(file', inFlight', Cardinality(Unread'))
  <2>1. /\ RowsRight(out, input) /\ TailIs(out, file, ToCome)
        /\ LastOf(out).cloned => NextInTree(file, inFlight, Cardinality(Unread))
    BY <1>4, <1>7 DEF IndexInv, RowsInv
  <2>2. TailIs(out, file, ToCome')
    <3>1. CASE WholeOf(out) # {}
      <4>1. ToCome' = ToCome
        BY <1>2, <1>4, <3>1, ToComeAtBegin
      <4> QED BY <2>1, <4>1
    <3>2. CASE WholeOf(out) = {}
      BY <3>2 DEF TailIs
    <3> QED BY <3>1, <3>2
  <2>3. ASSUME LastOf(out).cloned PROVE NextInTree(file, inFlight', Cardinality(Unread'))
    <3>1. CASE BeginEvent
      <4>1. TreeIsEvents(file)
        BY <1>4, <1>7, <2>3, LastIsEvents DEF file
      <4>2. NextInTree(file, {next}, Cardinality(Unread'))
        BY <1>2, <3>1, <4>1, NextComes
      <4>3. inFlight' = {next}
        BY <1>2, <1>4, <2>3, <3>1, ToComeAtBegin
      <4> QED BY <4>2, <4>3
    <3>2. CASE ~ BeginEvent
      <4>1. Unread' = Unread /\ inFlight' = inFlight
        BY <1>2, <3>2, ToComeAtBegin
      <4> QED BY <2>1, <2>3, <4>1
    <3> QED BY <3>1, <3>2
  <2> QED BY <1>1, <1>2, <2>1, <2>2, <2>3
<1>8. RowsInv'
  BY <1>1, <1>5, <1>6, <1>7, RowsAfter
<1> QED BY <1>2, <1>3, <1>8 DEF IndexInv

LEMMA IndexAtWriteEvent ==
  ASSUME IndexInv, WriteEvent
  PROVE  IndexInv'
<1>1. /\ input # 0 /\ WellFormed(out) /\ job' = job /\ input' = input /\ at' = at
      /\ closed' = closed /\ run' = run /\ subRun' = subRun
  BY EventWritten DEF IndexInv, FitInv
<1>2. PICK id \in inFlight :
        /\ inFlight' = inFlight \ {id} /\ id \in ID /\ id \in EventsOf(file)
        /\ Wanted(id) => out' = WriteOne(out, id, file) /\ fstats' = RecordEvent(fstats, id)
        /\ ~ Wanted(id) => out' = out /\ fstats' = fstats
  BY EventWritten DEF IndexInv, FitInv
<1>3. /\ FitInv /\ FitInv' /\ TypesInv /\ SourcesInv /\ EntriesInv' /\ ClosedInv'
      /\ file' = file /\ Unread' = Unread
  <2>1. FitInv /\ FitInv'
    BY FitAtWriteEvent DEF IndexInv
  <2>2. EntriesInv'
    BY <1>1 DEF IndexInv, EntriesInv
  <2>3. ClosedInv'
    BY <1>1, ClosedKept DEF IndexInv
  <2>4. file' = file
    BY <1>1, FileKept
  <2>5. Unread' = Unread
    BY <1>1, <2>4 DEF Unread
  <2> QED BY <2>1, <2>2, <2>3, <2>4, <2>5 DEF FitInv
<1>4. /\ job \in Jobs /\ out \in Open /\ out.open
      /\ Sourced(out, input, ShouldFastClone, Kept(input))
      /\ LastOf(out).cloned => job.nschedules = 1
      /\ WholeOf(out) # {} => LastOf(out).cloned
  <2>1. out.open
    BY <1>1 DEF WellFormed, IsOutput
  <2> QED BY <1>3, <2>1, OpenFile
<1>5. /\ Cardinality(inFlight) \in Nat /\ Cardinality(inFlight) # 0
      /\ Cardinality(inFlight') = Cardinality(inFlight) - 1
      /\ Cardinality(Unread) \in Nat
      /\ job.nschedules = 1 => Cardinality(inFlight) = 1
  <2>1. /\ IsFiniteSet(inFlight) /\ Cardinality(inFlight) \in Nat /\ Cardinality(Unread) \in Nat
    BY <1>1, <1>3, UnreadFinite DEF TypesInv
  <2>2. Cardinality(inFlight \ {id}) = Cardinality(inFlight) - 1
    BY <2>1, FS_RemoveElement
  <2>3. Cardinality(inFlight) # 0
    <3>1. inFlight # {}
      OBVIOUS
    <3> QED BY <2>1, <3>1, FS_EmptySet
  <2>4. Cardinality(inFlight) <= job.nschedules
    BY <1>3 DEF TypesInv, LoopTypes
  <2> QED BY <1>2, <2>1, <2>2, <2>3, <2>4
<1>6. /\ ToCome \in Nat /\ ToCome # 0 /\ ToCome' = ToCome - 1
      /\ job.nschedules = 1 => ToCome - 1 = Cardinality(Unread)
  BY <1>3, <1>5 DEF ToCome
<1>7. \A f, n : NextInTree(f, inFlight, n) => NextInTree(f, inFlight', n) /\ NextInTree(f, {id}, n)
  BY <1>2 DEF NextInTree
<1>8. CASE Wanted(id)
  <2> DEFINE r == WriteOne(out, id, file)
  <2>1. \A o \in Open' : o = r
    BY <1>2, <1>8 DEF Open
  <2>2. /\ ClonesOnly(r) <=> ClonesOnly(out)
        /\ LastOf(r) = LastOf(out)
        /\ r.nEntries = out.nEntries + 1 /\ r.events = out.events + 1
    BY <1>1, WrittenKeeps
  <2>3. ASSUME ClonesOnly(out)
        PROVE  /\ RowsRight(r, input') /\ TailIs(r, file', ToCome')
               /\ LastOf(r).cloned => NextInTree(file', inFlight', Cardinality(Unread'))
    <3>1. /\ RowsRight(out, input) /\ TailIs(out, file, ToCome) /\ out.events = out.nEntries
          /\ LastOf(out).cloned => NextInTree(file, inFlight, Cardinality(Unread))
      BY <1>4, <2>3 DEF IndexInv, RowsInv
    <3>2. ColumnsAre(out, ToCome)
      BY <1>3, <1>4, <2>3 DEF FitInv, ColumnsInv
    <3>3. \A b \in DOMAIN out.column : b \in Filled(out) <=> b \notin WholeOf(out)
      <4>1. EventsOf(job.inputs[input]) # {}
        BY <1>2 DEF file
      <4> QED BY <1>1, <1>4, <2>3, <4>1, FilledAreTheRest
    <3>4. WholeOf(out) # {} => NextInTree(file, {id}, ToCome - 1)
      BY <1>4, <1>6, <1>7, <3>1
    <3>5. input \in Nat /\ input \in 1..input /\ input \in 1..Len(job.inputs)
      <4>1. input \in 1..Len(job.inputs)
        BY <1>1, <1>3, CurrentInput DEF TypesInv
      <4> QED BY <4>1
    <3>6. RowsRight(r, input) /\ TailIs(r, file, ToCome - 1)
      <4> HIDE DEF ToCome
      <4> QED BY <1>1, <1>2, <1>4, <1>6, <3>1, <3>2, <3>3, <3>4, <3>5, WrittenRows DEF file
    <3>7. LastOf(r).cloned => NextInTree(file, inFlight', Cardinality(Unread))
      BY <1>7, <2>2, <3>1
    <3> HIDE DEF r
    <3> QED BY <1>1, <1>3, <1>6, <3>6, <3>7
  <2>4. r.events = r.nEntries
    <3>1. out.events = out.nEntries
      BY <1>4 DEF IndexInv, RowsInv
    <3> HIDE DEF r
    <3> QED BY <2>2, <3>1
  <2> HIDE DEF r
  <2>5. RowsInv'
    BY <1>1, <2>1, <2>2, <2>3, <2>4, RowsAfter
  <2> QED BY <1>3, <2>5 DEF IndexInv
<1>9. CASE ~ Wanted(id)
  <2>1. \A o \in Open' : o = out
    BY <1>2, <1>9 DEF Open
  <2>2. ASSUME ClonesOnly(out)
        PROVE  /\ RowsRight(out, input') /\ TailIs(out, file', ToCome')
               /\ LastOf(out).cloned => NextInTree(file', inFlight', Cardinality(Unread'))
    <3>1. RowsRight(out, input)
      BY <1>4, <2>2 DEF IndexInv, RowsInv
    <3>2. ~ LastOf(out).cloned
      BY <1>2, <1>3, <1>4, <1>9, <2>2, ClonedIsWanted
    <3>3. WholeOf(out) = {}
      BY <1>4, <3>2
    <3> QED BY <1>1, <3>1, <3>2, <3>3 DEF TailIs
  <2>3. out.events = out.nEntries
    BY <1>4 DEF IndexInv, RowsInv
  <2>4. RowsInv'
    BY <1>1, <2>1, <2>2, <2>3, RowsAfter
  <2> QED BY <1>3, <2>4 DEF IndexInv
<1> QED BY <1>8, <1>9

(* What closing a file or an input does leaves the rows alone. *)
LEMMA EndedRows ==
  ASSUME NEW o, WellFormed(o), NEW r \in {SetEntries(o), SetEntries(EndFile(o))}
  PROVE  /\ r.open = o.open /\ r.sources = o.sources /\ r.column = o.column /\ r.nEntries = o.nEntries
         /\ r.readBranches = o.readBranches /\ r.wasFastCloned = o.wasFastCloned
         /\ r.uncloned = o.uncloned /\ r.index = o.index /\ r.events = o.events
         /\ r.provenance = o.provenance /\ r.descriptions = o.descriptions
         /\ r = SetEntries(EndFile(o)) => r.results = results
<1>1. DOMAIN o = Fields
  BY DEF WellFormed
<1>2. CASE r = SetEntries(o) /\ r # SetEntries(EndFile(o))
  <2>1. Changed(r, o, {"treeEntries"})
    BY <1>1, <1>2, EntriesSet
  <2>2. /\ r.open = o.open /\ r.sources = o.sources /\ r.column = o.column /\ r.nEntries = o.nEntries
        /\ r.readBranches = o.readBranches /\ r.wasFastCloned = o.wasFastCloned
        /\ r.uncloned = o.uncloned /\ r.index = o.index /\ r.events = o.events
        /\ r.provenance = o.provenance /\ r.descriptions = o.descriptions
    BY <2>1, Unchanged
  <2> QED BY <1>2, <2>2
<1>3. CASE r = SetEntries(EndFile(o))
  <2> DEFINE u == EndFile(o)
  <2>1. Changed(u, o, {"results", "metadata"}) /\ u.results = results
    BY <1>1, Ended
  <2> HIDE DEF u
  <2>2. DOMAIN u = Fields
    BY <2>1 DEF Changed
  <2>3. Changed(r, u, {"treeEntries"})
    BY <1>3, <2>2, EntriesSet DEF u
  <2>4. /\ u.open = o.open /\ u.sources = o.sources /\ u.column = o.column /\ u.nEntries = o.nEntries
        /\ u.readBranches = o.readBranches /\ u.wasFastCloned = o.wasFastCloned
        /\ u.uncloned = o.uncloned /\ u.index = o.index /\ u.events = o.events
        /\ u.provenance = o.provenance /\ u.descriptions = o.descriptions /\ u.results = results
    BY <2>1, Unchanged
  <2>5. /\ r.open = u.open /\ r.sources = u.sources /\ r.column = u.column /\ r.nEntries = u.nEntries
        /\ r.readBranches = u.readBranches /\ r.wasFastCloned = u.wasFastCloned
        /\ r.uncloned = u.uncloned /\ r.index = u.index /\ r.events = u.events
        /\ r.provenance = u.provenance /\ r.descriptions = u.descriptions /\ r.results = u.results
    BY <2>3, Unchanged
  <2> QED BY <2>4, <2>5
<1> QED BY <1>2, <1>3

(* A step that changes neither the columns nor the entries of events keeps *)
(* the rows right.                                                         *)
LEMMA RowsKept ==
  ASSUME IndexInv, job' = job, input' = input, at' = at, inFlight' = inFlight, out.open,
         out'.sources = out.sources, out'.column = out.column, out'.nEntries = out.nEntries,
         out'.readBranches = out.readBranches, out'.wasFastCloned = out.wasFastCloned,
         out'.uncloned = out.uncloned, out'.events = out.events,
         out'.provenance = out.provenance, out'.descriptions = out.descriptions,
         EventEntries(out') = EventEntries(out)
  PROVE  RowsInv'
<1>1. file' = file /\ ToCome' = ToCome /\ Unread' = Unread
  BY FileKept, ToComeKept
<1>2. out \in Open /\ \A o \in Open' : o = out'
  BY DEF Open
<1>3. /\ LastOf(out') = LastOf(out) /\ WholeOf(out') = WholeOf(out)
      /\ ClonesOnly(out') <=> ClonesOnly(out)
  BY SameTree
<1>4. out'.events = out'.nEntries
  BY <1>2 DEF IndexInv, RowsInv
<1>5. ASSUME ClonesOnly(out')
      PROVE  /\ RowsRight(out', input') /\ TailIs(out', file', ToCome')
             /\ LastOf(out').cloned => NextInTree(file', inFlight', Cardinality(Unread'))
  <2>1. /\ RowsRight(out, input) /\ TailIs(out, file, ToCome)
        /\ LastOf(out).cloned => NextInTree(file, inFlight, Cardinality(Unread))
    BY <1>2, <1>3, <1>5 DEF IndexInv, RowsInv
  <2>2. RowsRight(out', input)
    BY <2>1, SameRows
  <2>3. TailIs(out', file, ToCome)
    BY <1>3, <2>1, SameTail
  <2> QED BY <1>1, <1>3, <2>1, <2>2, <2>3
<1> QED BY <1>2, <1>4, <1>5, RowsAfter

LEMMA IndexAtWriteRunOrSubRun ==
  ASSUME IndexInv, WriteRun \/ WriteSubRun
  PROVE  IndexInv'
<1>1. /\ owed # {} /\ job' = job /\ input' = input /\ at' = at /\ inFlight' = inFlight
      /\ run' = run /\ subRun' = subRun /\ closed' = closed
      /\ out' \in {out, WithSubRun(out, subRun), WithRun(out, run)}
  <2>1. CASE WriteRun
    BY <2>1 DEF WriteRun
  <2>2. CASE WriteSubRun
    BY <2>2 DEF WriteSubRun
  <2> QED BY <2>1, <2>2
<1>2. FitInv /\ FitInv' /\ EntriesInv' /\ ClosedInv'
  <2>1. FitInv /\ FitInv'
    BY FitAtWriteRunOrSubRun DEF IndexInv
  <2>2. EntriesInv'
    BY <1>1 DEF IndexInv, EntriesInv
  <2>3. ClosedInv'
    BY <1>1, ClosedKept DEF IndexInv
  <2> QED BY <2>1, <2>2, <2>3
<1>3. WellFormed(out) /\ out.open
  <2>1. out.open
    BY <1>1, <1>2 DEF FitInv, TypesInv, LoopInv
  <2> QED BY <1>2, <2>1, OpenFile DEF FitInv
<1>4. PICK id : out' \in {out, WithSubRun(out, id), WithRun(out, id)} /\ EntryType(id) # "Event"
  BY <1>1 DEF IndexInv, EntriesInv
<1>5. /\ out'.sources = out.sources /\ out'.column = out.column
      /\ out'.nEntries = out.nEntries /\ out'.readBranches = out.readBranches
      /\ out'.wasFastCloned = out.wasFastCloned /\ out'.uncloned = out.uncloned
      /\ out'.events = out.events /\ out'.provenance = out.provenance
      /\ out'.descriptions = out.descriptions
      /\ \E row : out'.index \subseteq out.index \cup {[id |-> id, row |-> row]}
      /\ out.index \subseteq out'.index
  BY <1>3, <1>4, RunOrSubRunKeeps
<1>6. EventEntries(out') = EventEntries(out)
  BY <1>4, <1>5 DEF EventEntries
<1>7. RowsInv'
  BY <1>1, <1>3, <1>5, <1>6, RowsKept
<1> QED BY <1>2, <1>7 DEF IndexInv

LEMMA IndexAtCloseOutput ==
  ASSUME IndexInv, CloseOutput
  PROVE  IndexInv'
<1>1. /\ out.open /\ job' = job /\ input' = input /\ at' = at /\ inFlight' = inFlight
      /\ run' = run /\ subRun' = subRun
  BY DEF CloseOutput
<1>2. FitInv /\ FitInv' /\ EntriesInv'
  <2>1. FitInv /\ FitInv'
    BY FitAtCloseOutput DEF IndexInv
  <2>2. EntriesInv'
    BY <1>1 DEF IndexInv, EntriesInv
  <2> QED BY <2>1, <2>2
<1>3. WellFormed(out) /\ out \in Open /\ job \in Jobs
  BY <1>1, <1>2, OpenFile DEF FitInv
<1>4. CASE Aligned(out)
  <2> DEFINE r == SetEntries(EndFile(out))
  <2>1. closed' = Append(closed, r) /\ out' = NoOutput
    BY <1>4 DEF CloseOutput
  <2>2. RowsInv'
    BY <2>1 DEF RowsInv, Open, NoOutput
  <2>3. r \in {SetEntries(out), SetEntries(EndFile(out))}
    OBVIOUS
  <2> HIDE DEF r
  <2>4. /\ r.sources = out.sources /\ r.column = out.column /\ r.nEntries = out.nEntries
        /\ r.index = out.index /\ r.provenance = out.provenance
        /\ r.descriptions = out.descriptions
    BY <1>3, <2>3, EndedRows
  <2>5. ASSUME ClonesOnly(r) PROVE RowsRight(r, Len(job.inputs))
    <3>1. ClonesOnly(out)
      BY <2>4, <2>5, ClonesOnlyIs
    <3>2. RowsRight(out, input)
      BY <1>3, <3>1 DEF IndexInv, RowsInv
    <3>3. EventEntries(r) = EventEntries(out)
      BY <2>4 DEF EventEntries
    <3>4. RowsRight(r, input)
      BY <2>4, <3>2, <3>3, SameRows
    <3>5. \A i \in 1..input : i \in 1..Len(job.inputs)
      <4>1. input \in 0..Len(job.inputs) /\ Len(job.inputs) \in Nat
        BY <1>2, <1>3, JobType DEF FitInv, TypesInv, LoopTypes
      <4> QED BY <4>1
    <3> QED BY <3>4, <3>5 DEF RowsRight
  <2>6. /\ \A k \in DOMAIN closed' : k \in DOMAIN closed \/ closed'[k] = r
        /\ \A k \in DOMAIN closed : closed'[k] = closed[k]
    <3>1. closed \in Seq(Files)
      BY <1>2 DEF FitInv, TypesInv, FilesInv
    <3> QED BY <2>1, <3>1
  <2>7. \A o : ClonesOnly(o)' <=> ClonesOnly(o)
    BY <1>1, JobKept
  <2>8. \A o, n : RowsRight(o, n)' <=> RowsRight(o, n)
    BY <1>1, RowsOfJob
  <2>9. ASSUME NEW k \in DOMAIN closed', ClonesOnly(closed[k])'
        PROVE  RowsRight(closed[k], Len(job.inputs))'
    <3>1. ClonesOnly(closed'[k])
      BY <2>7, <2>9
    <3>2. RowsRight(closed'[k], Len(job.inputs))
      <4>1. CASE k \in DOMAIN closed
        BY <2>6, <3>1, <4>1 DEF IndexInv, ClosedInv
      <4>2. CASE closed'[k] = r
        BY <2>5, <3>1, <4>2
      <4> QED BY <2>6, <4>1, <4>2
    <3> QED BY <1>1, <2>8, <3>2
  <2>10. ClosedInv'
    BY <2>9 DEF ClosedInv
  <2> QED BY <1>2, <2>2, <2>10 DEF IndexInv
<1>5. CASE ~ Aligned(out)
  <2>1. out' = out /\ closed' = closed
    BY <1>5 DEF CloseOutput
  <2>2. RowsInv'
    BY <1>1, <2>1, RowsKept
  <2>3. ClosedInv'
    BY <1>1, <2>1, ClosedKept DEF IndexInv
  <2> QED BY <1>2, <2>2, <2>3 DEF IndexInv
<1> QED BY <1>4, <1>5

LEMMA IndexAtTheRest ==
  ASSUME IndexInv, EndInput \/ CloseInput \/ EndJob \/ UNCHANGED vars
  PROVE  IndexInv'
<1>1. /\ job' = job /\ input' = input /\ at' = at /\ inFlight' = inFlight
      /\ run' = run /\ subRun' = subRun /\ closed' = closed
      /\ out' \in {out, SetEntries(out)} /\ (~ out.open => out' = out)
  <2>1. CASE EndInput
    BY <2>1 DEF EndInput
  <2>2. CASE CloseInput
    BY <2>2 DEF CloseInput
  <2>3. CASE EndJob
    BY <2>3 DEF EndJob
  <2>4. CASE UNCHANGED vars
    BY <2>4 DEF vars, loop
  <2> QED BY <2>1, <2>2, <2>3, <2>4
<1>2. FitInv /\ FitInv' /\ EntriesInv' /\ ClosedInv'
  <2>1. FitInv /\ FitInv'
    BY FitAtEndInput, FitAtCloseInput, FitAtEndJob DEF IndexInv
  <2>2. EntriesInv'
    BY <1>1 DEF IndexInv, EntriesInv
  <2>3. ClosedInv'
    BY <1>1, ClosedKept DEF IndexInv
  <2> QED BY <2>1, <2>2, <2>3
<1>3. CASE ~ out.open
  <2>1. Open' = {}
    BY <1>1, <1>3 DEF Open
  <2> QED BY <1>2, <2>1 DEF IndexInv, RowsInv
<1>4. CASE out.open
  <2>1. WellFormed(out)
    BY <1>2, <1>4, OpenFile DEF FitInv
  <2>2. /\ out'.sources = out.sources /\ out'.column = out.column /\ out'.nEntries = out.nEntries
        /\ out'.readBranches = out.readBranches /\ out'.wasFastCloned = out.wasFastCloned
        /\ out'.uncloned = out.uncloned /\ out'.index = out.index /\ out'.events = out.events
        /\ out'.provenance = out.provenance /\ out'.descriptions = out.descriptions
    <3>1. CASE out' = out
      BY <3>1
    <3>2. CASE out' = SetEntries(out)
      BY <2>1, <3>2, EndedRows
    <3> QED BY <1>1, <3>1, <3>2
  <2>3. EventEntries(out') = EventEntries(out)
    BY <2>2 DEF EventEntries
  <2>4. RowsInv'
    BY <1>1, <1>4, <2>2, <2>3, RowsKept
  <2> QED BY <1>2, <2>4 DEF IndexInv
<1> QED BY <1>3, <1>4

LEMMA IndexStep ==
  IndexInv /\ [Next]_vars => IndexInv'
<1> SUFFICES ASSUME IndexInv, [Next]_vars PROVE IndexInv'
  OBVIOUS
<1>1. CASE OpenInput
  BY <1>1, IndexAtOpenInput
<1>2. CASE OpenOutput
  BY <1>2, IndexAtOpenOutput
<1>3. CASE BeginRun \/ BeginSubRun \/ BeginEvent
  BY <1>3, IndexAtBegin
<1>4. CASE WriteEvent
  BY <1>4, IndexAtWriteEvent
<1>5. CASE WriteSubRun \/ WriteRun
  BY <1>5, IndexAtWriteRunOrSubRun
<1>6. CASE CloseOutput
  BY <1>6, IndexAtCloseOutput
<1>7. CASE EndInput \/ CloseInput \/ EndJob \/ UNCHANGED vars
  BY <1>7, IndexAtTheRest
<1> QED BY <1>1, <1>2, <1>3, <1>4, <1>5, <1>6, <1>7 DEF Next

(* The index is right about each event of each output file, open or        *)
(* closed, that is not mixed: every branch has in that entry the product   *)
(* the event came with or the dummy, whether it was cloned or filled,      *)
(* whenever the branch was added, and the provenance kept there goes back  *)
(* without gaps.                                                           *)
THEOREM IndexRight == Spec => []IndexIsRight
<1>1. Spec => []IndexInv
  BY IndexInit, IndexStep, PTL DEF Spec
<1>2. IndexInv => IndexIsRight
  <2>1. SUFFICES ASSUME IndexInv, NEW o \in Outputs, ClonesOnly(o), NEW e \in EventEntries(o)
        PROVE  \E i \in DOMAIN job.inputs :
                 e.id \in EventsOf(job.inputs[i]) /\ RowRight(o, e, job.inputs[i])
    BY DEF IndexIsRight
  <2>2. DOMAIN job.inputs = 1..Len(job.inputs) /\ input \in 0..Len(job.inputs) /\ Len(job.inputs) \in Nat
    BY <2>1, JobType DEF IndexInv, FitInv, TypesInv, LoopTypes
  <2>3. CASE o \in Open
    <3>1. RowsRight(o, input)
      BY <2>1, <2>3 DEF IndexInv, RowsInv
    <3>2. \A i \in 1..input : i \in 1..Len(job.inputs)
      BY <2>2
    <3> QED BY <2>1, <2>2, <3>1, <3>2 DEF RowsRight
  <2>4. CASE o \in Files
    <3>1. RowsRight(o, Len(job.inputs))
      BY <2>1, <2>4 DEF IndexInv, ClosedInv, Files
    <3> QED BY <2>1, <2>2, <3>1 DEF RowsRight
  <2> QED BY <2>1, <2>3, <2>4 DEF Outputs, Open, Files
<1> QED BY <1>1, <1>2, PTL

-----------------------------------------------------------------------------
(***************************************************************************)
(* Once.  What is shared out among the closed files and the open one: the  *)
(* events written or in flight, those that results producers have seen and *)
(* the inputs whose results they have read.                                *)
(***************************************************************************)
IsShared(U, current, inFile) ==
  /\ U = current \cup UNION {inFile[k] : k \in DOMAIN inFile}
  /\ \A k \in DOMAIN inFile : current \cap inFile[k] = {}
  /\ \A j, k \in DOMAIN inFile : j # k => inFile[j] \cap inFile[k] = {}

LEMMA SharedGrows ==
  ASSUME NEW U, NEW current, NEW inFile, IsShared(U, current, inFile), NEW S, S \cap U = {}
  PROVE  IsShared(U \cup S, current \cup S, inFile)
BY DEF IsShared

LEMMA SharedPassesOn ==
  ASSUME NEW U, NEW current, NEW inFile, NEW n \in Nat, DOMAIN inFile = 1..n,
         IsShared(U, current, inFile),
         NEW more, DOMAIN more = 1..(n + 1), more[n + 1] = current,
         \A k \in 1..n : more[k] = inFile[k]
  PROVE  IsShared(U, {}, more)
<1>1. \A k \in DOMAIN more : k \in 1..n \/ k = n + 1
  OBVIOUS
<1>2. n + 1 \in DOMAIN more /\ \A k \in 1..n : k \in DOMAIN more /\ k # n + 1
  OBVIOUS
<1>3. U = {} \cup UNION {more[k] : k \in DOMAIN more}
  BY <1>1, <1>2 DEF IsShared
<1>4. \A j, k \in DOMAIN more : j # k => more[j] \cap more[k] = {}
  BY <1>1, <1>2 DEF IsShared
<1> QED BY <1>3, <1>4 DEF IsShared

LEMMA InJustOne ==
  ASSUME NEW U, NEW current, NEW inFile, IsShared(U, current, inFile), NEW x
  PROVE  /\ x \in U /\ x \notin current =>
              \E k \in DOMAIN inFile : \A j \in DOMAIN inFile : x \in inFile[j] <=> j = k
         /\ x \notin U => \A k \in DOMAIN inFile : x \notin inFile[k]
<1>1. ASSUME x \in U, x \notin current
      PROVE  \E k \in DOMAIN inFile : \A j \in DOMAIN inFile : x \in inFile[j] <=> j = k
  <2>1. PICK k \in DOMAIN inFile : x \in inFile[k]
    BY <1>1 DEF IsShared
  <2>2. \A j \in DOMAIN inFile : x \in inFile[j] => j = k
    BY <2>1 DEF IsShared
  <2> QED BY <2>1, <2>2
<1>2. x \notin U => \A k \in DOMAIN inFile : x \notin inFile[k]
  BY DEF IsShared
<1> QED BY <1>1, <1>2

ReadOf(i) ==
  {job.inputs[i].entries[p] : p \in {p \in Events(job.inputs[i].entries) : i < input \/ p <= at}}
EventsRead == UNION {ReadOf(i) : i \in 1..input}

IdsOf(o)   == {e.id : e \in EventEntries(o)}
OnceIn(o)  == \A d, e \in EventEntries(o) : d.id = e.id => d = e
OutIds     == UNION {IdsOf(o) : o \in Open}
WantedOf(S) == {id \in S : Wanted(id)}

IdsInFiles     == [k \in DOMAIN closed |-> IdsOf(closed[k])]
EventsInFiles  == [k \in DOMAIN closed |-> closed[k].results.events]
InputsInFiles  == [k \in DOMAIN closed |-> closed[k].results.inputs]

SharedInv ==
  /\ IsShared(WantedOf(EventsRead), WantedOf(inFlight) \cup OutIds, IdsInFiles)
  /\ IsShared(EventsRead \cap job.selected, results.events, EventsInFiles)
  /\ IsShared(1..input, results.inputs, InputsInFiles)

(* An event is in one entry of a file, and no more in flight; what results *)
(* producers have seen is in the same file, and is in none only as long as *)
(* there is nothing to open one for.                                       *)
TogetherInv ==
  /\ \A o \in Open : OnceIn(o) /\ inFlight \cap IdsOf(o) = {}
  /\ \A k \in DOMAIN closed :
       /\ OnceIn(closed[k])
       /\ ~ job.dropAllEvents => closed[k].results.events \subseteq IdsOf(closed[k])
  /\ ~ job.dropAllEvents => results.events \subseteq inFlight \cup OutIds
  /\ ~ out.open => results.events = {}
  /\ ~ out.open => \A i \in results.inputs : job.inputs[i].entries = <<>> \/ (i = input /\ at = 0)

DoneInv ==
  phase = "Done" => /\ input = Len(job.inputs) /\ ~ out.open /\ inFlight = {}
                    /\ input # 0 => at = Len(file.entries)

OnceInv == DoneInv /\ (NoDuplicates => SharedInv /\ TogetherInv)

LEMMA OnceOfJob ==
  ASSUME job' = job
  PROVE  /\ NoDuplicates' <=> NoDuplicates
         /\ \A S : WantedOf(S)' = WantedOf(S)
<1>1. NoDuplicates' <=> NoDuplicates
  BY DEF NoDuplicates
<1>2. \A S : WantedOf(S)' = WantedOf(S)
  BY DEF WantedOf, Wanted
<1> QED BY <1>1, <1>2

LEMMA ReadKept ==
  ASSUME job' = job, input' = input, at' = at
  PROVE  EventsRead' = EventsRead
<1>1. \A i : ReadOf(i)' = ReadOf(i)
  BY DEF ReadOf
<1> QED BY <1>1 DEF EventsRead, ReadOf

(* Reading on: an event is new unless there are duplicates, and what is no *)
(* event does not count.                                                   *)
LEMMA ReadAtBegin ==
  ASSUME TypesInv, BeginRun \/ BeginSubRun \/ BeginEvent
  PROVE  /\ BeginEvent => EventsRead' = EventsRead \cup {next} /\ (NoDuplicates => next \notin EventsRead)
         /\ ~ BeginEvent => EventsRead' = EventsRead
<1>1. input # 0 /\ job' = job /\ input' = input /\ at' = at + 1 /\ nextIs # "End"
  BY NextEntry DEF TypesInv, BeginRun, BeginSubRun, BeginEvent
<1>2. /\ at \in Nat /\ at + 1 \in DOMAIN file.entries /\ nextIs = EntryType(next)
      /\ DOMAIN file.entries = 1..Len(file.entries) /\ Len(file.entries) \in Nat
      /\ input \in 1..Len(job.inputs) /\ Len(job.inputs) \in Nat /\ DOMAIN job.inputs = 1..Len(job.inputs)
  BY <1>1, NextEntry, CurrentInput, JobType DEF TypesInv, LoopTypes
<1>3. \A i \in 1..input : i < input => ReadOf(i)' = ReadOf(i)
  BY <1>1 DEF ReadOf
<1>4. \A p \in DOMAIN file.entries : p <= at + 1 <=> p <= at \/ p = at + 1
  BY <1>2
<1>5. ASSUME NEW i, i = input
      PROVE  /\ ReadOf(i) = {file.entries[p] : p \in {p \in Events(file.entries) : p <= at}}
             /\ ReadOf(i)' = {file.entries[p] : p \in {p \in Events(file.entries) : p <= at + 1}}
  <2>1. ~ (i < input)
    BY <1>2, <1>5
  <2> QED BY <1>1, <1>5, <2>1 DEF ReadOf, file
<1>6. ASSUME NEW i, i = input
      PROVE  ReadOf(i)' = ReadOf(i) \cup (IF nextIs = "Event" THEN {next} ELSE {})
  <2>1. at + 1 \in Events(file.entries) <=> nextIs = "Event"
    BY <1>2 DEF Events, next
  <2>2. Events(file.entries) \subseteq DOMAIN file.entries
    BY DEF Events
  <2> QED BY <1>4, <1>5, <1>6, <2>1, <2>2 DEF next
<1>7. \A i \in 1..input : i < input \/ i = input
  BY <1>2
<1>8. input \in 1..input
  BY <1>2
<1>9. EventsRead' = EventsRead \cup (IF nextIs = "Event" THEN {next} ELSE {})
  <2>1. EventsRead' = UNION {ReadOf(i)' : i \in 1..input}
    BY <1>1 DEF EventsRead
  <2>2. ASSUME NEW i \in 1..input
        PROVE  ReadOf(i)' = ReadOf(i) \cup (IF i = input /\ nextIs = "Event" THEN {next} ELSE {})
    <3>1. CASE i < input
      <4>1. i # input
        BY <1>2, <3>1
      <4> QED BY <1>3, <3>1, <4>1
    <3>2. CASE i = input
      BY <1>6, <3>2
    <3> QED BY <1>7, <3>1, <3>2
  <2>3. EventsRead = UNION {ReadOf(i) : i \in 1..input}
    BY DEF EventsRead
  <2> QED BY <1>8, <2>1, <2>2, <2>3
<1>10. BeginEvent => nextIs = "Event"
  BY DEF BeginEvent
<1>11. ~ BeginEvent => nextIs # "Event"
  BY DEF BeginRun, BeginSubRun
<1>12. ASSUME BeginEvent, NoDuplicates PROVE next \notin EventsRead
  <2>1. SUFFICES ASSUME NEW i \in 1..input, next \in ReadOf(i) PROVE FALSE
    BY DEF EventsRead
  <2>2. PICK p \in Events(job.inputs[i].entries) :
          next = job.inputs[i].entries[p] /\ (i < input \/ p <= at)
    BY <2>1 DEF ReadOf
  <2>3. at + 1 \in Events(job.inputs[input].entries) /\ next = job.inputs[input].entries[at + 1]
    BY <1>1, <1>10, <1>12, NextEntry DEF TypesInv, next, file
  <2>4. i \in DOMAIN job.inputs /\ input \in DOMAIN job.inputs
    BY <1>2
  <2>5. i = input /\ p = at + 1
    BY <1>12, <2>2, <2>3, <2>4 DEF NoDuplicates
  <2> QED BY <1>2, <2>2, <2>5
<1> QED BY <1>9, <1>10, <1>11, <1>12

LEMMA ReadAtOpenInput ==
  ASSUME TypesInv, OpenInput
  PROVE  EventsRead' = EventsRead
<1>1. job' = job /\ input' = input + 1 /\ at' = 0 /\ phase = "NextFile" /\ input < Len(job.inputs)
  BY DEF OpenInput
<1>2. input \in Nat /\ job \in Jobs
  BY JobType DEF TypesInv, LoopTypes
<1>3. \A i \in 1..(input + 1) : job.inputs[i] \in Input /\ Len(job.inputs[i].entries) \in Nat
                                /\ DOMAIN job.inputs[i].entries = 1..Len(job.inputs[i].entries)
  <2>1. \A i \in 1..(input + 1) : i \in 1..Len(job.inputs)
    BY <1>1, <1>2, JobType
  <2>2. \A i \in 1..(input + 1) : job.inputs[i] \in Input
    BY <1>2, <2>1, JobType
  <2> QED BY <2>2, InputType
<1>4. input # 0 => at = Len(job.inputs[input].entries)
  BY <1>1 DEF TypesInv, LoopInv, file
<1>5. ASSUME NEW i \in 1..input PROVE ReadOf(i)' = ReadOf(i)
  <2>1. i < input + 1 /\ (i < input \/ i = input) /\ i \in 1..(input + 1)
    BY <1>2
  <2>2. \A p \in Events(job.inputs[i].entries) : i < input \/ p <= at
    <3>1. \A p \in DOMAIN job.inputs[i].entries : i < input \/ p <= at
      BY <1>2, <1>3, <1>4, <2>1
    <3> QED BY <3>1 DEF Events
  <2> QED BY <1>1, <2>1, <2>2 DEF ReadOf
<1>6. ASSUME NEW i, i = input + 1 PROVE ReadOf(i)' = {}
  <2>1. \A p \in DOMAIN job.inputs[i].entries : ~ (p <= 0) /\ ~ (i < input + 1)
    BY <1>2, <1>3, <1>6
  <2>2. ReadOf(i)' = {job.inputs[i].entries[p] :
                        p \in {p \in Events(job.inputs[i].entries) : i < input + 1 \/ p <= 0}}
    BY <1>1 DEF ReadOf
  <2> QED BY <2>1, <2>2 DEF Events
<1>7. \A i \in 1..(input + 1) : i \in 1..input \/ i = input + 1
  BY <1>2
<1>8. \A i \in 1..input : i \in 1..(input + 1)
  BY <1>2
<1>9. EventsRead' = UNION {ReadOf(i)' : i \in 1..(input + 1)}
  BY <1>1 DEF EventsRead
<1>10. EventsRead = UNION {ReadOf(i) : i \in 1..input}
  BY DEF EventsRead
<1> HIDE DEF ReadOf
<1> QED BY <1>5, <1>6, <1>7, <1>8, <1>9, <1>10

LEMMA OpenOrNot ==
  /\ out.open => Open = {out} /\ OutIds = IdsOf(out)
  /\ ~ out.open => Open = {} /\ OutIds = {}
BY DEF Open, OutIds

(* The entries of events that a step leaves alone, or a file that is new. *)
SameEntries ==
  /\ out.open => out'.open
  /\ out'.open => EventEntries(out') = IF out.open THEN EventEntries(out) ELSE {}

LEMMA OutIdsKept ==
  ASSUME SameEntries
  PROVE  /\ OutIds' = OutIds
         /\ out'.open => IdsOf(out') = OutIds
<1>1. CASE out.open
  <2>1. out'.open /\ IdsOf(out') = IdsOf(out)
    BY <1>1 DEF SameEntries, IdsOf
  <2>2. OutIds = IdsOf(out) /\ OutIds' = IdsOf(out')
    BY <1>1, <2>1 DEF OutIds, Open
  <2> QED BY <2>1, <2>2
<1>2. CASE ~ out.open
  <2>1. OutIds = {} /\ (out'.open => IdsOf(out') = {})
    BY <1>2 DEF SameEntries, IdsOf, OutIds, Open
  <2>2. OutIds' = UNION {IdsOf(o) : o \in Open'}
    BY DEF OutIds, IdsOf, EventEntries
  <2>3. Open' = IF out'.open THEN {out'} ELSE {}
    BY DEF Open
  <2> QED BY <2>1, <2>2, <2>3
<1> QED BY <1>1, <1>2

LEMMA InFilesKept ==
  ASSUME closed' = closed
  PROVE  IdsInFiles' = IdsInFiles /\ EventsInFiles' = EventsInFiles /\ InputsInFiles' = InputsInFiles
BY DEF IdsInFiles, EventsInFiles, InputsInFiles, IdsOf, EventEntries

(* What a step does to the open file, and what it leaves in the closed.    *)
LEMMA TogetherInClosed ==
  ASSUME TogetherInv, job' = job, closed' = closed
  PROVE  \A k \in DOMAIN closed' :
           /\ OnceIn(closed'[k])
           /\ ~ job'.dropAllEvents => closed'[k].results.events \subseteq IdsOf(closed'[k])
BY DEF TogetherInv

LEMMA SharedKept ==
  ASSUME SharedInv, job' = job, input' = input, EventsRead' = EventsRead, closed' = closed,
         results' = results, WantedOf(inFlight') \cup OutIds' = WantedOf(inFlight) \cup OutIds
  PROVE  SharedInv'
<1>1. /\ WantedOf(EventsRead)' = WantedOf(EventsRead)
      /\ (WantedOf(inFlight) \cup OutIds)' = WantedOf(inFlight) \cup OutIds
  BY DEF WantedOf, Wanted
<1>2. IdsInFiles' = IdsInFiles /\ EventsInFiles' = EventsInFiles /\ InputsInFiles' = InputsInFiles
  BY InFilesKept
<1>3. IsShared(WantedOf(EventsRead), WantedOf(inFlight) \cup OutIds, IdsInFiles)'
  BY <1>1, <1>2 DEF SharedInv
<1>4. IsShared(EventsRead \cap job.selected, results.events, EventsInFiles)'
  BY <1>2 DEF SharedInv
<1>5. IsShared(1..input, results.inputs, InputsInFiles)'
  BY <1>2 DEF SharedInv
<1> QED BY <1>3, <1>4, <1>5 DEF SharedInv

LEMMA OnceKept ==
  ASSUME SharedInv, TogetherInv, job' = job, input' = input, at' = at \/ out'.open,
         EventsRead' = EventsRead, closed' = closed, results' = results, inFlight' = inFlight,
         SameEntries
  PROVE  SharedInv' /\ TogetherInv'
<1>1. OutIds' = OutIds /\ (out'.open => IdsOf(out') = OutIds)
  BY OutIdsKept
<1>2. SharedInv'
  BY <1>1, SharedKept
<1>3. ASSUME NEW o \in Open' PROVE OnceIn(o) /\ inFlight' \cap IdsOf(o) = {}
  <2>1. o = out' /\ out'.open
    BY DEF Open
  <2>2. CASE out.open
    <3>1. EventEntries(out') = EventEntries(out)
      BY <2>1, <2>2 DEF SameEntries
    <3>2. OnceIn(out) /\ inFlight \cap IdsOf(out) = {}
      BY <2>2 DEF TogetherInv, Open
    <3> QED BY <2>1, <3>1, <3>2 DEF OnceIn, IdsOf
  <2>3. CASE ~ out.open
    <3>1. EventEntries(out') = {}
      BY <2>1, <2>3 DEF SameEntries
    <3> QED BY <2>1, <3>1 DEF OnceIn, IdsOf
  <2> QED BY <2>2, <2>3
<1>4. ~ job'.dropAllEvents => results'.events \subseteq inFlight' \cup OutIds'
  BY <1>1 DEF TogetherInv
<1>5. ~ out'.open => /\ results'.events = {}
                     /\ \A i \in results'.inputs : \/ job'.inputs[i].entries = <<>>
                                                   \/ i = input' /\ at' = 0
  BY DEF TogetherInv, SameEntries
<1>6. \A k \in DOMAIN closed' :
        /\ OnceIn(closed'[k])
        /\ ~ job'.dropAllEvents => closed'[k].results.events \subseteq IdsOf(closed'[k])
  BY TogetherInClosed
<1>7. TogetherInv'
  BY <1>3, <1>4, <1>5, <1>6 DEF TogetherInv
<1> QED BY <1>2, <1>7

(* What a file tells of itself, but for what is written of it at the end. *)
SameAccounts(r, o) ==
  r.index = o.index /\ r.runs = o.runs /\ r.subRuns = o.subRuns /\ r.events = o.events

LEMMA BegunEntries ==
  ASSUME NEW o, WellFormed(o), job \in Jobs, NEW i \in 1..Len(job.inputs)
  PROVE  LET r == BeginInputFile(o, i) IN
         r.open /\ EventEntries(r) = EventEntries(o) /\ SameAccounts(r, o)
<1> DEFINE r == BeginInputFile(o, i)
           t == TreeBegun(o, i)
           s == SelectProducts(o, i)
<1>1. SameAccounts(s, o) /\ DOMAIN s = Fields
  <2>1. DOMAIN o = Fields
    BY DEF WellFormed
  <2>2. Changed(s, o, {"column", "readBranches", "producedBranches"})
    BY <2>1, AddedBranches DEF SelectProducts
  <2> HIDE DEF s
  <2> QED BY <2>2, Unchanged DEF SameAccounts
<1>2. SameAccounts(t, s)
  <2> HIDE DEF s
  <2>1. CASE CloneOf(i)
    <3> DEFINE c == FastCloneTree(s, job.inputs[i])
    <3>1. Changed(c, s, {"column", "treeEntries", "wasFastCloned", "uncloned"})
      BY <1>1, FastCloned
    <3>2. t = c
      BY <2>1 DEF TreeBegun, s
    <3> HIDE DEF c, t
    <3>3. SameAccounts(c, s)
      BY <3>1, Unchanged DEF SameAccounts
    <3> QED BY <3>2, <3>3
  <2>2. CASE ~ CloneOf(i)
    BY <2>2 DEF TreeBegun, s, SameAccounts
  <2> QED BY <2>1, <2>2
<1>3. Changed(r, t, {"sources"}) /\ WellFormed(r)
  BY BegunWellFormed
<1> HIDE DEF r, s, t
<1>4. SameAccounts(r, t) /\ r.open
  <2>1. r.open
    BY <1>3 DEF WellFormed, IsOutput
  <2>2. SameAccounts(r, t)
    BY <1>3, Unchanged DEF SameAccounts
  <2> QED BY <2>1, <2>2
<1>5. SameAccounts(r, o)
  BY <1>1, <1>2, <1>4 DEF SameAccounts
<1>6. EventEntries(r) = EventEntries(o)
  BY <1>5 DEF EventEntries, SameAccounts
<1> QED BY <1>4, <1>5, <1>6 DEF r

LEMMA OnceAtOpenOutput ==
  ASSUME TypesInv, SharedInv, TogetherInv, OpenOutput
  PROVE  SharedInv' /\ TogetherInv'
<1> DEFINE n == NewOutputFile
<1>1. /\ phase = "Items" /\ ~ out.open /\ out' = BeginInputFile(n, input) /\ closed' = closed
      /\ job' = job /\ input' = input /\ at' = at /\ inFlight' = inFlight /\ results' = results
  BY DEF OpenOutput, loop
<1>2. input \in 1..Len(job.inputs) /\ job \in Jobs
  BY <1>1, CurrentInput DEF TypesInv, LoopTypes, LoopInv
<1>3. WellFormed(n) /\ EventEntries(n) = {}
  BY NewFileWellFormed DEF NewOutputFile, EventEntries
<1> HIDE DEF n
<1>4. out'.open /\ EventEntries(out') = {}
  BY <1>1, <1>2, <1>3, BegunEntries
<1>5. SameEntries
  BY <1>1, <1>4 DEF SameEntries
<1>6. EventsRead' = EventsRead
  BY <1>1, ReadKept
<1> QED BY <1>1, <1>5, <1>6, OnceKept

LEMMA OnceAtBeginRunOrSubRun ==
  ASSUME TypesInv, SharedInv, TogetherInv, BeginRun \/ BeginSubRun
  PROVE  SharedInv' /\ TogetherInv'
<1>1. /\ out.open /\ out' = out /\ closed' = closed /\ job' = job /\ input' = input
      /\ inFlight' = inFlight /\ results' = results /\ nextIs # "Event"
  BY DEF BeginRun, BeginSubRun, Ready
<1>2. ~ BeginEvent
  BY <1>1 DEF BeginEvent
<1>3. EventsRead' = EventsRead
  BY <1>2, ReadAtBegin
<1>4. SameEntries
  BY <1>1 DEF SameEntries, EventEntries
<1> QED BY <1>1, <1>3, <1>4, OnceKept

LEMMA OnceAtWriteRunOrSubRun ==
  ASSUME TypesInv, EntriesInv, SharedInv, TogetherInv, WriteRun \/ WriteSubRun
  PROVE  SharedInv' /\ TogetherInv'
<1>1. /\ owed # {} /\ job' = job /\ input' = input /\ at' = at /\ inFlight' = inFlight
      /\ results' = results /\ closed' = closed
      /\ out' \in {out, WithSubRun(out, subRun), WithRun(out, run)}
  <2>1. CASE WriteRun
    BY <2>1 DEF WriteRun
  <2>2. CASE WriteSubRun
    BY <2>2 DEF WriteSubRun
  <2> QED BY <2>1, <2>2
<1>2. PICK id : out' \in {out, WithSubRun(out, id), WithRun(out, id)} /\ EntryType(id) # "Event"
  BY <1>1 DEF EntriesInv
<1>3. WellFormed(out) /\ out.open
  <2>1. out.open
    BY <1>1 DEF TypesInv, LoopInv
  <2> QED BY <2>1, OpenIsBoolean DEF TypesInv, LoopTypes
<1>4. /\ out'.open /\ out.index \subseteq out'.index
      /\ \E row : out'.index \subseteq out.index \cup {[id |-> id, row |-> row]}
  BY <1>2, <1>3, RunOrSubRunKeeps
<1>5. EventEntries(out') = EventEntries(out)
  BY <1>2, <1>4 DEF EventEntries
<1>6. SameEntries
  BY <1>3, <1>4, <1>5 DEF SameEntries
<1>7. EventsRead' = EventsRead
  BY <1>1, ReadKept
<1> QED BY <1>1, <1>6, <1>7, OnceKept

LEMMA OnceAtTheRest ==
  ASSUME TypesInv, SharedInv, TogetherInv, EndInput \/ CloseInput \/ EndJob \/ UNCHANGED vars
  PROVE  SharedInv' /\ TogetherInv'
<1>1. /\ job' = job /\ input' = input /\ at' = at /\ inFlight' = inFlight
      /\ results' = results /\ closed' = closed
      /\ out' \in {out, SetEntries(out)} /\ (~ out.open => out' = out)
  <2>1. CASE EndInput
    BY <2>1 DEF EndInput
  <2>2. CASE CloseInput
    BY <2>2 DEF CloseInput
  <2>3. CASE EndJob
    BY <2>3 DEF EndJob
  <2>4. CASE UNCHANGED vars
    BY <2>4 DEF vars, loop
  <2> QED BY <2>1, <2>2, <2>3, <2>4
<1>2. out'.open = out.open /\ EventEntries(out') = EventEntries(out)
  <2>1. CASE out' = out
    BY <2>1 DEF EventEntries
  <2>2. CASE out' = SetEntries(out) /\ out.open
    <3>1. WellFormed(out)
      BY <2>2, OpenIsBoolean DEF TypesInv, LoopTypes
    <3>2. out'.open = out.open /\ out'.index = out.index
      BY <2>2, <3>1, EndedRows
    <3> QED BY <3>2 DEF EventEntries
  <2> QED BY <1>1, <2>1, <2>2
<1>3. SameEntries
  <2>1. ~ out.open => ~ out'.open
    BY <1>2
  <2> QED BY <1>2, <2>1 DEF SameEntries
<1>4. EventsRead' = EventsRead
  BY <1>1, ReadKept
<1> QED BY <1>1, <1>3, <1>4, OnceKept

LEMMA OnceAtBeginEvent ==
  ASSUME TypesInv, SharedInv, TogetherInv, NoDuplicates, BeginEvent
  PROVE  SharedInv' /\ TogetherInv'
<1> DEFINE S == {next} \cap job.selected
<1>1. /\ out.open /\ out' = out /\ closed' = closed /\ job' = job /\ input' = input
      /\ inFlight' = inFlight \cup {next}
      /\ results' = [results EXCEPT !.events = results.events \cup S]
  BY DEF BeginEvent, Ready
<1>2. EventsRead' = EventsRead \cup {next} /\ next \notin EventsRead
  BY ReadAtBegin
<1>3. SameEntries
  BY <1>1 DEF SameEntries, EventEntries
<1>4. OutIds' = OutIds /\ out \in Open /\ OutIds = IdsOf(out)
  BY <1>1, <1>3, OutIdsKept, OpenOrNot
<1>5. results'.events = results.events \cup S /\ results'.inputs = results.inputs
  <2>1. results \in Results
    BY DEF TypesInv, LoopTypes
  <2> HIDE DEF S
  <2> QED BY <1>1, <2>1 DEF Results
<1>6. IdsInFiles' = IdsInFiles /\ EventsInFiles' = EventsInFiles /\ InputsInFiles' = InputsInFiles
  BY <1>1, InFilesKept
<1>7. \A U : WantedOf(U)' = WantedOf(U)
  BY <1>1, OnceOfJob
<1>8. IsShared(WantedOf(EventsRead), WantedOf(inFlight) \cup OutIds, IdsInFiles)'
  <2>1. WantedOf(EventsRead') = WantedOf(EventsRead) \cup WantedOf({next})
    BY <1>2 DEF WantedOf
  <2>2. WantedOf(inFlight') \cup OutIds' = (WantedOf(inFlight) \cup OutIds) \cup WantedOf({next})
    BY <1>1, <1>4 DEF WantedOf
  <2>3. WantedOf({next}) \cap WantedOf(EventsRead) = {}
    BY <1>2 DEF WantedOf
  <2>4. IsShared(WantedOf(EventsRead), WantedOf(inFlight) \cup OutIds, IdsInFiles)
    BY DEF SharedInv
  <2>5. IsShared(WantedOf(EventsRead) \cup WantedOf({next}),
                 (WantedOf(inFlight) \cup OutIds) \cup WantedOf({next}), IdsInFiles)
    BY <2>3, <2>4, SharedGrows
  <2>6. WantedOf(EventsRead)' = WantedOf(EventsRead') /\ WantedOf(inFlight)' = WantedOf(inFlight')
    BY <1>1 DEF WantedOf, Wanted
  <2> QED BY <1>6, <2>1, <2>2, <2>5, <2>6
<1>9. IsShared(EventsRead \cap job.selected, results.events, EventsInFiles)'
  <2>1. (EventsRead \cap job.selected)' = (EventsRead \cap job.selected) \cup S
    BY <1>1, <1>2
  <2>2. S \cap (EventsRead \cap job.selected) = {}
    BY <1>2
  <2>3. IsShared(EventsRead \cap job.selected, results.events, EventsInFiles)
    BY DEF SharedInv
  <2> HIDE DEF S
  <2>4. IsShared((EventsRead \cap job.selected) \cup S, results.events \cup S, EventsInFiles)
    BY <2>2, <2>3, SharedGrows
  <2> QED BY <1>5, <1>6, <2>1, <2>4
<1>10. IsShared(1..input, results.inputs, InputsInFiles)'
  BY <1>1, <1>5, <1>6 DEF SharedInv
<1>11. ASSUME NEW o \in Open' PROVE OnceIn(o) /\ inFlight' \cap IdsOf(o) = {}
  <2>1. o = out
    BY <1>1 DEF Open
  <2>2. OnceIn(out) /\ inFlight \cap IdsOf(out) = {}
    BY <1>4 DEF TogetherInv
  <2>3. next \notin IdsOf(out)
    <3>1. IdsOf(out) \subseteq WantedOf(EventsRead)
      BY <1>4 DEF SharedInv, IsShared
    <3> QED BY <1>2, <3>1 DEF WantedOf
  <2> QED BY <1>1, <2>1, <2>2, <2>3
<1>12. ~ job'.dropAllEvents => results'.events \subseteq inFlight' \cup OutIds'
  BY <1>1, <1>4, <1>5 DEF TogetherInv
<1>13. \A k \in DOMAIN closed' :
         /\ OnceIn(closed'[k])
         /\ ~ job'.dropAllEvents => closed'[k].results.events \subseteq IdsOf(closed'[k])
  BY <1>1, TogetherInClosed
<1> HIDE DEF S
<1>14. SharedInv'
  BY <1>8, <1>9, <1>10 DEF SharedInv
<1>15. TogetherInv'
  BY <1>1, <1>11, <1>12, <1>13 DEF TogetherInv
<1> QED BY <1>14, <1>15

LEMMA OnceAtWriteEvent ==
  ASSUME TypesInv, SharedInv, TogetherInv, WriteEvent
  PROVE  SharedInv' /\ TogetherInv'
<1>1. /\ owed = {"Run", "SubRun"} /\ WellFormed(out) /\ job' = job /\ input' = input /\ at' = at
      /\ results' = results /\ closed' = closed
  BY EventWritten
<1>2. PICK id \in inFlight :
        /\ inFlight' = inFlight \ {id} /\ id \in EventsOf(file)
        /\ Wanted(id) => out' = WriteOne(out, id, file)
        /\ ~ Wanted(id) => out' = out
  BY EventWritten
<1>3. out.open /\ out \in Open /\ OutIds = IdsOf(out)
  <2>1. out.open
    BY <1>1 DEF WellFormed, IsOutput
  <2> QED BY <2>1, OpenOrNot
<1>4. EntryType(id) = "Event"
  BY <1>2 DEF EventsOf, Events
<1>5. OnceIn(out) /\ inFlight \cap IdsOf(out) = {}
  BY <1>3 DEF TogetherInv
<1>6. /\ out'.open /\ OnceIn(out') /\ inFlight' \cap IdsOf(out') = {}
      /\ IdsOf(out') = IdsOf(out) \cup WantedOf({id})
  <2>1. CASE Wanted(id)
    <3> DEFINE e == [id |-> id, row |-> out.events + 1]
               r == WriteOne(out, id, file)
    <3>1. r.open = out.open
      BY <1>1, WrittenKeeps
    <3>2. r.index = out.index \cup {e}
      BY <1>1, WrittenTree
    <3>3. out'.open /\ out'.index = out.index \cup {e}
      BY <1>2, <1>3, <2>1, <3>1, <3>2
    <3>4. e.id = id
      OBVIOUS
    <3> HIDE DEF e, r
    <3>5. EventEntries(out') = EventEntries(out) \cup {e}
      BY <1>4, <3>3, <3>4 DEF EventEntries
    <3>6. IdsOf(out') = IdsOf(out) \cup {id}
      BY <3>4, <3>5 DEF IdsOf
    <3>7. id \notin IdsOf(out) /\ WantedOf({id}) = {id}
      BY <1>5, <2>1 DEF WantedOf
    <3>8. OnceIn(out')
      BY <1>5, <3>4, <3>5, <3>7 DEF OnceIn, IdsOf
    <3> QED BY <1>2, <1>5, <3>3, <3>6, <3>7, <3>8
  <2>2. CASE ~ Wanted(id)
    <3>1. WantedOf({id}) = {} /\ out' = out
      BY <1>2, <2>2 DEF WantedOf
    <3> QED BY <1>2, <1>3, <1>5, <3>1
  <2> QED BY <2>1, <2>2
<1>7. OutIds' = IdsOf(out') /\ \A o \in Open' : o = out'
  BY <1>6 DEF OutIds, Open, IdsOf, EventEntries
<1>8. WantedOf(inFlight') \cup OutIds' = WantedOf(inFlight) \cup OutIds
  BY <1>2, <1>3, <1>6, <1>7 DEF WantedOf
<1>9. EventsRead' = EventsRead
  BY <1>1, ReadKept
<1>10. SharedInv'
  BY <1>1, <1>8, <1>9, SharedKept
<1>11. ~ job'.dropAllEvents => results'.events \subseteq inFlight' \cup OutIds'
  <2>1. results.events \subseteq job.selected
    BY DEF SharedInv, IsShared
  <2>2. ~ job.dropAllEvents => results.events \subseteq inFlight \cup IdsOf(out)
    BY <1>3 DEF TogetherInv
  <2>3. ~ job.dropAllEvents /\ id \in job.selected => id \in IdsOf(out')
    BY <1>6 DEF WantedOf, Wanted
  <2>4. IdsOf(out) \subseteq IdsOf(out')
    BY <1>6
  <2> QED BY <1>1, <1>2, <1>7, <2>1, <2>2, <2>3, <2>4
<1>12. \A k \in DOMAIN closed' :
         /\ OnceIn(closed'[k])
         /\ ~ job'.dropAllEvents => closed'[k].results.events \subseteq IdsOf(closed'[k])
  BY <1>1, TogetherInClosed
<1>13. TogetherInv'
  BY <1>6, <1>7, <1>11, <1>12 DEF TogetherInv
<1> QED BY <1>10, <1>13

LEMMA OnceAtOpenInput ==
  ASSUME TypesInv, SharedInv, TogetherInv, OpenInput
  PROVE  SharedInv' /\ TogetherInv'
<1>1. /\ phase = "NextFile" /\ input < Len(job.inputs) /\ job' = job /\ input' = input + 1 /\ at' = 0
      /\ inFlight' = inFlight /\ closed' = closed
      /\ out' = (IF out.open THEN BeginInputFile(out, input + 1) ELSE out)
      /\ results' = [results EXCEPT !.inputs = results.inputs \cup {input + 1}]
  BY DEF OpenInput
<1>2. job \in Jobs /\ input \in Nat /\ Len(job.inputs) \in Nat /\ input + 1 \in 1..Len(job.inputs)
  BY <1>1, JobType DEF TypesInv, LoopTypes
<1>3. SameEntries
  <2>1. CASE out.open
    <3>1. WellFormed(out)
      BY <1>2, <2>1, OpenIsBoolean DEF TypesInv
    <3>2. out'.open /\ EventEntries(out') = EventEntries(out)
      BY <1>1, <1>2, <2>1, <3>1, BegunEntries
    <3> QED BY <2>1, <3>2 DEF SameEntries
  <2>2. CASE ~ out.open
    BY <1>1, <2>2 DEF SameEntries
  <2> QED BY <2>1, <2>2
<1>4. OutIds' = OutIds /\ (out.open <=> out'.open)
  BY <1>1, <1>3, OutIdsKept DEF SameEntries
<1>5. results'.events = results.events /\ results'.inputs = results.inputs \cup {input + 1}
  <2>1. results \in Results
    BY DEF TypesInv, LoopTypes
  <2> QED BY <1>1, <2>1 DEF Results
<1>6. IdsInFiles' = IdsInFiles /\ EventsInFiles' = EventsInFiles /\ InputsInFiles' = InputsInFiles
  BY <1>1, InFilesKept
<1>7. EventsRead' = EventsRead
  BY ReadAtOpenInput
<1>8. IsShared(WantedOf(EventsRead), WantedOf(inFlight) \cup OutIds, IdsInFiles)'
  <2>1. WantedOf(EventsRead)' = WantedOf(EventsRead) /\ WantedOf(inFlight)' = WantedOf(inFlight)
    BY <1>1, <1>7 DEF WantedOf, Wanted
  <2> QED BY <1>4, <1>6, <2>1 DEF SharedInv
<1>9. IsShared(EventsRead \cap job.selected, results.events, EventsInFiles)'
  BY <1>1, <1>5, <1>6, <1>7 DEF SharedInv
<1>10. IsShared(1..input, results.inputs, InputsInFiles)'
  <2>1. 1..(input + 1) = (1..input) \cup {input + 1} /\ {input + 1} \cap 1..input = {}
    BY <1>2
  <2>2. IsShared((1..input) \cup {input + 1}, results.inputs \cup {input + 1}, InputsInFiles)
    BY <2>1, SharedGrows DEF SharedInv
  <2> QED BY <1>1, <1>5, <1>6, <2>1, <2>2
<1>11. SharedInv'
  BY <1>8, <1>9, <1>10 DEF SharedInv
<1>12. ASSUME NEW o \in Open' PROVE OnceIn(o) /\ inFlight' \cap IdsOf(o) = {}
  <2>1. o = out' /\ out'.open /\ out.open /\ out \in Open
    BY <1>4 DEF Open
  <2>2. EventEntries(out') = EventEntries(out)
    BY <1>3, <2>1 DEF SameEntries
  <2>3. OnceIn(out) /\ inFlight \cap IdsOf(out) = {}
    BY <2>1 DEF TogetherInv
  <2> QED BY <1>1, <2>1, <2>2, <2>3 DEF OnceIn, IdsOf
<1>13. ~ job'.dropAllEvents => results'.events \subseteq inFlight' \cup OutIds'
  BY <1>1, <1>4, <1>5 DEF TogetherInv
<1>14. ASSUME ~ out'.open, NEW i \in results'.inputs
       PROVE  job'.inputs[i].entries = <<>> \/ (i = input' /\ at' = 0)
  <2>1. CASE i = input + 1
    BY <1>1, <2>1
  <2>2. CASE i \in results.inputs
    <3>1. job.inputs[i].entries = <<>> \/ (i = input /\ at = 0)
      BY <1>4, <1>14, <2>2 DEF TogetherInv
    <3>2. ASSUME i = input, at = 0 PROVE job.inputs[i].entries = <<>>
      <4>1. input # 0
        <5>1. i \in 1..input
          BY <2>2 DEF SharedInv, IsShared
        <5> QED BY <1>2, <3>2, <5>1
      <4>2. at = Len(file.entries)
        BY <1>1, <4>1 DEF TypesInv, LoopInv
      <4>3. file.entries \in Seq(ID)
        BY <4>1, CurrentInput DEF TypesInv
      <4> QED BY <3>2, <4>2, <4>3 DEF file
    <3> QED BY <1>1, <3>1, <3>2
  <2> QED BY <1>5, <2>1, <2>2
<1>15. ~ out'.open => results'.events = {}
  BY <1>4, <1>5 DEF TogetherInv
<1>16. \A k \in DOMAIN closed' :
         /\ OnceIn(closed'[k])
         /\ ~ job'.dropAllEvents => closed'[k].results.events \subseteq IdsOf(closed'[k])
  BY <1>1, TogetherInClosed
<1>17. TogetherInv'
  BY <1>12, <1>13, <1>14, <1>15, <1>16 DEF TogetherInv
<1> QED BY <1>11, <1>17

LEMMA OnceAtCloseOutput ==
  ASSUME TypesInv, SharedInv, TogetherInv, CloseOutput
  PROVE  SharedInv' /\ TogetherInv'
<1>1. /\ out.open /\ inFlight = {} /\ job' = job /\ input' = input /\ at' = at /\ inFlight' = inFlight
  BY DEF CloseOutput
<1>2. EventsRead' = EventsRead
  BY <1>1, ReadKept
<1>3. CASE ~ Aligned(out)
  <2>1. out' = out /\ closed' = closed /\ results' = results
    BY <1>3 DEF CloseOutput
  <2>2. SameEntries
    BY <1>1, <2>1 DEF SameEntries, EventEntries
  <2> QED BY <1>1, <1>2, <2>1, <2>2, OnceKept
<1>4. CASE Aligned(out)
  <2> DEFINE r == SetEntries(EndFile(out))
             n == Len(closed)
  <2>1. closed' = Append(closed, r) /\ ~ out'.open /\ results'.events = {} /\ results'.inputs = {}
    BY <1>4 DEF CloseOutput, NoOutput, NoResults
  <2>2. WellFormed(out) /\ out \in Open /\ OutIds = IdsOf(out)
    <3>1. WellFormed(out)
      BY <1>1, OpenIsBoolean DEF TypesInv, LoopTypes
    <3> QED BY <1>1, <3>1, OpenOrNot
  <2>3. r.index = out.index /\ r.results = results
    BY <2>2, EndedRows
  <2> HIDE DEF r
  <2>4. EventEntries(r) = EventEntries(out) /\ IdsOf(r) = IdsOf(out)
    BY <2>3 DEF EventEntries, IdsOf
  <2>5. /\ n \in Nat /\ DOMAIN closed = 1..n /\ DOMAIN closed' = 1..(n + 1) /\ closed'[n + 1] = r
        /\ \A k \in 1..n : closed'[k] = closed[k]
    <3>1. closed \in Seq(Files)
      BY DEF TypesInv, FilesInv
    <3> QED BY <2>1, <3>1
  <2> HIDE DEF n
  <2>6. OutIds' = {} /\ Open' = {}
    BY <2>1 DEF OutIds, Open
  <2>7. /\ DOMAIN IdsInFiles = 1..n /\ DOMAIN IdsInFiles' = 1..(n + 1) /\ IdsInFiles'[n + 1] = IdsOf(r)
        /\ \A k \in 1..n : IdsInFiles'[k] = IdsInFiles[k]
    <3>1. IdsInFiles' = [k \in DOMAIN closed' |-> IdsOf(closed'[k])]
      BY DEF IdsInFiles, IdsOf, EventEntries
    <3>2. IdsInFiles = [k \in DOMAIN closed |-> IdsOf(closed[k])]
      BY DEF IdsInFiles
    <3>3. n + 1 \in 1..(n + 1) /\ \A k \in 1..n : k \in 1..(n + 1)
      BY <2>5
    <3> QED BY <2>5, <3>1, <3>2, <3>3
  <2>8. /\ DOMAIN EventsInFiles = 1..n /\ DOMAIN EventsInFiles' = 1..(n + 1)
        /\ EventsInFiles'[n + 1] = results.events
        /\ \A k \in 1..n : EventsInFiles'[k] = EventsInFiles[k]
    BY <2>3, <2>5 DEF EventsInFiles
  <2>9. /\ DOMAIN InputsInFiles = 1..n /\ DOMAIN InputsInFiles' = 1..(n + 1)
        /\ InputsInFiles'[n + 1] = results.inputs
        /\ \A k \in 1..n : InputsInFiles'[k] = InputsInFiles[k]
    BY <2>3, <2>5 DEF InputsInFiles
  <2>10. IsShared(WantedOf(EventsRead), WantedOf(inFlight) \cup OutIds, IdsInFiles)'
    <3>1. WantedOf(inFlight) \cup OutIds = IdsOf(r)
      BY <1>1, <2>2, <2>4 DEF WantedOf
    <3>2. IsShared(WantedOf(EventsRead), IdsOf(r), IdsInFiles)
      BY <3>1 DEF SharedInv
    <3>3. IsShared(WantedOf(EventsRead), {}, IdsInFiles')
      BY <2>5, <2>7, <3>2, SharedPassesOn
    <3>4. WantedOf(EventsRead)' = WantedOf(EventsRead) /\ (WantedOf(inFlight) \cup OutIds)' = {}
      BY <1>1, <1>2, <2>6 DEF WantedOf, Wanted
    <3> QED BY <3>3, <3>4
  <2>11. IsShared(EventsRead \cap job.selected, results.events, EventsInFiles)'
    <3>1. IsShared(EventsRead \cap job.selected, results.events, EventsInFiles)
      BY DEF SharedInv
    <3>2. IsShared(EventsRead \cap job.selected, {}, EventsInFiles')
      BY <2>5, <2>8, <3>1, SharedPassesOn
    <3> QED BY <1>1, <1>2, <2>1, <3>2
  <2>12. IsShared(1..input, results.inputs, InputsInFiles)'
    <3>1. IsShared(1..input, results.inputs, InputsInFiles)
      BY DEF SharedInv
    <3>2. IsShared(1..input, {}, InputsInFiles')
      BY <2>5, <2>9, <3>1, SharedPassesOn
    <3> QED BY <1>1, <2>1, <3>2
  <2>13. SharedInv'
    BY <2>10, <2>11, <2>12 DEF SharedInv
  <2>14. ASSUME NEW k \in DOMAIN closed'
         PROVE  /\ OnceIn(closed'[k])
                /\ ~ job'.dropAllEvents => closed'[k].results.events \subseteq IdsOf(closed'[k])
    <3>1. CASE k \in 1..n
      BY <1>1, <2>5, <3>1 DEF TogetherInv
    <3>2. CASE k = n + 1
      <4>1. OnceIn(out) /\ (~ job.dropAllEvents => results.events \subseteq inFlight \cup OutIds)
        BY <2>2 DEF TogetherInv
      <4>2. OnceIn(r)
        BY <2>4, <4>1 DEF OnceIn
      <4>3. ~ job.dropAllEvents => r.results.events \subseteq IdsOf(r)
        BY <1>1, <2>2, <2>3, <2>4, <4>1
      <4> QED BY <1>1, <2>5, <3>2, <4>2, <4>3
    <3> QED BY <2>5, <3>1, <3>2
  <2>15. TogetherInv'
    BY <2>1, <2>6, <2>14 DEF TogetherInv
  <2> QED BY <2>13, <2>15
<1> QED BY <1>3, <1>4

LEMMA DoneStep ==
  TypesInv /\ DoneInv /\ [Next]_vars => DoneInv'
<1> SUFFICES ASSUME TypesInv, DoneInv, [Next]_vars, phase' = "Done"
             PROVE  /\ input' = Len(job'.inputs) /\ ~ out'.open /\ inFlight' = {}
                    /\ input' # 0 => at' = Len(file'.entries)
  BY DEF DoneInv
<1>1. CASE EndJob
  <2>1. /\ phase = "NextFile" /\ input = Len(job.inputs) /\ ~ out.open
        /\ job' = job /\ input' = input /\ at' = at /\ inFlight' = inFlight /\ out' = out
    BY <1>1 DEF EndJob
  <2>2. inFlight = {} /\ (input # 0 => at = Len(file.entries))
    BY <2>1 DEF TypesInv, LoopInv
  <2>3. file' = file
    BY <2>1, FileKept
  <2> QED BY <2>1, <2>2, <2>3
<1>2. CASE UNCHANGED vars
  <2>1. /\ phase = "Done" /\ job' = job /\ input' = input /\ at' = at /\ inFlight' = inFlight
        /\ out' = out
    BY <1>2 DEF vars, loop
  <2>2. file' = file
    BY <2>1, FileKept
  <2> QED BY <2>1, <2>2 DEF DoneInv
<1>3. ~ OpenInput /\ ~ EndInput /\ ~ CloseInput
  BY DEF OpenInput, EndInput, CloseInput
<1>4. CASE OpenOutput \/ BeginRun \/ BeginSubRun \/ BeginEvent \/ WriteSubRun \/ WriteRun
  BY <1>4 DEF OpenOutput, BeginRun, BeginSubRun, BeginEvent, WriteSubRun, WriteRun, Ready, loop
<1>5. CASE WriteEvent
  BY <1>5, EventWritten
<1>6. CASE CloseOutput
  <2>1. out.open /\ phase = "Done"
    BY <1>6 DEF CloseOutput
  <2> QED BY <2>1 DEF DoneInv
<1> QED BY <1>1, <1>2, <1>3, <1>4, <1>5, <1>6 DEF Next

LEMMA OnceInit ==
  Init => OnceInv
<1> SUFFICES ASSUME Init PROVE OnceInv
  OBVIOUS
<1>1. /\ input = 0 /\ phase = "NextFile" /\ inFlight = {} /\ ~ out.open /\ closed = <<>>
      /\ results.events = {} /\ results.inputs = {}
  BY DEF Init, NoOutput, NoResults
<1>2. EventsRead = {} /\ 1..input = {}
  <2>1. 1..input = {}
    BY <1>1
  <2> QED BY <2>1 DEF EventsRead
<1>3. OutIds = {} /\ Open = {} /\ WantedOf(inFlight) = {} /\ WantedOf(EventsRead) = {}
  BY <1>1, <1>2, OpenOrNot DEF WantedOf
<1>4. DOMAIN IdsInFiles = {} /\ DOMAIN EventsInFiles = {} /\ DOMAIN InputsInFiles = {} /\ DOMAIN closed = {}
  BY <1>1 DEF IdsInFiles, EventsInFiles, InputsInFiles
<1>5. \A inFile : DOMAIN inFile = {} => IsShared({}, {}, inFile)
  BY DEF IsShared
<1>6. SharedInv
  <2>1. EventsRead \cap job.selected = {} /\ WantedOf(inFlight) \cup OutIds = {}
    BY <1>2, <1>3
  <2> QED BY <1>1, <1>2, <1>3, <1>4, <1>5, <2>1 DEF SharedInv
<1>7. TogetherInv
  BY <1>1, <1>3, <1>4 DEF TogetherInv
<1> QED BY <1>1, <1>6, <1>7 DEF OnceInv, DoneInv

LEMMA OnceStep ==
  IndexInv /\ OnceInv /\ [Next]_vars => OnceInv'
<1> SUFFICES ASSUME IndexInv, OnceInv, [Next]_vars PROVE OnceInv'
  OBVIOUS
<1>1. TypesInv /\ EntriesInv
  BY DEF IndexInv, FitInv
<1>2. DoneInv'
  BY <1>1, DoneStep DEF OnceInv
<1>3. ASSUME NoDuplicates PROVE SharedInv' /\ TogetherInv'
  <2>0. SharedInv /\ TogetherInv
    BY <1>3 DEF OnceInv
  <2>1. CASE OpenInput
    BY <1>1, <2>0, <2>1, OnceAtOpenInput
  <2>2. CASE OpenOutput
    BY <1>1, <2>0, <2>2, OnceAtOpenOutput
  <2>3. CASE BeginRun \/ BeginSubRun
    BY <1>1, <2>0, <2>3, OnceAtBeginRunOrSubRun
  <2>4. CASE BeginEvent
    BY <1>1, <1>3, <2>0, <2>4, OnceAtBeginEvent
  <2>5. CASE WriteEvent
    BY <1>1, <2>0, <2>5, OnceAtWriteEvent
  <2>6. CASE WriteSubRun \/ WriteRun
    BY <1>1, <2>0, <2>6, OnceAtWriteRunOrSubRun
  <2>7. CASE CloseOutput
    BY <1>1, <2>0, <2>7, OnceAtCloseOutput
  <2>8. CASE EndInput \/ CloseInput \/ EndJob \/ UNCHANGED vars
    BY <1>1, <2>0, <2>8, OnceAtTheRest
  <2> QED BY <2>1, <2>2, <2>3, <2>4, <2>5, <2>6, <2>7, <2>8 DEF Next
<1>4. job' = job
  BY DEF Next, OpenInput, OpenOutput, BeginRun, BeginSubRun, BeginEvent, WriteEvent, WriteSubRun,
         WriteRun, CloseOutput, EndInput, CloseInput, EndJob, vars
<1>5. NoDuplicates' <=> NoDuplicates
  BY <1>4, OnceOfJob
<1> QED BY <1>2, <1>3, <1>5 DEF OnceInv

(* At the end of the job every event of every input has been read, and     *)
(* there is nothing that is not in a closed file.                          *)
LEMMA AllReadWhenDone ==
  ASSUME TypesInv, DoneInv, phase = "Done", NEW i \in DOMAIN job.inputs
  PROVE  i \in 1..input /\ EventsOf(job.inputs[i]) \subseteq EventsRead
<1>1. i \in 1..input /\ input \in Nat /\ input = Len(job.inputs) /\ input # 0 /\ at = Len(file.entries)
  BY JobType DEF TypesInv, LoopTypes, DoneInv
<1>2. DOMAIN file.entries = 1..Len(file.entries) /\ Len(file.entries) \in Nat
  BY <1>1, CurrentInput DEF TypesInv
<1>3. \A p \in Events(job.inputs[i].entries) : i < input \/ p <= at
  <2>1. CASE i < input
    BY <2>1
  <2>2. CASE i = input
    <3>1. \A p \in DOMAIN file.entries : p <= at
      BY <1>1, <1>2
    <3> QED BY <2>2, <3>1 DEF file, Events
  <2> QED BY <1>1, <2>1, <2>2
<1>4. EventsOf(job.inputs[i]) \subseteq ReadOf(i)
  BY <1>3 DEF EventsOf, ReadOf
<1> QED BY <1>1, <1>4 DEF EventsRead

(* At the end each event to be written is in one entry of one closed file, *)
(* and what the results producers saw is in the results of one file, that  *)
(* of the event, whatever the schedules, the granularity and the requests  *)
(* to close were; so is what they read from each input that has entries.   *)
THEOREM WrittenOnce == Spec => []EachEventWrittenOnce
<1>1. Spec => [](IndexInv /\ OnceInv)
  BY IndexInit, IndexStep, OnceInit, OnceStep, PTL DEF Spec
<1>2. IndexInv /\ OnceInv => EachEventWrittenOnce
  <2> SUFFICES ASSUME IndexInv, OnceInv, phase = "Done", NoDuplicates
               PROVE  EachEventWrittenOnce
    BY DEF EachEventWrittenOnce
  <2>1. TypesInv /\ DoneInv /\ SharedInv /\ TogetherInv
    BY DEF IndexInv, FitInv, OnceInv
  <2>2. inFlight = {} /\ ~ out.open /\ input = Len(job.inputs) /\ (input # 0 => at = Len(file.entries))
    BY <2>1 DEF DoneInv
  <2>3. /\ IsShared(WantedOf(EventsRead), {}, IdsInFiles)
        /\ IsShared(EventsRead \cap job.selected, {}, EventsInFiles)
        /\ IsShared(1..input, results.inputs, InputsInFiles)
    <3>1. WantedOf(inFlight) \cup OutIds = {}
      BY <2>2, OpenOrNot DEF WantedOf
    <3>2. results.events = {}
      BY <2>1, <2>2 DEF TogetherInv
    <3> QED BY <2>1, <3>1, <3>2 DEF SharedInv
  <2>4. /\ DOMAIN IdsInFiles = DOMAIN closed /\ DOMAIN EventsInFiles = DOMAIN closed
        /\ DOMAIN InputsInFiles = DOMAIN closed
        /\ \A k \in DOMAIN closed : /\ IdsInFiles[k] = IdsOf(closed[k])
                                    /\ EventsInFiles[k] = closed[k].results.events
                                    /\ InputsInFiles[k] = closed[k].results.inputs
    BY DEF IdsInFiles, EventsInFiles, InputsInFiles
  <2>5. ASSUME NEW i \in DOMAIN job.inputs, NEW id \in EventsOf(job.inputs[i])
        PROVE  /\ Cardinality({w \in (DOMAIN closed) \X UNION {closed[k].index : k \in DOMAIN closed} :
                                 w[2] \in closed[w[1]].index /\ w[2].id = id})
                    = IF job.dropAllEvents \/ id \notin job.selected THEN 0 ELSE 1
               /\ id \in job.selected => \E k \in DOMAIN closed :
                    /\ \A j \in DOMAIN closed : id \in closed[j].results.events <=> j = k
                    /\ ~ job.dropAllEvents => \E e \in closed[k].index : e.id = id
    <3> DEFINE W == {w \in (DOMAIN closed) \X UNION {closed[k].index : k \in DOMAIN closed} :
                       w[2] \in closed[w[1]].index /\ w[2].id = id}
    <3>1. id \in EventsRead /\ EntryType(id) = "Event"
      BY <2>1, <2>5, AllReadWhenDone DEF EventsOf, Events
    <3>2. \A k \in DOMAIN closed : \A e \in closed[k].index :
            e.id = id => e \in EventEntries(closed[k]) /\ id \in IdsOf(closed[k])
      BY <3>1 DEF EventEntries, IdsOf
    <3>3. \A w \in W : /\ w = <<w[1], w[2]>> /\ w[1] \in DOMAIN closed
                       /\ w[2] \in closed[w[1]].index /\ w[2].id = id
      OBVIOUS
    <3>4. \A k \in DOMAIN closed : \A e \in closed[k].index : e.id = id => <<k, e>> \in W
      OBVIOUS
    <3> HIDE DEF W
    <3>5. CASE Wanted(id)
      <4>1. id \in WantedOf(EventsRead)
        BY <3>1, <3>5 DEF WantedOf
      <4>2. PICK k \in DOMAIN IdsInFiles : \A j \in DOMAIN IdsInFiles : id \in IdsInFiles[j] <=> j = k
        BY <2>3, <4>1, InJustOne
      <4>3. k \in DOMAIN closed /\ \A j \in DOMAIN closed : id \in IdsOf(closed[j]) <=> j = k
        BY <2>4, <4>2
      <4>4. PICK e \in EventEntries(closed[k]) : e.id = id
        BY <4>3 DEF IdsOf
      <4>5. e \in closed[k].index /\ OnceIn(closed[k])
        BY <2>1, <4>3, <4>4 DEF EventEntries, TogetherInv
      <4>6. W = {<<k, e>>}
        <5>1. <<k, e>> \in W
          BY <3>4, <4>3, <4>4, <4>5
        <5>2. ASSUME NEW w \in W PROVE w = <<k, e>>
          <6>1. w[1] = k
            BY <3>2, <3>3, <4>3
          <6>2. w[2] = e
            BY <3>2, <3>3, <4>3, <4>4, <4>5, <6>1 DEF OnceIn
          <6> QED BY <3>3, <6>1, <6>2
        <5> QED BY <5>1, <5>2
      <4>7. Cardinality(W) = 1
        BY <4>6, FS_Singleton
      <4>8. Cardinality(W) = IF job.dropAllEvents \/ id \notin job.selected THEN 0 ELSE 1
        BY <3>5, <4>7 DEF Wanted
      <4>9. id \in EventsRead \cap job.selected
        BY <3>1, <3>5 DEF Wanted
      <4>10. PICK m \in DOMAIN EventsInFiles :
               \A j \in DOMAIN EventsInFiles : id \in EventsInFiles[j] <=> j = m
        BY <2>3, <4>9, InJustOne
      <4>11. /\ m \in DOMAIN closed
             /\ \A j \in DOMAIN closed : id \in closed[j].results.events <=> j = m
        BY <2>4, <4>10
      <4>12. id \in IdsOf(closed[m])
        BY <2>1, <3>5, <4>11 DEF TogetherInv, Wanted
      <4>13. \E x \in closed[m].index : x.id = id
        BY <4>12 DEF IdsOf, EventEntries
      <4> QED BY <4>8, <4>11, <4>13 DEF W
    <3>6. CASE ~ Wanted(id)
      <4>1. \A k \in DOMAIN closed : id \notin IdsOf(closed[k])
        <5>1. id \notin WantedOf(EventsRead)
          BY <3>6 DEF WantedOf
        <5> QED BY <2>3, <2>4, <5>1, InJustOne
      <4>2. W = {}
        BY <3>2, <3>3, <4>1
      <4>3. Cardinality(W) = IF job.dropAllEvents \/ id \notin job.selected THEN 0 ELSE 1
        BY <3>6, <4>2, FS_EmptySet DEF Wanted
      <4>4. ASSUME id \in job.selected
            PROVE  job.dropAllEvents /\ \E k \in DOMAIN closed :
                     \A j \in DOMAIN closed : id \in closed[j].results.events <=> j = k
        <5>1. id \in EventsRead \cap job.selected /\ job.dropAllEvents
          BY <3>1, <3>6, <4>4 DEF Wanted
        <5>2. PICK m \in DOMAIN EventsInFiles :
                \A j \in DOMAIN EventsInFiles : id \in EventsInFiles[j] <=> j = m
          BY <2>3, <5>1, InJustOne
        <5> QED BY <2>4, <5>1, <5>2
      <4> QED BY <4>3, <4>4 DEF W
    <3> QED BY <3>5, <3>6
  <2>6. ASSUME NEW i \in DOMAIN job.inputs, job.inputs[i].entries # <<>>
        PROVE  \E k \in DOMAIN closed : \A j \in DOMAIN closed :
                 i \in closed[j].results.inputs <=> j = k
    <3>1. i \in 1..input /\ input # 0
      <4>1. i \in 1..input /\ input \in Nat
        BY <2>1, <2>6, AllReadWhenDone, JobType DEF TypesInv, LoopTypes
      <4> QED BY <4>1
    <3>2. i \notin results.inputs
      <4>1. SUFFICES ASSUME i \in results.inputs PROVE FALSE
        OBVIOUS
      <4>2. i = input /\ at = 0
        BY <2>1, <2>2, <2>6, <4>1 DEF TogetherInv
      <4>3. file.entries \in Seq(ID) /\ at = Len(file.entries)
        BY <2>1, <2>2, <3>1, CurrentInput DEF TypesInv
      <4> QED BY <2>6, <4>2, <4>3 DEF file
    <3>3. PICK m \in DOMAIN InputsInFiles :
            \A j \in DOMAIN InputsInFiles : i \in InputsInFiles[j] <=> j = m
      BY <2>3, <3>1, <3>2, InJustOne
    <3> QED BY <2>4, <3>3
  <2> QED BY <2>5, <2>6 DEF EachEventWrittenOnce
<1> QED BY <1>1, <1>2, PTL

-----------------------------------------------------------------------------
(***************************************************************************)
(* Accounts.  Each file that is closed tells of itself: its index has the  *)
(* subrun and the run of each event, the counts and the metadata agree     *)
(* with it, and it gives range sets.                                       *)
(***************************************************************************)
Ids(o)       == {e.id : e \in o.index}
OfType(o, t) == {e \in o.index : EntryType(e.id) = t}

(* The run and the subrun that are still to be written. *)
Due == (IF "Run" \in owed THEN {run} ELSE {}) \cup (IF "SubRun" \in owed THEN {subRun} ELSE {})

(* What is processed is in the run and the subrun being processed. *)
PlaceInv ==
  /\ phase = "Items" /\ at # 0 =>
       /\ RunOf(file.entries[at]) = run
       /\ EntryType(file.entries[at]) # "Run" => SubRunOf(file.entries[at]) = subRun
  /\ \A id \in inFlight : SubRunOf(id) = subRun
  /\ "SubRun" \in owed => owed = {"Run", "SubRun"} /\ EntryType(subRun) = "SubRun" /\ RunOf(subRun) = run
  /\ EntryType(run) = "Run"

(* Each entry of an index has its run and its subrun in ids. *)
NestedIn(o, ids) ==
  \A id \in Ids(o) : /\ EntryType(id) # "Run" => RunOf(id) \in ids
                     /\ EntryType(id) = "Event" => id.subRun # 0 /\ SubRunOf(id) \in ids

(* The entries of an index are counted, and numbered by type. *)
Counted(o, type, n) ==
  /\ IsFiniteSet(OfType(o, type)) /\ n = Cardinality(OfType(o, type))
  /\ \A e \in OfType(o, type) : e.row <= n

AllCounted(o) == Counted(o, "Run", o.runs) /\ Counted(o, "SubRun", o.subRuns) /\ Counted(o, "Event", o.events)

(* Statistics s are those of the events and subruns of a file. *)
EventsAsIn(o, s) ==
  /\ s.events = Cardinality(OfType(o, "Event"))
  /\ \A e \in OfType(o, "Event") :
       /\ s.lowest \in Ids(o) /\ EntryType(s.lowest) = "Event" /\ ~ Before(e.id, s.lowest)
       /\ s.highest \in Ids(o) /\ EntryType(s.highest) = "Event" /\ ~ Before(s.highest, e.id)
SubRunsAsIn(o, s) == s.subRuns = {e.id : e \in OfType(o, "SubRun")}
ParentsAsIn(o, s) ==
  \A e \in OfType(o, "Event") : \E i \in s.parents : i \in DOMAIN job.inputs /\ e.id \in EventsOf(job.inputs[i])

AccountsOf(o, s, ids) ==
  /\ NestedIn(o, ids) /\ AllCounted(o)
  /\ EventsAsIn(o, s) /\ SubRunsAsIn(o, s) /\ ParentsAsIn(o, s)

OpenInv ==
  \A o \in Open : /\ AccountsOf(o, fstats, Ids(o) \cup Due)
                  /\ input \in fstats.parents
                  /\ job.dropAllEvents => OfType(o, "Event") = {}

CompletedInv ==
  \A k \in DOMAIN closed : /\ AccountsOf(closed[k], closed[k].metadata, Ids(closed[k]))
                           /\ ClonesOnly(closed[k]) => closed[k].treeEntries = closed[k].events

CompleteInv == IndexInv /\ PlaceInv /\ OpenInv /\ CompletedInv

-----------------------------------------------------------------------------
(* The index as it is written, an entry in each place. *)
Precedes(x, e)  == Before(x.id, e.id) \/ (x.id = e.id /\ x.row < e.row)
Preceding(o, e) == {x \in o.index : Precedes(x, e)}
Place(o, e)     == Cardinality(Preceding(o, e))

LEMMA EntriesInOrder ==
  ASSUME NEW x \in Entry, NEW y \in Entry, NEW z \in Entry
  PROVE  /\ ~ Precedes(x, x)
         /\ Precedes(x, y) /\ Precedes(y, z) => Precedes(x, z)
         /\ Precedes(x, y) \/ Precedes(y, x) \/ x = y
         /\ Precedes(x, y) => ~ Before(y.id, x.id)
<1>1. /\ x.id \in ID /\ y.id \in ID /\ z.id \in ID
      /\ x.row \in Nat /\ y.row \in Nat /\ z.row \in Nat
      /\ (x.id = y.id /\ x.row = y.row => x = y)
  BY DEF Entry
<1>2. \A a, b, c \in ID : /\ ~ Before(a, a) /\ (Before(a, b) /\ Before(b, c) => Before(a, c))
                          /\ Before(a, b) \/ Before(b, a) \/ a = b
                          /\ Before(a, b) => ~ Before(b, a)
  BY DEF Before, ID
<1>3. ~ Precedes(x, x)
  BY <1>1, <1>2 DEF Precedes
<1>4. Precedes(x, y) /\ Precedes(y, z) => Precedes(x, z)
  <2> DEFINE a == x.id  b == y.id  c == z.id  k == x.row  m == y.row  n == z.row
  <2>1. (k < m /\ m < n => k < n) /\ (Before(a, b) /\ Before(b, c) => Before(a, c))
    BY <1>1, <1>2
  <2> QED BY <2>1 DEF Precedes
<1>5. Precedes(x, y) \/ Precedes(y, x) \/ x = y
  <2>1. Before(x.id, y.id) \/ Before(y.id, x.id) \/ x.id = y.id
    BY <1>1, <1>2
  <2>2. x.row < y.row \/ y.row < x.row \/ x.row = y.row
    BY <1>1
  <2> QED BY <1>1, <2>1, <2>2 DEF Precedes
<1>6. Precedes(x, y) => ~ Before(y.id, x.id)
  BY <1>1, <1>2 DEF Precedes
<1> QED BY <1>3, <1>4, <1>5, <1>6

LEMMA PlacesInOrder ==
  ASSUME NEW o, o.index \subseteq Entry, IsFiniteSet(o.index), NEW x \in o.index, NEW y \in o.index
  PROVE  /\ Place(o, y) \in 0..(Cardinality(o.index) - 1)
         /\ Precedes(x, y) <=> Place(o, x) < Place(o, y)
         /\ Place(o, x) = Place(o, y) => x = y
<1>1. ASSUME NEW e \in o.index
      PROVE  /\ IsFiniteSet(Preceding(o, e)) /\ e \notin Preceding(o, e)
             /\ Place(o, e) \in 0..(Cardinality(o.index) - 1)
  <2>1. e \notin Preceding(o, e)
    BY EntriesInOrder DEF Preceding
  <2>2. /\ IsFiniteSet(o.index \ {e}) /\ Cardinality(o.index \ {e}) = Cardinality(o.index) - 1
    BY FS_RemoveElement
  <2>3. Preceding(o, e) \in SUBSET (o.index \ {e})
    BY <2>1 DEF Preceding
  <2>4. IsFiniteSet(Preceding(o, e)) /\ Place(o, e) <= Cardinality(o.index \ {e})
    BY <2>2, <2>3, FS_Subset DEF Place
  <2>5. Place(o, e) \in Nat /\ Cardinality(o.index) \in Nat
    BY <2>4, FS_CardinalityType DEF Place
  <2> QED BY <2>1, <2>2, <2>4, <2>5
<1>2. ASSUME NEW e \in o.index, NEW g \in o.index, Precedes(e, g) PROVE Place(o, e) < Place(o, g)
  <2> DEFINE S == Preceding(o, e)
  <2>1. \A z \in o.index : Precedes(z, e) => Precedes(z, g)
    BY <1>2, EntriesInOrder
  <2>2. S \cup {e} \in SUBSET Preceding(o, g)
    BY <1>2, <2>1 DEF Preceding
  <2>3. IsFiniteSet(S) /\ e \notin S /\ IsFiniteSet(Preceding(o, g))
    BY <1>1
  <2>4. Cardinality(S \cup {e}) = Cardinality(S) + 1
    <3> HIDE DEF S
    <3> QED BY <2>3, FS_AddElement
  <2>5. Cardinality(S \cup {e}) <= Cardinality(Preceding(o, g))
    <3> HIDE DEF S
    <3> QED BY <2>2, <2>3, FS_Subset
  <2>6. Place(o, e) \in Int /\ Place(o, g) \in Int
    BY <1>1
  <2>7. Place(o, e) + 1 <= Place(o, g)
    BY <2>4, <2>5 DEF Place
  <2> QED BY <2>6, <2>7
<1>3. Precedes(x, y) \/ Precedes(y, x) \/ x = y
  BY EntriesInOrder
<1>4. Place(o, x) \in Int /\ Place(o, y) \in Int /\ Place(o, y) \in 0..(Cardinality(o.index) - 1)
  BY <1>1
<1>5. Precedes(x, y) <=> Place(o, x) < Place(o, y)
  BY <1>2, <1>3, <1>4
<1>6. Place(o, x) = Place(o, y) => x = y
  BY <1>2, <1>3, <1>4
<1> QED BY <1>4, <1>5, <1>6

(* As many places as entries, and no two entries in one place: each place  *)
(* is taken.                                                               *)
LEMMA PlacesTaken ==
  ASSUME NEW o, o.index \subseteq Entry, IsFiniteSet(o.index)
  PROVE  \A n \in 0..(Cardinality(o.index) - 1) : \E e \in o.index : Place(o, e) = n
<1> DEFINE N == 0..(Cardinality(o.index) - 1)
           f == [e \in o.index |-> Place(o, e)]
<1>1. Cardinality(o.index) \in Nat
  BY FS_CardinalityType
<1>2. IsFiniteSet(N) /\ Cardinality(N) = Cardinality(o.index)
  <2>1. 0 \in Int /\ Cardinality(o.index) - 1 \in Int
    BY <1>1
  <2>2. IsFiniteSet(N) /\ Cardinality(N) = IF 0 > Cardinality(o.index) - 1 THEN 0 ELSE Cardinality(o.index) - 1 - 0 + 1
    BY <2>1, FS_Interval
  <2> HIDE DEF N
  <2> QED BY <1>1, <2>2
<1>3. f \in Injection(o.index, N)
  <2>1. \A e \in o.index : f[e] \in N
    BY PlacesInOrder
  <2>2. \A e, g \in o.index : f[e] = f[g] => e = g
    BY PlacesInOrder
  <2> HIDE DEF N
  <2>3. f \in [o.index -> N]
    BY <2>1
  <2> HIDE DEF f
  <2> QED BY <2>2, <2>3 DEF Injection, IsInjective
<1>4. f \in Surjection(o.index, N)
  <2> HIDE DEF f, N
  <2> QED BY <1>2, <1>3, FS_Injection
<1>5. \A n \in N : \E e \in o.index : f[e] = n
  <2> HIDE DEF f, N
  <2> QED BY <1>4 DEF Surjection
<1> QED BY <1>5

LEMMA IndexWritten ==
  ASSUME NEW o, o.index \subseteq Entry, IsFiniteSet(o.index)
  PROVE  LET ix == FileIndexOf(o) IN
         /\ ix \in Seq(ID)
         /\ \A p \in DOMAIN ix : \E e \in o.index : Place(o, e) = p - 1 /\ ix[p] = e.id
         /\ \A e \in o.index : Place(o, e) + 1 \in DOMAIN ix /\ ix[Place(o, e) + 1] = e.id
<1> DEFINE ix == FileIndexOf(o)
           n == Cardinality(o.index)
           At(p) == CHOOSE e \in o.index : Place(o, e) = p - 1
<1>1. n \in Nat
  BY FS_CardinalityType
<1>2. ix = [p \in 1..n |-> At(p).id]
  BY DEF FileIndexOf, Place, Preceding, Precedes
<1>3. ASSUME NEW p \in 1..n PROVE At(p) \in o.index /\ Place(o, At(p)) = p - 1
  <2>1. p - 1 \in 0..(n - 1)
    BY <1>1
  <2> HIDE DEF n
  <2>2. \E e \in o.index : Place(o, e) = p - 1
    BY <2>1, PlacesTaken DEF n
  <2> QED BY <2>2
<1> HIDE DEF At, ix
<1>4. \A p \in 1..n : ix[p] \in ID
  BY <1>2, <1>3 DEF Entry
<1>5. ix \in Seq(ID) /\ DOMAIN ix = 1..n
  <2> HIDE DEF n
  <2> QED BY <1>1, <1>2, <1>4
<1>6. ASSUME NEW e \in o.index PROVE Place(o, e) + 1 \in 1..n /\ ix[Place(o, e) + 1] = e.id
  <2>1. Place(o, e) \in 0..(n - 1)
    BY PlacesInOrder
  <2> DEFINE p == Place(o, e) + 1
  <2>2. p \in 1..n /\ p - 1 = Place(o, e)
    BY <1>1, <2>1
  <2> HIDE DEF p
  <2>3. At(p) \in o.index /\ Place(o, At(p)) = Place(o, e)
    BY <1>3, <2>2
  <2>4. At(p) = e
    BY <2>3, PlacesInOrder
  <2> QED BY <1>2, <2>2, <2>4 DEF p
<1> QED BY <1>2, <1>3, <1>5, <1>6 DEF ix

(* Sorted and nested, as reading it takes for granted. *)
LEMMA IndexIsReadable ==
  ASSUME NEW o, o.index \subseteq Entry, IsFiniteSet(o.index), NestedIn(o, Ids(o))
  PROVE  FileIndexOf(o) \in Seq(ID) /\ Sorted(FileIndexOf(o)) /\ Nested(FileIndexOf(o))
<1> DEFINE ix == FileIndexOf(o)
<1>1. /\ ix \in Seq(ID)
      /\ \A p \in DOMAIN ix : \E e \in o.index : Place(o, e) = p - 1 /\ ix[p] = e.id
      /\ \A e \in o.index : Place(o, e) + 1 \in DOMAIN ix /\ ix[Place(o, e) + 1] = e.id
  BY IndexWritten
<1> HIDE DEF ix
<1>2. \A p \in DOMAIN ix : p \in Nat \ {0}
  BY <1>1
<1>3. Sorted(ix)
  <2>1. SUFFICES ASSUME NEW p \in DOMAIN ix, NEW q \in DOMAIN ix, p < q PROVE ~ Before(ix[q], ix[p])
    BY DEF Sorted
  <2>2. PICK e \in o.index : Place(o, e) = p - 1 /\ ix[p] = e.id
    BY <1>1
  <2>3. PICK g \in o.index : Place(o, g) = q - 1 /\ ix[q] = g.id
    BY <1>1
  <2>4. Place(o, e) < Place(o, g)
    BY <1>2, <2>1, <2>2, <2>3
  <2>5. Precedes(e, g)
    BY <2>4, PlacesInOrder
  <2>6. e \in Entry /\ g \in Entry
    OBVIOUS
  <2> QED BY <2>2, <2>3, <2>5, <2>6, EntriesInOrder
<1>4. ASSUME NEW p \in DOMAIN ix, NEW id \in Ids(o), Before(id, ix[p]) PROVE \E q \in 1..(p - 1) : ix[q] = id
  <2>1. PICK e \in o.index : Place(o, e) = p - 1 /\ ix[p] = e.id
    BY <1>1
  <2>2. PICK g \in o.index : g.id = id
    BY DEF Ids
  <2>3. Place(o, g) < Place(o, e)
    BY <1>4, <2>1, <2>2, PlacesInOrder DEF Precedes
  <2>4. Place(o, g) + 1 \in DOMAIN ix /\ ix[Place(o, g) + 1] = id
    BY <1>1, <2>2
  <2>5. Place(o, g) \in Int /\ Place(o, g) \in 0..(Cardinality(o.index) - 1)
    BY PlacesInOrder
  <2>6. Place(o, g) + 1 \in 1..(p - 1)
    BY <1>2, <2>1, <2>3, <2>4, <2>5
  <2> QED BY <2>4, <2>6
<1>5. ASSUME NEW p \in DOMAIN ix
      PROVE  /\ EntryType(ix[p]) # "Run"  => \E q \in 1..(p - 1) : ix[q] = RunOf(ix[p])
             /\ EntryType(ix[p]) = "Event" => /\ ix[p].subRun # 0
                                              /\ \E q \in 1..(p - 1) : ix[q] = SubRunOf(ix[p])
  <2>1. ix[p] \in ID /\ ix[p] \in Ids(o)
    BY <1>1 DEF Ids
  <2>2. EntryType(ix[p]) # "Run" => Before(RunOf(ix[p]), ix[p])
    BY <2>1 DEF EntryType, Before, RunOf, RunEntry, ID
  <2>3. EntryType(ix[p]) = "Event" => Before(SubRunOf(ix[p]), ix[p])
    BY <2>1 DEF EntryType, Before, SubRunOf, SubRunEntry, ID
  <2>4. /\ EntryType(ix[p]) # "Run" => RunOf(ix[p]) \in Ids(o)
        /\ EntryType(ix[p]) = "Event" => ix[p].subRun # 0 /\ SubRunOf(ix[p]) \in Ids(o)
    BY <2>1 DEF NestedIn
  <2> QED BY <1>4, <2>2, <2>3, <2>4
<1>6. Nested(ix)
  BY <1>5 DEF Nested
<1> QED BY <1>1, <1>3, <1>6 DEF ix

(* The searches find the range set of each run in an index that has the   *)
(* runs and subruns of its entries.                                        *)
LEMMA RangeSetsFound ==
  ASSUME NEW o, o.index \subseteq Entry, IsFiniteSet(o.index), NestedIn(o, Ids(o))
  PROVE  HasRangeSets(o)
<1> DEFINE ix == FileIndexOf(o)
<1>1. ix \in Seq(ID) /\ Sorted(ix) /\ Nested(ix)
  BY IndexIsReadable
<1> HIDE DEF ix
<1>2. ASSUME NEW p \in DOMAIN ix, NEW r, r = RunOf(ix[p])
      PROVE  /\ OfRun(ix, r, FALSE) = EventsOfRun(ix, r)
             /\ EventsOfRun(ix, r) \subseteq OfRun(ix, r, TRUE)
             /\ \A id \in OfRun(ix, r, TRUE) : \E a, b \in EventsOfRun(ix, r) :
                  SubRunOf(a) = SubRunOf(id) /\ ~ Before(id, a) /\ ~ Before(b, id)
  <2>1. ix[p] \in ID
    BY <1>1
  <2>2. r \in ID /\ RunOf(r) = r
    BY <1>2, <2>1 DEF RunOf, RunEntry, ID
  <2> QED BY <1>1, <2>2, EventsOfRunFound
<1>3. \A r : EventsOfRun(ix, r) = {ix[p] : p \in {p \in Events(ix) : RunOf(ix[p]) = r}}
  BY DEF EventsOfRun
<1>4. \A p \in DOMAIN ix : LET r == RunOf(ix[p]) IN
        /\ OfRun(ix, r, FALSE) = EventsOfRun(ix, r)
        /\ EventsOfRun(ix, r) \subseteq OfRun(ix, r, TRUE)
        /\ \A id \in OfRun(ix, r, TRUE) : \E a, b \in EventsOfRun(ix, r) :
             SubRunOf(a) = SubRunOf(id) /\ ~ Before(id, a) /\ ~ Before(b, id)
  BY <1>2
<1> QED BY <1>3, <1>4, ZenonT(60) DEF HasRangeSets, ix

(* What CompleteInv says of a file when it is closed is what the property  *)
(* asks of it.                                                             *)
LEMMA AccountsComplete ==
  ASSUME NEW o, IsOutput(o), AccountsOf(o, o.metadata, Ids(o)),
         ClonesOnly(o) => o.treeEntries = o.events
  PROVE  /\ IsNested(o) /\ IsAsInMetadata(o) /\ HasRangeSets(o)
         /\ ClonesOnly(o) => IsCounted(o)
<1>1. o.index \subseteq Entry
  BY DEF IsOutput
<1>2. IsFiniteSet(o.index)
  <2>1. o.index = (OfType(o, "Run") \cup OfType(o, "SubRun")) \cup OfType(o, "Event")
    BY EntryTypes DEF OfType
  <2>2. IsFiniteSet(OfType(o, "Run")) /\ IsFiniteSet(OfType(o, "SubRun")) /\ IsFiniteSet(OfType(o, "Event"))
    BY DEF AccountsOf, AllCounted, Counted
  <2>3. IsFiniteSet(OfType(o, "Run") \cup OfType(o, "SubRun"))
    BY <2>2, FS_Union
  <2>4. IsFiniteSet((OfType(o, "Run") \cup OfType(o, "SubRun")) \cup OfType(o, "Event"))
    BY <2>2, <2>3, FS_Union
  <2> QED BY <2>1, <2>4
<1>3. HasRangeSets(o)
  BY <1>1, <1>2, RangeSetsFound DEF AccountsOf
<1>4. IsNested(o)
  BY DEF IsNested, AccountsOf, NestedIn, Ids
<1>5. EventEntries(o) = OfType(o, "Event")
  BY DEF EventEntries, OfType
<1>6. IsAsInMetadata(o)
  <2> DEFINE events == {e.id : e \in EventEntries(o)}
  <2>1. \A id : id \in events <=> id \in Ids(o) /\ EntryType(id) = "Event"
    BY DEF Ids, EventEntries
  <2>2. ASSUME events # {} PROVE {o.metadata.lowest, o.metadata.highest} \subseteq events
    <3>1. PICK e \in OfType(o, "Event") : TRUE
      BY <1>5, <2>2
    <3>2. /\ o.metadata.lowest \in Ids(o) /\ EntryType(o.metadata.lowest) = "Event"
          /\ o.metadata.highest \in Ids(o) /\ EntryType(o.metadata.highest) = "Event"
      BY <3>1 DEF AccountsOf, EventsAsIn
    <3> HIDE DEF events
    <3> QED BY <2>1, <3>2
  <2>3. \A id \in events : ~ Before(id, o.metadata.lowest) /\ ~ Before(o.metadata.highest, id)
    BY <1>5 DEF AccountsOf, EventsAsIn
  <2>4. o.metadata.subRuns = {e.id : e \in {e \in o.index : EntryType(e.id) = "SubRun"}}
    BY DEF AccountsOf, SubRunsAsIn, OfType
  <2>5. \A id \in events : \E i \in o.metadata.parents \cap DOMAIN job.inputs : id \in EventsOf(job.inputs[i])
    BY <1>5 DEF AccountsOf, ParentsAsIn
  <2>6. o.metadata.events = Cardinality(EventEntries(o))
    BY <1>5 DEF AccountsOf, EventsAsIn
  <2> QED BY <2>2, <2>3, <2>4, <2>5, <2>6 DEF IsAsInMetadata
<1>7. ASSUME ClonesOnly(o) PROVE IsCounted(o)
  <2>1. /\ o.runs = Cardinality(OfType(o, "Run")) /\ o.subRuns = Cardinality(OfType(o, "SubRun"))
        /\ o.treeEntries = Cardinality(OfType(o, "Event"))
    BY <1>7 DEF AccountsOf, AllCounted, Counted
  <2> QED BY <2>1 DEF IsCounted, CountEvents, OfType
<1> QED BY <1>3, <1>4, <1>6, <1>7

-----------------------------------------------------------------------------
(* Accounts that stay the same. *)
LEMMA AccountsSame ==
  ASSUME NEW o, NEW r, NEW s, NEW t, NEW ids, NEW more, SameAccounts(r, o),
         t.events = s.events, t.lowest = s.lowest, t.highest = s.highest, t.subRuns = s.subRuns,
         s.parents \subseteq t.parents, NestedIn(o, ids) => NestedIn(o, more),
         AccountsOf(o, s, ids)
  PROVE  AccountsOf(r, t, more) /\ Ids(r) = Ids(o) /\ \A type : OfType(r, type) = OfType(o, type)
<1>1. Ids(r) = Ids(o) /\ \A type : OfType(r, type) = OfType(o, type)
  BY DEF Ids, OfType, SameAccounts
<1>2. NestedIn(r, more)
  BY <1>1 DEF AccountsOf, NestedIn
<1>3. AllCounted(r)
  BY <1>1 DEF AccountsOf, AllCounted, Counted, SameAccounts
<1>4. EventsAsIn(r, t) /\ SubRunsAsIn(r, t)
  BY <1>1 DEF AccountsOf, EventsAsIn, SubRunsAsIn
<1>5. ParentsAsIn(r, t)
  BY <1>1 DEF AccountsOf, ParentsAsIn
<1> QED BY <1>1, <1>2, <1>3, <1>4, <1>5 DEF AccountsOf

(* One entry more. *)
LEMMA OneEntryMore ==
  ASSUME NEW o, o.index \subseteq Entry, NEW r, NEW id \in ID, NEW type, NEW n \in Nat, type = EntryType(id),
         Counted(o, type, n), r.index = o.index \cup {[id |-> id, row |-> n + 1]}
  PROVE  /\ Counted(r, type, n + 1)
         /\ OfType(r, type) = OfType(o, type) \cup {[id |-> id, row |-> n + 1]}
         /\ Ids(r) = Ids(o) \cup {id}
         /\ \A other : other # type => OfType(r, other) = OfType(o, other)
<1> DEFINE e == [id |-> id, row |-> n + 1]
<1>1. e.id = id /\ e.row = n + 1 /\ r.index = o.index \cup {e}
  OBVIOUS
<1> HIDE DEF e
<1>2. OfType(r, type) = OfType(o, type) \cup {e}
  BY <1>1 DEF OfType
<1>3. \A other : other # type => OfType(r, other) = OfType(o, other)
  BY <1>1 DEF OfType
<1>4. Ids(r) = Ids(o) \cup {id}
  BY <1>1 DEF Ids
<1>5. \A d \in OfType(o, type) : d.row \in Nat /\ d.row <= n
  BY DEF Counted, OfType, Entry
<1>6. e \notin OfType(o, type)
  BY <1>1, <1>5
<1>7. IsFiniteSet(OfType(o, type)) /\ Cardinality(OfType(o, type)) = n
  BY DEF Counted
<1>8. IsFiniteSet(OfType(o, type) \cup {e}) /\ Cardinality(OfType(o, type) \cup {e}) = n + 1
  BY <1>6, <1>7, FS_AddElement
<1>9. \A d \in OfType(o, type) \cup {e} : d.row <= n + 1
  BY <1>1, <1>5
<1>10. Counted(r, type, n + 1)
  BY <1>2, <1>8, <1>9 DEF Counted
<1> QED BY <1>2, <1>3, <1>4, <1>10 DEF e

(* The statistics after one event more. *)
LEMMA EventRecorded ==
  ASSUME NEW o, o.index \subseteq Entry, NEW r, NEW id \in ID, EntryType(id) = "Event", NEW n \in Nat,
         NEW s \in Stats, EventsAsIn(o, s), Counted(o, "Event", n),
         r.index = o.index \cup {[id |-> id, row |-> n + 1]}
  PROVE  LET t == RecordEvent(s, id) IN
         EventsAsIn(r, t) /\ t.subRuns = s.subRuns /\ t.parents = s.parents
<1> DEFINE t == RecordEvent(s, id)
           e == [id |-> id, row |-> n + 1]
<1>1. /\ t.events = s.events + 1 /\ t.subRuns = s.subRuns /\ t.parents = s.parents
      /\ t.lowest = (IF s.events = 0 \/ Before(id, s.lowest) THEN id ELSE s.lowest)
      /\ t.highest = (IF s.events = 0 \/ Before(s.highest, id) THEN id ELSE s.highest)
  BY DEF RecordEvent, Stats
<1>2. e.id = id
  OBVIOUS
<1>3. /\ Counted(r, "Event", n + 1) /\ OfType(r, "Event") = OfType(o, "Event") \cup {e}
      /\ Ids(r) = Ids(o) \cup {id}
  BY OneEntryMore
<1>4. s.events \in Nat /\ s.lowest \in ID /\ s.highest \in ID
  BY DEF Stats
<1> HIDE DEF t, e
<1>5. s.events = n /\ t.events = Cardinality(OfType(r, "Event"))
  BY <1>1, <1>3 DEF EventsAsIn, Counted
<1>6. s.events = 0 => OfType(o, "Event") = {}
  BY FS_EmptySet DEF Counted, EventsAsIn
<1>7. \A a, b, c \in ID : /\ ~ Before(a, a) /\ (Before(a, b) => ~ Before(b, a))
                          /\ (Before(a, b) /\ Before(b, c) => Before(a, c))
                          /\ Before(a, b) \/ Before(b, a) \/ a = b
  BY DEF Before, ID
<1>8. ASSUME NEW d \in OfType(r, "Event")
      PROVE  /\ t.lowest \in Ids(r) /\ EntryType(t.lowest) = "Event" /\ ~ Before(d.id, t.lowest)
             /\ t.highest \in Ids(r) /\ EntryType(t.highest) = "Event" /\ ~ Before(t.highest, d.id)
  <2>1. CASE s.events = 0
    <3>1. d.id = id /\ t.lowest = id /\ t.highest = id
      BY <1>1, <1>2, <1>3, <1>6, <2>1
    <3> QED BY <1>3, <1>7, <3>1
  <2>2. CASE s.events # 0
    <3>1. OfType(o, "Event") # {}
      BY <2>2, FS_EmptySet DEF EventsAsIn
    <3>2. /\ s.lowest \in Ids(o) /\ EntryType(s.lowest) = "Event"
          /\ s.highest \in Ids(o) /\ EntryType(s.highest) = "Event"
      BY <3>1 DEF EventsAsIn
    <3>3. d.id = id \/ (~ Before(d.id, s.lowest) /\ ~ Before(s.highest, d.id))
      BY <1>2, <1>3 DEF EventsAsIn
    <3>4. d.id \in ID
      BY <1>2, <1>3 DEF OfType, Entry
    <3>5. t.lowest = (IF Before(id, s.lowest) THEN id ELSE s.lowest)
      BY <1>1, <2>2
    <3>6. t.highest = (IF Before(s.highest, id) THEN id ELSE s.highest)
      BY <1>1, <2>2
    <3>7. ~ Before(d.id, t.lowest)
      BY <1>4, <1>7, <3>3, <3>4, <3>5
    <3>8. ~ Before(t.highest, d.id)
      BY <1>4, <1>7, <3>3, <3>4, <3>6
    <3>9. t.lowest \in {id, s.lowest} /\ t.highest \in {id, s.highest}
      BY <3>5, <3>6
    <3> QED BY <1>3, <3>2, <3>7, <3>8, <3>9
  <2> QED BY <2>1, <2>2
<1>9. EventsAsIn(r, t)
  BY <1>5, <1>8 DEF EventsAsIn
<1> QED BY <1>1, <1>9 DEF t

-----------------------------------------------------------------------------
(* The accounts after a step. *)
LEMMA AccountsOfJob ==
  ASSUME job' = job
  PROVE  \A o, s, ids : AccountsOf(o, s, ids)' <=> AccountsOf(o, s, ids)
<1>1. \A o, s : ParentsAsIn(o, s)' <=> ParentsAsIn(o, s)
  BY DEF ParentsAsIn
<1> QED BY <1>1 DEF AccountsOf, ParentsAsIn

LEMMA OpenAfter ==
  ASSUME job' = job,
         out'.open => /\ AccountsOf(out', fstats', Ids(out') \cup Due') /\ input' \in fstats'.parents
                      /\ job.dropAllEvents => OfType(out', "Event") = {}
  PROVE  OpenInv'
<1>1. \A o \in Open' : o = out' /\ out'.open
  BY DEF Open
<1>2. \A o, s, ids : AccountsOf(o, s, ids)' <=> AccountsOf(o, s, ids)
  BY AccountsOfJob
<1>3. ASSUME NEW o \in Open'
      PROVE  /\ AccountsOf(o, fstats', Ids(o) \cup Due') /\ input' \in fstats'.parents
             /\ job'.dropAllEvents => OfType(o, "Event") = {}
  BY <1>1
<1> QED BY <1>2, <1>3 DEF OpenInv

LEMMA OpenAccounts ==
  ASSUME OpenInv, out.open
  PROVE  /\ AccountsOf(out, fstats, Ids(out) \cup Due) /\ input \in fstats.parents
         /\ job.dropAllEvents => OfType(out, "Event") = {}
BY DEF OpenInv, Open

(* A step that writes no entry. *)
LEMMA OpenKept ==
  ASSUME OpenInv, out.open, job' = job, SameAccounts(out', out),
         fstats'.events = fstats.events, fstats'.lowest = fstats.lowest, fstats'.highest = fstats.highest,
         fstats'.subRuns = fstats.subRuns, fstats.parents \subseteq fstats'.parents,
         input' \in fstats'.parents,
         NestedIn(out, Ids(out) \cup Due) => NestedIn(out, Ids(out) \cup Due')
  PROVE  OpenInv'
<1>1. /\ AccountsOf(out, fstats, Ids(out) \cup Due)
      /\ job.dropAllEvents => OfType(out, "Event") = {}
  BY OpenAccounts
<1>2. /\ AccountsOf(out', fstats', Ids(out) \cup Due') /\ Ids(out') = Ids(out)
      /\ \A type : OfType(out', type) = OfType(out, type)
  BY <1>1, AccountsSame
<1> QED BY <1>1, <1>2, OpenAfter

LEMMA MoreDue ==
  ASSUME NEW o, NEW ids, NEW more, ids \subseteq more
  PROVE  NestedIn(o, Ids(o) \cup ids) => NestedIn(o, Ids(o) \cup more)
BY DEF NestedIn

LEMMA CompletedKept ==
  ASSUME CompletedInv, job' = job, closed' = closed
  PROVE  CompletedInv'
<1>1. \A o : ClonesOnly(o)' <=> ClonesOnly(o)
  BY JobKept
<1>2. \A o, s, ids : AccountsOf(o, s, ids)' <=> AccountsOf(o, s, ids)
  BY AccountsOfJob
<1>3. ASSUME NEW k \in DOMAIN closed
      PROVE  /\ AccountsOf(closed[k], closed[k].metadata, Ids(closed[k]))
             /\ ClonesOnly(closed[k]) => closed[k].treeEntries = closed[k].events
  BY DEF CompletedInv
<1> QED BY <1>1, <1>2, <1>3 DEF CompletedInv

LEMMA RunIsItsRun ==
  ASSUME NEW id \in ID, EntryType(id) = "Run"
  PROVE  RunOf(id) = id /\ id.subRun = 0
<1>1. id.subRun = 0 /\ id.event = 0
  BY DEF EntryType
<1> QED BY <1>1 DEF RunOf, RunEntry, ID

(* The entry read next is in the run and the subrun of the last.           *)
LEMMA NextInPlace ==
  ASSUME LoopTypes, nextIs # "End"
  PROVE  /\ nextIs # "Run" => at # 0 /\ RunOf(file.entries[at]) = RunOf(next)
         /\ nextIs = "Event" => next.subRun # 0 /\ SubRunOf(file.entries[at]) = SubRunOf(next)
         /\ at # 0 => file.entries[at] \in ID
<1> DEFINE p == at + 1
<1>1. input # 0 /\ p \in DOMAIN file.entries /\ nextIs = EntryType(next) /\ next = file.entries[p]
  BY NextEntry DEF next
<1>2. at \in Nat /\ at \in 0..Len(file.entries) /\ file.entries \in Seq(ID) /\ input \in 1..Len(job.inputs)
  BY <1>1, CurrentInput
<1>3. p - 1 = at
  BY <1>2
<1>4. InTheirSubRun(file.entries)
  <2>1. input \in DOMAIN job.inputs /\ job \in Jobs
    BY <1>2, JobType DEF LoopTypes
  <2> QED BY <2>1, JobsAssumption DEF file
<1> HIDE DEF p
<1>5. /\ EntryType(file.entries[p]) # "Run" => p > 1 /\ RunOf(file.entries[p - 1]) = RunOf(file.entries[p])
      /\ EntryType(file.entries[p]) = "Event" =>
           file.entries[p].subRun # 0 /\ SubRunOf(file.entries[p - 1]) = SubRunOf(file.entries[p])
  BY <1>1, <1>4 DEF InTheirSubRun
<1>6. p > 1 => at # 0
  BY <1>2 DEF p
<1>7. at # 0 => file.entries[at] \in ID
  BY <1>2
<1> QED BY <1>1, <1>3, <1>5, <1>6, <1>7

(* A step that reads nothing and begins nothing. *)
LEMMA PlaceKept ==
  ASSUME PlaceInv, job' = job, input' = input, at' = at, run' = run, subRun' = subRun,
         phase' = "Items" => phase = "Items", inFlight' \subseteq inFlight,
         "SubRun" \in owed' => owed' = owed
  PROVE  PlaceInv'
<1>1. file' = file
  BY FileKept
<1> QED BY <1>1 DEF PlaceInv

LEMMA DueNone ==
  ASSUME owed = {}
  PROVE  Due = {}
BY DEF Due

LEMMA CompleteInit ==
  Init => PlaceInv /\ OpenInv /\ CompletedInv
<1> SUFFICES ASSUME Init PROVE PlaceInv /\ OpenInv /\ CompletedInv
  OBVIOUS
<1>1. /\ phase = "NextFile" /\ inFlight = {} /\ owed = {} /\ run = NoID /\ ~ out.open /\ closed = <<>>
  BY DEF Init, NoOutput
<1>2. EntryType(NoID) = "Run"
  BY DEF NoID, RunEntry, EntryType
<1>3. PlaceInv
  BY <1>1, <1>2 DEF PlaceInv
<1>4. OpenInv /\ CompletedInv
  BY <1>1 DEF OpenInv, CompletedInv, Open
<1> QED BY <1>3, <1>4

LEMMA CompleteAtOpenInput ==
  ASSUME TypesInv, PlaceInv, OpenInv, CompletedInv, OpenInput
  PROVE  PlaceInv' /\ OpenInv' /\ CompletedInv'
<1>1. /\ phase = "NextFile" /\ input < Len(job.inputs) /\ job' = job /\ input' = input + 1 /\ at' = 0
      /\ inFlight' = inFlight /\ closed' = closed /\ owed' = owed /\ run' = run /\ subRun' = subRun
      /\ out' = (IF out.open THEN BeginInputFile(out, input + 1) ELSE out)
      /\ fstats' = (IF out.open THEN [fstats EXCEPT !.parents = @ \cup {input + 1}] ELSE fstats)
  BY DEF OpenInput
<1>2. job \in Jobs /\ input \in Nat /\ Len(job.inputs) \in Nat /\ input + 1 \in 1..Len(job.inputs)
  BY <1>1, JobType DEF TypesInv, LoopTypes
<1>3. owed = {} /\ inFlight = {}
  BY <1>1 DEF TypesInv, LoopInv
<1>4. PlaceInv'
  BY <1>1, <1>3 DEF PlaceInv
<1>5. CompletedInv'
  BY <1>1, CompletedKept
<1>6. CASE out.open
  <2>1. WellFormed(out)
    BY <1>2, <1>6, OpenIsBoolean DEF TypesInv
  <2>2. SameAccounts(out', out)
    BY <1>1, <1>2, <1>6, <2>1, BegunEntries
  <2>3. /\ fstats'.events = fstats.events /\ fstats'.lowest = fstats.lowest
        /\ fstats'.highest = fstats.highest /\ fstats'.subRuns = fstats.subRuns
        /\ fstats.parents \subseteq fstats'.parents /\ input' \in fstats'.parents
    <3>1. fstats \in Stats /\ fstats' = [fstats EXCEPT !.parents = @ \cup {input + 1}]
      BY <1>1, <1>6 DEF TypesInv, LoopTypes
    <3> QED BY <1>1, <3>1 DEF Stats
  <2>4. Due' = {} /\ Due = {}
    BY <1>1, <1>3 DEF Due
  <2> QED BY <1>1, <1>4, <1>5, <1>6, <2>2, <2>3, <2>4, OpenKept
<1>7. CASE ~ out.open
  <2>1. ~ out'.open
    BY <1>1, <1>7
  <2> QED BY <1>1, <1>4, <1>5, <2>1, OpenAfter
<1> QED BY <1>6, <1>7

LEMMA CompleteAtOpenOutput ==
  ASSUME TypesInv, PlaceInv, OpenInv, CompletedInv, OpenOutput
  PROVE  PlaceInv' /\ OpenInv' /\ CompletedInv'
<1>1. /\ phase = "Items" /\ ~ out.open /\ job' = job /\ input' = input /\ at' = at /\ phase' = phase
      /\ inFlight' = inFlight /\ closed' = closed /\ owed' = owed /\ run' = run /\ subRun' = subRun
      /\ out' = BeginInputFile(NewOutputFile, input) /\ fstats' = [NoStats EXCEPT !.parents = {input}]
  BY DEF OpenOutput, loop
<1>2. job \in Jobs /\ input \in 1..Len(job.inputs)
  <2>1. input # 0
    BY <1>1 DEF TypesInv, LoopInv
  <2> QED BY <2>1, CurrentInput DEF TypesInv, LoopTypes
<1>3. PlaceInv' /\ CompletedInv'
  BY <1>1, PlaceKept, CompletedKept
<1>4. SameAccounts(out', NewOutputFile)
  BY <1>1, <1>2, NewFileWellFormed, BegunEntries
<1>5. /\ fstats'.events = 0 /\ fstats'.subRuns = {} /\ input' \in fstats'.parents
  BY <1>1 DEF NoStats
<1>6. out'.index = {} /\ out'.runs = 0 /\ out'.subRuns = 0 /\ out'.events = 0
  BY <1>4 DEF SameAccounts, NewOutputFile
<1>7. Ids(out') = {} /\ \A type : OfType(out', type) = {}
  BY <1>6 DEF Ids, OfType
<1>8. AllCounted(out')
  <2>1. IsFiniteSet({}) /\ Cardinality({}) = 0
    BY FS_EmptySet
  <2> QED BY <1>6, <1>7, <2>1 DEF AllCounted, Counted
<1>9. AccountsOf(out', fstats', Ids(out') \cup Due')
  <2>1. NestedIn(out', Ids(out') \cup Due')
    BY <1>7 DEF NestedIn
  <2>2. EventsAsIn(out', fstats') /\ SubRunsAsIn(out', fstats') /\ ParentsAsIn(out', fstats')
    BY <1>5, <1>7, FS_EmptySet DEF EventsAsIn, SubRunsAsIn, ParentsAsIn
  <2> QED BY <1>8, <2>1, <2>2 DEF AccountsOf
<1> QED BY <1>1, <1>3, <1>5, <1>7, <1>9, OpenAfter

LEMMA CompleteAtBegin ==
  ASSUME TypesInv, PlaceInv, OpenInv, CompletedInv, BeginRun \/ BeginSubRun \/ BeginEvent
  PROVE  PlaceInv' /\ OpenInv' /\ CompletedInv'
<1>1. /\ job' = job /\ input' = input /\ at' = at + 1 /\ phase' = phase /\ out' = out
      /\ fstats' = fstats /\ closed' = closed /\ out.open /\ nextIs # "End"
  BY DEF BeginRun, BeginSubRun, BeginEvent, Ready
<1>2. /\ input # 0 /\ next \in ID /\ nextIs = EntryType(next) /\ at \in Nat
  BY <1>1, NextEntry, CurrentInput DEF TypesInv
<1>3. /\ nextIs # "Run" => at # 0 /\ RunOf(file.entries[at]) = RunOf(next)
      /\ nextIs = "Event" => next.subRun # 0 /\ SubRunOf(file.entries[at]) = SubRunOf(next)
      /\ at # 0 => file.entries[at] \in ID
  BY <1>1, NextInPlace DEF TypesInv
<1>4. file' = file /\ file'.entries[at'] = next
  <2>1. file' = file
    BY <1>1, FileKept
  <2> QED BY <1>1, <2>1 DEF next
<1>5. CompletedInv'
  BY <1>1, CompletedKept
<1>6. ASSUME NEW ids, NEW more, ids = Due, more = Due', ids \subseteq more PROVE OpenInv'
  <2>1. NestedIn(out, Ids(out) \cup Due) => NestedIn(out, Ids(out) \cup Due')
    BY <1>6, MoreDue
  <2>2. SameAccounts(out', out)
    BY <1>1 DEF SameAccounts
  <2>3. input' \in fstats'.parents
    BY <1>1, OpenAccounts
  <2> QED BY <1>1, <2>1, <2>2, <2>3, OpenKept
<1>7. CASE BeginRun
  <2>1. /\ nextIs = "Run" /\ owed = {} /\ run' = next /\ subRun' = subRun /\ owed' = {"Run"}
        /\ inFlight' = inFlight
    BY <1>7 DEF BeginRun
  <2>2. inFlight' = {} /\ Due = {}
    BY <2>1, DueNone DEF TypesInv, LoopInv
  <2>3. RunOf(next) = next /\ EntryType(next) = "Run"
    BY <1>2, <2>1, RunIsItsRun
  <2>4. PlaceInv'
    BY <1>4, <2>1, <2>2, <2>3 DEF PlaceInv
  <2>5. OpenInv'
    BY <1>6, <2>2
  <2> QED BY <1>5, <2>4, <2>5
<1>8. CASE BeginSubRun
  <2>1. /\ nextIs = "SubRun" /\ "SubRun" \notin owed /\ subRun' = next /\ run' = run
        /\ owed' = {"Run", "SubRun"} /\ inFlight' = inFlight /\ phase = "Items"
    BY <1>8 DEF BeginSubRun, Ready
  <2>2. inFlight' = {}
    BY <2>1 DEF TypesInv, LoopInv
  <2>3. RunOf(next) = run /\ SubRunOf(next) = next /\ EntryType(next) = "SubRun"
    BY <1>2, <1>3, <2>1, EntryParts DEF PlaceInv
  <2>4. PlaceInv'
    BY <1>4, <2>1, <2>2, <2>3 DEF PlaceInv
  <2>5. Due \subseteq Due'
    BY <2>1 DEF Due
  <2>6. OpenInv'
    BY <1>6, <2>5
  <2> QED BY <1>5, <2>4, <2>6
<1>9. CASE BeginEvent
  <2>1. /\ nextIs = "Event" /\ subRun' = subRun /\ run' = run
        /\ owed' = {"Run", "SubRun"} /\ inFlight' = inFlight \cup {next} /\ phase = "Items"
    BY <1>9 DEF BeginEvent, Ready
  <2>2. at # 0 /\ file.entries[at] \in ID /\ RunOf(next) = run
    BY <1>2, <1>3, <2>1 DEF PlaceInv
  <2>3. EntryType(file.entries[at]) # "Run"
    <3>1. SubRunOf(file.entries[at]).subRun = file.entries[at].subRun /\ SubRunOf(next).subRun = next.subRun
      BY <1>2, <2>2, EntryParts
    <3>2. file.entries[at].subRun # 0
      BY <1>3, <2>1, <3>1
    <3> QED BY <2>2, <3>2, RunIsItsRun
  <2>4. SubRunOf(next) = subRun
    BY <1>2, <1>3, <2>1, <2>2, <2>3 DEF PlaceInv
  <2>5. EntryType(subRun) = "SubRun" /\ RunOf(subRun) = run
    BY <1>2, <1>3, <2>1, <2>2, <2>4, EntryParts
  <2>6. PlaceInv'
    BY <1>2, <1>4, <2>1, <2>2, <2>4, <2>5 DEF PlaceInv
  <2>7. Due \subseteq Due'
    BY <2>1 DEF Due
  <2>8. OpenInv'
    BY <1>6, <2>7
  <2> QED BY <1>5, <2>6, <2>8
<1> QED BY <1>7, <1>8, <1>9

(* What writing an event does to the index and the count of events.        *)
LEMMA WrittenIndex ==
  ASSUME NEW o, WellFormed(o), NEW id, NEW f
  PROVE  /\ WriteOne(o, id, f).index = o.index \cup {[id |-> id, row |-> o.events + 1]}
         /\ WriteOne(o, id, f).events = o.events + 1
<1> DEFINE r == WriteOne(o, id, f)
<1>1. /\ Changed(r, o, {"column", "nEntries", "provenance", "descriptions", "index", "events"})
      /\ r.column = [b \in DOMAIN o.column |->
                       IF b \in Filled(o) THEN Append(o.column[b], Value(b, id, f))
                       ELSE o.column[b]]
      /\ r.nEntries = o.nEntries + 1
      /\ r.provenance = Append(o.provenance, [id |-> id, kept |-> KeptOf(o, f)])
      /\ r.descriptions = o.descriptions \cup (DOMAIN o.column \ {"EventAuxiliary"})
                            \cup (IF job.dropForDropped THEN {}
                                  ELSE UNION {ParentsOf(p, f) : p \in KeptAncestors(o, f)})
      /\ r.index = o.index \cup {[id |-> id, row |-> o.events + 1]}
      /\ r.events = o.events + 1
  BY WrittenTree
<1> HIDE DEF r
<1> QED BY <1>1 DEF r

LEMMA CompleteAtWriteEvent ==
  ASSUME IndexInv, PlaceInv, OpenInv, CompletedInv, WriteEvent
  PROVE  PlaceInv' /\ OpenInv' /\ CompletedInv'
<1>0. TypesInv
  BY DEF IndexInv, FitInv
<1>1. /\ phase = "Items" /\ owed = {"Run", "SubRun"} /\ input # 0 /\ WellFormed(out)
      /\ job' = job /\ input' = input /\ at' = at /\ phase' = phase /\ owed' = owed
      /\ run' = run /\ subRun' = subRun /\ closed' = closed
  BY <1>0, EventWritten
<1>2. PICK id \in inFlight :
        /\ inFlight' = inFlight \ {id} /\ id \in ID /\ id \in EventsOf(file)
        /\ Wanted(id) => out' = WriteOne(out, id, file) /\ fstats' = RecordEvent(fstats, id)
        /\ ~ Wanted(id) => out' = out /\ fstats' = fstats
  BY <1>0, EventWritten
<1>3. PlaceInv' /\ CompletedInv'
  BY <1>1, <1>2, PlaceKept, CompletedKept
<1>4. out.open /\ out.index \subseteq Entry /\ out.events \in Nat
  BY <1>1 DEF WellFormed, IsOutput
<1>5. /\ AccountsOf(out, fstats, Ids(out) \cup Due) /\ input \in fstats.parents
      /\ job.dropAllEvents => OfType(out, "Event") = {}
  BY <1>4, OpenAccounts
<1>6. Due' = Due /\ Due = {run, subRun}
  BY <1>1 DEF Due
<1>7. CASE ~ Wanted(id)
  <2>1. out' = out /\ fstats' = fstats
    BY <1>2, <1>7
  <2> QED BY <1>1, <1>3, <1>5, <1>6, <2>1, OpenAfter
<1>8. CASE Wanted(id)
  <2> DEFINE r == WriteOne(out, id, file)
             t == RecordEvent(fstats, id)
             n == out.events
  <2>1. /\ r.index = out.index \cup {[id |-> id, row |-> n + 1]} /\ r.events = n + 1
        /\ r.runs = out.runs /\ r.subRuns = out.subRuns
    <3>1. /\ Changed(r, out, {"column", "nEntries", "provenance", "descriptions", "index", "events"})
          /\ r.index = out.index \cup {[id |-> id, row |-> out.events + 1]} /\ r.events = out.events + 1
      <4>1. WellFormed(out)
        BY <1>1
      <4>2. Changed(r, out, {"column", "nEntries", "provenance", "descriptions", "index", "events"})
        BY <4>1, WrittenTree
      <4>3. r.index = out.index \cup {[id |-> id, row |-> out.events + 1]} /\ r.events = out.events + 1
        BY <4>1, WrittenIndex
      <4> QED BY <4>2, <4>3
    <3> HIDE DEF r
    <3>2. r.runs = out.runs
      BY <3>1, Unchanged
    <3>3. r.subRuns = out.subRuns
      BY <3>1, Unchanged
    <3> QED BY <3>1, <3>2, <3>3
  <2>2. EntryType(id) = "Event" /\ fstats \in Stats
    BY <1>0, <1>2 DEF EventsOf, Events, TypesInv, LoopTypes
  <2>3. /\ NestedIn(out, Ids(out) \cup Due) /\ AllCounted(out)
        /\ EventsAsIn(out, fstats) /\ SubRunsAsIn(out, fstats) /\ ParentsAsIn(out, fstats)
    BY <1>5 DEF AccountsOf
  <2>4. Counted(out, "Event", n)
    BY <2>3 DEF AllCounted
  <2> HIDE DEF r
  <2>5. EventsAsIn(r, t) /\ t.subRuns = fstats.subRuns /\ t.parents = fstats.parents
    BY <1>2, <1>4, <2>1, <2>2, <2>3, <2>4, EventRecorded
  <2>6. /\ Counted(r, "Event", n + 1)
        /\ OfType(r, "Event") = OfType(out, "Event") \cup {[id |-> id, row |-> n + 1]}
        /\ Ids(r) = Ids(out) \cup {id}
        /\ \A other : other # "Event" => OfType(r, other) = OfType(out, other)
    <3>1. n \in Nat /\ id \in ID
      BY <1>2, <1>4
    <3> HIDE DEF n
    <3> QED BY <1>4, <2>1, <2>2, <2>4, <3>1, OneEntryMore
  <2> HIDE DEF t
  <2>7. AllCounted(r)
    BY <2>1, <2>3, <2>6 DEF AllCounted, Counted
  <2>8. SubRunsAsIn(r, t)
    BY <2>3, <2>5, <2>6 DEF SubRunsAsIn
  <2>9. ParentsAsIn(r, t)
    <3>1. input \in DOMAIN job.inputs
      BY <1>0, <1>1, CurrentInput, JobType DEF TypesInv, LoopTypes
    <3>2. input \in t.parents /\ id \in EventsOf(job.inputs[input])
      BY <1>2, <1>5, <2>5 DEF file
    <3> QED BY <2>3, <2>5, <2>6, <3>1, <3>2 DEF ParentsAsIn
  <2>10. NestedIn(r, Ids(r) \cup Due)
    <3>1. SubRunOf(id) = subRun /\ EntryType(subRun) = "SubRun" /\ RunOf(subRun) = run /\ subRun \in ID
      BY <1>0, <1>1 DEF PlaceInv, TypesInv, LoopTypes
    <3>2. RunOf(id) = run /\ id.subRun = subRun.subRun /\ subRun.subRun # 0
      BY <1>2, <3>1, EntryParts
    <3>3. RunOf(id) \in Due /\ SubRunOf(id) \in Due /\ id.subRun # 0
      BY <1>6, <3>1, <3>2
    <3> QED BY <2>3, <2>6, <3>3 DEF NestedIn
  <2>11. AccountsOf(r, t, Ids(r) \cup Due)
    BY <2>5, <2>7, <2>8, <2>9, <2>10 DEF AccountsOf
  <2>12. out' = r /\ fstats' = t /\ ~ job.dropAllEvents /\ input' \in t.parents
    BY <1>1, <1>2, <1>5, <1>8, <2>5 DEF Wanted, r, t
  <2>13. OpenInv'
    BY <1>1, <1>6, <2>11, <2>12, OpenAfter
  <2> QED BY <1>3, <2>13
<1> QED BY <1>7, <1>8

(* A run or a subrun written leaves the events as they are. *)
LEMMA RunOrSubRunAccounts ==
  ASSUME NEW o, NEW s, NEW ids, AccountsOf(o, s, ids),
         NEW r, NEW id \in ID, NEW type \in {"Run", "SubRun"}, type = EntryType(id), NEW e, e.id = id,
         OfType(r, type) = OfType(o, type) \cup {e}, Ids(r) = Ids(o) \cup {id},
         \A other : other # type => OfType(r, other) = OfType(o, other),
         AllCounted(r),
         NEW t, t.events = s.events, t.lowest = s.lowest, t.highest = s.highest, t.parents = s.parents,
         type = "Run" => t.subRuns = s.subRuns,
         type = "SubRun" => t.subRuns = s.subRuns \cup {id} /\ RunOf(id) \in ids,
         id \in ids
  PROVE  AccountsOf(r, t, ids) /\ OfType(r, "Event") = OfType(o, "Event")
<1>1. /\ NestedIn(o, ids) /\ EventsAsIn(o, s) /\ SubRunsAsIn(o, s) /\ ParentsAsIn(o, s)
  BY DEF AccountsOf
<1>2. OfType(r, "Event") = OfType(o, "Event")
  OBVIOUS
<1>3. EventsAsIn(r, t)
  BY <1>1, <1>2 DEF EventsAsIn
<1>4. ParentsAsIn(r, t)
  BY <1>1, <1>2 DEF ParentsAsIn
<1>5. SubRunsAsIn(r, t)
  <2>1. CASE type = "Run"
    BY <1>1, <2>1 DEF SubRunsAsIn
  <2>2. CASE type = "SubRun"
    <3>1. OfType(r, "SubRun") = OfType(o, "SubRun") \cup {e} /\ t.subRuns = s.subRuns \cup {id}
      BY <2>2
    <3>2. {x.id : x \in OfType(r, "SubRun")} = {x.id : x \in OfType(o, "SubRun")} \cup {id}
      BY <3>1
    <3> QED BY <1>1, <3>1, <3>2 DEF SubRunsAsIn
  <2> QED BY <2>1, <2>2
<1>6. NestedIn(r, ids)
  <2>1. (EntryType(id) # "Run" => RunOf(id) \in ids) /\ EntryType(id) # "Event"
    OBVIOUS
  <2> QED BY <1>1, <2>1 DEF NestedIn
<1> QED BY <1>2, <1>3, <1>4, <1>5, <1>6 DEF AccountsOf

LEMMA CompleteAtWriteSubRun ==
  ASSUME TypesInv, PlaceInv, OpenInv, CompletedInv, WriteSubRun
  PROVE  PlaceInv' /\ OpenInv' /\ CompletedInv'
<1>1. /\ "SubRun" \in owed /\ inFlight = {} /\ job' = job /\ input' = input /\ at' = at
      /\ phase' = phase /\ owed' = owed \ {"SubRun"} /\ inFlight' = inFlight
      /\ run' = run /\ subRun' = subRun /\ closed' = closed
      /\ IF job.dropAllSubRuns THEN UNCHANGED <<out, fstats>>
         ELSE /\ out' = WithSubRun(out, subRun)
              /\ fstats' = [fstats EXCEPT !.subRuns = @ \cup {subRun}]
  BY DEF WriteSubRun, Over
<1>2. PlaceInv' /\ CompletedInv'
  BY <1>1, PlaceKept, CompletedKept
<1>3. out.open /\ job \in Jobs
  BY <1>1 DEF TypesInv, LoopInv, LoopTypes
<1>4. WellFormed(out) /\ DOMAIN out = Fields /\ out.index \subseteq Entry /\ out.subRuns \in Nat
  <2>1. WellFormed(out)
    BY <1>3, OpenIsBoolean DEF TypesInv
  <2> QED BY <2>1 DEF WellFormed, IsOutput
<1>5. /\ AccountsOf(out, fstats, Ids(out) \cup Due) /\ input \in fstats.parents
      /\ job.dropAllEvents => OfType(out, "Event") = {}
  BY <1>3, OpenAccounts
<1>6. /\ Due = {run, subRun} /\ Due' = {run} /\ EntryType(subRun) = "SubRun" /\ RunOf(subRun) = run
      /\ subRun \in ID
  <2>1. owed = {"Run", "SubRun"} /\ owed' = {"Run"}
    BY <1>1 DEF PlaceInv
  <2> QED BY <1>1, <2>1 DEF PlaceInv, Due, TypesInv, LoopTypes
<1>7. CASE job.dropAllSubRuns
  <2>1. out' = out /\ fstats' = fstats
    BY <1>1, <1>7
  <2>2. OfType(out, "Event") = {}
    BY <1>3, <1>5, <1>7, JobsAssumption
  <2>3. \A id \in Ids(out) : EntryType(id) # "Event" /\ id \in ID
    BY <1>4, <2>2 DEF Ids, OfType, Entry
  <2>4. \A id \in ID : RunOf(id) # subRun
    <3>1. \A id \in ID : EntryType(RunOf(id)) = "Run"
      BY DEF RunOf, RunEntry, EntryType
    <3> QED BY <1>6, <3>1
  <2>5. NestedIn(out, Ids(out) \cup Due) => NestedIn(out, Ids(out) \cup Due')
    BY <1>6, <2>3, <2>4 DEF NestedIn
  <2>6. SameAccounts(out', out)
    BY <2>1 DEF SameAccounts
  <2>7. OpenInv'
    BY <1>1, <1>3, <1>5, <2>1, <2>5, <2>6, OpenKept
  <2> QED BY <1>2, <2>7
<1>8. CASE ~ job.dropAllSubRuns
  <2> DEFINE r == WithSubRun(out, subRun)
             t == [fstats EXCEPT !.subRuns = @ \cup {subRun}]
             n == out.subRuns
  <2>1. /\ r.index = out.index \cup {[id |-> subRun, row |-> n + 1]} /\ r.events = out.events
        /\ r.runs = out.runs /\ r.subRuns = n + 1 /\ r.open
    <3>1. /\ Changed(r, out, {"index", "subRuns"}) /\ r.subRuns = n + 1
          /\ r.index = out.index \cup {[id |-> subRun, row |-> n + 1]}
      BY <1>4, WrittenRunOrSubRun
    <3> HIDE DEF r
    <3> QED BY <1>3, <3>1, Unchanged
  <2>2. /\ t.events = fstats.events /\ t.lowest = fstats.lowest /\ t.highest = fstats.highest
        /\ t.parents = fstats.parents /\ t.subRuns = fstats.subRuns \cup {subRun}
    BY DEF TypesInv, LoopTypes, Stats
  <2>3. out' = r /\ fstats' = t
    BY <1>1, <1>8
  <2> HIDE DEF r, t
  <2> DEFINE e == [id |-> subRun, row |-> n + 1]
  <2>4. /\ AccountsOf(r, t, Ids(out) \cup Due) /\ Ids(r) = Ids(out) \cup {subRun}
        /\ OfType(r, "Event") = OfType(out, "Event")
    <3>1. RunOf(subRun) \in Ids(out) \cup Due /\ subRun \in Ids(out) \cup Due
      BY <1>6
    <3>2. AllCounted(out)
      BY <1>5 DEF AccountsOf
    <3>3. Counted(out, "SubRun", n) /\ n \in Nat
      BY <1>4, <3>2 DEF AllCounted
    <3>4. /\ Counted(r, "SubRun", n + 1) /\ OfType(r, "SubRun") = OfType(out, "SubRun") \cup {e}
          /\ Ids(r) = Ids(out) \cup {subRun}
          /\ \A other : other # "SubRun" => OfType(r, other) = OfType(out, other)
      <4> HIDE DEF n
      <4> QED BY <1>4, <1>6, <2>1, <3>3, OneEntryMore
    <3>5. e.id = subRun
      OBVIOUS
    <3> HIDE DEF e, n
    <3>6. AllCounted(r)
      BY <2>1, <3>2, <3>4 DEF AllCounted, Counted
    <3> QED BY <1>5, <1>6, <2>2, <3>1, <3>4, <3>5, <3>6, RunOrSubRunAccounts
  <2>5. Ids(r) \cup Due' = Ids(out) \cup Due
    BY <1>6, <2>4
  <2>6. OpenInv'
    BY <1>1, <1>5, <2>2, <2>3, <2>4, <2>5, OpenAfter
  <2> QED BY <1>2, <2>6
<1> QED BY <1>7, <1>8

LEMMA CompleteAtWriteRun ==
  ASSUME TypesInv, PlaceInv, OpenInv, CompletedInv, WriteRun
  PROVE  PlaceInv' /\ OpenInv' /\ CompletedInv'
<1>1. /\ owed = {"Run"} /\ inFlight = {} /\ job' = job /\ input' = input /\ at' = at
      /\ phase' = phase /\ owed' = {} /\ inFlight' = inFlight
      /\ run' = run /\ subRun' = subRun /\ closed' = closed
      /\ out' = WithRun(out, run) /\ fstats' = fstats
  BY DEF WriteRun, Over
<1>2. PlaceInv' /\ CompletedInv'
  BY <1>1, PlaceKept, CompletedKept
<1>3. out.open /\ job \in Jobs
  BY <1>1 DEF TypesInv, LoopInv, LoopTypes
<1>4. WellFormed(out) /\ DOMAIN out = Fields /\ out.index \subseteq Entry /\ out.runs \in Nat
  <2>1. WellFormed(out)
    BY <1>3, OpenIsBoolean DEF TypesInv
  <2> QED BY <2>1 DEF WellFormed, IsOutput
<1>5. /\ AccountsOf(out, fstats, Ids(out) \cup Due) /\ input \in fstats.parents
      /\ job.dropAllEvents => OfType(out, "Event") = {}
  BY <1>3, OpenAccounts
<1>6. Due = {run} /\ Due' = {} /\ EntryType(run) = "Run" /\ run \in ID
  BY <1>1 DEF PlaceInv, Due, TypesInv, LoopTypes
<1> DEFINE r == WithRun(out, run)
           n == out.runs
<1>7. /\ r.index = out.index \cup {[id |-> run, row |-> n + 1]} /\ r.events = out.events
      /\ r.subRuns = out.subRuns /\ r.runs = n + 1 /\ r.open
  <2>1. /\ Changed(r, out, {"index", "runs"}) /\ r.runs = n + 1
        /\ r.index = out.index \cup {[id |-> run, row |-> n + 1]}
    BY <1>4, WrittenRunOrSubRun
  <2> HIDE DEF r
  <2> QED BY <1>3, <2>1, Unchanged
<1>8. out' = r
  BY <1>1
<1> HIDE DEF r
<1> DEFINE e == [id |-> run, row |-> n + 1]
<1>9. /\ AccountsOf(r, fstats, Ids(out) \cup Due) /\ Ids(r) = Ids(out) \cup {run}
      /\ OfType(r, "Event") = OfType(out, "Event")
  <2>1. run \in Ids(out) \cup Due
    BY <1>6
  <2>2. AllCounted(out)
    BY <1>5 DEF AccountsOf
  <2>3. Counted(out, "Run", n) /\ n \in Nat
    BY <1>4, <2>2 DEF AllCounted
  <2>4. /\ Counted(r, "Run", n + 1) /\ OfType(r, "Run") = OfType(out, "Run") \cup {e}
        /\ Ids(r) = Ids(out) \cup {run}
        /\ \A other : other # "Run" => OfType(r, other) = OfType(out, other)
    <3> HIDE DEF n
    <3> QED BY <1>4, <1>6, <1>7, <2>3, OneEntryMore
  <2>5. e.id = run
    OBVIOUS
  <2> HIDE DEF e, n
  <2>6. AllCounted(r)
    BY <1>7, <2>2, <2>4 DEF AllCounted, Counted
  <2> QED BY <1>5, <1>6, <2>1, <2>4, <2>5, <2>6, RunOrSubRunAccounts
<1>10. Ids(r) \cup Due' = Ids(out) \cup Due
  BY <1>6, <1>9
<1>11. OpenInv'
  BY <1>1, <1>5, <1>8, <1>9, <1>10, OpenAfter
<1> QED BY <1>2, <1>11

(* What the end of a file leaves of its accounts, and what it adds. *)
LEMMA EndedAccounts ==
  ASSUME NEW o, WellFormed(o), NEW r, r = SetEntries(EndFile(o))
  PROVE  /\ SameAccounts(r, o) /\ r.metadata = fstats /\ r.sources = o.sources
         /\ r.treeEntries = Len(o.column["EventAuxiliary"])
<1> DEFINE u == EndFile(o)
<1>1. Changed(u, o, {"results", "metadata"}) /\ u.metadata = fstats
  BY Ended DEF WellFormed
<1>2. r = SetEntries(u)
  OBVIOUS
<1> HIDE DEF u
<1>3. DOMAIN u = Fields
  BY <1>1 DEF Changed
<1>4. Changed(r, u, {"treeEntries"}) /\ r.treeEntries = Len(u.column["EventAuxiliary"])
  BY <1>2, <1>3, EntriesSet
<1>5. SameAccounts(u, o) /\ u.sources = o.sources /\ u.column = o.column
  BY <1>1, Unchanged DEF SameAccounts
<1>6. SameAccounts(r, u) /\ r.sources = u.sources /\ r.metadata = u.metadata
  BY <1>4, Unchanged DEF SameAccounts
<1>7. SameAccounts(r, o)
  BY <1>5, <1>6 DEF SameAccounts
<1> QED BY <1>1, <1>4, <1>5, <1>6, <1>7

LEMMA CompleteAtCloseOutput ==
  ASSUME IndexInv, PlaceInv, OpenInv, CompletedInv, CloseOutput
  PROVE  PlaceInv' /\ OpenInv' /\ CompletedInv'
<1>0. FitInv /\ TypesInv
  BY DEF IndexInv, FitInv
<1>1. /\ out.open /\ owed = {} /\ inFlight = {} /\ job' = job /\ input' = input /\ at' = at
      /\ owed' = owed /\ inFlight' = inFlight /\ run' = run /\ subRun' = subRun /\ fstats' = fstats
      /\ closing \/ phase = "NextFile"
  BY DEF CloseOutput
<1>2. /\ AccountsOf(out, fstats, Ids(out) \cup Due) /\ input \in fstats.parents
      /\ job.dropAllEvents => OfType(out, "Event") = {}
  BY <1>1, OpenAccounts
<1>3. Due = {} /\ Due' = {}
  BY <1>1 DEF Due
<1>4. WellFormed(out) /\ out \in Open
  BY <1>0, <1>1, OpenFile DEF FitInv
<1>5. CASE ~ Aligned(out)
  <2>1. out' = out /\ closed' = closed /\ phase' = "Failed"
    BY <1>5 DEF CloseOutput
  <2>2. PlaceInv' /\ CompletedInv'
    BY <1>1, <2>1, PlaceKept, CompletedKept
  <2>3. OpenInv'
    BY <1>1, <1>2, <1>3, <2>1, OpenAfter
  <2> QED BY <2>2, <2>3
<1>6. CASE Aligned(out)
  <2> DEFINE r == SetEntries(EndFile(out))
  <2>1. closed' = Append(closed, r) /\ ~ out'.open /\ phase' = phase
    BY <1>6 DEF CloseOutput, NoOutput
  <2>2. PlaceInv'
    BY <1>1, <2>1, PlaceKept
  <2>3. OpenInv'
    BY <1>1, <2>1, OpenAfter
  <2>4. /\ SameAccounts(r, out) /\ r.metadata = fstats /\ r.sources = out.sources
        /\ r.treeEntries = Len(out.column["EventAuxiliary"])
    BY <1>4, EndedAccounts
  <2> HIDE DEF r
  <2>5. AccountsOf(r, r.metadata, Ids(r))
    <3>1. AccountsOf(out, fstats, Ids(out))
      BY <1>2, <1>3
    <3>2. AccountsOf(r, fstats, Ids(out)) /\ Ids(r) = Ids(out)
      BY <2>4, <3>1, AccountsSame
    <3> QED BY <2>4, <3>2
  <2>6. ASSUME ClonesOnly(r) PROVE r.treeEntries = r.events
    <3>1. ClonesOnly(out)
      BY <2>4, <2>6, ClonesOnlyIs
    <3>2. ColumnsAre(out, 0)
      BY <1>0, <1>1, <3>1, UnmixedFits
    <3>3. "EventAuxiliary" \in DOMAIN out.column /\ out.nEntries \in Nat
      BY <1>0, <1>4, WellFormedType DEF TypesInv, LoopTypes
    <3>4. Len(out.column["EventAuxiliary"]) = out.nEntries
      BY <3>2, <3>3 DEF ColumnsAre
    <3>5. out.events = out.nEntries /\ r.events = out.events
      BY <1>4, <2>4 DEF IndexInv, RowsInv, SameAccounts
    <3> QED BY <2>4, <3>4, <3>5
  <2>7. /\ \A k \in DOMAIN closed' : k \in DOMAIN closed \/ closed'[k] = r
        /\ \A k \in DOMAIN closed : closed'[k] = closed[k]
    <3>1. closed \in Seq(Files)
      BY <1>0 DEF TypesInv, FilesInv
    <3> QED BY <2>1, <3>1
  <2>8. ASSUME NEW k \in DOMAIN closed'
        PROVE  /\ AccountsOf(closed'[k], closed'[k].metadata, Ids(closed'[k]))
               /\ ClonesOnly(closed'[k]) => closed'[k].treeEntries = closed'[k].events
    <3>1. CASE k \in DOMAIN closed
      BY <2>7, <3>1 DEF CompletedInv
    <3>2. CASE closed'[k] = r
      BY <2>5, <2>6, <3>2
    <3> QED BY <2>7, <3>1, <3>2
  <2>9. \A o : ClonesOnly(o)' <=> ClonesOnly(o)
    BY <1>1, JobKept
  <2>10. \A o, s, ids : AccountsOf(o, s, ids)' <=> AccountsOf(o, s, ids)
    BY <1>1, AccountsOfJob
  <2>11. CompletedInv'
    BY <2>8, <2>9, <2>10 DEF CompletedInv
  <2> QED BY <2>2, <2>3, <2>11
<1> QED BY <1>5, <1>6

LEMMA CompleteAtTheRest ==
  ASSUME TypesInv, PlaceInv, OpenInv, CompletedInv, EndInput \/ CloseInput \/ EndJob \/ UNCHANGED vars
  PROVE  PlaceInv' /\ OpenInv' /\ CompletedInv'
<1>1. /\ job' = job /\ input' = input /\ at' = at /\ inFlight' = inFlight /\ owed' = owed
      /\ run' = run /\ subRun' = subRun /\ closed' = closed /\ fstats' = fstats
      /\ out' \in {out, SetEntries(out)} /\ (~ out.open => out' = out)
      /\ phase' = "Items" => phase = "Items"
  <2>1. CASE EndInput
    BY <2>1 DEF EndInput
  <2>2. CASE CloseInput
    BY <2>2 DEF CloseInput
  <2>3. CASE EndJob
    BY <2>3 DEF EndJob
  <2>4. CASE UNCHANGED vars
    BY <2>4 DEF vars, loop
  <2> QED BY <2>1, <2>2, <2>3, <2>4
<1>2. PlaceInv' /\ CompletedInv'
  BY <1>1, PlaceKept, CompletedKept
<1>3. CASE ~ out.open
  <2>1. ~ out'.open
    BY <1>1, <1>3
  <2> QED BY <1>1, <1>2, <2>1, OpenAfter
<1>4. CASE out.open
  <2>1. DOMAIN out = Fields
    BY <1>4, OpenIsBoolean DEF TypesInv, LoopTypes, WellFormed
  <2>2. SameAccounts(out', out)
    <3>1. CASE out' = out
      BY <3>1 DEF SameAccounts
    <3>2. CASE out' = SetEntries(out)
      <4>1. Changed(out', out, {"treeEntries"})
        BY <2>1, <3>2, EntriesSet
      <4> QED BY <4>1, Unchanged DEF SameAccounts
    <3> QED BY <1>1, <3>1, <3>2
  <2>3. Due' = Due
    BY <1>1 DEF Due
  <2>4. input' \in fstats'.parents
    BY <1>1, <1>4, OpenAccounts
  <2> QED BY <1>1, <1>2, <1>4, <2>2, <2>3, <2>4, OpenKept
<1> QED BY <1>3, <1>4

LEMMA CompleteStep ==
  CompleteInv /\ [Next]_vars => CompleteInv'
<1> SUFFICES ASSUME CompleteInv, [Next]_vars PROVE CompleteInv'
  OBVIOUS
<1>1. IndexInv /\ TypesInv /\ PlaceInv /\ OpenInv /\ CompletedInv
  BY DEF CompleteInv, IndexInv, FitInv
<1>2. IndexInv'
  BY <1>1, IndexStep
<1>3. CASE OpenInput
  BY <1>1, <1>2, <1>3, CompleteAtOpenInput DEF CompleteInv
<1>4. CASE OpenOutput
  BY <1>1, <1>2, <1>4, CompleteAtOpenOutput DEF CompleteInv
<1>5. CASE BeginRun \/ BeginSubRun \/ BeginEvent
  BY <1>1, <1>2, <1>5, CompleteAtBegin DEF CompleteInv
<1>6. CASE WriteEvent
  BY <1>1, <1>2, <1>6, CompleteAtWriteEvent DEF CompleteInv
<1>7. CASE WriteSubRun
  BY <1>1, <1>2, <1>7, CompleteAtWriteSubRun DEF CompleteInv
<1>8. CASE WriteRun
  BY <1>1, <1>2, <1>8, CompleteAtWriteRun DEF CompleteInv
<1>9. CASE CloseOutput
  BY <1>1, <1>2, <1>9, CompleteAtCloseOutput DEF CompleteInv
<1>10. CASE EndInput \/ CloseInput \/ EndJob \/ UNCHANGED vars
  BY <1>1, <1>2, <1>10, CompleteAtTheRest DEF CompleteInv
<1> QED BY <1>3, <1>4, <1>5, <1>6, <1>7, <1>8, <1>9, <1>10 DEF Next

(* Each file that was closed, at whatever boundary, can be read by itself: *)
(* its index has the run and the subrun of each entry, its counts and its  *)
(* metadata are those of its index, and the range set of each run is found *)
(* in it, whole or compact.                                                *)
THEOREM ClosedComplete == Spec => []ClosedFilesAreComplete
<1>1. Spec => []CompleteInv
  <2>1. Init => CompleteInv
    BY IndexInit, CompleteInit DEF CompleteInv
  <2> QED BY <2>1, CompleteStep, PTL DEF Spec
<1>2. CompleteInv => ClosedFilesAreComplete
  <2> SUFFICES ASSUME CompleteInv, NEW k \in DOMAIN closed
               PROVE  /\ IsNested(closed[k]) /\ IsAsInMetadata(closed[k]) /\ HasRangeSets(closed[k])
                      /\ ClonesOnly(closed[k]) => IsCounted(closed[k])
    BY DEF ClosedFilesAreComplete
  <2>1. IsOutput(closed[k])
    BY DEF CompleteInv, IndexInv, FitInv, TypesInv, FilesInv, WellFormed
  <2>2. /\ AccountsOf(closed[k], closed[k].metadata, Ids(closed[k]))
        /\ ClonesOnly(closed[k]) => closed[k].treeEntries = closed[k].events
    BY DEF CompleteInv, CompletedInv
  <2> QED BY <2>1, <2>2, AccountsComplete
<1> QED BY <1>1, <1>2, PTL
=============================================================================
