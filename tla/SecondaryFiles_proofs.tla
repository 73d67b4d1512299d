------------------------- MODULE SecondaryFiles_proofs -------------------------
(***************************************************************************)
(* Secondary files: their requests leave the reading of the primary files  *)
(* alone, and are answered by the first file that can, and their lists are *)
(* in preorder, for all files, lists, configurations and requests.         *)
(***************************************************************************)
EXTENDS SecondaryFiles, InputSequence_proofs

-----------------------------------------------------------------------------
(***************************************************************************)
(* SecondaryFiles implements InputSequence                                 *)
(***************************************************************************)

(* A step of the event loop is one of InputSequence, and every other step  *)
(* leaves its variables as they are.                                       *)
LEMMA StepOfInput == [SecondaryNext]_allVars => [Next]_vars
<1>1. Walk \/ Asks \/ Answers => UNCHANGED vars
  BY DEF Walk, TakePrimary, TakeName, Asks, Ask, Answers, AnswerFound, AnswerMissing, CannotOpen,
         NotThere, ReadsPrincipal, AssertionFails, SeveralEntries, Outcome
<1>2. Goes => Next
  BY DEF Goes, OpenFirst, ReadFile, Stop, Ahead, ReadRunSubRun, ReadThisEvent, ReadFails,
         Next, Files, Reads
<1> QED BY <1>1, <1>2 DEF SecondaryNext, allVars

(* Jobs with secondary files read, skip and drop events like jobs without: *)
(* whatever is asked of secondary files and whenever.                      *)
THEOREM ReadsLikeInputSequence == SecondarySpec => Spec
<1>1. SecondaryInit => Init
  BY DEF SecondaryInit
<1> QED BY <1>1, StepOfInput, PTL DEF SecondarySpec, Spec

-----------------------------------------------------------------------------
(***************************************************************************)
(* Types                                                                   *)
(***************************************************************************)
LEMMA StoreType ==
  ASSUME NEW n \in Names
  PROVE  Store[n] \in Attached /\ IndexOf(Store[n]) \in Seq(ID)
BY StoreAssumption DEF Attached, IndexOf

LEMMA ListedType ==
  ASSUME TypeOK, NEW name
  PROVE  Listed(name) \in Seq(Names)
<1> DEFINE lists == opts.secondaryFileNames
           given == {i \in DOMAIN lists : lists[i].a = name}
<1>1. opts \in Options /\ lists \in Seq(SecondaryFile)
  BY ConfigType DEF TypeOK, Option
<1>2. ASSUME NEW i \in DOMAIN lists PROVE lists[i].b \in Seq(Names)
  <2>0. lists[i] \in SecondaryFile
    BY <1>1
  <2>1. lists[i].b \in Seq(STRING)
    BY <2>0 DEF SecondaryFile
  <2>2. \A k \in DOMAIN lists[i].b : lists[i].b[k] \in Names
    BY <1>1, <1>2, ListsAssumption
  <2> QED BY <2>1, <2>2
<1>3. CASE given = {}
  BY <1>3 DEF Listed
<1>4. CASE given # {}
  <2>1. FirstOf(lists, given) \in given
    BY <1>1, <1>4, FirstOfSequence
  <2> QED BY <1>2, <1>4, <2>1 DEF Listed
<1> QED BY <1>3, <1>4

(* The job's files and configuration never change.                         *)
LEMMA ConfigFixed == [Next]_vars => catalog' = catalog /\ opts' = opts
BY DEF Next, Files, Limits, Wanted, Reads, vars, config,
       Construct, ReadFirstFile, ReadNextFile, StopJob, LimitReached, FirstItem, AskFile, NoMoreEntries,
       SkipToFirstRun, WantRun, SkipToNextRun, SkipToFirstSubRun, WantSubRun, SkipToNextSubRun,
       SkipToFirstEvent, DropDuplicate, WantEvent, SkipEvent, EndSkipping, ReadRunOrSubRun,
       ReadEvent, ReadEventThrows, MoveTo

(* The constructor is not called again.                                    *)
LEMMA ConstructOnce == Goes => item' # "Construct"
BY DEF Goes, OpenFirst, ReadFile, Stop, Ahead, ReadRunSubRun, ReadThisEvent, ReadFails,
       Limits, Wanted,
       Construct, ReadFirstFile, ReadNextFile, StopJob, LimitReached, FirstItem, AskFile, NoMoreEntries,
       SkipToFirstRun, WantRun, SkipToNextRun, SkipToFirstSubRun, WantSubRun, SkipToNextSubRun,
       SkipToFirstEvent, DropDuplicate, WantEvent, SkipEvent, EndSkipping, ReadRunOrSubRun,
       ReadEvent, ReadEventThrows, MoveTo

(* The secondary files of the open file.                                   *)
LEMMA FileAtType ==
  ASSUME SecondaryTypeOK, rootFile # 0
  PROVE  /\ current = rootFile /\ current \in DOMAIN secondaryFileNames
         /\ secondaryFileNames[current] \in Seq(Names)
         /\ \A i \in DOMAIN cursors : FileAt(i) \in Attached /\ IndexOf(FileAt(i)) \in Seq(ID)
<1>1. current = rootFile /\ current \in 1..Len(catalog)
  BY ConfigType DEF SecondaryTypeOK, TypeOK
<1>2. Len(secondaryFileNames) = Len(catalog) /\ secondaryFileNames \in Seq(Seq(Names))
  BY DEF SecondaryTypeOK, Walked
<1>3. secondaryFileNames[current] \in Seq(Names)
  BY <1>1, <1>2
<1>4. ASSUME NEW i \in DOMAIN cursors PROVE secondaryFileNames[current][i] \in Names
  BY <1>3, <1>4 DEF SecondaryTypeOK, CursorsType
<1> QED BY <1>1, <1>2, <1>3, <1>4, StoreType DEF FileAt

Indexed == rootFile # 0 => \A i \in DOMAIN cursors : IndexOf(FileAt(i)) \in Seq(ID)

LEMMA FilesIndexed == SecondaryTypeOK => Indexed
BY FileAtType DEF Indexed

LEMMA SecondaryTypeInit == SecondaryInit => SecondaryTypeOK
<1> SUFFICES ASSUME SecondaryInit PROVE SecondaryTypeOK
  OBVIOUS
<1>1. TypeOK /\ catalog \in Seq(File)
  BY TypeCorrectInit, ConfigType DEF SecondaryInit
<1>2. Gone \in [Levels -> ReadPrincipal \cup {NoPrincipal}]
  BY DEF Gone
<1>3. answer.status \in Statuses
  BY DEF SecondaryInit, NoAnswer, Statuses
<1> QED BY <1>1, <1>2, <1>3, RequestsAssumption
        DEF SecondaryInit, SecondaryTypeOK, CursorsType, Init, Busy

(* What the operations on sequences give.                                  *)
LEMMA ConcatType ==
  ASSUME NEW T, NEW a \in Seq(T), NEW b \in Seq(T)
  PROVE  a \o b \in Seq(T)
OBVIOUS

LEMMA AppendType ==
  ASSUME NEW T, NEW a \in Seq(T), NEW x \in T
  PROVE  /\ Append(a, x) \in Seq(T) /\ Append(a, x) # <<>>
         /\ Len(Append(a, x)) = Len(a) + 1
<1>1. Append(a, x) \in Seq(T) /\ Len(Append(a, x)) = Len(a) + 1 /\ Len(a) \in Nat
  OBVIOUS
<1>2. Len(<<>>) = 0
  OBVIOUS
<1> QED BY <1>1, <1>2

LEMMA PutType ==
  ASSUME NEW T, NEW a \in Seq(T), NEW n \in 1..Len(a), NEW x \in T
  PROVE  [a EXCEPT ![n] = x] \in Seq(T) /\ Len([a EXCEPT ![n] = x]) = Len(a)
OBVIOUS

(* The constructor's walk through the lists.                               *)
LEMMA WalkType ==
  ASSUME SecondaryTypeOK, Walk, TypeOK'
  PROVE  SecondaryTypeOK'
<1> DEFINE stacks == Seq(Seq(Names) \ {<<>>})
           lists  == Seq(Seq(Names))
<1>1. UNCHANGED <<vars, cursors, principals, asking>>
  BY DEF Walk, TakePrimary, TakeName
<1>2. UNCHANGED <<catalog, item, rootFile, current, opts>>
  BY <1>1 DEF vars, sequence, loop, config
<1>3. item = "Construct"
  BY DEF Walk, TakePrimary, TakeName, SecondaryTypeOK, Walked
<1>4. /\ stk' \in stacks /\ secondaryFileNames' \in lists
      /\ secondaryFileNames' # <<>> /\ Len(secondaryFileNames') <= Len(catalog)
  <2>1. /\ stk \in stacks /\ secondaryFileNames \in lists
        /\ Len(secondaryFileNames) <= Len(catalog) /\ Len(catalog) \in Nat
        /\ stk # <<>> => secondaryFileNames # <<>>
    BY ConfigType DEF SecondaryTypeOK
  <2>2. CASE TakePrimary
    <3> DEFINE list == Listed(catalog[Len(secondaryFileNames) + 1].name)
    <3>1. list \in Seq(Names)
      BY ListedType DEF SecondaryTypeOK
    <3>2. stk' = IF list = <<>> THEN <<>> ELSE <<list>>
      BY <2>2 DEF TakePrimary
    <3> HIDE DEF list
    <3>3. stk' \in stacks
      <4>1. CASE list = <<>>
        BY <3>2, <4>1
      <4>2. CASE list # <<>>
        <5>1. list \in Seq(Names) \ {<<>>}
          BY <3>1, <4>2
        <5> QED BY <3>2, <4>2, <5>1
      <4> QED BY <4>1, <4>2
    <3>4. <<>> \in Seq(Names)
      OBVIOUS
    <3>5. Len(secondaryFileNames) < Len(catalog) /\ secondaryFileNames' = Append(secondaryFileNames, <<>>)
      BY <2>2 DEF TakePrimary
    <3>6. /\ secondaryFileNames' \in lists /\ secondaryFileNames' # <<>>
          /\ Len(secondaryFileNames') = Len(secondaryFileNames) + 1
      BY <2>1, <3>4, <3>5, AppendType
    <3> QED BY <2>1, <3>3, <3>5, <3>6
  <2>3. CASE TakeName
    <3> DEFINE fn   == Head(Head(stk))
               rest == Tail(Head(stk))
               last == Len(secondaryFileNames)
    <3>1. /\ stk # <<>> /\ Tail(stk) \in stacks
          /\ Head(stk) \in Seq(Names) /\ Head(stk) # <<>>
      BY <2>1, <2>3 DEF TakeName
    <3>2. fn \in Names /\ rest \in Seq(Names)
      BY <3>1
    <3>3. /\ secondaryFileNames' = [secondaryFileNames EXCEPT ![last] = Append(@, fn)]
          /\ stk' = Pushed(Listed(fn), Pushed(rest, Tail(stk)))
      BY <2>3 DEF TakeName
    <3>4. last \in 1..Len(secondaryFileNames) /\ secondaryFileNames[last] \in Seq(Names)
      BY <2>1, <3>1
    <3>5. Append(secondaryFileNames[last], fn) \in Seq(Names)
      BY <3>2, <3>4
    <3>6. ASSUME NEW list \in Seq(Names), NEW s \in stacks PROVE Pushed(list, s) \in stacks
      <4>1. CASE list = <<>>
        BY <4>1 DEF Pushed
      <4>2. CASE list # <<>>
        <5>1. list \in Seq(Names) \ {<<>>}
          BY <4>2
        <5>2. <<list>> \in stacks
          BY <5>1
        <5>3. <<list>> \o s \in stacks
          BY <5>2, ConcatType
        <5> QED BY <4>2, <5>3 DEF Pushed
      <4> QED BY <4>1, <4>2
    <3>7. stk' \in stacks
      <4>1. Listed(fn) \in Seq(Names)
        BY ListedType DEF SecondaryTypeOK
      <4>2. Pushed(rest, Tail(stk)) \in stacks
        BY <3>1, <3>2, <3>6
      <4> QED BY <3>3, <3>6, <4>1, <4>2
    <3> HIDE DEF fn, rest, last
    <3>8. /\ secondaryFileNames' \in lists /\ Len(secondaryFileNames') = Len(secondaryFileNames)
          /\ secondaryFileNames' # <<>>
      <4> DEFINE longer == Append(secondaryFileNames[last], fn)
      <4>1. secondaryFileNames' = [secondaryFileNames EXCEPT ![last] = longer]
        BY <3>3
      <4>2. longer \in Seq(Names)
        BY <3>5
      <4> HIDE DEF longer
      <4>3. /\ secondaryFileNames' \in lists /\ Len(secondaryFileNames') = Len(secondaryFileNames)
        BY <2>1, <3>4, <4>1, <4>2, PutType
      <4> QED BY <2>1, <3>4, <4>3
    <3> QED BY <2>1, <3>7, <3>8
  <2> QED BY <2>2, <2>3 DEF Walk
<1> QED BY <1>1, <1>2, <1>3, <1>4 DEF SecondaryTypeOK, CursorsType, asking, Busy, Alive

(* The event loop: files, runs, subruns and events.                        *)
LEMMA LoopType ==
  ASSUME SecondaryTypeOK, Goes, TypeOK', [Next]_vars
  PROVE  SecondaryTypeOK'
<1>1. UNCHANGED <<stk, secondaryFileNames, asking>> /\ ~ Busy
  BY DEF Goes, OpenFirst, ReadFile, Stop, Ahead, ReadRunSubRun, ReadThisEvent, ReadFails, Loop
<1>2. catalog' = catalog /\ opts' = opts /\ item' # "Construct"
  BY ConfigFixed, ConstructOnce
<1>3. Walked /\ Walked'
  <2>1. Walked
    BY DEF Goes, OpenFirst, ReadFile, Stop, Ahead, ReadRunSubRun, ReadThisEvent, ReadFails,
           SecondaryTypeOK, Limits, Wanted, Reads, ReadFirstFile, ReadNextFile, StopJob,
           LimitReached, FirstItem, AskFile, NoMoreEntries, SkipToFirstRun, WantRun, SkipToNextRun,
           SkipToFirstSubRun, WantSubRun, SkipToNextSubRun, SkipToFirstEvent, DropDuplicate, WantEvent,
           SkipEvent, EndSkipping, ReadRunOrSubRun, ReadEvent, ReadEventThrows
  <2> QED BY <1>1, <1>2, <2>1 DEF Walked
<1>4. cursors' \in Seq(Nat) /\ CursorsType'
  <2>1. CASE RoomForSecondaries
    <3>1. CASE rootFile' = 0
      BY <2>1, <3>1 DEF RoomForSecondaries, CursorsType, SecondaryTypeOK
    <3>2. CASE rootFile' # 0
      <4>1. current' = rootFile' /\ rootFile' \in 1..Len(catalog)
        BY <1>2, <3>2, ConfigType DEF TypeOK
      <4>2. rootFile' \in DOMAIN secondaryFileNames /\ secondaryFileNames \in Seq(Seq(Names))
        BY <1>3, <4>1 DEF Walked, SecondaryTypeOK
      <4>3. secondaryFileNames[rootFile'] \in Seq(Names)
        BY <4>2
      <4>4. cursors' = [i \in DOMAIN secondaryFileNames[rootFile'] |-> 0]
        BY <2>1, <3>2 DEF RoomForSecondaries
      <4>5. cursors' \in Seq(Nat)
        BY <4>3, <4>4
      <4>6. ASSUME NEW i \in DOMAIN cursors'
            PROVE  cursors'[i] \in 0..End(IndexOf(FileAt(i)))'
        <5>1. secondaryFileNames[rootFile'][i] \in Names
          BY <4>3, <4>4
        <5>2. IndexOf(FileAt(i))' = IndexOf(Store[secondaryFileNames[rootFile'][i]])
          BY <1>1, <1>2, <4>1 DEF FileAt, IndexOf
        <5>3. End(IndexOf(FileAt(i)))' \in Nat
          BY <5>1, <5>2, StoreType DEF End
        <5> QED BY <4>4, <5>3
      <4> QED BY <1>1, <4>1, <4>4, <4>5, <4>6 DEF CursorsType
    <3> QED BY <3>1, <3>2
  <2>2. CASE UNCHANGED cursors /\ (rootFile' = 0 \/ UNCHANGED <<rootFile, current>>)
    BY <1>1, <1>2, <2>2 DEF SecondaryTypeOK, CursorsType, FileAt, IndexOf
  <2>3. Stop => rootFile' = 0 /\ UNCHANGED cursors
    BY DEF Stop, StopJob
  <2>4. Ahead \/ ReadRunSubRun \/ ReadThisEvent \/ ReadFails =>
          UNCHANGED <<cursors, rootFile, current>>
    BY DEF Ahead, ReadRunSubRun, ReadThisEvent, ReadFails, Limits, Wanted, sequence,
           LimitReached, FirstItem, AskFile, NoMoreEntries, SkipToFirstRun, WantRun, SkipToNextRun,
           SkipToFirstSubRun, WantSubRun, SkipToNextSubRun, SkipToFirstEvent, DropDuplicate, WantEvent,
           SkipEvent, EndSkipping, ReadRunOrSubRun, ReadEvent, ReadEventThrows, MoveTo
  <2>5. OpenFirst \/ ReadFile => RoomForSecondaries
    BY DEF OpenFirst, ReadFile
  <2> QED BY <2>1, <2>2, <2>3, <2>4, <2>5 DEF Goes
<1>5. principals' \in [Levels -> ReadPrincipal \cup {NoPrincipal}]
  <2> DEFINE P == ReadPrincipal \cup {NoPrincipal}
  <2>1. principals \in [Levels -> P] /\ Gone \in [Levels -> P]
    BY DEF SecondaryTypeOK, Gone
  <2>2. ASSUME NEW id \in ID PROVE Principal(id) \in P
    BY DEF Principal, ReadPrincipal
  <2>3. CASE UNCHANGED principals \/ principals' = Gone
    BY <2>1, <2>3
  <2>4. CASE Ahead
    BY <2>1, <2>4 DEF Ahead
  <2>5. CASE ReadRunSubRun
    <3>1. entry \in ID
      BY <2>5, CursorType DEF ReadRunSubRun, ReadRunOrSubRun, SecondaryTypeOK, TypeOK
    <3> QED BY <2>1, <2>2, <2>5, <3>1 DEF ReadRunSubRun
  <2>6. CASE ReadThisEvent
    <3>1. entry \in ID
      BY <2>6, CursorType DEF ReadThisEvent, ReadEvent, SecondaryTypeOK, TypeOK
    <3> QED BY <2>1, <2>2, <2>6, <3>1 DEF ReadThisEvent
  <2>7. OpenFirst \/ ReadFile \/ Stop \/ ReadFails => UNCHANGED principals \/ principals' = Gone
    BY DEF OpenFirst, ReadFile, Stop, ReadFails
  <2> QED BY <2>3, <2>4, <2>5, <2>6, <2>7 DEF Goes
<1>6. rootFile' = 0 => principals' = Gone
  <2>1. CASE OpenFirst
    BY <2>1 DEF OpenFirst, Construct, SecondaryTypeOK
  <2>2. CASE ReadFile \/ Stop
    BY <2>2 DEF ReadFile, Stop
  <2>3. CASE Ahead
    <3>1. rootFile' = rootFile
      BY <2>3 DEF Ahead, Limits, Wanted, sequence,
           LimitReached, FirstItem, AskFile, NoMoreEntries, SkipToFirstRun, WantRun, SkipToNextRun,
           SkipToFirstSubRun, WantSubRun, SkipToNextSubRun, SkipToFirstEvent, DropDuplicate, WantEvent,
           SkipEvent, EndSkipping, MoveTo
    <3>2. [Gone EXCEPT !["Event"] = NoPrincipal] = Gone
      BY DEF Gone
    <3> QED BY <2>3, <3>1, <3>2 DEF Ahead, SecondaryTypeOK
  <2>4. CASE ReadRunSubRun \/ ReadThisEvent
    BY <2>4 DEF ReadRunSubRun, ReadThisEvent, ReadRunOrSubRun, ReadEvent, sequence, SecondaryTypeOK, TypeOK
  <2>5. CASE ReadFails
    BY <2>5 DEF ReadFails, ReadEventThrows, MoveTo, sequence, SecondaryTypeOK
  <2> QED BY <2>1, <2>2, <2>3, <2>4, <2>5 DEF Goes
<1> QED BY <1>1, <1>2, <1>3, <1>4, <1>5, <1>6 DEF SecondaryTypeOK, asking, Busy

(* The principal that asks, and the file that is asked.                    *)
LEMMA AskerType ==
  ASSUME SecondaryTypeOK, Busy
  PROVE  /\ request \in [level : Levels, product : Products]
         /\ asker \in ReadPrincipal /\ asker.id \in ID
BY DEF SecondaryTypeOK, Busy, Alive, asker, ReadPrincipal

(* A search in a secondary file stays in its index.                        *)
LEMMA SoughtType ==
  ASSUME SecondaryTypeOK, AskNext
  PROVE  /\ rootFile # 0 /\ asker.next \in DOMAIN cursors
         /\ asked \in Attached /\ IndexOf(asked) \in Seq(ID)
         /\ Sought \in 1..End(IndexOf(asked)) /\ cursor \in 1..End(IndexOf(asked))
<1>1. asker.next \in Nat \ {0} /\ asker.next <= Len(cursors) /\ cursors \in Seq(Nat)
  BY AskerType DEF AskNext, ReadPrincipal, SecondaryTypeOK
<1>2. asker.next \in DOMAIN cursors
  BY <1>1
<1>3. rootFile # 0
  BY AskerType DEF SecondaryTypeOK, AskNext, Busy, Alive, Gone
<1>4. asked \in Attached /\ IndexOf(asked) \in Seq(ID)
  BY <1>2, <1>3, FileAtType DEF asked
<1>5. cursor \in 1..End(IndexOf(asked))
  <2>1. cursors[asker.next] \in 0..End(IndexOf(asked))
    BY <1>2, <1>3 DEF SecondaryTypeOK, CursorsType, asked
  <2>2. End(IndexOf(asked)) \in Nat \ {0}
    BY <1>4 DEF End
  <2> QED BY <2>1, <2>2 DEF cursor
<1>6. FindExactly(IndexOf(asked), asker.id) \in 1..End(IndexOf(asked))
  BY <1>4, FirstOfProperties DEF FindExactly
<1> QED BY <1>2, <1>3, <1>4, <1>5, <1>6 DEF Sought

LEMMA AnswersType ==
  ASSUME SecondaryTypeOK, Asks \/ Answers, TypeOK'
  PROVE  SecondaryTypeOK'
<1>1. UNCHANGED <<vars, stk, secondaryFileNames>>
  BY DEF Asks, Ask, Answers, AnswerFound, AnswerMissing, CannotOpen,
         NotThere, ReadsPrincipal, AssertionFails, SeveralEntries, Outcome
<1>2. UNCHANGED <<catalog, opts, item, rootFile, current>>
  BY <1>1 DEF vars, config, sequence, loop
<1>3. item # "Construct" \/ cursors = <<>>
  BY DEF SecondaryTypeOK
<1>4. CASE Asks
  <2>1. PICK level \in Levels, product \in Products : Ask(level, product)
    BY <1>4 DEF Asks
  <2>2. /\ request' \in [level : Levels, product : Products]
        /\ request'.level = level /\ Alive(level)
        /\ UNCHANGED <<stk, secondaryFileNames, cursors, principals>>
        /\ answer'.status \in Statuses
    BY <2>1 DEF Ask, NoAnswer, Statuses
  <2>3. requests' \in 0..MaxRequests
    BY <2>1, RequestsAssumption DEF Ask, SecondaryTypeOK
  <2>4. CursorsType'
    BY <1>2, <2>2 DEF SecondaryTypeOK, CursorsType, FileAt, IndexOf
  <2>5. principals'[request'.level] # NoPrincipal
    BY <2>2 DEF Alive
  <2> QED BY <1>2, <2>2, <2>3, <2>4, <2>5 DEF SecondaryTypeOK, Walked, Alive
<1>5. CASE Answers
  <2>1. Busy
    BY <1>5 DEF Answers, AnswerFound, AnswerMissing, CannotOpen, AskNext, Seeks,
         NotThere, ReadsPrincipal, AssertionFails, SeveralEntries
  <2>2. cursors' = cursors \/ (AskNext /\ cursors' = [cursors EXCEPT ![asker.next] = Sought])
    BY <1>5 DEF Answers, AnswerFound, AnswerMissing, CannotOpen, Seeks,
         NotThere, ReadsPrincipal, AssertionFails, SeveralEntries
  <2>3. cursors' \in Seq(Nat) /\ CursorsType' /\ (item = "Construct" => cursors' = <<>>)
    <3>1. CASE cursors' = cursors
      BY <1>1, <1>2, <3>1 DEF SecondaryTypeOK, CursorsType, FileAt, IndexOf
    <3>2. CASE AskNext /\ cursors' = [cursors EXCEPT ![asker.next] = Sought]
      <4>1. /\ rootFile # 0 /\ asker.next \in 1..Len(cursors) /\ cursors \in Seq(Nat)
            /\ Sought \in 1..End(IndexOf(asked)) /\ Sought \in Nat
        <5>1. End(IndexOf(asked)) \in Nat
          BY <3>2, SoughtType DEF End
        <5>2. cursors \in Seq(Nat)
          BY DEF SecondaryTypeOK
        <5>3. rootFile # 0 /\ asker.next \in 1..Len(cursors) /\ Sought \in 1..End(IndexOf(asked))
          BY <3>2, SoughtType
        <5> QED BY <5>1, <5>2, <5>3
      <4>2. cursors' \in Seq(Nat) /\ DOMAIN cursors' = DOMAIN cursors
        BY <3>2, <4>1, PutType
      <4>3. ASSUME NEW i \in DOMAIN cursors PROVE cursors'[i] \in 0..End(IndexOf(FileAt(i)))
        <5>1. CASE i = asker.next
          BY <3>2, <4>1, <4>3, <5>1 DEF asked
        <5>2. CASE i # asker.next
          <6>1. cursors'[i] = cursors[i]
            BY <3>2, <4>3, <5>2
          <6> QED BY <4>1, <4>3, <6>1 DEF SecondaryTypeOK, CursorsType
        <5> QED BY <5>1, <5>2
      <4> QED BY <1>1, <1>2, <4>1, <4>2, <4>3 DEF CursorsType, FileAt, IndexOf, SecondaryTypeOK
    <3> QED BY <2>2, <3>1, <3>2
  <2>4. /\ principals' \in [Levels -> ReadPrincipal \cup {NoPrincipal}]
        /\ rootFile = 0 => principals' = Gone
        /\ \A level \in Levels : Alive(level) => Alive(level)'
    <3>1. CASE UNCHANGED principals
      BY <3>1 DEF SecondaryTypeOK, Alive
    <3>2. ASSUME NEW P \in ReadPrincipal, AskNext, principals' = [principals EXCEPT ![request.level] = P]
          PROVE  /\ principals' \in [Levels -> ReadPrincipal \cup {NoPrincipal}]
                 /\ rootFile = 0 => principals' = Gone
                 /\ \A level \in Levels : Alive(level) => Alive(level)'
      <4>1. rootFile # 0 /\ P # NoPrincipal
        BY <3>2, SoughtType DEF ReadPrincipal, NoPrincipal, ID, RunEntry
      <4> QED BY <2>1, <3>2, <4>1, AskerType DEF SecondaryTypeOK, Alive
    <3>3. ASSUME NEW found \in Seq(Places), AskNext, MovesOn(found)
          PROVE  /\ principals' \in [Levels -> ReadPrincipal \cup {NoPrincipal}]
                 /\ rootFile = 0 => principals' = Gone
                 /\ \A level \in Levels : Alive(level) => Alive(level)'
      <4> DEFINE P == [id |-> asker.id, next |-> asker.next + 1, found |-> found]
      <4>1. P \in ReadPrincipal
        BY <2>1, AskerType DEF ReadPrincipal
      <4> QED BY <3>2, <3>3, <4>1 DEF MovesOn
    <3>4. CASE NotThere \/ ReadsPrincipal
      <4>1. asker.found \in Seq(Places) /\ AskNext
        BY <2>1, <3>4, AskerType DEF ReadPrincipal, NotThere, ReadsPrincipal, Seeks
      <4>2. [file |-> asker.next, pos |-> Sought] \in Places
        <5>1. End(IndexOf(asked)) \in Nat
          BY <4>1, SoughtType DEF End
        <5> QED BY <4>1, <5>1, <2>1, SoughtType, AskerType DEF Places, ReadPrincipal
      <4>3. \E found \in Seq(Places) : MovesOn(found)
        BY <3>4, <4>1, <4>2, AppendType DEF NotThere, ReadsPrincipal
      <4> QED BY <3>3, <4>1, <4>3
    <3>5. ~ NotThere /\ ~ ReadsPrincipal => UNCHANGED principals
      BY <1>5 DEF Answers, AnswerFound, AnswerMissing, CannotOpen, AssertionFails, SeveralEntries, Outcome
    <3> QED BY <3>1, <3>4, <3>5
  <2>5. /\ request' \in {request, NoRequest} /\ answer'.status \in Statuses
        /\ requests' = requests
    BY <1>5 DEF Answers, AnswerFound, AnswerMissing, CannotOpen, NotThere, ReadsPrincipal,
       AssertionFails, SeveralEntries, Outcome, Statuses, asking, SecondaryTypeOK
  <2> QED BY <1>1, <1>2, <1>3, <2>1, <2>3, <2>4, <2>5
          DEF SecondaryTypeOK, Busy, Walked
<1> QED BY <1>4, <1>5

LEMMA SecondaryTypeStep == SecondaryTypeOK /\ [SecondaryNext]_allVars => SecondaryTypeOK'
<1> SUFFICES ASSUME SecondaryTypeOK, [SecondaryNext]_allVars PROVE SecondaryTypeOK'
  OBVIOUS
<1>1. [Next]_vars /\ TypeOK'
  BY StepOfInput, TypeCorrectStep DEF SecondaryTypeOK
<1>2. CASE UNCHANGED allVars
  BY <1>1, <1>2 DEF allVars, vars, secVars, config, sequence, loop, asking, SecondaryTypeOK, CursorsType,
     FileAt, IndexOf, Walked, Busy, Alive
<1> QED BY <1>1, <1>2, WalkType, LoopType, AnswersType DEF SecondaryNext

(* For all files, lists, configurations and requests: the lists are ready  *)
(* before the first file is opened, each cursor stays in the index of its  *)
(* own file, and only a principal that is there asks.                      *)
THEOREM SecondaryTypeCorrect == SecondarySpec => []SecondaryTypeOK
BY SecondaryTypeStep, SecondaryTypeInit, PTL DEF SecondarySpec

-----------------------------------------------------------------------------
(***************************************************************************)
(* Who answers                                                             *)
(***************************************************************************)

(* The cursors, which all levels share, are on first entries: a search     *)
(* that leaves its cursor where it is is as good as one from the front.    *)
OnFirst(ix, p) == p \in DOMAIN ix => FindExactly(ix, ix[p]) = p

CursorsOnFirst == rootFile # 0 => \A i \in DOMAIN cursors : OnFirst(IndexOf(FileAt(i)), cursors[i])

(* A principal that asks next has got a secondary principal from each of   *)
(* the files before that hold it, in the order of the list.                *)
InOrderOf(p, list, level) ==
  /\ EntryType(p.id) = level
  /\ p.next <= Len(list) + 1
  /\ \A n \in DOMAIN p.found :
       /\ p.found[n].file \in 1..(p.next - 1)
       /\ Holds(list[p.found[n].file], p.id)
       /\ p.found[n].pos = PlaceIn(list[p.found[n].file], p.id)
  /\ \A i \in 1..(p.next - 1) :
       Holds(list[i], p.id) => \E n \in DOMAIN p.found : p.found[n].file = i
  /\ \A m, n \in DOMAIN p.found : m < n => p.found[m].file < p.found[n].file

AskedInOrder ==
  \A level \in Levels :
    Alive(level) => InOrderOf(principals[level], secondaryFileNames[current], level)

NotAnswered == item = "Construct" => answer = NoAnswer

AnswerInv ==
  /\ SecondaryTypeOK
  /\ NotAnswered
  /\ CursorsOnFirst
  /\ AskedInOrder
  /\ AnswersFromTheFirstFile

(* A search from the front ends on the first entry there is, if any.       *)
LEMMA FoundExactly ==
  ASSUME NEW ix \in Seq(ID), NEW id
  PROVE  /\ FindExactly(ix, id) # End(ix) => ix[FindExactly(ix, id)] = id
         /\ OnFirst(ix, FindExactly(ix, id))
         /\ OnFirst(ix, 0) /\ OnFirst(ix, 1)
<1>1. DOMAIN ix = 1..Len(ix) /\ Len(ix) \in Nat /\ End(ix) = Len(ix) + 1
  BY DEF End
<1>2. FindExactly(ix, id) # End(ix) => ix[FindExactly(ix, id)] = id
  BY FirstOfProperties DEF FindExactly
<1>3. OnFirst(ix, FindExactly(ix, id))
  BY <1>1, <1>2 DEF OnFirst
<1>4. OnFirst(ix, 1)
  <2> SUFFICES ASSUME 1 \in DOMAIN ix PROVE FindExactly(ix, ix[1]) = 1
    BY DEF OnFirst
  <2> DEFINE S == {p \in DOMAIN ix : ix[p] = ix[1]}
  <2>1. FirstOf(ix, S) \in 1..End(ix) /\ \A q \in S : FirstOf(ix, S) <= q
    BY FirstOfProperties
  <2>2. 1 \in S
    OBVIOUS
  <2>3. FirstOf(ix, S) \in 1..End(ix) /\ FirstOf(ix, S) <= 1
    BY <2>1, <2>2
  <2> HIDE DEF S
  <2>4. FirstOf(ix, S) = 1
    BY <1>1, <2>3
  <2> QED BY <2>4 DEF FindExactly, S
<1>5. OnFirst(ix, 0)
  BY <1>1 DEF OnFirst
<1> QED BY <1>2, <1>3, <1>4, <1>5

(* Where a search from a shared cursor ends.                               *)
LEMMA SoughtFromTheFront ==
  ASSUME AnswerInv, AskNext
  PROVE  /\ OnFirst(IndexOf(asked), Sought)
         /\ Sought = End(IndexOf(asked)) \/ OnEntryOfItsLevel
              => Sought = FindExactly(IndexOf(asked), asker.id)
<1> DEFINE ix == IndexOf(asked)
<1>1. /\ rootFile # 0 /\ asker.next \in DOMAIN cursors /\ ix \in Seq(ID)
      /\ cursor \in 1..End(ix) /\ asker.id \in ID /\ request.level \in Levels
  BY SoughtType, AskerType DEF AnswerInv, AskNext
<1>2. EntryType(asker.id) = request.level
  BY <1>1 DEF AnswerInv, AskedInOrder, InOrderOf, AskNext, SecondaryTypeOK, asker
<1>3. OnFirst(ix, cursor)
  BY <1>1, FoundExactly DEF AnswerInv, CursorsOnFirst, cursor, asked
<1>4. CASE cursor # End(ix) /\ SameID(ix[cursor], asker.id)
  <2>1. Sought = cursor /\ cursor \in DOMAIN ix
    BY <1>1, <1>4 DEF Sought, End
  <2>2. ix[cursor] \in ID
    BY <1>1, <2>1
  <2>3. OnEntryOfItsLevel => EntryType(ix[cursor]) = EntryType(asker.id)
    BY <1>2, <1>4, <2>1 DEF OnEntryOfItsLevel, TypeAt
  <2>4. EntryType(ix[cursor]) = EntryType(asker.id) => ix[cursor] = asker.id
    <3>1. ASSUME NEW a \in ID, NEW b \in ID, EntryType(a) = request.level, EntryType(b) = request.level,
                 SameID(a, b)
          PROVE  a = b
      <4>1. /\ request.level = "Run" => a.run = b.run
            /\ request.level = "SubRun" => SubRunOf(a) = SubRunOf(b)
            /\ request.level = "Event" => a = b
        BY <3>1 DEF SameID
      <4> QED BY <1>1, <3>1, <4>1 DEF EntryType, SubRunOf, SubRunEntry, ID, Levels
    <3> QED BY <1>1, <1>2, <1>4, <2>2, <3>1
  <2> QED BY <1>3, <1>4, <2>1, <2>3, <2>4 DEF OnFirst
<1>5. CASE ~ (cursor # End(ix) /\ SameID(ix[cursor], asker.id))
  BY <1>1, <1>5, FoundExactly DEF Sought
<1> QED BY <1>4, <1>5

(* What a step leaves alone.                                               *)
LEMMA CursorsKept ==
  CursorsOnFirst /\ UNCHANGED <<opts, rootFile, current, secondaryFileNames, cursors>>
    => CursorsOnFirst'
BY DEF CursorsOnFirst, FileAt, IndexOf

(* The index of a file is the same after a step.                           *)
LEMMA OrderAfter ==
  ASSUME NEW level, opts' = opts,
         InOrderOf(principals'[level], secondaryFileNames'[current'], level)
  PROVE  InOrderOf(principals[level], secondaryFileNames[current], level)'
<1> DEFINE p    == principals[level]
           list == secondaryFileNames[current]
<1>1. InOrderOf(p', list', level)
  OBVIOUS
<1> HIDE DEF p, list
<1>2. (/\ EntryType(p.id) = level /\ p.next <= Len(list) + 1)'
  BY <1>1 DEF InOrderOf
<1>3. (\A m, n \in DOMAIN p.found : m < n => p.found[m].file < p.found[n].file)'
  BY <1>1 DEF InOrderOf
<1>4. (\A n \in DOMAIN p.found : p.found[n].file \in 1..(p.next - 1))'
  BY <1>1 DEF InOrderOf
<1>5. (\A n \in DOMAIN p.found : Holds(list[p.found[n].file], p.id))'
  BY <1>1 DEF InOrderOf, Holds, PlaceIn, IndexOf
<1>6. (\A n \in DOMAIN p.found : p.found[n].pos = PlaceIn(list[p.found[n].file], p.id))'
  BY <1>1 DEF InOrderOf, PlaceIn, IndexOf
<1>7. (\A i \in 1..(p.next - 1) :
         Holds(list[i], p.id) => \E n \in DOMAIN p.found : p.found[n].file = i)'
  BY <1>1 DEF InOrderOf, Holds, PlaceIn, IndexOf
<1>8. InOrderOf(p, list, level)'
  BY <1>2, <1>3, <1>4, <1>5, <1>6, <1>7 DEF InOrderOf
<1> QED BY <1>8 DEF p, list

LEMMA AskedKept ==
  ASSUME AskedInOrder, UNCHANGED <<opts, current, secondaryFileNames>>,
         NEW level \in Levels, principals'[level] = principals[level]
  PROVE  (Alive(level) => InOrderOf(principals[level], secondaryFileNames[current], level))'
<1>1. Alive(level) => InOrderOf(principals'[level], secondaryFileNames'[current'], level)
  BY DEF AskedInOrder
<1> QED BY <1>1, OrderAfter DEF Alive

LEMMA AnswerKept ==
  AnswersFromTheFirstFile /\ UNCHANGED <<opts, answer, secondaryFileNames>>
    => AnswersFromTheFirstFile'
BY DEF AnswersFromTheFirstFile, Holds, PlaceIn, IndexOf

LEMMA AnswerInit == SecondaryInit => AnswerInv
<1> SUFFICES ASSUME SecondaryInit PROVE AnswerInv
  OBVIOUS
<1>1. SecondaryTypeOK
  BY SecondaryTypeInit
<1> QED BY <1>1 DEF AnswerInv, SecondaryInit, Init, NotAnswered, CursorsOnFirst, AskedInOrder, Alive, Gone,
       AnswersFromTheFirstFile, NoAnswer

LEMMA WalkAnswers ==
  ASSUME AnswerInv, Walk, SecondaryTypeOK'
  PROVE  AnswerInv'
<1>1. UNCHANGED <<vars, cursors, principals, asking>>
  BY DEF Walk, TakePrimary, TakeName
<1>2. item = "Construct" /\ rootFile = 0 /\ principals = Gone /\ answer = NoAnswer
  BY DEF Walk, TakePrimary, TakeName, AnswerInv, NotAnswered, SecondaryTypeOK, Walked
<1> QED BY <1>1, <1>2 DEF AnswerInv, vars, sequence, loop, asking, NotAnswered, CursorsOnFirst, AskedInOrder,
       Alive, Gone, AnswersFromTheFirstFile, NoAnswer

LEMMA LoopAnswers ==
  ASSUME AnswerInv, Goes, SecondaryTypeOK', [Next]_vars
  PROVE  AnswerInv'
<1>1. UNCHANGED <<secondaryFileNames, answer, opts>> /\ item' # "Construct"
  BY ConfigFixed, ConstructOnce
     DEF Goes, OpenFirst, ReadFile, Stop, Ahead, ReadRunSubRun, ReadThisEvent, ReadFails, Loop, asking
<1>2. AnswersFromTheFirstFile' /\ NotAnswered'
  BY <1>1, AnswerKept DEF AnswerInv, NotAnswered
<1>3. CASE OpenFirst \/ ReadFile \/ Stop
  <2>1. principals' = Gone
    <3>1. OpenFirst => principals' = Gone
      BY DEF OpenFirst, Construct, AnswerInv, SecondaryTypeOK
    <3> QED BY <1>3, <3>1 DEF ReadFile, Stop
  <2>2. AskedInOrder'
    BY <2>1 DEF AskedInOrder, Alive, Gone
  <2>3. CursorsOnFirst'
    <3>1. rootFile' = 0 \/ (rootFile' # 0 /\ RoomForSecondaries)
      BY <1>3 DEF OpenFirst, ReadFile, Stop, StopJob
    <3>2. CASE rootFile' # 0 /\ RoomForSecondaries
      <4>1. \A i \in DOMAIN cursors' : cursors'[i] = 0
        BY <3>2 DEF RoomForSecondaries
      <4>2. ASSUME NEW i \in DOMAIN cursors' PROVE OnFirst(IndexOf(FileAt(i)), cursors[i])'
        <5>1. IndexOf(FileAt(i))' \in Seq(ID)
          <6>1. SecondaryTypeOK' => Indexed'
            BY FilesIndexed, PTL
          <6> QED BY <3>2, <4>2, <6>1 DEF Indexed
        <5> DEFINE ix == IndexOf(FileAt(i))'
        <5>2. ix \in Seq(ID)
          BY <5>1
        <5> HIDE DEF ix
        <5>3. 0 \notin DOMAIN ix
          BY <5>2
        <5> QED BY <4>1, <5>3 DEF OnFirst, ix
      <4> QED BY <4>2 DEF CursorsOnFirst
    <3> QED BY <3>1, <3>2 DEF CursorsOnFirst
  <2> QED BY <1>2, <2>2, <2>3 DEF AnswerInv
<1>4. CASE Ahead \/ ReadRunSubRun \/ ReadThisEvent \/ ReadFails
  <2>1. UNCHANGED <<cursors, rootFile, current>>
    BY <1>4 DEF Ahead, ReadRunSubRun, ReadThisEvent, ReadFails, Limits, Wanted, sequence,
           LimitReached, FirstItem, AskFile, NoMoreEntries, SkipToFirstRun, WantRun, SkipToNextRun,
           SkipToFirstSubRun, WantSubRun, SkipToNextSubRun, SkipToFirstEvent, DropDuplicate, WantEvent,
           SkipEvent, EndSkipping, ReadRunOrSubRun, ReadEvent, ReadEventThrows, MoveTo
  <2>2. CursorsOnFirst'
    BY <1>1, <2>1, CursorsKept DEF AnswerInv
  <2>3. ASSUME NEW level \in Levels
        PROVE  (Alive(level) => InOrderOf(principals[level], secondaryFileNames[current], level))'
    <3>1. CASE principals'[level] = principals[level]
      BY <1>1, <2>1, <3>1, AskedKept DEF AnswerInv
    <3>2. CASE principals'[level] = NoPrincipal
      BY <3>2 DEF Alive
    <3>3. CASE principals'[level] = Principal(entry) /\ item = level /\ item \in Levels
      <4>1. type = item /\ rootFile # 0
        BY <3>3 DEF AnswerInv, SecondaryTypeOK, TypeOK, Levels
      <4>2. EntryType(entry) = level
        BY <3>3, <4>1 DEF type, TypeAt, Levels, entry
      <4>3. Len(secondaryFileNames[current]) \in Nat
        BY <4>1, FileAtType DEF AnswerInv
      <4>4. principals'[level] = [id |-> entry, next |-> 1, found |-> <<>>]
        BY <3>3 DEF Principal
      <4> QED BY <1>1, <2>1, <4>2, <4>3, <4>4 DEF InOrderOf
    <3>4. principals \in [Levels -> ReadPrincipal \cup {NoPrincipal}]
      BY DEF AnswerInv, SecondaryTypeOK
    <3>5. CASE Ahead
      BY <3>1, <3>2, <3>4, <3>5 DEF Ahead
    <3>6. CASE ReadRunSubRun
      BY <3>1, <3>2, <3>3, <3>4, <3>6 DEF ReadRunSubRun, ReadRunOrSubRun, Gone, Levels
    <3>7. CASE ReadThisEvent
      BY <3>1, <3>3, <3>4, <3>7 DEF ReadThisEvent, ReadEvent, Levels
    <3>8. CASE ReadFails
      BY <3>1, <3>8 DEF ReadFails
    <3> QED BY <1>4, <3>5, <3>6, <3>7, <3>8
  <2> QED BY <1>2, <2>2, <2>3 DEF AnswerInv, AskedInOrder
<1> QED BY <1>3, <1>4 DEF Goes
(* What an asker and its list are while a request waits.                   *)
LEMMA AskerInOrder ==
  ASSUME AnswerInv, Busy, rootFile # 0
  PROVE  /\ asker \in ReadPrincipal /\ request.level \in Levels
         /\ secondaryFileNames[current] \in Seq(Names)
         /\ DOMAIN cursors = DOMAIN secondaryFileNames[current]
         /\ Len(cursors) = Len(secondaryFileNames[current])
         /\ InOrderOf(asker, secondaryFileNames[current], request.level)
<1>1. request \in [level : Levels, product : Products] /\ asker \in ReadPrincipal
  BY AskerType DEF AnswerInv
<1>2. secondaryFileNames[current] \in Seq(Names)
  BY FileAtType DEF AnswerInv
<1>3. DOMAIN cursors = DOMAIN secondaryFileNames[current] /\ cursors \in Seq(Nat)
  BY DEF AnswerInv, SecondaryTypeOK, CursorsType
<1>4. Len(cursors) = Len(secondaryFileNames[current])
  BY <1>2, <1>3
<1>5. Alive(request.level)
  BY DEF AnswerInv, SecondaryTypeOK
<1> QED BY <1>1, <1>2, <1>3, <1>4, <1>5 DEF AnswerInv, AskedInOrder, asker

(* A principal that asks has its file open.                                *)
LEMMA AskerHasFile == SecondaryTypeOK /\ Busy => rootFile # 0
BY AskerType DEF SecondaryTypeOK, Busy, Alive, Gone

LEMMA FoundInFirst ==
  ASSUME AnswerInv, AnswerFound
  PROVE  AnswersFromTheFirstFile'
<1> DEFINE list == secondaryFileNames[current]
           n    == FirstOf(asker.found, Having)
<1>1. UNCHANGED <<opts, secondaryFileNames>> /\ Busy /\ Having # {}
  BY DEF AnswerFound, Outcome, vars, config
<1>2. /\ asker \in ReadPrincipal /\ list \in Seq(Names) /\ InOrderOf(asker, list, request.level)
  BY <1>1, AskerInOrder, AskerHasFile DEF AnswerInv
<1>3. n \in Having /\ \A m \in Having : n <= m
  <2>1. asker.found \in Seq(Places) /\ Having \in SUBSET DOMAIN asker.found
    BY <1>2 DEF ReadPrincipal, Having
  <2> QED BY <1>1, <2>1, FirstOfSequence
<1>4. answer' = [status |-> "found", level |-> request.level, product |-> request.product,
                 id |-> asker.id, primary |-> current, from |-> asker.found[n]]
  BY DEF AnswerFound, Outcome
<1> DEFINE holders == {i \in DOMAIN list : /\ request.product \in Store[list[i]].products
                                         /\ Holds(list[i], asker.id)}
           from == asker.found[n]
<1>5. n \in DOMAIN asker.found /\ n \in Nat /\ from \in Places /\ DOMAIN list = 1..Len(list)
      /\ Len(list) \in Nat /\ asker.next \in Nat
  <2>1. asker.found \in Seq(Places) /\ asker.next \in Nat
    BY <1>2 DEF ReadPrincipal
  <2>2. n \in DOMAIN asker.found
    BY <1>3 DEF Having
  <2> HIDE DEF n, list
  <2>3. n \in Nat /\ asker.found[n] \in Places
    BY <2>1, <2>2
  <2>4. DOMAIN list = 1..Len(list) /\ Len(list) \in Nat
    BY <1>2
  <2> QED BY <2>1, <2>2, <2>3, <2>4
<1>6. /\ from.file \in 1..(asker.next - 1) /\ Holds(list[from.file], asker.id)
      /\ from.pos = PlaceIn(list[from.file], asker.id) /\ asker.next <= Len(list) + 1
  BY <1>2, <1>5 DEF InOrderOf
<1>7. from.file \in holders
  <2>1. request.product \in Store[list[from.file]].products
    BY <1>3 DEF Having, FileAt
  <2>2. from.file \in DOMAIN list
    BY <1>5, <1>6 DEF Places
  <2> HIDE DEF from, list
  <2> QED BY <1>6, <2>1, <2>2
<1>8. ASSUME NEW i \in holders PROVE from.file <= i
  <2>1. CASE i >= asker.next
    BY <1>5, <1>6, <2>1
  <2>2. CASE i < asker.next
    <3>1. i \in 1..(asker.next - 1)
      BY <1>5, <2>2
    <3>2. PICK m \in DOMAIN asker.found : asker.found[m].file = i
      BY <1>2, <3>1 DEF InOrderOf
    <3>3. m \in Having
      BY <3>2 DEF Having, FileAt
    <3>4. n <= m /\ m \in Nat /\ (n < m => asker.found[n].file < asker.found[m].file)
      BY <1>2, <1>3, <1>5, <3>3 DEF InOrderOf, ReadPrincipal
    <3> QED BY <1>5, <3>2, <3>4 DEF Places
  <2> QED BY <1>5, <2>1, <2>2
<1> HIDE DEF n
<1>9. /\ answer'.status = "found" /\ answer'.primary = current /\ answer'.product = request.product
      /\ answer'.id = asker.id /\ answer'.from = from
  BY <1>4
<1>10. /\ from.file \in holders
       /\ \A i \in holders : from.file <= i
       /\ from.pos = PlaceIn(list[from.file], asker.id)
  BY <1>6, <1>7, <1>8
<1> HIDE DEF from
<1> QED BY <1>1, <1>9, <1>10 DEF AnswersFromTheFirstFile, Holds, PlaceIn, IndexOf

LEMMA MissingEverywhere ==
  ASSUME AnswerInv, AnswerMissing
  PROVE  AnswersFromTheFirstFile'
<1> DEFINE list == secondaryFileNames[current]
           holders == {i \in DOMAIN list : /\ request.product \in Store[list[i]].products
                                         /\ Holds(list[i], asker.id)}
<1>1. UNCHANGED <<opts, secondaryFileNames>> /\ Busy /\ Having = {} /\ asker.next > Len(cursors)
  BY DEF AnswerMissing, Outcome, vars, config
<1>2. /\ asker \in ReadPrincipal /\ list \in Seq(Names) /\ InOrderOf(asker, list, request.level)
      /\ Len(cursors) = Len(list)
  BY <1>1, AskerInOrder, AskerHasFile DEF AnswerInv
<1>3. answer' = [status |-> "missing", level |-> request.level, product |-> request.product,
                 id |-> asker.id, primary |-> current, from |-> NoPlace]
  BY DEF AnswerMissing, Outcome
<1>4. ASSUME NEW i \in holders PROVE FALSE
  <2>1. i \in 1..(asker.next - 1)
    BY <1>1, <1>2 DEF ReadPrincipal
  <2>2. PICK m \in DOMAIN asker.found : asker.found[m].file = i
    BY <1>2, <2>1 DEF InOrderOf
  <2>3. m \in Having
    BY <2>2 DEF Having, FileAt
  <2> QED BY <1>1, <2>3
<1>5. holders = {}
  BY <1>4
<1> QED BY <1>1, <1>3, <1>5 DEF AnswersFromTheFirstFile, Holds, PlaceIn, IndexOf

(* The cursors after a search.                                             *)
LEMMA SeekKeepsFirst ==
  ASSUME AnswerInv, Seeks, UNCHANGED <<opts, rootFile, current, secondaryFileNames>>
  PROVE  CursorsOnFirst'
<1>1. AskNext /\ cursors' = [cursors EXCEPT ![asker.next] = Sought]
  BY DEF Seeks
<1>2. OnFirst(IndexOf(asked), Sought) /\ asker.next \in DOMAIN cursors /\ rootFile # 0
  BY <1>1, SoughtFromTheFront, SoughtType DEF AnswerInv
<1>3. ASSUME NEW i \in DOMAIN cursors PROVE OnFirst(IndexOf(FileAt(i)), cursors'[i])
  <2>1. CASE i = asker.next
    BY <1>1, <1>2, <2>1 DEF asked
  <2>2. CASE i # asker.next
    BY <1>1, <1>2, <2>2 DEF AnswerInv, CursorsOnFirst
  <2> QED BY <2>1, <2>2
<1>4. DOMAIN cursors' = DOMAIN cursors
  BY <1>1
<1> QED BY <1>3, <1>4 DEF CursorsOnFirst, FileAt, IndexOf, OnFirst
(* A principal that moves on to the next file has not missed one.          *)
LEMMA MovesInOrder ==
  ASSUME AnswerInv, NotThere \/ ReadsPrincipal
  PROVE  AskedInOrder'
<1> DEFINE list  == secondaryFileNames[current]
           level == request.level
           ix    == IndexOf(asked)
<1>1. /\ UNCHANGED <<opts, rootFile, current, secondaryFileNames>> /\ AskNext /\ Busy
  BY DEF NotThere, ReadsPrincipal, Seeks, AskNext, vars, config, sequence
<1>2. /\ asker \in ReadPrincipal /\ level \in Levels /\ list \in Seq(Names)
      /\ InOrderOf(asker, list, level) /\ Len(cursors) = Len(list)
  BY <1>1, AskerInOrder, AskerHasFile DEF AnswerInv
<1>3. /\ asker.next \in 1..Len(list) /\ asker.next \in Nat /\ Len(list) \in Nat
      /\ asker.found \in Seq(Places)
  BY <1>1, <1>2 DEF AskNext, ReadPrincipal
<1>4. FindExactly(ix, asker.id) = PlaceIn(list[asker.next], asker.id)
  BY DEF PlaceIn, asked, FileAt
<1>5. Holds(list[asker.next], asker.id) <=> FindExactly(ix, asker.id) # End(ix)
  BY DEF Holds, PlaceIn, asked, FileAt
<1>6. ASSUME NEW found \in Seq(Places),
             InOrderOf([id |-> asker.id, next |-> asker.next + 1, found |-> found], list, level),
             MovesOn(found)
      PROVE  AskedInOrder'
  <2> SUFFICES ASSUME NEW l \in Levels
               PROVE  (Alive(l) => InOrderOf(principals[l], secondaryFileNames[current], l))'
    BY DEF AskedInOrder
  <2>1. principals \in [Levels -> ReadPrincipal \cup {NoPrincipal}]
    BY DEF AnswerInv, SecondaryTypeOK
  <2>2. CASE l = level
    <3>1. principals'[l] = [id |-> asker.id, next |-> asker.next + 1, found |-> found]
      BY <1>6, <2>1, <2>2 DEF MovesOn
    <3>2. InOrderOf(principals'[l], secondaryFileNames'[current'], l)
      BY <1>1, <1>6, <2>2, <3>1
    <3> QED BY <1>1, <3>2, OrderAfter
  <2>3. CASE l # level
    <3>1. principals'[l] = principals[l]
      BY <1>6, <2>1, <2>3 DEF MovesOn
    <3> QED BY <1>1, <3>1, AskedKept DEF AnswerInv
  <2> QED BY <2>2, <2>3
<1>7. CASE NotThere
  <2>1. ~ Holds(list[asker.next], asker.id)
    BY <1>1, <1>5, <1>7, SoughtFromTheFront DEF NotThere
  <2> DEFINE p == [id |-> asker.id, next |-> asker.next + 1, found |-> asker.found]
  <2>2. p.id = asker.id /\ p.next = asker.next + 1 /\ p.found = asker.found
    OBVIOUS
  <2> HIDE DEF p, list
  <2>3. EntryType(p.id) = level /\ p.next <= Len(list) + 1
    BY <1>2, <1>3, <2>2 DEF InOrderOf
  <2>4. \A n \in DOMAIN p.found :
          /\ p.found[n].file \in 1..(p.next - 1)
          /\ Holds(list[p.found[n].file], p.id)
          /\ p.found[n].pos = PlaceIn(list[p.found[n].file], p.id)
    BY <1>2, <1>3, <2>2 DEF InOrderOf
  <2>5. ASSUME NEW i \in 1..(p.next - 1), Holds(list[i], p.id)
        PROVE  \E n \in DOMAIN p.found : p.found[n].file = i
    <3>1. i # asker.next
      BY <2>1, <2>2, <2>5
    <3>2. i \in 1..(asker.next - 1)
      BY <1>3, <2>2, <3>1
    <3> QED BY <1>2, <2>2, <2>5, <3>2 DEF InOrderOf
  <2>6. \A m, n \in DOMAIN p.found : m < n => p.found[m].file < p.found[n].file
    BY <1>2, <2>2 DEF InOrderOf
  <2>7. InOrderOf(p, list, level)
    BY <2>3, <2>4, <2>5, <2>6 DEF InOrderOf
  <2>8. MovesOn(asker.found)
    BY <1>7 DEF NotThere
  <2> QED BY <1>3, <1>6, <2>7, <2>8 DEF p, list
<1>8. CASE ReadsPrincipal
  <2> DEFINE place == [file |-> asker.next, pos |-> Sought]
             found == Append(asker.found, place)
             last  == Len(asker.found) + 1
             p == [id |-> asker.id, next |-> asker.next + 1, found |-> found]
  <2>1. Sought = FindExactly(ix, asker.id) /\ Sought # End(ix) /\ Sought \in Nat
    <3>1. OnEntryOfItsLevel
      BY <1>8 DEF ReadsPrincipal
    <3>2. Sought # End(ix)
      BY <1>2, <3>1 DEF OnEntryOfItsLevel, TypeAt, Levels
    <3>3. End(ix) \in Nat /\ Sought \in 1..End(ix)
      BY <1>1, SoughtType DEF AnswerInv, End
    <3> QED BY <1>1, <3>1, <3>2, <3>3, SoughtFromTheFront
  <2>2. Holds(list[asker.next], asker.id) /\ Sought = PlaceIn(list[asker.next], asker.id)
    BY <1>4, <1>5, <2>1
  <2>3. /\ found \in Seq(Places) /\ DOMAIN found = DOMAIN asker.found \cup {last}
        /\ last \notin DOMAIN asker.found /\ last \in Nat /\ DOMAIN asker.found \subseteq 1..(last - 1)
        /\ found[last] = place
        /\ \A n \in DOMAIN asker.found : found[n] = asker.found[n]
    <3>1. place \in Places
      BY <1>3, <2>1 DEF Places
    <3> HIDE DEF place
    <3> QED BY <1>3, <3>1
  <2>4. p.id = asker.id /\ p.next = asker.next + 1 /\ p.found = found
        /\ place.file = asker.next /\ place.pos = Sought
    OBVIOUS
  <2> HIDE DEF p, list, found, place, last
  <2>5. EntryType(p.id) = level /\ p.next <= Len(list) + 1
    BY <1>2, <1>3, <2>4 DEF InOrderOf
  <2>6. \A n \in DOMAIN p.found :
          /\ p.found[n].file \in 1..(p.next - 1)
          /\ Holds(list[p.found[n].file], p.id)
          /\ p.found[n].pos = PlaceIn(list[p.found[n].file], p.id)
    <3>1. ASSUME NEW n \in DOMAIN asker.found
          PROVE  /\ asker.found[n].file \in 1..(asker.next - 1)
                 /\ Holds(list[asker.found[n].file], asker.id)
                 /\ asker.found[n].pos = PlaceIn(list[asker.found[n].file], asker.id)
      BY <1>2 DEF InOrderOf
    <3>2. /\ found[last].file \in 1..(p.next - 1)
          /\ Holds(list[found[last].file], p.id)
          /\ found[last].pos = PlaceIn(list[found[last].file], p.id)
      <4>1. asker.next \in 1..(p.next - 1)
        BY <1>3, <2>4
      <4> QED BY <2>2, <2>3, <2>4, <4>1
    <3>3. ASSUME NEW n \in DOMAIN asker.found
          PROVE  /\ found[n].file \in 1..(p.next - 1)
                 /\ Holds(list[found[n].file], p.id)
                 /\ found[n].pos = PlaceIn(list[found[n].file], p.id)
      <4>1. found[n] = asker.found[n]
        BY <2>3
      <4>2. asker.found[n].file \in 1..(p.next - 1)
        BY <1>3, <2>4, <3>1
      <4> QED BY <2>4, <3>1, <4>1, <4>2
    <3> QED BY <2>3, <2>4, <3>2, <3>3
  <2>7. ASSUME NEW i \in 1..(p.next - 1), Holds(list[i], p.id)
        PROVE  \E n \in DOMAIN p.found : p.found[n].file = i
    <3>1. CASE i = asker.next
      BY <2>3, <2>4, <3>1
    <3>2. CASE i # asker.next
      <4>1. i \in 1..(asker.next - 1)
        BY <1>3, <2>4, <3>2
      <4>2. PICK n \in DOMAIN asker.found : asker.found[n].file = i
        BY <1>2, <2>4, <2>7, <4>1 DEF InOrderOf
      <4> QED BY <2>3, <2>4, <4>2
    <3> QED BY <3>1, <3>2
  <2>8. ASSUME NEW m \in DOMAIN p.found, NEW n \in DOMAIN p.found, m < n
        PROVE  p.found[m].file < p.found[n].file
    <3>1. m \in DOMAIN asker.found
      BY <2>3, <2>4, <2>8
    <3>2. CASE n \in DOMAIN asker.found
      BY <1>2, <2>3, <2>4, <2>8, <3>1, <3>2 DEF InOrderOf
    <3>3. CASE n = last
      <4>1. asker.found[m].file \in 1..(asker.next - 1)
        BY <1>2, <3>1 DEF InOrderOf
      <4> QED BY <1>3, <2>3, <2>4, <3>1, <3>3, <4>1
    <3> QED BY <2>3, <2>4, <3>2, <3>3
  <2>9. InOrderOf(p, list, level)
    BY <2>5, <2>6, <2>7, <2>8 DEF InOrderOf
  <2>10. MovesOn(found)
    BY <1>8 DEF ReadsPrincipal, found, place
  <2> QED BY <1>6, <2>3, <2>9, <2>10 DEF p, list
<1> QED BY <1>7, <1>8

LEMMA AnswersAnswer ==
  ASSUME AnswerInv, Asks \/ Answers, SecondaryTypeOK'
  PROVE  AnswerInv'
<1>1. UNCHANGED <<vars, stk, secondaryFileNames>>
  BY DEF Asks, Ask, Answers, AnswerFound, AnswerMissing, CannotOpen,
         NotThere, ReadsPrincipal, AssertionFails, SeveralEntries, Outcome
<1>2. UNCHANGED <<catalog, opts, item, rootFile, current>>
  BY <1>1 DEF vars, config, sequence, loop
<1>3. NotAnswered'
  <2>1. Asks => answer' = NoAnswer
    BY DEF Asks, Ask
  <2>2. Answers => rootFile # 0
    <3>1. Answers => Busy
      BY DEF Answers, AnswerFound, AnswerMissing, CannotOpen, AskNext, Seeks,
             NotThere, ReadsPrincipal, AssertionFails, SeveralEntries
    <3> QED BY <3>1, AskerHasFile DEF AnswerInv
  <2> QED BY <1>2, <2>1, <2>2 DEF NotAnswered, AnswerInv, SecondaryTypeOK
<1>4. CursorsOnFirst'
  <2>1. UNCHANGED cursors \/ Seeks
    BY DEF Asks, Ask, Answers, AnswerFound, AnswerMissing, CannotOpen,
           NotThere, ReadsPrincipal, AssertionFails, SeveralEntries
  <2> QED BY <1>1, <1>2, <2>1, CursorsKept, SeekKeepsFirst DEF AnswerInv
<1>5. AskedInOrder'
  <2>1. UNCHANGED principals \/ NotThere \/ ReadsPrincipal
    BY DEF Asks, Ask, Answers, AnswerFound, AnswerMissing, CannotOpen,
           AssertionFails, SeveralEntries, Outcome
  <2>2. CASE UNCHANGED principals
    <3>1. ASSUME NEW level \in Levels
          PROVE  (Alive(level) => InOrderOf(principals[level], secondaryFileNames[current], level))'
      BY <1>1, <1>2, <2>2, AskedKept DEF AnswerInv
    <3> QED BY <3>1 DEF AskedInOrder
  <2> QED BY <2>1, <2>2, MovesInOrder
<1>6. AnswersFromTheFirstFile'
  <2>1. \/ UNCHANGED answer \/ answer'.status \notin {"found", "missing"}
        \/ AnswerFound \/ AnswerMissing
    BY DEF Asks, Ask, NoAnswer, Answers, CannotOpen, NotThere, ReadsPrincipal, AssertionFails,
           SeveralEntries, Outcome, asking
  <2>2. CASE UNCHANGED answer
    BY <1>1, <1>2, <2>2, AnswerKept DEF AnswerInv
  <2>3. CASE answer'.status \notin {"found", "missing"}
    BY <2>3 DEF AnswersFromTheFirstFile
  <2> QED BY <2>1, <2>2, <2>3, FoundInFirst, MissingEverywhere
<1> QED BY <1>3, <1>4, <1>5, <1>6 DEF AnswerInv

(* For all files, lists, configurations and requests: whatever requests    *)
(* moved the cursors before, a product is taken from the first file of the *)
(* list that has it for this run, subrun or event, and is missing only if  *)
(* none has.                                                               *)
THEOREM AnsweredByTheFirstFile == SecondarySpec => []AnswersFromTheFirstFile
<1>1. AnswerInv /\ [SecondaryNext]_allVars => AnswerInv'
  <2> SUFFICES ASSUME AnswerInv, [SecondaryNext]_allVars PROVE AnswerInv'
    OBVIOUS
  <2>1. [Next]_vars
    BY StepOfInput
  <2>2. SecondaryTypeOK'
    BY SecondaryTypeStep DEF AnswerInv
  <2>3. CASE UNCHANGED allVars
    <3>1. UNCHANGED <<opts, item, rootFile, current, stk, secondaryFileNames, cursors, principals, answer>>
      BY <2>3 DEF allVars, vars, secVars, config, sequence, loop, asking
    <3>2. CursorsOnFirst' /\ AnswersFromTheFirstFile' /\ NotAnswered'
      BY <3>1, CursorsKept, AnswerKept DEF AnswerInv, NotAnswered
    <3>3. ASSUME NEW level \in Levels
          PROVE  (Alive(level) => InOrderOf(principals[level], secondaryFileNames[current], level))'
      BY <3>1, AskedKept DEF AnswerInv
    <3> QED BY <2>2, <3>2, <3>3 DEF AnswerInv, AskedInOrder
  <2> QED BY <2>1, <2>2, <2>3, WalkAnswers, LoopAnswers, AnswersAnswer DEF SecondaryNext
<1>2. AnswerInv => AnswersFromTheFirstFile
  BY DEF AnswerInv
<1> QED BY <1>1, <1>2, AnswerInit, PTL DEF SecondarySpec

(* A job with secondary files skips and orders its events like one without. *)
THEOREM SecondariesDoNotDisturb == SecondarySpec => [](SkipAccounting /\ InOrder)
BY ReadsLikeInputSequence, SkipsAccounted, ReadsInOrder, PTL

(* The events they read are those the stream promises.                     *)
THEOREM SecondariesKeepStream == SecondarySpec => StreamSpec
BY ReadsLikeInputSequence, ReadsEventStream

-----------------------------------------------------------------------------
(***************************************************************************)
(* The constructor's walk: the lists that files are attached by are a      *)
(* forest, of which the walk makes a preorder.                             *)
(***************************************************************************)

(* L gives each name the list of the files attached to it, names of N;     *)
(* unless it is empty such a list is lower than the one it is found in.    *)
Forest(L, N, T) ==
  /\ N \subseteq T /\ L \in [T -> Seq(N)]
  /\ \E top \in Nat : \E height \in [N -> 0..top] :
       \A n \in N : \A k \in DOMAIN L[n] :
         L[L[n][k]] # <<>> => height[L[n][k]] < height[n]

Positive == Nat \ {0}

(* What holds of the rest of a list behind i whenever it holds of the list *)
(* of its i-th file and of the rest behind that.                           *)
Hereditary(S, L, T) ==
  \A n \in T, i \in Positive :
    (i <= Len(L[n]) => <<L[n][i], 1>> \in S /\ <<n, i + 1>> \in S) => <<n, i>> \in S

(* It holds of all rests of all lists.                                     *)
LEMMA ForestInduction ==
  ASSUME NEW T, NEW N, NEW L, Forest(L, N, T), NEW S, Hereditary(S, L, T)
  PROVE  \A n \in T, i \in Positive : <<n, i>> \in S
<1>1. N \subseteq T /\ \A n \in T : L[n] \in Seq(N)
  BY DEF Forest
<1>2. ASSUME NEW n \in T, \A k \in DOMAIN L[n] : <<L[n][k], 1>> \in S
      PROVE  \A i \in Positive : <<n, i>> \in S
  <2> DEFINE len == Len(L[n])
             Bad == {d \in 0..len : <<n, len + 1 - d>> \notin S}
  <2>1. len \in Nat /\ DOMAIN L[n] = 1..len
    BY <1>1
  <2>2. ASSUME NEW i \in Positive, i > len PROVE <<n, i>> \in S
    <3>1. ~ (i <= len)
      BY <2>1, <2>2 DEF Positive
    <3> QED BY <3>1 DEF Hereditary
  <2>3. Bad = {}
    <3>1. SUFFICES ASSUME Bad # {} PROVE FALSE
      OBVIOUS
    <3>0. Bad \subseteq Nat
      BY <2>1
    <3>2. PICK d \in Bad : \A q \in Bad : d <= q
      <4> HIDE DEF Bad
      <4> QED BY <3>0, <3>1, SmallestOfSet
    <3>3. d \in 1..len
      BY <2>1, <2>2, <3>2 DEF Positive
    <3>4. d - 1 \notin Bad
      BY <2>1, <3>2, <3>3
    <3> DEFINE i == len + 1 - d
    <3>5. i \in DOMAIN L[n] /\ i \in Positive /\ i <= len /\ i + 1 = len + 1 - (d - 1)
      BY <2>1, <3>3 DEF Positive
    <3>6. <<n, i + 1>> \in S
      BY <2>1, <3>3, <3>4, <3>5
    <3>7. <<n, i>> \notin S
      BY <3>2
    <3> HIDE DEF i, Bad
    <3> QED BY <1>2, <3>5, <3>6, <3>7 DEF Hereditary
  <2>4. ASSUME NEW i \in Positive, i <= len PROVE <<n, i>> \in S
    <3>1. len + 1 - i \in 0..len /\ len + 1 - (len + 1 - i) = i
      BY <2>1, <2>4 DEF Positive
    <3>2. len + 1 - i \notin Bad
      BY <2>3
    <3> QED BY <3>1, <3>2
  <2> QED BY <2>1, <2>2, <2>4 DEF Positive
<1>3. ASSUME NEW n \in T, L[n] = <<>> PROVE <<n, 1>> \in S
  BY <1>2, <1>3 DEF Positive
<1>4. ASSUME NEW n \in N PROVE \A i \in Positive : <<n, i>> \in S
  <2>0. PICK top \in Nat : \E height \in [N -> 0..top] :
          \A m \in N : \A k \in DOMAIN L[m] : L[L[m][k]] # <<>> => height[L[m][k]] < height[m]
    BY DEF Forest
  <2>1. PICK height \in [N -> 0..top] :
          \A m \in N : \A k \in DOMAIN L[m] : L[L[m][k]] # <<>> => height[L[m][k]] < height[m]
    BY <2>0
  <2> DEFINE Good(m) == \A i \in Positive : <<m, i>> \in S
             Bad == {h \in 0..top : \E m \in N : height[m] = h /\ ~ Good(m)}
  <2>2. Bad = {}
    <3>1. SUFFICES ASSUME Bad # {} PROVE FALSE
      OBVIOUS
    <3>0. Bad \subseteq Nat
      OBVIOUS
    <3>2. PICK h \in Bad : \A q \in Bad : h <= q
      <4> HIDE DEF Bad
      <4> QED BY <3>0, <3>1, SmallestOfSet
    <3>3. PICK m \in N : height[m] = h /\ ~ Good(m)
      BY <3>2
    <3>4. ASSUME NEW k \in DOMAIN L[m] PROVE <<L[m][k], 1>> \in S
      <4>1. L[m][k] \in N /\ 1 \in Positive
        BY <1>1 DEF Positive
      <4>2. CASE L[L[m][k]] = <<>>
        BY <1>1, <1>3, <4>1, <4>2
      <4>3. CASE L[L[m][k]] # <<>>
        <5>1. height[L[m][k]] < height[m] /\ height[L[m][k]] \in 0..top
          BY <2>1, <4>1, <4>3
        <5>2. height[L[m][k]] \notin Bad
          BY <3>2, <3>3, <5>1
        <5>3. Good(L[m][k])
          BY <4>1, <5>1, <5>2
        <5> QED BY <4>1, <5>3
      <4> QED BY <4>2, <4>3
    <3> QED BY <1>1, <1>2, <3>3, <3>4
  <2>3. height[n] \in 0..top /\ height[n] \notin Bad
    BY <2>2
  <2> QED BY <2>3
<1>5. ASSUME NEW n \in T PROVE \A i \in Positive : <<n, i>> \in S
  <2>1. \A k \in DOMAIN L[n] : L[n][k] \in N
    BY <1>1
  <2> QED BY <1>2, <1>4, <2>1 DEF Positive
<1> QED BY <1>5

(* A file before those of its own list, and these before the rest.         *)
Unfolds(f, L, T) ==
  [at \in T \X Positive |->
     IF at[2] > Len(L[at[1]]) THEN <<>>
     ELSE <<L[at[1]][at[2]]>> \o f[<<L[at[1]][at[2]], 1>>] \o f[<<at[1], at[2] + 1>>]]

(* Its values are lists of files.                                          *)
LEMMA UnfoldsTyped ==
  ASSUME NEW T, NEW N, NEW L, Forest(L, N, T), NEW f, f = Unfolds(f, L, T)
  PROVE  \A n \in T, i \in Positive :
           /\ f[<<n, i>>] \in Seq(N)
           /\ f[<<n, i>>] = IF i > Len(L[n]) THEN <<>> ELSE <<L[n][i]>> \o f[<<L[n][i], 1>>] \o f[<<n, i + 1>>]
<1> DEFINE S == {x \in T \X Positive : f[x] \in Seq(N)}
           Body(n, i) == IF i > Len(L[n]) THEN <<>> ELSE <<L[n][i]>> \o f[<<L[n][i], 1>>] \o f[<<n, i + 1>>]
<1>1. N \subseteq T /\ \A n \in T : L[n] \in Seq(N)
  BY DEF Forest
<1>2. ASSUME NEW n \in T, NEW i \in Positive PROVE f[<<n, i>>] = Body(n, i)
  <2> DEFINE g == Unfolds(f, L, T)
  <2>1. g[<<n, i>>] = Body(n, i)
    BY DEF Unfolds
  <2>2. f = g
    OBVIOUS
  <2> HIDE DEF g, Body
  <2> QED BY <2>1, <2>2
<1>3. ASSUME NEW n \in T, NEW i \in Positive,
             i <= Len(L[n]) => <<L[n][i], 1>> \in S /\ <<n, i + 1>> \in S
      PROVE  <<n, i>> \in S
  <2>1. f[<<n, i>>] = Body(n, i) /\ Len(L[n]) \in Nat /\ DOMAIN L[n] = 1..Len(L[n])
    BY <1>1, <1>2
  <2>2. CASE i > Len(L[n])
    <3>1. f[<<n, i>>] = <<>>
      BY <2>1, <2>2
    <3>2. <<n, i>> \in T \X Positive /\ <<>> \in Seq(N)
      OBVIOUS
    <3> QED BY <3>1, <3>2
  <2>3. CASE i <= Len(L[n])
    <3>1. L[n][i] \in N
      BY <1>1, <2>1, <2>3 DEF Positive
    <3>2. f[<<L[n][i], 1>>] \in Seq(N) /\ f[<<n, i + 1>>] \in Seq(N)
      BY <1>3, <2>3
    <3>3. f[<<n, i>>] = <<L[n][i]>> \o f[<<L[n][i], 1>>] \o f[<<n, i + 1>>]
      <4>1. ~ (i > Len(L[n]))
        BY <2>1, <2>3 DEF Positive
      <4> QED BY <2>1, <4>1
    <3> DEFINE a == L[n][i]
               s == f[<<L[n][i], 1>>]
               t == f[<<n, i + 1>>]
    <3> HIDE DEF a, s, t
    <3>4. <<a>> \o s \o t \in Seq(N)
      BY <3>1, <3>2 DEF a, s, t
    <3>5. f[<<n, i>>] \in Seq(N)
      BY <3>3, <3>4 DEF a, s, t
    <3> QED BY <3>5
  <2> QED BY <2>1, <2>2, <2>3 DEF Positive
<1>4. Hereditary(S, L, T)
  BY <1>3 DEF Hereditary
<1>5. \A n \in T, i \in Positive : <<n, i>> \in S
  <2> HIDE DEF S
  <2> QED BY <1>4, ForestInduction
<1> QED BY <1>2, <1>5

(* There is such a function, since what is derived for a rest from what is *)
(* derived for the lists behind it is one sequence.                        *)
LEMMA UnfoldingExists ==
  ASSUME NEW T, NEW N, NEW L, Forest(L, N, T)
  PROVE  \E f : f = Unfolds(f, L, T)
<1> DEFINE V    == Seq(N)
           D    == T \X Positive
           Ends(n, i, s) == i > Len(L[n]) /\ s = <<>>
           Joins(R, n, i, s) ==
             i <= Len(L[n]) /\ \E u, v \in V : /\ <<<<L[n][i], 1>>, u>> \in R
                                               /\ <<<<n, i + 1>>, v>> \in R
                                               /\ s = <<L[n][i]>> \o u \o v
           Closed(R) == \A n \in T, i \in Positive, s \in V :
                          Ends(n, i, s) \/ Joins(R, n, i, s) => <<<<n, i>>, s>> \in R
           G == {x \in D \X V : \A R \in SUBSET (D \X V) : Closed(R) => x \in R}
           One(n, i) == \E s \in V : /\ <<<<n, i>>, s>> \in G
                                     /\ \A t \in V : <<<<n, i>>, t>> \in G => t = s
           S == {x \in D : One(x[1], x[2])}
<1>1. N \subseteq T /\ \A n \in T : L[n] \in Seq(N)
  BY DEF Forest
<1>2. G \subseteq D \X V /\ \A R \in SUBSET (D \X V) : Closed(R) => G \subseteq R
  <2> HIDE DEF V, D, Closed
  <2> QED OBVIOUS
<1>3. ASSUME NEW n \in T, NEW i \in Positive, i <= Len(L[n])
      PROVE  /\ L[n][i] \in N /\ <<L[n][i], 1>> \in D /\ <<n, i + 1>> \in D
             /\ \A u, v \in V : <<L[n][i]>> \o u \o v \in V
  <2>1. Len(L[n]) \in Nat /\ DOMAIN L[n] = 1..Len(L[n]) /\ L[n] \in Seq(N)
    BY <1>1
  <2>2. L[n][i] \in N
    BY <1>3, <2>1 DEF Positive
  <2>3. <<L[n][i], 1>> \in D /\ <<n, i + 1>> \in D
    BY <1>1, <2>2 DEF Positive
  <2> DEFINE a == L[n][i]
  <2> HIDE DEF a
  <2>4. ASSUME NEW u \in V, NEW v \in V PROVE <<a>> \o u \o v \in V
    BY <2>2 DEF a
  <2> QED BY <2>2, <2>3, <2>4 DEF a
<1>4. ASSUME NEW R, NEW Q, R \subseteq Q, NEW n, NEW i, NEW s, Joins(R, n, i, s)
      PROVE  Joins(Q, n, i, s)
  <2> HIDE DEF V
  <2>1. PICK u \in V, v \in V : /\ <<<<L[n][i], 1>>, u>> \in R /\ <<<<n, i + 1>>, v>> \in R
                                /\ s = <<L[n][i]>> \o u \o v
    BY <1>4
  <2> QED BY <1>4, <2>1
<1> HIDE DEF Ends, Joins, V, D
<1>5. Closed(G)
  <2>1. SUFFICES ASSUME NEW n \in T, NEW i \in Positive, NEW s \in V,
                        Ends(n, i, s) \/ Joins(G, n, i, s),
                        NEW R \in SUBSET (D \X V), Closed(R)
                 PROVE  <<<<n, i>>, s>> \in R
    BY DEF D
  <2>2. G \subseteq R
    BY <1>2, <2>1
  <2>3. Joins(G, n, i, s) => Joins(R, n, i, s)
    BY <1>4, <2>2
  <2> QED BY <2>1, <2>3
<1> DEFINE Derived(n, i, s) == Ends(n, i, s) \/ Joins(G, n, i, s)
<1>6. ASSUME NEW n \in T, NEW i \in Positive, NEW s \in V, <<<<n, i>>, s>> \in G
      PROVE  Derived(n, i, s)
  <2> DEFINE R == {x \in G : Derived(x[1][1], x[1][2], x[2])}
  <2>1. R \subseteq G /\ R \in SUBSET (D \X V)
    BY <1>2
  <2>2. Closed(R)
    <3>1. SUFFICES ASSUME NEW m \in T, NEW j \in Positive, NEW t \in V,
                          Ends(m, j, t) \/ Joins(R, m, j, t)
                   PROVE  <<<<m, j>>, t>> \in R
      OBVIOUS
    <3>2. Derived(m, j, t)
      BY <1>4, <2>1, <3>1
    <3>3. <<<<m, j>>, t>> \in G
      BY <1>5, <3>2
    <3> HIDE DEF G, Derived
    <3> QED BY <3>2, <3>3
  <2>3. G \subseteq R
    BY <1>2, <2>1, <2>2
  <2> HIDE DEF G, Derived
  <2> QED BY <1>6, <2>3
<1>7. ASSUME NEW n \in T, NEW i \in Positive, NEW s \in V, Derived(n, i, s)
      PROVE  <<<<n, i>>, s>> \in G
  BY <1>5, <1>7
<1> HIDE DEF G, Derived, One
<1>8. ASSUME NEW n \in T, NEW i \in Positive, i > Len(L[n]) PROVE One(n, i)
  <2>1. <<>> \in V /\ ~ (i <= Len(L[n]))
    BY <1>1, <1>8 DEF V, Positive
  <2>2. <<<<n, i>>, <<>>>> \in G
    BY <1>7, <1>8, <2>1 DEF Derived, Ends
  <2>3. \A t \in V : <<<<n, i>>, t>> \in G => t = <<>>
    BY <1>6, <2>1 DEF Derived, Ends, Joins
  <2> QED BY <2>1, <2>2, <2>3 DEF One
<1>9. ASSUME NEW n \in T, NEW i \in Positive, i <= Len(L[n]), One(L[n][i], 1), One(n, i + 1)
      PROVE  One(n, i) /\ \E u, v \in V : /\ <<<<L[n][i], 1>>, u>> \in G
                                          /\ <<<<n, i + 1>>, v>> \in G
                                          /\ <<<<n, i>>, <<L[n][i]>> \o u \o v>> \in G
  <2>1. PICK u \in V : /\ <<<<L[n][i], 1>>, u>> \in G
                       /\ \A t \in V : <<<<L[n][i], 1>>, t>> \in G => t = u
    BY <1>9 DEF One
  <2>2. PICK v \in V : /\ <<<<n, i + 1>>, v>> \in G
                       /\ \A t \in V : <<<<n, i + 1>>, t>> \in G => t = v
    BY <1>9 DEF One
  <2> DEFINE s == <<L[n][i]>> \o u \o v
  <2>3. s \in V
    BY <1>3, <1>9
  <2>4. Joins(G, n, i, s)
    BY <1>9, <2>1, <2>2 DEF Joins
  <2>5. <<<<n, i>>, s>> \in G
    BY <1>7, <2>3, <2>4 DEF Derived
  <2>6. ASSUME NEW t \in V, <<<<n, i>>, t>> \in G PROVE t = s
    <3>1. ~ (i > Len(L[n]))
      BY <1>1, <1>9 DEF Positive
    <3>2. Joins(G, n, i, t)
      BY <1>6, <2>6, <3>1 DEF Derived, Ends
    <3>3. PICK a \in V, b \in V : /\ <<<<L[n][i], 1>>, a>> \in G /\ <<<<n, i + 1>>, b>> \in G
                                  /\ t = <<L[n][i]>> \o a \o b
      BY <3>2 DEF Joins
    <3>4. a = u /\ b = v
      BY <2>1, <2>2, <3>3
    <3> QED BY <3>3, <3>4
  <2> QED BY <2>1, <2>2, <2>3, <2>5, <2>6 DEF One
<1>10. \A n \in T, i \in Positive : One(n, i)
  <2>1. ASSUME NEW n \in T, NEW i \in Positive,
               i <= Len(L[n]) => <<L[n][i], 1>> \in S /\ <<n, i + 1>> \in S
        PROVE  <<n, i>> \in S
    <3>1. Len(L[n]) \in Nat /\ i \in Nat
      BY <1>1 DEF Positive
    <3>2. One(n, i)
      <4>1. CASE i > Len(L[n])
        BY <1>8, <4>1
      <4>2. CASE i <= Len(L[n])
        <5>1. One(L[n][i], 1) /\ One(n, i + 1)
          BY <2>1, <4>2
        <5> QED BY <1>9, <4>2, <5>1
      <4> QED BY <3>1, <4>1, <4>2
    <3> QED BY <3>2 DEF D
  <2>2. Hereditary(S, L, T)
    BY <2>1 DEF Hereditary
  <2>3. \A n \in T, i \in Positive : <<n, i>> \in S
    <3> HIDE DEF S
    <3> QED BY <2>2, ForestInduction
  <2> QED BY <2>3
<1> DEFINE f == [x \in D |-> CHOOSE s \in V : <<x, s>> \in G]
<1>11. ASSUME NEW n \in T, NEW i \in Positive
       PROVE  /\ f[<<n, i>>] \in V /\ <<<<n, i>>, f[<<n, i>>]>> \in G
              /\ \A t \in V : <<<<n, i>>, t>> \in G => t = f[<<n, i>>]
  <2>1. <<n, i>> \in D
    BY DEF D
  <2>2. PICK s \in V : <<<<n, i>>, s>> \in G /\ \A t \in V : <<<<n, i>>, t>> \in G => t = s
    BY <1>10 DEF One
  <2>3. f[<<n, i>>] = CHOOSE t \in V : <<<<n, i>>, t>> \in G
    BY <2>1
  <2>4. f[<<n, i>>] \in V /\ <<<<n, i>>, f[<<n, i>>]>> \in G
    BY <2>2, <2>3
  <2> HIDE DEF f
  <2> QED BY <2>2, <2>4
<1> HIDE DEF S
<1> DEFINE g == Unfolds(f, L, T)
           body(x) == IF x[2] > Len(L[x[1]]) THEN <<>>
                      ELSE <<L[x[1]][x[2]]>> \o f[<<L[x[1]][x[2]], 1>>] \o f[<<x[1], x[2] + 1>>]
           of(x)   == CHOOSE s \in V : <<x, s>> \in G
<1>12. f = [x \in D |-> of(x)] /\ g = [x \in D |-> body(x)]
  BY DEF Unfolds, D
<1> HIDE DEF f, of, body
<1>13. ASSUME NEW n \in T, NEW i \in Positive PROVE f[<<n, i>>] = g[<<n, i>>]
  <2>1. g[<<n, i>>] = IF i > Len(L[n]) THEN <<>>
                      ELSE <<L[n][i]>> \o f[<<L[n][i], 1>>] \o f[<<n, i + 1>>]
    BY DEF Unfolds
  <2> HIDE DEF g
  <2>2. CASE i > Len(L[n])
    <3>1. ~ (i <= Len(L[n]))
      BY <1>1, <2>2 DEF Positive
    <3>2. f[<<n, i>>] = <<>>
      BY <1>6, <1>11, <3>1 DEF Derived, Ends, Joins
    <3> QED BY <2>1, <2>2, <3>2
  <2>3. CASE i <= Len(L[n])
    <3>1. ~ (i > Len(L[n]))
      BY <1>1, <2>3 DEF Positive
    <3>2. L[n][i] \in T /\ 1 \in Positive /\ i + 1 \in Positive
      BY <1>1, <1>3, <2>3 DEF Positive
    <3>3. PICK u \in V, v \in V : /\ <<<<L[n][i], 1>>, u>> \in G /\ <<<<n, i + 1>>, v>> \in G
                                  /\ <<<<n, i>>, <<L[n][i]>> \o u \o v>> \in G
      BY <1>9, <1>10, <2>3, <3>2
    <3>4. u = f[<<L[n][i], 1>>] /\ v = f[<<n, i + 1>>]
      BY <1>11, <3>2, <3>3
    <3>5. <<L[n][i]>> \o u \o v \in V
      BY <1>3, <2>3
    <3>6. f[<<n, i>>] = <<L[n][i]>> \o u \o v
      BY <1>11, <3>3, <3>5
    <3> QED BY <2>1, <3>1, <3>4, <3>6
  <2>4. i > Len(L[n]) \/ i <= Len(L[n])
    BY <1>1 DEF Positive
  <2> QED BY <2>2, <2>3, <2>4
<1>14. f = g
  <2> HIDE DEF g
  <2>1. \A x \in D : f[x] = g[x]
    BY <1>13 DEF D
  <2>2. \A x \in D : of(x) = body(x)
    BY <1>12, <2>1
  <2> QED BY <1>12, <2>2
<1> QED BY <1>14

(* Facts about sequences the provers find when they are asked for alone.   *)
LEMMA EmptyInFront == ASSUME NEW N, NEW a \in Seq(N) PROVE <<>> \o a = a
OBVIOUS

(* What the rest of a sequence begins and goes on with.                    *)
LEMMA RestOfSequence ==
  ASSUME NEW N, NEW l \in Seq(N), NEW i \in Positive
  PROVE  /\ SubSeq(l, i, Len(l)) \in Seq(N)
         /\ i > Len(l) => SubSeq(l, i, Len(l)) = <<>>
         /\ i <= Len(l) => /\ SubSeq(l, i, Len(l)) # <<>>
                          /\ Head(SubSeq(l, i, Len(l))) = l[i] /\ l[i] \in N
                          /\ Tail(SubSeq(l, i, Len(l))) = SubSeq(l, i + 1, Len(l))
<1> DEFINE len == Len(l)
           rest == SubSeq(l, i, len)
<1>1. /\ i \in Nat /\ i >= 1 /\ len \in Nat /\ DOMAIN l = 1..len
      /\ \A k \in 1..len : l[k] \in N
  BY DEF Positive
<1>2. rest \in Seq(N)
  BY <1>1
<1>3. ASSUME i > len PROVE rest = <<>>
  BY <1>1, <1>3
<1>4. ASSUME i <= len
      PROVE  rest # <<>> /\ Head(rest) = l[i] /\ l[i] \in N /\ Tail(rest) = SubSeq(l, i + 1, len)
  <2>1. Len(rest) = len - i + 1 /\ Len(rest) > 0 /\ rest[1] = l[i] /\ l[i] \in N
    <3>1. i \in 1..len /\ len - i + 1 > 0 /\ len - i + 1 \in Nat
      BY <1>1, <1>4
    <3>2. Len(rest) = len - i + 1
      BY <1>1, <1>4
    <3>3. rest[1] = l[i]
      BY <1>1, <1>4
    <3> QED BY <1>1, <3>1, <3>2, <3>3
  <2>2. rest # <<>> /\ Head(rest) = l[i]
    <3> HIDE DEF rest
    <3>1. Len(<<>>) = 0
      OBVIOUS
    <3> QED BY <1>2, <2>1, <3>1
  <2>3. Tail(rest) = SubSeq(l, i + 1, len)
    <3> DEFINE t == Tail(rest)
               u == SubSeq(l, i + 1, len)
    <3>1. t \in Seq(N) /\ Len(t) = len - i
      <4> HIDE DEF rest
      <4> QED BY <1>1, <1>2, <1>4, <2>1, <2>2
    <3>2. u \in Seq(N) /\ Len(u) = len - i
      <4>1. i + 1 \in Nat /\ i + 1 <= len + 1 /\ i + 1 >= 1
        BY <1>1, <1>4
      <4>2. u \in Seq(N)
        BY <1>1, <4>1
      <4> DEFINE j == i + 1
      <4>3. j \in Nat /\ j <= len + 1 /\ j >= 1
        BY <4>1
      <4> HIDE DEF j
      <4>4. Len(SubSeq(l, j, len)) = len - j + 1
        <5>1. CASE j <= len
          BY <1>1, <4>3, <5>1
        <5>2. CASE j = len + 1
          BY <1>1, <4>3, <5>2
        <5> QED BY <1>1, <4>3, <5>1, <5>2
      <4>5. Len(u) = len - j + 1
        BY <4>4 DEF j
      <4>6. len - j + 1 = len - i
        BY <1>1, <4>3 DEF j
      <4> HIDE DEF u
      <4> QED BY <4>2, <4>5, <4>6
    <3>3. ASSUME NEW k \in 1..(len - i) PROVE t[k] = u[k]
      <4>1. k + 1 \in 1..(len - i + 1) /\ i + (k + 1) - 1 = i + 1 + k - 1
        BY <1>1, <1>4
      <4>2. t[k] = rest[k + 1]
        <5>1. rest \in Seq(N) /\ rest # <<>> /\ k \in 1..(Len(rest) - 1)
          BY <1>1, <1>2, <1>4, <2>1, <2>2
        <5> HIDE DEF rest
        <5> QED BY <5>1
      <4>3. rest[k + 1] = l[i + (k + 1) - 1]
        <5> DEFINE j == k + 1
        <5>1. j \in 1..(len - i + 1) /\ j \in Int
          BY <4>1
        <5> HIDE DEF j
        <5>2. rest[j] = l[i + j - 1]
          BY <1>1, <1>4, <5>1
        <5> QED BY <5>2 DEF j
      <4>4. u[k] = l[i + 1 + k - 1]
        BY <1>1, <1>4
      <4> QED BY <4>1, <4>2, <4>3, <4>4
    <3> HIDE DEF t, u
    <3>4. t = u
      BY <3>1, <3>2, <3>3
    <3> QED BY <3>4 DEF t, u
  <2> QED BY <2>1, <2>2, <2>3
<1> QED BY <1>2, <1>3, <1>4

(* The rest of a list from a position on.                                  *)
Rest(L, at) == SubSeq(L[at[1]], at[2], Len(L[at[1]]))

(* What a stack of rests of lists will come to.                            *)
Expands(s, e, f, L, N, T) ==
  \E at \in [1..Len(s) -> T \X Positive], rests \in [1..(Len(s) + 1) -> Seq(N)] :
    /\ rests[1] = e /\ rests[Len(s) + 1] = <<>>
    /\ \A k \in 1..Len(s) : s[k] = Rest(L, at[k]) /\ rests[k] = f[at[k]] \o rests[k + 1]

(* An empty stack comes to nothing.                                        *)
LEMMA ExpandsEmpty ==
  ASSUME NEW f, NEW L, NEW N, NEW T
  PROVE  /\ Expands(<<>>, <<>>, f, L, N, T)
         /\ \A e : Expands(<<>>, e, f, L, N, T) => e = <<>>
<1>1. Len(<<>>) = 0
  OBVIOUS
<1>2. Expands(<<>>, <<>>, f, L, N, T)
  <2> DEFINE at    == [k \in 1..0 |-> <<>>]
             rests == [k \in 1..1 |-> <<>>]
  <2>1. at \in [1..0 -> T \X Positive] /\ rests \in [1..1 -> Seq(N)] /\ rests[1] = <<>>
    OBVIOUS
  <2> HIDE DEF at, rests
  <2> QED BY <1>1, <2>1 DEF Expands
<1>3. ASSUME NEW e, Expands(<<>>, e, f, L, N, T) PROVE e = <<>>
  BY <1>1, <1>3 DEF Expands
<1> QED BY <1>2, <1>3

(* A rest that is pushed comes before what the stack comes to.             *)
LEMMA ExpandsPushed ==
  ASSUME NEW T, NEW N, NEW L, Forest(L, N, T), NEW f, f = Unfolds(f, L, T),
         NEW s \in Seq(Seq(N)), NEW e \in Seq(N), Expands(s, e, f, L, N, T),
         NEW n \in T, NEW i \in Positive, NEW list, list = Rest(L, <<n, i>>)
  PROVE  Expands(Pushed(list, s), f[<<n, i>>] \o e, f, L, N, T)
<1>1. L[n] \in Seq(N) /\ Len(L[n]) \in Nat
  BY DEF Forest
<1>2. f[<<n, i>>] \in Seq(N) /\ (i > Len(L[n]) => f[<<n, i>>] = <<>>)
  <2>1. f[<<n, i>>] \in Seq(N)
    BY UnfoldsTyped
  <2>2. f[<<n, i>>] = IF i > Len(L[n]) THEN <<>>
                      ELSE <<L[n][i]>> \o f[<<L[n][i], 1>>] \o f[<<n, i + 1>>]
    BY UnfoldsTyped
  <2> QED BY <2>1, <2>2
<1>3. CASE list = <<>>
  <2>1. i > Len(L[n])
    <3>1. list = SubSeq(L[n], i, Len(L[n]))
      BY DEF Rest
    <3>2. ~ (i <= Len(L[n]))
      BY <1>1, <1>3, <3>1, RestOfSequence
    <3> QED BY <1>1, <3>2 DEF Positive
  <2>2. f[<<n, i>>] \o e = e
    BY <1>2, <2>1, EmptyInFront
  <2> QED BY <1>3, <2>2 DEF Pushed
<1>4. CASE list # <<>>
  <2> DEFINE len == Len(s)
             all == <<list>> \o s
  <2>1. PICK at \in [1..len -> T \X Positive], rests \in [1..(len + 1) -> Seq(N)] :
          /\ rests[1] = e /\ rests[len + 1] = <<>>
          /\ \A k \in 1..len : s[k] = Rest(L, at[k]) /\ rests[k] = f[at[k]] \o rests[k + 1]
    BY DEF Expands
  <2>2. /\ len \in Nat /\ Len(all) = len + 1 /\ all[1] = list
        /\ \A k \in 2..(len + 1) : all[k] = s[k - 1]
    OBVIOUS
  <2> HIDE DEF len, all
  <2> DEFINE now == f[<<n, i>>] \o e
  <2>0. now \in Seq(N)
    <3> DEFINE g == f[<<n, i>>]
    <3>1. g \in Seq(N)
      BY <1>2
    <3> HIDE DEF g
    <3>2. g \o e \in Seq(N)
      BY <3>1, ConcatType, Zenon
    <3> QED BY <3>2 DEF g
  <2> HIDE DEF now
  <2> DEFINE a == [k \in 1..(len + 1) |-> IF k = 1 THEN <<n, i>> ELSE at[k - 1]]
             r == [k \in 1..(len + 1 + 1) |-> IF k = 1 THEN now ELSE rests[k - 1]]
  <2>3. /\ a \in [1..(len + 1) -> T \X Positive] /\ a[1] = <<n, i>>
        /\ \A k \in 2..(len + 1) : a[k] = at[k - 1]
    <3>1. \A k \in 1..(len + 1) : k = 1 \/ k - 1 \in 1..len
      BY <2>2
    <3>2. <<n, i>> \in T \X Positive
      OBVIOUS
    <3> QED BY <2>2, <3>1, <3>2
  <2>4. /\ r \in [1..(len + 1 + 1) -> Seq(N)] /\ r[1] = now
        /\ \A k \in 2..(len + 2) : r[k] = rests[k - 1]
    <3>1. \A k \in 1..(len + 2) : k = 1 \/ k - 1 \in 1..(len + 1)
      BY <2>2
    <3>2. len + 1 + 1 = len + 2
      BY <2>2
    <3> QED BY <2>0, <2>2, <3>1, <3>2
  <2> HIDE DEF a, r
  <2>5. r[2] = e /\ r[len + 1 + 1] = <<>>
    BY <2>1, <2>2, <2>4
  <2>6. ASSUME NEW k \in 1..(len + 1)
        PROVE  all[k] = Rest(L, a[k]) /\ r[k] = f[a[k]] \o r[k + 1]
    <3>1. CASE k = 1
      <4>1. k + 1 = 2
        BY <3>1
      <4>2. all[k] = Rest(L, <<n, i>>) /\ a[k] = <<n, i>>
        BY <2>2, <2>3, <3>1
      <4>3. r[k] = f[<<n, i>>] \o e /\ r[k + 1] = e
        BY <2>4, <2>5, <3>1, <4>1 DEF now
      <4> QED BY <4>2, <4>3
    <3>2. CASE k # 1
      <4>1. k - 1 \in 1..len /\ k \in 2..(len + 1) /\ k \in 2..(len + 2) /\ k + 1 \in 2..(len + 2)
            /\ (k + 1) - 1 = (k - 1) + 1
        BY <2>2, <3>2
      <4>2. all[k] = s[k - 1] /\ a[k] = at[k - 1] /\ r[k] = rests[k - 1] /\ r[k + 1] = rests[(k - 1) + 1]
        BY <2>2, <2>3, <2>4, <4>1
      <4> QED BY <2>1, <4>1, <4>2
    <3> QED BY <3>1, <3>2
  <2>7. Expands(all, f[<<n, i>>] \o e, f, L, N, T)
    <3>1. /\ a \in [1..Len(all) -> T \X Positive] /\ r \in [1..(Len(all) + 1) -> Seq(N)]
          /\ r[1] = now /\ r[Len(all) + 1] = <<>>
          /\ \A k \in 1..Len(all) : all[k] = Rest(L, a[k]) /\ r[k] = f[a[k]] \o r[k + 1]
      BY <2>2, <2>3, <2>4, <2>5, <2>6
    <3> QED BY <3>1, Zenon DEF Expands, now
  <2> QED BY <1>4, <2>7 DEF Pushed, all
<1> QED BY <1>3, <1>4

(* Such a stack comes to what the rest on top does, and the stack below.   *)
PopsTo(top, below, e, f, L, N, T) ==
  \E n \in T, i \in Positive, r \in Seq(N) :
    /\ top = Rest(L, <<n, i>>) /\ e = f[<<n, i>>] \o r
    /\ Expands(below, r, f, L, N, T)

LEMMA ExpandsPopped ==
  ASSUME NEW T, NEW N, NEW L, NEW f, NEW s \in Seq(Seq(N)), s # <<>>,
         NEW e, Expands(s, e, f, L, N, T)
  PROVE  PopsTo(Head(s), Tail(s), e, f, L, N, T)
<1> DEFINE len == Len(s)
           rest == Tail(s)
<1>1. PICK at \in [1..len -> T \X Positive], rests \in [1..(len + 1) -> Seq(N)] :
        /\ rests[1] = e /\ rests[len + 1] = <<>>
        /\ \A k \in 1..len : s[k] = Rest(L, at[k]) /\ rests[k] = f[at[k]] \o rests[k + 1]
  BY DEF Expands
<1>2. /\ len \in Nat \ {0} /\ Head(s) = s[1] /\ Len(rest) = len - 1
      /\ \A k \in 1..(len - 1) : rest[k] = s[k + 1]
  OBVIOUS
<1> HIDE DEF len, rest
<1>3. PICK n \in T, i \in Positive : at[1] = <<n, i>>
  <2>1. at[1] \in T \X Positive
    BY <1>2
  <2> QED BY <2>1
<1> DEFINE a == [k \in 1..(len - 1) |-> at[k + 1]]
           r == [k \in 1..(len - 1 + 1) |-> rests[k + 1]]
<1>4. a \in [1..(len - 1) -> T \X Positive] /\ \A k \in 1..(len - 1) : a[k] = at[k + 1]
  <2>1. \A k \in 1..(len - 1) : k + 1 \in 1..len
    BY <1>2
  <2> QED BY <2>1
<1>5. r \in [1..(len - 1 + 1) -> Seq(N)] /\ \A k \in 1..len : r[k] = rests[k + 1]
  <2>1. len - 1 + 1 = len /\ \A k \in 1..len : k + 1 \in 1..(len + 1)
    BY <1>2
  <2> QED BY <2>1
<1> HIDE DEF a, r
<1>6. 1 \in 1..len /\ len \in 1..len /\ len - 1 + 1 = len /\ 1 + 1 = 2
  BY <1>2
<1>7. r[1] = rests[1 + 1] /\ r[len - 1 + 1] = <<>> /\ r[1] \in Seq(N)
  BY <1>1, <1>5, <1>6
<1>8. ASSUME NEW k \in 1..(len - 1)
      PROVE  rest[k] = Rest(L, a[k]) /\ r[k] = f[a[k]] \o r[k + 1]
  <2>1. k \in 1..len /\ k + 1 \in 1..len
    BY <1>2
  <2> QED BY <1>1, <1>2, <1>4, <1>5, <2>1
<1>9. Expands(rest, r[1], f, L, N, T)
  <2>1. /\ a \in [1..Len(rest) -> T \X Positive] /\ r \in [1..(Len(rest) + 1) -> Seq(N)]
        /\ r[Len(rest) + 1] = <<>>
        /\ \A k \in 1..Len(rest) : rest[k] = Rest(L, a[k]) /\ r[k] = f[a[k]] \o r[k + 1]
    BY <1>2, <1>4, <1>5, <1>7, <1>8
  <2> QED BY <2>1, Zenon DEF Expands
<1>10. Head(s) = Rest(L, <<n, i>>) /\ e = f[<<n, i>>] \o r[1]
  BY <1>1, <1>2, <1>3, <1>6, <1>7
<1> QED BY <1>7, <1>9, <1>10 DEF rest, PopsTo

(* A turn of the constructor's loop takes the next file of those to come.  *)
LEMMA NameTaken ==
  ASSUME NEW T, NEW N, NEW L, Forest(L, N, T), NEW f, f = Unfolds(f, L, T),
         NEW s \in Seq(Seq(N) \ {<<>>}), s # <<>>,
         NEW e, Expands(s, e, f, L, N, T), NEW fn, fn = Head(Head(s))
  PROVE  /\ fn \in N
         /\ \E r \in Seq(N) : /\ e = <<fn>> \o r
                              /\ Expands(Pushed(L[fn], Pushed(Tail(Head(s)), Tail(s))), r, f, L, N, T)
<1>1. s \in Seq(Seq(N)) /\ Tail(s) \in Seq(Seq(N)) /\ Head(s) \in Seq(N) /\ Head(s) # <<>>
  OBVIOUS
<1>2. PICK n \in T, i \in Positive, r \in Seq(N) :
        /\ Head(s) = Rest(L, <<n, i>>) /\ e = f[<<n, i>>] \o r
        /\ Expands(Tail(s), r, f, L, N, T)
  <2>1. s \in Seq(Seq(N))
    BY <1>1
  <2>2. PopsTo(Head(s), Tail(s), e, f, L, N, T)
    BY <2>1, ExpandsPopped
  <2> QED BY <2>2 DEF PopsTo
<1>3. N \subseteq T /\ L[n] \in Seq(N)
  BY DEF Forest
<1>4. i \in Nat /\ i # 0 /\ Head(s) = SubSeq(L[n], i, Len(L[n]))
  BY <1>2 DEF Rest, Positive
<1>5. i <= Len(L[n]) /\ Len(L[n]) \in Nat /\ fn = L[n][i] /\ fn \in N
      /\ Tail(Head(s)) = SubSeq(L[n], i + 1, Len(L[n]))
  <2>1. ~ (i > Len(L[n])) /\ Len(L[n]) \in Nat
    BY <1>1, <1>3, <1>4, RestOfSequence
  <2>2. i <= Len(L[n])
    BY <1>4, <2>1
  <2> QED BY <1>3, <1>4, <2>1, <2>2, RestOfSequence
<1>6. /\ fn \in T /\ L[fn] \in Seq(N) /\ 1 \in Positive /\ i + 1 \in Positive
      /\ Tail(Head(s)) = Rest(L, <<n, i + 1>>) /\ L[fn] = Rest(L, <<fn, 1>>)
  <2>1. fn \in T /\ L[fn] \in Seq(N)
    BY <1>3, <1>5 DEF Forest
  <2>2. L[fn] = SubSeq(L[fn], 1, Len(L[fn]))
    <3> DEFINE l == L[fn]
    <3>1. l \in Seq(N)
      BY <2>1
    <3> HIDE DEF l
    <3>2. SubSeq(l, 1, Len(l)) = l
      BY <3>1
    <3> QED BY <3>2 DEF l
  <2> QED BY <1>4, <1>5, <2>1, <2>2 DEF Rest, Positive
<1> DEFINE u == f[<<fn, 1>>]
           v == f[<<n, i + 1>>]
<1>7. /\ u \in Seq(N) /\ v \in Seq(N)
      /\ f[<<n, i>>] = <<fn>> \o u \o v
  <2>1. ~ (i > Len(L[n]))
    BY <1>4, <1>5
  <2>2. u \in Seq(N) /\ v \in Seq(N)
    BY <1>6, UnfoldsTyped
  <2>3. f[<<n, i>>] = IF i > Len(L[n]) THEN <<>>
                      ELSE <<L[n][i]>> \o f[<<L[n][i], 1>>] \o f[<<n, i + 1>>]
    BY UnfoldsTyped
  <2> QED BY <1>5, <2>1, <2>2, <2>3
<1>8. Expands(Pushed(Tail(Head(s)), Tail(s)), v \o r, f, L, N, T)
  BY <1>1, <1>2, <1>6, ExpandsPushed
<1>9. Pushed(Tail(Head(s)), Tail(s)) \in Seq(Seq(N)) /\ v \o r \in Seq(N)
  <2>1. Tail(Head(s)) \in Seq(N)
    BY <1>1
  <2>2. <<Tail(Head(s))>> \o Tail(s) \in Seq(Seq(N))
    BY <1>1, <2>1
  <2> HIDE DEF v
  <2>3. v \o r \in Seq(N)
    BY <1>7
  <2> QED BY <1>1, <2>2, <2>3 DEF Pushed
<1>10. Expands(Pushed(L[fn], Pushed(Tail(Head(s)), Tail(s))), u \o (v \o r), f, L, N, T)
  <2> DEFINE p == Pushed(Tail(Head(s)), Tail(s))
             w == v \o r
  <2> HIDE DEF p, w
  <2>1. p \in Seq(Seq(N)) /\ w \in Seq(N) /\ Expands(p, w, f, L, N, T)
    BY <1>8, <1>9 DEF p, w
  <2>2. Expands(Pushed(L[fn], p), u \o w, f, L, N, T)
    BY <1>6, <2>1, ExpandsPushed
  <2> QED BY <2>2 DEF p, w
<1> HIDE DEF u, v
<1>11. e = <<fn>> \o (u \o (v \o r)) /\ u \o (v \o r) \in Seq(N)
  <2>1. <<fn>> \in Seq(N) /\ u \o v \in Seq(N) /\ v \o r \in Seq(N) /\ u \o (v \o r) \in Seq(N)
    BY <1>5, <1>7, ConcatType
  <2>2. <<fn>> \o u \o v = <<fn>> \o (u \o v)
    BY <1>7, <2>1
  <2>3. (u \o v) \o r = u \o (v \o r)
    BY <1>7
  <2>4. (<<fn>> \o (u \o v)) \o r = <<fn>> \o ((u \o v) \o r)
    <3> DEFINE a == <<fn>>
               b == u \o v
    <3>1. a \in Seq(N) /\ b \in Seq(N)
      BY <2>1
    <3> HIDE DEF a, b
    <3>2. (a \o b) \o r = a \o (b \o r)
      BY <3>1
    <3> QED BY <3>2 DEF a, b
  <2> QED BY <1>2, <1>7, <2>1, <2>2, <2>3, <2>4
<1> QED BY <1>5, <1>10, <1>11

(* The lists of a job, as a function of the file they are attached to.     *)
ListedIn(o, name) ==
  LET lists == o.secondaryFileNames
      given == {i \in DOMAIN lists : lists[i].a = name}
  IN  IF given = {} THEN <<>> ELSE lists[FirstOf(lists, given)].b

Lists(o, T) == [name \in T |-> ListedIn(o, name)]

(* A configuration that names secondary files there are, and does not      *)
(* lead back, gives a forest.                                              *)
LEMMA ListsAreForest ==
  ASSUME NEW o \in Options, NEW T, Names \subseteq T
  PROVE  Forest(Lists(o, T), Names, T)
<1> DEFINE lists == o.secondaryFileNames
           given(name) == {i \in DOMAIN lists : lists[i].a = name}
           L == Lists(o, T)
<1>1. lists \in Seq(SecondaryFile) /\ Len(lists) \in Nat
  <2>1. o \in Option
    BY OptionsAssumption
  <2>2. lists \in Seq(SecondaryFile)
    BY <2>1 DEF Option
  <2> QED BY <2>2
<1>2. ASSUME NEW i \in DOMAIN lists PROVE lists[i].b \in Seq(Names)
  <2>0. lists[i] \in SecondaryFile
    BY <1>1
  <2>1. lists[i].b \in Seq(STRING)
    BY <2>0 DEF SecondaryFile
  <2>2. \A k \in DOMAIN lists[i].b : lists[i].b[k] \in Names
    BY <1>1, <1>2, ListsAssumption
  <2> QED BY <2>1, <2>2
<1>3. PICK height \in [Names -> 0..Len(lists)] :
        \A i, j \in DOMAIN lists : \A k \in DOMAIN lists[i].b :
          lists[i].b[k] = lists[j].a /\ lists[i].a \in Names =>
            height[lists[j].a] < height[lists[i].a]
  BY ListsAssumption DEF Acyclic
<1> HIDE DEF lists
<1>4. ASSUME NEW name \in T
      PROVE  \/ L[name] = <<>>
             \/ \E i \in DOMAIN lists : lists[i].a = name /\ L[name] = lists[i].b
  <2>1. L[name] = IF given(name) = {} THEN <<>> ELSE lists[FirstOf(lists, given(name))].b
    BY DEF Lists, ListedIn, lists
  <2>2. given(name) # {} => FirstOf(lists, given(name)) \in given(name)
    BY <1>1, FirstOfSequence
  <2> HIDE DEF L
  <2> QED BY <2>1, <2>2
<1>5. L \in [T -> Seq(Names)]
  <2> DEFINE list(name) == ListedIn(o, name)
  <2>1. L = [name \in T |-> list(name)]
    BY DEF Lists
  <2> HIDE DEF L, list
  <2>2. ASSUME NEW name \in T PROVE L[name] \in Seq(Names)
    <3>1. CASE L[name] = <<>>
      BY <3>1
    <3>2. CASE L[name] # <<>>
      <4>1. PICK i \in DOMAIN lists : L[name] = lists[i].b
        BY <1>4, <3>2
      <4> QED BY <1>2, <4>1
    <3> QED BY <3>1, <3>2
  <2> QED BY <2>1, <2>2
<1> HIDE DEF L
<1>6. ASSUME NEW n \in Names, NEW k \in DOMAIN L[n], L[L[n][k]] # <<>>
      PROVE  height[L[n][k]] < height[n]
  <2>1. L[n] # <<>> /\ L[n] \in Seq(Names) /\ L[n][k] \in Names
    BY <1>5
  <2>2. PICK i \in DOMAIN lists : lists[i].a = n /\ L[n] = lists[i].b
    BY <1>4, <2>1
  <2>3. PICK j \in DOMAIN lists : lists[j].a = L[n][k]
    BY <1>4, <1>6, <2>1
  <2> QED BY <1>3, <2>2, <2>3
<1>7. Len(lists) \in Nat
  BY <1>1
<1> QED BY <1>3, <1>5, <1>6, <1>7 DEF Forest, L

(* PreOrder is the function that unfolds these lists.                      *)
From(o) ==
  CHOOSE from :
    from = [at \in STRING \X (Nat \ {0}) |->
              LET list == ListedIn(o, at[1])
                  fn   == list[at[2]]
              IN  IF at[2] > Len(list) THEN <<>>
                  ELSE <<fn>> \o from[<<fn, 1>>] \o from[<<at[1], at[2] + 1>>]]

LEMMA PreOrderFrom == \A name : PreOrder(name) = From(opts)[<<name, 1>>]
BY DEF PreOrder, Listed, From, ListedIn

LEMMA FromUnfolds ==
  ASSUME NEW o \in Options
  PROVE  From(o) = Unfolds(From(o), Lists(o, STRING), STRING)
<1> DEFINE list(n) == ListedIn(o, n)
           Is(f) == f = [at \in STRING \X (Nat \ {0}) |->
                           IF at[2] > Len(list(at[1])) THEN <<>>
                           ELSE <<list(at[1])[at[2]]>> \o f[<<list(at[1])[at[2]], 1>>]
                                  \o f[<<at[1], at[2] + 1>>]]
<1>1. Names \subseteq STRING
  BY StoreAssumption
<1>2. Forest(Lists(o, STRING), Names, STRING)
  BY <1>1, ListsAreForest
<1>3. PICK f : f = Unfolds(f, Lists(o, STRING), STRING)
  BY <1>2, UnfoldingExists
<1>4. \A g : Is(g) <=> g = Unfolds(g, Lists(o, STRING), STRING)
  BY DEF Unfolds, Lists, Positive
<1>5. From(o) = CHOOSE g : Is(g)
  BY DEF From
<1> HIDE DEF Is
<1>6. Is(From(o))
  BY <1>3, <1>4, <1>5
<1> QED BY <1>4, <1>6

-----------------------------------------------------------------------------
(* What the lists made so far and what is left on the stack come to: each  *)
(* list but the last is made, and the last with what is to come.           *)
Left(k) == IF k = Len(secondaryFileNames) THEN stk ELSE <<>>

Made(out, s, whole, o, T) ==
  \E e \in Seq(Names) :
    Expands(s, e, From(o), Lists(o, T), Names, T) /\ whole = out \o e

WalkInv ==
  /\ SecondaryTypeOK
  /\ \A k \in DOMAIN secondaryFileNames :
       Made(secondaryFileNames[k], Left(k), From(opts)[<<catalog[k].name, 1>>], opts, STRING)

(* A list begins with the list attached to the primary file.               *)
LEMMA ListBegun ==
  ASSUME NEW o \in Options, NEW T, Names \subseteq T, NEW name \in T,
         From(o) = Unfolds(From(o), Lists(o, T), T), NEW list, list = ListedIn(o, name)
  PROVE  Made(<<>>, IF list = <<>> THEN <<>> ELSE <<list>>, From(o)[<<name, 1>>], o, T)
<1> DEFINE f == From(o)
           L == Lists(o, T)
           e == f[<<name, 1>>]
<1>1. Forest(L, Names, T)
  BY ListsAreForest
<1>2. L[name] = list /\ L[name] \in Seq(Names)
  <2>1. L[name] = list
    BY DEF Lists
  <2> HIDE DEF L
  <2> QED BY <1>1, <2>1 DEF Forest
<1> HIDE DEF f, L
<1>3. 1 \in Positive /\ list = Rest(L, <<name, 1>>)
  <2> DEFINE l == L[name]
  <2>1. l \in Seq(Names)
    BY <1>2
  <2> HIDE DEF l
  <2>2. SubSeq(l, 1, Len(l)) = l
    BY <2>1
  <2> QED BY <1>2, <2>2 DEF Rest, Positive, l
<1>4. f = Unfolds(f, L, T)
  BY DEF f, L
<1>5. e \in Seq(Names)
  BY <1>1, <1>3, <1>4, UnfoldsTyped
<1>6. /\ <<>> \in Seq(Seq(Names)) /\ <<>> \in Seq(Names)
      /\ Expands(<<>>, <<>>, f, L, Names, T)
  BY ExpandsEmpty
<1>7. Expands(Pushed(list, <<>>), e \o <<>>, f, L, Names, T)
  BY <1>1, <1>3, <1>4, <1>6, ExpandsPushed
<1> HIDE DEF e
<1>8. e \o <<>> = e /\ <<>> \o e = e
  BY <1>5
<1>9. Pushed(list, <<>>) = IF list = <<>> THEN <<>> ELSE <<list>>
  <2>1. <<list>> \o <<>> = <<list>>
    OBVIOUS
  <2> QED BY <2>1 DEF Pushed
<1> QED BY <1>5, <1>7, <1>8, <1>9 DEF Made, f, L, e

(* A turn takes one name of it.                                            *)
LEMMA ListGoesOn ==
  ASSUME NEW o \in Options, NEW T, Names \subseteq T,
         From(o) = Unfolds(From(o), Lists(o, T), T),
         NEW s \in Seq(Seq(Names) \ {<<>>}), s # <<>>, NEW fn, fn = Head(Head(s)),
         NEW out \in Seq(Names), NEW whole, Made(out, s, whole, o, T)
  PROVE  Made(Append(out, fn), Pushed(ListedIn(o, fn), Pushed(Tail(Head(s)), Tail(s))), whole, o, T)
<1> DEFINE f == From(o)
           L == Lists(o, T)
<1>1. Forest(L, Names, T)
  BY ListsAreForest
<1>2. PICK e \in Seq(Names) : Expands(s, e, f, L, Names, T) /\ whole = out \o e
  BY DEF Made
<1>3. \A n \in T : L[n] = ListedIn(o, n)
  BY DEF Lists
<1>4. f = Unfolds(f, L, T)
  OBVIOUS
<1> HIDE DEF f, L
<1>5. /\ fn \in Names
      /\ \E r \in Seq(Names) :
           /\ e = <<fn>> \o r
           /\ Expands(Pushed(L[fn], Pushed(Tail(Head(s)), Tail(s))), r, f, L, Names, T)
  BY <1>1, <1>2, <1>4, NameTaken
<1>6. PICK r \in Seq(Names) :
        /\ e = <<fn>> \o r
        /\ Expands(Pushed(L[fn], Pushed(Tail(Head(s)), Tail(s))), r, f, L, Names, T)
  BY <1>5
<1>7. L[fn] = ListedIn(o, fn)
  BY <1>3, <1>5
<1>8. out \o (<<fn>> \o r) = Append(out, fn) \o r
  <2>1. fn \in Names
    BY <1>5
  <2>2. Append(out, fn) = out \o <<fn>> /\ <<fn>> \in Seq(Names)
    BY <2>1
  <2> DEFINE a == <<fn>>
  <2>3. a \in Seq(Names) /\ r \in Seq(Names)
    BY <2>2
  <2> HIDE DEF a
  <2>4. (out \o a) \o r = out \o (a \o r)
    BY <2>3, SMTT(30)
  <2> QED BY <2>2, <2>4 DEF a
<1> QED BY <1>2, <1>6, <1>7, <1>8 DEF Made, f, L

LEMMA WalkInit == SecondaryInit => WalkInv
BY SecondaryTypeInit DEF SecondaryInit, WalkInv

(* The walk keeps it.                                                      *)
LEMMA WalkStep ==
  ASSUME WalkInv, Walk, SecondaryTypeOK'
  PROVE  WalkInv'
<1> DEFINE names == secondaryFileNames
           len   == Len(names)
           whole(k) == From(opts)[<<catalog[k].name, 1>>]
<1>1. /\ UNCHANGED <<opts, catalog>>
      /\ opts \in Options /\ Names \subseteq STRING
      /\ From(opts) = Unfolds(From(opts), Lists(opts, STRING), STRING)
  <2>1. UNCHANGED vars
    BY DEF Walk, TakePrimary, TakeName
  <2>2. opts \in Options
    BY DEF WalkInv, SecondaryTypeOK, TypeOK
  <2> QED BY <2>1, <2>2, FromUnfolds, StoreAssumption DEF vars, config
<1>2. /\ names \in Seq(Seq(Names)) /\ len \in Nat /\ DOMAIN names = 1..len
      /\ stk \in Seq(Seq(Names) \ {<<>>}) /\ (stk # <<>> => names # <<>>)
  BY DEF WalkInv, SecondaryTypeOK
<1>3. ASSUME NEW k \in DOMAIN names PROVE Made(names[k], Left(k), whole(k), opts, STRING)
  BY DEF WalkInv
<1>4. SUFFICES ASSUME NEW k \in DOMAIN names'
               PROVE  Made(names'[k], Left(k)', whole(k), opts, STRING)
  BY <1>1 DEF WalkInv
<1>5. \A name : Listed(name) = ListedIn(opts, name)
  BY DEF Listed, ListedIn
<1>6. CASE TakePrimary
  <2> DEFINE list == Listed(catalog[len + 1].name)
  <2>1. /\ stk = <<>> /\ names' = Append(names, <<>>) /\ len < Len(catalog)
        /\ stk' = IF list = <<>> THEN <<>> ELSE <<list>>
    BY <1>6 DEF TakePrimary
  <2>2. /\ Len(names') = len + 1 /\ k \in 1..(len + 1) /\ names'[len + 1] = <<>>
        /\ \A j \in 1..len : names'[j] = names[j]
    BY <1>2, <2>1
  <2>3. CASE k \in 1..len
    <3>1. Left(k) = <<>> /\ Left(k)' = <<>> /\ names'[k] = names[k]
      BY <1>2, <2>1, <2>2, <2>3 DEF Left
    <3> QED BY <1>2, <1>3, <2>3, <3>1
  <2>4. CASE k = len + 1
    <3>1. Left(k)' = stk' /\ names'[k] = <<>>
      BY <2>2, <2>4 DEF Left
    <3>2. catalog[k].name \in STRING
      <4>1. catalog \in Seq(File)
        BY ConfigType DEF WalkInv, SecondaryTypeOK
      <4>2. catalog[k] \in File
        BY <1>2, <2>1, <2>4, <4>1
      <4> QED BY <4>2 DEF File
    <3>3. list = ListedIn(opts, catalog[k].name)
      BY <1>5, <2>4
    <3> HIDE DEF list
    <3>4. Made(<<>>, IF list = <<>> THEN <<>> ELSE <<list>>, whole(k), opts, STRING)
      BY <1>1, <3>2, <3>3, ListBegun
    <3> QED BY <2>1, <3>1, <3>4
  <2> QED BY <1>2, <2>2, <2>3, <2>4
<1>7. CASE TakeName
  <2> DEFINE fn  == Head(Head(stk))
             out == Append(names[len], fn)
  <2>1. /\ stk # <<>> /\ names' = [names EXCEPT ![len] = out]
        /\ stk' = Pushed(ListedIn(opts, fn), Pushed(Tail(Head(stk)), Tail(stk)))
    BY <1>5, <1>7 DEF TakeName
  <2>2. len \in DOMAIN names /\ names[len] \in Seq(Names)
    BY <1>2, <2>1
  <2> HIDE DEF fn
  <2>3. Made(out, stk', whole(len), opts, STRING)
    <3>1. Left(len) = stk
      BY DEF Left
    <3>2. Made(names[len], stk, whole(len), opts, STRING)
      BY <1>3, <2>2, <3>1
    <3> QED BY <1>1, <1>2, <2>1, <2>2, <3>2, ListGoesOn DEF fn
  <2> HIDE DEF out
  <2>4. /\ Len(names') = len /\ k \in 1..len /\ names'[len] = out
        /\ \A j \in 1..len : j # len => names'[j] = names[j]
    <3>1. Len(names') = len /\ DOMAIN names' = 1..len
      BY <1>2, <2>1, <2>2
    <3>2. names'[len] = out /\ \A j \in 1..len : j # len => names'[j] = names[j]
      BY <1>2, <2>1, <2>2
    <3> QED BY <3>1, <3>2
  <2>5. CASE k = len
    <3>1. Left(k)' = stk' /\ names'[k] = out
      BY <2>4, <2>5 DEF Left
    <3> QED BY <2>3, <2>5, <3>1
  <2>6. CASE k # len
    <3>1. Left(k) = <<>> /\ Left(k)' = <<>> /\ names'[k] = names[k]
      BY <2>4, <2>6 DEF Left
    <3> QED BY <1>2, <1>3, <2>4, <3>1
  <2> QED BY <2>5, <2>6
<1> QED BY <1>6, <1>7 DEF Walk

(* For all files, lists and configurations: the lists the constructor      *)
(* makes have the files in the order in which a reader of the              *)
(* configuration finds them.                                               *)
THEOREM ListsWalkedInPreOrder == SecondarySpec => []WalkedInPreOrder
<1>1. WalkInv /\ [SecondaryNext]_allVars => WalkInv'
  <2> SUFFICES ASSUME WalkInv, [SecondaryNext]_allVars PROVE WalkInv'
    OBVIOUS
  <2>1. SecondaryTypeOK'
    BY SecondaryTypeStep DEF WalkInv
  <2>2. CASE Walk
    BY <2>1, <2>2, WalkStep
  <2>3. CASE ~ Walk
    <3>1. [Next]_vars
      BY StepOfInput
    <3>2. UNCHANGED <<stk, secondaryFileNames, catalog, opts>>
      <4>1. UNCHANGED <<stk, secondaryFileNames>>
        BY <2>3 DEF SecondaryNext, allVars, secVars, Goes, OpenFirst, ReadFile, Stop, Ahead, ReadRunSubRun,
                    ReadThisEvent, ReadFails, Loop, Asks, Ask, Answers, AnswerFound, AnswerMissing,
                    CannotOpen, NotThere, ReadsPrincipal, AssertionFails, SeveralEntries, Outcome
      <4> QED BY <3>1, <4>1, ConfigFixed
    <3> QED BY <2>1, <3>2 DEF WalkInv, Left
  <2> QED BY <2>2, <2>3
<1>2. WalkInv => WalkedInPreOrder
  <2> SUFFICES ASSUME WalkInv, Walked, NEW k \in DOMAIN catalog
               PROVE  secondaryFileNames[k] = PreOrder(catalog[k].name)
    BY DEF WalkedInPreOrder
  <2>1. /\ Len(secondaryFileNames) = Len(catalog) /\ stk = <<>>
        /\ secondaryFileNames \in Seq(Seq(Names))
    BY DEF Walked, WalkInv, SecondaryTypeOK
  <2>2. k \in DOMAIN secondaryFileNames /\ Left(k) = <<>>
    <3>1. catalog \in Seq(File)
      BY ConfigType DEF WalkInv, SecondaryTypeOK, TypeOK
    <3> QED BY <2>1, <3>1 DEF Left
  <2>3. PICK e \in Seq(Names) :
          /\ Expands(<<>>, e, From(opts), Lists(opts, STRING), Names, STRING)
          /\ From(opts)[<<catalog[k].name, 1>>] = secondaryFileNames[k] \o e
    BY <2>2 DEF WalkInv, Made
  <2>4. e = <<>>
    BY <2>3, ExpandsEmpty
  <2>5. secondaryFileNames[k] \o <<>> = secondaryFileNames[k]
    <3>1. secondaryFileNames[k] \in Seq(Names)
      BY <2>1, <2>2
    <3> QED BY <3>1
  <2> QED BY <2>3, <2>4, <2>5, PreOrderFrom
<1> QED BY <1>1, <1>2, WalkInit, PTL DEF SecondarySpec
=============================================================================
