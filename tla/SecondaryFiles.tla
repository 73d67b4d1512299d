---------------------------- MODULE SecondaryFiles ----------------------------
(***************************************************************************)
(* Secondary input files: InputSequence, and the products its files do not *)
(* have but files attached to them do.                                     *)
(*                                                                         *)
(* The source configuration attaches lists of files to files, primary or   *)
(* secondary.  The constructor of RootInputFileSequence makes one list per *)
(* primary file of them.  When a module asks a run, a subrun or an event   *)
(* for a product that is not there, art asks the principal's delayed       *)
(* reader for one secondary principal after another until one of them has  *)
(* the product.  Each secondary file is opened when it is first asked and  *)
(* has a cursor of its own, which the requests for runs, subruns and       *)
(* events share.                                                           *)
(*                                                                         *)
(* A request is answered before the event loop goes on: secondary files    *)
(* are for jobs with one thread and one schedule.  Here it is answered in  *)
(* steps, one per secondary file.  A build with assertions is modelled:    *)
(* one that fails ends the job.                                            *)
(***************************************************************************)
EXTENDS InputSequence

CONSTANTS
  Store,        \* the secondary files, by name
  Products,     \* the products asked for, which no primary file has
  MaxRequests   \* bound on the requests of one job

Levels == {"Run", "SubRun", "Event"}

Attached == [kind : {"unopenable", "corrupt", "good"}, sorted : Seq(ID), byEntry : Seq(ID),
             products : SUBSET Products]

Names == DOMAIN Store

(* A list that leads back to its own file makes the constructor walk in a  *)
(* circle; a job has none.                                                 *)
Acyclic(lists) ==
  \E height \in [Names -> 0..Len(lists)] :
    \A i, j \in DOMAIN lists :
      \A k \in DOMAIN lists[i].b :
        lists[i].b[k] = lists[j].a /\ lists[i].a \in Names =>
          height[lists[j].a] < height[lists[i].a]

ASSUME StoreAssumption    ==
  /\ Names \subseteq STRING /\ Store \in [Names -> Attached]
  /\ \A n \in Names : Sorted(Store[n].sorted) /\ SortedBySubRun(Store[n].byEntry)
ASSUME ListsAssumption    ==
  \A o \in Options :
    /\ \A i \in DOMAIN o.secondaryFileNames :
         \A k \in DOMAIN o.secondaryFileNames[i].b : o.secondaryFileNames[i].b[k] \in Names
    /\ Acyclic(o.secondaryFileNames)
ASSUME RequestsAssumption == MaxRequests \in Nat

VARIABLES
  stk,                  \* stk: what is left of the lists being walked
  secondaryFileNames,   \* secondaryFileNames_
  cursors,              \* secondaryFilesForPrimary_: fiIter_ of each, 0 when it is null
  principals,           \* of the run, the subrun and the event being processed
  request,              \* the product a module waits for
  answer,               \* the last request's outcome
  requests              \* the number of requests

asking   == <<request, answer, requests>>
secVars  == <<stk, secondaryFileNames, cursors, principals, asking>>
allVars  == <<vars, secVars>>

NoPrincipal == [id |-> RunEntry(0), next |-> 1, found |-> <<>>]
NoRequest   == [level |-> "none"]
NoAnswer    == [status |-> "none"]

(* A principal just read: no secondary file has been asked. *)
Principal(id) == [id |-> id, next |-> 1, found |-> <<>>]

Alive(level) == principals[level] # NoPrincipal
Busy         == request # NoRequest
JobFailed    == answer.status \in {"threw", "assertion"}

-----------------------------------------------------------------------------
(***************************************************************************)
(* The constructor of RootInputFileSequence: one list per primary file.    *)
(* stk holds the rests of lists, the one to go on with in front.           *)
(***************************************************************************)
Walked == stk = <<>> /\ Len(secondaryFileNames) = Len(catalog)

TakePrimary ==
  /\ item = "Construct" /\ stk = <<>> /\ Len(secondaryFileNames) < Len(catalog)
  /\ secondaryFileNames' = Append(secondaryFileNames, <<>>)
  /\ LET list == Listed(catalog[Len(secondaryFileNames) + 1].name) IN
       stk' = IF list = <<>> THEN <<>> ELSE <<list>>
  /\ UNCHANGED <<vars, cursors, principals, asking>>

Pushed(list, s) == IF list = <<>> THEN s ELSE <<list>> \o s

(* Mutant: the rest of the list before the lists of its members. *)
TakeName_Breadth ==
  LET fn   == Head(Head(stk))
      rest == Tail(Head(stk))
      last == Len(secondaryFileNames)
  IN  /\ stk # <<>>
      /\ secondaryFileNames' = [secondaryFileNames EXCEPT ![last] = Append(@, fn)]
      /\ stk' = Pushed(rest, Pushed(Listed(fn), Tail(stk)))
      /\ UNCHANGED <<vars, cursors, principals, asking>>

(* A rest that is empty is pushed only below a new list, and then popped   *)
(* by a turn that does nothing else: it is left out here.                  *)
TakeName ==
  LET fn   == Head(Head(stk))
      rest == Tail(Head(stk))
      last == Len(secondaryFileNames)
  IN  /\ stk # <<>>
      /\ secondaryFileNames' = [secondaryFileNames EXCEPT ![last] = Append(@, fn)]
      /\ stk' = Pushed(Listed(fn), Pushed(rest, Tail(stk)))
      /\ UNCHANGED <<vars, cursors, principals, asking>>

-----------------------------------------------------------------------------
(***************************************************************************)
(* The event loop, which waits while a request is being answered           *)
(***************************************************************************)
Loop == ~ Busy /\ ~ JobFailed /\ UNCHANGED <<stk, secondaryFileNames, asking>>

Gone == [level \in Levels |-> NoPrincipal]

(* Mutant: the room made for the file before is not given up. *)
RoomForSecondaries_Kept ==
  cursors' = IF rootFile' = 0 \/ cursors # <<>> THEN cursors
             ELSE [i \in DOMAIN secondaryFileNames[rootFile'] |-> 0]

(* initFile() makes room for the secondary files of the file it opened. *)
RoomForSecondaries ==
  cursors' = IF rootFile' = 0 THEN cursors
             ELSE [i \in DOMAIN secondaryFileNames[rootFile'] |-> 0]

OpenFirst == Loop /\ Walked /\ Construct /\ RoomForSecondaries /\ UNCHANGED principals

(* The run and the subrun are over before their file is closed. *)
ReadFile == Loop /\ (ReadFirstFile \/ ReadNextFile) /\ RoomForSecondaries /\ principals' = Gone
Stop     == Loop /\ StopJob /\ principals' = Gone /\ UNCHANGED cursors

(* The event is over when the next item is asked for. *)
Ahead ==
  /\ Loop /\ (Limits \/ Wanted)
  /\ principals' = [principals EXCEPT !["Event"] = NoPrincipal]
  /\ UNCHANGED cursors

ReadRunSubRun ==
  /\ Loop /\ ReadRunOrSubRun
  /\ principals' =
       IF item = "Run" THEN [Gone EXCEPT !["Run"] = Principal(entry)]
       ELSE [principals EXCEPT !["SubRun"] = Principal(entry)]
  /\ UNCHANGED cursors

ReadThisEvent ==
  /\ Loop /\ ReadEvent
  /\ principals' = [principals EXCEPT !["Event"] = Principal(entry)]
  /\ UNCHANGED cursors

ReadFails == Loop /\ ReadEventThrows /\ UNCHANGED <<cursors, principals>>

-----------------------------------------------------------------------------
(***************************************************************************)
(* A module asks for a product, while its run begins or ends, its subrun   *)
(* begins or ends, or its event is processed.  Without secondary files     *)
(* there is no reader to ask.                                              *)
(***************************************************************************)
Ask(level, product) ==
  /\ ~ Busy /\ ~ JobFailed /\ requests < MaxRequests
  /\ item \in {"Idle", "Run", "SubRun", "File", "Stop"}
  /\ Alive(level) /\ cursors # <<>>
  /\ request' = [level |-> level, product |-> product]
  /\ answer' = NoAnswer
  /\ requests' = requests + 1
  /\ UNCHANGED <<vars, stk, secondaryFileNames, cursors, principals>>

asker   == principals[request.level]
FileAt(i) == Store[secondaryFileNames[current][i]]
asked   == FileAt(asker.next)

(* The secondary principals of the asker that have the product. *)
Having == {n \in DOMAIN asker.found : request.product \in FileAt(asker.found[n].file).products}

NoPlace == [file |-> 0, pos |-> 0]

Outcome(status, from) ==
  /\ answer' = [status |-> status, level |-> request.level, product |-> request.product,
                id |-> asker.id, primary |-> current, from |-> from]
  /\ request' = NoRequest
  /\ UNCHANGED <<vars, stk, secondaryFileNames, principals, requests>>

AnswerFound ==
  /\ Busy /\ Having # {}
  /\ Outcome("found", asker.found[FirstOf(asker.found, Having)])
  /\ UNCHANGED cursors

(* nextSecondaryPrincipal() at the end of the list *)
AnswerMissing ==
  /\ Busy /\ Having = {} /\ asker.next > Len(cursors)
  /\ Outcome("missing", NoPlace)
  /\ UNCHANGED cursors

(* The secondary file is asked, and opened if it is not open yet. *)
AskNext == Busy /\ Having = {} /\ asker.next <= Len(cursors)

CannotOpen ==
  /\ AskNext /\ asked.kind # "good"
  /\ Outcome("threw", NoPlace)
  /\ UNCHANGED cursors

SameID(a, b) ==
  CASE request.level = "Run"    -> a.run = b.run
    [] request.level = "SubRun" -> SubRunOf(a) = SubRunOf(b)
    [] request.level = "Event"  -> a = b

cursor == IF cursors[asker.next] = 0 THEN 1 ELSE cursors[asker.next]

(* Mutant: the cursor of a file read to its end stays there. *)
Sought_EndStays ==
  LET ix == IndexOf(asked) IN
  IF cursor = End(ix) THEN cursor
  ELSE IF SameID(ix[cursor], asker.id) THEN cursor ELSE FindExactly(ix, asker.id)

(* Where readRunWithID(), readSubRunWithID() and readEventWithID() leave   *)
(* the cursor: it stays if it is on the run, the subrun or the event.      *)
Sought ==
  LET ix == IndexOf(asked) IN
  IF cursor # End(ix) /\ SameID(ix[cursor], asker.id) THEN cursor
  ELSE FindExactly(ix, asker.id)

Seeks == AskNext /\ asked.kind = "good" /\ cursors' = [cursors EXCEPT ![asker.next] = Sought]

(* The asker will ask the next file. *)
MovesOn(found) ==
  principals' = [principals EXCEPT ![request.level] =
                   [id |-> asker.id, next |-> asker.next + 1, found |-> found]]

(* Mutant: only a file that has the run, subrun or event is left behind. *)
NotThere_StaysThere ==
  /\ Seeks /\ Sought = End(IndexOf(asked))
  /\ UNCHANGED <<vars, stk, secondaryFileNames, principals, asking>>

NotThere ==
  /\ Seeks /\ Sought = End(IndexOf(asked))
  /\ MovesOn(asker.found)
  /\ UNCHANGED <<vars, stk, secondaryFileNames, asking>>

(* assert(fiIter_->getEntryType() == FileIndex::kRun), or kSubRun *)
OnEntryOfItsLevel == TypeAt(IndexOf(asked), Sought) = request.level

Single == request.level = "Event" => FragmentsEnd(IndexOf(asked), Sought) = Sought + 1

ReadsPrincipal ==
  /\ Seeks /\ OnEntryOfItsLevel /\ Single
  /\ MovesOn(Append(asker.found, [file |-> asker.next, pos |-> Sought]))
  /\ UNCHANGED <<vars, stk, secondaryFileNames, asking>>

AssertionFails ==
  /\ Seeks /\ Sought # End(IndexOf(asked)) /\ ~ OnEntryOfItsLevel
  /\ Outcome("assertion", NoPlace)

SeveralEntries ==
  /\ Seeks /\ OnEntryOfItsLevel /\ ~ Single
  /\ Outcome("threw", NoPlace)

-----------------------------------------------------------------------------
SecondaryInit ==
  /\ Init
  /\ stk = <<>> /\ secondaryFileNames = <<>> /\ cursors = <<>>
  /\ principals = Gone
  /\ request = NoRequest /\ answer = NoAnswer /\ requests = 0

Walk    == TakePrimary \/ TakeName
Goes    == OpenFirst \/ ReadFile \/ Stop \/ Ahead \/ ReadRunSubRun \/ ReadThisEvent \/ ReadFails
Asks    == \E level \in Levels, product \in Products : Ask(level, product)
Answers ==
  \/ AnswerFound \/ AnswerMissing \/ CannotOpen \/ NotThere \/ ReadsPrincipal
  \/ AssertionFails \/ SeveralEntries

SecondaryNext == Walk \/ Goes \/ Asks \/ Answers

SecondarySpec == SecondaryInit /\ [][SecondaryNext]_allVars

(* The constructor, the event loop and the search for a product go on;     *)
(* nobody has to ask.                                                      *)
SecondaryFairSpec == SecondarySpec /\ WF_allVars(Walk \/ Goes \/ Answers)

-----------------------------------------------------------------------------
(***************************************************************************)
(* Properties                                                              *)
(***************************************************************************)
Statuses == {"none", "found", "missing", "threw", "assertion"}
Places   == [file : Nat, pos : Nat]

ReadPrincipal == [id : ID, next : Nat \ {0}, found : Seq(Places)]

CursorsType ==
  rootFile # 0 =>
    /\ DOMAIN cursors = DOMAIN secondaryFileNames[current]
    /\ \A i \in DOMAIN cursors : cursors[i] \in 0..End(IndexOf(FileAt(i)))

SecondaryTypeOK ==
  /\ TypeOK
  /\ stk \in Seq(Seq(Names) \ {<<>>}) /\ secondaryFileNames \in Seq(Seq(Names))
  /\ stk # <<>> => secondaryFileNames # <<>>
  /\ Len(secondaryFileNames) <= Len(catalog)
  /\ item # "Construct" => Walked
  /\ item = "Construct" => rootFile = 0 /\ cursors = <<>>
  /\ cursors \in Seq(Nat)
  /\ CursorsType
  /\ principals \in [Levels -> ReadPrincipal \cup {NoPrincipal}]
  /\ rootFile = 0 => principals = Gone
  /\ request \in [level : Levels, product : Products] \cup {NoRequest}
  /\ Busy => Alive(request.level)
  /\ answer.status \in Statuses
  /\ requests \in 0..MaxRequests

(* The lists of secondary files are in the order in which a reader of the  *)
(* configuration finds them: each file before the files attached to it,    *)
(* and these before the next in its own list.                              *)
PreOrder(name) ==
  LET from[at \in STRING \X (Nat \ {0})] ==
        LET list == Listed(at[1])
            fn   == list[at[2]]
        IN  IF at[2] > Len(list) THEN <<>>
            ELSE <<fn>> \o from[<<fn, 1>>] \o from[<<at[1], at[2] + 1>>]
  IN  from[<<name, 1>>]

WalkedInPreOrder ==
  Walked => \A k \in DOMAIN catalog : secondaryFileNames[k] = PreOrder(catalog[k].name)

(* However the requests for runs, subruns and events follow one another    *)
(* and move the cursors, a request that is answered is answered by the     *)
(* first file of the list that has both the product and the run, subrun or *)
(* event it is asked for, from its first entry, and "missing" only if      *)
(* there is none.                                                          *)
PlaceIn(name, id) == FindExactly(IndexOf(Store[name]), id)
Holds(name, id)   == PlaceIn(name, id) # End(IndexOf(Store[name]))

AnswersFromTheFirstFile ==
  answer.status \in {"found", "missing"} =>
    LET list    == secondaryFileNames[answer.primary]
        holders == {i \in DOMAIN list : /\ answer.product \in Store[list[i]].products
                                        /\ Holds(list[i], answer.id)}
    IN  IF answer.status = "missing" THEN holders = {}
        ELSE /\ answer.from.file \in holders
             /\ \A i \in holders : answer.from.file <= i
             /\ answer.from.pos = PlaceIn(list[answer.from.file], answer.id)

(* Every job comes to its end, whatever is asked for and when.             *)
JobWithSecondariesEnds == <>(item \in {"Stopped", "Failed"} \/ JobFailed)

(* RootInputFile: "assert(fiIter_->getEntryType() == FileIndex::kRun)": a  *)
(* run is asked for when the cursor is on its entry or not in it at all.   *)
CursorIsOnTheRun == answer.status # "assertion"
=============================================================================
