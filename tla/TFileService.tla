---------------------------- MODULE TFileService ----------------------------
(***************************************************************************)
(* The service that gives modules a ROOT file for histograms, and changes  *)
(* to a new file when the one it has is full.                              *)
(*                                                                         *)
(* art calls each module in each transition of its event loop and tells    *)
(* the service before; a module registers a callback, makes an object in   *)
(* the directory the service has set, and fills the object with events.    *)
(* Other modules run at the same time if there is more than one thread.    *)
(* Names and titles are left out: a file is known by its number.           *)
(***************************************************************************)
EXTENDS Integers, FiniteSets, Sequences

CONSTANTS
  Modules,   \* labels of modules
  Jobs       \* configurations

(* What art calls modules for, and where files may be switched.            *)
Rank == [Event |-> 1, EndSubRun |-> 2, EndRun |-> 3, CloseInput |-> 4]
Granularities == {"Event", "EndSubRun", "EndRun", "CloseInput"}
Transitions == Granularities \cup
  {"Construction", "BeginJob", "OpenInput", "BeginRun", "BeginSubRun", "EndJob"}

ASSUME TFileServiceAssumption == \A j \in Jobs :
  /\ j.loop \in Seq(Transitions)
  /\ j.nthreads \in Nat \ {0} /\ j.nschedules \in Nat \ {0}
  /\ j.granularity \in Granularities
  /\ j.max \in [Granularities -> Nat \ {0}]
  /\ j.makes \in [Modules -> SUBSET Transitions] /\ j.registers \in [Modules -> SUBSET Transitions]
(* dir_ is one for all modules and not locked, so that jobs whose modules  *)
(* are called at the same time have to make everything before the events.  *)
ASSUME CallsAssumption == \A j \in Jobs :
  j.nthreads > 1 => \A m \in Modules : "Event" \notin j.makes[m] \cup j.registers[m]

VARIABLES
  job,        \* fixed
  phase,
  step,       \* place in job.loop
  waiting,    \* modules not called yet in this transition
  pc,         \* of each module: what it does next in its call
  dir,        \* dir_: the directory objects are made in
  callbacks,  \* callbacks_: pairs of directory and module
  pending,    \* callbacks still to be called after a switch
  fp,         \* fp_: counts of the open file, by granularity
  files,      \* all files; the last one is file_
  held,       \* number of the file each module's object is in, 0 for none
  made        \* history: the step from which each module has had an object

vars == <<job, phase, step, waiting, pc, dir, callbacks, pending, fp, files, held, made>>

Transition == job.loop[step]
Running    == {m \in Modules : pc[m] # "idle"}

-----------------------------------------------------------------------------
(* openFile_() and closeFile_(); fstats_ knows the events of a file.       *)
NewFile == [open |-> TRUE, objects |-> {}, fills |-> [m \in Modules |-> {}], events |-> {}]

OpenFile(fs)  == Append(fs, NewFile)
CloseFile(fs) == [fs EXCEPT ![Len(fs)].open = FALSE]

NoCounts == [g \in Granularities |-> 0]

(* The constructor refuses to switch files where both numbers are not 1.   *)
Construct ==
  /\ phase = "Construct"
  /\ IF job.switching /\ ((job.nthreads # 1 /\ job.nschedules # 1) \/ ~ job.patternIsUnique)
     THEN phase' = "Failed" /\ UNCHANGED files
     ELSE phase' = "Loop" /\ files' = OpenFile(files)
  /\ UNCHANGED <<job, step, waiting, pc, dir, callbacks, pending, fp, held, made>>

-----------------------------------------------------------------------------
(***************************************************************************)
(* Modules                                                                 *)
(***************************************************************************)
Calling == phase = "Loop" /\ step <= Len(job.loop)

(* art calls a module, and setDirectoryName_() is told.                    *)
BeginCall(m) ==
  /\ Calling /\ m \in waiting
  /\ Cardinality(Running) < IF Transition = "Event" THEN job.nthreads ELSE 1
  /\ waiting' = waiting \ {m}
  /\ pc' = [pc EXCEPT ![m] = "register"]
  /\ dir' = m
  /\ UNCHANGED <<job, phase, step, callbacks, pending, fp, files, held, made>>

(* registerFileSwitchCallback() *)
Register(m) ==
  /\ Calling /\ pc[m] = "register"
  /\ pc' = [pc EXCEPT ![m] = "make"]
  /\ callbacks' = IF Transition \in job.registers[m]
                  THEN callbacks \cup {[dir |-> dir, module |-> m]} ELSE callbacks
  /\ UNCHANGED <<job, phase, step, waiting, dir, pending, fp, files, held, made>>

(* Mutant: no callback is asked for. *)
MayMake_Always == TRUE

(* cd() *)
MayMake == job.switching => \E c \in callbacks : c.dir = dir

(* A module makes its object, in the directory or one it makes below it.   *)
WithObject(fs, d, m) ==
  [fs EXCEPT ![Len(fs)].objects =
     @ \cup {[module |-> m, path |-> IF m \in job.below THEN <<d, "below">> ELSE <<d>>]}]

WantsToMake(m) == Calling /\ pc[m] = "make" /\ Transition \in job.makes[m] /\ held[m] = 0

Make(m) ==
  /\ WantsToMake(m) /\ MayMake
  /\ files' = WithObject(files, dir, m)
  /\ held' = [held EXCEPT ![m] = Len(files)]
  /\ made' = [made EXCEPT ![m] = step]
  /\ pc' = [pc EXCEPT ![m] = "fill"]
  /\ UNCHANGED <<job, phase, step, waiting, dir, callbacks, pending, fp>>

(* cd() throws; modules may catch it, or else the job ends.                *)
MakeThrows(m) ==
  /\ WantsToMake(m) /\ ~ MayMake
  /\ IF m \in job.catches
     THEN pc' = [pc EXCEPT ![m] = "fill"] /\ UNCHANGED <<phase, files>>
     ELSE phase' = "Failed" /\ files' = CloseFile(files) /\ UNCHANGED pc
  /\ UNCHANGED <<job, step, waiting, dir, callbacks, pending, fp, held, made>>

MakeNothing(m) ==
  /\ Calling /\ pc[m] = "make" /\ (Transition \notin job.makes[m] \/ held[m] # 0)
  /\ pc' = [pc EXCEPT ![m] = "fill"]
  /\ UNCHANGED <<job, phase, step, waiting, dir, callbacks, pending, fp, files, held, made>>

(* What is put in an object whose file is closed is lost.                  *)
EndCall(m) ==
  /\ Calling /\ pc[m] = "fill"
  /\ pc' = [pc EXCEPT ![m] = "idle"]
  /\ files' = IF Transition = "Event" /\ held[m] # 0 /\ files[held[m]].open
              THEN [files EXCEPT ![held[m]].fills[m] = @ \cup {step}] ELSE files
  /\ UNCHANGED <<job, phase, step, waiting, dir, callbacks, pending, fp, held, made>>

-----------------------------------------------------------------------------
(***************************************************************************)
(* After a transition                                                      *)
(***************************************************************************)
TransitionOver == Calling /\ waiting = {} /\ Running = {}

GoOn == step' = step + 1 /\ waiting' = Modules

(* No signal is watched after this transition.                             *)
NothingToDo ==
  /\ TransitionOver /\ Transition \notin Granularities
  /\ GoOn
  /\ UNCHANGED <<job, phase, pc, dir, callbacks, pending, fp, files, held, made>>

Counted == [fp EXCEPT ![Transition] = @ + 1]

Recorded(fs) ==
  IF Transition = "Event" THEN [fs EXCEPT ![Len(fs)].events = @ \cup {step}] ELSE fs

(* A limit on events, subruns, runs or input files is reached. *)
LimitReached == \E g \in Granularities : Counted[g] >= job.max[g]

(* maybeSwitchFiles(): a file that is full waits for a boundary. *)
IsBoundary == Rank[job.granularity] <= Rank[Transition]

AfterTransition == TransitionOver /\ Transition \in Granularities /\ GoOn

KeepFile ==
  /\ AfterTransition
  /\ ~ (job.switching /\ LimitReached /\ IsBoundary)
  /\ fp' = Counted /\ files' = Recorded(files)
  /\ UNCHANGED <<job, phase, pc, dir, callbacks, pending, held, made>>

(* requestsToCloseFile_(): a limit is reached, or the file is old or long. *)
IsDue == job.switching /\ (LimitReached \/ job.aging) /\ IsBoundary

(* Mutant: the event is recorded after the switch. *)
SwitchFiles_RecordLate ==
  /\ AfterTransition /\ IsDue
  /\ files' = Recorded(OpenFile(CloseFile(files)))
  /\ fp' = NoCounts
  /\ phase' = "Switching" /\ pending' = callbacks
  /\ UNCHANGED <<job, pc, dir, callbacks, held, made>>

(* Mutant: the counts go on. *)
SwitchFiles_CountsStay ==
  /\ AfterTransition /\ IsDue
  /\ files' = OpenFile(CloseFile(Recorded(files)))
  /\ fp' = Counted
  /\ phase' = "Switching" /\ pending' = callbacks
  /\ UNCHANGED <<job, pc, dir, callbacks, held, made>>

SwitchFiles ==
  /\ AfterTransition /\ IsDue
  /\ files' = OpenFile(CloseFile(Recorded(files)))
  /\ fp' = NoCounts
  /\ phase' = "Switching" /\ pending' = callbacks
  /\ UNCHANGED <<job, pc, dir, callbacks, held, made>>

(* A callback may be the first to make its module's object. *)
MadeBy(c) == IF held[c.module] = 0 THEN [made EXCEPT ![c.module] = step] ELSE made

(* Mutant: the directory is not set. *)
InvokeCallback_NoDirectory(c) ==
  /\ phase = "Switching" /\ c \in pending
  /\ pending' = pending \ {c}
  /\ files' = WithObject(files, dir, c.module)
  /\ held' = [held EXCEPT ![c.module] = Len(files)]
  /\ made' = MadeBy(c)
  /\ UNCHANGED <<job, phase, step, waiting, pc, dir, callbacks, fp>>

(* One turn of invokeCallbacks(), whose order is that of the labels: the   *)
(* module makes its object again.  (Its own check in cd() is satisfied.)   *)
InvokeCallback(c) ==
  /\ phase = "Switching" /\ c \in pending
  /\ pending' = pending \ {c}
  /\ dir' = c.dir
  /\ files' = WithObject(files, c.dir, c.module)
  /\ held' = [held EXCEPT ![c.module] = Len(files)]
  /\ made' = MadeBy(c)
  /\ UNCHANGED <<job, phase, step, waiting, pc, callbacks, fp>>

SwitchDone ==
  /\ phase = "Switching" /\ pending = {}
  /\ phase' = "Loop"
  /\ UNCHANGED <<job, step, waiting, pc, dir, callbacks, pending, fp, files, held, made>>

(* Mutant: the destructor leaves the file as it is. *)
EndOfJob_LeftOpen ==
  /\ phase = "Loop" /\ step > Len(job.loop)
  /\ phase' = "Done"
  /\ UNCHANGED <<job, step, waiting, pc, dir, callbacks, pending, fp, files, held, made>>

(* The destructor *)
EndOfJob ==
  /\ phase = "Loop" /\ step > Len(job.loop)
  /\ phase' = "Done" /\ files' = CloseFile(files)
  /\ UNCHANGED <<job, step, waiting, pc, dir, callbacks, pending, fp, held, made>>

-----------------------------------------------------------------------------
Init ==
  /\ job \in Jobs
  /\ phase = "Construct" /\ step = 1 /\ waiting = Modules
  /\ pc = [m \in Modules |-> "idle"]
  /\ dir = "" /\ callbacks = {} /\ pending = {}
  /\ fp = NoCounts /\ files = <<>>
  /\ held = [m \in Modules |-> 0] /\ made = [m \in Modules |-> 0]

ModuleStep(m) ==
  BeginCall(m) \/ Register(m) \/ Make(m) \/ MakeThrows(m) \/ MakeNothing(m) \/ EndCall(m)

Next ==
  \/ Construct \/ NothingToDo \/ KeepFile \/ SwitchFiles \/ SwitchDone \/ EndOfJob
  \/ \E m \in Modules : ModuleStep(m)
  \/ \E c \in pending : InvokeCallback(c)

Spec == Init /\ [][Next]_vars

-----------------------------------------------------------------------------
(***************************************************************************)
(* Properties                                                              *)
(***************************************************************************)
Callback == [dir : Modules, module : Modules]
Object   == [module : Modules, path : Seq(Modules \cup {"below"})]
FileType == [open : BOOLEAN, objects : SUBSET Object,
             fills : [Modules -> SUBSET (Nat \ {0})], events : SUBSET (Nat \ {0})]

(* The last file is open just while the service exists and all others are  *)
(* closed.                                                                 *)
FilesOK ==
  /\ files \in Seq(FileType)
  /\ \A k \in DOMAIN files : files[k].open <=> k = Len(files) /\ phase \in {"Loop", "Switching"}
  /\ phase \in {"Loop", "Switching"} => files # <<>>

(* Every variable has a value of its kind. *)
TypeOK ==
  /\ job \in Jobs
  /\ phase \in {"Construct", "Loop", "Switching", "Done", "Failed"}
  /\ step \in 1..Len(job.loop) + 1
  /\ waiting \subseteq Modules
  /\ pc \in [Modules -> {"idle", "register", "make", "fill"}]
  /\ dir \in Modules \cup {""}
  /\ Running # {} => dir \in Modules
  /\ callbacks \subseteq Callback /\ pending \subseteq callbacks
  /\ fp \in [Granularities -> Nat]
  /\ FilesOK
  /\ held \in [Modules -> 0..Len(files)] /\ made \in [Modules -> Nat]

(* An object is in the directory of the module that made it, in every file *)
(* and also when a callback made it.                                       *)
ObjectsInTheirDirectory ==
  \A k \in DOMAIN files : \A o \in files[k].objects : Head(o.path) = o.module

(* No module is left with an object of a closed file: those that did not   *)
(* register a callback have not got any object.                            *)
HeldObjectsAreLive ==
  phase = "Loop" => \A m \in Modules : held[m] \in {0, Len(files)}

(* From when a module makes its object, the events recorded for a file are *)
(* just those its object was filled with: none is lost or in another file  *)
(* than the statistics, of which the name of the file is made, say.        *)
RecordedEventsAreFilled ==
  \A m \in Modules : held[m] # 0 =>
    \A k \in DOMAIN files :
      files[k].fills[m] \ {step} = {e \in files[k].events : e >= made[m]}

(* The units (events, subruns, runs, input files) between boundaries.      *)
Unit(e) == Cardinality({i \in 1..e-1 :
  job.loop[i] \in Granularities /\ Rank[job.loop[i]] >= Rank[job.granularity]})

LimitedByEventsOnly == job.switching /\ ~ job.aging /\ \A g \in Granularities \ {"Event"} :
                         job.max[g] > Len(job.loop)

(* A file is closed at the first boundary after its limit of events is     *)
(* reached, whole units together, and at no other.                         *)
SwitchesWhenDue ==
  LimitedByEventsOnly =>
    \A k \in DOMAIN files :
      LET events == files[k].events
          before(e) == {f \in events : Unit(f) < Unit(e)}
      IN /\ k < Len(files) =>
              /\ Cardinality(events) >= job.max["Event"]
              /\ \A e \in events : Cardinality(before(e)) < job.max["Event"]
         /\ k = Len(files) => Cardinality(before(step)) < job.max["Event"]
=============================================================================
