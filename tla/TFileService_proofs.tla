------------------------- MODULE TFileService_proofs -------------------------
(***************************************************************************)
(* What holds of TFileService for every set of modules and every job.      *)
(***************************************************************************)
EXTENDS TFileService, FiniteSetTheorems, TLAPS

(* The parts of a job that decide what is done. *)
LEMMA JobType ==
  ASSUME job \in Jobs
  PROVE  /\ job.loop \in Seq(Transitions) /\ Len(job.loop) \in Nat
         /\ job.nthreads \in Nat \ {0} /\ job.granularity \in Granularities
         /\ job.max \in [Granularities -> Nat \ {0}]
         /\ job.makes \in [Modules -> SUBSET Transitions]
         /\ job.registers \in [Modules -> SUBSET Transitions]
         /\ job.nthreads > 1 => \A m \in Modules : "Event" \notin job.makes[m] \cup job.registers[m]
<1>1. job.loop \in Seq(Transitions)
  BY TFileServiceAssumption
<1> QED BY <1>1, TFileServiceAssumption, CallsAssumption

-----------------------------------------------------------------------------
(***************************************************************************)
(* Operations on the list of files.  Each keeps the files before the last. *)
(***************************************************************************)
LEMMA LastReplaced ==
  ASSUME NEW S, NEW s \in Seq(S), s # <<>>, NEW x \in S
  PROVE  LET t == [s EXCEPT ![Len(s)] = x] IN
         /\ t \in Seq(S) /\ Len(t) = Len(s) /\ Len(s) \in DOMAIN s
         /\ \A k \in DOMAIN s : t[k] = IF k = Len(s) THEN x ELSE s[k]
OBVIOUS

LEMMA OpenFileType ==
  ASSUME NEW fs \in Seq(FileType)
  PROVE  /\ OpenFile(fs) \in Seq(FileType) /\ Len(OpenFile(fs)) = Len(fs) + 1
         /\ \A k \in DOMAIN fs : OpenFile(fs)[k] = fs[k]
         /\ OpenFile(fs)[Len(fs) + 1] = NewFile
<1>1. NewFile \in FileType
  BY DEF NewFile, FileType
<1> QED BY <1>1 DEF OpenFile

LEMMA CloseFileType ==
  ASSUME NEW fs \in Seq(FileType), fs # <<>>
  PROVE  /\ CloseFile(fs) \in Seq(FileType) /\ Len(CloseFile(fs)) = Len(fs)
         /\ Len(fs) \in DOMAIN fs
         /\ \A k \in DOMAIN fs : CloseFile(fs)[k] =
              IF k = Len(fs) THEN [fs[k] EXCEPT !.open = FALSE] ELSE fs[k]
<1> DEFINE f == [fs[Len(fs)] EXCEPT !.open = FALSE]
<1>1. Len(fs) \in DOMAIN fs /\ \A k \in DOMAIN fs : fs[k] \in FileType
  OBVIOUS
<1>2. f \in FileType
  BY <1>1 DEF FileType
<1>3. CloseFile(fs) = [fs EXCEPT ![Len(fs)] = f]
  BY <1>1 DEF CloseFile
<1>4. f = [fs[Len(fs)] EXCEPT !.open = FALSE]
  OBVIOUS
<1> HIDE DEF f
<1>5. /\ CloseFile(fs) \in Seq(FileType) /\ Len(CloseFile(fs)) = Len(fs)
      /\ \A k \in DOMAIN fs : CloseFile(fs)[k] = IF k = Len(fs) THEN f ELSE fs[k]
  BY <1>2, <1>3, LastReplaced
<1> QED BY <1>1, <1>4, <1>5

WithOneMore(f, o) == [f EXCEPT !.objects = @ \cup {o}]

LEMMA WithObjectType ==
  ASSUME NEW fs \in Seq(FileType), fs # <<>>, NEW d \in Modules, NEW m \in Modules
  PROVE  \E o \in Object :
           /\ o.module = m /\ Head(o.path) = d
           /\ WithObject(fs, d, m) \in Seq(FileType) /\ Len(WithObject(fs, d, m)) = Len(fs)
           /\ \A k \in DOMAIN fs : WithObject(fs, d, m)[k] =
                IF k = Len(fs) THEN WithOneMore(fs[k], o) ELSE fs[k]
<1> DEFINE path == IF m \in job.below THEN <<d, "below">> ELSE <<d>>
           o    == [module |-> m, path |-> path]
<1>1. path \in Seq(Modules \cup {"below"}) /\ Head(path) = d
  <2>1. CASE m \in job.below
    <3>1. path = <<d, "below">>
      BY <2>1
    <3> HIDE DEF path
    <3> QED BY <3>1
  <2>2. CASE m \notin job.below
    <3>1. path = <<d>>
      BY <2>2
    <3> HIDE DEF path
    <3> QED BY <3>1
  <2> QED BY <2>1, <2>2
<1> HIDE DEF path
<1>2. o \in Object /\ o.module = m /\ Head(o.path) = d
  BY <1>1 DEF Object
<1>3. WithObject(fs, d, m) = [fs EXCEPT ![Len(fs)].objects = @ \cup {o}]
  BY DEF WithObject, path
<1> HIDE DEF o
<1>4. Len(fs) \in DOMAIN fs /\ \A k \in DOMAIN fs : fs[k] \in FileType
  OBVIOUS
<1> DEFINE f == [fs[Len(fs)] EXCEPT !.objects = @ \cup {o}]
<1>5. f \in FileType
  BY <1>2, <1>4 DEF FileType
<1>6. /\ WithObject(fs, d, m) \in Seq(FileType) /\ Len(WithObject(fs, d, m)) = Len(fs)
      /\ \A k \in DOMAIN fs : WithObject(fs, d, m)[k] =
           IF k = Len(fs) THEN WithOneMore(fs[k], o) ELSE fs[k]
  <2>1. WithObject(fs, d, m) = [fs EXCEPT ![Len(fs)] = f]
    BY <1>3, <1>4
  <2>2. f = WithOneMore(fs[Len(fs)], o)
    BY DEF WithOneMore
  <2> HIDE DEF f
  <2>3. /\ WithObject(fs, d, m) \in Seq(FileType) /\ Len(WithObject(fs, d, m)) = Len(fs)
        /\ \A k \in DOMAIN fs : WithObject(fs, d, m)[k] = IF k = Len(fs) THEN f ELSE fs[k]
    BY <1>5, <2>1, LastReplaced
  <2> QED BY <1>4, <2>2, <2>3
<1> QED BY <1>2, <1>6

LEMMA RecordedType ==
  ASSUME NEW fs \in Seq(FileType), fs # <<>>, step \in Nat \ {0}
  PROVE  /\ Recorded(fs) \in Seq(FileType) /\ Len(Recorded(fs)) = Len(fs)
         /\ \A k \in DOMAIN fs : Recorded(fs)[k] =
              IF k = Len(fs) /\ Transition = "Event"
              THEN [fs[k] EXCEPT !.events = @ \cup {step}] ELSE fs[k]
<1>1. Len(fs) \in DOMAIN fs /\ \A k \in DOMAIN fs : fs[k] \in FileType
  OBVIOUS
<1> DEFINE f == [fs[Len(fs)] EXCEPT !.events = @ \cup {step}]
<1>2. f \in FileType
  BY <1>1 DEF FileType
<1>3. CASE Transition = "Event"
  <2>1. Recorded(fs) = [fs EXCEPT ![Len(fs)] = f]
    BY <1>1, <1>3 DEF Recorded
  <2>2. f = [fs[Len(fs)] EXCEPT !.events = @ \cup {step}]
    OBVIOUS
  <2> HIDE DEF f
  <2>3. /\ Recorded(fs) \in Seq(FileType) /\ Len(Recorded(fs)) = Len(fs)
        /\ \A k \in DOMAIN fs : Recorded(fs)[k] = IF k = Len(fs) THEN f ELSE fs[k]
    BY <1>2, <2>1, LastReplaced
  <2> QED BY <1>1, <1>3, <2>2, <2>3
<1>4. CASE Transition # "Event"
  BY <1>4 DEF Recorded
<1> QED BY <1>3, <1>4

-----------------------------------------------------------------------------
(***************************************************************************)
(* Types                                                                   *)
(***************************************************************************)
(* While modules are called or the files are switched there is an open     *)
(* file, and a step of the job is being made.                              *)
LEMMA Basics ==
  ASSUME TypeOK
  PROVE  /\ files \in Seq(FileType) /\ Len(files) \in Nat /\ DOMAIN files = 1..Len(files)
         /\ step \in Nat \ {0} /\ FilesOK
         /\ \A k \in DOMAIN files : files[k] \in FileType /\ (files[k].open => k = Len(files))
         /\ phase \in {"Loop", "Switching"} => files # <<>> /\ Len(files) \in DOMAIN files
         /\ Calling => step \in DOMAIN job.loop /\ Transition \in Transitions /\ files # <<>>
<1>1. job.loop \in Seq(Transitions) /\ Len(job.loop) \in Nat
  BY JobType DEF TypeOK
<1>2. files \in Seq(FileType) /\ step \in Nat \ {0} /\ FilesOK
  <2>1. FilesOK /\ step \in 1..Len(job.loop) + 1
    BY DEF TypeOK
  <2>2. files \in Seq(FileType)
    BY <2>1 DEF FilesOK
  <2> QED BY <1>1, <2>1, <2>2
<1>3. Len(files) \in Nat /\ DOMAIN files = 1..Len(files)
  BY <1>2
<1>4. phase \in {"Loop", "Switching"} => files # <<>> /\ Len(files) \in DOMAIN files
  BY <1>2 DEF FilesOK
<1>5. Calling => step \in DOMAIN job.loop /\ Transition \in Transitions /\ files # <<>>
  BY <1>1, <1>2, <1>4 DEF Calling, Transition
<1>6. \A k \in DOMAIN files : files[k] \in FileType /\ (files[k].open => k = Len(files))
  <2>1. \A k \in DOMAIN files : files[k] \in FileType
    BY <1>2
  <2>2. \A k \in DOMAIN files : files[k].open => k = Len(files)
    BY <1>2, Zenon DEF FilesOK
  <2> QED BY <2>1, <2>2
<1> QED BY <1>2, <1>3, <1>4, <1>5, <1>6

(* What each step does to the files. *)
LEMMA FilesStep ==
  ASSUME TypeOK, [Next]_vars
  PROVE  FilesOK' /\ Len(files) <= Len(files')
<1>1. /\ files \in Seq(FileType) /\ Len(files) \in Nat /\ step \in Nat \ {0} /\ FilesOK
      /\ \A k \in DOMAIN files : files[k] \in FileType /\ (files[k].open => k = Len(files))
  BY Basics
<1>2. CASE UNCHANGED <<files, phase>>
  BY <1>1, <1>2 DEF FilesOK
<1>3. ASSUME files' \in Seq(FileType), Len(files') = Len(files), UNCHANGED phase,
             \A k \in DOMAIN files : files'[k].open = files[k].open
      PROVE  FilesOK' /\ Len(files) <= Len(files')
  BY <1>1, <1>3 DEF FilesOK
<1>4. ASSUME files # <<>>, files' = CloseFile(files), phase' \in {"Done", "Failed"}
      PROVE  FilesOK' /\ Len(files) <= Len(files')
  <2>1. /\ files' \in Seq(FileType) /\ Len(files') = Len(files)
        /\ \A k \in DOMAIN files : files'[k] =
             IF k = Len(files) THEN [files[k] EXCEPT !.open = FALSE] ELSE files[k]
    BY <1>1, <1>4, CloseFileType
  <2>2. \A k \in DOMAIN files' : ~ files'[k].open
    <3>1. \A k \in DOMAIN files : files[k] \in FileType /\ (k # Len(files) => ~ files[k].open)
      BY <1>1
    <3>2. DOMAIN files' = DOMAIN files
      BY <1>1, <2>1
    <3> QED BY <2>1, <3>1, <3>2 DEF FileType
  <2> QED BY <1>1, <1>4, <2>1, <2>2 DEF FilesOK
<1>5. ASSUME NEW fs \in Seq(FileType), files' = OpenFile(fs), Len(fs) = Len(files),
             \A k \in DOMAIN fs : ~ fs[k].open, phase' \in {"Loop", "Switching"}
      PROVE  FilesOK' /\ Len(files) <= Len(files')
  <2>1. /\ files' \in Seq(FileType) /\ Len(files') = Len(files) + 1
        /\ \A k \in DOMAIN fs : files'[k] = fs[k]
        /\ files'[Len(files) + 1] = NewFile
    BY <1>5, OpenFileType
  <2>2. NewFile.open = TRUE
    BY DEF NewFile
  <2> QED BY <1>1, <1>5, <2>1, <2>2 DEF FilesOK
<1>6. CASE Construct
  <2>1. \A k \in DOMAIN files : ~ files[k].open
    BY <1>1, <1>6 DEF FilesOK, Construct, FileType
  <2>2. CASE UNCHANGED files /\ phase' = "Failed"
    BY <1>1, <2>1, <2>2 DEF FilesOK
  <2>3. CASE files' = OpenFile(files) /\ phase' = "Loop"
    BY <1>1, <1>5, <2>1, <2>3
  <2> QED BY <1>6, <2>2, <2>3 DEF Construct
<1>7. ASSUME NEW m \in Modules, Make(m) PROVE FilesOK' /\ Len(files) <= Len(files')
  <2>1. files # <<>> /\ dir \in Modules
    BY <1>7, Basics DEF Make, WantsToMake, Running, TypeOK
  <2>a. files' = WithObject(files, dir, m) /\ UNCHANGED phase
    BY <1>7 DEF Make
  <2> DEFINE fs == WithObject(files, dir, m)
  <2>b. \E o \in Object :
          /\ o.module = m /\ Head(o.path) = dir
          /\ fs \in Seq(FileType) /\ Len(fs) = Len(files)
          /\ \A k \in DOMAIN files : fs[k] =
               IF k = Len(files) THEN WithOneMore(files[k], o) ELSE files[k]
    BY <1>1, <2>1, WithObjectType, ZenonT(60)
  <2>c. files' = fs
    BY <2>a
  <2> HIDE DEF fs
  <2>2. PICK o \in Object :
          /\ files' \in Seq(FileType) /\ Len(files') = Len(files)
          /\ \A k \in DOMAIN files : files'[k] =
               IF k = Len(files) THEN WithOneMore(files[k], o) ELSE files[k]
    BY <2>b, <2>c
  <2>3. \A k \in DOMAIN files : files'[k].open = files[k].open
    BY <1>1, <2>2 DEF FileType, WithOneMore
  <2> QED BY <1>3, <2>2, <2>3, <2>a
<1>8. ASSUME NEW m \in Modules, MakeThrows(m) PROVE FilesOK' /\ Len(files) <= Len(files')
  BY <1>2, <1>4, <1>8, <1>1, Basics DEF MakeThrows, WantsToMake
<1>9. ASSUME NEW m \in Modules, EndCall(m) PROVE FilesOK' /\ Len(files) <= Len(files')
  <2>1. CASE UNCHANGED files
    BY <1>2, <1>9, <2>1 DEF EndCall
  <2>2. CASE /\ held[m] # 0
             /\ files' = [files EXCEPT ![held[m]].fills[m] = @ \cup {step}]
    <3>1. held[m] \in DOMAIN files /\ \A k \in DOMAIN files : files[k] \in FileType
      <4>1. held[m] \in 0..Len(files)
        BY DEF TypeOK
      <4> QED BY <1>1, <2>2, <4>1
    <3> DEFINE f == [files[held[m]] EXCEPT !.fills[m] = @ \cup {step}]
    <3>2. f \in FileType /\ f.open = files[held[m]].open
      <4> DEFINE g == files[held[m]]
      <4>1. g \in FileType /\ step \in Nat \ {0}
        BY <1>1, <3>1 DEF TypeOK
      <4> HIDE DEF g
      <4>2. g.fills[m] \cup {step} \in SUBSET (Nat \ {0})
        BY <4>1 DEF FileType
      <4>3. f = [g EXCEPT !.fills[m] = g.fills[m] \cup {step}]
        BY DEF g
      <4> HIDE DEF f
      <4>4. [g.fills EXCEPT ![m] = g.fills[m] \cup {step}] \in [Modules -> SUBSET (Nat \ {0})]
        BY <4>1, <4>2 DEF FileType
      <4>5. f \in FileType /\ f.open = g.open
        BY <4>1, <4>3, <4>4 DEF FileType
      <4> QED BY <4>5 DEF g
    <3>3. files' = [files EXCEPT ![held[m]] = f]
      BY <2>2, <3>1
    <3> HIDE DEF f
    <3>4. /\ files' \in Seq(FileType) /\ Len(files') = Len(files)
          /\ \A k \in DOMAIN files : files'[k].open = files[k].open
      BY <1>1, <3>1, <3>2, <3>3
    <3> QED BY <1>3, <1>9, <3>4 DEF EndCall
  <2> QED BY <1>9, <2>1, <2>2 DEF EndCall
<1>10. CASE KeepFile
  <2>1. files # <<>> /\ UNCHANGED phase /\ files' = Recorded(files)
    BY <1>10, Basics DEF KeepFile, AfterTransition, TransitionOver
  <2>2. /\ files' \in Seq(FileType) /\ Len(files') = Len(files)
        /\ \A k \in DOMAIN files : files'[k] =
             IF k = Len(files) /\ Transition = "Event"
             THEN [files[k] EXCEPT !.events = @ \cup {step}] ELSE files[k]
    BY <1>1, <2>1, RecordedType
  <2>3. \A k \in DOMAIN files : files'[k].open = files[k].open
    BY <1>1, <2>2 DEF FileType
  <2> QED BY <1>3, <2>1, <2>2, <2>3
<1>11. CASE SwitchFiles
  <2> DEFINE rs == Recorded(files)
             fs == CloseFile(rs)
  <2>1. files # <<>> /\ phase = "Loop"
    BY <1>11, Basics DEF SwitchFiles, AfterTransition, TransitionOver, Calling
  <2>2. /\ rs \in Seq(FileType) /\ Len(rs) = Len(files)
        /\ \A k \in DOMAIN files : rs[k] =
             IF k = Len(files) /\ Transition = "Event"
             THEN [files[k] EXCEPT !.events = @ \cup {step}] ELSE files[k]
    BY <1>1, <2>1, RecordedType
  <2>3. rs # <<>> /\ DOMAIN rs = DOMAIN files
    BY <1>1, <2>1, <2>2
  <2>a. files' = OpenFile(fs) /\ phase' = "Switching"
    BY <1>11 DEF SwitchFiles
  <2> HIDE DEF rs
  <2>4. /\ fs \in Seq(FileType) /\ Len(fs) = Len(files)
        /\ \A k \in DOMAIN files : fs[k] =
             IF k = Len(files) THEN [rs[k] EXCEPT !.open = FALSE] ELSE rs[k]
    BY <2>2, <2>3, CloseFileType
  <2>5. \A k \in DOMAIN fs : ~ fs[k].open
    <3>1. \A k \in DOMAIN files : rs[k] \in FileType /\ (k # Len(files) => ~ rs[k].open)
      BY <1>1, <2>2, <2>3 DEF FilesOK, FileType
    <3>2. DOMAIN fs = DOMAIN files
      BY <1>1, <2>4
    <3> QED BY <2>4, <3>1, <3>2 DEF FileType
  <2> HIDE DEF fs
  <2> QED BY <1>5, <2>4, <2>5, <2>a
<1>12. ASSUME NEW c \in pending, InvokeCallback(c) PROVE FilesOK' /\ Len(files) <= Len(files')
  <2>1. files # <<>> /\ c.dir \in Modules /\ c.module \in Modules
    BY <1>12, Basics DEF InvokeCallback, TypeOK, Callback
  <2>a. files' = WithObject(files, c.dir, c.module) /\ UNCHANGED phase
    BY <1>12 DEF InvokeCallback
  <2> DEFINE fs == WithObject(files, c.dir, c.module)
  <2>b. \E o \in Object :
          /\ o.module = c.module /\ Head(o.path) = c.dir
          /\ fs \in Seq(FileType) /\ Len(fs) = Len(files)
          /\ \A k \in DOMAIN files : fs[k] =
               IF k = Len(files) THEN WithOneMore(files[k], o) ELSE files[k]
    BY <1>1, <2>1, WithObjectType, ZenonT(60)
  <2>c. files' = fs
    BY <2>a
  <2> HIDE DEF fs
  <2>2. PICK o \in Object :
          /\ files' \in Seq(FileType) /\ Len(files') = Len(files)
          /\ \A k \in DOMAIN files : files'[k] =
               IF k = Len(files) THEN WithOneMore(files[k], o) ELSE files[k]
    BY <2>b, <2>c
  <2>3. \A k \in DOMAIN files : files'[k].open = files[k].open
    BY <1>1, <2>2 DEF FileType, WithOneMore
  <2> QED BY <1>3, <2>2, <2>3, <2>a
<1>13. CASE SwitchDone
  BY <1>1, <1>13 DEF SwitchDone, FilesOK
<1>14. CASE EndOfJob
  BY <1>4, <1>14, Basics DEF EndOfJob
<1>15. CASE NothingToDo \/ (\E m \in Modules : BeginCall(m) \/ Register(m) \/ MakeNothing(m)) \/ UNCHANGED vars
  BY <1>2, <1>15 DEF NothingToDo, BeginCall, Register, MakeNothing, vars
<1> QED
  BY <1>6, <1>7, <1>8, <1>9, <1>10, <1>11, <1>12, <1>13, <1>14, <1>15 DEF Next, ModuleStep

LEMMA TypeCorrectInit == Init => TypeOK
<1> SUFFICES ASSUME Init PROVE TypeOK
  OBVIOUS
<1>1. Len(job.loop) \in Nat
  BY JobType DEF Init
<1>2. FilesOK
  <2>1. files = <<>> /\ phase = "Construct"
    BY DEF Init
  <2> QED BY <2>1 DEF FilesOK
<1>3. Running = {}
  BY DEF Init, Running
<1>4. fp \in [Granularities -> Nat]
  BY DEF Init, NoCounts
<1>5. /\ pc \in [Modules -> {"idle", "register", "make", "fill"}]
      /\ held \in [Modules -> 0..Len(files)] /\ made \in [Modules -> Nat]
  <2>1. /\ files = <<>> /\ pc = [m \in Modules |-> "idle"]
        /\ held = [m \in Modules |-> 0] /\ made = [m \in Modules |-> 0]
    BY DEF Init
  <2>2. 0 \in 0..Len(files)
    BY <2>1
  <2> QED BY <2>1, <2>2
<1>6. step \in 1..Len(job.loop) + 1
  <2>1. step = 1
    BY DEF Init
  <2> QED BY <1>1, <2>1
<1> QED BY <1>2, <1>3, <1>4, <1>5, <1>6 DEF Init, TypeOK

LEMMA TypeCorrectStep == TypeOK /\ [Next]_vars => TypeOK'
<1> SUFFICES ASSUME TypeOK, [Next]_vars PROVE TypeOK'
  OBVIOUS
<1>1. /\ FilesOK' /\ Len(files) \in Nat /\ Len(files') \in Nat /\ Len(files) <= Len(files')
      /\ step \in Nat \ {0} /\ Len(job.loop) \in Nat
      /\ phase \in {"Loop", "Switching"} => Len(files) \in 1..Len(files)
  <2>1. FilesOK' /\ Len(files) <= Len(files')
    BY FilesStep
  <2>2. files' \in Seq(FileType)
    BY <2>1 DEF FilesOK
  <2>3. Len(files') \in Nat
    BY <2>2
  <2>4. Len(job.loop) \in Nat
    BY JobType DEF TypeOK
  <2>5. /\ step \in Nat \ {0} /\ Len(files) \in Nat
        /\ phase \in {"Loop", "Switching"} => Len(files) \in 1..Len(files)
    BY Basics
  <2> QED BY <2>1, <2>3, <2>4, <2>5
<1>2. /\ job \in Jobs /\ phase \in {"Construct", "Loop", "Switching", "Done", "Failed"}
      /\ step \in 1..Len(job.loop) + 1 /\ waiting \subseteq Modules
      /\ pc \in [Modules -> {"idle", "register", "make", "fill"}]
      /\ dir \in Modules \cup {""} /\ (Running # {} => dir \in Modules)
      /\ callbacks \subseteq Callback /\ pending \subseteq callbacks
      /\ fp \in [Granularities -> Nat]
      /\ held \in [Modules -> 0..Len(files)] /\ made \in [Modules -> Nat]
  BY DEF TypeOK
<1>3. held \in [Modules -> 0..Len(files')]
  <2>1. 0..Len(files) \subseteq 0..Len(files')
    BY <1>1
  <2>2. held \in [Modules -> 0..Len(files)]
    BY <1>2
  <2> QED BY <2>1, <2>2
<1>4. \A m \in Modules : pc[m] # "idle" => dir \in Modules
  BY <1>2 DEF Running
<1>5. CASE Construct
  BY <1>1, <1>2, <1>3, <1>5 DEF Construct, TypeOK, Running
<1>6. ASSUME NEW m \in Modules, BeginCall(m) PROVE TypeOK'
  BY <1>1, <1>2, <1>3, <1>6 DEF BeginCall, TypeOK
<1>7. ASSUME NEW m \in Modules, Register(m) PROVE TypeOK'
  <2>1. callbacks' \subseteq Callback
    <3>1. dir \in Modules /\ callbacks' \subseteq callbacks \cup {[dir |-> dir, module |-> m]}
      BY <1>4, <1>7 DEF Register
    <3>2. [dir |-> dir, module |-> m] \in Callback
      BY <3>1 DEF Callback
    <3> QED BY <1>2, <3>1, <3>2
  <2>2. pending' \subseteq callbacks' /\ pc' \in [Modules -> {"idle", "register", "make", "fill"}]
    BY <1>2, <1>7 DEF Register
  <2>3. dir' \in Modules
    BY <1>4, <1>7 DEF Register
  <2> QED BY <1>1, <1>2, <1>3, <1>7, <2>1, <2>2, <2>3 DEF Register, TypeOK
<1>8. ASSUME NEW m \in Modules, Make(m) PROVE TypeOK'
  <2>1. held' \in [Modules -> 0..Len(files')]
    <3>1. Len(files) \in 0..Len(files') /\ held' = [held EXCEPT ![m] = Len(files)]
      BY <1>1, <1>8 DEF Make
    <3> QED BY <1>3, <3>1
  <2>2. made' \in [Modules -> Nat]
    BY <1>1, <1>2, <1>8 DEF Make
  <2> QED BY <1>1, <1>2, <1>4, <1>8, <2>1, <2>2 DEF Make, WantsToMake, TypeOK
<1>9. ASSUME NEW m \in Modules, MakeThrows(m) PROVE TypeOK'
  BY <1>1, <1>2, <1>3, <1>4, <1>9 DEF MakeThrows, WantsToMake, TypeOK, Running
<1>10. ASSUME NEW m \in Modules, MakeNothing(m) \/ EndCall(m) PROVE TypeOK'
  <2>1. dir \in Modules
    BY <1>4, <1>10 DEF MakeNothing, EndCall
  <2>2. /\ pc' \in [Modules -> {"idle", "register", "make", "fill"}]
        /\ UNCHANGED <<job, phase, step, waiting, dir, callbacks, pending, fp, held, made>>
    BY <1>2, <1>10 DEF MakeNothing, EndCall
  <2> QED BY <1>1, <1>2, <1>3, <2>1, <2>2 DEF TypeOK
<1>a. ASSUME TransitionOver, GoOn PROVE step' \in 1..Len(job.loop) + 1 /\ waiting' = Modules
  <2>1. step <= Len(job.loop) /\ step' = step + 1 /\ waiting' = Modules
    BY <1>a DEF TransitionOver, Calling, GoOn
  <2> QED BY <1>1, <2>1
<1>11. CASE NothingToDo
  <2>1. /\ UNCHANGED <<job, phase, pc, dir, callbacks, pending, fp, files, held, made>>
        /\ TransitionOver /\ GoOn
    BY <1>11 DEF NothingToDo
  <2> QED BY <1>1, <1>2, <1>3, <1>a, <2>1 DEF TypeOK, Running
<1>12. CASE KeepFile
  <2>1. fp' \in [Granularities -> Nat]
    <3>1. fp' = [fp EXCEPT ![Transition] = fp[Transition] + 1] /\ Transition \in Granularities
      BY <1>12 DEF KeepFile, AfterTransition, Counted
    <3>2. fp \in [Granularities -> Nat]
      BY <1>2
    <3> QED BY <3>1, <3>2
  <2>2. TransitionOver /\ GoOn /\ UNCHANGED <<job, phase, pc, dir, callbacks, pending, held, made>>
    BY <1>12 DEF KeepFile, AfterTransition
  <2> QED BY <1>1, <1>2, <1>3, <1>a, <2>1, <2>2 DEF TypeOK, Running
<1>13. CASE SwitchFiles
  <2>1. fp' \in [Granularities -> Nat]
    BY <1>13 DEF NoCounts, SwitchFiles
  <2>2. /\ TransitionOver /\ GoOn /\ UNCHANGED <<job, pc, dir, callbacks, held, made>>
        /\ phase' = "Switching" /\ pending' = callbacks
    BY <1>13 DEF SwitchFiles, AfterTransition
  <2> QED BY <1>1, <1>2, <1>3, <1>a, <2>1, <2>2 DEF TypeOK, Running
<1>14. ASSUME NEW c \in pending, InvokeCallback(c) PROVE TypeOK'
  <2>1. c.dir \in Modules /\ c.module \in Modules
    BY <1>2 DEF Callback
  <2>2. held' \in [Modules -> 0..Len(files')]
    <3>1. Len(files) \in 0..Len(files') /\ held' = [held EXCEPT ![c.module] = Len(files)]
      BY <1>1, <1>14 DEF InvokeCallback
    <3> QED BY <1>3, <2>1, <3>1
  <2>3. made' \in [Modules -> Nat]
    BY <1>1, <1>2, <1>14 DEF InvokeCallback, MadeBy
  <2> QED BY <1>1, <1>2, <1>14, <2>1, <2>2, <2>3 DEF InvokeCallback, TypeOK, Running
<1>15. CASE SwitchDone
  BY <1>1, <1>2, <1>3, <1>15 DEF SwitchDone, TypeOK, Running
<1>16. CASE EndOfJob
  BY <1>1, <1>2, <1>3, <1>16 DEF EndOfJob, TypeOK, Running
<1>17. CASE UNCHANGED vars
  BY <1>1, <1>2, <1>3, <1>17 DEF vars, TypeOK, Running
<1> QED
  BY <1>5, <1>6, <1>7, <1>8, <1>9, <1>10, <1>11, <1>12, <1>13, <1>14, <1>15, <1>16, <1>17
  DEF Next, ModuleStep

(* In every job the service has just one open file from its construction   *)
(* to its end, and files are only asked for while there is one.            *)
THEOREM TypeCorrect == Spec => []TypeOK
BY TypeCorrectInit, TypeCorrectStep, PTL DEF Spec

-----------------------------------------------------------------------------
(***************************************************************************)
(* Objects                                                                 *)
(***************************************************************************)
(* Module calls overlap only in events, and the directory is that of the   *)
(* module being called where they do not.                                  *)
Overlaps == Transition = "Event" /\ job.nthreads > 1

CallsInv ==
  /\ IsFiniteSet(Running) /\ Running \cap waiting = {}
  /\ Running # {} => Calling \/ phase = "Failed"
  /\ Calling /\ ~ Overlaps => \A m \in Running : dir = m

(* A callback is invoked in the directory of the module that it belongs    *)
(* to, and each module with an object has one if files may be switched.    *)
CallbacksInv ==
  /\ \A c \in callbacks : c.dir = c.module
  /\ phase = "Switching" => job.switching
  /\ job.switching => \A m \in Modules : held[m] # 0 => \E c \in callbacks : c.module = m

(* While files are switched, a module's object is in the new file, or its  *)
(* callback is still to be invoked.                                        *)
HeldInv ==
  /\ HeldObjectsAreLive
  /\ phase = "Construct" => files = <<>>
  /\ phase = "Switching" => \A m \in Modules :
       held[m] \in {0, Len(files)} \/ \E c \in pending : c.module = m

ServiceInv == TypeOK /\ CallsInv /\ CallbacksInv /\ HeldInv /\ ObjectsInTheirDirectory

LEMMA CallsStep == TypeOK /\ CallsInv /\ [Next]_vars => CallsInv'
<1> SUFFICES ASSUME TypeOK, CallsInv, [Next]_vars PROVE CallsInv'
  OBVIOUS
<1>1. /\ pc \in [Modules -> {"idle", "register", "make", "fill"}]
      /\ Running \subseteq Modules /\ IsFiniteSet(Running) /\ Running \cap waiting = {}
  BY DEF TypeOK, CallsInv, Running
<1>2. ASSUME Running = {}, UNCHANGED pc PROVE CallsInv'
  <2>1. Running' = {}
    BY <1>2 DEF Running
  <2> QED BY <2>1, FS_EmptySet DEF CallsInv
<1>3. ASSUME NEW m \in Modules, BeginCall(m) PROVE CallsInv'
  <2>1. /\ UNCHANGED <<job, step, phase>> /\ Calling /\ Calling' /\ m \in waiting
        /\ waiting' = waiting \ {m} /\ dir' = m
        /\ Cardinality(Running) < IF Transition = "Event" THEN job.nthreads ELSE 1
        /\ Overlaps' = Overlaps
    BY <1>3 DEF BeginCall, Calling, Overlaps, Transition
  <2>2. Running' = Running \cup {m}
    BY <1>1, <1>3 DEF BeginCall, Running
  <2>3. IsFiniteSet(Running') /\ Running' \cap waiting' = {}
    BY <1>1, <2>1, <2>2, FS_AddElement
  <2>4. ASSUME ~ Overlaps PROVE Running = {}
    <3>1. job.nthreads \in Nat \ {0}
      BY JobType DEF TypeOK
    <3>2. Cardinality(Running) \in Nat /\ Cardinality(Running) < 1
      BY <1>1, <2>1, <2>4, <3>1, FS_CardinalityType DEF Overlaps
    <3> QED BY <1>1, <3>2, FS_EmptySet
  <2> QED BY <2>1, <2>2, <2>3, <2>4 DEF CallsInv
<1>4. ASSUME NEW m \in Modules, Register(m) \/ Make(m) \/ MakeThrows(m) \/ MakeNothing(m) \/ EndCall(m)
      PROVE  CallsInv'
  <2>1. /\ UNCHANGED <<job, step, waiting, dir>> /\ Calling
        /\ phase' = phase \/ phase' = "Failed"
        /\ pc[m] # "idle" /\ (pc' = pc \/ \E x : pc' = [pc EXCEPT ![m] = x])
    BY <1>4 DEF Register, Make, MakeThrows, MakeNothing, EndCall, WantsToMake
  <2>2. Running' \subseteq Running
    BY <1>1, <2>1 DEF Running
  <2>3. IsFiniteSet(Running')
    BY <1>1, <2>2, FS_Subset
  <2>4. Calling' \/ phase' = "Failed"
    BY <2>1 DEF Calling
  <2> QED BY <2>1, <2>2, <2>3, <2>4 DEF CallsInv, Overlaps, Transition, Calling
<1>5. CASE NothingToDo \/ KeepFile \/ SwitchFiles
  BY <1>2, <1>5 DEF NothingToDo, KeepFile, SwitchFiles, AfterTransition, TransitionOver
<1>6. CASE Construct \/ SwitchDone \/ EndOfJob \/ \E c \in pending : InvokeCallback(c)
  <2>1. UNCHANGED pc /\ ~ Calling /\ phase # "Failed"
    <3>1. Len(job.loop) \in Nat /\ step \in Nat
      BY JobType, Basics DEF TypeOK
    <3> QED BY <1>6, <3>1 DEF Construct, SwitchDone, EndOfJob, InvokeCallback, Calling
  <2> QED BY <1>2, <2>1 DEF CallsInv
<1>7. CASE UNCHANGED vars
  BY <1>7 DEF vars, CallsInv, Running, Overlaps, Calling, Transition
<1> QED
  BY <1>3, <1>4, <1>5, <1>6, <1>7 DEF Next, ModuleStep

(* A module that makes an object, or asks for a callback, is alone, and so *)
(* the directory is its own.                                               *)
LEMMA InItsDirectory ==
  ASSUME TypeOK, CallsInv, NEW m \in Modules, Calling, pc[m] # "idle",
         Transition \in job.makes[m] \cup job.registers[m]
  PROVE  dir = m
<1>1. ~ Overlaps
  BY JobType DEF TypeOK, Overlaps
<1> QED BY <1>1 DEF CallsInv, Running

LEMMA CallbacksStep == TypeOK /\ CallsInv /\ CallbacksInv /\ [Next]_vars => CallbacksInv'
<1> SUFFICES ASSUME TypeOK, CallsInv, CallbacksInv, [Next]_vars PROVE CallbacksInv'
  OBVIOUS
<1>1. held \in [Modules -> 0..Len(files)]
  BY DEF TypeOK
<1>2. ASSUME UNCHANGED <<job, callbacks, held>>, phase' # "Switching" \/ phase' = phase PROVE CallbacksInv'
  BY <1>2 DEF CallbacksInv
<1>3. ASSUME NEW m \in Modules, Register(m) PROVE CallbacksInv'
  <2>1. /\ UNCHANGED <<job, phase, held>> /\ callbacks \subseteq callbacks'
        /\ \A c \in callbacks' : c \in callbacks \/ (c.dir = dir /\ c.module = m /\ Transition \in job.registers[m])
        /\ Calling /\ pc[m] # "idle"
    BY <1>3 DEF Register
  <2>2. \A c \in callbacks' : c.dir = c.module
    BY <2>1, InItsDirectory DEF CallbacksInv
  <2> QED BY <2>1, <2>2 DEF CallbacksInv
<1>4. ASSUME NEW m \in Modules, Make(m) PROVE CallbacksInv'
  <2>1. /\ UNCHANGED <<job, phase, callbacks>> /\ held' = [held EXCEPT ![m] = Len(files)]
        /\ job.switching => \E c \in callbacks : c.dir = dir
        /\ dir = m
    BY <1>4, InItsDirectory DEF Make, WantsToMake, MayMake
  <2>2. job.switching => \E c \in callbacks : c.module = m
    BY <2>1 DEF CallbacksInv
  <2> QED BY <1>1, <2>1, <2>2 DEF CallbacksInv
<1>5. CASE SwitchFiles
  BY <1>5 DEF SwitchFiles, IsDue, CallbacksInv
<1>6. ASSUME NEW c \in pending, InvokeCallback(c) PROVE CallbacksInv'
  <2>1. /\ UNCHANGED <<job, phase, callbacks>> /\ held' = [held EXCEPT ![c.module] = Len(files)]
        /\ c \in callbacks
    BY <1>6 DEF InvokeCallback, TypeOK
  <2> QED BY <1>1, <2>1 DEF CallbacksInv
<1>7. CASE Construct \/ NothingToDo \/ KeepFile \/ SwitchDone \/ EndOfJob \/ UNCHANGED vars
  BY <1>2, <1>7 DEF Construct, NothingToDo, KeepFile, SwitchDone, EndOfJob, vars
<1>8. ASSUME NEW m \in Modules, BeginCall(m) \/ MakeThrows(m) \/ MakeNothing(m) \/ EndCall(m)
      PROVE  CallbacksInv'
  BY <1>2, <1>8 DEF BeginCall, MakeThrows, MakeNothing, EndCall
<1> QED
  BY <1>3, <1>4, <1>5, <1>6, <1>7, <1>8 DEF Next, ModuleStep

(* A file is only added when the service starts and when files are         *)
(* switched.                                                               *)
LEMMA NumberOfFiles ==
  ASSUME TypeOK, [Next]_vars
  PROVE  Len(files') = IF (Construct /\ phase' = "Loop") \/ SwitchFiles
                       THEN Len(files) + 1 ELSE Len(files)
<1>1. /\ files \in Seq(FileType) /\ Len(files) \in Nat /\ step \in Nat \ {0}
      /\ phase \in {"Loop", "Switching"} => files # <<>>
  BY Basics
<1>2. CASE Construct
  <2>1. phase # "Loop" /\ (phase' = "Loop" => files' = OpenFile(files)) /\ (phase' # "Loop" => UNCHANGED files)
    BY <1>2 DEF Construct
  <2>2. ~ SwitchFiles
    BY <2>1 DEF SwitchFiles, AfterTransition, TransitionOver, Calling
  <2> QED BY <1>1, <1>2, <2>1, <2>2, OpenFileType
<1>3. CASE SwitchFiles
  <2>1. files # <<>> /\ files' = OpenFile(CloseFile(Recorded(files)))
    BY <1>1, <1>3 DEF SwitchFiles, AfterTransition, TransitionOver, Calling
  <2>2. Recorded(files) \in Seq(FileType) /\ Len(Recorded(files)) = Len(files)
    BY <1>1, <2>1, RecordedType
  <2>3. Recorded(files) # <<>>
    BY <1>1, <2>1, <2>2
  <2>4. CloseFile(Recorded(files)) \in Seq(FileType) /\ Len(CloseFile(Recorded(files))) = Len(files)
    BY <2>2, <2>3, CloseFileType
  <2> QED BY <1>3, <2>1, <2>4, OpenFileType
<1>4. CASE KeepFile
  <2>1. files # <<>> /\ files' = Recorded(files) /\ phase = "Loop"
    BY <1>1, <1>4 DEF KeepFile, AfterTransition, TransitionOver, Calling
  <2>2. Len(files') = Len(files)
    BY <1>1, <2>1, RecordedType
  <2> QED BY <1>3, <2>1, <2>2 DEF Construct
<1>5. ASSUME NEW m \in Modules, Make(m) PROVE Len(files') = Len(files) /\ phase = "Loop"
  <2>1. files # <<>> /\ dir \in Modules /\ files' = WithObject(files, dir, m) /\ phase = "Loop"
    BY <1>1, <1>5 DEF Make, WantsToMake, Calling, TypeOK, Running
  <2> QED BY <1>1, <2>1, WithObjectType
<1>6. ASSUME NEW c \in pending, InvokeCallback(c) PROVE Len(files') = Len(files) /\ phase = "Switching"
  <2>1. /\ files # <<>> /\ c.dir \in Modules /\ c.module \in Modules /\ phase = "Switching"
        /\ files' = WithObject(files, c.dir, c.module)
    BY <1>1, <1>6 DEF InvokeCallback, TypeOK, Callback
  <2> QED BY <1>1, <2>1, WithObjectType
<1>7. ASSUME files # <<>>, files' = CloseFile(files) \/ UNCHANGED files PROVE Len(files') = Len(files)
  BY <1>1, <1>7, CloseFileType
<1>8. ASSUME NEW m \in Modules, BeginCall(m) \/ Register(m) \/ MakeThrows(m) \/ MakeNothing(m) \/ EndCall(m)
      PROVE  Len(files') = Len(files) /\ phase = "Loop"
  <2>1. phase = "Loop" /\ files # <<>>
    BY <1>1, <1>8 DEF BeginCall, Register, MakeThrows, MakeNothing, EndCall, WantsToMake, Calling
  <2>2. CASE EndCall(m)
    <3>1. files' = files \/ \E f : files' = [files EXCEPT ![held[m]] = f]
      BY <2>2 DEF EndCall
    <3> QED BY <1>1, <2>1, <3>1
  <2>3. CASE ~ EndCall(m)
    BY <1>7, <1>8, <2>1, <2>3 DEF BeginCall, Register, MakeThrows, MakeNothing
  <2> QED BY <2>1, <2>2, <2>3
<1>9. CASE NothingToDo \/ SwitchDone \/ EndOfJob \/ UNCHANGED vars
  <2>1. Len(files') = Len(files)
    BY <1>1, <1>7, <1>9 DEF NothingToDo, SwitchDone, EndOfJob, vars
  <2>2. CASE phase = "Construct"
    <3>1. phase' = "Construct"
      BY <1>9, <2>2 DEF NothingToDo, SwitchDone, EndOfJob, vars, TransitionOver, Calling
    <3> QED BY <1>3, <2>1, <3>1
  <2>3. CASE phase # "Construct"
    BY <1>3, <2>1, <2>3 DEF Construct
  <2> QED BY <2>2, <2>3
<1>10. CASE phase = "Loop" /\ ~ SwitchFiles /\ Len(files') = Len(files)
  BY <1>10 DEF Construct
<1>11. CASE phase = "Switching" /\ Len(files') = Len(files)
  BY <1>11, <1>3 DEF Construct
<1> QED
  BY <1>2, <1>3, <1>4, <1>5, <1>6, <1>8, <1>9, <1>10, <1>11 DEF Next, ModuleStep

LEMMA HeldStep == TypeOK /\ CallbacksInv /\ HeldInv /\ [Next]_vars => HeldInv'
<1> SUFFICES ASSUME TypeOK, CallbacksInv, HeldInv, [Next]_vars PROVE HeldInv'
  OBVIOUS
<1>1. held \in [Modules -> 0..Len(files)]
  BY DEF TypeOK
<1>2. /\ Len(files) \in Nat
      /\ Len(files') = IF (Construct /\ phase' = "Loop") \/ SwitchFiles THEN Len(files) + 1 ELSE Len(files)
  BY Basics, NumberOfFiles
<1>3. ASSUME phase' = "Construct" PROVE UNCHANGED vars
  <2>1. phase = "Construct" \/ UNCHANGED vars
    BY <1>3 DEF Next, Construct, NothingToDo, KeepFile, SwitchFiles, SwitchDone, EndOfJob, ModuleStep,
       BeginCall, Register, Make, MakeThrows, MakeNothing, EndCall, InvokeCallback, WantsToMake,
       AfterTransition, TransitionOver, Calling
  <2> QED
    BY <1>3, <2>1 DEF Next, Construct, NothingToDo, KeepFile, SwitchFiles, SwitchDone, EndOfJob, ModuleStep,
       BeginCall, Register, Make, MakeThrows, MakeNothing, EndCall, InvokeCallback, WantsToMake,
       AfterTransition, TransitionOver, Calling
<1>4. CASE Construct
  <2>1. \A m \in Modules : held'[m] = 0
    BY <1>1, <1>4 DEF Construct, HeldInv
  <2> QED BY <1>3, <1>4, <2>1 DEF Construct, HeldInv, HeldObjectsAreLive, vars
<1>5. CASE SwitchFiles
  <2>1. phase' = "Switching" /\ held' = held /\ pending' = callbacks /\ job.switching
    BY <1>5 DEF SwitchFiles, IsDue
  <2> QED BY <2>1 DEF HeldInv, HeldObjectsAreLive, CallbacksInv
<1>6. ASSUME NEW m \in Modules, Make(m) PROVE HeldInv'
  <2>1. phase = "Loop" /\ phase' = "Loop" /\ held' = [held EXCEPT ![m] = Len(files)] /\ Len(files') = Len(files)
    BY <1>2, <1>6 DEF Make, WantsToMake, Calling, SwitchFiles, AfterTransition, TransitionOver, Running, Construct
  <2> QED BY <1>1, <2>1 DEF HeldInv, HeldObjectsAreLive
<1>7. ASSUME NEW c \in pending, InvokeCallback(c) PROVE HeldInv'
  <2>1. /\ phase = "Switching" /\ phase' = "Switching" /\ held' = [held EXCEPT ![c.module] = Len(files)]
        /\ pending' = pending \ {c}
    BY <1>7 DEF InvokeCallback
  <2>2. Len(files') = Len(files)
    BY <1>2, <2>1 DEF Construct, SwitchFiles, AfterTransition, TransitionOver, Calling
  <2> QED BY <1>1, <2>1, <2>2 DEF HeldInv, HeldObjectsAreLive
<1>8. CASE SwitchDone
  <2>1. phase = "Switching" /\ phase' = "Loop" /\ held' = held /\ pending = {} /\ Len(files') = Len(files)
    BY <1>8 DEF SwitchDone
  <2> QED BY <2>1 DEF HeldInv, HeldObjectsAreLive
<1>9. ASSUME UNCHANGED <<held, pending>>, phase' = phase \/ phase' \in {"Failed", "Done"},
             ~ Construct, ~ SwitchFiles
      PROVE  HeldInv'
  BY <1>2, <1>3, <1>9 DEF HeldInv, HeldObjectsAreLive, vars
<1>10. CASE NothingToDo \/ KeepFile \/ EndOfJob \/ UNCHANGED vars
  BY <1>4, <1>5, <1>9, <1>10 DEF NothingToDo, KeepFile, EndOfJob, vars, AfterTransition
<1>11. ASSUME NEW m \in Modules, BeginCall(m) \/ Register(m) \/ MakeThrows(m) \/ MakeNothing(m) \/ EndCall(m)
      PROVE  HeldInv'
  BY <1>4, <1>5, <1>9, <1>11 DEF BeginCall, Register, MakeThrows, MakeNothing, EndCall
<1> QED
  BY <1>4, <1>5, <1>6, <1>7, <1>8, <1>10, <1>11 DEF Next, ModuleStep

(* What is in a file does not change when it is closed, ...                *)
LEMMA ClosedContents ==
  ASSUME NEW fs \in Seq(FileType), fs # <<>>
  PROVE  \A k \in DOMAIN fs :
           /\ CloseFile(fs)[k].objects = fs[k].objects /\ CloseFile(fs)[k].fills = fs[k].fills
           /\ CloseFile(fs)[k].events = fs[k].events
<1>1. \A k \in DOMAIN fs : fs[k] \in FileType
  OBVIOUS
<1>2. \A k \in DOMAIN fs : CloseFile(fs)[k] = [fs[k] EXCEPT !.open = FALSE] \/ CloseFile(fs)[k] = fs[k]
  BY CloseFileType
<1> QED BY <1>1, <1>2 DEF FileType

(* ... and a transition adds nothing to it but that an event was seen.     *)
LEMMA RecordedContents ==
  ASSUME NEW fs \in Seq(FileType), fs # <<>>, step \in Nat \ {0}
  PROVE  \A k \in DOMAIN fs :
           /\ Recorded(fs)[k].objects = fs[k].objects /\ Recorded(fs)[k].fills = fs[k].fills
           /\ Recorded(fs)[k].events = fs[k].events \cup
                (IF k = Len(fs) /\ Transition = "Event" THEN {step} ELSE {})
<1>1. \A k \in DOMAIN fs : fs[k] \in FileType
  OBVIOUS
<1>2. \A k \in DOMAIN fs : Recorded(fs)[k] =
        IF k = Len(fs) /\ Transition = "Event" THEN [fs[k] EXCEPT !.events = @ \cup {step}] ELSE fs[k]
  BY RecordedType
<1> QED BY <1>1, <1>2 DEF FileType

LEMMA ContentsAfterTransition ==
  ASSUME TypeOK, KeepFile \/ SwitchFiles
  PROVE  /\ \A k \in DOMAIN files :
              /\ k \in DOMAIN files'
              /\ files'[k].objects = files[k].objects /\ files'[k].fills = files[k].fills
              /\ files'[k].events = files[k].events \cup
                   (IF k = Len(files) /\ Transition = "Event" THEN {step} ELSE {})
         /\ KeepFile => DOMAIN files' = DOMAIN files
         /\ SwitchFiles => /\ DOMAIN files' = 1..Len(files) + 1 /\ files'[Len(files) + 1] = NewFile
                           /\ Len(files') = Len(files) + 1
<1>1. /\ files \in Seq(FileType) /\ files # <<>> /\ Len(files) \in Nat /\ DOMAIN files = 1..Len(files)
      /\ step \in Nat \ {0}
  BY Basics DEF KeepFile, SwitchFiles, AfterTransition, TransitionOver
<1> DEFINE rs == Recorded(files)
<1>2. /\ rs \in Seq(FileType) /\ Len(rs) = Len(files)
      /\ \A k \in DOMAIN files :
              /\ rs[k].objects = files[k].objects /\ rs[k].fills = files[k].fills
              /\ rs[k].events = files[k].events \cup
                   (IF k = Len(files) /\ Transition = "Event" THEN {step} ELSE {})
  BY <1>1, RecordedType, RecordedContents
<1>3. rs # <<>> /\ DOMAIN rs = DOMAIN files
  BY <1>1, <1>2
<1>4. KeepFile => files' = rs
  BY DEF KeepFile
<1>5. SwitchFiles => files' = OpenFile(CloseFile(rs))
  BY DEF SwitchFiles
<1> HIDE DEF rs
<1>6. CASE KeepFile
  <2>1. ~ SwitchFiles
    BY <1>6 DEF KeepFile, SwitchFiles, AfterTransition, TransitionOver, Calling
  <2> QED BY <1>1, <1>2, <1>3, <1>4, <1>6, <2>1
<1>7. CASE SwitchFiles
  <2> DEFINE cs == CloseFile(rs)
  <2>1. /\ cs \in Seq(FileType) /\ Len(cs) = Len(files)
        /\ \A k \in DOMAIN files : /\ cs[k].objects = rs[k].objects /\ cs[k].fills = rs[k].fills
                                    /\ cs[k].events = rs[k].events
    BY <1>2, <1>3, CloseFileType, ClosedContents
  <2>2. files' = OpenFile(cs)
    BY <1>5, <1>7
  <2> HIDE DEF cs
  <2>3. /\ files' \in Seq(FileType) /\ Len(files') = Len(files) + 1
        /\ \A k \in DOMAIN cs : files'[k] = cs[k]
        /\ files'[Len(files) + 1] = NewFile
    BY <2>1, <2>2, OpenFileType
  <2>4. DOMAIN cs = DOMAIN files /\ DOMAIN files' = 1..Len(files) + 1
    BY <1>1, <2>1, <2>3
  <2>5. \A k \in DOMAIN files : k \in DOMAIN files' /\ files'[k] = cs[k]
    BY <1>1, <2>3, <2>4
  <2>6. KeepFile => DOMAIN files' = DOMAIN files
    BY <1>3, <1>4
  <2> QED BY <1>2, <2>1, <2>3, <2>4, <2>5, <2>6
<1> QED BY <1>6, <1>7

(* An object is put in the last file and changes nothing else there.       *)
LEMMA ContentsWithObject ==
  ASSUME NEW fs \in Seq(FileType), fs # <<>>, NEW d \in Modules, NEW m \in Modules
  PROVE  LET ws == WithObject(fs, d, m) IN
         /\ DOMAIN ws = DOMAIN fs
         /\ \A k \in DOMAIN fs :
              /\ ws[k].fills = fs[k].fills /\ ws[k].events = fs[k].events
              /\ \A x \in ws[k].objects : x \in fs[k].objects \/ (x.module = m /\ Head(x.path) = d)
<1> DEFINE ws == WithObject(fs, d, m)
<1>1. PICK o \in Object :
        /\ o.module = m /\ Head(o.path) = d
        /\ ws \in Seq(FileType) /\ Len(ws) = Len(fs)
        /\ \A k \in DOMAIN fs : ws[k] = IF k = Len(fs) THEN WithOneMore(fs[k], o) ELSE fs[k]
  BY WithObjectType
<1> HIDE DEF ws
<1>2. DOMAIN ws = DOMAIN fs /\ \A k \in DOMAIN fs : fs[k] \in FileType
  BY <1>1
<1>3. \A k \in DOMAIN fs :
        /\ ws[k].fills = fs[k].fills /\ ws[k].events = fs[k].events
        /\ ws[k].objects \subseteq fs[k].objects \cup {o}
  BY <1>1, <1>2 DEF WithOneMore, FileType
<1> QED BY <1>1, <1>2, <1>3 DEF ws

LEMMA ObjectsStep ==
  TypeOK /\ CallsInv /\ CallbacksInv /\ HeldInv /\ ObjectsInTheirDirectory /\ [Next]_vars => ObjectsInTheirDirectory'
<1> SUFFICES ASSUME TypeOK, CallsInv, CallbacksInv, HeldInv, ObjectsInTheirDirectory, [Next]_vars
             PROVE  ObjectsInTheirDirectory'
  OBVIOUS
<1>1. /\ files \in Seq(FileType) /\ DOMAIN files = 1..Len(files) /\ Len(files) \in Nat
      /\ phase \in {"Loop", "Switching"} => files # <<>>
  BY Basics
<1>2. ASSUME DOMAIN files' = DOMAIN files,
             \A k \in DOMAIN files : \A o \in files'[k].objects : o \in files[k].objects \/ Head(o.path) = o.module
      PROVE  ObjectsInTheirDirectory'
  BY <1>2 DEF ObjectsInTheirDirectory
<1>3. CASE Construct
  <2>1. CASE files' = OpenFile(files)
    <3>1. files = <<>> /\ Len(files') = 1 /\ files'[1] = NewFile /\ files' \in Seq(FileType)
      <4>1. files = <<>>
        BY <1>3 DEF Construct, HeldInv
      <4>2. Len(files) = 0
        BY <4>1
      <4>3. /\ files' \in Seq(FileType) /\ Len(files') = Len(files) + 1
            /\ files'[Len(files) + 1] = NewFile
        BY <1>1, <2>1, OpenFileType
      <4> QED BY <4>1, <4>2, <4>3
    <3>2. DOMAIN files' = {1}
      BY <3>1
    <3> QED BY <3>1, <3>2 DEF ObjectsInTheirDirectory, NewFile
  <2>2. CASE UNCHANGED files
    BY <2>2 DEF ObjectsInTheirDirectory
  <2> QED BY <1>3, <2>1, <2>2 DEF Construct
<1>4. CASE KeepFile
  BY <1>2, <1>4, ContentsAfterTransition
<1>5. CASE SwitchFiles
  <2>1. DOMAIN files' = DOMAIN files \cup {Len(files) + 1} /\ files'[Len(files) + 1].objects = {}
    <3>1. DOMAIN files' = 1..Len(files) + 1 /\ files'[Len(files) + 1] = NewFile
      BY <1>5, ContentsAfterTransition
    <3>2. 1..Len(files) + 1 = 1..Len(files) \cup {Len(files) + 1}
      BY <1>1
    <3> QED BY <1>1, <3>1, <3>2 DEF NewFile
  <2> QED BY <1>5, <2>1, ContentsAfterTransition DEF ObjectsInTheirDirectory
<1>6. ASSUME NEW m \in Modules, Make(m) PROVE ObjectsInTheirDirectory'
  <2>1. dir = m /\ files' = WithObject(files, dir, m) /\ files # <<>>
    BY <1>1, <1>6, InItsDirectory DEF Make, WantsToMake, Calling
  <2> QED BY <1>1, <1>2, <2>1, ContentsWithObject
<1>7. ASSUME NEW c \in pending, InvokeCallback(c) PROVE ObjectsInTheirDirectory'
  <2>1. /\ c.dir = c.module /\ c.module \in Modules /\ files # <<>>
        /\ files' = WithObject(files, c.dir, c.module)
    BY <1>1, <1>7 DEF InvokeCallback, CallbacksInv, TypeOK, Callback
  <2> QED BY <1>1, <1>2, <2>1, ContentsWithObject
<1>8. ASSUME NEW m \in Modules, MakeThrows(m) PROVE ObjectsInTheirDirectory'
  <2>1. files # <<>> /\ (files' = files \/ files' = CloseFile(files))
    BY <1>1, <1>8 DEF MakeThrows, WantsToMake, Calling
  <2>2. DOMAIN CloseFile(files) = DOMAIN files
    BY <1>1, <2>1, CloseFileType
  <2> QED BY <1>1, <1>2, <2>1, <2>2, ClosedContents
<1>9. CASE EndOfJob
  <2>1. files # <<>> /\ files' = CloseFile(files)
    BY <1>1, <1>9 DEF EndOfJob
  <2>2. DOMAIN CloseFile(files) = DOMAIN files
    BY <1>1, <2>1, CloseFileType
  <2> QED BY <1>1, <1>2, <2>1, <2>2, ClosedContents
<1>10. ASSUME NEW m \in Modules, EndCall(m) PROVE ObjectsInTheirDirectory'
  <2>1. files' = files \/ files' = [files EXCEPT ![held[m]].fills[m] = @ \cup {step}]
    BY <1>10 DEF EndCall
  <2>2. \A k \in DOMAIN files : files[k] \in FileType
    BY <1>1
  <2> QED BY <1>2, <2>1, <2>2 DEF FileType
<1>11. CASE NothingToDo \/ SwitchDone \/ UNCHANGED vars
  BY <1>11 DEF NothingToDo, SwitchDone, vars, ObjectsInTheirDirectory
<1>12. ASSUME NEW m \in Modules, BeginCall(m) \/ Register(m) \/ MakeNothing(m)
       PROVE  ObjectsInTheirDirectory'
  BY <1>12 DEF BeginCall, Register, MakeNothing, ObjectsInTheirDirectory
<1> QED
  BY <1>3, <1>4, <1>5, <1>6, <1>7, <1>8, <1>9, <1>10, <1>11, <1>12 DEF Next, ModuleStep

LEMMA ServiceInit == Init => ServiceInv
<1> SUFFICES ASSUME Init PROVE ServiceInv
  OBVIOUS
<1>1. Running = {} /\ files = <<>> /\ DOMAIN files = {}
  <2>1. files = <<>> /\ pc = [m \in Modules |-> "idle"]
    BY DEF Init
  <2> QED BY <2>1 DEF Running
<1>2. IsFiniteSet(Running)
  BY <1>1, FS_EmptySet
<1> QED BY <1>1, <1>2, TypeCorrectInit
        DEF Init, ServiceInv, CallsInv, CallbacksInv, HeldInv, HeldObjectsAreLive, ObjectsInTheirDirectory

LEMMA ServiceStep == ServiceInv /\ [Next]_vars => ServiceInv'
BY TypeCorrectStep, CallsStep, CallbacksStep, HeldStep, ObjectsStep DEF ServiceInv

(* However often files are switched, an object is in the directory of the  *)
(* module that made it: dir_ belongs to the module that is being called,   *)
(* also while callbacks are invoked for others.                            *)
THEOREM InTheirDirectory == Spec => []ObjectsInTheirDirectory
<1>1. ServiceInv => ObjectsInTheirDirectory
  BY DEF ServiceInv
<1> QED BY <1>1, ServiceInit, ServiceStep, PTL DEF Spec

(* No module is left with an object of a file that was closed, because a   *)
(* module that has one has a callback.                                     *)
THEOREM ObjectsLive == Spec => []HeldObjectsAreLive
<1>1. ServiceInv => HeldObjectsAreLive
  BY DEF ServiceInv, HeldInv
<1> QED BY <1>1, ServiceInit, ServiceStep, PTL DEF Spec

-----------------------------------------------------------------------------
(***************************************************************************)
(* Fills                                                                   *)
(***************************************************************************)
(* A module that has an object has put the event of this step in it.       *)
HasFilled(m) ==
  Calling /\ Transition = "Event" /\ m \notin waiting /\ pc[m] = "idle" /\ held[m] # 0

(* What modules have filled of the event that is not recorded yet, and     *)
(* that all events before it are recorded.                                 *)
FillsInv ==
  /\ phase = "Switching" => waiting = Modules
  /\ \A k \in DOMAIN files : files[k].events \subseteq 1..step-1
  /\ \A m \in Modules : made[m] <= step
  /\ \A m \in Modules : held[m] = 0 => \A k \in DOMAIN files : files[k].fills[m] = {}
  /\ phase \in {"Loop", "Switching"} => \A m \in Modules : \A k \in DOMAIN files :
       step \in files[k].fills[m] <=> k = Len(files) /\ HasFilled(m)
  /\ RecordedEventsAreFilled

LEMMA FillsStep ==
  ServiceInv /\ FillsInv /\ [Next]_vars => FillsInv'
<1> SUFFICES ASSUME ServiceInv, FillsInv, [Next]_vars PROVE FillsInv'
  OBVIOUS
<1> USE DEF FillsInv
<1>1. TypeOK /\ CallsInv /\ CallbacksInv /\ HeldInv
  BY DEF ServiceInv
<1>2. /\ files \in Seq(FileType) /\ DOMAIN files = 1..Len(files) /\ Len(files) \in Nat
      /\ \A k \in DOMAIN files : files[k] \in FileType
      /\ phase \in {"Loop", "Switching"} => files # <<>> /\ Len(files) \in DOMAIN files
      /\ step \in Nat \ {0}
      /\ held \in [Modules -> 0..Len(files)] /\ made \in [Modules -> Nat]
      /\ pc \in [Modules -> {"idle", "register", "make", "fill"}]
  BY <1>1, Basics DEF TypeOK
<1>3. Len(files') = IF (Construct /\ phase' = "Loop") \/ SwitchFiles THEN Len(files) + 1 ELSE Len(files)
  BY <1>1, NumberOfFiles
<1>4. ASSUME DOMAIN files' = DOMAIN files, UNCHANGED <<step, held, made>>,
             \A k \in DOMAIN files : files'[k].fills = files[k].fills /\ files'[k].events = files[k].events,
             phase' \in {"Loop", "Switching"} =>
               /\ phase \in {"Loop", "Switching"} /\ Len(files') = Len(files)
               /\ \A m \in Modules : HasFilled(m)' <=> HasFilled(m),
             phase' = "Switching" => waiting' = Modules
      PROVE  FillsInv'
  BY <1>4 DEF RecordedEventsAreFilled
<1>5. CASE Construct
  <2>1. files = <<>> /\ \A m \in Modules : held[m] = 0
    <3>1. files = <<>>
      BY <1>1, <1>5 DEF Construct, HeldInv
    <3> QED BY <1>2, <3>1
  <2>2. CASE files' = OpenFile(files)
    <3>1. DOMAIN files' = {1} /\ files'[1] = NewFile
      <4>1. /\ files' \in Seq(FileType) /\ Len(files') = Len(files) + 1
            /\ files'[Len(files) + 1] = NewFile
        BY <1>2, <2>2, OpenFileType
      <4>2. Len(files) = 0
        BY <2>1
      <4> QED BY <4>1, <4>2
    <3>2. \A m \in Modules : ~ HasFilled(m)'
      BY <1>5, <2>1 DEF HasFilled, Construct
    <3>3. /\ UNCHANGED <<step, held, made>> /\ phase' # "Switching"
      BY <1>5 DEF Construct
    <3> QED BY <2>1, <3>1, <3>2, <3>3 DEF NewFile, RecordedEventsAreFilled
  <2>3. CASE UNCHANGED files /\ phase' = "Failed"
    BY <1>4, <1>5, <2>3 DEF Construct
  <2> QED BY <1>5, <2>2, <2>3 DEF Construct
<1>6. ASSUME NEW m \in Modules, BeginCall(m) \/ Register(m) \/ MakeNothing(m) PROVE FillsInv'
  <2>1. /\ UNCHANGED <<job, phase, step, files, held, made>> /\ Calling
        /\ waiting' \subseteq waiting /\ pc'[m] # "idle" /\ ~ HasFilled(m)
        /\ \A n \in Modules \ {m} : pc'[n] = pc[n] /\ (n \in waiting' <=> n \in waiting)
    BY <1>2, <1>6 DEF BeginCall, Register, MakeNothing, HasFilled
  <2>2. \A n \in Modules : HasFilled(n)' <=> HasFilled(n)
    BY <2>1 DEF HasFilled, Calling, Transition
  <2> QED BY <1>4, <2>1, <2>2 DEF Calling
<1>7. ASSUME NEW m \in Modules, Make(m) PROVE FillsInv'
  <2>1. /\ UNCHANGED <<job, phase, step, waiting>> /\ files # <<>> /\ dir \in Modules
        /\ held[m] = 0 /\ held' = [held EXCEPT ![m] = Len(files)] /\ made' = [made EXCEPT ![m] = step]
        /\ pc' = [pc EXCEPT ![m] = "fill"] /\ files' = WithObject(files, dir, m) /\ phase = "Loop"
    BY <1>1, <1>2, <1>7 DEF Make, WantsToMake, Calling, TypeOK, Running
  <2>2. /\ DOMAIN files' = DOMAIN files
        /\ \A k \in DOMAIN files : files'[k].fills = files[k].fills /\ files'[k].events = files[k].events
    BY <1>2, <2>1, ContentsWithObject
  <2>3. \A n \in Modules \ {m} : held'[n] = held[n] /\ made'[n] = made[n] /\ (HasFilled(n)' <=> HasFilled(n))
    BY <1>2, <2>1 DEF HasFilled, Calling, Transition
  <2>4. held'[m] # 0 /\ made'[m] = step /\ ~ HasFilled(m)' /\ ~ HasFilled(m)
    BY <1>2, <2>1 DEF HasFilled
  <2>5. \A k \in DOMAIN files : files[k].fills[m] = {} /\ {e \in files[k].events : e >= step} = {}
    BY <1>2, <2>1
  <2>6. Len(files') = Len(files)
    BY <1>2, <2>1, <1>3 DEF Construct, SwitchFiles, AfterTransition
  <2>7. RecordedEventsAreFilled'
    BY <2>1, <2>2, <2>3, <2>4, <2>5 DEF RecordedEventsAreFilled
  <2>8. \A n \in Modules : \A k \in DOMAIN files' :
          step' \in files'[k].fills[n] <=> k = Len(files') /\ HasFilled(n)'
    <3> SUFFICES ASSUME NEW n \in Modules, NEW k \in DOMAIN files
                 PROVE  step \in files[k].fills[n] <=> k = Len(files) /\ HasFilled(n)'
      BY <2>1, <2>2, <2>6
    <3>1. HasFilled(n)' <=> HasFilled(n)
      BY <2>3, <2>4
    <3> QED BY <2>1, <3>1
  <2>9. \A n \in Modules : held'[n] = 0 => \A k \in DOMAIN files' : files'[k].fills[n] = {}
    BY <2>2, <2>3, <2>4
  <2>10. \A n \in Modules : made'[n] <= step'
    BY <1>2, <2>1, <2>3, <2>4
  <2> QED BY <2>1, <2>2, <2>7, <2>8, <2>9, <2>10
<1>8. ASSUME NEW c \in pending, InvokeCallback(c) PROVE FillsInv'
  <2> DEFINE m == c.module
  <2>1. /\ UNCHANGED <<job, phase, step, waiting>> /\ files # <<>> /\ m \in Modules /\ c.dir \in Modules
        /\ held' = [held EXCEPT ![m] = Len(files)] /\ Len(files) # 0
        /\ made' = IF held[m] = 0 THEN [made EXCEPT ![m] = step] ELSE made
        /\ files' = WithObject(files, c.dir, m) /\ phase = "Switching"
    <3>1. c \in Callback
      BY <1>1 DEF TypeOK
    <3>2. m \in Modules /\ c.dir \in Modules
      BY <3>1 DEF Callback
    <3> QED BY <1>2, <1>8, <3>2 DEF InvokeCallback, MadeBy
  <2> HIDE DEF m
  <2>2. /\ DOMAIN files' = DOMAIN files
        /\ \A k \in DOMAIN files : files'[k].fills = files[k].fills /\ files'[k].events = files[k].events
    BY <1>2, <2>1, ContentsWithObject
  <2>3. \A n \in Modules : ~ HasFilled(n) /\ ~ HasFilled(n)'
    BY <2>1 DEF HasFilled, Calling
  <2>4. \A n \in Modules \ {m} : held'[n] = held[n] /\ made'[n] = made[n]
    BY <1>2, <2>1
  <2>5. held'[m] # 0 /\ made'[m] = IF held[m] = 0 THEN step ELSE made[m]
    BY <1>2, <2>1
  <2>6. held[m] = 0 => \A k \in DOMAIN files : files[k].fills[m] = {} /\ {e \in files[k].events : e >= step} = {}
    BY <1>2, <2>1
  <2>7. Len(files') = Len(files)
    BY <1>2, <2>1, <1>3 DEF Construct, SwitchFiles, AfterTransition, TransitionOver, Calling
  <2>8. RecordedEventsAreFilled'
    <3> SUFFICES ASSUME NEW n \in Modules, held'[n] # 0, NEW k \in DOMAIN files
                 PROVE  files[k].fills[n] \ {step} = {e \in files[k].events : e >= made'[n]}
      BY <2>1, <2>2 DEF RecordedEventsAreFilled
    <3>1. CASE n = m /\ held[m] = 0
      BY <2>5, <2>6, <3>1
    <3>2. CASE ~ (n = m /\ held[m] = 0)
      <4>1. held[n] # 0 /\ made'[n] = made[n]
        BY <2>4, <2>5, <3>2
      <4> QED BY <4>1 DEF RecordedEventsAreFilled
    <3> QED BY <3>1, <3>2
  <2>9. \A n \in Modules : \A k \in DOMAIN files' :
          step' \in files'[k].fills[n] <=> k = Len(files') /\ HasFilled(n)'
    <3> SUFFICES ASSUME NEW n \in Modules, NEW k \in DOMAIN files
                 PROVE  step \in files[k].fills[n] <=> k = Len(files) /\ HasFilled(n)'
      BY <2>1, <2>2, <2>7
    <3> QED BY <2>1, <2>3
  <2>10. \A n \in Modules : held'[n] = 0 => \A k \in DOMAIN files' : files'[k].fills[n] = {}
    BY <2>2, <2>4, <2>5
  <2>11. \A n \in Modules : made'[n] <= step'
    BY <1>2, <2>1, <2>4, <2>5
  <2> QED BY <2>1, <2>2, <2>8, <2>9, <2>10, <2>11
<1>9. CASE EndOfJob \/ \E m \in Modules : MakeThrows(m)
  <2>1. /\ UNCHANGED <<step, waiting, held, made>> /\ files # <<>> /\ (files' = files \/ files' = CloseFile(files))
        /\ phase' \in {"Done", "Failed"} \/ (UNCHANGED <<job, phase, files>>)
    BY <1>2, <1>9 DEF EndOfJob, MakeThrows, WantsToMake, Calling
  <2>2. /\ DOMAIN files' = DOMAIN files
        /\ \A k \in DOMAIN files : files'[k].fills = files[k].fills /\ files'[k].events = files[k].events
    <3>1. DOMAIN CloseFile(files) = DOMAIN files
      BY <1>2, <2>1, CloseFileType
    <3> QED BY <1>2, <2>1, <3>1, ClosedContents
  <2>3. CASE phase' \in {"Done", "Failed"}
    BY <1>4, <2>1, <2>2, <2>3
  <2>4. CASE \E m \in Modules : MakeThrows(m) /\ pc' = [pc EXCEPT ![m] = "fill"] /\ phase' = phase
    <3>1. PICK m \in Modules : MakeThrows(m) /\ pc' = [pc EXCEPT ![m] = "fill"] /\ phase' = phase
      BY <2>4
    <3>2. held[m] = 0 /\ UNCHANGED job /\ phase = "Loop"
      BY <3>1 DEF MakeThrows, WantsToMake, Calling
    <3>3. \A n \in Modules : HasFilled(n)' <=> HasFilled(n)
      BY <1>2, <2>1, <3>1, <3>2 DEF HasFilled, Calling, Transition
    <3>4. Len(files') = Len(files)
      BY <1>2, <2>1, CloseFileType
    <3> QED BY <1>4, <2>1, <2>2, <3>2, <3>3, <3>4
  <2> QED BY <1>9, <2>3, <2>4 DEF EndOfJob, MakeThrows
<1>10. ASSUME NEW m \in Modules, EndCall(m) PROVE FillsInv'
  <2>1. /\ UNCHANGED <<job, phase, step, waiting, held, made>> /\ Calling /\ phase = "Loop"
        /\ pc[m] = "fill" /\ pc' = [pc EXCEPT ![m] = "idle"]
    BY <1>10 DEF EndCall, Calling
  <2>2. m \notin waiting /\ held[m] \in {0, Len(files)}
    BY <1>1, <2>1 DEF CallsInv, HeldInv, HeldObjectsAreLive, Running
  <2>3. \A n \in Modules \ {m} : HasFilled(n)' <=> HasFilled(n)
    BY <1>2, <2>1 DEF HasFilled, Calling, Transition
  <2>4. ~ HasFilled(m) /\ (HasFilled(m)' <=> Transition = "Event" /\ held[m] # 0)
    BY <1>2, <2>1, <2>2 DEF HasFilled, Calling, Transition
  <2>5. CASE Transition = "Event" /\ held[m] # 0
    <3>1. files[Len(files)].open /\ held[m] = Len(files)
      <4>1. FilesOK
        BY <1>1 DEF TypeOK
      <4>2. Len(files) \in DOMAIN files
        BY <1>2, <2>1
      <4> QED BY <2>1, <2>2, <2>5, <4>1, <4>2 DEF FilesOK
    <3>2. files' = [files EXCEPT ![Len(files)].fills[m] = @ \cup {step}]
      BY <1>10, <2>5, <3>1 DEF EndCall
    <3>3. DOMAIN files' = DOMAIN files /\ Len(files') = Len(files)
      BY <1>2, <3>2
    <3>4. \A k \in DOMAIN files : /\ files'[k].events = files[k].events
                                  /\ \A n \in Modules : files'[k].fills[n] =
                                       files[k].fills[n] \cup (IF k = Len(files) /\ n = m THEN {step} ELSE {})
      BY <1>2, <3>2 DEF FileType
    <3>5. RecordedEventsAreFilled'
      <4> SUFFICES ASSUME NEW n \in Modules, held[n] # 0, NEW k \in DOMAIN files
                   PROVE  files'[k].fills[n] \ {step} = {e \in files'[k].events : e >= made[n]}
        BY <2>1, <3>3 DEF RecordedEventsAreFilled
      <4>1. files[k].fills[n] \ {step} = {e \in files[k].events : e >= made[n]}
        BY DEF RecordedEventsAreFilled
      <4> QED BY <3>4, <4>1
    <3>6. \A n \in Modules : held'[n] = 0 => \A k \in DOMAIN files' : files'[k].fills[n] = {}
      BY <2>1, <2>5, <3>3, <3>4
    <3>7. \A n \in Modules : \A k \in DOMAIN files' :
            step' \in files'[k].fills[n] <=> k = Len(files') /\ HasFilled(n)'
      <4> SUFFICES ASSUME NEW n \in Modules, NEW k \in DOMAIN files
                   PROVE  step \in files'[k].fills[n] <=> k = Len(files) /\ HasFilled(n)'
        BY <2>1, <3>3
      <4>1. step \in files[k].fills[n] <=> k = Len(files) /\ HasFilled(n)
        BY <2>1
      <4>2. CASE n = m
        BY <2>4, <2>5, <3>4, <4>1, <4>2
      <4>3. CASE n # m
        BY <2>3, <3>4, <4>1, <4>3
      <4> QED BY <4>2, <4>3
    <3>8. \A k \in DOMAIN files' : files'[k].events \subseteq 1..step'-1
      BY <2>1, <3>3, <3>4
    <3> QED BY <2>1, <3>5, <3>6, <3>7, <3>8
  <2>6. CASE ~ (Transition = "Event" /\ held[m] # 0)
    <3>1. UNCHANGED files
      BY <1>10, <2>6 DEF EndCall
    <3>2. \A n \in Modules : HasFilled(n)' <=> HasFilled(n)
      BY <2>3, <2>4, <2>6
    <3> QED BY <1>4, <2>1, <3>1, <3>2
  <2> QED BY <2>5, <2>6
<1>11. CASE NothingToDo \/ KeepFile \/ SwitchFiles
  <2>1. /\ TransitionOver /\ phase = "Loop" /\ UNCHANGED <<job, held, made>>
        /\ step' = step + 1 /\ waiting' = Modules
        /\ NothingToDo => Transition # "Event"
    BY <1>11 DEF NothingToDo, KeepFile, SwitchFiles, AfterTransition, TransitionOver, GoOn, Calling, Granularities
  <2>2. \A m \in Modules : HasFilled(m) <=> Transition = "Event" /\ held[m] # 0
    BY <2>1 DEF TransitionOver, HasFilled, Running
  <2>3. \A m \in Modules : ~ HasFilled(m)'
    BY <2>1 DEF HasFilled
  <2>4. \A k \in DOMAIN files :
          /\ k \in DOMAIN files' /\ files'[k].fills = files[k].fills
          /\ files'[k].events = files[k].events \cup
               (IF k = Len(files) /\ Transition = "Event" THEN {step} ELSE {})
    <3>1. CASE NothingToDo
      BY <2>1, <3>1 DEF NothingToDo
    <3>2. CASE KeepFile \/ SwitchFiles
      BY <1>1, <3>2, ContentsAfterTransition
    <3> QED BY <1>11, <3>1, <3>2
  <2>5. \A k \in DOMAIN files' : k \in DOMAIN files \/ files'[k] = NewFile
    <3>1. CASE SwitchFiles
      <4>1. DOMAIN files' = 1..Len(files) + 1 /\ files'[Len(files) + 1] = NewFile
        BY <1>1, <3>1, ContentsAfterTransition
      <4>2. 1..Len(files) + 1 = 1..Len(files) \cup {Len(files) + 1}
        BY <1>2
      <4> QED BY <1>2, <4>1, <4>2
    <3>2. CASE KeepFile \/ NothingToDo
      BY <1>1, <3>2, ContentsAfterTransition DEF NothingToDo
    <3> QED BY <1>11, <3>1, <3>2
  <2>6. \A k \in DOMAIN files' : files'[k].events \subseteq 1..step'-1
    <3> SUFFICES ASSUME NEW k \in DOMAIN files' PROVE files'[k].events \subseteq 1..step
      BY <1>2, <2>1
    <3>1. CASE k \in DOMAIN files
      BY <1>2, <2>4, <3>1
    <3>2. CASE files'[k] = NewFile
      BY <3>2 DEF NewFile
    <3> QED BY <2>5, <3>1, <3>2
  <2>7. \A m \in Modules : held'[m] = 0 => \A k \in DOMAIN files' : files'[k].fills[m] = {}
    BY <2>1, <2>4, <2>5 DEF NewFile
  <2>8. \A m \in Modules : \A k \in DOMAIN files' :
          held[m] # 0 =>
            /\ step + 1 \notin files'[k].fills[m]
            /\ files'[k].fills[m] = {e \in files'[k].events : e >= made[m]}
    <3> SUFFICES ASSUME NEW m \in Modules, NEW k \in DOMAIN files', held[m] # 0
                 PROVE  /\ step + 1 \notin files'[k].fills[m]
                        /\ files'[k].fills[m] = {e \in files'[k].events : e >= made[m]}
      OBVIOUS
    <3>1. CASE k \in DOMAIN files
      <4>1. files[k].fills[m] \ {step} = {e \in files[k].events : e >= made[m]}
        BY <3>1 DEF RecordedEventsAreFilled
      <4>2. step \in files[k].fills[m] <=> k = Len(files) /\ Transition = "Event"
        BY <2>1, <2>2, <3>1
      <4>3. files[k].events \subseteq 1..step-1 /\ made[m] <= step /\ made[m] \in Nat
        BY <1>2, <3>1
      <4>4. /\ files'[k].fills[m] = files[k].fills[m]
            /\ files'[k].events = files[k].events \cup
                 (IF k = Len(files) /\ Transition = "Event" THEN {step} ELSE {})
        BY <2>4, <3>1
      <4> QED BY <1>2, <4>1, <4>2, <4>3, <4>4
    <3>2. CASE files'[k] = NewFile
      BY <3>2 DEF NewFile
    <3> QED BY <2>5, <3>1, <3>2
  <2>9. RecordedEventsAreFilled'
    BY <2>1, <2>8 DEF RecordedEventsAreFilled
  <2>10. \A m \in Modules : \A k \in DOMAIN files' : step' \notin files'[k].fills[m]
    <3> SUFFICES ASSUME NEW m \in Modules, NEW k \in DOMAIN files' PROVE step' \notin files'[k].fills[m]
      OBVIOUS
    <3>1. CASE held[m] = 0
      BY <2>1, <2>7, <3>1
    <3>2. CASE held[m] # 0
      BY <2>1, <2>8, <3>2
    <3> QED BY <3>1, <3>2
  <2>11. \A m \in Modules : made'[m] <= step'
    BY <1>2, <2>1
  <2> QED BY <2>1, <2>3, <2>6, <2>7, <2>9, <2>10, <2>11
<1>12. CASE SwitchDone
  <2>1. /\ UNCHANGED <<job, step, files, held, made, waiting>> /\ phase = "Switching" /\ phase' = "Loop"
        /\ waiting = Modules
    BY <1>12 DEF SwitchDone
  <2>2. \A m \in Modules : ~ HasFilled(m) /\ ~ HasFilled(m)'
    BY <2>1 DEF HasFilled, Calling
  <2> QED BY <1>4, <2>1, <2>2
<1>13. CASE UNCHANGED vars
  <2>1. \A m \in Modules : HasFilled(m)' <=> HasFilled(m)
    BY <1>13 DEF vars, HasFilled, Calling, Transition
  <2> QED BY <1>4, <1>13, <2>1 DEF vars
<1> QED
  BY <1>5, <1>6, <1>7, <1>8, <1>9, <1>10, <1>11, <1>12, <1>13 DEF Next, ModuleStep

LEMMA FillsInit == Init => FillsInv
<1> SUFFICES ASSUME Init PROVE FillsInv
  OBVIOUS
<1>1. /\ step = 1 /\ phase = "Construct" /\ files = <<>>
      /\ \A m \in Modules : made[m] = 0 /\ held[m] = 0
  BY DEF Init
<1>2. DOMAIN files = {}
  BY <1>1
<1> QED BY <1>1, <1>2 DEF FillsInv, RecordedEventsAreFilled

(* Each event that is recorded for a file is in the objects that modules   *)
(* have in that file, from the first of each on, and no other is: whatever *)
(* calls overlap, a switch waits for all modules and takes the event along.*)
THEOREM EventsFilled == Spec => []RecordedEventsAreFilled
<1>1. Init => ServiceInv /\ FillsInv
  BY ServiceInit, FillsInit
<1>2. ServiceInv /\ FillsInv /\ [Next]_vars => (ServiceInv /\ FillsInv)'
  BY ServiceStep, FillsStep
<1>3. ServiceInv /\ FillsInv => RecordedEventsAreFilled
  BY DEF FillsInv
<1> QED BY <1>1, <1>2, <1>3, PTL DEF Spec

-----------------------------------------------------------------------------
(***************************************************************************)
(* Switches                                                                *)
(***************************************************************************)
EndsUnit(i) == job.loop[i] \in Granularities /\ Rank[job.loop[i]] >= Rank[job.granularity]

(* Units are counted up, one at each boundary. *)
LEMMA Units ==
  /\ \A e \in Nat : Unit(e) \in Nat
  /\ \A e, f \in Nat : e <= f => Unit(e) <= Unit(f)
  /\ \A e \in Nat \ {0} : Unit(e + 1) = Unit(e) + (IF EndsUnit(e) THEN 1 ELSE 0)
<1> DEFINE ends(e) == {i \in 1..e-1 : EndsUnit(i)}
<1>1. \A e \in Nat : Unit(e) = Cardinality(ends(e)) /\ IsFiniteSet(ends(e))
  <2> SUFFICES ASSUME NEW e \in Nat PROVE Unit(e) = Cardinality(ends(e)) /\ IsFiniteSet(ends(e))
    OBVIOUS
  <2>1. IsFiniteSet(1..e-1)
    BY FS_Interval
  <2>2. ends(e) \subseteq 1..e-1
    OBVIOUS
  <2>3. IsFiniteSet(ends(e))
    BY <2>1, <2>2, FS_Subset
  <2> QED BY <2>3 DEF Unit, EndsUnit
<1>2. \A e, f \in Nat : e <= f => ends(e) \subseteq ends(f)
  OBVIOUS
<1>3. \A e \in Nat \ {0} : e \notin ends(e) /\ ends(e + 1) = ends(e) \cup (IF EndsUnit(e) THEN {e} ELSE {})
  OBVIOUS
<1> HIDE DEF ends
<1>4. \A e \in Nat : Unit(e) \in Nat
  BY <1>1, FS_CardinalityType
<1>5. \A e, f \in Nat : e <= f => Unit(e) <= Unit(f)
  BY <1>1, <1>2, FS_Subset
<1>6. \A e \in Nat \ {0} : Unit(e + 1) = Unit(e) + (IF EndsUnit(e) THEN 1 ELSE 0)
  <2> SUFFICES ASSUME NEW e \in Nat \ {0}
               PROVE  Unit(e + 1) = Unit(e) + (IF EndsUnit(e) THEN 1 ELSE 0)
    OBVIOUS
  <2>1. Unit(e) = Cardinality(ends(e)) /\ IsFiniteSet(ends(e)) /\ Unit(e + 1) = Cardinality(ends(e + 1))
    BY <1>1
  <2>2. CASE EndsUnit(e)
    <3>1. ends(e + 1) = ends(e) \cup {e} /\ e \notin ends(e)
      BY <1>3, <2>2
    <3>2. Cardinality(ends(e) \cup {e}) = Cardinality(ends(e)) + 1
      BY <2>1, <3>1, FS_AddElement
    <3> QED BY <2>1, <2>2, <3>1, <3>2
  <2>3. CASE ~ EndsUnit(e)
    <3>1. ends(e + 1) = ends(e)
      BY <1>3, <2>3
    <3> QED BY <1>4, <2>1, <2>3, <3>1
  <2> QED BY <2>2, <2>3
<1> QED BY <1>4, <1>5, <1>6

(* The open file's events are counted, and no count is ahead of the job.   *)
CountsInv ==
  /\ \A g \in Granularities : fp[g] <= step - 1
  /\ phase = "Construct" => fp = NoCounts
  /\ phase \in {"Loop", "Switching"} => fp["Event"] = Cardinality(files[Len(files)].events)
  /\ SwitchesWhenDue

(* Nothing but a transition of the job, or the start, changes what has been*)
(* recorded.                                                               *)
LEMMA RecordsKept ==
  ASSUME TypeOK, [Next]_vars, ~ Construct, ~ NothingToDo, ~ KeepFile, ~ SwitchFiles
  PROVE  /\ UNCHANGED <<job, step, fp>> /\ DOMAIN files' = DOMAIN files /\ Len(files') = Len(files)
         /\ \A k \in DOMAIN files : files'[k].events = files[k].events
         /\ phase' \in {"Loop", "Switching"} => phase \in {"Loop", "Switching"}
         /\ phase' = "Construct" => phase = "Construct"
<1>1. /\ files \in Seq(FileType) /\ DOMAIN files = 1..Len(files)
      /\ \A k \in DOMAIN files : files[k] \in FileType
      /\ phase \in {"Loop", "Switching"} => files # <<>>
  BY Basics
<1>2. Len(files') = Len(files)
  BY NumberOfFiles
<1>3. ASSUME NEW m \in Modules, Make(m)
      PROVE  DOMAIN files' = DOMAIN files /\ \A k \in DOMAIN files : files'[k].events = files[k].events
  <2>1. files # <<>> /\ dir \in Modules /\ files' = WithObject(files, dir, m)
    BY <1>1, <1>3 DEF Make, WantsToMake, Calling, TypeOK, Running
  <2> QED BY <1>1, <2>1, ContentsWithObject
<1>4. ASSUME NEW c \in pending, InvokeCallback(c)
      PROVE  DOMAIN files' = DOMAIN files /\ \A k \in DOMAIN files : files'[k].events = files[k].events
  <2>1. c \in Callback
    BY DEF TypeOK
  <2>2. /\ files # <<>> /\ c.dir \in Modules /\ c.module \in Modules
        /\ files' = WithObject(files, c.dir, c.module)
    BY <1>1, <1>4, <2>1 DEF InvokeCallback, Callback
  <2> QED BY <1>1, <2>2, ContentsWithObject
<1>5. ASSUME files # <<>>, files' = CloseFile(files)
      PROVE  DOMAIN files' = DOMAIN files /\ \A k \in DOMAIN files : files'[k].events = files[k].events
  BY <1>1, <1>5, CloseFileType, ClosedContents
<1>6. ASSUME NEW m \in Modules, EndCall(m)
      PROVE  DOMAIN files' = DOMAIN files /\ \A k \in DOMAIN files : files'[k].events = files[k].events
  <2>1. files' = files \/ files' = [files EXCEPT ![held[m]].fills[m] = @ \cup {step}]
    BY <1>6 DEF EndCall
  <2>2. DOMAIN files' = DOMAIN files
    BY <2>1
  <2>3. \A k \in DOMAIN files : files'[k].events = files[k].events
    <3>1. \A k \in DOMAIN files : files[k] \in FileType
      BY <1>1
    <3> QED BY <2>1, <3>1 DEF FileType
  <2> QED BY <2>2, <2>3
<1>7. UNCHANGED <<job, step, fp>>
  BY DEF Next, SwitchDone, EndOfJob, ModuleStep, BeginCall, Register, Make, MakeThrows, MakeNothing,
         EndCall, InvokeCallback, vars
<1>8. /\ phase' \in {"Loop", "Switching"} => phase \in {"Loop", "Switching"}
      /\ phase' = "Construct" => phase = "Construct"
  BY DEF Next, SwitchDone, EndOfJob, ModuleStep, BeginCall, Register, Make, MakeThrows, MakeNothing,
         EndCall, InvokeCallback, vars
<1>9. UNCHANGED files \/ (files # <<>> /\ files' = CloseFile(files)) \/ (\E c \in pending : InvokeCallback(c))
        \/ (\E m \in Modules : Make(m) \/ EndCall(m))
  BY <1>1 DEF Next, SwitchDone, EndOfJob, ModuleStep, BeginCall, Register, MakeThrows, MakeNothing,
         WantsToMake, Calling, vars
<1>10. DOMAIN files' = DOMAIN files /\ \A k \in DOMAIN files : files'[k].events = files[k].events
  BY <1>3, <1>4, <1>5, <1>6, <1>9
<1> QED BY <1>2, <1>7, <1>8, <1>10

(* The events of a file that belong to earlier units than e; a file may    *)
(* take the unit of e if they are not too many.                            *)
Before(events, e)    == {f \in events : Unit(f) < Unit(e)}
HasRoom(events, e)   == Cardinality(Before(events, e)) < job.max["Event"]
FullInTime(events)   == Cardinality(events) >= job.max["Event"] /\ \A e \in events : HasRoom(events, e)

LEMMA BeforeLater ==
  ASSUME NEW s \in Nat \ {0}, NEW events \in SUBSET (1..s)
  PROVE  /\ IsFiniteSet(events) /\ Cardinality(events) \in Nat
         /\ \A e \in 1..s+1 :
              /\ IsFiniteSet(Before(events, e)) /\ Cardinality(Before(events, e)) \in Nat
              /\ Cardinality(Before(events, e)) <= Cardinality(events)
         /\ \A e \in 1..s : Cardinality(Before(events, e)) <= Cardinality(Before(events \ {s}, s))
<1>1. IsFiniteSet(events) /\ Cardinality(events) \in Nat
  <2>1. IsFiniteSet(1..s)
    BY FS_Interval
  <2>2. IsFiniteSet(events)
    BY <2>1, FS_Subset
  <2> QED BY <2>2, FS_CardinalityType
<1>2. \A e : /\ Before(events, e) \subseteq events
             /\ IsFiniteSet(Before(events, e)) /\ Cardinality(Before(events, e)) \in Nat
             /\ Cardinality(Before(events, e)) <= Cardinality(events)
  <2> SUFFICES ASSUME NEW e
               PROVE  /\ Before(events, e) \subseteq events
                      /\ IsFiniteSet(Before(events, e)) /\ Cardinality(Before(events, e)) \in Nat
                      /\ Cardinality(Before(events, e)) <= Cardinality(events)
    OBVIOUS
  <2>1. Before(events, e) \subseteq events
    BY DEF Before
  <2> QED BY <1>1, <2>1, FS_Subset, FS_CardinalityType
<1>3. \A e \in 1..s : Before(events, e) \subseteq Before(events \ {s}, s)
  <2> SUFFICES ASSUME NEW e \in 1..s, NEW f \in events, Unit(f) < Unit(e)
               PROVE  f # s /\ Unit(f) < Unit(s)
    BY DEF Before
  <2>1. Unit(e) <= Unit(s) /\ Unit(e) \in Nat /\ Unit(s) \in Nat /\ Unit(f) \in Nat
    <3>1. e \in Nat /\ f \in Nat /\ e <= s
      OBVIOUS
    <3> QED BY <3>1, Units
  <2> QED BY <2>1
<1>4. IsFiniteSet(Before(events \ {s}, s))
  <2>1. Before(events \ {s}, s) \subseteq events
    BY DEF Before
  <2> QED BY <1>1, <2>1, FS_Subset
<1>5. \A e \in 1..s : Cardinality(Before(events, e)) <= Cardinality(Before(events \ {s}, s))
  BY <1>3, <1>4, FS_Subset
<1> QED BY <1>1, <1>2, <1>5

LEMMA SwitchesInit == Init => CountsInv
<1> SUFFICES ASSUME Init PROVE CountsInv
  OBVIOUS
<1>1. /\ step = 1 /\ phase = "Construct" /\ files = <<>> /\ fp = NoCounts
  BY DEF Init
<1>2. DOMAIN files = {} /\ \A g \in Granularities : fp[g] = 0
  BY <1>1 DEF NoCounts
<1> QED BY <1>1, <1>2 DEF CountsInv, SwitchesWhenDue

LEMMA SwitchesStep ==
  ServiceInv /\ FillsInv /\ CountsInv /\ [Next]_vars => CountsInv'
<1> SUFFICES ASSUME ServiceInv, FillsInv, CountsInv, [Next]_vars PROVE CountsInv'
  OBVIOUS
<1>1. TypeOK /\ HeldInv
  BY DEF ServiceInv
<1>2. /\ files \in Seq(FileType) /\ DOMAIN files = 1..Len(files) /\ Len(files) \in Nat
      /\ phase \in {"Loop", "Switching"} => files # <<>> /\ Len(files) \in DOMAIN files
      /\ step \in Nat \ {0}
  BY <1>1, Basics
<1>3. /\ fp \in [Granularities -> Nat] /\ Len(job.loop) \in Nat
      /\ job.max \in [Granularities -> Nat \ {0}] /\ job.granularity \in Granularities
  BY <1>1, JobType DEF TypeOK
<1>4. UNCHANGED job
  BY DEF Next, Construct, NothingToDo, KeepFile, SwitchFiles, AfterTransition, SwitchDone, EndOfJob, ModuleStep,
         BeginCall, Register, Make, MakeThrows, MakeNothing, EndCall, InvokeCallback, vars
<1>5. /\ \A e : Unit(e)' = Unit(e)
      /\ LimitedByEventsOnly' = LimitedByEventsOnly
  BY <1>4 DEF Unit, LimitedByEventsOnly
<1>a. ASSUME LimitedByEventsOnly, NEW k \in DOMAIN files
      PROVE  /\ k < Len(files) => FullInTime(files[k].events)
             /\ k = Len(files) => HasRoom(files[k].events, step)
  BY <1>a DEF CountsInv, SwitchesWhenDue, FullInTime, HasRoom, Before
<1>b. ASSUME LimitedByEventsOnly =>
               \A k \in DOMAIN files' :
                 /\ k < Len(files') => FullInTime(files'[k].events)
                 /\ k = Len(files') => HasRoom(files'[k].events, step')
      PROVE  SwitchesWhenDue'
  BY <1>4, <1>5, <1>b DEF SwitchesWhenDue, FullInTime, HasRoom, Before
<1>6. ASSUME ~ Construct, ~ NothingToDo, ~ KeepFile, ~ SwitchFiles PROVE CountsInv'
  <2>1. /\ UNCHANGED <<job, step, fp>> /\ DOMAIN files' = DOMAIN files /\ Len(files') = Len(files)
        /\ \A k \in DOMAIN files : files'[k].events = files[k].events
        /\ phase' \in {"Loop", "Switching"} => phase \in {"Loop", "Switching"}
        /\ phase' = "Construct" => phase = "Construct"
    BY <1>1, <1>6, RecordsKept
  <2>2. SwitchesWhenDue'
    BY <1>a, <1>b, <2>1
  <2> QED BY <1>2, <2>1, <2>2 DEF CountsInv, NoCounts
<1>7. CASE Construct
  <2>1. /\ files = <<>> /\ UNCHANGED <<job, step, fp>> /\ fp = NoCounts
        /\ \/ files' = OpenFile(files) /\ phase' = "Loop"
           \/ UNCHANGED files /\ phase' = "Failed"
    <3>1. phase = "Construct"
      BY <1>7 DEF Construct
    <3>2. files = <<>> /\ fp = NoCounts
      BY <1>1, <3>1 DEF HeldInv, CountsInv
    <3> QED BY <1>7, <3>2 DEF Construct
  <2>2. CASE UNCHANGED files /\ phase' = "Failed"
    <3>1. DOMAIN files' = {}
      BY <2>1, <2>2
    <3> QED BY <2>1, <2>2, <3>1 DEF CountsInv, SwitchesWhenDue
  <2>3. CASE files' = OpenFile(files) /\ phase' = "Loop"
    <3>1. DOMAIN files' = {1} /\ Len(files') = 1 /\ files'[1].events = {}
      <4>1. /\ files' \in Seq(FileType) /\ Len(files') = Len(files) + 1
            /\ files'[Len(files) + 1] = NewFile
        BY <1>2, <2>3, OpenFileType
      <4>2. Len(files) = 0
        BY <2>1
      <4> QED BY <4>1, <4>2 DEF NewFile
    <3>2. fp["Event"] = 0 /\ Cardinality({}) = 0 /\ job.max["Event"] \in Nat \ {0}
      BY <1>3, <2>1, FS_EmptySet DEF NoCounts, Granularities
    <3>3. SwitchesWhenDue'
      <4>1. HasRoom({}, step')
        BY <3>2 DEF HasRoom, Before
      <4> QED BY <1>b, <3>1, <4>1
    <3> QED BY <2>1, <2>3, <3>1, <3>2, <3>3 DEF CountsInv
  <2> QED BY <2>1, <2>2, <2>3
<1>8. CASE NothingToDo \/ KeepFile \/ SwitchFiles
  <2> DEFINE n == Len(files)
             old == files[n].events
             new == old \cup (IF Transition = "Event" THEN {step} ELSE {})
             max == job.max["Event"]
             counted == fp["Event"] + (IF Transition = "Event" THEN 1 ELSE 0)
  <2>1. /\ phase = "Loop" /\ step' = step + 1 /\ Calling /\ step <= Len(job.loop)
        /\ phase' \in {"Loop", "Switching"} /\ n \in DOMAIN files
        /\ UNCHANGED job
    BY <1>2, <1>8 DEF NothingToDo, KeepFile, SwitchFiles, AfterTransition, TransitionOver, GoOn, Calling
  <2>2. /\ old \subseteq 1..step-1 /\ new \subseteq 1..step /\ old = new \ {step}
        /\ IsFiniteSet(old) /\ Cardinality(old) \in Nat
        /\ Cardinality(new) = Cardinality(old) + (IF Transition = "Event" THEN 1 ELSE 0)
    <3>1. old \subseteq 1..step-1
      BY <2>1 DEF FillsInv
    <3>2. new \subseteq 1..step /\ old = new \ {step} /\ step \notin old /\ old \subseteq 1..step
      BY <1>2, <3>1
    <3>3. IsFiniteSet(old) /\ Cardinality(old) \in Nat
      BY <1>2, <3>2, BeforeLater
    <3> HIDE DEF old
    <3>4. Cardinality(old \cup {step}) = Cardinality(old) + 1
      BY <3>2, <3>3, FS_AddElement
    <3> QED BY <3>1, <3>2, <3>3, <3>4
  <2>3. fp["Event"] = Cardinality(old) /\ counted = Cardinality(new)
    BY <2>1, <2>2 DEF CountsInv
  <2>4. LimitedByEventsOnly => HasRoom(old, step)
    BY <1>a, <2>1
  <2>5. /\ \A k \in DOMAIN files : /\ k \in DOMAIN files'
                                   /\ files'[k].events = IF k = n THEN new ELSE files[k].events
        /\ ~ SwitchFiles => DOMAIN files' = DOMAIN files /\ Len(files') = n
        /\ SwitchFiles => /\ DOMAIN files' = 1..n + 1 /\ Len(files') = n + 1 /\ files'[n + 1].events = {}
    <3>1. CASE NothingToDo
      <4>1. Transition # "Event" /\ UNCHANGED files /\ ~ SwitchFiles
        BY <3>1 DEF NothingToDo, SwitchFiles, AfterTransition, Granularities
      <4> QED BY <4>1
    <3>2. CASE KeepFile \/ SwitchFiles
      <4>1. /\ \A k \in DOMAIN files :
                 /\ k \in DOMAIN files'
                 /\ files'[k].events = files[k].events \cup
                      (IF k = Len(files) /\ Transition = "Event" THEN {step} ELSE {})
            /\ KeepFile => DOMAIN files' = DOMAIN files
            /\ SwitchFiles => /\ DOMAIN files' = 1..Len(files) + 1 /\ files'[Len(files) + 1] = NewFile
                              /\ Len(files') = Len(files) + 1
        BY <1>1, <3>2, ContentsAfterTransition
      <4>2. ~ SwitchFiles => Len(files') = Len(files)
        BY <1>1, <2>1, NumberOfFiles DEF Construct
      <4>3. NewFile.events = {}
        BY DEF NewFile
      <4>4. KeepFile \/ SwitchFiles => (~ SwitchFiles => KeepFile)
        OBVIOUS
      <4>5. \A k \in DOMAIN files : files'[k].events = IF k = n THEN new ELSE files[k].events
        BY <4>1
      <4> QED BY <3>2, <4>1, <4>2, <4>3, <4>5
    <3> QED BY <1>8, <3>1, <3>2
  <2> HIDE DEF old, new, n, max, counted
  <2>6. /\ NothingToDo => UNCHANGED fp /\ Transition \notin Granularities
        /\ KeepFile => fp' = Counted
        /\ SwitchFiles => fp' = NoCounts /\ IsDue
        /\ KeepFile \/ SwitchFiles => Transition \in Granularities
        /\ KeepFile => ~ (job.switching /\ LimitReached /\ IsBoundary)
    BY DEF NothingToDo, KeepFile, SwitchFiles, AfterTransition
  <2>7. Transition \in Granularities =>
          /\ Counted["Event"] = counted
          /\ \A g \in Granularities : Counted[g] \in Nat /\ Counted[g] <= fp[g] + 1
    BY <1>3 DEF Counted, counted, Granularities
  <2>8. \A g \in Granularities : fp'[g] <= step' - 1
    <3>1. \A g \in Granularities : fp[g] <= step - 1 /\ fp[g] \in Nat
      BY <1>3 DEF CountsInv
    <3>2. CASE NothingToDo
      BY <1>2, <2>1, <2>6, <3>1, <3>2
    <3>3. CASE KeepFile
      BY <1>2, <2>1, <2>6, <2>7, <3>1, <3>3
    <3>4. CASE SwitchFiles
      BY <1>2, <2>1, <2>6, <3>4 DEF NoCounts
    <3> QED BY <1>8, <3>2, <3>3, <3>4
  <2>9. fp'["Event"] = Cardinality(files'[Len(files')].events)
    <3>1. CASE NothingToDo
      <4>1. ~ SwitchFiles /\ Transition # "Event" /\ fp' = fp
        BY <2>6, <3>1 DEF Granularities
      <4>2. new = old
        BY <4>1 DEF new
      <4> QED BY <2>1, <2>3, <2>5, <4>1, <4>2
    <3>2. CASE KeepFile
      <4>1. ~ SwitchFiles
        BY <2>1, <3>2 DEF KeepFile, SwitchFiles
      <4>2. fp'["Event"] = counted
        BY <2>6, <2>7, <3>2
      <4> QED BY <2>1, <2>3, <2>5, <4>1, <4>2
    <3>3. CASE SwitchFiles
      BY <2>5, <2>6, <3>3, FS_EmptySet DEF NoCounts, Granularities
    <3> QED BY <1>8, <3>1, <3>2, <3>3
  <2>10. SwitchesWhenDue'
    <3> SUFFICES ASSUME LimitedByEventsOnly, NEW k \in DOMAIN files'
                 PROVE  /\ k < Len(files') => FullInTime(files'[k].events)
                        /\ k = Len(files') => HasRoom(files'[k].events, step + 1)
      BY <1>b, <2>1
    <3>1. max \in Nat \ {0}
      BY <1>3 DEF max, Granularities
    <3>2. LimitReached /\ Transition \in Granularities => counted >= max
      <4> SUFFICES ASSUME Transition \in Granularities,
                          NEW g \in Granularities, Counted[g] >= job.max[g]
                   PROVE  counted >= max
        BY DEF LimitReached
      <4>1. Counted[g] <= Len(job.loop)
        <5>1. fp[g] <= step - 1 /\ fp[g] \in Nat
          BY <1>3 DEF CountsInv
        <5>2. Counted[g] <= fp[g] + 1 /\ Counted[g] \in Nat
          BY <2>7
        <5> QED BY <1>2, <1>3, <2>1, <5>1, <5>2
      <4>2. g = "Event"
        <5>1. g # "Event" => job.max[g] > Len(job.loop)
          BY DEF LimitedByEventsOnly
        <5> QED BY <1>3, <2>7, <4>1, <5>1
      <4> QED BY <2>7, <4>2 DEF max
    <3>3. LimitReached \/ ~ (Transition \in Granularities /\ counted >= max)
      BY <2>7 DEF LimitReached, max, Granularities
    <3>4. ASSUME NEW e \in 1..step PROVE HasRoom(new, e)
      <4>1. Cardinality(Before(new, e)) <= Cardinality(Before(old, step)) /\ Cardinality(Before(new, e)) \in Nat
        <5>1. new \in SUBSET (1..step) /\ e \in 1..step+1
          BY <1>2, <2>2, <3>4
        <5>2. /\ Cardinality(Before(new, e)) <= Cardinality(Before(new \ {step}, step))
              /\ Cardinality(Before(new, e)) \in Nat
          BY <1>2, <3>4, <5>1, BeforeLater
        <5> QED BY <2>2, <5>2
      <4>2. Cardinality(Before(old, step)) \in Nat
        <5>1. old \subseteq 1..step /\ step \in 1..step+1
          BY <1>2, <2>2
        <5> QED BY <1>2, <5>1, BeforeLater
      <4> QED BY <2>4, <3>1, <4>1, <4>2 DEF HasRoom, max
    <3>5. CASE ~ SwitchFiles
      <4>1. DOMAIN files' = DOMAIN files /\ Len(files') = n /\ n = Len(files)
        BY <2>5, <3>5 DEF n
      <4>2. CASE k < n
        <5>1. k \in DOMAIN files /\ k # n /\ n \in Nat
          BY <1>2, <4>1, <4>2
        <5>2. files'[k].events = files[k].events
          BY <2>5, <5>1
        <5> QED BY <1>2, <1>a, <4>1, <4>2, <5>1, <5>2
      <4>3. HasRoom(new, step + 1)
        <5>1. Unit(step + 1) = Unit(step) + (IF EndsUnit(step) THEN 1 ELSE 0) /\ Unit(step) \in Nat
          BY <1>2, Units
        <5>2. CASE EndsUnit(step)
          <6>1. Transition \in Granularities /\ IsBoundary
            BY <5>2, <1>3 DEF EndsUnit, Transition, IsBoundary, Rank, Granularities
          <6>2. ~ LimitReached
            BY <1>8, <2>6, <3>5, <6>1 DEF LimitedByEventsOnly
          <6>3. Cardinality(new) < max
            BY <2>2, <2>3, <3>1, <3>3, <6>1, <6>2
          <6>4. /\ Cardinality(Before(new, step + 1)) <= Cardinality(new)
                /\ Cardinality(Before(new, step + 1)) \in Nat /\ Cardinality(new) \in Nat
            <7>1. step + 1 \in 1..step+1 /\ new \in SUBSET (1..step)
              BY <1>2, <2>2
            <7> QED BY <1>2, <7>1, BeforeLater
          <6> QED BY <3>1, <6>3, <6>4 DEF HasRoom, max
        <5>3. CASE ~ EndsUnit(step)
          <6>1. Before(new, step + 1) = Before(new, step)
            BY <5>1, <5>3 DEF Before
          <6>2. HasRoom(new, step)
            BY <1>2, <3>4
          <6> QED BY <6>1, <6>2 DEF HasRoom
        <5> QED BY <5>2, <5>3
      <4> QED BY <1>2, <2>1, <2>5, <4>1, <4>2, <4>3
    <3>6. CASE SwitchFiles
      <4>1. DOMAIN files' = 1..n + 1 /\ Len(files') = n + 1 /\ files'[n + 1].events = {} /\ n = Len(files)
        BY <2>5, <3>6 DEF n
      <4>2. CASE k < n
        <5>1. k \in DOMAIN files /\ files'[k].events = files[k].events
          <6>1. Len(files) \in Nat /\ k \in 1..n+1
            BY <1>2, <4>1
          <6>2. k \in DOMAIN files
            BY <1>2, <4>1, <4>2, <6>1
          <6> QED BY <2>5, <4>2, <6>2
        <5> QED BY <1>a, <4>1, <4>2, <5>1
      <4>3. CASE k = n
        <5>1. files'[k].events = new
          BY <2>1, <2>5, <4>3
        <5>2. Cardinality(new) >= max
          BY <2>3, <2>6, <3>2, <3>6 DEF IsDue, LimitedByEventsOnly
        <5>3. \A e \in new : e \in 1..step
          BY <2>2
        <5>4. FullInTime(new)
          BY <3>4, <5>2, <5>3 DEF FullInTime, max
        <5>5. n \in Nat
          BY <1>2, <4>1
        <5> QED BY <4>1, <4>3, <5>1, <5>4, <5>5
      <4>4. CASE k = n + 1
        <5>1. HasRoom({}, step + 1)
          <6>1. Before({}, step + 1) = {}
            BY DEF Before
          <6> QED BY <3>1, <6>1, FS_EmptySet DEF HasRoom, max
        <5>2. ~ (k < Len(files'))
          BY <1>2, <4>1, <4>4
        <5>3. files'[k].events = {}
          BY <4>1, <4>4
        <5> QED BY <5>1, <5>2, <5>3
      <4> QED BY <1>2, <4>1, <4>2, <4>3, <4>4
    <3> QED BY <3>5, <3>6
  <2> QED BY <2>1, <2>8, <2>9, <2>10 DEF CountsInv
<1> QED BY <1>6, <1>7, <1>8

(* A file that is closed for its events has as many as it may have, and    *)
(* was not full when its last unit began: a switch comes at the first      *)
(* boundary after the limit, and units are never divided.                  *)
THEOREM DueSwitches == Spec => []SwitchesWhenDue
<1>1. Init => ServiceInv /\ FillsInv /\ CountsInv
  BY ServiceInit, FillsInit, SwitchesInit
<1>2. ServiceInv /\ FillsInv /\ CountsInv /\ [Next]_vars => (ServiceInv /\ FillsInv /\ CountsInv)'
  BY ServiceStep, FillsStep, SwitchesStep
<1>3. ServiceInv /\ FillsInv /\ CountsInv => SwitchesWhenDue
  BY DEF CountsInv
<1> QED BY <1>1, <1>2, <1>3, PTL DEF Spec
=============================================================================
