---------------------------- MODULE LifecycleProofs ----------------------------
(***************************************************************************)
(* Theorems about Lifecycle: what a user or the team wrote is replaced by   *)
(* nobody without leave, and what is half-written is behind the lock, for   *)
(* any number of processes, files, versions and commands.  The first        *)
(* lemmas say, of every step, which runs it moves (StepOfOne), that a run   *)
(* stays where its command belongs (OwnPlace), what it does to the files    *)
(* (Effects) and from where it comes to a step that matters (Arrivals).     *)
(***************************************************************************)
EXTENDS Lifecycle, TLAPS

\* The fields of a run, and that every run has them.
RunFields == {"pc", "cmd", "seen", "todo", "stale", "drift", "cur", "open", "entries", "code"}

Shape ==
  /\ DOMAIN run = Procs
  /\ \A p \in Procs : DOMAIN run[p] = RunFields

ProcessStep(p) ==
  \/ \E c \in Commands : Begin(p, c)
  \/ InitSteps(p) \/ UpdateSteps(p) \/ CopySteps(p) \/ MigrateSteps(p)
  \/ DoctorSteps(p) \/ LockSteps(p) \/ ManifestSteps(p) \/ Kill(p)

\* No run but p's changes, except that p may delete the file another has open.
Undisturbed(p) ==
  \A q \in Procs \ {p} :
    \/ run'[q] = run[q]
    \/ /\ run[p].pc \in {"erasing", "copying"} /\ run[q].open
       /\ run'[q] = [run[q] EXCEPT !.open = FALSE]

\* ... and that is what every step does.
LEMMA StepOfOne ==
  ASSUME NEW p \in Procs, Shape, ProcessStep(p)
  PROVE  Shape' /\ Undisturbed(p)
<1> USE DEF Shape, RunFields, Undisturbed
<1>1. ASSUME NEW code, Ends(p, code)
      PROVE  Shape' /\ Undisturbed(p)
  BY <1>1 DEF Ends, Idle
<1>2. ASSUME NEW pc, Goto(p, pc)
      PROVE  Shape' /\ Undisturbed(p)
  BY <1>2 DEF Goto
<1>3. ASSUME NEW c, Begin(p, c)
      PROVE  Shape' /\ Undisturbed(p)
  BY <1>3 DEF Begin, Idle
<1>4. CASE InitSteps(p)
  <2>1. CASE InitProbe(p) \/ EraseGate(p) \/ InitPreview(p)
    BY <1>1, <1>2, <2>1 DEF InitProbe, EraseGate, InitPreview
  <2>2. CASE ListTargets(p) \/ EraseRefused(p) \/ EraseDone(p)
    BY <2>2 DEF ListTargets, EraseRefused, EraseDone
  <2>3. CASE EraseTarget(p)
    BY <2>3 DEF EraseTarget, Detached, At
  <2>4. CASE CheckDocs(p) \/ PlaceDocs(p)
    BY <1>2, <2>4 DEF CheckDocs, PlaceDocs
  <2> QED
    BY <1>4, <2>1, <2>2, <2>3, <2>4 DEF InitSteps
<1>5. CASE UpdateSteps(p)
  BY <1>1, <1>2, <1>5 DEF UpdateSteps, UpdateRead, CompareFile, UpdateDecide, Rebuild
<1>6. CASE CopySteps(p)
  <2>1. CASE CopyUnlink(p)
    BY <2>1 DEF CopyUnlink, Detached, At
  <2>2. CASE CopyCreate(p) \/ CopyFill(p) \/ CopyDone(p)
    BY <1>2, <2>2 DEF CopyCreate, CopyFill, CopyDone
  <2>3. CASE HashCopied(p)
    BY <2>3 DEF HashCopied
  <2> QED
    BY <1>6, <2>1, <2>2, <2>3 DEF CopySteps
<1>7. CASE MigrateSteps(p)
  <2>1. CASE MigrateRead(p)
    BY <1>1, <2>1 DEF MigrateRead, MigratePlan
  <2>2. CASE SkipStep(p) \/ StepFails(p) \/ StepsDone(p)
    BY <2>2 DEF SkipStep, StepFails, StepsDone
  <2>3. CASE ApplyStep(p)
    BY <2>3 DEF ApplyStep
  <2> QED
    BY <1>7, <2>1, <2>2, <2>3 DEF MigrateSteps
<1>8. CASE DoctorSteps(p)
  BY <1>1, <1>2, <1>8 DEF DoctorSteps, DoctorRules, PresenceCheck, IntegrityRead, IntegrityFile,
                          DoctorExit, VersionShow
<1>9. CASE LockSteps(p)
  BY <1>1, <1>9 DEF LockSteps, AcquireLock, LockHeld, Release, Idle
<1>10. CASE ManifestSteps(p)
  BY <1>10 DEF ManifestSteps, TruncateManifest, WriteManifest, WriteFails
<1>11. CASE Kill(p)
  BY <1>11 DEF Kill, Idle
<1> QED
  BY <1>3, <1>4, <1>5, <1>6, <1>7, <1>8, <1>9, <1>10, <1>11 DEF ProcessStep

-------------------------------------------------------------------------------
(* Where a run is *)

Copying == {"copying", "creating", "filling", "hashing"}

\* What a run is at belongs to its command, and what it copies to its bundle.
InPlace(p) ==
  /\ run[p].cmd \in Commands \cup {NoCommand}
  /\ At(p, "idle") <=> run[p].cmd = NoCommand
  /\ run[p].open => run[p].pc \in {"filling", "writing"}
  /\ run[p].pc \in {"init", "gate", "preview", "listing", "erasing", "hashing", "placeholders",
                    "placing"} => Is(p, "init")
  /\ run[p].pc \in {"listing", "erasing"} => run[p].cmd.erase
  /\ run[p].pc \in {"update", "comparing", "rebuilding"} => Is(p, "update")
  /\ run[p].pc \in {"migrate", "running"} => Is(p, "migrate")
  /\ run[p].pc \in {"doctor", "presence", "integrity", "verifying"} => Is(p, "doctor")
  /\ At(p, "version") => Is(p, "version")
  /\ run[p].pc \in {"locking", "manifest", "writing", "releasing"} =>
       run[p].cmd.kind \in {"init", "update", "migrate"}
  /\ run[p].pc \in Copying => run[p].cmd.kind \in {"init", "update"}
  /\ At(p, "update") => run[p].stale = {} /\ run[p].drift = {}
  /\ Is(p, "update") => run[p].stale \cup run[p].drift \subseteq Paths(p)
  /\ run[p].pc \in Copying \cup {"comparing"} => run[p].todo \subseteq Paths(p)
  /\ run[p].pc \in {"creating", "filling"} => run[p].cur \in run[p].todo
  /\ At(p, "writing") => run[p].cur = "manifest"

Places == Shape /\ \A p \in Procs : InPlace(p)

\* A run that at most loses the file it has open is where it was.
LEMMA StaysInPlace ==
  ASSUME NEW p \in Procs, Shape, InPlace(p),
         run'[p] = run[p] \/ run'[p] = [run[p] EXCEPT !.open = FALSE]
  PROVE  InPlace(p)'
<1>1. CASE run'[p] = run[p]
  BY <1>1 DEF InPlace, At, Is, Paths, Bundled
<1>2. CASE run'[p] = [run[p] EXCEPT !.open = FALSE]
  <2>1. /\ run'[p].cmd = run[p].cmd /\ run'[p].pc = run[p].pc /\ run'[p].todo = run[p].todo
        /\ run'[p].stale = run[p].stale /\ run'[p].drift = run[p].drift
        /\ run'[p].cur = run[p].cur /\ run'[p].open = FALSE
    BY <1>2 DEF Shape, RunFields
  <2> QED
    BY <2>1 DEF InPlace, At, Is, Paths, Bundled
<1> QED
  BY <1>1, <1>2

\* A run that has ended is at nothing.
LEMMA IdleInPlace ==
  ASSUME NEW p \in Procs, NEW code, run'[p] = Idle(code)
  PROVE  InPlace(p)'
BY DEF InPlace, Idle, NoCommand, At, Is, Copying

\* p has gone on with all it has.
Same(p) ==
  /\ run'[p].cmd = run[p].cmd /\ run'[p].open = run[p].open /\ run'[p].cur = run[p].cur
  /\ run'[p].todo = run[p].todo /\ run'[p].stale = run[p].stale /\ run'[p].drift = run[p].drift

\* Every step of a run leaves it in place.
LEMMA OwnPlace ==
  ASSUME NEW p \in Procs, Shape, InPlace(p), ProcessStep(p)
  PROVE  InPlace(p)'
<1> USE DEF Shape, RunFields
<1>1. ASSUME NEW code, Ends(p, code)
      PROVE  InPlace(p)'
  BY <1>1, IdleInPlace DEF Ends
<1>2. ASSUME NEW pc, Goto(p, pc)
      PROVE  run'[p].pc = pc /\ Same(p)
  BY <1>2 DEF Goto, Same
<1> USE DEF Same
<1>3. ASSUME NEW c \in Commands, Begin(p, c)
      PROVE  InPlace(p)'
  <2>1. /\ run'[p].pc = c.kind /\ run'[p].cmd = c /\ run'[p].stale = {} /\ run'[p].drift = {}
        /\ run'[p].open = FALSE /\ run'[p].todo = {}
    BY <1>3 DEF Begin, Idle
  <2>2. c.kind \in {"init", "update", "migrate", "doctor", "version"}
    BY CommandsAssumption DEF Command
  <2> QED
    BY <2>1, <2>2 DEF InPlace, At, Is, Copying, NoCommand
<1>4. CASE InitSteps(p)
  <2>1. CASE InitProbe(p) \/ EraseGate(p) \/ InitPreview(p)
    <3>1. CASE \E pc \in {"gate", "preview", "locking"} : Goto(p, pc)
      <4>1. At(p, "init") \/ At(p, "gate") \/ At(p, "preview")
        BY <2>1 DEF InitProbe, EraseGate, InitPreview
      <4> QED
        BY <1>2, <3>1, <4>1 DEF InPlace, At, Is, Copying, Paths, Bundled
    <3> QED
      BY <1>1, <2>1, <3>1 DEF InitProbe, EraseGate, InitPreview
  <2>2. CASE ListTargets(p) \/ EraseRefused(p)
    BY <2>2 DEF ListTargets, EraseRefused, InPlace, At, Is, Copying, Paths, Bundled
  <2>3. CASE EraseDone(p)
    BY <2>3 DEF EraseDone, InPlace, At, Is, Copying, Paths, Bundled
  <2>4. CASE EraseTarget(p)
    BY <2>4 DEF EraseTarget, Detached, InPlace, At, Is, Copying, Paths, Bundled
  <2>5. CASE CheckDocs(p) \/ PlaceDocs(p)
    <3>1. \E pc \in {"placing", "manifest"} : run'[p].pc = pc /\ Same(p)
      BY <1>2, <2>5 DEF CheckDocs, PlaceDocs
    <3>2. At(p, "placeholders") \/ At(p, "placing")
      BY <2>5 DEF CheckDocs, PlaceDocs
    <3> QED
      BY <3>1, <3>2 DEF InPlace, At, Is, Copying, Paths, Bundled
  <2> QED
    BY <1>4, <2>1, <2>2, <2>3, <2>4, <2>5 DEF InitSteps
<1>5. CASE UpdateSteps(p)
  <2>1. CASE UpdateRead(p)
    BY <1>1, <2>1 DEF UpdateRead, InPlace, At, Is, Copying, Paths, Bundled
  <2>2. CASE CompareFile(p)
    <3>1. PICK f \in run[p].todo :
            /\ run'[p].todo = run[p].todo \ {f}
            /\ run'[p].drift \in {run[p].drift, run[p].drift \cup {f}}
            /\ run'[p].stale \in {run[p].stale, run[p].stale \cup {f}}
      BY <2>2 DEF CompareFile
    <3>2. /\ At(p, "comparing")
          /\ run'[p].pc = run[p].pc /\ run'[p].cmd = run[p].cmd /\ run'[p].open = run[p].open
      BY <2>2 DEF CompareFile, At
    <3> QED
      BY <3>1, <3>2 DEF InPlace, At, Is, Copying, Paths, Bundled
  <2>3. CASE UpdateDecide(p)
    <3>1. CASE Goto(p, "locking")
      BY <1>2, <2>3, <3>1 DEF UpdateDecide, InPlace, At, Is, Copying, Paths, Bundled
    <3> QED
      BY <1>1, <2>3, <3>1 DEF UpdateDecide
  <2>4. CASE Rebuild(p)
    BY <2>4 DEF Rebuild, InPlace, At, Is, Copying, Paths, Bundled
  <2> QED
    BY <1>5, <2>1, <2>2, <2>3, <2>4 DEF UpdateSteps
<1>6. CASE CopySteps(p)
  <2>1. CASE CopyUnlink(p)
    <3>1. PICK f \in run[p].todo : run' = [Detached(run, f) EXCEPT ![p].pc = "creating", ![p].cur = f]
      BY <2>1 DEF CopyUnlink
    <3>2. /\ run'[p].pc = "creating" /\ run'[p].cur = f /\ run'[p].todo = run[p].todo
          /\ run'[p].cmd = run[p].cmd /\ run'[p].stale = run[p].stale
          /\ run'[p].drift = run[p].drift
          /\ run'[p].open = run[p].open \/ run'[p].open = FALSE
      BY <3>1 DEF Detached
    <3>3. At(p, "copying")
      BY <2>1 DEF CopyUnlink
    <3> QED
      BY <3>1, <3>2, <3>3 DEF InPlace, At, Is, Copying, Paths, Bundled
  <2>2. CASE CopyCreate(p)
    BY <2>2 DEF CopyCreate, InPlace, At, Is, Copying, Paths, Bundled
  <2>3. CASE CopyFill(p)
    BY <2>3, SMTT(60) DEF CopyFill, InPlace, At, Is, Copying, Paths, Bundled
  <2>4. CASE HashCopied(p)
    BY <2>4 DEF HashCopied, InPlace, At, Is, Copying, Paths, Bundled
  <2>5. CASE CopyDone(p)
    <3>1. run'[p].pc = (IF Is(p, "init") THEN "placeholders" ELSE "rebuilding") /\ Same(p)
      BY <1>2, <2>5 DEF CopyDone
    <3>2. At(p, "copying")
      BY <2>5 DEF CopyDone
    <3> QED
      BY <3>1, <3>2 DEF InPlace, At, Is, Copying, Paths, Bundled
  <2> QED
    BY <1>6, <2>1, <2>2, <2>3, <2>4, <2>5 DEF CopySteps
<1>7. CASE MigrateSteps(p)
  <2>1. CASE MigrateRead(p)
    <3>1. CASE \E code : Ends(p, code)
      BY <1>1, <3>1
    <3>2. CASE \E steps : run' = [run EXCEPT ![p].pc = "locking", ![p].seen = manifest, ![p].todo = steps]
      <4>1. /\ run'[p].pc = "locking" /\ run'[p].cmd = run[p].cmd /\ run'[p].stale = run[p].stale
            /\ run'[p].drift = run[p].drift /\ run'[p].open = run[p].open
        BY <3>2
      <4>2. At(p, "migrate")
        BY <2>1 DEF MigrateRead
      <4> QED
        BY <4>1, <4>2 DEF InPlace, At, Is, Copying, Paths, Bundled
    <3> QED
      BY <2>1, <3>1, <3>2 DEF MigrateRead, MigratePlan
  <2>2. CASE SkipStep(p) \/ StepFails(p) \/ StepsDone(p)
    BY <2>2 DEF SkipStep, StepFails, StepsDone, InPlace, At, Is, Copying, Paths, Bundled
  <2>3. CASE ApplyStep(p)
    BY <2>3 DEF ApplyStep, InPlace, At, Is, Copying, Paths, Bundled
  <2> QED
    BY <1>7, <2>1, <2>2, <2>3 DEF MigrateSteps
<1>8. CASE DoctorSteps(p)
  <2>1. CASE DoctorRules(p)
    <3>1. CASE \E bundled : \E pc \in {"presence", "integrity"} :
                 run' = [run EXCEPT ![p].pc = pc, ![p].todo = bundled]
      <4>1. /\ run'[p].pc \in {"presence", "integrity"}
            /\ run'[p].cmd = run[p].cmd /\ run'[p].open = run[p].open
        BY <3>1
      <4>2. At(p, "doctor")
        BY <2>1 DEF DoctorRules
      <4> QED
        BY <4>1, <4>2 DEF InPlace, At, Is, Copying
    <3> QED
      BY <1>1, <2>1, <3>1 DEF DoctorRules
  <2>2. CASE PresenceCheck(p) \/ IntegrityFile(p)
    <3>1. run[p].pc \in {"presence", "verifying"} /\ Is(p, "doctor")
      BY <2>2 DEF PresenceCheck, IntegrityFile, At, InPlace
    <3>2. /\ run'[p].cmd = run[p].cmd /\ run'[p].open = run[p].open
          /\ run'[p].pc \in {"integrity", "verifying"}
      <4>1. CASE PresenceCheck(p)
        BY <4>1 DEF PresenceCheck
      <4>2. CASE IntegrityFile(p)
        BY <3>1, <4>2 DEF IntegrityFile, At
      <4> QED
        BY <2>2, <4>1, <4>2
    <3>3. Is(p, "doctor")'
      BY <3>1, <3>2 DEF Is
    <3> QED
      BY <3>1, <3>2, <3>3 DEF InPlace, At, Is, Copying, NoCommand
  <2>3. CASE IntegrityRead(p)
    <3>1. CASE Goto(p, "verifying")
      BY <1>2, <2>3, <3>1 DEF IntegrityRead, InPlace, At, Is, Copying
    <3> QED
      BY <1>1, <2>3, <3>1 DEF IntegrityRead
  <2>4. CASE DoctorExit(p) \/ VersionShow(p)
    BY <1>1, <2>4 DEF DoctorExit, VersionShow
  <2> QED
    BY <1>8, <2>1, <2>2, <2>3, <2>4 DEF DoctorSteps
<1>9. CASE LockSteps(p)
  <2>1. CASE AcquireLock(p)
    BY <2>1, ZenonT(60) DEF AcquireLock, InPlace, At, Is, Copying, Paths, Bundled
  <2>2. CASE LockHeld(p)
    BY <1>1, <2>2 DEF LockHeld
  <2>3. CASE Release(p)
    BY <2>3, IdleInPlace DEF Release
  <2> QED
    BY <1>9, <2>1, <2>2, <2>3 DEF LockSteps
<1>10. CASE ManifestSteps(p)
  <2>1. CASE TruncateManifest(p)
    BY <2>1 DEF TruncateManifest, InPlace, At, Is, Copying, Paths, Bundled
  <2>2. CASE WriteManifest(p)
    BY <2>2 DEF WriteManifest, InPlace, At, Is, Copying, Paths, Bundled
  <2>3. CASE WriteFails(p)
    BY <2>3 DEF WriteFails, InPlace, At, Is, Copying, Paths, Bundled
  <2> QED
    BY <1>10, <2>1, <2>2, <2>3 DEF ManifestSteps
<1>11. CASE Kill(p)
  BY <1>11, IdleInPlace DEF Kill
<1> QED
  BY <1>3, <1>4, <1>5, <1>6, <1>7, <1>8, <1>9, <1>10, <1>11 DEF ProcessStep
-------------------------------------------------------------------------------
(* What a step does to the files *)

\* The ways a step of p may change the framework file f.
Changes(p, f) ==
  \/ disk'[f] = disk[f]
  \/ EraseTarget(p) /\ disk'[f] = Missing
  \/ CopyUnlink(p) /\ f \in run[p].todo /\ disk'[f] = Missing
  \/ CopyCreate(p) /\ f = run[p].cur /\ disk[f] = Missing /\ disk'[f] = Partial
  \/ At(p, "filling") /\ f = run[p].cur /\ disk'[f] = Bundled(p)[f]

\* Which steps change the framework files, the documents, the manifest's bytes and
\* the lock; none of them counts as an edit.
LEMMA Effects ==
  ASSUME NEW p \in Procs, DOMAIN disk = Files, ProcessStep(p)
  PROVE  /\ DOMAIN disk' = Files
         /\ \A f \in Files : Changes(p, f)
         /\ edits' = edits
         /\ \/ docs' = docs
            \/ At(p, "erasing") /\ docs' \in {docs, "none"}
            \/ At(p, "placing") /\ docs' = "placeholder"
         /\ torn' = torn \/ run[p].pc \in {"erasing", "writing"} \/ TruncateManifest(p)
         /\ lock' = lock \/ run[p].pc \in {"erasing", "releasing"} \/ lock = NoProc
<1>1. CASE \E c \in Commands : Begin(p, c)
  BY <1>1 DEF Begin, shared, Changes
<1>2. CASE InitSteps(p)
  <2>1. CASE InitProbe(p) \/ EraseGate(p) \/ InitPreview(p)
    BY <2>1 DEF InitProbe, EraseGate, InitPreview, Ends, Goto, Local, shared, Changes
  <2>2. CASE ListTargets(p) \/ EraseRefused(p) \/ EraseDone(p) \/ CheckDocs(p)
    BY <2>2 DEF ListTargets, EraseRefused, EraseDone, CheckDocs, Local, shared, Changes
  <2>3. CASE EraseTarget(p)
    BY <2>3 DEF EraseTarget, Changes, At
  <2>4. CASE PlaceDocs(p)
    BY <2>4 DEF PlaceDocs, Changes
  <2> QED
    BY <1>2, <2>1, <2>2, <2>3, <2>4 DEF InitSteps
<1>3. CASE UpdateSteps(p)
  BY <1>3 DEF UpdateSteps, UpdateRead, CompareFile, UpdateDecide, Rebuild, Ends, Goto, Local,
              shared, Changes
<1>4. CASE CopySteps(p)
  <2>1. CASE CopyUnlink(p)
    BY <2>1 DEF CopyUnlink, Changes
  <2>2. CASE CopyCreate(p)
    BY <2>2 DEF CopyCreate, Changes
  <2>3. CASE CopyFill(p)
    BY <2>3 DEF CopyFill, Changes
  <2>4. CASE HashCopied(p) \/ CopyDone(p)
    BY <2>4 DEF HashCopied, CopyDone, Goto, Local, shared, Changes
  <2> QED
    BY <1>4, <2>1, <2>2, <2>3, <2>4 DEF CopySteps
<1>5. CASE MigrateSteps(p)
  BY <1>5 DEF MigrateSteps, MigrateRead, MigratePlan, SkipStep, ApplyStep, StepFails, StepsDone,
              Ends, Local, shared, Changes
<1>6. CASE DoctorSteps(p)
  BY <1>6 DEF DoctorSteps, DoctorRules, PresenceCheck, IntegrityRead, IntegrityFile, DoctorExit,
              VersionShow, Ends, Goto, Local, shared, Changes
<1>7. CASE LockSteps(p)
  BY <1>7 DEF LockSteps, AcquireLock, LockHeld, Release, Ends, shared, Changes, At
<1>8. CASE ManifestSteps(p)
  BY <1>8 DEF ManifestSteps, TruncateManifest, WriteManifest, WriteFails, Changes, At
<1>9. CASE Kill(p)
  BY <1>9 DEF Kill, Changes
<1> QED
  BY <1>1, <1>2, <1>3, <1>4, <1>5, <1>6, <1>7, <1>8, <1>9 DEF ProcessStep

\* Past the lock, but for the erase, which may delete it.
Holding == Copying \cup {"placeholders", "placing", "rebuilding", "running", "manifest",
                         "writing", "releasing"}

\* How a run comes to a step that changes something.
Arrives(p) ==
  /\ At(p, "placing")' => CheckDocs(p)
  /\ At(p, "creating")' => CopyUnlink(p)
  /\ At(p, "filling")' => CopyCreate(p)
  /\ At(p, "writing")' => TruncateManifest(p)
  /\ At(p, "listing")' => run[p].cmd.erase /\ AcquireLock(p)
  /\ At(p, "erasing")' => run[p].pc \in {"listing", "erasing"}
  /\ run'[p].pc \in Holding => \/ run[p].pc \in (Holding \ {"releasing"}) \cup {"erasing"}
                              \/ AcquireLock(p)

\* ... and no other way.
LEMMA Arrivals ==
  ASSUME NEW p \in Procs, Shape, ProcessStep(p)
  PROVE  Arrives(p)
<1> USE DEF Shape, RunFields, At, Arrives, Holding, Copying
<1>1. ASSUME NEW code, Ends(p, code)
      PROVE  Arrives(p)
  BY <1>1 DEF Ends, Idle
<1>2. ASSUME NEW pc, Goto(p, pc), 
             pc \notin {"placing", "creating", "filling", "writing", "listing", "erasing"},
             pc \in Holding => run[p].pc \in Holding \ {"releasing"}
      PROVE  Arrives(p)
  BY <1>2 DEF Goto
<1>3. ASSUME NEW c \in Commands, Begin(p, c)
      PROVE  Arrives(p)
  BY <1>3, CommandsAssumption DEF Begin, Idle, Command
<1>4. CASE InitSteps(p)
  <2>1. CASE InitProbe(p) \/ EraseGate(p) \/ InitPreview(p)
    BY <1>1, <1>2, <2>1 DEF InitProbe, EraseGate, InitPreview
  <2>2. CASE ListTargets(p) \/ EraseRefused(p) \/ EraseDone(p)
    BY <2>2 DEF ListTargets, EraseRefused, EraseDone
  <2>3. CASE EraseTarget(p)
    BY <2>3 DEF EraseTarget, Detached
  <2>4. CASE CheckDocs(p) \/ PlaceDocs(p)
    BY <2>4 DEF CheckDocs, PlaceDocs, Goto
  <2> QED
    BY <1>4, <2>1, <2>2, <2>3, <2>4 DEF InitSteps
<1>5. CASE UpdateSteps(p)
  <2>1. CASE UpdateRead(p)
    BY <1>1, <2>1 DEF UpdateRead
  <2>2. CASE CompareFile(p) \/ Rebuild(p)
    <3>1. CASE CompareFile(p)
      <4>1. run[p].pc = "comparing" /\ run'[p].pc = run[p].pc
        BY <3>1 DEF CompareFile
      <4> QED
        BY <4>1
    <3>2. CASE Rebuild(p)
      BY <3>2 DEF Rebuild
    <3> QED
      BY <2>2, <3>1, <3>2
  <2>3. CASE UpdateDecide(p)
    BY <1>1, <1>2, <2>3 DEF UpdateDecide
  <2> QED
    BY <1>5, <2>1, <2>2, <2>3 DEF UpdateSteps
<1>6. CASE CopySteps(p)
  <2>1. CASE CopyUnlink(p)
    <3>1. run[p].pc = "copying" /\ run'[p].pc = "creating"
      BY <2>1 DEF CopyUnlink, Detached
    <3> QED
      BY <2>1, <3>1
  <2>2. CASE CopyCreate(p) \/ CopyFill(p) \/ CopyDone(p)
    BY <1>2, <2>2 DEF CopyCreate, CopyFill, CopyDone
  <2>3. CASE HashCopied(p)
    BY <2>3 DEF HashCopied
  <2> QED
    BY <1>6, <2>1, <2>2, <2>3 DEF CopySteps
<1>7. CASE MigrateSteps(p)
  <2>1. CASE MigrateRead(p)
    <3>1. CASE \E steps : run' = [run EXCEPT ![p].pc = "locking", ![p].seen = manifest,
                                             ![p].todo = steps]
      BY <3>1
    <3> QED
      BY <1>1, <2>1, <3>1 DEF MigrateRead, MigratePlan
  <2>2. CASE SkipStep(p) \/ StepFails(p) \/ StepsDone(p)
    BY <2>2 DEF SkipStep, StepFails, StepsDone
  <2>3. CASE ApplyStep(p)
    BY <2>3 DEF ApplyStep
  <2> QED
    BY <1>7, <2>1, <2>2, <2>3 DEF MigrateSteps
<1>8. CASE DoctorSteps(p)
  <2>1. CASE DoctorRules(p) \/ DoctorExit(p) \/ VersionShow(p)
    BY <1>1, <1>2, <2>1 DEF DoctorRules, DoctorExit, VersionShow
  <2>2. CASE PresenceCheck(p) \/ IntegrityFile(p)
    <3>1. CASE PresenceCheck(p)
      BY <3>1 DEF PresenceCheck
    <3>2. CASE IntegrityFile(p)
      <4>1. run[p].pc = "verifying" /\ run'[p].pc = run[p].pc
        BY <3>2 DEF IntegrityFile
      <4> QED
        BY <4>1
    <3> QED
      BY <2>2, <3>1, <3>2
  <2>3. CASE IntegrityRead(p)
    BY <1>1, <1>2, <2>3 DEF IntegrityRead
  <2> QED
    BY <1>8, <2>1, <2>2, <2>3 DEF DoctorSteps
<1>9. CASE LockSteps(p)
  <2>1. CASE AcquireLock(p)
    BY <2>1 DEF AcquireLock
  <2> QED
    BY <1>1, <1>9, <2>1 DEF LockSteps, LockHeld, Release, Idle
<1>10. CASE ManifestSteps(p)
  <2>1. CASE TruncateManifest(p)
    BY <2>1 DEF TruncateManifest
  <2>2. CASE WriteManifest(p) \/ WriteFails(p)
    <3>1. /\ run[p].pc \in {"copying", "creating", "filling", "hashing", "placing",
                           "manifest", "writing"}
          /\ run'[p].pc = "releasing"
      BY <2>2, ZenonT(60) DEF WriteManifest, WriteFails
    <3> QED
      BY <3>1
  <2> QED
    BY <1>10, <2>1, <2>2 DEF ManifestSteps
<1>11. CASE Kill(p)
  BY <1>11 DEF Kill, Idle
<1> QED
  BY <1>3, <1>4, <1>5, <1>6, <1>7, <1>8, <1>9, <1>10, <1>11 DEF ProcessStep
\* What is half-written is finished, or its writer fails.
LEMMA Departs ==
  ASSUME NEW p \in Procs, run[p].pc \in {"filling", "writing"}, ProcessStep(p)
  PROVE  CopyFill(p) \/ WriteManifest(p) \/ WriteFails(p) \/ Kill(p)
<1> USE DEF At
<1>1. ~\E c \in Commands : Begin(p, c)
  BY DEF Begin
<1>2. ~InitSteps(p)
  BY DEF InitSteps, InitProbe, EraseGate, InitPreview, ListTargets, EraseTarget, EraseRefused,
         EraseDone, CheckDocs, PlaceDocs
<1>3. ~UpdateSteps(p)
  BY DEF UpdateSteps, UpdateRead, CompareFile, UpdateDecide, Rebuild
<1>4. CopySteps(p) => CopyFill(p)
  BY DEF CopySteps, CopyUnlink, CopyCreate, HashCopied, CopyDone
<1>5. ~MigrateSteps(p)
  BY DEF MigrateSteps, MigrateRead, SkipStep, ApplyStep, StepFails, StepsDone
<1>6. ~DoctorSteps(p)
  BY DEF DoctorSteps, DoctorRules, PresenceCheck, IntegrityRead, IntegrityFile, DoctorExit,
         VersionShow
<1>7. ~LockSteps(p)
  BY DEF LockSteps, AcquireLock, LockHeld, Release
<1>8. ManifestSteps(p) => WriteManifest(p) \/ WriteFails(p)
  BY DEF ManifestSteps, TruncateManifest
<1> QED
  BY <1>1, <1>2, <1>3, <1>4, <1>5, <1>6, <1>7, <1>8 DEF ProcessStep

-------------------------------------------------------------------------------
(* TeamDocsSafe *)

\* Whoever is about to place documents found none, and none have been written since.
DocsInv == Places /\ DOMAIN disk = Files /\ \A p \in Procs : At(p, "placing") => docs # "authored"

\* Every run begins in place ...
LEMMA PlacesInit == Init => Places /\ DOMAIN disk = Files /\ edits = 0
BY DEF Init, Places, Shape, InPlace, Idle, RunFields, NoCommand, At, Is, Copying

\* ... and stays there, whatever anyone does.
LEMMA PlacesStep ==
  ASSUME Places, DOMAIN disk = Files, [Next]_vars
  PROVE  Places' /\ DOMAIN disk' = Files
<1>1. ASSUME NEW p \in Procs, ProcessStep(p)
      PROVE  Places' /\ DOMAIN disk' = Files
  <2>1. Shape' /\ Undisturbed(p)
    BY <1>1, StepOfOne DEF Places
  <2>2. InPlace(p)'
    BY <1>1, OwnPlace DEF Places
  <2>3. ASSUME NEW q \in Procs \ {p}
        PROVE  InPlace(q)'
    BY <2>1, StaysInPlace DEF Places, Undisturbed
  <2> QED
    BY <1>1, <2>1, <2>2, <2>3, Effects DEF Places
<1>2. CASE EditFile
  <2>1. /\ DOMAIN run' = Procs /\ DOMAIN disk' = Files
        /\ \A p \in Procs : run'[p] = run[p] \/ run'[p] = [run[p] EXCEPT !.open = FALSE]
    BY <1>2 DEF EditFile, Detached, Places, Shape
  <2>2. Shape'
    BY <2>1 DEF Places, Shape
  <2> QED
    BY <2>1, <2>2, StaysInPlace DEF Places
<1>3. CASE AuthorDocs \/ RemoveStaleLock \/ UNCHANGED vars
  <2>1. run' = run /\ disk' = disk
    BY <1>3 DEF AuthorDocs, RemoveStaleLock, vars
  <2>2. Shape'
    BY <2>1 DEF Places, Shape
  <2> QED
    BY <2>1, <2>2, StaysInPlace DEF Places
<1> QED
  BY <1>1, <1>2, <1>3 DEF Next, ProcessStep

\* A run another one has not disturbed has at most lost the file it had open.
LEMMA Others ==
  ASSUME Shape, NEW p \in Procs, Undisturbed(p), NEW q \in Procs \ {p}
  PROVE  /\ run'[q].pc = run[q].pc /\ run'[q].cmd = run[q].cmd /\ run'[q].seen = run[q].seen
         /\ run'[q].todo = run[q].todo /\ run'[q].stale = run[q].stale
         /\ run'[q].drift = run[q].drift /\ run'[q].cur = run[q].cur
         /\ run'[q].entries = run[q].entries
         /\ \/ run'[q].open = run[q].open
            \/ run[p].pc \in {"erasing", "copying"} /\ run[q].open /\ ~run'[q].open
<1>1. CASE run'[q] = run[q]
  BY <1>1
<1>2. CASE /\ run[p].pc \in {"erasing", "copying"} /\ run[q].open
           /\ run'[q] = [run[q] EXCEPT !.open = FALSE]
  BY <1>2 DEF Shape, RunFields
<1> QED
  BY <1>1, <1>2 DEF Undisturbed

\* What the team wrote is removed by init --erase alone (init.ts), for any number of
\* processes, as long as it writes between commands: nobody places a document over
\* one that was written after the check.
THEOREM DocsSafe ==
  ASSUME ~EditsDuringRuns
  PROVE  Spec => TeamDocsSafe
<1>1. Init => DocsInv
  BY PlacesInit DEF Init, Idle, DocsInv, At
<1>2. DocsInv /\ [Next]_vars => DocsInv'
  <2> SUFFICES ASSUME DocsInv, [Next]_vars, NEW p \in Procs, At(p, "placing")'
               PROVE  docs' # "authored"
    BY PlacesStep DEF DocsInv
  <2>1. ASSUME NEW q \in Procs \ {p}, ProcessStep(q)
        PROVE  docs' # "authored"
    <3>1. At(p, "placing")
      BY <2>1, StepOfOne, Others DEF DocsInv, Places, At
    <3>2. docs' = docs \/ docs' \in {"placeholder", "none"}
      BY <2>1, Effects DEF DocsInv
    <3> QED
      BY <3>1, <3>2 DEF DocsInv
  <2>2. ASSUME ProcessStep(p)
        PROVE  docs' # "authored"
    <3>1. CheckDocs(p)
      BY <2>2, Arrivals DEF DocsInv, Places, Arrives
    <3> QED
      BY <3>1 DEF CheckDocs, Goto, Local, shared, At
  <2>3. CASE EditFile \/ RemoveStaleLock \/ UNCHANGED vars
    <3>1. docs' = docs /\ run'[p].pc = run[p].pc
      <4>1. CASE EditFile
        BY <4>1 DEF EditFile, Detached, DocsInv, Places, Shape, RunFields
      <4> QED
        BY <2>3, <4>1 DEF RemoveStaleLock, vars
    <3> QED
      BY <3>1 DEF DocsInv, At
  <2>4. CASE AuthorDocs
    BY <2>4 DEF AuthorDocs, UserMayAct, At
  <2> QED
    BY <2>1, <2>2, <2>3, <2>4 DEF Next, ProcessStep
<1>3. DocsInv /\ [Next]_vars =>
        (docs = "authored" /\ docs' # docs =>
           \E p \in Procs : At(p, "erasing") /\ run[p].cmd.erase)
  <2> SUFFICES ASSUME DocsInv, [Next]_vars, docs = "authored", docs' # docs
               PROVE  \E p \in Procs : At(p, "erasing") /\ run[p].cmd.erase
    OBVIOUS
  <2>1. PICK p \in Procs : ProcessStep(p)
    BY DEF Next, ProcessStep, EditFile, AuthorDocs, RemoveStaleLock, vars
  <2>2. At(p, "erasing")
    BY <2>1, Effects DEF DocsInv
  <2> QED
    BY <2>2 DEF DocsInv, Places, InPlace, At
<1>4. Spec => []DocsInv
  BY <1>1, <1>2, PTL DEF Spec
<1> QED
  BY <1>3, <1>4, PTL DEF Spec, TeamDocsSafe

-------------------------------------------------------------------------------
(* TornOnlyUnderLock *)

\* Whoever is past the lock has it, and what is half-written has its writer.
WriterInv ==
  /\ Places
  /\ DOMAIN disk = Files
  /\ \A p \in Procs : run[p].pc \in Holding => lock = p
  /\ torn => \E p \in Procs : At(p, "writing")
  /\ \A f \in Files :
       disk[f] = Partial => \E p \in Procs : At(p, "filling") /\ run[p].cur = f /\ run[p].open
  /\ \A p \in Procs : At(p, "writing") => torn /\ run[p].open

\* Without --erase, failing writes and kills the lock is let go only by its holder's
\* release, and what is half-written is finished before that.
LEMMA WriterStep ==
  ASSUME ~Kills, "write" \notin Faults, \A c \in Commands : ~c.erase,
         WriterInv, NEW p \in Procs, ProcessStep(p)
  PROVE  WriterInv'
<1>1. Places' /\ DOMAIN disk' = Files
  BY PlacesStep DEF WriterInv, Next, ProcessStep
<1>2. run[p].pc \notin {"listing", "erasing"}
  BY DEF WriterInv, Places, InPlace, Is, NoCommand
<1>3. Shape /\ InPlace(p) /\ Undisturbed(p) /\ Arrives(p)
  BY StepOfOne, Arrivals DEF WriterInv, Places
<1>4. ASSUME NEW q \in Procs \ {p}
      PROVE  run'[q].pc = run[q].pc /\ run'[q].cur = run[q].cur /\ run'[q].open = run[q].open
  <2>1. ~(run[p].pc = "copying" /\ run[q].open)
    BY DEF WriterInv, Places, InPlace, Holding, Copying
  <2> QED
    BY <1>2, <1>3, <2>1, Others
<1>5. \A q \in Procs : run'[q].pc \in Holding => lock' = q
  <2>1. ASSUME NEW q \in Procs \ {p}, run'[q].pc \in Holding
        PROVE  lock' = q
    <3>1. lock = q
      BY <1>4, <2>1 DEF WriterInv
    <3> QED
      BY <1>2, <3>1, Effects, NobodyAssumption DEF WriterInv, Holding
  <2>2. run'[p].pc \in Holding => lock' = p
    <3>1. CASE AcquireLock(p)
      BY <3>1 DEF AcquireLock
    <3>2. CASE run[p].pc \in Holding \ {"releasing"}
      BY <3>2, Effects, NobodyAssumption DEF WriterInv, Holding, Copying
    <3> QED
      BY <1>2, <1>3, <3>1, <3>2 DEF Arrives
  <2> QED
    BY <2>1, <2>2
<1>6. At(p, "filling") => CopyFill(p)
  BY Departs DEF Kill, WriteFails, WriteManifest, At
<1>7. At(p, "writing") => WriteManifest(p) /\ ~torn'
  <2>1. At(p, "writing") => WriteManifest(p)
    BY Departs DEF Kill, WriteFails, CopyFill, At
  <2>2. At(p, "writing") => torn /\ run[p].open
    BY DEF WriterInv, At
  <2> QED
    BY <2>1, <2>2 DEF WriteManifest
<1>8. TruncateManifest(p) => At(p, "writing")' /\ torn' /\ run'[p].open
  BY <1>3 DEF TruncateManifest, Shape, RunFields, At
<1>9. torn' => \E q \in Procs : At(q, "writing")'
  <2>1. CASE torn' = torn /\ ~At(p, "writing")
    BY <1>4, <2>1 DEF WriterInv, At
  <2> QED
    BY <1>2, <1>7, <1>8, <2>1, Effects DEF WriterInv, At
<1>10. ASSUME NEW f \in Files, disk'[f] = Partial
       PROVE  \E q \in Procs : At(q, "filling")' /\ run'[q].cur = f /\ run'[q].open
  <2>1. CASE disk[f] = Partial /\ ~(At(p, "filling") /\ run[p].cur = f)
    BY <1>4, <2>1 DEF WriterInv, At
  <2>2. CASE At(p, "filling") /\ run[p].cur = f
    <3>1. disk'[f] = Bundled(p)[f]
      <4>1. CASE run[p].open
        BY <1>6, <2>2, <4>1 DEF CopyFill, WriterInv, At
      <4>2. CASE ~run[p].open
        <5>1. disk[f] = Partial
          BY <1>6, <1>10, <2>2, <4>2 DEF CopyFill
        <5>2. PICK q \in Procs : At(q, "filling") /\ run[q].open
          BY <5>1 DEF WriterInv
        <5> QED
          BY <2>2, <4>2, <5>2 DEF WriterInv, Holding, Copying, At
      <4> QED
        BY <4>1, <4>2
    <3>2. f \in Paths(p) /\ run[p].cmd \in Command
      BY <1>3, <2>2, CommandsAssumption DEF InPlace, At, Copying
    <3>3. Bundled(p)[f] \in Bytes
      BY <3>2 DEF Bundled, Paths, Bytes, Command
    <3> QED
      BY <1>10, <3>1, <3>3, BytesAssumption
  <2>3. CASE CopyCreate(p) /\ f = run[p].cur /\ disk[f] = Missing
    BY <1>3, <2>3 DEF CopyCreate, Shape, RunFields, At
  <2> QED
    BY <1>2, <1>10, <2>1, <2>2, <2>3, Effects, BytesAssumption DEF WriterInv, Changes, At
<1>11. ASSUME NEW q \in Procs, At(q, "writing")'
       PROVE  torn' /\ run'[q].open
  <2>1. CASE q = p
    BY <1>3, <1>8, <1>11, <2>1 DEF Arrives
  <2>2. CASE q # p
    <3>1. At(q, "writing") /\ lock = q
      BY <1>4, <1>11, <2>2 DEF WriterInv, Holding, At
    <3>2. torn' = torn
      <4>1. At(p, "writing") \/ TruncateManifest(p) => lock = p
        BY DEF TruncateManifest, WriterInv, Holding, At
      <4> QED
        BY <1>2, <2>2, <3>1, <4>1, Effects DEF WriterInv, At
    <3> QED
      BY <1>4, <2>2, <3>1, <3>2 DEF WriterInv
  <2> QED
    BY <2>1, <2>2
<1> QED
  BY <1>1, <1>5, <1>9, <1>10, <1>11 DEF WriterInv, At

\* A half-written file or manifest is seen only while its writer has the lock
\* (CopyCreate, CopyFill and the two halves of writeManifest, update.ts and
\* manifest.ts), for any number of processes and files, unless a writer dies or
\* fails or the lock is erased.
THEOREM TornLocked ==
  ASSUME ~Kills, "write" \notin Faults, \A c \in Commands : ~c.erase
  PROVE  Spec => []TornOnlyUnderLock
<1>1. Init => WriterInv
  BY PlacesInit, BytesAssumption DEF Init, WriterInv, Idle, Holding, Copying, At, Bytes
<1>2. WriterInv /\ [Next]_vars => WriterInv'
  <2> SUFFICES ASSUME WriterInv, [Next]_vars
               PROVE  WriterInv'
    OBVIOUS
  <2>1. ASSUME NEW p \in Procs, ProcessStep(p)
        PROVE  WriterInv'
    BY <2>1, WriterStep
  <2>2. Places' /\ DOMAIN disk' = Files
    BY PlacesStep DEF WriterInv
  <2>3. CASE EditFile
    <3>1. PICK f \in Files, b \in UserBytes \cup {Missing} :
            disk' = [disk EXCEPT ![f] = b] /\ run' = Detached(run, f)
      BY <2>3 DEF EditFile
    <3>2. lock' = lock /\ torn' = torn
      BY <2>3 DEF EditFile
    <3>3. \A p \in Procs : /\ run'[p].pc = run[p].pc /\ run'[p].cur = run[p].cur
                           /\ run[p].cur # f => run'[p].open = run[p].open
      <4>1. Shape
        BY DEF WriterInv, Places
      <4>2. ASSUME NEW p \in Procs
            PROVE  \/ run'[p] = run[p]
                   \/ run[p].cur = f /\ run'[p] = [run[p] EXCEPT !.open = FALSE]
        BY <3>1 DEF Detached
      <4> QED
        BY <4>1, <4>2 DEF Shape, RunFields
    <3>4. b # Partial /\ f # "manifest"
      BY BytesAssumption, FilesAssumption DEF Bytes
    <3>5. \A p \in Procs : At(p, "writing") => run[p].cur # f
      BY <3>4 DEF WriterInv, Places, InPlace
    <3>6. \A g \in Files : disk'[g] = Partial => disk[g] = Partial /\ g # f
      BY <3>1, <3>4 DEF WriterInv
    <3> QED
      BY <2>2, <3>2, <3>3, <3>5, <3>6 DEF WriterInv, At
  <2>4. CASE RemoveStaleLock
    <3>1. UNCHANGED <<torn, disk, run>> /\ \A p \in Procs : run[p].pc \notin Holding
      BY <2>4 DEF RemoveStaleLock, At, Holding, Copying
    <3> QED
      BY <2>2, <3>1 DEF WriterInv, At
  <2>5. CASE AuthorDocs \/ UNCHANGED vars
    BY <2>2, <2>5 DEF AuthorDocs, vars, WriterInv, At
  <2> QED
    BY <2>1, <2>3, <2>4, <2>5 DEF Next, ProcessStep
<1>3. WriterInv => TornOnlyUnderLock
  BY NobodyAssumption DEF WriterInv, TornOnlyUnderLock, At, Holding, Copying
<1> QED
  BY <1>1, <1>2, <1>3, PTL DEF Spec

-------------------------------------------------------------------------------
(* UserEditsSafe *)

\* What a user wrote is on no record: neither in the manifest nor in what p has read
\* of it or noted for it.
Impersonal(m) ==
  /\ DOMAIN m = {"version", "files", "applied"}
  /\ \A f \in Files : m.files[f] \notin UserBytes

Recording == manifest # NoManifest => Impersonal(manifest)

Notes(p) ==
  /\ run[p].cmd.kind \in {"update", "migrate"} /\ ~At(p, run[p].cmd.kind)
       => Impersonal(run[p].seen)
  /\ DOMAIN run[p].entries = Files
  /\ \A f \in Files : run[p].entries[f] \notin UserBytes

\* The user's files update has still to look at, to report, or to replace with leave.
Reported(p) ==
  CASE At(p, "comparing") -> run[p].todo \cup run[p].drift
    [] At(p, "locking") -> IF run[p].cmd.strategy = "theirs" THEN run[p].drift ELSE {}
    [] run[p].pc \in Copying -> run[p].todo
    [] At(p, "rebuilding") -> {}
    [] OTHER -> Files

\* A run has leave for whatever it is about to replace: what an unforced init looked
\* for was not a user's and still is not; what update found stale is no user's, and
\* what is one it has reported.
Spares(p) ==
  /\ Is(p, "init") /\ ~run[p].cmd.force /\ ~At(p, "init") =>
       \A f \in Probed : disk[f] \notin UserBytes
  /\ Is(p, "update") =>
       /\ \A f \in run[p].stale : disk[f] \notin UserBytes
       /\ \A f \in Paths(p) : disk[f] \in UserBytes => f \in Reported(p)
  /\ Is(p, "update") /\ run[p].pc \in Copying =>
       run[p].todo \subseteq run[p].stale \cup
         (IF run[p].cmd.strategy = "theirs" THEN run[p].drift ELSE {})
  /\ run[p].pc \in {"filling", "hashing"} =>
       run[p].cur \in Files /\ disk[run[p].cur] \notin UserBytes

\* The invariant behind UserEditsSafe.
SparingInv ==
  /\ Places
  /\ DOMAIN disk = Files
  /\ edits \in Nat
  /\ Recording
  /\ \A p \in Procs : Notes(p) /\ Spares(p)

\* No step of a command makes a user's bytes.
LEMMA MakesNoUserBytes ==
  ASSUME \A v \in Versions : \A f \in DOMAIN Bundle[v] : Bundle[v][f] \notin UserBytes,
         NEW p \in Procs, InPlace(p), DOMAIN disk = Files, ProcessStep(p),
         NEW f \in Files, disk'[f] \in UserBytes
  PROVE  disk'[f] = disk[f]
<1>1. Missing \notin UserBytes /\ Partial \notin UserBytes
  BY BytesAssumption DEF Bytes
<1>2. At(p, "filling") /\ f = run[p].cur => Bundled(p)[f] \notin UserBytes
  <2> SUFFICES ASSUME At(p, "filling"), f = run[p].cur
               PROVE  Bundled(p)[f] \notin UserBytes
    OBVIOUS
  <2>1. f \in Paths(p) /\ run[p].cmd \in Command
    BY CommandsAssumption DEF InPlace, At, Copying
  <2> QED
    BY <2>1 DEF Bundled, Paths, Command
<1> QED
  BY <1>1, <1>2, Effects DEF Changes

\* Leave is kept by whoever goes on with the same command and the same findings.
LEMMA SparesKept ==
  ASSUME NEW p \in Procs, Spares(p), InPlace(p),
         \A f \in Files : disk'[f] \in UserBytes => disk'[f] = disk[f],
         run'[p].cmd = run[p].cmd,
         At(p, "init")' \/ ~At(p, "init"),
         Is(p, "update") =>
           /\ run'[p].stale = run[p].stale /\ run'[p].drift = run[p].drift
           /\ \/ run'[p].pc = run[p].pc /\ run'[p].todo = run[p].todo
              \/ /\ run'[p].pc \in Copying /\ run[p].pc \in Copying
                 /\ run'[p].todo = run[p].todo
              \/ run'[p].pc \notin {"comparing", "locking", "rebuilding"} \cup Copying,
         run'[p].pc \in {"filling", "hashing"} =>
           run'[p].cur \in Files /\ disk'[run'[p].cur] \notin UserBytes
  PROVE  Spares(p)'
<1>1. Probed \subseteq Files
  BY FilesAssumption
<1>2. Is(p, "update") => /\ run[p].stale \subseteq Files /\ Paths(p) \subseteq Files
                         /\ Paths(p)' = Paths(p)
  BY FilesAssumption, CommandsAssumption DEF InPlace, Is, NoCommand, Paths, Bundled, Command
<1>3. Is(p, "update") => Reported(p)' = Reported(p) \/ Reported(p)' = Files
  BY DEF Reported, At, Copying
<1> QED
  BY <1>1, <1>2, <1>3 DEF Spares, Is, At

\* ... by whoever has nothing to spare: at nothing, or neither init nor update.
LEMMA SparesNothing ==
  ASSUME NEW p \in Procs, run'[p].cmd.kind \notin {"init", "update"},
         run'[p].pc \notin {"filling", "hashing"}
  PROVE  Spares(p)'
BY DEF Spares, Is

\* ... and by whoever takes a step with it.
LEMMA OwnSpares ==
  ASSUME NEW p \in Procs, Shape, InPlace(p), InPlace(p)', Notes(p), Spares(p), Arrives(p),
         DOMAIN disk = Files,
         \A f \in Files : disk'[f] \in UserBytes => disk'[f] = disk[f],
         "read" \notin Faults, \A c \in Commands : c.strategy # "ours", ProcessStep(p)
  PROVE  Spares(p)'
<1>0. Missing \notin UserBytes /\ Partial \notin UserBytes
  BY BytesAssumption DEF Bytes
<1> USE DEF Shape, RunFields
<1>1. ASSUME NEW code, run'[p] = Idle(code)
      PROVE  Spares(p)'
  BY <1>1, SparesNothing DEF Idle, NoCommand, At
<1>2. ASSUME NEW code, Ends(p, code)
      PROVE  Spares(p)'
  BY <1>1, <1>2 DEF Ends
<1>3. ASSUME NEW pc, Goto(p, pc), pc \notin {"filling", "hashing"}, ~At(p, "init"),
             Is(p, "update") => \/ pc \notin {"comparing", "locking", "rebuilding"} \cup Copying
                                \/ pc \in Copying /\ run[p].pc \in Copying
      PROVE  Spares(p)'
  <2>1. /\ run'[p].cmd = run[p].cmd /\ run'[p].stale = run[p].stale /\ run'[p].drift = run[p].drift
        /\ run'[p].seen = run[p].seen /\ run'[p].todo = run[p].todo /\ run'[p].pc = pc
    BY <1>3 DEF Goto
  <2> QED
    BY <1>3, <2>1, SparesKept DEF At
<1>4. ASSUME NEW c \in Commands, Begin(p, c)
      PROVE  Spares(p)'
  <2>1. /\ run'[p].pc = c.kind /\ run'[p].cmd = c /\ run'[p].stale = {}
    BY <1>4 DEF Begin, Idle
  <2>2. c.kind \in {"init", "update", "migrate", "doctor", "version"}
    BY CommandsAssumption DEF Command
  <2> QED
    BY <2>1, <2>2, FilesAssumption, CommandsAssumption
    DEF Spares, Reported, At, Is, Copying, Paths, Bundled, Command
<1>5. CASE InitSteps(p)
  <2>1. CASE InitProbe(p)
    <3>1. CASE Goto(p, "gate") \/ Goto(p, "preview")
      <4>1. run'[p].cmd = run[p].cmd /\ run'[p].pc \in {"gate", "preview"}
        BY <3>1 DEF Goto
      <4>2. Is(p, "init") /\ disk' = disk
        BY <2>1, <3>1 DEF InitProbe, InPlace, At, shared, Ends
      <4>3. ~run[p].cmd.force => \A f \in Probed : disk[f] = Missing
        BY <2>1, <3>1 DEF InitProbe, HasArtifacts, Ends, Goto, Idle
      <4> QED
        BY <1>0, <4>1, <4>2, <4>3 DEF Spares, Is, At, Copying
    <3> QED
      BY <1>2, <2>1, <3>1 DEF InitProbe
  <2>2. CASE EraseGate(p) \/ InitPreview(p)
    BY <1>2, <1>3, <2>2 DEF EraseGate, InitPreview, InPlace, At, Is, Copying
  <2>3. CASE ListTargets(p) \/ EraseRefused(p) \/ EraseDone(p) \/ EraseTarget(p)
    <3>1. /\ run'[p].cmd = run[p].cmd /\ run'[p].pc \in {"erasing", "copying"}
          /\ Is(p, "init") /\ ~At(p, "init")
      <4>1. CASE ListTargets(p) \/ EraseRefused(p) \/ EraseDone(p)
        BY <4>1 DEF ListTargets, EraseRefused, EraseDone, InPlace, At
      <4>2. CASE EraseTarget(p)
        BY <4>2 DEF EraseTarget, Detached, InPlace, At
      <4> QED
        BY <2>3, <4>1, <4>2
    <3> QED
      BY <3>1, SparesKept DEF Is, At
  <2>4. CASE CheckDocs(p) \/ PlaceDocs(p)
    BY <1>3, <2>4 DEF CheckDocs, PlaceDocs, InPlace, At, Is
  <2> QED
    BY <1>5, <2>1, <2>2, <2>3, <2>4 DEF InitSteps
<1>6. CASE UpdateSteps(p)
  <2>1. CASE UpdateRead(p)
    <3>1. Is(p, "update") /\ run[p].stale = {}
      BY <2>1 DEF UpdateRead, InPlace, At
    <3>2. CASE /\ run'[p].cmd = run[p].cmd /\ run'[p].pc = "comparing"
               /\ run'[p].stale = run[p].stale /\ run'[p].todo = Paths(p)
      BY <3>1, <3>2 DEF Spares, Reported, Is, At, Copying, Paths, Bundled
    <3> QED
      BY <1>2, <2>1, <3>2 DEF UpdateRead
  <2>2. CASE CompareFile(p)
    <3> DEFINE state(f) == FileState(disk[f], run[p].seen.files[f], Bundled(p)[f])
    <3>1. PICK f \in run[p].todo :
            /\ run'[p].todo = run[p].todo \ {f}
            /\ run'[p].drift = IF state(f) = "changed-by-user" THEN run[p].drift \cup {f}
                               ELSE run[p].drift
            /\ run'[p].stale = IF state(f) \in {"missing-locally", "unchanged-by-user-needs-update"}
                                 THEN run[p].stale \cup {f}
                               ELSE run[p].stale
      <4>1. PICK f \in run[p].todo :
              \E found \in {disk[f]} \cup {b \in {Missing} : "read" \in Faults} :
              LET onDisk == FileState(found, run[p].seen.files[f], Bundled(p)[f])
              IN  run' = [run EXCEPT
                    ![p].todo = @ \ {f},
                    ![p].drift = IF onDisk = "changed-by-user" THEN @ \cup {f} ELSE @,
                    ![p].stale = IF onDisk \in {"missing-locally", "unchanged-by-user-needs-update"}
                                   THEN @ \cup {f} ELSE @]
        BY <2>2, Zenon DEF CompareFile
      <4>2. "read" \notin Faults
        OBVIOUS
      <4>3. run' = [run EXCEPT
                    ![p].todo = @ \ {f},
                    ![p].drift = IF state(f) = "changed-by-user" THEN @ \cup {f} ELSE @,
                    ![p].stale = IF state(f) \in {"missing-locally", "unchanged-by-user-needs-update"}
                                   THEN @ \cup {f} ELSE @]
        BY <4>1, <4>2, Zenon
      <4> QED
        BY <4>3
    <3>2. /\ At(p, "comparing") /\ Is(p, "update") /\ run'[p].pc = run[p].pc
          /\ run'[p].cmd = run[p].cmd /\ run'[p].seen = run[p].seen /\ disk' = disk
      BY <2>2, SMTT(60) DEF CompareFile, Local, shared, InPlace, At
    <3>3. f \in Files
      BY <3>1, <3>2, FilesAssumption, CommandsAssumption
      DEF InPlace, At, Is, Copying, Paths, Bundled, Command, NoCommand
    <3>4. run[p].seen.files[f] \notin UserBytes
      BY <3>2, <3>3 DEF Notes, Impersonal, At, Is
    <3>5. disk[f] \in UserBytes <=> state(f) = "changed-by-user" /\ disk[f] \in UserBytes
      BY <1>0, <3>4 DEF FileState
    <3>6. state(f) \in {"missing-locally", "unchanged-by-user-needs-update"}
            => disk[f] \notin UserBytes
      BY <3>5
    <3>7. \A g \in run'[p].stale : disk'[g] \notin UserBytes
      BY <3>1, <3>2, <3>6 DEF Spares
    <3>8. \A g \in Paths(p)' : disk'[g] \in UserBytes => g \in Reported(p)'
      <4>1. Paths(p)' = Paths(p) /\ Reported(p)' = run'[p].todo \cup run'[p].drift
        <5>1. Paths(p)' = Paths(p)
          BY <3>2 DEF Paths, Bundled
        <5>2. run'[p].pc = "comparing"
          BY <3>2 DEF At
        <5> QED
          BY <5>1, <5>2 DEF Reported, At, Copying
      <4>2. \A g \in Paths(p) : disk[g] \in UserBytes => g \in run[p].todo \cup run[p].drift
        BY <3>2 DEF Spares, Reported
      <4>3. run[p].todo \cup run[p].drift \subseteq run'[p].todo \cup run'[p].drift \cup {f}
        BY <3>1
      <4>4. disk[f] \in UserBytes => f \in run'[p].drift
        BY <3>1, <3>5
      <4> QED
        BY <3>2, <4>1, <4>2, <4>3, <4>4
    <3> HIDE DEF state
    <3> QED
      BY <3>2, <3>7, <3>8 DEF Spares, Is, At, Copying
  <2>3. CASE UpdateDecide(p)
    <3>1. CASE Goto(p, "locking")
      <4>1. /\ At(p, "comparing") /\ run[p].todo = {}
            /\ run[p].drift # {} => run[p].cmd.strategy \notin {"merge", "none"}
        <5>1. ~\E code : Ends(p, code)
          BY <3>1 DEF Goto, Ends, Idle
        <5> QED
          BY <2>3, <5>1 DEF UpdateDecide
      <4>2. Is(p, "update") /\ run[p].cmd.strategy \in {"theirs", "merge", "none"}
        BY <4>1, CommandsAssumption DEF InPlace, At, Is, NoCommand, Command
      <4>3. /\ run'[p].cmd = run[p].cmd /\ run'[p].pc = "locking" /\ disk' = disk
            /\ run'[p].stale = run[p].stale /\ run'[p].drift = run[p].drift
        <5>1. disk' = disk
          BY <2>3, <3>1 DEF UpdateDecide, shared, Ends
        <5> QED
          BY <3>1, <5>1 DEF Goto
      <4>4. \A f \in Paths(p)' : disk'[f] \in UserBytes => f \in Reported(p)'
        <5>1. \A f \in Paths(p) : disk[f] \in UserBytes => f \in run[p].drift
          BY <4>1, <4>2 DEF Spares, Reported
        <5>2. run[p].drift # {} => Reported(p)' = run[p].drift
          <6>1. run[p].drift # {} => run'[p].cmd.strategy = "theirs"
            BY <4>1, <4>2, <4>3
          <6> QED
            BY <4>3, <6>1 DEF Reported, At, Copying
        <5> QED
          BY <4>3, <5>1, <5>2 DEF Paths, Bundled
      <4> QED
        BY <4>1, <4>2, <4>3, <4>4 DEF Spares, Is, At, Copying
    <3> QED
      BY <1>2, <2>3, <3>1 DEF UpdateDecide
  <2>4. CASE Rebuild(p)
    <3>1. /\ At(p, "rebuilding") /\ run'[p].pc = "manifest"
          /\ run'[p].cmd = run[p].cmd /\ run'[p].stale = run[p].stale
          /\ run'[p].drift = run[p].drift /\ run'[p].seen = run[p].seen
      BY <2>4 DEF Rebuild
    <3> QED
      BY <3>1, SparesKept DEF At, Copying
  <2> QED
    BY <1>6, <2>1, <2>2, <2>3, <2>4 DEF UpdateSteps
<1>7. CASE CopySteps(p)
  <2> DEFINE Alike == /\ run'[p].cmd = run[p].cmd /\ run'[p].stale = run[p].stale
                      /\ run'[p].drift = run[p].drift /\ run'[p].seen = run[p].seen
  <2>1. CASE CopyUnlink(p)
    <3>1. At(p, "copying") /\ Alike /\ run'[p].pc = "creating" /\ run'[p].todo = run[p].todo
      BY <2>1 DEF CopyUnlink, Detached
    <3> QED
      BY <3>1, SparesKept DEF At, Copying
  <2>2. CASE CopyCreate(p)
    <3>1. /\ At(p, "creating") /\ Alike /\ run'[p].pc \in {"filling", "releasing"}
          /\ run'[p].todo = run[p].todo /\ run'[p].cur = run[p].cur
          /\ run'[p].pc = "filling" => disk' = [disk EXCEPT ![run[p].cur] = Partial]
      BY <2>2 DEF CopyCreate
    <3>2. run[p].cur \in Files
      BY <3>1, FilesAssumption, CommandsAssumption
      DEF InPlace, At, Copying, Paths, Bundled, Command, NoCommand, Is
    <3> QED
      BY <1>0, <3>1, <3>2, SparesKept DEF At, Copying
  <2>3. CASE CopyFill(p)
    <3>1. /\ At(p, "filling") /\ Alike /\ run'[p].cur = run[p].cur
          /\ run'[p].pc = (IF Is(p, "init") THEN "hashing" ELSE "copying")
          /\ run'[p].todo = run[p].todo \ {run[p].cur}
      BY <2>3 DEF CopyFill
    <3>2. run[p].cur \in Files /\ disk'[run[p].cur] \notin UserBytes
      BY <3>1 DEF Spares, At
    <3>3. CASE Is(p, "init")
      BY <3>1, <3>2, <3>3, SparesKept DEF At, Copying, Is
    <3>4. CASE ~Is(p, "init")
      <4>1. Is(p, "update")
        BY <3>1, <3>4 DEF InPlace, At, Is, Copying
      <4>2. \A f \in Paths(p)' : disk'[f] \in UserBytes => f \in Reported(p)'
        <5>1. Paths(p)' = Paths(p) /\ Paths(p) \subseteq Files /\ Reported(p)' = run'[p].todo
          BY <3>1, <3>4, <4>1, FilesAssumption, CommandsAssumption
          DEF InPlace, Paths, Bundled, Reported, At, Is, Copying, Command, NoCommand
        <5>2. \A f \in Paths(p) : disk[f] \in UserBytes => f \in run[p].todo
          BY <3>1, <4>1 DEF Spares, Reported, At, Copying
        <5> QED
          BY <3>1, <3>2, <5>1, <5>2
      <4>3. run[p].stale \subseteq Files
        BY <4>1, FilesAssumption, CommandsAssumption
        DEF InPlace, Is, NoCommand, Paths, Bundled, Command
      <4> QED
        BY <3>1, <3>4, <4>1, <4>2, <4>3 DEF Spares, Is, At, Copying
    <3> QED
      BY <3>3, <3>4
  <2>4. CASE HashCopied(p)
    <3>1. /\ At(p, "hashing") /\ Alike /\ run'[p].pc \in {"releasing", "copying"}
          /\ run'[p].todo = run[p].todo
      BY <2>4 DEF HashCopied
    <3> QED
      BY <3>1, SparesKept DEF At, Copying
  <2>5. CASE CopyDone(p)
    <3>1. CASE Is(p, "init")
      BY <1>3, <2>5, <3>1 DEF CopyDone, At, Is, Copying
    <3>2. CASE ~Is(p, "init")
      <4>1. /\ At(p, "copying") /\ run[p].todo = {} /\ disk' = disk
            /\ Goto(p, "rebuilding")
        BY <2>5, <3>2 DEF CopyDone, Local, shared
      <4>2. /\ Is(p, "update") /\ run'[p].cmd = run[p].cmd /\ run'[p].pc = "rebuilding"
            /\ run'[p].stale = run[p].stale
        BY <3>2, <4>1 DEF Goto, InPlace, At, Is, Copying
      <4>3. \A f \in Paths(p) : disk[f] \notin UserBytes
        BY <4>1, <4>2 DEF Spares, Reported, At, Copying
      <4> QED
        BY <4>1, <4>2, <4>3 DEF Spares, Is, At, Copying, Paths, Bundled
    <3> QED
      BY <3>1, <3>2
  <2> QED
    BY <1>7, <2>1, <2>2, <2>3, <2>4, <2>5 DEF CopySteps
<1>8. CASE MigrateSteps(p)
  <2>1. CASE MigrateRead(p)
    <3>1. CASE \E steps : run' = [run EXCEPT ![p].pc = "locking", ![p].seen = manifest,
                                             ![p].todo = steps]
      <4>1. run'[p].cmd = run[p].cmd /\ run'[p].pc = "locking" /\ Is(p, "migrate")
        BY <2>1, <3>1 DEF MigrateRead, InPlace, At
      <4> QED
        BY <4>1, SparesNothing DEF Is, At
    <3> QED
      BY <1>2, <2>1, <3>1 DEF MigrateRead, MigratePlan
  <2>2. CASE SkipStep(p) \/ ApplyStep(p) \/ StepFails(p) \/ StepsDone(p)
    <3>1. run'[p].cmd = run[p].cmd /\ run'[p].pc \in {"running", "manifest"} /\ Is(p, "migrate")
      BY <2>2 DEF SkipStep, ApplyStep, StepFails, StepsDone, InPlace, At
    <3> QED
      BY <3>1, SparesNothing DEF Is, At
  <2> QED
    BY <1>8, <2>1, <2>2 DEF MigrateSteps
<1>9. CASE DoctorSteps(p)
  <2>1. CASE DoctorRules(p)
    <3>1. CASE \E bundled : \E pc \in {"presence", "integrity"} :
                 run' = [run EXCEPT ![p].pc = pc, ![p].todo = bundled]
      <4>1. run'[p].cmd = run[p].cmd /\ run'[p].pc \in {"presence", "integrity"}
        BY <3>1
      <4>2. Is(p, "doctor")
        BY <2>1 DEF DoctorRules, InPlace, At
      <4> QED
        BY <4>1, <4>2, SparesNothing DEF Is
    <3> QED
      BY <1>2, <2>1, <3>1 DEF DoctorRules
  <2>2. CASE PresenceCheck(p) \/ IntegrityFile(p)
    <3>1. Is(p, "doctor")
      BY <2>2 DEF PresenceCheck, IntegrityFile, InPlace, At
    <3>2. run'[p].cmd = run[p].cmd /\ run'[p].pc \in {"integrity", "verifying"}
      <4>1. CASE PresenceCheck(p)
        BY <4>1 DEF PresenceCheck
      <4>2. CASE IntegrityFile(p)
        <5>1. run[p].pc = "verifying" /\ run'[p].pc = run[p].pc /\ run'[p].cmd = run[p].cmd
          BY <4>2 DEF IntegrityFile, At
        <5> QED
          BY <5>1
      <4> QED
        BY <2>2, <4>1, <4>2
    <3> QED
      BY <3>1, <3>2, SparesNothing DEF Is, At
  <2>3. CASE IntegrityRead(p)
    <3>1. CASE Goto(p, "verifying")
      <4>1. run'[p].cmd = run[p].cmd /\ run'[p].pc = "verifying" /\ Is(p, "doctor")
        BY <2>3, <3>1 DEF IntegrityRead, Goto, InPlace, At
      <4> QED
        BY <4>1, SparesNothing DEF Is, At
    <3> QED
      BY <1>2, <2>3, <3>1 DEF IntegrityRead
  <2>4. CASE DoctorExit(p) \/ VersionShow(p)
    BY <1>2, <2>4 DEF DoctorExit, VersionShow
  <2> QED
    BY <1>9, <2>1, <2>2, <2>3, <2>4 DEF DoctorSteps
<1>10. CASE LockSteps(p)
  <2>1. CASE AcquireLock(p)
    <3>1. /\ At(p, "locking") /\ run'[p].cmd = run[p].cmd /\ run'[p].stale = run[p].stale
          /\ run'[p].drift = run[p].drift /\ run'[p].seen = run[p].seen
          /\ run'[p].pc \in {"running", "listing", "copying"}
          /\ Is(p, "update") => run'[p].todo = run[p].stale \cup
               (IF run[p].cmd.strategy = "theirs" THEN run[p].drift ELSE {})
      BY <2>1 DEF AcquireLock, Is
    <3>2. /\ Probed \subseteq Files
          /\ Is(p, "update") => run[p].stale \subseteq Files
      BY FilesAssumption, CommandsAssumption
      DEF InPlace, Is, NoCommand, Paths, Bundled, Command
    <3>3. Is(p, "update") => /\ run'[p].pc = "copying" /\ Paths(p)' = Paths(p) /\ disk' = disk
                             /\ Reported(p) \subseteq Reported(p)'
      <4> SUFFICES ASSUME Is(p, "update")
                   PROVE  /\ run'[p].pc = "copying" /\ Paths(p)' = Paths(p) /\ disk' = disk
                          /\ Reported(p) \subseteq Reported(p)'
        OBVIOUS
      <4>1. run'[p].pc = "copying" /\ Paths(p)' = Paths(p) /\ disk' = disk
        BY <2>1, <3>1 DEF AcquireLock, Is, Paths, Bundled
      <4> QED
        BY <3>1, <4>1 DEF Reported, At, Copying
    <3>4. run'[p].pc \notin {"filling", "hashing"} /\ disk' = disk
      BY <2>1, <3>1 DEF AcquireLock
    <3> QED
      BY <3>1, <3>2, <3>3, <3>4 DEF Spares, Is, At
  <2>2. CASE LockHeld(p)
    BY <1>2, <2>2 DEF LockHeld
  <2>3. CASE Release(p)
    BY <1>1, <2>3 DEF Release
  <2> QED
    BY <1>10, <2>1, <2>2, <2>3 DEF LockSteps
<1>11. CASE ManifestSteps(p)
  <2>1. /\ run[p].pc # "init" /\ run'[p].cmd = run[p].cmd /\ run'[p].stale = run[p].stale
        /\ run'[p].drift = run[p].drift /\ run'[p].seen = run[p].seen
        /\ run'[p].pc \in {"writing", "releasing"}
    <3>1. CASE TruncateManifest(p)
      BY <3>1 DEF TruncateManifest, At
    <3>2. CASE WriteManifest(p)
      BY <3>2 DEF WriteManifest, At
    <3>3. CASE WriteFails(p)
      BY <3>3 DEF WriteFails
    <3> QED
      BY <1>11, <3>1, <3>2, <3>3 DEF ManifestSteps
  <2> QED
    BY <2>1, SparesKept DEF At, Copying
<1>12. CASE Kill(p)
  BY <1>1, <1>12 DEF Kill
<1> QED
  BY <1>4, <1>5, <1>6, <1>7, <1>8, <1>9, <1>10, <1>11, <1>12 DEF ProcessStep

\* No command puts what a user wrote on record: what update keeps it has
\* replaced first, unless it is told --strategy=ours.
LEMMA OwnNotes ==
  ASSUME NEW p \in Procs, Shape, InPlace(p), Notes(p), Spares(p), Recording,
         DOMAIN disk = Files, ProcessStep(p)
  PROVE  Notes(p)' /\ Recording'
<1>0. Missing \notin UserBytes
  BY BytesAssumption DEF Bytes
<1> USE DEF Shape, RunFields
<1>1. ASSUME NEW code, run'[p] = Idle(code)
      PROVE  Notes(p)'
  BY <1>0, <1>1 DEF Notes, Recording, Impersonal, Idle, NoEntries, NoCommand, At
<1>2. ASSUME NEW code, Ends(p, code)
      PROVE  Notes(p)' /\ Recording'
  BY <1>1, <1>2 DEF Ends, shared, Recording, Impersonal
<1>3. ASSUME NEW pc, Goto(p, pc), run[p].pc # run[p].cmd.kind
      PROVE  Notes(p)'
  BY <1>3 DEF Goto, Notes, Recording, Impersonal, At
<1>4. ASSUME NEW pc, Goto(p, pc), run[p].cmd.kind \notin {"update", "migrate"}
      PROVE  Notes(p)'
  BY <1>4 DEF Goto, Notes, Recording, Impersonal, At
<1>5. ASSUME NEW c \in Commands, Begin(p, c)
      PROVE  Notes(p)' /\ Recording'
  <2>1. run'[p] = [Idle(0) EXCEPT !.pc = c.kind, !.cmd = c] /\ manifest' = manifest
    BY <1>5 DEF Begin, shared
  <2> QED
    BY <1>0, <2>1 DEF Idle, NoEntries, Notes, Recording, Impersonal, At
<1>6. CASE InitSteps(p)
  <2>1. Is(p, "init") /\ (manifest' = manifest \/ manifest' = NoManifest)
    BY <1>6 DEF InitSteps, InitProbe, EraseGate, InitPreview, ListTargets, EraseTarget,
       EraseRefused, EraseDone, CheckDocs, PlaceDocs, Ends, Local, shared, InPlace, At
  <2>2. \/ \E code : Ends(p, code)
        \/ /\ run'[p].seen = run[p].seen /\ run'[p].cmd = run[p].cmd
           /\ run'[p].entries = run[p].entries
    <3>1. CASE EraseTarget(p)
      BY <3>1 DEF EraseTarget, Detached
    <3>2. CASE InitProbe(p)
      BY <3>2 DEF InitProbe, Goto
    <3>3. CASE EraseGate(p)
      BY <3>3 DEF EraseGate, Goto
    <3>4. CASE InitPreview(p)
      BY <3>4 DEF InitPreview, Goto
    <3>5. CASE ListTargets(p) \/ EraseRefused(p) \/ EraseDone(p) \/ CheckDocs(p) \/ PlaceDocs(p)
      BY <3>5 DEF ListTargets, EraseRefused, EraseDone, CheckDocs, PlaceDocs, Goto
    <3> QED
      BY <1>6, <3>1, <3>2, <3>3, <3>4, <3>5 DEF InitSteps
  <2> QED
    BY <1>2, <2>1, <2>2 DEF Notes, Recording, Impersonal, Is
<1>7. CASE UpdateSteps(p)
  <2>1. Is(p, "update") /\ manifest' = manifest
    BY <1>7 DEF UpdateSteps, UpdateRead, CompareFile, UpdateDecide, Rebuild, Ends, Local, shared,
       InPlace, At
  <2>2. CASE UpdateRead(p)
    <3>1. CASE run' = [run EXCEPT ![p].pc = "comparing", ![p].seen = manifest, ![p].todo = Paths(p)]
      <4>1. manifest # NoManifest
        <5>1. ~\E code : Ends(p, code)
          BY <3>1 DEF Ends, Idle
        <5> QED
          BY <2>2, <5>1 DEF UpdateRead, ManifestExists
      <4> QED
        BY <2>1, <3>1, <4>1 DEF Notes, Recording, Impersonal
    <3> QED
      BY <1>2, <2>2, <3>1 DEF UpdateRead
  <2>3. CASE CompareFile(p)
    <3>1. /\ run'[p].pc = run[p].pc /\ run'[p].cmd = run[p].cmd /\ run'[p].seen = run[p].seen
          /\ run'[p].entries = run[p].entries
      BY <2>3 DEF CompareFile
    <3> QED
      BY <2>1, <3>1 DEF Notes, Recording, Impersonal, At
  <2>4. CASE UpdateDecide(p)
    BY <1>2, <1>3, <2>1, <2>4 DEF UpdateDecide, At, Is, Recording, Impersonal
  <2>5. CASE Rebuild(p)
    <3>1. PICK unread \in SUBSET Paths(p) :
            run' = [run EXCEPT ![p].pc = "manifest",
              ![p].entries = [f \in Files |-> IF f \in Paths(p) \ unread THEN disk[f]
                                              ELSE Missing]]
      BY <2>5 DEF Rebuild
    <3>2. \A f \in Paths(p) : disk[f] \notin UserBytes
      BY <2>1, <2>5 DEF Rebuild, Spares, Reported, At, Copying
    <3> QED
      BY <1>0, <2>1, <2>5, <3>1, <3>2 DEF Notes, Recording, Impersonal, Rebuild, At, Is
  <2> QED
    BY <1>7, <2>2, <2>3, <2>4, <2>5 DEF UpdateSteps
<1>8. CASE CopySteps(p)
  <2>1. /\ manifest' = manifest /\ run'[p].cmd = run[p].cmd /\ run'[p].seen = run[p].seen
        /\ run[p].pc \in Copying
        /\ HashCopied(p) \/ run'[p].entries = run[p].entries
    <3>1. CASE CopyUnlink(p)
      BY <3>1 DEF CopyUnlink, Detached, At, Copying
    <3> QED
      BY <1>8, <3>1 DEF CopySteps, CopyCreate, CopyFill, HashCopied, CopyDone, Goto, Local,
         shared, At, Copying
  <2>2. DOMAIN run'[p].entries = Files /\ \A f \in Files : run'[p].entries[f] \notin UserBytes
    <3>1. CASE HashCopied(p)
      <4>1. run[p].cur \in Files /\ disk[run[p].cur] \notin UserBytes
        BY <3>1 DEF HashCopied, Spares, At
      <4> QED
        BY <3>1, <4>1 DEF HashCopied, Notes
    <3> QED
      BY <2>1, <3>1 DEF Notes
  <2>3. run[p].cmd.kind \in {"init", "update"}
    BY <2>1 DEF InPlace
  <2> QED
    BY <2>1, <2>2, <2>3 DEF Notes, Recording, Impersonal, At, Copying
<1>9. CASE MigrateSteps(p)
  <2>1. Is(p, "migrate") /\ manifest' = manifest
    BY <1>9 DEF MigrateSteps, MigrateRead, MigratePlan, SkipStep, ApplyStep, StepFails, StepsDone,
       Ends, Local, shared, InPlace, At
  <2>2. CASE MigrateRead(p)
    <3>1. CASE \E steps : run' = [run EXCEPT ![p].pc = "locking", ![p].seen = manifest,
                                             ![p].todo = steps]
      <4>1. manifest # NoManifest
        <5>1. run'[p].pc = "locking"
          BY <3>1
        <5>2. ~\E code : Ends(p, code)
          BY <5>1 DEF Ends, Idle
        <5> QED
          BY <2>2, <5>2 DEF MigrateRead, ManifestExists
      <4> QED
        BY <2>1, <3>1, <4>1 DEF Notes, Recording, Impersonal
    <3> QED
      BY <1>2, <2>2, <3>1 DEF MigrateRead, MigratePlan
  <2>3. CASE SkipStep(p) \/ ApplyStep(p) \/ StepFails(p) \/ StepsDone(p)
    <3>1. Impersonal(run[p].seen)
      BY <2>1, <2>3 DEF SkipStep, ApplyStep, StepFails, StepsDone, Notes, At, Is
    <3>2. DOMAIN run[p].seen = {"version", "files", "applied"}
      BY <3>1 DEF Impersonal
    <3>3. /\ run'[p].entries = run[p].entries /\ run'[p].cmd = run[p].cmd
          /\ DOMAIN run'[p].seen = DOMAIN run[p].seen /\ run'[p].seen.files = run[p].seen.files
      <4>1. CASE SkipStep(p) \/ StepFails(p)
        BY <4>1 DEF SkipStep, StepFails
      <4>2. CASE ApplyStep(p)
        BY <3>2, <4>2 DEF ApplyStep
      <4>3. CASE StepsDone(p)
        BY <3>2, <4>3 DEF StepsDone
      <4> QED
        BY <2>3, <4>1, <4>2, <4>3
    <3> QED
      BY <2>1, <3>1, <3>3 DEF Notes, Recording, Impersonal
  <2> QED
    BY <1>9, <2>2, <2>3 DEF MigrateSteps
<1>10. CASE DoctorSteps(p)
  <2>1. run[p].cmd.kind \in {"doctor", "version"} /\ manifest' = manifest
    BY <1>10 DEF DoctorSteps, DoctorRules, PresenceCheck, IntegrityRead, IntegrityFile, DoctorExit,
       VersionShow, Ends, Goto, Local, shared, InPlace, At, Is
  <2>2. \/ \E code : Ends(p, code)
        \/ /\ run'[p].seen = run[p].seen /\ run'[p].cmd = run[p].cmd
           /\ run'[p].entries = run[p].entries
    <3>1. CASE DoctorRules(p)
      BY <3>1 DEF DoctorRules
    <3>2. CASE PresenceCheck(p) \/ IntegrityFile(p)
      BY <3>2 DEF PresenceCheck, IntegrityFile
    <3>3. CASE IntegrityRead(p) \/ DoctorExit(p) \/ VersionShow(p)
      BY <3>3 DEF IntegrityRead, DoctorExit, VersionShow, Goto
    <3> QED
      BY <1>10, <3>1, <3>2, <3>3 DEF DoctorSteps
  <2> QED
    BY <1>2, <2>1, <2>2 DEF Notes, Recording, Impersonal
<1>11. CASE LockSteps(p)
  <2>1. CASE AcquireLock(p)
    <3>1. /\ run'[p].seen = run[p].seen /\ run'[p].cmd = run[p].cmd
          /\ run'[p].entries = run[p].entries /\ manifest' = manifest /\ run[p].pc = "locking"
      BY <2>1 DEF AcquireLock, At
    <3>2. run[p].cmd.kind \in {"init", "update", "migrate"}
      BY <3>1 DEF InPlace
    <3> QED
      BY <3>1, <3>2 DEF Notes, Recording, Impersonal, At
  <2> QED
    BY <1>1, <1>2, <1>11, <2>1 DEF LockSteps, LockHeld, Release, Recording, Impersonal
<1>12. CASE ManifestSteps(p)
  <2>1. /\ run'[p].cmd = run[p].cmd /\ run'[p].seen = run[p].seen
        /\ run'[p].entries = run[p].entries
        /\ run[p].pc \in Copying \cup {"placing", "manifest", "writing"}
    <3>1. CASE TruncateManifest(p)
      BY <3>1 DEF TruncateManifest, At
    <3>2. CASE WriteManifest(p)
      BY <3>2 DEF WriteManifest, At
    <3>3. CASE WriteFails(p)
      BY <3>3 DEF WriteFails, Copying
    <3> QED
      BY <1>12, <3>1, <3>2, <3>3 DEF ManifestSteps
  <2>2. run[p].cmd.kind \in {"init", "update", "migrate"}
    BY <2>1 DEF InPlace, Is
  <2>3. Notes(p)'
    BY <2>1, <2>2 DEF Notes, Recording, Impersonal, At, Copying
  <2>4. manifest' = manifest \/ (At(p, "writing") /\ manifest' = NewManifest(p))
    BY <1>12 DEF ManifestSteps, TruncateManifest, WriteManifest, WriteFails
  <2>5. ASSUME At(p, "writing")
        PROVE  Impersonal(NewManifest(p))
    <3>1. CASE Is(p, "migrate")
      BY <2>5, <3>1 DEF NewManifest, Notes, Is, At
    <3>2. CASE ~Is(p, "migrate")
      BY <2>5, <3>2 DEF NewManifest, Notes, Impersonal
    <3> QED
      BY <3>1, <3>2
  <2> QED
    BY <2>3, <2>4, <2>5 DEF Recording, Impersonal
<1>13. CASE Kill(p)
  BY <1>1, <1>13 DEF Kill, Recording, Impersonal
<1> QED
  BY <1>5, <1>6, <1>7, <1>8, <1>9, <1>10, <1>11, <1>12, <1>13 DEF ProcessStep

\* No step takes anyone's leave away.
LEMMA SparesStep ==
  ASSUME ~EditsDuringRuns, "read" \notin Faults, \A c \in Commands : c.strategy # "ours",
         \A v \in Versions : \A f \in DOMAIN Bundle[v] : Bundle[v][f] \notin UserBytes,
         SparingInv, [Next]_vars
  PROVE  SparingInv'
<1>1. Places' /\ DOMAIN disk' = Files
  BY PlacesStep DEF SparingInv
<1>2. ASSUME NEW p \in Procs, ProcessStep(p)
      PROVE  SparingInv'
  <2>1. \A f \in Files : disk'[f] \in UserBytes => disk'[f] = disk[f]
    BY <1>2, MakesNoUserBytes DEF SparingInv, Places
  <2>2. Spares(p)'
    BY <1>1, <1>2, <2>1, OwnSpares, Arrivals DEF SparingInv, Places
  <2>0. Notes(p)' /\ Recording'
    BY <1>2, OwnNotes DEF SparingInv, Places
  <2>3. ASSUME NEW q \in Procs \ {p}
        PROVE  Notes(q)' /\ Spares(q)'
    <3>1. /\ run'[q].pc = run[q].pc /\ run'[q].cmd = run[q].cmd /\ run'[q].seen = run[q].seen
          /\ run'[q].todo = run[q].todo /\ run'[q].stale = run[q].stale
          /\ run'[q].drift = run[q].drift /\ run'[q].cur = run[q].cur
          /\ run'[q].entries = run[q].entries
      BY <1>2, StepOfOne, Others DEF SparingInv, Places
    <3>2. Notes(q)'
      BY <3>1 DEF SparingInv, Notes, Recording, Impersonal, At
    <3>3. run[q].pc \in {"filling", "hashing"} => /\ run[q].cur \in Files
                                                 /\ disk'[run[q].cur] \notin UserBytes
      BY <2>1 DEF SparingInv, Spares
    <3> QED
      BY <2>1, <3>1, <3>2, <3>3, SparesKept DEF SparingInv, Places, At
  <2> QED
    BY <1>1, <1>2, <2>0, <2>2, <2>3, Effects DEF SparingInv
<1>3. CASE EditFile \/ AuthorDocs
  <2>1. edits' = edits + 1 /\ \A p \in Procs : At(p, "idle")
    BY <1>3 DEF EditFile, AuthorDocs, UserMayAct
  <2>2. ASSUME NEW p \in Procs
        PROVE  run'[p] = run[p] \/ run'[p] = [run[p] EXCEPT !.open = FALSE]
    BY <1>3 DEF EditFile, AuthorDocs, Detached, SparingInv, Places, Shape
  <2>3. ASSUME NEW p \in Procs
        PROVE  run'[p].cmd = NoCommand /\ run'[p].pc = "idle"
    BY <2>1, <2>2, ZenonT(60) DEF SparingInv, Places, Shape, RunFields, InPlace, At
  <2>4. ASSUME NEW p \in Procs
        PROVE  Notes(p)' /\ Spares(p)'
    <3>1. run'[p].seen = run[p].seen /\ run'[p].entries = run[p].entries
      BY <2>2 DEF SparingInv, Places, Shape, RunFields
    <3> QED
      BY <2>3, <3>1, SparesNothing DEF SparingInv, Notes, Recording, Impersonal, NoCommand, At
  <2>5. manifest' = manifest
    BY <1>3 DEF EditFile, AuthorDocs
  <2> QED
    BY <1>1, <2>1, <2>4, <2>5 DEF SparingInv, Recording, Impersonal
<1>4. CASE RemoveStaleLock \/ UNCHANGED vars
  <2>1. manifest' = manifest /\ run' = run /\ disk' = disk /\ edits' = edits
    BY <1>4 DEF RemoveStaleLock, vars
  <2>2. ASSUME NEW p \in Procs
        PROVE  Notes(p)' /\ Spares(p)'
    BY <2>1 DEF SparingInv, Notes, Recording, Impersonal, Spares, Reported, Is, At, Paths, Bundled
  <2> QED
    BY <1>1, <2>1, <2>2 DEF SparingInv, Recording, Impersonal
<1> QED
  BY <1>2, <1>3, <1>4 DEF Next, ProcessStep

\* What a user wrote into a framework file is replaced or deleted only by init --force,
\* or by update --strategy=theirs of a file it has reported (init.ts, update.ts), for
\* any number of processes, files and versions, as long as users edit between commands,
\* files can be read, users' bytes are none of a bundle's and nobody has --strategy=ours
\* put what he wrote on record as installed; but for an unforced init on a path that it
\* does not look for.
THEOREM EditsSafe ==
  ASSUME ~EditsDuringRuns, "read" \notin Faults, \A c \in Commands : c.strategy # "ours",
         \A v \in Versions : \A f \in DOMAIN Bundle[v] : Bundle[v][f] \notin UserBytes
  PROVE  Spec => UserEditsSafe
<1>1. Init => SparingInv
  <2> SUFFICES ASSUME Init
               PROVE  SparingInv
    OBVIOUS
  <2>1. \A p \in Procs : run[p] = Idle(0)
    BY DEF Init
  <2>2. Missing \notin UserBytes
    BY BytesAssumption DEF Bytes
  <2>3. \A p \in Procs : Notes(p) /\ Spares(p)
    BY <2>1, <2>2 DEF Notes, Spares, Idle, NoEntries, NoCommand, Is, At, Copying
  <2> QED
    BY <2>3, PlacesInit DEF Init, SparingInv, Recording
<1>2. SparingInv /\ [Next]_vars => SparingInv'
  BY SparesStep
<1>3. SparingInv /\ [Next]_vars =>
        \A f \in Files, p \in Procs :
          /\ disk[f] \in UserBytes /\ disk'[f] # disk[f] /\ Moves(p)
          /\ Is(p, "init") /\ ~run[p].cmd.force => f \in Probed
          => Consented(p, f)
  <2> SUFFICES ASSUME SparingInv, [Next]_vars, NEW f \in Files, NEW p \in Procs,
                      disk[f] \in UserBytes, disk'[f] # disk[f], Moves(p),
                      Is(p, "init") /\ ~run[p].cmd.force => f \in Probed
               PROVE  Consented(p, f)
    OBVIOUS
  <2>1. PICK q \in Procs : ProcessStep(q)
    BY DEF SparingInv, Next, ProcessStep, EditFile, AuthorDocs, RemoveStaleLock, vars, Moves
  <2>2. \/ EraseTarget(q)
        \/ CopyUnlink(q) /\ f \in run[q].todo
    <3>1. disk[f] # Missing /\ Changes(q, f) /\ Spares(q)
      BY <2>1, Effects, BytesAssumption DEF SparingInv, Bytes
    <3> QED
      BY <3>1 DEF Changes, Spares, At
  <2>3. CASE p = q
    BY <2>2, <2>3 DEF SparingInv, Places, InPlace, Spares, Consented, EraseTarget, CopyUnlink, At,
                      Is, Copying
  <2>4. CASE p # q
    <3>1. run[p].open /\ run[p].cur = f
      <4>1. CASE EraseTarget(q)
        <5>1. PICK t \in run[q].todo :
                /\ run' = Detached([run EXCEPT ![q].todo = @ \ {t}], t)
                /\ disk' = [g \in Files |-> IF g = t THEN Missing ELSE disk[g]]
          BY <4>1 DEF EraseTarget
        <5>2. f = t
          BY <5>1
        <5>3. ~(run[p].open /\ run[p].cur = t) => run'[p] = run[p]
          BY <2>4, <5>1 DEF Detached, SparingInv, Places, Shape
        <5> QED
          BY <5>2, <5>3 DEF Moves
      <4>2. CASE CopyUnlink(q)
        <5>1. PICK t \in run[q].todo :
                /\ run' = [Detached(run, t) EXCEPT ![q].pc = "creating", ![q].cur = t]
                /\ disk' = [disk EXCEPT ![t] = Missing]
          BY <4>2 DEF CopyUnlink
        <5>2. f = t
          BY <5>1 DEF SparingInv
        <5>3. ~(run[p].open /\ run[p].cur = t) => run'[p] = run[p]
          BY <2>4, <5>1 DEF Detached, SparingInv, Places, Shape
        <5> QED
          BY <5>2, <5>3 DEF Moves
      <4> QED
        BY <2>2, <4>1, <4>2
    <3>2. f # "manifest"
      BY FilesAssumption
    <3> QED
      BY <3>1, <3>2 DEF SparingInv, Places, InPlace, Spares, At
  <2> QED
    BY <2>3, <2>4
<1>4. Spec => []SparingInv
  BY <1>1, <1>2, PTL DEF Spec
<1> QED
  BY <1>3, <1>4, PTL DEF Spec, UserEditsSafe
=================================================================================
