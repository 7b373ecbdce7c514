------------------------------ MODULE SerialProofs ------------------------------
(***************************************************************************)
(* Theorems about Lifecycle when no two commands run at a time and nobody   *)
(* writes into the framework while one does: what init and update leave is  *)
(* whole, on record, and what the next command takes for its own, for any   *)
(* number of files, versions and commands one after the other.  CopyInv     *)
(* says what a run has done so far; SoundInv what the files and the         *)
(* manifest say of each other between commands.                             *)
(***************************************************************************)
EXTENDS MigrationProofs

-------------------------------------------------------------------------------
(* What a run has done so far *)

\* A path update was told to leave as it is.
Kept(p, f) ==
  Is(p, "update") /\ run[p].cmd.strategy = "ours" /\ f \in run[p].drift /\ disk[f] # Missing

Installed(p, f) == disk[f] = Bundled(p)[f] \/ Kept(p, f)

\* A path is on record as it is on disk, if it is of the bundle.
OnDisk(p, f) == IF f \in Paths(p) THEN disk[f] ELSE Missing

\* What the release with exit 0 stands for.
Complete(p) ==
  /\ ~torn /\ manifest # NoManifest
  /\ manifest.version = IF Is(p, "migrate") THEN run[p].cmd.to ELSE run[p].cmd.v
  /\ ~Is(p, "migrate") =>
       /\ \A f \in Files : manifest.files[f] = OnDisk(p, f)
       /\ \A f \in Paths(p) : Installed(p, f)

\* Every path update has compared is up to date, or known not to be.
Compared(p) ==
  Is(p, "update") /\ run[p].pc \in {"comparing", "locking"} =>
    /\ \A f \in Paths(p) :
         \/ At(p, "comparing") /\ f \in run[p].todo
         \/ f \in run[p].stale \/ disk[f] = Bundled(p)[f]
         \/ f \in run[p].drift /\ disk[f] # Missing
    /\ At(p, "locking") => run[p].drift = {} \/ run[p].cmd.strategy \in {"ours", "theirs"}

\* init has put nothing on record before it copies.
Fresh(p) ==
  Is(p, "init") /\ run[p].pc \in {"init", "gate", "preview", "locking", "listing", "erasing"} =>
    run[p].entries = NoEntries

\* Every path not left to copy is installed, and init has it on record.
Copies(p) ==
  run[p].pc \in Copying =>
    /\ \A f \in Paths(p) : f \in run[p].todo \/ Installed(p, f)
    /\ At(p, "creating") => disk[run[p].cur] = Missing
    /\ At(p, "filling") => run[p].open
    /\ At(p, "hashing") => run[p].cur \in Paths(p) \ run[p].todo
    /\ Is(p, "init") =>
         \A f \in Files \ run[p].todo :
           (At(p, "hashing") /\ f = run[p].cur) \/ run[p].entries[f] = OnDisk(p, f)

Closing == {"placeholders", "placing", "rebuilding", "manifest", "writing"}

\* Then all are, and a manifest that says so is written.
Finishes(p) ==
  /\ ~Is(p, "migrate") /\ run[p].pc \in Closing =>
       /\ \A f \in Paths(p) : Installed(p, f)
       /\ At(p, "rebuilding") \/ \A f \in Files : run[p].entries[f] = OnDisk(p, f)
  /\ At(p, "writing") => run[p].open /\ torn
  /\ Is(p, "migrate") /\ run[p].pc \in {"manifest", "writing"} /\ run[p].code = 0 =>
       run[p].seen.version = run[p].cmd.to
  /\ At(p, "releasing") /\ run[p].code = 0 => Complete(p)

Done(p) == Compared(p) /\ Fresh(p) /\ Copies(p) /\ Finishes(p)

CopyInv == TypeInv /\ \A p \in Procs : Done(p)

\* A run that is at nothing of this has done nothing.
LEMMA NothingDone ==
  ASSUME NEW p \in Procs, run'[p].pc \notin Copying \cup Closing \cup {"releasing"},
         Is(p, "update")' => run'[p].pc \notin {"comparing", "locking"},
         Is(p, "init")' => run'[p].pc \notin {"init", "gate", "preview", "locking", "listing", "erasing"}
  PROVE  Done(p)'
BY DEF Done, Compared, Fresh, Copies, Finishes, Closing, Copying, Is, At

LEMMA IdleDone ==
  ASSUME NEW p \in Procs, run'[p].pc = "idle", run'[p].cmd = NoCommand
  PROVE  Done(p)'
BY NothingDone DEF NoCommand, Copying, Closing, Is

\* What is installed stays so while neither the run nor the path changes.
LEMMA StaysInstalled ==
  ASSUME NEW p \in Procs, run'[p].cmd = run[p].cmd
  PROVE  /\ Paths(p)' = Paths(p) /\ Bundled(p)' = Bundled(p)
         /\ \A f : disk'[f] = disk[f] => OnDisk(p, f)' = OnDisk(p, f)
         /\ \A f : disk'[f] = disk[f] /\ run'[p].drift = run[p].drift =>
              (Installed(p, f)' <=> Installed(p, f))
BY DEF Paths, Bundled, OnDisk, Installed, Kept, Is


LEMMA InitDone ==
  ASSUME TypeInv, NEW p \in Procs, Done(p), InitSteps(p)
  PROVE  Done(p)'
<1>0. Shape /\ InPlace(p) /\ RunTyped(p) /\ SharedTyped
  BY DEF TypeInv, Places
<1>1. ASSUME NEW code, Ends(p, code)
      PROVE  Done(p)'
  BY <1>0, <1>1, IdleDone DEF Ends, Idle, Shape
<1>2. Is(p, "init") /\ Paths(p) \subseteq Files
  <2>1. Is(p, "init")
    BY <1>0 DEF InitSteps, InitProbe, EraseGate, InitPreview, ListTargets, EraseTarget,
       EraseRefused, EraseDone, CheckDocs, PlaceDocs, InPlace, At
  <2> QED
    BY <1>0, <2>1, BundledBytes DEF Is
<1>3. ASSUME run[p].pc \in {"init", "gate", "preview", "locking", "listing", "erasing"},
             run'[p].pc \in {"gate", "preview", "locking", "erasing"},
             run'[p].cmd = run[p].cmd, run'[p].entries = run[p].entries
      PROVE  Done(p)'
  <2>1. Fresh(p)'
    BY <1>2, <1>3 DEF Done, Fresh, Is
  <2> QED
    BY <1>2, <1>3, <2>1 DEF Done, Compared, Copies, Finishes, Copying, Closing, Is, At
<1>4. CASE InitProbe(p) \/ EraseGate(p) \/ InitPreview(p)
  <2>1. CASE \E pc \in {"gate", "preview", "locking"} : Goto(p, pc)
    <3>1. run[p].pc \in {"init", "gate", "preview"}
      BY <1>4 DEF InitProbe, EraseGate, InitPreview, At
    <3>2. /\ run'[p].pc \in {"gate", "preview", "locking"}
          /\ run'[p].cmd = run[p].cmd /\ run'[p].entries = run[p].entries
      BY <1>0, <2>1 DEF Goto, Shape, RunFields
    <3> QED
      BY <1>3, <3>1, <3>2
  <2> QED
    BY <1>1, <1>4, <2>1 DEF InitProbe, EraseGate, InitPreview
<1>5. CASE ListTargets(p) \/ EraseRefused(p) \/ EraseTarget(p)
  <2>1. /\ run[p].pc \in {"listing", "erasing"} /\ run'[p].pc = "erasing"
        /\ run'[p].cmd = run[p].cmd /\ run'[p].entries = run[p].entries
    <3>1. CASE ListTargets(p) \/ EraseRefused(p)
      BY <1>0, <3>1 DEF ListTargets, EraseRefused, Shape, RunFields, At
    <3>2. CASE EraseTarget(p)
      BY <1>0, <3>2 DEF EraseTarget, Detached, Shape, RunFields, At
    <3> QED
      BY <1>5, <3>1, <3>2
  <2> QED
    BY <1>3, <2>1
<1>6. CASE EraseDone(p)
  <2>1. /\ run'[p].pc = "copying" /\ run'[p].todo = Paths(p) /\ At(p, "erasing")
        /\ run'[p].cmd = run[p].cmd /\ run'[p].entries = run[p].entries
    BY <1>0, <1>6 DEF EraseDone, Shape, RunFields
  <2>2. run'[p].entries = NoEntries
    BY <1>2, <2>1 DEF Done, Fresh, At
  <2>3. Paths(p)' = Paths(p)
    BY <2>1, StaysInstalled
  <2>4. Copies(p)'
    BY <2>1, <2>2, <2>3 DEF Copies, OnDisk, NoEntries, At
  <2> QED
    BY <1>2, <2>1, <2>4 DEF Done, Compared, Fresh, Finishes, Closing, Is, At
<1>7. CASE CheckDocs(p) \/ PlaceDocs(p)
  <2>1. \E pc \in {"placing", "manifest"} : Goto(p, pc)
    BY <1>7 DEF CheckDocs, PlaceDocs
  <2>2. /\ run'[p].pc \in {"placing", "manifest"} /\ disk' = disk
        /\ run[p].pc \in {"placeholders", "placing"}
        /\ run'[p].cmd = run[p].cmd /\ run'[p].entries = run[p].entries
        /\ run'[p].drift = run[p].drift
    BY <1>0, <1>7, <2>1 DEF CheckDocs, PlaceDocs, Goto, Shape, RunFields, Local, shared, At
  <2>3. /\ \A f \in Paths(p) : Installed(p, f)
        /\ \A f \in Files : run[p].entries[f] = OnDisk(p, f)
    BY <1>2, <2>2 DEF Done, Finishes, Closing, Is, At
  <2>4. /\ \A f \in Paths(p)' : Installed(p, f)'
        /\ \A f \in Files : run'[p].entries[f] = OnDisk(p, f)'
    BY <2>2, <2>3, StaysInstalled
  <2>5. Finishes(p)'
    BY <1>2, <2>2, <2>4 DEF Finishes, Is, At
  <2> QED
    BY <1>2, <2>2, <2>5 DEF Done, Compared, Fresh, Copies, Copying, Is, At
<1> QED
  BY <1>4, <1>5, <1>6, <1>7 DEF InitSteps

\* Every path update compares is then up to date, or known not to be.
LEMMA ComparedDone ==
  ASSUME TypeInv, "read" \notin Faults, NEW p \in Procs, Done(p), CompareFile(p)
  PROVE  /\ \E f \in run[p].todo :
              LET state == FileState(disk[f], run[p].seen.files[f], Bundled(p)[f])
              IN  /\ run'[p].todo = run[p].todo \ {f}
                  /\ run'[p].drift = run[p].drift \cup {g \in {f} : state = "changed-by-user"}
                  /\ run'[p].stale = run[p].stale \cup
                       {g \in {f} : state \in {"missing-locally", "unchanged-by-user-needs-update"}}
         /\ KeepsBut(p, {"todo", "drift", "stale"}) /\ UNCHANGED <<shared, runs, edits>>
         /\ Is(p, "update") /\ At(p, "comparing") /\ Done(p)'
<1>0. Shape /\ InPlace(p) /\ RunTyped(p) /\ SharedTyped
  BY DEF TypeInv, Places
<1>1. Is(p, "update") /\ At(p, "comparing") /\ run[p].todo \subseteq Paths(p)
  BY <1>0 DEF CompareFile, InPlace, At
<1> DEFINE state(f) == FileState(disk[f], run[p].seen.files[f], Bundled(p)[f])
<1>2. PICK f \in run[p].todo :
        run' = [run EXCEPT
             ![p].todo = @ \ {f},
             ![p].drift = IF state(f) = "changed-by-user" THEN @ \cup {f} ELSE @,
             ![p].stale = IF state(f) \in {"missing-locally", "unchanged-by-user-needs-update"}
                            THEN @ \cup {f} ELSE @]
  BY DEF CompareFile
<1>3. state(f) \in {"missing-locally", "changed-by-user", "unchanged-by-user-equal",
                    "unchanged-by-user-needs-update"}
      /\ (state(f) = "unchanged-by-user-equal" => disk[f] = Bundled(p)[f])
      /\ (state(f) = "changed-by-user" => disk[f] # Missing)
  BY DEF FileState
<1> HIDE DEF state
<1>4. /\ run'[p].todo = run[p].todo \ {f}
      /\ run'[p].drift = run[p].drift \cup {g \in {f} : state(f) = "changed-by-user"}
      /\ run'[p].stale = run[p].stale \cup
           {g \in {f} : state(f) \in {"missing-locally", "unchanged-by-user-needs-update"}}
  <2>1. /\ run'[p].todo = run[p].todo \ {f}
        /\ run'[p].drift = IF state(f) = "changed-by-user" THEN run[p].drift \cup {f} ELSE run[p].drift
        /\ run'[p].stale = IF state(f) \in {"missing-locally", "unchanged-by-user-needs-update"}
                             THEN run[p].stale \cup {f} ELSE run[p].stale
    BY <1>0, <1>2 DEF Shape, RunFields
  <2> QED
    BY <2>1
<1>5. KeepsBut(p, {"todo", "drift", "stale"}) /\ UNCHANGED <<shared, runs, edits>>
  BY <1>0, <1>2 DEF KeepsBut, Shape, RunTyped, IsRecord, RunFields, CompareFile, Local
<1>6. run'[p].pc = "comparing" /\ run'[p].cmd = run[p].cmd /\ disk' = disk
  BY <1>1, <1>5 DEF KeepsBut, RunFields, shared, At
<1>7. \A g \in Paths(p) :
        \/ g \in run'[p].todo
        \/ g \in run'[p].stale \/ disk[g] = Bundled(p)[g]
        \/ g \in run'[p].drift /\ disk[g] # Missing
  <2> SUFFICES ASSUME NEW g \in Paths(p)
               PROVE  \/ g \in run'[p].todo
                      \/ g \in run'[p].stale \/ disk[g] = Bundled(p)[g]
                      \/ g \in run'[p].drift /\ disk[g] # Missing
    OBVIOUS
  <2>1. \/ g \in run[p].todo
        \/ g \in run[p].stale \/ disk[g] = Bundled(p)[g]
        \/ g \in run[p].drift /\ disk[g] # Missing
    BY <1>1 DEF Done, Compared, At
  <2> QED
    BY <1>3, <1>4, <2>1
<1>8. Compared(p)'
  BY <1>6, <1>7, StaysInstalled DEF Compared, At
<1>9. Done(p)'
  BY <1>1, <1>6, <1>8 DEF Done, Fresh, Copies, Finishes, Copying, Closing, Is, At
<1> QED
  BY <1>1, <1>4, <1>5, <1>9 DEF state

LEMMA UpdateDone ==
  ASSUME TypeInv, "read" \notin Faults, NEW p \in Procs, Done(p), UpdateSteps(p)
  PROVE  Done(p)'
<1>0. Shape /\ InPlace(p) /\ RunTyped(p) /\ SharedTyped
  BY DEF TypeInv, Places
<1>1. ASSUME NEW code, Ends(p, code)
      PROVE  Done(p)'
  BY <1>0, <1>1, IdleDone DEF Ends, Idle, Shape
<1>2. Is(p, "update")
  BY <1>0 DEF UpdateSteps, UpdateRead, CompareFile, UpdateDecide, Rebuild, InPlace, At
<1>3. CASE UpdateRead(p)
  <2>1. CASE ~\E code : Ends(p, code)
    <3>1. run' = [run EXCEPT ![p].pc = "comparing", ![p].seen = manifest, ![p].todo = Paths(p)]
      BY <1>3, <2>1 DEF UpdateRead
    <3>2. /\ run'[p].pc = "comparing" /\ run'[p].todo = Paths(p) /\ run'[p].cmd = run[p].cmd
      BY <1>0, <3>1 DEF Shape, RunFields
    <3> QED
      BY <1>2, <3>2, StaysInstalled
      DEF Done, Compared, Fresh, Copies, Finishes, Copying, Closing, Is, At
  <2> QED
    BY <1>1, <2>1
<1>4. CASE UpdateDecide(p)
  <2>1. CASE Goto(p, "locking")
    <3>1. /\ run'[p].pc = "locking" /\ run'[p].cmd = run[p].cmd /\ run'[p].drift = run[p].drift
          /\ run'[p].stale = run[p].stale /\ disk' = disk
      BY <1>0, <1>4, <2>1 DEF UpdateDecide, Goto, Shape, RunFields, Ends, shared
    <3>2. run[p].drift = {} \/ run[p].cmd.strategy \in {"ours", "theirs"}
      <4>1. run[p].cmd \in Command
        BY <1>0, <1>2, CommandsAssumption DEF InPlace, Is, NoCommand
      <4>2. run[p].cmd.strategy \in {"none", "ours", "theirs", "merge"}
        BY <4>1 DEF Command
      <4>3. \A code : ~Ends(p, code)
        BY <1>0, <2>1 DEF Goto, Ends, Idle, Shape, RunFields
      <4> QED
        BY <1>4, <4>2, <4>3 DEF UpdateDecide
    <3>3. \A f \in Paths(p) :
            \/ f \in run[p].stale \/ disk[f] = Bundled(p)[f]
            \/ f \in run[p].drift /\ disk[f] # Missing
      BY <1>2, <1>4 DEF UpdateDecide, Done, Compared, At
    <3>4. Compared(p)'
      BY <3>1, <3>2, <3>3, StaysInstalled DEF Compared, At
    <3> QED
      BY <1>2, <3>1, <3>4 DEF Done, Fresh, Copies, Finishes, Copying, Closing, Is, At
  <2> QED
    BY <1>1, <1>4, <2>1 DEF UpdateDecide
<1>5. CASE Rebuild(p)
  <2>1. /\ run'[p].pc = "manifest" /\ run'[p].cmd = run[p].cmd /\ run'[p].drift = run[p].drift
        /\ run'[p].entries = [f \in Files |-> OnDisk(p, f)] /\ disk' = disk
    <3>1. run' = [run EXCEPT ![p].pc = "manifest",
                             ![p].entries = [f \in Files |-> IF f \in Paths(p) \ {} THEN disk[f]
                                                             ELSE Missing]]
      BY <1>5 DEF Rebuild
    <3> QED
      BY <1>0, <1>5, <3>1 DEF Rebuild, OnDisk, Shape, RunFields, Local, shared
  <2>2. \A f \in Paths(p) : Installed(p, f)
    BY <1>2, <1>5 DEF Rebuild, Done, Finishes, Closing, Is, At
  <2>3. /\ \A f \in Paths(p)' : Installed(p, f)'
        /\ \A f \in Files : run'[p].entries[f] = OnDisk(p, f)'
    BY <2>1, <2>2, StaysInstalled
  <2>4. Finishes(p)'
    BY <1>2, <2>1, <2>3 DEF Finishes, Is, At
  <2> QED
    BY <1>2, <2>1, <2>4 DEF Done, Compared, Fresh, Copies, Copying, Is, At
<1> QED
  BY <1>3, <1>4, <1>5, ComparedDone DEF UpdateSteps

LEMMA LockDone ==
  ASSUME TypeInv, NEW p \in Procs, Done(p), LockSteps(p)
  PROVE  Done(p)'
<1>0. Shape /\ InPlace(p) /\ RunTyped(p) /\ SharedTyped
  BY DEF TypeInv, Places
<1>1. CASE LockHeld(p) \/ Release(p)
  <2>1. \E code : run'[p] = Idle(code)
    BY <1>0, <1>1 DEF LockHeld, Release, Ends, Shape
  <2> QED
    BY <2>1, IdleDone DEF Idle
<1>2. CASE AcquireLock(p)
  <2>0. At(p, "locking") /\ run[p].cmd.kind \in {"init", "update", "migrate"} /\ disk' = disk
    BY <1>0, <1>2 DEF AcquireLock, InPlace, At
  <2> DEFINE pc == CASE Is(p, "migrate") -> "running"
                     [] Is(p, "init") /\ run[p].cmd.erase -> "listing"
                     [] OTHER -> "copying"
             todo == CASE Is(p, "migrate") -> run[p].todo
                       [] Is(p, "init") -> Paths(p)
                       [] OTHER -> run[p].stale \cup
                            (IF run[p].cmd.strategy = "theirs" THEN run[p].drift ELSE {})
  <2>1. run' = [run EXCEPT ![p].pc = pc, ![p].todo = todo]
    BY <1>0, <1>2 DEF AcquireLock, Shape, RunFields
  <2>2. /\ run'[p].pc = pc /\ run'[p].todo = todo /\ run'[p].cmd = run[p].cmd
        /\ run'[p].drift = run[p].drift /\ run'[p].entries = run[p].entries
    <3> HIDE DEF pc, todo
    <3> QED
      BY <1>0, <2>1 DEF Shape, RunFields
  <2>3. CASE Is(p, "migrate")
    <3>1. run'[p].pc = "running"
      BY <2>2, <2>3 DEF Is
    <3> QED
      BY <2>2, <2>3, <3>1, NothingDone DEF Copying, Closing, Is
  <2>4. CASE Is(p, "init")
    <3>1. run'[p].pc \in {"listing", "copying"} /\ run'[p].todo = Paths(p)
      BY <2>2, <2>4 DEF Is
    <3>2. run'[p].entries = NoEntries
      BY <2>0, <2>2, <2>4 DEF Done, Fresh, At
    <3> QED
      BY <2>2, <2>4, <3>1, <3>2, StaysInstalled
      DEF Done, Compared, Fresh, Copies, Finishes, OnDisk, NoEntries, Copying, Closing, Is, At
  <2>5. CASE Is(p, "update")
    <3>1. /\ run'[p].pc = "copying"
          /\ run'[p].todo = run[p].stale \cup
               (IF run[p].cmd.strategy = "theirs" THEN run[p].drift ELSE {})
      BY <2>2, <2>5 DEF Is
    <3>2. /\ \A f \in Paths(p) :
               \/ f \in run[p].stale \/ disk[f] = Bundled(p)[f]
               \/ f \in run[p].drift /\ disk[f] # Missing
          /\ run[p].drift = {} \/ run[p].cmd.strategy \in {"ours", "theirs"}
      BY <2>0, <2>5 DEF Done, Compared, At
    <3>3. \A f \in Paths(p) : f \in run'[p].todo \/ Installed(p, f)
      BY <2>5, <3>1, <3>2 DEF Installed, Kept
    <3>4. \A f \in Paths(p)' : f \in run'[p].todo \/ Installed(p, f)'
      BY <2>0, <2>2, <3>3, StaysInstalled
    <3>5. Copies(p)'
      BY <2>2, <2>5, <3>1, <3>4 DEF Copies, Is, At
    <3> QED
      BY <2>2, <2>5, <3>1, <3>5 DEF Done, Compared, Fresh, Finishes, Closing, Is, At
  <2> QED
    BY <2>0, <2>3, <2>4, <2>5 DEF Is
<1> QED
  BY <1>1, <1>2 DEF LockSteps

\* The copy goes on path by path.
LEMMA Copied ==
  ASSUME TypeInv, NEW p \in Procs, Done(p), CopySteps(p)
  PROVE  Done(p)'
<1>0. Shape /\ InPlace(p) /\ RunTyped(p) /\ SharedTyped
  BY DEF TypeInv, Places
<1>1. /\ run[p].pc \in Copying /\ run[p].cmd.kind \in {"init", "update"} /\ Paths(p) \subseteq Files
      /\ \A f \in Paths(p) : f \in run[p].todo \/ Installed(p, f)
      /\ Is(p, "init") =>
           \A f \in Files \ run[p].todo :
             (At(p, "hashing") /\ f = run[p].cur) \/ run[p].entries[f] = OnDisk(p, f)
  <2>1. run[p].pc \in Copying /\ run[p].cmd.kind \in {"init", "update"}
    BY <1>0 DEF CopySteps, CopyUnlink, CopyCreate, CopyFill, HashCopied, CopyDone, Copying, InPlace, At
  <2> QED
    BY <1>0, <2>1, BundledBytes DEF Done, Copies
<1>2. DOMAIN disk = Files
  BY <1>0 DEF SharedTyped
<1>3. ASSUME Copies(p)', run'[p].pc \in Copying, run'[p].cmd = run[p].cmd
      PROVE  Done(p)'
  BY <1>1, <1>3 DEF Done, Compared, Fresh, Finishes, Copying, Closing, Is, At
<1>4. CASE CopyUnlink(p)
  <2>1. PICK f \in run[p].todo :
          /\ disk' = [disk EXCEPT ![f] = Missing]
          /\ run' = [Detached(run, f) EXCEPT ![p].pc = "creating", ![p].cur = f]
    BY <1>4 DEF CopyUnlink
  <2>2. /\ run'[p].pc = "creating" /\ run'[p].cur = f /\ run'[p].cmd = run[p].cmd
        /\ run'[p].todo = run[p].todo /\ run'[p].drift = run[p].drift
        /\ run'[p].entries = run[p].entries /\ At(p, "copying")
    <3>1. At(p, "copying") /\ ~run[p].open
      BY <1>0, <1>4 DEF CopyUnlink, InPlace, At
    <3>2. Detached(run, f)[p] = run[p] /\ DOMAIN Detached(run, f) = Procs
      BY <3>1 DEF Detached
    <3> QED
      BY <1>0, <2>1, <3>1, <3>2 DEF Shape, RunFields
  <2>3. f \in Files /\ disk'[f] = Missing /\ \A g : g # f => disk'[g] = disk[g]
    BY <1>0, <1>1, <1>2, <2>1 DEF InPlace
  <2>4. \A g \in Paths(p)' : g \in run'[p].todo \/ Installed(p, g)'
    BY <1>1, <2>1, <2>2, <2>3, StaysInstalled
  <2>5. Is(p, "init") => \A g \in Files \ run'[p].todo : run'[p].entries[g] = OnDisk(p, g)'
    BY <1>1, <2>2, <2>3, StaysInstalled DEF At
  <2>6. Copies(p)'
    BY <2>2, <2>3, <2>4, <2>5 DEF Copies, Is, At
  <2> QED
    BY <1>3, <2>2, <2>6 DEF Copying
<1>5. CASE CopyCreate(p)
  <2> DEFINE f == run[p].cur
  <2>0. At(p, "creating") /\ f \in run[p].todo /\ f \in Files /\ disk[f] = Missing
    BY <1>0, <1>1, <1>5 DEF CopyCreate, InPlace, Done, Copies, Copying, At
  <2>1. disk' = [disk EXCEPT ![f] = Partial]
        /\ run' = [run EXCEPT ![p].pc = "filling", ![p].open = TRUE]
    BY <1>5, <2>0 DEF CopyCreate
  <2>2. /\ run'[p].pc = "filling" /\ run'[p].open /\ run'[p].cmd = run[p].cmd
        /\ run'[p].todo = run[p].todo /\ run'[p].drift = run[p].drift
        /\ run'[p].entries = run[p].entries
    BY <1>0, <2>1 DEF Shape, RunFields
  <2>3. \A g : g # f => disk'[g] = disk[g]
    BY <1>2, <2>1
  <2>4. \A g \in Paths(p)' : g \in run'[p].todo \/ Installed(p, g)'
    BY <1>1, <2>0, <2>2, <2>3, StaysInstalled
  <2>5. Is(p, "init") => \A g \in Files \ run'[p].todo : run'[p].entries[g] = OnDisk(p, g)'
    BY <1>1, <2>0, <2>2, <2>3, StaysInstalled DEF At
  <2>6. Copies(p)'
    BY <2>2, <2>4, <2>5 DEF Copies, Is, At
  <2> QED
    BY <1>3, <2>2, <2>6 DEF Copying
<1>6. CASE CopyFill(p)
  <2> DEFINE f == run[p].cur
  <2>0. At(p, "filling") /\ f \in run[p].todo /\ f \in Paths(p) /\ f \in Files /\ run[p].open
    BY <1>0, <1>1, <1>6 DEF CopyFill, InPlace, Done, Copies, Copying, At
  <2>1. /\ disk' = [disk EXCEPT ![f] = Bundled(p)[f]]
        /\ run' = [run EXCEPT ![p].pc = IF Is(p, "init") THEN "hashing" ELSE "copying",
                              ![p].todo = run[p].todo \ {f}, ![p].open = FALSE]
    BY <1>0, <1>6, <2>0 DEF CopyFill, Shape, RunFields
  <2>2. /\ run'[p].pc = (IF Is(p, "init") THEN "hashing" ELSE "copying")
        /\ run'[p].todo = run[p].todo \ {f} /\ run'[p].cur = f
        /\ run'[p].cmd = run[p].cmd /\ run'[p].drift = run[p].drift
        /\ run'[p].entries = run[p].entries
    BY <1>0, <2>1 DEF Shape, RunFields
  <2>3. disk'[f] = Bundled(p)[f] /\ \A g : g # f => disk'[g] = disk[g]
    BY <1>2, <2>0, <2>1
  <2>4. \A g \in Paths(p)' : g \in run'[p].todo \/ Installed(p, g)'
    <3>1. Installed(p, f)'
      BY <2>2, <2>3, StaysInstalled DEF Installed
    <3> QED
      BY <1>1, <2>0, <2>2, <2>3, <3>1, StaysInstalled
  <2>5. Is(p, "init") => \A g \in Files \ run'[p].todo :
                           g = f \/ run'[p].entries[g] = OnDisk(p, g)'
    BY <1>1, <2>0, <2>2, <2>3, StaysInstalled DEF At
  <2>6. f \in Paths(p)' \ run'[p].todo
    BY <2>0, <2>2, StaysInstalled
  <2>7. Copies(p)'
    BY <2>2, <2>4, <2>5, <2>6 DEF Copies, Is, At
  <2> QED
    BY <1>3, <2>2, <2>7 DEF Copying
<1>7. CASE HashCopied(p)
  <2> DEFINE f == run[p].cur
  <2>0. At(p, "hashing") /\ f \in Paths(p) \ run[p].todo /\ f \in Files /\ Is(p, "init")
    BY <1>0, <1>1, <1>7 DEF HashCopied, InPlace, Done, Copies, Copying, At
  <2>1. CASE disk[f] = Missing
    <3>1. run'[p].pc = "releasing" /\ run'[p].code = 10 /\ run'[p].cmd = run[p].cmd
      BY <1>0, <1>7, <2>1 DEF HashCopied, Shape, RunFields
    <3> QED
      BY <2>0, <3>1 DEF Done, Compared, Fresh, Copies, Finishes, Copying, Closing, Is, At
  <2>2. CASE disk[f] # Missing
    <3>1. /\ run'[p].pc = "copying" /\ run'[p].cmd = run[p].cmd /\ run'[p].todo = run[p].todo
          /\ run'[p].drift = run[p].drift
          /\ run'[p].entries = [run[p].entries EXCEPT ![f] = disk[f]] /\ disk' = disk
      BY <1>0, <1>7, <2>2 DEF HashCopied, Shape, RunFields, Local, shared
    <3>2. DOMAIN run[p].entries = Files
      BY <1>0 DEF RunTyped, FieldsTyped
    <3>3. \A g \in Files \ run[p].todo : run'[p].entries[g] = OnDisk(p, g)
      <4>1. run'[p].entries[f] = OnDisk(p, f)
        BY <2>0, <3>1, <3>2 DEF OnDisk
      <4>2. \A g \in Files \ {f} : run'[p].entries[g] = run[p].entries[g]
        BY <3>1, <3>2
      <4> QED
        BY <1>1, <2>0, <4>1, <4>2
    <3>4. /\ \A g \in Files \ run'[p].todo : run'[p].entries[g] = OnDisk(p, g)'
          /\ \A g \in Paths(p)' : g \in run'[p].todo \/ Installed(p, g)'
      BY <1>1, <3>1, <3>3, StaysInstalled
    <3>5. Copies(p)'
      BY <3>1, <3>4 DEF Copies, At
    <3> QED
      BY <1>3, <3>1, <3>5 DEF Copying
  <2> QED
    BY <2>1, <2>2
<1>8. CASE CopyDone(p)
  <2>1. /\ run'[p].pc = (IF Is(p, "init") THEN "placeholders" ELSE "rebuilding")
        /\ run'[p].cmd = run[p].cmd /\ run'[p].entries = run[p].entries
        /\ run'[p].drift = run[p].drift /\ disk' = disk /\ At(p, "copying") /\ run[p].todo = {}
    BY <1>0, <1>8 DEF CopyDone, Goto, Shape, RunFields, Local, shared
  <2>2. /\ \A f \in Paths(p) : Installed(p, f)
        /\ Is(p, "init") => \A f \in Files : run[p].entries[f] = OnDisk(p, f)
    BY <1>1, <2>1 DEF At
  <2>3. /\ \A f \in Paths(p)' : Installed(p, f)'
        /\ Is(p, "init") => \A f \in Files : run'[p].entries[f] = OnDisk(p, f)'
    BY <2>1, <2>2, StaysInstalled
  <2>4. Finishes(p)'
    BY <1>1, <2>1, <2>3 DEF Finishes, Is, At
  <2> QED
    BY <1>1, <2>1, <2>4 DEF Done, Compared, Fresh, Copies, Copying, Is, At
<1> QED
  BY <1>4, <1>5, <1>6, <1>7, <1>8 DEF CopySteps

LEMMA MigrateDone ==
  ASSUME TypeInv, NEW p \in Procs, Done(p), MigrateSteps(p)
  PROVE  Done(p)'
<1>0. Shape /\ InPlace(p) /\ RunTyped(p)
  BY DEF TypeInv, Places
<1>1. Is(p, "migrate")
  BY <1>0 DEF MigrateSteps, MigrateRead, SkipStep, ApplyStep, StepFails, StepsDone, InPlace, At
<1>2. ASSUME run'[p].cmd = run[p].cmd, run'[p].pc \in {"locking", "running"}
      PROVE  Done(p)'
  BY <1>1, <1>2, NothingDone DEF Copying, Closing, Is
<1>3. ASSUME run'[p].cmd = run[p].cmd, run'[p].pc = "manifest",
             run'[p].code = 0 => run'[p].seen.version = run'[p].cmd.to
      PROVE  Done(p)'
  BY <1>1, <1>3 DEF Done, Compared, Fresh, Copies, Finishes, Copying, Closing, Is, At
<1>4. CASE MigrateRead(p)
  <2>1. CASE \E code : Ends(p, code)
    BY <1>0, <2>1, IdleDone DEF Ends, Idle, Shape
  <2>2. CASE ~\E code : Ends(p, code)
    <3>1. \E steps : run' = [run EXCEPT ![p].pc = "locking", ![p].seen = manifest,
                                        ![p].todo = steps]
      BY <1>4, <2>2 DEF MigrateRead, MigratePlan
    <3>2. run'[p].pc = "locking" /\ run'[p].cmd = run[p].cmd
      BY <1>0, <3>1 DEF Shape, RunFields
    <3> QED
      BY <1>2, <3>2
  <2> QED
    BY <2>1, <2>2
<1>5. CASE SkipStep(p) \/ ApplyStep(p)
  <2>1. run'[p].pc = "running" /\ run'[p].cmd = run[p].cmd
    BY <1>0, <1>5 DEF SkipStep, ApplyStep, Shape, RunFields, At
  <2> QED
    BY <1>2, <2>1
<1>6. CASE StepFails(p)
  <2>1. run'[p].pc = "manifest" /\ run'[p].code = 4 /\ run'[p].cmd = run[p].cmd
    BY <1>0, <1>6 DEF StepFails, Shape, RunFields
  <2> QED
    BY <1>3, <2>1
<1>7. CASE StepsDone(p)
  <2>1. /\ run'[p].pc = "manifest" /\ run'[p].cmd = run[p].cmd
        /\ run'[p].seen = [run[p].seen EXCEPT !.version = run[p].cmd.to]
    BY <1>0, <1>7 DEF StepsDone, Shape, RunFields
  <2>2. run[p].seen \in ManifestType
    BY <1>0, <1>1, <1>7 DEF StepsDone, RunTyped, Due, At
  <2>3. run'[p].seen.version = run[p].cmd.to
    BY <2>1, <2>2 DEF ManifestType
  <2> QED
    BY <1>3, <2>1, <2>3
<1> QED
  BY <1>4, <1>5, <1>6, <1>7 DEF MigrateSteps

LEMMA DoctorDone ==
  ASSUME TypeInv, NEW p \in Procs, Done(p), DoctorSteps(p)
  PROVE  Done(p)'
<1>0. Shape /\ InPlace(p) /\ RunTyped(p)
  BY DEF TypeInv, Places
<1>1. ASSUME NEW code, Ends(p, code)
      PROVE  Done(p)'
  BY <1>0, <1>1, IdleDone DEF Ends, Idle, Shape
<1>2. CASE VersionShow(p)
  BY <1>1, <1>2 DEF VersionShow
<1>3. CASE ~VersionShow(p) /\ ~\E code : Ends(p, code)
  <2>1. Is(p, "doctor")
    BY <1>0, <1>3 DEF DoctorSteps, DoctorRules, PresenceCheck, IntegrityRead, IntegrityFile,
       DoctorExit, InPlace, At
  <2>2. run'[p].cmd = run[p].cmd /\ run'[p].pc \in {"presence", "integrity", "verifying"}
    <3>1. CASE DoctorRules(p)
      BY <1>0, <1>3, <3>1 DEF DoctorRules, Shape, RunFields
    <3>2. CASE PresenceCheck(p)
      BY <1>0, <3>2 DEF PresenceCheck, Shape, RunFields
    <3>3. CASE IntegrityRead(p)
      BY <1>0, <1>3, <3>3 DEF IntegrityRead, Goto, Shape, RunFields
    <3>4. CASE IntegrityFile(p)
      BY <1>0, <3>4 DEF IntegrityFile, Shape, RunFields, At
    <3> QED
      BY <1>3, <3>1, <3>2, <3>3, <3>4 DEF DoctorSteps, DoctorExit
  <2> QED
    BY <2>1, <2>2, NothingDone DEF Copying, Closing, Is
<1> QED
  BY <1>1, <1>2, <1>3

\* What is written is a manifest.
LEMMA WritesAManifest ==
  ASSUME TypeInv, NEW p \in Procs, At(p, "writing")
  PROVE  NewManifest(p) \in ManifestType
<1>0. InPlace(p) /\ RunTyped(p)
  BY DEF TypeInv, Places
<1>1. CASE Is(p, "migrate")
  <2>1. run[p].seen \in ManifestType
    BY <1>0, <1>1 DEF RunTyped, Due, At
  <2> QED
    BY <1>1, <2>1 DEF NewManifest
<1>2. CASE ~Is(p, "migrate")
  <2>1. run[p].cmd \in Command
    BY <1>0, CommandsAssumption DEF InPlace, NoCommand, At
  <2>2. run[p].cmd.v \in Versions
    BY <2>1 DEF Command
  <2>3. run[p].entries \in [Files -> Bytes \cup {Missing, Partial}]
    BY <1>0 DEF RunTyped, FieldsTyped
  <2> DEFINE applied == IF Is(p, "update") THEN run[p].seen.applied ELSE {}
  <2>4. applied \in SUBSET (Migrations \X {"up", "down"})
    <3>1. Is(p, "update") => run[p].seen \in ManifestType
      BY <1>0 DEF RunTyped, Due, At
    <3> QED
      BY <3>1 DEF ManifestType
  <2>5. NewManifest(p) = [version |-> run[p].cmd.v, files |-> run[p].entries, applied |-> applied]
    BY <1>2 DEF NewManifest
  <2> HIDE DEF applied
  <2> QED
    BY <2>2, <2>3, <2>4, <2>5 DEF ManifestType
<1> QED
  BY <1>1, <1>2

LEMMA ManifestDone ==
  ASSUME TypeInv, NEW p \in Procs, Done(p), ManifestSteps(p) \/ Kill(p)
  PROVE  Done(p)'
<1>0. Shape /\ InPlace(p) /\ RunTyped(p) /\ SharedTyped
  BY DEF TypeInv, Places
<1>1. CASE TruncateManifest(p)
  <2>1. /\ run'[p].pc = "writing" /\ run'[p].open /\ torn' /\ run'[p].cmd = run[p].cmd
        /\ run'[p].entries = run[p].entries /\ run'[p].drift = run[p].drift
        /\ run'[p].seen = run[p].seen /\ run'[p].code = run[p].code /\ disk' = disk
        /\ At(p, "manifest")
    BY <1>0, <1>1 DEF TruncateManifest, Shape, RunFields
  <2>2. /\ ~Is(p, "migrate") =>
             /\ \A f \in Paths(p) : Installed(p, f)
             /\ \A f \in Files : run[p].entries[f] = OnDisk(p, f)
        /\ Is(p, "migrate") /\ run[p].code = 0 => run[p].seen.version = run[p].cmd.to
    BY <2>1 DEF Done, Finishes, Closing, At
  <2>3. ~Is(p, "migrate") =>
             /\ \A f \in Paths(p)' : Installed(p, f)'
             /\ \A f \in Files : run'[p].entries[f] = OnDisk(p, f)'
    BY <2>1, <2>2, StaysInstalled
  <2>4. Finishes(p)'
    BY <2>1, <2>2, <2>3 DEF Finishes, Is, At
  <2> QED
    BY <2>1, <2>4 DEF Done, Compared, Fresh, Copies, Copying, Is, At
<1>2. CASE WriteManifest(p)
  <2>1. /\ run'[p].pc = "releasing" /\ run'[p].cmd = run[p].cmd /\ run'[p].code = run[p].code
        /\ run'[p].drift = run[p].drift /\ disk' = disk /\ At(p, "writing")
    BY <1>0, <1>2 DEF WriteManifest, Shape, RunFields
  <2>2. manifest' = NewManifest(p) /\ ~torn'
    BY <1>2, <2>1 DEF WriteManifest, Done, Finishes, At
  <2>3. /\ ~Is(p, "migrate") =>
             /\ \A f \in Paths(p) : Installed(p, f)
             /\ \A f \in Files : run[p].entries[f] = OnDisk(p, f)
        /\ Is(p, "migrate") /\ run[p].code = 0 => run[p].seen.version = run[p].cmd.to
    BY <2>1 DEF Done, Finishes, Closing, At
  <2>4. manifest' # NoManifest
    BY <2>1, <2>2, WritesAManifest, NoManifestAssumption
  <2>5. run'[p].code = 0 => Complete(p)'
    <3>1. CASE Is(p, "migrate")
      BY <2>1, <2>2, <2>3, <2>4, <3>1 DEF Complete, NewManifest, Is
    <3>2. CASE ~Is(p, "migrate")
      <4>1. /\ \A f \in Paths(p)' : Installed(p, f)'
            /\ \A f \in Files : run[p].entries[f] = OnDisk(p, f)'
        BY <2>1, <2>3, <3>2, StaysInstalled
      <4>2. manifest'.version = run[p].cmd.v /\ manifest'.files = run[p].entries
        BY <2>2, <3>2 DEF NewManifest
      <4> QED
        BY <2>1, <2>2, <2>4, <3>2, <4>1, <4>2 DEF Complete, Is
    <3> QED
      BY <3>1, <3>2
  <2> QED
    BY <2>1, <2>5 DEF Done, Compared, Fresh, Copies, Finishes, Copying, Closing, Is, At
<1>3. CASE WriteFails(p)
  <2>1. run'[p].pc = "releasing" /\ run'[p].code = 10
    BY <1>0, <1>3 DEF WriteFails, Shape, RunFields
  <2> QED
    BY <2>1 DEF Done, Compared, Fresh, Copies, Finishes, Copying, Closing, Is, At
<1>4. CASE Kill(p)
  BY <1>0, <1>4, IdleDone DEF Kill, Idle, Shape
<1> QED
  BY <1>1, <1>2, <1>3, <1>4 DEF ManifestSteps

\* The user leaves the framework alone while a command runs.
LEMMA UserWaits ==
  ASSUME ~EditsDuringRuns, EditFile
  PROVE  \A p \in Procs : At(p, "idle")
BY DEF EditFile, UserMayAct

LEMMA CopyStep ==
  ASSUME ~EditsDuringRuns, "read" \notin Faults, CopyInv, OneAtATime, OneAtATime', [Next]_vars
  PROVE  CopyInv'
<1>0. TypeInv /\ TypeInv' /\ Places /\ Shape
  BY TypeStep DEF CopyInv, TypeInv, Places
<1>1. ASSUME NEW p \in Procs, ProcessStep(p)
      PROVE  CopyInv'
  <2>1. \A q \in Procs \ {p} : At(q, "idle") /\ run'[q] = run[q]
    BY <1>0, <1>1, Alone
  <2>2. Done(p)'
    <3>1. CASE \E c \in Commands : Begin(p, c)
      <4>1. PICK c \in Commands : Begin(p, c)
        BY <3>1
      <4>2. /\ run'[p].pc = c.kind /\ run'[p].cmd = c /\ run'[p].entries = NoEntries
            /\ c.kind \in {"init", "update", "migrate", "doctor", "version"}
        BY <1>0, <4>1, CommandsAssumption DEF Begin, Idle, Shape, Command
      <4> QED
        BY <4>2 DEF Done, Compared, Fresh, Copies, Finishes, Copying, Closing, Is, At
    <3> QED
      BY <1>0, <1>1, <3>1, InitDone, UpdateDone, Copied, MigrateDone, DoctorDone, LockDone,
         ManifestDone DEF CopyInv, ProcessStep
  <2>3. \A q \in Procs \ {p} : Done(q)'
    BY <1>0, <2>1, IdleDone DEF Places, InPlace, At
  <2> QED
    BY <1>0, <2>2, <2>3 DEF CopyInv
<1>2. CASE EditFile
  <2>1. ASSUME NEW q \in Procs
        PROVE  Done(q)'
    <3>1. At(q, "idle") /\ run[q].cmd = NoCommand
      BY <1>0, <1>2, UserWaits DEF Places, InPlace
    <3>2. run'[q].pc = run[q].pc /\ run'[q].cmd = run[q].cmd
      BY <1>0, <1>2 DEF EditFile, Detached, Shape, RunFields
    <3> QED
      BY <3>1, <3>2, IdleDone DEF At
  <2> QED
    BY <1>0, <2>1 DEF CopyInv
<1>3. CASE AuthorDocs \/ RemoveStaleLock \/ UNCHANGED vars
  <2>1. UNCHANGED <<run, disk, manifest, torn>>
    BY <1>3 DEF AuthorDocs, RemoveStaleLock, vars
  <2>2. ASSUME NEW q \in Procs
        PROVE  Done(q)'
    <3>1. Complete(q)' <=> Complete(q)
      BY <2>1, StaysInstalled DEF Complete, Is
    <3>2. Compared(q)' /\ Fresh(q)'
      BY <2>1 DEF CopyInv, Done, Compared, Fresh, Paths, Bundled, Is, At
    <3>3. Copies(q)'
      BY <2>1 DEF CopyInv, Done, Copies, Installed, Kept, OnDisk, Paths, Bundled, Is, At
    <3>4. Finishes(q)'
      BY <2>1, <3>1 DEF CopyInv, Done, Finishes, Installed, Kept, OnDisk, Paths, Bundled, Is, At
    <3> QED
      BY <3>2, <3>3, <3>4 DEF Done
  <2> QED
    BY <1>0, <2>2 DEF CopyInv
<1> QED
  BY <1>1, <1>2, <1>3 DEF Next, ProcessStep

LEMMA CopyInit == Init => CopyInv
<1> SUFFICES ASSUME Init
             PROVE  CopyInv
  OBVIOUS
<1>1. TypeInv
  BY TypeInit
<1>2. \A p \in Procs : run[p].pc = "idle" /\ run[p].cmd = NoCommand
  BY DEF Init, Idle
<1> QED
  BY <1>1, <1>2 DEF CopyInv, Done, Compared, Fresh, Copies, Finishes, Copying, Closing,
     NoCommand, Is, At

\* A command that exits 0 after the lock has done its work in full (init.ts, update.ts,
\* migrate.ts): for any number of files, versions and commands one after the other,
\* whatever is killed in between and whichever writes, deletions and steps fail, as
\* long as reads succeed, no two commands run at a time, the user waits for them, and
\* nobody asks update --strategy=ours to keep what an earlier one left half-written.
THEOREM ExitsComplete ==
  ASSUME ~EditsDuringRuns, "read" \notin Faults, \A c \in Commands : c.strategy # "ours"
  PROVE  Spec /\ []OneAtATime => ExitZeroIsComplete
<1>1. Init => CopyInv
  BY CopyInit
<1>2. CopyInv /\ OneAtATime /\ OneAtATime' /\ [Next]_vars => CopyInv'
  BY CopyStep
<1>3. CopyInv =>
        \A p \in Procs :
          At(p, "releasing") /\ At(p, "idle")' /\ run[p].code = 0 /\ run'[p].code = 0 =>
            /\ ~torn
            /\ manifest # NoManifest
            /\ manifest.version = IF Is(p, "migrate") THEN run[p].cmd.to ELSE run[p].cmd.v
            /\ ~Is(p, "migrate") =>
                 \A f \in Paths(p) : /\ disk[f] \in UserBytes \cup {Bundled(p)[f]}
                                     /\ manifest.files[f] = disk[f]
  <2> SUFFICES ASSUME CopyInv, NEW p \in Procs, At(p, "releasing"), run[p].code = 0
               PROVE  /\ ~torn
                      /\ manifest # NoManifest
                      /\ manifest.version = IF Is(p, "migrate") THEN run[p].cmd.to ELSE run[p].cmd.v
                      /\ ~Is(p, "migrate") =>
                           \A f \in Paths(p) : /\ disk[f] \in UserBytes \cup {Bundled(p)[f]}
                                               /\ manifest.files[f] = disk[f]
    OBVIOUS
  <2>1. Complete(p)
    BY DEF CopyInv, Done, Finishes
  <2>2. run[p].cmd \in Commands /\ run[p].cmd.kind \in {"init", "update", "migrate"} /\ InPlace(p)
    BY DEF CopyInv, TypeInv, Places, InPlace, NoCommand, At
  <2>3. ~Is(p, "migrate") => Paths(p) \subseteq Files
    BY <2>2, BundledBytes DEF Is
  <2>4. \A f : ~Kept(p, f)
    BY <2>2 DEF Kept
  <2> QED
    BY <2>1, <2>3, <2>4 DEF Complete, Installed, OnDisk
<1> QED
  BY <1>1, <1>2, <1>3, PTL DEF Spec, ExitZeroIsComplete

-------------------------------------------------------------------------------
(* What the files and the manifest say of each other *)

\* No command dies or fails after the lock, none migrates, and no init --force is that
\* of an older CLI.
Orderly ==
  /\ ~EditsDuringRuns /\ ~Kills /\ {"read", "write"} \cap Faults = {}
  /\ \A c \in Commands : c.kind # "migrate"
  /\ \A c \in Commands : c.kind = "init" /\ c.force => \A v \in Versions : v <= c.v

\* Where a run may leave the files and the manifest apart.
Working == PastLock \ {"releasing"}

\* No command has written what is there, if anything is.
Foreign(f) == disk[f] \in UserBytes \cup {Missing}

\* The manifest has the paths of its version, with bytes of that version or bytes that
\* --strategy=ours has kept, and the disk has what is recorded, or what a user has made
\* of it since, or what an earlier version has left.
Sound(f) ==
  LET v == manifest.version
      recorded == manifest.files[f]
  IN  /\ recorded # Missing <=> f \in DOMAIN Bundle[v]
      /\ recorded # Missing => recorded \in UserBytes \/ Dropped(f, v) \/ recorded = Bundle[v][f]
      /\ \/ Foreign(f) \/ disk[f] = recorded
         \/ recorded = Missing /\ Dropped(f, v)
      /\ recorded # Missing /\ disk[f] = Missing => edits > 0

Agrees ==
  (\A p \in Procs : run[p].pc \notin Working) =>
    \A f \in Files : IF manifest = NoManifest THEN Foreign(f) ELSE Sound(f)

\* What init and update leave alone is a user's, or an earlier version's.
Leaves(p) ==
  /\ run[p].cmd.kind \in {"init", "update"} => run[p].code = 0
  /\ run[p].pc \in Working =>
       /\ \A f \in Files \ Paths(p) : Foreign(f) \/ Dropped(f, run[p].cmd.v)
       /\ \A f \in Files : Kept(p, f) => disk[f] \in UserBytes \/ Dropped(f, run[p].cmd.v)
       /\ Is(p, "update") /\ run[p].cmd.strategy = "ours" => run[p].todo \cap run[p].drift = {}

\* So is what update reports.
Reports(p) ==
  Is(p, "update") /\ run[p].pc \in {"comparing", "locking"} =>
    /\ \A f \in run[p].drift : disk[f] \in UserBytes \/ Dropped(f, run[p].cmd.v)
    /\ run[p].stale \cap run[p].drift = {}
    /\ At(p, "comparing") => run[p].todo \cap (run[p].stale \cup run[p].drift) = {}

\* What doctor has to look at, if it has a bundle, and has found so far.
Diagnoses(p) ==
  /\ run[p].pc \in {"presence", "integrity"} => run[p].todo \in {{}, Paths(p)}
  /\ At(p, "verifying") =>
       /\ manifest # NoManifest /\ manifest.version = run[p].cmd.v
       /\ \A f \in Paths(p) : f \in run[p].todo \cup run[p].drift \/ disk[f] = Bundled(p)[f]
  /\ run[p].pc \in {"integrity", "verifying"} /\ run[p].cmd.rule = "all" /\ ~SourceRepo =>
       run[p].code > 0 \/ (manifest # NoManifest /\ ~torn)

SoundInv ==
  /\ OrderInv /\ CopyInv /\ Agrees
  /\ \A p \in Procs : Leaves(p) /\ Reports(p) /\ Diagnoses(p)

\* p goes on with its work.
WorksOn(p) ==
  /\ run'[p].pc \in Working
  /\ run'[p].cmd = run[p].cmd /\ run'[p].drift = run[p].drift /\ run'[p].code = run[p].code
  /\ Is(p, "update") => run'[p].todo \subseteq run[p].todo

\* Work that has begun is finished.
LEMMA WorkEnds ==
  ASSUME Orderly, TypeInv, NEW p \in Procs, Done(p), run[p].pc \in Working, ProcessStep(p)
  PROVE  WriteManifest(p) \/ WorksOn(p)
<1>0. Shape /\ InPlace(p) /\ RunTyped(p) /\ SharedTyped
  BY DEF TypeInv, Places
<1>1. /\ run[p].pc \in Copying \cup Closing \cup {"listing", "erasing"}
      /\ run[p].cmd \in Commands /\ run[p].cmd.kind # "migrate"
  <2>1. run[p].cmd \in Commands
    BY <1>0 DEF InPlace, At, Working, PastLock, Holding, Copying
  <2>2. ~At(p, "running")
    BY <1>0, <2>1 DEF Orderly, InPlace, Is, At
  <2> QED
    BY <2>1, <2>2 DEF Orderly, Working, PastLock, Holding, Closing, At
<1>2. \A pc \in Copying \cup Closing \cup {"erasing"} : pc \in Working
  BY DEF Working, PastLock, Holding, Copying, Closing
<1>3. CASE InitSteps(p)
  <2>0. Is(p, "init")
    BY <1>0, <1>3 DEF InitSteps, InitProbe, EraseGate, InitPreview, ListTargets, EraseTarget,
       EraseRefused, EraseDone, CheckDocs, PlaceDocs, InPlace, At
  <2>1. CASE ListTargets(p) \/ EraseRefused(p) \/ EraseDone(p)
    BY <1>0, <1>2, <2>0, <2>1
    DEF ListTargets, EraseRefused, EraseDone, WorksOn, Shape, RunFields, Copying, Is, At
  <2>2. CASE EraseTarget(p)
    BY <1>0, <1>2, <2>0, <2>2 DEF EraseTarget, Detached, WorksOn, Shape, RunFields, Is, At
  <2>3. CASE CheckDocs(p) \/ PlaceDocs(p)
    BY <1>0, <1>2, <2>0, <2>3 DEF CheckDocs, PlaceDocs, Goto, WorksOn, Closing, Shape, RunFields, Is, At
  <2> QED
    BY <1>1, <1>3, <2>1, <2>2, <2>3 DEF InitSteps, InitProbe, EraseGate, InitPreview, Copying, Closing, At
<1>4. CASE UpdateSteps(p)
  <2>1. Rebuild(p)
    BY <1>1, <1>4 DEF UpdateSteps, UpdateRead, CompareFile, UpdateDecide, Copying, Closing, At
  <2> QED
    BY <1>0, <1>2, <2>1 DEF Rebuild, WorksOn, Closing, Shape, RunFields
<1>5. CASE CopySteps(p)
  <2>1. CASE CopyUnlink(p)
    <3>1. At(p, "copying") /\ ~run[p].open
      BY <1>0, <2>1 DEF CopyUnlink, InPlace, At
    <3>2. PICK f : run' = [Detached(run, f) EXCEPT ![p].pc = "creating", ![p].cur = f]
      BY <2>1 DEF CopyUnlink
    <3>3. Detached(run, f)[p] = run[p] /\ DOMAIN Detached(run, f) = Procs
      BY <3>1 DEF Detached
    <3> QED
      BY <1>0, <1>2, <3>2, <3>3 DEF WorksOn, Copying, Shape, RunFields
  <2>2. CASE CopyCreate(p)
    <3>1. disk[run[p].cur] = Missing
      BY <2>2 DEF CopyCreate, Done, Copies, Copying, At
    <3> QED
      BY <1>0, <1>2, <2>2, <3>1 DEF CopyCreate, WorksOn, Copying, Shape, RunFields
  <2>3. CASE CopyFill(p)
    <3>1. PICK pc \in {"hashing", "copying"} :
            run' = [run EXCEPT ![p].pc = pc, ![p].todo = @ \ {run[p].cur}, ![p].open = FALSE]
      BY <2>3 DEF CopyFill
    <3> QED
      BY <1>0, <1>2, <3>1 DEF WorksOn, Copying, Shape, RunFields
  <2>4. CASE HashCopied(p)
    <3>1. Is(p, "init") /\ run[p].cur \in Paths(p) \ run[p].todo
      BY <1>0, <2>4 DEF HashCopied, InPlace, Done, Copies, Copying, At
    <3>2. Installed(p, run[p].cur)
      BY <2>4, <3>1 DEF HashCopied, Done, Copies, Copying, At
    <3>3. disk[run[p].cur] \in Bytes
      BY <1>0, <3>1, <3>2, BundledBytes DEF Installed, Kept, Is
    <3> QED
      BY <1>0, <1>2, <2>4, <3>1, <3>3, BytesAssumption
      DEF HashCopied, WorksOn, Copying, Shape, RunFields, Is
  <2>5. CASE CopyDone(p)
    <3>1. PICK pc \in {"placeholders", "rebuilding"} : Goto(p, pc)
      BY <2>5 DEF CopyDone
    <3> QED
      BY <1>0, <1>2, <3>1 DEF Goto, WorksOn, Closing, Shape, RunFields
  <2> QED
    BY <1>5, <2>1, <2>2, <2>3, <2>4, <2>5 DEF CopySteps
<1>6. CASE ManifestSteps(p) \/ Kill(p)
  <2>1. TruncateManifest(p) \/ WriteManifest(p)
    BY <1>6 DEF ManifestSteps, WriteFails, Kill, Orderly
  <2>2. CASE TruncateManifest(p)
    BY <1>0, <1>2, <2>2 DEF TruncateManifest, WorksOn, Closing, Shape, RunFields
  <2> QED
    BY <2>1, <2>2
<1>7. ~MigrateSteps(p) /\ ~DoctorSteps(p) /\ ~LockSteps(p) /\ ~\E c \in Commands : Begin(p, c)
  <2>1. ~MigrateSteps(p)
    BY <1>1 DEF MigrateSteps, MigrateRead, SkipStep, ApplyStep, StepFails, StepsDone, Copying, Closing, At
  <2>2. ~DoctorSteps(p)
    BY <1>1 DEF DoctorSteps, DoctorRules, PresenceCheck, IntegrityRead, IntegrityFile, DoctorExit,
       VersionShow, Copying, Closing, At
  <2>3. ~LockSteps(p) /\ ~\E c \in Commands : Begin(p, c)
    BY <1>1 DEF LockSteps, AcquireLock, LockHeld, Release, Begin, Copying, Closing, At
  <2> QED
    BY <2>1, <2>2, <2>3
<1> QED
  BY <1>3, <1>4, <1>5, <1>6, <1>7 DEF ProcessStep

\* A run that is not at work leaves what is there alone, and begins to work with the lock.
LEMMA LeavesAlone ==
  ASSUME TypeInv, TypeInv', NEW p \in Procs, run[p].pc \notin Working, ProcessStep(p)
  PROVE  /\ UNCHANGED <<disk, manifest, torn, edits>>
         /\ run'[p].pc \in Working => AcquireLock(p)
<1>0. Shape /\ InPlace(p) /\ RunTyped(p) /\ SharedTyped /\ SharedTyped' /\ DOMAIN disk = Files
  BY DEF TypeInv, Places, SharedTyped
<1>1. run[p].pc \notin {"erasing", "listing", "copying", "creating", "filling", "manifest", "writing"}
  BY DEF Working, PastLock, Holding, Copying
<1>2. edits' = edits /\ torn' = torn
  BY <1>0, <1>1, Effects DEF TruncateManifest, At
<1>3. manifest' = manifest
  BY <1>1, ManifestStep DEF WriteManifest, EraseTarget, At
<1>4. disk' = disk
  <2>1. \A f \in Files : disk'[f] = disk[f]
    BY <1>0, <1>1, Effects DEF Changes, EraseTarget, CopyUnlink, CopyCreate, At
  <2>2. disk \in [Files -> Bytes \cup {Missing, Partial}] /\ disk' \in [Files -> Bytes \cup {Missing, Partial}]
    BY <1>0 DEF SharedTyped
  <2> QED
    BY <2>1, <2>2
<1>5. run'[p].pc \in Working => AcquireLock(p)
  BY <1>0, <1>1, Arrivals DEF Arrives, Working, PastLock, Holding, At
<1> QED
  BY <1>2, <1>3, <1>4, <1>5

\* Nothing fails before the lock but the command, and update alone goes on to compare.
LEMMA CodeStays ==
  ASSUME Orderly, TypeInv, NEW p \in Procs, run[p].pc \notin Working, ProcessStep(p),
         run[p].cmd.kind \in {"init", "update"} => run[p].code = 0
  PROVE  /\ run'[p].cmd.kind \in {"init", "update"} => run'[p].code = 0
         /\ Is(p, "update")' /\ run'[p].pc \in {"comparing", "locking"} =>
              UpdateRead(p) \/ CompareFile(p) \/ (UpdateDecide(p) /\ Goto(p, "locking"))
<1> DEFINE Looks == UpdateRead(p) \/ CompareFile(p) \/ (UpdateDecide(p) /\ Goto(p, "locking"))
           Goal == /\ run'[p].cmd.kind \in {"init", "update"} => run'[p].code = 0
                   /\ Is(p, "update")' /\ run'[p].pc \in {"comparing", "locking"} => Looks
<1>0. Shape /\ InPlace(p) /\ RunTyped(p)
  BY DEF TypeInv, Places
<1>1. ASSUME NEW code, run'[p] = Idle(code)
      PROVE  Goal
  BY <1>1 DEF Idle, NoCommand, Is
<1>2. ASSUME NEW code, Ends(p, code)
      PROVE  Goal
  BY <1>0, <1>1, <1>2 DEF Ends, Shape
<1>3. ASSUME run'[p].cmd = run[p].cmd, run'[p].code = run[p].code,
             ~Is(p, "update") \/ run'[p].pc \notin {"comparing", "locking"}
      PROVE  Goal
  BY <1>3 DEF Is
<1>4. ASSUME run'[p].cmd = run[p].cmd, run[p].cmd.kind \notin {"init", "update"}
      PROVE  Goal
  BY <1>4 DEF Is
<1> HIDE DEF Goal
<1>5. CASE \E c \in Commands : Begin(p, c)
  <2>1. PICK c \in Commands : Begin(p, c)
    BY <1>5
  <2>2. /\ run'[p].code = 0 /\ run'[p].pc = c.kind
        /\ c.kind \in {"init", "update", "migrate", "doctor", "version"}
    BY <1>0, <2>1, CommandsAssumption DEF Begin, Idle, Shape, Command
  <2> QED
    BY <2>2 DEF Goal
<1>6. CASE InitSteps(p)
  <2>1. run[p].pc \notin {"listing", "erasing", "placeholders", "placing"}
    BY DEF Working, PastLock, Holding
  <2>2. InitProbe(p) \/ EraseGate(p) \/ InitPreview(p)
    BY <1>6, <2>1 DEF InitSteps, ListTargets, EraseTarget, EraseRefused, EraseDone, CheckDocs,
       PlaceDocs, At
  <2>3. Is(p, "init")
    BY <1>0, <2>2 DEF InitProbe, EraseGate, InitPreview, InPlace, At
  <2>4. CASE \E pc : Goto(p, pc)
    <3>1. run'[p].cmd = run[p].cmd /\ run'[p].code = run[p].code
      BY <1>0, <2>4 DEF Goto, Shape, RunFields
    <3> QED
      BY <1>3, <2>3, <3>1 DEF Is
  <2> QED
    BY <1>2, <2>2, <2>4 DEF InitProbe, EraseGate, InitPreview, Goal
<1>7. CASE UpdateSteps(p)
  <2>1. ~Rebuild(p)
    BY DEF Rebuild, Working, PastLock, Holding, At
  <2>2. CASE ~\E code : Ends(p, code)
    <3>1. CASE UpdateRead(p)
      <4>1. run' = [run EXCEPT ![p].pc = "comparing", ![p].seen = manifest, ![p].todo = Paths(p)]
        BY <2>2, <3>1 DEF UpdateRead
      <4>2. run'[p].cmd = run[p].cmd /\ run'[p].code = run[p].code
        BY <1>0, <4>1 DEF Shape, RunFields
      <4> QED
        BY <3>1, <4>2 DEF Goal
    <3>2. CASE CompareFile(p)
      <4>1. run'[p].cmd = run[p].cmd /\ run'[p].code = run[p].code
        BY <1>0, <3>2 DEF CompareFile, Shape, RunFields
      <4> QED
        BY <3>2, <4>1 DEF Goal
    <3>3. CASE UpdateDecide(p)
      <4>1. Goto(p, "locking")
        BY <2>2, <3>3 DEF UpdateDecide
      <4>2. run'[p].cmd = run[p].cmd /\ run'[p].code = run[p].code
        BY <1>0, <4>1 DEF Goto, Shape, RunFields
      <4> QED
        BY <3>3, <4>1, <4>2 DEF Goal
    <3> QED
      BY <1>7, <2>1, <3>1, <3>2, <3>3 DEF UpdateSteps
  <2> QED
    BY <1>2, <2>2 DEF Goal
<1>8. CASE MigrateSteps(p)
  <2>1. Is(p, "migrate")
    BY <1>0, <1>8 DEF MigrateSteps, MigrateRead, SkipStep, ApplyStep, StepFails, StepsDone, InPlace, At
  <2>2. run[p].cmd \in Commands
    BY <1>0, <2>1 DEF InPlace, NoCommand, Is
  <2> QED
    BY <2>1, <2>2 DEF Orderly, Is
<1>9. CASE DoctorSteps(p)
  <2>1. CASE VersionShow(p)
    BY <1>2, <2>1 DEF VersionShow, Goal
  <2>2. CASE ~VersionShow(p) /\ ~\E code : Ends(p, code)
    <3>1. Is(p, "doctor")
      BY <1>0, <1>9, <2>2 DEF DoctorSteps, DoctorRules, PresenceCheck, IntegrityRead, IntegrityFile,
         DoctorExit, InPlace, At
    <3>2. run'[p].cmd = run[p].cmd
      <4>1. CASE DoctorRules(p)
        BY <1>0, <2>2, <4>1 DEF DoctorRules, Shape, RunFields
      <4>2. CASE PresenceCheck(p)
        BY <1>0, <4>2 DEF PresenceCheck, Shape, RunFields
      <4>3. CASE IntegrityRead(p)
        BY <1>0, <2>2, <4>3 DEF IntegrityRead, Goto, Shape, RunFields
      <4>4. CASE IntegrityFile(p)
        BY <1>0, <4>4 DEF IntegrityFile, Shape, RunFields, At
      <4> QED
        BY <1>9, <2>2, <4>1, <4>2, <4>3, <4>4 DEF DoctorSteps, DoctorExit
    <3> QED
      BY <1>4, <3>1, <3>2 DEF Is
  <2> QED
    BY <1>2, <2>1, <2>2 DEF Goal
<1>10. CASE LockSteps(p)
  <2>1. CASE LockHeld(p) \/ Release(p)
    <3>1. \E code : run'[p] = Idle(code)
      BY <1>0, <2>1 DEF LockHeld, Release, Ends, Shape
    <3> QED
      BY <1>1, <3>1 DEF Goal
  <2>2. CASE AcquireLock(p)
    <3>1. /\ run'[p].cmd = run[p].cmd /\ run'[p].code = run[p].code
          /\ run'[p].pc \in {"running", "listing", "copying"}
      BY <1>0, <2>2 DEF AcquireLock, Shape, RunFields
    <3> QED
      BY <1>3, <3>1
  <2> QED
    BY <1>10, <2>1, <2>2 DEF LockSteps
<1>11. ~CopySteps(p) /\ ~ManifestSteps(p)
  BY DEF CopySteps, CopyUnlink, CopyCreate, CopyFill, HashCopied, CopyDone, ManifestSteps,
     TruncateManifest, WriteManifest, WriteFails, Orderly, Working, PastLock, Holding, Copying, At
<1> QED
  BY <1>5, <1>6, <1>7, <1>8, <1>9, <1>10, <1>11 DEF ProcessStep, Kill, Orderly, Goal

\* A path an earlier version has dropped is one a later version has seen dropped.
LEMMA DroppedLater ==
  ASSUME NEW f, NEW v \in Versions, NEW w \in Versions, v <= w, Dropped(f, v)
  PROVE  Dropped(f, w)
<1>1. PICK old, new \in Versions :
        old < new /\ new <= v /\ f \in DOMAIN Bundle[old] /\ f \notin DOMAIN Bundle[new]
  BY DEF Dropped
<1>2. new \in Nat /\ v \in Nat /\ w \in Nat
  BY VersionsAssumption
<1>3. new <= w
  BY <1>1, <1>2
<1> QED
  BY <1>1, <1>3 DEF Dropped

\* Nobody is at work while a run is at a step before the lock, ...
LEMMA NobodyWorks ==
  ASSUME OneAtATime, NEW p \in Procs, run[p].pc \notin Working \cup {"idle"}
  PROVE  \A q \in Procs : run[q].pc \notin Working
<1>1. "idle" \notin Working
  BY DEF Working, PastLock, Holding, Copying
<1> QED
  BY <1>1 DEF OneAtATime, At

\* ... so that the manifest, if there is one, is sound, and of no later version than
\* the bundle of who is about to take the lock or compares.
LEMMA FindsSound ==
  ASSUME Orderly, SoundInv, OneAtATime, NEW p \in Procs,
         At(p, "locking") \/ (At(p, "comparing") /\ Is(p, "update"))
  PROVE  /\ run[p].cmd \in Commands /\ run[p].cmd \in Command /\ run[p].cmd.v \in Versions
         /\ run[p].cmd.kind \in {"init", "update"}
         /\ Is(p, "update") => manifest # NoManifest /\ run[p].seen = manifest
         /\ manifest = NoManifest => \A f \in Files : Foreign(f)
         /\ manifest # NoManifest =>
              /\ manifest \in ManifestType /\ manifest.version \in Versions
              /\ manifest.version <= run[p].cmd.v
              /\ \A f \in Files : Sound(f)
<1>0. InPlace(p) /\ SharedTyped /\ Believes(p)
  BY DEF SoundInv, OrderInv, AskedInv, TypeInv, Places
<1>1. run[p].cmd \in Commands /\ run[p].cmd.kind \in {"init", "update"}
  BY <1>0 DEF InPlace, Orderly, At, Is, NoCommand
<1>2. run[p].cmd \in Command
  BY <1>1, CommandsAssumption
<1>3. run[p].cmd.v \in Versions
  BY <1>2 DEF Command
<1>4. run[p].pc \notin Working \cup {"idle"}
  BY DEF Working, PastLock, Holding, Copying, At
<1>5. \A f \in Files : IF manifest = NoManifest THEN Foreign(f) ELSE Sound(f)
  BY <1>4, NobodyWorks DEF SoundInv, Agrees
<1>6. manifest # NoManifest => manifest \in ManifestType /\ manifest.version \in Versions
  BY <1>0 DEF SharedTyped, ManifestType
<1>7. Is(p, "update") => manifest # NoManifest /\ run[p].seen = manifest /\ manifest.version <= run[p].cmd.v
  BY <1>0 DEF Believes, At
<1>8. manifest # NoManifest => manifest.version <= run[p].cmd.v
  <2>1. CASE Is(p, "init") /\ run[p].cmd.force
    BY <1>1, <1>6, <2>1 DEF Orderly, Is
  <2>2. CASE Is(p, "init") /\ ~run[p].cmd.force
    BY <1>0, <2>2 DEF Believes, At, Is
  <2> QED
    BY <1>1, <1>7, <2>1, <2>2 DEF Is
<1> QED
  BY <1>1, <1>2, <1>3, <1>5, <1>6, <1>7, <1>8

\* A path that a new bundle does not have, or that differs from what is on record, is
\* a user's or an earlier version's.
LEMMA NotOurs ==
  ASSUME Orderly, SoundInv, OneAtATime, NEW p \in Procs,
         At(p, "locking") \/ (At(p, "comparing") /\ Is(p, "update"))
  PROVE  /\ \A f \in Files \ Paths(p) : Foreign(f) \/ Dropped(f, run[p].cmd.v)
         /\ Is(p, "update") => \A f \in Files :
              disk[f] # run[p].seen.files[f] => Foreign(f) \/ Dropped(f, run[p].cmd.v)
<1> DEFINE v == manifest.version
           w == run[p].cmd.v
<1>0. /\ w \in Versions
      /\ Is(p, "update") => manifest # NoManifest /\ run[p].seen = manifest
      /\ manifest = NoManifest => \A f \in Files : Foreign(f)
      /\ manifest # NoManifest => v \in Versions /\ v <= w /\ \A f \in Files : Sound(f)
  BY FindsSound
<1>1. \A f : manifest # NoManifest /\ Dropped(f, v) => Dropped(f, w)
  BY <1>0, DroppedLater
<1>2. ASSUME NEW f \in Files \ Paths(p), manifest # NoManifest, ~Foreign(f)
      PROVE  Dropped(f, w)
  <2>1. CASE disk[f] = manifest.files[f] /\ manifest.files[f] # Missing
    <3>1. f \in DOMAIN Bundle[v] /\ f \notin DOMAIN Bundle[w]
      BY <1>0, <1>2, <2>1 DEF Sound, Paths, Bundled
    <3>2. v \in Nat /\ w \in Nat /\ v # w
      BY <1>0, <1>2, <3>1, VersionsAssumption
    <3>3. v < w
      BY <1>0, <1>2, <3>2
    <3>4. w <= w
      BY <3>2
    <3> QED
      BY <1>0, <1>2, <3>1, <3>3, <3>4 DEF Dropped
  <2>2. CASE ~(disk[f] = manifest.files[f] /\ manifest.files[f] # Missing)
    BY <1>0, <1>1, <1>2, <2>2 DEF Sound, Foreign
  <2> QED
    BY <2>1, <2>2
<1>3. ASSUME Is(p, "update"), NEW f \in Files, disk[f] # run[p].seen.files[f], ~Foreign(f)
      PROVE  Dropped(f, w)
  BY <1>0, <1>1, <1>3 DEF Sound
<1> QED
  BY <1>0, <1>2, <1>3

LEMMA LeavesStep ==
  ASSUME Orderly, SoundInv, TypeInv', OneAtATime, NEW p \in Procs, ProcessStep(p)
  PROVE  Leaves(p)'
<1>0. /\ TypeInv /\ Shape /\ InPlace(p) /\ RunTyped(p) /\ SharedTyped /\ DOMAIN disk = Files
      /\ Done(p) /\ Leaves(p) /\ Reports(p)
  BY DEF SoundInv, CopyInv, TypeInv, Places, SharedTyped
<1>1. CASE run[p].pc \in Working
  <2>1. CASE WriteManifest(p)
    <3>1. run'[p].pc = "releasing" /\ run'[p].cmd = run[p].cmd /\ run'[p].code = run[p].code
      BY <1>0, <2>1 DEF WriteManifest, Shape, RunFields
    <3>2. run'[p].pc \notin Working
      BY <3>1 DEF Working
    <3> QED
      BY <1>0, <3>1, <3>2 DEF Leaves
  <2>2. CASE WorksOn(p)
    <3>1. /\ \A f \in Files : Changes(p, f)
          /\ run'[p].cmd = run[p].cmd /\ run'[p].drift = run[p].drift /\ run'[p].code = run[p].code
          /\ Is(p, "update") => run'[p].todo \subseteq run[p].todo
      BY <1>0, <2>2, Effects DEF WorksOn
    <3>2. \A f \in Files : \/ disk'[f] = disk[f] \/ disk'[f] = Missing
                           \/ f \in run[p].todo /\ run[p].todo \subseteq Paths(p)
      BY <1>0, <3>1 DEF Changes, CopyCreate, InPlace, Copying, At
    <3>3. ASSUME NEW f \in Files \ Paths(p)
          PROVE  Foreign(f)' \/ Dropped(f, run[p].cmd.v)
      BY <1>0, <1>1, <3>2 DEF Leaves, Foreign
    <3>4. ASSUME NEW f \in Files, Kept(p, f)'
          PROVE  disk'[f] \in UserBytes \/ Dropped(f, run[p].cmd.v)
      <4>1. Is(p, "update") /\ run[p].cmd.strategy = "ours" /\ f \in run[p].drift /\ disk'[f] # Missing
        BY <3>1, <3>4 DEF Kept, Is
      <4>2. disk'[f] = disk[f]
        BY <1>0, <1>1, <3>2, <4>1 DEF Leaves
      <4> QED
        BY <1>0, <1>1, <4>1, <4>2 DEF Leaves, Kept
    <3>5. Is(p, "update") /\ run[p].cmd.strategy = "ours" => run'[p].todo \cap run[p].drift = {}
      BY <1>0, <1>1, <3>1 DEF Leaves
    <3> QED
      BY <1>0, <3>1, <3>3, <3>4, <3>5 DEF Leaves, Paths, Bundled, Is
  <2> QED
    BY <1>0, <1>1, <2>1, <2>2, WorkEnds
<1>2. CASE run[p].pc \notin Working
  <2>1. run'[p].cmd.kind \in {"init", "update"} => run'[p].code = 0
    BY <1>0, <1>2, CodeStays DEF Leaves
  <2>2. CASE run'[p].pc \notin Working
    BY <2>1, <2>2 DEF Leaves
  <2>3. CASE AcquireLock(p)
    <3>1. At(p, "locking") /\ disk' = disk
      BY <2>3 DEF AcquireLock
    <3>2. /\ run'[p].cmd = run[p].cmd /\ run'[p].drift = run[p].drift
          /\ Is(p, "update") /\ run[p].cmd.strategy = "ours" => run'[p].todo = run[p].stale
      BY <1>0, <2>3 DEF AcquireLock, Shape, RunFields, Is
    <3>3. \A f \in Files \ Paths(p) : Foreign(f) \/ Dropped(f, run[p].cmd.v)
      BY <3>1, NotOurs
    <3>4. /\ \A f \in Files : Kept(p, f) => disk[f] \in UserBytes \/ Dropped(f, run[p].cmd.v)
          /\ Is(p, "update") => run[p].stale \cap run[p].drift = {}
      BY <1>0, <3>1 DEF Reports, Kept, At
    <3> QED
      BY <2>1, <3>1, <3>2, <3>3, <3>4 DEF Leaves, Kept, Foreign, Paths, Bundled, Is
  <2> QED
    BY <1>0, <1>2, <2>2, <2>3, LeavesAlone
<1> QED
  BY <1>1, <1>2

\* What update and doctor have found so far.
LEMMA ReportsStep ==
  ASSUME Orderly, SoundInv, OneAtATime, NEW p \in Procs, ProcessStep(p)
  PROVE  Reports(p)'
<1>0. /\ TypeInv /\ Shape /\ InPlace(p) /\ RunTyped(p) /\ SharedTyped
      /\ Done(p) /\ Leaves(p) /\ Reports(p) /\ "read" \notin Faults
  BY DEF SoundInv, CopyInv, TypeInv, Places, Orderly
<1> SUFFICES ASSUME Is(p, "update")', run'[p].pc \in {"comparing", "locking"}
             PROVE  Reports(p)'
  BY DEF Reports
<1>1. run[p].pc \notin Working
  <2>1. ~(WriteManifest(p) \/ WorksOn(p))
    BY <1>0, ZenonT(60) DEF WriteManifest, WorksOn, Working, PastLock, Holding, Copying, Shape, RunFields
  <2> QED
    BY <1>0, <2>1, WorkEnds
<1>2. UpdateRead(p) \/ CompareFile(p) \/ (UpdateDecide(p) /\ Goto(p, "locking"))
  BY <1>0, <1>1, CodeStays DEF Leaves
<1>3. CASE UpdateRead(p)
  <2>1. \A code : ~Ends(p, code)
    BY <1>0 DEF Ends, Idle, Shape, NoCommand, Is
  <2>2. run' = [run EXCEPT ![p].pc = "comparing", ![p].seen = manifest, ![p].todo = Paths(p)]
    BY <1>3, <2>1 DEF UpdateRead
  <2>3. run'[p].drift = {} /\ run'[p].stale = {}
    BY <1>0, <1>3, <2>2 DEF UpdateRead, InPlace, Shape, RunFields, At
  <2> QED
    BY <2>3 DEF Reports
<1>4. CASE CompareFile(p)
  <2>1. /\ \E f \in run[p].todo :
             LET state == FileState(disk[f], run[p].seen.files[f], Bundled(p)[f])
             IN  /\ run'[p].todo = run[p].todo \ {f}
                 /\ run'[p].drift = run[p].drift \cup {g \in {f} : state = "changed-by-user"}
                 /\ run'[p].stale = run[p].stale \cup
                      {g \in {f} : state \in {"missing-locally", "unchanged-by-user-needs-update"}}
        /\ KeepsBut(p, {"todo", "drift", "stale"}) /\ UNCHANGED <<shared, runs, edits>>
        /\ Is(p, "update") /\ At(p, "comparing")
    BY <1>0, <1>4, ComparedDone
  <2> DEFINE state(f) == FileState(disk[f], run[p].seen.files[f], Bundled(p)[f])
  <2>2. PICK f \in run[p].todo :
          /\ run'[p].todo = run[p].todo \ {f}
          /\ run'[p].drift = run[p].drift \cup {g \in {f} : state(f) = "changed-by-user"}
          /\ run'[p].stale = run[p].stale \cup
               {g \in {f} : state(f) \in {"missing-locally", "unchanged-by-user-needs-update"}}
    BY <2>1
  <2>3. state(f) = "changed-by-user" => disk[f] # Missing /\ disk[f] # run[p].seen.files[f]
    BY DEF FileState
  <2> HIDE DEF state
  <2>4. f \in Files
    BY <1>0, <2>1, BundledBytes DEF InPlace, At, Is
  <2>5. state(f) = "changed-by-user" => disk[f] \in UserBytes \/ Dropped(f, run[p].cmd.v)
    BY <2>1, <2>3, <2>4, NotOurs DEF Foreign
  <2>6. run'[p].cmd = run[p].cmd /\ run'[p].pc = "comparing" /\ disk' = disk
    BY <2>1 DEF KeepsBut, RunFields, shared, At
  <2>7. /\ \A g \in run[p].drift : disk[g] \in UserBytes \/ Dropped(g, run[p].cmd.v)
        /\ run[p].stale \cap run[p].drift = {}
        /\ run[p].todo \cap (run[p].stale \cup run[p].drift) = {}
    BY <1>0, <2>1 DEF Reports, At
  <2>8. \A g \in run'[p].drift : disk[g] \in UserBytes \/ Dropped(g, run[p].cmd.v)
    BY <2>2, <2>5, <2>7
  <2>9. /\ run'[p].stale \cap run'[p].drift = {}
        /\ run'[p].todo \cap (run'[p].stale \cup run'[p].drift) = {}
    <3>1. CASE state(f) = "changed-by-user"
      BY <2>2, <2>7, <3>1
    <3>2. CASE state(f) # "changed-by-user"
      BY <2>2, <2>7, <3>2
    <3> QED
      BY <3>1, <3>2
  <2> QED
    BY <2>6, <2>8, <2>9 DEF Reports
<1>5. CASE UpdateDecide(p) /\ Goto(p, "locking")
  <2>1. /\ run'[p].cmd = run[p].cmd /\ run'[p].drift = run[p].drift /\ run'[p].stale = run[p].stale
        /\ run'[p].pc = "locking" /\ disk' = disk /\ At(p, "comparing") /\ Is(p, "update")
    BY <1>0, <1>5 DEF UpdateDecide, Ends, Goto, Shape, RunFields, shared, InPlace, At
  <2>2. /\ \A f \in run[p].drift : disk[f] \in UserBytes \/ Dropped(f, run[p].cmd.v)
        /\ run[p].stale \cap run[p].drift = {}
    BY <1>0, <2>1 DEF Reports, At
  <2> QED
    BY <2>1, <2>2 DEF Reports, At
<1> QED
  BY <1>2, <1>3, <1>4, <1>5

LEMMA DiagnosesStep ==
  ASSUME Orderly, SoundInv, TypeInv', OneAtATime, NEW p \in Procs, ProcessStep(p)
  PROVE  Diagnoses(p)'
<1>0. /\ TypeInv /\ Shape /\ InPlace(p) /\ RunTyped(p) /\ SharedTyped
      /\ Done(p) /\ Leaves(p) /\ Diagnoses(p) /\ "read" \notin Faults
  BY DEF SoundInv, CopyInv, TypeInv, Places, Orderly
<1> SUFFICES ASSUME run'[p].pc \in {"presence", "integrity", "verifying"}
             PROVE  Diagnoses(p)'
  BY DEF Diagnoses, At
<1>1. run[p].pc \notin Working
  <2>1. ~(WriteManifest(p) \/ WorksOn(p))
    BY <1>0, ZenonT(60) DEF WriteManifest, WorksOn, Working, PastLock, Holding, Copying, Shape, RunFields
  <2> QED
    BY <1>0, <2>1, WorkEnds
<1>2. UNCHANGED <<disk, manifest, torn>>
  BY <1>0, <1>1, LeavesAlone
<1>3. \A code : run'[p] # Idle(code)
  BY DEF Idle
<1>4. \A code : ~Ends(p, code)
  BY <1>0, <1>3 DEF Ends, Shape
<1>5. DoctorSteps(p)
  <2>1. ~\E c \in Commands : Begin(p, c)
    BY <1>0, CommandsAssumption DEF Begin, Idle, Shape, Command
  <2>2. ~InitSteps(p)
    <3>1. ~InitProbe(p) /\ ~EraseGate(p)
      <4>1. \A pc \in {"gate", "preview"} : ~Goto(p, pc)
        BY <1>0 DEF Goto, Shape, RunFields
      <4> QED
        BY <1>4, <4>1 DEF InitProbe, EraseGate
    <3> QED
      BY <1>0, <1>1, <1>4, <3>1 DEF InitSteps, InitPreview, ListTargets, EraseTarget, EraseRefused,
         EraseDone, CheckDocs, PlaceDocs, Goto, Shape, RunFields, Working, PastLock, Holding, At
  <2>3. ~UpdateSteps(p)
    <3>1. ~Rebuild(p) /\ ~UpdateRead(p)
      BY <1>0, <1>1, <1>4 DEF UpdateRead, Rebuild, Shape, RunFields, Working, PastLock, Holding, At
    <3>2. ASSUME CompareFile(p)
          PROVE  FALSE
      <4>1. run'[p].pc = run[p].pc /\ At(p, "comparing")
        BY <1>0, <3>2 DEF CompareFile, Shape, RunFields
      <4> QED
        BY <4>1 DEF At
    <3>3. ~UpdateDecide(p)
      BY <1>0, <1>4 DEF UpdateDecide, Goto, Shape, RunFields
    <3> QED
      BY <3>1, <3>2, <3>3 DEF UpdateSteps
  <2>4. ~MigrateSteps(p)
    <3>1. ASSUME MigrateRead(p)
          PROVE  FALSE
      <4>1. \E steps : run' = [run EXCEPT ![p].pc = "locking", ![p].seen = manifest, ![p].todo = steps]
        BY <1>4, <3>1 DEF MigrateRead, MigratePlan
      <4> QED
        BY <1>0, <4>1 DEF Shape, RunFields
    <3>2. ~SkipStep(p) /\ ~ApplyStep(p) /\ ~StepFails(p) /\ ~StepsDone(p)
      BY <1>1 DEF SkipStep, ApplyStep, StepFails, StepsDone, Working, PastLock, Holding, At
    <3> QED
      BY <3>1, <3>2 DEF MigrateSteps
  <2>5. ~LockSteps(p)
    BY <1>0, <1>3, <1>4 DEF LockSteps, AcquireLock, LockHeld, Release, Shape, RunFields
  <2>6. ~CopySteps(p) /\ ~ManifestSteps(p) /\ ~Kill(p)
    BY <1>1 DEF CopySteps, CopyUnlink, CopyCreate, CopyFill, HashCopied, CopyDone, ManifestSteps,
       TruncateManifest, WriteManifest, WriteFails, Orderly, Working, PastLock, Holding, Copying, At,
       Kill
  <2> QED
    BY <2>1, <2>2, <2>3, <2>4, <2>5, <2>6 DEF ProcessStep
<1>6. CASE DoctorRules(p)
  <2>1. PICK todo \in {{}, Paths(p)} :
          run' = [run EXCEPT
            ![p].pc = IF run[p].cmd.rule = "all" THEN "presence" ELSE "integrity",
            ![p].todo = todo]
    BY <1>4, <1>6 DEF DoctorRules
  <2>2. /\ run'[p].pc = (IF run[p].cmd.rule = "all" THEN "presence" ELSE "integrity")
        /\ run'[p].todo = todo /\ run'[p].cmd = run[p].cmd
    BY <1>0, <2>1 DEF Shape, RunFields
  <2> QED
    BY <2>2 DEF Diagnoses, Paths, Bundled, At
<1>7. CASE PresenceCheck(p)
  <2> DEFINE found == IF ~SourceRepo /\ (manifest = NoManifest \/ torn) THEN 1 ELSE 0
  <2>1. PICK others \in {0, 1} :
          run' = [run EXCEPT ![p].pc = "integrity", ![p].code = others + found]
    BY <1>7 DEF PresenceCheck
  <2>2. /\ run'[p].pc = "integrity" /\ run'[p].code = others + found
        /\ run'[p].todo = run[p].todo /\ run'[p].cmd = run[p].cmd
    BY <1>0, <2>1 DEF Shape, RunFields
  <2>3. ~SourceRepo => run'[p].code > 0 \/ (manifest # NoManifest /\ ~torn)
    BY <2>2
  <2>4. run[p].todo \in {{}, Paths(p)}
    BY <1>0, <1>7 DEF Diagnoses, PresenceCheck, At
  <2> QED
    BY <1>2, <2>2, <2>3, <2>4 DEF Diagnoses, Paths, Bundled, At
<1>8. CASE IntegrityRead(p)
  <2>1. /\ Goto(p, "verifying") /\ run[p].todo # {}
        /\ manifest # NoManifest /\ manifest.version = run[p].cmd.v
    BY <1>4, <1>8 DEF IntegrityRead, ManifestExists
  <2>2. /\ run'[p].pc = "verifying" /\ run'[p].todo = run[p].todo /\ run'[p].cmd = run[p].cmd
        /\ run'[p].code = run[p].code
    BY <1>0, <2>1 DEF Goto, Shape, RunFields
  <2>3. /\ run[p].todo = Paths(p)
        /\ run[p].cmd.rule = "all" /\ ~SourceRepo =>
             run[p].code > 0 \/ (manifest # NoManifest /\ ~torn)
    BY <1>0, <1>8, <2>1 DEF Diagnoses, IntegrityRead, At
  <2> QED
    BY <1>2, <2>1, <2>2, <2>3 DEF Diagnoses, Paths, Bundled, At
<1>9. CASE IntegrityFile(p)
  <2>1. PICK f \in run[p].todo :
          run' = [run EXCEPT ![p].todo = @ \ {f},
                    ![p].drift = IF disk[f] = Bundled(p)[f] THEN @ ELSE @ \cup {f}]
    BY <1>0, <1>9 DEF IntegrityFile
  <2>2. /\ run'[p].todo = run[p].todo \ {f} /\ run'[p].pc = run[p].pc /\ run'[p].cmd = run[p].cmd
        /\ run'[p].drift = IF disk[f] = Bundled(p)[f] THEN run[p].drift ELSE run[p].drift \cup {f}
        /\ run'[p].code = run[p].code
    BY <1>0, <2>1 DEF Shape, RunFields
  <2>3. At(p, "verifying")
    BY <1>9 DEF IntegrityFile
  <2>4. /\ manifest # NoManifest /\ manifest.version = run[p].cmd.v
        /\ \A g \in Paths(p) : g \in run[p].todo \cup run[p].drift \/ disk[g] = Bundled(p)[g]
        /\ run[p].cmd.rule = "all" /\ ~SourceRepo =>
             run[p].code > 0 \/ (manifest # NoManifest /\ ~torn)
    BY <1>0, <2>3 DEF Diagnoses, At
  <2>5. \A g \in Paths(p) : g \in run'[p].todo \cup run'[p].drift \/ disk[g] = Bundled(p)[g]
    BY <2>2, <2>4
  <2> QED
    BY <1>2, <2>2, <2>3, <2>4, <2>5 DEF Diagnoses, Paths, Bundled, At
<1> QED
  BY <1>4, <1>5, <1>6, <1>7, <1>8, <1>9 DEF DoctorSteps, DoctorExit, VersionShow

\* What a command that has finished its work leaves is sound.
LEMMA WrittenSound ==
  ASSUME Orderly, SoundInv, OneAtATime, NEW p \in Procs, WriteManifest(p), Done(p)'
  PROVE  manifest' # NoManifest /\ \A f \in Files : Sound(f)'
<1>0. /\ TypeInv /\ Shape /\ InPlace(p) /\ RunTyped(p) /\ SharedTyped /\ Leaves(p)
  BY DEF SoundInv, CopyInv, TypeInv, Places
<1>1. /\ run'[p].pc = "releasing" /\ run'[p].cmd = run[p].cmd /\ run'[p].code = run[p].code
      /\ run'[p].drift = run[p].drift /\ disk' = disk /\ At(p, "writing")
  BY <1>0 DEF WriteManifest, Shape, RunFields
<1>2. run[p].cmd \in Commands /\ run[p].cmd.kind \in {"init", "update"} /\ run[p].pc \in Working
  <2>1. run[p].cmd \in Commands /\ run[p].cmd.kind \in {"init", "update", "migrate"}
    BY <1>0, <1>1 DEF InPlace, At, NoCommand
  <2> QED
    BY <1>1, <2>1 DEF Orderly, Working, PastLock, Holding, At
<1>3. run'[p].code = 0
  BY <1>0, <1>1, <1>2 DEF Leaves
<1>4. Complete(p)' /\ ~Is(p, "migrate")'
  BY <1>1, <1>2, <1>3 DEF Done, Finishes, Is, At
<1>5. /\ Paths(p) \subseteq Files
      /\ \A f \in Paths(p) : Bundled(p)[f] \in Bytes
  BY <1>0, <1>2, BundledBytes
<1>6. /\ manifest' # NoManifest /\ manifest'.version = run[p].cmd.v
      /\ \A f \in Files : manifest'.files[f] = OnDisk(p, f)
      /\ \A f \in Paths(p) : Installed(p, f)
  BY <1>1, <1>4, StaysInstalled DEF Complete, Is
<1>7. ASSUME NEW f \in Paths(p)
      PROVE  /\ manifest'.files[f] = disk[f] /\ disk[f] # Missing
             /\ disk[f] = Bundled(p)[f] \/ disk[f] \in UserBytes \/ Dropped(f, run[p].cmd.v)
  <2>1. manifest'.files[f] = disk[f]
    BY <1>5, <1>6 DEF OnDisk
  <2>2. disk[f] # Missing
    BY <1>5, <1>6, BytesAssumption DEF Installed, Kept
  <2>3. disk[f] = Bundled(p)[f] \/ disk[f] \in UserBytes \/ Dropped(f, run[p].cmd.v)
    BY <1>0, <1>2, <1>5, <1>6 DEF Installed, Leaves
  <2> QED
    BY <2>1, <2>2, <2>3
<1>8. ASSUME NEW f \in Files \ Paths(p)
      PROVE  manifest'.files[f] = Missing /\ (Foreign(f) \/ Dropped(f, run[p].cmd.v))
  BY <1>0, <1>2, <1>6 DEF OnDisk, Leaves
<1>9. ASSUME NEW f \in Files
      PROVE  Sound(f)'
  <2>1. CASE f \in Paths(p)
    BY <1>1, <1>6, <1>7, <2>1 DEF Sound, Foreign, Paths, Bundled
  <2>2. CASE f \notin Paths(p)
    BY <1>1, <1>6, <1>8, <2>2 DEF Sound, Foreign, Paths, Bundled
  <2> QED
    BY <2>1, <2>2
<1> QED
  BY <1>6, <1>9

\* A run that is at nothing has nothing to say.
LEMMA IdleSound ==
  ASSUME NEW p \in Procs, run'[p].pc = "idle", run'[p].cmd = NoCommand
  PROVE  Leaves(p)' /\ Reports(p)' /\ Diagnoses(p)'
BY DEF Leaves, Reports, Diagnoses, NoCommand, Working, PastLock, Holding, Copying, Is, At

LEMMA SoundStep ==
  ASSUME Orderly, SoundInv, OneAtATime, OneAtATime', [Next]_vars
  PROVE  SoundInv'
<1>0. /\ OrderInv' /\ CopyInv' /\ TypeInv /\ TypeInv' /\ Places /\ Shape
      /\ SharedTyped /\ DOMAIN disk = Files /\ edits \in Nat
  <2>1. OrderInv' /\ CopyInv'
    BY OrderStep, CopyStep DEF SoundInv, Orderly
  <2>2. TypeInv /\ TypeInv'
    BY <2>1 DEF SoundInv, CopyInv
  <2>3. SharedTyped
    BY <2>2 DEF TypeInv
  <2>4. DOMAIN disk = Files /\ edits \in Nat
    BY <2>3, BoundsAssumption DEF SharedTyped
  <2> QED
    BY <2>1, <2>2, <2>3, <2>4 DEF TypeInv, Places
<1>1. ASSUME NEW p \in Procs, ProcessStep(p)
      PROVE  SoundInv'
  <2>1. \A q \in Procs \ {p} : At(q, "idle") /\ run'[q] = run[q]
    BY <1>0, <1>1, Alone
  <2>2. \A q \in Procs : Leaves(q)' /\ Reports(q)' /\ Diagnoses(q)'
    <3>1. Leaves(p)' /\ Reports(p)' /\ Diagnoses(p)'
      BY <1>0, <1>1, LeavesStep, ReportsStep, DiagnosesStep
    <3>2. \A q \in Procs \ {p} : Leaves(q)' /\ Reports(q)' /\ Diagnoses(q)'
      BY <1>0, <2>1, IdleSound DEF Places, InPlace, At
    <3> QED
      BY <3>1, <3>2
  <2>3. Agrees'
    <3>1. CASE run[p].pc \in Working
      <4>1. CASE WriteManifest(p)
        <5>1. Done(p)'
          BY <1>0 DEF CopyInv
        <5>2. manifest' # NoManifest /\ \A f \in Files : Sound(f)'
          BY <4>1, <5>1, WrittenSound
        <5> QED
          BY <5>2 DEF Agrees
      <4>2. CASE WorksOn(p)
        BY <4>2 DEF WorksOn, Agrees
      <4>3. Done(p)
        BY DEF SoundInv, CopyInv
      <4> QED
        BY <1>0, <1>1, <3>1, <4>1, <4>2, <4>3, WorkEnds
    <3>2. CASE run[p].pc \notin Working
      <4>1. UNCHANGED <<disk, manifest, edits>>
        BY <1>0, <1>1, <3>2, LeavesAlone
      <4>2. \A q \in Procs : run[q].pc \notin Working
        BY <2>1, <3>2 DEF Working, PastLock, Holding, Copying, At
      <4>3. \A f \in Files : IF manifest = NoManifest THEN Foreign(f) ELSE Sound(f)
        BY <4>2 DEF SoundInv, Agrees
      <4> QED
        BY <4>1, <4>3 DEF Agrees, Foreign, Sound
    <3> QED
      BY <3>1, <3>2
  <2> QED
    BY <1>0, <2>2, <2>3 DEF SoundInv
<1>2. CASE EditFile
  <2>1. \A q \in Procs : run[q].pc = "idle" /\ run[q].cmd = NoCommand
    BY <1>0, <1>2, UserWaits DEF Orderly, Places, InPlace, At
  <2>2. \A q \in Procs : run'[q].pc = run[q].pc /\ run'[q].cmd = run[q].cmd
    BY <1>0, <1>2 DEF EditFile, Detached, Shape, RunFields
  <2>3. PICK f \in Files, b \in UserBytes \cup {Missing} : disk' = [disk EXCEPT ![f] = b]
    BY <1>2 DEF EditFile
  <2>4. manifest' = manifest /\ edits' = edits + 1 /\ edits' > 0
    BY <1>0, <1>2 DEF EditFile
  <2>5. \A g \in Files : IF manifest = NoManifest THEN Foreign(g) ELSE Sound(g)
    BY <2>1 DEF SoundInv, Agrees, Working, PastLock, Holding, Copying
  <2>6. \A g \in Files : IF manifest' = NoManifest THEN Foreign(g)' ELSE Sound(g)'
    <3>1. ASSUME NEW g \in Files
          PROVE  disk'[g] = disk[g] \/ Foreign(g)'
      BY <1>0, <2>3 DEF Foreign
    <3>2. ASSUME NEW g \in Files, Foreign(g)
          PROVE  Foreign(g)'
      BY <3>1, <3>2 DEF Foreign
    <3>3. ASSUME NEW g \in Files, Sound(g)
          PROVE  Sound(g)'
      BY <2>4, <3>1, <3>2, <3>3 DEF Sound
    <3> QED
      BY <2>4, <2>5, <3>2, <3>3
  <2> QED
    BY <1>0, <2>1, <2>2, <2>6, IdleSound DEF SoundInv, Agrees
<1>3. CASE AuthorDocs \/ RemoveStaleLock \/ UNCHANGED vars
  <2>1. UNCHANGED <<run, disk, manifest, torn>> /\ edits' \in {edits, edits + 1}
    BY <1>3 DEF AuthorDocs, RemoveStaleLock, vars
  <2>2. \A f \in Files : (Foreign(f) => Foreign(f)') /\ (Sound(f) => Sound(f)')
    BY <1>0, <2>1 DEF Sound, Foreign
  <2>3. Agrees'
    BY <2>1, <2>2 DEF SoundInv, Agrees
  <2>4. \A q \in Procs : Leaves(q)' /\ Reports(q)' /\ Diagnoses(q)'
    BY <2>1 DEF SoundInv, Leaves, Reports, Diagnoses, Kept, Foreign, Paths, Bundled, Is, At
  <2> QED
    BY <1>0, <2>3, <2>4 DEF SoundInv
<1> QED
  BY <1>1, <1>2, <1>3 DEF Next, ProcessStep

LEMMA SoundInit == Init => SoundInv
<1> SUFFICES ASSUME Init
             PROVE  SoundInv
  OBVIOUS
<1>1. OrderInv /\ CopyInv
  BY OrderInit, CopyInit
<1>2. \A p \in Procs : run[p].pc = "idle" /\ run[p].cmd = NoCommand
  BY DEF Init, Idle
<1>3. manifest = NoManifest /\ \A f \in Files : Foreign(f)
  BY DEF Init, Foreign
<1> QED
  BY <1>1, <1>2, <1>3 DEF SoundInv, Agrees, Leaves, Reports, Diagnoses, NoCommand, Working,
     PastLock, Holding, Copying, Is, At

\* Between commands the manifest tells the truth about the disk (buildManifest,
\* writeManifest, manifest.ts): for any number of files, versions and commands, one
\* after the other and none cut short, whatever the user edits between them.
THEOREM Honest ==
  ASSUME Orderly
  PROVE  Spec /\ []OneAtATime => []ManifestHonest
<1>1. Init => SoundInv
  BY SoundInit
<1>2. SoundInv /\ OneAtATime /\ OneAtATime' /\ [Next]_vars => SoundInv'
  BY SoundStep
<1>3. SoundInv => ManifestHonest
  <2> SUFFICES ASSUME SoundInv, Quiet, manifest # NoManifest, NEW f \in Files,
                      manifest.files[f] # Missing
               PROVE  /\ \/ manifest.files[f] \in UserBytes \/ Dropped(f, manifest.version)
                         \/ manifest.files[f] = Bundle[manifest.version][f]
                      /\ disk[f] \in {manifest.files[f], Missing} \cup UserBytes
    BY DEF ManifestHonest
  <2>1. Sound(f)
    BY DEF SoundInv, Agrees, Quiet, Working, PastLock, Holding, Copying, At
  <2> QED
    BY <2>1 DEF Sound, Foreign
<1> QED
  BY <1>1, <1>2, <1>3, PTL DEF Spec

\* Only a comparison finds a file modified.
LEMMA DriftGrows ==
  ASSUME TypeInv, [Next]_vars, NEW p \in Procs, NEW f \in run'[p].drift \ run[p].drift
  PROVE  CompareFile(p) \/ IntegrityFile(p)
<1>0. Shape /\ Places
  BY DEF TypeInv, Places
<1>1. ASSUME NEW q \in Procs \ {p}, ProcessStep(q)
      PROVE  FALSE
  <2>1. run'[p].drift = run[p].drift
    BY <1>0, <1>1, StepOfOne, Others
  <2> QED
    BY <2>1
<1>2. CASE ProcessStep(p)
  <2>1. \A code : run'[p] # Idle(code)
    BY DEF Idle
  <2>2. \A code : ~Ends(p, code)
    BY <1>0, <2>1 DEF Ends, Shape
  <2>3. ~(run'[p].drift = run[p].drift)
    OBVIOUS
  <2>4. \A pc : ~Goto(p, pc)
    BY <1>0, <2>3 DEF Goto, Shape, RunFields
  <2>5. ~\E c \in Commands : Begin(p, c)
    BY <1>0 DEF Begin, Idle, Shape
  <2>6. ~InitSteps(p)
    <3>1. ~InitProbe(p) /\ ~EraseGate(p) /\ ~InitPreview(p) /\ ~CheckDocs(p) /\ ~PlaceDocs(p)
      BY <2>2, <2>4 DEF InitProbe, EraseGate, InitPreview, CheckDocs, PlaceDocs
    <3>2. ~ListTargets(p) /\ ~EraseRefused(p) /\ ~EraseDone(p)
      BY <1>0, <2>3 DEF ListTargets, EraseRefused, EraseDone, Shape, RunFields
    <3>3. ASSUME EraseTarget(p)
          PROVE  FALSE
      <4>1. run'[p].drift = run[p].drift
        BY <1>0, <3>3 DEF EraseTarget, Detached, Shape, RunFields
      <4> QED
        BY <4>1
    <3> QED
      BY <3>1, <3>2, <3>3 DEF InitSteps
  <2>7. UpdateSteps(p) => CompareFile(p)
    BY <1>0, <2>2, <2>3, <2>4 DEF UpdateSteps, UpdateRead, UpdateDecide, Rebuild, Shape, RunFields
  <2>8. ~CopySteps(p)
    <3>1. ASSUME CopyUnlink(p)
          PROVE  FALSE
      <4>1. run'[p].drift = run[p].drift
        BY <1>0, <3>1 DEF CopyUnlink, Detached, Shape, RunFields
      <4> QED
        BY <4>1
    <3>2. ~CopyCreate(p) /\ ~CopyFill(p) /\ ~HashCopied(p)
      BY <1>0, <2>3 DEF CopyCreate, CopyFill, HashCopied, Shape, RunFields
    <3>3. ~CopyDone(p)
      BY <2>4 DEF CopyDone
    <3> QED
      BY <3>1, <3>2, <3>3 DEF CopySteps
  <2>9. ~MigrateSteps(p)
    <3>1. ASSUME MigrateRead(p)
          PROVE  FALSE
      <4>1. \E steps : run' = [run EXCEPT ![p].pc = "locking", ![p].seen = manifest, ![p].todo = steps]
        BY <2>2, <3>1 DEF MigrateRead, MigratePlan
      <4> QED
        BY <1>0, <2>3, <4>1 DEF Shape, RunFields
    <3>2. ~SkipStep(p) /\ ~ApplyStep(p) /\ ~StepFails(p) /\ ~StepsDone(p)
      BY <1>0, <2>3 DEF SkipStep, ApplyStep, StepFails, StepsDone, Shape, RunFields
    <3> QED
      BY <3>1, <3>2 DEF MigrateSteps
  <2>10. DoctorSteps(p) => IntegrityFile(p)
    BY <1>0, <2>2, <2>3, <2>4 DEF DoctorSteps, DoctorRules, PresenceCheck, IntegrityRead, DoctorExit,
       VersionShow, Shape, RunFields
  <2>11. ~LockSteps(p)
    BY <1>0, <2>1, <2>2, <2>3 DEF LockSteps, AcquireLock, LockHeld, Release, Shape, RunFields
  <2>12. ~ManifestSteps(p) /\ ~Kill(p)
    BY <1>0, <2>1, <2>3, ZenonT(60) DEF ManifestSteps, TruncateManifest, WriteManifest, WriteFails, Kill, Shape,
       RunFields
  <2> QED
    BY <1>2, <2>5, <2>6, <2>7, <2>8, <2>9, <2>10, <2>11, <2>12 DEF ProcessStep
<1>3. CASE EditFile \/ AuthorDocs \/ RemoveStaleLock \/ UNCHANGED vars
  <2>1. run'[p].drift = run[p].drift
    BY <1>0, <1>3 DEF EditFile, AuthorDocs, RemoveStaleLock, vars, Detached, Shape, RunFields
  <2> QED
    BY <2>1
<1> QED
  BY <1>1, <1>2, <1>3 DEF Next, ProcessStep

\* What update and doctor report as modified is a user's, gone or dropped.
LEMMA ReportsRightly ==
  ASSUME Orderly, SoundInv, OneAtATime, [Next]_vars, NEW p \in Procs,
         NEW f \in run'[p].drift \ run[p].drift
  PROVE  \/ disk[f] \in UserBytes
         \/ Is(p, "doctor") /\ disk[f] = Missing /\ edits > 0
         \/ Dropped(f, run[p].cmd.v)
<1>0. /\ TypeInv /\ Shape /\ InPlace(p) /\ RunTyped(p) /\ Done(p) /\ Diagnoses(p)
      /\ "read" \notin Faults
  BY DEF SoundInv, CopyInv, TypeInv, Places, Orderly
<1>1. CASE CompareFile(p)
  <2>1. At(p, "comparing") /\ Is(p, "update")
    BY <1>0, <1>1 DEF CompareFile, InPlace, At
  <2>2. PICK g \in run[p].todo :
          run'[p].drift = run[p].drift \cup
            {h \in {g} : FileState(disk[g], run[p].seen.files[g], Bundled(p)[g]) = "changed-by-user"}
    BY <1>0, <1>1, ComparedDone
  <2>3. f \in run[p].todo /\ FileState(disk[f], run[p].seen.files[f], Bundled(p)[f]) = "changed-by-user"
    BY <2>2
  <2>4. disk[f] # Missing /\ disk[f] # run[p].seen.files[f]
    BY <2>3 DEF FileState
  <2>5. f \in Files
    BY <1>0, <2>1, <2>3, BundledBytes DEF InPlace, At, Is
  <2> QED
    BY <2>1, <2>4, <2>5, NotOurs DEF Foreign
<1>2. CASE IntegrityFile(p)
  <2>1. At(p, "verifying") /\ Is(p, "doctor")
    BY <1>0, <1>2 DEF IntegrityFile, InPlace, At
  <2>2. PICK g \in run[p].todo :
          run' = [run EXCEPT ![p].todo = @ \ {g},
                    ![p].drift = IF disk[g] = Bundled(p)[g] THEN @ ELSE @ \cup {g}]
    BY <1>0, <1>2 DEF IntegrityFile
  <2>3. run'[p].drift = IF disk[g] = Bundled(p)[g] THEN run[p].drift ELSE run[p].drift \cup {g}
    BY <1>0, <2>2 DEF Shape, RunFields
  <2>4. f \in Paths(p) /\ disk[f] # Bundled(p)[f]
    BY <1>0, <2>1, <2>3 DEF RunTyped, Due, At
  <2>5. manifest # NoManifest /\ manifest.version = run[p].cmd.v
    BY <1>0, <2>1 DEF Diagnoses
  <2>6. f \in Files
    BY <1>0, <2>1, <2>4, BundledBytes DEF Is
  <2>7. \A q \in Procs : run[q].pc \notin Working
    BY <2>1, NobodyWorks DEF Working, PastLock, Holding, Copying, At
  <2>8. Sound(f)
    BY <2>5, <2>6, <2>7 DEF SoundInv, Agrees
  <2> QED
    BY <2>1, <2>4, <2>5, <2>8 DEF Sound, Foreign, Paths, Bundled
<1> QED
  BY <1>0, <1>1, <1>2, DriftGrows

\* A file reported as locally modified has been modified by the user (compareAll,
\* update.ts), or for doctor removed (framework-file-integrity, doctor.ts): for any
\* number of files, versions and commands, one after the other and none cut short.
THEOREM DriftIsReal ==
  ASSUME Orderly
  PROVE  Spec /\ []OneAtATime => NoFalseDrift
<1>1. Init => SoundInv
  BY SoundInit
<1>2. SoundInv /\ OneAtATime /\ OneAtATime' /\ [Next]_vars => SoundInv'
  BY SoundStep
<1>3. SoundInv /\ OneAtATime /\ [Next]_vars =>
        \A p \in Procs : \A f \in run'[p].drift \ run[p].drift :
          \/ disk[f] \in UserBytes
          \/ Is(p, "doctor") /\ disk[f] = Missing /\ edits > 0
          \/ Dropped(f, run[p].cmd.v)
  BY ReportsRightly
<1> QED
  BY <1>1, <1>2, <1>3, PTL DEF Spec, NoFalseDrift

\* A doctor ends with exit 0 once it has read the manifest, or compared every file.
LEMMA DoctorEnds ==
  ASSUME TypeInv, ~Kills, [Next]_vars, NEW p \in Procs, Is(p, "doctor"), run'[p] = Idle(0)
  PROVE  \/ /\ IntegrityRead(p) /\ run[p].code = 0
            /\ \/ Unbundled(p)
               \/ ~(manifest # NoManifest /\ ~torn /\ manifest.version = run[p].cmd.v)
         \/ DoctorExit(p) /\ run[p].code = 0 /\ run[p].todo = {} /\ run[p].drift = {}
<1>0. Shape /\ Places /\ InPlace(p) /\ RunTyped(p)
  BY DEF TypeInv, Places
<1>1. run'[p].cmd # run[p].cmd /\ ~At(p, "idle")
  BY <1>0 DEF Idle, InPlace, NoCommand, Is
<1>2. ASSUME NEW q \in Procs \ {p}, ProcessStep(q)
      PROVE  FALSE
  <2>1. run'[p].cmd = run[p].cmd
    BY <1>0, <1>2, StepOfOne, Others
  <2> QED
    BY <1>1, <2>1
<1>3. ~(EditFile \/ AuthorDocs \/ RemoveStaleLock \/ UNCHANGED vars)
  <2>1. EditFile \/ AuthorDocs \/ RemoveStaleLock \/ UNCHANGED vars => run'[p].cmd = run[p].cmd
    BY <1>0 DEF EditFile, AuthorDocs, RemoveStaleLock, vars, Detached, Shape, RunFields
  <2> QED
    BY <1>1, <2>1
<1>4. DoctorSteps(p)
  <2>1. run[p].pc \in {"doctor", "presence", "integrity", "verifying"}
    <3>1. run[p].pc \in Steps
      BY <1>0 DEF RunTyped, FieldsTyped
    <3> QED
      BY <1>0, <1>1, <3>1 DEF InPlace, Steps, Copying, Is, At
  <2>2. ~\E c \in Commands : Begin(p, c)
    BY <2>1 DEF Begin, At
  <2>3. ~InitSteps(p) /\ ~UpdateSteps(p) /\ ~CopySteps(p) /\ ~MigrateSteps(p)
    BY <2>1 DEF InitSteps, InitProbe, EraseGate, InitPreview, ListTargets, EraseTarget,
       EraseRefused, EraseDone, CheckDocs, PlaceDocs, UpdateSteps, UpdateRead, CompareFile,
       UpdateDecide, Rebuild, CopySteps, CopyUnlink, CopyCreate, CopyFill, HashCopied, CopyDone,
       MigrateSteps, MigrateRead, SkipStep, ApplyStep, StepFails, StepsDone, At
  <2>4. ~LockSteps(p) /\ ~ManifestSteps(p)
    BY <2>1 DEF LockSteps, AcquireLock, LockHeld, Release, ManifestSteps, TruncateManifest,
       WriteManifest, WriteFails, At
  <2> QED
    BY <1>2, <1>3, <2>2, <2>3, <2>4 DEF Next, ProcessStep, Kill
<1>5. ASSUME NEW code, Ends(p, code)
      PROVE  code = 0
  BY <1>0, <1>5 DEF Ends, Shape, Idle
<1>6. ~(\E pc : Goto(p, pc)) /\ ~PresenceCheck(p) /\ ~IntegrityFile(p)
  <2>1. ~\E pc : Goto(p, pc)
    BY <1>0, <1>1 DEF Goto, Shape, RunFields
  <2> QED
    BY <1>0, <1>1, <2>1 DEF PresenceCheck, IntegrityFile, Shape, RunFields
<1>7. ~DoctorRules(p)
  BY <1>0, <1>1, <1>5 DEF DoctorRules, Shape, RunFields
<1>8. CASE IntegrityRead(p)
  <2>1. run[p].code + 1 # 0
    BY <1>0, <1>8 DEF RunTyped, Due, IntegrityRead, At
  <2> QED
    BY <1>5, <1>6, <1>8, <2>1 DEF IntegrityRead, ManifestExists, Unbundled, At
<1>9. CASE DoctorExit(p)
  <2>1. run[p].code \in {0, 1, 2} /\ run[p].todo = {}
    BY <1>0, <1>9 DEF RunTyped, Due, DoctorExit, At
  <2>2. run[p].code + (IF run[p].drift = {} THEN 0 ELSE 1) = 0
    BY <1>5, <1>9 DEF DoctorExit
  <2> QED
    BY <1>9, <2>1, <2>2
<1>10. ~VersionShow(p)
  BY <1>0 DEF VersionShow, InPlace, At, Is
<1> QED
  BY <1>4, <1>6, <1>7, <1>8, <1>9, <1>10 DEF DoctorSteps

\* A doctor that finds nothing agrees with update (doctor.ts, update.ts), but in the
\* framework's own repository and without a bundle to compare with: for any number of
\* files, versions and commands, one after the other and none cut short, if users'
\* bytes are none of a bundle's.
THEOREM CleanDoctor ==
  ASSUME Orderly,
         \A v \in Versions : \A f \in DOMAIN Bundle[v] : Bundle[v][f] \notin UserBytes
  PROVE  Spec /\ []OneAtATime => CleanDoctorIsUpToDate
<1> DEFINE Own(p) == manifest # NoManifest /\ ~torn /\ manifest.version = run[p].cmd.v
           UpToDate(p, f) ==
             FileState(disk[f], manifest.files[f], Bundled(p)[f]) = "unchanged-by-user-equal"
<1>1. Init => SoundInv
  BY SoundInit
<1>2. SoundInv /\ OneAtATime /\ OneAtATime' /\ [Next]_vars => SoundInv'
  BY SoundStep
<1>3. ASSUME SoundInv, OneAtATime, [Next]_vars, NEW p \in Procs, Is(p, "doctor"), run'[p] = Idle(0)
      PROVE  /\ run[p].cmd.rule = "all" /\ ~SourceRepo => manifest # NoManifest /\ ~torn
             /\ Own(p) /\ ~Unbundled(p) => \A f \in Paths(p) : UpToDate(p, f)
  <2>0. /\ TypeInv /\ ~Kills /\ InPlace(p) /\ Diagnoses(p)
    BY <1>3 DEF SoundInv, CopyInv, TypeInv, Places, Orderly
  <2>1. \/ IntegrityRead(p) /\ run[p].code = 0 /\ (Unbundled(p) \/ ~Own(p))
        \/ DoctorExit(p) /\ run[p].code = 0 /\ run[p].todo = {} /\ run[p].drift = {}
    BY <1>3, <2>0, DoctorEnds
  <2>2. run[p].cmd.rule = "all" /\ ~SourceRepo => manifest # NoManifest /\ ~torn
    BY <2>0, <2>1 DEF Diagnoses, IntegrityRead, DoctorExit, At
  <2>3. ASSUME Own(p), ~Unbundled(p), NEW f \in Paths(p)
        PROVE  UpToDate(p, f)
    <3>1. At(p, "verifying") /\ run[p].todo = {} /\ run[p].drift = {}
      BY <2>1, <2>3 DEF DoctorExit
    <3>2. disk[f] = Bundled(p)[f]
      BY <2>0, <3>1 DEF Diagnoses
    <3>3. /\ f \in Files /\ Bundled(p)[f] \in Bytes /\ Bundled(p)[f] \notin UserBytes
      BY <1>3, <2>0, BundledBytes DEF Is, Paths, Bundled
    <3>4. \A q \in Procs : run[q].pc \notin Working
      BY <1>3, <3>1, NobodyWorks DEF Working, PastLock, Holding, Copying, At
    <3>5. Sound(f)
      BY <1>3, <2>3, <3>3, <3>4 DEF SoundInv, Agrees
    <3>6. disk[f] # Missing /\ disk[f] = manifest.files[f]
      BY <2>3, <3>2, <3>3, <3>5, BytesAssumption DEF Sound, Foreign, Paths, Bundled
    <3> QED
      BY <3>2, <3>6 DEF FileState
  <2> QED
    BY <2>2, <2>3
<1>4. SoundInv /\ OneAtATime /\ [Next]_vars =>
        \A p \in Procs :
          LET own == manifest # NoManifest /\ ~torn /\ manifest.version = run[p].cmd.v
          IN  Is(p, "doctor") /\ run'[p] = Idle(0) =>
                /\ run[p].cmd.rule = "all" /\ ~SourceRepo => manifest # NoManifest /\ ~torn
                /\ own /\ ~Unbundled(p) => \A f \in Paths(p) :
                     FileState(disk[f], manifest.files[f], Bundled(p)[f])
                       = "unchanged-by-user-equal"
  BY <1>3
<1> QED
  BY <1>1, <1>2, <1>4, PTL DEF Spec, CleanDoctorIsUpToDate
=================================================================================
