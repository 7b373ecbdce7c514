------------------------------ MODULE CommandLock ------------------------------
(***************************************************************************)
(* `.specforge/lock` as src/tools/cli/src/lock.ts keeps it, one process per *)
(* invocation of a mutating command (init, update, migrate).  The presence  *)
(* of the file is the lock; its body names the pid.  Every await of lock.ts *)
(* is a step, so other processes, signals and a kill come in between.       *)
(*                                                                          *)
(* A signal starts release() next to the running command, which goes on     *)
(* until process.exit(130): sig follows that second activity.               *)
(***************************************************************************)
CONSTANTS
  Procs,       \* pids; a pid that has ended may be used by a later invocation
  NoProc,      \* no lock file
  Erasers,     \* the processes that run `init --force --erase`
  Signalled,   \* the processes that may get SIGINT or SIGTERM
  WriteFaults  \* whether writing the lock's body may fail (disk full)

ASSUME NoProcAssumption == NoProc \notin Procs
ASSUME RolesAssumption == Erasers \subseteq Procs /\ Signalled \subseteq Procs
ASSUME FaultsAssumption == WriteFaults \in BOOLEAN

VARIABLES
  lockBy,      \* who created the lock file that is on disk, or NoProc
  lockBody,    \* whether its JSON line has been written
  pc,          \* where each process is in acquireLock / the command / release
  sig,         \* the release() a signal started: none, reading, ...
  exit,        \* how the process's last invocation ended
  confirmed    \* the operator has checked that no process is running

vars == <<lockBy, lockBody, pc, sig, exit, confirmed>>

PCs == {"idle", "locking", "contended", "writing", "critical", "erased",
        "releasing", "unlinking", "exiting", "dead"}
Sigs == {"none", "reading", "unlinking", "exiting"}
Exits == {"none", "done", "held", "unhandled", "signal", "killed"}

Running(p) == pc[p] \notin {"idle", "dead"}

(***************************************************************************)
(* The command's own work, the part the lock is for.  acquireLock installs  *)
(* the signal and exit handlers on entry, handle.release removes them.      *)
(***************************************************************************)
InCritical(p) == pc[p] \in {"critical", "erased"}

OwnLock(p) == lockBy = p /\ lockBody

(***************************************************************************)
(* The invocation that created the lock file on disk is still running.      *)
(***************************************************************************)
Holds(p) ==
  /\ lockBy = p
  /\ \/ pc[p] \in {"writing", "critical", "releasing", "unlinking"}
     \/ sig[p] # "none"

Init ==
  /\ lockBy = NoProc
  /\ lockBody = FALSE
  /\ pc = [p \in Procs |-> "idle"]
  /\ sig = [p \in Procs |-> "none"]
  /\ exit = [p \in Procs |-> "none"]
  /\ confirmed = FALSE

Goto(p, to) == pc' = [pc EXCEPT ![p] = to]

Ends(p, how) ==
  /\ pc' = [pc EXCEPT ![p] = "dead"]
  /\ sig' = [sig EXCEPT ![p] = "none"]
  /\ exit' = [exit EXCEPT ![p] = how]

Unlocked == lockBy' = NoProc /\ lockBody' = FALSE

LockUnchanged == UNCHANGED <<lockBy, lockBody>>

-------------------------------------------------------------------------------
(* acquireLock *)

\* Mutated forms, for the runs that show what each property catches: the
\* definition that follows is replaced by its "Bug" form.

\* A mutating command is invoked and reaches acquireLock.
Start(p) ==
  /\ ~Running(p)
  /\ Goto(p, "locking")
  /\ exit' = [exit EXCEPT ![p] = "none"]
  /\ UNCHANGED <<lockBy, lockBody, sig, confirmed>>

Bug_CreateLockNotExclusive(p) ==       \* opened with "w"
  /\ pc[p] = "locking"
  /\ lockBy' = p
  /\ lockBody' = FALSE
  /\ Goto(p, "writing")
  /\ UNCHANGED <<sig, exit, confirmed>>

\* fs.open(p, "wx") succeeds: the empty file is the lock.
CreateLock(p) ==
  /\ pc[p] = "locking"
  /\ lockBy = NoProc
  /\ lockBy' = p
  /\ lockBody' = FALSE
  /\ Goto(p, "writing")
  /\ UNCHANGED <<sig, exit, confirmed>>

\* EEXIST.
FindLock(p) ==
  /\ pc[p] = "locking"
  /\ lockBy # NoProc
  /\ Goto(p, "contended")
  /\ UNCHANGED <<lockBy, lockBody, sig, exit, confirmed>>

Bug_ReportHeldRecovers(p) ==           \* a dead holder's lock is taken away
  /\ pc[p] = "contended"
  /\ lockBy # NoProc
  /\ Ends(p, "held")
  /\ IF Holds(lockBy) THEN LockUnchanged ELSE Unlocked
  /\ UNCHANGED confirmed

Bug_ReportHeldRetries(p) ==            \* a retry loop around the open
  /\ pc[p] = "contended"
  /\ lockBy # NoProc
  /\ Goto(p, "locking")
  /\ UNCHANGED <<lockBy, lockBody, sig, exit, confirmed>>

\* readExistingLock returns, with or without a pid: LockHeldError, exit 5.
ReportHeld(p) ==
  /\ pc[p] = "contended"
  /\ lockBy # NoProc
  /\ Ends(p, "held")
  /\ UNCHANGED <<lockBy, lockBody, confirmed>>

Bug_LoseHolderUnknownExit(p) ==        \* an exit code outside the table
  /\ pc[p] = "contended"
  /\ lockBy = NoProc
  /\ Ends(p, "ENOENT")
  /\ UNCHANGED <<lockBy, lockBody, confirmed>>

\* The holder released in between: readFile throws ENOENT, which no caller
\* catches as a LockHeldError, and cli.ts exits 10 with "unhandled error".
LoseHolder(p) ==
  /\ pc[p] = "contended"
  /\ lockBy = NoProc
  /\ Ends(p, "unhandled")
  /\ UNCHANGED <<lockBy, lockBody, confirmed>>

\* handle.writeFile(body) writes to the file it created, if that is still the
\* one at the path; the handlers are installed and the command's work begins.
WriteBody(p) ==
  /\ pc[p] = "writing"
  /\ lockBody' = (lockBody \/ lockBy = p)
  /\ Goto(p, "critical")
  /\ UNCHANGED <<lockBy, sig, exit, confirmed>>

\* writeFile throws: acquireLock closes the handle and rethrows, the file stays.
WriteBodyFails(p) ==
  /\ WriteFaults
  /\ pc[p] = "writing"
  /\ Ends(p, "unhandled")
  /\ UNCHANGED <<lockBy, lockBody, confirmed>>

-------------------------------------------------------------------------------
(* The command *)

\* `init --force --erase` deletes every file under `.specforge/**`, which the
\* partition calls team data: the lock it holds is one of them.
EraseLock(p) ==
  /\ p \in Erasers
  /\ pc[p] = "critical"
  /\ Unlocked
  /\ Goto(p, "erased")
  /\ UNCHANGED <<sig, exit, confirmed>>

-------------------------------------------------------------------------------
(* release, from the command's finally *)

Bug_FinishKeepsLock(p) ==              \* no finally around the command
  /\ InCritical(p)
  /\ Goto(p, "exiting")
  /\ UNCHANGED <<lockBy, lockBody, sig, exit, confirmed>>

\* handle.release removes the handlers and calls release(), which returns at
\* once when a signal has already called it.
Finish(p) ==
  /\ InCritical(p)
  /\ Goto(p, IF sig[p] = "none" THEN "releasing" ELSE "exiting")
  /\ UNCHANGED <<lockBy, lockBody, sig, exit, confirmed>>

\* Read the file back; leave it unless it parses and names this pid.
ReadBack(p) ==
  /\ pc[p] = "releasing"
  /\ Goto(p, IF OwnLock(p) THEN "unlinking" ELSE "exiting")
  /\ UNCHANGED <<lockBy, lockBody, sig, exit, confirmed>>

Unlink(p) ==
  /\ pc[p] = "unlinking"
  /\ Unlocked
  /\ Goto(p, "exiting")
  /\ UNCHANGED <<sig, exit, confirmed>>

\* cli.ts: main resolves and process.exit(code) ends every pending activity.
Exit(p) ==
  /\ pc[p] = "exiting"
  /\ Ends(p, "done")
  /\ UNCHANGED <<lockBy, lockBody, confirmed>>

-------------------------------------------------------------------------------
(* release, from a signal *)

\* The handler calls release() without waiting for it.
Signal(p) ==
  /\ p \in Signalled
  /\ InCritical(p)
  /\ sig[p] = "none"
  /\ sig' = [sig EXCEPT ![p] = "reading"]
  /\ UNCHANGED <<lockBy, lockBody, pc, exit, confirmed>>

SignalReadBack(p) ==
  /\ sig[p] = "reading"
  /\ sig' = [sig EXCEPT ![p] = IF OwnLock(p) THEN "unlinking" ELSE "exiting"]
  /\ UNCHANGED <<lockBy, lockBody, pc, exit, confirmed>>

SignalUnlink(p) ==
  /\ sig[p] = "unlinking"
  /\ Unlocked
  /\ sig' = [sig EXCEPT ![p] = "exiting"]
  /\ UNCHANGED <<pc, exit, confirmed>>

Bug_SignalExitAnyPid(p) ==             \* the exit handler does not compare pids
  /\ \/ sig[p] = "exiting"
     \/ sig[p] # "none" /\ InCritical(p)
  /\ Ends(p, "signal")
  /\ IF InCritical(p) THEN Unlocked ELSE LockUnchanged
  /\ UNCHANGED confirmed

\* release().finally: process.exit(130), or at once when the other of the two
\* signals finds release() already called.  The exit handler, if the command
\* has not removed it yet, unlinks a lock that still names this pid.
SignalExit(p) ==
  /\ \/ sig[p] = "exiting"
     \/ sig[p] # "none" /\ InCritical(p)
  /\ Ends(p, "signal")
  /\ IF InCritical(p) /\ OwnLock(p) THEN Unlocked ELSE LockUnchanged
  /\ UNCHANGED confirmed

\* A signal with no handler installed for it ends the process where it is:
\* before acquireLock has installed one, after handle.release has removed it,
\* or the second time, since each is installed with process.once.
DefaultSignal(p) ==
  /\ p \in Signalled
  /\ Running(p)
  /\ ~(InCritical(p) /\ sig[p] = "none")
  /\ Ends(p, "signal")
  /\ UNCHANGED <<lockBy, lockBody, confirmed>>

-------------------------------------------------------------------------------
(* Outside the program: SIGKILL or power loss, and the operator *)

Kill(p) ==
  /\ Running(p)
  /\ Ends(p, "killed")
  /\ UNCHANGED <<lockBy, lockBody, confirmed>>

Bug_OperatorHasty ==                   \* removed while a process may be running
  /\ lockBy # NoProc
  /\ ~confirmed
  /\ confirmed' = TRUE
  /\ UNCHANGED <<lockBy, lockBody, pc, sig, exit>>

\* The remediation of exit 5: confirm that no process is running, then remove.
OperatorConfirm ==
  /\ lockBy # NoProc
  /\ \A p \in Procs : ~Running(p)
  /\ ~confirmed
  /\ confirmed' = TRUE
  /\ UNCHANGED <<lockBy, lockBody, pc, sig, exit>>

OperatorRemove ==
  /\ confirmed
  /\ Unlocked
  /\ confirmed' = FALSE
  /\ UNCHANGED <<pc, sig, exit>>

-------------------------------------------------------------------------------
Acquire(p) ==
  \/ CreateLock(p) \/ FindLock(p) \/ ReportHeld(p) \/ LoseHolder(p)
  \/ WriteBody(p) \/ WriteBodyFails(p)

Release(p) == Finish(p) \/ ReadBack(p) \/ Unlink(p) \/ Exit(p)

SignalRelease(p) == SignalReadBack(p) \/ SignalUnlink(p) \/ SignalExit(p)

Next ==
  \/ \E p \in Procs :
       \/ Start(p) \/ Acquire(p) \/ EraseLock(p) \/ Release(p)
       \/ Signal(p) \/ SignalRelease(p) \/ DefaultSignal(p) \/ Kill(p)
  \/ OperatorConfirm \/ OperatorRemove

Spec == Init /\ [][Next]_vars

\* Nothing in acquireLock or release waits for anyone, and a command's work is
\* a finite loop over files: a started process takes its steps.
FairSpec ==
  /\ Spec
  /\ \A p \in Procs : WF_vars(Acquire(p)) /\ WF_vars(Release(p))

-------------------------------------------------------------------------------
(* Properties *)

TypeOK ==
  /\ lockBy \in Procs \cup {NoProc}
  /\ lockBody \in BOOLEAN
  /\ pc \in [Procs -> PCs]
  /\ sig \in [Procs -> Sigs]
  /\ exit \in [Procs -> Exits]
  /\ confirmed \in BOOLEAN

(***************************************************************************)
(* Two commands never work on the same cwd at once (PRD-003 section 8.3:    *)
(* "Lock acquisition prevents two concurrent mutating commands from         *)
(* interleaving").                                                          *)
(***************************************************************************)
MutualExclusion ==
  \A p, q \in Procs : InCritical(p) /\ InCritical(q) => p = q

(***************************************************************************)
(* What is left of it when signals come: of two commands at work, one has   *)
(* been signalled, has already unlinked its lock, and has only to exit.     *)
(***************************************************************************)
ExclusionUntilSignalled ==
  \A p, q \in Procs :
    InCritical(p) /\ InCritical(q) /\ p # q
      => sig[p] = "exiting" \/ sig[q] = "exiting"

(***************************************************************************)
(* What is left of it when `init --force --erase` comes: one of two         *)
(* commands at work has deleted its own lock.                               *)
(***************************************************************************)
ExclusionUnlessErased ==
  \A p, q \in Procs :
    InCritical(p) /\ InCritical(q) /\ p # q => pc[p] = "erased" \/ pc[q] = "erased"

(***************************************************************************)
(* Where each process stands with the file, when nobody erases: the reason  *)
(* why the exclusion holds, and the invariant that proves it.               *)
(***************************************************************************)
LockDiscipline ==
  /\ lockBody => lockBy # NoProc
  /\ \A p \in Procs :
       /\ pc[p] # "erased"
       /\ pc[p] = "writing" => lockBy = p
       /\ pc[p] \in {"releasing", "unlinking"} => OwnLock(p)
       /\ InCritical(p) /\ sig[p] # "exiting" => OwnLock(p)
       /\ sig[p] \in {"reading", "unlinking"} => OwnLock(p)
       /\ sig[p] = "exiting" => lockBy # p
       /\ sig[p] # "none" => InCritical(p) \/ pc[p] = "exiting"
  /\ confirmed =>
       /\ lockBy # NoProc
       /\ \A p \in Procs : pc[p] \in {"idle", "dead", "locking", "contended"}

(***************************************************************************)
(* lock.ts:95-98: release removes the file only while it names this pid, so *)
(* no process, and no operator who follows the remediation, removes the     *)
(* lock of a process that is still running.                                 *)
(***************************************************************************)
LockTakenOnlyFromItsOwner ==
  [][\A p \in Procs :
       Holds(p) /\ lockBy' # p
         => pc'[p] # pc[p] \/ sig'[p] # sig[p]]_vars

(***************************************************************************)
(* "The CLI does not auto-recover": a lock whose process has ended goes     *)
(* away only by the operator's hand.                                        *)
(***************************************************************************)
StaleLockNeedsOperator ==
  [][\A p \in Procs :
       lockBy = p /\ ~Holds(p) /\ lockBy' # p => confirmed /\ ~confirmed']_vars

(***************************************************************************)
(* PRD-003 section 7.6, "Release: on normal exit, abnormal exit (caught     *)
(* exception), ... the CLI removes the lock file".                          *)
(***************************************************************************)
FinishedRunLeavesNoLock ==
  \A p \in Procs : exit[p] \in {"done", "unhandled"} => lockBy # p

(***************************************************************************)
(* "There is no retry loop": every invocation comes to an end, whoever      *)
(* holds or has left the lock.                                              *)
(***************************************************************************)
EveryRunEnds == \A p \in Procs : pc[p] = "locking" ~> pc[p] = "dead"

-------------------------------------------------------------------------------
(* The lock file keeps the promise of ExclusiveSection, signals included.   *)

\* By its own control state alone, whatever the file says: from the open that
\* creates the lock until the unlink of the release() that comes first.
Inside(p) ==
  /\ \/ InCritical(p)
     \/ pc[p] \in {"writing", "releasing", "unlinking"}
     \/ sig[p] \in {"reading", "unlinking"}
  /\ sig[p] # "exiting"

Section == INSTANCE ExclusiveSection WITH
             inside <- {p \in Procs : Inside(p)},
             taken <- lockBy # NoProc

(***************************************************************************)
(* Processes enter one at a time, leave by freeing the lock or die inside,  *)
(* and the lock of one that died is freed only while nobody is inside.      *)
(***************************************************************************)
KeepsSection == Section!Spec

===============================================================================
