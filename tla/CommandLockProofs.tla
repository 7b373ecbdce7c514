--------------------------- MODULE CommandLockProofs ---------------------------
(***************************************************************************)
(* Proofs about CommandLock for any number of processes, any of which may   *)
(* be signalled or killed at any step.  TypeOK needs no hypothesis.  The    *)
(* rest needs that nobody runs `init --force --erase`, which deletes the    *)
(* lock it holds, or that nobody is signalled, as mutual exclusion does,    *)
(* since a signalled command goes on after its lock is gone.                *)
(***************************************************************************)
EXTENDS CommandLock, TLAPS

USE DEF PCs, Sigs, Exits

\* Every step of the protocol keeps every variable in its range.
LEMMA TypeStep ==
  ASSUME TypeOK, [Next]_vars
  PROVE  TypeOK'
<1> USE DEF TypeOK, Goto, Ends, Unlocked, LockUnchanged
<1>1. ASSUME NEW p \in Procs, Start(p) PROVE TypeOK'
  BY <1>1 DEF Start
<1>2. ASSUME NEW p \in Procs, Acquire(p) PROVE TypeOK'
  BY <1>2 DEF Acquire, CreateLock, FindLock, ReportHeld, LoseHolder,
              WriteBody, WriteBodyFails
<1>3. ASSUME NEW p \in Procs, EraseLock(p) PROVE TypeOK'
  BY <1>3 DEF EraseLock
<1>4. ASSUME NEW p \in Procs, Release(p) PROVE TypeOK'
  BY <1>4 DEF Release, Finish, ReadBack, Unlink, Exit
<1>5. ASSUME NEW p \in Procs, Signal(p) PROVE TypeOK'
  BY <1>5 DEF Signal
<1>6. ASSUME NEW p \in Procs, SignalRelease(p) PROVE TypeOK'
  BY <1>6 DEF SignalRelease, SignalReadBack, SignalUnlink, SignalExit
<1>7. ASSUME NEW p \in Procs, DefaultSignal(p) \/ Kill(p) PROVE TypeOK'
  BY <1>7 DEF DefaultSignal, Kill
<1>8. CASE OperatorConfirm \/ OperatorRemove
  BY <1>8 DEF OperatorConfirm, OperatorRemove
<1>9. CASE UNCHANGED vars
  BY <1>9 DEF vars
<1> QED
  BY <1>1, <1>2, <1>3, <1>4, <1>5, <1>6, <1>7, <1>8, <1>9 DEF Next

(***************************************************************************)
(* The state of lock.ts's protocol stays in its ranges, whoever erases, is  *)
(* signalled or fails to write.                                             *)
(***************************************************************************)
THEOREM TypeCorrect == Spec => []TypeOK
<1>1. Init => TypeOK
  BY DEF Init, TypeOK
<1>2. TypeOK /\ [Next]_vars => TypeOK'
  BY TypeStep
<1> QED
  BY <1>1, <1>2, PTL DEF Spec

Inv == TypeOK /\ LockDiscipline

(***************************************************************************)
(* The invariant behind the exclusion.  Each step is split by the part it   *)
(* can disturb: the stepping process, the others, and the operator's check. *)
(***************************************************************************)
LEMMA DisciplineStep ==
  ASSUME Erasers = {}, Inv, [Next]_vars
  PROVE  LockDiscipline'
<1> USE NoProcAssumption DEF Inv, TypeOK, LockDiscipline, OwnLock, InCritical,
        Goto, Ends, Unlocked, LockUnchanged
<1>1. ASSUME NEW p \in Procs, Start(p) PROVE LockDiscipline'
  BY <1>1 DEF Start, Running
<1>2. ASSUME NEW p \in Procs, CreateLock(p) PROVE LockDiscipline'
  BY <1>2 DEF CreateLock
<1>3. ASSUME NEW p \in Procs, FindLock(p) PROVE LockDiscipline'
  BY <1>3 DEF FindLock
<1>4. ASSUME NEW p \in Procs, ReportHeld(p) \/ LoseHolder(p)
      PROVE LockDiscipline'
  BY <1>4 DEF ReportHeld, LoseHolder
<1>5. ASSUME NEW p \in Procs, WriteBody(p) PROVE LockDiscipline'
  BY <1>5 DEF WriteBody
<1>6. ASSUME NEW p \in Procs, WriteBodyFails(p) PROVE LockDiscipline'
  BY <1>6 DEF WriteBodyFails
<1>7. ASSUME NEW p \in Procs, Finish(p) PROVE LockDiscipline'
  BY <1>7 DEF Finish
<1>8. ASSUME NEW p \in Procs, ReadBack(p) PROVE LockDiscipline'
  BY <1>8 DEF ReadBack
<1>9. ASSUME NEW p \in Procs, Unlink(p) PROVE LockDiscipline'
  BY <1>9 DEF Unlink
<1>10. ASSUME NEW p \in Procs, Exit(p) PROVE LockDiscipline'
  BY <1>10 DEF Exit
<1>11. ASSUME NEW p \in Procs, Signal(p) PROVE LockDiscipline'
  BY <1>11 DEF Signal
<1>12. ASSUME NEW p \in Procs, SignalReadBack(p) PROVE LockDiscipline'
  BY <1>12 DEF SignalReadBack
<1>13. ASSUME NEW p \in Procs, SignalUnlink(p) PROVE LockDiscipline'
  BY <1>13 DEF SignalUnlink
<1>14. ASSUME NEW p \in Procs, SignalExit(p) PROVE LockDiscipline'
  BY <1>14 DEF SignalExit
<1>15. ASSUME NEW p \in Procs, DefaultSignal(p) \/ Kill(p)
       PROVE LockDiscipline'
  BY <1>15 DEF DefaultSignal, Kill, Running
<1>16. CASE OperatorConfirm
  BY <1>16 DEF OperatorConfirm, Running
<1>17. CASE OperatorRemove
  BY <1>17 DEF OperatorRemove
<1>18. CASE UNCHANGED vars
  BY <1>18 DEF vars
<1> QED
  BY <1>1, <1>2, <1>3, <1>4, <1>5, <1>6, <1>7, <1>8, <1>9, <1>10, <1>11,
     <1>12, <1>13, <1>14, <1>15, <1>16, <1>17, <1>18
  DEF Next, Acquire, Release, SignalRelease, EraseLock

\* LockDiscipline holds for any number of processes, signalled and killed at will.
THEOREM Discipline ==
  ASSUME Erasers = {}
  PROVE  Spec => []LockDiscipline
<1>1. Init => LockDiscipline
  BY NoProcAssumption DEF Init, LockDiscipline, InCritical
<1>2. TypeOK /\ LockDiscipline /\ [Next]_vars => LockDiscipline'
  BY DisciplineStep DEF Inv
<1> QED
  BY <1>1, <1>2, TypeCorrect, PTL DEF Spec

(***************************************************************************)
(* Of two commands at work at once, one has been signalled and has already  *)
(* given its lock up: it can only be about to exit.                         *)
(***************************************************************************)
THEOREM ExclusionWithSignals ==
  ASSUME Erasers = {}
  PROVE  Spec => []ExclusionUntilSignalled
<1>1. LockDiscipline => ExclusionUntilSignalled
  BY DEF LockDiscipline, ExclusionUntilSignalled, OwnLock
<1> QED
  BY <1>1, Discipline, PTL

Unsignalled == \A p \in Procs : sig[p] = "none"

\* Who is not signalled runs no release() but its own.
LEMMA UnsignalledStep ==
  ASSUME Signalled = {}, TypeOK, Unsignalled, [Next]_vars
  PROVE  Unsignalled'
<1> USE DEF TypeOK, Goto, Ends, Unsignalled
<1>1. ASSUME NEW p \in Procs, Start(p) \/ Acquire(p) PROVE Unsignalled'
  BY <1>1 DEF Start, Acquire, CreateLock, FindLock, ReportHeld, LoseHolder,
              WriteBody, WriteBodyFails
<1>2. ASSUME NEW p \in Procs, EraseLock(p) \/ Release(p) PROVE Unsignalled'
  BY <1>2 DEF EraseLock, Release, Finish, ReadBack, Unlink, Exit
<1>3. ASSUME NEW p \in Procs,
             \/ Signal(p) \/ SignalRelease(p) \/ DefaultSignal(p)
             \/ Kill(p)
      PROVE Unsignalled'
  BY <1>3 DEF Signal, SignalRelease, SignalReadBack, SignalUnlink,
              SignalExit, DefaultSignal, Kill
<1>4. CASE OperatorConfirm \/ OperatorRemove
  BY <1>4 DEF OperatorConfirm, OperatorRemove
<1>5. CASE UNCHANGED vars
  BY <1>5 DEF vars
<1> QED
  BY <1>1, <1>2, <1>3, <1>4, <1>5 DEF Next

(***************************************************************************)
(* Without erasers and signals nothing is left of the exceptions: no two    *)
(* commands work on the cwd at once.                                        *)
(***************************************************************************)
THEOREM Exclusion ==
  ASSUME Erasers = {}, Signalled = {}
  PROVE  Spec => []MutualExclusion
<1>1. Init => Unsignalled
  BY DEF Init, Unsignalled
<1>2. TypeOK /\ Unsignalled /\ [Next]_vars => Unsignalled'
  BY UnsignalledStep
<1>3. LockDiscipline /\ Unsignalled => MutualExclusion
  BY DEF LockDiscipline, Unsignalled, MutualExclusion, OwnLock
<1> QED
  BY <1>1, <1>2, <1>3, TypeCorrect, Discipline, PTL DEF Spec

(***************************************************************************)
(* What LockDiscipline becomes when commands may delete their lock: only    *)
(* one that has not, and one that has read its pid back, has the file.      *)
(***************************************************************************)
EraserDiscipline ==
  /\ \A p \in Procs :
       /\ pc[p] = "writing" => lockBy = p
       /\ pc[p] \in {"critical", "unlinking"} => OwnLock(p)
  /\ confirmed =>
       /\ lockBy # NoProc
       /\ \A p \in Procs : pc[p] \in {"idle", "dead", "locking", "contended"}

\* A command that finds another's lock, or none, leaves it alone.
LEMMA EraserStep ==
  ASSUME Signalled = {}, TypeOK, Unsignalled, EraserDiscipline, [Next]_vars
  PROVE  EraserDiscipline'
<1> USE NoProcAssumption DEF TypeOK, Unsignalled, EraserDiscipline, OwnLock, InCritical,
        Goto, Ends, Unlocked, LockUnchanged
<1>1. ASSUME NEW p \in Procs, Start(p)
      PROVE  EraserDiscipline'
  BY <1>1 DEF Start, Running
<1>2. ASSUME NEW p \in Procs, CreateLock(p)
      PROVE  EraserDiscipline'
  BY <1>2 DEF CreateLock
<1>3. ASSUME NEW p \in Procs, FindLock(p) \/ ReportHeld(p) \/ LoseHolder(p)
      PROVE  EraserDiscipline'
  BY <1>3 DEF FindLock, ReportHeld, LoseHolder
<1>4. ASSUME NEW p \in Procs, WriteBody(p) \/ WriteBodyFails(p)
      PROVE  EraserDiscipline'
  <2>1. CASE WriteBody(p)
    <3>1. lockBy' = p /\ lockBody' = TRUE
      BY <2>1 DEF WriteBody
    <3> QED
      BY <2>1, <3>1 DEF WriteBody
  <2>2. CASE WriteBodyFails(p)
    BY <2>2 DEF WriteBodyFails
  <2> QED
    BY <1>4, <2>1, <2>2
<1>5. ASSUME NEW p \in Procs, EraseLock(p)
      PROVE  EraserDiscipline'
  BY <1>5 DEF EraseLock
<1>6. ASSUME NEW p \in Procs, Finish(p) \/ ReadBack(p) \/ Exit(p)
      PROVE  EraserDiscipline'
  BY <1>6 DEF Finish, ReadBack, Exit
<1>7. ASSUME NEW p \in Procs, Unlink(p)
      PROVE  EraserDiscipline'
  BY <1>7 DEF Unlink
<1>8. ASSUME NEW p \in Procs, Signal(p) \/ SignalRelease(p)
      PROVE  EraserDiscipline'
  BY <1>8 DEF Signal, SignalRelease, SignalReadBack, SignalUnlink, SignalExit
<1>9. ASSUME NEW p \in Procs, DefaultSignal(p) \/ Kill(p)
      PROVE  EraserDiscipline'
  BY <1>9 DEF DefaultSignal, Kill, Running
<1>10. CASE OperatorConfirm
  BY <1>10 DEF OperatorConfirm, Running
<1>11. CASE OperatorRemove
  BY <1>11 DEF OperatorRemove
<1>12. CASE UNCHANGED vars
  BY <1>12 DEF vars
<1> QED
  BY <1>1, <1>2, <1>3, <1>4, <1>5, <1>6, <1>7, <1>8, <1>9, <1>10, <1>11, <1>12
  DEF Next, Acquire, Release

(***************************************************************************)
(* With commands that delete their own lock: of two at work on the cwd one  *)
(* is such a command, after it has done so.                                 *)
(***************************************************************************)
THEOREM ExclusionWithErasers ==
  ASSUME Signalled = {}
  PROVE  Spec => []ExclusionUnlessErased
<1>1. Init => Unsignalled /\ EraserDiscipline
  BY NoProcAssumption DEF Init, Unsignalled, EraserDiscipline
<1>2. /\ TypeOK /\ Unsignalled /\ EraserDiscipline /\ [Next]_vars
      => Unsignalled' /\ EraserDiscipline'
  BY UnsignalledStep, EraserStep
<1>3. EraserDiscipline => ExclusionUnlessErased
  BY DEF EraserDiscipline, ExclusionUnlessErased, InCritical, OwnLock
<1> QED
  BY <1>1, <1>2, <1>3, TypeCorrect, PTL DEF Spec

(***************************************************************************)
(* Why a run that ends by itself has given its lock up: what it finds when  *)
(* it reads the file back is its own pid or another's file, never its own   *)
(* with the body missing.                                                   *)
(***************************************************************************)
GivenUp ==
  \A p \in Procs :
    /\ Running(p) => exit[p] = "none"
    /\ pc[p] \in {"erased", "exiting"} => lockBy # p
    /\ pc[p] = "releasing" /\ lockBy = p => lockBody
    /\ exit[p] \in {"done", "unhandled"} => lockBy # p

\* Every way out of a command passes the release, or never had the lock.
LEMMA GivenUpStep ==
  ASSUME Signalled = {}, ~WriteFaults, TypeOK, Unsignalled, EraserDiscipline, GivenUp,
         [Next]_vars
  PROVE  GivenUp'
<1> USE NoProcAssumption DEF TypeOK, Unsignalled, EraserDiscipline, GivenUp, OwnLock,
        InCritical, Running, Goto, Ends, Unlocked, LockUnchanged
<1>1. ASSUME NEW p \in Procs, Start(p)
      PROVE  GivenUp'
  BY <1>1 DEF Start
<1>2. ASSUME NEW p \in Procs, CreateLock(p)
      PROVE  GivenUp'
  BY <1>2 DEF CreateLock
<1>3. ASSUME NEW p \in Procs, FindLock(p) \/ ReportHeld(p) \/ LoseHolder(p)
      PROVE  GivenUp'
  BY <1>3 DEF FindLock, ReportHeld, LoseHolder
<1>4. ASSUME NEW p \in Procs, WriteBody(p)
      PROVE  GivenUp'
  BY <1>4 DEF WriteBody
<1>5. ASSUME NEW p \in Procs, EraseLock(p)
      PROVE  GivenUp'
  BY <1>5 DEF EraseLock
<1>6. ASSUME NEW p \in Procs, Finish(p)
      PROVE  GivenUp'
  BY <1>6 DEF Finish
<1>7. ASSUME NEW p \in Procs, ReadBack(p)
      PROVE  GivenUp'
  BY <1>7 DEF ReadBack
<1>8. ASSUME NEW p \in Procs, Unlink(p)
      PROVE  GivenUp'
  BY <1>8 DEF Unlink
<1>9. ASSUME NEW p \in Procs, Exit(p)
      PROVE  GivenUp'
  BY <1>9 DEF Exit
<1>10. ASSUME NEW p \in Procs, DefaultSignal(p) \/ Kill(p)
       PROVE  GivenUp'
  BY <1>10 DEF DefaultSignal, Kill
<1>11. ASSUME NEW p \in Procs
       PROVE  ~ Signal(p) /\ ~ SignalRelease(p) /\ ~ WriteBodyFails(p)
  BY DEF Signal, SignalRelease, SignalReadBack, SignalUnlink, SignalExit, WriteBodyFails
<1>12. CASE OperatorConfirm \/ OperatorRemove
  BY <1>12 DEF OperatorConfirm, OperatorRemove
<1>13. CASE UNCHANGED vars
  BY <1>13 DEF vars
<1> QED
  BY <1>1, <1>2, <1>3, <1>4, <1>5, <1>6, <1>7, <1>8, <1>9, <1>10, <1>11, <1>12, <1>13
  DEF Next, Acquire, Release

(***************************************************************************)
(* Without signals and failing writes, a command that ends by itself leaves *)
(* no lock of its own, erased or not, for any set of processes.             *)
(***************************************************************************)
THEOREM FinishedGivesUp ==
  ASSUME Signalled = {}, ~WriteFaults
  PROVE  Spec => []FinishedRunLeavesNoLock
<1>1. Init => Unsignalled /\ EraserDiscipline /\ GivenUp
  BY NoProcAssumption DEF Init, Unsignalled, EraserDiscipline, GivenUp, Running
<1>2. /\ TypeOK /\ Unsignalled /\ EraserDiscipline /\ GivenUp /\ [Next]_vars
      => Unsignalled' /\ EraserDiscipline' /\ GivenUp'
  BY UnsignalledStep, EraserStep, GivenUpStep
<1>3. GivenUp => FinishedRunLeavesNoLock
  BY DEF GivenUp, FinishedRunLeavesNoLock
<1> QED
  BY <1>1, <1>2, <1>3, TypeCorrect, PTL DEF Spec

(***************************************************************************)
(* A step takes the lock only from its own process, or, by the operator,    *)
(* from one that has ended.                                                 *)
(***************************************************************************)
THEOREM TakenFromOwner ==
  ASSUME Erasers = {}
  PROVE  Spec => LockTakenOnlyFromItsOwner
<1> DEFINE Taken ==
      \A p \in Procs :
        Holds(p) /\ lockBy' # p => pc'[p] # pc[p] \/ sig'[p] # sig[p]
<1>1. TypeOK /\ LockDiscipline /\ [Next]_vars => [Taken]_vars
  <2> SUFFICES ASSUME TypeOK, LockDiscipline, Next PROVE Taken
    BY DEF vars
  <2> SUFFICES ASSUME NEW p \in Procs, Holds(p), lockBy' # p
               PROVE  pc'[p] # pc[p] \/ sig'[p] # sig[p]
    OBVIOUS
  <2> USE NoProcAssumption DEF TypeOK, LockDiscipline, Holds, OwnLock,
          InCritical, Goto, Ends, Unlocked, LockUnchanged
  <2>1. ASSUME NEW q \in Procs, Acquire(q)
        PROVE  pc'[p] # pc[p] \/ sig'[p] # sig[p]
    BY <2>1 DEF Acquire, CreateLock, FindLock, ReportHeld, LoseHolder,
                WriteBody, WriteBodyFails
  <2>2. ASSUME NEW q \in Procs, Release(q)
        PROVE  pc'[p] # pc[p] \/ sig'[p] # sig[p]
    BY <2>2 DEF Release, Finish, ReadBack, Unlink, Exit
  <2>3. ASSUME NEW q \in Procs, SignalRelease(q)
        PROVE  pc'[p] # pc[p] \/ sig'[p] # sig[p]
    BY <2>3 DEF SignalRelease, SignalReadBack, SignalUnlink, SignalExit
  <2>4. ASSUME NEW q \in Procs,
               \/ Start(q) \/ EraseLock(q) \/ Signal(q)
               \/ DefaultSignal(q) \/ Kill(q)
        PROVE  pc'[p] # pc[p] \/ sig'[p] # sig[p]
    BY <2>4 DEF Start, EraseLock, Signal, DefaultSignal, Kill
  <2>5. CASE OperatorConfirm \/ OperatorRemove
    BY <2>5 DEF OperatorConfirm, OperatorRemove
  <2> QED
    BY <2>1, <2>2, <2>3, <2>4, <2>5 DEF Next
<1> QED
  BY <1>1, TypeCorrect, Discipline, PTL DEF Spec, LockTakenOnlyFromItsOwner

(***************************************************************************)
(* A lock left behind goes away only by the operator, who has confirmed     *)
(* that nothing runs: no later command takes it over, cleans it or opens it.*)
(***************************************************************************)
THEOREM StaleStays ==
  ASSUME Erasers = {}
  PROVE  Spec => StaleLockNeedsOperator
<1>1. ASSUME TypeOK, LockDiscipline, [Next]_vars,
             NEW p \in Procs, lockBy = p, ~Holds(p), lockBy' # p
      PROVE  confirmed /\ ~confirmed'
  <2> USE <1>1, NoProcAssumption DEF TypeOK, LockDiscipline, Holds, OwnLock, InCritical, Goto,
          Ends, Unlocked, LockUnchanged
  <2>1. ASSUME NEW q \in Procs
        PROVE  ~ Acquire(q)
    BY DEF Acquire, CreateLock, FindLock, ReportHeld, LoseHolder, WriteBody, WriteBodyFails
  <2>2. ASSUME NEW q \in Procs
        PROVE  ~ Release(q) /\ ~ SignalRelease(q)
    BY DEF Release, Finish, ReadBack, Unlink, Exit, SignalRelease, SignalReadBack,
           SignalUnlink, SignalExit
  <2>3. ASSUME NEW q \in Procs
        PROVE  ~ (Start(q) \/ EraseLock(q) \/ Signal(q) \/ DefaultSignal(q) \/ Kill(q))
    BY DEF Start, EraseLock, Signal, DefaultSignal, Kill
  <2>4. OperatorRemove
    BY <2>1, <2>2, <2>3 DEF Next, OperatorConfirm, vars
  <2> QED
    BY <2>4 DEF OperatorRemove
<1>2. TypeOK /\ LockDiscipline /\ [Next]_vars =>
        [\A p \in Procs :
           lockBy = p /\ ~Holds(p) /\ lockBy' # p => confirmed /\ ~confirmed']_vars
  BY <1>1
<1> QED
  BY <1>2, TypeCorrect, Discipline, PTL DEF Spec, StaleLockNeedsOperator

Holders == {p \in Procs : Holds(p)}
Taken == lockBy # NoProc

(***************************************************************************)
(* A step of lock.ts is a step of ExclusiveSection or a stutter: creating   *)
(* the file enters, the owner's unlink leaves, an end without unlink        *)
(* abandons, the operator recovers.                                         *)
(***************************************************************************)
LEMMA SectionStep ==
  ASSUME Erasers = {}, Inv, [Next]_vars
  PROVE  [Section!Next]_(Section!vars)
<1>i. Inv'
  BY TypeStep, DisciplineStep DEF Inv
<1>0. {p \in Procs : Inside(p)} = Holders /\ {p \in Procs : Inside(p)}' = Holders'
  BY <1>i, NoProcAssumption
  DEF Inv, TypeOK, LockDiscipline, OwnLock, InCritical, Inside, Holds, Holders, PCs, Sigs
<1> USE NoProcAssumption DEF Inv, TypeOK, LockDiscipline, OwnLock, InCritical,
        Goto, Ends, Unlocked, LockUnchanged
<1> DEFINE Stutter == Holders' = Holders /\ Taken' = Taken
<1>s. Stutter => UNCHANGED Section!vars
  BY <1>0 DEF Section!vars, Taken
<1>e. ASSUME NEW p \in Procs, ~Taken, Taken' = TRUE, Holders' = Holders \cup {p}
      PROVE  Section!Next
  BY <1>0, <1>e DEF Section!Next, Section!Enter, Holders, Taken
<1>l. ASSUME NEW p \in Procs, Holds(p), Taken' = FALSE, Holders' = Holders \ {p}
      PROVE  Section!Next
  BY <1>0, <1>l DEF Section!Next, Section!Leave, Holders, Taken
<1>a. ASSUME NEW p \in Procs, Holds(p), Taken' = Taken, Holders' = Holders \ {p}
      PROVE  Section!Next
  BY <1>0, <1>a DEF Section!Next, Section!Abandon, Holders, Taken
<1>d. ASSUME NEW p \in Procs, NEW how, Ends(p, how), LockUnchanged
      PROVE  Section!Next \/ Stutter
  <2>1. CASE Holds(p)
    <3>1. Holders' = Holders \ {p} /\ Taken' = Taken
      BY <1>d, <2>1 DEF Holders, Taken, Holds
    <3> QED
      BY <3>1, <2>1, <1>a
  <2>2. CASE ~Holds(p)
    BY <1>d, <2>2 DEF Holders, Taken, Holds
  <2> QED
    BY <2>1, <2>2
<1>1. ASSUME NEW p \in Procs, Start(p) PROVE Stutter
  BY <1>1 DEF Start, Running, Holders, Taken, Holds
<1>2. ASSUME NEW p \in Procs, CreateLock(p) PROVE Section!Next
  <2>1. ~Taken /\ Taken' = TRUE /\ Holders' = Holders \cup {p}
    BY <1>2 DEF CreateLock, Holders, Taken, Holds
  <2> QED
    BY <2>1, <1>e
<1>3. ASSUME NEW p \in Procs, FindLock(p) PROVE Stutter
  BY <1>3 DEF FindLock, Holders, Taken, Holds
<1>4. ASSUME NEW p \in Procs,
             \/ ReportHeld(p) \/ LoseHolder(p) \/ WriteBodyFails(p)
             \/ Exit(p) \/ DefaultSignal(p) \/ Kill(p)
      PROVE  Section!Next \/ Stutter
  BY <1>4, <1>d DEF ReportHeld, LoseHolder, WriteBodyFails, Exit,
                    DefaultSignal, Kill
<1>5. ASSUME NEW p \in Procs, WriteBody(p) PROVE Stutter
  BY <1>5 DEF WriteBody, Holders, Taken, Holds
<1>6. ASSUME NEW p \in Procs, Finish(p) PROVE Stutter
  BY <1>6 DEF Finish, Holders, Taken, Holds
<1>7. ASSUME NEW p \in Procs, ReadBack(p) PROVE Stutter
  BY <1>7 DEF ReadBack, Holders, Taken, Holds
<1>8. ASSUME NEW p \in Procs, Unlink(p) PROVE Section!Next
  <2>1. Holds(p) /\ Taken' = FALSE /\ Holders' = Holders \ {p}
    BY <1>8 DEF Unlink, Holders, Taken, Holds
  <2> QED
    BY <2>1, <1>l
<1>9. ASSUME NEW p \in Procs, Signal(p) \/ SignalReadBack(p) PROVE Stutter
  BY <1>9 DEF Signal, SignalReadBack, Holders, Taken, Holds
<1>10. ASSUME NEW p \in Procs, SignalUnlink(p) PROVE Section!Next
  <2>1. Holds(p) /\ Taken' = FALSE /\ Holders' = Holders \ {p}
    BY <1>10 DEF SignalUnlink, Holders, Taken, Holds
  <2> QED
    BY <2>1, <1>l
<1>11. ASSUME NEW p \in Procs, SignalExit(p) PROVE Section!Next \/ Stutter
  <2>1. CASE InCritical(p) /\ OwnLock(p)
    <3>1. Holds(p) /\ Taken' = FALSE /\ Holders' = Holders \ {p}
      BY <1>11, <2>1 DEF SignalExit, Holders, Taken, Holds
    <3> QED
      BY <3>1, <1>l
  <2>2. CASE ~(InCritical(p) /\ OwnLock(p))
    BY <1>11, <2>2, <1>d DEF SignalExit
  <2> QED
    BY <2>1, <2>2
<1>12. CASE OperatorConfirm
  BY <1>12, <1>s DEF OperatorConfirm, Holders, Taken, Holds
<1>13. CASE OperatorRemove
  <2>1. Taken /\ Taken' = FALSE /\ Holders = {} /\ Holders' = Holders
    BY <1>13 DEF OperatorRemove, Holders, Taken, Holds
  <2> QED
    BY <1>0, <2>1 DEF Section!Next, Section!Recover, Taken
<1>14. CASE UNCHANGED vars
  BY <1>14, <1>s DEF vars, Holders, Taken, Holds
<1> QED
  BY <1>s, <1>1, <1>2, <1>3, <1>4, <1>5, <1>6, <1>7, <1>8, <1>9, <1>10,
     <1>11, <1>12, <1>13, <1>14
  DEF Next, Acquire, Release, SignalRelease, EraseLock

(***************************************************************************)
(* lock.ts keeps PRD-003 section 7.6's promise as ExclusiveSection states   *)
(* it, signals and kills included, as long as nobody erases.                *)
(***************************************************************************)
THEOREM ImplementsSection ==
  ASSUME Erasers = {}
  PROVE  Spec => KeepsSection
<1>1. Init => Section!Init
  BY DEF Init, Section!Init, Inside, InCritical
<1>2. TypeOK /\ LockDiscipline /\ [Next]_vars => [Section!Next]_(Section!vars)
  BY SectionStep DEF Inv
<1> QED
  BY <1>1, <1>2, TypeCorrect, Discipline, PTL
  DEF Spec, KeepsSection, Section!Spec

================================================================================
