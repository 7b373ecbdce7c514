---------------------------- MODULE ChangeLoopProofs ----------------------------
(***************************************************************************)
(* Proofs about ChangeLoop: the ledger, the budget, idling and the approved *)
(* tests, for any tasks, tests, budgets and number of runs.                 *)
(***************************************************************************)
EXTENDS ChangeLoop, TestLockProofs, FiniteSetTheorems

-------------------------------------------------------------------------------
(* The type invariant *)

\* The number of ticked tasks is one, and the number of all only if all are.
LEMMA TickedCount ==
  ASSUME NEW S \in SUBSET Tasks, NEW T \in SUBSET S
  PROVE  /\ Cardinality(S) \in Nat /\ Cardinality(T) \in Nat
         /\ Cardinality(T) <= Cardinality(S)
         /\ Cardinality(S) = Cardinality(T) => S = T
<1>1. IsFiniteSet(S)
  BY TasksAssumption, FS_Subset
<1> QED
  BY <1>1, FS_Subset, FS_CardinalityType

\* A run that was not refused has a lock and a ledger it could read.
LEMMA NotRefused ==
  ASSUME TypeOK, Refusal = 0
  PROVE  /\ lock # BadLock /\ UnlockedIn(Entries(lock)) = {}
         /\ ledger \in Ledger \cup {NoLedger}
         /\ budget.iterations >= Lines(ledger) + (Cardinality(Tasks) - Cardinality(ticked))
<1>1. /\ budget.iterations \in Nat
      /\ Cardinality(Tasks) \in Nat /\ Cardinality(ticked) \in Nat
  BY BudgetsAssumption, TickedCount DEF TypeOK
<1>2. /\ lock # BadLock /\ UnlockedIn(Entries(lock)) = {}
      /\ ledger \notin {BadLedger, GarbledLedger}
      /\ ~ budget.iterations < Lines(ledger) + (Cardinality(Tasks) - Cardinality(ticked))
  BY DEF Refusal
<1>3. ledger \in Ledger \cup {NoLedger}
  BY <1>2 DEF TypeOK
<1>4. Lines(ledger) \in Nat
  BY <1>3 DEF Lines, Ledger
<1> QED
  BY <1>1, <1>2, <1>3, <1>4

\* A stopped run is a run.
LEMMA StoppedType ==
  ASSUME NEW code \in {0, 2, 3, 4, 5, 130}
  PROVE  Stopped(code) \in RunType
BY DEF Stopped, RunType, Nothing

\* A run that stops stays a run.
LEMMA StopType ==
  ASSUME TypeOK, NEW d \in Drivers, NEW code \in {0, 2, 3, 4, 5, 130}, Stop(d, code)
  PROVE  run' \in [Drivers -> RunType]
BY StoppedType DEF Stop, TypeOK

\* The run of one driver moves on.
LEMMA RunMoves ==
  ASSUME TypeOK, NEW d \in Drivers, NEW r \in RunType, run' = [run EXCEPT ![d] = r]
  PROVE  run' \in [Drivers -> RunType] /\ run'[d] = r
         /\ \A e \in Drivers \ {d} : run'[e] = run[e]
BY DEF TypeOK

\* What a started run remembers has its type.
LEMMA StartRun ==
  ASSUME TypeOK, NEW d \in Drivers, Start(d), Refusal = 0
  PROVE  Begun \in RunType /\ run' = [run EXCEPT ![d] = Begun]
<1>1. lock \in AnyLock /\ lock # BadLock /\ ledger \in Ledger \cup {NoLedger}
  BY NotRefused DEF TypeOK, AnyLock
<1>2. Entries(lock) \in [Tests -> Entry]
  BY <1>1, EntriesType
<1>3. Lines(ledger) + 1 \in Nat /\ Spent(ledger) \in Nat
  BY <1>1 DEF Lines, Spent, Ledger
<1>4. Cardinality(ticked) \in Nat /\ ticked \in SUBSET Tasks
  BY TickedCount DEF TypeOK
<1>5. budget.iterations \in Nat /\ budget.usd \in Nat \cup {NoCap}
  BY BudgetsAssumption DEF TypeOK
<1>6. Begun \in RunType
  BY <1>1, <1>2, <1>3, <1>4, <1>5 DEF Begun, RunType, AnyLock, Entry
<1> QED
  BY <1>6 DEF Start

\* The agent exits with a cost.
LEMMA ExitRun ==
  ASSUME TypeOK, NEW d \in Drivers, AgentExits(d)
  PROVE  run' \in [Drivers -> RunType]
<1>1. PICK cost \in Costs :
        run' = [run EXCEPT ![d].pc = "recording", ![d].cost = cost, ![d].spent = @ + cost]
  BY DEF AgentExits
<1>2. cost \in Nat /\ run[d] \in RunType
  BY CostsAssumption DEF TypeOK
<1>3. run[d].spent + cost \in Nat
  BY <1>2 DEF RunType
<1>4. [run[d] EXCEPT !.pc = "recording", !.cost = cost, !.spent = run[d].spent + cost] \in RunType
  BY <1>2, <1>3 DEF RunType
<1> QED
  BY <1>1, <1>4 DEF TypeOK

\* A run keeps its type when it goes on to the check.
LEMMA CheckingType ==
  ASSUME NEW r \in RunType, NEW l \in Ledger, NEW b \in BOOLEAN
  PROVE  [r EXCEPT !.pc = "checking", !.ledgerWas = l, !.problem = b] \in RunType
<1> DEFINE s == [r EXCEPT !.pc = "checking", !.ledgerWas = l]
<1>1. s \in RunType
  BY DEF RunType
<1> HIDE DEF s
<1>2. [s EXCEPT !.problem = b] \in RunType
  BY <1>1 DEF RunType
<1> QED
  BY <1>2 DEF s

\* The line written after an iteration makes a ledger of what stood at its path.
LEMMA RecordRun ==
  ASSUME TypeOK, NEW d \in Drivers, RecordIteration(d)
  PROVE  /\ run' \in [Drivers -> RunType]
         /\ ledger' \in Ledger \cup {NoLedger, BadLedger, GarbledLedger}
<1>1. run[d] \in RunType
  BY DEF TypeOK
<1>2. NextLedger(d) \in Ledger
  BY <1>1 DEF NextLedger, Lines, Spent, Ledger, RunType
<1>3. [run[d] EXCEPT !.pc = "checking", !.ledgerWas = NextLedger(d),
                     !.problem = ledger # run[d].ledgerWas] \in RunType
  <2>1. (ledger # run[d].ledgerWas) \in BOOLEAN
    OBVIOUS
  <2> QED
    BY <1>1, <1>2, <2>1, CheckingType
<1>4. [run[d] EXCEPT !.pc = "checking", !.problem = here] \in RunType
  BY <1>1 DEF RunType, TypeOK
<1> QED
  BY <1>2, <1>3, <1>4 DEF TypeOK, RecordIteration

\* The check stops the run or passes it on.
LEMMA CheckRun ==
  ASSUME TypeOK, NEW d \in Drivers, CheckLocked(d)
  PROVE  run' \in [Drivers -> RunType]
<1>1. [run[d] EXCEPT !.pc = "deciding"] \in RunType
  BY DEF RunType, TypeOK
<1> QED
  BY <1>1, StopType DEF TypeOK, CheckLocked

\* A run keeps its type when six of its fields move on.
LEMMA NextAgentType ==
  ASSUME NEW r \in RunType, NEW i \in Nat, NEW n \in Nat, NEW k \in Nat,
         NEW b \in SUBSET Tasks, NEW m \in Nat
  PROVE  [r EXCEPT !.pc = "agent", !.iteration = i, !.doneBefore = n, !.idle = k,
                   !.best = b, !.stalled = m] \in RunType
<1> DEFINE s == [r EXCEPT !.pc = "agent", !.iteration = i, !.doneBefore = n]
<1>1. s \in RunType
  BY DEF RunType
<1> HIDE DEF s
<1>2. [s EXCEPT !.idle = k, !.best = b, !.stalled = m] \in RunType
  BY <1>1 DEF RunType
<1> QED
  BY <1>2 DEF s

\* The run of a driver that goes on to its next agent.
Further(d) ==
  [run[d] EXCEPT !.pc = "agent", !.iteration = run[d].iteration + 1, !.doneBefore = Done,
     !.idle = Idle(d), !.best = run[d].best \cup ticked,
     !.stalled = IF ticked \subseteq run[d].best THEN run[d].stalled + 1 ELSE 0]

\* The decision stops the run or starts the next agent.
LEMMA DecideRun ==
  ASSUME TypeOK, NEW d \in Drivers, Decide(d)
  PROVE  /\ run' \in [Drivers -> RunType]
         /\ spawned' \in Nat
<1>1. run[d] \in RunType /\ Idle(d) \in Nat /\ Done \in Nat /\ ticked \in SUBSET Tasks
  BY TickedCount DEF TypeOK, Idle, Done, RunType
<1>2. /\ run[d].iteration + 1 \in Nat
      /\ run[d].best \cup ticked \in SUBSET Tasks
      /\ (IF ticked \subseteq run[d].best THEN run[d].stalled + 1 ELSE 0) \in Nat
  BY <1>1 DEF RunType
<1>3. CASE GoesOn(d)
  <2>1. Further(d) \in RunType
    BY <1>1, <1>2, NextAgentType DEF Further
  <2>2. run' = [run EXCEPT ![d] = Further(d)] /\ spawned' = spawned + 1
    BY <1>3 DEF Decide, Further, TypeOK
  <2> QED
    BY <2>1, <2>2 DEF TypeOK
<1>4. CASE ~GoesOn(d)
  <2>1. Verdict(d) \in {0, 2, 3, 5}
    BY <1>4 DEF GoesOn, Verdict
  <2> QED
    BY <1>4, <2>1, StopType DEF Decide, TypeOK
<1> QED
  BY <1>3, <1>4

\* Whatever an agent does, the folder stays a folder.
LEMMA AgentType ==
  ASSUME TypeOK, NEW d \in Drivers, AgentSteps(d)
  PROVE  TypeOK'
<1>1. CASE Tick(d) \/ Untick(d)
  BY <1>1 DEF Tick, Untick, AgentOnly, TypeOK
<1>2. CASE WriteBlocked(d) \/ MoveFolder(d)
  BY <1>2 DEF WriteBlocked, MoveFolder, AgentOnly, TypeOK
<1>3. CASE TouchTest(d)
  <2>1. tests' \in [Tests -> Contents \cup {Gone}]
    BY <1>3 DEF TouchTest, TypeOK
  <2> QED
    BY <1>3, <2>1 DEF TouchTest, AgentOnly, TypeOK
<1>4. CASE SelfApprove(d)
  <2>1. PICK t \in Tests : CanApprove(lock, {t}, tests) /\ lock' = Approve(lock, {t}, tests)
    BY <1>4 DEF SelfApprove
  <2>2. lock' \in LockFile
    BY <2>1, ApproveType DEF TypeOK, AnyLock
  <2> QED
    BY <1>4, <2>2 DEF SelfApprove, AgentOnly, TypeOK
<1>5. CASE SpoilLock(d)
  BY <1>5 DEF SpoilLock, AgentOnly, TypeOK
<1>6. CASE TouchLedger(d)
  <2>1. [lines |-> 0, usd |-> 0] \in Ledger
    BY DEF Ledger
  <2> QED
    BY <1>6, <2>1 DEF TouchLedger, AgentOnly, TypeOK
<1> QED
  BY <1>1, <1>2, <1>3, <1>4, <1>5, <1>6 DEF AgentSteps

\* So it does under what people do.
LEMMA HumanType ==
  ASSUME TypeOK, HumanSteps
  PROVE  TypeOK'
<1>1. CASE HumanApproves
  <2>1. PICK paths \in SUBSET Tests :
          /\ CanApprove(lock, paths, tests)
          /\ lock' = Approve(lock, paths, tests)
          /\ blessed' = [t \in Tests |-> IF t \in paths THEN tests[t] ELSE blessed[t]]
    BY <1>1 DEF HumanApproves
  <2>2. lock' \in LockFile
    BY <2>1, ApproveType DEF TypeOK, AnyLock
  <2>3. blessed' \in [Tests -> Contents \cup {NotLocked}]
    BY <2>1 DEF TypeOK, CanApprove
  <2> QED
    BY <1>1, <2>2, <2>3 DEF HumanApproves, TypeOK
<1>2. CASE HumanUnlocks
  <2>1. PICK t \in Tests : /\ CanUnlock(lock, t)
                           /\ lock' = Unlock(lock, t)
                           /\ blessed' = [blessed EXCEPT ![t] = NotLocked]
    BY <1>2 DEF HumanUnlocks
  <2>2. lock' \in LockFile
    BY <2>1, UnlockType DEF TypeOK, AnyLock
  <2>3. blessed' \in [Tests -> Contents \cup {NotLocked}]
    BY <2>1 DEF TypeOK
  <2> QED
    BY <1>2, <2>2, <2>3 DEF HumanUnlocks, TypeOK
<1>3. CASE HumanEditsTest
  <2>1. tests' \in [Tests -> Contents \cup {Gone}]
    BY <1>3 DEF HumanEditsTest, TypeOK
  <2> QED
    BY <1>3, <2>1 DEF HumanEditsTest, TypeOK
<1>4. CASE HumanPlans
  BY <1>4 DEF HumanPlans, TypeOK
<1>5. CASE Commit \/ Archive
  BY <1>5 DEF Commit, Archive, TypeOK
<1> QED
  BY <1>1, <1>2, <1>3, <1>4, <1>5 DEF HumanSteps

\* Every step keeps the types.
LEMMA TypeStep ==
  ASSUME TypeOK, [Next]_vars
  PROVE  TypeOK'
<1>1. ASSUME NEW d \in Drivers, Start(d)
      PROVE  TypeOK'
  <2>1. run' \in [Drivers -> RunType] /\ spawned' \in Nat
    <3>1. CASE Refusal = 0
      BY <1>1, <3>1, StartRun DEF Start, TypeOK
    <3>2. CASE Refusal # 0
      <4>1. Refusal \in {2, 3, 4}
        BY <3>2 DEF Refusal
      <4> QED
        BY <1>1, <3>2, <4>1, StopType DEF Start, TypeOK
    <3> QED
      BY <3>1, <3>2
  <2> QED
    BY <1>1, <2>1 DEF Start, TypeOK, folder
<1>2. ASSUME NEW d \in Drivers, AgentExits(d)
      PROVE  TypeOK'
  BY <1>2, ExitRun DEF AgentExits, TypeOK, folder
<1>3. ASSUME NEW d \in Drivers, RecordIteration(d)
      PROVE  TypeOK'
  BY <1>3, RecordRun DEF RecordIteration, TypeOK
<1>4. ASSUME NEW d \in Drivers, CheckLocked(d)
      PROVE  TypeOK'
  BY <1>4, CheckRun DEF CheckLocked, TypeOK, folder
<1>5. ASSUME NEW d \in Drivers, Decide(d)
      PROVE  TypeOK'
  <2>1. UNCHANGED <<folder, runs, blessed>>
    BY <1>5 DEF Decide
  <2> QED
    BY <1>5, <2>1, DecideRun DEF TypeOK, folder
<1>6. ASSUME NEW d \in Drivers, Kill(d)
      PROVE  TypeOK'
  BY <1>6, StopType DEF Kill, TypeOK, folder
<1>7. CASE UNCHANGED vars
  BY <1>7 DEF TypeOK, vars
<1> QED
  BY <1>1, <1>2, <1>3, <1>4, <1>5, <1>6, <1>7, AgentType, HumanType DEF Next, DriverSteps

\* The types hold at the start.
LEMMA TypeInit == Init => TypeOK
<1> SUFFICES ASSUME Init PROVE TypeOK
  OBVIOUS
<1>1. Stopped(0) \in RunType
  BY StoppedType
<1>2. run \in [Drivers -> RunType]
  BY <1>1 DEF Init
<1> QED
  BY <1>2 DEF Init, TypeOK, Nothing

(***************************************************************************)
(* The folder, the runs and the people's view of the tests keep their       *)
(* types, whatever agents do.                                               *)
(***************************************************************************)
THEOREM TypeCorrect == Spec => []TypeOK
<1>1. TypeOK /\ [Next]_vars => TypeOK'
  BY TypeStep
<1> QED
  BY <1>1, TypeInit, PTL DEF Spec

-------------------------------------------------------------------------------
(* Idling *)

\* What a run counts: its best is still ticked, and the iterations since are its idle
\* ones.
IdleCounted ==
  \A d \in Drivers :
    /\ run[d].best \subseteq ticked
    /\ run[d].doneBefore = Cardinality(run[d].best)
    /\ run[d].stalled = run[d].idle

IdleInv == TypeOK /\ IdleCounted /\ ThreeIdleStop

\* Runs that do not move keep their counts while ticked tasks stay ticked.
LEMMA OthersCounted ==
  ASSUME IdleInv, ticked \subseteq ticked', NEW d \in Drivers,
         \A e \in Drivers \ {d} : run'[e] = run[e],
         /\ run'[d].best \subseteq ticked'
         /\ run'[d].doneBefore = Cardinality(run'[d].best)
         /\ run'[d].stalled = run'[d].idle
         /\ run'[d].stalled < Limit
  PROVE  (IdleCounted /\ ThreeIdleStop)'
BY DEF IdleInv, IdleCounted, ThreeIdleStop

\* Every step keeps the counts, as long as no agent unticks.
LEMMA IdleStep ==
  ASSUME "untick" \notin Mischief, IdleInv, [Next]_vars
  PROVE  IdleInv'
<1> USE DEF IdleInv
<1>1. TypeOK' /\ run \in [Drivers -> RunType] /\ ticked \in SUBSET Tasks
  BY TypeStep DEF TypeOK
<1>2. ASSUME NEW d \in Drivers, NEW code, Stop(d, code), UNCHANGED ticked
      PROVE  (IdleCounted /\ ThreeIdleStop)'
  <2>1. /\ run' = [run EXCEPT ![d] = Stopped(code)] /\ Stopped(code).best = {}
        /\ Stopped(code).doneBefore = 0 /\ Stopped(code).stalled = 0 /\ Stopped(code).idle = 0
    BY <1>2 DEF Stop, Stopped
  <2>2. /\ run'[d] = Stopped(code)
        /\ \A e \in Drivers \ {d} : run'[e] = run[e]
    BY <1>1, <2>1
  <2>3. /\ run'[d].best = {} /\ run'[d].doneBefore = Cardinality({})
        /\ run'[d].stalled = 0 /\ run'[d].idle = 0
    BY <2>1, <2>2, FS_EmptySet
  <2> QED
    BY <1>2, <2>2, <2>3, OthersCounted DEF Limit
<1>3. ASSUME NEW d \in Drivers, Start(d)
      PROVE  (IdleCounted /\ ThreeIdleStop)'
  <2>1. UNCHANGED ticked
    BY <1>3 DEF Start, folder
  <2>2. CASE Refusal # 0
    BY <1>2, <1>3, <2>1, <2>2 DEF Start
  <2>3. CASE Refusal = 0
    <3>1. run' = [run EXCEPT ![d] = Begun]
      BY <1>3, <2>3, StartRun
    <3>2. /\ Begun.best = ticked /\ Begun.doneBefore = Cardinality(ticked)
          /\ Begun.stalled = 0 /\ Begun.idle = 0
      BY DEF Begun
    <3> QED
      BY <1>1, <2>1, <3>1, <3>2, OthersCounted DEF Limit
  <2> QED
    BY <2>2, <2>3
<1>4. ASSUME ticked \subseteq ticked',
             \A e \in Drivers : /\ run'[e].best = run[e].best /\ run'[e].idle = run[e].idle
                                /\ run'[e].doneBefore = run[e].doneBefore
                                /\ run'[e].stalled = run[e].stalled
      PROVE  (IdleCounted /\ ThreeIdleStop)'
  BY <1>4 DEF IdleCounted, ThreeIdleStop
<1>5. ASSUME NEW d \in Drivers, AgentSteps(d)
      PROVE  (IdleCounted /\ ThreeIdleStop)'
  <2>1. ticked \subseteq ticked' /\ run' = run
    BY <1>5 DEF AgentSteps, Tick, Untick, WriteBlocked, TouchTest, SelfApprove, SpoilLock,
                TouchLedger, MoveFolder, AgentOnly
  <2> QED
    BY <1>4, <2>1
<1>6. ASSUME NEW d \in Drivers, AgentExits(d) \/ RecordIteration(d)
      PROVE  (IdleCounted /\ ThreeIdleStop)'
  <2>1. UNCHANGED ticked
    BY <1>6 DEF AgentExits, RecordIteration, folder
  <2>2. \A e \in Drivers : /\ run'[e].best = run[e].best /\ run'[e].idle = run[e].idle
                            /\ run'[e].doneBefore = run[e].doneBefore
                            /\ run'[e].stalled = run[e].stalled
    <3>1. CASE AgentExits(d)
      BY <1>1, <3>1 DEF AgentExits, RunType
    <3>2. CASE RecordIteration(d)
      <4>1. CASE run' = [run EXCEPT ![d].pc = "checking", ![d].ledgerWas = NextLedger(d),
                                    ![d].problem = ledger # run[d].ledgerWas]
        BY <1>1, <4>1 DEF RunType
      <4>2. CASE run' = [run EXCEPT ![d].pc = "checking", ![d].problem = here]
        BY <1>1, <4>2 DEF RunType
      <4> QED
        BY <3>2, <4>1, <4>2 DEF RecordIteration
    <3> QED
      BY <1>6, <3>1, <3>2
  <2> QED
    BY <1>4, <2>1, <2>2
<1>7. ASSUME NEW d \in Drivers, CheckLocked(d)
      PROVE  (IdleCounted /\ ThreeIdleStop)'
  <2>1. UNCHANGED ticked
    BY <1>7 DEF CheckLocked, folder
  <2>2. CASE run' = [run EXCEPT ![d].pc = "deciding"]
    BY <1>1, <1>4, <2>1, <2>2 DEF RunType
  <2>3. CASE Stop(d, 4)
    BY <1>2, <2>1, <2>3
  <2> QED
    BY <1>7, <2>2, <2>3 DEF CheckLocked
<1>8. ASSUME NEW d \in Drivers, Decide(d)
      PROVE  (IdleCounted /\ ThreeIdleStop)'
  <2>1. UNCHANGED ticked
    BY <1>8 DEF Decide, folder
  <2>2. CASE ~GoesOn(d)
    BY <1>2, <1>8, <2>1, <2>2 DEF Decide
  <2>3. CASE GoesOn(d)
    <3>1. run' = [run EXCEPT ![d] = Further(d)]
      BY <1>1, <1>8, <2>3 DEF Decide, Further
    <3>2. run[d] \in RunType /\ run[d].best \subseteq ticked /\ run[d].stalled = run[d].idle
          /\ run[d].doneBefore = Cardinality(run[d].best)
      BY <1>1 DEF IdleCounted
    <3>3. /\ Further(d).best = run[d].best \cup ticked
          /\ Further(d).doneBefore = Cardinality(ticked) /\ Further(d).idle = Idle(d)
          /\ Further(d).stalled = IF ticked \subseteq run[d].best THEN run[d].stalled + 1 ELSE 0
      BY <3>2 DEF Further, Done, RunType
    <3>4. Further(d).best = ticked
      BY <3>2, <3>3
    <3>5. Further(d).stalled = Idle(d)
      <4>1. /\ Cardinality(ticked) \in Nat /\ Cardinality(run[d].best) \in Nat
            /\ Cardinality(run[d].best) <= Cardinality(ticked)
            /\ Cardinality(ticked) = Cardinality(run[d].best) => ticked = run[d].best
        BY <1>1, <3>2, TickedCount
      <4>2. run[d].idle \in Nat
        BY <3>2 DEF RunType
      <4>3. Idle(d) = IF ticked \subseteq run[d].best THEN run[d].idle + 1 ELSE 0
        <5>1. ticked \subseteq run[d].best <=> ~ Cardinality(ticked) > Cardinality(run[d].best)
          BY <3>2, <4>1
        <5> QED
          BY <3>2, <5>1 DEF Idle, Done
      <4> QED
        BY <3>2, <3>3, <4>3
    <3>6. Idle(d) < Limit
      <4>1. Idle(d) \in Nat
        BY <3>2 DEF Idle, RunType
      <4> QED
        BY <2>3, <4>1 DEF GoesOn, Verdict, Limit
    <3> QED
      BY <1>1, <2>1, <3>1, <3>3, <3>4, <3>5, <3>6, OthersCounted
  <2> QED
    BY <2>2, <2>3
<1>9. ASSUME NEW d \in Drivers, Kill(d)
      PROVE  (IdleCounted /\ ThreeIdleStop)'
  BY <1>2, <1>9 DEF Kill, folder
<1>10. CASE HumanSteps
  <2>1. ticked \subseteq ticked' /\ run' = run
    BY <1>10 DEF HumanSteps, HumanApproves, HumanUnlocks, HumanEditsTest, HumanPlans, Commit,
                 Archive
  <2> QED
    BY <1>1, <1>4, <2>1
<1>11. CASE UNCHANGED vars
  <2>1. ticked \subseteq ticked' /\ run' = run
    BY <1>11 DEF vars
  <2> QED
    BY <1>1, <1>4, <2>1
<1> QED
  BY <1>1, <1>3, <1>5, <1>6, <1>7, <1>8, <1>9, <1>10, <1>11 DEF Next, DriverSteps

(***************************************************************************)
(* Agents that do not untick get three iterations without a task ticked     *)
(* that had not been, in every run and with any number of runs at once.     *)
(***************************************************************************)
THEOREM ThreeIdle ==
  ASSUME "untick" \notin Mischief
  PROVE  Spec => []ThreeIdleStop
<1>1. Init => IdleInv
  <2> SUFFICES ASSUME Init PROVE IdleInv
    OBVIOUS
  <2>1. \A d \in Drivers : /\ run[d].best = {} /\ run[d].doneBefore = 0
                            /\ run[d].stalled = 0 /\ run[d].idle = 0
    BY DEF Init, Stopped
  <2> QED
    BY <2>1, TypeInit, FS_EmptySet DEF IdleInv, IdleCounted, ThreeIdleStop, Limit
<1>2. IdleInv /\ [Next]_vars => IdleInv'
  BY IdleStep
<1>3. IdleInv => ThreeIdleStop
  BY DEF IdleInv
<1> QED
  BY <1>1, <1>2, <1>3, PTL DEF Spec

-------------------------------------------------------------------------------
(* One driver at a time: the approved tests *)

OneDriver == \A d, e \in Drivers : d = e

\* Every run began under a lock it could read with no test unlocked, and by the time
\* it decides that lock and the tests under it are as they were.
Untouched ==
  \A d \in Drivers :
    /\ ~At(d, "stopped") => /\ run[d].lockWas # BadLock
                            /\ run[d].approved = Entries(run[d].lockWas)
                            /\ UnlockedIn(run[d].approved) = {}
    /\ At(d, "deciding") => /\ lock = run[d].lockWas
                            /\ Changed(run[d].approved, tests) = {}

UntouchedInv == TypeOK /\ Untouched

\* Only a run's own steps move it.
LEMMA OwnSteps ==
  ASSUME OneDriver, [Next]_vars, NEW d \in Drivers, run'[d] # run[d]
  PROVE  Start(d) \/ AgentExits(d) \/ RecordIteration(d) \/ CheckLocked(d) \/ Decide(d) \/ Kill(d)
<1>1. ~ UNCHANGED run
  OBVIOUS
<1>2. ~ HumanSteps /\ ~ UNCHANGED vars
  BY <1>1 DEF HumanSteps, HumanApproves, HumanUnlocks, HumanEditsTest, HumanPlans, Commit,
              Archive, vars
<1>3. \A e \in Drivers : ~ AgentSteps(e)
  BY <1>1 DEF AgentSteps, Tick, Untick, WriteBlocked, TouchTest, SelfApprove, SpoilLock,
              TouchLedger, MoveFolder, AgentOnly
<1>4. \A e \in Drivers : e = d
  BY DEF OneDriver
<1> QED
  BY <1>2, <1>3, <1>4 DEF Next, DriverSteps

\* A stopped run is a stopped run.
LEMMA StopMoves ==
  ASSUME TypeOK, NEW d \in Drivers, NEW code, Stop(d, code)
  PROVE  run'[d] = Stopped(code) /\ run'[d].pc = "stopped" /\ run'[d].code = code
<1>1. run'[d] = Stopped(code)
  BY DEF TypeOK, Stop
<1> QED
  BY <1>1 DEF Stopped

\* What each step of a run leaves of what it remembers.
LEMMA ExitMoves ==
  ASSUME TypeOK, NEW d \in Drivers, AgentExits(d)
  PROVE  /\ run'[d].pc = "recording" /\ run'[d].lockWas = run[d].lockWas
         /\ run'[d].approved = run[d].approved /\ run'[d].ledgerWas = run[d].ledgerWas
         /\ run'[d].iteration = run[d].iteration
         /\ UNCHANGED <<here, lock, tests, ledger, spawned>> /\ At(d, "agent")
<1>1. PICK cost \in Costs :
        run' = [run EXCEPT ![d].pc = "recording", ![d].cost = cost, ![d].spent = @ + cost]
  BY DEF AgentExits
<1>2. run[d] \in RunType
  BY DEF TypeOK
<1> QED
  BY <1>1, <1>2 DEF TypeOK, RunType, AgentExits, Working, folder

\* The write-back leaves what the run knows of the lock alone.
LEMMA RecordMoves ==
  ASSUME TypeOK, NEW d \in Drivers, RecordIteration(d)
  PROVE  /\ run'[d].pc = "checking" /\ run'[d].lockWas = run[d].lockWas
         /\ run'[d].approved = run[d].approved /\ run'[d].iteration = run[d].iteration
         /\ UNCHANGED <<here, lock, tests, spawned>> /\ At(d, "recording")
         /\ IF here /\ ledger # BadLedger
              THEN ledger' = NextLedger(d) /\ run'[d].ledgerWas = NextLedger(d)
              ELSE ledger' = ledger /\ run'[d].problem = here
<1>1. run[d] \in RunType
  BY DEF TypeOK
<1>2. CASE here /\ ledger # BadLedger
  BY <1>1, <1>2 DEF TypeOK, RunType, RecordIteration
<1>3. CASE ~(here /\ ledger # BadLedger)
  BY <1>1, <1>3 DEF TypeOK, RunType, RecordIteration
<1> QED
  BY <1>2, <1>3

\* A run gets past the check only with the lock and the tests as it knows them.
LEMMA CheckMoves ==
  ASSUME TypeOK, NEW d \in Drivers, CheckLocked(d)
  PROVE  /\ UNCHANGED <<here, lock, tests, ledger, spawned>> /\ At(d, "checking")
         /\ \/ Stop(d, 4)
            \/ /\ run'[d] = [run[d] EXCEPT !.pc = "deciding"]
               /\ run'[d].pc = "deciding" /\ run'[d].lockWas = run[d].lockWas
               /\ run'[d].approved = run[d].approved /\ run'[d].iteration = run[d].iteration
               /\ run'[d].ledgerWas = run[d].ledgerWas
               /\ ~run[d].problem /\ here /\ lock = run[d].lockWas
               /\ Changed(run[d].approved, tests) = {}
<1>1. run[d] \in RunType
  BY DEF TypeOK
<1> QED
  BY <1>1 DEF TypeOK, RunType, CheckLocked, folder

\* The decision changes nothing in the folder.
LEMMA DecideMoves ==
  ASSUME TypeOK, NEW d \in Drivers, Decide(d)
  PROVE  /\ UNCHANGED <<here, lock, tests, ledger>> /\ At(d, "deciding")
         /\ IF GoesOn(d)
              THEN /\ run'[d].pc = "agent" /\ run'[d].lockWas = run[d].lockWas
                   /\ run'[d].approved = run[d].approved /\ spawned' = spawned + 1
                   /\ run'[d].iteration = run[d].iteration + 1
                   /\ run'[d].ledgerWas = run[d].ledgerWas /\ run'[d].cap = run[d].cap
              ELSE Stop(d, Verdict(d)) /\ spawned' = spawned
<1>1. run[d] \in RunType
  BY DEF TypeOK
<1>2. UNCHANGED <<folder, runs, blessed>> /\ At(d, "deciding")
  BY DEF Decide
<1>3. CASE GoesOn(d)
  <2>1. run' = [run EXCEPT ![d] = Further(d)] /\ spawned' = spawned + 1
    BY <1>3 DEF Decide, Further, TypeOK
  <2>2. /\ Further(d).pc = "agent" /\ Further(d).lockWas = run[d].lockWas
        /\ Further(d).approved = run[d].approved
        /\ Further(d).iteration = run[d].iteration + 1
        /\ Further(d).ledgerWas = run[d].ledgerWas /\ Further(d).cap = run[d].cap
    BY <1>1 DEF Further, RunType
  <2>3. run'[d] = Further(d)
    BY <2>1 DEF TypeOK
  <2> QED
    BY <1>2, <1>3, <2>1, <2>2, <2>3 DEF folder
<1>4. CASE ~GoesOn(d)
  BY <1>2, <1>4 DEF Decide, folder
<1> QED
  BY <1>3, <1>4

\* A started run remembers the lock as it is and the ledger it read.
LEMMA StartMoves ==
  ASSUME TypeOK, NEW d \in Drivers, Start(d)
  PROVE  /\ UNCHANGED <<here, lock, tests, ledger>> /\ At(d, "stopped") /\ here
         /\ IF Refusal = 0
              THEN /\ run'[d] = Begun /\ spawned' = spawned + 1
              ELSE Stop(d, Refusal) /\ spawned' = spawned
<1>1. Refusal = 0 => run'[d] = Begun
  BY StartRun DEF TypeOK
<1> QED
  BY <1>1 DEF Start, folder

\* The steps that are not the run's own happen between runs or while its agent works.
LEMMA OthersMove ==
  ASSUME OneDriver, [Next]_vars, NEW d \in Drivers, ~ UNCHANGED vars
  PROVE  \/ AgentSteps(d) /\ At(d, "agent")
         \/ HumanSteps /\ (At(d, "stopped") \/ At(d, "agent"))
         \/ Start(d) \/ DriverSteps(d) \/ Kill(d)
<1>1. \A e \in Drivers : e = d
  BY DEF OneDriver
<1>2. ASSUME AgentSteps(d)
      PROVE  At(d, "agent")
  BY <1>2 DEF AgentSteps, Tick, Untick, WriteBlocked, TouchTest, SelfApprove, SpoilLock,
              TouchLedger, MoveFolder, Working
<1>3. ASSUME HumanSteps
      PROVE  At(d, "stopped") \/ At(d, "agent")
  BY <1>3 DEF HumanSteps, HumanApproves, HumanUnlocks, HumanEditsTest, HumanPlans, Commit,
              Archive, Attended, Quiet, At
<1> QED
  BY <1>1, <1>2, <1>3 DEF Next

\* Every step keeps what a single run knows of the lock and the tests.
LEMMA UntouchedStep ==
  ASSUME OneDriver, UntouchedInv, [Next]_vars
  PROVE  UntouchedInv'
<1>1. TypeOK /\ TypeOK'
  BY TypeStep DEF UntouchedInv
<1> SUFFICES ASSUME NEW d \in Drivers
             PROVE  /\ ~At(d, "stopped")' => /\ run'[d].lockWas # BadLock
                                             /\ run'[d].approved = Entries(run'[d].lockWas)
                                             /\ UnlockedIn(run'[d].approved) = {}
                    /\ At(d, "deciding")' => /\ lock' = run'[d].lockWas
                                             /\ Changed(run'[d].approved, tests') = {}
  BY <1>1 DEF UntouchedInv, Untouched, At
<1> USE DEF At
<1>2. /\ run[d].pc # "stopped" => /\ run[d].lockWas # BadLock
                                  /\ run[d].approved = Entries(run[d].lockWas)
                                  /\ UnlockedIn(run[d].approved) = {}
      /\ run[d].pc = "deciding" => /\ lock = run[d].lockWas
                                   /\ Changed(run[d].approved, tests) = {}
  BY DEF UntouchedInv, Untouched
<1>3. CASE UNCHANGED vars
  BY <1>2, <1>3 DEF vars
<1>4. CASE \/ AgentSteps(d) /\ At(d, "agent")
           \/ HumanSteps /\ (At(d, "stopped") \/ At(d, "agent"))
  <2>1. run' = run
    BY <1>4 DEF AgentSteps, Tick, Untick, WriteBlocked, TouchTest, SelfApprove, SpoilLock,
                TouchLedger, MoveFolder, AgentOnly, HumanSteps, HumanApproves, HumanUnlocks,
                HumanEditsTest, HumanPlans, Commit, Archive
  <2> QED
    BY <1>2, <1>4, <2>1
<1>5. CASE Start(d)
  <2>1. CASE Refusal = 0
    <3>1. run'[d] = Begun /\ lock # BadLock /\ UnlockedIn(Entries(lock)) = {}
      BY <1>1, <1>5, <2>1, StartMoves, NotRefused
    <3>2. Begun.pc = "agent" /\ Begun.lockWas = lock /\ Begun.approved = Entries(lock)
      BY DEF Begun
    <3> QED
      BY <3>1, <3>2
  <2>2. CASE Refusal # 0
    BY <1>1, <1>5, <2>2, StartMoves, StopMoves
  <2> QED
    BY <2>1, <2>2
<1>6. CASE AgentExits(d)
  BY <1>1, <1>2, <1>6, ExitMoves
<1>7. CASE RecordIteration(d)
  BY <1>1, <1>2, <1>7, RecordMoves
<1>8. CASE CheckLocked(d)
  <2>1. CASE Stop(d, 4)
    BY <1>1, <2>1, StopMoves
  <2>2. CASE ~Stop(d, 4)
    BY <1>1, <1>2, <1>8, <2>2, CheckMoves
  <2> QED
    BY <2>1, <2>2
<1>9. CASE Decide(d)
  <2>1. CASE GoesOn(d)
    BY <1>1, <1>2, <1>9, <2>1, DecideMoves
  <2>2. CASE ~GoesOn(d)
    BY <1>1, <1>9, <2>2, DecideMoves, StopMoves
  <2> QED
    BY <2>1, <2>2
<1>10. CASE Kill(d)
  BY <1>1, <1>10, StopMoves DEF Kill
<1> QED
  BY <1>3, <1>4, <1>5, <1>6, <1>7, <1>8, <1>9, <1>10, OthersMove DEF DriverSteps

\* Before the first run there is nothing to know.
LEMMA UntouchedInit == Init => UntouchedInv
<1> SUFFICES ASSUME Init PROVE UntouchedInv
  OBVIOUS
<1>1. \A d \in Drivers : run[d].pc = "stopped"
  BY DEF Init, Stopped
<1> QED
  BY <1>1, TypeInit DEF UntouchedInv, Untouched, At

(***************************************************************************)
(* With one run of loop.py at a time, whatever its agents do and whatever   *)
(* people do meanwhile, exit 0 means that the lock and every test under it  *)
(* are as they were when the run began.                                     *)
(***************************************************************************)
THEOREM DoneUntouched ==
  ASSUME OneDriver
  PROVE  Spec => DoneMeansUntouched
<1>1. ASSUME UntouchedInv, [Next]_vars, NEW d \in Drivers, Ends(d, 0)
      PROVE  Changed(run[d].approved, tests) = {} /\ lock = run[d].lockWas
  <2>1. TypeOK /\ run[d].pc # "stopped" /\ run'[d] = Stopped(0)
    BY <1>1 DEF UntouchedInv, Ends, At
  <2>2. run'[d].pc = "stopped" /\ run'[d].code = 0
    BY <2>1 DEF Stopped
  <2>3. CASE Decide(d)
    BY <1>1, <2>1, <2>3, DecideMoves DEF UntouchedInv, Untouched
  <2>4. ~ AgentExits(d) /\ ~ RecordIteration(d) /\ ~ Start(d)
    BY <2>1, <2>2, ExitMoves, RecordMoves, StartMoves DEF At
  <2>5. ~ Stop(d, 4) /\ ~ Stop(d, 130)
    BY <2>1, <2>2, StopMoves
  <2>6. ~ CheckLocked(d) /\ ~ Kill(d)
    BY <2>1, <2>2, <2>5, CheckMoves DEF Kill
  <2>7. run'[d] # run[d]
    BY <2>1, <2>2
  <2> QED
    BY <1>1, <2>3, <2>4, <2>6, <2>7, OwnSteps
<1>2. UntouchedInv /\ [Next]_vars =>
        [\A d \in Drivers :
           Ends(d, 0) => /\ Changed(run[d].approved, tests) = {}
                         /\ lock = run[d].lockWas]_vars
  BY <1>1
<1>3. UntouchedInv /\ [Next]_vars => UntouchedInv'
  BY UntouchedStep
<1> QED
  BY <1>2, <1>3, UntouchedInit, PTL DEF Spec, DoneMeansUntouched

(***************************************************************************)
(* Nor does it start an agent past an unlocked test, a changed one, a       *)
(* BLOCKED: line of the run's own, or the last task.                        *)
(***************************************************************************)
THEOREM StopsRespected ==
  ASSUME OneDriver, Tasks # {}
  PROVE  Spec => NoAgentPastAStop
<1>1. ASSUME UntouchedInv, [Next]_vars, NEW d \in Drivers, Spawns(d)
      PROVE  /\ lock # BadLock /\ UnlockedIn(Entries(lock)) = {}
             /\ At(d, "deciding") => /\ ~blocked
                                     /\ ticked # Tasks
                                     /\ Changed(Entries(lock), tests) = {}
  <2>1. TypeOK /\ run[d].pc # "agent" /\ run'[d].pc = "agent"
    BY <1>1 DEF UntouchedInv, Spawns
  <2>2. ~ AgentExits(d) /\ ~ RecordIteration(d) /\ ~ CheckLocked(d) /\ ~ Kill(d)
    BY <2>1, ExitMoves, RecordMoves, CheckMoves, StopMoves DEF Kill
  <2>3. CASE Start(d)
    <3>1. Refusal = 0
      BY <2>1, <2>3, StartMoves, StopMoves
    <3> QED
      BY <2>1, <2>3, <3>1, NotRefused, StartMoves DEF At
  <2>4. CASE Decide(d)
    <3>1. GoesOn(d)
      BY <2>1, <2>4, DecideMoves, StopMoves
    <3>2. ~blocked /\ ticked # Tasks
      BY <3>1 DEF GoesOn, Verdict
    <3>3. run[d].pc = "deciding"
      BY <2>1, <2>4, DecideMoves DEF At
    <3> QED
      BY <1>1, <3>2, <3>3 DEF UntouchedInv, Untouched, At
  <2> QED
    BY <1>1, <2>1, <2>2, <2>3, <2>4, OwnSteps
<1>2. UntouchedInv /\ [Next]_vars =>
        [\A d \in Drivers :
           Spawns(d) =>
             /\ lock # BadLock /\ UnlockedIn(Entries(lock)) = {}
             /\ At(d, "deciding") => /\ ~blocked
                                     /\ ticked # Tasks
                                     /\ Changed(Entries(lock), tests) = {}]_vars
  BY <1>1
<1>3. UntouchedInv /\ [Next]_vars => UntouchedInv'
  BY UntouchedStep
<1> QED
  BY <1>2, <1>3, UntouchedInit, PTL DEF Spec, NoAgentPastAStop

-------------------------------------------------------------------------------
(* One driver at a time: the ledger and the budget *)

\* What a run knows of the agents started: their number is the iteration it is at, and
\* the ledger it last wrote has a line for all of them but the one at work.
Accounted ==
  \A d \in Drivers :
    /\ ~At(d, "stopped") => run[d].iteration = spawned
    /\ At(d, "agent") \/ At(d, "recording") => Lines(run[d].ledgerWas) + 1 = spawned
    /\ At(d, "checking") /\ here =>
         \/ ledger = BadLedger /\ run[d].problem
         \/ ledger = run[d].ledgerWas /\ ledger \in Ledger /\ Lines(ledger) = spawned
    /\ At(d, "deciding") =>
         /\ here
         /\ ledger = run[d].ledgerWas /\ ledger \in Ledger /\ Lines(ledger) = spawned

LedgerInv == TypeOK /\ Accounted /\ LedgerComplete

\* What stands at the ledger's path tells a ledger of its own from the rest.
LEMMA LedgerNames == NoLedger \notin Ledger /\ BadLedger \notin Ledger /\ GarbledLedger \notin Ledger
BY LedgerAssumption

\* Every step of a run that is not killed keeps the account.
LEMMA LedgerStep ==
  ASSUME OneDriver, ~Kills, LedgerInv, [Next]_vars, NEW d \in Drivers
  PROVE  LedgerInv'
<1>1. TypeOK /\ TypeOK' /\ \A e \in Drivers : e = d
  BY TypeStep DEF LedgerInv, OneDriver
<1> SUFFICES
      /\ run'[d].pc # "stopped" => run'[d].iteration = spawned'
      /\ run'[d].pc \in {"agent", "recording"} => Lines(run'[d].ledgerWas) + 1 = spawned'
      /\ run'[d].pc = "checking" /\ here' =>
           \/ ledger' = BadLedger /\ run'[d].problem
           \/ ledger' = run'[d].ledgerWas /\ ledger' \in Ledger /\ Lines(ledger') = spawned'
      /\ run'[d].pc = "deciding" =>
           /\ here'
           /\ ledger' = run'[d].ledgerWas /\ ledger' \in Ledger /\ Lines(ledger') = spawned'
      /\ run'[d].pc = "stopped" /\ here' /\ ledger' # BadLedger =>
           ledger' # GarbledLedger /\ Lines(ledger') = spawned'
  BY <1>1 DEF LedgerInv, Accounted, LedgerComplete, Quiet, At, Lines
<1>2. /\ run[d].pc # "stopped" => run[d].iteration = spawned
      /\ run[d].pc \in {"agent", "recording"} => Lines(run[d].ledgerWas) + 1 = spawned
      /\ run[d].pc = "checking" /\ here =>
           \/ ledger = BadLedger /\ run[d].problem
           \/ ledger = run[d].ledgerWas /\ ledger \in Ledger /\ Lines(ledger) = spawned
      /\ run[d].pc = "deciding" =>
           /\ here
           /\ ledger = run[d].ledgerWas /\ ledger \in Ledger /\ Lines(ledger) = spawned
      /\ run[d].pc = "stopped" /\ here /\ ledger # BadLedger =>
           ledger # GarbledLedger /\ Lines(ledger) = spawned
  BY <1>1 DEF LedgerInv, Accounted, LedgerComplete, Quiet, At
<1> USE DEF At
<1>3. CASE UNCHANGED vars
  BY <1>2, <1>3 DEF vars
<1>4. CASE AgentSteps(d) /\ At(d, "agent")
  <2>1. run' = run /\ spawned' = spawned
    BY <1>4 DEF AgentSteps, Tick, Untick, WriteBlocked, TouchTest, SelfApprove, SpoilLock,
                TouchLedger, MoveFolder, AgentOnly
  <2> QED
    BY <1>2, <1>4, <2>1
<1>5. CASE HumanSteps /\ (At(d, "stopped") \/ At(d, "agent"))
  <2>1. run' = run /\ spawned' = spawned /\ ledger' = ledger /\ (here' => here)
    BY <1>5 DEF HumanSteps, HumanApproves, HumanUnlocks, HumanEditsTest, HumanPlans, Commit,
                Archive
  <2> QED
    BY <1>2, <1>5, <2>1
<1>6. CASE Start(d)
  <2>1. CASE Refusal = 0
    <3>1. run'[d] = Begun /\ spawned' = spawned + 1 /\ ledger \in Ledger \cup {NoLedger}
      BY <1>1, <1>6, <2>1, StartMoves, NotRefused
    <3>2. Begun.pc = "agent" /\ Begun.ledgerWas = ledger /\ Begun.iteration = Lines(ledger) + 1
      BY DEF Begun
    <3>3. Lines(ledger) = spawned
      BY <1>1, <1>2, <1>6, <3>1, LedgerNames, LedgerAssumption, StartMoves
    <3> QED
      BY <3>1, <3>2, <3>3
  <2>2. CASE Refusal # 0
    <3>1. Stop(d, Refusal) /\ spawned' = spawned /\ ledger' = ledger /\ here' = here
          /\ run[d].pc = "stopped"
      BY <1>1, <1>6, <2>2, StartMoves
    <3> QED
      BY <1>1, <1>2, <3>1, StopMoves
  <2> QED
    BY <2>1, <2>2
<1>7. CASE AgentExits(d)
  BY <1>1, <1>2, <1>7, ExitMoves
<1>8. CASE RecordIteration(d)
  <2>1. run[d] \in RunType
    BY <1>1 DEF TypeOK
  <2>2. NextLedger(d) \in Ledger /\ NextLedger(d).lines = Lines(run[d].ledgerWas) + 1
    BY <2>1 DEF NextLedger, Lines, Spent, Ledger, RunType
  <2>3. Lines(NextLedger(d)) = Lines(run[d].ledgerWas) + 1
    BY <2>2, LedgerNames DEF Lines
  <2> QED
    BY <1>1, <1>2, <1>8, <2>2, <2>3, RecordMoves
<1>9. CASE CheckLocked(d)
  <2>1. CASE Stop(d, 4)
    <3>1. spawned' = spawned /\ ledger' = ledger /\ here' = here /\ run[d].pc = "checking"
          /\ run'[d].pc = "stopped"
      BY <1>1, <1>9, <2>1, CheckMoves, StopMoves
    <3> QED
      BY <1>2, <3>1, LedgerNames
  <2>2. CASE ~Stop(d, 4)
    BY <1>1, <1>2, <1>9, <2>2, CheckMoves
  <2> QED
    BY <2>1, <2>2
<1>10. CASE Decide(d)
  <2>1. CASE GoesOn(d)
    BY <1>1, <1>2, <1>10, <2>1, DecideMoves
  <2>2. CASE ~GoesOn(d)
    <3>1. spawned' = spawned /\ ledger' = ledger /\ here' = here /\ run[d].pc = "deciding"
          /\ run'[d].pc = "stopped"
      BY <1>1, <1>10, <2>2, DecideMoves, StopMoves
    <3> QED
      BY <1>2, <3>1, LedgerNames
  <2> QED
    BY <2>1, <2>2
<1>11. ~ Kill(d)
  BY DEF Kill
<1> QED
  BY <1>3, <1>4, <1>5, <1>6, <1>7, <1>8, <1>9, <1>10, <1>11, OthersMove DEF DriverSteps

\* No ledger, and no agent started.
LEMMA LedgerInit == Init => LedgerInv
<1> SUFFICES ASSUME Init PROVE LedgerInv
  OBVIOUS
<1>1. \A d \in Drivers : run[d].pc = "stopped"
  BY DEF Init, Stopped
<1>2. ledger = NoLedger /\ spawned = 0 /\ Lines(ledger) = 0
  BY DEF Init, Lines
<1> QED
  BY <1>1, <1>2, TypeInit, LedgerAssumption DEF LedgerInv, Accounted, LedgerComplete, At

(***************************************************************************)
(* With one run of loop.py at a time and none killed, the ledger accounts   *)
(* between runs for every agent started, whatever agents do to it.          *)
(***************************************************************************)
THEOREM LedgerAccounts ==
  ASSUME NEW d \in Drivers, OneDriver, ~Kills
  PROVE  Spec => []LedgerComplete
<1>1. LedgerInv /\ [Next]_vars => LedgerInv'
  BY LedgerStep
<1>2. LedgerInv => LedgerComplete
  BY DEF LedgerInv
<1> QED
  BY <1>1, <1>2, LedgerInit, PTL DEF Spec

(***************************************************************************)
(* Then no agent starts beyond the iterations the change was given, in      *)
(* however many runs they are spent, but one by a run that begins with      *)
(* every task ticked.                                                       *)
(***************************************************************************)
THEOREM BudgetHolds ==
  ASSUME NEW d0 \in Drivers, OneDriver, ~Kills
  PROVE  Spec => BudgetKept
<1>1. ASSUME LedgerInv, [Next]_vars, NEW d \in Drivers, Spawns(d)
      PROVE  \/ spawned < run'[d].cap
             \/ ticked = Tasks /\ spawned <= run'[d].cap
  <2>1. /\ TypeOK /\ run[d] \in RunType /\ run[d].pc # "agent" /\ run'[d].pc = "agent"
        /\ spawned \in Nat
    BY <1>1 DEF LedgerInv, Spawns, TypeOK
  <2>2. ~ AgentExits(d) /\ ~ RecordIteration(d) /\ ~ CheckLocked(d) /\ ~ Kill(d)
    BY <2>1, ExitMoves, RecordMoves, CheckMoves, StopMoves DEF Kill
  <2>3. CASE Start(d)
    <3>1. Refusal = 0
      BY <2>1, <2>3, StartMoves, StopMoves
    <3>2. /\ ledger \in Ledger \cup {NoLedger}
          /\ budget.iterations >= Lines(ledger) + (Cardinality(Tasks) - Cardinality(ticked))
      BY <2>1, <3>1, NotRefused
    <3>3. run'[d].cap = budget.iterations /\ budget.iterations \in Nat
      <4>1. run'[d] = Begun
        BY <2>1, <2>3, <3>1, StartMoves
      <4>2. budget.iterations \in Nat
        BY <2>1, BudgetsAssumption DEF TypeOK
      <4> QED
        BY <4>1, <4>2 DEF Begun
    <3>4. Lines(ledger) = spawned
      <4>1. Quiet /\ here
        BY <1>1, <2>1, <2>3, StartMoves DEF OneDriver, Quiet
      <4>2. ledger # BadLedger
        BY <3>2, LedgerNames, LedgerAssumption
      <4> QED
        BY <1>1, <4>1, <4>2 DEF LedgerInv, LedgerComplete
    <3>5. /\ Cardinality(Tasks) \in Nat /\ Cardinality(ticked) \in Nat
          /\ Cardinality(ticked) <= Cardinality(Tasks)
          /\ Cardinality(Tasks) = Cardinality(ticked) => Tasks = ticked
      BY <2>1, TickedCount DEF TypeOK
    <3> QED
      BY <2>1, <3>2, <3>3, <3>4, <3>5
  <2>4. CASE Decide(d)
    <3>1. GoesOn(d) /\ run[d].pc = "deciding" /\ run'[d].cap = run[d].cap
      BY <2>1, <2>4, DecideMoves, StopMoves DEF At
    <3>2. ~ run[d].iteration >= run[d].cap
      BY <3>1 DEF GoesOn, Verdict
    <3>3. run[d].iteration = spawned /\ run[d].cap \in Nat
      BY <1>1, <2>1, <3>1 DEF LedgerInv, Accounted, At, RunType
    <3> QED
      BY <2>1, <3>1, <3>2, <3>3
  <2> QED
    BY <1>1, <2>1, <2>2, <2>3, <2>4, OwnSteps
<1>2. LedgerInv /\ [Next]_vars =>
        [\A d \in Drivers :
           Spawns(d) => \/ spawned < run'[d].cap
                        \/ ticked = Tasks /\ spawned <= run'[d].cap]_vars
  BY <1>1
<1>3. LedgerInv /\ [Next]_vars => LedgerInv'
  BY LedgerStep
<1> QED
  BY <1>2, <1>3, LedgerInit, PTL DEF Spec, BudgetKept

-------------------------------------------------------------------------------
(* One driver at a time, killed or not: how far the ledger may lag *)

\* The ledger is the one the run last wrote or found, and misses one agent for each run
\* before this one, and in this run the one at work.
Lags ==
  /\ runs \in Nat /\ spawned \in Nat
  /\ here => ledger \in Ledger \cup {NoLedger} /\ Lines(ledger) <= spawned
  /\ \A d \in Drivers : here =>
       /\ ~At(d, "stopped") => ledger = run[d].ledgerWas
       /\ At(d, "stopped") \/ At(d, "agent") \/ At(d, "recording") =>
            spawned <= Lines(ledger) + runs
       /\ At(d, "agent") \/ At(d, "recording") => Lines(ledger) < spawned
       /\ At(d, "checking") \/ At(d, "deciding") => spawned + 1 <= Lines(ledger) + runs

LagInv == TypeOK /\ Lags

\* Every step of a run, and its end, keeps the lag.
LEMMA LagStep ==
  ASSUME OneDriver, "ledger" \notin Mischief, LagInv, [Next]_vars, NEW d \in Drivers
  PROVE  Lags'
<1>1. TypeOK /\ TypeOK' /\ run[d] \in RunType /\ \A e \in Drivers : e = d
  BY TypeStep DEF LagInv, OneDriver, TypeOK
<1>2. runs \in Nat /\ spawned \in Nat
  BY DEF LagInv, Lags
<1>3. ASSUME here
      PROVE  /\ ledger \in Ledger \cup {NoLedger} /\ Lines(ledger) <= spawned
             /\ Lines(ledger) \in Nat
  BY <1>3, LedgerNames DEF LagInv, Lags, Lines, Ledger
<1>4. ASSUME here, run[d].pc \in {"agent", "recording"}
      PROVE  /\ ledger = run[d].ledgerWas /\ Lines(ledger) < spawned
             /\ spawned <= Lines(ledger) + runs
  BY <1>4 DEF LagInv, Lags, At
<1>5. here /\ At(d, "stopped") => spawned <= Lines(ledger) + runs
  BY DEF LagInv, Lags
<1>6. ASSUME here, run[d].pc \in {"checking", "deciding"}
      PROVE  /\ ledger = run[d].ledgerWas
             /\ spawned + 1 <= Lines(ledger) + runs
  BY <1>6 DEF LagInv, Lags, At
<1> SUFFICES
      /\ runs' \in Nat /\ spawned' \in Nat
      /\ here' => ledger' \in Ledger \cup {NoLedger} /\ Lines(ledger') <= spawned'
      /\ here' /\ run'[d].pc # "stopped" => ledger' = run'[d].ledgerWas
      /\ here' /\ run'[d].pc \in {"agent", "recording"} => Lines(ledger') < spawned'
      /\ here' /\ run'[d].pc \in {"stopped", "agent", "recording"} =>
           spawned' <= Lines(ledger') + runs'
      /\ here' /\ run'[d].pc \in {"checking", "deciding"} =>
           spawned' + 1 <= Lines(ledger') + runs'
  BY <1>1 DEF Lags, At, Lines
<1> USE DEF At
<1>7. CASE UNCHANGED vars
  <2>1. run' = run /\ spawned' = spawned /\ ledger' = ledger /\ runs' = runs /\ here' = here
    BY <1>7 DEF vars
  <2>2. run[d].pc \in {"stopped", "agent", "recording", "checking", "deciding"}
    BY <1>1 DEF RunType
  <2> QED
    BY <1>2, <1>3, <1>4, <1>5, <1>6, <2>1, <2>2
<1>8. CASE \/ AgentSteps(d) /\ At(d, "agent")
           \/ HumanSteps /\ (At(d, "stopped") \/ At(d, "agent"))
  <2>1. /\ run' = run /\ spawned' = spawned /\ ledger' = ledger /\ runs' = runs
        /\ here' => here
    BY <1>8 DEF AgentSteps, Tick, Untick, WriteBlocked, TouchTest, SelfApprove, SpoilLock,
                TouchLedger, MoveFolder, AgentOnly, HumanSteps, HumanApproves, HumanUnlocks,
                HumanEditsTest, HumanPlans, Commit, Archive
  <2> QED
    BY <1>2, <1>3, <1>4, <1>5, <1>8, <2>1
<1>9. CASE Start(d)
  <2>1. runs' = runs + 1 /\ UNCHANGED <<here, ledger>> /\ At(d, "stopped") /\ here
    BY <1>1, <1>9, StartMoves DEF Start
  <2>2. CASE Refusal = 0
    <3>1. run'[d] = Begun /\ spawned' = spawned + 1
      BY <1>1, <1>9, <2>2, StartMoves
    <3>2. Begun.pc = "agent" /\ Begun.ledgerWas = ledger
      BY DEF Begun
    <3> QED
      BY <1>2, <1>3, <1>5, <2>1, <3>1, <3>2
  <2>3. CASE Refusal # 0
    <3>1. run'[d].pc = "stopped" /\ spawned' = spawned
      BY <1>1, <1>9, <2>3, StartMoves, StopMoves
    <3> QED
      BY <1>2, <1>3, <1>5, <2>1, <3>1
  <2> QED
    BY <2>2, <2>3
<1>10. CASE AgentExits(d)
  <2>1. runs' = runs
    BY <1>10 DEF AgentExits
  <2> QED
    BY <1>1, <1>2, <1>3, <1>4, <1>10, <2>1, ExitMoves
<1>11. CASE RecordIteration(d)
  <2>1. runs' = runs
    BY <1>11 DEF RecordIteration
  <2>2. /\ NextLedger(d) \in Ledger
        /\ Lines(NextLedger(d)) = Lines(run[d].ledgerWas) + 1
    <3>1. NextLedger(d) \in Ledger /\ NextLedger(d).lines = Lines(run[d].ledgerWas) + 1
      BY <1>1 DEF NextLedger, Lines, Spent, Ledger, RunType
    <3> QED
      BY <3>1, LedgerNames DEF Lines
  <2>3. here => ledger # BadLedger
    BY <1>3, LedgerNames, LedgerAssumption
  <2> QED
    BY <1>1, <1>2, <1>3, <1>4, <1>11, <2>1, <2>2, <2>3, RecordMoves
<1>12. CASE CheckLocked(d)
  <2>1. runs' = runs /\ UNCHANGED <<here, ledger, spawned>> /\ run[d].pc = "checking"
    BY <1>1, <1>12, CheckMoves DEF CheckLocked
  <2>2. \/ run'[d].pc = "stopped"
        \/ run'[d].pc = "deciding" /\ run'[d].ledgerWas = run[d].ledgerWas
    BY <1>1, <1>12, CheckMoves, StopMoves
  <2> QED
    BY <1>2, <1>3, <1>6, <2>1, <2>2
<1>13. CASE Decide(d)
  <2>1. runs' = runs
    BY <1>13 DEF Decide
  <2>2. CASE GoesOn(d)
    BY <1>1, <1>2, <1>3, <1>6, <1>13, <2>1, <2>2, DecideMoves
  <2>3. CASE ~GoesOn(d)
    BY <1>1, <1>2, <1>3, <1>6, <1>13, <2>1, <2>3, DecideMoves, StopMoves
  <2> QED
    BY <2>2, <2>3
<1>14. CASE Kill(d)
  <2>1. /\ run'[d].pc = "stopped" /\ UNCHANGED <<here, ledger, spawned, runs>>
        /\ run[d].pc # "stopped"
    BY <1>1, <1>14, StopMoves DEF Kill, folder
  <2>2. run[d].pc \in {"agent", "recording", "checking", "deciding"}
    BY <1>1, <2>1 DEF RunType
  <2> QED
    BY <1>2, <1>3, <1>4, <1>6, <2>1, <2>2
<1> QED
  BY <1>7, <1>8, <1>9, <1>10, <1>11, <1>12, <1>13, <1>14, OthersMove DEF DriverSteps

(***************************************************************************)
(* With one run of loop.py at a time and a ledger nobody else writes, it    *)
(* misses between runs at most one agent for each run, killed or not.       *)
(***************************************************************************)
THEOREM LedgerLags ==
  ASSUME NEW d \in Drivers, OneDriver, "ledger" \notin Mischief
  PROVE  Spec => []LedgerLagsOnePerRun
<1>1. Init => LagInv
  <2> SUFFICES ASSUME Init PROVE Lags
    BY TypeInit DEF LagInv
  <2>1. ledger = NoLedger /\ spawned = 0 /\ runs = 0 /\ Lines(ledger) = 0
    BY DEF Init, Lines
  <2>2. \A e \in Drivers : run[e].pc = "stopped"
    BY DEF Init, Stopped
  <2> QED
    BY <2>1, <2>2 DEF Lags, At
<1>2. LagInv /\ [Next]_vars => LagInv'
  BY LagStep, TypeStep DEF LagInv
<1>3. LagInv => LedgerLagsOnePerRun
  <2> SUFFICES ASSUME LagInv, Quiet, here
               PROVE  /\ ledger \in Ledger \cup {NoLedger}
                      /\ spawned \in Lines(ledger) .. Lines(ledger) + runs
    BY DEF LedgerLagsOnePerRun
  <2>1. /\ ledger \in Ledger \cup {NoLedger} /\ Lines(ledger) <= spawned
        /\ spawned <= Lines(ledger) + runs /\ spawned \in Nat /\ runs \in Nat
    BY DEF LagInv, Lags, Quiet
  <2>2. Lines(ledger) \in Nat
    BY <2>1, LedgerNames DEF Lines, Ledger
  <2> QED
    BY <2>1, <2>2
<1> QED
  BY <1>1, <1>2, <1>3, PTL DEF Spec

-------------------------------------------------------------------------------
(* The archive *)

\* Between runs a folder goes only to the archive, past its refusals.
LEMMA OnlyArchive ==
  ASSUME [Next]_vars, Archives
  PROVE  /\ lock # BadLock /\ Changed(Entries(lock), tests) = {}
         /\ lock # NoLock /\ committed # NoLock => lock = committed
<1> USE DEF Archives
<1>1. ASSUME NEW d \in Drivers
      PROVE  ~ AgentSteps(d) /\ ~ DriverSteps(d) /\ ~ Start(d) /\ ~ Kill(d)
  <2>1. run[d].pc = "stopped"
    BY DEF Quiet, At
  <2>2. ~ AgentSteps(d)
    BY <2>1 DEF AgentSteps, Tick, Untick, WriteBlocked, TouchTest, SelfApprove, SpoilLock,
                TouchLedger, MoveFolder, Working, At
  <2>3. ~ DriverSteps(d)
    BY <2>1 DEF DriverSteps, AgentExits, RecordIteration, CheckLocked, Decide, Working, At
  <2>4. ~ Start(d) /\ ~ Kill(d)
    BY <2>1 DEF Start, Kill, folder, At
  <2> QED
    BY <2>2, <2>3, <2>4
<1>2. Archive
  BY <1>1 DEF Next, HumanSteps, HumanApproves, HumanUnlocks, HumanEditsTest, HumanPlans,
              Commit, vars
<1> QED
  BY <1>2 DEF Archive, ArchiveRefuses, CheckPasses

(***************************************************************************)
(* A change whose committed lock is on disk is archived only with every     *)
(* test as the committed lock says, under any number of runs and agents.    *)
(***************************************************************************)
THEOREM ArchiveHonest == Spec => ArchivedAsApproved
<1>1. TypeOK /\ [Next]_vars =>
        [Archives /\ {lock, committed} \cap {NoLock} = {} =>
           \A t \in Tests : committed.entries[t] \in {NotLocked, tests[t]}]_vars
  <2>1. ASSUME TypeOK, [Next]_vars, Archives, {lock, committed} \cap {NoLock} = {},
               NEW t \in Tests
        PROVE  committed.entries[t] \in {NotLocked, tests[t]}
    <3>1. committed = lock /\ lock # NoLock /\ Changed(Entries(lock), tests) = {}
      BY <2>1, OnlyArchive
    <3> QED
      BY <3>1 DEF Changed, LockedBy, Entries
  <2> QED
    BY <2>1
<1>2. TypeOK /\ [Next]_vars => TypeOK'
  BY TypeStep
<1> QED
  BY <1>1, <1>2, TypeInit, PTL DEF Spec, ArchivedAsApproved
=================================================================================
