------------------------------- MODULE ChangeLoop -------------------------------
(***************************************************************************)
(* specforge/scripts/loop.py on one change folder: fresh agents, one after  *)
(* another, under a budget the ledger loop-runs.txt accumulates and a lock  *)
(* on the approved tests, with the people and the archive.py that act on    *)
(* the same files.  A driver is one run of loop.py; its reads at the start  *)
(* are one step, and so is each block of checks after an iteration.         *)
(*                                                                          *)
(* The ledger is its number of lines and the sum of their costs.            *)
(***************************************************************************)
EXTENDS TestLock, FiniteSets

CONSTANTS
  Drivers,        \* runs of loop.py that may be under way at once
  Tasks,          \* the checkboxes of progress.md
  Costs,          \* what an iteration may cost
  Budgets,        \* the **Budget**: lines a human may write
  NoCap,          \* a budget without a USD part
  NoLedger,       \* no loop-runs.txt
  BadLedger,      \* something else at its path: a directory, a symlink
  GarbledLedger,  \* a file loop.py does not parse: a malformed line, not UTF-8
  Mischief,       \* what agents may do besides their task
  MaxRuns,        \* bound on runs of loop.py
  MaxHistory,     \* bound on the history lines people add, of each kind and test
  Kills           \* whether a run may be killed

Limit == 3        \* NO_PROGRESS_LIMIT

AllMischief == {"block", "untick", "test", "approve", "lock", "ledger", "move"}
ASSUME MischiefAssumption == Mischief \subseteq AllMischief
ASSUME CostsAssumption == Costs \subseteq Nat
ASSUME BudgetsAssumption == Budgets \subseteq [iterations : Nat, usd : Nat \cup {NoCap}]
ASSUME CapAssumption == NoCap \notin Nat
ASSUME TasksAssumption == IsFiniteSet(Tasks)
Ledger == [lines : Nat, usd : Nat]
ASSUME LedgerAssumption ==
  /\ {NoLedger, BadLedger, GarbledLedger} \cap Ledger = {}
  /\ NoLedger # BadLedger /\ NoLedger # GarbledLedger /\ BadLedger # GarbledLedger

VARIABLES
  here,       \* whether the change folder is at its path
  lock,       \* locked-tests.txt
  committed,  \* the same file in the last commit
  tests,      \* the test files
  ticked,     \* progress.md: the ticked tasks
  blocked,    \* progress.md: a BLOCKED: line
  budget,     \* progress.md: the **Budget**: line
  premises,   \* contract.md: missing, unchecked, failed, checked
  evidence,   \* evidence.md has no empty field
  ledger,     \* loop-runs.txt
  run,        \* each driver
  runs,       \* how many so far
  spawned,    \* agents started for this change, in every run
  blessed     \* the content a human last approved for each test

vars == <<here, lock, committed, tests, ticked, blocked, budget, premises, evidence,
          ledger, run, runs, spawned, blessed>>
folder == <<here, lock, committed, tests, ticked, blocked, budget, premises, evidence,
            ledger>>

Stopped(code) ==
  [pc |-> "stopped", approved |-> Nothing, lockWas |-> NoLock, ledgerWas |-> NoLedger,
   spent |-> 0, iteration |-> 0, cost |-> 0, doneBefore |-> 0, idle |-> 0,
   problem |-> FALSE, cap |-> 0, capUsd |-> NoCap, best |-> {}, stalled |-> 0,
   code |-> code]

Init ==
  /\ here = TRUE
  /\ lock = NoLock
  /\ committed = NoLock
  /\ tests \in [Tests -> Contents]
  /\ ticked = {}
  /\ blocked = FALSE
  /\ budget \in Budgets
  /\ premises \in {"missing", "unchecked", "failed", "checked"}
  /\ evidence = FALSE
  /\ ledger = NoLedger
  /\ run = [d \in Drivers |-> Stopped(0)]
  /\ runs = 0
  /\ spawned = 0
  /\ blessed = Nothing

At(d, pc) == run[d].pc = pc
Stop(d, code) == run' = [run EXCEPT ![d] = Stopped(code)]

-------------------------------------------------------------------------------
(* Before the first agent *)

Lines(l) == IF l = NoLedger THEN 0 ELSE l.lines
Spent(l) == IF l = NoLedger THEN 0 ELSE l.usd

\* Mutated: an unlocked test does not keep the loop from starting.
Bug_RefusalForgetsUnlocked ==
  IF lock = BadLock THEN 4
  ELSE IF premises # "checked" THEN 2
  ELSE IF ledger \in {BadLedger, GarbledLedger} THEN 4
  ELSE IF budget.usd # NoCap /\ Spent(ledger) >= budget.usd THEN 3
  ELSE IF budget.iterations
            < Lines(ledger) + (Cardinality(Tasks) - Cardinality(ticked)) THEN 2
  ELSE 0

\* Mutated: the iterations left are not compared with the tasks left.
Bug_RefusalForgetsIterations ==
  CASE lock = BadLock -> 4
    [] lock # BadLock /\ UnlockedIn(Entries(lock)) # {} -> 4
    [] OTHER ->
         IF premises # "checked" THEN 2
         ELSE IF ledger \in {BadLedger, GarbledLedger} THEN 4
         ELSE IF budget.usd # NoCap /\ Spent(ledger) >= budget.usd THEN 3
         ELSE 0

\* The code a run refuses to start with, in the order of its checks; 0 if none.
Refusal ==
  CASE lock = BadLock -> 4
    [] lock # BadLock /\ UnlockedIn(Entries(lock)) # {} -> 4
    [] OTHER ->
         IF premises # "checked" THEN 2
         ELSE IF ledger \in {BadLedger, GarbledLedger} THEN 4
         ELSE IF budget.usd # NoCap /\ Spent(ledger) >= budget.usd THEN 3
         ELSE IF budget.iterations
                   < Lines(ledger) + (Cardinality(Tasks) - Cardinality(ticked)) THEN 2
         ELSE 0

\* What a run remembers of the folder as it finds it, on its way to the first agent.
Begun ==
  [pc |-> "agent", approved |-> Entries(lock), lockWas |-> lock, ledgerWas |-> ledger,
   spent |-> Spent(ledger), iteration |-> Lines(ledger) + 1, cost |-> 0,
   doneBefore |-> Cardinality(ticked), idle |-> 0, problem |-> FALSE,
   cap |-> budget.iterations, capUsd |-> budget.usd, best |-> ticked, stalled |-> 0,
   code |-> 0]

Start(d) ==
  /\ At(d, "stopped")
  /\ here
  /\ runs < MaxRuns
  /\ runs' = runs + 1
  /\ IF Refusal # 0
       THEN Stop(d, Refusal) /\ UNCHANGED spawned
       ELSE /\ spawned' = spawned + 1
            /\ run' = [run EXCEPT ![d] = Begun]
  /\ UNCHANGED <<folder, blessed>>

-------------------------------------------------------------------------------
(* The agent process; loop.py waits for it *)

Working(d) == At(d, "agent")
\* An agent acts on whatever the folder holds.
AgentOnly == UNCHANGED <<committed, budget, premises, evidence, run, runs, spawned, blessed>>

Tick(d) ==
  /\ Working(d) /\ here
  /\ \E t \in Tasks \ ticked : ticked' = ticked \cup {t}
  /\ AgentOnly /\ UNCHANGED <<here, lock, tests, blocked, ledger>>

Untick(d) ==
  /\ "untick" \in Mischief
  /\ Working(d) /\ here
  /\ \E t \in ticked : ticked' = ticked \ {t}
  /\ AgentOnly /\ UNCHANGED <<here, lock, tests, blocked, ledger>>

WriteBlocked(d) ==
  /\ "block" \in Mischief
  /\ Working(d) /\ here
  /\ blocked' = TRUE
  /\ AgentOnly /\ UNCHANGED <<here, lock, tests, ticked, ledger>>

TouchTest(d) ==
  /\ "test" \in Mischief
  /\ Working(d)
  /\ \E t \in Tests, c \in Contents \cup {Gone} : tests' = [tests EXCEPT ![t] = c]
  /\ AgentOnly /\ UNCHANGED <<here, lock, ticked, blocked, ledger>>

\* The agent runs lock_tests.py approve itself.
SelfApprove(d) ==
  /\ "approve" \in Mischief
  /\ Working(d) /\ here
  /\ \E t \in Tests : /\ CanApprove(lock, {t}, tests)
                      /\ lock' = Approve(lock, {t}, tests)
  /\ AgentOnly /\ UNCHANGED <<here, tests, ticked, blocked, ledger>>

SpoilLock(d) ==
  /\ "lock" \in Mischief
  /\ Working(d) /\ here
  /\ lock' \in {NoLock, BadLock}
  /\ AgentOnly /\ UNCHANGED <<here, tests, ticked, blocked, ledger>>

\* Deleted, emptied, filled with anything else, or no longer a file.
TouchLedger(d) ==
  /\ "ledger" \in Mischief
  /\ Working(d) /\ here
  /\ ledger' \in {NoLedger, [lines |-> 0, usd |-> 0], GarbledLedger, BadLedger}
  /\ AgentOnly /\ UNCHANGED <<here, lock, tests, ticked, blocked>>

MoveFolder(d) ==
  /\ "move" \in Mischief
  /\ Working(d) /\ here
  /\ here' = FALSE
  /\ AgentOnly /\ UNCHANGED <<lock, tests, ticked, blocked, ledger>>

AgentExits(d) ==
  /\ Working(d)
  /\ \E cost \in Costs :
       run' = [run EXCEPT ![d].pc = "recording", ![d].cost = cost, ![d].spent = @ + cost]
  /\ UNCHANGED <<folder, runs, spawned, blessed>>

-------------------------------------------------------------------------------
(* After an iteration *)

\* What loop.py last wrote, plus this iteration's line.
NextLedger(d) ==
  [lines |-> Lines(run[d].ledgerWas) + 1, usd |-> Spent(run[d].ledgerWas) + run[d].cost]

\* Mutated: the line is appended to whatever the file holds now.
Bug_RecordIterationAppends(d) ==
  /\ At(d, "recording")
  /\ IF here /\ ledger # BadLedger
       THEN /\ ledger' = IF ledger = GarbledLedger THEN ledger
                         ELSE [lines |-> Lines(ledger) + 1, usd |-> Spent(ledger) + run[d].cost]
            /\ run' = [run EXCEPT ![d].pc = "checking", ![d].ledgerWas = ledger',
                                  ![d].problem = ledger # run[d].ledgerWas]
       ELSE /\ run' = [run EXCEPT ![d].pc = "checking", ![d].problem = here]
            /\ UNCHANGED ledger
  /\ UNCHANGED <<here, lock, committed, tests, ticked, blocked, budget, premises,
                 evidence, runs, spawned, blessed>>

\* Mutated: the line stays in a buffer until the next one is written.
Bug_RecordIterationBuffers(d) ==
  /\ At(d, "recording")
  /\ IF here /\ ledger # BadLedger
       THEN /\ ledger' = run[d].ledgerWas
            /\ run' = [run EXCEPT ![d].pc = "checking", ![d].ledgerWas = NextLedger(d),
                                  ![d].problem = FALSE]
       ELSE /\ run' = [run EXCEPT ![d].pc = "checking", ![d].problem = here]
            /\ UNCHANGED ledger
  /\ UNCHANGED <<here, lock, committed, tests, ticked, blocked, budget, premises,
                 evidence, runs, spawned, blessed>>

\* Written through a temp file and os.replace, over whatever the agent left; a
\* folder that is gone gets no line, nor does a ledger that is not a file.
RecordIteration(d) ==
  /\ At(d, "recording")
  /\ IF here /\ ledger # BadLedger
       THEN /\ ledger' = NextLedger(d)
            /\ run' = [run EXCEPT ![d].pc = "checking", ![d].ledgerWas = NextLedger(d),
                                  ![d].problem = ledger # run[d].ledgerWas]
       ELSE /\ run' = [run EXCEPT ![d].pc = "checking", ![d].problem = here]
            /\ UNCHANGED ledger
  /\ UNCHANGED <<here, lock, committed, tests, ticked, blocked, budget, premises,
                 evidence, runs, spawned, blessed>>

\* Mutated: against the lock on disk, which the agent can rewrite.
Bug_CheckLockedOnDisk(d) ==
  /\ At(d, "checking")
  /\ IF run[d].problem \/ ~here \/ ~CheckPasses(lock, tests)
       THEN Stop(d, 4)
       ELSE run' = [run EXCEPT ![d].pc = "deciding"]
  /\ UNCHANGED <<folder, runs, spawned, blessed>>

\* Mutated: a stop with a wrong exit code.
Bug_CheckLockedExits1(d) ==
  /\ At(d, "checking")
  /\ IF \/ run[d].problem
        \/ Changed(run[d].approved, tests) # {}
        \/ ~here
        \/ lock # run[d].lockWas
       THEN Stop(d, 1)
       ELSE run' = [run EXCEPT ![d].pc = "deciding"]
  /\ UNCHANGED <<folder, runs, spawned, blessed>>

\* Against the hashes and the lock as they stood before the first agent.
CheckLocked(d) ==
  /\ At(d, "checking")
  /\ IF \/ run[d].problem
        \/ Changed(run[d].approved, tests) # {}
        \/ ~here
        \/ lock # run[d].lockWas
       THEN Stop(d, 4)
       ELSE run' = [run EXCEPT ![d].pc = "deciding"]
  /\ UNCHANGED <<folder, runs, spawned, blessed>>

Done == Cardinality(ticked)

Idle(d) == IF Done > run[d].doneBefore THEN 0 ELSE run[d].idle + 1

\* Mutated: idle and over budget go on, as if a BLOCKED: line were all.
Bug_VerdictForgetsCaps(d) ==
  IF blocked THEN 5
  ELSE IF Tasks # {} /\ ticked = Tasks THEN 0
  ELSE IF run[d].capUsd # NoCap /\ run[d].spent > run[d].capUsd THEN 3
  ELSE 1

\* The code it stops with, in the order of its checks; 1 to go on.
Verdict(d) ==
  IF blocked THEN 5
  ELSE IF Tasks # {} /\ ticked = Tasks THEN 0
  ELSE IF run[d].capUsd # NoCap /\ run[d].spent > run[d].capUsd THEN 3
  ELSE IF Idle(d) >= Limit THEN 2
  ELSE IF run[d].iteration >= run[d].cap THEN 3
  ELSE 1

GoesOn(d) == Verdict(d) = 1

\* Mutated: a blocked run waits for its answer.
Bug_DecideWaits(d) ==
  /\ At(d, "deciding")
  /\ ~blocked
  /\ IF GoesOn(d)
       THEN /\ spawned' = spawned + 1
            /\ run' = [run EXCEPT ![d].pc = "agent", ![d].iteration = @ + 1,
                 ![d].doneBefore = Done, ![d].idle = Idle(d)]
       ELSE Stop(d, Verdict(d)) /\ UNCHANGED spawned
  /\ UNCHANGED <<folder, runs, blessed>>

Decide(d) ==
  /\ At(d, "deciding")
  /\ IF GoesOn(d)
       THEN /\ spawned' = spawned + 1
            /\ run' = [run EXCEPT ![d].pc = "agent",
                 ![d].iteration = @ + 1,
                 ![d].doneBefore = Done,
                 ![d].idle = Idle(d),
                 ![d].best = @ \cup ticked,
                 ![d].stalled = IF ticked \subseteq run[d].best THEN @ + 1 ELSE 0]
       ELSE Stop(d, Verdict(d)) /\ UNCHANGED spawned
  /\ UNCHANGED <<folder, runs, blessed>>

\* Ctrl-C and power loss stop the agent too.
Kill(d) ==
  /\ Kills
  /\ ~At(d, "stopped")
  /\ Stop(d, 130)
  /\ UNCHANGED <<folder, runs, spawned, blessed>>

-------------------------------------------------------------------------------
(* People, between runs or while an agent works *)

Attended == \A d \in Drivers : run[d].pc \in {"stopped", "agent"}
Quiet == \A d \in Drivers : At(d, "stopped")

HumanApproves ==
  /\ Attended /\ here
  /\ \E paths \in SUBSET Tests \ {{}} :
       /\ CanApprove(lock, paths, tests)
       /\ lock' = Approve(lock, paths, tests)
       /\ \A l \in HistoryLines : lock'.history[l] <= MaxHistory
       /\ blessed' = [t \in Tests |-> IF t \in paths THEN tests[t] ELSE blessed[t]]
  /\ UNCHANGED <<here, committed, tests, ticked, blocked, budget, premises, evidence,
                 ledger, run, runs, spawned>>

HumanUnlocks ==
  /\ Attended /\ here
  /\ \E t \in Tests : /\ CanUnlock(lock, t)
                      /\ lock' = Unlock(lock, t)
                      /\ \A l \in HistoryLines : lock'.history[l] <= MaxHistory
                      /\ blessed' = [blessed EXCEPT ![t] = NotLocked]
  /\ UNCHANGED <<here, committed, tests, ticked, blocked, budget, premises, evidence,
                 ledger, run, runs, spawned>>

\* Only a test that is not locked is edited by hand.
HumanEditsTest ==
  /\ Attended
  /\ \E t \in Tests, c \in Contents :
       /\ blessed[t] = NotLocked
       /\ tests' = [tests EXCEPT ![t] = c]
  /\ UNCHANGED <<here, lock, committed, ticked, blocked, budget, premises, evidence,
                 ledger, run, runs, spawned, blessed>>

\* Between runs: the budget, the premises, a BLOCKED: line answered, a report.
HumanPlans ==
  /\ Quiet /\ here
  /\ \/ /\ budget' \in Budgets
        /\ UNCHANGED <<premises, blocked, evidence>>
     \/ /\ premises' \in {"failed", "checked"}
        /\ UNCHANGED <<budget, blocked, evidence>>
     \/ /\ blocked' = FALSE
        /\ UNCHANGED <<budget, premises, evidence>>
     \/ /\ evidence' = TRUE
        /\ UNCHANGED <<budget, premises, blocked>>
  /\ UNCHANGED <<here, lock, committed, tests, ticked, ledger, run, runs, spawned, blessed>>

\* A human commits a lock only as approved by a human.
Commit ==
  /\ Quiet /\ here
  /\ lock \notin {NoLock, BadLock}
  /\ \A t \in Tests : lock.entries[t] \in {Unlocked, blessed[t]}
  /\ committed' = lock
  /\ UNCHANGED <<here, lock, tests, ticked, blocked, budget, premises, evidence,
                 ledger, run, runs, spawned, blessed>>

\* Mutated: the lock is not compared with the last commit.
Bug_ArchiveRefusesOnDisk == ~evidence \/ ~CheckPasses(lock, tests)

\* archive.py's refusals; the comparison with HEAD is made of a lock that is a
\* file and tracked.
ArchiveRefuses ==
  \/ ~evidence
  \/ lock \notin {NoLock, BadLock} /\ committed # NoLock /\ lock # committed
  \/ ~CheckPasses(lock, tests)

Archive ==
  /\ Quiet /\ here
  /\ ~ArchiveRefuses
  /\ here' = FALSE
  /\ UNCHANGED <<lock, committed, tests, ticked, blocked, budget, premises, evidence,
                 ledger, run, runs, spawned, blessed>>

-------------------------------------------------------------------------------
AgentSteps(d) ==
  \/ Tick(d) \/ Untick(d) \/ WriteBlocked(d) \/ TouchTest(d) \/ SelfApprove(d)
  \/ SpoilLock(d) \/ TouchLedger(d) \/ MoveFolder(d)
DriverSteps(d) == AgentExits(d) \/ RecordIteration(d) \/ CheckLocked(d) \/ Decide(d)
HumanSteps ==
  \/ HumanApproves \/ HumanUnlocks \/ HumanEditsTest \/ HumanPlans \/ Commit \/ Archive

Next ==
  \/ \E d \in Drivers : Start(d) \/ AgentSteps(d) \/ DriverSteps(d) \/ Kill(d)
  \/ HumanSteps

Spec == Init /\ [][Next]_vars

\* subprocess.run returns when the agent exits, and nothing else waits.
FairSpec == Spec /\ \A d \in Drivers : WF_vars(DriverSteps(d))

-------------------------------------------------------------------------------
(* Properties *)

RunType ==
  [pc : {"stopped", "agent", "recording", "checking", "deciding"},
   approved : [Tests -> Contents \cup {Unlocked, NotLocked}],
   lockWas : LockFile \cup {NoLock, BadLock}, ledgerWas : Ledger \cup {NoLedger},
   spent : Nat, iteration : Nat, cost : Nat, doneBefore : Nat, idle : Nat,
   problem : BOOLEAN, cap : Nat, capUsd : Nat \cup {NoCap},
   best : SUBSET Tasks, stalled : Nat, code : {0, 2, 3, 4, 5, 130}]

TypeOK ==
  /\ here \in BOOLEAN
  /\ lock \in LockFile \cup {NoLock, BadLock}
  /\ committed \in LockFile \cup {NoLock}
  /\ tests \in [Tests -> Contents \cup {Gone}]
  /\ ticked \subseteq Tasks
  /\ blocked \in BOOLEAN
  /\ budget \in Budgets
  /\ premises \in {"missing", "unchecked", "failed", "checked"}
  /\ evidence \in BOOLEAN
  /\ ledger \in Ledger \cup {NoLedger, BadLedger, GarbledLedger}
  /\ run \in [Drivers -> RunType]
  /\ runs \in Nat
  /\ spawned \in Nat
  /\ blessed \in [Tests -> Contents \cup {NotLocked}]

Ends(d, code) == ~At(d, "stopped") /\ run'[d] = Stopped(code)
Spawns(d) == run[d].pc # "agent" /\ run'[d].pc = "agent"

\* loop.py reports a change done (exit 0) only with every locked test holding
\* what it held when the run began, under the lock as it was then.
DoneMeansUntouched ==
  [][\A d \in Drivers :
       Ends(d, 0) => /\ Changed(run[d].approved, tests) = {}
                     /\ lock = run[d].lockWas]_vars

\* No agent is started on a test opened for re-approval, on a locked test that
\* has changed since the run began, under a BLOCKED: line that an agent of the
\* run wrote, or with every task ticked by one.
NoAgentPastAStop ==
  [][\A d \in Drivers :
       Spawns(d) =>
         /\ lock # BadLock /\ UnlockedIn(Entries(lock)) = {}
         /\ At(d, "deciding") => /\ ~blocked
                                 /\ ticked # Tasks
                                 /\ Changed(Entries(lock), tests) = {}]_vars

\* Between runs the ledger accounts for every agent ever started, whatever an
\* agent did to it, unless what stands at its path is no file.
LedgerComplete ==
  Quiet /\ here /\ ledger # BadLedger => ledger # GarbledLedger /\ Lines(ledger) = spawned

\* Where runs are killed and the ledger is left alone, it misses between runs at most
\* one agent for each run there was: the one that run was killed at.
LedgerLagsOnePerRun ==
  Quiet /\ here => /\ ledger \in Ledger \cup {NoLedger}
                   /\ spawned \in Lines(ledger) .. Lines(ledger) + runs

\* The iteration budget is the change's, across runs: no agent starts beyond the
\* cap its run was given, but for one that finds every task ticked already.
BudgetKept ==
  [][\A d \in Drivers :
       Spawns(d) => \/ spawned < run'[d].cap
                    \/ ticked = Tasks /\ spawned <= run'[d].cap]_vars

\* "3 iterations without a new ticked task": no agent starts after three in
\* which no task was ticked that had not been ticked before.
ThreeIdleStop == \A d \in Drivers : run[d].stalled < Limit

Archives == Quiet /\ here /\ ~here'

\* archive.py: a change whose lock was committed and is on disk is archived only
\* while every test holds what the committed lock says, which a human approved: a
\* test open for re-approval, or rewritten with the lock on disk, holds it back.
ArchivedAsApproved ==
  [][Archives /\ {lock, committed} \cap {NoLock} = {} =>
       \A t \in Tests : committed.entries[t] \in {NotLocked, tests[t]}]_vars

\* Every run comes to an end, whatever the agents do, as long as they exit.
EveryLoopEnds == \A d \in Drivers : At(d, "agent") ~> At(d, "stopped")
===============================================================================
