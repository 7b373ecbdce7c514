# specforge: a TLA+ verification project

This directory models the parts of specforge that keep state on disk and that
several actors touch at once, checks them with TLC and proves theorems about
them with TLAPS. Source paths below are relative to the repository.

## 1. Inventory

specforge is a framework of rules, templates and scripts that is installed into
a project. Two programs carry its logic: the npm CLI (`tools/cli`, TypeScript)
and the workflow scripts (`specforge/scripts`, Python). All their state is files.

| Component | State | Operations | Interacts with |
|---|---|---|---|
| Command lock (`tools/cli/src/lock.ts`) | `.specforge/lock`: its presence, the pid in it; the handlers a process has installed | `acquireLock`, `release`, signal and exit handlers | every mutating command; the operator |
| init (`commands/init.ts`) | framework files, team-data placeholders, manifest | probe, erase gate, dry run, erase, copy, place, record | lock, safe-fs, partition, bundle, manifest, git |
| update (`commands/update.ts`) | framework files, manifest | read, compare, decide by strategy, copy, rebuild the record | the same |
| migrate (`commands/migrate.ts`, `migrations-registry.ts`) | team data, `migrations_applied`, `framework_version` | plan, refusals, run each step, record | lock, manifest, migrations |
| Manifest (`manifest.ts`) | `.specforge/manifest.json` | read and validate, build, write in place | all commands, doctor |
| Safe file operations (`safe-fs.ts`) | none | resolve inside cwd, write, unlink, read | init, update |
| Partition and bundle (`partition.ts`, `framework-bundle.ts`, `sha.ts`) | tables; the shipped files | classify a path, list and hash the bundle | init, update, doctor, prepublish |
| prepublish and the release job (`scripts/prepublish.ts`, `cli-release.yml`) | `package.json`, the shrinkwrap, `tools/cli/framework/`; the registry | bump, clear, resolve, copy, compare; resolve the dist-tag, publish | VERSION, partition, npm, tags pushed by people |
| git probe (`git.ts`) | none | `git status` under a timeout | init's erase gate |
| doctor, version, validators | none (read-only) | run each validator, count failures | manifest, partition |
| Execution loop (`specforge/scripts/loop.py`) | `loop-runs.txt`; its own memory of hashes, lock bytes, ledger bytes, budget | refuse, spawn an agent, record, check, decide | progress.md, contract.md, the test lock, agents |
| Test lock (`lock_tests.py`) | `locked-tests.txt` | approve, unlock, check | loop, archive, review, people |
| Archive (`archive.py`) | where the change folder is | refusals, move | git, test lock, evidence report, compose check |
| Review preparation (`review_prep.py`) | none | compare the locks and tests of two revisions and of the working tree, evidence, CI commit | git, test lock, the human who reviews and merges |
| Compose check (`compose_check.py`) | none | check a compose file | archive |
| prd-check, upgrade.sh, the text validators | none | linters over prose; the CLI's predecessor | doctor |

What is hard here: commands read before they lock and write after; the lock is a
file that is created, read and deleted in separate awaits with signal handlers
next to them; the manifest and the framework files are several files written one
after another, so a kill or a failing write leaves a mixture; the loop hands the
very files it relies on to an agent and must notice what became of them; the
budget and the approval of tests outlive a run; a review sees two revisions of a
history in which a lock may have been anything; a package is put together in place,
over what a failed run has left. `PROJECT.json` lists each such
hazard at its line.

What makes each component correct:

* lock: one command at work at a time; a lock is removed by its owner or by an
  operator who made sure nobody runs; every invocation ends;
* init/update/migrate: nothing a user wrote is replaced without leave; the
  manifest tells the truth; exit 0 means all of it; migrations in order, recorded,
  none skipped, sensitive ones taken back only with both opt-ins;
* loop: the ledger counts every agent; the budget holds across runs; a change is
  reported done only on the tests as approved; no agent past a stop; it ends;
* archive: tests only as the committed lock, which people approved, says of them;
* review: no approved digest reaches the main branch that no human saw, and no change
  to an approved test goes unnamed;
* doctor: what it calls clean is clean;
* packaging: what is published installs the framework of its checkout, all of it and
  nothing else, under its own version; `latest` is not demoted, but by a job that could
  not look it up.

## 2. Modules

| Module | Models | Proofs |
|---|---|---|
| `ExclusiveSection` | what PRD-003 §7.6 promises of the lock: enter, leave, die inside, recover | |
| `CommandLock` | `lock.ts`, one step per await, with signals, kills and the operator | `CommandLockProofs` |
| `MigrationPlan` | `planMigrations` and the two comparisons of versions, as functions | `MigrationProofs` |
| `Lifecycle` | `init.ts`, `update.ts`, `migrate.ts`, `doctor.ts`, `version.ts` with what they use of manifest, safe-fs, registry and partition (extends `MigrationPlan`) | `LifecycleProofs`, `MigrationProofs`, `SerialProofs` |
| `Partition` | the lists of `partition.ts` and `classify` | |
| `Packaging` | `prepublish.ts`, the release job, the bundle as the CLI reads it (extends `Partition`) | `PackagingProofs` |
| `TestLock` | `lock_tests.py` as operators on the lock file | `TestLockProofs` |
| `ChangeLoop` | `loop.py`, `archive.py`, agents and people (extends `TestLock`) | `ChangeLoopProofs` |
| `LockReview` | `review_prep.py` over branches, commits and merges (extends `TestLock`) | `LockReviewProofs` |
| `MC*` | the values of the constants for TLC | |

### CommandLock

`lockBy` is the process that created the file on disk and `lockBody` whether its
JSON line is in it; `pc` is where a process is in `acquireLock`, the command or
`release`, and `sig` the second activity a signal starts. `CreateLock` is the
`open(p, "wx")`, `FindLock` its `EEXIST`, `ReportHeld` and `LoseHolder` the two
outcomes of reading the file back, `WriteBody` the rest of `acquireLock`.
`Finish`, `ReadBack`, `Unlink` and `Exit` are the release of the command's
`finally`; `Signal`, `SignalReadBack`, `SignalUnlink` and `SignalExit` the one of
the handler, with `DefaultSignal` for the times at which no handler is installed.
A second `release()` returns at once (`released`), which is how `Finish` goes
straight to `exiting`. `KeepsSection` instantiates `ExclusiveSection` with
`inside` computed from control state alone, so that the file's creation and
removal are what has to match.

### Lifecycle and MigrationPlan

A version is a number, a framework file's content one value of its canonical
hash, `docs` all the team data, `schema` the migrations the team data has been
through, `ran` those carried out since the manifest was made (but for those of a
run that died before it could record them, `OnRecord`). `run[p]` is one invocation:
its options, the manifest it read (`seen`), what it decided (`stale`, `drift`), what
is left to do (`todo`) and the entries of the manifest it will write. The lock is one
step here; `CommandLock` refines it. A file is copied in three steps (`CopyUnlink`,
`CopyCreate`, `CopyFill`), the manifest written in two (`TruncateManifest`,
`WriteManifest`); `torn` and `Partial` are what others see in between, and `Detached`
accounts for writers whose file has been unlinked under them. `init --erase` lists
its targets and deletes them one by one, the lock and the manifest among them.
`doctor` is one step per read (`PresenceCheck`, `IntegrityRead`, `IntegrityFile`),
next to commands that hold the lock; the validators of prose are one choice of
failing or not. With `SourceRepo` the directory is the framework's own repository, where
the absence of a manifest is no finding; `"bundle"` in `Faults` is a CLI that cannot read
its bundle, with which doctor verifies nothing, the manifest included (`Unbundled`).
`EditFile`, `AuthorDocs`, `Kill` and `RemoveStaleLock` are the world
outside. Team data is one item, so placeholders are placed in one step; of it
`init` looks for `SIBLINGS.md` and `NNN-*.md` alone, so that what a team wrote it finds
or not. `Rebuild` takes the whole record at once, where `update.ts:196-204` hashes one
file per await: no command writes next to it, as it has the lock, but a user who edits
two files meanwhile may get one into the record and not the other.

`MigrationPlan` has versions as sequences of numbers, with what a pre-release suffix
adds to the planner's comparison and not to the commands'. `Advance` is one turn of
the planner's loop and `Walk` where n turns lead; the loop has no bound, and one that
takes more turns than there are migrations goes in a circle. `Lifecycle` plans with it
over the versions `0.n.0`; `MCLifecycle` assumes two facts of it that TLC evaluates
over every registry of at most two migrations between four versions, one of them a
release candidate: a plan is a path (`PlansArePaths`), and nothing is planned
downwards that `--allow-downgrade` is not asked for (`DownwardPlansNeedOptIn`).

### Partition and Packaging

A path is the sequence of its names, an entry of the lists a file, a tree or the
children of a directory; the names that look like `001-*.md`, and those with `..` in
them, are constants. A checkout says what each path holds, which are symbolic links
and which directories are empty. `runPrepublish` is a step per await, by hand in a
working copy that keeps what the last run left, or twice in a release job on a clone
of its own (once as a step, once as npm's `prepack`), with the dist-tag resolved in
between. `Throws` is any step of prepublish that fails, `JobFails` one of
the job's other steps (its tests among them), `Kill` one that is killed. `ResolveTag` may
fail to look `latest` up (`"view"` in `Faults`), and then compares with 0.0.0 as the
workflow does; `job.saw` is what it compared with.
`listBundledFrameworkFiles` is what the published CLI will install.

### TestLock, ChangeLoop and LockReview

A test's content stands for its hash; a lock is its entries and, for each kind of
history line and each test, how many there are. The ledger is its number of lines and
their sum. `Refusal` is the sequence of checks before the first agent,
`RecordIteration`, `CheckLocked` and `Decide` (with `Verdict`) the three blocks after an
iteration. The agent's actions are one per kind of thing an agent can do to the
folder, switched on by `Mischief`; `Tick` is always there. People approve, unlock,
edit, plan, commit and archive. Ghost variables: `spawned` (agents ever started),
`blessed` (what a human approved), and in `run` `best` and `stalled` (the tasks ever
ticked, the iterations since that grew). `Kill` ends `loop.py` and the agent together, as
Ctrl-C and a crash of the machine do; a signal to `loop.py` alone leaves an agent that
goes on writing with nobody to check it, which is not modelled.

`LockReview` has a working tree, the last commit and the revision the branch started
from, each with the two places a change's folder may be in, the locks there and the
tests. The scripts' steps and, with `ByHand`, anyone's edits of a lock file, its
deletion, a symlink in its place or a second copy act on the tree; `Commit` and
`Merge` move the revisions. `Findings(c)` is what the review of `c` names, put
together from one operator per check of `lock_findings`, `foreign_lock_findings` and
`check_locked`. `seen` is the ghost: what a human who read the findings has seen of
each entry. `Deleted` takes every locked test for one whose path `review_prep.py` knows
as a test's (`TEST_FILE`).

## 3. Runs

The passing runs end with no error; together they take every action of the modules.
Each property has a mutant in `PROJECT.json`: a definition of the module replaced by
one of the `Bug_` forms that stand before it, which TLC must find to break the
property under the same configuration.

| Run | Instance | Shows |
|---|---|---|
| `lock_signals` | 3 processes, signals, write faults | the discipline behind the exclusion; what is left of it; only the owner's lock; stale locks; the refinement |
| `lock_erasers` | 3 processes, one of them `init --force --erase`, weak fairness | exclusion but for a command that has deleted its lock; no lock left by a run that ended; every run ends |
| `lifecycle_serial` | 1 process, 3 versions, 2 files, one of which comes, goes and comes again; with and without a readable bundle | honest manifest, true drift, a clean doctor |
| `lifecycle_pair` | 2 processes, 1 file, `doctor` among the commands, in the framework's own repository | edits kept and half-written files hidden with two commands at once |
| `lifecycle_faults` | 1 process, 4 versions, 3 migrations, the CLIs of the first and of the last version, failing steps, writes and unlinks, kills, `--erase` | edits and documents kept, exit 0 complete; migrations in order, none skipped, recorded, acknowledged; the version goes back only where asked |
| `package` | 6 checkouts of 7 paths, 5 runs, failures, lookups that fail, kills | exit 0 is exact; what is published installs the framework; only a job whose lookup failed demotes `latest` |
| `review_lock` | 2 changes, 1 test, 2 contents, edits by hand, 2 branches of 4 steps | merged digests were seen; changed approved tests show |
| `loop_tests` | 1 task, 1 test, 2 runs, agents that edit, untick, re-approve, spoil the lock, move, block; people who approve, unlock, commit; kills | done means untouched; no agent past a stop; archived as approved; the ledger lags at most one per run |
| `loop_budget` | 2 tasks, 3 runs, two budgets, agents that tamper with the ledger, weak fairness | ledger, idling, budget; every run ends |
| `lifecycle_race`, `lifecycle_down_up`, `review_range` | the smallest that shows it | section 4 |

Bounds. Three processes give the lock a holder, a contender and one that arrives
in between. Three versions let a path be dropped and bundled again; the three migrations
of `lifecycle_faults` make an upward path on which order, skipping and half-way failure
differ, a downward one over two reversible migrations, one of them sensitive, and one
that an irreversible migration forbids.
`MaxRuns` is 3 to 5: one command to make a state, one to trip over it and one to
repair it. `MaxEdits` is 1 or 2. The paths of `package` are one of each kind: plain,
optional, below a tree, numbered, with `..`, a team document, VERSION; its checkouts
lack one thing each; five runs are two release jobs and one by hand. In `review_lock`
four steps are enough to lock, commit, unlock or edit and commit again, and the second
branch meets what the first has merged. For the loop, two tasks let an iteration be
productive or idle before the end, the caps 2, 3 and 5 lie on both sides of the
three-iteration limit, and three runs cross the ledger twice. `MaxHistory` bounds the
history lines of each kind, which only grow. The runs but those of the lock stop when a
bound is reached, so only those of the lock check for deadlock.

Restrictions the passing runs rest on; lifting one (the constant in brackets)
makes TLC find the behaviour that follows it.

* Plain exclusion (`MutualExclusion`) holds without erasers and without signals.
  `init --force --erase` deletes the lock it holds, which `ExclusionUnlessErased`
  excepts (`Erasers`), and a signalled command goes on until `process.exit(130)`
  although its lock is gone (`Signalled`), which `ExclusionUntilSignalled` excepts.
* `FinishedRunLeavesNoLock` is checked without signals and failing writes: a command
  that ends while its handler is still reading the file exits with the lock left
  (`Signalled`), and one that cannot write the lock's body leaves it empty
  (`WriteFaults`). A signal before the handlers are installed leaves it as well.
* A contender that finds the lock just released exits 10, not 5 (`LoseHolder`).
* `UserEditsSafe` needs users who edit between commands (`EditsDuringRuns`, as in
  `lifecycle_race`) and files that can be read: `update` takes an unreadable one for
  a missing one (`"read"` in `Faults`). Leave (`Consented`) is `init --force` and
  `update --strategy=theirs` over a file it has reported. Two overwrites without leave are
  outside the property, both listed in section 4: an unforced init over a path it does not
  probe, which the antecedent excepts, and a plain update over what `--strategy=ours` has
  kept, which needs that strategy among the `Commands` (the runs of the property have none).
* `TeamDocsSafe` needs a team that writes between commands: init looks whether a document
  is there and then creates it, and one written in between is replaced (`EditsDuringRuns`).
* `CleanDoctorIsUpToDate` asks for a whole manifest but in the framework's own repository
  (`SourceRepo`), and for files up to date but where the bundle could not be read
  (`Unbundled`): doctor is clean there without having looked.
* `NoFalseDrift` needs writes that do not fail: after an update that failed half-way
  the next one takes its own new files for the user's changes (`Faults`). With migrate
  among the commands (`Commands`) it does not hold for doctor, nor does
  `ManifestHonest`: migrate moves the version and leaves the files. Both except
  a path some version dropped (`Dropped`): update forgets its entry, and what is left of
  it counts as the user's when it is bundled again.
* `NewerInstallRefused` names two commands that take the version back:
  `migrate --allow-downgrade`, which is asked to, and `init --force` by an older CLI, which
  reads no manifest (section 4).
* `MigrationsInOrder` and `NoMigrationSkipped` say nothing of a history in which a
  migration has been taken back (`Straight`; `lifecycle_down_up` is such a one), nor of
  team data that `update` or `init --force` has moved past a migration.
* `MigrationsRecorded` has one process at a time: of two migrates that planned on
  the same manifest the later one writes back a record without what the first did
  (`Procs`). A step of a killed run is not on record and runs again.
* `InstallsTheFramework` needs directories that can be read: `walkDir` takes one that
  cannot for an empty one, and the copy agrees with the shorter list (`"readdir"` in
  `Faults`). A file with `..` in its name is shipped and never installed. Release jobs
  run one at a time, and nobody changes the checkout while prepublish runs.
* `LatestOnlyRises` is about jobs that have looked `latest` up (`"view"` in `Faults`,
  section 4) and, as release jobs run one at a time, not about two that look it up before
  either publishes.
* `ApprovedTestsShow` is about a working tree that is as committed and a change's lock
  in the change's folder: `check_locked` reads the disk, so that a test put back there,
  or a lock moved away by hand, hides what was committed. The main branch does not
  advance while a branch is open, so that its tip and the merge base, which
  `review_prep.py` uses side by side, are one.
* `LedgerComplete` is without kills and with one driver: a run killed before it has
  recorded its iteration leaves it uncounted (`Kills`), and two runs at once restore
  the ledger over each other's lines (`Drivers`).
* `LedgerLagsOnePerRun`, with kills, is about agents that leave the ledger alone
  (`"ledger"` in `Mischief`): a run killed after its agent has emptied the ledger takes
  along what it remembered of it.
* `BudgetKept` lets a run that finds every task ticked and the cap reached start one
  agent, as the code does: `iterations < runs + tasks left` is false then.
* `ThreeIdleStop` is about agents that do not untick (`"untick"` in `Mischief`): one
  that unticks a task and ticks it again resets the count.
* `DoneMeansUntouched` is about one run: a test and its lock rewritten in one run
  stop that run with exit 4, and the next run takes them as its start. People's
  commits are the anchor across runs (`ArchivedAsApproved`).
* `NoAgentPastAStop` is about what a run has seen: its first agent starts, as `loop.py`
  has it, on a `BLOCKED:` line, on changed tests and with every task ticked.
* `ArchivedAsApproved` is about a committed lock that is on disk: one deleted from the
  working tree is compared with nothing (section 4).

## 4. Disagreements between code and documents

Each of these runs checks one property that a document or a test of the repository
states, and TLC finds it violated; the lines are quoted under `findings`.

* `lifecycle_race`: `update` compares before it takes the lock and copies after.
* `lifecycle_down_up`: an upgrade after a downgrade is skipped as already applied.
* `review_range`: a lock committed and approved anew within one branch is compared
  with nothing but itself, and the review names neither digest.

Five more were met and have no run, since a passing property states them as its exception
or is checked without the command that shows them; each follows by lifting that.

* `init` without `--force` replaces a file a user wrote at a framework path it does not
  probe: `cwdHasSpecforgeArtifacts` (`init.ts:38`) looks for four paths and `NNN-*.md`,
  where PRD-003:878 has it "refuses to write into a non-empty cwd" and its test row 11
  (line 989) a stray file refused (`UserEditsSafe`).
* `update --strategy=ours` puts the kept bytes on record as installed (`update.ts:199`), so
  the next plain update takes them for its own and replaces them; PRD-003:879 has update
  refuse, and row 17 (line 995) "the user's edits survive; the manifest records the file
  as locally modified" (`UserEditsSafe`).
* `init --force` by an older CLI over a newer install is not refused; PRD-003:211 has
  "exit 2 on any mutating command" and row 24 (line 1002) "every mutating command"
  (`NewerInstallRefused`).
* A release of an old tag whose `npm view` fails compares with 0.0.0 (`cli-release.yml:70`)
  and demotes `latest`, the very thing the comment of that step is about
  (`LatestOnlyRises`).
* `archive.py:49` compares a lock with the last commit only when it is on disk: a committed
  lock that was deleted holds nothing back, where the docstring (line 10) says it "refuses
  when the lock file differs from the last commit" (`ArchivedAsApproved`).

`specforge/core/loop.md` says of the loop's checks that they are no defence
against a hostile agent; the agents of `ChangeLoop` are careless ones, and what
section 3 says of them is what the checks do and do not see.

## 5. Fairness

`CommandLock!FairSpec`: weak fairness of acquire and release for each process. No
step of either waits for another process (there is no retry and no blocking
call), so a scheduled process is always able to take its next step; nothing is
assumed of signals, kills or the operator. `ChangeLoop!FairSpec`: weak fairness of
the driver's steps, `AgentExits` among them: `subprocess.run` waits for the agent
without a timeout, so the end of a run assumes that agents exit. Nothing is
assumed of what they do.

## 6. Proofs

All of them hold for any value of the constants that satisfies the modules'
assumptions and what is named here; section 3 says what happens otherwise.

`CommandLockProofs`:

* `TypeCorrect`: `Spec => []TypeOK`.
* `Discipline`: `LockDiscipline` is inductive together with `TypeOK`. It says of
  each place in `acquireLock` and `release` whether the file is this process's.
  Exclusion alone is not inductive: a process about to unlink must be known to
  hold the lock it unlinks, and a signalled one to have no lock once it only has
  to exit. One step per action, and under it one per part the action can disturb.
* `ExclusionWithSignals` and `Exclusion` follow from it: two commands at work
  would both have created the one file on disk.
* `ExclusionWithErasers` has an invariant of its own, `EraserDiscipline`: a command
  that has deleted its lock is bound to nothing, but one that has not still has the
  file, since a release unlinks only after reading its own pid back. `FinishedGivesUp`
  adds to it that whoever has ended has given its lock up.
* `TakenFromOwner` and `StaleStays`: the action properties, from `LockDiscipline`.
* `ImplementsSection`: every step is a step of `ExclusiveSection` or changes
  nothing in it; the invariant supplies that the one inside has the file.

`Discipline`, `StaleStays` and what follows from the former assume `Erasers = {}`;
`ExclusionWithErasers` assumes `Signalled = {}`, `FinishedGivesUp` also `~WriteFaults`,
and `Exclusion` no erasers and no signals. With erasers and signals together the two
exceptions do not even cover what happens: a handler that has read its pid back
unlinks, after the erase, what is by then another's lock, and two unsignalled commands
that erased nothing may be at work.

`LifecycleProofs`, for any number of processes, files, versions and commands. Four
lemmas go over every action once: which runs it moves (`StepOfOne`), that a run stays
where its command belongs (`OwnPlace`, the invariant `Places`), what it does to the
files (`Effects`), and from where a run comes to a step that matters (`Arrivals`). On
them rest

* `EditsSafe` (`UserEditsSafe`; users edit between commands, files can be read, no
  bundle holds a user's bytes, no command has `--strategy=ours`). `Spares` is the
  strengthening: what an unforced init looked for was no user's and still is not, what
  update found stale is no user's, what is copied is stale or reported; and nothing a user
  wrote is on record (`Notes`, `Recording`), so that what is as recorded is not a user's.
  It survives the other processes because no step makes a user's bytes (`MakesNoUserBytes`).
* `DocsSafe` (`TeamDocsSafe`; the team writes between commands).
* `TornLocked` (`TornOnlyUnderLock`; no kills, failing writes or `--erase`; users may
  edit at any time). `WriterInv`: whoever is past the lock has it, and what is
  half-written has its writer, with the file still open.

`MigrationProofs` (extends `LifecycleProofs`):

* `Plans`. Whatever the registry's order, `planMigrations` over versions `0.n.0` ends,
  and unless it finds no plan its steps are the migrations between the two versions, all
  of them and no other. `Walk` is a recursive function: that it is defined at every n,
  and what it is after n turns (`OnTheWay`), are inductions over the turns, made from the
  least number at which something fails, since the library's induction rules take an
  operator as a parameter.
* `TypeCorrect` (`TypeOK`), for any number of processes and whatever fails or is killed.
  `TypeInv` adds to the types where each run stands (`Places`) and what its next steps
  rely on (`Due`: a manifest has been read, a list of migrations is finite).
* `SensitiveAcked` (`SensitiveNeedsAck`), as generally. `AskedInv`: a migrate that leads
  back has passed both refusals for what is left of its list. It rests on `Plans`: the
  list holds nothing that the plan the refusals looked at did not.
* `Records`, `InOrder`, `NoneSkipped` and `NewerRefused` (`MigrationsRecorded`,
  `MigrationsInOrder`, `NoMigrationSkipped`, `NewerInstallRefused`), with one command at a
  time (`[]OneAtATime`, any process next) and any commands; steps, writes and unlinks may
  fail and runs be killed. `OrderInv` says what a run
  may believe (`Believes`): that what it read before the lock still holds, that what has
  been carried out and is not on record is its own, that the migrations up to its target
  are applied or still on its list.

`SerialProofs` (extends `MigrationProofs`), with one command at a time and users who edit
between commands:

* `ExitsComplete` (`ExitZeroIsComplete`), if reads succeed and no command has
  `--strategy=ours`; anything else may fail or be killed, in this command or in earlier
  ones. `CopyInv` says of each step what is done so far: what update has compared is
  stale, in drift or as bundled, what is no longer on the list is installed and, in init,
  on record, and what is written as the manifest is the disk. With `ours` update would
  keep, as the user's, a file that an earlier run was killed over.
* `Honest`, `DriftIsReal` and `CleanDoctor` (`ManifestHonest`, `NoFalseDrift`,
  `CleanDoctorIsUpToDate`), under `Orderly`: nobody is killed, reads and writes succeed,
  no command is a migrate and no `init --force` is an older CLI's; for the last, no
  bundle holds a user's bytes. `SoundInv` joins `OrderInv` and `CopyInv` with the link of disk and
  manifest that only holds between commands (`Agrees`): each file is as recorded, or the
  user's, or dropped by a version. While a command works it is replaced by what that
  command leaves alone (`Leaves`), reports (`Reports`) and has found (`Diagnoses`).
  A kill or a failing write leaves new files under an old record, and the next update
  reports files the user has not modified; a migrate leaves another version's number
  over files it has not touched, and doctor of that version does the same.

`OneAtATime` is a hypothesis about the behaviour and not about the constants, so that it
covers any number of processes that take turns; `lifecycle_race` and the lines on
`MigrationsRecorded` in section 3 are what happens without it.

`PackagingProofs`: `TypeCorrect`, `ExitsExact`, `Installs` and `LatestRises`. The
invariant says for each step of prepublish what is done so far: the version read is
the checkout's, the copies in `package.json` and the shrinkwrap are of it, what is
copied is as in the checkout and what is not is still to copy, what a release job has
bundled stays so until it is published. `Installs`, `ExitsExact` and
`LatestRises` assume that directories can be read; what a job compares its version with is,
unless the lookup failed, `latest` until it publishes. `TeamDataIsNeverFramework`: the two
lists of `partition.ts` do not meet, so what is installed is never taken for team data,
nor erased as such.

`LockReviewProofs`: `TypeCorrect`; `DigestsSeen`: `MergedDigestsWereSeen` is inductive
as it stands, for a digest that is neither the base's nor a new lock's is an entry
changed, added or removed, each of which is a finding; `TestsShow` follows from the
types: a test that differs from the base is touched, and either a lock that held it is
still in place, and then `check_locked` or the lock's own findings name it, or another
change's lock held it.

`TestLockProofs`: what `approve` and `unlock` leave on disk is a lock again (lemmas for
the other two). `ChangeLoopProofs`:

* `TypeCorrect`, `ThreeIdle` (agents that do not untick; `IdleInv` ties `stalled` and
  `best` to the loop's own count), `ArchiveHonest` (`ArchivedAsApproved`; any number of runs
  at once).
* `DoneUntouched` and `StopsRespected`, with one run at a time: `UntouchedInv` ties the
  hashes and lock bytes the run keeps to the folder at each step after the agent's.
  `StopsRespected` needs a task to exist.
* `LedgerAccounts` and `BudgetHolds`, with one run at a time and none killed:
  `LedgerInv` says how many agents the ledger, and the run's memory of it, are behind.
* `LedgerLags` (`LedgerLagsOnePerRun`), with one run at a time, killed or not, and agents
  that leave the ledger alone: `Lags` says that the ledger misses one agent per run
  before this one, and one more only while the run's own is not yet recorded.

Only model-checked: liveness under fairness (`EveryRunEnds`, `EveryLoopEnds`), which
needs ENABLED, and what `MCLifecycle` assumes of `planMigrations` for versions with a
suffix. Every safety property of the passing runs is stated by a theorem.

## 7. Not modelled

Formatting, logging and flag parsing; the canonicalisation of text before hashing;
symlinks and path containment in `safe-fs.ts`; the child process of `git.ts`, whose
outcome is a choice; the validators of prose and `prd-check.py`, of which only that they
may fail matters to an exit code; what `review_prep.py` says of siblings, test names,
skip patterns, the evidence report and CI, which adds findings and removes none, and
files whose type changes; `compose_check.py`; `lock_tests.py`'s `active_changes` and
`locked_paths`; the deprecated `upgrade.sh`; CI workflows but the release job; the
editor hook, which is agent configuration outside the sources.

## 8. Plan

1. `ManifestHonest` and `NoFalseDrift` with migrate among the commands, in a form that
   says which files a manifest of another version speaks of; what of
   `ExitZeroIsComplete` and of the migration properties survives two commands at once.
2. `SafePaths`: `safeResolve` over small directory trees with symlinks that change
   between the check and the use.
3. `ComposeCheck`: a compose file against the locks and hashes it names, and the
   refusal of `archive.py` that rests on it.
4. `GitProbe`: `git.ts`, a child process's close, error and timeout in any order.
5. A manifest history and a budget as abstract specifications that `Lifecycle` and
   `ChangeLoop` implement, with the step simulations proved.
