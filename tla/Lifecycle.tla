------------------------------- MODULE Lifecycle -------------------------------
(***************************************************************************)
(* init, update, migrate, doctor and version at work on one cwd: the        *)
(* framework files, the team data and .specforge/manifest.json, under the   *)
(* lock.  One step per await that reads or writes something another         *)
(* process, the user or a kill can touch in between                         *)
(* (src/tools/cli/src/commands/*.ts).  CommandLock is the lock in detail;   *)
(* here taking and dropping it are single steps.                            *)
(*                                                                          *)
(* Versions are numbers in semver order, a file's bytes are one value (its  *)
(* canonical sha256 tells values apart), migration m leads from m - 1 to m, *)
(* and everything team-owned that init may place or erase is `docs`, whose  *)
(* format is the set of migrations it has been through.                     *)
(***************************************************************************)
EXTENDS Naturals, FiniteSets, SequencesExt, MigrationPlan

CONSTANTS
  Procs, NoProc,     \* processes, and nobody
  Files,             \* framework paths, of any version
  Probed,            \* those init looks for before an unforced install
  Versions, Bundle,  \* Bundle[v][f]: the bytes of f in the CLI of version v
  UserBytes,         \* what a user may write into a framework file
  Missing, Partial,  \* no file; a file created and not yet filled
  NoManifest,
  Migrations,        \* the migrations the CLI has
  Reversible,        \* those that export down()
  Sensitive,         \* those marked security_sensitive
  Commands,          \* the invocations that may be made, see Command
  MaxRuns,           \* bound on invocations
  MaxEdits,          \* bound on user edits
  Faults,            \* what may fail: "read", "write", "unlink", "step", "bundle"
  SourceRepo,        \* whether the cwd is the repository the framework comes from
  Kills,             \* whether a process may be killed
  EditsDuringRuns    \* whether the user edits while a command runs

ASSUME FilesAssumption ==
  /\ Probed \subseteq Files
  /\ Files \cap {"docs", "manifest", "lock"} = {}
  /\ \A v \in Versions : DOMAIN Bundle[v] \subseteq Files
ASSUME FaultsAssumption == Faults \subseteq {"read", "write", "unlink", "step", "bundle"}
ASSUME SourceAssumption == SourceRepo \in BOOLEAN
ASSUME NobodyAssumption == NoProc \notin Procs
ASSUME VersionsAssumption == Versions \subseteq Nat /\ Migrations \subseteq Nat \ {0}
ASSUME BoundsAssumption == MaxRuns \in Nat /\ MaxEdits \in Nat

Command == [kind : {"init", "update", "migrate", "doctor", "version"}, v : Versions, dry : BOOLEAN,
            force : BOOLEAN, erase : BOOLEAN,                         \* init
            strategy : {"none", "ours", "theirs", "merge"},           \* update
            to : Versions, allow : BOOLEAN, ack : BOOLEAN,            \* migrate
            rule : {"all", "framework-file-integrity", "unknown"}]    \* doctor
ASSUME CommandsAssumption == Commands \subseteq Command

VARIABLES
  lock,      \* the process .specforge/lock names
  made,      \* whether the directory .specforge exists
  manifest,  \* the last manifest written in full
  torn,      \* whether writing it has begun and not ended
  disk,      \* the framework files
  docs,      \* team data: none, placeholder, authored
  schema,    \* the migrations whose effect the team data shows
  run,       \* each process's invocation
  runs, edits,  \* how many of each so far
  ran        \* migrations carried out since the manifest was created, but for
             \* those of a run that ended before it could record them

vars == <<lock, made, manifest, torn, disk, docs, schema, run, runs, edits, ran>>
shared == <<lock, made, manifest, torn, disk, docs, schema, ran>>

Bytes == UserBytes \cup UNION {{Bundle[v][f] : f \in DOMAIN Bundle[v]} : v \in Versions}
ASSUME BytesAssumption == Missing # Partial /\ {Missing, Partial} \cap Bytes = {}
NoEntries == [f \in Files |-> Missing]
NoCommand == [kind |-> "none"]

Idle(code) == [pc |-> "idle", cmd |-> NoCommand, seen |-> NoManifest, todo |-> {},
               stale |-> {}, drift |-> {}, cur |-> Missing, open |-> FALSE,
               entries |-> NoEntries, code |-> code]

Init ==
  /\ lock = NoProc
  /\ made = FALSE
  /\ manifest = NoManifest
  /\ torn = FALSE
  /\ disk \in [Files -> UserBytes \cup {Missing}]
  /\ docs = "none"
  /\ schema = {}
  /\ run = [p \in Procs |-> Idle(0)]
  /\ runs = 0
  /\ edits = 0
  /\ ran = {}

-------------------------------------------------------------------------------
(* Vocabulary *)

At(p, here) == run[p].pc = here
Is(p, kind) == run[p].cmd.kind = kind
Bundled(p) == Bundle[run[p].cmd.v]
Paths(p) == DOMAIN Bundled(p)

Goto(p, there) == run' = [run EXCEPT ![p].pc = there]
Ends(p, code) == run' = [run EXCEPT ![p] = Idle(code)] /\ UNCHANGED shared

\* Only run changes.
Local == UNCHANGED <<shared, runs, edits>>

ManifestExists == torn \/ manifest # NoManifest

\* cwdHasSpecforgeArtifacts.
HasArtifacts(found) == made \/ found \/ \E f \in Probed : disk[f] # Missing

\* Mutated: as if every entry the manifest has were what the user last saw.
Bug_FileStateTrustsManifest(onDisk, installed, bundled) ==
  CASE onDisk = Missing -> "missing-locally"
    [] onDisk # Missing /\ installed = bundled -> "unchanged-by-user-equal"
    [] OTHER -> "unchanged-by-user-needs-update"

\* Mutated: drift measured against the bundle, not against the installed bytes.
Bug_FileStateAgainstBundle(onDisk, installed, bundled) ==
  CASE onDisk = Missing -> "missing-locally"
    [] onDisk = bundled -> "unchanged-by-user-equal"
    [] OTHER -> "changed-by-user"

\* The state compareAll gives a file from its three hashes.
FileState(onDisk, installed, bundled) ==
  CASE onDisk = Missing -> "missing-locally"
    [] onDisk # Missing /\ onDisk # installed -> "changed-by-user"
    [] onDisk # Missing /\ onDisk = installed /\ installed = bundled
         -> "unchanged-by-user-equal"
    [] OTHER -> "unchanged-by-user-needs-update"

\* What ran keeps when a migrate ends without its manifest.
OnRecord(p) ==
  IF Is(p, "migrate") /\ manifest # NoManifest THEN ran \cap manifest.applied ELSE ran

\* The path cur has been deleted or replaced: whoever has it open writes on into
\* a file no path names.
Detached(r, path) ==
  [p \in Procs |-> IF r[p].open /\ r[p].cur = path THEN [r[p] EXCEPT !.open = FALSE] ELSE r[p]]

\* The version strings "0.n.0" and the migrations of CLI version v.
Semver(n) == [core |-> <<0, n, 0>>, suffix |-> "", extra |-> <<>>]
Has(v) == {m \in Migrations : m <= v}
Registry(v) ==
  LET Script(m) == [from |-> Semver(m - 1), to |-> Semver(m), id |-> m]
  IN  [i \in 1 .. Cardinality(Has(v)) |-> Script(SetToSeq(Has(v))[i])]
Direction(p) == IF run[p].seen.version <= run[p].cmd.to THEN "up" ELSE "down"

Begin(p, c) ==
  /\ At(p, "idle")
  /\ runs < MaxRuns
  /\ runs' = runs + 1
  /\ run' = [run EXCEPT ![p] = [Idle(0) EXCEPT !.pc = c.kind, !.cmd = c]]
  /\ UNCHANGED <<shared, edits>>

-------------------------------------------------------------------------------
(* init: the checks before the lock *)

\* Of the team's documents it knows two names, which those a team wrote need not have.
InitProbe(p) ==
  /\ At(p, "init")
  /\ \E found \in {docs # "none"} \cup {b \in {FALSE} : docs = "authored"} :
       IF ~run[p].cmd.force /\ HasArtifacts(found)
         THEN Ends(p, 2)
         ELSE Goto(p, IF run[p].cmd.erase THEN "gate" ELSE "preview") /\ UNCHANGED shared
  /\ UNCHANGED <<runs, edits>>

\* gitStatus may answer anything: the tree is the user's.  The double opt-in
\* waives a dirty tree and never an unavailable git.
EraseGate(p) ==
  /\ At(p, "gate")
  /\ \E git \in {"clean", "dirty", "not-a-repo", "unavailable"}, optIn \in BOOLEAN :
       IF git = "unavailable" \/ (git = "dirty" /\ ~optIn)
         THEN Ends(p, 3)
         ELSE Goto(p, "preview") /\ UNCHANGED shared
  /\ UNCHANGED <<runs, edits>>

InitPreview(p) ==
  /\ At(p, "preview")
  /\ IF run[p].cmd.dry THEN Ends(p, 0) ELSE Goto(p, "locking") /\ UNCHANGED shared
  /\ UNCHANGED <<runs, edits>>

-------------------------------------------------------------------------------
(* update: everything it decides on is read before the lock *)

\* Mutated: a cwd without a manifest is not refused.
Bug_UpdateReadNoManifest(p) ==
  /\ At(p, "update")
  /\ UNCHANGED <<runs, edits>>
  /\ IF torn
       THEN Ends(p, 10)
       ELSE /\ run' = [run EXCEPT ![p].pc = "comparing", ![p].seen = manifest,
                                  ![p].todo = Paths(p)]
            /\ UNCHANGED shared

\* Mutated: the installed version is not compared with the bundled one.
Bug_UpdateReadAnyVersion(p) ==
  /\ At(p, "update")
  /\ UNCHANGED <<runs, edits>>
  /\ CASE ~ManifestExists -> Ends(p, 2)
       [] torn -> Ends(p, 10)
       [] OTHER -> /\ run' = [run EXCEPT ![p].pc = "comparing", ![p].seen = manifest,
                                         ![p].todo = Paths(p)]
                   /\ UNCHANGED shared

UpdateRead(p) ==
  /\ At(p, "update")
  /\ UNCHANGED <<runs, edits>>
  /\ CASE ~ManifestExists -> Ends(p, 2)
       [] torn -> Ends(p, 10)
       [] OTHER ->
            IF manifest.version > run[p].cmd.v
              THEN Ends(p, 2)
              ELSE /\ run' = [run EXCEPT ![p].pc = "comparing",
                                         ![p].seen = manifest,
                                         ![p].todo = Paths(p)]
                   /\ UNCHANGED shared

\* A file that cannot be read counts as missing.
CompareFile(p) ==
  /\ At(p, "comparing")
  /\ \E f \in run[p].todo :
     \E found \in {disk[f]} \cup {b \in {Missing} : "read" \in Faults} :
       LET state == FileState(found, run[p].seen.files[f], Bundled(p)[f])
       IN  run' = [run EXCEPT
             ![p].todo = @ \ {f},
             ![p].drift = IF state = "changed-by-user" THEN @ \cup {f} ELSE @,
             ![p].stale = IF state \in {"missing-locally", "unchanged-by-user-needs-update"}
                            THEN @ \cup {f} ELSE @]
  /\ Local

UpdateDecide(p) ==
  /\ At(p, "comparing")
  /\ run[p].todo = {}
  /\ UNCHANGED <<runs, edits>>
  /\ LET drifted == run[p].drift # {}
          strategy == run[p].cmd.strategy
     IN CASE drifted /\ strategy = "merge" -> Ends(p, 1)
          [] ~(drifted /\ strategy = "merge") /\ run[p].cmd.dry -> Ends(p, 0)
          [] drifted /\ strategy = "none" /\ ~run[p].cmd.dry -> Ends(p, 1)
          [] OTHER -> Goto(p, "locking") /\ UNCHANGED shared

-------------------------------------------------------------------------------
(* migrate: so is its plan *)

\* Mutated: --allow-downgrade alone suffices for a sensitive migration.
Bug_MigratePlanForgetsAck(p) ==
  LET c == run[p].cmd
      plan == planMigrations(Semver(manifest.version), Semver(c.to), Registry(c.v))
      steps == {plan.steps[i].id : i \in DOMAIN plan.steps}
      down == c.to < manifest.version
  IN  IF manifest.version > c.v \/ (down /\ ~c.allow) \/ plan = NoPlan
        THEN Ends(p, 2)
      ELSE IF down /\ ~(steps \subseteq Reversible)
        THEN Ends(p, 4)
      ELSE IF c.dry THEN Ends(p, 0)
      ELSE /\ run' = [run EXCEPT ![p].pc = "locking", ![p].seen = manifest,
                                 ![p].todo = steps]
           /\ UNCHANGED shared

MigratePlan(p) ==
  LET c == run[p].cmd
      installed == Semver(manifest.version)
      plan == planMigrations(installed, Semver(c.to), Registry(c.v))
      steps == {plan.steps[i].id : i \in DOMAIN plan.steps}
  IN  IF \/ compareSemver(installed, Semver(c.v)) > 0
         \/ compareSemver(Semver(c.to), installed) < 0 /\ ~c.allow
         \/ plan = NoPlan
        THEN Ends(p, 2)
      ELSE IF /\ plan.direction = "down"
              /\ ~(steps \subseteq Reversible) \/ (steps \cap Sensitive # {} /\ ~c.ack)
        THEN Ends(p, 4)
      ELSE IF c.dry THEN Ends(p, 0)
      ELSE /\ run' = [run EXCEPT ![p].pc = "locking", ![p].seen = manifest,
                                 ![p].todo = steps]
           /\ UNCHANGED shared

MigrateRead(p) ==
  /\ At(p, "migrate")
  /\ UNCHANGED <<runs, edits>>
  /\ CASE ~ManifestExists -> Ends(p, 2)
       [] torn -> Ends(p, 10)
       [] OTHER -> MigratePlan(p)

-------------------------------------------------------------------------------
(* doctor and version, which take no lock and write nothing *)

\* An unknown --rule is refused before anything is read.  What the bundle should
\* hold is read first; where it cannot be, there is nothing to verify.
DoctorRules(p) ==
  /\ At(p, "doctor")
  /\ \E bundled \in {Paths(p)} \cup {b \in {{}} : "bundle" \in Faults} :
       IF run[p].cmd.rule = "unknown"
         THEN Ends(p, 2)
         ELSE /\ run' = [run EXCEPT
                   ![p].pc = IF run[p].cmd.rule = "all" THEN "presence" ELSE "integrity",
                   ![p].todo = bundled]
              /\ UNCHANGED shared
  /\ UNCHANGED <<runs, edits>>

\* manifest-present, which asks for none in the framework's own repository, and the
\* validators of the team's documents, which may find anything; code counts the
\* validators with an error.
PresenceCheck(p) ==
  /\ At(p, "presence")
  /\ \E others \in {0, 1} :
       run' = [run EXCEPT ![p].pc = "integrity",
                 ![p].code = others + (IF ~SourceRepo /\ (manifest = NoManifest \/ torn)
                                         THEN 1 ELSE 0)]
  /\ Local

\* framework-file-integrity is about an install of the bundle's own version; on a
\* malformed manifest it throws, which counts as an error of it.
IntegrityRead(p) ==
  /\ At(p, "integrity")
  /\ UNCHANGED <<runs, edits>>
  /\ CASE run[p].todo = {} \/ ~ManifestExists -> Ends(p, run[p].code)
       [] run[p].todo # {} /\ torn -> Ends(p, run[p].code + 1)
       [] OTHER -> IF manifest.version # run[p].cmd.v
                     THEN Ends(p, run[p].code)
                     ELSE Goto(p, "verifying") /\ UNCHANGED shared

\* Mutated: a file that is gone is no finding.
Bug_IntegrityFileSkipsMissing(p) ==
  /\ At(p, "verifying")
  /\ \E f \in run[p].todo :
       run' = [run EXCEPT ![p].todo = @ \ {f},
                 ![p].drift = IF disk[f] \in {Missing, Bundled(p)[f]} THEN @ ELSE @ \cup {f}]
  /\ Local

IntegrityFile(p) ==
  /\ At(p, "verifying")
  /\ \E f \in run[p].todo :
     \E found \in {disk[f]} \cup {b \in {Missing} : "read" \in Faults} :
       run' = [run EXCEPT ![p].todo = @ \ {f},
                 ![p].drift = IF found = Bundled(p)[f] THEN @ ELSE @ \cup {f}]
  /\ Local

DoctorExit(p) ==
  /\ At(p, "verifying")
  /\ run[p].todo = {}
  /\ Ends(p, run[p].code + (IF run[p].drift = {} THEN 0 ELSE 1))
  /\ UNCHANGED <<runs, edits>>

VersionShow(p) ==
  /\ At(p, "version")
  /\ Ends(p, IF torn THEN 10 ELSE 0)
  /\ UNCHANGED <<runs, edits>>

-------------------------------------------------------------------------------
(* The lock *)

\* Mutated: a lock that is held does not stop it.
Bug_AcquireLockHeld(p) ==
  /\ At(p, "locking")
  /\ lock' = p
  /\ made' = TRUE
  /\ run' = [run EXCEPT
       ![p].pc = IF Is(p, "migrate") THEN "running" ELSE "copying",
       ![p].todo = CASE Is(p, "migrate") -> @
                     [] Is(p, "init") -> Paths(p)
                     [] OTHER -> run[p].stale]
  /\ UNCHANGED <<manifest, torn, disk, docs, schema, ran, runs, edits>>

AcquireLock(p) ==
  /\ At(p, "locking")
  /\ lock = NoProc
  /\ lock' = p
  /\ made' = TRUE
  /\ run' = [run EXCEPT
       ![p].pc = CASE Is(p, "migrate") -> "running"
                   [] Is(p, "init") /\ run[p].cmd.erase -> "listing"
                   [] OTHER -> "copying",
       ![p].todo = CASE Is(p, "migrate") -> @
                     [] Is(p, "init") -> Paths(p)
                     [] OTHER -> run[p].stale \cup
                          (IF run[p].cmd.strategy = "theirs" THEN run[p].drift ELSE {})]
  /\ UNCHANGED <<manifest, torn, disk, docs, schema, ran, runs, edits>>

LockHeld(p) ==
  /\ At(p, "locking")
  /\ lock # NoProc
  /\ Ends(p, 5)
  /\ UNCHANGED <<runs, edits>>

\* The command's finally.  A lock that names another process is left alone.
Release(p) ==
  /\ At(p, "releasing")
  /\ lock' = IF lock = p THEN NoProc ELSE lock
  /\ run' = [run EXCEPT ![p] = Idle(run[p].code)]
  /\ UNCHANGED <<made, manifest, torn, disk, docs, schema, ran, runs, edits>>

-------------------------------------------------------------------------------
(* init --erase *)

\* listEraseTargets: `.specforge/**` is team data, so the lock is a target too.
ListTargets(p) ==
  /\ At(p, "listing")
  /\ run' = [run EXCEPT ![p].pc = "erasing",
       ![p].todo = {f \in Files : disk[f] # Missing}
                   \cup {t \in {"docs"} : docs # "none"}
                   \cup {t \in {"manifest"} : ManifestExists}
                   \cup {t \in {"lock"} : lock # NoProc}]
  /\ Local

EraseTarget(p) ==
  /\ At(p, "erasing")
  /\ \E t \in run[p].todo :
       /\ run' = Detached([run EXCEPT ![p].todo = @ \ {t}], t)
       /\ disk' = [f \in Files |-> IF f = t THEN Missing ELSE disk[f]]
       /\ docs' = IF t = "docs" THEN "none" ELSE docs
       /\ manifest' = IF t = "manifest" THEN NoManifest ELSE manifest
       /\ torn' = (torn /\ t # "manifest")
       /\ lock' = IF t = "lock" THEN NoProc ELSE lock
  /\ UNCHANGED <<made, schema, ran, runs, edits>>

\* safeUnlink refuses or fails: printed, counted, and the erase goes on.
EraseRefused(p) ==
  /\ "unlink" \in Faults
  /\ At(p, "erasing")
  /\ \E t \in run[p].todo : run' = [run EXCEPT ![p].todo = @ \ {t}]
  /\ Local

EraseDone(p) ==
  /\ At(p, "erasing")
  /\ run[p].todo = {}
  /\ run' = [run EXCEPT ![p].pc = "copying", ![p].todo = Paths(p)]
  /\ Local

-------------------------------------------------------------------------------
(* init and update: copying files with safeWriteFile *)

\* An existing file is unlinked first, whatever it holds by now.
CopyUnlink(p) ==
  /\ At(p, "copying")
  /\ \E f \in run[p].todo :
       /\ disk' = [disk EXCEPT ![f] = Missing]
       /\ run' = [Detached(run, f) EXCEPT ![p].pc = "creating", ![p].cur = f]
  /\ UNCHANGED <<lock, made, manifest, torn, docs, schema, ran, runs, edits>>

\* open(abs, "wx"): a file raced into existence is an I/O error.
CopyCreate(p) ==
  /\ At(p, "creating")
  /\ IF disk[run[p].cur] = Missing
       THEN /\ disk' = [disk EXCEPT ![run[p].cur] = Partial]
            /\ run' = [run EXCEPT ![p].pc = "filling", ![p].open = TRUE]
       ELSE /\ run' = [run EXCEPT ![p].pc = "releasing", ![p].code = 10]
            /\ UNCHANGED disk
  /\ UNCHANGED <<lock, made, manifest, torn, docs, schema, ran, runs, edits>>

CopyFill(p) ==
  /\ At(p, "filling")
  /\ disk' = IF run[p].open THEN [disk EXCEPT ![run[p].cur] = Bundled(p)[run[p].cur]]
             ELSE disk
  /\ run' = [run EXCEPT ![p].pc = IF Is(p, "init") THEN "hashing" ELSE "copying",
                        ![p].todo = @ \ {run[p].cur},
                        ![p].open = FALSE]
  /\ UNCHANGED <<lock, made, manifest, torn, docs, schema, ran, runs, edits>>

\* init records the hash of what the path holds now; a path that is gone throws.
HashCopied(p) ==
  /\ At(p, "hashing")
  /\ LET f == run[p].cur
     IN  run' = IF disk[f] = Missing
                  THEN [run EXCEPT ![p].pc = "releasing", ![p].code = 10]
                  ELSE [run EXCEPT ![p].pc = "copying", ![p].entries[f] = disk[f]]
  /\ Local

CopyDone(p) ==
  /\ At(p, "copying")
  /\ run[p].todo = {}
  /\ Goto(p, IF Is(p, "init") THEN "placeholders" ELSE "rebuilding")
  /\ Local

\* Mutated: the placeholders overwrite what is there.
Bug_CheckDocsAlways(p) ==
  /\ At(p, "placeholders")
  /\ Goto(p, "placing")
  /\ Local

\* Team data is placed only where there is none.
CheckDocs(p) ==
  /\ At(p, "placeholders")
  /\ Goto(p, IF docs = "none" THEN "placing" ELSE "manifest")
  /\ Local

\* New team data has the format of the version that places it.
PlaceDocs(p) ==
  /\ At(p, "placing")
  /\ docs' = "placeholder"
  /\ schema' = Has(run[p].cmd.v)
  /\ Goto(p, "manifest")
  /\ UNCHANGED <<lock, made, manifest, torn, disk, ran, runs, edits>>

\* update records the hash of whatever each bundled path holds now, and nothing
\* for one that is gone or cannot be read.
Rebuild(p) ==
  /\ At(p, "rebuilding")
  /\ \E unread \in IF "read" \in Faults THEN SUBSET Paths(p) ELSE {{}} :
       run' = [run EXCEPT ![p].pc = "manifest",
         ![p].entries = [f \in Files |-> IF f \in Paths(p) \ unread THEN disk[f]
                                         ELSE Missing]]
  /\ Local

-------------------------------------------------------------------------------
(* migrate: the steps, in order *)

\* Mutated: upward steps from the newest to the oldest.
Bug_NextStepBackwards(p) ==
  CHOOSE m \in run[p].todo : \A n \in run[p].todo : n <= m

NextStep(p) ==
  CHOOSE m \in run[p].todo :
    \A n \in run[p].todo : IF Direction(p) = "up" THEN m <= n ELSE n <= m

Effect(m, direction) == IF direction = "up" THEN schema \cup {m} ELSE schema \ {m}

\* Already in the migrations_applied this run has read: skipped.
SkipStep(p) ==
  /\ At(p, "running")
  /\ run[p].todo # {}
  /\ <<NextStep(p), Direction(p)>> \in run[p].seen.applied
  /\ run' = [run EXCEPT ![p].todo = @ \ {NextStep(p)}]
  /\ Local

ApplyStep(p) ==
  /\ At(p, "running")
  /\ run[p].todo # {}
  /\ LET m == NextStep(p)
         step == <<m, Direction(p)>>
     IN  /\ step \notin run[p].seen.applied
         /\ schema' = Effect(m, Direction(p))
         /\ ran' = ran \cup {step}
         /\ run' = [run EXCEPT ![p].todo = @ \ {m}, ![p].seen.applied = @ \cup {step}]
  /\ UNCHANGED <<lock, made, manifest, torn, disk, docs, runs, edits>>

\* Mutated: what was applied before the failure is not persisted.
Bug_StepFailsForgets(p) ==
  /\ "step" \in Faults
  /\ At(p, "running")
  /\ run[p].todo # {}
  /\ <<NextStep(p), Direction(p)>> \notin run[p].seen.applied
  /\ schema' \in {schema, Effect(NextStep(p), Direction(p))}
  /\ run' = [run EXCEPT ![p].pc = "releasing", ![p].code = 4]
  /\ UNCHANGED <<lock, made, manifest, torn, disk, docs, ran, runs, edits>>

\* Mutated: a failed step does not stop the migration.
Bug_StepFailsGoesOn(p) ==
  /\ "step" \in Faults
  /\ At(p, "running")
  /\ run[p].todo # {}
  /\ <<NextStep(p), Direction(p)>> \notin run[p].seen.applied
  /\ schema' \in {schema, Effect(NextStep(p), Direction(p))}
  /\ run' = [run EXCEPT ![p].todo = @ \ {NextStep(p)}]
  /\ UNCHANGED <<lock, made, manifest, torn, disk, docs, ran, runs, edits>>

\* A step throws, before or after its effect shows: what was applied so far is
\* persisted, the version is not moved, exit 4.
StepFails(p) ==
  /\ "step" \in Faults
  /\ At(p, "running")
  /\ run[p].todo # {}
  /\ <<NextStep(p), Direction(p)>> \notin run[p].seen.applied
  /\ schema' \in {schema, Effect(NextStep(p), Direction(p))}
  /\ run' = [run EXCEPT ![p].pc = "manifest", ![p].code = 4]
  /\ UNCHANGED <<lock, made, manifest, torn, disk, docs, ran, runs, edits>>

StepsDone(p) ==
  /\ At(p, "running")
  /\ run[p].todo = {}
  /\ run' = [run EXCEPT ![p].pc = "manifest", ![p].seen.version = run[p].cmd.to]
  /\ Local

-------------------------------------------------------------------------------
(* The manifest: buildManifest and writeManifest *)

\* Mutated: update keeps the version it has read.
Bug_NewManifestKeepsVersion(p) ==
  CASE Is(p, "migrate") -> run[p].seen
    [] Is(p, "update") -> [run[p].seen EXCEPT !.files = run[p].entries]
    [] OTHER -> [version |-> run[p].cmd.v, files |-> run[p].entries, applied |-> {}]

\* init has no prior manifest to carry migrations over from; update carries
\* those it read before the lock; migrate writes back the one it read.
NewManifest(p) ==
  IF Is(p, "migrate")
    THEN run[p].seen
    ELSE [version |-> run[p].cmd.v,
          files |-> run[p].entries,
          applied |-> IF Is(p, "update") THEN run[p].seen.applied ELSE {}]

\* fs.writeFile truncates, then writes.
TruncateManifest(p) ==
  /\ At(p, "manifest")
  /\ torn' = TRUE
  /\ run' = [run EXCEPT ![p].pc = "writing", ![p].cur = "manifest", ![p].open = TRUE]
  /\ UNCHANGED <<lock, made, manifest, disk, docs, schema, ran, runs, edits>>

\* Over a manifest another process has filled meanwhile, a shorter text leaves
\* the tail of the longer one.
WriteManifest(p) ==
  /\ At(p, "writing")
  /\ IF run[p].open
       THEN manifest' = NewManifest(p) /\ torn' \in {FALSE, ~torn}
       ELSE UNCHANGED <<manifest, torn>>
  /\ ran' = IF Is(p, "init") THEN {} ELSE ran
  /\ run' = [run EXCEPT ![p].pc = "releasing", ![p].open = FALSE]
  /\ UNCHANGED <<lock, made, disk, docs, schema, runs, edits>>

\* Mutated: a failed write is reported as success.
Bug_WriteFailsExitsZero(p) ==
  /\ "write" \in Faults
  /\ run[p].pc \in {"copying", "creating", "filling", "hashing", "placing",
                    "manifest", "writing"}
  /\ run' = [run EXCEPT ![p].pc = "releasing", ![p].open = FALSE]
  /\ Local

\* Any write may fail: init and update exit 10, and so does an error migrate
\* does not catch.
WriteFails(p) ==
  /\ "write" \in Faults
  /\ run[p].pc \in {"copying", "creating", "filling", "hashing", "placing",
                    "manifest", "writing"}
  /\ run' = [run EXCEPT ![p].pc = "releasing", ![p].code = 10, ![p].open = FALSE]
  /\ ran' = OnRecord(p)
  /\ UNCHANGED <<lock, made, manifest, torn, disk, docs, schema, runs, edits>>

-------------------------------------------------------------------------------
(* Outside the program *)

UserMayAct == EditsDuringRuns \/ \A p \in Procs : At(p, "idle")

\* The user deletes or replaces a framework file.
EditFile ==
  /\ UserMayAct
  /\ edits < MaxEdits
  /\ edits' = edits + 1
  /\ \E f \in Files, b \in UserBytes \cup {Missing} :
       disk[f] # b /\ disk' = [disk EXCEPT ![f] = b] /\ run' = Detached(run, f)
  /\ UNCHANGED <<lock, made, manifest, torn, docs, schema, ran, runs>>

\* The team writes its own documents; new ones in the format of the installed
\* version.
AuthorDocs ==
  /\ UserMayAct
  /\ edits < MaxEdits
  /\ docs # "authored"
  /\ edits' = edits + 1
  /\ docs' = "authored"
  /\ schema' = IF docs # "none" THEN schema
               ELSE IF manifest = NoManifest THEN {} ELSE Has(manifest.version)
  /\ UNCHANGED <<lock, made, manifest, torn, disk, ran, run, runs>>

\* A killed process runs no finally: its lock stays.
Kill(p) ==
  /\ Kills
  /\ ~At(p, "idle")
  /\ run' = [run EXCEPT ![p] = Idle(137)]
  /\ ran' = OnRecord(p)
  /\ UNCHANGED <<lock, made, manifest, torn, disk, docs, schema, runs, edits>>

\* The operator removes a lock once no process is running.
RemoveStaleLock ==
  /\ lock # NoProc
  /\ \A p \in Procs : At(p, "idle")
  /\ lock' = NoProc
  /\ UNCHANGED <<made, manifest, torn, disk, docs, schema, ran, run, runs, edits>>

-------------------------------------------------------------------------------
InitSteps(p) ==
  \/ InitProbe(p) \/ EraseGate(p) \/ InitPreview(p)
  \/ ListTargets(p) \/ EraseTarget(p) \/ EraseRefused(p) \/ EraseDone(p)
  \/ CheckDocs(p) \/ PlaceDocs(p)
UpdateSteps(p) == UpdateRead(p) \/ CompareFile(p) \/ UpdateDecide(p) \/ Rebuild(p)
CopySteps(p) == CopyUnlink(p) \/ CopyCreate(p) \/ CopyFill(p) \/ HashCopied(p) \/ CopyDone(p)
MigrateSteps(p) ==
  \/ MigrateRead(p) \/ SkipStep(p) \/ ApplyStep(p) \/ StepFails(p) \/ StepsDone(p)
DoctorSteps(p) ==
  \/ DoctorRules(p) \/ PresenceCheck(p) \/ IntegrityRead(p) \/ IntegrityFile(p)
  \/ DoctorExit(p) \/ VersionShow(p)
LockSteps(p) == AcquireLock(p) \/ LockHeld(p) \/ Release(p)
ManifestSteps(p) == TruncateManifest(p) \/ WriteManifest(p) \/ WriteFails(p)

Next ==
  \/ \E p \in Procs :
       \/ \E c \in Commands : Begin(p, c)
       \/ InitSteps(p) \/ UpdateSteps(p) \/ CopySteps(p) \/ MigrateSteps(p)
       \/ DoctorSteps(p) \/ LockSteps(p) \/ ManifestSteps(p) \/ Kill(p)
  \/ EditFile \/ AuthorDocs \/ RemoveStaleLock

Spec == Init /\ [][Next]_vars

-------------------------------------------------------------------------------
(* Properties *)

ManifestType ==
  [version : Versions, files : [Files -> Bytes \cup {Missing, Partial}],
   applied : SUBSET (Migrations \X {"up", "down"})]
ASSUME NoManifestAssumption == NoManifest \notin ManifestType

Steps ==
  {"idle", "init", "gate", "preview", "update", "comparing", "migrate",
   "doctor", "presence", "integrity", "verifying", "version", "locking",
   "listing", "erasing", "copying", "creating", "filling", "hashing", "placeholders",
   "placing", "rebuilding", "running", "manifest", "writing", "releasing"}

RunType(kind) ==
  [pc : Steps,
   cmd : Command \cup {NoCommand},
   seen : ManifestType \cup {NoManifest},
   todo : SUBSET IF kind = "migrate" THEN Migrations
                 ELSE Files \cup {"docs", "manifest", "lock"},
   stale : SUBSET Files, drift : SUBSET Files, cur : Files \cup {"manifest", Missing}, open : BOOLEAN,
   entries : [Files -> Bytes \cup {Missing, Partial}],
   code : {0, 1, 2, 3, 4, 5, 10, 137}]

\* What update and migrate decide on is a manifest they have read.
TypeOK ==
  /\ lock \in Procs \cup {NoProc}
  /\ made \in BOOLEAN
  /\ manifest \in ManifestType \cup {NoManifest}
  /\ torn \in BOOLEAN
  /\ disk \in [Files -> Bytes \cup {Missing, Partial}]
  /\ docs \in {"none", "placeholder", "authored"}
  /\ schema \subseteq Migrations
  /\ run = [p \in Procs |-> run[p]]
  /\ \A p \in Procs :
       /\ run[p] \in RunType(run[p].cmd.kind)
       /\ run[p].cmd.kind \in {"update", "migrate"} /\ ~At(p, run[p].cmd.kind)
            => run[p].seen \in ManifestType
  /\ runs \in 0..MaxRuns
  /\ edits \in 0..MaxEdits
  /\ ran \subseteq Migrations \X {"up", "down"}


Quiet == \A p \in Procs : At(p, "idle")
Moves(p) == run'[p] # run[p] /\ edits' = edits

\* Leave to replace what a user wrote into f: init --force, and update
\* --strategy=theirs on a file it has reported as modified.
Consented(p, f) ==
  \/ Is(p, "init") /\ run[p].cmd.force
  \/ Is(p, "update") /\ f \in run[p].drift /\ run[p].cmd.strategy = "theirs"

\* A version up to v does not bundle f and an earlier one did.
Dropped(f, v) ==
  \E old, new \in Versions :
    old < new /\ new <= v /\ f \in DOMAIN Bundle[old] /\ f \notin DOMAIN Bundle[new]

\* What a user wrote into a framework file is replaced or deleted only by a
\* command that was given leave to.  Nothing is said of an unforced init on a path it
\* does not look for (init.ts:38): it replaces what is there without leave.
UserEditsSafe ==
  [][\A f \in Files, p \in Procs :
       /\ disk[f] \in UserBytes /\ disk'[f] # disk[f] /\ Moves(p)
       /\ Is(p, "init") /\ ~run[p].cmd.force => f \in Probed
       => Consented(p, f)]_vars

\* update without --strategy never replaces what a user wrote.
PlainUpdateKeepsEdits ==
  [][\A f \in Files, p \in Procs :
       /\ disk[f] \in UserBytes /\ disk'[f] # disk[f] /\ Moves(p)
       /\ Is(p, "update")
       => run[p].cmd.strategy = "theirs"]_vars

\* A file reported as locally modified has been modified by the user, or for doctor
\* removed: a framework file as some command left it is one update and doctor take
\* for their own.  But for a path some version dropped: update forgets that what is
\* left there was installed.
NoFalseDrift ==
  [][\A p \in Procs : \A f \in run'[p].drift \ run[p].drift :
       \/ disk[f] \in UserBytes
       \/ Is(p, "doctor") /\ disk[f] = Missing /\ edits > 0
       \/ Dropped(f, run[p].cmd.v)]_vars

\* The CLI could not read its own bundle.
Unbundled(p) == At(p, "integrity") /\ run[p].todo = {}

\* A doctor that finds nothing (exit 0) agrees with update: the manifest is whole,
\* but in the framework's own repository; and on an install of the CLI's own version
\* update would find every file as installed and up to date, unless the CLI had no
\* bundle to compare with.
CleanDoctorIsUpToDate ==
  [][\A p \in Procs :
       LET own == manifest # NoManifest /\ ~torn /\ manifest.version = run[p].cmd.v
       IN  Is(p, "doctor") /\ run'[p] = Idle(0) =>
             /\ run[p].cmd.rule = "all" /\ ~SourceRepo => manifest # NoManifest /\ ~torn
             /\ own /\ ~Unbundled(p) => \A f \in Paths(p) :
                  FileState(disk[f], manifest.files[f], Bundled(p)[f])
                    = "unchanged-by-user-equal"]_vars

\* Between commands the manifest tells the truth about the disk: it records for
\* each path bytes of its own version (or bytes --strategy=ours has kept: a user's,
\* or those of a dropped path), and the path holds what is recorded, or what a user
\* has made of it since.
ManifestHonest ==
  Quiet /\ ~torn /\ manifest # NoManifest =>
    \A f \in Files :
      LET recorded == manifest.files[f]
      IN  recorded # Missing =>
            /\ \/ recorded \in UserBytes \/ Dropped(f, manifest.version)
               \/ recorded = Bundle[manifest.version][f]
            /\ disk[f] \in {recorded, Missing} \cup UserBytes

\* A half-written file or manifest is seen only while its writer has the lock.
TornOnlyUnderLock == torn \/ (\E f \in Files : disk[f] = Partial) => lock # NoProc

\* What the team wrote is removed by init --erase alone.
TeamDocsSafe ==
  [][docs = "authored" /\ docs' # docs =>
       \E p \in Procs : At(p, "erasing") /\ run[p].cmd.erase]_vars

\* A command that exits 0 after the lock has done its work in full: the manifest
\* is whole and of its version, and every bundled path holds the bundle's bytes
\* or a user's, as recorded.
ExitZeroIsComplete ==
  [][\A p \in Procs :
       At(p, "releasing") /\ At(p, "idle")' /\ run[p].code = 0 /\ run'[p].code = 0 =>
         /\ ~torn
         /\ manifest # NoManifest
         /\ manifest.version = IF Is(p, "migrate") THEN run[p].cmd.to ELSE run[p].cmd.v
         /\ ~Is(p, "migrate") =>
              \A f \in Paths(p) : /\ disk[f] \in UserBytes \cup {Bundled(p)[f]}
                                  /\ manifest.files[f] = disk[f]]_vars

\* The installed version goes back only by migrate --allow-downgrade or by init
\* --force: whatever else an older CLI is asked for over a newer install is refused or
\* leaves the version.  (PRD-003:211 and its test row 24 say it of every mutating
\* command; init --force reads no manifest and is not refused.)
NewerInstallRefused ==
  [][manifest # NoManifest /\ manifest' # NoManifest =>
       \/ manifest'.version >= manifest.version
       \/ \E p \in Procs :
            /\ At(p, "writing")
            /\ \/ Is(p, "migrate") /\ run[p].cmd.allow
               \/ Is(p, "init") /\ run[p].cmd.force]_vars

\* Between commands, every migration that was carried out is on record.
MigrationsRecorded ==
  Quiet /\ ~torn /\ manifest # NoManifest => ran \subseteq manifest.applied

\* None has been taken back, and the team data is the one they were carried out on.
Straight == \A step \in ran : step[2] = "up" /\ step[1] \in schema

\* Migrations run in order: a migration is carried out only on team data that has
\* been through all the earlier ones, if it had been through those of the
\* installed version and those on record, and none has been taken back.
MigrationsInOrder ==
  [][\A p \in Procs :
       At(p, "running") /\ Has(manifest.version) \subseteq schema /\ Straight =>
         \A m \in schema' \ schema : Has(m) \subseteq schema']_vars

PastUnmigrated(p) ==
  /\ At(p, "writing") /\ Is(p, "migrate") /\ manifest' # manifest
  /\ Has(manifest.version) \subseteq schema
  /\ ~(Has(manifest'.version) \subseteq schema)

\* migrate moves the installed version past a migration only when the team data
\* has been through it, as long as none has been taken back.
NoMigrationSkipped ==
  [][\A p \in Procs : Straight => ~PastUnmigrated(p)]_vars

\* "each migration script runs in order, mutating team data": also the one that
\* has been taken back before.
MigratedIsUpToDate == [][\A p \in Procs : ~PastUnmigrated(p)]_vars

\* The effect of a security-sensitive migration is taken back only by a migrate
\* that was given both opt-ins, or by starting over with new team data.
SensitiveNeedsAck ==
  [][\A p \in Procs :
       schema \cap Sensitive # schema' \cap Sensitive /\ Moves(p) /\ ~(schema \subseteq schema')
       => \/ At(p, "running") /\ run[p].cmd.allow /\ run[p].cmd.ack
          \/ At(p, "placing")]_vars

===============================================================================
