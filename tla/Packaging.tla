------------------------------- MODULE Packaging -------------------------------
(***************************************************************************)
(* From a checkout to what `npx @angelkurten/specforge` installs:           *)
(* src/tools/cli/scripts/prepublish.ts, a step per await that another run   *)
(* can be killed or fail between; the release job that runs it, resolves    *)
(* the dist-tag and publishes (.github/workflows/cli-release.yml); and the  *)
(* bundle as the published CLI reads it (framework-bundle.ts).              *)
(*                                                                          *)
(* A checkout is what its paths hold; VERSION holds a number in semver      *)
(* order, package.json and the shrinkwrap their copies of it.               *)
(***************************************************************************)
EXTENDS Partition, FiniteSets

CONSTANTS
  Paths,            \* the paths a checkout may have
  Contents, Absent, \* what a file may hold, versions among it; no file
  Checkouts,        \* records [files, links, bare], see Checkout
  frameworkFiles,   \* the entries of FRAMEWORK_FILES that name some of Paths
  MaxRuns,          \* bound on runs of prepublish
  Faults,           \* what may fail: "io" any step, "readdir" a walk, "view" the
                    \* lookup of `latest`
  Kills             \* whether a run may be killed

VERSION == <<"VERSION">>
OPTIONAL == {File(<<"README.es.md">>)}
lists == frameworkFiles \cup BUNDLE_ONLY_FILES

\* links are symbolic links to what files say; bare are directories with nothing.
Checkout == [files : [Paths -> Contents \cup {Absent}], links : SUBSET Paths,
             bare : SUBSET {e.at : e \in frameworkFiles}]

ASSUME ListsAssumption ==
  /\ frameworkFiles \subseteq FRAMEWORK_FILES
  /\ Paths \subseteq Seq(STRING) /\ VERSION \in Paths
  /\ \A p \in Paths : matchesAny(p, FRAMEWORK_FILES) => matchesAny(p, frameworkFiles)
  /\ \A e \in frameworkFiles : e.kind = "file" => e.at \in Paths
ASSUME CheckoutsAssumption == Checkouts \subseteq Checkout
ASSUME ContentsAssumption == Contents \subseteq Nat /\ Absent \notin Contents

VARIABLES
  checkout,    \* the tree prepublish reads from
  package,     \* the version in package.json
  shrinkwrap,  \* the one in npm-shrinkwrap.json, if there is one
  bundle,      \* tools/cli/framework/
  run,         \* the run of prepublish
  job,         \* the release job it belongs to, the tag it has resolved and from what
  published,   \* the tarballs on the registry
  latest,      \* the version its dist-tag `latest` names
  runs

vars == <<checkout, package, shrinkwrap, bundle, run, job, published, latest, runs>>

Empty == [p \in Paths |-> Absent]
Exited(code) == [pc |-> "exited", version |-> 0, expected |-> {}, todo |-> {}, code |-> code]
NoJob == [at |-> "none", tag |-> "none", saw |-> 0]

Init ==
  /\ checkout \in Checkouts
  /\ package = 0
  /\ shrinkwrap \in {0, Absent}
  /\ bundle = Empty
  /\ run = Exited(1)
  /\ job = NoJob
  /\ published = {}
  /\ latest = 0
  /\ runs = 0

At(pc) == run.pc = pc
Goto(pc) == run' = [run EXCEPT !.pc = pc]
ReleaseOnly == UNCHANGED <<checkout, published, latest, runs>>

\* Mutated: the job goes on whatever the run's exit code.
Bug_Exit(code) ==
  /\ run' = Exited(code)
  /\ job' = CASE job.at = "bundling" -> [job EXCEPT !.at = "tagging"]
              [] job.at = "packing" -> [job EXCEPT !.at = "publishing"]
              [] OTHER -> NoJob

\* A step of the job that fails ends it; npm publishes nothing then.
Exit(code) ==
  /\ run' = Exited(code)
  /\ job' = CASE code = 0 /\ job.at = "bundling" -> [job EXCEPT !.at = "tagging"]
              [] code = 0 /\ job.at = "packing" -> [job EXCEPT !.at = "publishing"]
              [] OTHER -> NoJob

-------------------------------------------------------------------------------
(* resolveList *)

\* What readdir finds in a directory, but for links, which are no regular files; a
\* directory that cannot be read has nothing.
walkDir(c, dir, unread) ==
  IF dir \in unread THEN {}
  ELSE {p \in Paths : Below(p, dir) /\ c.files[p] # Absent} \ c.links

exists(c, e) ==
  IF e.kind = "file" THEN c.files[e.at] # Absent
  ELSE e.at \in c.bare \/ \E p \in Paths : Below(p, e.at) /\ c.files[p] # Absent

\* Mutated: links below a directory are resolved as well.
Bug_resolveEntry(c, e, unread) ==
  IF ~exists(c, e) THEN {}
  ELSE IF e.kind = "file" THEN {e.at}
  ELSE {p \in Paths : Below(p, e.at) /\ c.files[p] # Absent}

resolveEntry(c, e, unread) ==
  IF ~exists(c, e) THEN {}
  ELSE IF e.kind = "file" THEN {e.at} ELSE walkDir(c, e.at, unread)

missing(c, entries) == {e \in entries : ~exists(c, e)}

-------------------------------------------------------------------------------
(* runPrepublish *)

Begin(at) ==
  /\ At("exited")
  /\ runs < MaxRuns
  /\ runs' = runs + 1
  /\ run' = [Exited(1) EXCEPT !.pc = "version"]
  /\ job' = [job EXCEPT !.at = at]

\* By hand, in a working copy that keeps what an earlier run has left.
RunByHand ==
  /\ job = NoJob
  /\ Begin("none")
  /\ checkout' \in Checkouts
  /\ UNCHANGED <<package, shrinkwrap, bundle, published, latest>>

\* Mutated: no VERSION is no obstacle.
Bug_ReadVersion ==
  /\ At("version")
  /\ run' = [run EXCEPT !.pc = "package", !.version = checkout.files[VERSION]]
  /\ UNCHANGED <<package, shrinkwrap, bundle, job>> /\ ReleaseOnly

ReadVersion ==
  /\ At("version")
  /\ IF checkout.files[VERSION] = Absent
       THEN Exit(1)
       ELSE /\ run' = [run EXCEPT !.pc = "package", !.version = checkout.files[VERSION]]
            /\ UNCHANGED job
  /\ UNCHANGED <<package, shrinkwrap, bundle>> /\ ReleaseOnly

BumpPackage ==
  /\ At("package")
  /\ package' = run.version
  /\ Goto("shrinkwrap")
  /\ UNCHANGED <<shrinkwrap, bundle, job>> /\ ReleaseOnly

BumpShrinkwrap ==
  /\ At("shrinkwrap")
  /\ shrinkwrap' = IF shrinkwrap = Absent THEN Absent ELSE run.version
  /\ Goto("clearing")
  /\ UNCHANGED <<package, bundle, job>> /\ ReleaseOnly

ClearBundle ==
  /\ At("clearing")
  /\ bundle' = Empty
  /\ Goto("resolving")
  /\ UNCHANGED <<package, shrinkwrap, job>> /\ ReleaseOnly

\* Only the optional framework files may be missing, and something must be there.
Resolve ==
  /\ At("resolving")
  /\ \E unread \in IF "readdir" \in Faults THEN SUBSET {e.at : e \in frameworkFiles} ELSE {{}} :
       LET expected == UNION {resolveEntry(checkout, e, unread) : e \in lists}
       IN  IF missing(checkout, lists) \subseteq OPTIONAL /\ expected # {}
             THEN /\ run' = [run EXCEPT !.pc = "copying", !.expected = expected,
                                        !.todo = expected]
                  /\ UNCHANGED job
             ELSE Exit(1)
  /\ UNCHANGED <<package, shrinkwrap, bundle>> /\ ReleaseOnly

\* readFile follows a link, and the copy is a regular file.
CopyFile ==
  /\ At("copying")
  /\ \E p \in run.todo :
       /\ bundle' = [bundle EXCEPT ![p] = checkout.files[p]]
       /\ run' = [run EXCEPT !.todo = @ \ {p}]
  /\ UNCHANGED <<package, shrinkwrap, job>> /\ ReleaseOnly

CompareBundle ==
  /\ At("copying")
  /\ run.todo = {}
  /\ Exit(IF {p \in Paths : bundle[p] # Absent} = run.expected THEN 0 ELSE 1)
  /\ UNCHANGED <<package, shrinkwrap, bundle>> /\ ReleaseOnly

\* A read, a write, a parse or the rm throws: exit 1.
Throws ==
  /\ "io" \in Faults
  /\ ~At("exited")
  /\ Exit(1)
  /\ UNCHANGED <<package, shrinkwrap, bundle>> /\ ReleaseOnly

Kill ==
  /\ Kills
  /\ ~At("exited")
  /\ Exit(137)
  /\ UNCHANGED <<package, shrinkwrap, bundle>> /\ ReleaseOnly

-------------------------------------------------------------------------------
(* The release job, on a clone of its own *)

\* A tag is pushed, in whatever order: package.json is as it was last committed.
StartRelease ==
  /\ job = NoJob
  /\ Begin("bundling")
  /\ checkout' \in Checkouts
  /\ package' \in Contents
  /\ shrinkwrap' \in {package', Absent}
  /\ bundle' = Empty
  /\ UNCHANGED <<published, latest>>

\* Mutated: npm's default, whatever the order of versions.
Bug_ResolveTag ==
  /\ job.at = "tagging"
  /\ At("exited")
  /\ runs < MaxRuns
  /\ runs' = runs + 1
  /\ run' = [Exited(1) EXCEPT !.pc = "version"]
  /\ job' = [at |-> "packing", tag |-> "latest", saw |-> latest]
  /\ UNCHANGED <<checkout, package, shrinkwrap, bundle, published, latest>>

\* The tests, or the step that is at work, fail.
JobFails ==
  /\ "io" \in Faults
  /\ job.at \in {"tagging", "publishing"}
  /\ job' = NoJob
  /\ UNCHANGED <<checkout, package, shrinkwrap, bundle, run, published, latest, runs>>

\* `latest` for the highest version alone; a lookup that fails counts as 0.0.0, as
\* does that of a package never published.  Then npm publish, whose prepack runs
\* prepublish again.
ResolveTag ==
  /\ job.at = "tagging"
  /\ At("exited")
  /\ runs < MaxRuns
  /\ runs' = runs + 1
  /\ run' = [Exited(1) EXCEPT !.pc = "version"]
  /\ \E current \in {latest} \cup {v \in {0} : "view" \in Faults} :
       job' = [at |-> "packing", tag |-> IF package > current THEN "latest" ELSE "previous",
               saw |-> current]
  /\ UNCHANGED <<checkout, package, shrinkwrap, bundle, published, latest>>

\* The registry takes a version once.
Publish ==
  /\ job.at = "publishing"
  /\ job' = NoJob
  /\ IF \E t \in published : t.version = package
       THEN UNCHANGED <<published, latest>>
       ELSE /\ published' = published \cup
                 {[version |-> package, files |-> bundle, from |-> checkout]}
            /\ latest' = IF job.tag = "latest" THEN package ELSE latest
  /\ UNCHANGED <<checkout, package, shrinkwrap, bundle, run, runs>>

-------------------------------------------------------------------------------
Next ==
  \/ RunByHand \/ ReadVersion \/ BumpPackage \/ BumpShrinkwrap \/ ClearBundle
  \/ Resolve \/ CopyFile \/ CompareBundle \/ Throws \/ Kill
  \/ StartRelease \/ JobFails \/ ResolveTag \/ Publish

Spec == Init /\ [][Next]_vars

-------------------------------------------------------------------------------
(* The published CLI *)

\* hashBundle's files: those of the bundle that classify as framework.
listBundledFrameworkFiles(files) ==
  {p \in Paths : files[p] # Absent /\ classify(p) = "framework"}

bundleVersion(files) == files[VERSION]

-------------------------------------------------------------------------------
(* Properties *)

Files == [Paths -> Contents \cup {Absent}]
RunType ==
  [pc : {"version", "package", "shrinkwrap", "clearing", "resolving", "copying", "exited"},
   version : Contents \cup {0}, expected : SUBSET Paths, todo : SUBSET Paths,
   code : {0, 1, 137}]
JobType == [at : {"none", "bundling", "tagging", "packing", "publishing"},
            tag : {"none", "latest", "previous"}, saw : Contents \cup {0}]

TypeOK ==
  /\ checkout \in Checkouts
  /\ package \in Contents \cup {0}
  /\ shrinkwrap \in Contents \cup {0, Absent}
  /\ bundle \in Files
  /\ run \in RunType
  /\ job \in JobType
  /\ published \subseteq [version : Contents \cup {0}, files : Files, from : Checkouts]
  /\ latest \in Contents \cup {0}
  /\ runs \in Nat

\* Whether p is in c and an entry names it, but for links below a directory.
Ships(c, p, entries) ==
  /\ c.files[p] # Absent
  /\ \E e \in entries : matches(p, e) /\ (e.kind = "file" \/ p \notin c.links)

Shipped(c) ==
  [p \in Paths |-> IF Ships(c, p, lists) THEN c.files[p]
                   ELSE Absent]

\* "Exit non-zero if any required file is missing": a run of prepublish that exits 0
\* leaves a bundle of exactly the listed files as they are in the checkout, whatever
\* an earlier run that was killed or failed has left; of the listed files only the
\* optional one is missing; and the three versions are those of VERSION.
ExitZeroIsExact ==
  [][At("copying") /\ run' = Exited(0) =>
       /\ bundle = Shipped(checkout)
       /\ \A e \in lists \ OPTIONAL : exists(checkout, e)
       /\ package = checkout.files[VERSION]
       /\ shrinkwrap \in {package, Absent}]_vars

\* What the CLI of a published version installs is, path by path and byte by byte,
\* the framework files of the checkout it was published from, whatever jobs and runs
\* have failed before: no team data, and no file left out but one with ".." in its
\* name, which the bundle carries and classify ignores.  The version it calls its
\* own is the one it was published under.
InstallsTheFramework ==
  \A t \in published :
    /\ bundleVersion(t.files) = t.version
    /\ listBundledFrameworkFiles(t.files)
         = {p \in Paths : /\ Ships(t.from, p, frameworkFiles)
                          /\ \A i \in DOMAIN p : p[i] \notin Dotted}
    /\ \A p \in listBundledFrameworkFiles(t.files) : t.files[p] = t.from.files[p]

\* "publishing a tag that is not the highest version silently demotes `latest`": with
\* one release job at a time only one whose lookup of `latest` failed (or found no
\* version yet) does, however jobs fail half-way and are run again.
LatestOnlyRises == [][latest' >= latest \/ job.saw = 0]_latest
=================================================================================
