---------------------------- MODULE PackagingProofs ----------------------------
(***************************************************************************)
(* Proofs about Partition and Packaging: team data is never framework, and  *)
(* what a release installs is the framework of its checkout, for any lists, *)
(* checkouts and number of runs.                                            *)
(***************************************************************************)
EXTENDS Packaging, TLAPS

-------------------------------------------------------------------------------
(* Partition *)

\* A path that an entry for a directory matches is longer and begins with its names.
LEMMA TreeHead ==
  ASSUME NEW p \in Seq(STRING), NEW e, e.kind # "file", matches(p, e),
         Len(e.at) \in Nat, Len(e.at) >= 1
  PROVE  Len(p) >= 2 /\ p[1] = e.at[1] /\ (Len(e.at) >= 2 => p[2] = e.at[2])
<1>1. Len(p) \in Nat
  OBVIOUS
<1>2. Below(p, e.at)
  BY DEF matches
<1> QED
  BY <1>1, <1>2 DEF Below

\* Where a path that an entry of FRAMEWORK_FILES matches can be.
LEMMA FrameworkPlaces ==
  ASSUME NEW p \in Seq(STRING), matchesAny(p, FRAMEWORK_FILES)
  PROVE  \/ Len(p) = 1 /\ p[1] \in {"CLAUDE.md", "CONVENTIONS.md", "README.md", "README.es.md",
                                    "LICENSE"}
         \/ Len(p) >= 2 /\ p[1] \in {"templates", "examples", ".claude", "scripts"}
         \/ Len(p) >= 2 /\ p[1] = "specforge" /\ p[2] \in {"core", "scripts"}
<1>1. PICK e \in FRAMEWORK_FILES : matches(p, e)
  BY DEF matchesAny
<1> USE DEF File, Tree
<1>2. CASE e \in {File(<<name>>) : name \in {"CLAUDE.md", "CONVENTIONS.md", "README.md",
                                             "README.es.md", "LICENSE"}}
  BY <1>1, <1>2 DEF matches
<1>3. CASE e \in {Tree(<<"templates">>), Tree(<<"examples">>)}
  <2>1. e.kind = "tree" /\ Len(e.at) = 1 /\ e.at[1] \in {"templates", "examples"}
    BY <1>3
  <2> QED
    BY <1>1, <2>1, TreeHead
<1>4. CASE e \in {Tree(<<"specforge", "core">>), Tree(<<".claude", "rules">>)}
  <2>1. /\ e.kind = "tree" /\ Len(e.at) = 2
        /\ \/ e.at[1] = "specforge" /\ e.at[2] = "core"
           \/ e.at[1] = ".claude"
    BY <1>4
  <2> QED
    BY <1>1, <2>1, TreeHead
<1>5. CASE e = Tree(<<".claude", "agents", "specforge">>)
  <2>1. e.kind = "tree" /\ Len(e.at) = 3 /\ e.at[1] = ".claude"
    BY <1>5
  <2> QED
    BY <1>1, <2>1, TreeHead
<1>6. CASE e \in {File(<<"scripts", "prd-check.py">>),
                  File(<<".claude", "hooks", "specforge_lock_guard.py">>)}
  BY <1>1, <1>6 DEF matches
<1>7. CASE e \in {File(<<"specforge", "scripts", name>>) :
                    name \in {"lock_tests.py", "loop.py", "review_prep.py", "archive.py",
                              "compose_check.py"}}
  <2>1. PICK name \in {"lock_tests.py", "loop.py", "review_prep.py", "archive.py",
                       "compose_check.py"} : e = File(<<"specforge", "scripts", name>>)
    BY <1>7
  <2>2. p = <<"specforge", "scripts", name>>
    BY <1>1, <2>1 DEF matches
  <2> QED
    BY <2>2
<1>8. CASE e \in {Tree(<<".claude", "skills", name>>) :
                    name \in {"specforge-classify", "specforge-loop", "specforge-review",
                              "specforge-compose"}}
  <2>1. e.kind = "tree" /\ Len(e.at) = 3 /\ e.at[1] = ".claude"
    BY <1>8
  <2> QED
    BY <1>1, <2>1, TreeHead
<1> QED
  BY <1>2, <1>3, <1>4, <1>5, <1>6, <1>7, <1>8 DEF FRAMEWORK_FILES

\* No framework file is team data, nor ignored, nor VERSION.
LEMMA FrameworkIsNothingElse ==
  ASSUME NEW p \in Seq(STRING), matchesAny(p, FRAMEWORK_FILES)
  PROVE  /\ ~ matchesAny(p, TEAM_DATA_PATTERNS)
         /\ ~ matchesAny(p, IGNORED_PATTERNS)
         /\ p # VERSION
<1> DEFINE Place == \/ Len(p) = 1 /\ p[1] \in {"CLAUDE.md", "CONVENTIONS.md", "README.md",
                                               "README.es.md", "LICENSE"}
                    \/ Len(p) >= 2 /\ p[1] \in {"templates", "examples", ".claude", "scripts"}
                    \/ Len(p) >= 2 /\ p[1] = "specforge" /\ p[2] \in {"core", "scripts"}
<1>1. Place
  BY FrameworkPlaces
<1>2. ASSUME NEW e \in TEAM_DATA_PATTERNS, matches(p, e) PROVE FALSE
  <2> USE DEF File, Tree, Children
  <2>1. CASE e \in {File(<<name>>) : name \in {"SIBLINGS.md", "ROADMAP.md", ".specforge-source"}
                                              \cup Numbered}
    <3>1. PICK name \in {"SIBLINGS.md", "ROADMAP.md", ".specforge-source"} \cup Numbered :
            e = File(<<name>>)
      BY <2>1
    <3>2. p = <<name>>
      BY <1>2, <3>1 DEF matches
    <3>3. Len(p) = 1 /\ p[1] = name
      BY <3>2
    <3> QED
      BY <1>1, <3>1, <3>3, NumberedAssumption
  <2>2. CASE e \in {Tree(<<".specforge">>), Children(<<".github", "workflows">>),
                    Tree(<<"specforge", "changes">>), File(<<"specforge", "DECISIONS.md">>)}
    <3>1. CASE e = Tree(<<".specforge">>)
      <4>1. e.kind = "tree" /\ Len(e.at) = 1 /\ e.at[1] = ".specforge"
        BY <3>1
      <4> QED
        BY <1>1, <1>2, <4>1, TreeHead
    <3>2. CASE e = Children(<<".github", "workflows">>)
      <4>1. e.kind = "children" /\ Len(e.at) = 2 /\ e.at[1] = ".github"
        BY <3>2
      <4> QED
        BY <1>1, <1>2, <4>1, TreeHead
    <3>3. CASE e = Tree(<<"specforge", "changes">>)
      <4>1. e.kind = "tree" /\ Len(e.at) = 2 /\ e.at[1] = "specforge" /\ e.at[2] = "changes"
        BY <3>3
      <4> QED
        BY <1>1, <1>2, <4>1, TreeHead
    <3>4. CASE e = File(<<"specforge", "DECISIONS.md">>)
      BY <1>1, <1>2, <3>4 DEF matches
    <3> QED
      BY <2>2, <3>1, <3>2, <3>3, <3>4
  <2> QED
    BY <1>2, <2>1, <2>2 DEF TEAM_DATA_PATTERNS
<1>3. ASSUME NEW e \in IGNORED_PATTERNS, matches(p, e) PROVE FALSE
  <2> USE DEF File, Tree
  <2>1. CASE e \in {Tree(<<name>>) : name \in {".git", "node_modules", "dist", "build"}}
    <3>1. e.kind = "tree" /\ Len(e.at) = 1
          /\ e.at[1] \in {".git", "node_modules", "dist", "build"}
      BY <2>1
    <3> QED
      BY <1>1, <1>3, <3>1, TreeHead
  <2>2. CASE e \in {File(<<name>>) : name \in {".gitignore", ".gitattributes", ".DS_Store",
                                               "Thumbs.db"}}
    BY <1>1, <1>3, <2>2 DEF matches
  <2> QED
    BY <1>3, <2>1, <2>2 DEF IGNORED_PATTERNS
<1>4. p # VERSION
  BY <1>1 DEF VERSION
<1> QED
  BY <1>2, <1>3, <1>4 DEF matchesAny

(***************************************************************************)
(* What TEAM_DATA_PATTERNS names is never framework, in whatever order      *)
(* classify looks at the lists: no list can make init, update or prepublish *)
(* take a team's file for one of its own.                                   *)
(***************************************************************************)
THEOREM TeamDataIsNeverFramework ==
  \A p \in Seq(STRING) : matchesAny(p, TEAM_DATA_PATTERNS) => classify(p) # "framework"
BY FrameworkIsNothingElse DEF classify

-------------------------------------------------------------------------------
(* Packaging *)

\* An entry of the two lists names a file or a tree.
LEMMA EntryKinds ==
  \A e \in lists : /\ e.kind \in {"file", "tree"}
                   /\ e.kind = "file" => e.at \in Paths
<1>1. \A e \in FRAMEWORK_FILES : e.kind \in {"file", "tree"}
  BY DEF FRAMEWORK_FILES, File, Tree
<1>2. \A e \in BUNDLE_ONLY_FILES : e.kind = "file" /\ e.at = VERSION
  BY DEF BUNDLE_ONLY_FILES, File, VERSION
<1> QED
  BY <1>1, <1>2, ListsAssumption DEF lists

\* With every directory readable, what prepublish resolves is what is to be shipped.
LEMMA Resolved ==
  ASSUME NEW c \in Checkout
  PROVE  UNION {resolveEntry(c, e, {}) : e \in lists} = {p \in Paths : Ships(c, p, lists)}
<1>1. ASSUME NEW e \in lists
      PROVE  resolveEntry(c, e, {})
               = {p \in Paths : /\ c.files[p] # Absent /\ matches(p, e)
                                /\ e.kind = "file" \/ p \notin c.links}
  <2>1. CASE e.kind = "file"
    BY <2>1, EntryKinds DEF resolveEntry, exists, matches
  <2>2. CASE e.kind = "tree"
    BY <2>2 DEF resolveEntry, exists, matches, walkDir
  <2> QED
    BY <2>1, <2>2, EntryKinds
<1> QED
  BY <1>1 DEF Ships

\* The files the package resolves are paths.
LEMMA ResolvedPaths ==
  ASSUME NEW c \in Checkout, NEW unread
  PROVE  UNION {resolveEntry(c, e, unread) : e \in lists} \subseteq Paths
BY EntryKinds DEF resolveEntry, walkDir

\* Of the files of a shipped checkout, the framework is what classify lets through.
LEMMA ShippedFramework ==
  ASSUME NEW c \in Checkout, c.files[VERSION] # Absent
  PROVE  /\ bundleVersion(Shipped(c)) = c.files[VERSION]
         /\ listBundledFrameworkFiles(Shipped(c))
              = {p \in Paths : /\ Ships(c, p, frameworkFiles)
                               /\ \A i \in DOMAIN p : p[i] \notin Dotted}
         /\ \A p \in listBundledFrameworkFiles(Shipped(c)) : Shipped(c)[p] = c.files[p]
<1>1. Ships(c, VERSION, lists)
  <2>1. File(VERSION) \in lists /\ File(VERSION).kind = "file" /\ matches(VERSION, File(VERSION))
    BY DEF lists, BUNDLE_ONLY_FILES, VERSION, File, matches
  <2> QED
    BY <2>1 DEF Ships
<1>2. bundleVersion(Shipped(c)) = c.files[VERSION]
  BY <1>1, ListsAssumption DEF bundleVersion, Shipped
<1>3. ASSUME NEW p \in Paths, Shipped(c)[p] # Absent, classify(p) = "framework"
      PROVE  Ships(c, p, frameworkFiles) /\ \A i \in DOMAIN p : p[i] \notin Dotted
  <2>1. matchesAny(p, FRAMEWORK_FILES) /\ \A i \in DOMAIN p : p[i] \notin Dotted
    BY <1>3 DEF classify
  <2>2. p # VERSION
    BY <2>1, FrameworkIsNothingElse, ListsAssumption
  <2>3. PICK e \in lists : matches(p, e) /\ (e.kind = "file" \/ p \notin c.links)
    BY <1>3 DEF Shipped, Ships
  <2>4. e \in frameworkFiles
    BY <2>2, <2>3 DEF lists, BUNDLE_ONLY_FILES, VERSION, File, matches
  <2> QED
    BY <1>3, <2>1, <2>3, <2>4 DEF Shipped, Ships
<1>4. ASSUME NEW p \in Paths, Ships(c, p, frameworkFiles),
             \A i \in DOMAIN p : p[i] \notin Dotted
      PROVE  Shipped(c)[p] # Absent /\ classify(p) = "framework"
  <2>1. matchesAny(p, FRAMEWORK_FILES)
    BY <1>4, ListsAssumption DEF Ships, matchesAny
  <2>2. ~ matchesAny(p, IGNORED_PATTERNS)
    BY <2>1, FrameworkIsNothingElse, ListsAssumption
  <2>3. Ships(c, p, lists)
    BY <1>4 DEF Ships, lists
  <2> QED
    BY <1>4, <2>1, <2>2, <2>3 DEF classify, Shipped, Ships
<1> QED
  BY <1>2, <1>3, <1>4 DEF listBundledFrameworkFiles, Shipped

-------------------------------------------------------------------------------
(* Types *)

USE DEF At, Goto, ReleaseOnly, Exited, NoJob, Begin

\* Every step keeps the types.
LEMMA TypeStep ==
  ASSUME TypeOK, [Next]_vars
  PROVE  TypeOK'
<1> USE DEF TypeOK, Files, RunType, JobType
<1>1. checkout \in Checkout /\ checkout.files \in Files
  BY CheckoutsAssumption DEF Checkout
<1>2. Empty \in Files
  BY DEF Empty
<1>3. ASSUME NEW code \in {0, 1, 137}, Exit(code)
      PROVE  (run \in RunType /\ job \in JobType)'
  BY <1>3 DEF Exit
<1>4. CASE RunByHand \/ StartRelease \/ ResolveTag
  BY <1>2, <1>4 DEF RunByHand, StartRelease, ResolveTag
<1>5. CASE ReadVersion
  <2>1. CASE checkout.files[VERSION] = Absent
    BY <1>3, <1>5, <2>1 DEF ReadVersion
  <2>2. CASE checkout.files[VERSION] # Absent
    <3>1. checkout.files[VERSION] \in Contents
      BY <1>1, <2>2, ListsAssumption
    <3>2. /\ run' = [run EXCEPT !.pc = "package", !.version = checkout.files[VERSION]]
          /\ UNCHANGED <<checkout, package, shrinkwrap, bundle, job, published, latest, runs>>
      BY <1>5, <2>2 DEF ReadVersion
    <3>3. run' \in RunType
      BY <3>1, <3>2
    <3> QED
      BY <3>2, <3>3
  <2> QED
    BY <2>1, <2>2
<1>6. CASE BumpPackage \/ BumpShrinkwrap
  BY <1>6 DEF BumpPackage, BumpShrinkwrap
<1>7. CASE ClearBundle
  BY <1>2, <1>7 DEF ClearBundle
<1>8. CASE Resolve
  <2> DEFINE expected(unread) == UNION {resolveEntry(checkout, e, unread) : e \in lists}
  <2>1. /\ UNCHANGED <<checkout, package, shrinkwrap, bundle, published, latest, runs>>
        /\ \E unread \in IF "readdir" \in Faults THEN SUBSET {e.at : e \in frameworkFiles} ELSE {{}} :
             \/ /\ run' = [run EXCEPT !.pc = "copying", !.expected = expected(unread),
                                     !.todo = expected(unread)]
                /\ job' = job
             \/ Exit(1)
    BY <1>8, Zenon DEF Resolve
  <2>2. CASE Exit(1)
    BY <1>3, <2>1, <2>2
  <2>3. ASSUME NEW unread, job' = job,
               run' = [run EXCEPT !.pc = "copying", !.expected = expected(unread),
                                  !.todo = expected(unread)]
        PROVE  TypeOK'
    <3>1. expected(unread) \subseteq Paths
      BY <1>1, ResolvedPaths
    <3>2. run' \in RunType
      BY <2>3, <3>1
    <3> QED
      BY <2>1, <2>3, <3>2
  <2> HIDE DEF TypeOK, expected
  <2> QED
    BY <2>1, <2>2, <2>3, Zenon
<1>9. CASE CopyFile
  BY <1>1, <1>9 DEF CopyFile
<1>10. CASE CompareBundle \/ Throws \/ Kill
  BY <1>3, <1>10 DEF CompareBundle, Throws, Kill
<1>11. CASE Publish \/ JobFails
  BY <1>11 DEF Publish, JobFails
<1>12. CASE UNCHANGED vars
  BY <1>12 DEF vars
<1> QED
  BY <1>4, <1>5, <1>6, <1>7, <1>8, <1>9, <1>10, <1>11, <1>12 DEF Next

\* The types hold at the start.
LEMMA TypeInit == Init => TypeOK
BY DEF Init, TypeOK, Files, RunType, JobType, Empty

(***************************************************************************)
(* Every variable of prepublish and of the release job keeps its type,      *)
(* whatever fails.                                                          *)
(***************************************************************************)
THEOREM TypeCorrect == Spec => []TypeOK
<1>1. TypeOK /\ [Next]_vars => TypeOK'
  BY TypeStep
<1> QED
  BY <1>1, TypeInit, PTL DEF Spec

-------------------------------------------------------------------------------
(* The bundle, the versions and the tag on their way to the registry *)

\* The version of a run past its first step is the checkout's.
VersionRead ==
  run.pc \in {"package", "shrinkwrap", "clearing", "resolving", "copying"} =>
    run.version = checkout.files[VERSION] /\ run.version # Absent

Bumped ==
  /\ run.pc \in {"shrinkwrap", "clearing", "resolving", "copying"} => package = run.version
  /\ run.pc \in {"clearing", "resolving", "copying"} => shrinkwrap \in {Absent, run.version}

\* A bundle being written is what is to be shipped but for what is still to do.
Copied ==
  /\ At("resolving") => bundle = Empty
  /\ At("copying") =>
       /\ run.expected = {p \in Paths : Ships(checkout, p, lists)}
       /\ run.todo \subseteq run.expected
       /\ bundle = [p \in Paths |-> IF p \in run.expected \ run.todo THEN checkout.files[p]
                                    ELSE Absent]
       /\ \A e \in lists \ OPTIONAL : exists(checkout, e)

\* A job that goes on has the checkout's version, and its bundle when no run is
\* under way; the tag it resolved still fits.
Releasing ==
  /\ job.at \in {"tagging", "packing", "publishing"} =>
       package = checkout.files[VERSION] /\ package \in Contents
  /\ job.at \in {"tagging", "publishing"} => At("exited") /\ bundle = Shipped(checkout)
  /\ job.at \in {"packing", "publishing"} =>
       job.saw \in {0, latest} /\ (job.tag = "latest" => package > job.saw)

Inv == TypeOK /\ VersionRead /\ Bumped /\ Copied /\ Releasing /\ InstallsTheFramework

\* The invariant holds at the start.
LEMMA InvInit == Init => Inv
BY TypeInit DEF Init, Inv, VersionRead, Bumped, Copied, Releasing, InstallsTheFramework

\* A run that ends leaves the job to go on with what it has done, or ends it.
LEMMA ExitStep ==
  ASSUME Inv, TypeOK', NEW code \in {0, 1, 137}, Exit(code), ~ At("exited"),
         UNCHANGED <<checkout, package, shrinkwrap, bundle, published, latest, runs>>,
         code = 0 => At("copying") /\ bundle = Shipped(checkout)
  PROVE  Inv'
<1> USE DEF Inv
<1>1. run' = Exited(code) /\ run'.pc = "exited"
  BY DEF Exit
<1>2. (VersionRead /\ Bumped /\ Copied)'
  BY <1>1 DEF VersionRead, Bumped, Copied
<1>3. \/ job' = NoJob
      \/ /\ code = 0
         /\ \/ job.at = "bundling" /\ job' = [job EXCEPT !.at = "tagging"]
            \/ job.at = "packing" /\ job' = [job EXCEPT !.at = "publishing"]
  BY DEF Exit
<1>4. Releasing'
  <2>1. CASE job' = NoJob
    BY <2>1 DEF Releasing
  <2>2. CASE code = 0 /\ job' # NoJob
    <3>1. package = checkout.files[VERSION] /\ package \in Contents
      BY <2>2, CheckoutsAssumption, ListsAssumption DEF VersionRead, Bumped, TypeOK, Checkout
    <3>2. bundle = Shipped(checkout) /\ Shipped(checkout)' = Shipped(checkout)
      BY <2>2 DEF Shipped, Ships
    <3>3. /\ job'.at \in {"tagging", "publishing"}
          /\ job'.at = "publishing" => job.at = "packing" /\ job'.tag = job.tag /\ job'.saw = job.saw
      BY <1>3, <2>2 DEF TypeOK, JobType
    <3> QED
      BY <1>1, <3>1, <3>2, <3>3 DEF Releasing
  <2> QED
    BY <1>3, <2>1, <2>2
<1>5. InstallsTheFramework'
  BY DEF InstallsTheFramework, bundleVersion, listBundledFrameworkFiles, Ships
<1> QED
  BY <1>2, <1>4, <1>5

\* Every step keeps the invariant.
LEMMA InvStep ==
  ASSUME "readdir" \notin Faults, Inv, [Next]_vars
  PROVE  Inv'
<1> USE DEF Inv
<1>1. TypeOK'
  BY TypeStep
<1>2. checkout \in Checkout /\ checkout.files \in Files
  BY CheckoutsAssumption DEF TypeOK, Checkout, Files
<1>3. published' = published => InstallsTheFramework'
  BY DEF InstallsTheFramework
<1> DEFINE Parts == (VersionRead /\ Bumped /\ Copied /\ Releasing)'
<1>4. CASE RunByHand \/ StartRelease
  <2>1. /\ run'.pc = "version"
        /\ job'.at \in {"none", "bundling"}
        /\ published' = published
    BY <1>4 DEF RunByHand, StartRelease, TypeOK, RunType, JobType
  <2>2. Parts
    BY <2>1 DEF VersionRead, Bumped, Copied, Releasing
  <2> QED
    BY <1>1, <1>3, <2>1, <2>2
<1>5. CASE ReadVersion
  <2>1. CASE checkout.files[VERSION] = Absent
    <3>1. Exit(1) /\ UNCHANGED <<checkout, package, shrinkwrap, bundle, published, latest, runs>>
      BY <1>5, <2>1 DEF ReadVersion
    <3> QED
      BY <1>1, <1>5, <3>1, ExitStep DEF ReadVersion
  <2>2. CASE checkout.files[VERSION] # Absent
    <3>1. /\ run' = [run EXCEPT !.pc = "package", !.version = checkout.files[VERSION]]
          /\ UNCHANGED <<checkout, package, shrinkwrap, bundle, job, published, latest>>
      BY <1>5, <2>2 DEF ReadVersion
    <3>2. run'.pc = "package" /\ run'.version = checkout.files[VERSION]
      BY <3>1 DEF TypeOK, RunType
    <3>3. Parts
      BY <1>5, <2>2, <3>1, <3>2 DEF VersionRead, Bumped, Copied, Releasing, ReadVersion
    <3> QED
      BY <1>1, <1>3, <3>1, <3>3
  <2> QED
    BY <2>1, <2>2
<1>6. CASE BumpPackage
  <2>1. /\ run.pc = "package" /\ run'.pc = "shrinkwrap" /\ run'.version = run.version
        /\ package' = run.version
        /\ UNCHANGED <<checkout, shrinkwrap, bundle, job, published, latest>>
    BY <1>6 DEF BumpPackage, TypeOK, RunType
  <2>2. run.version = checkout.files[VERSION] /\ run.version # Absent
    BY <2>1 DEF VersionRead
  <2>3. run.version \in Contents
    BY <1>2, <2>2, ListsAssumption DEF Files
  <2>4. Parts
    BY <2>1, <2>2, <2>3 DEF VersionRead, Bumped, Copied, Releasing
  <2> QED
    BY <1>1, <1>3, <2>1, <2>4
<1>7. CASE BumpShrinkwrap
  <2>1. /\ run.pc = "shrinkwrap" /\ run'.pc = "clearing" /\ run'.version = run.version
        /\ shrinkwrap' \in {Absent, run.version}
        /\ UNCHANGED <<checkout, package, bundle, job, published, latest>>
    BY <1>7 DEF BumpShrinkwrap, TypeOK, RunType
  <2>2. Parts
    BY <2>1 DEF VersionRead, Bumped, Copied, Releasing
  <2> QED
    BY <1>1, <1>3, <2>1, <2>2
<1>8. CASE ClearBundle
  <2>1. /\ run.pc = "clearing" /\ run'.pc = "resolving" /\ run'.version = run.version
        /\ bundle' = Empty
        /\ UNCHANGED <<checkout, package, shrinkwrap, job, published, latest>>
    BY <1>8 DEF ClearBundle, TypeOK, RunType
  <2>2. Parts
    BY <2>1 DEF VersionRead, Bumped, Copied, Releasing
  <2> QED
    BY <1>1, <1>3, <2>1, <2>2
<1>9. CASE Resolve
  <2> DEFINE resolved(unread) == UNION {resolveEntry(checkout, e, unread) : e \in lists}
             expected == resolved({})
  <2>1a. \E unread \in IF "readdir" \in Faults THEN SUBSET {e.at : e \in frameworkFiles} ELSE {{}} :
          \/ /\ missing(checkout, lists) \subseteq OPTIONAL
             /\ run' = [run EXCEPT !.pc = "copying", !.expected = resolved(unread),
                                  !.todo = resolved(unread)]
             /\ job' = job
          \/ Exit(1)
    BY <1>9, Zenon DEF Resolve
  <2> HIDE DEF resolved
  <2>1. /\ run.pc = "resolving"
        /\ UNCHANGED <<checkout, package, shrinkwrap, bundle, published, latest, runs>>
        /\ \/ /\ missing(checkout, lists) \subseteq OPTIONAL
              /\ run' = [run EXCEPT !.pc = "copying", !.expected = expected, !.todo = expected]
              /\ job' = job
           \/ Exit(1)
    BY <1>9, <2>1a DEF Resolve
  <2>2. CASE Exit(1)
    BY <1>1, <2>1, <2>2, ExitStep
  <2>3. CASE ~ Exit(1)
    <3>1. expected = {p \in Paths : Ships(checkout, p, lists)}
      BY <1>2, Resolved DEF resolved
    <3>1a. job' = job /\ run' = [run EXCEPT !.pc = "copying", !.expected = expected,
                                        !.todo = expected]
      BY <2>1, <2>3
    <3>2. /\ run'.pc = "copying" /\ run'.expected = expected /\ run'.todo = expected
          /\ run'.version = run.version /\ job' = job
      BY <3>1a DEF TypeOK, RunType
    <3>3. \A e \in lists \ OPTIONAL : exists(checkout, e)
      BY <2>1, <2>3 DEF missing
    <3>4. bundle' = [p \in Paths |-> IF p \in run'.expected \ run'.todo
                                     THEN checkout.files[p] ELSE Absent]
      BY <2>1, <3>2 DEF Copied, Empty
    <3>5. Copied'
      BY <2>1, <3>1, <3>2, <3>3, <3>4 DEF Copied, exists, Ships
    <3>6. (VersionRead /\ Bumped /\ Releasing)'
      BY <2>1, <3>2 DEF VersionRead, Bumped, Releasing
    <3> QED
      BY <1>1, <1>3, <2>1, <3>5, <3>6
  <2> QED
    BY <2>2, <2>3
<1>10. CASE CopyFile
  <2>1. PICK p \in run.todo : /\ bundle' = [bundle EXCEPT ![p] = checkout.files[p]]
                              /\ run' = [run EXCEPT !.todo = @ \ {p}]
    BY <1>10 DEF CopyFile
  <2>2. /\ run.pc = "copying" /\ run'.pc = "copying" /\ run'.version = run.version
        /\ run'.expected = run.expected /\ run'.todo = run.todo \ {p}
        /\ UNCHANGED <<checkout, package, shrinkwrap, job, published, latest>>
    BY <1>10, <2>1 DEF CopyFile, TypeOK, RunType
  <2>3. Copied'
    <3>1. p \in run.expected
      BY <2>1, <2>2 DEF Copied
    <3>2. bundle' = [q \in Paths |-> IF q \in run'.expected \ run'.todo
                                     THEN checkout.files[q] ELSE Absent]
      BY <2>1, <2>2, <3>1 DEF Copied
    <3> QED
      BY <2>2, <3>2 DEF Copied, exists, Ships
  <2>4. (VersionRead /\ Bumped /\ Releasing)'
    BY <2>2 DEF VersionRead, Bumped, Releasing
  <2> QED
    BY <1>1, <1>3, <2>2, <2>3, <2>4
<1>11. CASE CompareBundle
  <2>1. /\ run.pc = "copying" /\ run.todo = {}
        /\ UNCHANGED <<checkout, package, shrinkwrap, bundle, published, latest, runs>>
        /\ Exit(0) \/ Exit(1)
    BY <1>11 DEF CompareBundle
  <2>2. bundle = Shipped(checkout)
    BY <2>1 DEF Copied, Shipped
  <2> QED
    BY <1>1, <2>1, <2>2, ExitStep
<1>12. CASE Throws \/ Kill
  BY <1>1, <1>12, ExitStep DEF Throws, Kill
<1>13. CASE ResolveTag
  <2>1. /\ run'.pc = "version" /\ job'.at = "packing" /\ job.at = "tagging"
        /\ job'.saw \in {0, latest} /\ (job'.tag = "latest" => package > job'.saw)
        /\ UNCHANGED <<checkout, package, latest, published>>
    BY <1>13 DEF ResolveTag
  <2>2. Parts
    BY <2>1 DEF VersionRead, Bumped, Copied, Releasing
  <2> QED
    BY <1>1, <1>3, <2>1, <2>2
<1>14. CASE Publish
  <2>1. /\ job' = NoJob /\ job.at = "publishing"
        /\ UNCHANGED <<checkout, package, shrinkwrap, bundle, run>>
    BY <1>14 DEF Publish
  <2>2. Parts
    BY <2>1 DEF VersionRead, Bumped, Copied, Releasing, exists, Ships
  <2>3. /\ bundle = Shipped(checkout)
        /\ package = checkout.files[VERSION] /\ package # Absent
    BY <2>1, ContentsAssumption DEF Releasing
  <2>4. published' \subseteq published \cup
          {[version |-> package, files |-> bundle, from |-> checkout]}
    BY <1>14 DEF Publish
  <2>5. InstallsTheFramework'
    BY <1>2, <2>3, <2>4, ShippedFramework DEF InstallsTheFramework
  <2> QED
    BY <1>1, <2>2, <2>5
<1>15. CASE UNCHANGED vars
  BY <1>1, <1>3, <1>15 DEF vars, VersionRead, Bumped, Copied, Releasing, exists, Ships, Shipped
<1>16. CASE JobFails
  <2>1. /\ job' = NoJob
        /\ UNCHANGED <<checkout, package, shrinkwrap, bundle, run, published>>
    BY <1>16 DEF JobFails
  <2>2. Parts
    BY <2>1 DEF VersionRead, Bumped, Copied, Releasing, exists, Ships
  <2> QED
    BY <1>1, <1>3, <2>1, <2>2
<1> QED
  BY <1>4, <1>5, <1>6, <1>7, <1>8, <1>9, <1>10, <1>11, <1>12, <1>13, <1>14, <1>15, <1>16 DEF Next

(***************************************************************************)
(* Where every directory can be read, what a published version installs is  *)
(* the framework of the checkout it was published from, for any checkouts   *)
(* and lists, whatever runs and jobs fail or are killed before.             *)
(***************************************************************************)
THEOREM Installs ==
  ASSUME "readdir" \notin Faults
  PROVE  Spec => []InstallsTheFramework
<1>1. Inv /\ [Next]_vars => Inv'
  BY InvStep
<1>2. Inv => InstallsTheFramework
  BY DEF Inv
<1> QED
  BY <1>1, <1>2, InvInit, PTL DEF Spec

\* The step that exits 0 is the comparison of the bundle with what was resolved.
LEMMA ExactStep ==
  ASSUME Inv, [Next]_vars, At("copying"), run' = Exited(0)
  PROVE  /\ bundle = Shipped(checkout)
         /\ \A e \in lists \ OPTIONAL : exists(checkout, e)
         /\ package = checkout.files[VERSION]
         /\ shrinkwrap \in {package, Absent}
<1> USE DEF Inv
<1>1. run'.pc = "exited" /\ run'.code = 0
  OBVIOUS
<1>2. run.todo = {}
  <2>1. CASE CompareBundle
    BY <2>1 DEF CompareBundle
  <2>2. CASE Throws \/ Kill
    BY <1>1, <2>2 DEF Throws, Kill, Exit
  <2>3. CASE CopyFile
    <3>1. run'.pc = run.pc
      BY <2>3 DEF CopyFile, TypeOK, RunType
    <3> QED
      BY <1>1, <3>1
  <2>4. CASE Publish \/ JobFails \/ UNCHANGED vars
    BY <1>1, <2>4 DEF Publish, JobFails, vars
  <2>5. CASE RunByHand \/ ReadVersion \/ BumpPackage \/ BumpShrinkwrap \/ ClearBundle
              \/ Resolve \/ StartRelease \/ ResolveTag
    BY <2>5 DEF RunByHand, ReadVersion, BumpPackage, BumpShrinkwrap, ClearBundle, Resolve,
                StartRelease, ResolveTag
  <2> QED
    BY <2>1, <2>2, <2>3, <2>4, <2>5 DEF Next
<1>3. bundle = Shipped(checkout)
  BY <1>2 DEF Copied, Shipped
<1> QED
  BY <1>3 DEF Copied, VersionRead, Bumped

(***************************************************************************)
(* Where every directory can be read, a run of prepublish that exits 0      *)
(* leaves exactly the listed files, no required one missing, and one        *)
(* version in three places.                                                 *)
(***************************************************************************)
THEOREM ExitsExact ==
  ASSUME "readdir" \notin Faults
  PROVE  Spec => ExitZeroIsExact
<1>1. Inv /\ [Next]_vars => Inv'
  BY InvStep
<1>2. Inv /\ [Next]_vars =>
        [At("copying") /\ run' = Exited(0) =>
           /\ bundle = Shipped(checkout)
           /\ \A e \in lists \ OPTIONAL : exists(checkout, e)
           /\ package = checkout.files[VERSION]
           /\ shrinkwrap \in {package, Absent}]_vars
  BY ExactStep
<1> QED
  BY <1>1, <1>2, InvInit, PTL DEF Spec, ExitZeroIsExact

(***************************************************************************)
(* One release job at a time, in whatever order the tags are pushed and     *)
(* whichever jobs fail half way: the dist-tag `latest` is demoted only by a *)
(* job whose lookup of it failed.                                           *)
(***************************************************************************)
THEOREM LatestRises ==
  ASSUME "readdir" \notin Faults
  PROVE  Spec => LatestOnlyRises
<1>1. Inv /\ [Next]_vars => Inv'
  BY InvStep
<1>2. Inv /\ [Next]_vars => [latest' >= latest \/ job.saw = 0]_latest
  <2> SUFFICES ASSUME Inv, [Next]_vars, latest' # latest, job.saw # 0 PROVE latest' >= latest
    OBVIOUS
  <2>1. Publish
    <3>1. RunByHand \/ StartRelease \/ ResolveTag \/ JobFails => latest' = latest
      BY DEF RunByHand, StartRelease, ResolveTag, JobFails
    <3>2. ReadVersion \/ BumpPackage \/ BumpShrinkwrap \/ ClearBundle => latest' = latest
      BY DEF ReadVersion, BumpPackage, BumpShrinkwrap, ClearBundle
    <3>3. Resolve => latest' = latest
      BY DEF Resolve
    <3>4. CopyFile \/ CompareBundle \/ Throws \/ Kill => latest' = latest
      BY DEF CopyFile, CompareBundle, Throws, Kill
    <3>5. UNCHANGED vars => latest' = latest
      BY DEF vars
    <3> QED
      BY <3>1, <3>2, <3>3, <3>4, <3>5 DEF Next
  <2>2. latest' # latest
    OBVIOUS
  <2>3. job.at = "publishing" /\ latest' \in {latest, IF job.tag = "latest" THEN package ELSE latest}
    BY <2>1 DEF Publish
  <2>4. job.tag = "latest" /\ latest' = package
    BY <2>2, <2>3
  <2>5. package \in Contents \cup {0} /\ latest \in Contents \cup {0} /\ Releasing
    BY DEF Inv, TypeOK
  <2>6. package > latest
    BY <2>3, <2>4, <2>5 DEF Releasing
  <2> QED
    BY <2>4, <2>5, <2>6, ContentsAssumption
<1> QED
  BY <1>1, <1>2, InvInit, PTL DEF Spec, LatestOnlyRises
===============================================================================
