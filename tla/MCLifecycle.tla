------------------------------ MODULE MCLifecycle ------------------------------
(* Small instances of Lifecycle.                                             *)
EXTENDS Lifecycle, TLC

CONSTANTS p1, p2, f1, f2

Symmetry == Permutations(Procs)

\* f1 changes with the version; f2 comes with the second, or comes and goes.
TwoFiles == (0 :> (f1 :> "a0")) @@ (1 :> (f1 :> "a1" @@ f2 :> "b1"))
              @@ [v \in 2..3 |-> f1 :> "a2" @@ f2 :> "b1"]
ComesAndGoes == (0 :> (f1 :> "a0" @@ f2 :> "b0")) @@ (1 :> (f1 :> "a1"))
                  @@ (2 :> (f1 :> "a1" @@ f2 :> "b2"))
OneFile == [v \in 0..2 |-> f1 :> <<"a0", "a1", "a2">>[v + 1]]

Defaults ==
  [kind |-> "init", v |-> 0, dry |-> FALSE, force |-> FALSE, erase |-> FALSE,
   strategy |-> "none", to |-> 0, allow |-> FALSE, ack |-> FALSE, rule |-> "all"]
Inits(vs, forces, erases) ==
  {[Defaults EXCEPT !.v = v, !.force = force, !.erase = erase] :
     v \in vs, force \in forces, erase \in erases}
Updates(vs, strategies) ==
  {[Defaults EXCEPT !.kind = "update", !.v = v, !.strategy = s] : v \in vs, s \in strategies}
Migrates(v, tos, allows, acks) ==
  {[Defaults EXCEPT !.kind = "migrate", !.v = v, !.to = to, !.allow = allow, !.ack = ack] :
     to \in tos, allow \in allows, ack \in acks}
Doctors(vs, rules) ==
  {[Defaults EXCEPT !.kind = "doctor", !.v = v, !.rule = rule] : v \in vs, rule \in rules}
Dry(cs) == {[c EXCEPT !.dry = TRUE] : c \in cs}

No == {FALSE}
Strategies == {"none", "ours", "theirs", "merge"}

\* Installs, updates and doctors of three versions; no older init --force over a
\* newer install.
SerialCommands ==
  Inits({0, 1}, No, No) \cup Inits({2}, BOOLEAN, No) \cup Updates({0}, {"none"})
    \cup Updates({1, 2}, Strategies) \cup Dry(Updates({1}, {"none"}) \cup Inits({0}, No, No))
    \cup Doctors({0, 1, 2}, {"all"}) \cup Doctors({1}, {"framework-file-integrity", "unknown"})
    \cup {[Defaults EXCEPT !.kind = "version"]}
PairCommands ==
  Inits({0, 1}, BOOLEAN, No) \cup Updates({0, 1}, {"none", "theirs"})
    \cup Doctors({1}, {"all"})
\* init, update and migrate by the CLIs of the first and the last version.
FaultCommands ==
  Inits({0, 3}, BOOLEAN, BOOLEAN) \cup Updates({0}, {"none"}) \cup Updates({3}, {"none", "theirs"})
    \cup Migrates(3, {0, 1, 3}, BOOLEAN, BOOLEAN)
PlainUpdates == Inits({0}, No, No) \cup Updates({1}, {"none"})
DownAndUp == Inits({0}, No, No) \cup Migrates(2, 0..2, BOOLEAN, No)

\* planMigrations on every registry of at most two migrations, each leading to a
\* version the planner takes for later, with a pre-release among the versions.
ReleaseCandidate == [core |-> <<0, 1, 0>>, suffix |-> "rc", extra |-> <<1>>]
SomeVersions == {Semver(0), Semver(1), Semver(2), ReleaseCandidate}
Scripts == {m \in [from : SomeVersions, to : SomeVersions] : cmpSemver(m.from, m.to) < 0}
Registries == UNION {[1 .. n -> Scripts] : n \in 0 .. 2}

\* What is planned leads from the one version to the other, step by step, and the
\* search ends.
ASSUME PlansArePaths ==
  \A r \in Registries, from, to \in SomeVersions :
    LET plan == planMigrations(from, to, r)
        n == Len(plan.steps)
        Leaves(m) == IF plan.direction = "up" THEN m.from ELSE m.to
        Arrives(m) == IF plan.direction = "up" THEN m.to ELSE m.from
    IN  /\ plan # Looping
        /\ n > 0 => /\ Leaves(plan.steps[1]) = from /\ Arrives(plan.steps[n]) = to
                    /\ \A i \in 2 .. n : Leaves(plan.steps[i]) = Arrives(plan.steps[i - 1])

\* The two comparisons agree but for a suffix: the planner takes 0.1.0-rc.1 for later
\* than 0.1.0, and the commands take them for equal.  Nothing is planned downwards
\* that --allow-downgrade is not asked for, while every migration raises the x.y.z.
ASSUME DownwardPlansNeedOptIn ==
  /\ cmpSemver(ReleaseCandidate, Semver(1)) = 1
  /\ compareSemver(ReleaseCandidate, Semver(1)) = 0
  /\ \A r \in Registries, from, to \in SomeVersions :
       LET plan == planMigrations(from, to, r)
       IN  /\ plan.direction = "down"
           /\ \A i \in DOMAIN r : compareSemver(r[i].from, r[i].to) < 0
           => compareSemver(to, from) < 0
================================================================================
